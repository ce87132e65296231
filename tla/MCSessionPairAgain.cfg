SPECIFICATION Spec
CONSTANTS
    Host = Host
    Client = Client
INVARIANT
    CanPairAgain
