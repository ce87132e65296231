SPECIFICATION Spec
CONSTANTS
    Host = Host
    Client = Client
PROPERTY
    ReaderEnds
