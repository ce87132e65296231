SPECIFICATION Spec
CONSTANTS
    Host = Host
    Client = Client
INVARIANTS
    SessionInv
    RevocationReachesSession
    DrivenOnlyByTrusted
    PairingIsInStep
PROPERTIES
    TrustNeedsBothUsers
    EndsTogether
    DisconnectObeyed
