SPECIFICATION FairSpec
CONSTANTS
    Clients = {poll, http}
    Owners = {poll}
    Sockets = {s1, s2}
    Blocks = {b1, b2}
    Framing = "tcp"
    MaxPipe = 2
    Nobody = Nobody
    NoSocket = NoSocket
    NoBlock = NoBlock
INVARIANTS
    TypeOK
    NoInterleaving
    NoUseAfterClose
    NoLeak
PROPERTIES
    ImplementsService
    CallsReturn
