\* Two phones, two pads, a network that loses, repeats and reorders.
SPECIFICATION Spec
CONSTANTS
    k1 = k1
    k2 = k2
    K2 = K2
    g1 = g1
    g2 = g2
    fa = fa
    fb = fb
    fc = fc
    Guids = {g1, g2}
    NullGuid = NullGuid
    Limit16 = 2
    Limit32 = 4
    Limit64 = 16
    Limit8 = 2
    Keys = {k1, k2, K2}
    NoKey = NoKey
    GuidOf <- Guid
    HexOf <- Hex
    Sender = Sender
    Receiver = Receiver
    FilesOf <- Directory
    KeysIn <- Listed
    EncryptKeysIn <- Encrypts
    NoFile = NoFile
    CallersOf <- Calling
    window = window
    handshake = handshake
    TotalBytes = 5
    Sizes = {0, 1, 4}
    MaxLinks = 2
    MaxSent = 2
INVARIANTS
    TypeOK
    HeardAsSent
    SessionSpeaksItsKey
    ListedKeysStayValid
CHECK_DEADLOCK FALSE
