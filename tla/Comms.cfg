SPECIFICATION FairSpec
CONSTANTS
    ann = ann  bob = bob
    a = a  b = b
    ka = ka  kb = kb  kb2 = kb2
    User = {ann, bob}
    Device = {a, b}
    Key = {ka, kb, kb2}
    NoKey = NoKey
    OwnerOf <- MCOwnerOf
    KeysOf <- MCKeysOf
    MaxMessages = 2
    MaxGhosts = 1
    Writer = {a}
    MaxTs = 1
    MaxDrops = 1
INVARIANTS
    TypeOK
    OnlineHasNoBacklog
    SealedToAddressee
    UnreadableOnlyAfterRekey
    ThreadInOrder
PROPERTIES
    RelayImplemented
    StoreAndForward
CHECK_DEADLOCK FALSE
