SPECIFICATION FairSpec
CONSTANTS
    EarnRoundsShort = {}
    User = {ann, bob}
    Grant = 2
    Job = {j1, j2}
    Amounts = {1, 2}
    Charge = {3, 10}
    AccScale = 60
    Hash = {h1}
    Worth = {2}
    Confirmations = 2
    Claim = {c1, c2}
    Withdrawal = {w1, w2}
    MinRequest = 1
    MaxPerRequest = 2
    MaxPerDay = 3
    NoUser = NoUser
    Caller = {p1, p2, p3}
    TTL = 3
    Timeout = 1
    Address = {x, y}
    NoAddress = NoAddress
    ChallengeTTL = 1
    Rates = {0, 1000, 990, 900}
    Workload <- OneDeposit
PROPERTIES
    AskedIsCredited
CHECK_DEADLOCK FALSE
