SPECIFICATION FairSpec
CONSTANTS
    alice = alice  bob = bob
    c1 = c1  c2 = c2  c3 = c3  img = img  ag = ag  ari = ari  sum = sum
    w1 = w1  w2 = w2
    s1 = s1  s2 = s2  s3 = s3
    Job = {c1, ag, ari, sum}
    Worker = {w1}
    Socket = {s1, s2}
    NoSocket = NoSocket
    NoWorker = NoWorker
    JobUser <- MCUser
    JobKind <- MCKind
    JobModel <- MCModel
    PromptTokens <- MCPromptTokens
    MaxTokens <- MCMaxTokens
    Serves <- MCServes
    AgentCapable = {w1}
    Usage = {300, 612}
    MAX_ITERS = 2
    MaxRestarts = 0
    Deposited <- MCPoor
    TotalStaked = 10
    EarnRoundsShort <- MCEarnRoundsShort
INVARIANTS
    ReservationHasOwner
    NoOverdraft
PROPERTIES
    EventuallyAnswered
CHECK_DEADLOCK FALSE
