SPECIFICATION FairSpec
CONSTANTS
    alice = alice  bob = bob
    c1 = c1  c2 = c2  c3 = c3  img = img  ag = ag  ari = ari  sum = sum
    w1 = w1  w2 = w2
    s1 = s1  s2 = s2  s3 = s3
    Job = {c1}
    Worker = {w1}
    Socket = {s1, s2}
    NoSocket = NoSocket
    NoWorker = NoWorker
    JobUser <- MCUser
    JobKind <- MCKind
    JobModel <- MCModel
    PromptTokens <- MCPromptTokens
    MaxTokens <- MCMaxTokens
    Serves <- MCServes
    AgentCapable = {w1}
    Usage = {300}
    MAX_ITERS = 2
    MaxRestarts = 1
    Deposited <- MCRich
    TotalStaked = 10
    EarnRoundsShort <- MCEarnRoundsShort
PROPERTY EventuallyAnswered
CHECK_DEADLOCK FALSE
