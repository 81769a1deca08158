SPECIFICATION Spec
CONSTANTS
    q1 = q1
    q2 = q2
    q3 = q3
    ann = ann
    bob = bob
    L1 = L1
    a1 = a1
    a2 = a2
    t1 = t1
    t2 = t2
    native = native
    echoing = echoing
    tab1 = tab1
    llm = llm
    pic = pic
    echo = echo
    Call <- MCCall
    Host = {native, echoing, tab1}
    Models <- MCModels
    Images <- MCImages
    Agents = {native}
    External = ari
    EchoModel = echo
    ImageModel = pic
    Request = {r1, r2}
    Prompt = {a1, a2}
    Way <- MCWay
    Size <- MCSize
    Socket = {s1, s2}
    NoSocket = NoSocket
    Conn = {n1, n2, n3}
    Question <- MCQuestion
    Asker <- MCAsker
    EnvKey = {k1, k2}
    OwnKey = OwnKey
    NoKey = NoKey
    Convo = {c1, c2}
    NoConvo = NoConvo
    Stored = 1
    Runner = {r1}
    Handle = {ann, bob}
    NoHandle = NoHandle
    Code = {L1, L2}
    NoCode = NoCode
    Mentions <- MCMentions
    PageSize = 2
    DailyCap = 2
    DailyLimit = 1
    Tier1 = 1
    Tier2 = 2
    Balances = {0, 1, 2}
    Outcomes = {"COMPLETE"}
    Workload <- Following
INVARIANT VerifiedMeansProved
CHECK_DEADLOCK FALSE
