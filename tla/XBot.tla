-------------------------------- MODULE XBot --------------------------------
(***************************************************************************)
(* The X bot (scripts/xbot-run.ts, xbot.ts): a runner that reads the        *)
(* mentions after its cursor, and for each of them links a handle, helps,   *)
(* or asks Aristotle for a proof if the token gate and the quota allow it.  *)
(* A runner is a process of its own over the same database: it may be       *)
(* started while another one runs, and may die anywhere.                   *)
(***************************************************************************)
EXTENDS Aristotle

CONSTANTS
    Runner,         \* processes that may run at the same time
    Handle,         \* X accounts
    NoHandle,
    Code, NoCode,   \* link codes
    Mentions,       \* the mentions that will be made, oldest first: who, and
                    \* what parseCommand finds in the text
    PageSize,       \* max_results
    DailyCap,       \* X_BOT_DAILY_CAP, which bounds one run
    DailyLimit,     \* XBOT_TIER1_DAILY
    Tier1, Tier2,   \* thresholds of the token gate
    Balances        \* what a wallet may hold when it is looked at

ASSUME XBotAssumption ==
    /\ Mentions \in Seq([handle : Handle, code : Code \cup {NoCode},
                         slash : {"none", "/help", "/prove"}, body : BOOLEAN])
    /\ NoHandle \notin Handle /\ NoCode \notin Code
    /\ PageSize \in Nat \ {0} /\ DailyCap \in Nat /\ DailyLimit \in Nat
    /\ Tier1 \in Nat /\ Tier2 \in Nat /\ Tier1 <= Tier2 /\ Balances \subseteq Nat
    \* A call of solve is one runner's, for one mention.
    /\ Runner \X DOMAIN Mentions \subseteq Asker

VARIABLES
    posted,     \* how many of the mentions have been made
    cursor,     \* x_bot_state.last_mention_id
    requests,   \* x_requests
    replies,    \* X: how many replies each mention has
    linkedTo,   \* x_links: the handle that tweeted each code
    codes,      \* x_links: the codes that were issued to the user, in order
    linkPanel,  \* the user's panel: its phase, and the status it shows
    run,        \* run[r]: where runner r is
    today       \* days since the epoch

botVars == <<posted, cursor, requests, replies, linkedTo, codes, linkPanel, run, today>>

Off == [phase |-> "off", todo |-> <<>>, handled |-> 0]
NoRequest == [status |-> "none"]

BotInit ==
    /\ posted = 0
    /\ cursor = 0
    /\ requests = [t \in DOMAIN Mentions |-> NoRequest]
    /\ replies = [t \in DOMAIN Mentions |-> 0]
    /\ linkedTo = [c \in Code |-> NoHandle]
    /\ codes = <<>>
    /\ linkPanel = [phase |-> "idle", code |-> NoCode, handle |-> NoHandle]
    /\ run = [r \in Runner |-> Off]
    /\ today = 0

Mentioned ==
    /\ posted < Len(Mentions)
    /\ posted' = posted + 1
    /\ UNCHANGED <<ariVars, cursor, requests, replies, linkedTo, codes, linkPanel, run, today>>

Issued == {codes[i] : i \in DOMAIN codes}

\* startLink, once the wallet is connected: POST /x/link/start.
StartLink(c) ==
    /\ linkPanel.phase # "creating" /\ linkPanel.code = NoCode
    /\ c \notin Issued
    /\ codes' = Append(codes, c)
    /\ linkPanel' = [linkPanel EXCEPT !.phase = "creating"]
    /\ UNCHANGED <<ariVars, posted, cursor, requests, replies, linkedTo, run, today>>

\* The reply is lost: the code was issued all the same.
StartLinkFails ==
    /\ linkPanel.phase = "creating"
    /\ linkPanel' = [linkPanel EXCEPT !.phase = "error"]
    /\ UNCHANGED <<ariVars, posted, cursor, requests, replies, linkedTo, codes, run, today>>

\* GET /x/link/status: the newest code, and who tweeted it.
LinkStatus == LET c == codes[Len(codes)] IN [code |-> c, handle |-> linkedTo[c]]

\* loadStatus, after startLink, at the button or when the panel opens.
LoadStatus ==
    /\ codes # <<>>
    /\ linkPanel' = [phase |-> "idle", code |-> LinkStatus.code, handle |-> LinkStatus.handle]
    /\ UNCHANGED <<ariVars, posted, cursor, requests, replies, linkedTo, codes, run, today>>

Midnight ==
    /\ today' = today + 1
    /\ UNCHANGED <<ariVars, posted, cursor, requests, replies, linkedTo, codes, linkPanel, run>>

\* main: the cursor is read, then the mentions are asked for.
StartRun(r) ==
    /\ run[r].phase = "off"
    /\ run' = [run EXCEPT ![r] = [phase |-> "fetching", since |-> cursor, handled |-> 0]]
    /\ UNCHANGED <<ariVars, posted, cursor, requests, replies, linkedTo, codes, linkPanel, today>>

\* Mutant of Page: as they come, newest first.
MutPage(since) ==
    [i \in 1 .. (IF posted - since < PageSize THEN posted - since ELSE PageSize)
       |-> posted + 1 - i]

\* The newest mentions after the cursor, oldest first.
Page(since) ==
    LET first == IF posted - since < PageSize THEN since ELSE posted - PageSize
    IN  [i \in 1 .. posted - first |-> first + i]

FetchMentions(r) ==
    /\ run[r].phase = "fetching"
    /\ run' = [run EXCEPT ![r] = [phase |-> "next", todo |-> Page(@.since), handled |-> 0]]
    /\ UNCHANGED <<ariVars, posted, cursor, requests, replies, linkedTo, codes, linkPanel, today>>

Goto(r, phase) == run' = [run EXCEPT ![r].phase = phase]

\* logXRequest: INSERT OR IGNORE.
Log(t, status, tier) ==
    requests' = IF requests[t].status # "none" THEN requests
                ELSE [requests EXCEPT ![t] =
                        [status |-> status, day |-> today, tier |-> tier]]

\* Mutant of Bind: a code that was used is bound again.
MutBind(c, h) == linkedTo' = IF c \in Issued THEN [linkedTo EXCEPT ![c] = h] ELSE linkedTo

\* verifyXLinkCode: a code that was issued, once.
Bind(c, h) ==
    linkedTo' = IF c \in Issued /\ linkedTo[c] = NoHandle
                THEN [linkedTo EXCEPT ![c] = h] ELSE linkedTo

Linked(h) == \E c \in Code : linkedTo[c] = h

\* parseCommand: a code anywhere comes first, and a proof needs a statement.
Command(text) ==
    IF text.code # NoCode THEN text.code
    ELSE IF text.slash = "/prove" /\ text.body THEN "prove"
    ELSE IF text.slash \in {"/help", "/prove"} THEN "help" ELSE "none"

\* xRequestSeen, or no command.
Skipped(t) == requests[t].status # "none" \/ Command(Mentions[t]) = "none"

\* The loop up to the next await.  The cursor moves first.
TakeMention(r) ==
    /\ run[r].phase = "next"
    /\ run[r].todo # <<>> /\ run[r].handled < DailyCap
    /\ LET t == Head(run[r].todo)
           cmd == Command(Mentions[t])
           h == Mentions[t].handle
       IN  /\ cursor' = t
           /\ \/ /\ Skipped(t)
                 /\ run' = [run EXCEPT ![r].todo = Tail(@)]
                 /\ UNCHANGED <<requests, linkedTo>>
              \/ /\ ~Skipped(t) /\ cmd \in Code
                 /\ Bind(cmd, h)
                 /\ Log(t, IF linkedTo'[cmd] = h THEN "replied" ELSE "rejected", "none")
                 /\ Goto(r, "replying")
              \/ /\ ~Skipped(t) /\ cmd = "help"
                 /\ Log(t, "replied", "none")
                 /\ Goto(r, "replying")
                 /\ UNCHANGED linkedTo
              \/ /\ ~Skipped(t) /\ cmd = "prove" /\ ~Linked(h)
                 /\ Log(t, "rejected", "none")
                 /\ Goto(r, "replying")
                 /\ UNCHANGED linkedTo
              \/ /\ ~Skipped(t) /\ cmd = "prove" /\ Linked(h)
                 /\ Goto(r, "gating")
                 /\ UNCHANGED <<requests, linkedTo>>
    /\ UNCHANGED <<ariVars, posted, replies, codes, linkPanel, today>>

\* The page is done, or the cap of one run reached.
EndRun(r) ==
    /\ run[r].phase = "next"
    /\ run[r].todo = <<>> \/ run[r].handled >= DailyCap
    /\ run' = [run EXCEPT ![r] = Off]
    /\ UNCHANGED <<ariVars, posted, cursor, requests, replies, linkedTo, codes, linkPanel, today>>

\* balanceOf: what the wallet holds; what cannot be read counts as 0.
BalanceOf == Balances \cup {0}

TierFor(held) ==
    IF held >= Tier2 THEN "unlimited" ELSE IF held >= Tier1 THEN "limited" ELSE "none"

\* Mutant of RequestsToday: only what was replied to counts.
MutRequestsToday(h) ==
    Cardinality({t \in DOMAIN Mentions :
        Mentions[t].handle = h /\ requests[t].status = "replied" /\ requests[t].day = today})

\* xRequestsToday
RequestsToday(h) ==
    Cardinality({t \in DOMAIN Mentions :
        /\ Mentions[t].handle = h
        /\ requests[t].status \in {"accepted", "replied"}
        /\ requests[t].day = today})

\* The gate has answered, and the day's requests are counted: reject, or go on to
\* accept in that tier.
Gated(r) ==
    /\ run[r].phase = "gating"
    /\ \E held \in BalanceOf :
         LET t == Head(run[r].todo)
             tier == TierFor(held)
             refused == \/ tier = "none"
                        \/ tier = "limited" /\ RequestsToday(Mentions[t].handle) >= DailyLimit
         IN  \/ refused /\ Log(t, "rejected", "none") /\ Goto(r, "replying")
             \/ ~refused /\ Goto(r, tier) /\ UNCHANGED requests
    /\ UNCHANGED <<ariVars, posted, cursor, replies, linkedTo, codes, linkPanel, today>>

\* The call of solve for the mention r is on.
ProofOf(r) == <<r, Head(run[r].todo)>>

\* Accepted, and the proof asked for.  Nothing keeps what was counted from having
\* changed: another run is another process.
Accept(r) ==
    /\ run[r].phase \in {"limited", "unlimited"}
    /\ Log(Head(run[r].todo), "accepted", run[r].phase)
    /\ Goto(r, "proving")
    /\ Solve(ProofOf(r), NoProject)
    /\ UNCHANGED <<projects, posted, cursor, replies, linkedTo, codes, linkPanel, today>>

\* The proof came, or did not.
Proved(r) ==
    /\ run[r].phase = "proving"
    /\ solve[ProofOf(r)].phase = "returned"
    /\ solve' = [solve EXCEPT ![ProofOf(r)] = Done]
    /\ requests' = [requests EXCEPT ![Head(run[r].todo)].status =
                      IF solve[ProofOf(r)].result = "error" THEN "failed" ELSE "replied"]
    /\ Goto(r, "replying")
    /\ UNCHANGED <<projects, posted, cursor, replies, linkedTo, codes, linkPanel, today>>

\* reply: posted, or refused by X, which is only logged.
Reply(r) ==
    /\ run[r].phase = "replying"
    /\ LET t == Head(run[r].todo) IN
         replies' \in {replies, [replies EXCEPT ![t] = @ + 1]}
    /\ run' = [run EXCEPT ![r] = [phase |-> "next", todo |-> Tail(@.todo),
                                  handled |-> @.handled + 1]]
    /\ UNCHANGED <<ariVars, posted, cursor, requests, linkedTo, codes, linkPanel, today>>

\* The process dies, or an error of the network ends main.
Die(r) ==
    /\ run[r].phase # "off"
    /\ run' = [run EXCEPT ![r] = Off]
    /\ solve' = [a \in Asker |->
                   IF run[r].phase = "proving" /\ a = ProofOf(r)
                   THEN Done ELSE solve[a]]
    /\ UNCHANGED <<projects, posted, cursor, requests, replies, linkedTo, codes, linkPanel, today>>

RunStep(r) ==
    \/ FetchMentions(r) \/ TakeMention(r) \/ EndRun(r)
    \/ Gated(r) \/ Accept(r) \/ Proved(r) \/ Reply(r)
=============================================================================
