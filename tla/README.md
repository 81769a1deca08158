# Open Communication (`0_C`) in TLA+

A verification development of Open Communication: what the orchestrator does with
jobs, workers, credits, messages and proofs, and what its clients make of it,
model-checked with TLC on small instances and, for the results below, proved with
TLAPS for all of them. Paths are relative to the repository; `engine.ts`,
`agent.ts`, `registry.ts`, `server.ts`, `eth.ts`, `payout.ts`, `price.ts`,
`attest.ts`, `tools.ts`, `tokengate.ts` and `xbot.ts` are those of
`apps/orchestrator/src`, `db/index.ts` and `schema.ts` those of
`packages/db/src`, pages and panels those of `apps/web`.

## The system

The orchestrator is one Node process over one SQLite file. Everything it does is
a synchronous handler, or an async one whose awaits let others in between. Its
clients are web pages, HTTP callers, workers and two scheduled scripts.

| Part | State it keeps | Operations | Talks to |
|---|---|---|---|
| Pricing (`packages/credits`) | none | token price, reservation, settlement, worker share, staking fee | called by the job ledger and the engines |
| Job ledger (`db/index.ts`, `schema.ts`) | `jobs`, `ledger_entries`, `staking_state`; a balance is a sum of entries | `reserve`, `settle`, `refund`, `ensureUser` | called by everything that moves credits |
| Inference engine (`engine.ts`) | `active`, `queue`, a timer per queued job | `submit`, `schedule`, `failQueued`, `onWorkerToken/Media/Done/Error/Gone` | workers by socket messages, callers by a sink |
| Worker registry (`registry.ts`) | an entry per connection, its `busy` flag | `add`, `remove`, `pickIdle`, `modelCatalog` | shared by both engines: each marks and frees workers |
| Agent engine and tools (`agent.ts`, `tools.ts`) | the local variables of each suspended run | `run`: turns on a worker, tools on the orchestrator | workers, search services, Aristotle |
| Aristotle job and client (`server.ts`, `aristotle.ts`) | suspended calls; a project per conversation | `runAristotleJob`, `solve` | an external service, polled |
| Attestations (`attest.ts`, `packages/crypto`) | a signing key, a signed record per proof | sign, serve, back-fill, verify on the proof page | called by the Aristotle job |
| Workers (`apps/worker-native`, the contribute page) | what they run; what their client buffered while disconnected | register, stream, report | the orchestrator by Socket.IO |
| Messaging relay (`server.ts`, `db/index.ts`) and messages page | `messages` with a delivered mark, `public_keys`, who is online; keys and threads of a browser | send, deliver, sync, publish and fetch keys; seal, open | each other by Socket.IO |
| Deposits (`eth.ts`, `db/index.ts`) and deposit panel | entries with a transaction hash, an address index per user | send, verify and credit, allocate | a wallet, an Ethereum node |
| Withdrawals (`payout.ts`, `server.ts`, `db/index.ts`) and dashboard | `withdrawals`; what a page shows | request, pay, mark paid, failed or for review | an Ethereum node, the price feed |
| Staking (`db/index.ts`) | `stakes`, `staking_state` | stake, unstake, claim; `settle` adds rewards | the job ledger |
| Price feed (`price.ts`) | one cached price | ask, from two sources | every handler that converts |
| Wallet link (`server.ts`, wallet panel) | a wallet per account | challenge, sign, link, unlink | a wallet |
| X bot (`scripts/xbot-run.ts`, `xbot.ts`, `tokengate.ts`) and link panel | a cursor, a row per handled mention, link codes | one run of a cron job; link a handle | X, the Aristotle client, the database |
| Keeper (`scripts/keeper.ts`) | none; the treasury's tokens | quote, swap, burn | an Ethereum node |

`PROJECT.json` lists them all as components, with what each model leaves out.

**What is hard.** Each handler is atomic, so the difficulty is the order of
handlers, and what happens between the awaits of one.

- A job ends by a report, an error report, a timer, a disconnection or an
  exception in an async run, several of them can be under way for one job, and
  the database checks nothing about its earlier fate. A worker's identity is its
  *connection*; the process behind it outlives connections and buffers its
  reports. The orchestrator's memory does not survive a restart, its database does.
- A message is marked delivered when it is emitted, so nothing but the connection
  carries it from there; and a user counts as online until its socket's
  disconnection is noticed.
- A deposit is verified against a chain that may reorganise, by requests that may
  be repeated and overlap. A payout is known only through calls that may fail after
  they took effect, in a process that may die.
- A proof takes minutes. Its conversation's project is read before and written
  after, while the page reloads, drops conversations and asks again.
- Two runs of a script overlap, or one dies in the middle.

**What makes each part correct.**

- *Job ledger and engines*: every admitted job is settled or refunded once, its
  owner's entries add up to its charge, and the caller is told exactly that; no
  account is overdrawn; serving mints no credits; no job is forgotten; jobs for a
  model are served in order; each is eventually answered.
- *Streams*: an answer that ends well is whole, in order and ended once.
- *Messaging*: a message accepted for a user reaches that user, in order, once,
  sealed to that user's key.
- *Accounts*: no sequence of operations makes credits; a transaction is credited at
  most once and to one user; credits go back only if nothing was paid; no sequence
  cashes out more than deposits and earnings; each staker gets its share of each fee.
- *Proof agent*: what is signed as verified was proved in that very run (which
  `wrong_proof` refutes of follow-ups), keeps verifying, and no thread sees another's
  context; prompts leave the network only
  where the user was shown so.
- *X bot*: each mention answered once; quotas hold; a code binds one handle.

## The modules

Three compositions. They share no state that the properties need: `Engine` has
the life of a job and its money; `Accounts` abstracts a job to reserve, settle,
refund; `Assistant` leaves money out.

| Module | Models |
|---|---|
| `Credits` | the arithmetic of `packages/credits` |
| `JobStore` | the three job transactions, balances, the provider's and the stakers' entries |
| `Engine` | the engine, registry, agent runs, Aristotle jobs, worker processes and connections over `JobStore` |
| `JobLedger` | abstract: what a job's owner is promised about money and outcome |
| `EngineMC`; `CreditsProofs`, `JobLedgerProofs`, `EngineProofs` | constants and symmetry for TLC; theorems |
| `SealedBox` | `seal` and `open` of `packages/crypto`, symbolically |
| `CommsRelay` | the `/comms` handlers, the message table, the key directory, presence |
| `MessagesPage` | the messages page and its key store over `CommsRelay` |
| `MessageRelay` | abstract: what a store-and-forward relay promises |
| `MessagesMC`; `MessagesProofs` | constants for TLC; theorems, those of `SealedBox` among them |
| `Ledger` | users, grants, balances as sums of entries, jobs' reservations |
| `Staking`, `Deposits`, `Withdrawals` | each on `Ledger`; `Deposits` with its panel and the chain, `Withdrawals` with the payout |
| `Dashboard` | one browser: session, polled numbers, the withdraw panel, on `Withdrawals` |
| `PriceFeed`, `Wallets`, `Keeper` | the price cache, the wallet link (with the feed's clock), the buyback |
| `Accounts`; `AccountsMC`; `AccountsProofs`, `MoneyProofs` | their composition; workloads for TLC; theorems, about each part and about the credits |
| `Aristotle` | the client: projects, tasks, polling, the service |
| `Attest` | records, signatures, keys that rotate, the proof page |
| `Conversations` | the chat page, `/infer` and `runAristotleJob` over `Aristotle` and `Attest` |
| `XBot` | the bot's runs, the gate, link codes and their panel over `Aristotle` |
| `Tools`, `Catalog` | the agent's tools over `Aristotle`; registered models, the pages' menus, and where a prompt goes |
| `Streaming` | tokens from a worker through the engine and the sinks to callers |
| `Assistant`; `AssistantMC`; `StreamingProofs`, `AssistantProofs` | their composition; workloads for TLC; theorems, about the streams and about the rest |

### `Engine`

| TLA+ | Code |
|---|---|
| `row[j]` | the row of `jobs`, with `net`, the sum of its owner's `ledger_entries` with `ref = j` |
| `earned`, `lifetimeRewards` | `earn` entries per provider; `staking_state.lifetime_rewards` |
| `outcome[j]` | the last call on the job's sink, or the failed acknowledgement of a rejected submission |
| `active`, `assigned`, `timers` | `active` map, `workerSocketId`, `queueTimer` |
| `queue`, `ahead` | the array `queue`, as a set and, for each member, the members before it |
| `registry[s]` | no entry, `busy = false`, `busy = true` |
| `agent[j]`, `solving` | a run suspended at the turn's acknowledgement or among its tools; a call of `aristotle.solve` |
| `link`, `owner`, `up`, `sendBuffer`, `running` | a connection's life, the worker behind it, packets on their way, the client's send buffer, the jobs a process works on |

Each handler is one action: `Submit`, `FailQueued`, `Receive` (with
`OnWorkerDone`, `OnWorkerError` and `Register` by message type), `Disconnect`
(`remove` and `OnWorkerGone`), each with the call of `schedule()` it ends in.
`Schedule` takes the values its caller has just computed and describes one pass
over the queue by its result: an assignment of idle workers to waiting jobs in
which a job stays behind only if the jobs ahead of it took every worker that
could serve it. `AgentEngine.run` is cut at its awaits: `StartAgent`,
`AgentReply`, `AgentTimeout`, `AgentTools`. `runAristotleJob` is `StartAristotle`
and `AristotleReturns`, or `AnswerArithmetic` where it does not await.

The environment: `Connect` sends what the Socket.IO client buffered before the
"connect" handler registers the worker; `Report` puts the end of a job on the
connection or in the buffer; `LinkDrop` and `WorkerCrash` lose what was in
flight and leave the connection half open until `Disconnect`; `Restart` empties
the orchestrator's memory and keeps its database and the workers' processes.

Abstractions, each with what it gives up:

- Which idle worker is chosen is free (the code takes the fastest): the
  properties hold for every choice.
- A job's token total is one of `Usage`; texts, tokens and media are left out.
- Packets from a connection the orchestrator has not seen close yet are either
  handled before the drop or lost with it; a dispatch lost in flight is one sent
  after the drop.
- Amounts are integers. The doubles of `packages/credits` agree with them, but
  for `Math.floor(charge * 0.7)`, which falls one short at some multiples of ten
  (90, 170, 180, ...): the constant `EarnRoundsShort`.
- The Aristotle price is the default, not an `ARISTOTLE_CREDITS` override.
- `maxTokens` is a natural number. `JobSubmit` ensures it on the socket; the REST
  endpoint passes `max_tokens` on as it comes (`server.ts:827`, `861`).
- A job id is submitted once. (A second use fails on the primary key.)

### `MessagesPage` over `CommsRelay`

`messages`, `delivered` and `keys` are the tables; `live` and `ghosts` the
`ConnectionRegistry`: a connection whose client is gone stays registered, and
swallows what is emitted to it, until its `disconnect` event (`OnDisconnect`).
`uplink` and `downlink` are packets on a connection, in order, lost with it;
`buffer` is Socket.IO's. `OnConnection`, `OnDmSend`, `OnDmSync`, `OnKeyPublish` and
`OnKeyFetch` are the handlers, each with the whole of `deliverPending` where it
calls it. The page's `identity`, `keyCache` and `thread` are IndexedDB, `keyCache`
and `convos`. A box is what `SealedBox` says it opens with. A message handed to a
connection that is dead but not noticed is lost: the code has no
acknowledgement, and `MessageRelay` says so. `Restart` may strike inside a handler:
in `dm.send` once the row is stored, and in `takeUndelivered`, which marks rows one
by one before any is emitted (`TakesSome`), so that a part of a backlog is marked and
lost; `MessageRelay` calls that `Squander`. The page's `dm.sync` finds nothing,
which is what `OnlineHasNoBacklog` shows.

### `Accounts`

A balance is a variable that the operations change as their entries would
(`Posted`). A deposit request is a `claim`: `Verify` reads the chain,
`CreditDeposit` is the transaction after the awaits. `WalletSends`,
`WalletDeclines`, `MineBlock` and `Reorg` are the wallet and the chain. A withdrawal
has its row, its `handler` (suspended at the broadcast, at the receipt, answered
or dead) and its `payment` on the chain, which exists independently of what the
handler learns: `SendAccepted`, `RecordSignature`, `Unrecorded`, `ReceiptArrives`,
`ReceiptLost`, `SendRejected`. `Crash` kills every handler and keeps the tables.
Rewards are in units of 1 / `AccScale`, chosen so that the divisions of
the instance are exact; the one that is not, a claim, rounds as a double may.
`Dashboard` shows replies that may be older than the state. `PriceFeed` represents
a price by the time it was read, so that its age can be told.

### `Assistant`

A question, a mention and a tool call are askers of `Aristotle`, whose `projects`
are sequences of tasks. `Solve` is cut at its awaits: `Create` or `Ask`, then
`Poll`, `Deadline`, and `RequestFails`. A poll sees the tasks posted up to some
moment (the list may lag, by any amount but not to nothing), and of these `Watched`,
the one `ask` named, if it named one and it is listed, otherwise the newest; `Ask` may
name none. `Conversations` cuts `runAristotleJob` at that call: `Serve` reads
the remembered project, `Finish` remembers, signs and answers. `XBot` cuts a run at
its awaits: `Page`, `FetchMentions`, `TakeMention`, `Gated`, `Proved`, `Reply`; the
database reads and writes between two awaits are one step, but for the count of the
day's requests (`Gated`) and the row it leads to (`Accept`): runs are processes of
their own, and another may come between. `Streaming` numbers an
answer's tokens and follows them over a worker's connection (with its buffer),
`OnWorkerToken`, the sink of the caller's kind, and the caller's wire. The browser
worker's `start()` is cut at its await: `Start`, then `ModelLoads` with a new socket,
or `LoadFails`; a `Stop` in between closes the socket that was there before. `Catalog`
records of each prompt what its page had shown and where it went.

## The runs

| Run | Instance | Checks |
|---|---|---|
| `faults` | 2 chat jobs, 1 agent run; 2 workers, one agent-capable; 3 connections; 1 restart; one agent turn; 325,063 states | `TypeOK`, `QueueExact`, `AssignedToRegistered`, `NoBusyLeak`, `OneJobUntilReconnect`, `Solvency`, `NoOvertaking`, and that `Engine` implements `JobLedger` (`LedgerPromise`) |
| `live` | a chat job, an agent run of two turns, a proof, an arithmetic job; 1 worker, 2 connections; accounts that cannot pay for all; no restart; 25,920 states | `EventuallyAnswered` under `FairSpec`, `ReservationHasOwner`, `NoOverdraft` |
| `comms` | 2 browsers, one writes, the other may be cleared once; 2 messages; 1 dead connection; 1 drop; 135,945 states | `TypeOK`, `OnlineHasNoBacklog`, `SealedToAddressee`, `UnreadableOnlyAfterRekey`, `ThreadInOrder`, that the relay implements `MessageRelay` (`RelayImplemented`), and `StoreAndForward` under `FairSpec` |
| `accounts` | 2 users; 12 workloads; 348,696 states | `TypeOK`, `NoCreditsFromNothing`, `CashOutCovered`, `CreditedToAddressee`, `CreditedOnce`, `PanelTellsTruth`, `FairShare`, `PriceFresh`, `WalletProven`, `BoughtIsBurned`, `SignedIsNeverRefunded`, and `WithdrawalResolves` under `FairSpec` |
| `assistant` | 3 questions, 6 mentions, 2 tool calls, 2 streamed prompts, 2 routed requests; 19 workloads; 330,328 states | `TypeOK`, `VerifiedInThread`, `ThreadsStayApart`, `ProofsOutlastRotation`, `QuotaKept`, `AnswerWhole`, `PromptsGoWhereShown`, `CodeBindsOnce`, `CursorMonotone`, and `StreamingEnds` under `FairSpec` |
| `stale_report` | 3 jobs, 1 worker, 2 connections | `OneJobPerWorker` is violated |
| `restart` | 1 job, 1 worker, 1 restart, fairness | `EventuallyAnswered` is violated |
| `overdraft` | 1 job reported longer than estimated | `NoOverdraft` is violated |
| `deposit_panel` | 1 deposit, fairness | `AskedIsCredited` is violated |
| `double_pay` | 1 withdrawal | `FailedIsUnpaid` is violated |
| `wrong_proof` | 2 questions of one conversation, 1 proof that is completed | `VerifiedMeansProved` is violated |
| `double_reply` | 2 mentions, 2 overlapping runs | `NoSecondReply` is violated |

**Bounds of `Engine`.** `Socket` bounds connections over the whole behaviour: with
two workers, a third lets either reconnect, which is what a stale report needs. Two
chat jobs of one model make an order to overtake and a second job for a worker
freed too early; the agent run shares the `busy` flag with them. One restart is
enough to lose every kind of memory; `MAX_ITERS` (5 in the code) is 2 where the
loop matters and 1 elsewhere. Connections are interchangeable, so `faults` uses
their symmetry; `live`, which checks liveness, does not. The accounts of `live` are
chosen so that `reserve` refuses some job in some orders.

**Bounds of `comms`.** Two messages make an order; one death of a connection with
its page open and one that goes unnoticed make each way of losing one; a browser
cleared once changes its key once, which is what a stale key cache needs. Messages
may have one timestamp or two (`MaxTs`).

**Workloads.** `Accounts` and `Assistant` compose many parts, and the product of
all of them is out of reach. A behaviour therefore starts with a *workload*: how
often each kind of request, fault and outside event may still happen. The runs
start from a set of workloads (`AccountsMC`, `AssistantMC`), each of which dwells on
one part or on parts that touch, and TLC takes every interleaving of each.
`Mixed` and `Both` have several parts move credits or ask for proofs at once.
Nothing else is bounded: what is *caused* by a request is not counted.

- `Accounts`: a grant of 2, amounts of 1 and 2, charges of 3 (whose fee rounds down to
  nothing) and 10; a transaction worth 2 credits; 2
  confirmations, so that a block that is replaced can hold a mined transaction; caps of 1
  per request at least, 2 at most, 3 a day, so that two requests can meet either
  cap; 3 callers of the price, so that two overlap and a third is served what they
  left; time-to-live 3, time-out 1 per source; 2 wallets.
- `Assistant`: 3 questions, so that two overlap in a conversation with a third in
  another; `Stored` = 1 conversation, so that a second evicts; a page of 2
  mentions; daily cap and quota of 2 and 1; answers of two tokens (streamed) and one
  (whole); 2 sockets of the browser worker and 3 connections; keys of the
  environment, of the database and none.

Ids are chosen canonically from those that are free (`AnyOf`): they are
interchangeable.

Deadlock is not checked in any run: nobody is obliged to ask, and a system that has
answered everything, or used its bounds up, stops.

**Fairness.** Every `FairSpec` asks for weak fairness of what the runtime does by
itself, and never of users, faults or outside agents.

- `Engine`: a timer fires (`FailQueued`); a turn is acknowledged or times out
  (`emitAck` gives up after 60 s); the tools of a turn end; `aristotle.solve` has a
  deadline and catches everything; the event loop gets to every message and every
  broken connection (Socket.IO's ping timeout). One assumption is about the
  environment: a worker *process* ends each job, with a report. The code does not
  ensure it (the request to Ollama has no timeout and the orchestrator none after
  dispatch), and without it nothing ends such a job while its worker stays
  connected.
- `MessagesPage`: an open page reconnects (Socket.IO retries for ever), packets are
  handled in turn, a dead connection is noticed.
- `Accounts`: a request's handler runs; the node answers or its calls time out
  (viem's default); blocks are mined.
- `Assistant`: the handlers of a question and of a tool call run, and Aristotle's
  polls are answered, fail or meet the deadline. Nothing is asked of the bot, nor of
  the agent's proofs.

`WithdrawalResolves` and `StreamingEnds` are stated as `<>[]`: as workloads are
finite they say "when no more is asked, all of it has been answered".

### Disagreements the runs show

1. `stale_report`. `onWorkerError` frees the sender whatever the job is. After a
   reconnection, the error of a job already refunded marks the worker idle while
   it serves another, and it is given one more. `onWorkerDone` returns early for
   such a job. What does hold, and is proved, is `OneJobUntilReconnect`.
2. `restart`. Reservations open at a restart have no one to close them. Without
   restarts `EventuallyAnswered` holds (`live`), and until one
   `ReservationHasOwner` is proved.
3. `overdraft`. `settle` charges what is reported, beyond the reservation and
   the balance. Within the estimate nobody overdraws, which is proved
   (`ReserveCoversSettle`, `NobodyOverdraws`).
4. `deposit_panel`. The panel waits for the receipt and asks at once; the server
   wants `ETH_CONFIRMATIONS` and refuses; nothing asks again. (If a user asks again
   through the API the deposit is credited, once: `CreditedOnce` is checked with it.)
5. `double_pay`. `payEth` learns of its own transaction only from the reply of
   `sendTransaction`, and from `onSignature` having returned. If either fails after the
   node took the transaction, the withdrawal is refunded and paid. Once the
   signature *is* on record it is safe, which is proved (`SignedIsSafe`).
6. `wrong_proof`. A follow-up watches its own task only if it knows the task's id and
   the list has it (`byId ?? newest`). Without an id ("body may be empty"), or before
   the task is listed, the newest task listed is the one of the question before:
   completed, so its text answers the follow-up and is signed as *its* verified proof.
   What does hold, and is proved (`VerifiedStaysInThread`), is that the completed task
   is of the same project and conversation, and that of a tool's call, or of the
   question that opened the project, it is the very one.
7. `double_reply`. A mention's row is written only after the token gate's await;
   two runs that overlap both reply. What is proved is proved of one run at a time:
   that the quota holds (`QuotaHolds`) and the cursor never goes back
   (`CursorNeverGoesBack`). Runs that overlap may also pass the daily limit
   together: the count (`xbot-run.ts:123`) and the row (`130`) are two statements of
   separate processes, with no transaction around them, and two steps of the model.

Met while modelling, without a run of their own: neither `workers.add`
(`server.ts:230`) nor the agent run that frees its worker (`agent.ts:81`, `90`) calls
`schedule()`, so that a job which waits is failed with "no worker available for
model" beside an idle worker that has the model (submit, connect, register, queue
timer), though "the engine routes each job to the fastest idle worker"
(`engine.ts:49-50`); what `live` shows is that its timer ends it. And, contradicted by
no line of the repository: a worker's tokens that were on a connection when it died
are missing from an answer that a later connection of the same worker reports as done
(`torn` in `AnswerWhole`); `X_BOT_DAILY_CAP` bounds a run of the bot and not a day; a mention
that X returns on a later page than the first, or that a run took and died over,
is never answered; the deposit panel never learns the hash of a transaction whose
wallet reply was lost; a user row created by earnings before its first login gets
no signup grant.

## What is proved

Every invariant and action property that a passing run checks, and both
refinements, for all values of the constants that satisfy the modules'
assumptions; only the four liveness properties are TLC's alone. The assumptions,
which TLC evaluates on the runs' instances, are types; that null values are none
of the others; positive time-to-live, confirmations, page size and store; that the
deposits jobs are paid from are naturals; that `User`, `Job`, `Withdrawal`, `Device`
and `Conn` are finite (where sums, cardinalities or a `CHOOSE` of a largest
element need it); that call names are disjoint; and about the workers'
models what `CatalogAssumption` says. No theorem assumes anything of schedules,
faults or their number. A premise beyond these is part of a theorem's statement
and named below.

*Engine and ledger.*

- `TypeCorrect`: `TypeOK`.
- `ImplementsLedger`: `LedgerPromise`, the refinement, with restarts and
  every fault. With it the promises proved of `JobLedger` hold of the
  orchestrator: `OrchestratorNetExact` (a job's entries add up to its
  reservation, its charge or nothing), `OrchestratorToldTruth` and
  `OrchestratorOutcomeIsFinal`.
- `QueueAlwaysExact`, `AlwaysAssignedToRegistered`, `ReportsNeverHitTheQueue`,
  `JobsDoNotOvertake` (`NoOvertaking`).
- `BusyWorkersHaveWork` (`NoBusyLeak`) and `OneJobAtATime` (`OneJobUntilReconnect`).
- `ServingMintsNothing` (`Solvency`); `ReservationsKeepTheirOwner`
  (`ReservationHasOwner` while no restart has happened); `NobodyOverdraws`
  (`NoOverdraft`, if no chat job is reported with more tokens than were reserved for).
- `ReserveCoversSettle` and `PayOutWithinCharge` about the arithmetic.

*Accounts*, for any users, workloads and faults.

- `AccountTypeCorrect`: `TypeOK`.
- `CreditsAreFunded` (`NoCreditsFromNothing`) and `GrantsAreNotCashedOut`
  (`CashOutCovered`).
- `SharesAreBounded`: nobody is paid more than the exact share of the fees, rounding
  or not. `SharesAreFair`: `FairShare`, in behaviours in which `AccScale` is always a
  multiple of the total stake (`Divides`), as in the run.
- `DepositsCreditOnce` (`CreditedOnce`, with concurrent claims and
  reorganisations) and `DepositsReachTheirAddressee` (`CreditedToAddressee`).
- `PanelIsTruthful` and `SignedIsSafe`: `PanelTellsTruth`, `SignedIsNeverRefunded`.
- `PriceStaysFresh`, `LinkedIsProven`, `KeeperBurnsAll`: `PriceFresh`,
  `WalletProven`, `BoughtIsBurned`.

*Messages.*

- `MessagesTypeCorrect`: `TypeOK`.
- `RelayIsImplemented`: the relay with its sockets, dead connections,
  acknowledgements and restarts implements `MessageRelay` (`RelayImplemented`).
- `NoBacklogOnline` (`OnlineHasNoBacklog`), `ThreadsAreInOrder` (`ThreadInOrder`),
  `BoxesAreForTheirAddressee` (`SealedToAddressee`), `UnreadableMeansRekeyed`
  (`UnreadableOnlyAfterRekey`).
- `SealedOpens` and `OpensForAddresseeOnly`: within the symbolic model of the
  primitives, a box opens for its addressee and nobody else.

*Assistant.*

- `AssistantTypeCorrect`: `TypeOK`.
- `ConversationsStayApart` (`ThreadsStayApart`); `VerifiedStaysInThread`
  (`VerifiedInThread`, whatever ids are left out and however late the lists are).
- `AnswersAreWhole` (`AnswerWhole`), `PromptsStayInside` (`PromptsGoWhereShown`).
- `QuotaHolds` (`QuotaKept`) and `CursorNeverGoesBack` (`CursorMonotone`), if there is
  one runner.
- `RotationIsHarmless` (`ProofsOutlastRotation`), `CodesBindOnce` (`CodeBindsOnce`).

### The argument for `Engine`

None of its invariants is inductive. `QueueExact`
depends on `onWorkerDone` never ending a job that waits in the queue: the
`schedule()` it ends in would drop the job from the queue, but its timer would stay
armed. That no report concerns a waiting job is a fact about the network: a report
exists only for a job that was dispatched, and a dispatched job never waits
again. The invariant `Inv` of `EngineProofs` has four parts:

- `TypeOK`;
- `JobsInv`: a job is held by at most the owner its kind has (the engine, an
  agent run, an Aristotle call), and while it is held its reservation is open and
  its caller untold: the fact behind every "once";
- `EngineInv`: `QueueExact`, `AssignedToRegistered`, and that a job which is not
  active is not assigned;
- `ReportInv`: each job a worker is running, has in its buffer or has in flight
  was dispatched: it is assigned, or no longer active and not new.

The proofs follow `Next`, one lemma per handler and part. What `Schedule` does
to any of them is one lemma (`ScheduleEffect`, `ScheduleKeepsEngineInv`); the
refinement steps are lemmas `Map...` that name the ledger's action. The
refinement map is the identity on `row` and `outcome`.

`NoBusyLeak` and `OneJobUntilReconnect` are about who keeps a worker busy, across
both engines, and need `NetInv` beside `Inv`. Its parts say that an active job a
worker holds is assigned to a connection of *that* worker (`HolderInv`), so that the
report which frees a connection comes from the right side; what a connection may
carry in each stage of its life (`LinkInv`, `AgentInv`, `OpenInv`, `KnownInv`); that
no job is reported twice (`OnceInv`), without which the second report would free a
worker that has been given something else; that a registration is the first thing
read from a connection (`RegisterInv`), as it sets `busy = false`; and, for a
worker which never had another connection, that it holds only what is
active (`OnlyInv`). The last is what a reconnection breaks (`stale_report`).

`NoOvertaking` follows from `OrderInv`: waiting jobs are strictly ordered by `ahead`,
and only by jobs that wait as well. `ReservationHasOwner` follows from
`OwnerKept`: no step but `Restart` takes the owner of an open reservation
away. `Solvency` needs `PaidInv`: what providers earned is the sum over
jobs of the share of each one's charge, the stakers' rewards of the fees, and no job
is charged more than its owner's entries take; `StoreMove` says what one step
does to all three, and `PayOutWithinCharge` adds them up.

### The argument for the credits

Each part of `Accounts` is moved by its own actions: a lemma `...Moves` projects
`[Next]_vars` to the part, and the part has an inductive invariant of its own.

- `PriceInv`: the cached price is never older than the time it is stamped with, and a
  request that waits has no price yet. Without the first a hit says nothing about age.
- `WalletInv`: a wallet being saved comes with a signature that was made.
- `KeeperInv`: while a run burns, the one transaction in the mempool burns all the
  treasury has; what a dead run left was mined before, the account's transactions
  being ordered.
- `PayInv`: a row follows its handler (idle, suspended, answered), an unsigned one is
  only ever at the broadcast, and what the panel said is about an answered
  request. Lemma `OneRequest` is the common step: one request moves, and only
  forward.
- `CreditInv`: the panel's and the claims' types, `ChainInv` (what is pending is in no
  block), `ClaimInv` (a verified claim's transaction is confirmed) and `DepositInv`
  (so is every credited one, and no two entries share a hash). `ConfirmedStays` is
  where the confirmations are needed: a reorganisation shallower than they are
  does not reach them. `AddressInv`: indices are never reused (`IndexInv`, from the
  highest one given), and what was credited was sent to its account's.

`MoneyInv` (in `MoneyProofs`) joins `PayInv` and `CreditInv` with `AccountInv`,
`StakeInv` (a staker's debt is within what the stake has accrued, and the total is the
sum), `RowInv` and `CashInv`. Sums are
`CreditsProofs`' `Total`, with lemmas by induction over finite sets for changing
one member, adding one and comparing two sums. `CashOutCovered` is `CashInv`: rows in any state
but `failed` count, so a refund can only lower them. `NoCreditsFromNothing` needs
more than its own statement: what stakers have accrued but not
claimed is credits too. `Covered` says that what was put in and is nowhere to be found
(`Slack`) pays for all accruals, at the scale they are kept in; `Pays(x)` is the step that
adds x to the first and lets at most x accrue. Settling a job pays its fee, claims and
stakes pay 0, each rounding down.
`FairShare` is `NoneGetsMore` with `NoneGetsLess`, where a credit may be lost at
each operation that rounds.

### The argument for messages

`Types` is `RelayTypes` and `PageTypes`, over packets in flight, buffered and
coming. `TableInv` is about the table: rows are numbered as stored (`RowsInv`); what
was handed over to a user is older than what waits for it (`HandedFirst`), so that a
backlog can be sent first and in order; and `OnlineHasNoBacklog`, by which a message that
finds its addressee online may skip the table's queue. `KeysInv` says that wherever a
key is held for a user (directory, caches, packets, answers, rows), a device of
that user generated it.

The refinement maps an inbox to what a device shows followed by what is on its way
to it (`InboxOf`). `InboxInv` says it holds the user's delivered rows, in order, once.
Receiving a packet then is a stutter, and losing the connection cuts the inbox's
end; both rest on lemmas about `FlattenSeq` of a sequence that is extended or cut.

### The argument for the proof agent, the bot and the chat

`AskMoves` and `SolveMoves` project `Next` twice: to the moves of the callers (a page, a
restart, a call, the bot, the client), and to what a caller of `solve` sees of those
(`SolveNext`: it begins, posts, returns, is dropped). The invariants build on
each other:

- `RunInv`, `CursorInv`: what a runner has to do is posted, in order and from the
  cursor on.
- `PageInv`, `CallsInv`: the page's conversations are distinct, each has a
  question, and a call or a packet of a question has a place.
- `ThreadInv`: whoever asked in a project is of one conversation with whoever asks in
  it now, with the conversation that remembers it, and with each other.
- `TaskInv`: a call polls a project it asked in, which is its own alone if it opened
  it; and if it returns "verified", a task there is completed, its own if it opened the
  project. `ClaimInv` carries it to tools and records; `ThreadInv` says whose
  conversation the task is of.
- `StatusInv`, `QuotaInv`: up to the proof nothing is logged of the mention a run has;
  between the count and the row (`limited`) there is still room in the day for it;
  and what is being proved is what was accepted. The second is what another run
  would break, which is why `QuotaHolds` has its premise.
- `UncalledInv`, `MenuInv`, `RequestInv`: what a menu offers is marked if it is
  external, and what was sent from it was marked then.
- `AttestInv`: each record is signed with the key it names, and the key in use is not
  null; `CodeInv`: what the link panel shows is what the table says.

### The argument for streams

The proof sees one `Pipe` per socket: the packets of the connection it is on, or its
buffer while it has none. Connecting, noticing a drop and buffering then do not
change a pipe, or lose it whole. `PromptInv` is per prompt: its packets are in at most one
pipe, its end last (`PacketsOf`); what its caller was told goes with the state of the
job (`CallerOf`); whatever is under way or still to be made comes after all that was
passed on (`Ahead`: order, and no token twice); and if no token was lost with a
connection, without a gap (`Unbroken`), so that an end that arrives finds the
answer complete (`WholeOf`). There is one lemma per kind of step that a prompt can see
(`RestKeeps`, `BeginKeeps`, `RefuseKeeps`, `CutKeeps`, `DrainKeeps`, `EndKeeps`,
`TokenKeeps`, `PushKeeps`, `LoseKeeps`, `ShowKeeps`), each about all prompts but one
being left alone. `StreamOk` adds what the type invariant says beyond that.

### What is model-checked only

- The liveness properties `EventuallyAnswered`, `StoreAndForward`,
  `WithdrawalResolves` and `StreamingEnds`: the prover does not reason about
  `ENABLED`, which weak fairness is made of.
- Outside the premises named above: `QuotaKept` and `CursorMonotone` are not claimed of
  several runners, and the instance of `assistant` has one.
- That the claims of the seven violation runs are false: each is a counterexample.

## Abstractions

Each with what it gives up.

- `Accounts`: the price at which a deposit is credited is a choice (`Worth`); the
  three reads of a verification's `Promise.all` are one; a reorganisation never
  reaches a block with `ETH_CONFIRMATIONS` confirmations (the setting's premise); the orchestrator dies there
  only with no job reserved (`restart` has that case); the replies to `/me` and
  `/withdrawals` arrive as one; a wallet is connected once, and a declined chain
  switch ends the deposit; the challenge's time is never in the future; one keeper
  run at a time, and nobody else sends the treasury tokens.
- `Conversations`: one page of one user; the text of a question is its id. `Attest`
  begins at the first start of this version, over records of the one before.
- `XBot`: a run reads the newest page of mentions; one user's link panel.
- `Tools`: a result is what it claims (a value, verified, an error, a text). A
  search sends its query, which the model wrote, to outside services; that query is
  not the prompt, and `PromptsGoWhereShown` is not about it.
- `Catalog`: whether a worker is busy is left to `Engine`; a model makes images on
  every worker that has it or on none, which `CatalogAssumption` states of the
  workers the repository has.
- `Streaming`: workers have one model; an image is an answer of one token; restarts
  of the orchestrator are `Engine`'s. The kinds `create` and `sse` stream as `chat`
  does, and the instance has `chat` and `json`.
- `SealedBox`: the primitives are ideal, and a message has a throwaway pair of its own.

## Not modelled

Worker throughput (a free choice of idle workers stands for it); what a model
generates; a job id submitted twice, which fails on the primary key; restoring an
older snapshot of the database (a manual procedure); the backup script, which copies
a file; the wire schemas, after which the messages are named; the JWT and the
libraries' cryptography; and of the web application the staking page, the lists of
the dashboard, the landing page, the white paper and the animation, which are text
and layout over operations modelled elsewhere.

## Plan

Done: the plan's modules, compositions, runs and theorems. What would add most now:

1. What an owner of credits can conclude from several theorems at once, stated as
   one abstract specification of an account that `Accounts` implements, as
   `JobLedger` is for jobs and `MessageRelay` for messages.
2. The inductive arguments behind the liveness properties that do not need
   `ENABLED`: that each step which fairness forces brings a job, a
   message or a withdrawal closer to its end and none takes it back.
3. The fees' rounding where `AccScale` is no multiple of the total stake: how much
   the stakers can lose between them, as `SharesAreBounded` gives only the one side.

## Running it

    tlc -workers 2 -config EngineFaults.cfg EngineMC
    tlc -workers 2 -config Comms.cfg MessagesMC
    tlc -workers 2 -config Accounts.cfg AccountsMC
    tlc -workers 2 -config Assistant.cfg AssistantMC
    for m in Credits JobLedger Engine Messages Accounts Money Streaming Assistant
    do tlapm ${m}Proofs.tla; done

`PROJECT.json` lists the runs with what to expect, the source lines each
definition models, the mutants that each property catches, hazards, findings and
theorems.
