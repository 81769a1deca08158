---------------------------- MODULE MessagesPage ----------------------------
(***************************************************************************)
(* The Messages page of the web application (app/messages/page.tsx) with   *)
(* the device's key store, talking to CommsRelay over Socket.IO: packets   *)
(* of a live connection arrive in order, those in flight when it dies are  *)
(* lost, and what the page emits while disconnected is buffered by the     *)
(* client library and sent first on the next connection.                   *)
(***************************************************************************)
EXTENDS CommsRelay, SealedBox, SequencesExt

CONSTANTS
    KeysOf,     \* KeysOf[d]: the identities device d may generate, in order
    Writer,     \* the devices that write, the others only read (a bound)
    MaxDrops    \* bound on the connections that die while their page stays

ASSUME PageAssumption ==
    /\ IsFiniteSet(Device)
    /\ KeysOf \in [Device -> Seq(Key)]
    /\ \A d \in Device : KeysOf[d] # <<>>
    /\ Writer \subseteq Device
    /\ MaxDrops \in Nat

VARIABLES
    page,       \* devices with the page open
    identity,   \* IndexedDB: how many identities d has generated, 0 if it has none
    keyCache,   \* keyCache[d][u]: the page's cached key of u
    thread,     \* convos: what the page of d shows, oldest first
    uplink,     \* packets on their way from each device
    buffer,     \* packets emitted while disconnected
    drops       \* connections that died so far

clientVars == <<page, identity, keyCache, thread, uplink, buffer, drops>>
vars == <<keys, messages, delivered, live, ghosts, downlink, now,
          page, identity, keyCache, thread, uplink, buffer, drops>>

NoCache == [u \in User |-> NoKey]

Init ==
    /\ RelayInit
    /\ page = {}
    /\ identity = [d \in Device |-> 0]
    /\ keyCache = [d \in Device |-> NoCache]
    /\ thread = [d \in Device |-> <<>>]
    /\ uplink = [d \in Device |-> <<>>]
    /\ buffer = [d \in Device |-> <<>>]
    /\ drops = 0

IdentityKey(d) == KeysOf[d][identity[d]]

\* socket.emit: on the wire, or into the send buffer.
Emit(d, packet) ==
    IF d \in live
    THEN uplink' = [uplink EXCEPT ![d] = Append(@, packet)] /\ UNCHANGED buffer
    ELSE buffer' = [buffer EXCEPT ![d] = Append(@, packet)] /\ UNCHANGED uplink

\* The effect on mount: loadOrCreateIdentity, then a socket that will connect.
OpenPage(d) ==
    /\ d \notin page
    /\ page' = page \cup {d}
    /\ identity' = [identity EXCEPT ![d] = IF @ = 0 THEN 1 ELSE @]
    /\ UNCHANGED <<relayVars, keyCache, thread, uplink, buffer, drops>>

\* The server's connection handler, then the page's connect handler.
Connect(d) ==
    /\ d \in page
    /\ OnConnection(d)
    /\ uplink' = [uplink EXCEPT ![d] =
         buffer[d] \o <<[ev |-> "key.publish", key |-> IdentityKey(d)],
                        [ev |-> "dm.sync"]>>]
    /\ buffer' = [buffer EXCEPT ![d] = <<>>]
    /\ UNCHANGED <<page, identity, keyCache, thread, drops>>

\* A question or its answer is under way (one at a time, as a bound).
Asked(d, u) ==
    \/ [ev |-> "key.fetch", user |-> u] \in Range(buffer[d]) \cup Range(uplink[d])
    \/ \E p \in Range(downlink[d]) : p.ev = "key" /\ p.user = u

\* ensurePeerKey, from startChat or from send.
AskKey(d, u) ==
    /\ d \in page \cap Writer
    /\ u # OwnerOf[d]
    /\ keyCache[d][u] = NoKey
    /\ ~Asked(d, u)
    /\ Emit(d, [ev |-> "key.fetch", user |-> u])
    /\ UNCHANGED <<relayVars, page, identity, keyCache, thread, drops>>

\* The boxes still on their way to the server (only to bound them).
Sealed ==
    {x \in Device \X (1 .. MaxMessages + 3) :
        LET packets == buffer[x[1]] \o uplink[x[1]]
        IN  x[2] \in DOMAIN packets /\ packets[x[2]].ev = "dm.send"}

\* send, once the peer's key is cached: seal and emit.
SendDm(d, u) ==
    /\ d \in page \cap Writer
    /\ u # OwnerOf[d]
    /\ keyCache[d][u] # NoKey
    /\ Cardinality(messages) + Cardinality(Sealed) < MaxMessages
    /\ Emit(d, [ev |-> "dm.send", to |-> u, key |-> keyCache[d][u]])
    /\ UNCHANGED <<relayVars, page, identity, keyCache, thread, drops>>

\* The server takes the next packet of d's connection.
Handle(d) ==
    /\ d \in live
    /\ uplink[d] # <<>>
    /\ LET p == Head(uplink[d]) IN
         \/ p.ev = "key.publish" /\ OnKeyPublish(d, p.key)
         \/ p.ev = "key.fetch" /\ OnKeyFetch(d, p.user)
         \/ p.ev = "dm.send" /\ OnDmSend(d, p.to, p.key)
         \/ p.ev = "dm.sync" /\ OnDmSync(d)
    /\ uplink' = [uplink EXCEPT ![d] = Tail(@)]
    /\ UNCHANGED <<page, identity, keyCache, thread, buffer, drops>>

\* The box of a row, sealed with a pair made for this message.
BoxOf(m) == Seal(m.key, m.id, GenerateIdentity(<<"throwaway", m.id>>))

\* ingest: the box opens with the device's present identity, or not.
Ingest(d, m) ==
    /\ thread' = [thread EXCEPT ![d] =
         Append(@, [msg |-> m, mine |-> FALSE,
                    clear |-> Opens(GenerateIdentity(IdentityKey(d)), BoxOf(m))])]
    /\ UNCHANGED keyCache

\* The callbacks of dm.send and key.fetch.
OnAck(d, m) ==
    /\ thread' = [thread EXCEPT ![d] =
         Append(@, [msg |-> m, mine |-> TRUE, clear |-> TRUE])]
    /\ UNCHANGED keyCache

OnKey(d, u, key) ==
    /\ keyCache' = [keyCache EXCEPT ![d][u] = IF key # NoKey THEN key ELSE @]
    /\ UNCHANGED thread

Receive(d) ==
    /\ downlink[d] # <<>>
    /\ LET p == Head(downlink[d]) IN
         \/ p.ev = "dm.recv" /\ Ingest(d, p.msg)
         \/ p.ev = "ack" /\ OnAck(d, p.msg)
         \/ p.ev = "key" /\ OnKey(d, p.user, p.key)
    /\ downlink' = [downlink EXCEPT ![d] = Tail(@)]
    /\ UNCHANGED <<keys, messages, delivered, live, ghosts, now,
                   page, identity, uplink, buffer, drops>>

\* The connection dies; the page stays and will reconnect.
Drop(d) ==
    /\ drops < MaxDrops
    /\ drops' = drops + 1
    /\ ClientGone(d)
    /\ uplink' = [uplink EXCEPT ![d] = <<>>]
    /\ UNCHANGED <<page, identity, keyCache, thread, buffer>>

\* Leaving the page: the socket closes, and React forgets the conversations.
ClosePage(d) ==
    /\ d \in page
    /\ page' = page \ {d}
    /\ \/ ClientGone(d)
       \/ d \notin live /\ UNCHANGED relayVars
    /\ keyCache' = [keyCache EXCEPT ![d] = NoCache]
    /\ thread' = [thread EXCEPT ![d] = <<>>]
    /\ uplink' = [uplink EXCEPT ![d] = <<>>]
    /\ buffer' = [buffer EXCEPT ![d] = <<>>]
    /\ UNCHANGED <<identity, drops>>

\* Browser data is cleared: the next visit generates another identity.
ClearData(d) ==
    /\ d \notin page
    /\ identity[d] \in 1 .. Len(KeysOf[d]) - 1
    /\ identity' = [identity EXCEPT ![d] = @ + 1]
    /\ UNCHANGED <<relayVars, page, keyCache, thread, uplink, buffer, drops>>

\* The orchestrator dies and comes back with an empty registry: packets both
\* ways are lost.  It may die inside dm.send, the row stored and no more, or
\* inside a connection's handler, some of the backlog marked.
Restart ==
    /\ drops < MaxDrops
    /\ drops' = drops + 1
    /\ live' = {}
    /\ ghosts' = [u \in User |-> 0]
    /\ downlink' = [d \in Device |-> <<>>]
    /\ uplink' = [d \in Device |-> <<>>]
    /\ \/ UNCHANGED <<messages, delivered>>
       \/ UNCHANGED messages /\ \E d \in page \ live : TakesSome(OwnerOf[d])
       \/ \E d \in live :
            /\ Cardinality(messages) < MaxMessages
            /\ uplink[d] # <<>>
            /\ Head(uplink[d]).ev = "dm.send"
            /\ messages' = messages \cup
                 {NewRow(OwnerOf[d], Head(uplink[d]).to, Head(uplink[d]).key, now)}
            /\ UNCHANGED delivered
    /\ UNCHANGED <<keys, now, page, identity, keyCache, thread, buffer>>

Noticed(u) == OnDisconnect(u) /\ UNCHANGED clientVars

Next ==
    \/ \E d \in Device :
         \/ OpenPage(d) \/ Connect(d) \/ Handle(d) \/ Receive(d)
         \/ Drop(d) \/ ClosePage(d) \/ ClearData(d)
         \/ \E u \in User : AskKey(d, u) \/ SendDm(d, u)
    \/ \E u \in User : Noticed(u)
    \/ Restart

Spec == Init /\ [][Next]_vars

(***************************************************************************)
(* Properties.                                                             *)
(***************************************************************************)
Packet ==
    [ev : {"key.publish"}, key : Key] \cup [ev : {"key.fetch"}, user : User]
      \cup [ev : {"dm.sync"}] \cup [ev : {"dm.send"}, to : User, key : Key]

\* The types of every variable.
TypeOK ==
    /\ keys \in [User -> Key \cup {NoKey}]
    /\ messages \subseteq Message
    /\ delivered \subseteq {m.id : m \in messages}
    /\ live \subseteq page
    /\ ghosts \in [User -> Nat]
    /\ now \in 0 .. MaxTs
    /\ page \subseteq Device
    /\ identity \in [Device -> Nat]
    /\ keyCache \in [Device -> [User -> Key \cup {NoKey}]]
    /\ \A d \in Device :
         /\ uplink[d] \in Seq(Packet)
         /\ buffer[d] \in Seq(Packet)
         /\ d \in page => identity[d] \in DOMAIN KeysOf[d]
    /\ drops \in 0 .. MaxDrops

\* Whoever counts as online has no undelivered row: connecting flushes the
\* backlog and every later message is delivered in the handler that stored it.
\* This is why dm.sync, whose caller gives it no ack to answer with, never
\* takes a message (and would lose it if it did).
OnlineHasNoBacklog ==
    \A u \in User : IsOnline(u, live) => Undelivered(u, messages) = {}

\* A box is sealed to a key of its addressee, whatever was published, fetched
\* and cached meanwhile: no other account's device could open it.
SealedToAddressee ==
    \A m \in messages : \E d \in Device : \E i \in 1 .. identity[d] :
        OwnerOf[d] = m.to /\ m.key = KeysOf[d][i]

Rekeyed(u) ==
    \/ \E d \in Device : OwnerOf[d] = u /\ identity[d] > 1
    \/ Cardinality({d \in Device : OwnerOf[d] = u /\ identity[d] > 0}) > 1

\* "could not decrypt" shows only at a user who published more than one key
\* (another device, or cleared browser data).
UnreadableOnlyAfterRekey ==
    \A d \in Device : \A i \in DOMAIN thread[d] :
        ~thread[d][i].clear => Rekeyed(OwnerOf[d])

\* What a page shows of one peer is in the order the peer sent it, and nothing
\* of it twice.
ThreadInOrder ==
    \A d \in Device : \A i, j \in DOMAIN thread[d] :
        /\ i < j
        /\ ~thread[d][i].mine /\ ~thread[d][j].mine
        => /\ thread[d][i].msg.ts <= thread[d][j].msg.ts
           /\ thread[d][i].msg.id # thread[d][j].msg.id

\* The detailed relay implements MessageRelay: a device's inbox is what its page
\* shows from others and what is still on its way to it.
Shown(entries) ==
    [i \in DOMAIN entries |-> IF entries[i].mine THEN <<>> ELSE <<entries[i].msg>>]
Coming(packets) ==
    [i \in DOMAIN packets |-> IF packets[i].ev = "dm.recv" THEN <<packets[i].msg>> ELSE <<>>]
InboxOf(d) == FlattenSeq(Shown(thread[d]) \o Coming(downlink[d]))

Abstract == INSTANCE MessageRelay WITH
    Letter <- Message,
    waiting <- {m \in messages : m.id \notin delivered},
    handed <- {m \in messages : m.id \in delivered},
    inbox <- [d \in Device |-> InboxOf(d)]

RelayImplemented == Abstract!Spec

\* Fairness: the event loops of the server and of the pages run, and an open
\* page reconnects (socket.io-client retries for ever).  Nobody has to open a
\* page, and connections may die.
Fairness ==
    /\ \A d \in Device :
         /\ WF_vars(Connect(d))
         /\ WF_vars(Handle(d))
         /\ WF_vars(Receive(d))
    /\ \A u \in User : WF_vars(Noticed(u))

FairSpec == Spec /\ Fairness

\* Offline store-and-forward (README.md:33): a stored message is handed over if
\* a device of its addressee keeps its page open.
StoreAndForward ==
    \A n \in 1 .. MaxMessages, u \in User :
        (/\ \E m \in messages : m.id = n /\ m.to = u
         /\ n \notin delivered)
          ~> (n \in delivered \/ \A d \in Device : OwnerOf[d] = u => d \notin page)
=============================================================================
