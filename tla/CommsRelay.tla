----------------------------- MODULE CommsRelay -----------------------------
(***************************************************************************)
(* The /comms namespace of the orchestrator (server.ts): the key           *)
(* directory, the message table and the handlers that relay ciphertext     *)
(* between the sockets of the ConnectionRegistry.                          *)
(*                                                                         *)
(* A device holds at most one connection that works.  A connection whose   *)
(* client is gone stays registered until the server's disconnect event: it *)
(* is a ghost, which counts as online and swallows what is emitted to it.  *)
(* A message is a record [id, from, to, key, ts]: `key` is the public key  *)
(* the box was sealed to, which is all the ciphertext tells apart.         *)
(***************************************************************************)
EXTENDS Naturals, Sequences, FiniteSets

CONSTANTS
    User, Device,
    OwnerOf,        \* OwnerOf[d]: the account device d is signed in to
    Key, NoKey,     \* X25519 public keys
    MaxMessages,    \* bound on the messages stored
    MaxGhosts,      \* bound on the dead connections a user may have at once
    MaxTs           \* bound on the clock, in milliseconds

ASSUME CommsAssumption ==
    /\ OwnerOf \in [Device -> User]
    /\ NoKey \notin Key
    /\ MaxMessages \in Nat
    /\ MaxGhosts \in Nat \ {0}
    /\ MaxTs \in Nat

VARIABLES
    keys,       \* public_keys: the key published for each user
    messages,   \* the rows of the message table ...
    delivered,  \* ... and the ids of those with delivered = 1
    live,       \* ConnectionRegistry: devices whose connection works
    ghosts,     \* ConnectionRegistry: dead connections, per user
    downlink,   \* packets on their way to each device
    now         \* Date.now()

relayVars == <<keys, messages, delivered, live, ghosts, downlink, now>>

Message ==
    [id : 1 .. MaxMessages, from : User, to : User, key : Key, ts : 0 .. MaxTs]

RelayInit ==
    /\ keys = [u \in User |-> NoKey]
    /\ messages = {}
    /\ delivered = {}
    /\ live = {}
    /\ ghosts = [u \in User |-> 0]
    /\ downlink = [d \in Device |-> <<>>]
    /\ now = 0

\* Mutant of SocketsOf: emits go to the whole namespace.
MutSocketsOf(u, sockets) == sockets

SocketsOf(u, sockets) == {d \in sockets : OwnerOf[d] = u}

IsOnline(u, sockets) == SocketsOf(u, sockets) # {} \/ ghosts[u] > 0

Undelivered(u, table) == {m \in table : m.to = u /\ m.id \notin delivered}

\* Mutant of OrderedByTs: no ORDER BY.
MutOrderedByTs(rows) ==
    {s \in [1 .. Cardinality(rows) -> rows] : \A m \in rows : \E i \in DOMAIN s : s[i] = m}

\* ORDER BY ts: messages of the same millisecond come in either order.
OrderedByTs(rows) ==
    {s \in [1 .. Cardinality(rows) -> rows] :
        /\ \A m \in rows : \E i \in DOMAIN s : s[i] = m
        /\ \A i, j \in DOMAIN s : i < j => s[i].ts <= s[j].ts}

Recv(m) == [ev |-> "dm.recv", msg |-> m]
RecvAll(s) == [i \in DOMAIN s |-> Recv(s[i])]

\* takeUndelivered, cut short by the process's death: rows are marked one by one,
\* oldest first, before any is emitted.
TakesSome(u) ==
    \E taken \in SUBSET Undelivered(u, messages) :
        /\ \A m \in taken, n \in Undelivered(u, messages) \ taken : m.ts <= n.ts
        /\ delivered' = delivered \cup {m.id : m \in taken}

\* Mutant of DeliverPending: the rows are not marked.
MutDeliverPending(u, table, sockets, queues) ==
    /\ delivered' = delivered
    /\ IF IsOnline(u, sockets)
       THEN \E s \in OrderedByTs(Undelivered(u, table)) :
              downlink' = [d \in Device |->
                             IF d \in SocketsOf(u, sockets)
                             THEN queues[d] \o RecvAll(s) ELSE queues[d]]
       ELSE downlink' = queues

\* Emits go to the room named after the user: every socket of his.
DeliverPending(u, table, sockets, queues) ==
    IF IsOnline(u, sockets)
    THEN /\ delivered' = delivered \cup {m.id : m \in Undelivered(u, table)}
         /\ \E s \in OrderedByTs(Undelivered(u, table)) :
              downlink' = [d \in Device |->
                             IF d \in SocketsOf(u, sockets)
                             THEN queues[d] \o RecvAll(s) ELSE queues[d]]
    ELSE /\ delivered' = delivered
         /\ downlink' = queues

\* Mutant of OnConnection: the backlog is flushed before the socket is known.
MutOnConnection(d) ==
    /\ d \notin live
    /\ live' = live \cup {d}
    /\ DeliverPending(OwnerOf[d], messages, live, downlink)
    /\ UNCHANGED <<keys, messages, ghosts, now>>

\* The connection handler: register the socket, then flush the backlog.
OnConnection(d) ==
    /\ d \notin live
    /\ live' = live \cup {d}
    /\ DeliverPending(OwnerOf[d], messages, live', downlink)
    /\ UNCHANGED <<keys, messages, ghosts, now>>

OnKeyPublish(d, key) ==
    /\ keys' = [keys EXCEPT ![OwnerOf[d]] = key]
    /\ UNCHANGED <<messages, delivered, live, ghosts, downlink, now>>

\* Mutant of OnKeyFetch: the asking user's key is looked up.
MutOnKeyFetch(d, u) ==
    /\ downlink' = [downlink EXCEPT ![d] =
                      Append(@, [ev |-> "key", user |-> u, key |-> keys[OwnerOf[d]]])]
    /\ UNCHANGED <<keys, messages, delivered, live, ghosts, now>>

\* The answer is an ack: it goes to the asking socket alone.
OnKeyFetch(d, u) ==
    /\ downlink' = [downlink EXCEPT ![d] =
                      Append(@, [ev |-> "key", user |-> u, key |-> keys[u]])]
    /\ UNCHANGED <<keys, messages, delivered, live, ghosts, now>>

NewRow(from, to, key, ts) ==
    [id |-> Cardinality(messages) + 1,
     from |-> from, to |-> to, key |-> key, ts |-> ts]

\* Mutant of OnDmSend: the addressee is served at his next connection only.
MutOnDmSend(d, to, key) ==
    /\ Cardinality(messages) < MaxMessages
    /\ \E ts \in {now, now + 1} \cap (0 .. MaxTs) :
         LET m == NewRow(OwnerOf[d], to, key, ts)
         IN  /\ now' = ts
             /\ messages' = messages \cup {m}
             /\ downlink' = [downlink EXCEPT ![d] = Append(@, [ev |-> "ack", msg |-> m])]
    /\ UNCHANGED <<keys, delivered, live, ghosts>>

\* Store, ack the sender, then deliver to the addressee.
OnDmSend(d, to, key) ==
    /\ Cardinality(messages) < MaxMessages
    /\ \E ts \in {now, now + 1} \cap (0 .. MaxTs) :
         LET m == NewRow(OwnerOf[d], to, key, ts)
             acked == [downlink EXCEPT ![d] = Append(@, [ev |-> "ack", msg |-> m])]
         IN  /\ now' = ts
             /\ messages' = messages \cup {m}
             /\ DeliverPending(to, messages', live, acked)
    /\ UNCHANGED <<keys, live, ghosts>>

\* The client passes its callback as the payload, so there is no ack to answer
\* with: what takeUndelivered returned is dropped.
OnDmSync(d) ==
    /\ delivered' = delivered
         \cup {m.id : m \in Undelivered(OwnerOf[d], messages)}
    /\ UNCHANGED <<keys, messages, live, ghosts, downlink, now>>

\* A client goes away: the server does not know yet.
ClientGone(d) ==
    /\ d \in live
    /\ ghosts[OwnerOf[d]] < MaxGhosts
    /\ live' = live \ {d}
    /\ ghosts' = [ghosts EXCEPT ![OwnerOf[d]] = @ + 1]
    /\ downlink' = [downlink EXCEPT ![d] = <<>>]
    /\ UNCHANGED <<keys, messages, delivered, now>>

\* Mutant of OnDisconnect: the event comes twice for one connection.
MutOnDisconnect(u) ==
    /\ ghosts' = [ghosts EXCEPT ![u] = @ - 1]
    /\ UNCHANGED <<keys, messages, delivered, live, downlink, now>>

\* The disconnect event of a dead connection: commsConns.remove.
OnDisconnect(u) ==
    /\ ghosts[u] > 0
    /\ ghosts' = [ghosts EXCEPT ![u] = @ - 1]
    /\ UNCHANGED <<keys, messages, delivered, live, downlink, now>>
=============================================================================
