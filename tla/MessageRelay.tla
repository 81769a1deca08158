---------------------------- MODULE MessageRelay ----------------------------
(***************************************************************************)
(* What the blind relay promises, without sockets or a message table: a    *)
(* message waits for its addressee, is handed over in one batch with the   *)
(* rest of what waits, oldest first, to the devices listening then, and    *)
(* never waits again.  What a device was given it may lose from the end    *)
(* backwards, as a connection dies with its packets; what the relay takes  *)
(* as it dies is lost, the oldest first.                                   *)
(***************************************************************************)
EXTENDS Naturals, SequencesExt

CONSTANTS
    User, Device,
    OwnerOf,    \* OwnerOf[d]: the account device d is signed in to
    Letter      \* every message there can be: records with id, to and ts

VARIABLES
    waiting,    \* accepted, not handed over yet
    handed,     \* handed over
    inbox       \* inbox[d]: what device d was given and has not lost

vars == <<waiting, handed, inbox>>

Init ==
    /\ waiting = {}
    /\ handed = {}
    /\ inbox = [d \in Device |-> <<>>]

\* The orders in which a batch may be handed over.
OldestFirst(batch) ==
    {s \in [1 .. Cardinality(batch) -> batch] :
        /\ \A m \in batch : \E i \in DOMAIN s : s[i] = m
        /\ \A i, j \in DOMAIN s : i < j => s[i].ts <= s[j].ts}

\* u's batch goes to the devices of u that listen.
HandOver(u, batch, listening) ==
    /\ listening \subseteq {d \in Device : OwnerOf[d] = u}
    /\ handed' = handed \cup batch
    /\ \E s \in OldestFirst(batch) :
         inbox' = [d \in Device |->
                     IF d \in listening THEN inbox[d] \o s ELSE inbox[d]]

\* Each device keeps only the first few of what it was given.
Losing ==
    /\ DOMAIN inbox' = Device
    /\ \A d \in Device : IsPrefix(inbox'[d], inbox[d])

WaitingFor(u) == {m \in waiting : m.to = u}

Accept(m) ==
    /\ m.id \notin {n.id : n \in waiting \cup handed}
    /\ waiting' \cup handed' = waiting \cup handed \cup {m}
    /\ \/ /\ waiting' = waiting \cup {m}
          /\ handed' = handed
          /\ Losing
       \/ \E listening \in SUBSET Device :
            /\ waiting' = waiting \ WaitingFor(m.to)
            /\ HandOver(m.to, WaitingFor(m.to) \cup {m}, listening)

Collect(u) ==
    \E listening \in SUBSET Device :
        /\ waiting' = waiting \ WaitingFor(u)
        /\ HandOver(u, WaitingFor(u), listening)

\* The relay dies as it takes what waits for u, oldest first: nobody gets what
\* it took.
Squander(u) ==
    \E taken \in SUBSET WaitingFor(u) :
        /\ \A m \in taken, n \in WaitingFor(u) \ taken : m.ts <= n.ts
        /\ waiting' = waiting \ taken
        /\ handed' = handed \cup taken
        /\ Losing

Lose == Losing /\ UNCHANGED <<waiting, handed>>

Next ==
    \/ \E u \in User : Collect(u) \/ Squander(u)
    \/ \E m \in Letter : Accept(m)
    \/ Lose

Spec == Init /\ [][Next]_vars
=============================================================================
