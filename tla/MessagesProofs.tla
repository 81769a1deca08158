--------------------------- MODULE MessagesProofs ---------------------------
(***************************************************************************)
(* Proofs about MessagesPage, for any number of users, devices, messages,   *)
(* lost connections and cleared browsers.                                  *)
(***************************************************************************)
EXTENDS MessagesPage, SequenceTheorems, FiniteSetTheorems, WellFoundedInduction, TLAPS

-----------------------------------------------------------------------------
(***************************************************************************)
(* What opens a sealed box.                                                *)
(***************************************************************************)
\* What is sealed to a key opens with its identity, whatever throwaway pair
\* the sender made (packages/crypto/src/index.ts, seal and open).
THEOREM SealedOpens ==
    ASSUME NEW k, NEW e, NEW text
    PROVE  Opens(GenerateIdentity(k), Seal(k, text, GenerateIdentity(e)))
  BY DEF Opens, GenerateIdentity, Seal, SharedSecret, DeriveKey

\* It opens with no other, the sender's throwaway pair included: the relay, which
\* has the box and every public key, has no identity to open it with.
THEOREM OpensForAddresseeOnly ==
    ASSUME NEW k, NEW e, NEW text, NEW j,
           Opens(GenerateIdentity(j), Seal(k, text, GenerateIdentity(e)))
    PROVE  j = k
  BY DEF Opens, GenerateIdentity, Seal, SharedSecret, DeriveKey

-----------------------------------------------------------------------------
(***************************************************************************)
(* Sequences of sequences, one after the other.                            *)
(***************************************************************************)
LEMMA LeastIndex ==
    ASSUME NEW B \in SUBSET Nat, B # {}
    PROVE  \E n \in B : \A m \in B : ~ (m < n)
<1>1. PICK n \in B : \A m \in B : ~ (<<m, n>> \in OpToRel(<, Nat))
  BY NatLessThanWellFounded, WFMin
<1> QED
  BY <1>1 DEF OpToRel

\* f[i] is the first i of ss, one after the other.
Joins(f, ss, n) ==
    f = [i \in 1 .. n |-> IF i = 1 THEN ss[i] ELSE f[i - 1] \o ss[i]]

LEMMA JoinsAt ==
    ASSUME NEW f, NEW ss, NEW n \in Nat, Joins(f, ss, n), NEW i \in 1 .. n
    PROVE  f[i] = IF i = 1 THEN ss[i] ELSE f[i - 1] \o ss[i]
BY DEF Joins

LEMMA JoinsExist ==
    ASSUME NEW ss, NEW n \in Nat
    PROVE  \E f : Joins(f, ss, n)
<1> DEFINE B == {k \in Nat : ~ \E f : Joins(f, ss, k)}
<1> SUFFICES ASSUME B # {} PROVE FALSE
  OBVIOUS
<1>1. PICK k \in B : \A m \in B : ~ (m < k)
  BY LeastIndex
<1>2. k # 0
  <2>1. Joins([i \in 1 .. 0 |-> <<>>], ss, 0)
    BY DEF Joins
  <2> QED  BY <1>1, <2>1
<1>3. k - 1 \in Nat /\ k - 1 \notin B
  BY <1>1, <1>2
<1>4. PICK g : Joins(g, ss, k - 1)
  BY <1>3
<1> DEFINE f == [i \in 1 .. k |-> IF i = 1 THEN ss[i] ELSE g[i - 1] \o ss[i]]
<1>5. k \in Nat \ {0}
  BY <1>2
<1>6. ASSUME NEW i \in 1 .. k, i # 1 PROVE f[i - 1] = g[i - 1]
  <2>1. i - 1 \in 1 .. k - 1 /\ i - 1 \in 1 .. k
    BY <1>5, <1>6
  <2>2. g[i - 1] = IF i - 1 = 1 THEN ss[i - 1] ELSE g[(i - 1) - 1] \o ss[i - 1]
    BY <1>3, <1>4, <2>1, JoinsAt
  <2> QED  BY <2>1, <2>2
<1>7. Joins(f, ss, k)
  BY <1>6 DEF Joins
<1> QED
  BY <1>1, <1>7

LEMMA JoinsAgree ==
    ASSUME NEW s, NEW t, NEW f, NEW g, NEW m \in Nat, NEW n \in Nat,
           Joins(f, s, m), Joins(g, t, n), n <= m, \A i \in 1 .. n : s[i] = t[i]
    PROVE  \A i \in 1 .. n : f[i] = g[i]
<1> DEFINE B == {i \in 1 .. n : f[i] # g[i]}
<1> SUFFICES ASSUME B # {} PROVE FALSE
  OBVIOUS
<1>1. PICK i \in B : \A j \in B : ~ (j < i)
  <2>1. B \in SUBSET Nat
    OBVIOUS
  <2> HIDE DEF B
  <2> QED  BY <2>1, LeastIndex
<1>2. CASE i = 1
  BY <1>2, <1>1, JoinsAt
<1>3. CASE i # 1
  <2>1. i - 1 \in 1 .. n /\ f[i - 1] = g[i - 1]
    BY <1>1, <1>3
  <2>2. /\ f[i] = f[i - 1] \o s[i]
        /\ g[i] = g[i - 1] \o t[i]
    BY <1>1, <1>3, JoinsAt
  <2> QED  BY <1>1, <2>1, <2>2
<1> QED
  BY <1>2, <1>3

LEMMA FlattenEmpty == FlattenSeq(<<>>) = <<>>
BY DEF FlattenSeq

LEMMA FlattenJoins ==
    ASSUME NEW ss, Len(ss) \in Nat \ {0}
    PROVE  \E f : Joins(f, ss, Len(ss)) /\ FlattenSeq(ss) = f[Len(ss)]
<1> DEFINE F == CHOOSE f : Joins(f, ss, Len(ss))
<1>1. Joins(F, ss, Len(ss))
  BY JoinsExist
<1>2. FlattenSeq(ss) = F[Len(ss)]
  BY DEF FlattenSeq, Joins
<1> QED
  BY <1>1, <1>2

LEMMA FlattenType ==
    ASSUME NEW S, NEW ss \in Seq(Seq(S))
    PROVE  FlattenSeq(ss) \in Seq(S)
<1>1. CASE ss = <<>>
  BY <1>1, FlattenEmpty, EmptySeq
<1>2. CASE ss # <<>>
  <2>1. Len(ss) \in Nat \ {0} /\ \A i \in 1 .. Len(ss) : ss[i] \in Seq(S)
    BY <1>2
  <2>2. PICK f : Joins(f, ss, Len(ss)) /\ FlattenSeq(ss) = f[Len(ss)]
    BY <2>1, FlattenJoins
  <2> DEFINE B == {i \in 1 .. Len(ss) : f[i] \notin Seq(S)}
  <2>3. ASSUME B # {} PROVE FALSE
    <3>1. B \in SUBSET Nat
      OBVIOUS
    <3>2. PICK i \in B : \A j \in B : ~ (j < i)
      <4> HIDE DEF B
      <4> QED  BY <2>3, <3>1, LeastIndex
    <3>3. f[i] = IF i = 1 THEN ss[i] ELSE f[i - 1] \o ss[i]
      BY <2>1, <2>2, <3>2, JoinsAt
    <3>4. CASE i = 1
      BY <3>2, <3>3, <3>4, <2>1
    <3>5. CASE i # 1
      <4>1. i - 1 \in 1 .. Len(ss) /\ f[i - 1] \in Seq(S)
        BY <2>1, <3>2, <3>5
      <4>2. f[i - 1] \o ss[i] \in Seq(S)
        BY <2>1, <3>2, <4>1, ConcatProperties
      <4> QED  BY <3>2, <3>3, <3>5, <4>2
    <3> QED  BY <3>4, <3>5
  <2> QED  BY <2>1, <2>2, <2>3
<1> QED
  BY <1>1, <1>2

LEMMA FlattenAppend ==
    ASSUME NEW S, NEW ss \in Seq(Seq(S)), NEW x \in Seq(S)
    PROVE  FlattenSeq(Append(ss, x)) = FlattenSeq(ss) \o x
<1> DEFINE t == Append(ss, x)
<1>1. /\ Len(ss) \in Nat /\ Len(t) = Len(ss) + 1
      /\ t[Len(ss) + 1] = x /\ \A i \in 1 .. Len(ss) : t[i] = ss[i]
  BY AppendProperties, LenProperties
<1>2. PICK f : Joins(f, t, Len(t)) /\ FlattenSeq(t) = f[Len(t)]
  <2> HIDE DEF t
  <2> QED  BY <1>1, FlattenJoins
<1>3. f[Len(t)] = IF Len(t) = 1 THEN t[Len(t)] ELSE f[Len(t) - 1] \o t[Len(t)]
  <2>1. Len(t) \in Nat /\ Len(t) \in 1 .. Len(t)
    BY <1>1
  <2> HIDE DEF t
  <2> QED  BY <1>2, <2>1, JoinsAt
<1>4. CASE Len(ss) = 0
  <2>1. ss = <<>>
    BY <1>4
  <2>2. <<>> \o x = x
    BY ConcatEmptySeq
  <2> QED  BY <2>1, <2>2, <1>1, <1>2, <1>3, FlattenEmpty
<1>5. CASE Len(ss) # 0
  <2>1. PICK g : Joins(g, ss, Len(ss)) /\ FlattenSeq(ss) = g[Len(ss)]
    BY <1>1, <1>5, FlattenJoins
  <2>2. \A i \in 1 .. Len(ss) : f[i] = g[i]
    <3>1. Len(t) \in Nat /\ Len(ss) <= Len(t)
      BY <1>1
    <3>2. Len(ss) \in Nat /\ \A i \in 1 .. Len(ss) : t[i] = ss[i]
      BY <1>1
    <3> HIDE DEF t
    <3>3. Joins(f, t, Len(t))
      BY <1>2
    <3>4. Joins(g, ss, Len(ss))
      BY <2>1
    <3>5. \A a \in Nat, b \in Nat :
            /\ Joins(f, t, a) /\ Joins(g, ss, b)
            /\ b <= a /\ \A i \in 1 .. b : t[i] = ss[i]
            => \A i \in 1 .. b : f[i] = g[i]
      BY JoinsAgree
    <3> QED  BY <3>1, <3>2, <3>3, <3>4, <3>5
  <2>3. Len(t) # 1 /\ Len(t) - 1 = Len(ss) /\ Len(ss) \in 1 .. Len(ss)
    BY <1>1, <1>5
  <2> QED  BY <1>1, <1>2, <1>3, <2>1, <2>2, <2>3
<1> QED
  BY <1>4, <1>5

LEMMA FlattenConcatStep ==
    ASSUME NEW S, NEW s \in Seq(Seq(S)), NEW v \in Seq(Seq(S)), NEW x \in Seq(S),
           FlattenSeq(s \o v) = FlattenSeq(s) \o FlattenSeq(v)
    PROVE  FlattenSeq(s \o Append(v, x)) = FlattenSeq(s) \o FlattenSeq(Append(v, x))
<1>1. s \o Append(v, x) = Append(s \o v, x) /\ s \o v \in Seq(Seq(S))
  <2>1. s \o v \in Seq(Seq(S)) /\ <<x>> \in Seq(Seq(S))
    BY ConcatProperties
  <2>2. Append(v, x) = v \o <<x>> /\ Append(s \o v, x) = (s \o v) \o <<x>>
    BY <2>1, AppendIsConcat
  <2>3. (s \o v) \o <<x>> = s \o (v \o <<x>>)
    BY <2>1, ConcatAssociative
  <2> QED  BY <2>1, <2>2, <2>3
<1>2. FlattenSeq(s \o Append(v, x)) = FlattenSeq(s \o v) \o x
  BY <1>1, FlattenAppend
<1>3. FlattenSeq(Append(v, x)) = FlattenSeq(v) \o x
  BY FlattenAppend
<1>4. \A a, b \in Seq(S) : (a \o b) \o x = a \o (b \o x)
  <2> SUFFICES ASSUME NEW a \in Seq(S), NEW b \in Seq(S)
               PROVE  (a \o b) \o x = a \o (b \o x)
    OBVIOUS
  <2> QED  BY ONLY x \in Seq(S), ConcatAssociative
<1>5. FlattenSeq(s) \in Seq(S) /\ FlattenSeq(v) \in Seq(S)
  BY FlattenType
<1> QED
  BY <1>2, <1>3, <1>4, <1>5

LEMMA FlattenConcat ==
    ASSUME NEW S, NEW s \in Seq(Seq(S)), NEW t \in Seq(Seq(S))
    PROVE  FlattenSeq(s \o t) = FlattenSeq(s) \o FlattenSeq(t)
<1> DEFINE Bad(u) == FlattenSeq(s \o u) # FlattenSeq(s) \o FlattenSeq(u)
           B == {n \in Nat : \E u \in Seq(Seq(S)) : Len(u) = n /\ Bad(u)}
<1>1. ASSUME B # {} PROVE FALSE
  <2>1. PICK n \in B : \A m \in B : ~ (m < n)
    <3>1. B \in SUBSET Nat
      OBVIOUS
    <3> HIDE DEF B
    <3> QED  BY <1>1, <3>1, LeastIndex
  <2>2. PICK u \in Seq(Seq(S)) : Len(u) = n /\ Bad(u)
    BY <2>1
  <2>3. u # <<>>
    <3>1. s \o <<>> = s /\ FlattenSeq(s) \o <<>> = FlattenSeq(s)
      BY FlattenType, ConcatEmptySeq
    <3>2. ~Bad(<<>>)
      BY <3>1, FlattenEmpty
    <3> QED  BY <2>2, <3>2
  <2>4. PICK v \in Seq(Seq(S)), x \in Seq(S) : u = Append(v, x)
    BY <2>3, SequenceEmptyOrAppend
  <2>5. Len(v) \in Nat /\ Len(v) < n
    BY <2>2, <2>4, AppendProperties, LenProperties
  <2>6. ~Bad(v)
    BY <2>1, <2>5
  <2> HIDE DEF Bad
  <2> QED  BY <2>2, <2>4, <2>6, FlattenConcatStep DEF Bad
<1>2. Len(t) \in Nat
  OBVIOUS
<1> QED
  BY <1>1, <1>2

-----------------------------------------------------------------------------
(***************************************************************************)
(* The inductive invariant.                                                *)
(***************************************************************************)
\* What the server sends, and what a page shows.
DownPacket ==
    [ev : {"dm.recv", "ack"}, msg : Message]
      \cup [ev : {"key"}, user : User, key : Key \cup {NoKey}]
Entry == [msg : Message, mine : BOOLEAN, clear : BOOLEAN]

RelayTypes ==
    /\ keys \in [User -> Key \cup {NoKey}]
    /\ messages \subseteq Message /\ IsFiniteSet(messages)
    /\ delivered \subseteq {m.id : m \in messages}
    /\ live \subseteq page
    /\ ghosts \in [User -> Nat]
    /\ downlink \in [Device -> Seq(DownPacket)]
    /\ now \in 0 .. MaxTs

\* An open page has an identity; packets go to live connections only.
PageTypes ==
    /\ page \subseteq Device
    /\ identity \in [Device -> Nat]
    /\ \A d \in Device : identity[d] <= Len(KeysOf[d])
    /\ \A d \in page : identity[d] >= 1
    /\ keyCache \in [Device -> [User -> Key \cup {NoKey}]]
    /\ thread \in [Device -> Seq(Entry)]
    /\ uplink \in [Device -> Seq(Packet)]
    /\ buffer \in [Device -> Seq(Packet)]
    /\ drops \in 0 .. MaxDrops
    /\ \A d \in Device \ live : downlink[d] = <<>>

\* The rows are numbered as they were stored, and none is of the future.
RowsInv ==
    /\ \A m \in messages : m.id <= Cardinality(messages) /\ m.ts <= now
    /\ \A m, n \in messages : m.id = n.id => m = n

\* u generated k, at some time on some device.
Generated(u, k) ==
    \E d \in Device : \E i \in 1 .. identity[d] : OwnerOf[d] = u /\ k = KeysOf[d][i]

\* Wherever a key is held for u, u generated it.
PacketKey(d, p) ==
    /\ p.ev = "key.publish" => Generated(OwnerOf[d], p.key)
    /\ p.ev = "dm.send" => Generated(p.to, p.key)

HeldKeys(directory) == \A u \in User : directory[u] # NoKey => Generated(u, directory[u])
HeldCaches(caches) == \A d \in Device : HeldKeys(caches[d])
HeldPackets(q) == \A d \in Device : \A i \in DOMAIN q[d] : PacketKey(d, q[d][i])
HeldAnswers(q) ==
    \A d \in Device : \A i \in DOMAIN q[d] :
        q[d][i].ev = "key" /\ q[d][i].key # NoKey => Generated(q[d][i].user, q[d][i].key)
HeldBoxes(table) == \A m \in table : Generated(m.to, m.key)

KeysInv ==
    /\ HeldKeys(keys) /\ HeldCaches(keyCache) /\ HeldPackets(uplink) /\ HeldPackets(buffer)
    /\ HeldAnswers(downlink) /\ HeldBoxes(messages)

\* What was handed over to a user is older than what waits for it.
HandedFirst ==
    \A m, n \in messages :
        m.to = n.to /\ m.id \in delivered /\ n.id \notin delivered => m.ts <= n.ts

\* A device is given its own user's rows, once each and in their order.
InboxInv ==
    \A d \in Device :
        /\ \A i \in DOMAIN InboxOf(d) :
             /\ InboxOf(d)[i] \in messages
             /\ InboxOf(d)[i].to = OwnerOf[d]
             /\ InboxOf(d)[i].id \in delivered
        /\ \A i, j \in DOMAIN InboxOf(d) : i < j =>
             /\ InboxOf(d)[i].ts <= InboxOf(d)[j].ts
             /\ InboxOf(d)[i].id # InboxOf(d)[j].id

Types == RelayTypes /\ PageTypes

LEMMA KeysOfType ==
    \A d \in Device : \A i \in 1 .. Len(KeysOf[d]) : Len(KeysOf[d]) \in Nat /\ KeysOf[d][i] \in Key
BY PageAssumption

\* Nothing ordered is in order.
LEMMA OrderedType ==
    ASSUME NEW rows, rows \subseteq Message, IsFiniteSet(rows), NEW s \in OrderedByTs(rows)
    PROVE  /\ s \in Seq(Message)
           /\ \A i \in 1 .. Len(s) : s[i] \in rows
           /\ \A i, j \in 1 .. Len(s) : i < j => s[i].ts <= s[j].ts /\ s[i] # s[j]
<1> DEFINE n == Cardinality(rows)
<1>1. n \in Nat
  BY FS_CardinalityType
<1>2. /\ s \in [1 .. n -> rows]
      /\ \A m \in rows : \E i \in DOMAIN s : s[i] = m
      /\ \A i, j \in DOMAIN s : i < j => s[i].ts <= s[j].ts
  BY DEF OrderedByTs
<1>3. s \in Seq(Message) /\ Len(s) = n
  BY <1>1, <1>2
<1>4. \A i, j \in 1 .. n : s[i] = s[j] => i = j
  <2>1. IsFiniteSet(1 .. n) /\ Cardinality(1 .. n) = n
    BY <1>1, FS_Interval
  <2>2. s \in Surjection(1 .. n, rows)
    BY <1>2 DEF Surjection
  <2>3. s \in Injection(1 .. n, rows)
    BY <2>1, <2>2, FS_SurjSameCardinalityImpliesInj
  <2> QED  BY <1>2, <2>3 DEF Injection, IsInjective
<1> QED
  BY <1>1, <1>2, <1>3, <1>4

LEMMA RecvAllType ==
    ASSUME NEW s \in Seq(Message)
    PROVE  /\ RecvAll(s) \in Seq(DownPacket) /\ Len(RecvAll(s)) = Len(s)
           /\ \A i \in 1 .. Len(s) : RecvAll(s)[i] = Recv(s[i])
           /\ \A i \in DOMAIN RecvAll(s) : RecvAll(s)[i].ev = "dm.recv"
<1>1. DOMAIN s = 1 .. Len(s) /\ \A i \in 1 .. Len(s) : Recv(s[i]) \in DownPacket
  BY DEF Recv, DownPacket
<1>2. \A i \in DOMAIN RecvAll(s) : RecvAll(s)[i].ev = "dm.recv"
  BY DEF RecvAll, Recv
<1> QED
  BY <1>1, <1>2 DEF RecvAll

LEMMA ConcatAt ==
    ASSUME NEW S, NEW a \in Seq(S), NEW b \in Seq(S), NEW i \in DOMAIN (a \o b)
    PROVE  \/ \E k \in DOMAIN a : (a \o b)[i] = a[k]
           \/ \E k \in DOMAIN b : (a \o b)[i] = b[k]
<1>1. /\ Len(a) \in Nat /\ Len(b) \in Nat /\ DOMAIN a = 1 .. Len(a) /\ DOMAIN b = 1 .. Len(b)
      /\ a \o b \in Seq(S) /\ Len(a \o b) = Len(a) + Len(b)
      /\ \A k \in 1 .. Len(a) + Len(b) : (a \o b)[k] =
                     IF k <= Len(a) THEN a[k] ELSE b[k - Len(a)]
  BY ConcatProperties, LenProperties
<1>2. i \in 1 .. Len(a) + Len(b)
  BY <1>1
<1>3. CASE i <= Len(a)
  BY <1>1, <1>2, <1>3
<1>4. CASE ~(i <= Len(a))
  <2>1. i - Len(a) \in 1 .. Len(b)
    BY <1>1, <1>2, <1>4
  <2> QED  BY <1>1, <1>2, <1>4, <2>1
<1> QED
  BY <1>3, <1>4

\* What a delivery does, the addressee online or not: some rows, all that wait
\* for him or none, go to some devices of his.
Hands(u, table, sockets, queues, rows, L, s) ==
    /\ rows \subseteq Undelivered(u, table) /\ L \subseteq SocketsOf(u, sockets)
    /\ s \in OrderedByTs(rows)
    /\ delivered' = delivered \cup {m.id : m \in rows}
    /\ downlink' = [d \in Device |-> IF d \in L THEN queues[d] \o RecvAll(s) ELSE queues[d]]
    /\ \/ rows = Undelivered(u, table) /\ L = SocketsOf(u, sockets)
       \/ ~IsOnline(u, sockets) /\ rows = {} /\ L = {}

LEMMA Delivery ==
    ASSUME NEW u, NEW table, NEW sockets, NEW queues,
           \E S : queues \in [Device -> S],
           DeliverPending(u, table, sockets, queues)
    PROVE  \E rows, L, s : Hands(u, table, sockets, queues, rows, L, s)
<1>1. CASE IsOnline(u, sockets)
  BY <1>1 DEF DeliverPending, Hands
<1>2. CASE ~IsOnline(u, sockets)
  <2>1. <<>> \in OrderedByTs({})
    BY FS_EmptySet DEF OrderedByTs
  <2>2. delivered' = delivered \cup {m.id : m \in {}}
    BY <1>2 DEF DeliverPending
  <2>3. downlink' = [d \in Device |-> IF d \in {} THEN queues[d] \o RecvAll(<<>>) ELSE queues[d]]
    BY <1>2 DEF DeliverPending
  <2>4. Hands(u, table, sockets, queues, {}, {}, <<>>)
    BY <1>2, <2>1, <2>2, <2>3 DEF Hands
  <2> QED  BY <2>4
<1> QED
  BY <1>1, <1>2

LEMMA HandsType ==
    ASSUME NEW u, NEW table, NEW sockets, NEW queues, NEW rows, NEW L, NEW s,
           Hands(u, table, sockets, queues, rows, L, s),
           table \subseteq Message, IsFiniteSet(table), queues \in [Device -> Seq(DownPacket)]
    PROVE  /\ rows \subseteq table /\ IsFiniteSet(rows) /\ rows \subseteq Message
           /\ s \in Seq(Message) /\ RecvAll(s) \in Seq(DownPacket)
           /\ downlink' \in [Device -> Seq(DownPacket)]
<1>1. rows \subseteq table /\ rows \subseteq Message /\ IsFiniteSet(rows)
  BY FS_Subset DEF Hands, Undelivered
<1>2. s \in Seq(Message) /\ RecvAll(s) \in Seq(DownPacket)
  BY <1>1, OrderedType, RecvAllType DEF Hands
<1>3. ASSUME NEW d \in Device PROVE queues[d] \o RecvAll(s) \in Seq(DownPacket)
  BY <1>2, ConcatProperties
<1> QED
  BY <1>1, <1>2, <1>3 DEF Hands

\* Whether r holds only what q does, but for p at d.
Adds(q, r, d, p) ==
    \A e \in Device : \A i \in DOMAIN r[e] :
        \/ i \in DOMAIN q[e] /\ r[e][i] = q[e][i]
        \/ e = d /\ r[e][i] = p

LEMMA AppendedTo ==
    ASSUME NEW S, NEW q \in [Device -> Seq(S)], NEW d \in Device, NEW p \in S
    PROVE  /\ [q EXCEPT ![d] = Append(@, p)] \in [Device -> Seq(S)]
           /\ Adds(q, [q EXCEPT ![d] = Append(@, p)], d, p)
<1> DEFINE r == [q EXCEPT ![d] = Append(@, p)]
<1>1. /\ Append(q[d], p) \in Seq(S)
      /\ DOMAIN Append(q[d], p) = 1 .. Len(q[d]) + 1
      /\ DOMAIN q[d] = 1 .. Len(q[d]) /\ Len(q[d]) \in Nat
      /\ Append(q[d], p)[Len(q[d]) + 1] = p
      /\ \A i \in 1 .. Len(q[d]) : Append(q[d], p)[i] = q[d][i]
  BY AppendProperties, LenProperties
<1>2. \A e \in Device : r[e] = IF e = d THEN Append(q[d], p) ELSE q[e]
  OBVIOUS
<1>3. r \in [Device -> Seq(S)]
  BY <1>1
<1> HIDE DEF r
<1>4. Adds(q, r, d, p)
  <2> SUFFICES ASSUME NEW e \in Device, NEW i \in DOMAIN r[e]
               PROVE  \/ i \in DOMAIN q[e] /\ r[e][i] = q[e][i]
                      \/ e = d /\ r[e][i] = p
    BY DEF Adds
  <2>1. CASE e # d
    BY <1>2, <2>1
  <2>2. CASE e = d
    <3>1. r[e] = Append(q[d], p)
      BY <1>2, <2>2
    <3>2. i \in 1 .. Len(q[d]) + 1 /\ Len(q[d]) \in Nat
      BY <1>1, <3>1, Zenon
    <3>3. i \in 1 .. Len(q[d]) \/ i = Len(q[d]) + 1
      BY <3>2
    <3> QED  BY <1>1, <2>2, <3>1, <3>3
  <2> QED  BY <2>1, <2>2
<1> QED
  BY <1>3, <1>4 DEF r

LEMMA EmitType ==
    ASSUME PageTypes, NEW d \in Device, NEW p \in Packet, Emit(d, p)
    PROVE  /\ uplink' \in [Device -> Seq(Packet)] /\ buffer' \in [Device -> Seq(Packet)]
           /\ Adds(uplink, uplink', d, p) /\ Adds(buffer, buffer', d, p)
<1>1. Adds(uplink, uplink, d, p) /\ Adds(buffer, buffer, d, p)
  BY DEF Adds
<1>2. uplink \in [Device -> Seq(Packet)] /\ buffer \in [Device -> Seq(Packet)]
  BY DEF PageTypes
<1>3. \A q \in [Device -> Seq(Packet)] :
        /\ [q EXCEPT ![d] = Append(@, p)] \in [Device -> Seq(Packet)]
        /\ Adds(q, [q EXCEPT ![d] = Append(@, p)], d, p)
  BY AppendedTo
<1>4. CASE d \in live
  <2>1. uplink' = [uplink EXCEPT ![d] = Append(@, p)] /\ buffer' = buffer
    BY <1>4 DEF Emit
  <2> QED  BY <1>1, <1>2, <1>3, <2>1
<1>5. CASE d \notin live
  <2>1. buffer' = [buffer EXCEPT ![d] = Append(@, p)] /\ uplink' = uplink
    BY <1>5 DEF Emit
  <2> QED  BY <1>1, <1>2, <1>3, <2>1
<1> QED
  BY <1>4, <1>5

LEMMA StoresType ==
    ASSUME RelayTypes, NEW from \in User, NEW to \in User, NEW key \in Key, NEW ts \in now .. MaxTs,
           Cardinality(messages) < MaxMessages
    PROVE  /\ NewRow(from, to, key, ts) \in Message
           /\ IsFiniteSet(messages \cup {NewRow(from, to, key, ts)})
<1>1. Cardinality(messages) \in Nat
  BY FS_CardinalityType DEF RelayTypes
<1>2. Cardinality(messages) + 1 \in 1 .. MaxMessages /\ ts \in 0 .. MaxTs
  BY <1>1, CommsAssumption DEF RelayTypes
<1>3. IsFiniteSet(messages \cup {NewRow(from, to, key, ts)})
  BY FS_AddElement DEF RelayTypes
<1> QED
  BY <1>2, <1>3 DEF NewRow, Message

\* dm.send: the row, the queues with its ack, and its delivery with what waits.
Sends(d, to, key, m, queues, rows, L, s) ==
    /\ m \in Message /\ m.to = to /\ m.key = key /\ m.ts = now'
    /\ m = NewRow(OwnerOf[d], to, key, now')
    /\ now' \in now .. MaxTs /\ Cardinality(messages) < MaxMessages
    /\ messages' = messages \cup {m}
    /\ messages' \subseteq Message /\ IsFiniteSet(messages')
    /\ queues = [downlink EXCEPT ![d] = Append(@, [ev |-> "ack", msg |-> m])]
    /\ queues \in [Device -> Seq(DownPacket)]
    /\ downlink' \in [Device -> Seq(DownPacket)]
    /\ Hands(to, messages', live, queues, rows, L, s)
    /\ UNCHANGED <<keys, live, ghosts>>

LEMMA SendEffect ==
    ASSUME Types, NEW d \in Device, NEW to \in User, NEW key \in Key, OnDmSend(d, to, key)
    PROVE  \E m, queues, rows, L, s : Sends(d, to, key, m, queues, rows, L, s)
<1>1. PICK ts \in {now, now + 1} \cap (0 .. MaxTs) :
        LET m == NewRow(OwnerOf[d], to, key, ts)
            acked == [downlink EXCEPT ![d] = Append(@, [ev |-> "ack", msg |-> m])]
        IN  /\ now' = ts
            /\ messages' = messages \cup {m}
            /\ DeliverPending(to, messages', live, acked)
  BY DEF OnDmSend
<1> DEFINE m == NewRow(OwnerOf[d], to, key, ts)
           acked == [downlink EXCEPT ![d] = Append(@, [ev |-> "ack", msg |-> m])]
<1>2. ts \in now .. MaxTs /\ Cardinality(messages) < MaxMessages
  BY CommsAssumption DEF OnDmSend, Types, RelayTypes
<1>3. m \in Message /\ IsFiniteSet(messages \cup {m})
  BY <1>2, StoresType, CommsAssumption DEF Types
<1>4. m.to = to /\ m.key = key /\ m.ts = ts
  BY DEF NewRow
<1>5. acked \in [Device -> Seq(DownPacket)]
  <2>1. [ev |-> "ack", msg |-> m] \in DownPacket
    BY <1>3 DEF DownPacket
  <2> HIDE DEF m
  <2> QED  BY <2>1, AppendProperties DEF Types, RelayTypes
<1>6. DeliverPending(to, messages', live, acked)
  BY <1>1
<1>7. PICK rows, L, s : Hands(to, messages', live, acked, rows, L, s)
  <2> HIDE DEF acked
  <2> QED  BY <1>5, <1>6, Delivery
<1>8. /\ now' = ts /\ messages' = messages \cup {m}
      /\ UNCHANGED <<keys, live, ghosts>>
  BY <1>1 DEF OnDmSend
<1>9. messages' \subseteq Message /\ IsFiniteSet(messages')
  <2> HIDE DEF m
  <2> QED  BY <1>3, <1>8 DEF Types, RelayTypes
<1>10. downlink' \in [Device -> Seq(DownPacket)]
  <2> HIDE DEF acked
  <2> QED  BY <1>5, <1>7, <1>9, HandsType
<1>11. m = NewRow(OwnerOf[d], to, key, now') /\ m.ts = now'
  BY <1>4, <1>8
<1> HIDE DEF m
<1>12. Sends(d, to, key, m, acked, rows, L, s)
  BY <1>2, <1>3, <1>4, <1>5, <1>7, <1>8, <1>9, <1>10, <1>11 DEF Sends
<1> QED
  BY <1>12

LEMMA PacketFields ==
    ASSUME NEW p \in Packet
    PROVE  /\ p.ev = "key.publish" => p.key \in Key
           /\ p.ev = "key.fetch" => p.user \in User
           /\ p.ev = "dm.send" => p.to \in User /\ p.key \in Key
BY DEF Packet

LEMMA DownFields ==
    ASSUME NEW p \in DownPacket
    PROVE  /\ p.ev \in {"dm.recv", "ack"} => p.msg \in Message
           /\ p.ev = "key" => p.user \in User /\ p.key \in Key \cup {NoKey}
           /\ p.ev \in {"dm.recv", "ack", "key"}
BY DEF DownPacket

LEMMA HeadPacket ==
    ASSUME NEW S, NEW q \in [Device -> Seq(S)], NEW d \in Device, q[d] # <<>>
    PROVE  /\ Head(q[d]) \in S /\ Head(q[d]) = q[d][1] /\ 1 \in DOMAIN q[d]
           /\ [q EXCEPT ![d] = Tail(@)] \in [Device -> Seq(S)]
           /\ \A e \in Device : \A i \in DOMAIN [q EXCEPT ![d] = Tail(@)][e] :
                \E j \in DOMAIN q[e] : [q EXCEPT ![d] = Tail(@)][e][i] = q[e][j]
<1>1. /\ Head(q[d]) \in S /\ Head(q[d]) = q[d][1] /\ 1 \in DOMAIN q[d]
      /\ Tail(q[d]) \in Seq(S) /\ Len(Tail(q[d])) = Len(q[d]) - 1 /\ Len(q[d]) \in Nat
      /\ DOMAIN q[d] = 1 .. Len(q[d])
      /\ \A i \in 1 .. Len(Tail(q[d])) : Tail(q[d])[i] = q[d][i + 1]
  BY HeadTailProperties, LenProperties
<1>2. \A i \in DOMAIN Tail(q[d]) : i + 1 \in DOMAIN q[d] /\ Tail(q[d])[i] = q[d][i + 1]
  BY <1>1
<1> QED
  BY <1>1, <1>2

\* The types of the relay's handlers' effects, of the pages' and of the failures.
LEMMA HandleTypes ==
    ASSUME Types, NEW d \in Device, Handle(d) PROVE Types'
<1> DEFINE p == Head(uplink[d])
<1>1. d \in live /\ d \in page /\ uplink[d] # <<>>
  BY DEF Handle, Types, RelayTypes
<1>2. p \in Packet /\ uplink' \in [Device -> Seq(Packet)]
  BY <1>1, HeadPacket DEF Handle, Types, PageTypes
<1>3. OwnerOf[d] \in User
  BY CommsAssumption
<1>4. UNCHANGED <<page, identity, keyCache, thread, buffer, drops>>
  BY DEF Handle
<1> USE DEF Types
<1>5. CASE p.ev = "key.publish" /\ OnKeyPublish(d, p.key)
  <2>1. p.key \in Key
    BY <1>2, <1>5, PacketFields
  <2>2. /\ keys' = [keys EXCEPT ![OwnerOf[d]] = p.key]
        /\ UNCHANGED <<messages, delivered, live, ghosts, downlink, now>>
    BY <1>5 DEF OnKeyPublish
  <2>3. keys' \in [User -> Key \cup {NoKey}]
    BY <2>1, <2>2 DEF RelayTypes
  <2> HIDE DEF p
  <2> QED  BY <1>2, <1>4, <2>2, <2>3 DEF RelayTypes, PageTypes
<1>6. CASE p.ev = "key.fetch" /\ OnKeyFetch(d, p.user)
  <2>1. p.user \in User /\ keys[p.user] \in Key \cup {NoKey}
    BY <1>2, <1>6, PacketFields DEF RelayTypes
  <2> DEFINE a == [ev |-> "key", user |-> p.user, key |-> keys[p.user]]
  <2>2. a \in DownPacket
    BY <2>1 DEF DownPacket
  <2>3. /\ downlink' = [downlink EXCEPT ![d] = Append(@, a)]
        /\ UNCHANGED <<keys, messages, delivered, live, ghosts, now>>
    BY <1>6 DEF OnKeyFetch
  <2> HIDE DEF p, a
  <2>4. downlink' \in [Device -> Seq(DownPacket)] /\ \A e \in Device \ {d} : downlink'[e] = downlink[e]
    BY <2>2, <2>3, AppendedTo DEF RelayTypes
  <2> QED  BY <1>1, <1>2, <1>4, <2>3, <2>4 DEF RelayTypes, PageTypes
<1>7. CASE p.ev = "dm.send" /\ OnDmSend(d, p.to, p.key)
  <2>1. p.to \in User /\ p.key \in Key
    BY <1>2, <1>7, PacketFields
  <2>2. PICK m, queues, rows, L, s : Sends(d, p.to, p.key, m, queues, rows, L, s)
    BY <1>7, <2>1, SendEffect
  <2>3. /\ messages' \subseteq Message /\ IsFiniteSet(messages')
        /\ downlink' \in [Device -> Seq(DownPacket)]
        /\ queues = [downlink EXCEPT ![d] = Append(@, [ev |-> "ack", msg |-> m])]
        /\ messages' = messages \cup {m} /\ now' \in now .. MaxTs
        /\ UNCHANGED <<keys, live, ghosts>>
    BY <2>2 DEF Sends
  <2>4. rows \subseteq messages'
    BY <2>2 DEF Sends, Hands, Undelivered
  <2>5. delivered' = delivered \cup {x.id : x \in rows} /\ L \subseteq live
    BY <2>2 DEF Sends, Hands, SocketsOf
  <2>6. \A e \in Device \ live : downlink'[e] = <<>>
    <3>1. \A e \in Device \ live : queues[e] = downlink[e]
      BY <1>1, <2>3 DEF RelayTypes
    <3>2. \A e \in Device \ L : downlink'[e] = queues[e]
      BY <2>2 DEF Sends, Hands
    <3> QED  BY <2>5, <3>1, <3>2 DEF PageTypes
  <2>7. delivered' \subseteq {x.id : x \in messages'} /\ now' \in 0 .. MaxTs
    BY <2>3, <2>4, <2>5 DEF RelayTypes
  <2> HIDE DEF p
  <2> QED  BY <1>2, <1>4, <2>3, <2>6, <2>7 DEF RelayTypes, PageTypes
<1>8. CASE p.ev = "dm.sync" /\ OnDmSync(d)
  <2>1. /\ delivered' = delivered \cup {m.id : m \in Undelivered(OwnerOf[d], messages)}
        /\ UNCHANGED <<keys, messages, live, ghosts, downlink, now>>
    BY <1>8 DEF OnDmSync
  <2> HIDE DEF p
  <2> QED  BY <1>2, <1>4, <2>1 DEF RelayTypes, PageTypes, Undelivered
<1> QED
  BY <1>5, <1>6, <1>7, <1>8 DEF Handle

LEMMA ConnectTypes ==
    ASSUME Types, NEW d \in Device, Connect(d) PROVE Types'
<1> USE DEF Types
<1>1. /\ d \in page /\ d \notin live /\ live' = live \cup {d}
      /\ DeliverPending(OwnerOf[d], messages, live', downlink)
      /\ UNCHANGED <<keys, messages, ghosts, now, page, identity, keyCache, thread, drops>>
  BY DEF Connect, OnConnection
<1>2. PICK rows, L, s : Hands(OwnerOf[d], messages, live', downlink, rows, L, s)
  BY <1>1, Delivery DEF RelayTypes
<1>3. downlink' \in [Device -> Seq(DownPacket)] /\ rows \subseteq messages
  BY <1>2, HandsType DEF RelayTypes
<1>4. delivered' = delivered \cup {x.id : x \in rows} /\ L \subseteq live'
  BY <1>2 DEF Hands, SocketsOf
<1>5. \A e \in Device \ live' : downlink'[e] = <<>>
  <2>1. \A e \in Device \ L : downlink'[e] = downlink[e]
    BY <1>2 DEF Hands
  <2> QED  BY <1>1, <1>4, <2>1 DEF PageTypes
<1> DEFINE hello == <<[ev |-> "key.publish", key |-> IdentityKey(d)], [ev |-> "dm.sync"]>>
<1>6. IdentityKey(d) \in Key
  BY <1>1, KeysOfType DEF IdentityKey, PageTypes
<1>7. hello \in Seq(Packet)
  BY <1>6 DEF Packet
<1>8. uplink' = [uplink EXCEPT ![d] = buffer[d] \o hello] /\ buffer' = [buffer EXCEPT ![d] = <<>>]
  BY DEF Connect
<1> HIDE DEF hello
<1>9. buffer[d] \o hello \in Seq(Packet) /\ <<>> \in Seq(Packet)
  BY <1>7, ConcatProperties, EmptySeq DEF PageTypes
<1>10. uplink' \in [Device -> Seq(Packet)] /\ buffer' \in [Device -> Seq(Packet)]
  BY <1>8, <1>9 DEF PageTypes
<1>11. delivered' \subseteq {x.id : x \in messages'}
  BY <1>1, <1>3, <1>4 DEF RelayTypes
<1> QED
  BY <1>1, <1>3, <1>5, <1>10, <1>11 DEF RelayTypes, PageTypes

LEMMA ReceiveTypes ==
    ASSUME Types, NEW d \in Device, Receive(d) PROVE Types'
<1> USE DEF Types
<1> DEFINE p == Head(downlink[d])
<1>1. /\ downlink[d] # <<>> /\ downlink' = [downlink EXCEPT ![d] = Tail(@)]
      /\ UNCHANGED <<keys, messages, delivered, live, ghosts, now,
                     page, identity, uplink, buffer, drops>>
  BY DEF Receive
<1>2. p \in DownPacket /\ downlink' \in [Device -> Seq(DownPacket)]
  BY <1>1, HeadPacket DEF RelayTypes
<1>3. \A e \in Device \ live' : downlink'[e] = <<>>
  BY <1>1 DEF PageTypes, RelayTypes
<1>4. /\ keyCache' \in [Device -> [User -> Key \cup {NoKey}]]
      /\ thread' \in [Device -> Seq(Entry)]
  <2>1. CASE p.ev = "dm.recv" /\ Ingest(d, p.msg)
    <3>1. p.msg \in Message
      BY <1>2, <2>1, DownFields
    <3>2. [msg |-> p.msg, mine |-> FALSE,
           clear |-> Opens(GenerateIdentity(IdentityKey(d)), BoxOf(p.msg))] \in Entry
      BY <3>1 DEF Entry, Opens
    <3> QED  BY <2>1, <3>2, AppendedTo DEF Ingest, PageTypes
  <2>2. CASE p.ev = "ack" /\ OnAck(d, p.msg)
    <3>1. p.msg \in Message
      BY <1>2, <2>2, DownFields
    <3>2. [msg |-> p.msg, mine |-> TRUE, clear |-> TRUE] \in Entry
      BY <3>1 DEF Entry
    <3> QED  BY <2>2, <3>2, AppendedTo DEF OnAck, PageTypes
  <2>3. CASE p.ev = "key" /\ OnKey(d, p.user, p.key)
    <3>1. p.user \in User /\ p.key \in Key \cup {NoKey}
      BY <1>2, <2>3, DownFields
    <3> QED  BY <2>3, <3>1 DEF OnKey, PageTypes
  <2> QED  BY <2>1, <2>2, <2>3 DEF Receive
<1> QED
  BY <1>1, <1>2, <1>3, <1>4 DEF RelayTypes, PageTypes

LEMMA SmallTypes ==
    ASSUME Types, NEW d \in Device, NEW u \in User,
           \/ OpenPage(d) \/ ClearData(d) \/ AskKey(d, u) \/ SendDm(d, u)
    PROVE  Types'
<1> USE DEF Types
<1>1. CASE OpenPage(d)
  <2>1. /\ page' = page \cup {d}
        /\ identity' = [identity EXCEPT ![d] = IF @ = 0 THEN 1 ELSE @]
        /\ UNCHANGED <<keys, messages, delivered, live, ghosts, downlink, now>>
        /\ UNCHANGED <<keyCache, thread, uplink, buffer, drops>>
    BY <1>1 DEF OpenPage, relayVars
  <2>2. Len(KeysOf[d]) >= 1 /\ Len(KeysOf[d]) \in Nat
    BY PageAssumption
  <2>3. /\ identity' \in [Device -> Nat]
        /\ \A e \in Device : identity'[e] <= Len(KeysOf[e])
        /\ \A e \in page' : identity'[e] >= 1
    BY <2>1, <2>2 DEF PageTypes
  <2>4. page' \subseteq Device /\ live' \subseteq page'
    BY <2>1 DEF RelayTypes, PageTypes
  <2> QED  BY <2>1, <2>3, <2>4 DEF RelayTypes, PageTypes
<1>2. CASE ClearData(d)
  <2>1. /\ d \notin page /\ identity[d] \in 1 .. Len(KeysOf[d]) - 1
        /\ identity' = [identity EXCEPT ![d] = @ + 1]
        /\ UNCHANGED <<keys, messages, delivered, live, ghosts, downlink, now>>
        /\ UNCHANGED <<page, keyCache, thread, uplink, buffer, drops>>
    BY <1>2 DEF ClearData, relayVars
  <2>2. Len(KeysOf[d]) \in Nat
    BY PageAssumption
  <2>3. /\ identity' \in [Device -> Nat]
        /\ \A e \in Device : identity'[e] <= Len(KeysOf[e])
    BY <2>1, <2>2 DEF PageTypes
  <2>4. \A e \in page : identity'[e] = identity[e]
    BY <2>1 DEF PageTypes
  <2> QED  BY <2>1, <2>3, <2>4 DEF RelayTypes, PageTypes
<1>3. CASE AskKey(d, u)
  <2>1. [ev |-> "key.fetch", user |-> u] \in Packet
    BY DEF Packet
  <2>2. uplink' \in [Device -> Seq(Packet)] /\ buffer' \in [Device -> Seq(Packet)]
    BY <1>3, <2>1, EmitType DEF AskKey
  <2>3. /\ UNCHANGED <<keys, messages, delivered, live, ghosts, downlink, now>>
        /\ UNCHANGED <<page, identity, keyCache, thread, drops>>
    BY <1>3 DEF AskKey, relayVars
  <2> QED  BY <2>2, <2>3 DEF RelayTypes, PageTypes
<1>4. CASE SendDm(d, u)
  <2>1. [ev |-> "dm.send", to |-> u, key |-> keyCache[d][u]] \in Packet
    BY <1>4 DEF Packet, SendDm, PageTypes
  <2>2. uplink' \in [Device -> Seq(Packet)] /\ buffer' \in [Device -> Seq(Packet)]
    BY <1>4, <2>1, EmitType DEF SendDm
  <2>3. /\ UNCHANGED <<keys, messages, delivered, live, ghosts, downlink, now>>
        /\ UNCHANGED <<page, identity, keyCache, thread, drops>>
    BY <1>4 DEF SendDm, relayVars
  <2> QED  BY <2>2, <2>3 DEF RelayTypes, PageTypes
<1> QED
  BY <1>1, <1>2, <1>3, <1>4

LEMMA NoticedTypes == ASSUME Types, NEW u \in User, Noticed(u) PROVE Types'
<1>1. /\ ghosts' = [ghosts EXCEPT ![u] = @ - 1] /\ ghosts[u] > 0
      /\ UNCHANGED <<keys, messages, delivered, live, downlink, now>>
      /\ UNCHANGED <<page, identity, keyCache, thread, uplink, buffer, drops>>
  BY DEF Noticed, OnDisconnect, clientVars
<1> QED
  BY <1>1 DEF Types, RelayTypes, PageTypes

LEMMA GoneTypes ==
    ASSUME Types, NEW d \in Device, Drop(d) \/ ClosePage(d) PROVE Types'
<1> USE DEF Types
<1>0. OwnerOf[d] \in User /\ ghosts \in [User -> Nat] /\ <<>> \in Seq(DownPacket)
  BY CommsAssumption, EmptySeq DEF RelayTypes
<1>1. CASE Drop(d)
  <2>1. /\ drops < MaxDrops /\ drops' = drops + 1
        /\ live' = live \ {d} /\ ghosts' = [ghosts EXCEPT ![OwnerOf[d]] = @ + 1]
        /\ downlink' = [downlink EXCEPT ![d] = <<>>]
        /\ uplink' = [uplink EXCEPT ![d] = <<>>]
        /\ UNCHANGED <<keys, messages, delivered, now, page, identity, keyCache, thread, buffer>>
    BY <1>1 DEF Drop, ClientGone
  <2>2. ghosts' \in [User -> Nat] /\ downlink' \in [Device -> Seq(DownPacket)]
    BY <1>0, <2>1 DEF RelayTypes
  <2>3. uplink' \in [Device -> Seq(Packet)] /\ drops' \in 0 .. MaxDrops
    BY <2>1, PageAssumption, EmptySeq DEF PageTypes
  <2>4. \A e \in Device \ live' : downlink'[e] = <<>>
    BY <2>1 DEF RelayTypes, PageTypes
  <2>5. RelayTypes'
    BY <2>1, <2>2 DEF RelayTypes
  <2> QED  BY <2>1, <2>3, <2>4, <2>5 DEF RelayTypes, PageTypes
<1>2. CASE ClosePage(d)
  <2>1. /\ page' = page \ {d}
        /\ keyCache' = [keyCache EXCEPT ![d] = NoCache]
        /\ thread' = [thread EXCEPT ![d] = <<>>]
        /\ uplink' = [uplink EXCEPT ![d] = <<>>]
        /\ buffer' = [buffer EXCEPT ![d] = <<>>]
        /\ UNCHANGED <<identity, drops>>
    BY <1>2 DEF ClosePage
  <2>2. NoCache \in [User -> Key \cup {NoKey}]
    BY DEF NoCache
  <2>3. /\ keyCache' \in [Device -> [User -> Key \cup {NoKey}]]
        /\ thread' \in [Device -> Seq(Entry)]
        /\ uplink' \in [Device -> Seq(Packet)] /\ buffer' \in [Device -> Seq(Packet)]
    BY <2>1, <2>2 DEF PageTypes
  <2>4. CASE ClientGone(d)
    <3>1. /\ live' = live \ {d} /\ ghosts' = [ghosts EXCEPT ![OwnerOf[d]] = @ + 1]
          /\ downlink' = [downlink EXCEPT ![d] = <<>>]
          /\ UNCHANGED <<keys, messages, delivered, now>>
      BY <2>4 DEF ClientGone
    <3>2. ghosts' \in [User -> Nat] /\ downlink' \in [Device -> Seq(DownPacket)]
      BY <1>0, <3>1 DEF RelayTypes
    <3>3. live' \subseteq page'
      BY <2>1, <3>1 DEF RelayTypes
    <3>4. \A e \in Device \ live' : downlink'[e] = <<>>
      BY <3>1 DEF RelayTypes, PageTypes
    <3>5. RelayTypes'
      BY <3>1, <3>2, <3>3 DEF RelayTypes
    <3> QED  BY <2>1, <2>3, <3>4, <3>5 DEF PageTypes
  <2>5. CASE d \notin live /\ UNCHANGED relayVars
    <3>1. UNCHANGED <<keys, messages, delivered, live, ghosts, downlink, now>>
      BY <2>5 DEF relayVars
    <3> QED  BY <2>1, <2>3, <2>5, <3>1 DEF RelayTypes, PageTypes
  <2> QED  BY <1>2, <2>4, <2>5 DEF ClosePage
<1> QED
  BY <1>1, <1>2

\* The process dies, a row possibly stored and not handed over, or some taken in vain.
LEMMA RestartEffect ==
    ASSUME Types, Restart
    PROVE  /\ live' = {} /\ ghosts' = [u \in User |-> 0]
           /\ downlink' = [d \in Device |-> <<>>] /\ uplink' = [d \in Device |-> <<>>]
           /\ UNCHANGED <<keys, now, page, identity, keyCache, thread, buffer>>
           /\ \/ messages' = messages /\ delivered' = delivered
              \/ messages' = messages /\ \E u \in User : TakesSome(u)
              \/ \E d \in Device, m \in Message :
                   /\ delivered' = delivered
                   /\ Cardinality(messages) < MaxMessages
                   /\ uplink[d] # <<>> /\ Head(uplink[d]) \in Packet
                   /\ Head(uplink[d]).ev = "dm.send"
                   /\ m = NewRow(OwnerOf[d], Head(uplink[d]).to, Head(uplink[d]).key, now)
                   /\ messages' = messages \cup {m} /\ IsFiniteSet(messages')
<1>1. ASSUME NEW d \in live, Cardinality(messages) < MaxMessages, uplink[d] # <<>>,
             Head(uplink[d]).ev = "dm.send",
             messages' = messages \cup
               {NewRow(OwnerOf[d], Head(uplink[d]).to, Head(uplink[d]).key, now)}
      PROVE  \E e \in Device, m \in Message :
                /\ Cardinality(messages) < MaxMessages
                /\ uplink[e] # <<>> /\ Head(uplink[e]) \in Packet
                /\ Head(uplink[e]).ev = "dm.send"
                /\ m = NewRow(OwnerOf[e], Head(uplink[e]).to, Head(uplink[e]).key, now)
                /\ messages' = messages \cup {m} /\ IsFiniteSet(messages')
  <2>1. d \in Device /\ OwnerOf[d] \in User /\ now \in now .. MaxTs
    BY CommsAssumption DEF Types, RelayTypes, PageTypes
  <2> DEFINE p == Head(uplink[d])
  <2>2. p \in Packet
    BY <1>1, <2>1, HeadPacket DEF Types, PageTypes
  <2>3. p.to \in User /\ p.key \in Key
    BY <1>1, <2>2, PacketFields
  <2>4. messages' = messages \cup {NewRow(OwnerOf[d], p.to, p.key, now)}
    BY <1>1
  <2>5. p.ev = "dm.send" /\ p = Head(uplink[d])
    BY <1>1
  <2> HIDE DEF p
  <2>6. /\ NewRow(OwnerOf[d], p.to, p.key, now) \in Message
        /\ IsFiniteSet(messages \cup {NewRow(OwnerOf[d], p.to, p.key, now)})
    BY <1>1, <2>1, <2>3, StoresType DEF Types
  <2> QED  BY <1>1, <2>1, <2>2, <2>4, <2>5, <2>6
<1>2. \/ messages' = messages /\ delivered' = delivered
      \/ messages' = messages /\ \E d \in page \ live : TakesSome(OwnerOf[d])
      \/ \E d \in live :
            /\ Cardinality(messages) < MaxMessages
            /\ uplink[d] # <<>>
            /\ Head(uplink[d]).ev = "dm.send"
            /\ messages' = messages \cup
                 {NewRow(OwnerOf[d], Head(uplink[d]).to, Head(uplink[d]).key, now)}
            /\ delivered' = delivered
  BY DEF Restart
<1>3. /\ live' = {} /\ ghosts' = [u \in User |-> 0]
      /\ downlink' = [d \in Device |-> <<>>] /\ uplink' = [d \in Device |-> <<>>]
      /\ UNCHANGED <<keys, now, page, identity, keyCache, thread, buffer>>
  BY DEF Restart
<1>4. ASSUME messages' # messages
      PROVE  \E e \in Device, m \in Message :
                /\ delivered' = delivered
                /\ Cardinality(messages) < MaxMessages
                /\ uplink[e] # <<>> /\ Head(uplink[e]) \in Packet
                /\ Head(uplink[e]).ev = "dm.send"
                /\ m = NewRow(OwnerOf[e], Head(uplink[e]).to, Head(uplink[e]).key, now)
                /\ messages' = messages \cup {m} /\ IsFiniteSet(messages')
  <2>1. PICK d \in live :
            /\ Cardinality(messages) < MaxMessages
            /\ uplink[d] # <<>>
            /\ Head(uplink[d]).ev = "dm.send"
            /\ messages' = messages \cup
                 {NewRow(OwnerOf[d], Head(uplink[d]).to, Head(uplink[d]).key, now)}
            /\ delivered' = delivered
    BY <1>2, <1>4
  <2> QED  BY <1>1, <2>1, Zenon
<1>5. CASE messages' # messages
  BY <1>3, <1>4, <1>5, Zenon
<1>6. CASE messages' = messages /\ \E d \in page \ live : TakesSome(OwnerOf[d])
  <2>1. \A d \in page \ live : OwnerOf[d] \in User
    BY CommsAssumption DEF Types, PageTypes
  <2>2. \E u \in User : TakesSome(u)
    BY <1>6, <2>1
  <2> QED  BY <1>3, <1>6, <2>2, Zenon
<1>7. CASE messages' = messages /\ ~ \E d \in page \ live : TakesSome(OwnerOf[d])
  <2>1. delivered' = delivered
    BY <1>2, <1>7
  <2> QED  BY <1>3, <1>7, <2>1, Zenon
<1> QED
  BY <1>5, <1>6, <1>7

\* What is taken in vain: rows of u that waited, none younger than one that still does.
LEMMA TakenEffect ==
    ASSUME Types, NEW u \in User, TakesSome(u)
    PROVE  \E taken \in SUBSET messages :
             /\ \A m \in taken : m.to = u /\ m.id \notin delivered
             /\ \A m \in taken, n \in messages \ taken :
                  n.to = u /\ n.id \notin delivered => m.ts <= n.ts
             /\ delivered' = delivered \cup {m.id : m \in taken}
<1>1. PICK taken \in SUBSET Undelivered(u, messages) :
          /\ \A m \in taken, n \in Undelivered(u, messages) \ taken : m.ts <= n.ts
          /\ delivered' = delivered \cup {m.id : m \in taken}
  BY DEF TakesSome
<1>2. taken \in SUBSET messages /\ \A m \in taken : m.to = u /\ m.id \notin delivered
  BY DEF Undelivered
<1>3. \A n \in messages \ taken :
        n.to = u /\ n.id \notin delivered => n \in Undelivered(u, messages) \ taken
  BY DEF Undelivered
<1> QED
  BY <1>1, <1>2, <1>3

LEMMA RestartTypes == ASSUME Types, Restart PROVE Types'
<1> USE DEF Types
<1>1. /\ live' = {} /\ ghosts' = [u \in User |-> 0]
      /\ downlink' = [d \in Device |-> <<>>] /\ uplink' = [d \in Device |-> <<>>]
      /\ UNCHANGED <<keys, now, page, identity, keyCache, thread, buffer>>
  BY RestartEffect
<1>2. messages' \subseteq Message /\ IsFiniteSet(messages') /\ messages \subseteq messages'
  BY RestartEffect DEF RelayTypes
<1>3. drops' \in 0 .. MaxDrops /\ delivered' \subseteq {m.id : m \in messages'}
  <2>1. drops' \in 0 .. MaxDrops
    BY PageAssumption DEF Restart, PageTypes
  <2>2. delivered \subseteq {m.id : m \in messages'}
    BY <1>2 DEF RelayTypes
  <2>3. ASSUME NEW u \in User, messages' = messages, TakesSome(u)
        PROVE  delivered' \subseteq {m.id : m \in messages'}
    BY <2>2, <2>3, TakenEffect
  <2> QED  BY <2>1, <2>2, <2>3, RestartEffect
<1>4. RelayTypes'
  <2>1. ghosts' \in [User -> Nat] /\ downlink' \in [Device -> Seq(DownPacket)]
    BY <1>1, EmptySeq
  <2> QED  BY <1>1, <1>2, <1>3, <2>1 DEF RelayTypes
<1>5. PageTypes'
  <2>1. uplink' \in [Device -> Seq(Packet)] /\ \A d \in Device : downlink'[d] = <<>>
    BY <1>1, EmptySeq
  <2> QED  BY <1>1, <1>3, <2>1 DEF PageTypes
<1> QED
  BY <1>4, <1>5

LEMMA TypesInit == Init => Types
<1> SUFFICES ASSUME Init PROVE Types
  OBVIOUS
<1>1. RelayTypes
  BY FS_EmptySet, EmptySeq, CommsAssumption DEF Init, RelayInit, RelayTypes
<1>2. \A d \in Device : Len(KeysOf[d]) \in Nat
  BY PageAssumption
<1>3. PageTypes
  BY <1>2, EmptySeq, PageAssumption, CommsAssumption DEF Init, RelayInit, PageTypes, NoCache
<1> QED
  BY <1>1, <1>3 DEF Types

LEMMA TypesNext == Types /\ [Next]_vars => Types'
<1> SUFFICES ASSUME Types, [Next]_vars PROVE Types'
  OBVIOUS
<1>1. CASE UNCHANGED vars
  BY <1>1 DEF vars, Types, RelayTypes, PageTypes
<1>2. ASSUME NEW d \in Device,
             OpenPage(d) \/ Connect(d) \/ Handle(d) \/ Receive(d) \/ Drop(d) \/ ClosePage(d) \/ ClearData(d)
      PROVE  Types'
  <2>1. OwnerOf[d] \in User
    BY CommsAssumption
  <2> QED  BY <1>2, <2>1, ConnectTypes, HandleTypes, ReceiveTypes, GoneTypes, SmallTypes
<1>3. ASSUME NEW d \in Device, NEW u \in User, AskKey(d, u) \/ SendDm(d, u) PROVE Types'
  BY <1>3, SmallTypes
<1> QED
  BY <1>1, <1>2, <1>3, NoticedTypes, RestartTypes DEF Next

LEMMA TypesAlways == Spec => []Types
BY TypesInit, TypesNext, PTL DEF Spec

\* TypeOK of MessagesPage, for any number of users, devices and messages.
THEOREM MessagesTypeCorrect == Spec => []TypeOK
<1>1. Types => TypeOK
  <2> SUFFICES ASSUME Types PROVE TypeOK
    OBVIOUS
  <2>1. \A d \in Device : identity[d] \in Nat /\ Len(KeysOf[d]) \in Nat
                          /\ DOMAIN KeysOf[d] = 1 .. Len(KeysOf[d])
    BY PageAssumption DEF Types, PageTypes
  <2>2. \A d \in Device : d \in page => identity[d] \in DOMAIN KeysOf[d]
    BY <2>1 DEF Types, PageTypes
  <2> QED  BY <2>2 DEF Types, RelayTypes, PageTypes, TypeOK
<1> QED
  BY <1>1, TypesAlways, PTL

-----------------------------------------------------------------------------
(***************************************************************************)
(* The message table.                                                      *)
(***************************************************************************)
TableInv == RowsInv /\ HandedFirst /\ OnlineHasNoBacklog

LEMMA RowAdded ==
    ASSUME Types, RowsInv, NEW m, m.id = Cardinality(messages) + 1, m.ts = now',
           now' \in now .. MaxTs, messages' = messages \cup {m}
    PROVE  /\ RowsInv'
           /\ m \notin messages /\ m.id \notin delivered
           /\ \A x \in messages : x.ts <= m.ts /\ x.id < m.id
<1>1. /\ Cardinality(messages) \in Nat
      /\ \A x \in messages : x.id \in Nat /\ x.ts \in Nat /\ x.id <= Cardinality(messages)
      /\ now \in Nat /\ now' \in Nat /\ now <= now'
  BY FS_CardinalityType, CommsAssumption DEF Types, RelayTypes, Message, RowsInv
<1>2. m \notin messages
  BY <1>1
<1>3. Cardinality(messages') = Cardinality(messages) + 1
  BY <1>2, FS_AddElement DEF Types, RelayTypes
<1>4. \A x \in messages : x.ts <= m.ts /\ x.id < m.id
  BY <1>1 DEF RowsInv
<1>5. m.id \notin delivered
  <2>1. \A i \in delivered : \E x \in messages : i = x.id
    BY DEF Types, RelayTypes
  <2> QED  BY <1>1, <1>4, <2>1
<1>6. RowsInv'
  BY <1>1, <1>3, <1>4 DEF RowsInv
<1> QED
  BY <1>2, <1>4, <1>5, <1>6

\* A delivery leaves nothing waiting for whom it serves, and nobody else's rows.
LEMMA TableHands ==
    ASSUME Types, Types', TableInv, RowsInv', NEW u \in User,
           messages \subseteq messages', ghosts' = ghosts,
           \A x \in messages' \ messages :
              x.to = u /\ x.id \notin delivered /\ \A y \in messages' : y.ts <= x.ts,
           \A v \in User : v # u => SocketsOf(v, live') = SocketsOf(v, live),
           NEW queues, NEW rows, NEW L, NEW s,
           Hands(u, messages', live', queues, rows, L, s)
    PROVE  HandedFirst' /\ OnlineHasNoBacklog'
<1>1. /\ delivered' = delivered \cup {m.id : m \in rows}
      /\ rows \subseteq messages'
      /\ \A m \in rows : m.to = u /\ m.id \notin delivered
      /\ rows # {} => \A m \in messages' : m.to = u /\ m.id \notin delivered => m \in rows
      /\ IsOnline(u, live') => \A m \in messages' : m.to = u /\ m.id \notin delivered => m \in rows
  BY DEF Hands, Undelivered
<1>2. HandedFirst'
  <2> SUFFICES ASSUME NEW m \in messages', NEW n \in messages',
                      m.to = n.to, m.id \in delivered', n.id \notin delivered'
               PROVE  m.ts <= n.ts
    BY DEF HandedFirst
  <2>1. n.id \notin delivered
    BY <1>1
  <2>2. CASE n \notin messages
    BY <2>2
  <2>3. CASE n \in messages /\ m.id \in delivered
    <3>1. m \in messages
      BY <2>3
    <3> QED  BY <2>1, <2>3, <3>1 DEF TableInv, HandedFirst
  <2>4. CASE m.id \notin delivered
    <3>1. m \in rows
      BY <1>1, <2>4 DEF RowsInv
    <3>2. n \in rows
      BY <1>1, <2>1, <3>1
    <3> QED  BY <1>1, <3>2
  <2> QED  BY <2>2, <2>3, <2>4
<1>3. OnlineHasNoBacklog'
  <2> SUFFICES ASSUME NEW v \in User, SocketsOf(v, live') # {} \/ ghosts'[v] > 0,
                      NEW m \in messages', m.to = v, m.id \notin delivered'
               PROVE  FALSE
    BY DEF OnlineHasNoBacklog, IsOnline, Undelivered
  <2>1. m.id \notin delivered
    BY <1>1
  <2>2. CASE v = u
    <3>1. IsOnline(u, live')
      BY <2>2 DEF IsOnline
    <3>2. m \in rows
      BY <1>1, <2>1, <2>2, <3>1
    <3> QED  BY <1>1, <3>2
  <2>3. CASE v # u
    <3>1. m \in messages
      BY <2>3
    <3>2. IsOnline(v, live)
      BY <2>3 DEF IsOnline
    <3> QED  BY <2>1, <3>1, <3>2 DEF TableInv, OnlineHasNoBacklog, Undelivered
  <2> QED  BY <2>2, <2>3
<1> QED
  BY <1>2, <1>3

\* With the table as it was, it is enough that nobody comes online.
LEMMA TableSame ==
    ASSUME TableInv, messages' = messages, now' = now, delivered' = delivered,
           \A v \in User : SocketsOf(v, live') # {} \/ ghosts'[v] > 0 => IsOnline(v, live)
    PROVE  TableInv'
BY DEF TableInv, RowsInv, HandedFirst, OnlineHasNoBacklog, IsOnline, Undelivered

LEMMA TableNext == Types /\ TableInv /\ [Next]_vars => TableInv'
<1> SUFFICES ASSUME Types, TableInv, [Next]_vars PROVE TableInv'
  OBVIOUS
<1>0. Types'
  BY TypesNext
<1>1. ASSUME UNCHANGED <<messages, delivered, live, ghosts, now>> PROVE TableInv'
  BY <1>1, TableSame DEF IsOnline
<1>2. ASSUME NEW d \in Device, Connect(d) PROVE TableInv'
  <2>1. /\ live' = live \cup {d} /\ ghosts' = ghosts /\ messages' = messages /\ now' = now
        /\ DeliverPending(OwnerOf[d], messages, live', downlink)
    BY <1>2 DEF Connect, OnConnection
  <2>2. PICK rows, L, s : Hands(OwnerOf[d], messages, live', downlink, rows, L, s)
    BY <2>1, Delivery DEF Types, RelayTypes
  <2>3. Hands(OwnerOf[d], messages', live', downlink, rows, L, s)
    BY <2>1, <2>2
  <2>4. RowsInv' /\ OwnerOf[d] \in User
    BY <2>1, CommsAssumption DEF TableInv, RowsInv
  <2>5. \A v \in User : v # OwnerOf[d] => SocketsOf(v, live') = SocketsOf(v, live)
    BY <2>1 DEF SocketsOf
  <2> QED  BY <1>0, <2>1, <2>3, <2>4, <2>5, TableHands DEF TableInv
<1>3. ASSUME NEW d \in Device, Handle(d) PROVE TableInv'
  <2> DEFINE p == Head(uplink[d])
  <2>1. p \in Packet /\ OwnerOf[d] \in User /\ d \in live
    <3>1. uplink[d] # <<>> /\ d \in live /\ uplink \in [Device -> Seq(Packet)]
      BY <1>3 DEF Handle, Types, PageTypes
    <3> QED  BY <3>1, HeadPacket, CommsAssumption
  <2>2. CASE OnKeyPublish(d, p.key) \/ OnKeyFetch(d, p.user)
    BY <2>2, <1>1 DEF OnKeyPublish, OnKeyFetch
  <2>3. CASE p.ev = "dm.send" /\ OnDmSend(d, p.to, p.key)
    <3>1. p.to \in User /\ p.key \in Key
      BY <2>1, <2>3, PacketFields
    <3>2. PICK m, queues, rows, L, s : Sends(d, p.to, p.key, m, queues, rows, L, s)
      BY <2>3, <3>1, SendEffect
    <3>3. /\ m.id = Cardinality(messages) + 1 /\ m.ts = now' /\ m.to = p.to
          /\ now' \in now .. MaxTs /\ messages' = messages \cup {m}
          /\ live' = live /\ ghosts' = ghosts
          /\ Hands(p.to, messages', live, queues, rows, L, s)
      BY <3>2 DEF Sends, NewRow
    <3>4. Hands(p.to, messages', live', queues, rows, L, s)
      BY <3>3
    <3>5. /\ RowsInv' /\ m.id \notin delivered
          /\ \A x \in messages : x.ts <= m.ts
      BY <3>3, RowAdded DEF TableInv
    <3>6. \A x \in messages' \ messages :
              x.to = p.to /\ x.id \notin delivered /\ \A y \in messages' : y.ts <= x.ts
      BY <3>3, <3>5 DEF RowsInv
    <3> HIDE DEF p
    <3> QED  BY <1>0, <3>1, <3>3, <3>4, <3>5, <3>6, TableHands DEF TableInv
  <2>4. CASE OnDmSync(d)
    <3>1. Undelivered(OwnerOf[d], messages) = {}
      BY <2>1 DEF TableInv, OnlineHasNoBacklog, IsOnline, SocketsOf
    <3>2. delivered' = delivered
      BY <2>4, <3>1 DEF OnDmSync
    <3> QED  BY <2>4, <3>2, <1>1 DEF OnDmSync
  <2> QED  BY <1>3, <2>2, <2>3, <2>4 DEF Handle
<1>4. ASSUME NEW d \in Device, ClientGone(d) PROVE TableInv'
  <2>1. /\ d \in live /\ live' = live \ {d}
        /\ ghosts' = [ghosts EXCEPT ![OwnerOf[d]] = @ + 1]
        /\ UNCHANGED <<messages, delivered, now>>
    BY <1>4 DEF ClientGone
  <2>2. \A v \in User : SocketsOf(v, live') # {} \/ ghosts'[v] > 0 => IsOnline(v, live)
    BY <2>1, CommsAssumption DEF SocketsOf, IsOnline, Types, RelayTypes
  <2> QED  BY <2>1, <2>2, TableSame
<1>5. ASSUME NEW u \in User, Noticed(u) PROVE TableInv'
  <2>1. /\ ghosts' = [ghosts EXCEPT ![u] = @ - 1]
        /\ UNCHANGED <<messages, delivered, live, now>>
    BY <1>5 DEF Noticed, OnDisconnect
  <2>2. \A v \in User : SocketsOf(v, live') # {} \/ ghosts'[v] > 0 => IsOnline(v, live)
    BY <2>1 DEF SocketsOf, IsOnline, Types, RelayTypes
  <2> QED  BY <2>1, <2>2, TableSame
<1>6. ASSUME Restart PROVE TableInv'
  <2>1. /\ live' = {} /\ ghosts' = [u \in User |-> 0] /\ now' = now
    BY <1>6, RestartEffect
  <2>2. \A v \in User : SocketsOf(v, live') = {} /\ ~(ghosts'[v] > 0)
    BY <2>1 DEF SocketsOf
  <2>3. CASE messages' = messages /\ delivered' = delivered
    BY <2>1, <2>2, <2>3, TableSame
  <2>5. ASSUME NEW u \in User, messages' = messages, TakesSome(u) PROVE TableInv'
    <3>1. RowsInv'
      BY <2>1, <2>5 DEF TableInv, RowsInv
    <3>2. PICK taken \in SUBSET messages :
             /\ \A m \in taken : m.to = u /\ m.id \notin delivered
             /\ \A m \in taken, n \in messages \ taken :
                  n.to = u /\ n.id \notin delivered => m.ts <= n.ts
             /\ delivered' = delivered \cup {m.id : m \in taken}
      BY <2>5, TakenEffect
    <3>3. HandedFirst'
      <4> SUFFICES ASSUME NEW m \in messages, NEW n \in messages,
                          m.to = n.to, m.id \in delivered', n.id \notin delivered'
                   PROVE  m.ts <= n.ts
        BY <2>5 DEF HandedFirst
      <4>1. n.id \notin delivered /\ n \notin taken
        BY <3>2
      <4>2. CASE m.id \in delivered
        BY <4>1, <4>2 DEF TableInv, HandedFirst
      <4>3. CASE m.id \notin delivered
        <5>1. m \in taken
          BY <3>2, <4>3 DEF TableInv, RowsInv
        <5> QED  BY <3>2, <4>1, <5>1
      <4> QED  BY <4>2, <4>3
    <3>4. OnlineHasNoBacklog'
      BY <2>2 DEF OnlineHasNoBacklog, IsOnline
    <3> QED  BY <3>1, <3>3, <3>4 DEF TableInv
  <2>4. CASE messages' # messages
    <3>0. delivered' = delivered
      BY <1>6, <2>4, RestartEffect
    <3>1. PICK m : /\ m.id = Cardinality(messages) + 1 /\ m.ts = now
                   /\ messages' = messages \cup {m}
      <4>1. PICK d \in Device, m \in Message :
                   /\ m = NewRow(OwnerOf[d], Head(uplink[d]).to, Head(uplink[d]).key, now)
                   /\ messages' = messages \cup {m}
        BY <1>6, <2>4, RestartEffect
      <4> QED  BY <4>1 DEF NewRow
    <3>2. m.ts = now' /\ now' \in now .. MaxTs
      BY <2>1, <3>1, CommsAssumption DEF Types, RelayTypes
    <3>3. RowsInv' /\ m.id \notin delivered /\ \A x \in messages : x.ts <= m.ts
      BY <3>1, <3>2, RowAdded DEF TableInv
    <3>4. HandedFirst'
      BY <3>0, <3>1, <3>3 DEF TableInv, HandedFirst
    <3>5. OnlineHasNoBacklog'
      BY <2>2 DEF OnlineHasNoBacklog, IsOnline
    <3> QED  BY <3>3, <3>4, <3>5 DEF TableInv
  <2> QED  BY <1>6, <2>3, <2>4, <2>5, RestartEffect
<1>7. ASSUME NEW d \in Device, OpenPage(d) \/ Receive(d) \/ ClearData(d) PROVE TableInv'
  BY <1>1, <1>7 DEF OpenPage, Receive, ClearData, relayVars
<1>8. ASSUME NEW d \in Device, Drop(d) \/ ClosePage(d) PROVE TableInv'
  BY <1>1, <1>4, <1>8 DEF Drop, ClosePage, relayVars
<1>9. ASSUME NEW d \in Device, NEW u \in User, AskKey(d, u) \/ SendDm(d, u) PROVE TableInv'
  BY <1>1, <1>9 DEF AskKey, SendDm, relayVars
<1>10. CASE UNCHANGED vars
  BY <1>1, <1>10 DEF vars
<1> QED
  BY <1>2, <1>3, <1>5, <1>6, <1>7, <1>8, <1>9, <1>10 DEF Next

LEMMA TableInit == Init => TableInv
BY FS_EmptySet DEF Init, RelayInit, TableInv, RowsInv, HandedFirst, OnlineHasNoBacklog, Undelivered

LEMMA TableAlways == Spec => [](Types /\ TableInv)
<1>1. Init => Types /\ TableInv
  BY TypesInit, TableInit
<1>2. Types /\ TableInv /\ [Next]_vars => (Types /\ TableInv)'
  BY TypesNext, TableNext
<1> QED
  BY <1>1, <1>2, PTL DEF Spec

\* OnlineHasNoBacklog of MessagesPage: whoever counts as online has no
\* undelivered row, whatever connects, dies, is noticed dead and restarts.
THEOREM NoBacklogOnline == Spec => []OnlineHasNoBacklog
BY TableAlways, PTL DEF TableInv

-----------------------------------------------------------------------------
(***************************************************************************)
(* The keys.                                                               *)
(***************************************************************************)
LEMMA GeneratedStays ==
    ASSUME identity \in [Device -> Nat], identity' \in [Device -> Nat],
           \A d \in Device : identity[d] <= identity'[d], NEW u, NEW k, Generated(u, k)
    PROVE  Generated(u, k)'
BY DEF Generated

LEMMA IdentityGrows ==
    ASSUME Types, [Next]_vars
    PROVE  /\ identity \in [Device -> Nat] /\ identity' \in [Device -> Nat]
           /\ \A d \in Device : identity[d] <= identity'[d]
<1>1. identity \in [Device -> Nat] /\ identity' \in [Device -> Nat]
  BY TypesNext DEF Types, PageTypes
<1>2. ASSUME NEW d \in Device, OpenPage(d) \/ ClearData(d)
      PROVE  \A e \in Device : identity[e] <= identity'[e]
  BY <1>1, <1>2 DEF OpenPage, ClearData
<1>3. ASSUME UNCHANGED identity PROVE \A e \in Device : identity[e] <= identity'[e]
  BY <1>1, <1>3
<1>4. ASSUME NEW d \in Device, Connect(d) \/ Handle(d) \/ Receive(d) \/ Drop(d) \/ ClosePage(d)
      PROVE  UNCHANGED identity
  BY <1>4 DEF Connect, Handle, Receive, Drop, ClosePage
<1>5. ASSUME NEW d \in Device, NEW u \in User, AskKey(d, u) \/ SendDm(d, u)
      PROVE  UNCHANGED identity
  BY <1>5 DEF AskKey, SendDm
<1>6. ASSUME NEW u \in User, Noticed(u) PROVE UNCHANGED identity
  BY <1>6 DEF Noticed, clientVars
<1>7. ASSUME Restart PROVE UNCHANGED identity
  BY <1>7 DEF Restart
<1>8. ASSUME UNCHANGED vars PROVE UNCHANGED identity
  BY <1>8 DEF vars
<1> QED
  BY <1>1, <1>2, <1>3, <1>4, <1>5, <1>6, <1>7, <1>8 DEF Next

\* What a step leaves or puts in the places for keys.
KeyMove ==
    /\ HeldKeys(keys') /\ HeldCaches(keyCache') /\ HeldPackets(uplink') /\ HeldPackets(buffer')
    /\ HeldAnswers(downlink') /\ HeldBoxes(messages')

LEMMA KeyMoveKeeps == ASSUME Types, [Next]_vars, KeyMove PROVE KeysInv'
<1>1. \A u, k : Generated(u, k) => Generated(u, k)'
  BY IdentityGrows, GeneratedStays
<1>2. HeldKeys(keys)' /\ HeldCaches(keyCache)'
  BY <1>1 DEF KeyMove, HeldKeys, HeldCaches
<1>3. \A d \in Device : \A p : PacketKey(d, p) => PacketKey(d, p)'
  BY <1>1 DEF PacketKey
<1>4. HeldPackets(uplink)' /\ HeldPackets(buffer)'
  BY <1>3 DEF KeyMove, HeldPackets
<1>5. HeldAnswers(downlink)' /\ HeldBoxes(messages)'
  BY <1>1 DEF KeyMove, HeldAnswers, HeldBoxes
<1> QED
  BY <1>2, <1>4, <1>5 DEF KeysInv

LEMMA HeldAdds ==
    ASSUME NEW q, NEW r, NEW d \in Device, NEW p, Adds(q, r, d, p)
    PROVE  /\ HeldPackets(q) /\ PacketKey(d, p) => HeldPackets(r)
           /\ HeldAnswers(q) /\ p.ev # "key" => HeldAnswers(r)
BY DEF Adds, HeldPackets, HeldAnswers

LEMMA HeldTail ==
    ASSUME NEW S, NEW q \in [Device -> Seq(S)], NEW d \in Device, q[d] # <<>>
    PROVE  /\ HeldPackets(q) => HeldPackets([q EXCEPT ![d] = Tail(@)])
           /\ HeldAnswers(q) => HeldAnswers([q EXCEPT ![d] = Tail(@)])
<1> DEFINE r == [q EXCEPT ![d] = Tail(@)]
<1>1. \A e \in Device : \A i \in DOMAIN r[e] : \E j \in DOMAIN q[e] : r[e][i] = q[e][j]
  BY HeadPacket
<1> HIDE DEF r
<1>2. (HeldPackets(q) => HeldPackets(r)) /\ (HeldAnswers(q) => HeldAnswers(r))
  BY <1>1 DEF HeldPackets, HeldAnswers
<1> QED
  BY <1>2 DEF r

\* Emptying a queue, or all.
LEMMA HeldEmpty ==
    ASSUME NEW S, NEW q \in [Device -> Seq(S)], NEW d \in Device
    PROVE  /\ HeldPackets(q) => HeldPackets([q EXCEPT ![d] = <<>>])
           /\ HeldAnswers(q) => HeldAnswers([q EXCEPT ![d] = <<>>])
           /\ HeldPackets([e \in Device |-> <<>>]) /\ HeldAnswers([e \in Device |-> <<>>])
BY DEF HeldPackets, HeldAnswers

\* What is handed over are no keys.
LEMMA HeldHands ==
    ASSUME NEW u, NEW table, NEW sockets, NEW queues, NEW rows, NEW L, NEW s,
           Hands(u, table, sockets, queues, rows, L, s),
           table \subseteq Message, IsFiniteSet(table), queues \in [Device -> Seq(DownPacket)],
           HeldAnswers(queues)
    PROVE  HeldAnswers(downlink')
<1>1. s \in Seq(Message)
  BY HandsType
<1>2. RecvAll(s) \in Seq(DownPacket) /\ \A i \in DOMAIN RecvAll(s) : RecvAll(s)[i].ev = "dm.recv"
  BY <1>1, RecvAllType
<1> SUFFICES ASSUME NEW d \in Device, NEW i \in DOMAIN downlink'[d], downlink'[d][i].ev = "key",
                    downlink'[d][i].key # NoKey
             PROVE  Generated(downlink'[d][i].user, downlink'[d][i].key)
  BY DEF HeldAnswers
<1>3. CASE d \notin L
  BY <1>3 DEF Hands, HeldAnswers
<1>4. CASE d \in L
  <2>1. downlink'[d] = queues[d] \o RecvAll(s)
    BY <1>4 DEF Hands
  <2>2. queues[d] \in Seq(DownPacket)
    OBVIOUS
  <2>3. \/ \E k \in DOMAIN queues[d] : downlink'[d][i] = queues[d][k]
        \/ \E k \in DOMAIN RecvAll(s) : downlink'[d][i] = RecvAll(s)[k]
    BY <1>2, <2>1, <2>2, ConcatAt
  <2> QED  BY <1>2, <2>3 DEF HeldAnswers
<1> QED
  BY <1>3, <1>4

LEMMA NoCacheHeld == HeldKeys(NoCache)
BY DEF HeldKeys, NoCache

LEMMA HandleKeys ==
    ASSUME Types, KeysInv, NEW d \in Device, Handle(d) PROVE KeyMove
<1> DEFINE p == Head(uplink[d])
<1>1. /\ uplink[d] # <<>> /\ d \in live /\ uplink \in [Device -> Seq(Packet)]
      /\ uplink' = [uplink EXCEPT ![d] = Tail(@)] /\ buffer' = buffer /\ keyCache' = keyCache
  BY DEF Handle, Types, PageTypes
<1>2. /\ p \in Packet /\ p = uplink[d][1] /\ 1 \in DOMAIN uplink[d] /\ OwnerOf[d] \in User
      /\ HeldPackets(uplink')
  <2>1. p \in Packet /\ p = uplink[d][1] /\ 1 \in DOMAIN uplink[d]
    BY <1>1, HeadPacket
  <2>2. HeldPackets(uplink)
    BY DEF KeysInv
  <2>3. HeldPackets([uplink EXCEPT ![d] = Tail(@)])
    BY <1>1, <2>2, HeldTail
  <2> QED  BY <1>1, <2>1, <2>3, CommsAssumption
<1>3. PacketKey(d, p)
  BY <1>2 DEF KeysInv, HeldPackets
<1> HIDE DEF p
<1>4. CASE p.ev = "key.publish" /\ OnKeyPublish(d, p.key)
  <2>1. keys' = [keys EXCEPT ![OwnerOf[d]] = p.key] /\ UNCHANGED <<downlink, messages>>
    BY <1>4 DEF OnKeyPublish
  <2>2. HeldKeys(keys')
    BY <1>3, <1>4, <2>1 DEF PacketKey, KeysInv, HeldKeys, Types, RelayTypes
  <2> QED  BY <1>1, <1>2, <2>1, <2>2 DEF KeyMove, KeysInv
<1>5. CASE p.ev = "key.fetch" /\ OnKeyFetch(d, p.user)
  <2> DEFINE a == [ev |-> "key", user |-> p.user, key |-> keys[p.user]]
  <2>1. /\ downlink' = [downlink EXCEPT ![d] = Append(@, a)]
        /\ UNCHANGED <<keys, messages>>
    BY <1>5 DEF OnKeyFetch
  <2>2. p.user \in User
    BY <1>2, <1>5, PacketFields
  <2>3. a \in DownPacket
    BY <2>2 DEF DownPacket, Types, RelayTypes
  <2>4. a.key # NoKey => Generated(a.user, a.key)
    BY <2>2 DEF KeysInv, HeldKeys
  <2> HIDE DEF a
  <2>5. Adds(downlink, downlink', d, a)
    BY <2>1, <2>3, AppendedTo DEF Types, RelayTypes
  <2>6. HeldAnswers(downlink')
    BY <2>4, <2>5 DEF Adds, HeldAnswers, KeysInv
  <2> QED  BY <1>1, <1>2, <2>1, <2>6 DEF KeyMove, KeysInv
<1>6. CASE p.ev = "dm.send" /\ OnDmSend(d, p.to, p.key)
  <2>1. p.to \in User /\ p.key \in Key
    BY <1>2, <1>6, PacketFields
  <2>2. PICK m, queues, rows, L, s : Sends(d, p.to, p.key, m, queues, rows, L, s)
    BY <1>6, <2>1, SendEffect
  <2> DEFINE a == [ev |-> "ack", msg |-> m]
  <2>3. /\ m.to = p.to /\ m.key = p.key /\ messages' = messages \cup {m} /\ m \in Message
        /\ messages' \subseteq Message /\ IsFiniteSet(messages')
        /\ queues = [downlink EXCEPT ![d] = Append(@, a)]
        /\ queues \in [Device -> Seq(DownPacket)]
        /\ Hands(p.to, messages', live, queues, rows, L, s) /\ keys' = keys
    BY <2>2 DEF Sends
  <2>4. HeldBoxes(messages')
    BY <1>3, <1>6, <2>3 DEF PacketKey, KeysInv, HeldBoxes
  <2>5. a \in DownPacket /\ a.ev # "key"
    BY <2>3 DEF DownPacket
  <2> HIDE DEF a
  <2>6. HeldAnswers(queues)
    <3>1. Adds(downlink, queues, d, a)
      BY <2>3, <2>5, AppendedTo DEF Types, RelayTypes
    <3>2. HeldAnswers(downlink)
      BY DEF KeysInv
    <3> QED  BY <2>5, <3>1, <3>2, HeldAdds
  <2>7. HeldAnswers(downlink')
    BY <2>3, <2>6, HeldHands
  <2> QED  BY <1>1, <1>2, <2>3, <2>4, <2>7 DEF KeyMove, KeysInv
<1>7. CASE p.ev = "dm.sync" /\ OnDmSync(d)
  BY <1>1, <1>2, <1>7 DEF OnDmSync, KeyMove, KeysInv
<1> QED
  BY <1>4, <1>5, <1>6, <1>7 DEF Handle, p

LEMMA ConnectKeys ==
    ASSUME Types, KeysInv, NEW d \in Device, Connect(d) PROVE KeyMove
<1>1. /\ d \in page /\ DeliverPending(OwnerOf[d], messages, live', downlink)
      /\ UNCHANGED <<keys, messages, keyCache>>
      /\ buffer' = [buffer EXCEPT ![d] = <<>>]
  BY DEF Connect, OnConnection
<1>2. PICK rows, L, s : Hands(OwnerOf[d], messages, live', downlink, rows, L, s)
  BY <1>1, Delivery DEF Types, RelayTypes
<1>3. HeldAnswers(downlink')
  BY <1>2, HeldHands DEF Types, RelayTypes, KeysInv
<1>4. HeldPackets(buffer')
  BY <1>1, HeldEmpty DEF Types, PageTypes, KeysInv
<1> DEFINE hello == <<[ev |-> "key.publish", key |-> IdentityKey(d)], [ev |-> "dm.sync"]>>
<1>5. IdentityKey(d) \in Key /\ identity[d] \in 1 .. identity[d]
  BY <1>1, KeysOfType DEF IdentityKey, Types, PageTypes
<1>6. Generated(OwnerOf[d], IdentityKey(d))
  BY <1>5 DEF Generated, IdentityKey
<1>7. hello \in Seq(Packet) /\ \A i \in DOMAIN hello : PacketKey(d, hello[i])
  BY <1>5, <1>6 DEF Packet, PacketKey
<1>8. uplink' = [uplink EXCEPT ![d] = buffer[d] \o hello]
  BY DEF Connect
<1> HIDE DEF hello
<1>9. HeldPackets(uplink')
  <2> SUFFICES ASSUME NEW e \in Device, NEW i \in DOMAIN uplink'[e]
               PROVE  PacketKey(e, uplink'[e][i])
    BY DEF HeldPackets
  <2>1. CASE e # d
    BY <1>8, <2>1 DEF KeysInv, HeldPackets
  <2>2. CASE e = d
    <3>1. uplink'[e] = buffer[d] \o hello /\ buffer[d] \in Seq(Packet)
      BY <1>8, <2>2 DEF Types, PageTypes
    <3>2. \A k \in DOMAIN (buffer[d] \o hello) :
              \/ \E j \in DOMAIN buffer[d] : (buffer[d] \o hello)[k] = buffer[d][j]
              \/ \E j \in DOMAIN hello : (buffer[d] \o hello)[k] = hello[j]
      BY <1>7, <3>1, ConcatAt
    <3>3. \/ \E k \in DOMAIN buffer[d] : uplink'[e][i] = buffer[d][k]
          \/ \E k \in DOMAIN hello : uplink'[e][i] = hello[k]
      BY <3>1, <3>2
    <3> QED  BY <1>7, <2>2, <3>3 DEF KeysInv, HeldPackets
  <2> QED  BY <2>1, <2>2
<1> QED
  BY <1>1, <1>3, <1>4, <1>9 DEF KeyMove, KeysInv

LEMMA ReceiveKeys ==
    ASSUME Types, KeysInv, NEW d \in Device, Receive(d) PROVE KeyMove
<1> DEFINE p == Head(downlink[d])
<1>1. /\ downlink[d] # <<>> /\ downlink' = [downlink EXCEPT ![d] = Tail(@)]
      /\ downlink \in [Device -> Seq(DownPacket)]
      /\ UNCHANGED <<keys, messages, uplink, buffer>>
  BY DEF Receive, Types, RelayTypes
<1>2. p \in DownPacket /\ p = downlink[d][1] /\ 1 \in DOMAIN downlink[d] /\ HeldAnswers(downlink')
  BY <1>1, HeadPacket, HeldTail DEF KeysInv
<1>3. HeldCaches(keyCache')
  <2>1. CASE keyCache' = keyCache
    BY <2>1 DEF KeysInv
  <2>2. CASE p.ev = "key" /\ OnKey(d, p.user, p.key)
    <3>1. p.key # NoKey => Generated(p.user, p.key)
      BY <1>2, <2>2 DEF KeysInv, HeldAnswers
    <3>2. keyCache' = [keyCache EXCEPT ![d][p.user] = IF p.key # NoKey THEN p.key ELSE @]
      BY <2>2 DEF OnKey
    <3> HIDE DEF p
    <3> QED  BY <3>1, <3>2 DEF KeysInv, HeldCaches, HeldKeys, Types, PageTypes
  <2> QED  BY <2>1, <2>2 DEF Receive, Ingest, OnAck
<1> QED
  BY <1>1, <1>2, <1>3 DEF KeyMove, KeysInv

LEMMA KeysNext == Types /\ KeysInv /\ [Next]_vars => KeysInv'
<1> SUFFICES ASSUME Types, KeysInv, [Next]_vars PROVE KeyMove
  BY KeyMoveKeeps
<1>1. ASSUME UNCHANGED <<keys, keyCache, uplink, buffer, downlink, messages>> PROVE KeyMove
  BY <1>1 DEF KeyMove, KeysInv
<1>2. ASSUME NEW d \in Device, Drop(d) \/ ClosePage(d) PROVE KeyMove
  <2>1. /\ UNCHANGED <<keys, messages>>
        /\ keyCache' = keyCache \/ keyCache' = [keyCache EXCEPT ![d] = NoCache]
        /\ uplink' = [uplink EXCEPT ![d] = <<>>]
        /\ buffer' = buffer \/ buffer' = [buffer EXCEPT ![d] = <<>>]
        /\ downlink' = downlink \/ downlink' = [downlink EXCEPT ![d] = <<>>]
    BY <1>2 DEF Drop, ClosePage, ClientGone, relayVars
  <2>2. /\ uplink \in [Device -> Seq(Packet)] /\ buffer \in [Device -> Seq(Packet)]
        /\ downlink \in [Device -> Seq(DownPacket)]
    BY DEF Types, RelayTypes, PageTypes
  <2>3. HeldPackets(uplink') /\ HeldPackets(buffer') /\ HeldAnswers(downlink')
    <3>1. HeldPackets(uplink) /\ HeldPackets(buffer) /\ HeldAnswers(downlink)
      BY DEF KeysInv
    <3>2. /\ HeldPackets([uplink EXCEPT ![d] = <<>>]) /\ HeldPackets([buffer EXCEPT ![d] = <<>>])
          /\ HeldAnswers([downlink EXCEPT ![d] = <<>>])
      BY <2>2, <3>1, HeldEmpty
    <3> QED  BY <2>1, <3>1, <3>2
  <2>4. HeldCaches(keyCache')
    BY <2>1, NoCacheHeld DEF KeysInv, HeldCaches, Types, PageTypes
  <2> QED  BY <2>1, <2>3, <2>4 DEF KeyMove, KeysInv
<1>3. ASSUME Restart PROVE KeyMove
  <2>1. /\ uplink' = [e \in Device |-> <<>>] /\ downlink' = [e \in Device |-> <<>>]
        /\ UNCHANGED <<keys, keyCache, buffer>>
    BY <1>3, RestartEffect
  <2>2. HeldPackets(uplink') /\ HeldAnswers(downlink')
    BY <2>1, HeldEmpty DEF HeldPackets, HeldAnswers
  <2>3. HeldBoxes(messages')
    <3>1. CASE messages' = messages
      BY <3>1 DEF KeysInv
    <3>2. CASE messages' # messages
      <4>1. PICK d \in Device, m \in Message :
                   /\ uplink[d] # <<>> /\ Head(uplink[d]).ev = "dm.send"
                   /\ m = NewRow(OwnerOf[d], Head(uplink[d]).to, Head(uplink[d]).key, now)
                   /\ messages' = messages \cup {m}
        BY <1>3, <3>2, RestartEffect
      <4>2. Head(uplink[d]) = uplink[d][1] /\ 1 \in DOMAIN uplink[d]
        BY <4>1, HeadPacket DEF Types, PageTypes
      <4>3. Generated(m.to, m.key)
        BY <4>1, <4>2 DEF KeysInv, HeldPackets, PacketKey, NewRow
      <4> QED  BY <4>1, <4>3 DEF KeysInv, HeldBoxes
    <3> QED  BY <3>1, <3>2
  <2> QED  BY <2>1, <2>2, <2>3 DEF KeyMove, KeysInv
<1>4. ASSUME NEW d \in Device, NEW u \in User, AskKey(d, u) PROVE KeyMove
  <2> DEFINE p == [ev |-> "key.fetch", user |-> u]
  <2>1. p \in Packet /\ PacketKey(d, p)
    BY DEF Packet, PacketKey
  <2>2. Emit(d, p) /\ UNCHANGED <<keys, keyCache, downlink, messages>>
    BY <1>4 DEF AskKey, relayVars
  <2> HIDE DEF p
  <2>3. Adds(uplink, uplink', d, p) /\ Adds(buffer, buffer', d, p)
    BY <2>1, <2>2, EmitType DEF Types
  <2>4. HeldPackets(uplink') /\ HeldPackets(buffer')
    BY <2>1, <2>3, HeldAdds DEF KeysInv
  <2> QED  BY <2>2, <2>4 DEF KeyMove, KeysInv
<1>5. ASSUME NEW d \in Device, NEW u \in User, SendDm(d, u) PROVE KeyMove
  <2> DEFINE p == [ev |-> "dm.send", to |-> u, key |-> keyCache[d][u]]
  <2>1. keyCache[d][u] # NoKey /\ Emit(d, p) /\ UNCHANGED <<keys, keyCache, downlink, messages>>
    BY <1>5 DEF SendDm, relayVars
  <2>2. p \in Packet /\ PacketKey(d, p)
    BY <2>1 DEF Packet, PacketKey, KeysInv, HeldCaches, HeldKeys, Types, PageTypes
  <2> HIDE DEF p
  <2>3. Adds(uplink, uplink', d, p) /\ Adds(buffer, buffer', d, p)
    BY <2>1, <2>2, EmitType DEF Types
  <2>4. HeldPackets(uplink') /\ HeldPackets(buffer')
    BY <2>2, <2>3, HeldAdds DEF KeysInv
  <2> QED  BY <2>1, <2>4 DEF KeyMove, KeysInv
<1>6. ASSUME NEW d \in Device, OpenPage(d) \/ ClearData(d) PROVE KeyMove
  BY <1>1, <1>6 DEF OpenPage, ClearData, relayVars
<1>7. ASSUME NEW u \in User, Noticed(u) PROVE KeyMove
  BY <1>1, <1>7 DEF Noticed, OnDisconnect, clientVars
<1>8. CASE UNCHANGED vars
  BY <1>1, <1>8 DEF vars
<1> QED
  BY <1>2, <1>3, <1>4, <1>5, <1>6, <1>7, <1>8, ConnectKeys, HandleKeys, ReceiveKeys DEF Next

LEMMA KeysInit == Init => KeysInv
BY NoCacheHeld DEF Init, RelayInit, KeysInv, HeldKeys, HeldCaches, HeldPackets, HeldAnswers, HeldBoxes

\* SealedToAddressee of MessagesPage, for any number of users, devices and keys:
\* through publishing, fetching, caching, buffering and clearing, no box is
\* sealed to a key that its addressee's devices did not generate.
THEOREM BoxesAreForTheirAddressee == Spec => []SealedToAddressee
<1>1. Init => Types /\ KeysInv
  BY TypesInit, KeysInit
<1>2. Types /\ KeysInv /\ [Next]_vars => (Types /\ KeysInv)'
  BY TypesNext, KeysNext
<1>3. KeysInv => SealedToAddressee
  BY DEF KeysInv, HeldBoxes, Generated, SealedToAddressee
<1> QED
  BY <1>1, <1>2, <1>3, PTL DEF Spec

-----------------------------------------------------------------------------
(***************************************************************************)
(* What a device was given.                                                *)
(***************************************************************************)
Inbox(t, q) == FlattenSeq(Shown(t) \o Coming(q))

LEMMA FlattenOne == ASSUME NEW S, NEW x \in Seq(S) PROVE FlattenSeq(<<x>>) = x
<1>1. <<>> \in Seq(Seq(S)) /\ Append(<<>>, x) = <<x>>
  OBVIOUS
<1>2. FlattenSeq(<<x>>) = FlattenSeq(<<>>) \o x
  BY <1>1, FlattenAppend
<1> QED
  BY <1>2, FlattenEmpty, ConcatEmptySeq

\* The letter an entry shows and the letter a packet brings, if any.
Letter(e) == IF e.mine THEN <<>> ELSE <<e.msg>>
Brought(p) == IF p.ev = "dm.recv" THEN <<p.msg>> ELSE <<>>

LEMMA LetterType == \A e \in Entry : Letter(e) \in Seq(Message)
<1> SUFFICES ASSUME NEW e \in Entry PROVE Letter(e) \in Seq(Message)
  OBVIOUS
<1>1. e.msg \in Message
  BY DEF Entry
<1>2. CASE e.mine
  BY <1>2, EmptySeq DEF Letter
<1>3. CASE ~e.mine
  BY <1>1, <1>3 DEF Letter
<1> QED
  BY <1>2, <1>3

LEMMA BroughtType == \A p \in DownPacket : Brought(p) \in Seq(Message)
<1> SUFFICES ASSUME NEW p \in DownPacket PROVE Brought(p) \in Seq(Message)
  OBVIOUS
<1>1. CASE p.ev = "dm.recv"
  BY <1>1, DownFields DEF Brought
<1>2. CASE p.ev # "dm.recv"
  BY <1>2, EmptySeq DEF Brought
<1> QED
  BY <1>1, <1>2

LEMMA LettersOf ==
    /\ \A t : Shown(t) = [i \in DOMAIN t |-> Letter(t[i])]
    /\ \A q : Coming(q) = [i \in DOMAIN q |-> Brought(q[i])]
BY DEF Shown, Coming, Letter, Brought

LEMMA ShownType ==
    ASSUME NEW t \in Seq(Entry)
    PROVE  Shown(t) \in Seq(Seq(Message)) /\ Len(Shown(t)) = Len(t)
<1> DEFINE S == Seq(Message)
<1>1. DOMAIN t = 1 .. Len(t) /\ Len(t) \in Nat /\ \A i \in 1 .. Len(t) : t[i] \in Entry
  OBVIOUS
<1>2. \A i \in 1 .. Len(t) : Letter(t[i]) \in S
  BY <1>1, LetterType
<1>3. Shown(t) = [i \in 1 .. Len(t) |-> Letter(t[i])]
  BY <1>1, LettersOf
<1> HIDE DEF S
<1>4. Shown(t) \in Seq(S) /\ Len(Shown(t)) = Len(t)
  BY <1>1, <1>2, <1>3
<1> QED
  BY <1>4 DEF S

LEMMA ComingType ==
    ASSUME NEW q \in Seq(DownPacket)
    PROVE  Coming(q) \in Seq(Seq(Message)) /\ Len(Coming(q)) = Len(q)
<1> DEFINE S == Seq(Message)
<1>1. DOMAIN q = 1 .. Len(q) /\ Len(q) \in Nat /\ \A i \in 1 .. Len(q) : q[i] \in DownPacket
  OBVIOUS
<1>2. \A i \in 1 .. Len(q) : Brought(q[i]) \in S
  BY <1>1, BroughtType
<1>3. Coming(q) = [i \in 1 .. Len(q) |-> Brought(q[i])]
  BY <1>1, LettersOf
<1> HIDE DEF S
<1>4. Coming(q) \in Seq(S) /\ Len(Coming(q)) = Len(q)
  BY <1>1, <1>2, <1>3
<1> QED
  BY <1>4 DEF S

\* What a page has read from others, and what is still on its way to it.
Read(t) == FlattenSeq(Shown(t))
Given(q) == FlattenSeq(Coming(q))

LEMMA InboxType ==
    ASSUME NEW t \in Seq(Entry), NEW q \in Seq(DownPacket)
    PROVE  /\ Read(t) \in Seq(Message) /\ Given(q) \in Seq(Message)
           /\ Inbox(t, q) \in Seq(Message) /\ Inbox(t, q) = Read(t) \o Given(q)
<1>1. Shown(t) \in Seq(Seq(Message)) /\ Coming(q) \in Seq(Seq(Message))
  BY ShownType, ComingType
<1>2. /\ Read(t) \in Seq(Message) /\ Given(q) \in Seq(Message)
      /\ Inbox(t, q) = Read(t) \o Given(q)
  BY <1>1, FlattenType, FlattenConcat DEF Inbox, Read, Given
<1> QED
  BY <1>2, ConcatProperties

LEMMA ShownConcat ==
    ASSUME NEW a \in Seq(Entry), NEW b \in Seq(Entry)
    PROVE  Shown(a \o b) = Shown(a) \o Shown(b)
<1>1. /\ Shown(a) \in Seq(Seq(Message)) /\ Len(Shown(a)) = Len(a) /\ Len(a) \in Nat
      /\ Shown(b) \in Seq(Seq(Message)) /\ Len(Shown(b)) = Len(b) /\ Len(b) \in Nat
      /\ DOMAIN a = 1 .. Len(a) /\ DOMAIN b = 1 .. Len(b)
      /\ \A i \in 1 .. Len(a) : Shown(a)[i] = Letter(a[i])
      /\ \A i \in 1 .. Len(b) : Shown(b)[i] = Letter(b[i])
  BY ShownType, LettersOf
<1> DEFINE r == a \o b
<1>2. /\ r \in Seq(Entry) /\ Len(r) = Len(a) + Len(b)
      /\ \A i \in 1 .. Len(a) + Len(b) : r[i] = IF i <= Len(a) THEN a[i] ELSE b[i - Len(a)]
  BY ConcatProperties
<1> HIDE DEF r
<1>3. /\ Shown(r) \in Seq(Seq(Message)) /\ Len(Shown(r)) = Len(a) + Len(b)
      /\ \A i \in 1 .. Len(a) + Len(b) : Shown(r)[i] = Letter(r[i])
  BY <1>2, ShownType, LettersOf
<1>4. /\ Shown(a) \o Shown(b) \in Seq(Seq(Message))
      /\ Len(Shown(a) \o Shown(b)) = Len(a) + Len(b)
      /\ \A i \in 1 .. Len(a) + Len(b) : (Shown(a) \o Shown(b))[i] =
            IF i <= Len(a) THEN Shown(a)[i] ELSE Shown(b)[i - Len(a)]
  <2>1. \A x, y \in Seq(Seq(Message)) :
          /\ x \o y \in Seq(Seq(Message))
          /\ Len(x \o y) = Len(x) + Len(y)
          /\ \A i \in 1 .. Len(x) + Len(y) : (x \o y)[i] =
                IF i <= Len(x) THEN x[i] ELSE y[i - Len(x)]
    BY ConcatProperties
  <2> DEFINE w == Shown(a) \o Shown(b)
  <2>2. /\ w \in Seq(Seq(Message))
        /\ Len(w) = Len(Shown(a)) + Len(Shown(b))
        /\ \A i \in 1 .. Len(Shown(a)) + Len(Shown(b)) : w[i] =
              IF i <= Len(Shown(a)) THEN Shown(a)[i] ELSE Shown(b)[i - Len(Shown(a))]
    BY <1>1, <2>1, Zenon
  <2> HIDE DEF w
  <2>3. /\ w \in Seq(Seq(Message)) /\ Len(w) = Len(a) + Len(b)
        /\ \A i \in 1 .. Len(a) + Len(b) : w[i] =
              IF i <= Len(a) THEN Shown(a)[i] ELSE Shown(b)[i - Len(a)]
    BY <1>1, <2>2
  <2> QED  BY <2>3 DEF w
<1>5. \A i \in 1 .. Len(a) + Len(b) : Shown(r)[i] = (Shown(a) \o Shown(b))[i]
  <2> TAKE i \in 1 .. Len(a) + Len(b)
  <2>1. CASE i <= Len(a)
    <3>1. i \in 1 .. Len(a)
      BY <1>1, <2>1
    <3> QED  BY <1>1, <1>2, <1>3, <1>4, <2>1, <3>1
  <2>2. CASE ~(i <= Len(a))
    <3>1. i - Len(a) \in 1 .. Len(b)
      BY <1>1, <2>2
    <3> QED  BY <1>1, <1>2, <1>3, <1>4, <2>2, <3>1
  <2> QED  BY <2>1, <2>2
<1> QED
  BY <1>3, <1>4, <1>5, SeqEqual DEF r

LEMMA ComingConcat ==
    ASSUME NEW a \in Seq(DownPacket), NEW b \in Seq(DownPacket)
    PROVE  Coming(a \o b) = Coming(a) \o Coming(b)
<1>1. /\ Coming(a) \in Seq(Seq(Message)) /\ Len(Coming(a)) = Len(a) /\ Len(a) \in Nat
      /\ Coming(b) \in Seq(Seq(Message)) /\ Len(Coming(b)) = Len(b) /\ Len(b) \in Nat
      /\ DOMAIN a = 1 .. Len(a) /\ DOMAIN b = 1 .. Len(b)
      /\ \A i \in 1 .. Len(a) : Coming(a)[i] = Brought(a[i])
      /\ \A i \in 1 .. Len(b) : Coming(b)[i] = Brought(b[i])
  BY ComingType, LettersOf
<1> DEFINE r == a \o b
<1>2. /\ r \in Seq(DownPacket) /\ Len(r) = Len(a) + Len(b)
      /\ \A i \in 1 .. Len(a) + Len(b) : r[i] = IF i <= Len(a) THEN a[i] ELSE b[i - Len(a)]
  BY ConcatProperties
<1> HIDE DEF r
<1>3. /\ Coming(r) \in Seq(Seq(Message)) /\ Len(Coming(r)) = Len(a) + Len(b)
      /\ \A i \in 1 .. Len(a) + Len(b) :
            Coming(r)[i] = Brought(r[i])
  BY <1>2, ComingType, LettersOf
<1>4. /\ Coming(a) \o Coming(b) \in Seq(Seq(Message))
      /\ Len(Coming(a) \o Coming(b)) = Len(a) + Len(b)
      /\ \A i \in 1 .. Len(a) + Len(b) : (Coming(a) \o Coming(b))[i] =
            IF i <= Len(a) THEN Coming(a)[i] ELSE Coming(b)[i - Len(a)]
  <2>1. \A x, y \in Seq(Seq(Message)) :
          /\ x \o y \in Seq(Seq(Message))
          /\ Len(x \o y) = Len(x) + Len(y)
          /\ \A i \in 1 .. Len(x) + Len(y) : (x \o y)[i] =
                IF i <= Len(x) THEN x[i] ELSE y[i - Len(x)]
    BY ConcatProperties
  <2> DEFINE w == Coming(a) \o Coming(b)
  <2>2. /\ w \in Seq(Seq(Message))
        /\ Len(w) = Len(Coming(a)) + Len(Coming(b))
        /\ \A i \in 1 .. Len(Coming(a)) + Len(Coming(b)) : w[i] =
              IF i <= Len(Coming(a)) THEN Coming(a)[i] ELSE Coming(b)[i - Len(Coming(a))]
    BY <1>1, <2>1, Zenon
  <2> HIDE DEF w
  <2>3. /\ w \in Seq(Seq(Message)) /\ Len(w) = Len(a) + Len(b)
        /\ \A i \in 1 .. Len(a) + Len(b) : w[i] =
              IF i <= Len(a) THEN Coming(a)[i] ELSE Coming(b)[i - Len(a)]
    BY <1>1, <2>2
  <2> QED  BY <2>3 DEF w
<1>5. \A i \in 1 .. Len(a) + Len(b) : Coming(r)[i] = (Coming(a) \o Coming(b))[i]
  <2> TAKE i \in 1 .. Len(a) + Len(b)
  <2>1. CASE i <= Len(a)
    <3>1. i \in 1 .. Len(a)
      BY <1>1, <2>1
    <3> QED  BY <1>1, <1>2, <1>3, <1>4, <2>1, <3>1
  <2>2. CASE ~(i <= Len(a))
    <3>1. i - Len(a) \in 1 .. Len(b)
      BY <1>1, <2>2
    <3> QED  BY <1>1, <1>2, <1>3, <1>4, <2>2, <3>1
  <2> QED  BY <2>1, <2>2
<1> QED
  BY <1>3, <1>4, <1>5, SeqEqual DEF r

LEMMA GivenConcat ==
    ASSUME NEW a \in Seq(DownPacket), NEW b \in Seq(DownPacket)
    PROVE  Given(a \o b) = Given(a) \o Given(b)
<1>1. Coming(a) \in Seq(Seq(Message)) /\ Coming(b) \in Seq(Seq(Message))
  BY ComingType
<1> QED
  BY <1>1, ComingConcat, FlattenConcat DEF Given

LEMMA GivenOne == ASSUME NEW p \in DownPacket PROVE Given(<<p>>) = Brought(p)
<1>1. Coming(<<p>>) = <<Brought(p)>>
  BY LettersOf
<1> QED
  BY <1>1, BroughtType, FlattenOne DEF Given

LEMMA ReadAppend ==
    ASSUME NEW t \in Seq(Entry), NEW e \in Entry
    PROVE  Read(Append(t, e)) = Read(t) \o Letter(e)
<1>1. Append(t, e) = t \o <<e>> /\ <<e>> \in Seq(Entry)
  BY AppendIsConcat
<1>2. Shown(t) \in Seq(Seq(Message)) /\ Shown(<<e>>) \in Seq(Seq(Message))
  BY <1>1, ShownType
<1>3. Read(Append(t, e)) = Read(t) \o Read(<<e>>)
  <2>1. Shown(t \o <<e>>) = Shown(t) \o Shown(<<e>>)
    BY <1>1, ShownConcat
  <2>2. FlattenSeq(Shown(t) \o Shown(<<e>>)) = Read(t) \o Read(<<e>>)
    BY <1>2, FlattenConcat DEF Read
  <2> QED  BY <1>1, <2>1, <2>2, Zenon DEF Read
<1>4. Shown(<<e>>) = <<Letter(e)>>
  BY LettersOf
<1>5. Read(<<e>>) = Letter(e)
  BY <1>4, LetterType, FlattenOne DEF Read
<1> QED
  BY <1>3, <1>5

\* Letters one by one are the letters.
LEMMA FlattenSingles ==
    ASSUME NEW S, NEW s \in Seq(S)
    PROVE  FlattenSeq([i \in 1 .. Len(s) |-> <<s[i]>>]) = s
<1> DEFINE One(t) == [i \in 1 .. Len(t) |-> <<t[i]>>]
           B == {n \in Nat : \E t \in Seq(S) : Len(t) = n /\ FlattenSeq(One(t)) # t}
<1>1. ASSUME B # {} PROVE FALSE
  <2>1. PICK n \in B : \A m \in B : ~ (m < n)
    <3>1. B \in SUBSET Nat
      OBVIOUS
    <3> HIDE DEF B
    <3> QED  BY <1>1, <3>1, LeastIndex
  <2>2. PICK t \in Seq(S) : Len(t) = n /\ FlattenSeq(One(t)) # t
    BY <2>1
  <2>3. t # <<>>
    <3>1. One(<<>>) = <<>>
      OBVIOUS
    <3> QED  BY <2>2, <3>1, FlattenEmpty
  <2>4. PICK v \in Seq(S), x \in S : t = Append(v, x)
    BY <2>3, SequenceEmptyOrAppend
  <2>5. Len(v) \in Nat /\ Len(v) < n
    BY <2>2, <2>4, AppendProperties, LenProperties
  <2>6. FlattenSeq(One(v)) = v
    BY <2>1, <2>5
  <2>7. One(t) = Append(One(v), <<x>>) /\ One(v) \in Seq(Seq(S)) /\ <<x>> \in Seq(S)
    <3> HIDE DEF B
    <3>1. /\ Len(v) \in Nat /\ Len(t) = Len(v) + 1 /\ t[Len(v) + 1] = x
          /\ \A i \in 1 .. Len(v) : t[i] = v[i] /\ v[i] \in S
      BY <2>4, AppendProperties, LenProperties
    <3>2. One(v) \in Seq(Seq(S)) /\ Len(One(v)) = Len(v) /\ <<x>> \in Seq(S)
      BY <3>1
    <3>3. One(t) \in Seq(Seq(S)) /\ Len(One(t)) = Len(v) + 1
      BY <3>1
    <3>4. \A i \in 1 .. Len(v) + 1 : One(t)[i] = Append(One(v), <<x>>)[i]
      BY <3>1, <3>2, AppendProperties
    <3>5. Append(One(v), <<x>>) \in Seq(Seq(S)) /\ Len(Append(One(v), <<x>>)) = Len(v) + 1
      BY <3>2, AppendProperties
    <3> HIDE DEF One
    <3> QED  BY <3>2, <3>3, <3>4, <3>5, SeqEqual
  <2>8. FlattenSeq(One(t)) = v \o <<x>>
    <3> HIDE DEF One, B
    <3> QED  BY <2>6, <2>7, FlattenAppend
  <2> QED  BY <2>2, <2>4, <2>8, AppendIsConcat
<1>2. Len(s) \in Nat
  OBVIOUS
<1> QED
  BY <1>1, <1>2

LEMMA GivenLetters ==
    ASSUME NEW s \in Seq(Message)
    PROVE  Given(RecvAll(s)) = s
<1>1. Coming(RecvAll(s)) = [i \in 1 .. Len(s) |-> <<s[i]>>]
  BY DEF Coming, RecvAll, Recv
<1> QED
  BY <1>1, FlattenSingles DEF Given

\* Packets that arrive after the others: no letter, or letters at the end.
LEMMA InboxLater ==
    ASSUME NEW t \in Seq(Entry), NEW q \in Seq(DownPacket), NEW r \in Seq(DownPacket)
    PROVE  Inbox(t, q \o r) = Inbox(t, q) \o Given(r)
<1>1. q \o r \in Seq(DownPacket)
  BY ConcatProperties
<1>2. /\ Read(t) \in Seq(Message) /\ Given(q) \in Seq(Message) /\ Given(r) \in Seq(Message)
      /\ Inbox(t, q) = Read(t) \o Given(q)
      /\ Inbox(t, q \o r) = Read(t) \o Given(q \o r)
  BY <1>1, InboxType
<1>3. \A x, y, z \in Seq(Message) : (x \o y) \o z = x \o (y \o z)
  <2> SUFFICES ASSUME NEW x \in Seq(Message), NEW y \in Seq(Message), NEW z \in Seq(Message)
               PROVE  (x \o y) \o z = x \o (y \o z)
    OBVIOUS
  <2> QED  BY ONLY ConcatAssociative
<1>4. Given(q \o r) = Given(q) \o Given(r)
  BY GivenConcat
<1>5. (Read(t) \o Given(q)) \o Given(r) = Read(t) \o (Given(q) \o Given(r))
  BY <1>2, <1>3, Zenon
<1> QED
  BY <1>2, <1>4, <1>5, Zenon

\* An answer to the device itself is no letter.
LEMMA InboxAnswer ==
    ASSUME NEW t \in Seq(Entry), NEW q \in Seq(DownPacket), NEW p \in DownPacket, p.ev # "dm.recv"
    PROVE  Inbox(t, Append(q, p)) = Inbox(t, q)
<1>1. Append(q, p) = q \o <<p>> /\ <<p>> \in Seq(DownPacket)
  BY AppendIsConcat
<1>2. Inbox(t, q \o <<p>>) = Inbox(t, q) \o <<>>
  <2>1. Inbox(t, q \o <<p>>) = Inbox(t, q) \o Given(<<p>>)
    BY <1>1, InboxLater
  <2>2. Given(<<p>>) = <<>>
    <3>1. Brought(p) = <<>>
      BY DEF Brought
    <3> QED  BY <3>1, GivenOne
  <2> QED  BY <2>1, <2>2, Zenon
<1>3. Inbox(t, q) \o <<>> = Inbox(t, q)
  BY InboxType, ConcatEmptySeq
<1> QED
  BY <1>1, <1>2, <1>3, Zenon

LEMMA InboxGivenLetters ==
    ASSUME NEW t \in Seq(Entry), NEW q \in Seq(DownPacket), NEW s \in Seq(Message)
    PROVE  Inbox(t, q \o RecvAll(s)) = Inbox(t, q) \o s
<1>1. RecvAll(s) \in Seq(DownPacket)
  BY RecvAllType
<1>2. Inbox(t, q \o RecvAll(s)) = Inbox(t, q) \o Given(RecvAll(s))
  BY <1>1, InboxLater
<1>3. Given(RecvAll(s)) = s
  BY GivenLetters
<1> QED
  BY <1>2, <1>3, Zenon

\* Taking a packet in moves its letter from what comes to what is shown.
LEMMA InboxTaken ==
    ASSUME NEW t \in Seq(Entry), NEW q \in Seq(DownPacket), q # <<>>,
           NEW e \in Entry, e.msg = Head(q).msg, e.mine = (Head(q).ev # "dm.recv")
    PROVE  Inbox(Append(t, e), Tail(q)) = Inbox(t, q)
<1> DEFINE x == Brought(Head(q))
<1>1. Head(q) \in DownPacket /\ Tail(q) \in Seq(DownPacket) /\ q = <<Head(q)>> \o Tail(q)
  BY HeadTailProperties, ConcatProperties
<1>2. <<Head(q)>> \in Seq(DownPacket) /\ Append(t, e) \in Seq(Entry)
  BY <1>1, AppendProperties
<1>3. Given(q) = x \o Given(Tail(q))
  BY <1>1, <1>2, GivenConcat, GivenOne
<1>4. Read(Append(t, e)) = Read(t) \o x
  <2>1. Letter(e) = Brought(Head(q))
    BY DEF Letter, Brought
  <2> QED  BY <2>1, ReadAppend
<1>5. x \in Seq(Message)
  BY <1>1, BroughtType
<1>6. /\ Read(t) \in Seq(Message) /\ Given(Tail(q)) \in Seq(Message)
      /\ Inbox(t, q) = Read(t) \o Given(q)
      /\ Inbox(Append(t, e), Tail(q)) = Read(Append(t, e)) \o Given(Tail(q))
  BY <1>1, <1>2, InboxType
<1> HIDE DEF x
<1>7. \A a, b, c \in Seq(Message) : (a \o b) \o c = a \o (b \o c)
  <2> SUFFICES ASSUME NEW a \in Seq(Message), NEW b \in Seq(Message), NEW c \in Seq(Message)
               PROVE  (a \o b) \o c = a \o (b \o c)
    OBVIOUS
  <2> QED  BY ONLY ConcatAssociative
<1>8. (Read(t) \o x) \o Given(Tail(q)) = Read(t) \o (x \o Given(Tail(q)))
  BY <1>5, <1>6, <1>7, Zenon
<1> QED
  BY <1>3, <1>4, <1>6, <1>8, Zenon

LEMMA InboxKeyTaken ==
    ASSUME NEW t \in Seq(Entry), NEW q \in Seq(DownPacket), q # <<>>, Head(q).ev # "dm.recv"
    PROVE  Inbox(t, Tail(q)) = Inbox(t, q)
<1>1. Head(q) \in DownPacket /\ Tail(q) \in Seq(DownPacket) /\ q = <<Head(q)>> \o Tail(q)
  BY HeadTailProperties, ConcatProperties
<1>2. <<Head(q)>> \in Seq(DownPacket)
  BY <1>1
<1>3. Given(q) = <<>> \o Given(Tail(q))
  <2>1. Given(<<Head(q)>> \o Tail(q)) = Given(<<Head(q)>>) \o Given(Tail(q))
    BY <1>1, <1>2, GivenConcat
  <2>2. Given(<<Head(q)>>) = <<>>
    <3>1. Brought(Head(q)) = <<>>
      BY DEF Brought
    <3> QED  BY <1>1, <3>1, GivenOne
  <2> QED  BY <1>1, <2>1, <2>2, Zenon
<1>4. Given(Tail(q)) \in Seq(Message) /\ Given(q) = Given(Tail(q))
  BY <1>1, <1>3, InboxType, ConcatEmptySeq
<1> QED
  BY <1>1, <1>4, InboxType

\* A connection that dies takes the end of the inbox with it.
LEMMA InboxCut ==
    ASSUME NEW t \in Seq(Entry), NEW q \in Seq(DownPacket)
    PROVE  Inbox(t, q) = Inbox(t, <<>>) \o Given(q)
<1>1. <<>> \in Seq(DownPacket) /\ <<>> \o q = q
  BY EmptySeq, ConcatEmptySeq
<1> QED
  BY <1>1, InboxLater

LEMMA InboxNone == Inbox(<<>>, <<>>) = <<>>
<1>1. Shown(<<>>) = <<>> /\ Coming(<<>>) = <<>>
  BY DEF Shown, Coming
<1>2. <<>> \o <<>> = <<>>
  BY EmptySeq, ConcatEmptySeq
<1> QED
  BY <1>1, <1>2, FlattenEmpty, Zenon DEF Inbox

-----------------------------------------------------------------------------
(***************************************************************************)
(* Every step as the table and the inboxes see it: the inboxes lose from   *)
(* the end, or a user's waiting rows are given to some devices of his; a   *)
(* row may be stored in either, and waiting rows be taken as all is lost.   *)
(***************************************************************************)
Loses == \A d \in Device : \E z \in Seq(Message) : InboxOf(d) = InboxOf(d)' \o z

Gives(u, table, L, s) ==
    /\ L \subseteq {d \in Device : OwnerOf[d] = u}
    /\ s \in OrderedByTs(Undelivered(u, table))
    /\ delivered' = delivered \cup {m.id : m \in Undelivered(u, table)}
    /\ \A d \in Device : InboxOf(d)' = IF d \in L THEN InboxOf(d) \o s ELSE InboxOf(d)

Adding(m) ==
    /\ m \in Message /\ m.id = Cardinality(messages) + 1
    /\ m.ts = now' /\ now' \in now .. MaxTs
    /\ messages' = messages \cup {m}

Move ==
    \/ messages' = messages /\ delivered' = delivered /\ Loses
    \/ \E u \in User : \E L, s : messages' = messages /\ Gives(u, messages, L, s)
    \/ \E u \in User : messages' = messages /\ TakesSome(u) /\ Loses
    \/ \E m : Adding(m) /\ delivered' = delivered /\ Loses
    \/ \E m, L, s : Adding(m) /\ Gives(m.to, messages', L, s)

LEMMA InboxIs ==
    ASSUME Types
    PROVE  \A d \in Device : /\ InboxOf(d) = Inbox(thread[d], downlink[d])
                             /\ thread[d] \in Seq(Entry) /\ downlink[d] \in Seq(DownPacket)
                             /\ InboxOf(d) \in Seq(Message)
<1>1. \A d \in Device : InboxOf(d) = Inbox(thread[d], downlink[d])
  BY DEF InboxOf, Inbox
<1>2. \A d \in Device : thread[d] \in Seq(Entry) /\ downlink[d] \in Seq(DownPacket)
  BY DEF Types, RelayTypes, PageTypes
<1> QED
  BY <1>1, <1>2, InboxType

LEMMA InboxNext ==
    \A d \in Device : InboxOf(d)' = Inbox(thread'[d], downlink'[d])
BY DEF InboxOf, Inbox

LEMMA InboxTypeNext ==
    ASSUME Types' PROVE \A d \in Device : InboxOf(d)' \in Seq(Message)
<1>1. thread' \in [Device -> Seq(Entry)] /\ downlink' \in [Device -> Seq(DownPacket)]
  BY DEF Types, RelayTypes, PageTypes
<1>2. \A e \in Device : thread'[e] \in Seq(Entry) /\ downlink'[e] \in Seq(DownPacket)
  BY <1>1
<1> QED
  BY <1>2, InboxType, InboxNext

LEMMA SameInboxes ==
    ASSUME Types, \A d \in Device : InboxOf(d)' = InboxOf(d)
    PROVE  Loses
<1> SUFFICES ASSUME NEW d \in Device
             PROVE  \E z \in Seq(Message) : InboxOf(d) = InboxOf(d)' \o z
  BY DEF Loses
<1>1. InboxOf(d) \in Seq(Message) /\ InboxOf(d)' = InboxOf(d)
  BY InboxIs
<1>2. InboxOf(d) \o <<>> = InboxOf(d) /\ <<>> \in Seq(Message)
  BY <1>1, ConcatEmptySeq, EmptySeq
<1> QED
  BY <1>1, <1>2, Zenon

LEMMA Emptied ==
    ASSUME Types,
           \A d \in Device :
             \/ thread'[d] = thread[d] /\ downlink'[d] \in {downlink[d], <<>>}
             \/ thread'[d] = <<>> /\ downlink'[d] = <<>>
    PROVE  Loses
<1> SUFFICES ASSUME NEW d \in Device
             PROVE  \E z \in Seq(Message) : InboxOf(d) = InboxOf(d)' \o z
  BY DEF Loses
<1>1. /\ InboxOf(d) = Inbox(thread[d], downlink[d]) /\ InboxOf(d) \in Seq(Message)
      /\ thread[d] \in Seq(Entry) /\ downlink[d] \in Seq(DownPacket)
      /\ InboxOf(d)' = Inbox(thread'[d], downlink'[d])
  BY InboxIs, InboxNext
<1>2. CASE thread'[d] = thread[d] /\ downlink'[d] = downlink[d]
  <2>1. InboxOf(d)' = InboxOf(d)
    BY <1>1, <1>2, Zenon
  <2>2. InboxOf(d) \o <<>> = InboxOf(d) /\ <<>> \in Seq(Message)
    BY <1>1, ConcatEmptySeq, EmptySeq
  <2> QED  BY <2>1, <2>2, Zenon
<1>3. CASE thread'[d] = thread[d] /\ downlink'[d] = <<>>
  <2>1. InboxOf(d)' = Inbox(thread[d], <<>>)
    BY <1>1, <1>3, Zenon
  <2>2. Inbox(thread[d], downlink[d]) = Inbox(thread[d], <<>>) \o Given(downlink[d])
    BY <1>1, InboxCut
  <2>3. Given(downlink[d]) \in Seq(Message)
    BY <1>1, InboxType
  <2> QED  BY <1>1, <2>1, <2>2, <2>3, Zenon
<1>4. CASE thread'[d] = <<>> /\ downlink'[d] = <<>>
  <2>1. InboxOf(d)' = <<>>
    BY <1>1, <1>4, InboxNone, Zenon
  <2>2. <<>> \o InboxOf(d) = InboxOf(d)
    BY <1>1, ConcatEmptySeq
  <2> QED  BY <1>1, <2>1, <2>2, Zenon
<1> QED
  BY <1>2, <1>3, <1>4

LEMMA InboxHands ==
    ASSUME Types, NEW u, NEW table, NEW sockets, NEW queues, NEW rows, NEW L, NEW s,
           Hands(u, table, sockets, queues, rows, L, s),
           table \subseteq Message, IsFiniteSet(table), queues \in [Device -> Seq(DownPacket)],
           NEW d \in Device
    PROVE  Inbox(thread[d], downlink'[d]) =
             IF d \in L THEN Inbox(thread[d], queues[d]) \o s ELSE Inbox(thread[d], queues[d])
<1>1. s \in Seq(Message)
  BY HandsType
<1>2. thread[d] \in Seq(Entry) /\ queues[d] \in Seq(DownPacket)
  BY InboxIs
<1>3. downlink'[d] = IF d \in L THEN queues[d] \o RecvAll(s) ELSE queues[d]
  BY DEF Hands
<1>4. Inbox(thread[d], queues[d] \o RecvAll(s)) = Inbox(thread[d], queues[d]) \o s
  BY <1>1, <1>2, InboxGivenLetters
<1>5. CASE d \in L
  BY <1>3, <1>4, <1>5, Zenon
<1>6. CASE d \notin L
  BY <1>3, <1>6, Zenon
<1> QED
  BY <1>5, <1>6, Zenon

LEMMA InboxAck ==
    ASSUME Types, NEW d \in Device, NEW p \in DownPacket, p.ev # "dm.recv"
    PROVE  \A e \in Device :
             Inbox(thread[e], [downlink EXCEPT ![d] = Append(@, p)][e]) = InboxOf(e)
<1> SUFFICES ASSUME NEW e \in Device
             PROVE  Inbox(thread[e], [downlink EXCEPT ![d] = Append(@, p)][e]) = InboxOf(e)
  OBVIOUS
<1>1. /\ InboxOf(e) = Inbox(thread[e], downlink[e])
      /\ thread[e] \in Seq(Entry) /\ downlink[e] \in Seq(DownPacket)
  BY InboxIs
<1>2. CASE e = d
  <2>1. [downlink EXCEPT ![d] = Append(@, p)][e] = Append(downlink[e], p)
    BY <1>2 DEF Types, RelayTypes
  <2>2. Inbox(thread[e], Append(downlink[e], p)) = Inbox(thread[e], downlink[e])
    BY <1>1, InboxAnswer
  <2> QED  BY <1>1, <2>1, <2>2, Zenon
<1>3. CASE e # d
  <2>1. [downlink EXCEPT ![d] = Append(@, p)][e] = downlink[e]
    BY <1>3 DEF Types, RelayTypes
  <2> QED  BY <1>1, <2>1, Zenon
<1> QED
  BY <1>2, <1>3

LEMMA ConnectMove == ASSUME Types, NEW d \in Device, Connect(d) PROVE Move
<1>1. /\ live' = live \cup {d} /\ messages' = messages /\ thread' = thread
      /\ DeliverPending(OwnerOf[d], messages, live', downlink)
  BY DEF Connect, OnConnection
<1>2. PICK rows, L, s : Hands(OwnerOf[d], messages, live', downlink, rows, L, s)
  BY <1>1, Delivery DEF Types, RelayTypes
<1>3. rows = Undelivered(OwnerOf[d], messages)
  BY <1>1, <1>2 DEF Hands, IsOnline, SocketsOf
<1>4. L \subseteq {e \in Device : OwnerOf[e] = OwnerOf[d]}
  BY <1>1, <1>2 DEF Hands, SocketsOf, Types, RelayTypes, PageTypes
<1>5. \A e \in Device : Inbox(thread[e], downlink[e]) = InboxOf(e)
  BY InboxIs
<1>6. \A e \in Device : InboxOf(e)' = IF e \in L THEN InboxOf(e) \o s ELSE InboxOf(e)
  <2>1. messages \subseteq Message /\ IsFiniteSet(messages) /\ downlink \in [Device -> Seq(DownPacket)]
    BY DEF Types, RelayTypes
  <2> TAKE e \in Device
  <2>2. InboxOf(e)' = Inbox(thread[e], downlink'[e])
    BY <1>1, InboxNext
  <2>3. Inbox(thread[e], downlink'[e]) =
          IF e \in L THEN Inbox(thread[e], downlink[e]) \o s ELSE Inbox(thread[e], downlink[e])
    BY <1>2, <2>1, InboxHands
  <2> QED  BY <1>5, <2>2, <2>3, Zenon
<1>7. /\ s \in OrderedByTs(Undelivered(OwnerOf[d], messages))
      /\ delivered' = delivered \cup {m.id : m \in Undelivered(OwnerOf[d], messages)}
  BY <1>2, <1>3 DEF Hands
<1>8. Gives(OwnerOf[d], messages, L, s)
  BY <1>4, <1>6, <1>7, Zenon DEF Gives
<1>9. OwnerOf[d] \in User
  BY CommsAssumption
<1> QED
  BY <1>1, <1>8, <1>9, Zenon DEF Move

LEMMA SendMove ==
    ASSUME Types, thread' = thread, NEW d \in Device, NEW to \in User, NEW key \in Key,
           OnDmSend(d, to, key)
    PROVE  Move
<1>1. PICK m, queues, rows, L, s : Sends(d, to, key, m, queues, rows, L, s)
  BY SendEffect
<1>2. Adding(m)
  BY <1>1 DEF Sends, Adding, NewRow
<1>3. [ev |-> "ack", msg |-> m] \in DownPacket
  BY <1>2 DEF Adding, DownPacket
<1>4. /\ queues = [downlink EXCEPT ![d] = Append(@, [ev |-> "ack", msg |-> m])]
      /\ queues \in [Device -> Seq(DownPacket)]
      /\ messages' \subseteq Message /\ IsFiniteSet(messages')
      /\ Hands(to, messages', live, queues, rows, L, s) /\ m.to = to
  BY <1>1 DEF Sends
<1>5. \A e \in Device : Inbox(thread[e], queues[e]) = InboxOf(e)
  <2> DEFINE p == [ev |-> "ack", msg |-> m]
  <2>1. p.ev # "dm.recv" /\ p \in DownPacket /\ queues = [downlink EXCEPT ![d] = Append(@, p)]
    BY <1>3, <1>4
  <2> HIDE DEF p
  <2>2. \A e \in Device : Inbox(thread[e], [downlink EXCEPT ![d] = Append(@, p)][e]) = InboxOf(e)
    BY <2>1, InboxAck
  <2> QED  BY <2>1, <2>2, Zenon
<1>6. \A e \in Device : InboxOf(e)' = IF e \in L THEN InboxOf(e) \o s ELSE InboxOf(e)
  <2> TAKE e \in Device
  <2>1. InboxOf(e)' = Inbox(thread[e], downlink'[e])
    BY InboxNext
  <2>2. Inbox(thread[e], downlink'[e]) =
          IF e \in L THEN Inbox(thread[e], queues[e]) \o s ELSE Inbox(thread[e], queues[e])
    <3>1. /\ Hands(to, messages', live, queues, rows, L, s)
          /\ messages' \subseteq Message /\ IsFiniteSet(messages')
          /\ queues \in [Device -> Seq(DownPacket)]
      BY <1>4
    <3>2. \A table : Hands(to, table, live, queues, rows, L, s)
                       /\ table \subseteq Message /\ IsFiniteSet(table)
            => Inbox(thread[e], downlink'[e]) =
                 IF e \in L THEN Inbox(thread[e], queues[e]) \o s ELSE Inbox(thread[e], queues[e])
      BY <3>1, InboxHands
    <3> QED  BY <3>1, <3>2, Zenon
  <2> QED  BY <1>5, <2>1, <2>2, Zenon
<1>7. CASE rows = Undelivered(to, messages')
  <2>1. L \subseteq {e \in Device : OwnerOf[e] = to}
    BY <1>4 DEF Hands, SocketsOf, Types, RelayTypes, PageTypes
  <2>2. /\ s \in OrderedByTs(Undelivered(to, messages'))
        /\ delivered' = delivered \cup {x.id : x \in Undelivered(to, messages')}
    BY <1>4, <1>7 DEF Hands
  <2>3. Gives(m.to, messages', L, s)
    <3>1. Gives(to, messages', L, s)
      BY <1>6, <2>1, <2>2, Zenon DEF Gives
    <3> QED  BY <1>4, <3>1
  <2> QED  BY <1>2, <2>3, Zenon DEF Move
<1>8. CASE rows = {} /\ L = {}
  <2>1. delivered' = delivered
    BY <1>4, <1>8 DEF Hands
  <2>2. \A e \in Device : InboxOf(e)' = InboxOf(e)
    BY <1>6, <1>8
  <2>3. Loses
    BY <2>2, SameInboxes
  <2> QED  BY <1>2, <2>1, <2>3, Zenon DEF Move
<1> QED
  BY <1>4, <1>7, <1>8 DEF Hands

LEMMA ReceiveMove == ASSUME Types, NEW d \in Device, Receive(d) PROVE Move
<1> DEFINE p == Head(downlink[d])
<1>1. /\ downlink[d] # <<>> /\ downlink' = [downlink EXCEPT ![d] = Tail(@)]
      /\ messages' = messages /\ delivered' = delivered
  BY DEF Receive
<1>2. /\ InboxOf(d) = Inbox(thread[d], downlink[d])
      /\ InboxOf(d)' = Inbox(thread'[d], downlink'[d])
      /\ thread[d] \in Seq(Entry) /\ downlink[d] \in Seq(DownPacket)
      /\ thread \in [Device -> Seq(Entry)] /\ downlink \in [Device -> Seq(DownPacket)]
  BY InboxIs, InboxNext DEF Types, RelayTypes, PageTypes
<1>3. p \in DownPacket
  BY <1>1, <1>2, HeadPacket
<1>4. downlink'[d] = Tail(downlink[d]) /\ \A e \in Device \ {d} : downlink'[e] = downlink[e]
  BY <1>1, <1>2
<1>5. ASSUME NEW x \in Entry, thread' = [thread EXCEPT ![d] = Append(@, x)],
             x.msg = p.msg, x.mine = (p.ev # "dm.recv")
      PROVE  InboxOf(d)' = InboxOf(d) /\ \A e \in Device \ {d} : thread'[e] = thread[e]
  <2>1. thread'[d] = Append(thread[d], x) /\ \A e \in Device \ {d} : thread'[e] = thread[e]
    BY <1>2, <1>5
  <2>2. Inbox(Append(thread[d], x), Tail(downlink[d])) = Inbox(thread[d], downlink[d])
    BY <1>1, <1>2, <1>5, InboxTaken
  <2> QED  BY <1>2, <1>4, <2>1, <2>2, Zenon
<1>6. InboxOf(d)' = InboxOf(d) /\ \A e \in Device \ {d} : thread'[e] = thread[e]
  <2>1. CASE p.ev = "dm.recv" /\ Ingest(d, p.msg)
    <3> DEFINE c == Opens(GenerateIdentity(IdentityKey(d)), BoxOf(p.msg))
               x == [msg |-> p.msg, mine |-> FALSE, clear |-> c]
    <3>1. c \in BOOLEAN /\ p.msg \in Message
      BY <1>3, <2>1, DownFields DEF Opens
    <3>2. thread' = [thread EXCEPT ![d] = Append(@, x)]
      BY <2>1 DEF Ingest
    <3> HIDE DEF c, p
    <3>3. x \in Entry /\ x.msg = p.msg /\ x.mine = (p.ev # "dm.recv")
      BY <2>1, <3>1 DEF Entry
    <3> HIDE DEF x
    <3> QED  BY <1>5, <3>2, <3>3
  <2>2. CASE p.ev = "ack" /\ OnAck(d, p.msg)
    <3> DEFINE x == [msg |-> p.msg, mine |-> TRUE, clear |-> TRUE]
    <3>1. p.msg \in Message
      BY <1>3, <2>2, DownFields
    <3>2. thread' = [thread EXCEPT ![d] = Append(@, x)]
      BY <2>2 DEF OnAck
    <3> HIDE DEF p
    <3>3. x \in Entry /\ x.msg = p.msg /\ x.mine = (p.ev # "dm.recv")
      BY <2>2, <3>1 DEF Entry
    <3> HIDE DEF x
    <3> QED  BY <1>5, <3>2, <3>3
  <2>3. CASE p.ev = "key" /\ OnKey(d, p.user, p.key)
    <3>1. thread' = thread
      BY <2>3 DEF OnKey
    <3>2. Inbox(thread[d], Tail(downlink[d])) = Inbox(thread[d], downlink[d])
      BY <1>1, <1>2, <2>3, InboxKeyTaken
    <3> QED  BY <1>2, <1>4, <3>1, <3>2, Zenon
  <2> QED  BY <2>1, <2>2, <2>3 DEF Receive
<1>7. \A e \in Device : InboxOf(e)' = InboxOf(e)
  <2> TAKE e \in Device
  <2>1. CASE e = d
    BY <1>6, <2>1, Zenon
  <2>2. CASE e # d
    <3>1. thread'[e] = thread[e] /\ downlink'[e] = downlink[e]
      BY <1>4, <1>6, <2>2
    <3> QED  BY <3>1, InboxIs, InboxNext, Zenon
  <2> QED  BY <2>1, <2>2
<1> QED
  BY <1>1, <1>7, SameInboxes DEF Move

LEMMA HandleMove == ASSUME Types, TableInv, NEW d \in Device, Handle(d) PROVE Move
<1> DEFINE p == Head(uplink[d])
<1>1. d \in live /\ uplink[d] # <<>> /\ thread' = thread
  BY DEF Handle
<1>2. p \in Packet /\ OwnerOf[d] \in User
  BY <1>1, HeadPacket, CommsAssumption DEF Types, PageTypes
<1>3. ASSUME UNCHANGED <<messages, delivered>>,
             \A e \in Device : Inbox(thread[e], downlink'[e]) = InboxOf(e)
      PROVE  Move
  <2>1. \A e \in Device : InboxOf(e)' = InboxOf(e)
    BY <1>1, <1>3, InboxNext
  <2> QED  BY <1>3, <2>1, SameInboxes DEF Move
<1>4. \A e \in Device : Inbox(thread[e], downlink[e]) = InboxOf(e)
  BY InboxIs
<1>5. CASE p.ev = "key.publish" /\ OnKeyPublish(d, p.key)
  BY <1>3, <1>4, <1>5 DEF OnKeyPublish
<1>6. CASE p.ev = "key.fetch" /\ OnKeyFetch(d, p.user)
  <2>1. p.user \in User /\ keys[p.user] \in Key \cup {NoKey}
    BY <1>2, <1>6, PacketFields DEF Types, RelayTypes
  <2> DEFINE a == [ev |-> "key", user |-> p.user, key |-> keys[p.user]]
  <2>2. a \in DownPacket /\ a.ev # "dm.recv"
    BY <2>1 DEF DownPacket
  <2>3. downlink' = [downlink EXCEPT ![d] = Append(@, a)] /\ UNCHANGED <<messages, delivered>>
    BY <1>6 DEF OnKeyFetch
  <2> HIDE DEF a
  <2>4. \A e \in Device : Inbox(thread[e], [downlink EXCEPT ![d] = Append(@, a)][e]) = InboxOf(e)
    BY <2>2, InboxAck
  <2>5. \A e \in Device : Inbox(thread[e], downlink'[e]) = InboxOf(e)
    BY <2>3, <2>4, Zenon
  <2> QED  BY <1>3, <2>3, <2>5
<1>7. CASE p.ev = "dm.send" /\ OnDmSend(d, p.to, p.key)
  <2>1. p.to \in User /\ p.key \in Key
    BY <1>2, <1>7, PacketFields
  <2> HIDE DEF p
  <2> QED  BY <1>1, <1>7, <2>1, SendMove
<1>8. CASE p.ev = "dm.sync" /\ OnDmSync(d)
  <2>1. Undelivered(OwnerOf[d], messages) = {}
    BY <1>1, <1>2 DEF TableInv, OnlineHasNoBacklog, IsOnline, SocketsOf
  <2>2. UNCHANGED <<messages, delivered, downlink>>
    BY <1>8, <2>1 DEF OnDmSync
  <2> QED  BY <1>3, <1>4, <2>2
<1> QED
  BY <1>5, <1>6, <1>7, <1>8 DEF Handle

LEMMA GoneMove == ASSUME Types, NEW d \in Device, Drop(d) \/ ClosePage(d) PROVE Move
<1>1. CASE Drop(d)
  <2>1. /\ downlink' = [downlink EXCEPT ![d] = <<>>] /\ thread' = thread
        /\ messages' = messages /\ delivered' = delivered
    BY <1>1 DEF Drop, ClientGone
  <2>2. \A e \in Device : thread'[e] = thread[e] /\ downlink'[e] \in {downlink[e], <<>>}
    BY <2>1 DEF Types, RelayTypes
  <2> QED  BY <2>1, <2>2, Emptied DEF Move
<1>2. CASE ClosePage(d)
  <2>1. /\ thread' = [thread EXCEPT ![d] = <<>>]
        /\ messages' = messages /\ delivered' = delivered
        /\ \/ downlink' = [downlink EXCEPT ![d] = <<>>]
           \/ d \notin live /\ downlink' = downlink
    BY <1>2 DEF ClosePage, ClientGone, relayVars
  <2>2. \A e \in Device :
             \/ thread'[e] = thread[e] /\ downlink'[e] \in {downlink[e], <<>>}
             \/ thread'[e] = <<>> /\ downlink'[e] = <<>>
    BY <2>1 DEF Types, RelayTypes, PageTypes
  <2> QED  BY <2>1, <2>2, Emptied DEF Move
<1> QED
  BY <1>1, <1>2

LEMMA RestartMove == ASSUME Types, Restart PROVE Move
<1>1. /\ downlink' = [d \in Device |-> <<>>] /\ UNCHANGED <<now, thread>>
  BY RestartEffect
<1>2. Loses
  BY <1>1, Emptied
<1>3. CASE messages' = messages
  BY <1>2, <1>3, RestartEffect, Zenon DEF Move
<1>4. CASE messages' # messages
  <2>0. delivered' = delivered
    BY <1>4, RestartEffect
  <2>1. PICK d \in Device, m \in Message :
               /\ m = NewRow(OwnerOf[d], Head(uplink[d]).to, Head(uplink[d]).key, now)
               /\ messages' = messages \cup {m}
    BY <1>4, RestartEffect
  <2>2. m.id = Cardinality(messages) + 1 /\ m.ts = now
    BY <2>1 DEF NewRow
  <2>3. now' = now /\ now \in now .. MaxTs
    BY <1>1, CommsAssumption DEF Types, RelayTypes
  <2>4. Adding(m)
    BY <2>1, <2>2, <2>3 DEF Adding
  <2> QED  BY <1>2, <2>0, <2>4, Zenon DEF Move
<1> QED
  BY <1>3, <1>4

LEMMA Moves == Types /\ TableInv /\ [Next]_vars => Move
<1> SUFFICES ASSUME Types, TableInv, [Next]_vars PROVE Move
  OBVIOUS
<1>1. ASSUME UNCHANGED <<messages, delivered, downlink, thread>> PROVE Move
  BY <1>1, Emptied DEF Move
<1>2. ASSUME NEW d \in Device, OpenPage(d) \/ ClearData(d) PROVE Move
  BY <1>1, <1>2 DEF OpenPage, ClearData, relayVars
<1>3. ASSUME NEW d \in Device, NEW u \in User, AskKey(d, u) \/ SendDm(d, u) PROVE Move
  BY <1>1, <1>3 DEF AskKey, SendDm, relayVars
<1>4. ASSUME NEW u \in User, Noticed(u) PROVE Move
  BY <1>1, <1>4 DEF Noticed, OnDisconnect, clientVars
<1>5. CASE UNCHANGED vars
  BY <1>1, <1>5 DEF vars
<1> QED
  BY <1>2, <1>3, <1>4, <1>5, ConnectMove, HandleMove, ReceiveMove, GoneMove, RestartMove DEF Next

LEMMA PrefixAt ==
    ASSUME NEW a \in Seq(Message), NEW z \in Seq(Message), NEW i \in DOMAIN a
    PROVE  i \in DOMAIN (a \o z) /\ (a \o z)[i] = a[i]
<1>1. /\ DOMAIN a = 1 .. Len(a) /\ Len(a) \in Nat /\ Len(z) \in Nat
      /\ a \o z \in Seq(Message) /\ Len(a \o z) = Len(a) + Len(z)
      /\ \A k \in 1 .. Len(a) + Len(z) : (a \o z)[k] = IF k <= Len(a) THEN a[k] ELSE z[k - Len(a)]
  BY ConcatProperties, LenProperties
<1> DEFINE w == a \o z
<1>2. DOMAIN w = 1 .. Len(a) + Len(z)
  BY <1>1
<1> QED
  BY <1>1, <1>2

\* An entry of a concatenation, and two of them.
LEMMA EitherPart ==
    ASSUME NEW a \in Seq(Message), NEW b \in Seq(Message),
           NEW i \in DOMAIN (a \o b), NEW j \in DOMAIN (a \o b), i < j
    PROVE  \/ i \in DOMAIN a /\ j \in DOMAIN a /\ (a \o b)[i] = a[i] /\ (a \o b)[j] = a[j]
           \/ \E k \in DOMAIN b : i \in DOMAIN a /\ (a \o b)[i] = a[i] /\ (a \o b)[j] = b[k]
           \/ \E k, l \in DOMAIN b : k < l /\ (a \o b)[i] = b[k] /\ (a \o b)[j] = b[l]
<1>1. /\ DOMAIN a = 1 .. Len(a) /\ Len(a) \in Nat /\ Len(b) \in Nat /\ DOMAIN b = 1 .. Len(b)
      /\ a \o b \in Seq(Message) /\ Len(a \o b) = Len(a) + Len(b)
      /\ \A k \in 1 .. Len(a) + Len(b) : (a \o b)[k] = IF k <= Len(a) THEN a[k] ELSE b[k - Len(a)]
  BY ConcatProperties, LenProperties
<1> DEFINE w == a \o b
<1>2. i \in 1 .. Len(a) + Len(b) /\ j \in 1 .. Len(a) + Len(b) /\ i \in Nat /\ j \in Nat
  BY <1>1
<1> HIDE DEF w
<1>3. \A k \in 1 .. Len(a) + Len(b) : w[k] = IF k <= Len(a) THEN a[k] ELSE b[k - Len(a)]
  BY <1>1 DEF w
<1>4. CASE j <= Len(a)
  BY <1>1, <1>2, <1>3, <1>4 DEF w
<1>5. CASE i <= Len(a) /\ ~(j <= Len(a))
  <2>1. j - Len(a) \in DOMAIN b /\ w[j] = b[j - Len(a)] /\ i \in DOMAIN a /\ w[i] = a[i]
    BY <1>1, <1>2, <1>3, <1>5
  <2> QED  BY <2>1 DEF w
<1>6. CASE ~(i <= Len(a)) /\ ~(j <= Len(a))
  <2>1. /\ j - Len(a) \in DOMAIN b /\ w[j] = b[j - Len(a)]
        /\ i - Len(a) \in DOMAIN b /\ w[i] = b[i - Len(a)]
        /\ i - Len(a) < j - Len(a)
    BY <1>1, <1>2, <1>3, <1>6
  <2> QED  BY <2>1 DEF w
<1> QED
  BY <1>1, <1>2, <1>4, <1>5, <1>6

Own(q, u, table, marked) ==
    \A i \in DOMAIN q : q[i] \in table /\ q[i].to = u /\ q[i].id \in marked

InOrder(q) ==
    \A i, j \in DOMAIN q : i < j => q[i].ts <= q[j].ts /\ q[i].id # q[j].id

LEMMA InboxParts ==
    InboxInv <=> \A d \in Device : Own(InboxOf(d), OwnerOf[d], messages, delivered) /\ InOrder(InboxOf(d))
BY DEF InboxInv, Own, InOrder

LEMMA LosesKeeps ==
    ASSUME Types, Types', InboxInv, Loses,
           messages \subseteq messages', delivered \subseteq delivered'
    PROVE  InboxInv'
<1> SUFFICES ASSUME NEW d \in Device
             PROVE  Own(InboxOf(d)', OwnerOf[d], messages', delivered') /\ InOrder(InboxOf(d)')
  BY DEF InboxInv, Own, InOrder
<1> DEFINE a == InboxOf(d)'
           q == InboxOf(d)
<1>1. PICK z \in Seq(Message) : q = a \o z
  BY DEF Loses
<1>2. a \in Seq(Message)
  BY InboxTypeNext
<1>3. Own(q, OwnerOf[d], messages, delivered) /\ InOrder(q)
  BY InboxParts
<1> HIDE DEF a, q
<1>4. \A i \in DOMAIN a : i \in DOMAIN q /\ q[i] = a[i]
  BY <1>1, <1>2, PrefixAt
<1>5. Own(a, OwnerOf[d], messages', delivered') /\ InOrder(a)
  BY <1>3, <1>4 DEF Own, InOrder
<1> QED
  BY <1>5 DEF a

\* What waits is younger than what was handed over, and rows have ids of their own.
LEMMA GivesKeeps ==
    ASSUME Types, Types', TableInv, TableInv', InboxInv,
           messages \subseteq messages', NEW u \in User, NEW L, NEW s, Gives(u, messages', L, s),
           \A x \in messages' \ messages : x.id \notin delivered /\ \A y \in messages : y.ts <= x.ts
    PROVE  InboxInv'
<1> DEFINE rows == Undelivered(u, messages')
<1>1. /\ rows \subseteq messages' /\ messages' \subseteq Message /\ IsFiniteSet(rows)
      /\ \A x \in rows : x.to = u /\ x.id \notin delivered /\ x.id \in delivered'
      /\ delivered \subseteq delivered'
  <2>1. rows \subseteq messages' /\ messages' \subseteq Message
    BY DEF Undelivered, Types, RelayTypes
  <2>2. IsFiniteSet(rows)
    BY <2>1, FS_Subset DEF Types, RelayTypes
  <2> QED  BY <2>1, <2>2 DEF Undelivered, Gives
<1>2. /\ s \in Seq(Message)
      /\ \A i \in 1 .. Len(s) : s[i] \in rows
      /\ \A i, j \in 1 .. Len(s) : i < j => s[i].ts <= s[j].ts /\ s[i] # s[j]
      /\ DOMAIN s = 1 .. Len(s)
  <2>1. rows \subseteq Message /\ s \in OrderedByTs(rows)
    BY <1>1 DEF Gives
  <2> HIDE DEF rows
  <2> QED  BY <1>1, <2>1, OrderedType
<1>3. Own(s, u, messages', delivered') /\ InOrder(s)
  <2>1. \A x, y \in messages' : x.id = y.id => x = y
    BY DEF TableInv, RowsInv
  <2> HIDE DEF rows
  <2> QED  BY <1>1, <1>2, <2>1 DEF Own, InOrder
<1>4. SUFFICES ASSUME NEW d \in Device
               PROVE  Own(InboxOf(d)', OwnerOf[d], messages', delivered') /\ InOrder(InboxOf(d)')
  BY DEF InboxInv, Own, InOrder
<1> DEFINE q == InboxOf(d)
<1>5. Own(q, OwnerOf[d], messages, delivered) /\ InOrder(q) /\ q \in Seq(Message)
  BY InboxParts, InboxIs
<1>6. InboxOf(d)' = IF d \in L THEN q \o s ELSE q
  BY DEF Gives
<1>7. CASE d \notin L
  <2> HIDE DEF q
  <2>1. Own(q, OwnerOf[d], messages', delivered')
    BY <1>1, <1>5 DEF Own
  <2> QED  BY <1>5, <1>6, <1>7, <2>1, Zenon
<1>8. CASE d \in L
  <2>1. OwnerOf[d] = u
    BY <1>8 DEF Gives
  <2> HIDE DEF q
  <2> DEFINE w == q \o s
  <2>2. \A i \in DOMAIN w : \/ \E k \in DOMAIN q : w[i] = q[k]
                            \/ \E k \in DOMAIN s : w[i] = s[k]
    BY <1>2, <1>5, ConcatAt
  <2>3. ASSUME NEW x \in messages, x.to = u, x.id \in delivered, NEW y \in rows
        PROVE  x.ts <= y.ts /\ x.id # y.id
    <3>1. x.id # y.id
      BY <1>1, <2>3
    <3>2. y \in messages' /\ y.to = u /\ y.id \notin delivered
      BY <1>1
    <3>3. CASE y \in messages
      BY <2>3, <3>2, <3>3 DEF TableInv, HandedFirst
    <3>4. CASE y \notin messages
      BY <3>1, <3>2, <3>4
    <3> QED  BY <3>1, <3>3, <3>4
  <2>4. \A i, j \in DOMAIN w : i < j =>
           \/ i \in DOMAIN q /\ j \in DOMAIN q /\ w[i] = q[i] /\ w[j] = q[j]
           \/ \E k \in DOMAIN s : i \in DOMAIN q /\ w[i] = q[i] /\ w[j] = s[k]
           \/ \E k, l \in DOMAIN s : k < l /\ w[i] = s[k] /\ w[j] = s[l]
    <3> TAKE i, j \in DOMAIN w
    <3> HAVE i < j
    <3>1. q \in Seq(Message) /\ s \in Seq(Message)
      BY <1>2, <1>5
    <3> QED  BY <3>1, EitherPart
  <2> HIDE DEF w, rows
  <2>5. Own(w, OwnerOf[d], messages', delivered')
    BY <1>1, <1>3, <1>5, <2>1, <2>2 DEF Own
  <2>6. InOrder(w)
    <3> SUFFICES ASSUME NEW i \in DOMAIN w, NEW j \in DOMAIN w, i < j
                 PROVE  w[i].ts <= w[j].ts /\ w[i].id # w[j].id
      BY DEF InOrder
    <3>1. CASE i \in DOMAIN q /\ j \in DOMAIN q /\ w[i] = q[i] /\ w[j] = q[j]
      BY <1>5, <3>1 DEF InOrder
    <3>2. ASSUME NEW k \in DOMAIN s, i \in DOMAIN q, w[i] = q[i], w[j] = s[k]
          PROVE  w[i].ts <= w[j].ts /\ w[i].id # w[j].id
      <4>1. q[i] \in messages /\ q[i].to = u /\ q[i].id \in delivered
        BY <1>5, <2>1, <3>2 DEF Own
      <4>2. s[k] \in rows
        BY <1>2
      <4>3. q[i].ts <= s[k].ts /\ q[i].id # s[k].id
        BY <2>3, <4>1, <4>2
      <4> QED  BY <3>2, <4>3
    <3>3. ASSUME NEW k \in DOMAIN s, NEW l \in DOMAIN s, k < l, w[i] = s[k], w[j] = s[l]
          PROVE  w[i].ts <= w[j].ts /\ w[i].id # w[j].id
      BY <1>3, <3>3 DEF InOrder
    <3> QED  BY <2>4, <3>1, <3>2, <3>3
  <2>7. InboxOf(d)' = w
    BY <1>6, <1>8 DEF w
  <2> QED  BY <2>5, <2>6, <2>7, Zenon
<1> QED
  BY <1>7, <1>8

LEMMA InboxInvNext == Types /\ TableInv /\ InboxInv /\ [Next]_vars => InboxInv'
<1> SUFFICES ASSUME Types, TableInv, InboxInv, [Next]_vars PROVE InboxInv'
  OBVIOUS
<1>1. Types' /\ TableInv' /\ Move
  BY TypesNext, TableNext, Moves
<1>2. CASE messages' = messages /\ delivered' = delivered /\ Loses
  BY <1>1, <1>2, LosesKeeps
<1>3. ASSUME NEW u \in User, NEW L, NEW s, messages' = messages, Gives(u, messages, L, s)
      PROVE  InboxInv'
  <2>1. Gives(u, messages', L, s)
    BY <1>3
  <2> QED  BY <1>1, <1>3, <2>1, GivesKeeps
<1>4. ASSUME NEW m, Adding(m) PROVE m.to \in User /\ messages \subseteq messages' /\
             \A x \in messages' \ messages : x.id \notin delivered /\ \A y \in messages : y.ts <= x.ts
  <2>1. m.id \notin delivered /\ \A y \in messages : y.ts <= m.ts
    BY <1>4, RowAdded DEF Adding, TableInv
  <2>2. m.to \in User
    BY <1>4 DEF Adding, Message
  <2> QED  BY <1>4, <2>1, <2>2 DEF Adding
<1>5. ASSUME NEW m, Adding(m), delivered' = delivered, Loses PROVE InboxInv'
  BY <1>1, <1>4, <1>5, LosesKeeps
<1>7. ASSUME NEW u \in User, messages' = messages, TakesSome(u), Loses PROVE InboxInv'
  <2>1. delivered \subseteq delivered'
    BY <1>7 DEF TakesSome
  <2> QED  BY <1>1, <1>7, <2>1, LosesKeeps
<1>6. ASSUME NEW m, NEW L, NEW s, Adding(m), Gives(m.to, messages', L, s) PROVE InboxInv'
  BY <1>1, <1>4, <1>6, GivesKeeps
<1> QED
  BY <1>1, <1>2, <1>3, <1>5, <1>6, <1>7 DEF Move

LEMMA InboxInit == Init => InboxInv /\ \A d \in Device : InboxOf(d) = <<>>
<1> SUFFICES ASSUME Init PROVE InboxInv /\ \A d \in Device : InboxOf(d) = <<>>
  OBVIOUS
<1>1. \A d \in Device : thread[d] = <<>> /\ downlink[d] = <<>>
  BY DEF Init, RelayInit
<1>2. \A d \in Device : InboxOf(d) = <<>>
  BY <1>1, InboxNone, InboxIs, TypesInit
<1> QED
  BY <1>2 DEF InboxInv

LEMMA InboxAlways == Spec => [](Types /\ TableInv /\ InboxInv)
<1>1. Init => Types /\ TableInv /\ InboxInv
  BY TypesInit, TableInit, InboxInit
<1>2. Types /\ TableInv /\ InboxInv /\ [Next]_vars => (Types /\ TableInv /\ InboxInv)'
  BY TypesNext, TableNext, InboxInvNext
<1> QED
  BY <1>1, <1>2, PTL DEF Spec

-----------------------------------------------------------------------------
(***************************************************************************)
(* The detailed relay implements MessageRelay.                             *)
(***************************************************************************)
Waiting == {m \in messages : m.id \notin delivered}
Handed == {m \in messages : m.id \in delivered}
Inboxes == [d \in Device |-> InboxOf(d)]

LEMMA PrefixOf ==
    ASSUME NEW a \in Seq(Message), NEW z \in Seq(Message)
    PROVE  Len(a) <= Len(a \o z) /\ SubSeq(a, 1, Len(a)) = SubSeq(a \o z, 1, Len(a))
<1>1. /\ Len(a) \in Nat /\ Len(z) \in Nat /\ Len(a \o z) = Len(a) + Len(z)
      /\ a \o z \in Seq(Message)
      /\ \A k \in 1 .. Len(a) + Len(z) : (a \o z)[k] = IF k <= Len(a) THEN a[k] ELSE z[k - Len(a)]
  BY ConcatProperties, LenProperties
<1> DEFINE w == a \o z
<1>2. \A k \in 1 .. Len(a) : a[k] = w[k]
  BY <1>1
<1> HIDE DEF w
<1>3. SubSeq(a, 1, Len(a)) = [k \in 1 .. Len(a) |-> a[k]]
  BY <1>1
<1>4. w \in Seq(Message) /\ Len(a) <= Len(w)
  BY <1>1 DEF w
<1>5. SubSeq(w, 1, Len(a)) = [k \in 1 .. Len(a) |-> w[k]]
  BY <1>1, <1>4
<1>6. SubSeq(a, 1, Len(a)) = SubSeq(w, 1, Len(a))
  BY <1>2, <1>3, <1>5
<1> QED
  BY <1>4, <1>6 DEF w

LEMMA LosingImplemented ==
    ASSUME Types, Types', Loses
    PROVE  Abstract!Losing
<1>1. ASSUME NEW d \in Device
      PROVE  /\ Len(InboxOf(d)') <= Len(InboxOf(d))
             /\ SubSeq(InboxOf(d)', 1, Len(InboxOf(d)')) = SubSeq(InboxOf(d), 1, Len(InboxOf(d)'))
  <2>1. PICK z \in Seq(Message) : InboxOf(d) = InboxOf(d)' \o z
    BY DEF Loses
  <2>2. InboxOf(d)' \in Seq(Message)
    BY InboxTypeNext
  <2> DEFINE a == InboxOf(d)'
             q == InboxOf(d)
  <2>3. a \in Seq(Message) /\ q = a \o z
    BY <2>1, <2>2
  <2> HIDE DEF a, q
  <2>4. Len(a) <= Len(q) /\ SubSeq(a, 1, Len(a)) = SubSeq(q, 1, Len(a))
    BY <2>3, PrefixOf
  <2> QED  BY <2>4 DEF a, q
<1> QED
  BY <1>1 DEF Abstract!Losing, Abstract!IsPrefix

LEMMA InboxesMove ==
    ASSUME NEW L, NEW s, \A d \in Device : InboxOf(d)' = IF d \in L THEN InboxOf(d) \o s ELSE InboxOf(d)
    PROVE  Inboxes' = [d \in Device |-> IF d \in L THEN Inboxes[d] \o s ELSE Inboxes[d]]
<1>1. \A d \in Device : Inboxes'[d] = InboxOf(d)' /\ Inboxes[d] = InboxOf(d)
  BY DEF Inboxes
<1>2. Inboxes' = [d \in Device |-> InboxOf(d)']
  BY DEF Inboxes
<1> QED
  BY <1>1, <1>2

LEMMA CollectImplemented ==
    ASSUME Types, TableInv, NEW u \in User, NEW L, NEW s, messages' = messages, Gives(u, messages, L, s)
    PROVE  Abstract!Collect(u)
<1> DEFINE rows == Undelivered(u, messages)
<1>1. /\ L \in SUBSET Device /\ L \subseteq {d \in Device : OwnerOf[d] = u}
      /\ s \in OrderedByTs(rows) /\ delivered' = delivered \cup {m.id : m \in rows}
  BY DEF Gives
<1>2. Abstract!WaitingFor(u) = rows
  BY DEF Abstract!WaitingFor, Undelivered
<1>3. Waiting' = Waiting \ rows /\ Handed' = Handed \cup rows
  <2>1. \A x, y \in messages : x.id = y.id => x = y
    BY DEF TableInv, RowsInv
  <2>2. rows \subseteq messages /\ \A x \in rows : x.id \notin delivered
    BY DEF Undelivered
  <2> HIDE DEF rows
  <2> QED  BY <1>1, <2>1, <2>2 DEF Waiting, Handed
<1>4. s \in Abstract!OldestFirst(rows)
  BY <1>1 DEF OrderedByTs, Abstract!OldestFirst, Cardinality, Abstract!Cardinality
<1>5. Inboxes' = [d \in Device |-> IF d \in L THEN Inboxes[d] \o s ELSE Inboxes[d]]
  BY InboxesMove DEF Gives
<1> HIDE DEF rows
<1>6. Abstract!HandOver(u, rows, L)
  BY <1>1, <1>3, <1>4, <1>5 DEF Abstract!HandOver, Handed, Inboxes
<1> QED
  BY <1>1, <1>2, <1>3, <1>6 DEF Abstract!Collect, Waiting

LEMMA NewLetter ==
    ASSUME Types, TableInv, NEW m, Adding(m)
    PROVE  /\ m \in Message /\ m \notin messages /\ m.id \notin delivered
           /\ \A x \in messages : x.id # m.id
           /\ messages' = messages \cup {m}
           /\ m.id \notin {n.id : n \in Waiting \cup Handed}
           /\ Waiting' \cup Handed' = Waiting \cup Handed \cup {m}
<1>1. /\ m \notin messages /\ m.id \notin delivered
      /\ \A x \in messages : x.id < m.id
  BY RowAdded DEF Adding, TableInv
<1>2. \A x \in messages : x.id # m.id
  BY <1>1 DEF Types, RelayTypes, Message
<1>3. m \in Message /\ messages' = messages \cup {m}
  BY DEF Adding
<1>4. Waiting \cup Handed = messages /\ Waiting' \cup Handed' = messages'
  BY DEF Waiting, Handed
<1> QED
  BY <1>1, <1>2, <1>3, <1>4

LEMMA StoreImplemented ==
    ASSUME Types, Types', TableInv, NEW m, Adding(m), delivered' = delivered, Loses
    PROVE  Abstract!Accept(m)
<1>1. Waiting' = Waiting \cup {m} /\ Handed' = Handed
  BY NewLetter DEF Waiting, Handed
<1>2. Abstract!Losing
  BY LosingImplemented
<1> QED
  BY <1>1, <1>2, NewLetter DEF Abstract!Accept, Waiting, Handed

LEMMA TakenImplemented ==
    ASSUME Types, Types', TableInv, NEW u \in User, messages' = messages, TakesSome(u), Loses
    PROVE  Abstract!Squander(u)
<1>1. PICK taken \in SUBSET Undelivered(u, messages) :
          /\ \A m \in taken, n \in Undelivered(u, messages) \ taken : m.ts <= n.ts
          /\ delivered' = delivered \cup {m.id : m \in taken}
  BY DEF TakesSome
<1>2. Abstract!WaitingFor(u) = Undelivered(u, messages)
  BY DEF Abstract!WaitingFor, Undelivered
<1>3. Waiting' = Waiting \ taken /\ Handed' = Handed \cup taken
  <2>1. \A x, y \in messages : x.id = y.id => x = y
    BY DEF TableInv, RowsInv
  <2>2. taken \subseteq messages /\ \A x \in taken : x.id \notin delivered
    BY DEF Undelivered
  <2> QED  BY <1>1, <2>1, <2>2 DEF Waiting, Handed
<1>4. Abstract!Losing
  BY LosingImplemented
<1> QED
  BY <1>1, <1>2, <1>3, <1>4 DEF Abstract!Squander, Waiting, Handed

LEMMA RelayedImplemented ==
    ASSUME Types, TableInv, NEW m, NEW L, NEW s, Adding(m), Gives(m.to, messages', L, s)
    PROVE  Abstract!Accept(m)
<1> DEFINE old == Undelivered(m.to, messages)
           rows == old \cup {m}
<1>0. /\ m \in Message /\ m \notin messages /\ m.id \notin delivered
      /\ \A x \in messages : x.id # m.id
      /\ messages' = messages \cup {m}
  BY NewLetter
<1>1. Undelivered(m.to, messages') = rows
  BY <1>0 DEF Undelivered
<1>2. /\ L \in SUBSET Device /\ L \subseteq {d \in Device : OwnerOf[d] = m.to}
      /\ s \in OrderedByTs(rows) /\ delivered' = delivered \cup {x.id : x \in rows}
  BY <1>1 DEF Gives
<1>3. Abstract!WaitingFor(m.to) = old
  BY DEF Abstract!WaitingFor, Undelivered
<1>4. Waiting' = Waiting \ old /\ Handed' = Handed \cup rows
  <2>1. \A x, y \in messages : x.id = y.id => x = y
    BY DEF TableInv, RowsInv
  <2>2. old \subseteq messages /\ \A x \in old : x.id \notin delivered
    BY DEF Undelivered
  <2> HIDE DEF old
  <2> QED  BY <1>0, <1>2, <2>1, <2>2 DEF Waiting, Handed
<1>5. s \in Abstract!OldestFirst(rows)
  BY <1>2 DEF OrderedByTs, Abstract!OldestFirst, Cardinality, Abstract!Cardinality
<1>6. Inboxes' = [d \in Device |-> IF d \in L THEN Inboxes[d] \o s ELSE Inboxes[d]]
  BY InboxesMove DEF Gives
<1> HIDE DEF old
<1>7. Abstract!HandOver(m.to, old \cup {m}, L)
  <2> HIDE DEF rows
  <2>1. Abstract!HandOver(m.to, rows, L)
    BY <1>2, <1>4, <1>5, <1>6 DEF Abstract!HandOver, Handed, Inboxes
  <2> QED  BY <2>1 DEF rows
<1>8. /\ m.id \notin {n.id : n \in Waiting \cup Handed}
      /\ Waiting' \cup Handed' = Waiting \cup Handed \cup {m}
  BY NewLetter
<1> HIDE DEF rows
<1> QED
  BY <1>2, <1>3, <1>4, <1>7, <1>8 DEF Abstract!Accept, Waiting, Handed

\* RelayImplemented of MessagesPage, for any number of users, devices and
\* messages: sockets, ghosts, acks, the backlog flush, reconnects and restarts
\* together do no more than MessageRelay, whose letters wait, are handed over
\* once, oldest first, to their addressee's devices, and are lost from the end.
THEOREM RelayIsImplemented == Spec => RelayImplemented
<1>1. Init => Abstract!Init
  <2> SUFFICES ASSUME Init PROVE Abstract!Init
    OBVIOUS
  <2>1. messages = {} /\ \A d \in Device : InboxOf(d) = <<>>
    BY InboxInit DEF Init, RelayInit
  <2> QED  BY <2>1 DEF Abstract!Init
<1>2. Types /\ TableInv /\ [Next]_vars => [Abstract!Next]_(Abstract!vars)
  <2> SUFFICES ASSUME Types, TableInv, [Next]_vars PROVE [Abstract!Next]_(Abstract!vars)
    OBVIOUS
  <2>1. Types' /\ Move
    BY TypesNext, Moves
  <2>2. CASE messages' = messages /\ delivered' = delivered /\ Loses
    <3>1. Waiting' = Waiting /\ Handed' = Handed
      BY <2>2 DEF Waiting, Handed
    <3>2. Abstract!Losing
      BY <2>1, <2>2, LosingImplemented
    <3>3. Abstract!Lose
      BY <3>1, <3>2 DEF Abstract!Lose, Waiting, Handed
    <3> QED  BY <3>3 DEF Abstract!Next
  <2>3. ASSUME NEW u \in User, NEW L, NEW s, messages' = messages, Gives(u, messages, L, s)
        PROVE  Abstract!Next
    BY <2>3, CollectImplemented DEF Abstract!Next
  <2>4. ASSUME NEW m, Adding(m), delivered' = delivered, Loses PROVE Abstract!Next
    <3>1. Abstract!Accept(m) /\ m \in Message
      BY <2>1, <2>4, StoreImplemented, NewLetter
    <3> QED  BY <3>1 DEF Abstract!Next
  <2>5. ASSUME NEW m, NEW L, NEW s, Adding(m), Gives(m.to, messages', L, s) PROVE Abstract!Next
    <3>1. Abstract!Accept(m) /\ m \in Message
      BY <2>5, RelayedImplemented, NewLetter
    <3> QED  BY <3>1 DEF Abstract!Next
  <2>6. ASSUME NEW u \in User, messages' = messages, TakesSome(u), Loses PROVE Abstract!Next
    BY <2>1, <2>6, TakenImplemented DEF Abstract!Next
  <2> QED  BY <2>1, <2>2, <2>3, <2>4, <2>5, <2>6 DEF Move
<1> QED
  BY <1>1, <1>2, TableAlways, PTL DEF Spec, RelayImplemented, Abstract!Spec

-----------------------------------------------------------------------------
(***************************************************************************)
(* The order on the page is the order of the inbox.                        *)
(***************************************************************************)
\* Where the letters of the entries of t stand among what t has read.
Placed(t) ==
    /\ \A i \in DOMAIN t : ~t[i].mine => \E a \in DOMAIN Read(t) : Read(t)[a] = t[i].msg
    /\ \A i, j \in DOMAIN t : i < j /\ ~t[i].mine /\ ~t[j].mine =>
         \E a, b \in DOMAIN Read(t) :
           a < b /\ Read(t)[a] = t[i].msg /\ Read(t)[b] = t[j].msg

LEMMA PlacedAppend ==
    ASSUME NEW t \in Seq(Entry), NEW e \in Entry, Placed(t)
    PROVE  Placed(Append(t, e))
<1> DEFINE r == Read(t)
           w == Read(Append(t, e))
           x == Letter(e)
           t2 == Append(t, e)
<1>1. w = r \o x /\ r \in Seq(Message) /\ x \in Seq(Message)
  BY ReadAppend, LetterType, InboxType, EmptySeq
<1>2. /\ DOMAIN t = 1 .. Len(t) /\ Len(t) \in Nat
      /\ DOMAIN t2 = 1 .. Len(t) + 1 /\ t2[Len(t) + 1] = e
      /\ \A i \in 1 .. Len(t) : t2[i] = t[i]
  BY AppendProperties, LenProperties
<1>3. \A a \in DOMAIN r : a \in DOMAIN w /\ w[a] = r[a]
  <2> HIDE DEF r, w, x
  <2> QED  BY <1>1, PrefixAt
<1>4. ~e.mine => \E b \in DOMAIN w : w[b] = e.msg /\ \A a \in DOMAIN r : a < b
  <2> SUFFICES ASSUME ~e.mine PROVE \E b \in DOMAIN w : w[b] = e.msg /\ \A a \in DOMAIN r : a < b
    OBVIOUS
  <2>1. x = <<e.msg>> /\ e.msg \in Message
    BY DEF Letter, Entry
  <2> HIDE DEF r, w, x
  <2>2. w = Append(r, e.msg)
    BY <1>1, <2>1, AppendIsConcat
  <2>3. /\ Len(r) + 1 \in DOMAIN w /\ w[Len(r) + 1] = e.msg
        /\ DOMAIN r = 1 .. Len(r) /\ Len(r) \in Nat
    BY <1>1, <2>1, <2>2, AppendProperties, LenProperties
  <2>4. \A a \in DOMAIN r : a < Len(r) + 1
    BY <2>3
  <2> QED  BY <2>3, <2>4
<1>5. /\ \A i \in DOMAIN t : ~t[i].mine => \E a \in DOMAIN r : r[a] = t[i].msg
      /\ \A i, j \in DOMAIN t : i < j /\ ~t[i].mine /\ ~t[j].mine =>
           \E a, b \in DOMAIN r : a < b /\ r[a] = t[i].msg /\ r[b] = t[j].msg
  BY DEF Placed
<1> HIDE DEF r, w, x, t2
<1>6. ASSUME NEW i \in DOMAIN t2, ~t2[i].mine PROVE \E a \in DOMAIN w : w[a] = t2[i].msg
  <2>1. CASE i \in DOMAIN t
    <3>1. t2[i] = t[i]
      BY <1>2, <2>1
    <3>2. PICK a \in DOMAIN r : r[a] = t[i].msg
      BY <1>5, <1>6, <2>1, <3>1
    <3> QED  BY <1>3, <3>1, <3>2
  <2>2. CASE i = Len(t) + 1
    BY <1>2, <1>4, <1>6, <2>2
  <2> QED  BY <1>2, <2>1, <2>2
<1>7. ASSUME NEW i \in DOMAIN t2, NEW j \in DOMAIN t2, i < j, ~t2[i].mine, ~t2[j].mine
      PROVE  \E a, b \in DOMAIN w : a < b /\ w[a] = t2[i].msg /\ w[b] = t2[j].msg
  <2>1. i \in DOMAIN t /\ t2[i] = t[i]
    BY <1>2, <1>7
  <2>2. CASE j \in DOMAIN t
    <3>1. t2[j] = t[j]
      BY <1>2, <2>2
    <3>2. PICK a, b \in DOMAIN r : a < b /\ r[a] = t[i].msg /\ r[b] = t[j].msg
      BY <1>5, <1>7, <2>1, <2>2, <3>1
    <3> QED  BY <1>3, <2>1, <3>1, <3>2
  <2>3. CASE j = Len(t) + 1
    <3>1. PICK b \in DOMAIN w : w[b] = e.msg /\ \A a \in DOMAIN r : a < b
      BY <1>2, <1>4, <1>7, <2>3
    <3>2. PICK a \in DOMAIN r : r[a] = t[i].msg
      BY <1>5, <1>7, <2>1
    <3> QED  BY <1>2, <1>3, <2>1, <2>3, <3>1, <3>2
  <2> QED  BY <1>2, <2>2, <2>3
<1> QED
  BY <1>6, <1>7 DEF Placed, t2, w

LEMMA AllPlaced == ASSUME NEW t \in Seq(Entry) PROVE Placed(t)
<1> DEFINE B == {n \in Nat : \E u \in Seq(Entry) : Len(u) = n /\ ~Placed(u)}
<1>1. ASSUME B # {} PROVE FALSE
  <2>1. PICK n \in B : \A m \in B : ~ (m < n)
    <3>1. B \in SUBSET Nat
      OBVIOUS
    <3> HIDE DEF B
    <3> QED  BY <1>1, <3>1, LeastIndex
  <2>2. PICK u \in Seq(Entry) : Len(u) = n /\ ~Placed(u)
    BY <2>1
  <2>3. u # <<>>
    <3>1. Placed(<<>>)
      BY DEF Placed
    <3> QED  BY <2>2, <3>1
  <2>4. PICK v \in Seq(Entry), e \in Entry : u = Append(v, e)
    BY <2>3, SequenceEmptyOrAppend
  <2>5. Len(v) \in Nat /\ Len(v) < n
    BY <2>2, <2>4, AppendProperties, LenProperties
  <2>6. Placed(v)
    BY <2>1, <2>5
  <2> HIDE DEF B
  <2> QED  BY <2>2, <2>4, <2>6, PlacedAppend
<1>2. Len(t) \in Nat
  OBVIOUS
<1> QED
  BY <1>1, <1>2

\* ThreadInOrder of MessagesPage, for any number of users, devices, messages and
\* reconnects: what a page shows from others it shows in the order it was
\* stored, and no message twice.
THEOREM ThreadsAreInOrder == Spec => []ThreadInOrder
<1>1. Types /\ InboxInv => ThreadInOrder
  <2> SUFFICES ASSUME Types, InboxInv, NEW d \in Device,
                      NEW i \in DOMAIN thread[d], NEW j \in DOMAIN thread[d],
                      i < j, ~thread[d][i].mine, ~thread[d][j].mine
               PROVE  /\ thread[d][i].msg.ts <= thread[d][j].msg.ts
                      /\ thread[d][i].msg.id # thread[d][j].msg.id
    BY DEF ThreadInOrder
  <2> DEFINE t == thread[d]
             r == Read(t)
             q == InboxOf(d)
  <2>1. /\ t \in Seq(Entry) /\ r \in Seq(Message) /\ Given(downlink[d]) \in Seq(Message)
        /\ q = r \o Given(downlink[d])
    BY InboxIs, InboxType
  <2>2. InOrder(q)
    BY InboxParts
  <2>3. PICK a, b \in DOMAIN r : a < b /\ r[a] = t[i].msg /\ r[b] = t[j].msg
    BY <2>1, AllPlaced DEF Placed
  <2> HIDE DEF r, q, t
  <2>4. a \in DOMAIN q /\ b \in DOMAIN q /\ q[a] = r[a] /\ q[b] = r[b]
    BY <2>1, PrefixAt
  <2>5. q[a].ts <= q[b].ts /\ q[a].id # q[b].id
    BY <2>2, <2>3, <2>4 DEF InOrder
  <2> QED  BY <2>3, <2>4, <2>5 DEF t
<1> QED
  BY <1>1, InboxAlways, PTL

-----------------------------------------------------------------------------
(***************************************************************************)
(* What cannot be read.                                                    *)
(***************************************************************************)
Holders(u) == {d \in Device : OwnerOf[d] = u /\ identity[d] > 0}

LEMMA TwoHolders ==
    ASSUME NEW S, IsFiniteSet(S), NEW x \in S, NEW y \in S, x # y
    PROVE  Cardinality(S) > 1
<1>1. /\ IsFiniteSet({x}) /\ Cardinality({x}) = 1
      /\ IsFiniteSet({x} \cup {y}) /\ Cardinality({x} \cup {y}) = 2
  <2>1. IsFiniteSet({x}) /\ Cardinality({x}) = 1 /\ y \notin {x}
    BY FS_Singleton
  <2>2. IsFiniteSet({x} \cup {y}) /\ Cardinality({x} \cup {y}) = Cardinality({x}) + 1
    BY <2>1, FS_AddElement
  <2> QED  BY <2>1, <2>2
<1>2. Cardinality(S) \in Nat /\ Cardinality({x} \cup {y}) <= Cardinality(S)
  BY <1>1, FS_Subset, FS_CardinalityType
<1> QED
  BY <1>1, <1>2

LEMMA RekeyedStays ==
    ASSUME Types, [Next]_vars, NEW u, Rekeyed(u)
    PROVE  Rekeyed(u)'
<1>1. /\ identity \in [Device -> Nat] /\ identity' \in [Device -> Nat]
      /\ \A d \in Device : identity[d] <= identity'[d]
  BY IdentityGrows
<1>2. CASE \E d \in Device : OwnerOf[d] = u /\ identity[d] > 1
  BY <1>1, <1>2 DEF Rekeyed
<1>3. CASE Cardinality(Holders(u)) > 1
  <2>1. Holders(u) \subseteq Holders(u)'
    BY <1>1 DEF Holders
  <2>2. IsFiniteSet(Holders(u)') /\ IsFiniteSet(Holders(u))
    <3>1. Holders(u) \subseteq Device /\ Holders(u)' \subseteq Device
      BY DEF Holders
    <3> QED  BY <3>1, PageAssumption, FS_Subset
  <2>3. Cardinality(Holders(u)) <= Cardinality(Holders(u)')
    BY <2>1, <2>2, FS_Subset
  <2>4. Cardinality(Holders(u)) \in Nat /\ Cardinality(Holders(u)') \in Nat
    BY <2>2, FS_CardinalityType
  <2>5. Cardinality(Holders(u)') > 1
    BY <1>3, <2>3, <2>4
  <2> QED  BY <2>5 DEF Rekeyed, Holders
<1> QED
  BY <1>2, <1>3 DEF Rekeyed, Holders

\* A letter at the head of the queue is in the inbox.
LEMMA HeadIsInInbox ==
    ASSUME NEW t \in Seq(Entry), NEW q \in Seq(DownPacket), q # <<>>, Head(q).ev = "dm.recv"
    PROVE  \E a \in DOMAIN Inbox(t, q) : Inbox(t, q)[a] = Head(q).msg
<1> DEFINE e == [msg |-> Head(q).msg, mine |-> FALSE, clear |-> TRUE]
           t2 == Append(t, e)
           m == Head(q).msg
<1>1. Head(q) \in DownPacket /\ m \in Message /\ Tail(q) \in Seq(DownPacket)
  BY HeadTailProperties, DownFields
<1>2. e \in Entry /\ e.msg = m /\ e.mine = FALSE /\ t2 \in Seq(Entry)
  BY <1>1, AppendProperties DEF Entry
<1>3. /\ Len(t) + 1 \in DOMAIN t2 /\ t2[Len(t) + 1] = e
  BY <1>2, AppendProperties, LenProperties
<1>4. Inbox(t2, Tail(q)) = Inbox(t, q)
  <2>1. e.mine = (Head(q).ev # "dm.recv")
    BY <1>2
  <2> HIDE DEF e
  <2> QED  BY <1>2, <2>1, InboxTaken
<1> HIDE DEF t2, e, m
<1>5. PICK a \in DOMAIN Read(t2) : Read(t2)[a] = m
  BY <1>2, <1>3, AllPlaced DEF Placed
<1>6. /\ Read(t2) \in Seq(Message) /\ Given(Tail(q)) \in Seq(Message)
      /\ Inbox(t2, Tail(q)) = Read(t2) \o Given(Tail(q))
  BY <1>1, <1>2, InboxType
<1>7. a \in DOMAIN Inbox(t2, Tail(q)) /\ Inbox(t2, Tail(q))[a] = m
  BY <1>5, <1>6, PrefixAt
<1> QED
  BY <1>4, <1>7 DEF m

\* What a device is given and cannot open was sealed to another key of its user.
LEMMA UnreadableIsRekeyed ==
    ASSUME Types, KeysInv, InboxInv, NEW d \in Device, downlink[d] # <<>>,
           Head(downlink[d]).ev = "dm.recv",
           ~ Opens(GenerateIdentity(IdentityKey(d)), BoxOf(Head(downlink[d]).msg))
    PROVE  Rekeyed(OwnerOf[d])
<1> DEFINE m == Head(downlink[d]).msg
<1>1. m \in messages /\ m.to = OwnerOf[d]
  <2>1. /\ InboxOf(d) = Inbox(thread[d], downlink[d])
        /\ thread[d] \in Seq(Entry) /\ downlink[d] \in Seq(DownPacket)
    BY InboxIs
  <2>2. PICK a \in DOMAIN InboxOf(d) : InboxOf(d)[a] = m
    BY <2>1, HeadIsInInbox
  <2>3. Own(InboxOf(d), OwnerOf[d], messages, delivered)
    BY InboxParts
  <2> HIDE DEF m
  <2> QED  BY <2>2, <2>3 DEF Own
<1>2. m.key # IdentityKey(d)
  <2> HIDE DEF m
  <2>1. ASSUME m.key = IdentityKey(d)
        PROVE  Opens(GenerateIdentity(IdentityKey(d)), BoxOf(m))
    BY <2>1, SealedOpens DEF BoxOf
  <2> QED  BY <2>1 DEF m
<1>3. PICK e \in Device :
        \E i \in 1 .. identity[e] : OwnerOf[e] = OwnerOf[d] /\ m.key = KeysOf[e][i]
  <2> HIDE DEF m
  <2> QED  BY <1>1 DEF KeysInv, HeldBoxes, Generated
<1>4. identity[d] \in Nat /\ identity[d] >= 1 /\ identity[e] \in Nat /\ identity[e] >= 1
  BY <1>3 DEF Types, RelayTypes, PageTypes
<1>5. CASE e = d
  <2>1. PICK i \in 1 .. identity[d] : m.key = KeysOf[d][i]
    BY <1>3, <1>5
  <2>2. i # identity[d]
    BY <1>2, <2>1 DEF IdentityKey
  <2>3. identity[d] > 1
    BY <1>4, <2>1, <2>2
  <2> QED  BY <2>3 DEF Rekeyed
<1>6. CASE e # d
  <2>1. d \in Holders(OwnerOf[d]) /\ e \in Holders(OwnerOf[d])
    BY <1>3, <1>4 DEF Holders
  <2>2. IsFiniteSet(Holders(OwnerOf[d]))
    BY PageAssumption, FS_Subset DEF Holders
  <2>3. Cardinality(Holders(OwnerOf[d])) > 1
    BY <1>6, <2>1, <2>2, TwoHolders
  <2> QED  BY <2>3 DEF Rekeyed, Holders
<1> QED
  BY <1>5, <1>6

LEMMA ClearNext ==
    Types /\ KeysInv /\ InboxInv /\ UnreadableOnlyAfterRekey /\ [Next]_vars
      => UnreadableOnlyAfterRekey'
<1> SUFFICES ASSUME Types, KeysInv, InboxInv, UnreadableOnlyAfterRekey, [Next]_vars
             PROVE  UnreadableOnlyAfterRekey'
  OBVIOUS
<1>1. ASSUME NEW u, Rekeyed(u) PROVE Rekeyed(u)'
  BY <1>1, RekeyedStays
<1>2. ASSUME \A d \in Device : \A i \in DOMAIN thread'[d] :
               ~thread'[d][i].clear => \/ i \in DOMAIN thread[d] /\ ~thread[d][i].clear
                                       \/ Rekeyed(OwnerOf[d])
      PROVE  UnreadableOnlyAfterRekey'
  <2> SUFFICES ASSUME NEW d \in Device, NEW i \in DOMAIN thread'[d], ~thread'[d][i].clear
               PROVE  Rekeyed(OwnerOf[d])'
    BY DEF UnreadableOnlyAfterRekey
  <2>1. Rekeyed(OwnerOf[d])
    BY <1>2 DEF UnreadableOnlyAfterRekey
  <2> QED  BY <1>1, <2>1
<1>3. ASSUME thread' = thread PROVE UnreadableOnlyAfterRekey'
  BY <1>2, <1>3
<1>4. ASSUME NEW d \in Device, Receive(d) PROVE UnreadableOnlyAfterRekey'
  <2> DEFINE p == Head(downlink[d])
  <2>1. downlink[d] # <<>> /\ thread \in [Device -> Seq(Entry)] /\ downlink \in [Device -> Seq(DownPacket)]
    BY <1>4 DEF Receive, Types, RelayTypes, PageTypes
  <2>2. p \in DownPacket
    BY <2>1, HeadPacket
  <2>3. ASSUME NEW x \in Entry, thread' = [thread EXCEPT ![d] = Append(@, x)],
               ~x.clear => Rekeyed(OwnerOf[d])
        PROVE  UnreadableOnlyAfterRekey'
    <3>1. Adds(thread, thread', d, x)
      BY <2>1, <2>3, AppendedTo
    <3>2. \A e \in Device : \A i \in DOMAIN thread'[e] :
               ~thread'[e][i].clear => \/ i \in DOMAIN thread[e] /\ ~thread[e][i].clear
                                       \/ Rekeyed(OwnerOf[e])
      BY <2>3, <3>1 DEF Adds
    <3> QED  BY <1>2, <3>2
  <2>4. CASE p.ev = "dm.recv" /\ Ingest(d, p.msg)
    <3> DEFINE c == Opens(GenerateIdentity(IdentityKey(d)), BoxOf(p.msg))
               x == [msg |-> p.msg, mine |-> FALSE, clear |-> c]
    <3>1. c \in BOOLEAN /\ p.msg \in Message
      BY <2>2, <2>4, DownFields DEF Opens
    <3>2. thread' = [thread EXCEPT ![d] = Append(@, x)]
      BY <2>4 DEF Ingest
    <3>3. ~c => Rekeyed(OwnerOf[d])
      BY <2>1, <2>4, UnreadableIsRekeyed
    <3> HIDE DEF c, p
    <3>4. x \in Entry /\ x.clear = c
      BY <3>1 DEF Entry
    <3> HIDE DEF x
    <3> QED  BY <2>3, <3>2, <3>3, <3>4
  <2>5. CASE p.ev = "ack" /\ OnAck(d, p.msg)
    <3> DEFINE x == [msg |-> p.msg, mine |-> TRUE, clear |-> TRUE]
    <3>1. p.msg \in Message
      BY <2>2, <2>5, DownFields
    <3>2. thread' = [thread EXCEPT ![d] = Append(@, x)]
      BY <2>5 DEF OnAck
    <3> HIDE DEF p
    <3>3. x \in Entry /\ x.clear
      BY <3>1 DEF Entry
    <3> HIDE DEF x
    <3> QED  BY <2>3, <3>2, <3>3
  <2>6. CASE p.ev = "key" /\ OnKey(d, p.user, p.key)
    BY <1>3, <2>6 DEF OnKey
  <2> QED  BY <1>4, <2>4, <2>5, <2>6 DEF Receive
<1>5. ASSUME NEW d \in Device, ClosePage(d) PROVE UnreadableOnlyAfterRekey'
  <2>1. thread' = [thread EXCEPT ![d] = <<>>] /\ thread \in [Device -> Seq(Entry)]
    BY <1>5 DEF ClosePage, Types, PageTypes
  <2>2. \A e \in Device : thread'[e] = thread[e] \/ thread'[e] = <<>>
    BY <2>1
  <2> QED  BY <1>2, <2>2
<1>6. ASSUME NEW d \in Device, OpenPage(d) \/ Connect(d) \/ Handle(d) \/ Drop(d) \/ ClearData(d)
      PROVE  thread' = thread
  BY <1>6 DEF OpenPage, Connect, Handle, Drop, ClearData
<1>7. ASSUME NEW d \in Device, NEW u \in User, AskKey(d, u) \/ SendDm(d, u) PROVE thread' = thread
  BY <1>7 DEF AskKey, SendDm
<1>8. ASSUME NEW u \in User, Noticed(u) PROVE thread' = thread
  BY <1>8 DEF Noticed, clientVars
<1>9. ASSUME Restart PROVE thread' = thread
  BY <1>9 DEF Restart
<1>10. ASSUME UNCHANGED vars PROVE thread' = thread
  BY <1>10 DEF vars
<1> QED
  BY <1>3, <1>4, <1>5, <1>6, <1>7, <1>8, <1>9, <1>10 DEF Next

\* UnreadableOnlyAfterRekey of MessagesPage, for any number of users, devices and
\* keys: whatever order publishing, fetching, caching and delivery come in, a
\* user whose one device kept its identity reads all that is sealed to him.
THEOREM UnreadableMeansRekeyed == Spec => []UnreadableOnlyAfterRekey
<1>1. Init => Types /\ TableInv /\ InboxInv /\ KeysInv /\ UnreadableOnlyAfterRekey
  <2>1. Init => UnreadableOnlyAfterRekey
    BY DEF Init, UnreadableOnlyAfterRekey
  <2> QED  BY <2>1, TypesInit, TableInit, InboxInit, KeysInit
<1>2. Types /\ TableInv /\ InboxInv /\ KeysInv /\ UnreadableOnlyAfterRekey /\ [Next]_vars
        => (Types /\ TableInv /\ InboxInv /\ KeysInv /\ UnreadableOnlyAfterRekey)'
  BY TypesNext, TableNext, InboxInvNext, KeysNext, ClearNext
<1> QED
  BY <1>1, <1>2, PTL DEF Spec
=============================================================================
