-------------------------- MODULE WorldSessionsProofs --------------------------
(***************************************************************************)
(* Proofs about the sessions of the world and the login queue, for any     *)
(* finite set of connections, any accounts and any limits.  The queue is   *)
(* followed as a value: one step of the world thread makes one departure,  *)
(* two, or a departure and an arrival, and each of them leaves a settled   *)
(* queue behind.                                                           *)
(***************************************************************************)
EXTENDS WorldSessions, SequenceTheorems, FiniteSetTheorems, FunctionTheorems, TLAPS

-----------------------------------------------------------------------------
(* Lists of connections in which nobody is twice.                          *)

Lists == {list \in Seq(Connections) : IsInjective(list)}

LEMMA ListMembers ==
  ASSUME NEW list \in Lists
  PROVE  /\ ToSet(list) = {list[i] : i \in 1..Len(list)}
         /\ ToSet(list) \subseteq Connections
         /\ \A i, j \in 1..Len(list) : list[i] = list[j] => i = j
  <1>1. list \in Seq(Connections) /\ DOMAIN list = 1..Len(list)
    BY DEF Lists
  <1> QED BY <1>1 DEF Lists, ToSet, IsInjective

LEMMA Positions ==
  ASSUME NEW list \in Lists, NEW i \in 1..Len(list)
  PROVE  list[i] \in ToSet(list) /\ PositionIn(list, list[i]) = i
  BY ListMembers DEF PositionIn

LEMMA PositionOf ==
  ASSUME NEW list \in Lists, NEW c \in ToSet(list)
  PROVE  PositionIn(list, c) \in 1..Len(list) /\ list[PositionIn(list, c)] = c
  <1>1. PICK i \in 1..Len(list) : list[i] = c
    BY ListMembers
  <1> QED BY <1>1, Positions

\* A list without c, in the same order.
LEMMA EraseProperties ==
  ASSUME NEW list \in Lists, NEW c
  PROVE  /\ Erase(list, c) \in Lists
         /\ ToSet(Erase(list, c)) = ToSet(list) \ {c}
         /\ c \notin ToSet(list) => Erase(list, c) = list
         /\ c \in ToSet(list) => \A d \in ToSet(list) \ {c} :
              PositionIn(Erase(list, c), d) =
                IF PositionIn(list, d) > PositionIn(list, c)
                THEN PositionIn(list, d) - 1 ELSE PositionIn(list, d)
  <1>1. CASE c \notin ToSet(list)
    BY <1>1 DEF Erase
  <1>2. CASE c \in ToSet(list)
    <2> DEFINE k == PositionIn(list, c)
               n == Len(list)
               left == SubSeq(list, 1, k - 1) \o SubSeq(list, k + 1, n)
    <2>1. k \in 1..n /\ list[k] = c /\ n \in Nat /\ list \in Seq(Connections)
      BY <1>2, PositionOf DEF Lists
    <2>2. Erase(list, c) = left
      BY <1>2 DEF Erase, RemoveAt
    <2> HIDE DEF k
    <2>3. /\ SubSeq(list, 1, k - 1) \in Seq(Connections)
          /\ Len(SubSeq(list, 1, k - 1)) = k - 1
          /\ \A i \in 1..(k - 1) : SubSeq(list, 1, k - 1)[i] = list[i]
      <3>1. \A i \in 1..(k - 1) : list[i] \in Connections
        BY <2>1, ElementOfSeq
      <3> QED BY <2>1, <3>1, SubSeqProperties
    <2>4. /\ SubSeq(list, k + 1, n) \in Seq(Connections)
          /\ Len(SubSeq(list, k + 1, n)) = n - k
          /\ \A i \in 1..(n - k) : SubSeq(list, k + 1, n)[i] = list[k + i]
      <3>1. \A i \in (k + 1)..n : list[i] \in Connections
        BY <2>1, ElementOfSeq
      <3> HIDE DEF n
      <3> QED BY <2>1, <3>1, SubSeqProperties
    <2>5. /\ left \in Seq(Connections) /\ Len(left) = n - 1
          /\ \A i \in 1..(n - 1) : left[i] = IF i < k THEN list[i] ELSE list[i + 1]
      <3> HIDE DEF n
      <3> QED BY <2>1, <2>3, <2>4, ConcatProperties
    <2> HIDE DEF left
    <2>6. IsInjective(left)
      <3>1. DOMAIN left = 1..(n - 1)
        BY <2>5
      <3> QED BY <2>1, <2>5, <3>1, ListMembers DEF IsInjective
    <2>7. left \in Lists
      BY <2>5, <2>6 DEF Lists
    <2>8. ToSet(left) = ToSet(list) \ {c}
      <3>1. ASSUME NEW d \in ToSet(left) PROVE d \in ToSet(list) \ {c}
        BY <2>1, <2>5, <2>7, <3>1, ListMembers
      <3>2. ASSUME NEW d \in ToSet(list) \ {c} PROVE d \in ToSet(left)
        <4>1. PICK i \in 1..n : list[i] = d
          BY <3>2, ListMembers
        <4>2. i # k
          BY <2>1, <3>2, <4>1
        <4>3. CASE i < k
          BY <2>1, <2>5, <2>7, <4>1, <4>3, ListMembers
        <4>4. CASE i > k
          <5>1. i - 1 \in 1..(n - 1) /\ left[i - 1] = d
            BY <2>1, <2>5, <4>1, <4>4
          <5> QED BY <2>5, <2>7, <5>1, ListMembers
        <4> QED BY <2>1, <4>2, <4>3, <4>4
      <3> QED BY <3>1, <3>2
    <2>9. ASSUME NEW d \in ToSet(list) \ {c}
          PROVE  PositionIn(left, d) =
                   IF PositionIn(list, d) > k THEN PositionIn(list, d) - 1 ELSE PositionIn(list, d)
      <3> DEFINE i == PositionIn(list, d)
      <3>1. i \in 1..n /\ list[i] = d /\ i # k
        BY <2>1, <2>9, PositionOf
      <3> HIDE DEF i
      <3>2. CASE i < k
        BY <2>1, <2>5, <2>7, <3>1, <3>2, Positions DEF i
      <3>3. CASE i > k
        <4>1. i - 1 \in 1..(n - 1) /\ left[i - 1] = d
          BY <2>1, <2>5, <3>1, <3>3
        <4>2. PositionIn(left, d) = i - 1
          BY <2>5, <2>7, <4>1, Positions
        <4> QED BY <3>3, <4>2 DEF i
      <3> QED BY <2>1, <3>1, <3>2, <3>3
    <2> QED BY <1>2, <2>2, <2>7, <2>8, <2>9 DEF k
  <1> QED BY <1>1, <1>2

\* A list without its first connection.
LEMMA TailProperties ==
  ASSUME NEW list \in Lists, list # <<>>
  PROVE  /\ Tail(list) \in Lists
         /\ Head(list) \in ToSet(list)
         /\ ToSet(Tail(list)) = ToSet(list) \ {Head(list)}
         /\ PositionIn(list, Head(list)) = 1
         /\ \A d \in ToSet(Tail(list)) : PositionIn(Tail(list), d) = PositionIn(list, d) - 1
  <1> DEFINE n == Len(list)
             rest == Tail(list)
  <1>1. list \in Seq(Connections) /\ n \in Nat \ {0} /\ Head(list) = list[1]
    BY EmptySeq DEF Lists
  <1>2. rest \in Seq(Connections) /\ Len(rest) = n - 1 /\ \A i \in 1..(n - 1) : rest[i] = list[i + 1]
    BY <1>1, HeadTailProperties
  <1>3. 1 \in 1..n
    BY <1>1
  <1>4. Head(list) \in ToSet(list) /\ PositionIn(list, Head(list)) = 1
    BY <1>1, <1>3, Positions
  <1> HIDE DEF rest
  <1>5. IsInjective(rest)
    <2>1. DOMAIN rest = 1..(n - 1)
      BY <1>2
    <2> QED BY <1>1, <1>2, <2>1, ListMembers DEF IsInjective
  <1>6. rest \in Lists
    BY <1>2, <1>5 DEF Lists
  <1>7. ASSUME NEW d \in ToSet(rest)
        PROVE  d \in ToSet(list) /\ d # list[1] /\ PositionIn(rest, d) = PositionIn(list, d) - 1
    <2>1. PICK i \in 1..(n - 1) : rest[i] = d
      BY <1>2, <1>6, ListMembers
    <2>2. i + 1 \in 1..n /\ list[i + 1] = d
      BY <1>1, <1>2, <2>1
    <2>3. PositionIn(list, d) = i + 1 /\ d \in ToSet(list)
      BY <2>2, Positions
    <2>4. PositionIn(rest, d) = i
      BY <1>2, <1>6, <2>1, Positions
    <2>5. d # list[1]
      BY <1>3, <2>2, ListMembers
    <2> QED BY <2>3, <2>4, <2>5
  <1>8. ASSUME NEW d \in ToSet(list), d # list[1]
        PROVE  d \in ToSet(rest)
    <2>1. PICK i \in 1..n : list[i] = d
      BY ListMembers
    <2>2. i - 1 \in 1..(n - 1)
      BY <1>1, <1>8, <2>1
    <2>3. rest[i - 1] = d
      BY <1>1, <1>2, <2>1, <2>2
    <2> QED BY <1>2, <1>6, <2>2, <2>3, ListMembers
  <1> QED BY <1>1, <1>4, <1>6, <1>7, <1>8 DEF rest

\* A list with one more connection at its end.
LEMMA AppendToList ==
  ASSUME NEW list \in Lists, NEW c \in Connections \ ToSet(list)
  PROVE  /\ Append(list, c) \in Lists
         /\ ToSet(Append(list, c)) = ToSet(list) \cup {c}
         /\ PositionIn(Append(list, c), c) = Len(list) + 1
         /\ \A d \in ToSet(list) : PositionIn(Append(list, c), d) = PositionIn(list, d)
         /\ Append(list, c) # <<>>
  <1> DEFINE n == Len(list)
             more == Append(list, c)
  <1>1. list \in Seq(Connections) /\ n \in Nat
    BY DEF Lists
  <1>2. /\ more \in Seq(Connections) /\ Len(more) = n + 1 /\ more # <<>>
        /\ more[n + 1] = c /\ \A i \in 1..n : more[i] = list[i]
    BY <1>1, AppendProperties
  <1> HIDE DEF more
  <1>3. IsInjective(more)
    <2>1. DOMAIN more = 1..(n + 1)
      BY <1>1, <1>2
    <2>2. \A i \in 1..n : more[i] # c
      BY <1>2, ListMembers
    <2> QED BY <1>1, <1>2, <2>1, <2>2, ListMembers DEF IsInjective
  <1>4. more \in Lists
    BY <1>2, <1>3 DEF Lists
  <1>5. n + 1 \in 1..Len(more)
    BY <1>1, <1>2
  <1>6. c \in ToSet(more) /\ PositionIn(more, c) = n + 1
    BY <1>2, <1>4, <1>5, Positions
  <1>7. ASSUME NEW d \in ToSet(list)
        PROVE  d \in ToSet(more) /\ PositionIn(more, d) = PositionIn(list, d)
    <2> DEFINE i == PositionIn(list, d)
    <2>1. i \in 1..n /\ list[i] = d
      BY PositionOf
    <2> HIDE DEF i
    <2>2. i \in 1..Len(more) /\ more[i] = d
      BY <1>1, <1>2, <2>1
    <2> QED BY <1>4, <2>2, Positions DEF i
  <1>8. ASSUME NEW d \in ToSet(more), d # c
        PROVE  d \in ToSet(list)
    <2>1. PICK i \in 1..(n + 1) : more[i] = d
      BY <1>2, <1>4, ListMembers
    <2>2. i \in 1..n
      BY <1>1, <1>2, <1>8, <2>1
    <2> QED BY <1>2, <2>1, <2>2, ListMembers
  <1> QED BY <1>2, <1>4, <1>6, <1>7, <1>8 DEF more

LEMMA LengthOfList ==
  ASSUME NEW list \in Lists
  PROVE  /\ IsFiniteSet(ToSet(list)) /\ Len(list) = Cardinality(ToSet(list))
         /\ Len(list) \in Nat /\ list = <<>> <=> ToSet(list) = {}
  <1> DEFINE n == Len(list)
  <1>1. list \in Seq(Connections) /\ n \in Nat /\ DOMAIN list = 1..n
    BY DEF Lists
  <1>2. list \in [1..n -> ToSet(list)]
    BY <1>1, ListMembers
  <1>3. list \in Surjection(1..n, ToSet(list)) /\ list \in Injection(1..n, ToSet(list))
    BY <1>2, ListMembers, Fun_IsSurj, Fun_IsInj
  <1>4. IsFiniteSet(1..n) /\ Cardinality(1..n) = n
    BY <1>1, FS_Interval
  <1>5. IsFiniteSet(ToSet(list)) /\ Cardinality(ToSet(list)) = n
    BY <1>3, <1>4, FS_Surjection
  <1>6. list = <<>> <=> n = 0
    BY <1>1, EmptySeq
  <1> QED BY <1>1, <1>5, <1>6, FS_EmptySet

-----------------------------------------------------------------------------
(* The login queue of a set L of sessions, and one departure from it.      *)

QueueOver(q, L) ==
  /\ q.queue \in Lists /\ ToSet(q.queue) \subseteq L
  /\ q.inQueue \subseteq Connections
  /\ q.told \in [Connections -> 0..NeverTold]

\* Everybody in L was told where they are.
ToldOver(q, L) ==
  \A d \in L : q.told[d] = IF d \in ToSet(q.queue) THEN PositionIn(q.queue, d) ELSE 0

\* The sessions of L that are not waiting.
Active(q, L) == L \ ToSet(q.queue)

Admits(q, c, size) ==
  /\ Erase(q.queue, c) # <<>>
  /\ playerLimit = 0 \/ ActiveWithout(q, c, size) < playerLimit

\* Who is admitted when c leaves.
Admitted(q, c, size) ==
  IF Admits(q, c, size) THEN {Head(Erase(q.queue, c))} ELSE {}

LEMMA RemoveUnfolded ==
  ASSUME NEW q, NEW c, NEW size
  PROVE  LET r == RemoveQueuedPlayer(q, c, size)
             left == Erase(q.queue, c)
         IN  /\ r.queue = IF Admits(q, c, size) THEN Tail(left) ELSE left
             /\ \A d : d \in r.inQueue <=> /\ d \in q.inQueue
                                           /\ d = c => d \notin ToSet(q.queue)
                                           /\ d \notin Admitted(q, c, size)
  <1> DEFINE r == RemoveQueuedPlayer(q, c, size)
  <1>1. r.queue = IF Admits(q, c, size) THEN Tail(Erase(q.queue, c)) ELSE Erase(q.queue, c)
    BY DEF RemoveQueuedPlayer, Admit, Admits
  <1>2. r.inQueue = (q.inQueue \ (ToSet(q.queue) \cap {c})) \ Admitted(q, c, size)
    BY DEF RemoveQueuedPlayer, Admit, Admits, Admitted
  <1> HIDE DEF r
  <1>3. \A d : d \in r.inQueue <=> /\ d \in q.inQueue
                                   /\ d = c => d \notin ToSet(q.queue)
                                   /\ d \notin Admitted(q, c, size)
    BY <1>2
  <1> QED BY <1>1, <1>3 DEF r

LEMMA RemoveTold ==
  ASSUME NEW q, NEW c, NEW size, NEW d \in Connections
  PROVE  LET r == RemoveQueuedPlayer(q, c, size)
         IN  r.told[d] =
               IF d = c THEN NeverTold
               ELSE IF /\ d \in ToSet(r.queue)
                       /\ PositionIn(r.queue, d) >= FirstChanged(q, c, Admits(q, c, size))
                    THEN PositionIn(r.queue, d)
               ELSE IF d \in Admitted(q, c, size) THEN 0
               ELSE q.told[d]
  BY DEF RemoveQueuedPlayer, Admit, Admits, Admitted

\* ActiveWithout counts the sessions that are not waiting, whether c waits or not.
LEMMA ActiveCount ==
  ASSUME NEW L \in SUBSET Connections, NEW c \in L, NEW q, QueueOver(q, L)
  PROVE  /\ IsFiniteSet(Active(q, L \ {c}))
         /\ Cardinality(Active(q, L \ {c})) \in Nat
         /\ ActiveWithout(q, c, Cardinality(L)) = Cardinality(Active(q, L \ {c}))
  <1> DEFINE W == ToSet(q.queue)
             A == L \ W
  <1>1. IsFiniteSet(L)
    BY ConnectionsFinite, FS_Subset
  <1>2. W \subseteq L /\ IsFiniteSet(W) /\ Len(q.queue) = Cardinality(W) /\ L \cap W = W
    BY LengthOfList DEF QueueOver
  <1>3. IsFiniteSet(A) /\ Cardinality(A) = Cardinality(L) - Len(q.queue)
    <2> HIDE DEF W
    <2>1. Cardinality(L \ W) = Cardinality(L) - Cardinality(L \cap W) /\ IsFiniteSet(L \ W)
      BY <1>1, FS_Difference
    <2> QED BY <1>2, <2>1
  <1>4. Cardinality(A) \in Nat
    BY <1>3, FS_CardinalityType
  <1>5. Active(q, L \ {c}) = A \ {c}
    BY DEF Active
  <1>6. IsFiniteSet(A \ {c}) /\ Cardinality(A \ {c}) \in Nat
    BY <1>3, FS_RemoveElement, FS_CardinalityType
  <1>7. CASE c \in W
    <2>1. A \ {c} = A
      BY <1>7
    <2>2. ActiveWithout(q, c, Cardinality(L)) = Cardinality(L) - Len(q.queue)
      BY <1>7 DEF ActiveWithout, IsQueued
    <2> QED BY <1>3, <1>4, <1>5, <2>1, <2>2
  <1>8. CASE c \notin W
    <2>1. Cardinality(A \ {c}) = Cardinality(A) - 1
      BY <1>3, <1>8, FS_RemoveElement
    <2>2. Cardinality(A) > 0
      BY <1>4, <1>6, <2>1
    <2>3. ActiveWithout(q, c, Cardinality(L)) = Cardinality(A) - 1
      BY <1>3, <1>8, <2>2 DEF ActiveWithout, IsQueued
    <2> QED BY <1>5, <1>6, <2>1, <2>3
  <1> QED BY <1>7, <1>8

\* What a departure makes of the queue: c is out, and so is who is admitted.
LEMMA RemovedQueue ==
  ASSUME NEW q, NEW c, NEW size, q.queue \in Lists
  PROVE  LET r == RemoveQueuedPlayer(q, c, size)
         IN  /\ r.queue \in Lists
             /\ ToSet(r.queue) = (ToSet(q.queue) \ {c}) \ Admitted(q, c, size)
             /\ Admitted(q, c, size) \subseteq ToSet(q.queue) \ {c}
             /\ q.inQueue = ToSet(q.queue) => r.inQueue = ToSet(r.queue)
  <1> DEFINE r == RemoveQueuedPlayer(q, c, size)
             left == Erase(q.queue, c)
  <1>1. left \in Lists /\ ToSet(left) = ToSet(q.queue) \ {c}
    BY EraseProperties
  <1>2. r.queue = IF Admits(q, c, size) THEN Tail(left) ELSE left
    BY RemoveUnfolded
  <1>5. \A d : d \in r.inQueue <=> /\ d \in q.inQueue
                                   /\ d = c => d \notin ToSet(q.queue)
                                   /\ d \notin Admitted(q, c, size)
    BY RemoveUnfolded
  <1> HIDE DEF r
  <1>3. CASE Admits(q, c, size)
    <2>1. left # <<>> /\ Admitted(q, c, size) = {Head(left)}
      BY <1>3 DEF Admits, Admitted
    <2> HIDE DEF left
    <2>2. /\ Tail(left) \in Lists /\ Head(left) \in ToSet(left)
          /\ ToSet(Tail(left)) = ToSet(left) \ {Head(left)}
      BY <1>1, <2>1, TailProperties
    <2>3. r.queue \in Lists /\ ToSet(r.queue) = (ToSet(q.queue) \ {c}) \ Admitted(q, c, size)
      BY <1>1, <1>2, <1>3, <2>1, <2>2
    <2>4. Admitted(q, c, size) \subseteq ToSet(q.queue) \ {c}
      BY <1>1, <2>1, <2>2
    <2>5. q.inQueue = ToSet(q.queue) => r.inQueue = ToSet(r.queue)
      BY <1>5, <2>3
    <2> QED BY <2>3, <2>4, <2>5 DEF r
  <1>4. CASE ~Admits(q, c, size)
    <2>1. Admitted(q, c, size) = {}
      BY <1>4 DEF Admitted
    <2>2. r.queue \in Lists /\ ToSet(r.queue) = ToSet(q.queue) \ {c}
      BY <1>1, <1>2, <1>4
    <2>3. q.inQueue = ToSet(q.queue) => r.inQueue = ToSet(r.queue)
      BY <1>5, <2>1, <2>2
    <2> QED BY <2>1, <2>2, <2>3 DEF r
  <1> QED BY <1>3, <1>4

\* The places of those who go on waiting.
LEMMA RemovedPlaces ==
  ASSUME NEW q, NEW c, NEW size, q.queue \in Lists,
         NEW d \in ToSet(RemoveQueuedPlayer(q, c, size).queue)
  PROVE  LET r == RemoveQueuedPlayer(q, c, size)
             ahead == IF c \in ToSet(q.queue) /\ PositionIn(q.queue, d) > PositionIn(q.queue, c)
                      THEN 1 ELSE 0
             first == IF Admits(q, c, size) THEN 1 ELSE 0
         IN  PositionIn(r.queue, d) = PositionIn(q.queue, d) - ahead - first
  <1> DEFINE r == RemoveQueuedPlayer(q, c, size)
             left == Erase(q.queue, c)
             ahead == IF c \in ToSet(q.queue) /\ PositionIn(q.queue, d) > PositionIn(q.queue, c)
                      THEN 1 ELSE 0
  <1>1. d \in ToSet(q.queue) \ {c} /\ PositionIn(q.queue, d) \in Nat
    BY RemovedQueue, PositionOf
  <1>2. PositionIn(left, d) = PositionIn(q.queue, d) - ahead
    BY <1>1, EraseProperties
  <1>3. r.queue = IF Admits(q, c, size) THEN Tail(left) ELSE left
    BY RemoveUnfolded
  <1>4. left \in Lists /\ PositionIn(left, d) \in Int
    BY <1>1, <1>2, EraseProperties
  <1> HIDE DEF left
  <1>5. CASE Admits(q, c, size)
    <2>1. left # <<>>
      BY <1>5 DEF Admits, left
    <2>2. PositionIn(Tail(left), d) = PositionIn(left, d) - 1
      BY <1>3, <1>4, <1>5, <2>1, TailProperties
    <2> QED BY <1>1, <1>2, <1>3, <1>5, <2>2
  <1>6. CASE ~Admits(q, c, size)
    BY <1>1, <1>2, <1>3, <1>6
  <1> QED BY <1>5, <1>6

\* The queue without c is a login queue of the other sessions, and they are told where they are.
LEMMA RemovedTold ==
  ASSUME NEW L \in SUBSET Connections, NEW c, NEW size, NEW q, QueueOver(q, L)
  PROVE  LET r == RemoveQueuedPlayer(q, c, size)
         IN  /\ QueueOver(r, L \ {c})
             /\ ToldOver(q, L \ {c}) => ToldOver(r, L \ {c})
  <1> DEFINE r == RemoveQueuedPlayer(q, c, size)
             first == FirstChanged(q, c, Admits(q, c, size))
  <1>1. /\ q.queue \in Lists /\ r.queue \in Lists
        /\ ToSet(r.queue) = (ToSet(q.queue) \ {c}) \ Admitted(q, c, size)
        /\ ToSet(r.queue) \subseteq L \ {c} /\ ToSet(q.queue) \subseteq L
    BY RemovedQueue DEF QueueOver
  <1>2. \A d \in Connections : r.told[d] =
          IF d = c THEN NeverTold
          ELSE IF d \in ToSet(r.queue) /\ PositionIn(r.queue, d) >= first
               THEN PositionIn(r.queue, d)
          ELSE IF d \in Admitted(q, c, size) THEN 0
          ELSE q.told[d]
    BY RemoveTold
  <1>3. ASSUME NEW d \in ToSet(r.queue)
        PROVE  PositionIn(r.queue, d) \in 1..Cardinality(Connections)
    <2>1. PositionIn(r.queue, d) \in 1..Len(r.queue) /\ Len(r.queue) = Cardinality(ToSet(r.queue))
      BY <1>1, PositionOf, LengthOfList
    <2>2. Cardinality(ToSet(r.queue)) <= Cardinality(Connections)
      BY <1>1, ConnectionsFinite, FS_Subset
    <2>3. Cardinality(ToSet(r.queue)) \in Nat /\ Cardinality(Connections) \in Nat
      BY <1>1, ConnectionsFinite, LengthOfList, FS_CardinalityType
    <2> QED BY <2>1, <2>2, <2>3
  <1>4. Cardinality(Connections) \in Nat /\ NeverTold = Cardinality(Connections) + 1
    BY ConnectionsFinite, FS_CardinalityType DEF NeverTold
  <1>5. QueueOver(r, L \ {c})
    <2>1. r.told = [d \in Connections |-> r.told[d]]
      BY DEF RemoveQueuedPlayer
    <2>2. ASSUME NEW d \in Connections PROVE r.told[d] \in 0..NeverTold
      <3>1. q.told[d] \in 0..NeverTold
        BY DEF QueueOver
      <3> HIDE DEF r
      <3> QED BY <1>2, <1>3, <1>4, <3>1
    <2>3. r.inQueue \subseteq Connections
      <3>1. r.inQueue \subseteq q.inQueue
        BY RemoveUnfolded
      <3> QED BY <3>1 DEF QueueOver
    <2> HIDE DEF r
    <2>4. r.told \in [Connections -> 0..NeverTold]
      BY <2>1, <2>2
    <2> QED BY <1>1, <2>3, <2>4 DEF QueueOver
  <1>6. ASSUME ToldOver(q, L \ {c}), NEW d \in L \ {c}
        PROVE  r.told[d] = IF d \in ToSet(r.queue) THEN PositionIn(r.queue, d) ELSE 0
    <2> DEFINE k == PositionIn(q.queue, d)
               m == PositionIn(q.queue, c)
    <2>1. q.told[d] = IF d \in ToSet(q.queue) THEN k ELSE 0
      BY <1>6 DEF ToldOver
    <2>2. CASE d \in ToSet(r.queue)
      <3>1. d \in ToSet(q.queue) /\ d \notin Admitted(q, c, size) /\ d # c
        BY <1>1, <2>2
      <3>2. k \in 1..Len(q.queue) /\ (c \in ToSet(q.queue) => m \in 1..Len(q.queue))
        BY <1>1, <3>1, PositionOf
      <3>3. PositionIn(r.queue, d) =
              k - (IF c \in ToSet(q.queue) /\ k > m THEN 1 ELSE 0)
                - (IF Admits(q, c, size) THEN 1 ELSE 0)
        BY <1>1, <2>2, RemovedPlaces
      <3>4. first = IF Admits(q, c, size) THEN 1
                    ELSE IF c \in ToSet(q.queue) THEN m ELSE Len(q.queue) + 1
        BY DEF FirstChanged, IsQueued
      <3>5. PositionIn(r.queue, d) \in Nat \ {0} /\ Len(q.queue) \in Nat
        BY <1>1, <1>3, <1>4, <2>2, LengthOfList
      <3>6. PositionIn(r.queue, d) >= first \/ PositionIn(r.queue, d) = k
        <4> HIDE DEF r, k, m, first
        <4> QED BY <3>2, <3>3, <3>4, <3>5
      <3> HIDE DEF r, k, first
      <3> QED BY <1>2, <2>1, <2>2, <3>1, <3>6
    <2>3. CASE d \notin ToSet(r.queue)
      <3>1. d \in Admitted(q, c, size) \/ d \notin ToSet(q.queue)
        BY <1>1, <2>3
      <3> HIDE DEF r
      <3> QED BY <1>2, <2>1, <2>3, <3>1
    <2> QED BY <2>2, <2>3
  <1> QED BY <1>5, <1>6 DEF ToldOver

\* Nobody is admitted above the limit, and somebody is when there is room.
LEMMA RemovedRoom ==
  ASSUME NEW L \in SUBSET Connections, NEW c \in L, NEW q, QueueOver(q, L), playerLimit \in Nat
  PROVE  LET r == RemoveQueuedPlayer(q, c, Cardinality(L))
             before == Active(q, L \ {c})
             after == Active(r, L \ {c})
         IN  /\ IsFiniteSet(after) /\ before \subseteq after
             /\ Cardinality(before) \in Nat /\ Cardinality(after) \in Nat
             /\ Cardinality(before) <= Cardinality(after)
             /\ after = before \/ playerLimit = 0 \/ Cardinality(after) <= playerLimit
             /\ (q.queue # <<>> => playerLimit > 0 /\ Cardinality(before) + 1 >= playerLimit)
                  => (r.queue # <<>> => playerLimit > 0 /\ Cardinality(after) >= playerLimit)
  <1> DEFINE r == RemoveQueuedPlayer(q, c, Cardinality(L))
             next == Admitted(q, c, Cardinality(L))
             before == Active(q, L \ {c})
             after == Active(r, L \ {c})
             left == Erase(q.queue, c)
             Goal == /\ IsFiniteSet(after) /\ before \subseteq after
                     /\ Cardinality(before) \in Nat /\ Cardinality(after) \in Nat
                     /\ Cardinality(before) <= Cardinality(after)
                     /\ after = before \/ playerLimit = 0 \/ Cardinality(after) <= playerLimit
                     /\ (q.queue # <<>> => playerLimit > 0 /\ Cardinality(before) + 1 >= playerLimit)
                          => (r.queue # <<>> => playerLimit > 0 /\ Cardinality(after) >= playerLimit)
  <1>1. /\ IsFiniteSet(before) /\ Cardinality(before) \in Nat
        /\ ActiveWithout(q, c, Cardinality(L)) = Cardinality(before)
    BY ActiveCount
  <1>2. /\ q.queue \in Lists /\ ToSet(q.queue) \subseteq L
        /\ ToSet(r.queue) = (ToSet(q.queue) \ {c}) \ next
        /\ next \subseteq ToSet(q.queue) \ {c}
    BY RemovedQueue DEF QueueOver
  <1>3. after = before \cup next /\ before \cap next = {}
    BY <1>2 DEF Active
  <1>4. left \in Lists /\ ToSet(left) = ToSet(q.queue) \ {c}
    BY <1>2, EraseProperties
  <1>5. q.queue = <<>> => left = <<>>
    BY <1>2, <1>4, LengthOfList
  <1>6. r.queue = IF Admits(q, c, Cardinality(L)) THEN Tail(left) ELSE left
    BY RemoveUnfolded
  <1>7. ASSUME Admits(q, c, Cardinality(L)) PROVE Goal
    <2>1. next = {Head(left)}
      BY <1>7 DEF Admitted
    <2>2. left # <<>> /\ (playerLimit = 0 \/ Cardinality(before) < playerLimit)
      BY <1>1, <1>7 DEF Admits
    <2> HIDE DEF left, next, before, after, r
    <2>3. IsFiniteSet(after) /\ Cardinality(after) = Cardinality(before) + 1
      <3>1. Head(left) \notin before
        BY <1>3, <2>1
      <3> QED BY <1>1, <1>3, <2>1, <3>1, FS_AddElement
    <2> QED BY <1>1, <1>3, <1>5, <2>2, <2>3
  <1>8. ASSUME ~Admits(q, c, Cardinality(L)) PROVE Goal
    <2>1. next = {}
      BY <1>8 DEF Admitted
    <2>2. left = <<>> \/ (playerLimit # 0 /\ ~(Cardinality(before) < playerLimit))
      BY <1>1, <1>8 DEF Admits
    <2> HIDE DEF left, next, before, after, r
    <2> QED BY <1>1, <1>3, <1>6, <1>8, <2>1, <2>2
  <1> QED BY <1>7, <1>8

\* Those who go on waiting stay in order, and who is admitted was before all of them.
LEMMA RemovedOrder ==
  ASSUME NEW q, NEW c, NEW size, q.queue \in Lists,
         NEW x \in ToSet(q.queue), NEW y \in ToSet(q.queue),
         PositionIn(q.queue, x) < PositionIn(q.queue, y)
  PROVE  LET r == RemoveQueuedPlayer(q, c, size)
         IN  /\ y \notin ToSet(r.queue) /\ y # c => x \notin ToSet(r.queue)
             /\ {x, y} \subseteq ToSet(r.queue) => PositionIn(r.queue, x) < PositionIn(r.queue, y)
  <1> DEFINE r == RemoveQueuedPlayer(q, c, size)
             left == Erase(q.queue, c)
             P(d) == PositionIn(q.queue, d)
             R(d) == PositionIn(r.queue, d)
             After(d) == IF c \in ToSet(q.queue) /\ P(d) > P(c) THEN 1 ELSE 0
  <1>1. \A d \in ToSet(q.queue) : P(d) \in 1..Len(q.queue) /\ q.queue[P(d)] = d
    BY PositionOf
  <1>2. left \in Lists /\ ToSet(left) = ToSet(q.queue) \ {c}
    BY EraseProperties
  <1>3. \A d \in ToSet(q.queue) \ {c} : PositionIn(left, d) = P(d) - After(d)
    BY <1>1, EraseProperties
  <1>4. ASSUME x # c, y # c
        PROVE  P(x) - After(x) < P(y) - After(y)
    <2>1. c \in ToSet(q.queue) => P(x) # P(c) /\ P(y) # P(c)
      BY <1>1, <1>4
    <2> QED BY <1>1, <2>1
  <1>5. ToSet(r.queue) = (ToSet(q.queue) \ {c}) \ Admitted(q, c, size)
    BY RemovedQueue
  <1>6. ASSUME y \notin ToSet(r.queue), y # c, x \in ToSet(r.queue)
        PROVE  FALSE
    <2>1. Admits(q, c, size) /\ y = Head(left) /\ x # y /\ x # c
      BY <1>5, <1>6 DEF Admitted
    <2>2. left # <<>>
      BY <2>1 DEF Admits
    <2>3. PositionIn(left, y) = 1
      BY <1>2, <2>1, <2>2, TailProperties
    <2>4. PositionIn(left, x) \in Nat \ {0}
      BY <1>2, <1>6, <2>1, PositionOf, RemovedQueue
    <2>5. PositionIn(left, x) < PositionIn(left, y)
      BY <1>3, <1>4, <1>6, <2>1
    <2> QED BY <2>3, <2>4, <2>5
  <1>7. ASSUME x \in ToSet(r.queue), y \in ToSet(r.queue)
        PROVE  R(x) < R(y)
    <2> DEFINE first == IF Admits(q, c, size) THEN 1 ELSE 0
    <2>1. R(x) = P(x) - After(x) - first /\ R(y) = P(y) - After(y) - first
      BY <1>7, RemovedPlaces
    <2>2. x # c /\ y # c
      BY <1>5, <1>7
    <2> QED BY <1>1, <1>4, <2>1, <2>2
  <1> QED BY <1>6, <1>7

-----------------------------------------------------------------------------
(* What the login queue promises, as a property of a queue q over the      *)
(* sessions L, so that it can be followed through the two departures and   *)
(* the arrival of which one step of the world thread consists.             *)

OrdinaryIn(q, L) ==
  {d \in Active(q, L) : /\ AccountOf[d] \notin Privileged
                        /\ ~HasRecentlyDisconnected(AccountOf[d])}

\* Everybody knows their place, nobody waits beside a free slot, and the limit holds.
Settled(q, L) ==
  /\ QueueOver(q, L)
  /\ ~stopping => ToldOver(q, L) /\ q.inQueue = ToSet(q.queue)
  /\ ~limitSet /\ q.queue # <<>> =>
       playerLimit > 0 /\ Cardinality(Active(q, L)) >= playerLimit
  /\ playerLimit > 0 /\ ~limitSet /\ ~stopping => Cardinality(OrdinaryIn(q, L)) <= playerLimit

\* The same, but for c, who is about to leave and counts no more.
Leaving(q, L, c) ==
  /\ QueueOver(q, L)
  /\ ~stopping => ToldOver(q, L \ {c}) /\ q.inQueue = ToSet(q.queue)
  /\ ~limitSet /\ q.queue # <<>> =>
       playerLimit > 0 /\ Cardinality(Active(q, L \ {c})) + 1 >= playerLimit
  /\ playerLimit > 0 /\ ~limitSet /\ ~stopping =>
       Cardinality(OrdinaryIn(q, L \ {c})) <= playerLimit

LEMMA FiniteSessions ==
  ASSUME NEW L \in SUBSET Connections
  PROVE  /\ IsFiniteSet(L) /\ Cardinality(L) \in Nat
         /\ \A K \in SUBSET L : /\ IsFiniteSet(K) /\ Cardinality(K) \in Nat
                                /\ Cardinality(K) <= Cardinality(L)
  <1>1. IsFiniteSet(L) /\ Cardinality(L) \in Nat
    BY ConnectionsFinite, FS_Subset, FS_CardinalityType
  <1>2. ASSUME NEW K \in SUBSET L
        PROVE  IsFiniteSet(K) /\ Cardinality(K) \in Nat /\ Cardinality(K) <= Cardinality(L)
    BY <1>1, FS_Subset, FS_CardinalityType
  <1> QED BY <1>1, <1>2

LEMMA BeforeLeaving ==
  ASSUME NEW L \in SUBSET Connections, NEW c \in L, NEW q, Settled(q, L), playerLimit \in Nat
  PROVE  /\ Leaving(q, L, c)
         /\ ~limitSet /\ c \in ToSet(q.queue) => Cardinality(Active(q, L \ {c})) >= playerLimit
  <1> DEFINE A == Active(q, L)
             B == Active(q, L \ {c})
  <1>1. B = A \ {c} /\ A \subseteq L
    BY DEF Active
  <1>2. IsFiniteSet(A) /\ Cardinality(A) \in Nat
    BY <1>1, FiniteSessions
  <1>3. Cardinality(B) = IF c \in A THEN Cardinality(A) - 1 ELSE Cardinality(A)
    BY <1>1, <1>2, FS_RemoveElement
  <1>4. c \in ToSet(q.queue) => c \notin A /\ q.queue # <<>>
    BY LengthOfList DEF Active, Settled, QueueOver
  <1>5. Cardinality(OrdinaryIn(q, L \ {c})) <= Cardinality(OrdinaryIn(q, L))
        /\ Cardinality(OrdinaryIn(q, L \ {c})) \in Nat /\ Cardinality(OrdinaryIn(q, L)) \in Nat
    <2>1. OrdinaryIn(q, L) \subseteq L /\ OrdinaryIn(q, L \ {c}) \subseteq OrdinaryIn(q, L)
      BY DEF OrdinaryIn, Active
    <2>2. OrdinaryIn(q, L) \in SUBSET Connections
      BY <2>1
    <2> QED BY <2>1, <2>2, FiniteSessions
  <1>6. QueueOver(q, L) /\ (~stopping => ToldOver(q, L \ {c}) /\ q.inQueue = ToSet(q.queue))
    BY DEF Settled, ToldOver
  <1>7. ~limitSet /\ q.queue # <<>> => playerLimit > 0 /\ Cardinality(A) >= playerLimit
    BY DEF Settled
  <1>8. playerLimit > 0 /\ ~limitSet /\ ~stopping =>
          Cardinality(OrdinaryIn(q, L \ {c})) <= playerLimit
    BY <1>5 DEF Settled
  <1> HIDE DEF A, B
  <1>9. /\ ~limitSet /\ q.queue # <<>> => playerLimit > 0 /\ Cardinality(B) + 1 >= playerLimit
        /\ ~limitSet /\ c \in ToSet(q.queue) => Cardinality(B) >= playerLimit
    BY <1>2, <1>3, <1>4, <1>7
  <1> QED BY <1>6, <1>8, <1>9 DEF Leaving, B

\* One departure.
LEMMA AfterLeaving ==
  ASSUME NEW L \in SUBSET Connections, NEW c \in L, NEW q, Leaving(q, L, c), playerLimit \in Nat
  PROVE  LET r == RemoveQueuedPlayer(q, c, Cardinality(L))
         IN  /\ Settled(r, L \ {c})
             /\ Cardinality(Active(q, L \ {c})) >= playerLimit =>
                  Cardinality(Active(r, L \ {c})) >= playerLimit
  <1> DEFINE r == RemoveQueuedPlayer(q, c, Cardinality(L))
             M == L \ {c}
             before == Active(q, M)
             after == Active(r, M)
  <1>1. QueueOver(q, L)
    BY DEF Leaving
  <1>2. /\ IsFiniteSet(after) /\ before \subseteq after
        /\ Cardinality(before) \in Nat /\ Cardinality(after) \in Nat
        /\ Cardinality(before) <= Cardinality(after)
        /\ after = before \/ playerLimit = 0 \/ Cardinality(after) <= playerLimit
        /\ (q.queue # <<>> => playerLimit > 0 /\ Cardinality(before) + 1 >= playerLimit)
             => (r.queue # <<>> => playerLimit > 0 /\ Cardinality(after) >= playerLimit)
    BY <1>1, RemovedRoom
  <1>3. QueueOver(r, M) /\ (ToldOver(q, M) => ToldOver(r, M))
    BY <1>1, RemovedTold
  <1>4. q.inQueue = ToSet(q.queue) => r.inQueue = ToSet(r.queue)
    BY <1>1, RemovedQueue DEF QueueOver
  <1> HIDE DEF r
  <1>5. ~stopping => ToldOver(r, M) /\ r.inQueue = ToSet(r.queue)
    BY <1>3, <1>4 DEF Leaving
  <1>6. ~limitSet /\ r.queue # <<>> => playerLimit > 0 /\ Cardinality(after) >= playerLimit
    BY <1>2 DEF Leaving
  <1>7. ASSUME playerLimit > 0, ~limitSet, ~stopping
        PROVE  Cardinality(OrdinaryIn(r, M)) <= playerLimit
    <2>1. CASE after = before
      <3>1. OrdinaryIn(r, M) = OrdinaryIn(q, M)
        BY <2>1 DEF OrdinaryIn
      <3> QED BY <1>7, <3>1 DEF Leaving
    <2>2. CASE Cardinality(after) <= playerLimit
      <3>1. OrdinaryIn(r, M) \subseteq after /\ after \subseteq Connections
        BY DEF OrdinaryIn, Active
      <3>2. Cardinality(OrdinaryIn(r, M)) <= Cardinality(after) /\ Cardinality(OrdinaryIn(r, M)) \in Nat
        BY <3>1, FiniteSessions
      <3> QED BY <1>2, <2>2, <3>2
    <2> QED BY <1>2, <1>7, <2>1, <2>2
  <1>8. Settled(r, M)
    BY <1>3, <1>5, <1>6, <1>7 DEF Settled
  <1> QED BY <1>2, <1>8 DEF r

\* The one who has left may be removed once more.
LEMMA LeavingAgain ==
  ASSUME NEW L \in SUBSET Connections, NEW c \in L, NEW q, Settled(q, L \ {c}), playerLimit \in Nat
  PROVE  Leaving(q, L, c)
  <1>1. QueueOver(q, L)
    BY DEF Settled, QueueOver
  <1>2. Cardinality(Active(q, L \ {c})) \in Nat
    BY FiniteSessions DEF Active
  <1> QED BY <1>1, <1>2 DEF Settled, Leaving

AdmitAtOnce(q, c) == [q EXCEPT !.told[c] = 0]

\* Who comes waits at the end, if anybody may, or is active at once.
LEMMA Arrival ==
  ASSUME NEW M \in SUBSET Connections, NEW c \in Connections \ M, NEW q, Settled(q, M),
         q = [queue |-> q.queue, inQueue |-> q.inQueue, told |-> q.told],
         NEW size \in Nat, playerLimit \in Nat,
         \/ size = Cardinality(M)
         \/ /\ size = Cardinality(M) + 1
            /\ ~limitSet => Cardinality(Active(q, M)) >= playerLimit
  PROVE  /\ MayWait(AccountOf[c], size) => Settled(AddQueuedPlayer(q, c), M \cup {c})
         /\ ~MayWait(AccountOf[c], size) => Settled(AdmitAtOnce(q, c), M \cup {c})
  <1> DEFINE N == M \cup {c}
             A == Active(q, M)
  <1>1. /\ q.queue \in Lists /\ ToSet(q.queue) \subseteq M /\ q.inQueue \subseteq Connections
        /\ q.told \in [Connections -> 0..NeverTold] /\ c \notin ToSet(q.queue)
    BY DEF Settled, QueueOver
  <1>2. /\ IsFiniteSet(M) /\ Cardinality(M) \in Nat /\ IsFiniteSet(A) /\ Cardinality(A) \in Nat
        /\ Cardinality(A) <= Cardinality(M)
    BY FiniteSessions DEF Active
  <1>3. NeverTold \in Nat /\ Len(q.queue) + 1 \in 0..NeverTold
    <2>1. /\ Cardinality(Connections) \in Nat
          /\ Cardinality(ToSet(q.queue)) <= Cardinality(Connections)
      BY <1>1, ConnectionsFinite, FS_Subset, FS_CardinalityType
    <2>2. Len(q.queue) \in Nat /\ Len(q.queue) = Cardinality(ToSet(q.queue))
      BY <1>1, LengthOfList
    <2> QED BY <2>1, <2>2 DEF NeverTold
  <1>4. ASSUME MayWait(AccountOf[c], size)
        PROVE  Settled(AddQueuedPlayer(q, c), N)
    <2> DEFINE r == AddQueuedPlayer(q, c)
    <2>1. /\ r.queue = Append(q.queue, c) /\ r.inQueue = q.inQueue \cup {c}
          /\ r.told = [q.told EXCEPT ![c] = Len(q.queue) + 1]
      BY DEF AddQueuedPlayer
    <2> HIDE DEF r
    <2>2. /\ r.queue \in Lists /\ ToSet(r.queue) = ToSet(q.queue) \cup {c}
          /\ PositionIn(r.queue, c) = Len(q.queue) + 1
          /\ \A d \in ToSet(q.queue) : PositionIn(r.queue, d) = PositionIn(q.queue, d)
      BY <1>1, <2>1, AppendToList
    <2>3. QueueOver(r, N)
      BY <1>1, <1>3, <2>1, <2>2 DEF QueueOver
    <2>4. ToldOver(q, M) => ToldOver(r, N)
      <3>1. /\ r.told[c] = Len(q.queue) + 1
            /\ \A d \in M : r.told[d] = q.told[d]
        BY <1>1, <2>1
      <3> QED BY <1>1, <2>2, <3>1 DEF ToldOver
    <2>5. ~stopping => ToldOver(r, N) /\ r.inQueue = ToSet(r.queue)
      BY <2>1, <2>2, <2>4 DEF Settled
    <2>6. Active(r, N) = A
      BY <1>1, <2>2 DEF Active
    <2>7. ~limitSet => playerLimit > 0 /\ Cardinality(A) >= playerLimit
      <3>1. playerLimit > 0 /\ size >= playerLimit
        BY <1>4 DEF MayWait
      <3>2. q.queue = <<>> => A = M
        BY <1>1, LengthOfList DEF Active
      <3>3. q.queue # <<>> /\ ~limitSet => Cardinality(A) >= playerLimit
        BY DEF Settled
      <3> HIDE DEF A
      <3>4. size = Cardinality(M) \/ (~limitSet => Cardinality(A) >= playerLimit)
        BY DEF A
      <3> QED BY <1>2, <3>1, <3>2, <3>3, <3>4
    <2>8. OrdinaryIn(r, N) = OrdinaryIn(q, M)
      BY <2>6 DEF OrdinaryIn
    <2>9. playerLimit > 0 /\ ~limitSet /\ ~stopping => Cardinality(OrdinaryIn(r, N)) <= playerLimit
      BY <2>8 DEF Settled
    <2> HIDE DEF N, A
    <2>10. Settled(r, N)
      BY <2>3, <2>5, <2>6, <2>7, <2>9 DEF Settled
    <2> QED BY <2>10 DEF r
  <1>5. ASSUME ~MayWait(AccountOf[c], size)
        PROVE  Settled(AdmitAtOnce(q, c), N)
    <2> DEFINE r == AdmitAtOnce(q, c)
    <2>1. /\ r.queue = q.queue /\ r.inQueue = q.inQueue
          /\ r.told = [q.told EXCEPT ![c] = 0]
      <3> DEFINE qq == [queue |-> q.queue, inQueue |-> q.inQueue, told |-> q.told]
      <3>1. [qq EXCEPT !.told[c] = 0] =
              [queue |-> q.queue, inQueue |-> q.inQueue, told |-> [q.told EXCEPT ![c] = 0]]
        OBVIOUS
      <3>2. r = [queue |-> q.queue, inQueue |-> q.inQueue, told |-> [q.told EXCEPT ![c] = 0]]
        BY <3>1 DEF AdmitAtOnce
      <3> QED BY <3>2
    <2> HIDE DEF r
    <2>2. QueueOver(r, N)
      BY <1>1, <1>3, <2>1 DEF QueueOver
    <2>3. ToldOver(q, M) => ToldOver(r, N)
      <3>1. r.told[c] = 0 /\ \A d \in M : r.told[d] = q.told[d]
        BY <1>1, <2>1
      <3> QED BY <1>1, <2>1, <3>1 DEF ToldOver
    <2>4. ~stopping => ToldOver(r, N) /\ r.inQueue = ToSet(r.queue)
      BY <2>1, <2>3 DEF Settled
    <2>5. Active(r, N) = A \cup {c}
      BY <1>1, <2>1 DEF Active
    <2>6. c \notin A
      BY DEF Active
    <2>7. Cardinality(A \cup {c}) = Cardinality(A) + 1
      BY <1>2, <2>6, FS_AddElement
    <2>8. ~limitSet /\ r.queue # <<>> =>
            playerLimit > 0 /\ Cardinality(Active(r, N)) >= playerLimit
      <3>1. ~limitSet /\ r.queue # <<>> => playerLimit > 0 /\ Cardinality(A) >= playerLimit
        BY <2>1 DEF Settled
      <3>2. Cardinality(Active(r, N)) = Cardinality(A) + 1
        BY <2>5, <2>7
      <3> HIDE DEF A
      <3> QED BY <1>2, <3>1, <3>2
    <2>9. ASSUME playerLimit > 0, ~limitSet, ~stopping
          PROVE  Cardinality(OrdinaryIn(r, N)) <= playerLimit
      <3>1. CASE size < playerLimit
        <4>1. /\ OrdinaryIn(r, N) \subseteq Active(r, N) /\ Active(r, N) \in SUBSET Connections
          BY DEF OrdinaryIn, Active
        <4>2. /\ Cardinality(OrdinaryIn(r, N)) <= Cardinality(Active(r, N))
              /\ Cardinality(OrdinaryIn(r, N)) \in Nat
          BY <4>1, FiniteSessions
        <4> HIDE DEF A
        <4> QED BY <1>2, <2>5, <2>7, <3>1, <4>2
      <3>2. CASE AccountOf[c] \in Privileged \/ HasRecentlyDisconnected(AccountOf[c])
        <4>1. OrdinaryIn(r, N) = OrdinaryIn(q, M)
          BY <2>5, <3>2 DEF OrdinaryIn
        <4> QED BY <2>9, <4>1 DEF Settled
      <3> QED BY <1>5, <2>9, <3>1, <3>2 DEF MayWait
    <2> HIDE DEF N
    <2>10. Settled(r, N)
      BY <2>2, <2>4, <2>8, <2>9 DEF Settled
    <2> QED BY <2>10 DEF r
  <1> QED BY <1>4, <1>5

-----------------------------------------------------------------------------
(* m_sessions: one session for each account.                               *)

ListedIn(list) == {list[a] : a \in Accounts} \ {NoSession}

OneEach(list) ==
  /\ list \in [Accounts -> Connections \cup {NoSession}]
  /\ \A a \in Accounts : list[a] # NoSession => AccountOf[list[a]] = a

LEMMA ListedMembers ==
  ASSUME NEW list, OneEach(list)
  PROVE  /\ ListedIn(list) \in SUBSET Connections
         /\ \A c \in ListedIn(list) : AccountOf[c] \in Accounts /\ list[AccountOf[c]] = c
         /\ \A a \in Accounts : list[a] # NoSession => list[a] \in ListedIn(list)
         /\ NoSession \notin ListedIn(list)
  BY AccountOfType DEF ListedIn, OneEach

LEMMA SizeIsListed ==
  ASSUME NEW list, OneEach(list)
  PROVE  Size(list) = Cardinality(ListedIn(list))
  <1> DEFINE L == ListedIn(list)
             D == {a \in Accounts : list[a] # NoSession}
             g == [c \in L |-> AccountOf[c]]
  <1>1. /\ L \in SUBSET Connections
        /\ \A c \in L : AccountOf[c] \in Accounts /\ list[AccountOf[c]] = c
        /\ \A a \in D : list[a] \in L /\ AccountOf[list[a]] = a
        /\ NoSession \notin L
    BY ListedMembers DEF OneEach
  <1> HIDE DEF L
  <1>2. g \in [L -> D]
    BY <1>1
  <1>3. g \in Surjection(L, D)
    BY <1>1, <1>2, Fun_IsSurj
  <1>4. g \in Injection(L, D)
    <2>1. \A b, c \in L : g[b] = g[c] => b = c
      BY <1>1
    <2> QED BY <1>2, <2>1, Fun_IsInj
  <1>5. IsFiniteSet(L)
    BY <1>1, FiniteSessions
  <1>6. Cardinality(D) = Cardinality(L)
    BY <1>3, <1>4, <1>5, FS_Surjection
  <1> QED BY <1>6 DEF Size, L

LEMMA ListedChange ==
  ASSUME NEW list, OneEach(list), NEW a \in Accounts
  PROVE  /\ OneEach([list EXCEPT ![a] = NoSession])
         /\ ListedIn([list EXCEPT ![a] = NoSession]) = ListedIn(list) \ {list[a]}
         /\ \A c \in Connections : AccountOf[c] = a =>
              /\ OneEach([list EXCEPT ![a] = c])
              /\ ListedIn([list EXCEPT ![a] = c]) = (ListedIn(list) \ {list[a]}) \cup {c}
  <1>1. \A c \in Connections \cup {NoSession} : \A b \in Accounts :
          [list EXCEPT ![a] = c][b] = IF b = a THEN c ELSE list[b]
    BY DEF OneEach
  <1>2. \A b, d \in Accounts : list[b] = list[d] /\ list[b] # NoSession => b = d
    BY DEF OneEach
  <1>3. OneEach([list EXCEPT ![a] = NoSession])
    BY <1>1 DEF OneEach
  <1>4. ListedIn([list EXCEPT ![a] = NoSession]) = ListedIn(list) \ {list[a]}
    BY <1>1, <1>2 DEF ListedIn
  <1>5. ASSUME NEW c \in Connections, AccountOf[c] = a
        PROVE  /\ OneEach([list EXCEPT ![a] = c])
               /\ ListedIn([list EXCEPT ![a] = c]) = (ListedIn(list) \ {list[a]}) \cup {c}
    <2>1. OneEach([list EXCEPT ![a] = c])
      BY <1>1, <1>5 DEF OneEach
    <2>2. ASSUME NEW d
          PROVE  d \in ListedIn([list EXCEPT ![a] = c]) <=>
                   d \in (ListedIn(list) \ {list[a]}) \cup {c}
      BY <1>1, <1>2, NoSessionIsNew DEF ListedIn
    <2> QED BY <2>1, <2>2
  <1> QED BY <1>3, <1>4, <1>5

-----------------------------------------------------------------------------
(* The inductive invariant.                                                *)

RestType ==
  /\ socket \in [Connections -> {"open", "shut", "closed"}]
  /\ worldSession \subseteq Connections
  /\ reading \subseteq Connections
  /\ session \in [Connections -> {"none", "added", "listed"}]
  /\ forceExit \subseteq Connections
  /\ player \in [Connections -> {"none", "loading", "playing"}]
  /\ disconnects \subseteq Accounts
  /\ playerLimit \in PlayerLimits
  /\ limitSet \in BOOLEAN
  /\ world \in {"rest", "adding", "updating", "stopped"}
  /\ stopping \in BOOLEAN
  /\ todo \subseteq Accounts
  /\ aboard \subseteq Connections

\* A session is in one of the two lists, or nowhere.
SessionsInv ==
  /\ OneEach(sessions)
  /\ \A c \in Connections : c \in Listed <=> session[c] = "listed"
  /\ addSessQueue \in Lists
  /\ \A c \in Connections : c \in ToSet(addSessQueue) <=> session[c] = "added"

\* A socket that is closed has let go of its session, and not while its reader
\* has the lock; without IOCP the reader of a socket is who closes it.
SocketInv ==
  /\ \A c \in worldSession : /\ socket[c] # "closed"
                             /\ socket[c] # "shut" => session[c] # "none"
  /\ reading \subseteq worldSession
  /\ ~Iocp => \A c \in reading : socket[c] # "shut"

\* UpdateSessions has yet to reach accounts that have a session.
TodoInv ==
  /\ world # "updating" => todo = {}
  /\ \A a \in todo : sessions[a] # NoSession

\* What KickAll found and is not deleted is to exit, without a socket, and the
\* update that is running has yet to reach it.
ShutdownInv ==
  /\ ~stopping => aboard = {}
  /\ \A c \in aboard : c \in Listed /\ c \in forceExit /\ ~IsOpen(c)
  /\ world = "updating" => \A c \in aboard : AccountOf[c] \in todo
  /\ world = "stopped" => aboard = {}

QueueInv == Settled(LoginQueue, Listed)

IInv == RestType /\ SessionsInv /\ SocketInv /\ TodoInv /\ ShutdownInv /\ QueueInv

LEMMA NoneQueued == <<>> \in Lists /\ ToSet(<<>>) = {}
  <1>1. <<>> \in Seq(Connections) /\ DOMAIN <<>> = {}
    BY EmptySeq
  <1>2. IsInjective(<<>>)
    BY DEF IsInjective
  <1> QED BY <1>1, <1>2 DEF Lists, ToSet

LEMMA InitInv == Init => IInv
  <1> SUFFICES ASSUME Init PROVE IInv
    OBVIOUS
  <1> USE DEF Init
  <1>1. Listed = {}
    BY DEF Listed
  <1>2. RestType
    BY DEF RestType
  <1>3. SessionsInv
    BY <1>1, NoneQueued DEF SessionsInv, OneEach
  <1>4. SocketInv /\ TodoInv /\ ShutdownInv
    BY DEF SocketInv, TodoInv, ShutdownInv
  <1>5. QueueInv
    <2>1. NeverTold \in Nat
      BY ConnectionsFinite, FS_CardinalityType DEF NeverTold
    <2>2. LoginQueue.queue = <<>> /\ LoginQueue.inQueue = {}
          /\ LoginQueue.told = [c \in Connections |-> NeverTold]
      BY DEF LoginQueue
    <2>3. QueueOver(LoginQueue, {}) /\ ToldOver(LoginQueue, {})
      BY <2>1, <2>2, NoneQueued DEF QueueOver, ToldOver
    <2>4. OrdinaryIn(LoginQueue, {}) = {}
      BY DEF OrdinaryIn, Active
    <2>5. Cardinality({}) = 0
      BY FS_EmptySet
    <2>6. playerLimit \in Nat
      BY LimitsType
    <2> HIDE DEF Init
    <2>7. playerLimit > 0 => Cardinality(OrdinaryIn(LoginQueue, {})) <= playerLimit
      <3>1. Cardinality(OrdinaryIn(LoginQueue, {})) = 0
        BY <2>4, <2>5
      <3> QED BY <2>6, <3>1
    <2>8. Settled(LoginQueue, {})
      BY <2>2, <2>3, <2>7, NoneQueued DEF Settled
    <2> QED BY <1>1, <2>8 DEF QueueInv
  <1> QED BY <1>2, <1>3, <1>4, <1>5 DEF IInv

-----------------------------------------------------------------------------
(* The two steps that change who is listed and who waits.                  *)

\* A queue that is settled is settled in the next state.
LEMMA SettledLater ==
  ASSUME NEW r, NEW M \in SUBSET Connections, Settled(r, M), SetLoginQueue(r), Listed' = M,
         UNCHANGED <<playerLimit, limitSet, stopping>>, disconnects \subseteq disconnects',
         playerLimit \in Nat
  PROVE  QueueInv'
  <1>1. /\ LoginQueue'.queue = r.queue /\ LoginQueue'.inQueue = r.inQueue
        /\ LoginQueue'.told = r.told
    BY DEF LoginQueue, SetLoginQueue
  <1>2. QueueOver(LoginQueue, Listed)'
    BY <1>1 DEF Settled, QueueOver
  <1>3. (~stopping => ToldOver(LoginQueue, Listed) /\ LoginQueue.inQueue = ToSet(LoginQueue.queue))'
    BY <1>1 DEF Settled, ToldOver
  <1>4. Active(LoginQueue, Listed)' = Active(r, M)
    BY <1>1 DEF Active
  <1>5. (~limitSet /\ LoginQueue.queue # <<>> =>
           playerLimit > 0 /\ Cardinality(Active(LoginQueue, Listed)) >= playerLimit)'
    BY <1>1, <1>4 DEF Settled
  <1>6. OrdinaryIn(LoginQueue, Listed)' \subseteq OrdinaryIn(r, M)
    BY <1>4 DEF OrdinaryIn, HasRecentlyDisconnected
  <1>7. OrdinaryIn(r, M) \in SUBSET Connections
    BY DEF OrdinaryIn, Active
  <1>8. /\ Cardinality(OrdinaryIn(LoginQueue, Listed)') <= Cardinality(OrdinaryIn(r, M))
        /\ Cardinality(OrdinaryIn(LoginQueue, Listed)') \in Nat
        /\ Cardinality(OrdinaryIn(r, M)) \in Nat
    BY <1>6, <1>7, FiniteSessions
  <1>9. (playerLimit > 0 /\ ~limitSet /\ ~stopping =>
           Cardinality(OrdinaryIn(LoginQueue, Listed)) <= playerLimit)'
    BY <1>8 DEF Settled
  <1> QED BY <1>2, <1>3, <1>5, <1>9 DEF QueueInv, Settled

\* The session that is added next, and the one it replaces.
Arriving == Head(addSessQueue)
Replaced == {sessions[AccountOf[Arriving]]} \ {NoSession}

LEMMA ArrivingSession ==
  ASSUME SessionsInv, addSessQueue # <<>>
  PROVE  /\ Arriving \in Connections /\ session[Arriving] = "added" /\ Arriving \notin Listed
         /\ AccountOf[Arriving] \in Accounts /\ Replaced \subseteq Listed
         /\ Tail(addSessQueue) \in Lists
         /\ ToSet(Tail(addSessQueue)) = ToSet(addSessQueue) \ {Arriving}
  <1>1. /\ Tail(addSessQueue) \in Lists /\ Arriving \in ToSet(addSessQueue)
        /\ ToSet(Tail(addSessQueue)) = ToSet(addSessQueue) \ {Arriving}
    BY TailProperties DEF SessionsInv, Arriving
  <1>2. Arriving \in Connections
    BY <1>1, ListMembers DEF SessionsInv
  <1>3. session[Arriving] = "added" /\ Arriving \notin Listed
    BY <1>1, <1>2 DEF SessionsInv
  <1>4. AccountOf[Arriving] \in Accounts
    BY <1>2, AccountOfType
  <1>5. Replaced \subseteq Listed
    BY <1>4 DEF Replaced, Listed
  <1> QED BY <1>1, <1>2, <1>3, <1>4, <1>5

LEMMA ListedNow ==
  ASSUME SessionsInv
  PROVE  /\ Listed \in SUBSET Connections /\ Size(sessions) = Cardinality(Listed)
         /\ \A c \in Listed : AccountOf[c] \in Accounts /\ sessions[AccountOf[c]] = c
         /\ NoSession \notin Listed
  <1>1. Listed = ListedIn(sessions) /\ OneEach(sessions)
    BY DEF Listed, ListedIn, SessionsInv
  <1> QED BY <1>1, ListedMembers, SizeIsListed

LEMMA AddedSessions ==
  ASSUME SessionsInv, addSessQueue # <<>>,
         sessions' = [sessions EXCEPT ![AccountOf[Arriving]] = Arriving]
  PROVE  /\ OneEach(sessions')
         /\ Listed' = (Listed \ Replaced) \cup {Arriving}
         /\ Size(sessions') = Cardinality(Listed')
         /\ Listed' \in SUBSET Connections
  <1>1. Listed = ListedIn(sessions) /\ Listed' = ListedIn(sessions')
    BY DEF Listed, ListedIn
  <1>2. /\ OneEach(sessions')
        /\ Listed' = (Listed \ {sessions[AccountOf[Arriving]]}) \cup {Arriving}
    BY <1>1, ArrivingSession, ListedChange DEF SessionsInv
  <1>3. Listed' = (Listed \ Replaced) \cup {Arriving}
    BY <1>2, ListedNow DEF Replaced
  <1> QED BY <1>1, <1>2, <1>3, SizeIsListed, ListedMembers

\* The queue without the session that is replaced.
QueueWithout ==
  IF Replaced = {} THEN LoginQueue
  ELSE RemoveQueuedPlayer(LoginQueue, sessions[AccountOf[Arriving]], Size(sessions))

\* The number of sessions that AddSession_ compares with the limit.
SizeSeen ==
  IF Replaced # {} /\ IsQueued(LoginQueue, sessions[AccountOf[Arriving]])
  THEN Size(sessions') ELSE Size(sessions') - 1

LEMMA AddSessionUnfolded ==
  ASSUME AddSession_, NoSession \notin Listed
  PROVE  /\ world = "adding" /\ addSessQueue # <<>>
         /\ sessions' = [sessions EXCEPT ![AccountOf[Arriving]] = Arriving]
         /\ CloseSockets(Replaced)
         /\ forceExit' = forceExit \ Replaced
         /\ session' = [d \in Connections |->
                          IF d \in Replaced THEN "none"
                          ELSE IF d = Arriving THEN "listed" ELSE session[d]]
         /\ player' = [d \in Connections |->
                         IF d \in Replaced THEN "none" ELSE player[d]]
         /\ aboard' = aboard \ Replaced
         /\ SetLoginQueue(IF MayWait(AccountOf[Arriving], SizeSeen)
                          THEN AddQueuedPlayer(QueueWithout, Arriving)
                          ELSE AdmitAtOnce(QueueWithout, Arriving))
         /\ addSessQueue' = Tail(addSessQueue)
         /\ UNCHANGED <<limitVars, world, stopping, todo, disconnects>>
  <1>1. Replaced = {} <=> sessions[AccountOf[Arriving]] = NoSession
    BY DEF Replaced
  <1>2. addSessQueue # <<>> /\ sessions' = [sessions EXCEPT ![AccountOf[Arriving]] = Arriving]
    BY DEF AddSession_, Arriving
  <1>3. SetLoginQueue(IF MayWait(AccountOf[Arriving], SizeSeen)
                      THEN AddQueuedPlayer(QueueWithout, Arriving)
                      ELSE AdmitAtOnce(QueueWithout, Arriving))
    BY <1>1, <1>2 DEF AddSession_, Arriving, QueueWithout, SizeSeen, AdmitAtOnce
  <1> QED BY <1>2, <1>3 DEF AddSession_, Arriving, Replaced

\* The queue is settled over the sessions that stay.
LEMMA ReplacedLeaves ==
  ASSUME SessionsInv, QueueInv, addSessQueue # <<>>, playerLimit \in Nat
  PROVE  /\ Settled(QueueWithout, Listed \ Replaced)
         /\ QueueWithout = [queue |-> QueueWithout.queue, inQueue |-> QueueWithout.inQueue,
                            told |-> QueueWithout.told]
         /\ Replaced # {} /\ IsQueued(LoginQueue, sessions[AccountOf[Arriving]]) /\ ~limitSet =>
              Cardinality(Active(QueueWithout, Listed \ Replaced)) >= playerLimit
  <1> DEFINE old == sessions[AccountOf[Arriving]]
  <1>1. CASE Replaced = {}
    <2>1. QueueWithout = LoginQueue /\ Listed \ Replaced = Listed
      BY <1>1 DEF QueueWithout
    <2>2. LoginQueue = [queue |-> LoginQueue.queue, inQueue |-> LoginQueue.inQueue,
                        told |-> LoginQueue.told]
      BY DEF LoginQueue
    <2> QED BY <1>1, <2>1, <2>2 DEF QueueInv
  <1>2. CASE Replaced # {}
    <2>1. Replaced = {old} /\ old \in Listed /\ Listed \in SUBSET Connections
      BY <1>2, ArrivingSession, ListedNow DEF Replaced
    <2>2. QueueWithout = RemoveQueuedPlayer(LoginQueue, old, Cardinality(Listed))
      BY <1>2, ListedNow DEF QueueWithout
    <2> HIDE DEF old
    <2>3. /\ Leaving(LoginQueue, Listed, old)
          /\ ~limitSet /\ old \in ToSet(LoginQueue.queue) =>
               Cardinality(Active(LoginQueue, Listed \ {old})) >= playerLimit
      BY <2>1, BeforeLeaving DEF QueueInv
    <2>4. /\ Settled(QueueWithout, Listed \ {old})
          /\ Cardinality(Active(LoginQueue, Listed \ {old})) >= playerLimit =>
               Cardinality(Active(QueueWithout, Listed \ {old})) >= playerLimit
      BY <2>1, <2>2, <2>3, AfterLeaving
    <2>5. QueueWithout = [queue |-> QueueWithout.queue, inQueue |-> QueueWithout.inQueue,
                          told |-> QueueWithout.told]
      BY <2>2 DEF RemoveQueuedPlayer
    <2>6. IsQueued(LoginQueue, old) <=> old \in ToSet(LoginQueue.queue)
      BY DEF IsQueued
    <2> QED BY <2>1, <2>3, <2>4, <2>5, <2>6 DEF old
  <1> QED BY <1>1, <1>2

LEMMA AddSessionQueue ==
  ASSUME SessionsInv, QueueInv, playerLimit \in Nat, AddSession_
  PROVE  QueueInv'
  <1> DEFINE c == Arriving
             M == Listed \ Replaced
             r == IF MayWait(AccountOf[c], SizeSeen) THEN AddQueuedPlayer(QueueWithout, c)
                  ELSE AdmitAtOnce(QueueWithout, c)
  <1>1. NoSession \notin Listed /\ Listed \in SUBSET Connections
    BY ListedNow
  <1>2. /\ addSessQueue # <<>> /\ SetLoginQueue(r)
        /\ sessions' = [sessions EXCEPT ![AccountOf[Arriving]] = Arriving]
        /\ UNCHANGED <<playerLimit, limitSet, stopping, disconnects>>
    BY <1>1, AddSessionUnfolded DEF limitVars
  <1>3. c \in Connections \ M /\ M \in SUBSET Connections
    BY <1>1, <1>2, ArrivingSession
  <1>4. /\ Listed' = M \cup {c} /\ Listed' \in SUBSET Connections
        /\ Size(sessions') = Cardinality(Listed')
    BY <1>2, AddedSessions
  <1>5. Cardinality(M) \in Nat /\ Cardinality(M \cup {c}) = Cardinality(M) + 1
    BY <1>3, FiniteSessions, FS_AddElement
  <1>6. /\ Settled(QueueWithout, M)
        /\ QueueWithout = [queue |-> QueueWithout.queue, inQueue |-> QueueWithout.inQueue,
                           told |-> QueueWithout.told]
        /\ Replaced # {} /\ IsQueued(LoginQueue, sessions[AccountOf[Arriving]]) /\ ~limitSet =>
             Cardinality(Active(QueueWithout, M)) >= playerLimit
    BY <1>2, ReplacedLeaves
  <1>7. /\ SizeSeen \in Nat
        /\ \/ SizeSeen = Cardinality(M)
           \/ /\ SizeSeen = Cardinality(M) + 1
              /\ ~limitSet => Cardinality(Active(QueueWithout, M)) >= playerLimit
    <2>1. Size(sessions') = Cardinality(M) + 1
      BY <1>4, <1>5
    <2> HIDE DEF M
    <2> QED BY <1>5, <1>6, <2>1 DEF SizeSeen
  <1> HIDE DEF M, c, r
  <1>8. Settled(r, M \cup {c})
    <2>1. /\ MayWait(AccountOf[c], SizeSeen) =>
               Settled(AddQueuedPlayer(QueueWithout, c), M \cup {c})
          /\ ~MayWait(AccountOf[c], SizeSeen) =>
               Settled(AdmitAtOnce(QueueWithout, c), M \cup {c})
      BY <1>3, <1>6, <1>7, Arrival
    <2> QED BY <2>1 DEF r
  <1> QED BY <1>2, <1>4, <1>8, SettledLater

LEMMA RemoveSessionQueue ==
  ASSUME SessionsInv, TodoInv, QueueInv, playerLimit \in Nat, NEW a \in Accounts, RemoveSession(a)
  PROVE  /\ OneEach(sessions') /\ Listed' = Listed \ {sessions[a]} /\ sessions[a] \in Listed
         /\ QueueInv'
  <1> DEFINE c == sessions[a]
             q == RemoveQueuedPlayer(LoginQueue, c, Size(sessions))
             r == RemoveQueuedPlayer(q, c, Size(sessions))
  <1>1. /\ a \in todo /\ SetLoginQueue(r) /\ sessions' = [sessions EXCEPT ![a] = NoSession]
        /\ UNCHANGED <<playerLimit, limitSet, stopping>> /\ disconnects \subseteq disconnects'
    BY DEF RemoveSession, Updating, limitVars
  <1>2. c # NoSession /\ c \in Listed /\ Listed \in SUBSET Connections
        /\ Size(sessions) = Cardinality(Listed)
    BY <1>1, ListedNow DEF TodoInv, Listed
  <1>3. OneEach(sessions') /\ Listed' = Listed \ {c}
    <2>1. Listed = ListedIn(sessions) /\ Listed' = ListedIn(sessions') /\ OneEach(sessions)
      BY DEF Listed, ListedIn, SessionsInv
    <2> QED BY <1>1, <2>1, ListedChange
  <1> HIDE DEF c
  <1>4. Leaving(LoginQueue, Listed, c)
    BY <1>2, BeforeLeaving DEF QueueInv
  <1>5. Settled(q, Listed \ {c})
    BY <1>2, <1>4, AfterLeaving
  <1> HIDE DEF q
  <1>6. Leaving(q, Listed, c)
    BY <1>2, <1>5, LeavingAgain
  <1>7. Settled(r, Listed \ {c})
    BY <1>2, <1>6, AfterLeaving
  <1> HIDE DEF r
  <1>8. QueueInv'
    BY <1>1, <1>2, <1>3, <1>7, SettledLater
  <1> QED BY <1>2, <1>3, <1>8 DEF c

-----------------------------------------------------------------------------
(* Every step keeps the invariant, part by part.                           *)

\* Every other step leaves the two lists and the queue alone, but for the
\* ones named here.
LEMMA ListSteps ==
  ASSUME [Next]_vars
  PROVE  \/ AddSession_
         \/ \E a \in Accounts : RemoveSession(a)
         \/ KickAll
         \/ UNCHANGED <<sessions, queue, inQueue, told>>
  BY DEF Next, vars, Network, WorldThread, UpdateSession, AuthSession, ReadData, ReadDone,
         StartClose, OnClose, othersVars,
         StartUpdate, RefuseSession, StartSessions, EndUpdate, Stopped, CloseIdle,
         HandlePlayerLoginOpcode, HandlePlayerLogin, LogoutPlayer, SetPlayer, KeepSession,
         KickPlayer, SetPlayerAmountLimit, listVars

LEMMA PlayerLimitIsNat == RestType => playerLimit \in Nat
  BY LimitsType DEF RestType

LEMMA RestTypeStep == RestType /\ SessionsInv /\ TodoInv /\ [Next]_vars => RestType'
  <1> SUFFICES ASSUME RestType, SessionsInv, TodoInv, [Next]_vars PROVE RestType'
    OBVIOUS
  <1> USE DEF RestType
  <1>1. ASSUME NEW c \in Connections, AuthSession(c) \/ ReadData(c) \/ ReadDone(c) \/ StartClose(c) \/ OnClose(c)
        PROVE  RestType'
    BY <1>1 DEF AuthSession, ReadData, ReadDone, StartClose, OnClose, othersVars, listVars, limitVars, worldVars
  <1>2. Listed \in SUBSET Connections
    BY ListedNow
  <1>3. ASSUME NEW cs \in SUBSET Connections, CloseSockets(cs)
        PROVE  /\ socket' \in [Connections -> {"open", "shut", "closed"}]
               /\ worldSession' \subseteq Connections /\ reading' \subseteq Connections
    BY <1>3 DEF CloseSockets
  <1>4. CASE StartUpdate \/ StartSessions \/ EndUpdate \/ Stopped
    BY <1>4 DEF StartUpdate, StartSessions, EndUpdate, Stopped, vars, ioVars, listVars,
                limitVars, worldVars
  <1>5. CASE RefuseSession
    <2>1. /\ addSessQueue # <<>> /\ CloseSockets({Arriving})
          /\ session' = [session EXCEPT ![Arriving] = "none"]
          /\ UNCHANGED <<limitVars, worldVars, forceExit, player, disconnects>>
      BY <1>5 DEF RefuseSession, Arriving
    <2>2. Arriving \in Connections
      BY <2>1, ArrivingSession
    <2> QED BY <1>3, <2>1, <2>2 DEF limitVars, worldVars
  <1>6. CASE AddSession_
    <2>1. NoSession \notin Listed
      BY ListedNow
    <2>2. Replaced \in SUBSET Connections
      BY <1>2, <1>6, ArrivingSession DEF AddSession_
    <2> QED BY <1>3, <1>6, <2>1, <2>2, AddSessionUnfolded DEF limitVars
  <1>7. ASSUME NEW a \in Accounts, UpdateSession(a)
        PROVE  RestType'
    <2>1. a \in todo /\ sessions[a] \in Connections
      BY <1>7 DEF UpdateSession, CloseIdle, HandlePlayerLoginOpcode, HandlePlayerLogin,
                  LogoutPlayer, SetPlayer, KeepSession, RemoveSession, Updating,
                  TodoInv, SessionsInv, OneEach
    <2>2. CASE CloseIdle(a)
      BY <1>3, <2>1, <2>2 DEF CloseIdle, limitVars, worldVars
    <2>3. CASE HandlePlayerLoginOpcode(a) \/ HandlePlayerLogin(a) \/ LogoutPlayer(a)
      BY <2>1, <2>3 DEF HandlePlayerLoginOpcode, HandlePlayerLogin, LogoutPlayer, SetPlayer,
                        ioVars, limitVars, worldVars
    <2>4. CASE KeepSession(a)
      BY <2>4 DEF KeepSession, ioVars, limitVars
    <2>5. CASE RemoveSession(a)
      BY <2>1, <2>5 DEF RemoveSession, ioVars, limitVars
    <2> QED BY <1>7, <2>2, <2>3, <2>4, <2>5 DEF UpdateSession
  <1>8. ASSUME NEW c \in Connections, KickPlayer(c)
        PROVE  RestType'
    BY <1>3, <1>8 DEF KickPlayer, limitVars, worldVars
  <1>9. CASE KickAll
    BY <1>2, <1>3, <1>9 DEF KickAll, limitVars
  <1>10. ASSUME NEW limit \in PlayerLimits, SetPlayerAmountLimit(limit)
         PROVE  RestType'
    BY <1>10 DEF SetPlayerAmountLimit, ioVars, worldVars
  <1>11. CASE UNCHANGED vars
    BY <1>11 DEF vars, ioVars, limitVars, worldVars
  <1> QED BY <1>1, <1>4, <1>5, <1>6, <1>7, <1>8, <1>9, <1>10, <1>11
          DEF Next, Network, WorldThread

LEMMA SessionsStep ==
  RestType /\ SessionsInv /\ TodoInv /\ QueueInv /\ [Next]_vars => SessionsInv'
  <1> SUFFICES ASSUME RestType, SessionsInv, TodoInv, QueueInv, [Next]_vars PROVE SessionsInv'
    OBVIOUS
  <1>1. ASSUME NEW c \in Connections, AuthSession(c)
        PROVE  SessionsInv'
    <2>1. /\ session[c] = "none" /\ session' = [session EXCEPT ![c] = "added"]
          /\ addSessQueue' = Append(addSessQueue, c) /\ sessions' = sessions
      BY <1>1 DEF AuthSession, listVars
    <2>2. c \notin ToSet(addSessQueue) /\ addSessQueue \in Lists
      BY <2>1 DEF SessionsInv
    <2>3. addSessQueue' \in Lists /\ ToSet(addSessQueue') = ToSet(addSessQueue) \cup {c}
      BY <2>1, <2>2, AppendToList
    <2>4. Listed' = Listed
      BY <2>1 DEF Listed
    <2> QED BY <2>1, <2>3, <2>4 DEF SessionsInv, RestType
  <1>2. CASE RefuseSession
    <2>1. /\ addSessQueue # <<>> /\ session' = [session EXCEPT ![Arriving] = "none"]
          /\ addSessQueue' = Tail(addSessQueue) /\ sessions' = sessions
      BY <1>2 DEF RefuseSession, Arriving, listVars
    <2>2. Listed' = Listed
      BY <2>1 DEF Listed
    <2> QED BY <2>1, <2>2, ArrivingSession DEF SessionsInv, RestType
  <1>3. CASE AddSession_
    <2>1. NoSession \notin Listed
      BY ListedNow
    <2>2. /\ addSessQueue # <<>> /\ addSessQueue' = Tail(addSessQueue)
          /\ sessions' = [sessions EXCEPT ![AccountOf[Arriving]] = Arriving]
          /\ session' = [d \in Connections |->
                           IF d \in Replaced THEN "none"
                           ELSE IF d = Arriving THEN "listed" ELSE session[d]]
      BY <1>3, <2>1, AddSessionUnfolded
    <2>3. OneEach(sessions') /\ Listed' = (Listed \ Replaced) \cup {Arriving}
      BY <2>2, AddedSessions
    <2>4. /\ Arriving \in Connections /\ session[Arriving] = "added" /\ Arriving \notin Listed
          /\ Replaced \subseteq Listed /\ Tail(addSessQueue) \in Lists
          /\ ToSet(Tail(addSessQueue)) = ToSet(addSessQueue) \ {Arriving}
      BY <2>2, ArrivingSession
    <2>5. ASSUME NEW d \in Connections
          PROVE  /\ d \in Listed' <=> session'[d] = "listed"
                 /\ d \in ToSet(addSessQueue') <=> session'[d] = "added"
      BY <2>2, <2>3, <2>4 DEF SessionsInv
    <2> QED BY <2>2, <2>3, <2>4, <2>5 DEF SessionsInv
  <1>4. ASSUME NEW a \in Accounts, RemoveSession(a)
        PROVE  SessionsInv'
    <2>1. /\ OneEach(sessions') /\ Listed' = Listed \ {sessions[a]} /\ sessions[a] \in Listed
      BY <1>4, RemoveSessionQueue, PlayerLimitIsNat
    <2>2. session' = [session EXCEPT ![sessions[a]] = "none"] /\ addSessQueue' = addSessQueue
      BY <1>4 DEF RemoveSession
    <2> QED BY <2>1, <2>2, ListedNow DEF SessionsInv, RestType
  <1>5. CASE UNCHANGED <<sessions, session, addSessQueue>>
    <2>1. Listed' = Listed
      BY <1>5 DEF Listed
    <2> QED BY <1>5, <2>1 DEF SessionsInv
  <1>6. \/ \E c \in Connections : AuthSession(c)
        \/ RefuseSession \/ AddSession_ \/ \E a \in Accounts : RemoveSession(a)
        \/ UNCHANGED <<sessions, session, addSessQueue>>
    BY DEF Next, vars, Network, WorldThread, UpdateSession, ReadData, ReadDone, StartClose, OnClose, othersVars,
           StartUpdate, StartSessions, EndUpdate, Stopped, CloseIdle, KickAll,
           HandlePlayerLoginOpcode, HandlePlayerLogin, LogoutPlayer, SetPlayer, KeepSession,
           KickPlayer, SetPlayerAmountLimit, listVars
  <1> QED BY <1>1, <1>2, <1>3, <1>4, <1>5, <1>6

LEMMA QueueStep ==
  RestType /\ SessionsInv /\ TodoInv /\ QueueInv /\ [Next]_vars => QueueInv'
  <1> SUFFICES ASSUME RestType, SessionsInv, TodoInv, QueueInv, [Next]_vars PROVE QueueInv'
    OBVIOUS
  <1>1. playerLimit \in Nat /\ Listed \in SUBSET Connections
    BY PlayerLimitIsNat, ListedNow
  <1>2. CASE AddSession_
    BY <1>1, <1>2, AddSessionQueue
  <1>3. ASSUME NEW a \in Accounts, RemoveSession(a)
        PROVE  QueueInv'
    BY <1>1, <1>3, RemoveSessionQueue
  <1>4. CASE KickAll
    <2>1. stopping' /\ queue' = <<>> /\ UNCHANGED <<inQueue, told, sessions>>
      BY <1>4 DEF KickAll
    <2>2. LoginQueue'.queue = <<>> /\ LoginQueue'.inQueue = inQueue /\ LoginQueue'.told = told
      BY <2>1 DEF LoginQueue
    <2>3. inQueue \subseteq Connections /\ told \in [Connections -> 0..NeverTold]
      BY DEF QueueInv, Settled, QueueOver, LoginQueue
    <2>4. QueueOver(LoginQueue, Listed)'
      BY <2>2, <2>3, NoneQueued DEF QueueOver
    <2> QED BY <2>1, <2>2, <2>4 DEF QueueInv, Settled
  <1>5. ASSUME NEW limit \in PlayerLimits, SetPlayerAmountLimit(limit)
        PROVE  QueueInv'
    <2>1. limitSet' /\ UNCHANGED <<stopping, listVars>>
      BY <1>5 DEF SetPlayerAmountLimit, worldVars
    <2>2. LoginQueue' = LoginQueue /\ Listed' = Listed
      BY <2>1 DEF LoginQueue, Listed, listVars
    <2>3. QueueOver(LoginQueue, Listed)'
      BY <2>2 DEF QueueInv, Settled, QueueOver
    <2>4. (~stopping => ToldOver(LoginQueue, Listed) /\ LoginQueue.inQueue = ToSet(LoginQueue.queue))'
      BY <2>1, <2>2 DEF QueueInv, Settled, ToldOver
    <2> QED BY <2>1, <2>3, <2>4 DEF QueueInv, Settled
  <1>6. CASE UNCHANGED <<listVars, limitVars, stopping, disconnects>>
    <2>1. SetLoginQueue(LoginQueue) /\ Listed' = Listed
      BY <1>6 DEF SetLoginQueue, LoginQueue, Listed, listVars
    <2> QED BY <1>1, <1>6, <2>1, SettledLater DEF QueueInv, limitVars
  <1>7. \/ AddSession_ \/ KickAll
        \/ \E a \in Accounts : RemoveSession(a)
        \/ \E limit \in PlayerLimits : SetPlayerAmountLimit(limit)
        \/ UNCHANGED <<listVars, limitVars, stopping, disconnects>>
    BY DEF Next, vars, Network, WorldThread, UpdateSession, AuthSession, ReadData, ReadDone,
         StartClose, OnClose, othersVars,
           StartUpdate, RefuseSession, StartSessions, EndUpdate, Stopped, CloseIdle,
           HandlePlayerLoginOpcode, HandlePlayerLogin, LogoutPlayer, SetPlayer, KeepSession,
           KickPlayer, worldVars
  <1> QED BY <1>2, <1>3, <1>4, <1>5, <1>6, <1>7

LEMMA SocketStep == RestType /\ SessionsInv /\ SocketInv /\ [Next]_vars => SocketInv'
  <1> SUFFICES ASSUME RestType, SessionsInv, SocketInv, [Next]_vars PROVE SocketInv'
    OBVIOUS
  <1>1. ASSUME NEW c \in Connections, AuthSession(c) \/ ReadData(c) \/ ReadDone(c) \/ StartClose(c) \/ OnClose(c)
        PROVE  SocketInv'
    BY <1>1 DEF AuthSession, ReadData, ReadDone, StartClose, OnClose, othersVars, IsOpen, RestType, SocketInv
  <1>2. ASSUME NEW cs, CloseSockets(cs),
               \A d \in Connections : d \notin cs => session'[d] = session[d] \/ session'[d] # "none"
        PROVE  SocketInv'
    <2>1. ASSUME NEW d \in worldSession'
          PROVE  d \in worldSession /\ socket'[d] = socket[d] /\ (d \in cs => ~IsOpen(d))
      BY <1>2 DEF CloseSockets, RestType
    <2>2. ASSUME NEW d \in worldSession
          PROVE  /\ socket[d] = "shut" \/ socket[d] = "open"
                 /\ socket[d] # "shut" => session[d] # "none"
      BY <2>2 DEF SocketInv, RestType
    <2>3. worldSession \subseteq Connections
      BY DEF RestType
    <2>4. ASSUME NEW d \in reading
          PROVE  d \in worldSession' /\ socket'[d] = socket[d]
      <3>1. d \in Connections /\ d \in worldSession /\ (d \in cs => ~IsOpen(d))
        BY <1>2, <2>3, <2>4 DEF CloseSockets, SocketInv
      <3> QED BY <1>2, <3>1 DEF CloseSockets
    <2>5. reading' = reading
      BY <1>2 DEF CloseSockets
    <2>6. ASSUME NEW d \in worldSession'
          PROVE  socket'[d] # "closed" /\ (socket'[d] # "shut" => session'[d] # "none")
      <3>1. d \in worldSession /\ d \in Connections /\ socket'[d] = socket[d]
        BY <2>1, <2>3, <2>6
      <3>2. d \in cs => ~IsOpen(d)
        BY <2>1, <2>6
      <3> QED BY <1>2, <2>2, <3>1, <3>2 DEF IsOpen
    <2> QED BY <2>4, <2>5, <2>6 DEF SocketInv
  <1>3. CASE RefuseSession
    BY <1>2, <1>3 DEF RefuseSession, RestType
  <1>4. CASE AddSession_
    <2>1. NoSession \notin Listed
      BY ListedNow
    <2> QED BY <1>2, <1>4, <2>1, AddSessionUnfolded
  <1>5. ASSUME NEW a \in Accounts, RemoveSession(a)
        PROVE  SocketInv'
    BY <1>5 DEF RemoveSession, ioVars, SocketInv, RestType, IsOpen
  <1>6. ASSUME NEW cs, CloseSockets(cs), session' = session
        PROVE  SocketInv'
    BY <1>2, <1>6
  <1>7. CASE UNCHANGED <<ioVars, session>>
    BY <1>7 DEF ioVars, SocketInv
  <1>8. \/ \E c \in Connections : AuthSession(c) \/ ReadData(c) \/ ReadDone(c) \/ StartClose(c) \/ OnClose(c)
        \/ RefuseSession \/ AddSession_
        \/ \E a \in Accounts : RemoveSession(a)
        \/ \E cs : CloseSockets(cs) /\ session' = session
        \/ UNCHANGED <<ioVars, session>>
    <2>1. ASSUME NEW a \in Accounts, CloseIdle(a)
          PROVE  \E cs : CloseSockets(cs) /\ session' = session
      BY <2>1 DEF CloseIdle
    <2>2. ASSUME NEW c \in Connections, KickPlayer(c)
          PROVE  \E cs : CloseSockets(cs) /\ session' = session
      BY <2>2 DEF KickPlayer
    <2>3. KickAll => \E cs : CloseSockets(cs) /\ session' = session
      BY DEF KickAll
    <2> QED
      BY <2>1, <2>2, <2>3
      DEF Next, vars, Network, WorldThread, UpdateSession, StartUpdate, StartSessions,
          EndUpdate, Stopped, HandlePlayerLoginOpcode, HandlePlayerLogin, LogoutPlayer,
          SetPlayer, KeepSession, SetPlayerAmountLimit
  <1> QED BY <1>1, <1>3, <1>4, <1>5, <1>6, <1>7, <1>8

LEMMA TodoStep == RestType /\ SessionsInv /\ TodoInv /\ [Next]_vars => TodoInv'
  <1> SUFFICES ASSUME RestType, SessionsInv, TodoInv, [Next]_vars PROVE TodoInv'
    OBVIOUS
  <1>1. CASE AddSession_
    <2>1. world = "adding" /\ UNCHANGED <<world, todo>>
      BY <1>1 DEF AddSession_
    <2> QED BY <2>1 DEF TodoInv
  <1>2. CASE StartSessions
    BY <1>2 DEF StartSessions, listVars, TodoInv
  <1>3. CASE StartUpdate \/ EndUpdate
    BY <1>3 DEF StartUpdate, EndUpdate, TodoInv
  <1>4. ASSUME NEW a \in Accounts, KeepSession(a)
        PROVE  TodoInv'
    BY <1>4 DEF KeepSession, Updating, listVars, TodoInv
  <1>5. ASSUME NEW a \in Accounts, RemoveSession(a)
        PROVE  TodoInv'
    BY <1>5 DEF RemoveSession, Updating, TodoInv, SessionsInv, OneEach
  <1>6. CASE UNCHANGED <<world, todo, sessions>>
    BY <1>6 DEF TodoInv
  <1>7. \/ AddSession_ \/ StartSessions \/ StartUpdate \/ EndUpdate
        \/ \E a \in Accounts : KeepSession(a) \/ RemoveSession(a)
        \/ UNCHANGED <<world, todo, sessions>>
    BY DEF Next, vars, Network, WorldThread, UpdateSession, AuthSession, ReadData, ReadDone,
         StartClose, OnClose, othersVars,
           RefuseSession, Stopped, CloseIdle, KickAll, HandlePlayerLoginOpcode,
           HandlePlayerLogin, LogoutPlayer, SetPlayer, KickPlayer, SetPlayerAmountLimit,
           listVars, worldVars
  <1> QED BY <1>1, <1>2, <1>3, <1>4, <1>5, <1>6, <1>7

LEMMA ShutdownStep ==
  RestType /\ SessionsInv /\ TodoInv /\ QueueInv /\ ShutdownInv /\ [Next]_vars => ShutdownInv'
  <1> SUFFICES ASSUME RestType, SessionsInv, TodoInv, QueueInv, ShutdownInv, [Next]_vars
               PROVE  ShutdownInv'
    OBVIOUS
  <1>1. \A c \in Listed : AccountOf[c] \in Accounts /\ sessions[AccountOf[c]] = c
    BY ListedNow
  <1>2. ASSUME NEW c \in Connections, AuthSession(c) \/ ReadData(c) \/ ReadDone(c) \/ StartClose(c) \/ OnClose(c)
        PROVE  ShutdownInv'
    <2>1. /\ \A d \in aboard : ~IsOpen(d)'
          /\ UNCHANGED <<sessions, world, stopping, todo, aboard, forceExit>>
      <3>1. \A d \in aboard : d \in Connections /\ session[d] = "listed" /\ ~IsOpen(d)
        BY DEF ShutdownInv, SessionsInv, RestType
      <3>2. UNCHANGED <<sessions, world, stopping, todo, aboard, forceExit>>
        BY <1>2 DEF AuthSession, ReadData, ReadDone, StartClose, OnClose, othersVars, listVars, worldVars
      <3>3. socket \in [Connections -> {"open", "shut", "closed"}]
        BY DEF RestType
      <3> QED BY <1>2, <3>1, <3>2, <3>3 DEF AuthSession, ReadData, ReadDone, StartClose, OnClose, IsOpen
    <2>2. Listed' = Listed
      BY <2>1 DEF Listed
    <2> QED BY <2>1, <2>2 DEF ShutdownInv
  <1>3. ASSUME NEW cs, CloseSockets(cs), forceExit \subseteq forceExit',
               UNCHANGED <<sessions, world, stopping, todo, aboard>>
        PROVE  ShutdownInv'
    <2>1. \A d \in aboard : ~IsOpen(d)'
      BY <1>3 DEF CloseSockets, IsOpen, ShutdownInv, RestType
    <2>2. Listed' = Listed
      BY <1>3 DEF Listed
    <2> QED BY <1>3, <2>1, <2>2 DEF ShutdownInv
  <1>4. CASE AddSession_
    <2>1. NoSession \notin Listed
      BY ListedNow
    <2>2. /\ world = "adding" /\ addSessQueue # <<>> /\ CloseSockets(Replaced)
          /\ sessions' = [sessions EXCEPT ![AccountOf[Arriving]] = Arriving]
          /\ forceExit' = forceExit \ Replaced /\ aboard' = aboard \ Replaced
          /\ UNCHANGED <<world, stopping, todo>>
      BY <1>4, <2>1, AddSessionUnfolded
    <2>3. Listed' = (Listed \ Replaced) \cup {Arriving}
      BY <2>2, AddedSessions
    <2>4. \A d \in aboard : ~IsOpen(d)'
      BY <2>2 DEF CloseSockets, IsOpen, ShutdownInv, RestType
    <2> QED BY <2>2, <2>3, <2>4 DEF ShutdownInv
  <1>5. CASE StartUpdate
    BY <1>5 DEF StartUpdate, ShutdownInv, ioVars, listVars, IsOpen, Listed
  <1>6. CASE StartSessions
    <2>1. /\ world' = "updating" /\ todo' = {a \in Accounts : sessions[a] # NoSession}
          /\ UNCHANGED <<ioVars, listVars, stopping, aboard, forceExit>>
      BY <1>6 DEF StartSessions
    <2>2. Listed' = Listed /\ \A c \in Connections : IsOpen(c)' <=> IsOpen(c)
      BY <2>1 DEF Listed, IsOpen, ioVars, listVars
    <2>3. \A c \in aboard : AccountOf[c] \in todo'
      <3>1. \A c \in aboard : c \in Connections /\ c \in Listed
        BY DEF ShutdownInv, RestType
      <3> QED BY <1>1, <2>1, <3>1, NoSessionIsNew
    <2> QED BY <2>1, <2>2, <2>3 DEF ShutdownInv, RestType
  <1>7. ASSUME NEW a \in Accounts, KeepSession(a)
        PROVE  ShutdownInv'
    <2>1. /\ IsOpen(sessions[a]) \/ sessions[a] \notin forceExit
          /\ todo' = todo \ {a}
          /\ UNCHANGED <<ioVars, listVars, world, stopping, aboard, forceExit>>
      BY <1>7 DEF KeepSession
    <2>2. Listed' = Listed /\ \A c \in Connections : IsOpen(c)' <=> IsOpen(c)
      BY <2>1 DEF Listed, IsOpen, ioVars, listVars
    <2>3. \A c \in aboard : AccountOf[c] # a
      BY <1>1, <2>1 DEF ShutdownInv
    <2> QED BY <2>1, <2>2, <2>3 DEF ShutdownInv, RestType
  <1>8. ASSUME NEW a \in Accounts, RemoveSession(a)
        PROVE  ShutdownInv'
    <2>1. Listed' = Listed \ {sessions[a]}
      BY <1>8, RemoveSessionQueue, PlayerLimitIsNat
    <2>2. /\ world = "updating" /\ forceExit' = forceExit \ {sessions[a]}
          /\ aboard' = aboard \ {sessions[a]} /\ todo' = todo \ {a}
          /\ UNCHANGED <<ioVars, world, stopping>>
      BY <1>8 DEF RemoveSession, Updating
    <2>3. \A c \in Connections : IsOpen(c)' <=> IsOpen(c)
      BY <2>2 DEF IsOpen, ioVars
    <2>4. \A c \in aboard' : AccountOf[c] # a
      BY <1>1, <2>2 DEF ShutdownInv
    <2> QED BY <2>1, <2>2, <2>3, <2>4 DEF ShutdownInv, RestType
  <1>9. CASE EndUpdate
    <2>1. /\ world = "updating" /\ todo = {} /\ world' \in {"stopped", "rest"}
          /\ UNCHANGED <<ioVars, listVars, stopping, aboard, forceExit>>
      BY <1>9 DEF EndUpdate
    <2>2. aboard = {}
      BY <2>1 DEF ShutdownInv
    <2> QED BY <2>1, <2>2 DEF ShutdownInv
  <1>10. CASE KickAll
    <2>1. /\ world = "rest" /\ world' = "rest" /\ stopping' /\ aboard' = Listed
          /\ CloseSockets(Listed) /\ forceExit' = forceExit \cup Listed /\ sessions' = sessions
      BY <1>10 DEF KickAll
    <2>2. Listed' = Listed /\ Listed \in SUBSET Connections
      BY <2>1, ListedNow DEF Listed
    <2>3. \A c \in Listed : ~IsOpen(c)'
      BY <2>1, <2>2 DEF CloseSockets, IsOpen
    <2> QED BY <2>1, <2>2, <2>3 DEF ShutdownInv
  <1>11. CASE UNCHANGED <<socket, sessions, forceExit, worldVars>>
    BY <1>11 DEF ShutdownInv, worldVars, IsOpen, Listed
  <1>12. \/ \E c \in Connections : AuthSession(c) \/ ReadData(c) \/ ReadDone(c) \/ StartClose(c) \/ OnClose(c)
         \/ \E cs : /\ CloseSockets(cs) /\ forceExit \subseteq forceExit'
                    /\ UNCHANGED <<sessions, world, stopping, todo, aboard>>
         \/ AddSession_ \/ StartUpdate \/ StartSessions \/ EndUpdate \/ KickAll
         \/ \E a \in Accounts : KeepSession(a) \/ RemoveSession(a)
         \/ UNCHANGED <<socket, sessions, forceExit, worldVars>>
    <2> DEFINE Closes == \E cs : /\ CloseSockets(cs) /\ forceExit \subseteq forceExit'
                                 /\ UNCHANGED <<sessions, world, stopping, todo, aboard>>
    <2>1. ASSUME NEW a \in Accounts, CloseIdle(a) PROVE Closes
      BY <2>1 DEF CloseIdle, listVars, worldVars
    <2>2. ASSUME NEW c \in Connections, KickPlayer(c) PROVE Closes
      BY <2>2 DEF KickPlayer, listVars, worldVars
    <2>3. RefuseSession => Closes
      BY DEF RefuseSession, listVars, worldVars
    <2> QED
      BY <2>1, <2>2, <2>3
      DEF Next, vars, Network, WorldThread, UpdateSession, Stopped, HandlePlayerLoginOpcode,
          HandlePlayerLogin, LogoutPlayer, SetPlayer, SetPlayerAmountLimit, ioVars, listVars
  <1> QED BY <1>2, <1>3, <1>4, <1>5, <1>6, <1>7, <1>8, <1>9, <1>10, <1>11, <1>12

LEMMA InductiveInv == Spec => []IInv
  <1>1. IInv /\ [Next]_vars => IInv'
    BY RestTypeStep, SessionsStep, SocketStep, TodoStep, ShutdownStep, QueueStep DEF IInv
  <1> QED BY <1>1, InitInv, PTL DEF Spec

LEMMA QueueFacts ==
  ASSUME IInv
  PROVE  /\ queue \in Lists /\ Queued \subseteq Listed /\ inQueue \subseteq Connections
         /\ told \in [Connections -> 0..NeverTold]
         /\ ~stopping => ToldOver(LoginQueue, Listed) /\ inQueue = Queued
         /\ Listed \in SUBSET Connections /\ playerLimit \in Nat
         /\ LoginQueue.queue = queue /\ LoginQueue.told = told
  <1>1. LoginQueue.queue = queue /\ LoginQueue.inQueue = inQueue /\ LoginQueue.told = told
    BY DEF LoginQueue
  <1> QED BY <1>1, ListedNow, PlayerLimitIsNat DEF IInv, QueueInv, Settled, QueueOver, Queued

\* Every variable keeps its type: each session and socket is in one of its
\* states, the queue and the new sessions are lists of connections, and the
\* positions that clients are told stay within the number of connections.
THEOREM TypeCorrect == Spec => []TypeOK
  <1>1. IInv => TypeOK
    <2> SUFFICES ASSUME IInv PROVE TypeOK
      OBVIOUS
    <2>1. addSessQueue \in Seq(Connections) /\ sessions \in [Accounts -> Connections \cup {NoSession}]
      BY DEF IInv, SessionsInv, OneEach, Lists
    <2>2. queue \in Seq(Connections)
      BY QueueFacts DEF Lists
    <2> QED BY <2>1, <2>2, QueueFacts DEF TypeOK, IInv, RestType
  <1> QED BY <1>1, InductiveInv, PTL

\* Whatever the network threads and the world thread do, no network thread of a
\* build without IOCP uses a deleted session, no m_sessions and no m_QueuedPlayer
\* holds one, and a session waits once.
THEOREM NothingDangles == Spec => []NoDanglingSession
  <1>1. IInv => NoDanglingSession
    <2> SUFFICES ASSUME IInv PROVE NoDanglingSession
      OBVIOUS
    <2>1. IsInjective(queue)
      BY QueueFacts DEF Lists
    <2> QED BY <2>1, QueueFacts DEF NoDanglingSession, IInv, SocketInv, SessionsInv, OneEach
  <1> QED BY <1>1, InductiveInv, PTL

\* PlayerLimit holds for the players that neither skip the queue nor are
\* tolerated, however sessions come, are replaced and leave.
THEOREM LimitHolds == Spec => []OrdinaryWithinLimit
  <1>1. IInv => OrdinaryWithinLimit
    <2> SUFFICES ASSUME IInv PROVE OrdinaryWithinLimit
      OBVIOUS
    <2>1. Ordinary = OrdinaryIn(LoginQueue, Listed)
      BY QueueFacts DEF Ordinary, OrdinaryIn, Active, Queued
    <2> QED BY <2>1 DEF OrdinaryWithinLimit, IInv, QueueInv, Settled
  <1> QED BY <1>1, InductiveInv, PTL

\* While the limit is what it was at the start nobody waits beside a free slot:
\* each departure, the double removal of UpdateSessions included, admits the next.
THEOREM NobodyWaitsInVain == Spec => []NobodyWaitsBesideFreeSlot
  <1>1. IInv => NobodyWaitsBesideFreeSlot
    <2> SUFFICES ASSUME IInv PROVE NobodyWaitsBesideFreeSlot
      OBVIOUS
    <2>1. Listed \ Queued = Active(LoginQueue, Listed)
      BY QueueFacts DEF Active, Queued
    <2> QED BY <2>1, QueueFacts DEF NobodyWaitsBesideFreeSlot, IInv, QueueInv, Settled
  <1> QED BY <1>1, InductiveInv, PTL

\* A client knows where it is: the position sent last is the one it has, though
\* a departure sends new positions only to those behind the one who left.
THEOREM PositionsKnown == Spec => []PositionsAreTold
  <1>1. IInv => PositionsAreTold
    <2> SUFFICES ASSUME IInv PROVE PositionsAreTold
      OBVIOUS
    <2> QED BY QueueFacts DEF PositionsAreTold, ToldOver, Queued
  <1> QED BY <1>1, InductiveInv, PTL

\* One UpdateSessions after KickAll is enough to log everybody out.
THEOREM EveryoneLoggedOut == Spec => []ShutdownLogsOut
  <1>1. IInv => ShutdownLogsOut
    BY DEF IInv, ShutdownInv, ShutdownLogsOut
  <1> QED BY <1>1, InductiveInv, PTL

-----------------------------------------------------------------------------
(* The order of the queue.                                                 *)

\* x is before y in the queue of q.
Before(q, x, y) ==
  /\ {x, y} \subseteq ToSet(q.queue)
  /\ PositionIn(q.queue, x) < PositionIn(q.queue, y)

\* A departure of c lets nobody but c overtake who is before him.
LEMMA DepartureInOrder ==
  ASSUME NEW q, NEW c, NEW size, q.queue \in Lists, NEW x, NEW y, Before(q, x, y), y # c
  PROVE  LET r == RemoveQueuedPlayer(q, c, size)
         IN  /\ x \notin ToSet(r.queue) \/ Before(r, x, y)
             /\ ToSet(r.queue) \subseteq ToSet(q.queue)
             /\ r.queue \in Lists
  <1> DEFINE r == RemoveQueuedPlayer(q, c, size)
  <1>1. /\ y \notin ToSet(r.queue) => x \notin ToSet(r.queue)
        /\ {x, y} \subseteq ToSet(r.queue) => PositionIn(r.queue, x) < PositionIn(r.queue, y)
    BY RemovedOrder DEF Before
  <1>2. ToSet(r.queue) \subseteq ToSet(q.queue) /\ r.queue \in Lists
    BY RemovedQueue
  <1> HIDE DEF r
  <1>3. x \notin ToSet(r.queue) \/ Before(r, x, y)
    BY <1>1 DEF Before
  <1> QED BY <1>2, <1>3 DEF r

\* Who is admitted had nobody before him who still waits, in every step: an
\* arrival, which may replace a session, and a departure, which removes a session twice.
THEOREM InOrder == Spec => FirstComeFirstServed
  <1> DEFINE Order == \A i, j \in 1..Len(queue) :
                        /\ i < j
                        /\ queue[j] \in Listed'
                        /\ queue[j] \notin Queued'
                        => stopping' \/ queue[i] \notin Queued'
  <1>1. IInv /\ [Next]_vars => [Order]_vars
    <2> SUFFICES ASSUME IInv, [Next]_vars,
                        NEW i \in 1..Len(queue), NEW j \in 1..Len(queue), i < j,
                        queue[j] \in Listed', queue[j] \notin Queued', ~stopping'
                 PROVE  queue[i] \notin Queued'
      OBVIOUS
    <2> DEFINE x == queue[i]
               y == queue[j]
    <2>1. queue \in Lists /\ Queued \subseteq Listed /\ LoginQueue.queue = queue
      BY QueueFacts
    <2>2. x \in Queued /\ y \in Queued /\ Before(LoginQueue, x, y)
      BY <2>1, Positions DEF Before, Queued
    <2> HIDE DEF x, y
    <2>3. CASE AddSession_
      <3> DEFINE old == sessions[AccountOf[Arriving]]
      <3>1. NoSession \notin Listed
        BY ListedNow DEF IInv
      <3>2. /\ addSessQueue # <<>>
            /\ sessions' = [sessions EXCEPT ![AccountOf[Arriving]] = Arriving]
            /\ SetLoginQueue(IF MayWait(AccountOf[Arriving], SizeSeen)
                             THEN AddQueuedPlayer(QueueWithout, Arriving)
                             ELSE AdmitAtOnce(QueueWithout, Arriving))
        BY <2>3, <3>1, AddSessionUnfolded
      <3>3. Arriving \in Connections /\ Arriving \notin Listed /\ Replaced \subseteq Listed
        BY <3>2, ArrivingSession DEF IInv
      <3>4. Listed' = (Listed \ Replaced) \cup {Arriving}
        BY <3>2, AddedSessions DEF IInv
      <3>5. y \notin Replaced /\ x # Arriving /\ y # Arriving
        BY <2>1, <2>2, <3>3, <3>4 DEF y
      <3>6. /\ x \notin ToSet(QueueWithout.queue) \/ Before(QueueWithout, x, y)
            /\ QueueWithout.queue \in Lists
            /\ ToSet(QueueWithout.queue) \subseteq Listed
        <4>1. CASE Replaced = {}
          BY <2>1, <2>2, <4>1 DEF QueueWithout, Queued
        <4>2. CASE Replaced # {}
          <5>1. QueueWithout = RemoveQueuedPlayer(LoginQueue, old, Size(sessions)) /\ y # old
            BY <3>5, <4>2 DEF QueueWithout, Replaced
          <5> QED BY <2>1, <2>2, <5>1, DepartureInOrder DEF Queued
        <4> QED BY <4>1, <4>2
      <3>7. queue' = QueueWithout.queue \/ queue' = Append(QueueWithout.queue, Arriving)
        BY <3>2 DEF SetLoginQueue, AddQueuedPlayer, AdmitAtOnce
      <3>8. \A d : d # Arriving => (d \in Queued' <=> d \in ToSet(QueueWithout.queue))
        <4>1. CASE queue' = QueueWithout.queue
          BY <4>1 DEF Queued
        <4>2. CASE queue' = Append(QueueWithout.queue, Arriving)
          <5>1. Arriving \in Connections \ ToSet(QueueWithout.queue)
            BY <3>3, <3>6
          <5>2. ToSet(queue') = ToSet(QueueWithout.queue) \cup {Arriving}
            BY <3>6, <4>2, <5>1, AppendToList
          <5> QED BY <5>2 DEF Queued
        <4> QED BY <3>7, <4>1, <4>2
      <3> QED BY <3>5, <3>6, <3>8 DEF Before, x, y
    <2>4. ASSUME NEW a \in Accounts, RemoveSession(a)
          PROVE  x \notin Queued'
      <3> DEFINE c == sessions[a]
                 q == RemoveQueuedPlayer(LoginQueue, c, Size(sessions))
                 r == RemoveQueuedPlayer(q, c, Size(sessions))
      <3>1. Listed' = Listed \ {c} /\ queue' = r.queue
        BY <2>4, RemoveSessionQueue, QueueFacts DEF IInv, RemoveSession, SetLoginQueue
      <3>2. y # c
        BY <3>1 DEF y
      <3> HIDE DEF c
      <3>3. /\ x \notin ToSet(q.queue) \/ Before(q, x, y)
            /\ q.queue \in Lists
        BY <2>1, <2>2, <3>2, DepartureInOrder
      <3> HIDE DEF q
      <3>4. ToSet(r.queue) \subseteq ToSet(q.queue)
        BY <3>3, RemovedQueue
      <3>5. x \notin ToSet(r.queue) \/ Before(r, x, y)
        BY <3>2, <3>3, <3>4, DepartureInOrder
      <3> HIDE DEF r
      <3> QED BY <3>1, <3>5 DEF Before, Queued, y
    <2>5. CASE KickAll
      BY <2>5 DEF KickAll
    <2>6. CASE UNCHANGED <<sessions, queue, inQueue, told>>
      BY <2>2, <2>6 DEF Queued, y
    <2> QED BY <2>3, <2>4, <2>5, <2>6, ListSteps DEF x
  <1> QED BY <1>1, InductiveInv, PTL DEF Spec, FirstComeFirstServed
=============================================================================
