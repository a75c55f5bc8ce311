-------------------------- MODULE EventQueueProofs --------------------------
(***************************************************************************)
(* Proofs about the event queue, for any intervals and heights: its skip   *)
(* list stays whole, every event keeps its one place, select wakes in     *)
(* time, and the queue executes the events as Agenda says.                 *)
(*                                                                         *)
(* First the skip list: what each level links, what the searches along the *)
(* levels find, and what an insertion and the removal of the head make of  *)
(* the levels.  Then the events and their places, and one lemma for each   *)
(* action.                                                                 *)
(***************************************************************************)
EXTENDS EventQueue, Lemmas

-----------------------------------------------------------------------------
(* The shape of the skip list *)

\* n is what comes behind k in S.
Follows(S, k, n) ==
  \/ n = NULL /\ \A j \in S : j <= k
  \/ n \in S /\ n > k /\ \A j \in S : j <= k \/ n <= j

\* The members of each level: none that is not on the level below it.
Levelled(M, L) ==
  /\ M \in SUBSET Keys
  /\ L \in [Levels -> SUBSET M]
  /\ L[0] = M
  /\ \A i, j \in Levels : i <= j => L[j] \subseteq L[i]

\* Head and tail; the head is on all levels, and alone from lvl on.
Ended(M, L) ==
  /\ lvl \in 1 .. MaxLevs
  /\ \A i \in Levels : i >= lvl => L[i] \subseteq {head}
  /\ M = {} => head = NULL /\ tail = NULL /\ lvl = 1
  /\ M # {} => /\ head \in M /\ tail \in M
               /\ \A k \in M : head <= k /\ k <= tail
               /\ \A i \in Levels : head \in L[i]
               /\ previous[head] = NULL
  /\ sz = Cardinality(M)

\* Each level links its members in the order of their keys, and nothing else
\* has links.
Linking(M, L) ==
  /\ forward \in [Keys -> [Levels -> Keys \cup {NULL}]]
  /\ previous \in [Keys -> Keys \cup {NULL}]
  /\ \A k \in Keys : \A i \in Levels :
       /\ k \in L[i] => Follows(L[i], k, forward[k][i])
       /\ k \notin L[i] => forward[k][i] = NULL
  /\ \A k \in M : forward[k][0] # NULL => previous[forward[k][0]] = k

Shape(M, L) == Levelled(M, L) /\ Ended(M, L) /\ Linking(M, L)

\* The skip list has a shape: that of its own members.
Links == [i \in Levels |-> Linked(i)]
Shaped == Shape(Members, Links)

\* No list of events has one of them twice, and an entry is in the skip list
\* as long as it has events.
NoneTwice(s) == \A i, j \in 1 .. Len(s) : s[i] = s[j] => i = j

Entries ==
  /\ entries \in [Keys -> Seq(Events)]
  /\ \A k \in Keys : NoneTwice(entries[k])
  /\ \A k \in Keys : k \in Members <=> entries[k] # <<>>

Lists == NoneTwice(toadd) /\ NoneTwice(running.events) /\ Entries

\* Every event is in one place.
Waiting(e, k) == Contains(entries[k], e)

PlaceOf(e) ==
  /\ Contains(toadd, e) => ~ Contains(running.events, e)
  /\ Contains(toadd, e) \/ Contains(running.events, e) => \A k \in Keys : ~ Waiting(e, k)
  /\ \A k, l \in Keys : Waiting(e, k) /\ Waiting(e, l) => k = l
  /\ \/ Contains(toadd, e) \/ Contains(running.events, e)
     \/ \E k \in Keys : Waiting(e, k)

OnePlace == \A e \in Events : PlaceOf(e)

\* What is executed was due, and everything in the list is later.
RunsTheEarliest ==
  /\ running.events = <<>> => running = Idle
  /\ running.events # <<>> => /\ pc = "run"
                              /\ running.ts \in Keys /\ running.ts <= seen
                              /\ \A k \in Members : running.ts < k

\* Nothing happens before start has added the events.
StartsFirst ==
  /\ pc = "start" <=> toadd # <<>>
  /\ pc = "start" => now = 0

IInv == /\ TypeOK
        /\ Shaped
        /\ Lists
        /\ OnePlace
        /\ RunsTheEarliest
        /\ StartsFirst
        /\ WakesInTime

-----------------------------------------------------------------------------
(* What a shape means *)

\* Below k a nonempty set of numbers has a last one.
LEMMA LastBelow ==
  ASSUME NEW S \in SUBSET Nat, NEW k \in Int, NEW x \in S, x < k
  PROVE  \E y \in S : y < k /\ x <= y /\ \A j \in S : j < k => j <= y
<1> DEFINE gaps == {k - j : j \in {l \in S : l < k}}
<1>1. gaps \subseteq Nat /\ k - x \in gaps
  OBVIOUS
<1>2. PICK m \in gaps : \A g \in gaps : m <= g
  <2> HIDE DEF gaps
  <2> QED
    BY <1>1, LeastNumber
<1>3. PICK y \in S : y < k /\ m = k - y
  BY <1>2
<1>4. \A j \in S : j < k => j <= y
  <2> SUFFICES ASSUME NEW j \in S, j < k PROVE j <= y
    OBVIOUS
  <2>1. k - j \in gaps
    OBVIOUS
  <2>2. m <= k - j
    BY <1>2, <2>1
  <2>3. j \in Nat /\ y \in Nat
    OBVIOUS
  <2> QED
    BY ONLY <1>3, <2>2, <2>3, k \in Int
<1> QED
  BY <1>3, <1>4

\* Above k a nonempty set of numbers has a first one.
LEMMA FirstAbove ==
  ASSUME NEW S \in SUBSET Nat, NEW k \in Int, NEW x \in S, x > k
  PROVE  \E y \in S : y > k /\ \A j \in S : j > k => y <= j
<1> DEFINE above == {j \in S : j > k}
<1>1. above \subseteq Nat /\ above # {}
  OBVIOUS
<1>2. PICK y \in above : \A j \in above : y <= j
  <2> HIDE DEF above
  <2> QED
    BY <1>1, LeastNumber
<1> QED
  BY <1>2

\* The levels and their members are natural numbers.
LEMMA Numbers ==
  /\ Keys \in SUBSET Nat /\ IsFiniteSet(Keys) /\ NULL \notin Keys
  /\ 0 \in Levels /\ Levels \in SUBSET Nat
  /\ MaxLevs \in Nat /\ \A i \in Levels : i < MaxLevs
BY SkipListAssumption DEF SkipListAssumption, Levels, NULL

\* Members and levels are finite sets of positive numbers.
LEMMA LevelNumbers ==
  ASSUME NEW M, NEW L, Levelled(M, L)
  PROVE  /\ M \in SUBSET Nat /\ M \in SUBSET Keys /\ IsFiniteSet(M) /\ NULL \notin M
         /\ \A i \in Levels : L[i] \in SUBSET Nat /\ L[i] \in SUBSET Keys /\ L[i] \in SUBSET M
         /\ L[0] = M
<1>1. M \in SUBSET Keys /\ L[0] = M
  BY DEF Levelled
<1>2. \A i \in Levels : L[i] \in SUBSET M
  BY DEF Levelled
<1>3. IsFiniteSet(M)
  BY <1>1, Numbers, FS_Subset
<1> QED
  BY <1>1, <1>2, <1>3, Numbers

\* Every member but the head comes behind another one of its level.
LEMMA BehindAnother ==
  ASSUME NEW M, NEW L, Shape(M, L), NEW i \in Levels, NEW k \in L[i], k # head
  PROVE  \E j \in L[i] : j < k /\ forward[j][i] = k
<1>1. L[i] \in SUBSET Nat /\ L[i] \in SUBSET M /\ L[i] \in SUBSET Keys
  BY LevelNumbers DEF Shape
<1>2. head \in L[i] /\ head <= k
  BY <1>1 DEF Shape, Ended
<1>3. k \in Nat /\ head \in Nat
  BY <1>1, <1>2
<1>4. PICK j \in L[i] : j < k /\ \A l \in L[i] : l < k => l <= j
  <2>1. head < k
    BY <1>2, <1>3
  <2>2. k \in Int
    BY <1>3
  <2> QED
    BY ONLY <1>1, <1>2, <2>1, <2>2, LastBelow
<1>5. Follows(L[i], j, forward[j][i])
  BY <1>1 DEF Shape, Linking
<1>6. j \in Nat
  BY <1>1
<1>7. forward[j][i] = k
  <2>1. forward[j][i] \in L[i] /\ forward[j][i] > j /\ forward[j][i] <= k
    BY <1>3, <1>4, <1>5, <1>6 DEF Follows
  <2>2. forward[j][i] \in Nat
    BY <1>1, <2>1
  <2> QED
    BY <1>3, <1>4, <1>6, <2>1, <2>2
<1> QED
  BY <1>4, <1>7

\* A shape that the links have is the one of Members and Links.
LEMMA ShapeOfMembers ==
  ASSUME NEW M, NEW L, Shape(M, L)
  PROVE  Members = M /\ Links = L /\ \A i \in Levels : Linked(i) = L[i]
<1>1. /\ M \in SUBSET Keys /\ NULL \notin Keys /\ L[0] = M /\ 0 \in Levels
      /\ \A i \in Levels : L[i] \in SUBSET M
  BY LevelNumbers, Numbers DEF Shape
<1>2. ASSUME NEW j \in Keys, NEW i \in Levels, forward[j][i] \in Keys
      PROVE  j \in L[i] /\ forward[j][i] \in L[i]
  <2>1. forward[j][i] # NULL
    BY <1>1, <1>2
  <2> QED
    BY <2>1 DEF Follows, Shape, Linking
<1>3. \A k \in Keys : k = head => k \in M /\ \A i \in Levels : k \in L[i]
  BY <1>1 DEF Shape, Ended
<1>4. ASSUME NEW i \in Levels, NEW k \in L[i], k # head
      PROVE  \E j \in L[i] : forward[j][i] = k
  BY <1>4, BehindAnother
<1>5. Members = M
  <2>1. ASSUME NEW k \in Keys PROVE k \in Members <=> k \in M
    <3>1. CASE k = head
      BY <1>3, <3>1 DEF Members
    <3>2. CASE k # head
      <4>1. k \in M => \E j \in Keys : forward[j][0] = k
        <5> SUFFICES ASSUME k \in M PROVE \E j \in Keys : forward[j][0] = k
          OBVIOUS
        <5>1. k \in L[0]
          BY <1>1
        <5>2. PICK j \in L[0] : forward[j][0] = k
          BY <1>1, <1>4, <3>2, <5>1
        <5> QED
          BY <1>1, <5>2
      <4>2. ASSUME NEW j \in Keys, forward[j][0] = k PROVE k \in M
        BY <1>1, <1>2, <4>2
      <4> QED
        BY <3>2, <4>1, <4>2 DEF Members
    <3> QED
      BY <3>1, <3>2
  <2>2. Members \subseteq Keys
    BY DEF Members
  <2> QED
    BY <1>1, <2>1, <2>2
<1>6. ASSUME NEW i \in Levels PROVE Linked(i) = L[i]
  <2>1. ASSUME NEW k \in M PROVE k \in Linked(i) <=> k \in L[i]
    <3>1. CASE k = head
      BY <1>1, <1>3, <1>5, <3>1 DEF Linked
    <3>2. CASE k # head
      <4>1. k \in L[i] => \E j \in M : forward[j][i] = k
        <5> SUFFICES ASSUME k \in L[i] PROVE \E j \in M : forward[j][i] = k
          OBVIOUS
        <5>1. PICK j \in L[i] : forward[j][i] = k
          BY <1>4, <3>2
        <5> QED
          BY <1>1, <5>1
      <4>2. ASSUME NEW j \in M, forward[j][i] = k PROVE k \in L[i]
        <5>1. j \in Keys /\ forward[j][i] \in Keys
          BY <1>1, <4>2
        <5> QED
          BY <1>2, <4>2, <5>1
      <4> QED
        BY <1>5, <3>2, <4>1, <4>2 DEF Linked
    <3> QED
      BY <3>1, <3>2
  <2>2. Linked(i) \subseteq M /\ L[i] \subseteq M
    BY <1>1, <1>5 DEF Linked
  <2> QED
    BY <2>1, <2>2
<1>7. Links = L
  <2>1. L \in [Levels -> SUBSET M]
    BY DEF Shape, Levelled
  <2>2. Links = [i \in Levels |-> L[i]]
    BY <1>6 DEF Links
  <2> QED
    BY <2>1, <2>2
<1> QED
  BY <1>5, <1>6, <1>7

\* The minimum of a set, by name.
LEMMA LeastIsMin ==
  ASSUME NEW S \in SUBSET Nat, NEW m \in S, \A j \in S : m <= j
  PROVE  Min(S) = m
<1>1. \A x \in S : (\A y \in S : x <= y) => x = m
  OBVIOUS
<1> QED
  BY <1>1 DEF Min

\* The maximum of a set, by name.
LEMMA GreatestIsMax ==
  ASSUME NEW S \in SUBSET Nat, NEW m \in S, \A j \in S : j <= m
  PROVE  Max(S) = m
<1>1. \A x \in S : (\A y \in S : x >= y) => x = m
  OBVIOUS
<1> QED
  BY <1>1 DEF Max

\* A list with a shape is whole.
LEMMA ShapeIsWhole ==
  ASSUME NEW M, NEW L, Shape(M, L)
  PROVE  SkipListWhole
<1>1. Members = M /\ \A i \in Levels : Linked(i) = L[i]
  BY ShapeOfMembers
<1>2. /\ M \in SUBSET Nat /\ NULL \notin M /\ M \in SUBSET Keys
      /\ \A i \in Levels : L[i] \in SUBSET Nat /\ L[i] \in SUBSET M
  BY LevelNumbers DEF Shape
<1>3. (head = NULL) = (M = {})
  BY <1>2 DEF Shape, Ended
<1>4. ASSUME NEW i \in Levels, NEW k \in M, k \in L[i]
      PROVE  forward[k][i] = NextOn(i, k)
  <2> DEFINE above == {j \in L[i] : j > k}
  <2>1. NextOn(i, k) = IF above = {} THEN NULL ELSE Min(above)
    BY <1>1 DEF NextOn
  <2>2. Follows(L[i], k, forward[k][i])
    BY <1>2, <1>4 DEF Shape, Linking
  <2>3. above \in SUBSET Nat /\ k \in Nat /\ L[i] \in SUBSET Nat
    BY <1>2
  <2>4. CASE above = {}
    <3>1. forward[k][i] = NULL
      BY <2>2, <2>4 DEF Follows
    <3> QED
      BY <2>1, <2>4, <3>1
  <2>5. CASE above # {}
    <3>1. forward[k][i] \in above /\ \A j \in above : forward[k][i] <= j
      BY <2>2, <2>3, <2>5 DEF Follows
    <3>2. Min(above) = forward[k][i]
      <4> HIDE DEF above
      <4> QED
        BY <2>3, <3>1, LeastIsMin
    <3> QED
      BY <2>1, <2>5, <3>2
  <2> QED
    BY <2>4, <2>5
<1>5. ASSUME NEW i \in Levels, NEW k \in M, forward[k][i] # NULL
      PROVE  k \in L[i] /\ i < lvl
  <2>1. k \in L[i] /\ Follows(L[i], k, forward[k][i])
    BY <1>2, <1>5 DEF Shape, Linking
  <2>2. forward[k][i] \in L[i] /\ forward[k][i] > k
    BY <1>5, <2>1 DEF Follows
  <2>3. i \in Int /\ lvl \in Int /\ (i >= lvl => L[i] \subseteq {head})
    BY Numbers DEF Shape, Ended
  <2>4. k \in Nat
    BY <1>2
  <2> QED
    BY <2>1, <2>2, <2>3, <2>4
<1>6. M # {} => head = Min(M) /\ tail = Max(M) /\ previous[head] = NULL
  <2> SUFFICES ASSUME M # {} PROVE head = Min(M) /\ tail = Max(M) /\ previous[head] = NULL
    OBVIOUS
  <2>1. /\ head \in M /\ tail \in M /\ \A k \in M : head <= k /\ k <= tail
        /\ previous[head] = NULL
    BY DEF Shape, Ended
  <2> QED
    BY <1>2, <2>1, LeastIsMin, GreatestIsMax
<1>7. sz = Cardinality(M) /\ \A k \in M : forward[k][0] # NULL => previous[forward[k][0]] = k
  BY DEF Shape, Ended, Linking
<1> QED
  BY <1>1, <1>3, <1>4, <1>5, <1>6, <1>7 DEF SkipListWhole

-----------------------------------------------------------------------------
(* The searches along the levels *)

\* The last member of S below k.
IsLastBelow(S, k, y) == y \in S /\ y < k /\ \A j \in S : j < k => j <= y

\* A search along a level, from a member below k, ends at the last such.
LEMMA AlongFinds ==
  ASSUME NEW M, NEW L, Shape(M, L), NEW i \in Levels, NEW k \in Int,
         NEW y, IsLastBelow(L[i], k, y)
  PROVE  \A x \in L[i] : x < k => Along(i, k)[x] = y
<1> DEFINE Step(f, x) == LET n == forward[x][i]
                         IN  IF n # NULL /\ n < k THEN f[n] ELSE x
           Is(f)      == f = [x \in Keys |-> Step(f, x)]
           F          == [x \in Keys |-> IF x \in L[i] /\ x < k THEN y ELSE x]
<1>1. L[i] \in SUBSET Nat /\ L[i] \in SUBSET Keys /\ NULL \notin Keys
  BY LevelNumbers, Numbers DEF Shape
<1>2. y \in L[i] /\ y < k /\ y \in Nat
  BY <1>1 DEF IsLastBelow
<1>3. ASSUME NEW x \in L[i], x < k
      PROVE  \/ x = y /\ (forward[x][i] = NULL \/ forward[x][i] >= k)
             \/ forward[x][i] \in L[i] /\ forward[x][i] < k /\ forward[x][i] > x
  <2>1. Follows(L[i], x, forward[x][i])
    BY <1>1 DEF Shape, Linking
  <2>2. x \in Nat /\ x <= y
    BY <1>1, <1>3 DEF IsLastBelow
  <2>3. CASE forward[x][i] = NULL
    <3>1. y <= x
      BY <1>1, <1>2, <2>1, <2>3 DEF Follows
    <3> QED
      BY <1>2, <2>2, <2>3, <3>1
  <2>4. CASE forward[x][i] # NULL
    <3>1. /\ forward[x][i] \in L[i] /\ forward[x][i] > x /\ forward[x][i] \in Nat
          /\ y <= x \/ forward[x][i] <= y
      BY <1>1, <1>2, <2>1, <2>4 DEF Follows
    <3>2. CASE forward[x][i] < k
      BY <3>1, <3>2
    <3>3. CASE ~ (forward[x][i] < k)
      BY <1>2, <2>2, <3>1, <3>3
    <3> QED
      BY <3>2, <3>3
  <2> QED
    BY <2>3, <2>4
<1>4. ASSUME NEW x \in Keys, x \notin L[i]
      PROVE  forward[x][i] = NULL
  BY <1>4 DEF Shape, Linking
<1>5. Is(F)
  <2>1. ASSUME NEW x \in Keys PROVE F[x] = Step(F, x)
    <3>1. CASE x \notin L[i]
      BY <1>4, <2>1, <3>1
    <3>2. CASE x \in L[i] /\ ~ (x < k)
      <4>1. Follows(L[i], x, forward[x][i])
        BY <3>2 DEF Shape, Linking
      <4>2. forward[x][i] # NULL => ~ (forward[x][i] < k)
        BY <1>1, <3>2, <4>1 DEF Follows
      <4> QED
        BY <3>2, <4>2
    <3>3. CASE x \in L[i] /\ x < k
      <4>1. CASE x = y /\ (forward[x][i] = NULL \/ forward[x][i] >= k)
        <5>1. ~ (forward[x][i] # NULL /\ forward[x][i] < k)
          <6>1. forward[x][i] # NULL => forward[x][i] \in Int
            BY <1>1, <3>3 DEF Follows, Shape, Linking
          <6> QED
            BY <4>1, <6>1
        <5> QED
          BY <3>3, <4>1, <5>1
      <4>2. CASE forward[x][i] \in L[i] /\ forward[x][i] < k /\ forward[x][i] > x
        BY <1>1, <3>3, <4>2
      <4> QED
        BY <1>3, <3>3, <4>1, <4>2
    <3> QED
      BY <3>1, <3>2, <3>3
  <2> QED
    BY <2>1, Zenon
<1>6. Is(Along(i, k))
  <2>1. Along(i, k) = CHOOSE f : Is(f)
    BY DEF Along
  <2> HIDE DEF Is, F
  <2> QED
    BY <1>5, <2>1
<1> DEFINE found == Along(i, k)
<1> HIDE DEF F
<1>7. \A x \in Keys : found[x] = Step(found, x)
  <2>1. found = [x \in Keys |-> Step(found, x)]
    BY <1>6
  <2> HIDE DEF found, Step
  <2> QED
    BY <2>1, Zenon
<1> HIDE DEF found, Is
<1> DEFINE wrong == {x \in L[i] : x < k /\ found[x] # y}
<1>8. wrong = {}
  <2> SUFFICES ASSUME wrong # {} PROVE FALSE
    OBVIOUS
  <2>1. PICK x \in wrong : \A z \in wrong : z <= x
    <3>1. wrong \in SUBSET Nat /\ \A z \in wrong : z < k
      BY <1>1
    <3>2. PICK z \in wrong : TRUE
      OBVIOUS
    <3> HIDE DEF wrong
    <3> QED
      BY ONLY <3>1, <3>2, LastBelow, k \in Int
  <2>2. x \in L[i] /\ x < k /\ found[x] # y /\ x \in Keys /\ x \in Nat
    BY <1>1
  <2>3. CASE x = y /\ (forward[x][i] = NULL \/ forward[x][i] >= k)
    <3>1. ~ (forward[x][i] # NULL /\ forward[x][i] < k)
      <4>1. forward[x][i] # NULL => forward[x][i] \in Int
        BY <1>1, <2>2 DEF Follows, Shape, Linking
      <4> QED
        BY <2>3, <4>1
    <3>2. found[x] = x
      BY <1>7, <2>2, <3>1
    <3> QED
      BY <2>2, <2>3, <3>2
  <2>4. CASE forward[x][i] \in L[i] /\ forward[x][i] < k /\ forward[x][i] > x
    <3>1. forward[x][i] \notin wrong
      <4>1. forward[x][i] \in Nat
        BY <1>1, <2>4
      <4> HIDE DEF wrong
      <4> QED
        BY <2>1, <2>2, <2>4, <4>1
    <3>2. found[forward[x][i]] = y
      BY <2>4, <3>1
    <3>3. found[x] = found[forward[x][i]]
      <4>1. forward[x][i] # NULL
        BY <1>1, <2>4
      <4> QED
        BY <1>7, <2>2, <2>4, <4>1
    <3> QED
      BY <2>2, <3>2, <3>3
  <2> QED
    BY <1>3, <2>2, <2>3, <2>4
<1> QED
  BY <1>8 DEF found

\* update holds the last member below k of each level, from the top down.
LEMMA UpdateFinds ==
  ASSUME NEW M, NEW L, Shape(M, L), NEW k \in Int, M # {}, head < k,
         NEW last \in [Levels -> Keys], \A i \in Levels : IsLastBelow(L[i], k, last[i])
  PROVE  \A i \in 0 .. lvl - 1 : Update(k)[i] = last[i]
<1> DEFINE From(f, i) == IF i = lvl - 1 THEN head ELSE f[i + 1]
           Step(f, i) == Along(i, k)[From(f, i)]
           Is(f)      == f = [i \in 0 .. lvl - 1 |-> Step(f, i)]
           F          == [i \in 0 .. lvl - 1 |-> last[i]]
<1>1. lvl \in 1 .. MaxLevs /\ MaxLevs \in Nat /\ Levels = 0 .. MaxLevs - 1
  BY Numbers DEF Shape, Ended, Levels
<1>2. ASSUME NEW i \in 0 .. lvl - 1, NEW f, i # lvl - 1 => f[i + 1] = last[i + 1]
      PROVE  Step(f, i) = last[i]
  <2>1. i \in Levels
    BY <1>1
  <2>2. IsLastBelow(L[i], k, last[i])
    BY <2>1
  <2>3. From(f, i) \in L[i] /\ From(f, i) < k
    <3>1. CASE i = lvl - 1
      BY <2>1, <3>1 DEF Shape, Ended
    <3>2. CASE i # lvl - 1
      <4>1. i + 1 \in Levels /\ i <= i + 1
        BY <1>1, <3>2
      <4>2. L[i + 1] \subseteq L[i]
        BY <2>1, <4>1 DEF Shape, Levelled
      <4>3. last[i + 1] \in L[i + 1] /\ last[i + 1] < k
        BY <4>1 DEF IsLastBelow
      <4> QED
        BY <1>2, <3>2, <4>2, <4>3
    <3> QED
      BY <3>1, <3>2
  <2> QED
    BY <2>1, <2>2, <2>3, AlongFinds
<1>3. Is(F)
  <2>1. ASSUME NEW i \in 0 .. lvl - 1 PROVE F[i] = Step(F, i)
    <3>1. i # lvl - 1 => F[i + 1] = last[i + 1]
      BY <1>1, <2>1
    <3> HIDE DEF Step
    <3>2. Step(F, i) = last[i]
      <4> HIDE DEF F
      <4> QED
        BY <1>2, <2>1, <3>1
    <3> QED
      BY <2>1, <3>2
  <2> HIDE DEF Step
  <2> QED
    BY <2>1, Zenon
<1>4. Is(Update(k))
  <2>1. Update(k) = CHOOSE f : Is(f)
    BY DEF Update
  <2> HIDE DEF Is, F
  <2> QED
    BY <1>3, <2>1
<1> DEFINE found == Update(k)
<1> HIDE DEF F
<1>5. \A i \in 0 .. lvl - 1 : found[i] = Step(found, i)
  <2>1. found = [i \in 0 .. lvl - 1 |-> Step(found, i)]
    BY <1>4
  <2> HIDE DEF found, Step
  <2> QED
    BY <2>1, Zenon
<1> HIDE DEF found, Is, Step
<1> DEFINE wrong == {i \in 0 .. lvl - 1 : found[i] # last[i]}
<1>6. wrong = {}
  <2> SUFFICES ASSUME wrong # {} PROVE FALSE
    OBVIOUS
  <2>1. PICK i \in wrong : \A j \in wrong : j <= i
    <3>1. wrong \in SUBSET Nat /\ (\A z \in wrong : z < lvl) /\ lvl \in Int
      BY <1>1
    <3>2. PICK z \in wrong : TRUE
      OBVIOUS
    <3> HIDE DEF wrong
    <3> QED
      BY ONLY <3>1, <3>2, LastBelow
  <2>2. i \in 0 .. lvl - 1 /\ found[i] # last[i]
    OBVIOUS
  <2>3. i # lvl - 1 => found[i + 1] = last[i + 1]
    <3> SUFFICES ASSUME i # lvl - 1 PROVE found[i + 1] = last[i + 1]
      OBVIOUS
    <3>1. i + 1 \in 0 .. lvl - 1 /\ ~ (i + 1 <= i)
      BY <1>1, <2>2
    <3> QED
      BY <2>1, <3>1
  <2>4. found[i] = last[i]
    BY <1>2, <1>5, <2>2, <2>3
  <2> QED
    BY <2>2, <2>4
<1> QED
  BY <1>6 DEF found

\* On each level there is a last member below k, when the head is below it.
LEMMA LastOnLevels ==
  ASSUME NEW M, NEW L, Shape(M, L), NEW k \in Int, M # {}, head < k
  PROVE  \E last \in [Levels -> Keys] : \A i \in Levels : IsLastBelow(L[i], k, last[i])
<1>1. ASSUME NEW i \in Levels
      PROVE  \E y \in Keys : IsLastBelow(L[i], k, y)
  <2>1. head \in L[i] /\ L[i] \in SUBSET Nat /\ L[i] \in SUBSET Keys
    BY LevelNumbers DEF Shape, Ended
  <2>2. \E y \in L[i] : y < k /\ \A j \in L[i] : j < k => j <= y
    BY <2>1, LastBelow
  <2> QED
    BY <2>1, <2>2 DEF IsLastBelow
<1> DEFINE last == [i \in Levels |-> CHOOSE y \in Keys : IsLastBelow(L[i], k, y)]
<1>2. ASSUME NEW i \in Levels
      PROVE  last[i] \in Keys /\ IsLastBelow(L[i], k, last[i])
  <2>1. last[i] = CHOOSE y \in Keys : IsLastBelow(L[i], k, y)
    OBVIOUS
  <2> QED
    BY <1>1, <2>1, Zenon
<1>3. last \in [Levels -> Keys]
  BY <1>2
<1> HIDE DEF last
<1> QED
  BY <1>2, <1>3

\* search finds the members.
LEMMA SearchFinds ==
  ASSUME NEW M, NEW L, Shape(M, L), NEW k \in Keys
  PROVE  Search(k) <=> k \in M
<1>1. M \in SUBSET Nat /\ M \in SUBSET Keys /\ NULL \notin M /\ L[0] = M /\ 0 \in Levels
  BY LevelNumbers, Numbers DEF Shape
<1>2. k \in Nat /\ k # NULL
  BY Numbers
<1>3. CASE head = NULL
  <2>1. M = {}
    BY <1>1, <1>3 DEF Shape, Ended
  <2> QED
    BY <1>3, <2>1 DEF Search
<1>4. CASE head # NULL /\ ~ (head <= k)
  BY <1>4 DEF Search, Shape, Ended
<1>5. CASE head # NULL /\ k = head
  <2>1. M # {}
    BY <1>5 DEF Shape, Ended
  <2> QED
    BY <1>2, <1>5, <2>1 DEF Search, Shape, Ended
<1>6. CASE head # NULL /\ head <= k /\ k # head
  <2>1. M # {} /\ head \in M /\ head \in Nat
    BY <1>1, <1>6 DEF Shape, Ended
  <2>2. head < k
    BY <1>2, <1>6, <2>1
  <2>3. k \in Int
    BY <1>2
  <2>4. PICK last \in [Levels -> Keys] : \A i \in Levels : IsLastBelow(L[i], k, last[i])
    BY <2>1, <2>2, <2>3, LastOnLevels
  <2>5. 0 \in 0 .. lvl - 1
    BY DEF Shape, Ended
  <2>6. Update(k)[0] = last[0]
    BY <2>1, <2>2, <2>3, <2>4, <2>5, UpdateFinds
  <2> DEFINE y == last[0]
  <2>7. IsLastBelow(M, k, y)
    BY <1>1, <2>4
  <2>8. ClosestPred(k) = y
    BY <1>2, <1>6, <2>1, <2>2, <2>6 DEF ClosestPred
  <2> HIDE DEF y
  <2>9. y \in M /\ y < k /\ y \in Nat /\ y \in Keys /\ \A j \in M : j < k => j <= y
    BY <1>1, <2>7 DEF IsLastBelow
  <2>10. Follows(M, y, forward[y][0])
    BY <1>1, <2>9 DEF Shape, Linking
  <2>11. forward[y][0] = k <=> k \in M
    <3>1. ASSUME forward[y][0] = k PROVE k \in M
      BY <1>2, <2>10, <3>1 DEF Follows
    <3>2. ASSUME k \in M PROVE forward[y][0] = k
      <4>1. forward[y][0] \in M /\ forward[y][0] > y /\ forward[y][0] <= k
        BY <1>2, <2>9, <2>10, <3>2 DEF Follows
      <4>2. forward[y][0] \in Nat
        BY <1>1, <4>1
      <4> QED
        BY <1>2, <2>9, <4>1, <4>2
    <3> QED
      BY <3>1, <3>2
  <2> QED
    BY <1>6, <2>8, <2>11 DEF Search
<1> QED
  BY <1>3, <1>4, <1>5, <1>6

-----------------------------------------------------------------------------
(* What the operations of the list make of its levels *)

\* A list of no members has no levels, one of some a head on each.
LEMMA HeadOnLevels ==
  ASSUME NEW M, NEW L, Shape(M, L), NEW i \in Levels
  PROVE  /\ head = NULL => M = {} /\ L[i] = {}
         /\ head # NULL => /\ head \in Keys /\ head \in Nat /\ head \in L[i]
                           /\ head \in M /\ \A j \in L[i] : head <= j
<1>1. /\ M \in SUBSET Nat /\ M \in SUBSET Keys /\ NULL \notin M
      /\ L[i] \in SUBSET M
  BY LevelNumbers DEF Shape
<1>2. CASE M = {}
  BY <1>1, <1>2 DEF Shape, Ended
<1>3. CASE M # {}
  <2>1. head \in M /\ head \in L[i] /\ \A j \in M : head <= j
    BY <1>3 DEF Shape, Ended
  <2> QED
    BY <1>1, <2>1
<1> QED
  BY <1>2, <1>3

\* The links of a member.
LEMMA LinksOf ==
  ASSUME NEW M, NEW L, Shape(M, L), NEW i \in Levels, NEW e \in Keys
  PROVE  /\ forward[e][i] \in Keys \cup {NULL}
         /\ e \in L[i] => Follows(L[i], e, forward[e][i])
         /\ e \notin L[i] => forward[e][i] = NULL
BY DEF Shape, Linking

\* A new head is on all levels; the old one stays on those below n.
LEMMA InsertHeadShapes ==
  ASSUME NEW M, NEW L, Shape(M, L), NEW k \in Keys, k \notin M, NEW n \in RndLvl,
         head = NULL \/ k < head, InsertHead(k, n)
  PROVE  \E N : Shape(M \cup {k}, N)'
<1>1. PICK N : N = [i \in Levels |-> IF i < n THEN L[i] \cup {k}
                                     ELSE (L[i] \ {head}) \cup {k}]
  OBVIOUS
<1>2. \A i \in Levels : N[i] = IF i < n THEN L[i] \cup {k} ELSE (L[i] \ {head}) \cup {k}
  BY <1>1
<1>3. /\ M \in SUBSET Nat /\ M \in SUBSET Keys /\ IsFiniteSet(M) /\ NULL \notin M
      /\ L[0] = M /\ 0 \in Levels /\ Levels \in SUBSET Nat
      /\ \A i \in Levels : L[i] \in SUBSET Nat /\ L[i] \in SUBSET Keys /\ L[i] \in SUBSET M
  BY LevelNumbers, Numbers DEF Shape
<1>4. /\ k \in Nat /\ k # NULL /\ n \in Nat /\ n >= 1 /\ n \in 1 .. MaxLevs
      /\ MaxLevs \in Nat /\ \A i \in Levels : i < MaxLevs
      /\ lvl \in 1 .. MaxLevs /\ lvl \in Nat /\ lvl >= 1
  BY Numbers DEF RndLvl, Shape, Ended
<1>5. /\ head = NULL => M = {} /\ lvl = 1
      /\ head # NULL => head \in Keys /\ head \in Nat /\ head \in M /\ k < head
      /\ \A i \in Levels : head = NULL => L[i] = {}
      /\ \A i \in Levels : head # NULL => head \in L[i] /\ \A j \in L[i] : head <= j
      /\ \A i \in Levels : i >= lvl => L[i] \subseteq {head}
  BY <1>3, HeadOnLevels DEF Shape, Ended
<1>6. \A e \in Keys : \A i \in Levels :
        forward'[e][i] = IF e = k
                         THEN IF i < n THEN head
                              ELSE IF i < lvl THEN forward[head][i] ELSE NULL
                         ELSE IF e = head
                         THEN IF i \in (n .. lvl - 1) \cup (lvl .. n - 1)
                              THEN NULL ELSE forward[e][i]
                         ELSE forward[e][i]
  BY DEF InsertHead
<1>7. /\ lvl' = IF n < lvl THEN lvl ELSE n
      /\ head' = k
      /\ tail' = IF tail = NULL THEN k ELSE tail
      /\ sz' = sz + 1
      /\ previous' = [e \in Keys |-> IF e = k THEN NULL
                                     ELSE IF e = head THEN k ELSE previous[e]]
  BY DEF InsertHead
<1>8. Levelled(M \cup {k}, N)'
  <2>1. N \in [Levels -> SUBSET (M \cup {k})]
    BY <1>1, <1>3
  <2>2. N[0] = M \cup {k}
    <3>1. N[0] = IF 0 < n THEN M \cup {k} ELSE (M \ {head}) \cup {k}
      BY <1>2, <1>3
    <3> QED
      BY <1>4, <3>1
  <2>3. ASSUME NEW i \in Levels, NEW j \in Levels, i <= j PROVE N[j] \subseteq N[i]
    <3>1. L[j] \subseteq L[i]
      BY <2>3 DEF Shape, Levelled
    <3>2. i \in Nat /\ j \in Nat
      BY <1>3
    <3>3. j < n => i < n
      BY ONLY <1>4, <2>3, <3>2
    <3> QED
      BY ONLY <1>2, <3>1, <3>3, i \in Levels, j \in Levels
  <2> QED
    BY <1>3, <2>1, <2>2, <2>3 DEF Levelled
<1>9. Ended(M \cup {k}, N)'
  <2>1. lvl' \in 1 .. MaxLevs
    BY <1>4, <1>7
  <2>2. ASSUME NEW i \in Levels, i >= lvl' PROVE N[i] \subseteq {k}
    <3>1. ~ (i < n) /\ i >= lvl
      BY <1>3, <1>4, <1>7, <2>2
    <3>2. N[i] = (L[i] \ {head}) \cup {k} /\ L[i] \subseteq {head}
      BY <1>2, <1>5, <3>1
    <3> QED
      BY <3>2
  <2>3. tail' \in M \cup {k} /\ \A j \in M \cup {k} : k <= j /\ j <= tail'
    <3>1. CASE M = {}
      <4>1. tail' = k
        BY <1>7, <3>1 DEF Shape, Ended
      <4> QED
        BY <1>4, <3>1, <4>1
    <3>2. CASE M # {}
      <4>1. tail \in M /\ \A j \in M : head <= j /\ j <= tail
        BY <3>2 DEF Shape, Ended
      <4>2. tail' = tail /\ head \in Nat /\ k < head
        BY <1>3, <1>5, <1>7, <3>2, <4>1
      <4>3. k <= tail
        BY <1>3, <1>4, <4>1, <4>2
      <4> QED
        BY <1>3, <1>4, <4>1, <4>2, <4>3
    <3> QED
      BY <3>1, <3>2
  <2>4. \A i \in Levels : k \in N[i]
    BY <1>2
  <2>5. previous'[k] = NULL
    BY <1>7
  <2>6. sz' = Cardinality(M \cup {k})
    <3>1. sz = Cardinality(M)
      BY DEF Shape, Ended
    <3>2. IsFiniteSet(M)
      BY <1>3
    <3>3. Cardinality(M \cup {k}) = Cardinality(M) + 1
      BY ONLY <3>2, k \notin M, FS_AddElement
    <3> QED
      BY <1>7, <3>1, <3>3
  <2> QED
    BY <1>7, <2>1, <2>2, <2>3, <2>4, <2>5, <2>6 DEF Ended
<1>10. Linking(M \cup {k}, N)'
  <2>1. ASSUME NEW e \in Keys, NEW i \in Levels
        PROVE  /\ forward'[e][i] \in Keys \cup {NULL}
               /\ e \in N[i] => Follows(N[i], e, forward'[e][i])
               /\ e \notin N[i] => forward'[e][i] = NULL
    <3>1. i \in Nat /\ e \in Nat
      BY <1>3, Numbers
    <3>2. /\ forward[e][i] \in Keys \cup {NULL}
          /\ e \in L[i] => Follows(L[i], e, forward[e][i])
          /\ e \notin L[i] => forward[e][i] = NULL
      BY LinksOf
    <3> DEFINE new == forward'[e][i]
    <3>8. /\ i < n => N[i] = L[i] \cup {k}
          /\ ~ (i < n) => N[i] = (L[i] \ {head}) \cup {k}
      BY ONLY <1>2, i \in Levels
    <3>9. i < lvl \/ L[i] \subseteq {head}
      BY <1>4, <1>5, <3>1
    <3>10. new = IF e = k
                 THEN IF i < n THEN head
                      ELSE IF i < lvl THEN forward[head][i] ELSE NULL
                 ELSE IF e = head
                 THEN IF i \in (n .. lvl - 1) \cup (lvl .. n - 1)
                      THEN NULL ELSE forward[e][i]
                 ELSE forward[e][i]
      BY <1>6
    <3>11. i \in (n .. lvl - 1) \cup (lvl .. n - 1) <=> (i < n) # (i < lvl)
      BY ONLY <1>4, <3>1
    <3> SUFFICES /\ new \in Keys \cup {NULL}
                 /\ e \in N[i] => Follows(N[i], e, new)
                 /\ e \notin N[i] => new = NULL
      OBVIOUS
    <3> HIDE DEF new
    <3>3. CASE e = k /\ i < n
      <4>1. new = head /\ N[i] = L[i] \cup {k}
        BY <3>3, <3>8, <3>10
      <4>2. Follows(L[i] \cup {k}, k, head)
        BY <1>3, <1>4, <1>5 DEF Follows
      <4> QED
        BY <1>5, <3>3, <4>1, <4>2
    <3>4. CASE e = k /\ ~ (i < n) /\ i < lvl
      <4>1. new = forward[head][i] /\ N[i] = (L[i] \ {head}) \cup {k}
        BY <3>4, <3>8, <3>10
      <4>2. head # NULL
        BY <1>4, <1>5, <3>1, <3>4
      <4>3. /\ forward[head][i] \in Keys \cup {NULL}
            /\ Follows(L[i], head, forward[head][i])
        BY <1>5, <4>2, LinksOf
      <4>4. Follows((L[i] \ {head}) \cup {k}, k, forward[head][i])
        BY <1>3, <1>4, <1>5, <4>2, <4>3 DEF Follows
      <4> QED
        BY <3>4, <4>1, <4>3, <4>4
    <3>5. CASE e = k /\ ~ (i < n) /\ ~ (i < lvl)
      <4>1. new = NULL /\ N[i] = {k}
        BY <3>5, <3>8, <3>9, <3>10
      <4> QED
        BY <1>4, <3>5, <4>1 DEF Follows
    <3>6. CASE e # k /\ e = head
      <4>1. head # NULL /\ head \in L[i] /\ Follows(L[i], head, forward[head][i])
        BY <1>5, <3>2, <3>6, Numbers
      <4>2. CASE i < n /\ i < lvl
        <5>1. new = forward[head][i] /\ N[i] = L[i] \cup {k}
          BY <3>6, <3>8, <3>9, <3>10, <3>11, <4>2
        <5>2. Follows(L[i] \cup {k}, head, forward[head][i])
          BY <1>4, <1>5, <4>1 DEF Follows
        <5> QED
          BY <3>2, <3>6, <4>1, <5>1, <5>2
      <4>3. CASE i < n /\ ~ (i < lvl)
        <5>1. new = NULL /\ N[i] = L[i] \cup {k} /\ L[i] \subseteq {head}
          BY <3>6, <3>8, <3>9, <3>10, <3>11, <4>3
        <5>2. Follows(L[i] \cup {k}, head, NULL)
          BY <1>4, <1>5, <4>1, <5>1 DEF Follows
        <5> QED
          BY <3>6, <4>1, <5>1, <5>2
      <4>4. CASE ~ (i < n) /\ i < lvl
        <5>1. new = NULL /\ N[i] = (L[i] \ {head}) \cup {k}
          BY <3>6, <3>8, <3>9, <3>10, <3>11, <4>4
        <5> QED
          BY <3>6, <5>1
      <4>5. CASE ~ (i < n) /\ ~ (i < lvl)
        <5>1. /\ new = forward[head][i] /\ N[i] = (L[i] \ {head}) \cup {k}
              /\ L[i] \subseteq {head}
          BY <3>6, <3>8, <3>9, <3>10, <3>11, <4>5
        <5>2. forward[head][i] = NULL
          BY <1>5, <4>1, <5>1 DEF Follows
        <5> QED
          BY <3>6, <5>1, <5>2
      <4> QED
        BY <4>2, <4>3, <4>4, <4>5
    <3>7. CASE e # k /\ e # head
      <4>1. new = forward[e][i] /\ (e \in N[i] <=> e \in L[i])
        BY <3>7, <3>8, <3>10
      <4>2. ASSUME e \in L[i]
            PROVE  /\ Follows(L[i] \cup {k}, e, forward[e][i])
                   /\ Follows((L[i] \ {head}) \cup {k}, e, forward[e][i])
        <5>1. head # NULL /\ head < e /\ k < e /\ head \in Nat
          BY <1>4, <1>5, <3>1, <3>7, <4>2
        <5>2. L[i] \in SUBSET Nat /\ Follows(L[i], e, forward[e][i])
          BY <1>3, <3>2, <4>2
        <5>3. CASE forward[e][i] = NULL
          BY <1>4, <3>1, <5>1, <5>2, <5>3 DEF Follows
        <5>4. CASE forward[e][i] # NULL
          <6>1. /\ forward[e][i] \in L[i] /\ forward[e][i] > e
                /\ \A j \in L[i] : j <= e \/ forward[e][i] <= j
            BY <5>2, <5>4 DEF Follows
          <6>2. forward[e][i] # head
            BY <3>1, <5>1, <6>1
          <6> QED
            BY <1>4, <3>1, <5>1, <6>1, <6>2 DEF Follows
        <5> QED
          BY <5>3, <5>4
      <4> QED
        BY <3>2, <3>8, <4>1, <4>2
    <3> QED
      BY <3>3, <3>4, <3>5, <3>6, <3>7
  <2>2. forward' \in [Keys -> [Levels -> Keys \cup {NULL}]]
    <3>1. \A e \in Keys : forward[e] \in [Levels -> Keys \cup {NULL}]
      BY DEF Shape, Linking
    <3>2. forward' = [e \in Keys |-> forward'[e]]
      BY DEF InsertHead
    <3>3. ASSUME NEW e \in Keys PROVE forward'[e] \in [Levels -> Keys \cup {NULL}]
      <4>1. forward'[e] = [i \in Levels |-> forward'[e][i]]
        BY <3>1 DEF InsertHead
      <4>2. \A i \in Levels : forward'[e][i] \in Keys \cup {NULL}
        BY <2>1
      <4> QED
        BY ONLY <4>1, <4>2
    <3> QED
      BY ONLY <3>2, <3>3
  <2>3. previous' \in [Keys -> Keys \cup {NULL}]
    BY <1>7 DEF Shape, Linking
  <2>4. ASSUME NEW e \in M \cup {k}, forward'[e][0] # NULL
        PROVE  previous'[forward'[e][0]] = e
    <3>1. e \in Keys /\ 0 < n /\ 0 \notin (n .. lvl - 1) \cup (lvl .. n - 1)
      BY <1>3, <1>4
    <3>2. CASE e = k
      <4>1. forward'[e][0] = head /\ head # k /\ head \in Keys
        BY <1>3, <1>4, <1>5, <1>6, <2>4, <3>1, <3>2
      <4> QED
        BY <1>7, <3>2, <4>1
    <3>3. CASE e # k
      <4>1. forward'[e][0] = forward[e][0]
        BY <1>3, <1>6, <3>1, <3>3
      <4>2. e \in M /\ previous[forward[e][0]] = e
        BY <2>4, <3>3, <4>1 DEF Shape, Linking
      <4>3. forward[e][0] \in M /\ forward[e][0] > e
        BY <1>3, <2>4, <3>1, <4>1, <4>2, LinksOf DEF Follows
      <4>4. forward[e][0] # k /\ forward[e][0] # head /\ forward[e][0] \in Keys
        BY <1>3, <1>5, <4>2, <4>3
      <4> QED
        BY <1>7, <4>1, <4>2, <4>4
    <3> QED
      BY <3>2, <3>3
  <2> QED
    BY <2>1, <2>2, <2>3, <2>4 DEF Linking
<1> QED
  BY <1>8, <1>9, <1>10 DEF Shape

\* A new member that is not the head comes behind the last one below it, on
\* the levels below n.
LEMMA InsertBehindShapes ==
  ASSUME NEW M, NEW L, Shape(M, L), NEW k \in Keys, k \notin M, NEW n \in RndLvl,
         head # NULL, head < k, InsertBehind(k, n)
  PROVE  \E N : Shape(M \cup {k}, N)'
<1>1. PICK N : N = [i \in Levels |-> IF i < n THEN L[i] \cup {k} ELSE L[i]]
  OBVIOUS
<1>2. \A i \in Levels : /\ i < n => N[i] = L[i] \cup {k}
                        /\ ~ (i < n) => N[i] = L[i]
  BY <1>1
<1>3. /\ M \in SUBSET Nat /\ M \in SUBSET Keys /\ NULL \notin M
      /\ L[0] = M /\ 0 \in Levels /\ Levels \in SUBSET Nat
      /\ \A i \in Levels : L[i] \in SUBSET Nat /\ L[i] \in SUBSET Keys /\ L[i] \in SUBSET M
  BY LevelNumbers, Numbers DEF Shape
<1>4. /\ k \in Nat /\ k # NULL /\ n \in Nat /\ n >= 1 /\ n \in 1 .. MaxLevs
      /\ MaxLevs \in Nat /\ \A i \in Levels : i < MaxLevs
      /\ lvl \in 1 .. MaxLevs /\ lvl \in Nat /\ lvl >= 1
  BY Numbers DEF RndLvl, Shape, Ended
<1>5. /\ M # {} /\ head \in M /\ head \in Nat
      /\ \A j \in M : head <= j
      /\ \A i \in Levels : head \in L[i] /\ (i >= lvl => L[i] \subseteq {head})
  BY <1>3, HeadOnLevels DEF Shape, Ended
<1>6. PICK last \in [Levels -> Keys] : \A i \in Levels : IsLastBelow(L[i], k, last[i])
  <2>1. k \in Int
    BY <1>4
  <2> QED
    BY <1>5, <2>1, LastOnLevels
<1> DEFINE update == [i \in Levels |-> IF i < lvl THEN Update(k)[i] ELSE head]
<1>7. update = last
  <2>1. ASSUME NEW i \in Levels
        PROVE  (IF i < lvl THEN Update(k)[i] ELSE head) = last[i]
    <3>1. CASE i < lvl
      <4>1. i \in 0 .. lvl - 1 /\ k \in Int
        BY <1>3, <1>4, <3>1
      <4>2. Update(k)[i] = last[i]
        BY <1>5, <1>6, <4>1, UpdateFinds
      <4> QED
        BY <3>1, <4>2
    <3>2. CASE ~ (i < lvl)
      <4>1. L[i] \subseteq {head}
        BY <1>3, <1>4, <1>5, <3>2
      <4>2. last[i] \in L[i]
        BY <1>6 DEF IsLastBelow
      <4> QED
        BY <3>2, <4>1, <4>2
    <3> QED
      BY <3>1, <3>2
  <2> QED
    BY <2>1
<1> DEFINE next == forward[last[0]][0]
<1>8. /\ forward' = [e \in Keys |-> [i \in Levels |->
             IF e = k THEN IF i < n THEN forward[last[i]][i] ELSE NULL
             ELSE IF i < n /\ e = last[i] THEN k
             ELSE forward[e][i]]]
      /\ previous' = [e \in Keys |-> IF e = k THEN last[0]
                                     ELSE IF e = next THEN k ELSE previous[e]]
      /\ lvl' = IF n > lvl THEN n ELSE lvl
      /\ tail' = IF next = NULL THEN k ELSE tail
      /\ sz' = sz + 1
      /\ head' = head
  <2>1. /\ forward' = [e \in Keys |-> [i \in Levels |->
               IF e = k THEN IF i < n THEN forward[update[i]][i] ELSE NULL
               ELSE IF i < n /\ e = update[i] THEN k
               ELSE forward[e][i]]]
        /\ previous' = [e \in Keys |-> IF e = k THEN update[0]
                          ELSE IF e = forward[update[0]][0] THEN k ELSE previous[e]]
        /\ lvl' = IF n > lvl THEN n ELSE lvl
        /\ tail' = IF forward[update[0]][0] = NULL THEN k ELSE tail
        /\ sz' = sz + 1
        /\ head' = head
    BY DEF InsertBehind
  <2> HIDE DEF update
  <2> QED
    BY <1>7, <2>1
<1>9. \A i \in Levels :
        /\ last[i] \in L[i] /\ last[i] \in Nat /\ last[i] \in Keys /\ last[i] < k
        /\ \A j \in L[i] : j < k => j <= last[i]
        /\ Follows(L[i], last[i], forward[last[i]][i])
        /\ forward[last[i]][i] \in Keys \cup {NULL}
  <2> SUFFICES ASSUME NEW i \in Levels
               PROVE  /\ last[i] \in L[i] /\ last[i] \in Nat /\ last[i] \in Keys /\ last[i] < k
                      /\ \A j \in L[i] : j < k => j <= last[i]
                      /\ Follows(L[i], last[i], forward[last[i]][i])
                      /\ forward[last[i]][i] \in Keys \cup {NULL}
    OBVIOUS
  <2>1. last[i] \in L[i] /\ last[i] < k /\ \A j \in L[i] : j < k => j <= last[i]
    BY <1>6 DEF IsLastBelow
  <2>2. last[i] \in Keys /\ last[i] \in Nat
    BY <1>3, <2>1
  <2> QED
    BY <2>1, <2>2, LinksOf
<1>10. next # NULL => next \in M /\ next > k /\ next \in Nat
  <2>1. next # NULL => next \in M /\ next > last[0]
    BY <1>3, <1>9 DEF Follows
  <2>2. next # NULL => next \in Nat /\ next # k /\ ~ (next < k)
    <3> SUFFICES ASSUME next # NULL PROVE next \in Nat /\ next # k /\ ~ (next < k)
      OBVIOUS
    <3>1. next \in M /\ next > last[0] /\ next \in Nat
      BY <1>3, <2>1
    <3>2. next < k => next <= last[0]
      BY <1>3, <1>9, <3>1
    <3>3. last[0] \in Nat
      BY <1>3, <1>9
    <3> QED
      BY <3>1, <3>2, <3>3
  <2> QED
    BY <1>4, <2>1, <2>2
<1>11. Levelled(M \cup {k}, N)'
  <2>1. N \in [Levels -> SUBSET (M \cup {k})]
    BY <1>1, <1>3
  <2>2. N[0] = M \cup {k}
    BY <1>2, <1>3, <1>4
  <2>3. ASSUME NEW i \in Levels, NEW j \in Levels, i <= j PROVE N[j] \subseteq N[i]
    <3>1. L[j] \subseteq L[i]
      BY <2>3 DEF Shape, Levelled
    <3>2. i \in Nat /\ j \in Nat
      BY <1>3
    <3>3. j < n => i < n
      BY ONLY <1>4, <2>3, <3>2
    <3> QED
      BY ONLY <1>2, <3>1, <3>3, i \in Levels, j \in Levels
  <2> QED
    BY <1>3, <2>1, <2>2, <2>3 DEF Levelled
<1>12. Ended(M \cup {k}, N)'
  <2>1. lvl' \in 1 .. MaxLevs
    BY <1>4, <1>8
  <2>2. ASSUME NEW i \in Levels, i >= lvl' PROVE N[i] \subseteq {head}
    <3>1. ~ (i < n) /\ i >= lvl
      BY <1>3, <1>4, <1>8, <2>2
    <3> QED
      BY <1>2, <1>5, <3>1
  <2>3. tail' \in M \cup {k} /\ \A j \in M \cup {k} : head <= j /\ j <= tail'
    <3>1. tail \in M /\ \A j \in M : j <= tail
      BY <1>5 DEF Shape, Ended
    <3>2. CASE next = NULL
      <4>1. \A j \in M : j <= last[0]
        BY <1>3, <1>9, <3>2 DEF Follows
      <4>2. last[0] \in Nat /\ last[0] < k
        BY <1>3, <1>9
      <4>3. \A j \in M : j <= k
        BY <1>3, <1>4, <4>1, <4>2
      <4> QED
        BY <1>4, <1>5, <1>8, <3>2, <4>3
    <3>3. CASE next # NULL
      <4>1. k <= tail
        BY <1>3, <1>4, <1>10, <3>1, <3>3
      <4> QED
        BY <1>4, <1>5, <1>8, <3>1, <3>3, <4>1
    <3> QED
      BY <3>2, <3>3
  <2>4. \A i \in Levels : head \in N[i]
    BY <1>2, <1>5
  <2>5. previous'[head] = NULL
    <3>1. head \in Keys /\ head # k
      BY <1>3, <1>4, <1>5
    <3>2. head # next
      <4>1. head # NULL
        OBVIOUS
      <4> QED
        BY <1>4, <1>5, <1>10, <4>1
    <3>3. previous[head] = NULL
      BY <1>5 DEF Shape, Ended
    <3> QED
      BY <1>8, <3>1, <3>2, <3>3
  <2>6. sz' = Cardinality(M \cup {k})
    <3>1. sz = Cardinality(M)
      BY DEF Shape, Ended
    <3>2. IsFiniteSet(M)
      BY LevelNumbers DEF Shape
    <3>3. Cardinality(M \cup {k}) = Cardinality(M) + 1
      BY ONLY <3>2, k \notin M, FS_AddElement
    <3> QED
      BY <1>8, <3>1, <3>3
  <2> QED
    BY <1>5, <1>8, <2>1, <2>2, <2>3, <2>4, <2>5, <2>6 DEF Ended
<1>13. Linking(M \cup {k}, N)'
  <2>1. ASSUME NEW e \in Keys, NEW i \in Levels
        PROVE  /\ forward'[e][i] \in Keys \cup {NULL}
               /\ e \in N[i] => Follows(N[i], e, forward'[e][i])
               /\ e \notin N[i] => forward'[e][i] = NULL
    <3> DEFINE new == forward'[e][i]
               at  == last[i]
               old == forward[at][i]
    <3>1. new = IF e = k THEN IF i < n THEN old ELSE NULL
                ELSE IF i < n /\ e = at THEN k
                ELSE forward[e][i]
      BY <1>8
    <3>2. i \in Nat /\ e \in Nat /\ L[i] \in SUBSET Nat /\ k \notin L[i]
      BY <1>3, Numbers
    <3>3. /\ forward[e][i] \in Keys \cup {NULL}
          /\ e \in L[i] => Follows(L[i], e, forward[e][i])
          /\ e \notin L[i] => forward[e][i] = NULL
      BY LinksOf
    <3>4. /\ at \in L[i] /\ at \in Nat /\ at < k
          /\ \A j \in L[i] : j < k => j <= at
          /\ Follows(L[i], at, old) /\ old \in Keys \cup {NULL}
      BY <1>9
    <3>5. /\ i < n => N[i] = L[i] \cup {k}
          /\ ~ (i < n) => N[i] = L[i]
      BY <1>2
    <3> SUFFICES /\ new \in Keys \cup {NULL}
                 /\ e \in N[i] => Follows(N[i], e, new)
                 /\ e \notin N[i] => new = NULL
      OBVIOUS
    <3> HIDE DEF new, at, old
    <3>6. CASE ~ (i < n)
      <4>1. CASE e = k
        BY <3>1, <3>2, <3>5, <3>6, <4>1
      <4>2. CASE e # k
        BY <3>1, <3>3, <3>5, <3>6, <4>2
      <4> QED
        BY <4>1, <4>2
    <3>7. CASE i < n /\ e = k
      <4>1. new = old
        BY <3>1, <3>7
      <4>2. Follows(L[i] \cup {k}, k, old)
        <5>1. CASE old = NULL
          BY <1>4, <3>2, <3>4, <5>1 DEF Follows
        <5>2. CASE old # NULL
          <6>1. /\ old \in L[i] /\ old > at /\ old \in Nat
                /\ \A j \in L[i] : j <= at \/ old <= j
            BY <3>2, <3>4, <5>2 DEF Follows
          <6>2. old > k
            BY <1>4, <3>2, <3>4, <6>1
          <6> QED
            BY <1>4, <3>2, <3>4, <6>1, <6>2 DEF Follows
        <5> QED
          BY <5>1, <5>2
      <4> QED
        BY <3>4, <3>5, <3>7, <4>1, <4>2
    <3>8. CASE i < n /\ e # k /\ e = at
      <4>1. new = k
        BY <3>1, <3>8
      <4>2. Follows(L[i] \cup {k}, at, k)
        BY <1>4, <3>2, <3>4 DEF Follows
      <4> QED
        BY <3>4, <3>5, <3>8, <4>1, <4>2
    <3>9. CASE i < n /\ e # k /\ e # at
      <4>1. new = forward[e][i] /\ N[i] = L[i] \cup {k}
        BY <3>1, <3>5, <3>9
      <4>2. ASSUME e \in L[i] PROVE Follows(L[i] \cup {k}, e, forward[e][i])
        <5>1. CASE forward[e][i] = NULL
          <6>1. \A j \in L[i] : j <= e
            <7>1. NULL \notin L[i] /\ Follows(L[i], e, NULL)
              BY <1>3, <3>3, <4>2, <5>1
            <7> QED
              BY <7>1 DEF Follows
          <6>2. k <= e
            BY <1>4, <3>2, <3>4, <3>9, <4>2, <6>1
          <6> QED
            BY <5>1, <6>1, <6>2 DEF Follows
        <5>2. CASE forward[e][i] # NULL
          <6>1. /\ forward[e][i] \in L[i] /\ forward[e][i] > e /\ forward[e][i] \in Nat
                /\ \A j \in L[i] : j <= e \/ forward[e][i] <= j
            BY <3>2, <3>3, <4>2, <5>2 DEF Follows
          <6>2. k <= e \/ forward[e][i] <= k
            BY <1>4, <3>2, <3>4, <3>9, <4>2, <6>1
          <6> QED
            BY <6>1, <6>2 DEF Follows
        <5> QED
          BY <5>1, <5>2
      <4> QED
        BY <3>3, <3>9, <4>1, <4>2
    <3> QED
      BY <3>6, <3>7, <3>8, <3>9
  <2>2. forward' \in [Keys -> [Levels -> Keys \cup {NULL}]]
    <3>1. forward' = [e \in Keys |-> forward'[e]]
      BY <1>8
    <3>2. ASSUME NEW e \in Keys PROVE forward'[e] \in [Levels -> Keys \cup {NULL}]
      <4>1. forward'[e] = [i \in Levels |-> forward'[e][i]]
        BY <1>8
      <4>2. \A i \in Levels : forward'[e][i] \in Keys \cup {NULL}
        BY <2>1
      <4> QED
        BY ONLY <4>1, <4>2
    <3> QED
      BY ONLY <3>1, <3>2
  <2>3. previous' \in [Keys -> Keys \cup {NULL}]
    BY <1>3, <1>8, <1>9 DEF Shape, Linking
  <2>4. ASSUME NEW e \in M \cup {k}, forward'[e][0] # NULL
        PROVE  previous'[forward'[e][0]] = e
    <3>1. e \in Keys /\ 0 < n /\ 0 \in Levels /\ last[0] \in M /\ last[0] < k /\ last[0] \in Nat
      BY <1>3, <1>4, <1>9
    <3>2. forward'[e][0] = IF e = k THEN next
                           ELSE IF e = last[0] THEN k ELSE forward[e][0]
      BY <1>8, <3>1
    <3>3. CASE e = k
      <4>1. forward'[e][0] = next /\ next \in Keys /\ next # k
        BY <1>3, <1>4, <1>10, <2>4, <3>2, <3>3
      <4> QED
        BY <1>8, <3>3, <4>1
    <3>4. CASE e # k /\ e = last[0]
      BY <1>8, <3>2, <3>4
    <3>5. CASE e # k /\ e # last[0]
      <4>1. forward'[e][0] = forward[e][0] /\ e \in M
        BY <3>2, <3>5
      <4>2. previous[forward[e][0]] = e
        BY <2>4, <4>1 DEF Shape, Linking
      <4>3. forward[e][0] \in M
        BY <1>3, <2>4, <3>1, <4>1, LinksOf DEF Follows
      <4>4. forward[e][0] # next
        <5> SUFFICES ASSUME forward[e][0] = next PROVE FALSE
          OBVIOUS
        <5>1. previous[next] = last[0]
          BY <2>4, <3>1, <4>1 DEF Shape, Linking
        <5> QED
          BY <3>5, <4>2, <5>1
      <4>5. forward[e][0] # k /\ forward[e][0] \in Keys
        BY <1>3, <4>3
      <4> QED
        BY <1>8, <4>1, <4>2, <4>4, <4>5
    <3> QED
      BY <3>3, <3>4, <3>5
  <2> QED
    BY <2>1, <2>2, <2>3, <2>4 DEF Linking
<1> QED
  BY <1>11, <1>12, <1>13 DEF Shape

\* An insertion adds its key.
LEMMA InsertShapes ==
  ASSUME NEW M, NEW L, Shape(M, L), NEW k \in Keys, k \notin M, NEW n \in RndLvl,
         Insert(k, n)
  PROVE  \E N : Shape(M \cup {k}, N)'
<1>1. CASE head = NULL \/ k < head
  <2>1. InsertHead(k, n)
    BY <1>1 DEF Insert
  <2> QED
    BY <1>1, <2>1, InsertHeadShapes
<1>2. CASE ~ (head = NULL \/ k < head)
  <2>1. InsertBehind(k, n)
    BY <1>2 DEF Insert
  <2>2. 0 \in Levels /\ k \in Nat
    BY Numbers
  <2>3. head < k
    BY <1>2, <2>2, HeadOnLevels
  <2> QED
    BY <1>2, <2>1, <2>3, InsertBehindShapes
<1> QED
  BY <1>1, <1>2

\* The removal of the only member leaves an empty list.
LEMMA RemoveLastShapes ==
  ASSUME NEW M, NEW L, Shape(M, L), NEW h, h = head, head # NULL,
         forward[h][0] = NULL, RemoveHead
  PROVE  \E N : Shape(M \ {h}, N)'
<1>1. PICK N : N = [i \in Levels |-> {}]
  OBVIOUS
<1>2. /\ M \in SUBSET Nat /\ M \in SUBSET Keys /\ NULL \notin M /\ NULL \notin Keys
      /\ L[0] = M /\ 0 \in Levels /\ Levels \in SUBSET Nat
      /\ \A i \in Levels : L[i] \in SUBSET M
      /\ h \in M /\ h \in Nat /\ h \in Keys
  BY LevelNumbers, Numbers, HeadOnLevels DEF Shape
<1>3. M = {h}
  <2>1. Follows(M, h, NULL)
    BY <1>2, LinksOf
  <2>2. \A j \in M : j <= h /\ h <= j
    BY <1>2, <2>1 DEF Follows, Shape, Ended
  <2> QED
    BY <1>2, <2>2
<1> DEFINE links == [e \in Keys |-> IF e = h THEN NoLinks
                                    ELSE IF e = NULL
                                    THEN [i \in Levels |-> IF i \in Inherited(NULL)
                                                           THEN forward[h][i] ELSE forward[e][i]]
                                    ELSE forward[e]]
<1>4. /\ forward' = links
      /\ previous' = [e \in Keys |-> IF e = NULL THEN NULL ELSE previous[e]]
      /\ head' = NULL /\ tail' = NULL /\ lvl' = 1
      /\ sz' = sz - 1
  BY DEF RemoveHead
<1>5. ASSUME NEW e \in Keys PROVE links[e] = NoLinks
  <2>1. CASE e = h
    BY <2>1
  <2>2. CASE e # h
    <3>1. forward[e] \in [Levels -> Keys \cup {NULL}]
      BY DEF Shape, Linking
    <3>2. \A i \in Levels : forward[e][i] = NULL
      BY <1>2, <1>3, <2>2, LinksOf
    <3>3. forward[e] = NoLinks
      BY <3>1, <3>2 DEF NoLinks
    <3> QED
      BY <1>2, <2>2, <3>3
  <2> QED
    BY <2>1, <2>2
<1>6. forward' = [e \in Keys |-> NoLinks]
  BY <1>4, <1>5
<1>7. M \ {h} = {}
  BY <1>3
<1>8. Levelled({}, N)'
  BY <1>1, <1>2 DEF Levelled
<1>9. Ended({}, N)'
  <2>1. sz' = 0
    <3>1. sz = Cardinality(M)
      BY DEF Shape, Ended
    <3>2. Cardinality({h}) = 1
      BY FS_Singleton
    <3> QED
      BY <1>3, <1>4, <3>1, <3>2
  <2>2. Cardinality({}) = 0
    BY FS_EmptySet
  <2>3. lvl' \in 1 .. MaxLevs
    BY <1>4, Numbers, SkipListAssumption DEF SkipListAssumption
  <2> QED
    BY <1>1, <1>4, <2>1, <2>2, <2>3 DEF Ended
<1>10. Linking({}, N)'
  <2>1. forward' \in [Keys -> [Levels -> Keys \cup {NULL}]]
    BY <1>6 DEF NoLinks
  <2>2. previous' \in [Keys -> Keys \cup {NULL}]
    BY <1>4 DEF Shape, Linking
  <2>3. \A e \in Keys : \A i \in Levels : forward'[e][i] = NULL /\ N[i] = {}
    BY <1>1, <1>6 DEF NoLinks
  <2> QED
    BY <2>1, <2>2, <2>3 DEF Linking
<1> QED
  BY <1>7, <1>8, <1>9, <1>10 DEF Shape

\* Where the head is not linked to its successor, that is not on the level.
LEMMA InheritedLevels ==
  ASSUME NEW M, NEW L, Shape(M, L), head # NULL, NEW next \in M,
         forward[head][0] = next, NEW i \in Levels
  PROVE  i \in Inherited(next) <=> i < lvl /\ next \notin L[i]
<1>1. /\ M \in SUBSET Nat /\ M \in SUBSET Keys /\ NULL \notin M
      /\ L[0] = M /\ 0 \in Levels /\ Levels \in SUBSET Nat
      /\ \A j \in Levels : L[j] \in SUBSET M
  BY LevelNumbers, Numbers DEF Shape
<1>2. head \in M /\ head \in Nat /\ head \in Keys /\ \A j \in Levels : head \in L[j]
  BY <1>1, HeadOnLevels
<1>3. next > head /\ next \in Nat /\ \A m \in M : m <= head \/ next <= m
  <2>1. Follows(M, head, next)
    BY <1>1, <1>2, LinksOf
  <2>2. next # NULL
    BY <1>1
  <2> QED
    BY <1>1, <2>1, <2>2 DEF Follows
<1>4. ASSUME NEW j \in Levels PROVE forward[head][j] = next <=> next \in L[j]
  <2>1. Follows(L[j], head, forward[head][j])
    BY <1>2, LinksOf
  <2>2. ASSUME forward[head][j] = next PROVE next \in L[j]
    BY <1>1, <2>1, <2>2 DEF Follows
  <2>3. ASSUME next \in L[j] PROVE forward[head][j] = next
    <3>1. /\ forward[head][j] \in L[j] /\ forward[head][j] > head
          /\ forward[head][j] <= next
      BY <1>1, <1>2, <1>3, <2>1, <2>3 DEF Follows
    <3>2. forward[head][j] \in M /\ forward[head][j] \in Nat
      BY <1>1, <3>1
    <3> QED
      BY <1>2, <1>3, <3>1, <3>2
  <2> QED
    BY <2>2, <2>3
<1>5. lvl \in Nat /\ i \in Nat /\ \A j \in i .. lvl - 1 : j \in Levels
  <2>1. lvl \in 1 .. MaxLevs /\ MaxLevs \in Nat
    BY Numbers DEF Shape, Ended
  <2> QED
    BY <1>1, <2>1 DEF Levels
<1>6. \A j \in i .. lvl - 1 : L[j] \subseteq L[i]
  BY <1>1, <1>5 DEF Shape, Levelled
<1>7. i \in Inherited(next) <=> i < lvl /\ \A j \in i .. lvl - 1 : next \notin L[j]
  <2>1. i \in Inherited(next) <=> i \in 0 .. lvl - 1
                                  /\ \A j \in i .. lvl - 1 : forward[head][j] # next
    BY DEF Inherited
  <2>2. i \in 0 .. lvl - 1 <=> i < lvl
    BY <1>5
  <2> QED
    BY <1>4, <1>5, <2>1, <2>2
<1>8. i < lvl => i \in i .. lvl - 1
  BY <1>5
<1> QED
  BY <1>6, <1>7, <1>8

\* The removal of the head puts its successor in its place on all levels.
LEMMA RemoveHeadShapes ==
  ASSUME NEW M, NEW L, Shape(M, L), NEW h, h = head, head # NULL,
         NEW next, next = forward[h][0], next # NULL, RemoveHead
  PROVE  \E N : Shape(M \ {h}, N)'
<1>1. PICK N : N = [i \in Levels |-> (L[i] \ {h}) \cup {next}]
  OBVIOUS
<1>2. \A i \in Levels : N[i] = (L[i] \ {h}) \cup {next}
  BY <1>1
<1>3. /\ M \in SUBSET Nat /\ M \in SUBSET Keys /\ NULL \notin M
      /\ L[0] = M /\ 0 \in Levels /\ Levels \in SUBSET Nat
      /\ \A i \in Levels : L[i] \in SUBSET Nat /\ L[i] \in SUBSET Keys /\ L[i] \in SUBSET M
  BY LevelNumbers, Numbers DEF Shape
<1>4. /\ h \in M /\ h \in Nat /\ h \in Keys /\ \A j \in M : h <= j
      /\ \A i \in Levels : h \in L[i] /\ (i >= lvl => L[i] \subseteq {h})
  <2>1. /\ h \in M /\ h \in Nat /\ h \in Keys /\ \A i \in Levels : h \in L[i]
    BY <1>3, HeadOnLevels
  <2> QED
    BY <2>1 DEF Shape, Ended
<1>5. next \in M /\ next \in Nat /\ next \in Keys /\ h < next /\ \A j \in M : j = h \/ next <= j
  <2>1. Follows(M, h, next)
    BY <1>3, <1>4, LinksOf
  <2>2. next \in M /\ next > h /\ \A j \in M : j <= h \/ next <= j
    BY <2>1 DEF Follows
  <2>3. next \in Nat /\ next \in Keys
    BY <1>3, <2>2
  <2>4. \A j \in M : j <= h => j = h
    BY <1>3, <1>4
  <2> QED
    BY <1>4, <2>2, <2>3, <2>4
<1>6. \A i \in Levels : i \in Inherited(next) <=> i < lvl /\ next \notin L[i]
  BY <1>5, InheritedLevels
<1>7. lvl \in 1 .. MaxLevs /\ lvl \in Nat /\ lvl >= 1 /\ MaxLevs \in Nat
  BY Numbers DEF Shape, Ended
<1> DEFINE links == [e \in Keys |->
                       IF e = h THEN NoLinks
                       ELSE IF e = next
                       THEN [i \in Levels |-> IF i \in Inherited(next)
                                              THEN forward[h][i] ELSE forward[e][i]]
                       ELSE forward[e]]
<1>8. /\ forward' = links
      /\ previous' = [e \in Keys |-> IF e = next THEN NULL ELSE previous[e]]
      /\ head' = next /\ tail' = tail /\ lvl' = Shrink(links, next)
      /\ sz' = sz - 1
  BY DEF RemoveHead
<1>9. ASSUME NEW e \in Keys, NEW i \in Levels
      PROVE  links[e][i] = IF e = h THEN NULL
                           ELSE IF e = next /\ i < lvl /\ next \notin L[i] THEN forward[h][i]
                           ELSE forward[e][i]
  BY <1>6 DEF NoLinks
<1>10. ASSUME NEW e \in Keys, NEW i \in Levels
       PROVE  /\ links[e][i] \in Keys \cup {NULL}
              /\ e \in N[i] => Follows(N[i], e, links[e][i])
              /\ e \notin N[i] => links[e][i] = NULL
  <2> DEFINE new == links[e][i]
  <2>1. new = IF e = h THEN NULL
              ELSE IF e = next /\ i < lvl /\ next \notin L[i] THEN forward[h][i]
              ELSE forward[e][i]
    BY <1>9
  <2>2. /\ forward[e][i] \in Keys \cup {NULL}
        /\ e \in L[i] => Follows(L[i], e, forward[e][i])
        /\ e \notin L[i] => forward[e][i] = NULL
    BY LinksOf
  <2>3. forward[h][i] \in Keys \cup {NULL} /\ Follows(L[i], h, forward[h][i])
    BY <1>4, LinksOf
  <2>4. /\ N[i] = (L[i] \ {h}) \cup {next}
        /\ L[i] \in SUBSET Nat /\ L[i] \in SUBSET M /\ NULL \notin L[i]
        /\ i \in Nat /\ e \in Nat
    BY <1>2, <1>3, Numbers
  <2> SUFFICES /\ new \in Keys \cup {NULL}
               /\ e \in N[i] => Follows(N[i], e, new)
               /\ e \notin N[i] => new = NULL
    OBVIOUS
  <2> HIDE DEF new, links
  <2>5. CASE e = h
    BY <1>4, <1>5, <2>1, <2>4, <2>5
  <2>6. CASE e = next /\ i < lvl /\ next \notin L[i]
    <3>1. new = forward[h][i]
      BY <1>4, <1>5, <2>1, <2>6
    <3>2. CASE new = NULL
      <4>1. \A j \in L[i] : j <= h
        BY <2>3, <2>4, <3>1, <3>2 DEF Follows
      <4>2. N[i] = {next}
        BY <1>4, <2>4, <4>1
      <4> QED
        BY <1>5, <2>6, <3>2, <4>2 DEF Follows
    <3>3. CASE new # NULL
      <4>1. new \in L[i] /\ new > h /\ \A j \in L[i] : j <= h \/ new <= j
        BY <2>3, <3>1, <3>3 DEF Follows
      <4>2. new \in M /\ new \in Nat /\ new # h /\ new # next
        BY <1>4, <2>4, <2>6, <4>1
      <4>3. new > next
        BY <1>5, <4>2
      <4>4. \A j \in N[i] : j <= next \/ new <= j
        BY <1>4, <1>5, <2>4, <4>1
      <4> QED
        BY <2>3, <2>4, <2>6, <3>1, <4>1, <4>2, <4>3, <4>4 DEF Follows
    <3> QED
      BY <3>2, <3>3
  <2>7. CASE e = next /\ ~ (i < lvl) /\ next \notin L[i]
    <3>1. new = NULL
      BY <1>4, <1>5, <2>1, <2>2, <2>7
    <3>2. N[i] = {next}
      BY <1>4, <1>7, <2>4, <2>7
    <3> QED
      BY <1>5, <2>7, <3>1, <3>2 DEF Follows
  <2>8. CASE e # h /\ e \in L[i]
    <3>1. new = forward[e][i] /\ h < e /\ next <= e
      BY <1>4, <1>5, <2>1, <2>4, <2>8
    <3>2. CASE new = NULL
      <4>1. \A j \in L[i] : j <= e
        BY <2>2, <2>4, <2>8, <3>1, <3>2 DEF Follows
      <4> QED
        BY <2>4, <2>8, <3>1, <3>2, <4>1 DEF Follows
    <3>3. CASE new # NULL
      <4>1. new \in L[i] /\ new > e /\ \A j \in L[i] : j <= e \/ new <= j
        BY <2>2, <2>8, <3>1, <3>3 DEF Follows
      <4>2. new # h
        BY <1>4, <2>4, <3>1, <4>1
      <4> QED
        BY <2>2, <2>4, <2>8, <3>1, <4>1, <4>2 DEF Follows
    <3> QED
      BY <3>2, <3>3
  <2>9. CASE e # h /\ e # next /\ e \notin L[i]
    BY <2>1, <2>2, <2>4, <2>9
  <2> QED
    BY <1>4, <1>5, <2>5, <2>6, <2>7, <2>8, <2>9
<1>11. Shrink(links, next) \in 1 .. lvl /\ \A i \in Levels :
         i < lvl /\ i >= Shrink(links, next) => links[next][i] = NULL
  <2> DEFINE high == {1} \cup {l \in 1 .. lvl : links[next][l - 1] # NULL}
  <2>1. Shrink(links, next) = Max(high)
    BY DEF Shrink
  <2>2. high \in SUBSET Nat /\ 1 \in high /\ \A l \in high : l \in 1 .. lvl /\ l < lvl + 1
    BY <1>7
  <2>3. \A i \in Levels : i < lvl /\ links[next][i] # NULL => i + 1 \in high
    <3> SUFFICES ASSUME NEW i \in Levels, i < lvl, links[next][i] # NULL PROVE i + 1 \in high
      OBVIOUS
    <3>1. i \in Nat /\ i + 1 \in 1 .. lvl /\ (i + 1) - 1 = i
      BY <1>3, <1>7
    <3> HIDE DEF links
    <3> QED
      BY <3>1
  <2> HIDE DEF high, links
  <2>4. PICK m \in high : \A l \in high : l <= m
    <3>1. lvl + 1 \in Int /\ \A l \in high : l < lvl + 1
      BY <1>7, <2>2
    <3>2. 1 < lvl + 1
      BY <2>2
    <3> QED
      BY ONLY <2>2, <3>1, <3>2, LastBelow
  <2>5. Max(high) = m
    BY ONLY <2>2, <2>4, GreatestIsMax
  <2>6. ASSUME NEW i \in Levels, i < lvl, i >= m PROVE links[next][i] = NULL
    <3> SUFFICES ASSUME links[next][i] # NULL PROVE FALSE
      OBVIOUS
    <3>1. i + 1 <= m
      BY <2>3, <2>4, <2>6
    <3>2. i \in Nat /\ m \in Nat
      BY <1>3, <2>2
    <3> QED
      BY ONLY <2>6, <3>1, <3>2
  <2> QED
    BY <2>1, <2>2, <2>5, <2>6
<1>12. Levelled(M \ {h}, N)'
  <2>1. N \in [Levels -> SUBSET (M \ {h})]
    BY <1>1, <1>3, <1>4, <1>5
  <2>2. N[0] = M \ {h}
    BY <1>2, <1>3, <1>4, <1>5
  <2>3. ASSUME NEW i \in Levels, NEW j \in Levels, i <= j PROVE N[j] \subseteq N[i]
    <3>1. L[j] \subseteq L[i]
      BY <2>3 DEF Shape, Levelled
    <3> QED
      BY <1>2, <3>1
  <2> QED
    BY <1>3, <2>1, <2>2, <2>3 DEF Levelled
<1>13. Ended(M \ {h}, N)'
  <2> HIDE DEF links
  <2>1. lvl' \in 1 .. MaxLevs
    BY <1>7, <1>8, <1>11
  <2>2. ASSUME NEW i \in Levels, i >= lvl' PROVE N[i] \subseteq {next}
    <3>1. CASE i >= lvl
      BY <1>2, <1>4, <3>1
    <3>2. CASE ~ (i >= lvl)
      <4>1. i < lvl
        BY <1>3, <1>7, <3>2
      <4>2. links[next][i] = NULL
        BY <1>8, <1>11, <2>2, <4>1
      <4>3. next \in N[i]
        BY <1>2
      <4>4. Follows(N[i], next, NULL)
        BY <1>5, <1>10, <4>2, <4>3
      <4>5. N[i] \in SUBSET M /\ h \notin N[i]
        BY <1>2, <1>3, <1>4, <1>5
      <4>6. \A j \in N[i] : j <= next
        BY <1>3, <4>4, <4>5 DEF Follows
      <4>7. \A j \in N[i] : next <= j /\ j \in Nat
        BY <1>3, <1>5, <4>5
      <4> QED
        BY <1>5, <4>6, <4>7
    <3> QED
      BY <3>1, <3>2
  <2>3. tail' \in M \ {h} /\ \A j \in M \ {h} : next <= j /\ j <= tail'
    <3>1. tail \in M /\ \A j \in M : j <= tail
      BY <1>4 DEF Shape, Ended
    <3>2. tail # h
      BY <1>3, <1>4, <1>5, <3>1
    <3> QED
      BY <1>5, <1>8, <3>1, <3>2
  <2>4. previous'[next] = NULL
    BY <1>5, <1>8
  <2>5. sz' = Cardinality(M \ {h})
    <3>1. sz = Cardinality(M)
      BY DEF Shape, Ended
    <3>2. IsFiniteSet(M)
      BY LevelNumbers DEF Shape
    <3>3. Cardinality(M \ {h}) = Cardinality(M) - 1
      BY ONLY <3>2, <1>4, FS_RemoveElement
    <3> QED
      BY <1>8, <3>1, <3>3
  <2>6. next \in M \ {h} /\ \A i \in Levels : next \in N[i]
    BY <1>2, <1>4, <1>5
  <2> QED
    BY <1>8, <2>1, <2>2, <2>3, <2>4, <2>5, <2>6 DEF Ended
<1>14. Linking(M \ {h}, N)'
  <2>1. links \in [Keys -> [Levels -> Keys \cup {NULL}]]
    <3> SUFFICES ASSUME NEW e \in Keys PROVE links[e] \in [Levels -> Keys \cup {NULL}]
      OBVIOUS
    <3>1. \A i \in Levels : links[e][i] \in Keys \cup {NULL}
      BY <1>10
    <3>2. forward[e] \in [Levels -> Keys \cup {NULL}]
      BY DEF Shape, Linking
    <3>3. links[e] = [i \in Levels |-> links[e][i]]
      BY <3>2 DEF NoLinks
    <3> QED
      BY ONLY <3>1, <3>3
  <2>2. previous' \in [Keys -> Keys \cup {NULL}]
    BY <1>8 DEF Shape, Linking
  <2>3. ASSUME NEW e \in M \ {h}, links[e][0] # NULL
        PROVE  previous'[links[e][0]] = e
    <3>1. links[e][0] = forward[e][0] /\ e \in Keys
      BY <1>3, <1>5, <1>9
    <3>2. previous[forward[e][0]] = e
      BY <2>3, <3>1 DEF Shape, Linking
    <3>3. forward[e][0] \in M
      BY <1>3, <2>3, <3>1, LinksOf DEF Follows
    <3>4. previous[next] = h
      BY <1>4 DEF Shape, Linking
    <3>5. forward[e][0] # next /\ forward[e][0] \in Keys
      BY <1>3, <2>3, <3>2, <3>3, <3>4
    <3> QED
      BY <1>8, <3>1, <3>2, <3>5
  <2> HIDE DEF links
  <2> QED
    BY <1>8, <1>10, <2>1, <2>2, <2>3 DEF Linking
<1> QED
  BY <1>12, <1>13, <1>14 DEF Shape

\* Each of a list's shapes is that of its members, before and after a step.
LEMMA ShapeMeans ==
  \A M, L : Shape(M, L) => Members = M /\ Links = L /\ Shaped /\ SkipListWhole
BY ShapeOfMembers, ShapeIsWhole DEF Shaped

\* ShapeMeans in the next state.
LEMMA ShapeMeansNext ==
  (\A M, L : Shape(M, L) => Members = M /\ Links = L /\ Shaped /\ SkipListWhole)'
BY ShapeMeans, PTL

\* A step that leaves the skip list alone leaves its members and its shape.
LEMMA SkipListSame ==
  ASSUME UNCHANGED skiplist
  PROVE  Members' = Members /\ (Shaped => Shaped')
<1>1. Members' = Members
  BY DEF skiplist, Members
<1>2. Links' = Links
  BY <1>1 DEF skiplist, Links, Linked
<1> QED
  BY <1>1, <1>2 DEF Shaped, Shape, Levelled, Ended, Linking, skiplist

\* insert adds its key to the members and keeps a shape, whatever the height.
LEMMA InsertAdds ==
  ASSUME Shaped, NEW k \in Keys, k \notin Members, NEW n \in RndLvl, Insert(k, n)
  PROVE  Shaped' /\ Members' = Members \cup {k}
<1>1. PICK M, L : M = Members /\ L = Links
  OBVIOUS
<1>2. Shape(M, L) /\ k \notin M
  BY <1>1 DEF Shaped
<1>3. PICK N : Shape(M \cup {k}, N)'
  BY <1>2, InsertShapes
<1>4. Shaped' /\ Members' = M \cup {k}
  BY <1>3, ShapeMeansNext
<1> QED
  BY <1>1, <1>4

\* remove_head takes the least key out and keeps a shape.
LEMMA RemoveHeadTakes ==
  ASSUME Shaped, head # NULL, RemoveHead
  PROVE  Shaped' /\ Members' = Members \ {head}
<1>1. PICK M, L, h : M = Members /\ L = Links /\ h = head
  OBVIOUS
<1>2. Shape(M, L)
  BY <1>1 DEF Shaped
<1>3. PICK N : Shape(M \ {h}, N)'
  <2>1. CASE forward[h][0] = NULL
    BY <1>1, <1>2, <2>1, RemoveLastShapes
  <2>2. CASE forward[h][0] # NULL
    <3>1. PICK next : next = forward[h][0]
      OBVIOUS
    <3> QED
      BY <1>1, <1>2, <2>2, <3>1, RemoveHeadShapes
  <2> QED
    BY <2>1, <2>2
<1>4. Shaped' /\ Members' = M \ {h}
  BY <1>3, ShapeMeansNext
<1> QED
  BY <1>1, <1>4

\* Head and members of a list with a shape.
LEMMA HeadOfMembers ==
  ASSUME Shaped
  PROVE  /\ Members \in SUBSET Keys
         /\ head = NULL => Members = {}
         /\ head # NULL => head \in Members /\ \A k \in Members : head <= k
<1>1. Shape(Members, Links)
  BY DEF Shaped
<1>2. Members \in SUBSET Keys
  BY DEF Members
<1>3. 0 \in Levels
  BY Numbers
<1>4. /\ head = NULL => Members = {}
      /\ head # NULL => head \in Members
  BY <1>1, <1>3, HeadOnLevels
<1>5. Members # {} => \A k \in Members : head <= k
  BY <1>1 DEF Shape, Ended
<1> QED
  BY <1>2, <1>4, <1>5

\* The types of the skip list.
LEMMA ShapeTypes ==
  ASSUME Shaped
  PROVE  /\ head \in Keys \cup {NULL} /\ tail \in Keys \cup {NULL}
         /\ sz \in 0 .. Cardinality(Keys)
         /\ lvl \in 1 .. MaxLevs
         /\ forward \in [Keys -> [Levels -> Keys \cup {NULL}]]
         /\ previous \in [Keys -> Keys \cup {NULL}]
<1>1. Shape(Members, Links)
  BY DEF Shaped
<1>2. Members \in SUBSET Keys
  BY DEF Members
<1>3. head \in Keys \cup {NULL} /\ tail \in Keys \cup {NULL}
  <2>1. CASE Members = {}
    BY <1>1, <2>1 DEF Shape, Ended
  <2>2. CASE Members # {}
    BY <1>1, <1>2, <2>2 DEF Shape, Ended
  <2> QED
    BY <2>1, <2>2
<1>4. sz \in 0 .. Cardinality(Keys)
  <2>1. sz = Cardinality(Members)
    BY <1>1 DEF Shape, Ended
  <2>2. Cardinality(Members) \in Nat /\ Cardinality(Keys) \in Nat
        /\ Cardinality(Members) <= Cardinality(Keys)
    BY <1>2, Numbers, FS_Subset, FS_CardinalityType
  <2> QED
    BY <2>1, <2>2
<1> QED
  BY <1>1, <1>3, <1>4 DEF Shape, Ended, Linking

\* ShapeTypes in the next state.
LEMMA ShapeTypesNext ==
  ASSUME Shaped'
  PROVE  (/\ head \in Keys \cup {NULL} /\ tail \in Keys \cup {NULL}
          /\ sz \in 0 .. Cardinality(Keys)
          /\ lvl \in 1 .. MaxLevs
          /\ forward \in [Keys -> [Levels -> Keys \cup {NULL}]]
          /\ previous \in [Keys -> Keys \cup {NULL}])'
BY ShapeTypes, PTL

-----------------------------------------------------------------------------
(* Events that move from place to place *)

\* An element joins a list behind the others.
LEMMA AppendHolds ==
  ASSUME NEW S, NEW s \in Seq(S), NEW e \in S
  PROVE  /\ Append(s, e) \in Seq(S) /\ Append(s, e) # <<>>
         /\ \A x : Contains(Append(s, e), x) <=> Contains(s, x) \/ x = e
         /\ NoneTwice(s) /\ ~ Contains(s, e) => NoneTwice(Append(s, e))
<1>1. /\ Append(s, e) \in Seq(S) /\ Len(s) \in Nat /\ Len(Append(s, e)) = Len(s) + 1
      /\ \A i \in 1 .. Len(s) : Append(s, e)[i] = s[i]
      /\ Append(s, e)[Len(s) + 1] = e
  OBVIOUS
<1>2. Append(s, e) # <<>>
  BY <1>1
<1>3. \A x : Contains(Append(s, e), x) <=> Contains(s, x) \/ x = e
  <2> DEFINE t == Append(s, e)
  <2> HIDE DEF t
  <2>1. Len(t) = Len(s) + 1 /\ (\A i \in 1 .. Len(s) : t[i] = s[i]) /\ t[Len(s) + 1] = e
    BY <1>1 DEF t
  <2>2. \A x : Contains(t, x) <=> Contains(s, x) \/ x = e
    BY <1>1, <2>1 DEF Contains
  <2> QED
    BY <2>2 DEF t
<1>4. NoneTwice(s) /\ ~ Contains(s, e) => NoneTwice(Append(s, e))
  <2> DEFINE t == Append(s, e)
  <2> HIDE DEF t
  <2>1. Len(t) = Len(s) + 1 /\ (\A i \in 1 .. Len(s) : t[i] = s[i]) /\ t[Len(s) + 1] = e
    BY <1>1 DEF t
  <2>2. NoneTwice(s) /\ ~ Contains(s, e) => NoneTwice(t)
    BY <1>1, <2>1 DEF Contains, NoneTwice
  <2> QED
    BY <2>2 DEF t
<1> QED
  BY <1>1, <1>2, <1>3, <1>4

\* The first element leaves a list.
LEMMA TailHolds ==
  ASSUME NEW S, NEW s \in Seq(S), s # <<>>
  PROVE  /\ Head(s) \in S /\ Tail(s) \in Seq(S)
         /\ Contains(s, Head(s))
         /\ (Tail(s) = <<>>) = (Len(s) = 1)
         /\ NoneTwice(s) => /\ NoneTwice(Tail(s))
                            /\ \A x : Contains(Tail(s), x) <=> Contains(s, x) /\ x # Head(s)
<1> DEFINE t == Tail(s)
           e == Head(s)
<1>1. /\ e \in S /\ e = s[1] /\ t \in Seq(S)
      /\ Len(s) \in Nat \ {0} /\ Len(t) = Len(s) - 1
      /\ \A i \in 1 .. Len(s) - 1 : t[i] = s[i + 1]
  BY TailEntries
<1> HIDE DEF t, e
<1>2. (t = <<>>) = (Len(s) = 1)
  <2>1. t = <<>> <=> Len(t) = 0
    BY <1>1
  <2> QED
    BY <1>1, <2>1
<1>3. Contains(s, e)
  BY <1>1 DEF Contains
<1>4. ASSUME NoneTwice(s)
      PROVE  NoneTwice(t) /\ \A x : Contains(t, x) <=> Contains(s, x) /\ x # e
  <2>1. NoneTwice(t)
    <3> SUFFICES ASSUME NEW i \in 1 .. Len(t), NEW j \in 1 .. Len(t), t[i] = t[j] PROVE i = j
      BY DEF NoneTwice
    <3>1. i + 1 \in 1 .. Len(s) /\ j + 1 \in 1 .. Len(s) /\ s[i + 1] = s[j + 1]
      BY <1>1
    <3>2. i + 1 = j + 1
      BY <1>4, <3>1 DEF NoneTwice
    <3> QED
      BY <3>2
  <2>2. ASSUME NEW x, Contains(t, x) PROVE Contains(s, x) /\ x # e
    <3>1. PICK i \in 1 .. Len(t) : t[i] = x
      BY <2>2 DEF Contains
    <3>2. i + 1 \in 1 .. Len(s) /\ s[i + 1] = x /\ 1 \in 1 .. Len(s) /\ i + 1 # 1
      BY <1>1, <3>1
    <3> QED
      BY <1>1, <1>4, <3>2 DEF Contains, NoneTwice
  <2>3. ASSUME NEW x, Contains(s, x), x # e PROVE Contains(t, x)
    <3>1. PICK i \in 1 .. Len(s) : s[i] = x
      BY <2>3 DEF Contains
    <3>2. i # 1
      BY <1>1, <2>3, <3>1
    <3>3. i - 1 \in 1 .. Len(t) /\ i - 1 \in 1 .. Len(s) - 1 /\ (i - 1) + 1 = i
      BY <1>1, <3>2
    <3>4. t[i - 1] = x
      BY <1>1, <3>1, <3>3
    <3> QED
      BY <3>3, <3>4 DEF Contains
  <2> QED
    BY <2>1, <2>2, <2>3
<1> QED
  BY <1>1, <1>2, <1>3, <1>4 DEF t, e

\* An event that waits in no entry joins one.
LEMMA EventAdded ==
  ASSUME Shaped, Entries, NEW e \in Events, NEW t \in Keys,
         \A k \in Keys : ~ Waiting(e, k), AddEvent(e, t)
  PROVE  /\ Shaped' /\ Entries'
         /\ Members' = Members \cup {t}
         /\ \A x : \A k \in Keys : Waiting(x, k)' <=> Waiting(x, k) \/ (x = e /\ k = t)
<1>1. entries \in [Keys -> Seq(Events)] /\ entries' = [entries EXCEPT ![t] = Append(@, e)]
  BY DEF Entries, AddEvent
<1>2. Shaped' /\ Members' = Members \cup {t}
  <2>1. Search(t) <=> t \in Members
    BY SearchFinds DEF Shaped
  <2>2. CASE Search(t)
    <3>1. UNCHANGED skiplist
      BY <2>2 DEF AddEvent
    <3> QED
      BY <2>1, <2>2, <3>1, SkipListSame
  <2>3. CASE ~ Search(t)
    <3>1. PICK n \in RndLvl : Insert(t, n)
      BY <2>3 DEF AddEvent
    <3> QED
      BY <2>1, <2>3, <3>1, InsertAdds
  <2> QED
    BY <2>2, <2>3
<1>3. \A k \in Keys : entries'[k] = IF k = t THEN Append(entries[t], e) ELSE entries[k]
  BY <1>1
<1>4. /\ Append(entries[t], e) \in Seq(Events) /\ Append(entries[t], e) # <<>>
      /\ \A x : Contains(Append(entries[t], e), x) <=> Contains(entries[t], x) \/ x = e
      /\ NoneTwice(Append(entries[t], e))
  <2>1. entries[t] \in Seq(Events)
    BY <1>1
  <2>2. NoneTwice(entries[t]) /\ ~ Contains(entries[t], e)
    BY DEF Entries, Waiting
  <2> QED
    BY <2>1, <2>2, AppendHolds
<1>5. Entries'
  <2>1. entries' \in [Keys -> Seq(Events)]
    BY <1>1, <1>4
  <2>2. \A k \in Keys : NoneTwice(entries'[k])
    BY <1>3, <1>4 DEF Entries
  <2>3. \A k \in Keys : k \in Members' <=> entries'[k] # <<>>
    BY <1>2, <1>3, <1>4 DEF Entries
  <2> QED
    BY <2>1, <2>2, <2>3 DEF Entries, NoneTwice
<1>6. \A x : \A k \in Keys : Waiting(x, k)' <=> Waiting(x, k) \/ (x = e /\ k = t)
  BY <1>3, <1>4 DEF Waiting
<1> QED
  BY <1>2, <1>5, <1>6

-----------------------------------------------------------------------------
(* The actions keep the invariant *)

USE DEF Events, StartOrder, Idle

\* An event is added one interval from now: a key of the list, and later.
LEMMA SecondsAhead ==
  ASSUME TypeOK, NEW e \in Events
  PROVE  /\ now + interval[e] \in Keys /\ now + interval[e] > now
         /\ now \in Nat /\ interval[e] \in Nat /\ interval[e] > 0
<1>1. /\ interval[e] \in 1 .. MaxInterval /\ now \in 0 .. MaxNow
      /\ MaxInterval \in Nat /\ MaxNow \in Nat /\ Keys = 1 .. MaxNow + MaxInterval
  BY EventQueueAssumption DEF EventQueueAssumption, TypeOK
<1> QED
  BY <1>1

\* The variables that are not those of the skip list keep their types.
LoopTypes ==
  /\ interval \in [Events -> 1 .. MaxInterval]
  /\ entries \in [Keys -> Seq(Events)]
  /\ now \in 0 .. MaxNow /\ seen \in 0 .. now
  /\ running \in [ts : Keys \cup {NULL}, events : Seq(Events)]
  /\ pc \in {"start", "run", "select"}
  /\ toadd \in Seq(Events)
  /\ wake \in 0 .. MaxNow + MaxInterval + 61
  /\ tv_usec \in {0, 1}

\* The skip list's types and the loop's make TypeOK.
LEMMA AllTypes ==
  ASSUME Shaped', LoopTypes' PROVE TypeOK'
BY ShapeTypesNext DEF LoopTypes, TypeOK

\* The empty queue, with every event still to be added by start.
LEMMA InitIInv == Init => IInv
<1> SUFFICES ASSUME Init PROVE IInv
  OBVIOUS
<1>1. Shape({}, [i \in Levels |-> {}])
  <2> DEFINE N == [i \in Levels |-> {}]
  <2>1. Levelled({}, N)
    BY Numbers DEF Levelled
  <2>2. Ended({}, N)
    <3>1. 1 \in 1 .. MaxLevs
      BY SkipListAssumption DEF SkipListAssumption
    <3>2. Cardinality({}) = 0
      BY FS_EmptySet
    <3> QED
      BY <3>1, <3>2 DEF Ended, Init, SkipListInit
  <2>3. Linking({}, N)
    BY DEF Linking, Init, SkipListInit, NoLinks
  <2> QED
    BY <2>1, <2>2, <2>3 DEF Shape
<1>2. Shaped /\ Members = {}
  BY <1>1, ShapeMeans
<1>3. LoopTypes
  <2>1. MaxNow \in Nat /\ MaxInterval \in Nat
    BY EventQueueAssumption DEF EventQueueAssumption
  <2>2. StartOrder \in Seq(Events)
    OBVIOUS
  <2> QED
    BY <2>1, <2>2 DEF Init, LoopTypes
<1>4. TypeOK
  BY <1>2, <1>3, ShapeTypes DEF TypeOK, LoopTypes
<1>5. Lists
  <2>1. NoneTwice(StartOrder) /\ NoneTwice(<<>>)
    BY DEF NoneTwice
  <2>2. Entries
    BY <1>2, <2>1 DEF Init, Entries
  <2> QED
    BY <2>1, <2>2 DEF Init, Lists
<1>6. OnePlace
  <2>1. \A e : ~ Contains(<<>>, e)
    BY DEF Contains
  <2>2. \A e \in Events : Contains(StartOrder, e)
    <3>1. 1 \in 1 .. Len(StartOrder) /\ 2 \in 1 .. Len(StartOrder) /\ 3 \in 1 .. Len(StartOrder)
      OBVIOUS
    <3>2. StartOrder[1] = "probe" /\ StartOrder[2] = "save" /\ StartOrder[3] = "update"
      OBVIOUS
    <3> QED
      BY <3>1, <3>2 DEF Contains
  <2>3. \A e : \A k \in Keys : ~ Waiting(e, k)
    BY <2>1 DEF Init, Waiting
  <2>4. toadd = StartOrder /\ running.events = <<>>
    BY DEF Init
  <2> QED
    BY ONLY <2>1, <2>2, <2>3, <2>4 DEF OnePlace, PlaceOf
<1>7. RunsTheEarliest /\ StartsFirst /\ WakesInTime
  BY DEF Init, RunsTheEarliest, StartsFirst, WakesInTime
<1> QED
  BY <1>2, <1>4, <1>5, <1>6, <1>7 DEF IInv

\* start adds the next event one interval ahead.
LEMMA StartsKeeps ==
  ASSUME IInv, Starts PROVE IInv'
<1> DEFINE e == Head(toadd)
           t == now + interval[e]
<1>1. /\ toadd \in Seq(Events) /\ toadd # <<>> /\ pc = "start" /\ toadd' = Tail(toadd)
      /\ AddEvent(e, t)
      /\ UNCHANGED <<interval, now, seen, running, wake, tv_usec>>
      /\ pc' = IF Tail(toadd) = <<>> THEN "run" ELSE "start"
  BY DEF Starts, IInv, TypeOK
<1>2. /\ e \in Events /\ Tail(toadd) \in Seq(Events) /\ Contains(toadd, e)
      /\ NoneTwice(Tail(toadd))
      /\ \A x : Contains(Tail(toadd), x) <=> Contains(toadd, x) /\ x # e
  <2>1. NoneTwice(toadd)
    BY DEF IInv, Lists
  <2> QED
    BY <1>1, <2>1, TailHolds
<1>3. t \in Keys
  BY <1>2, SecondsAhead DEF IInv
<1>4. /\ Shaped' /\ Entries'
      /\ \A x : \A k \in Keys : Waiting(x, k)' <=> Waiting(x, k) \/ (x = e /\ k = t)
  <2>1. \A k \in Keys : ~ Waiting(e, k)
    BY <1>2 DEF IInv, OnePlace, PlaceOf
  <2> HIDE DEF e, t
  <2> QED
    BY <1>1, <1>2, <1>3, <2>1, EventAdded DEF IInv, Lists
<1>5. LoopTypes'
  BY <1>1, <1>2, <1>4 DEF IInv, TypeOK, LoopTypes, Entries
<1>6. TypeOK'
  BY <1>4, <1>5, AllTypes
<1>7. running.events = <<>> /\ running' = running
  BY <1>1 DEF IInv, RunsTheEarliest
<1>8. Lists'
  <2>1. NoneTwice(toadd') /\ NoneTwice(running'.events)
    BY <1>1, <1>2, <1>7 DEF IInv, Lists
  <2> QED
    BY <1>4, <2>1 DEF Lists, NoneTwice
<1>9. OnePlace'
  <2> HIDE DEF e, t
  <2>1. /\ \A x : Contains(toadd', x) <=> Contains(toadd, x) /\ x # e
        /\ \A x : Contains(running'.events, x) <=> Contains(running.events, x)
    BY <1>1, <1>2, <1>7
  <2> SUFFICES ASSUME NEW x \in Events PROVE PlaceOf(x)'
    BY DEF OnePlace
  <2>2. PlaceOf(x) /\ PlaceOf(e)
    BY <1>2 DEF IInv, OnePlace
  <2>3. CASE x = e
    BY ONLY <1>2, <1>3, <1>4, <2>1, <2>2, <2>3 DEF PlaceOf
  <2>4. CASE x # e
    BY ONLY <1>3, <1>4, <2>1, <2>2, <2>4 DEF PlaceOf
  <2> QED
    BY <2>3, <2>4
<1>10. RunsTheEarliest' /\ WakesInTime' /\ StartsFirst'
  BY <1>1, <1>7 DEF IInv, RunsTheEarliest, WakesInTime, StartsFirst
<1> QED
  BY <1>4, <1>6, <1>8, <1>9, <1>10 DEF IInv

\* run takes the head: its events leave the queue together.
LEMMA TakesKeeps ==
  ASSUME IInv, Takes PROVE IInv'
<1> DEFINE events == entries[head]
<1>1. /\ pc = "run" /\ running = Idle /\ head # NULL /\ head <= seen
      /\ running' = [ts |-> head, events |-> events]
      /\ entries' = [entries EXCEPT ![head] = <<>>]
      /\ RemoveHead
      /\ UNCHANGED <<interval, now, seen, pc, toadd, wake, tv_usec>>
  BY DEF Takes
<1>2. PICK h : h = head
  OBVIOUS
<1>3. /\ Shaped' /\ Members' = Members \ {h} /\ h \in Members /\ h \in Keys /\ h \in Nat
      /\ \A k \in Members : h <= k /\ k \in Nat
  BY <1>1, <1>2, RemoveHeadTakes, HeadOfMembers, Numbers DEF IInv
<1>4. entries \in [Keys -> Seq(Events)]
  BY DEF IInv, TypeOK
<1>5. /\ events \in Seq(Events) /\ events # <<>> /\ NoneTwice(events)
      /\ \A k \in Keys : entries'[k] = IF k = h THEN <<>> ELSE entries[k]
  BY <1>1, <1>2, <1>3, <1>4 DEF IInv, Lists, Entries
<1>6. \A x : ~ Contains(<<>>, x)
  BY DEF Contains
<1>7. NoneTwice(<<>>)
  BY DEF NoneTwice
<1>8. Lists'
  <2>1. entries' \in [Keys -> Seq(Events)]
    <3>1. <<>> \in Seq(Events)
      OBVIOUS
    <3> QED
      BY ONLY <1>1, <1>4, <3>1
  <2>2. \A k \in Keys : NoneTwice(entries'[k])
    BY <1>5, <1>7 DEF IInv, Lists, Entries
  <2>3. \A k \in Keys : k \in Members' <=> entries'[k] # <<>>
    BY <1>3, <1>5 DEF IInv, Lists, Entries
  <2>4. NoneTwice(toadd') /\ NoneTwice(running'.events)
    BY <1>1, <1>5 DEF IInv, Lists
  <2> QED
    BY <2>1, <2>2, <2>3, <2>4 DEF Lists, Entries, NoneTwice
<1>9. LoopTypes'
  BY <1>1, <1>2, <1>3, <1>4, <1>5 DEF IInv, TypeOK, LoopTypes
<1>10. TypeOK'
  BY <1>3, <1>9, AllTypes
<1>11. OnePlace'
  <2>1. /\ \A x : Contains(toadd', x) <=> Contains(toadd, x)
        /\ \A x : ~ Contains(running.events, x)
        /\ \A x : Contains(running'.events, x) <=> Waiting(x, h)
        /\ \A x : \A k \in Keys : Waiting(x, k)' <=> Waiting(x, k) /\ k # h
    BY <1>1, <1>2, <1>3, <1>5, <1>6 DEF Waiting
  <2> SUFFICES ASSUME NEW x \in Events PROVE PlaceOf(x)'
    BY DEF OnePlace
  <2>2. PlaceOf(x)
    BY DEF IInv, OnePlace
  <2> QED
    BY ONLY <1>3, <2>1, <2>2 DEF PlaceOf
<1>12. RunsTheEarliest' /\ WakesInTime' /\ StartsFirst'
  <2>1. /\ running'.events # <<>> /\ running'.ts = h /\ h <= seen' /\ pc' = "run"
        /\ \A k \in Members' : h < k
    BY <1>1, <1>2, <1>3, <1>5
  <2> QED
    BY <1>1, <1>3, <2>1 DEF IInv, RunsTheEarliest, WakesInTime, StartsFirst
<1> QED
  BY <1>3, <1>8, <1>10, <1>11, <1>12 DEF IInv

\* The event that is executed leaves running and joins an entry.
LEMMA ExecutesOne ==
  ASSUME IInv, Executes
  PROVE  LET e == Head(running.events)
             t == now + interval[e]
         IN  /\ e \in Events /\ t \in Keys /\ pc = "run" /\ toadd = <<>>
             /\ Contains(running.events, e) /\ \A k \in Keys : ~ Waiting(e, k)
             /\ running'.events = Tail(running.events)
             /\ running' \in [ts : Keys \cup {NULL}, events : Seq(Events)]
             /\ running'.events = <<>> => running' = Idle
             /\ running'.events # <<>> => running'.ts = running.ts
             /\ NoneTwice(running'.events)
             /\ \A x : Contains(running'.events, x) <=> Contains(running.events, x) /\ x # e
             /\ seen' \in {seen, now} /\ (running'.events # <<>> => seen' = seen)
             /\ UNCHANGED <<interval, now, pc, toadd, wake, tv_usec>>
             /\ Shaped' /\ Entries' /\ Members' = Members \cup {t}
             /\ \A x : \A k \in Keys : Waiting(x, k)' <=> Waiting(x, k) \/ (x = e /\ k = t)
<1> DEFINE e == Head(running.events)
           t == now + interval[e]
<1>1. /\ pc = "run" /\ running.events # <<>> /\ AddEvent(e, t)
      /\ running' = IF Len(running.events) = 1 THEN Idle
                    ELSE [running EXCEPT !.events = Tail(@)]
      /\ seen' = IF Len(running.events) = 1 THEN now ELSE seen
      /\ UNCHANGED <<interval, now, pc, toadd, wake, tv_usec>>
  BY DEF Executes, Again
<1>2. running \in [ts : Keys \cup {NULL}, events : Seq(Events)] /\ running.events \in Seq(Events)
  BY DEF IInv, TypeOK
<1>3. /\ e \in Events /\ Tail(running.events) \in Seq(Events)
      /\ Contains(running.events, e)
      /\ (Tail(running.events) = <<>>) = (Len(running.events) = 1)
      /\ NoneTwice(Tail(running.events))
      /\ \A x : Contains(Tail(running.events), x) <=> Contains(running.events, x) /\ x # e
  <2>1. NoneTwice(running.events)
    BY DEF IInv, Lists
  <2> QED
    BY <1>1, <1>2, <2>1, TailHolds
<1>4. /\ running'.events = Tail(running.events)
      /\ running' \in [ts : Keys \cup {NULL}, events : Seq(Events)]
      /\ running'.events = <<>> => running' = Idle
      /\ running'.events # <<>> => running'.ts = running.ts
      /\ seen' \in {seen, now} /\ (running'.events # <<>> => seen' = seen)
  <2>1. CASE Len(running.events) = 1
    BY <1>1, <1>3, <2>1
  <2>2. CASE Len(running.events) # 1
    BY <1>1, <1>2, <1>3, <2>2
  <2> QED
    BY <2>1, <2>2
<1>5. t \in Keys
  BY <1>3, SecondsAhead DEF IInv
<1>6. toadd = <<>>
  BY <1>1 DEF IInv, StartsFirst
<1>7. \A k \in Keys : ~ Waiting(e, k)
  BY <1>3 DEF IInv, OnePlace, PlaceOf
<1>8. /\ Shaped' /\ Entries' /\ Members' = Members \cup {t}
      /\ \A x : \A k \in Keys : Waiting(x, k)' <=> Waiting(x, k) \/ (x = e /\ k = t)
  <2> HIDE DEF e, t
  <2> QED
    BY <1>1, <1>3, <1>5, <1>7, EventAdded DEF IInv, Lists
<1> HIDE DEF e, t
<1>9. /\ NoneTwice(running'.events)
      /\ \A x : Contains(running'.events, x) <=> Contains(running.events, x) /\ x # e
  BY <1>3, <1>4
<1> QED
  BY <1>1, <1>3, <1>4, <1>5, <1>6, <1>7, <1>8, <1>9 DEF e, t

\* run executes one event and adds it again one interval ahead.
LEMMA ExecutesKeeps ==
  ASSUME IInv, Executes PROVE IInv'
<1> DEFINE e == Head(running.events)
           t == now + interval[e]
<1>1. /\ e \in Events /\ t \in Keys /\ pc = "run" /\ toadd = <<>>
      /\ Contains(running.events, e)
      /\ running' \in [ts : Keys \cup {NULL}, events : Seq(Events)]
      /\ running'.events = <<>> => running' = Idle
      /\ running'.events # <<>> => running'.ts = running.ts
      /\ NoneTwice(running'.events)
      /\ \A x : Contains(running'.events, x) <=> Contains(running.events, x) /\ x # e
      /\ seen' \in {seen, now} /\ (running'.events # <<>> => seen' = seen)
      /\ UNCHANGED <<interval, now, pc, toadd, wake, tv_usec>>
      /\ Shaped' /\ Entries' /\ Members' = Members \cup {t}
      /\ \A x : \A k \in Keys : Waiting(x, k)' <=> Waiting(x, k) \/ (x = e /\ k = t)
  BY ExecutesOne
<1>2. t > now /\ now \in Nat /\ seen \in 0 .. now
  BY <1>1, SecondsAhead DEF IInv, TypeOK
<1>3. running.events # <<>>
  BY DEF Executes
<1> HIDE DEF e, t
<1>4. LoopTypes'
  <2>1. seen' \in 0 .. now' /\ now' \in 0 .. MaxNow
    BY <1>1, <1>2 DEF IInv, TypeOK
  <2>2. entries' \in [Keys -> Seq(Events)]
    BY <1>1 DEF Entries
  <2> QED
    BY <1>1, <2>1, <2>2 DEF IInv, TypeOK, LoopTypes
<1>5. TypeOK'
  BY <1>1, <1>4, AllTypes
<1>6. Lists'
  BY <1>1 DEF IInv, Lists, NoneTwice
<1>7. OnePlace'
  <2>1. \A x : Contains(toadd', x) <=> Contains(toadd, x)
    BY <1>1
  <2>2. \A x : ~ Contains(toadd, x)
    BY <1>1 DEF Contains
  <2> SUFFICES ASSUME NEW x \in Events PROVE PlaceOf(x)'
    BY DEF OnePlace
  <2>3. PlaceOf(x) /\ PlaceOf(e)
    BY <1>1 DEF IInv, OnePlace
  <2>4. CASE x = e
    BY ONLY <1>1, <2>1, <2>2, <2>3, <2>4 DEF PlaceOf
  <2>5. CASE x # e
    BY ONLY <1>1, <2>1, <2>3, <2>5 DEF PlaceOf
  <2> QED
    BY <2>4, <2>5
<1>8. RunsTheEarliest'
  <2> SUFFICES ASSUME running'.events # <<>>
               PROVE  /\ pc' = "run" /\ running'.ts \in Keys /\ running'.ts <= seen'
                      /\ \A k \in Members' : running'.ts < k
    BY <1>1 DEF RunsTheEarliest
  <2>1. /\ running.ts \in Keys /\ running.ts <= seen
        /\ \A k \in Members : running.ts < k
    BY <1>3 DEF IInv, RunsTheEarliest
  <2>2. running.ts < t
    <3>1. running.ts \in Nat /\ t \in Nat /\ now \in Nat /\ seen \in Nat /\ seen <= now
      <4>1. t \in Keys
        BY <1>1
      <4>2. running.ts \in Nat /\ t \in Nat
        BY ONLY <2>1, <4>1, Numbers
      <4> QED
        BY ONLY <1>2, <4>2
    <3>2. running.ts <= seen /\ t > now
      BY <1>2, <2>1
    <3> QED
      BY ONLY <3>1, <3>2
  <2> QED
    BY <1>1, <2>1, <2>2
<1>9. WakesInTime' /\ StartsFirst'
  BY <1>1 DEF IInv, WakesInTime, StartsFirst
<1> QED
  BY <1>1, <1>5, <1>6, <1>7, <1>8, <1>9 DEF IInv

\* The steps that leave the list and the places alone.
LEMMA PlacesSame ==
  ASSUME IInv, UNCHANGED <<skiplist, interval, entries, running, toadd>>
  PROVE  Shaped' /\ Members' = Members /\ Lists' /\ OnePlace'
<1>1. Shaped' /\ Members' = Members
  BY SkipListSame DEF IInv
<1>2. Lists'
  BY <1>1 DEF IInv, Lists, Entries, NoneTwice
<1>3. OnePlace'
  <2>1. /\ \A x : Contains(toadd', x) <=> Contains(toadd, x)
        /\ \A x : Contains(running'.events, x) <=> Contains(running.events, x)
        /\ \A x : \A k \in Keys : Waiting(x, k)' <=> Waiting(x, k)
    BY DEF Waiting
  <2> SUFFICES ASSUME NEW x \in Events PROVE PlaceOf(x)'
    BY DEF OnePlace
  <2>2. PlaceOf(x)
    BY DEF IInv, OnePlace
  <2> QED
    BY ONLY <2>1, <2>2 DEF PlaceOf
<1> QED
  BY <1>1, <1>2, <1>3

\* select sleeps until the first entry is due, or a fraction of a second longer.
LEMMA SelectsKeeps ==
  ASSUME IInv, Selects PROVE IInv'
<1>1. /\ pc = "run" /\ running = Idle /\ pc' = "select"
      /\ wake' \in now + GetIdleTime .. now + GetIdleTime + tv_usec
      /\ UNCHANGED <<skiplist, interval, entries, now, seen, running, toadd, tv_usec>>
  BY DEF Selects
<1>2. Shaped' /\ Members' = Members /\ Lists' /\ OnePlace'
  BY <1>1, PlacesSame
<1>3. /\ now \in Nat /\ now \in 0 .. MaxNow /\ MaxNow \in Nat /\ MaxInterval \in Nat
      /\ Keys = 1 .. MaxNow + MaxInterval
  BY EventQueueAssumption DEF EventQueueAssumption, IInv, TypeOK
<1>4. /\ Members \in SUBSET Keys
      /\ head = NULL => Members = {}
      /\ head # NULL => head \in Members /\ \A k \in Members : head <= k
  BY HeadOfMembers DEF IInv
<1>5. /\ tv_usec \in {0, 1}
      /\ wake' \in 0 .. MaxNow + MaxInterval + 61
      /\ \A k \in Members : wake' <= k + tv_usec \/ wake' <= now + tv_usec
  <2>1. tv_usec \in {0, 1}
    BY DEF IInv, TypeOK
  <2>2. CASE head = NULL
    <3>1. GetIdleTime = 60
      BY <2>2 DEF GetIdleTime
    <3> QED
      BY <1>1, <1>3, <1>4, <2>1, <2>2, <3>1
  <2>3. CASE head # NULL
    <3>1. head \in Keys /\ head \in Nat
      BY <1>4, <2>3, Numbers
    <3>2. now + GetIdleTime = IF head > now THEN head ELSE now
      BY <1>3, <2>3, <3>1 DEF GetIdleTime
    <3>3. wake' \in Int /\ wake' <= (IF head > now THEN head ELSE now) + tv_usec /\ wake' >= now
      BY <1>1, <1>3, <2>1, <3>1, <3>2
    <3>4. ASSUME NEW k \in Members
          PROVE  wake' <= k + tv_usec \/ wake' <= now + tv_usec
      <4>1. k \in Nat /\ head <= k
        BY <1>4, <2>3, Numbers
      <4> QED
        BY ONLY <1>3, <2>1, <3>1, <3>3, <4>1
    <3>5. wake' \in 0 .. MaxNow + MaxInterval + 61
      BY ONLY <1>3, <2>1, <3>1, <3>3
    <3> QED
      BY <2>1, <3>4, <3>5
  <2> QED
    BY <2>2, <2>3
<1>6. LoopTypes'
  BY <1>1, <1>5 DEF IInv, TypeOK, LoopTypes
<1>7. TypeOK'
  BY <1>2, <1>6, AllTypes
<1>8. RunsTheEarliest' /\ WakesInTime' /\ StartsFirst'
  BY <1>1, <1>2, <1>5 DEF IInv, RunsTheEarliest, WakesInTime, StartsFirst
<1> QED
  BY <1>2, <1>7, <1>8 DEF IInv

\* After select, run sees the time that has come.
LEMMA RunsAgainKeeps ==
  ASSUME IInv, RunsAgain, tv_usec' \in {0, 1} PROVE IInv'
<1>1. /\ pc = "select" /\ pc' = "run" /\ seen' = now
      /\ UNCHANGED <<skiplist, interval, entries, now, running, toadd, wake>>
  BY DEF RunsAgain
<1>2. Shaped' /\ Members' = Members /\ Lists' /\ OnePlace'
  BY <1>1, PlacesSame
<1>3. LoopTypes'
  BY <1>1 DEF IInv, TypeOK, LoopTypes
<1>4. TypeOK'
  BY <1>2, <1>3, AllTypes
<1>5. RunsTheEarliest' /\ WakesInTime' /\ StartsFirst'
  BY <1>1, <1>2 DEF IInv, RunsTheEarliest, WakesInTime, StartsFirst
<1> QED
  BY <1>2, <1>4, <1>5 DEF IInv

\* Time passes, whatever the loop does meanwhile.
LEMMA TickKeeps ==
  ASSUME IInv, Tick PROVE IInv'
<1>1. /\ now < MaxNow /\ pc # "start" /\ now' = now + 1
      /\ UNCHANGED <<skiplist, interval, entries, seen, running, pc, toadd, wake, tv_usec>>
  BY DEF Tick
<1>2. Shaped' /\ Members' = Members /\ Lists' /\ OnePlace'
  BY <1>1, PlacesSame
<1>3. now \in Nat /\ wake \in Nat /\ MaxNow \in Nat /\ tv_usec \in {0, 1}
  BY EventQueueAssumption DEF EventQueueAssumption, IInv, TypeOK
<1>4. LoopTypes'
  BY <1>1, <1>3 DEF IInv, TypeOK, LoopTypes
<1>5. TypeOK'
  BY <1>2, <1>4, AllTypes
<1>6. RunsTheEarliest' /\ StartsFirst'
  BY <1>1, <1>2 DEF IInv, RunsTheEarliest, StartsFirst
<1>7. WakesInTime'
  <2> SUFFICES ASSUME pc = "select", now + 1 < wake, NEW k \in Members
               PROVE  wake <= k + tv_usec \/ wake <= (now + 1) + tv_usec
    BY <1>1, <1>2 DEF WakesInTime
  <2>1. wake <= k + tv_usec \/ wake <= now + tv_usec
    BY <1>3 DEF IInv, WakesInTime
  <2> QED
    BY <1>3, <2>1
<1> QED
  BY <1>2, <1>5, <1>6, <1>7 DEF IInv

\* Every step keeps the inductive invariant.
LEMMA NextKeeps == IInv /\ [Next]_vars => IInv'
<1> SUFFICES ASSUME IInv, [Next]_vars PROVE IInv'
  OBVIOUS
<1>1. CASE Starts
  BY <1>1, StartsKeeps
<1>2. CASE Takes
  BY <1>2, TakesKeeps
<1>3. CASE Executes
  BY <1>3, ExecutesKeeps
<1>4. CASE Selects
  BY <1>4, SelectsKeeps
<1>5. CASE Wakes \/ Packet
  BY <1>5, RunsAgainKeeps DEF Wakes, Packet
<1>6. CASE Tick
  BY <1>6, TickKeeps
<1>7. CASE UNCHANGED vars
  <2>1. UNCHANGED <<skiplist, interval, entries, now, seen, running, pc, toadd, wake, tv_usec>>
    BY <1>7 DEF vars, loop
  <2>2. Shaped' /\ Members' = Members /\ Lists' /\ OnePlace'
    BY <2>1, PlacesSame
  <2>3. LoopTypes'
    BY <2>1 DEF IInv, TypeOK, LoopTypes
  <2>4. TypeOK'
    BY <2>2, <2>3, AllTypes
  <2>5. RunsTheEarliest' /\ WakesInTime' /\ StartsFirst'
    BY <2>1, <2>2 DEF IInv, RunsTheEarliest, WakesInTime, StartsFirst
  <2> QED
    BY <2>2, <2>4, <2>5 DEF IInv
<1> QED
  BY <1>1, <1>2, <1>3, <1>4, <1>5, <1>6, <1>7 DEF Next, Daemon

-----------------------------------------------------------------------------
(* The agenda: when each event is due, by its place *)

\* What DueOf says of an event in each place.
LEMMA DueByPlace ==
  IInv => \A e \in Events :
            /\ Contains(toadd, e) => DueOf(e) = now + interval[e]
            /\ Contains(running.events, e) => DueOf(e) = running.ts
            /\ \A k \in Keys : Waiting(e, k) => DueOf(e) = k
<1> SUFFICES ASSUME IInv, NEW e \in Events
             PROVE  /\ Contains(toadd, e) => DueOf(e) = now + interval[e]
                    /\ Contains(running.events, e) => DueOf(e) = running.ts
                    /\ \A k \in Keys : Waiting(e, k) => DueOf(e) = k
  OBVIOUS
<1>1. PlaceOf(e)
  BY DEF IInv, OnePlace
<1>2. ASSUME NEW k \in Keys, Waiting(e, k) PROVE DueOf(e) = k
  <2>1. ~ Contains(toadd, e) /\ ~ Contains(running.events, e)
    BY <1>1, <1>2 DEF PlaceOf
  <2>2. \A l \in Keys : Waiting(e, l) => l = k
    BY <1>1, <1>2 DEF PlaceOf
  <2>3. (CHOOSE l \in Keys : Waiting(e, l)) = k
    BY <1>2, <2>2
  <2> QED
    BY <2>1, <2>3 DEF DueOf, Waiting
<1> QED
  BY <1>1, <1>2 DEF DueOf, PlaceOf

\* DueByPlace in the next state.
LEMMA DueByPlaceNext ==
  IInv' => \A e \in Events :
             /\ Contains(toadd', e) => DueOf(e)' = now' + interval'[e]
             /\ Contains(running'.events, e) => DueOf(e)' = running'.ts
             /\ \A k \in Keys : Waiting(e, k)' => DueOf(e)' = k
<1>1. (IInv => \A e \in Events :
                 /\ Contains(toadd, e) => DueOf(e) = now + interval[e]
                 /\ Contains(running.events, e) => DueOf(e) = running.ts
                 /\ \A k \in Keys : Waiting(e, k) => DueOf(e) = k)'
  BY DueByPlace, PTL
<1> QED
  BY <1>1

\* An event whose place and time stay is due when it was.
LEMMA SameDue ==
  ASSUME IInv, IInv', UNCHANGED interval, NEW x \in Events,
         Contains(toadd, x) => Contains(toadd', x) /\ now' = now,
         Contains(running.events, x) => Contains(running'.events, x) /\ running'.ts = running.ts,
         \A k \in Keys : Waiting(x, k) =>
           Waiting(x, k)' \/ (Contains(running'.events, x) /\ running'.ts = k)
  PROVE  DueOf(x)' = DueOf(x)
<1>1. PlaceOf(x)
  BY DEF IInv, OnePlace
<1>2. CASE Contains(toadd, x)
  BY <1>2, DueByPlace, DueByPlaceNext
<1>3. CASE Contains(running.events, x)
  BY <1>3, DueByPlace, DueByPlaceNext
<1>4. CASE \E k \in Keys : Waiting(x, k)
  <2>1. PICK k \in Keys : Waiting(x, k)
    BY <1>4
  <2> QED
    BY <2>1, DueByPlace, DueByPlaceNext
<1> QED
  BY <1>1, <1>2, <1>3, <1>4 DEF PlaceOf

due == [e \in Events |-> DueOf(e)]

\* At first every event is due one interval from the start.
LEMMA InitAgenda == Init => A!Init
<1> SUFFICES ASSUME Init PROVE A!Init
  OBVIOUS
<1>1. \A e \in Events : Contains(toadd, e)
  <2>1. 1 \in 1 .. Len(StartOrder) /\ 2 \in 1 .. Len(StartOrder) /\ 3 \in 1 .. Len(StartOrder)
    OBVIOUS
  <2>2. StartOrder[1] = "probe" /\ StartOrder[2] = "save" /\ StartOrder[3] = "update"
    OBVIOUS
  <2> QED
    BY <2>1, <2>2 DEF Contains, Init
<1>2. IInv
  BY InitIInv
<1>3. \A e \in Events : DueOf(e) = interval[e]
  <2> SUFFICES ASSUME NEW e \in Events PROVE DueOf(e) = interval[e]
    OBVIOUS
  <2>1. DueOf(e) = now + interval[e] /\ now = 0
    BY <1>1, <1>2, DueByPlace DEF Init
  <2>2. interval[e] \in Nat
    BY <1>2, SecondsAhead DEF IInv
  <2> QED
    BY <2>1, <2>2
<1>4. interval \in [Events -> 1 .. MaxInterval] /\ now = 0
  BY DEF Init
<1>5. due = interval
  BY <1>3, <1>4 DEF due
<1> QED
  BY <1>4, <1>5 DEF A!Init, due

\* What start adds was due at the same time before.
LEMMA StartsAgenda ==
  ASSUME IInv, IInv', Starts PROVE UNCHANGED A!vars
<1> PICK e, t : e = Head(toadd) /\ t = now + interval[e]
  OBVIOUS
<1>1. /\ toadd \in Seq(Events) /\ toadd # <<>> /\ pc = "start" /\ toadd' = Tail(toadd)
      /\ AddEvent(e, t) /\ UNCHANGED <<interval, now, running>>
  BY DEF Starts, IInv, TypeOK
<1>2. /\ e \in Events /\ Contains(toadd, e)
      /\ \A x : Contains(Tail(toadd), x) <=> Contains(toadd, x) /\ x # e
  <2>1. NoneTwice(toadd)
    BY DEF IInv, Lists
  <2> QED
    BY <1>1, <2>1, TailHolds
<1>3. t \in Keys
  BY <1>2, SecondsAhead DEF IInv
<1>4. \A x : \A k \in Keys : Waiting(x, k)' <=> Waiting(x, k) \/ (x = e /\ k = t)
  <2>1. \A k \in Keys : ~ Waiting(e, k)
    BY <1>2 DEF IInv, OnePlace, PlaceOf
  <2> QED
    BY <1>1, <1>2, <1>3, <2>1, EventAdded DEF IInv, Lists
<1>5. ASSUME NEW x \in Events PROVE DueOf(x)' = DueOf(x)
  <2>1. CASE x = e
    <3>1. DueOf(e) = t
      BY <1>2, DueByPlace
    <3>2. Waiting(e, t)'
      BY <1>3, <1>4
    <3>3. DueOf(e)' = t
      BY <1>2, <1>3, <3>2, DueByPlaceNext
    <3> QED
      BY <2>1, <3>1, <3>3
  <2>2. CASE x # e
    <3>1. Contains(toadd, x) => Contains(toadd', x) /\ now' = now
      BY <1>1, <1>2, <2>2
    <3>2. Contains(running.events, x) => Contains(running'.events, x) /\ running'.ts = running.ts
      BY <1>1
    <3> QED
      BY <1>1, <1>4, <3>1, <3>2, SameDue
  <2> QED
    BY <2>1, <2>2
<1>6. due' = due
  BY <1>5 DEF due
<1> QED
  BY <1>1, <1>6 DEF A!vars, due

\* The events of the entry that is taken are due when they were.
LEMMA TakesAgenda ==
  ASSUME IInv, IInv', Takes PROVE UNCHANGED A!vars
<1>1. /\ running = Idle /\ head # NULL
      /\ running' = [ts |-> head, events |-> entries[head]]
      /\ entries' = [entries EXCEPT ![head] = <<>>]
      /\ UNCHANGED <<interval, now, toadd>>
  BY DEF Takes
<1>2. head \in Keys
  BY <1>1, HeadOfMembers DEF IInv
<1>3. entries \in [Keys -> Seq(Events)]
  BY DEF IInv, TypeOK
<1>4. /\ \A x : Contains(toadd', x) <=> Contains(toadd, x)
      /\ \A x : ~ Contains(running.events, x)
      /\ \A x : Contains(running'.events, x) <=> Waiting(x, head)
      /\ \A x : \A k \in Keys : k # head => (Waiting(x, k)' <=> Waiting(x, k))
      /\ running'.ts = head
  BY <1>1, <1>2, <1>3 DEF Waiting, Contains
<1>5. ASSUME NEW x \in Events PROVE DueOf(x)' = DueOf(x)
  <2>1. \A k \in Keys : Waiting(x, k) =>
          Waiting(x, k)' \/ (Contains(running'.events, x) /\ running'.ts = k)
    BY <1>4
  <2> QED
    BY <1>1, <1>4, <2>1, SameDue
<1>6. due' = due
  BY <1>5 DEF due
<1> QED
  BY <1>1, <1>6 DEF A!vars, due

\* The event that is executed was due, no other was due before it, and it is
\* due again one interval from now.
LEMMA ExecutesAgenda ==
  ASSUME IInv, IInv', Executes PROVE \E e \in Events : A!Execute(e)
<1> PICK e, t : e = Head(running.events) /\ t = now + interval[e]
  OBVIOUS
<1>1. /\ e \in Events /\ t \in Keys /\ toadd = <<>>
      /\ Contains(running.events, e)
      /\ running'.events # <<>> => running'.ts = running.ts
      /\ \A x : Contains(running'.events, x) <=> Contains(running.events, x) /\ x # e
      /\ UNCHANGED <<interval, now, toadd>>
      /\ \A x : \A k \in Keys : Waiting(x, k)' <=> Waiting(x, k) \/ (x = e /\ k = t)
  BY ExecutesOne
<1>2. running.events # <<>>
  BY DEF Executes
<1>3. /\ running.ts \in Keys /\ running.ts <= seen /\ seen <= now
      /\ running.ts \in Nat /\ seen \in Nat /\ now \in Nat
      /\ \A k \in Members : running.ts < k
  <2>1. /\ running.ts \in Keys /\ running.ts <= seen
        /\ \A k \in Members : running.ts < k
    BY <1>2 DEF IInv, RunsTheEarliest
  <2>2. now \in 0 .. MaxNow /\ seen \in 0 .. now
    BY DEF IInv, TypeOK
  <2>3. MaxNow \in Nat
    BY EventQueueAssumption DEF EventQueueAssumption
  <2>4. now \in Nat /\ seen \in Nat /\ seen <= now
    BY ONLY <2>2, <2>3
  <2>5. running.ts \in Nat
    BY ONLY <2>1, Numbers
  <2> QED
    BY ONLY <2>1, <2>4, <2>5
<1>4. \A x : ~ Contains(toadd, x)
  BY <1>1 DEF Contains
<1>5. due[e] = running.ts
  BY <1>1, DueByPlace DEF due
<1>6. ASSUME NEW f \in Events PROVE due[e] <= due[f]
  <2>1. PlaceOf(f)
    BY DEF IInv, OnePlace
  <2>2. CASE Contains(running.events, f)
    <3>1. due[f] = running.ts
      BY <2>2, DueByPlace DEF due
    <3> QED
      BY <1>3, <1>5, <3>1
  <2>3. CASE \E k \in Keys : Waiting(f, k)
    <3>1. PICK k \in Keys : Waiting(f, k)
      BY <2>3
    <3>2. due[f] = k
      BY <3>1, DueByPlace DEF due
    <3>3. k \in Members
      <4>1. entries[k] # <<>>
        BY <3>1 DEF Waiting, Contains
      <4> QED
        BY <4>1 DEF IInv, Lists, Entries
    <3>4. k \in Nat
      BY Numbers
    <3> QED
      BY <1>3, <1>5, <3>2, <3>3, <3>4
  <2> QED
    BY <1>4, <2>1, <2>2, <2>3 DEF PlaceOf
<1>7. due' = [due EXCEPT ![e] = now + interval[e]]
  <2>1. DueOf(e)' = t
    <3>1. Waiting(e, t)'
      BY <1>1
    <3> QED
      BY <1>1, <3>1, DueByPlaceNext
  <2>2. ASSUME NEW x \in Events, x # e PROVE DueOf(x)' = DueOf(x)
    <3>1. Contains(running.events, x) => Contains(running'.events, x) /\ running'.ts = running.ts
      <4> SUFFICES ASSUME Contains(running.events, x)
                   PROVE  Contains(running'.events, x) /\ running'.ts = running.ts
        OBVIOUS
      <4>1. Contains(running'.events, x)
        BY <1>1, <2>2
      <4>2. running'.events # <<>>
        BY <4>1 DEF Contains
      <4> QED
        BY <1>1, <4>1, <4>2
    <3>2. \A k \in Keys : Waiting(x, k) => Waiting(x, k)'
      BY <1>1
    <3> QED
      BY <1>1, <1>4, <3>1, <3>2, SameDue
  <2> QED
    BY <1>1, <2>1, <2>2 DEF due
<1>8. due[e] <= now
  BY <1>3, <1>5
<1> QED
  BY <1>1, <1>6, <1>7, <1>8 DEF A!Execute, due

\* All other steps leave the agenda alone, but for the clock.
LEMMA OthersAgenda ==
  ASSUME IInv, IInv', Selects \/ RunsAgain \/ Tick \/ UNCHANGED vars
  PROVE  A!Tick \/ UNCHANGED A!vars
<1>1. /\ UNCHANGED <<interval, entries, running, toadd>>
      /\ \/ now' = now
         \/ pc # "start" /\ now < MaxNow /\ now' = now + 1
  BY DEF Selects, RunsAgain, Tick, vars, loop
<1>2. ASSUME NEW x \in Events PROVE DueOf(x)' = DueOf(x)
  <2>1. Contains(toadd, x) => Contains(toadd', x) /\ now' = now
    <3> SUFFICES ASSUME Contains(toadd, x) PROVE Contains(toadd', x) /\ now' = now
      OBVIOUS
    <3>1. toadd # <<>>
      BY DEF Contains
    <3> QED
      BY <1>1, <3>1 DEF IInv, StartsFirst
  <2>2. \A k \in Keys : Waiting(x, k) => Waiting(x, k)'
    BY <1>1 DEF Waiting
  <2> QED
    BY <1>1, <2>1, <2>2, SameDue
<1>3. due' = due
  BY <1>2 DEF due
<1> QED
  BY <1>1, <1>3 DEF A!Tick, A!vars, due

-----------------------------------------------------------------------------
(* The theorems *)

\* The inductive invariant holds throughout.
THEOREM Invariance == Spec => []IInv
<1>1. IInv /\ [Next]_vars => IInv'
  BY NextKeeps
<1> QED
  BY InitIInv, <1>1, PTL DEF Spec

\* A list has an element in one position or in none.
LEMMA PositionsOf ==
  ASSUME NEW S, NEW s \in Seq(S), NoneTwice(s), NEW e
  PROVE  Cardinality({i \in DOMAIN s : s[i] = e}) = IF Contains(s, e) THEN 1 ELSE 0
<1>1. DOMAIN s = 1 .. Len(s)
  OBVIOUS
<1>2. CASE Contains(s, e)
  <2>1. PICK i \in 1 .. Len(s) : s[i] = e
    BY <1>2 DEF Contains
  <2>2. {j \in DOMAIN s : s[j] = e} = {i}
    BY <1>1, <2>1 DEF NoneTwice
  <2>3. Cardinality({i}) = 1
    BY FS_Singleton
  <2> QED
    BY <1>2, <2>2, <2>3
<1>3. CASE ~ Contains(s, e)
  <2>1. {j \in DOMAIN s : s[j] = e} = {}
    BY <1>1, <1>3 DEF Contains
  <2>2. Cardinality({}) = 0
    BY FS_EmptySet
  <2> QED
    BY <1>3, <2>1, <2>2
<1> QED
  BY <1>2, <1>3

\* The skip list is whole whatever is inserted with whatever height, and the
\* events never die out nor double.
THEOREM QueueStaysWhole == Spec => []Inv
<1>1. IInv => Inv
  <2> SUFFICES ASSUME IInv PROVE TypeOK /\ SkipListWhole /\ OneOfEach
    BY DEF Inv
  <2>1. TypeOK
    BY DEF IInv
  <2>2. SkipListWhole
    BY ShapeMeans DEF IInv, Shaped
  <2>3. ASSUME NEW e \in Events
        PROVE  LET places == {k \in Keys : Contains(entries[k], e)}
                   here   == {i \in DOMAIN running.events : running.events[i] = e}
                   tocome == {i \in DOMAIN toadd : toadd[i] = e}
               IN  Cardinality(places) + Cardinality(here) + Cardinality(tocome) = 1
    <3> DEFINE places == {k \in Keys : Contains(entries[k], e)}
               here   == {i \in DOMAIN running.events : running.events[i] = e}
               tocome == {i \in DOMAIN toadd : toadd[i] = e}
    <3>1. /\ Cardinality(here) = IF Contains(running.events, e) THEN 1 ELSE 0
          /\ Cardinality(tocome) = IF Contains(toadd, e) THEN 1 ELSE 0
      <4>1. running.events \in Seq(Events) /\ toadd \in Seq(Events)
        BY <2>1 DEF TypeOK
      <4>2. NoneTwice(running.events) /\ NoneTwice(toadd)
        BY DEF IInv, Lists
      <4> QED
        BY ONLY <4>1, <4>2, PositionsOf
    <3>2. PlaceOf(e)
      BY DEF IInv, OnePlace
    <3>3. Cardinality(places) = IF \E k \in Keys : Waiting(e, k) THEN 1 ELSE 0
      <4>1. CASE \E k \in Keys : Waiting(e, k)
        <5>1. PICK k \in Keys : Waiting(e, k)
          BY <4>1
        <5>2. places = {k}
          BY <3>2, <5>1 DEF PlaceOf, Waiting
        <5>3. Cardinality({k}) = 1
          BY FS_Singleton
        <5> QED
          BY <4>1, <5>2, <5>3
      <4>2. CASE ~ \E k \in Keys : Waiting(e, k)
        <5>1. places = {}
          BY <4>2 DEF Waiting
        <5>2. Cardinality({}) = 0
          BY FS_EmptySet
        <5> QED
          BY <4>2, <5>1, <5>2
      <4> QED
        BY <4>1, <4>2
    <3> HIDE DEF places, here, tocome
    <3>4. Cardinality(places) + Cardinality(here) + Cardinality(tocome) = 1
      BY <3>1, <3>2, <3>3 DEF PlaceOf
    <3> QED
      BY <3>4 DEF places, here, tocome
  <2>4. OneOfEach
    BY <2>3 DEF OneOfEach, IInv, Lists, Entries
  <2> QED
    BY <2>1, <2>2, <2>4
<1> QED
  BY Invariance, <1>1, PTL

\* select waits past the time of an entry, or past now if it is late already, by
\* the fraction of a second a packet left in tv_usec, and not at all without.
THEOREM SleepsInTime == Spec => []WakesInTime
<1>1. IInv => WakesInTime
  BY DEF IInv
<1> QED
  BY Invariance, <1>1, PTL

\* The queue executes the events as the agenda says: when it is their time, the
\* earliest first, each again one interval after its execution.
THEOREM QueueKeepsAgenda == Spec => A!Init /\ [][A!Next]_A!vars
<1>1. IInv /\ IInv' /\ [Next]_vars => [A!Next]_A!vars
  <2> SUFFICES ASSUME IInv, IInv', [Next]_vars PROVE A!Next \/ UNCHANGED A!vars
    OBVIOUS
  <2>1. CASE Starts
    BY <2>1, StartsAgenda
  <2>2. CASE Takes
    BY <2>2, TakesAgenda
  <2>3. CASE Executes
    BY <2>3, ExecutesAgenda DEF A!Next
  <2>4. CASE Selects \/ Wakes \/ Packet \/ Tick \/ UNCHANGED vars
    BY <2>4, OthersAgenda DEF Wakes, Packet, A!Next
  <2> QED
    BY <2>1, <2>2, <2>3, <2>4 DEF Next, Daemon
<1> QED
  BY Invariance, InitAgenda, <1>1, PTL DEF Spec

=============================================================================
