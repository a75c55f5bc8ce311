-------------------------- MODULE SimpleNbmtrProofs --------------------------
(***************************************************************************)
(* Proofs about the neighbour maintainer, for any set of proxies and any   *)
(* sizes and intervals: map and list hold the same neighbours, the oracles *)
(* of the file stay, a pong is accepted only if it answers the last ping   *)
(* (up to a round of the numbers), and nobody is passed over by the        *)
(* probes.                                                                 *)
(*                                                                         *)
(* First what start, save, probe, ping and pong do to the list, then the   *)
(* invariant, which adds to the structure of the table that of the file,   *)
(* the oracles in both, the age of the last neighbour, and how far the     *)
(* number of a neighbour is past that of each ping on its way.             *)
(***************************************************************************)
EXTENDS SimpleNbmtr, Lemmas

USE NbmtrAssumption DEF NbmtrAssumption

-----------------------------------------------------------------------------
(* Lists of neighbours and lines of the file *)

Unique(list) == \A i, j \in DOMAIN list : list[i].addr = list[j].addr => i = j

Same(x, y) == x.addr = y.addr /\ x.type = y.type

\* The map is finite.
LEMMA FiniteMap ==
  ASSUME TypeOK
  PROVE  /\ Cardinality(nm) \in Nat
         /\ \A a : nm = {a} => Cardinality(nm) = 1
BY FS_Subset, FS_CardinalityType, FS_Singleton DEF TypeOK

\* The list is a nonempty sequence of neighbours.
LEMMA TableType ==
  ASSUME TypeOK, MapMatchesList
  PROVE  /\ nl \in Seq(Neighbor) /\ Len(nl) \in Nat \ {0} /\ DOMAIN nl = 1 .. Len(nl)
         /\ \A i \in 1 .. Len(nl) : nl[i] \in Neighbor
BY TailEntries, ElementOfSeq DEF TypeOK, MapMatchesList

\* The next sequence number is one.
LEMMA BumpType ==
  \A n \in 0 .. SeqLimit - 1 : Bump(n) \in 0 .. SeqLimit - 1
BY DEF Bump

\* Lists that have the same neighbours have the same oracles.
LEMMA SameOracles ==
  ASSUME NEW s, NEW t,
         \A i \in DOMAIN s : \E k \in DOMAIN t : Same(s[i], t[k]),
         \A k \in DOMAIN t : \E i \in DOMAIN s : Same(s[i], t[k])
  PROVE  OraclesOf(s) = OraclesOf(t)
<1>1. \A a : a \in OraclesOf(s) <=> \E i \in DOMAIN s : s[i].type = "oracle" /\ s[i].addr = a
  BY DEF OraclesOf
<1>2. \A a : a \in OraclesOf(t) <=> \E k \in DOMAIN t : t[k].type = "oracle" /\ t[k].addr = a
  BY DEF OraclesOf
<1>3. \A a : a \in OraclesOf(s) <=> a \in OraclesOf(t)
  BY <1>1, <1>2 DEF Same
<1> QED
  BY <1>3

\* The list the constructor makes of a file holds its lines.
LEMMA LoadedEntries ==
  ASSUME NEW lines \in Seq(Line), Unique(lines), lines # <<>>
  PROVE  /\ Loaded(lines) \in Seq(Neighbor) /\ Loaded(lines) # <<>>
         /\ AddrsOf(Loaded(lines)) = AddrsOf(lines)
         /\ AddrsOf(lines) \subseteq Addrs
         /\ OraclesOf(Loaded(lines)) = OraclesOf(lines)
         /\ Unique(Loaded(lines))
<1> DEFINE n == Len(lines)
<1>1. n \in Nat \ {0} /\ DOMAIN lines = 1 .. n
  BY TailEntries
<1>2. \A i \in 1 .. n : lines[i] \in Line
  BY ElementOfSeq
<1>3. /\ Loaded(lines) = [i \in 1 .. n |-> [addr |-> lines[i].addr, type |-> lines[i].type,
                                            seq |-> 0, age |-> lines[i].age]]
      /\ DOMAIN Loaded(lines) = 1 .. n
  BY <1>1 DEF Loaded
<1>4. \A i \in 1 .. n : Loaded(lines)[i] \in Neighbor /\ Same(Loaded(lines)[i], lines[i])
  BY <1>2, <1>3 DEF Line, Neighbor, Same
<1>5. Loaded(lines) \in Seq(Neighbor) /\ Len(Loaded(lines)) = n
  <2>1. Loaded(lines) = [i \in 1 .. n |-> Loaded(lines)[i]]
    BY <1>3
  <2> QED
    BY <1>1, <1>4, <2>1
<1>6. Loaded(lines) # <<>>
  BY <1>1, <1>5
<1> HIDE DEF n
<1>7. AddrsOf(Loaded(lines)) = AddrsOf(lines)
  BY <1>1, <1>3, <1>4 DEF AddrsOf, Same
<1>8. AddrsOf(lines) \subseteq Addrs
  BY <1>1, <1>2 DEF AddrsOf, Line
<1>9. OraclesOf(Loaded(lines)) = OraclesOf(lines)
  BY <1>1, <1>3, <1>4, SameOracles
<1>10. Unique(Loaded(lines))
  BY <1>1, <1>3, <1>4 DEF Unique, Same
<1> QED
  BY <1>5, <1>6, <1>7, <1>8, <1>9, <1>10

\* A file of nbconfgen has a line, and no address twice.
LEMMA GeneratedEntries ==
  ASSUME NEW S \in (SUBSET Addrs) \ {{}}, NEW s \in SetToSeqs(S)
  PROVE  /\ Generated(s) \in Seq(Line) /\ Generated(s) # <<>> /\ Unique(Generated(s))
<1> DEFINE n == Cardinality(S)
<1>1. IsFiniteSet(S) /\ S # {} /\ S \subseteq Addrs
  BY FS_Subset, Zenon
<1>2. n \in Nat \ {0}
  BY <1>1, FS_CardinalityType, FS_EmptySet
<1> HIDE DEF n
<1>3. /\ s \in [1 .. n -> S]
      /\ \A i, j \in 1 .. n : i # j => s[i] # s[j]
  BY DEF SetToSeqs, n
<1>4. /\ DOMAIN Generated(s) = 1 .. n
      /\ \A i \in 1 .. n : Generated(s)[i] \in Line /\ Generated(s)[i].addr = s[i]
  <2>1. DOMAIN Generated(s) = 1 .. n
    BY <1>3 DEF Generated
  <2>2. ASSUME NEW i \in 1 .. n
        PROVE  Generated(s)[i] \in Line /\ Generated(s)[i].addr = s[i]
    <3>1. s[i] \in Addrs
      BY <1>1, <1>3
    <3>2. PICK type \in Types :
            Generated(s)[i] = [addr |-> s[i], age |-> AbateInterval, type |-> type]
      BY <1>3 DEF Generated, Types
    <3> QED
      BY <3>1, <3>2 DEF Line, Ages
  <2> QED
    BY <2>1, <2>2
<1>5. Generated(s) \in Seq(Line) /\ Len(Generated(s)) = n
  <2>1. Generated(s) = [i \in 1 .. n |-> Generated(s)[i]]
    BY ONLY <1>4 DEF Generated
  <2> QED
    BY ONLY <1>2, <1>4, <2>1
<1>6. Unique(Generated(s))
  BY <1>3, <1>4 DEF Unique
<1> QED
  BY <1>2, <1>5, <1>6

\* A save writes every neighbour, once.
LEMMA SavedEntries ==
  ASSUME TypeOK, MapMatchesList, NEW s \in Saved
  PROVE  /\ s \in Seq(Line) /\ Unique(s)
         /\ Len(s) \in Nat \ {0}
         /\ OraclesOf(s) = OraclesOf(nl)
<1> DEFINE n == Cardinality(Lines)
           line(i) == [addr |-> nl[i].addr, type |-> nl[i].type, age |-> nl[i].age]
<1>1. /\ Len(nl) \in Nat \ {0} /\ DOMAIN nl = 1 .. Len(nl)
      /\ \A i \in 1 .. Len(nl) : nl[i] \in Neighbor /\ nl[i].addr \in nm
  BY TableType DEF MapMatchesList, AddrsOf
<1>2. Lines = {line(i) : i \in 1 .. Len(nl)}
  BY <1>1 DEF Lines
<1>3. \A i \in 1 .. Len(nl) : line(i) \in Line
  BY <1>1 DEF Line, Neighbor
<1>4. IsFiniteSet(Lines) /\ Lines # {} /\ Lines \subseteq Line
  <2> DEFINE f == [i \in 1 .. Len(nl) |-> line(i)]
  <2>1. f \in Surjection(1 .. Len(nl), Lines)
    BY <1>2 DEF Surjection
  <2>2. IsFiniteSet(1 .. Len(nl))
    BY <1>1, FS_Interval
  <2>3. IsFiniteSet(Lines)
    <3> HIDE DEF f
    <3> QED
      BY <2>1, <2>2, FS_Surjection
  <2>4. line(1) \in Lines
    BY <1>1, <1>2
  <2> QED
    BY <1>2, <1>3, <2>3, <2>4
<1>5. n \in Nat \ {0}
  BY <1>4, FS_CardinalityType, FS_EmptySet
<1>6. /\ s \in [1 .. n -> Lines]
      /\ \A i, j \in 1 .. n : i # j => s[i] # s[j]
      /\ \A i, j \in 1 .. n : i < j => s[i].addr < s[j].addr
  BY DEF Saved, SetToSeqs
<1>7. \A l \in Lines : \E i \in 1 .. n : s[i] = l
  <2> SUFFICES ASSUME NEW l \in Lines, \A i \in 1 .. n : s[i] # l
               PROVE  FALSE
    OBVIOUS
  <2> DEFINE T == Lines \ {l}
  <2>1. IsFiniteSet(T) /\ Cardinality(T) = n - 1
    BY <1>4, FS_RemoveElement
  <2>2. s \in [1 .. n -> T]
    BY <1>6
  <2>3. IsFiniteSet(1 .. n) /\ Cardinality(1 .. n) = n
    BY <1>5, FS_Interval
  <2> HIDE DEF T, n
  <2>4. \E x, y \in 1 .. n : x # y /\ s[x] = s[y]
    BY <1>5, <2>1, <2>2, <2>3, FS_PigeonHole
  <2> QED
    BY <1>6, <2>4
<1> HIDE DEF n
<1>8. s \in Seq(Line) /\ Len(s) = n /\ DOMAIN s = 1 .. n
  BY <1>4, <1>5, <1>6
<1>9. Unique(s)
  <2>1. \A i \in 1 .. n : s[i] \in Line
    BY <1>4, <1>6
  <2>2. \A i \in 1 .. n : s[i].addr \in Nat
    BY <2>1 DEF Line
  <2> QED
    BY <1>5, <1>6, <1>8, <2>2 DEF Unique
<1>10. OraclesOf(s) = OraclesOf(nl)
  <2>1. ASSUME NEW i \in 1 .. n
        PROVE  \E k \in 1 .. Len(nl) : Same(s[i], nl[k])
    BY <1>2, <1>6 DEF Same
  <2>2. ASSUME NEW k \in 1 .. Len(nl)
        PROVE  \E i \in 1 .. n : Same(s[i], nl[k])
    <3>1. line(k) \in Lines
      BY <1>2
    <3> QED
      BY <1>7, <3>1 DEF Same
  <2> QED
    BY <1>1, <1>8, <2>1, <2>2, SameOracles
<1> QED
  BY <1>5, <1>8, <1>9, <1>10

-----------------------------------------------------------------------------
(* probe *)

\* The list turned by one.
LEMMA TurnedEntries ==
  ASSUME NEW list \in Seq(Neighbor), list # <<>>
  PROVE  /\ Turned(list) \in Seq(Neighbor) /\ Len(Turned(list)) = Len(list)
         /\ \A i \in 1 .. Len(list) - 1 : Turned(list)[i] = list[i + 1]
         /\ Turned(list)[Len(list)] = list[1]
<1> DEFINE n == Len(list)
           rest == Tail(list)
           last == <<Head(list)>>
<1>1. /\ n \in Nat \ {0}
      /\ rest \in Seq(Neighbor) /\ Len(rest) = n - 1
      /\ \A i \in 1 .. n - 1 : rest[i] = list[i + 1]
      /\ Head(list) \in Neighbor /\ Head(list) = list[1]
  BY TailEntries
<1>2. last \in Seq(Neighbor) /\ Len(last) = 1 /\ last[1] = list[1]
  BY <1>1
<1> HIDE DEF rest, last
<1>3. /\ rest \o last \in Seq(Neighbor) /\ Len(rest \o last) = n
      /\ \A i \in 1 .. n : (rest \o last)[i] = IF i <= n - 1 THEN rest[i] ELSE last[i - (n - 1)]
  <2>1. /\ rest \o last \in Seq(Neighbor)
        /\ Len(rest \o last) = Len(rest) + Len(last)
        /\ \A i \in 1 .. Len(rest) + Len(last) :
             (rest \o last)[i] = IF i <= Len(rest) THEN rest[i] ELSE last[i - Len(rest)]
    BY ONLY <1>1, <1>2, ConcatProperties
  <2>2. Len(rest) = n - 1 /\ Len(rest) + Len(last) = n
    BY ONLY <1>1, <1>2
  <2> QED
    BY ONLY <2>1, <2>2
<1>4. Turned(list) = rest \o last
  BY DEF Turned, rest, last
<1> QED
  BY <1>1, <1>2, <1>3, <1>4

\* probe turns the list by one and drops its last before, or drops nobody; the
\* new last, which was probed, is of age 0.
LEMMA ProbeTurns ==
  ASSUME TypeOK, MapMatchesList, Probe
  PROVE  \E m \in Nat \ {0} :
           /\ nl' \in Seq(Neighbor) /\ Len(nl') = m
           /\ \A i \in 1 .. m - 1 : Same(nl'[i], nl[i + 1])
           /\ Same(nl'[m], nl[1]) /\ nl'[m].age = 0
           /\ \/ m = Len(nl) /\ nm' = nm
              \/ /\ m = Len(nl) - 1
                 /\ nm' = nm \ {nl[Len(nl)].addr}
                 /\ nl[Len(nl)].age >= AbateInterval
                 /\ nl[Len(nl)].type # "oracle"
<1> DEFINE n     == Len(nl)
           asks  == Cardinality(nm) < MinSize
           both  == asks /\ n > 1
           front == [nl[1] EXCEPT !.seq = Bump(@), !.age = 0]
           back  == IF both THEN [nl[n] EXCEPT !.seq = Bump(@)] ELSE nl[n]
           list  == [nl EXCEPT ![n] = back, ![1] = front]
           drop  == Abates(list[n]) /\ Cardinality(nm) > 1
           kept  == IF drop THEN Front(list) ELSE list
<1>1. /\ nl' = Turned(kept)
      /\ nm' = IF drop THEN nm \ {back.addr} ELSE nm
  BY DEF Probe
<1>2. /\ nl \in Seq(Neighbor) /\ n \in Nat \ {0} /\ DOMAIN nl = 1 .. n
      /\ \A i \in 1 .. n : nl[i] \in Neighbor
  BY TableType
<1>3. front \in Neighbor /\ Same(front, nl[1]) /\ front.age = 0
  <2>1. nl[1] \in Neighbor
    BY <1>2
  <2>2. Bump(nl[1].seq) \in 0 .. SeqLimit - 1
    BY <2>1, BumpType DEF Neighbor
  <2>3. 0 \in Ages
    BY DEF Ages
  <2> QED
    BY ONLY <2>1, <2>2, <2>3 DEF Neighbor, Same
<1>4. back \in Neighbor /\ Same(back, nl[n]) /\ back.age = nl[n].age
  <2>1. nl[n] \in Neighbor
    BY <1>2
  <2>2. Bump(nl[n].seq) \in 0 .. SeqLimit - 1
    BY <2>1, BumpType DEF Neighbor
  <2> HIDE DEF both
  <2> QED
    BY ONLY <2>1, <2>2 DEF Neighbor, Same
<1> HIDE DEF front, back
<1>5. /\ list \in Seq(Neighbor) /\ Len(list) = n
      /\ \A i \in 1 .. n : list[i] = IF i = 1 THEN front ELSE IF i = n THEN back ELSE nl[i]
  <2> HIDE DEF both, asks
  <2> QED
    BY ONLY <1>2, <1>3, <1>4
<1>6. \A i \in 1 .. n : Same(list[i], nl[i])
  BY <1>3, <1>4, <1>5 DEF Same
<1> HIDE DEF list
<1>7. drop => n > 1 /\ nl[n].age >= AbateInterval /\ nl[n].type # "oracle"
  <2> SUFFICES ASSUME Abates(list[n]), Cardinality(nm) > 1
               PROVE  n > 1 /\ nl[n].age >= AbateInterval /\ nl[n].type # "oracle"
    OBVIOUS
  <2>1. n > 1
    <3>1. n = 1 => nm = {nl[1].addr}
      BY <1>2 DEF MapMatchesList, AddrsOf
    <3>2. nm = {nl[1].addr} => Cardinality(nm) = 1
      BY FiniteMap, Zenon
    <3>3. n \in Nat \ {0}
      BY <1>2
    <3> HIDE DEF n, asks, both, kept, drop
    <3> QED
      BY ONLY Cardinality(nm) > 1, <3>1, <3>2, <3>3
  <2> HIDE DEF n, asks, both, kept, drop
  <2>2. list[n] = back
    <3>1. n \in 1 .. n /\ n # 1
      BY ONLY <1>2, <2>1
    <3> QED
      BY ONLY <1>5, <3>1
  <2> QED
    BY ONLY Abates(list[n]), <1>4, <2>1, <2>2 DEF Abates, Same
<1> HIDE DEF drop, n, both, asks
<1>8. PICK m \in Nat \ {0} :
        /\ m <= n
        /\ kept \in Seq(Neighbor) /\ Len(kept) = m /\ kept # <<>>
        /\ \A i \in 1 .. m : kept[i] = list[i]
        /\ \/ m = n /\ nm' = nm
           \/ /\ m = n - 1
              /\ nm' = nm \ {nl[n].addr}
              /\ nl[n].age >= AbateInterval
              /\ nl[n].type # "oracle"
  <2>1. CASE drop
    <3>1. kept = Front(list) /\ nm' = nm \ {nl[n].addr}
      BY <1>1, <1>4, <2>1, Zenon DEF Same
    <3>2. n > 1 /\ nl[n].age >= AbateInterval /\ nl[n].type # "oracle"
      BY <1>7, <2>1, Zenon
    <3>3. n - 1 \in 0 .. Len(list) /\ n - 1 \in Nat \ {0} /\ n - 1 <= n
      BY ONLY <1>2, <1>5, <3>2
    <3>4. Front(list) = SubSeq(list, 1, n - 1)
      BY ONLY <1>5 DEF Front
    <3> HIDE DEF kept
    <3>5. /\ kept \in Seq(Neighbor)
          /\ Len(kept) = n - 1
          /\ \A i \in 1 .. n - 1 : kept[i] = list[i]
      BY ONLY <1>5, <3>1, <3>3, <3>4, PrefixEntries
    <3>6. kept # <<>>
      BY ONLY <3>3, <3>5
    <3> QED
      BY ONLY <3>1, <3>2, <3>3, <3>5, <3>6
  <2>2. CASE ~ drop
    <3>1. kept = list /\ nm' = nm
      BY <1>1, <2>2, Zenon
    <3> HIDE DEF kept
    <3>2. kept # <<>>
      BY ONLY <1>2, <1>5, <3>1
    <3> QED
      BY ONLY <1>2, <1>5, <3>1, <3>2
  <2> QED
    BY ONLY <2>1, <2>2, Zenon
<1>12. nl' = Turned(kept)
  BY <1>1
<1> HIDE DEF kept
<1>13. m \in Nat \ {0} /\ m <= n /\ n \in Nat
  BY <1>2, <1>8
<1>9. /\ nl' \in Seq(Neighbor) /\ Len(nl') = m
      /\ \A i \in 1 .. m - 1 : nl'[i] = list[i + 1]
      /\ nl'[m] = front
  <2>1. /\ Turned(kept) \in Seq(Neighbor) /\ Len(Turned(kept)) = m
        /\ \A i \in 1 .. m - 1 : Turned(kept)[i] = kept[i + 1]
        /\ Turned(kept)[m] = kept[1]
    BY ONLY <1>8, TurnedEntries
  <2>2. 1 \in 1 .. m /\ 1 \in 1 .. n /\ \A i \in 1 .. m - 1 : i + 1 \in 1 .. m
    BY ONLY <1>13
  <2>3. kept[1] = front /\ \A i \in 1 .. m - 1 : kept[i + 1] = list[i + 1]
    BY <1>5, <1>8, <2>2
  <2> QED
    BY <1>12, <2>1, <2>3
<1>10. \A i \in 1 .. m - 1 : Same(nl'[i], nl[i + 1])
  <2>1. \A i \in 1 .. m - 1 : i + 1 \in 1 .. n
    BY ONLY <1>13
  <2> QED
    BY <1>6, <1>9, <2>1
<1>11. /\ Same(nl'[m], nl[1]) /\ nl'[m].age = 0
  BY <1>3, <1>9
<1> QED
  <2>1. n = Len(nl)
    BY DEF n
  <2> QED
    BY ONLY <1>8, <1>9, <1>10, <1>11, <2>1

\* A probe keeps list and map in agreement, loses no oracle, and forgets only the
\* last neighbour, when it is old.
LEMMA ProbeKeepsTable ==
  ASSUME TypeOK, MapMatchesList, Probe
  PROVE  /\ nl' \in Seq(Neighbor) /\ nm' \subseteq Addrs
         /\ MapMatchesList'
         /\ OraclesOf(nl) \subseteq OraclesOf(nl')
         /\ nl'[Len(nl')].age = 0
         /\ \A i \in DOMAIN nl : nl[i].addr \notin nm' =>
              i = Len(nl) /\ nl[i].age >= AbateInterval
<1> DEFINE n == Len(nl)
<1>1. /\ nl \in Seq(Neighbor) /\ n \in Nat \ {0} /\ DOMAIN nl = 1 .. n
      /\ \A i \in 1 .. n : nl[i] \in Neighbor
  BY TableType
<1>2. PICK m \in Nat \ {0} :
        /\ nl' \in Seq(Neighbor) /\ Len(nl') = m
        /\ \A i \in 1 .. m - 1 : Same(nl'[i], nl[i + 1])
        /\ Same(nl'[m], nl[1]) /\ nl'[m].age = 0
        /\ \/ m = n /\ nm' = nm
           \/ /\ m = n - 1
              /\ nm' = nm \ {nl[n].addr}
              /\ nl[n].age >= AbateInterval
              /\ nl[n].type # "oracle"
  BY ProbeTurns
<1> HIDE DEF n
<1>3. DOMAIN nl' = 1 .. m /\ m <= n /\ n \in Nat /\ m \in Nat
  BY <1>1, <1>2
<1> DEFINE before(i) == IF i = m THEN 1 ELSE i + 1
<1>4. /\ \A i \in 1 .. m : before(i) \in 1 .. m /\ before(i) \in 1 .. n /\ Same(nl'[i], nl[before(i)])
      /\ \A i, j \in 1 .. m : before(i) = before(j) => i = j
      /\ \A k \in 1 .. m : \E i \in 1 .. m : before(i) = k
  <2>1. ASSUME NEW i \in 1 .. m
        PROVE  before(i) \in 1 .. m /\ before(i) \in 1 .. n /\ Same(nl'[i], nl[before(i)])
    BY <1>2, <1>3
  <2>2. ASSUME NEW k \in 1 .. m
        PROVE  \E i \in 1 .. m : before(i) = k
    <3>1. CASE k = 1
      <4>1. before(m) = k /\ m \in 1 .. m
        BY <3>1
      <4> QED
        BY <4>1
    <3>2. CASE k # 1
      <4>1. before(k - 1) = k /\ k - 1 \in 1 .. m
        BY <3>2
      <4> QED
        BY <4>1
    <3> QED
      BY <3>1, <3>2
  <2>3. \A i, j \in 1 .. m : before(i) = before(j) => i = j
    OBVIOUS
  <2> QED
    BY <2>1, <2>2, <2>3
<1> HIDE DEF before
<1>5. /\ nm = {nl[k].addr : k \in 1 .. n}
      /\ \A i, j \in 1 .. n : nl[i].addr = nl[j].addr => i = j
  BY <1>1 DEF MapMatchesList, AddrsOf
<1>6. \A k \in 1 .. n : nl[k].addr \in nm' <=> k \in 1 .. m
  <2>1. CASE m = n /\ nm' = nm
    BY <1>5, <2>1
  <2>2. CASE m = n - 1 /\ nm' = nm \ {nl[n].addr}
    <3>1. \A k \in 1 .. n : k \in 1 .. m <=> k # n
      BY ONLY <1>3, <2>2
    <3>2. n \in 1 .. n
      BY <1>1
    <3>3. \A k \in 1 .. n : nl[k].addr \in nm /\ (nl[k].addr = nl[n].addr <=> k = n)
      BY <1>5, <3>2
    <3> QED
      BY ONLY <2>2, <3>1, <3>3, Zenon
  <2> QED
    BY <1>2, <2>1, <2>2
<1>7. nm' \subseteq nm
  BY <1>2
<1>8. MapMatchesList'
  <2>1. nl' # <<>>
    BY <1>2, <1>3
  <2>2. ASSUME NEW i \in 1 .. m, NEW j \in 1 .. m, nl'[i].addr = nl'[j].addr
        PROVE  i = j
    <3>1. nl[before(i)].addr = nl[before(j)].addr
      BY <1>4, <2>2 DEF Same
    <3> QED
      BY <1>4, <1>5, <3>1
  <2>3. ASSUME NEW a
        PROVE  a \in nm' <=> \E i \in 1 .. m : nl'[i].addr = a
    <3>1. ASSUME a \in nm'
          PROVE  \E i \in 1 .. m : nl'[i].addr = a
      <4>1. PICK k \in 1 .. n : nl[k].addr = a
        BY <1>5, <1>7, <3>1
      <4>2. k \in 1 .. m
        BY <1>6, <3>1, <4>1
      <4>3. PICK i \in 1 .. m : before(i) = k
        BY <1>4, <4>2
      <4> QED
        BY <1>4, <4>1, <4>3 DEF Same
    <3>2. ASSUME NEW i \in 1 .. m, nl'[i].addr = a
          PROVE  a \in nm'
      BY <1>4, <1>6, <3>2 DEF Same
    <3> QED
      BY <3>1, <3>2
  <2>4. nm' = AddrsOf(nl')
    BY <1>3, <2>3 DEF AddrsOf
  <2> QED
    BY <1>3, <2>1, <2>2, <2>4 DEF MapMatchesList, AddrsOf
<1>9. OraclesOf(nl) \subseteq OraclesOf(nl')
  <2> SUFFICES ASSUME NEW k \in 1 .. n, nl[k].type = "oracle"
               PROVE  \E i \in DOMAIN nl' : nl'[i].type = "oracle" /\ nl'[i].addr = nl[k].addr
    BY <1>1 DEF OraclesOf
  <2>1. k \in 1 .. m
    BY <1>1, <1>2
  <2>2. PICK i \in 1 .. m : before(i) = k
    BY <1>4, <2>1
  <2> QED
    BY <1>3, <1>4, <2>2 DEF Same
<1>10. ASSUME NEW i \in 1 .. n, nl[i].addr \notin nm'
       PROVE  i = n /\ nl[i].age >= AbateInterval
  <2>1. i \notin 1 .. m
    BY <1>6, <1>10
  <2>2. CASE m = n
    BY <1>3, <2>1, <2>2
  <2>3. CASE m = n - 1 /\ nl[n].age >= AbateInterval
    <3>1. i = n
      BY ONLY <1>3, <1>10, <2>1, <2>3
    <3> QED
      BY <2>3, <3>1
  <2> QED
    BY <1>2, <2>2, <2>3
<1> QED
  BY <1>1, <1>2, <1>7, <1>8, <1>9, <1>10 DEF TypeOK, n

-----------------------------------------------------------------------------
(* process_probe_ping, process_probe_pong and the clock *)

\* Every neighbour keeps its place in the list.
StaysPut == Len(nl') = Len(nl) /\ \A i \in DOMAIN nl : Same(nl'[i], nl[i])

\* New neighbours go in front of those that are known, which stay in order.
LEMMA FrontGrows ==
  ASSUME TypeOK, MapMatchesList,
         NEW new \in Seq(Neighbor), NEW old \in Seq(Neighbor),
         Unique(new), \A i \in DOMAIN new : new[i].addr \notin nm,
         Len(old) = Len(nl), \A i \in 1 .. Len(nl) : Same(old[i], nl[i]),
         nl' = new \o old, nm' = nm \cup AddrsOf(new)
  PROVE  /\ nl' \in Seq(Neighbor) /\ nm' \subseteq Addrs
         /\ MapMatchesList'
         /\ OraclesOf(nl) \subseteq OraclesOf(nl')
         /\ nl'[Len(nl')] = old[Len(nl)]
         /\ nm' = nm => StaysPut
<1> DEFINE n == Len(nl)
           w == Len(new)
<1>1. /\ n \in Nat \ {0} /\ DOMAIN nl = 1 .. n
      /\ \A i \in 1 .. n : nl[i] \in Neighbor
  BY TableType
<1>2. /\ w \in Nat /\ DOMAIN new = 1 .. w
      /\ \A i \in 1 .. w : new[i] \in Neighbor
  BY ElementOfSeq
<1>3. /\ Len(old) = n
      /\ \A i \in 1 .. n : Same(old[i], nl[i])
  OBVIOUS
<1>4. /\ nm = {nl[k].addr : k \in 1 .. n}
      /\ \A i, j \in 1 .. n : nl[i].addr = nl[j].addr => i = j
  BY <1>1 DEF MapMatchesList, AddrsOf
<1>5. /\ new \o old \in Seq(Neighbor)
      /\ Len(new \o old) = Len(new) + Len(old)
      /\ \A i \in 1 .. Len(new) + Len(old) :
           (new \o old)[i] = IF i <= Len(new) THEN new[i] ELSE old[i - Len(new)]
  BY ONLY new \in Seq(Neighbor), old \in Seq(Neighbor), ConcatProperties
<1>6. Len(new) = w
  OBVIOUS
<1> HIDE DEF n, w
<1>7. /\ nl' \in Seq(Neighbor) /\ Len(nl') = w + n
      /\ \A i \in 1 .. w + n : nl'[i] = IF i <= w THEN new[i] ELSE old[i - w]
  BY ONLY nl' = new \o old, <1>3, <1>5, <1>6
<1>8. DOMAIN nl' = 1 .. w + n
  BY ONLY <1>7
<1>9. /\ \A i \in 1 .. w : i \in 1 .. w + n /\ nl'[i] = new[i]
      /\ \A k \in 1 .. n : w + k \in 1 .. w + n /\ nl'[w + k] = old[k]
      /\ \A i \in 1 .. w + n : i \in 1 .. w \/ \E k \in 1 .. n : i = w + k
  <2>1. \A i \in 1 .. w : i \in 1 .. w + n /\ nl'[i] = new[i]
    BY ONLY <1>1, <1>2, <1>7
  <2>2. ASSUME NEW k \in 1 .. n
        PROVE  w + k \in 1 .. w + n /\ nl'[w + k] = old[k]
    <3>1. w + k \in 1 .. w + n /\ ~(w + k <= w) /\ (w + k) - w = k
      BY ONLY <1>1, <1>2, k \in 1 .. n
    <3> QED
      BY ONLY <1>7, <3>1
  <2>3. ASSUME NEW i \in 1 .. w + n, i \notin 1 .. w
        PROVE  \E k \in 1 .. n : i = w + k
    <3>1. i - w \in 1 .. n /\ i = w + (i - w)
      BY ONLY <1>1, <1>2, <2>3
    <3> QED
      BY ONLY <3>1
  <2> QED
    BY ONLY <2>1, <2>2, <2>3
<1>10. \A k \in 1 .. n : Same(nl'[w + k], nl[k])
  BY ONLY <1>3, <1>9
<1>11. AddrsOf(new) = {new[i].addr : i \in 1 .. w}
  BY <1>2 DEF AddrsOf
<1>12. nm' = AddrsOf(nl')
  <2>1. AddrsOf(nl') = {nl'[i].addr : i \in 1 .. w + n}
    BY <1>8 DEF AddrsOf
  <2>2. ASSUME NEW i \in 1 .. w + n
        PROVE  nl'[i].addr \in nm'
    <3>1. CASE i \in 1 .. w
      BY ONLY nm' = nm \cup AddrsOf(new), <1>9, <1>11, <3>1
    <3>2. CASE \E k \in 1 .. n : i = w + k
      BY ONLY nm' = nm \cup AddrsOf(new), <1>4, <1>10, <3>2 DEF Same
    <3> QED
      BY ONLY <1>9, <3>1, <3>2
  <2>3. ASSUME NEW a \in nm'
        PROVE  \E i \in 1 .. w + n : nl'[i].addr = a
    <3>1. CASE a \in nm
      <4>1. PICK k \in 1 .. n : nl[k].addr = a
        BY ONLY <1>4, <3>1
      <4>2. nl'[w + k].addr = a /\ w + k \in 1 .. w + n
        BY ONLY <1>9, <1>10, <4>1 DEF Same
      <4> QED
        BY ONLY <4>2
    <3>2. CASE a \in AddrsOf(new)
      BY ONLY <1>9, <1>11, <3>2
    <3> QED
      BY ONLY nm' = nm \cup AddrsOf(new), a \in nm', <3>1, <3>2
  <2> QED
    BY ONLY <2>1, <2>2, <2>3
<1>13. ASSUME NEW i \in 1 .. w + n, NEW j \in 1 .. w + n, nl'[i].addr = nl'[j].addr
       PROVE  i = j
  <2>1. \A x \in 1 .. w : nl'[x].addr \notin nm
    BY ONLY \A x \in DOMAIN new : new[x].addr \notin nm, <1>2, <1>9
  <2>2. \A k \in 1 .. n : nl'[w + k].addr = nl[k].addr /\ nl'[w + k].addr \in nm
    BY ONLY <1>4, <1>10 DEF Same
  <2>3. CASE i \in 1 .. w /\ j \in 1 .. w
    BY <1>2, <1>9, <1>13, <2>3 DEF Unique
  <2>4. CASE i \notin 1 .. w /\ j \notin 1 .. w
    BY ONLY i \in 1 .. w + n, j \in 1 .. w + n, <1>4, <1>9, <1>13, <2>2, <2>4
  <2>5. CASE (i \in 1 .. w) # (j \in 1 .. w)
    BY ONLY i \in 1 .. w + n, j \in 1 .. w + n, <1>9, <1>13, <2>1, <2>2, <2>5
  <2> QED
    BY ONLY <2>3, <2>4, <2>5
<1>14. nm' \subseteq Addrs
  <2>1. nm \subseteq Addrs
    BY DEF TypeOK
  <2>2. AddrsOf(new) \subseteq Addrs
    BY <1>2, <1>11 DEF Neighbor
  <2> QED
    BY ONLY nm' = nm \cup AddrsOf(new), <2>1, <2>2
<1>15. OraclesOf(nl) \subseteq OraclesOf(nl')
  <2>1. ASSUME NEW k \in 1 .. n
        PROVE  \E i \in DOMAIN nl' : Same(nl'[i], nl[k])
    BY ONLY <1>8, <1>9, <1>10
  <2>2. \A a \in OraclesOf(nl) : \E k \in 1 .. n : nl[k].type = "oracle" /\ nl[k].addr = a
    BY ONLY <1>1 DEF OraclesOf
  <2>3. \A a : (\E i \in DOMAIN nl' : nl'[i].type = "oracle" /\ nl'[i].addr = a) => a \in OraclesOf(nl')
    BY ONLY Zenon DEF OraclesOf
  <2> QED
    BY ONLY <2>1, <2>2, <2>3 DEF Same
<1>16. MapMatchesList'
  <2>1. nl' # <<>>
    BY ONLY <1>1, <1>2, <1>7
  <2> QED
    BY <1>8, <1>12, <1>13, <2>1 DEF MapMatchesList, AddrsOf
<1>17. nl'[Len(nl')] = old[Len(nl)]
  <2>1. n \in 1 .. n
    BY <1>1
  <2> QED
    BY <1>7, <1>9, <2>1 DEF n
<1>18. nm' = nm => StaysPut
  <2> SUFFICES ASSUME nm' = nm PROVE StaysPut
    OBVIOUS
  <2>1. \A i \in 1 .. w : new[i].addr \in nm /\ new[i].addr \notin nm
    BY <1>2 DEF AddrsOf
  <2>2. 1 \notin 1 .. w
    BY ONLY <2>1
  <2>3. w = 0
    BY ONLY <1>2, <2>2
  <2>4. \A k \in 1 .. n : w + k = k
    BY ONLY <2>3
  <2>5. Len(nl') = n /\ \A k \in 1 .. n : Same(nl'[k], nl[k])
    BY ONLY <1>1, <1>3, <1>7, <1>9, <2>3, <2>4
  <2> QED
    BY ONLY <1>1, <2>5 DEF StaysPut, n
<1> QED
  BY <1>7, <1>14, <1>15, <1>16, <1>17, <1>18

\* The ping of an unknown proxy puts it in front; that of a known one nothing.
LEMMA PingKeepsTable ==
  ASSUME TypeOK, MapMatchesList, NEW from \in Addrs, ProcessProbePing(from)
  PROVE  /\ nl' \in Seq(Neighbor) /\ nm' \subseteq Addrs /\ nm \subseteq nm'
         /\ MapMatchesList'
         /\ OraclesOf(nl) \subseteq OraclesOf(nl')
         /\ nl'[Len(nl')] = nl[Len(nl)]
         /\ nm' = nm => StaysPut
<1>1. CASE Unknown(from)
  <2> DEFINE one == New(from, "peer")
             new == <<one>>
  <2>1. one \in Neighbor /\ one.addr = from
    BY DEF New, Neighbor, Types, Ages
  <2> HIDE DEF one
  <2>2. new \in Seq(Neighbor) /\ Len(new) = 1 /\ DOMAIN new = 1 .. 1 /\ new[1] = one
    BY <2>1
  <2> HIDE DEF new
  <2>3. \A i \in DOMAIN new : new[i] = one
    BY <2>2
  <2>4. nl' = new \o nl /\ nm' = nm \cup {from}
    BY <1>1 DEF ProcessProbePing, new, one
  <2>5. AddrsOf(new) = {from}
    BY <2>1, <2>2 DEF AddrsOf
  <2>6. Unique(new)
    BY <2>2 DEF Unique
  <2>7. \A i \in DOMAIN new : new[i].addr \notin nm
    BY <1>1, <2>1, <2>3 DEF Unknown
  <2>8. \A i \in 1 .. Len(nl) : Same(nl[i], nl[i])
    BY DEF Same
  <2>9. nl \in Seq(Neighbor)
    BY TableType
  <2> QED
    BY <2>2, <2>4, <2>5, <2>6, <2>7, <2>8, <2>9, FrontGrows
<1>2. CASE ~Unknown(from)
  <2>1. nl' = nl /\ nm' = nm
    BY <1>2 DEF ProcessProbePing, Unknown
  <2>2. StaysPut
    BY <2>1 DEF StaysPut, Same
  <2> QED
    BY <2>1, <2>2 DEF TypeOK, MapMatchesList, AddrsOf, OraclesOf
<1> QED
  BY <1>1, <1>2

\* What is learned of a pong: neighbours that are new, each once.
LEMMA LearnedEntries ==
  ASSUME NEW p, NEW listed \in Listed(p)
  PROVE  /\ Learned(listed) \in Seq(Neighbor)
         /\ Unique(Learned(listed))
         /\ \A i \in DOMAIN Learned(listed) : Learned(listed)[i].addr \notin nm
<1> DEFINE known == {i \in DOMAIN listed : ~Unknown(listed[i].addr)}
<1>1. PICK m \in Nat : listed \in [1 .. m -> Neighbor]
  <2>1. PICK m \in Nat : listed \in [1 .. m -> {New(a, t) : a \in Addrs \ {p.to}, t \in Types}]
    BY DEF Listed, SeqOf
  <2>2. {New(a, t) : a \in Addrs \ {p.to}, t \in Types} \subseteq Neighbor
    BY DEF New, Neighbor, Ages
  <2> QED
    BY <2>1, <2>2
<1>2. /\ listed \in Seq(Neighbor) /\ Len(listed) = m /\ DOMAIN listed = 1 .. m
      /\ \A i, j \in 1 .. m : listed[i].addr = listed[j].addr => i = j
  <2>1. \A i, j \in DOMAIN listed : listed[i].addr = listed[j].addr => i = j
    BY DEF Listed
  <2> QED
    BY <1>1, <2>1
<1>3. PICK n \in 0 .. m :
        /\ Learned(listed) = SubSeq(listed, 1, n)
        /\ \A i \in 1 .. n : i \notin known
  <2>1. CASE known = {}
    <3>1. Learned(listed) = listed
      BY <2>1 DEF Learned
    <3>2. SubSeq(listed, 1, m) = listed
      BY <1>2
    <3> QED
      BY <2>1, <3>1, <3>2
  <2>2. CASE known # {}
    <3>1. known \subseteq Nat /\ known \subseteq 1 .. m
      BY <1>2
    <3>2. Learned(listed) = SubSeq(listed, 1, Min(known) - 1)
      BY <2>2 DEF Learned
    <3> HIDE DEF known
    <3>3. Min(known) \in known /\ \A j \in known : Min(known) <= j
      BY <2>2, <3>1, LeastNumber DEF Min
    <3> DEFINE k == Min(known)
    <3>4. k \in known /\ k \in 1 .. m /\ \A j \in known : k <= j
      BY <3>1, <3>3
    <3> HIDE DEF k
    <3>5. \A i \in 1 .. k - 1 : ~(k <= i)
      BY ONLY <3>4
    <3>6. k - 1 \in 0 .. m /\ \A i \in 1 .. k - 1 : i \notin known
      BY ONLY <3>4, <3>5, m \in Nat
    <3>7. Learned(listed) = SubSeq(listed, 1, k - 1)
      BY <3>2 DEF k
    <3> QED
      BY ONLY <3>6, <3>7
  <2> QED
    BY <2>1, <2>2
<1>4. /\ Learned(listed) \in Seq(Neighbor) /\ Len(Learned(listed)) = n
      /\ \A i \in 1 .. n : Learned(listed)[i] = listed[i]
  BY ONLY <1>2, <1>3, PrefixEntries
<1>5. DOMAIN Learned(listed) = 1 .. n /\ \A i \in 1 .. n : i \in 1 .. m
  BY ONLY <1>4, n \in 0 .. m, m \in Nat
<1>6. \A i \in 1 .. n : listed[i].addr \notin nm
  BY <1>2, <1>3, <1>5 DEF Unknown
<1> QED
  BY <1>2, <1>4, <1>5, <1>6 DEF Unique

\* Pushed in front one after the other, they are there in the other order.
LEMMA ReversedEntries ==
  ASSUME NEW list \in Seq(Neighbor), Unique(list)
  PROVE  /\ Reverse(list) \in Seq(Neighbor)
         /\ Unique(Reverse(list))
         /\ AddrsOf(Reverse(list)) = AddrsOf(list)
<1> DEFINE n == Len(list)
           from(i) == (n - i) + 1
<1>1. n \in Nat /\ DOMAIN list = 1 .. n /\ \A i \in 1 .. n : list[i] \in Neighbor
  BY ElementOfSeq
<1>2. Reverse(list) = [i \in 1 .. n |-> list[from(i)]]
  BY DEF Reverse
<1> HIDE DEF n
<1>3. /\ \A i \in 1 .. n : from(i) \in 1 .. n /\ from(from(i)) = i
      /\ \A i, j \in 1 .. n : from(i) = from(j) => i = j
  BY ONLY <1>1
<1> HIDE DEF from
<1>4. DOMAIN Reverse(list) = 1 .. n /\ \A i \in 1 .. n : Reverse(list)[i] = list[from(i)]
  BY ONLY <1>2
<1>5. Reverse(list) \in Seq(Neighbor)
  BY ONLY <1>1, <1>2, <1>3
<1>6. Unique(Reverse(list))
  <2>1. \A i, j \in 1 .. n : list[i].addr = list[j].addr => i = j
    BY <1>1 DEF Unique
  <2> QED
    BY ONLY <1>3, <1>4, <2>1 DEF Unique
<1>7. AddrsOf(Reverse(list)) = AddrsOf(list)
  <2>1. \A i \in 1 .. n : \E k \in 1 .. n : Reverse(list)[k].addr = list[i].addr
    BY ONLY <1>3, <1>4
  <2>2. \A a : a \in AddrsOf(list) <=> \E i \in 1 .. n : list[i].addr = a
    BY ONLY <1>1 DEF AddrsOf
  <2>3. \A a : a \in AddrsOf(Reverse(list)) <=> \E i \in 1 .. n : Reverse(list)[i].addr = a
    BY ONLY <1>4 DEF AddrsOf
  <2>4. \A a : a \in AddrsOf(Reverse(list)) <=> a \in AddrsOf(list)
    BY ONLY <1>3, <1>4, <2>1, <2>2, <2>3
  <2> QED
    BY ONLY <2>4
<1> QED
  BY <1>5, <1>6, <1>7

\* An expected pong puts what is learned in front, and makes its sender young.
LEMMA PongKeepsTable ==
  ASSUME TypeOK, MapMatchesList,
         NEW p, NEW rest, NEW listed \in Listed(p), ProcessProbePong(p, rest, listed)
  PROVE  /\ nl' \in Seq(Neighbor) /\ nm' \subseteq Addrs /\ nm \subseteq nm'
         /\ MapMatchesList'
         /\ OraclesOf(nl) \subseteq OraclesOf(nl')
         /\ nl'[Len(nl')].age <= nl[Len(nl)].age
         /\ nm' = nm => StaysPut
<1> DEFINE n   == Len(nl)
           new == Learned(listed)
           old == [i \in DOMAIN nl |-> IF nl[i].addr = p.to
                                       THEN [nl[i] EXCEPT !.age = 0] ELSE nl[i]]
<1>1. /\ nl \in Seq(Neighbor) /\ n \in Nat \ {0} /\ DOMAIN nl = 1 .. n
      /\ \A i \in 1 .. n : nl[i] \in Neighbor /\ nl[i].age \in Nat
  BY TableType DEF Neighbor, Ages
<1>2. CASE Expected(p)
  <2>1. /\ nl' = Reverse(new) \o old
        /\ nm' = nm \cup AddrsOf(new)
    BY <1>2 DEF ProcessProbePong
  <2>2. \A i \in 1 .. n : /\ old[i] \in Neighbor /\ Same(old[i], nl[i])
                          /\ old[i].age <= nl[i].age
    <3>1. ASSUME NEW x \in Neighbor, x.age \in Nat
          PROVE  LET y == IF x.addr = p.to THEN [x EXCEPT !.age = 0] ELSE x
                 IN  y \in Neighbor /\ Same(y, x) /\ y.age <= x.age
      <4> DEFINE y == [x EXCEPT !.age = 0]
      <4>1. 0 \in Ages
        BY DEF Ages
      <4>2. y \in Neighbor /\ y.addr = x.addr /\ y.type = x.type /\ y.age = 0
        BY ONLY x \in Neighbor, <4>1 DEF Neighbor
      <4>3. 0 <= x.age /\ x.age <= x.age
        BY ONLY <3>1
      <4> HIDE DEF y
      <4>4. y \in Neighbor /\ Same(y, x) /\ y.age <= x.age
        BY ONLY <4>2, <4>3 DEF Same
      <4>5. x \in Neighbor /\ Same(x, x) /\ x.age <= x.age
        BY ONLY x \in Neighbor, <4>3 DEF Same
      <4> QED
        BY ONLY <4>4, <4>5, Zenon DEF y
    <3>2. \A i \in 1 .. n : old[i] = IF nl[i].addr = p.to THEN [nl[i] EXCEPT !.age = 0] ELSE nl[i]
      BY <1>1
    <3> HIDE DEF n, old, new
    <3> QED
      BY ONLY <1>1, <3>1, <3>2
  <2>3. old \in Seq(Neighbor) /\ Len(old) = n
    <3>1. old = [i \in 1 .. n |-> old[i]]
      BY <1>1
    <3> HIDE DEF n, old
    <3> QED
      BY ONLY <1>1, <2>2, <3>1
  <2> HIDE DEF old, new
  <2>4. /\ new \in Seq(Neighbor) /\ Unique(new)
        /\ \A i \in DOMAIN new : new[i].addr \notin nm
    BY LearnedEntries DEF new
  <2>5. /\ Reverse(new) \in Seq(Neighbor) /\ Unique(Reverse(new))
        /\ AddrsOf(Reverse(new)) = AddrsOf(new)
    BY <2>4, ReversedEntries
  <2>6. \A i \in DOMAIN Reverse(new) : Reverse(new)[i].addr \notin nm
    <3>1. AddrsOf(new) \cap nm = {}
      BY <2>4 DEF AddrsOf
    <3>2. \A i \in DOMAIN Reverse(new) : Reverse(new)[i].addr \in AddrsOf(Reverse(new))
      BY DEF AddrsOf
    <3> QED
      BY ONLY <2>5, <3>1, <3>2
  <2>7. /\ nl' \in Seq(Neighbor) /\ nm' \subseteq Addrs
        /\ MapMatchesList'
        /\ OraclesOf(nl) \subseteq OraclesOf(nl')
        /\ nl'[Len(nl')] = old[Len(nl)]
        /\ nm' = nm => StaysPut
    BY <2>1, <2>2, <2>3, <2>5, <2>6, FrontGrows
  <2> QED
    BY <1>1, <2>1, <2>2, <2>7
<1>3. CASE ~Expected(p)
  <2>1. nl' = nl /\ nm' = nm
    BY <1>3 DEF ProcessProbePong, table
  <2>2. nl[n].age <= nl[n].age
    BY <1>1
  <2>3. StaysPut
    BY <2>1 DEF StaysPut, Same
  <2> QED
    BY <2>1, <2>2, <2>3 DEF TypeOK, MapMatchesList, AddrsOf, OraclesOf
<1> QED
  BY <1>2, <1>3

\* Time passes for the entries of a list, which stay what they are.
LEMMA AgedEntries ==
  ASSUME NEW S, S \in {Neighbor, Line}, NEW list \in Seq(S), Unique(list),
         NEW aged, aged = [i \in DOMAIN list |-> [list[i] EXCEPT !.age = Older(@)]]
  PROVE  /\ aged \in Seq(S) /\ Unique(aged) /\ DOMAIN aged = DOMAIN list
         /\ Len(aged) = Len(list)
         /\ AddrsOf(aged) = AddrsOf(list)
         /\ OraclesOf(aged) = OraclesOf(list)
         /\ \A i \in DOMAIN list : Same(aged[i], list[i]) /\ aged[i].age <= list[i].age + 1
<1> DEFINE n == Len(list)
<1>1. n \in Nat /\ DOMAIN list = 1 .. n /\ \A i \in 1 .. n : list[i] \in S
  BY ElementOfSeq
<1> HIDE DEF n
<1>2. DOMAIN aged = 1 .. n /\ \A i \in 1 .. n : aged[i] = [list[i] EXCEPT !.age = Older(@)]
  BY <1>1
<1>3. ASSUME NEW x \in S
      PROVE  /\ [x EXCEPT !.age = Older(@)] \in S
             /\ Same([x EXCEPT !.age = Older(@)], x)
             /\ [x EXCEPT !.age = Older(@)].age <= x.age + 1
  <2>1. \A age \in Ages : Older(age) \in Ages /\ Older(age) <= age + 1
    BY DEF Older, Ages
  <2>2. CASE S = Neighbor
    <3>1. x \in Neighbor
      BY <2>2
    <3>2. [x EXCEPT !.age = Older(@)] \in Neighbor
      BY ONLY <2>1, <3>1 DEF Neighbor
    <3> QED
      BY ONLY <2>1, <2>2, <3>1, <3>2 DEF Neighbor, Same
  <2>3. CASE S = Line
    <3>1. x \in Line
      BY <2>3
    <3>2. [x EXCEPT !.age = Older(@)] \in Line
      BY ONLY <2>1, <3>1 DEF Line
    <3> QED
      BY ONLY <2>1, <2>3, <3>1, <3>2 DEF Line, Same
  <2> QED
    BY <2>2, <2>3
<1>4. \A i \in 1 .. n : /\ aged[i] \in S /\ Same(aged[i], list[i])
                        /\ aged[i].age <= list[i].age + 1
  BY ONLY <1>1, <1>2, <1>3
<1>5. aged \in Seq(S) /\ Len(aged) = n
  <2>1. aged = [i \in 1 .. n |-> aged[i]]
    BY <1>1
  <2> QED
    BY ONLY <1>1, <1>4, <2>1
<1>6. Unique(aged)
  <2>1. \A i, j \in 1 .. n : list[i].addr = list[j].addr => i = j
    BY <1>1 DEF Unique
  <2> QED
    BY ONLY <1>2, <1>4, <2>1 DEF Unique, Same
<1>7. AddrsOf(aged) = AddrsOf(list)
  BY <1>1, <1>2, <1>4 DEF AddrsOf, Same
<1>8. OraclesOf(aged) = OraclesOf(list)
  BY <1>1, <1>2, <1>4, SameOracles
<1> QED
  BY <1>1, <1>2, <1>4, <1>5, <1>6, <1>7, <1>8 DEF n

\* Pings on their way.
LEMMA PingedType ==
  ASSUME NEW rest \in SUBSET Ping, NEW n \in Neighbor, NEW asks \in BOOLEAN
  PROVE  Pinged(rest, n, asks) \subseteq Ping
<1> DEFINE older == {IF p.to = n.addr /\ p.later < SeqLimit
                     THEN [p EXCEPT !.later = @ + 1] ELSE p : p \in rest}
           sent  == [to |-> n.addr, seq |-> n.seq, asks |-> asks, later |-> 0]
<1>1. ASSUME NEW p \in Ping, p.later < SeqLimit
      PROVE  [p EXCEPT !.later = @ + 1] \in Ping
  BY ONLY <1>1, NbmtrAssumption DEF Ping, NbmtrAssumption
<1>2. older \subseteq Ping
  BY <1>1
<1>3. sent \in Ping
  BY DEF Ping, Neighbor
<1> HIDE DEF older, sent
<1>4. Pinged(rest, n, asks) \subseteq older \cup {sent}
  BY DEF Pinged, older, sent
<1> QED
  BY <1>2, <1>3, <1>4

LEMMA ForgottenType ==
  ASSUME NEW pings \in SUBSET Ping, NEW gone
  PROVE  Forgotten(pings, gone) \subseteq Ping
<1>1. \A p \in Ping : [p EXCEPT !.later = SeqLimit] \in Ping
  BY DEF Ping
<1> QED
  BY <1>1 DEF Forgotten

-----------------------------------------------------------------------------
(* The numbers of the pings on their way *)

\* The number of an address in a list is p.later + 1 past that of the ping p.
Counts(list, p) ==
  \E i \in DOMAIN list :
    /\ list[i].addr = p.to
    /\ list[i].seq \in {p.seq + 1 + p.later, p.seq + 1 + p.later - SeqLimit}

Numbered(pings, list) == \A p \in pings : p.later < SeqLimit => Counts(list, p)

\* A ping more is counted.
LEMMA PingedNumbered ==
  ASSUME NEW rest \in SUBSET Ping, NEW asks \in BOOLEAN,
         NEW list \in Seq(Neighbor), Unique(list), Numbered(rest, list),
         NEW n \in Neighbor, NEW next, NEW k \in DOMAIN list,
         n.addr = list[k].addr, n.seq = list[k].seq, DOMAIN next = DOMAIN list,
         \A i \in DOMAIN list : next[i].addr = list[i].addr,
         \A i \in DOMAIN list : next[i].seq = IF i = k THEN Bump(list[i].seq) ELSE list[i].seq
  PROVE  Numbered(Pinged(rest, n, asks), next)
<1> DEFINE aged(p) == IF p.to = n.addr /\ p.later < SeqLimit
                      THEN [p EXCEPT !.later = @ + 1] ELSE p
           sent == [to |-> n.addr, seq |-> n.seq, asks |-> asks, later |-> 0]
<1>1. list[k].seq \in 0 .. SeqLimit - 1
  BY ElementOfSeq DEF Neighbor
<1>2. Bump(list[k].seq) \in {list[k].seq + 1, list[k].seq + 1 - SeqLimit}
  BY ONLY <1>1, NbmtrAssumption DEF Bump, NbmtrAssumption
<1>3. sent.later < SeqLimit => Counts(next, sent)
  <2>1. next[k].addr = sent.to
    OBVIOUS
  <2>2. next[k].seq \in {sent.seq + 1 + sent.later, sent.seq + 1 + sent.later - SeqLimit}
    BY <1>1, <1>2
  <2> QED
    BY <2>1, <2>2 DEF Counts
<1>4. ASSUME NEW p \in rest, aged(p).later < SeqLimit
      PROVE  Counts(next, aged(p))
  <2>1. p \in Ping /\ p.later \in Nat /\ p.seq \in 0 .. SeqLimit - 1
    BY DEF Ping
  <2>2. p.later < SeqLimit
    BY <1>4, <2>1
  <2>3. PICK i \in DOMAIN list :
          /\ list[i].addr = p.to
          /\ list[i].seq \in {p.seq + 1 + p.later, p.seq + 1 + p.later - SeqLimit}
    BY <2>2 DEF Numbered, Counts
  <2>4. CASE p.to = n.addr
    <3>1. i = k
      BY <2>3, <2>4 DEF Unique
    <3>2. aged(p) = [p EXCEPT !.later = @ + 1]
      BY <2>2, <2>4
    <3>3. aged(p).to = p.to /\ aged(p).seq = p.seq /\ aged(p).later = p.later + 1
      BY ONLY <2>1, <3>2 DEF Ping
    <3>4. p.later + 1 < SeqLimit
      BY <1>4, <3>3
    <3>5. next[k].seq \in {p.seq + 1 + (p.later + 1), p.seq + 1 + (p.later + 1) - SeqLimit}
      <4>1. list[k].seq \in {p.seq + 1 + p.later, p.seq + 1 + p.later - SeqLimit}
        BY <2>3, <3>1
      <4>2. next[k].seq = Bump(list[k].seq)
        OBVIOUS
      <4> DEFINE x == list[k].seq
                 y == next[k].seq
                 s == p.seq
                 l == p.later
      <4>3. /\ x \in Nat /\ s \in Nat /\ l \in Nat /\ SeqLimit \in Nat
            /\ x < SeqLimit /\ s < SeqLimit /\ l + 1 < SeqLimit
        BY <1>1, <2>1, <3>4
      <4>4. y = IF x + 1 >= SeqLimit THEN 0 ELSE x + 1
        BY <4>2 DEF Bump
      <4> HIDE DEF x, y, s, l
      <4>5. x = s + 1 + l \/ x = s + 1 + l - SeqLimit
        BY <4>1 DEF x, s, l
      <4>6. y = s + 1 + (l + 1) \/ y = s + 1 + (l + 1) - SeqLimit
        BY ONLY <4>3, <4>4, <4>5
      <4> QED
        BY <4>6 DEF y, s, l
    <3>6. next[k].addr = p.to
      BY <2>3, <3>1
    <3> HIDE DEF aged
    <3> QED
      BY <3>3, <3>5, <3>6 DEF Counts
  <2>5. CASE p.to # n.addr
    <3>1. aged(p) = p /\ i # k
      BY <2>3, <2>5
    <3>2. next[i].addr = list[i].addr /\ next[i].seq = list[i].seq
      BY <3>1
    <3> HIDE DEF aged
    <3> QED
      BY <2>3, <3>1, <3>2 DEF Counts
  <2> QED
    BY <2>4, <2>5
<1>5. \A p \in Pinged(rest, n, asks) : p = sent \/ \E o \in rest : p = aged(o)
  BY DEF Pinged
<1> HIDE DEF aged, sent
<1> QED
  BY <1>3, <1>4, <1>5 DEF Numbered

\* What holds of a list holds of one that has its entries but for the ages.
LEMMA SameNumbers ==
  ASSUME NEW pings, NEW less \in SUBSET pings, NEW list, NEW next, Numbered(pings, list),
         \A i \in DOMAIN list : \E k \in DOMAIN next :
           next[k].addr = list[i].addr /\ next[k].seq = list[i].seq
  PROVE  Numbered(less, next)
BY DEF Numbered, Counts

\* Nothing is said of the pings to those that are gone.
LEMMA ForgottenNumbered ==
  ASSUME NEW pings \in SUBSET Ping, NEW gone, NEW list, NEW next, Numbered(pings, list),
         \A i \in DOMAIN list : \/ list[i].addr \in gone
                                \/ \E k \in DOMAIN next : /\ next[k].addr = list[i].addr
                                                          /\ next[k].seq = list[i].seq
  PROVE  Numbered(Forgotten(pings, gone), next)
<1> SUFFICES ASSUME NEW q \in Forgotten(pings, gone), q.later < SeqLimit
             PROVE  Counts(next, q)
  BY DEF Numbered
<1>1. PICK p \in pings : q = IF p.to \in gone THEN [p EXCEPT !.later = SeqLimit] ELSE p
  BY DEF Forgotten
<1>2. p.to \notin gone
  <2>1. p \in Ping /\ [p EXCEPT !.later = SeqLimit].later = SeqLimit
    BY DEF Ping
  <2> QED
    BY <1>1, <2>1
<1>3. q = p
  BY <1>1, <1>2
<1>4. Counts(list, q)
  BY <1>3 DEF Numbered
<1> QED
  BY <1>2, <1>3, <1>4 DEF Counts

\* probe numbers its pings, and forgets the number of whom it drops.
LEMMA ProbeNumbers ==
  ASSUME TypeOK, MapMatchesList, Numbered(net, nl), Probe
  PROVE  net' \subseteq Ping /\ Numbered(net', nl')
<1> DEFINE n     == Len(nl)
           asks  == Cardinality(nm) < MinSize
           both  == asks /\ n > 1
           front == [nl[1] EXCEPT !.seq = Bump(@), !.age = 0]
           back  == IF both THEN [nl[n] EXCEPT !.seq = Bump(@)] ELSE nl[n]
           half  == [nl EXCEPT ![n] = back]
           list  == [nl EXCEPT ![n] = back, ![1] = front]
           drop  == Abates(list[n]) /\ Cardinality(nm) > 1
           kept  == IF drop THEN Front(list) ELSE list
           first == IF both THEN Pinged(net, nl[n], asks) ELSE net
           pings == Pinged(first, nl[1], asks)
           gone  == IF drop THEN {back.addr} ELSE {}
<1>1. net' = Forgotten(pings, gone) /\ nl' = Turned(kept)
  BY DEF Probe
<1>2. /\ nl \in Seq(Neighbor) /\ n \in Nat \ {0} /\ DOMAIN nl = 1 .. n /\ Unique(nl)
      /\ \A i \in 1 .. n : nl[i] \in Neighbor
  BY TableType DEF MapMatchesList, Unique
<1>3. net \in SUBSET Ping /\ asks \in BOOLEAN
  BY DEF TypeOK
<1>4. /\ front \in Neighbor /\ front.addr = nl[1].addr /\ front.seq = Bump(nl[1].seq)
  <2>1. nl[1] \in Neighbor
    BY <1>2
  <2>2. Bump(nl[1].seq) \in 0 .. SeqLimit - 1 /\ 0 \in Ages
    BY <2>1, BumpType DEF Neighbor, Ages
  <2> QED
    BY ONLY <2>1, <2>2 DEF Neighbor
<1>5. /\ back \in Neighbor /\ back.addr = nl[n].addr
      /\ back.seq = IF both THEN Bump(nl[n].seq) ELSE nl[n].seq
  <2>1. nl[n] \in Neighbor
    BY <1>2
  <2>2. Bump(nl[n].seq) \in 0 .. SeqLimit - 1
    BY <2>1, BumpType DEF Neighbor
  <2> HIDE DEF both
  <2> QED
    BY ONLY <2>1, <2>2 DEF Neighbor
<1>6. both => n > 1
  OBVIOUS
<1> HIDE DEF front, back, both, asks, drop
<1>7. /\ half \in Seq(Neighbor) /\ DOMAIN half = 1 .. n
      /\ \A i \in 1 .. n : half[i] = IF i = n THEN back ELSE nl[i]
      /\ list \in Seq(Neighbor) /\ Len(list) = n /\ DOMAIN list = 1 .. n
      /\ \A i \in 1 .. n : list[i] = IF i = 1 THEN front ELSE IF i = n THEN back ELSE nl[i]
  BY ONLY <1>2, <1>4, <1>5
<1> HIDE DEF half, list
<1>8. first \subseteq Ping /\ Numbered(first, half) /\ Unique(half)
  <2>1. \A i \in 1 .. n : half[i].addr = nl[i].addr
    BY ONLY <1>5, <1>7
  <2>2. Unique(half)
    BY ONLY <1>2, <1>7, <2>1 DEF Unique
  <2>3. n \in 1 .. n
    BY <1>2
  <2>4. CASE both
    <3>1. \A i \in 1 .. n : half[i].seq = IF i = n THEN Bump(nl[i].seq) ELSE nl[i].seq
      BY ONLY <1>5, <1>7, <2>4
    <3>2. first = Pinged(net, nl[n], asks)
      BY <2>4
    <3> HIDE DEF n, first
    <3>3. Numbered(first, half)
      BY <1>2, <1>3, <1>7, <2>1, <2>3, <3>1, <3>2, PingedNumbered
    <3>4. first \subseteq Ping
      BY <1>2, <1>3, <2>3, <3>2, PingedType
    <3> QED
      BY <2>2, <3>3, <3>4
  <2>5. CASE ~ both
    <3>1. first = net
      BY <2>5
    <3>2. \A i \in 1 .. n : half[i].seq = nl[i].seq
      BY ONLY <1>5, <1>7, <2>5
    <3> HIDE DEF n, first
    <3>4. \A i \in DOMAIN nl : \E k \in DOMAIN half :
            half[k].addr = nl[i].addr /\ half[k].seq = nl[i].seq
      BY ONLY <1>2, <1>7, <2>1, <3>2
    <3>3. Numbered(first, half)
      BY <3>1, <3>4, SameNumbers
    <3> QED
      BY <1>3, <2>2, <3>1, <3>3
  <2> QED
    BY <2>4, <2>5
<1> HIDE DEF first
<1>9. pings \subseteq Ping /\ Numbered(pings, list)
  <2>1. 1 \in 1 .. n /\ nl[1] \in Neighbor
    <3>1. 1 \in 1 .. n
      BY <1>2
    <3> QED
      BY <1>2, <3>1
  <2>2. half[1].addr = nl[1].addr /\ half[1].seq = nl[1].seq
    <3>1. CASE n = 1
      BY <1>5, <1>6, <1>7, <2>1, <3>1
    <3>2. CASE n # 1
      BY <1>7, <2>1, <3>2
    <3> QED
      BY <3>1, <3>2
  <2>3. \A i \in 1 .. n : /\ list[i].addr = half[i].addr
                          /\ list[i].seq = IF i = 1 THEN Bump(half[i].seq) ELSE half[i].seq
    <3>1. list[1].addr = half[1].addr /\ list[1].seq = Bump(half[1].seq)
      BY ONLY <1>4, <1>7, <2>1, <2>2
    <3>2. \A i \in 1 .. n : i # 1 => list[i] = half[i]
      BY ONLY <1>7
    <3> QED
      BY ONLY <3>1, <3>2
  <2> HIDE DEF n
  <2>4. Numbered(pings, list)
    BY <1>3, <1>7, <1>8, <2>1, <2>2, <2>3, PingedNumbered
  <2>5. pings \subseteq Ping
    BY <1>3, <1>8, <2>1, PingedType
  <2> HIDE DEF pings
  <2> QED
    BY <2>4, <2>5
<1> HIDE DEF pings
<1>10. /\ kept \in Seq(Neighbor) /\ kept # <<>>
       /\ \A i \in 1 .. n : \/ list[i].addr \in gone
                            \/ i \in 1 .. Len(kept) /\ kept[i] = list[i]
  <2>1. CASE drop
    <3>1. kept = SubSeq(list, 1, n - 1)
      BY <1>7, <2>1 DEF Front
    <3>2. n > 1
      <4>1. n = 1 => nm = {nl[1].addr}
        BY <1>2 DEF MapMatchesList, AddrsOf
      <4>2. nm = {nl[1].addr} => Cardinality(nm) = 1
        BY FiniteMap, Zenon
      <4>3. Cardinality(nm) > 1
        BY <2>1 DEF drop
      <4>4. n \in Nat \ {0}
        BY <1>2
      <4> HIDE DEF n, kept, gone
      <4>5. n = 1 => 1 > 1
        BY ONLY <4>1, <4>2, <4>3
      <4> QED
        BY ONLY <4>4, <4>5
    <3>3. n - 1 \in 0 .. Len(list) /\ n \in Nat
      <4>1. n \in Nat \ {0} /\ Len(list) = n
        BY <1>2, <1>7
      <4> HIDE DEF n
      <4> QED
        BY ONLY <4>1
    <3>4. list[n].addr \in gone
      <4>1. n \in 1 .. n /\ n # 1
        BY ONLY <1>2, <3>2
      <4>2. list[n] = back
        BY ONLY <1>7, <4>1
      <4> QED
        BY <2>1, <4>2
    <3> HIDE DEF kept, gone, n
    <3>5. /\ kept \in Seq(Neighbor) /\ Len(kept) = n - 1
          /\ \A i \in 1 .. n - 1 : kept[i] = list[i]
      BY ONLY <1>7, <3>1, <3>3, PrefixEntries
    <3>6. kept # <<>>
      BY ONLY <3>2, <3>3, <3>5
    <3>7. \A i \in 1 .. n : i = n \/ i \in 1 .. n - 1
      BY ONLY <3>3
    <3> QED
      BY ONLY <3>4, <3>5, <3>6, <3>7
  <2>2. CASE ~ drop
    <3>1. kept = list
      BY <2>2
    <3>2. list # <<>>
      BY ONLY <1>2, <1>7
    <3> QED
      BY <1>7, <3>1, <3>2
  <2> QED
    BY <2>1, <2>2
<1> HIDE DEF kept
<1>11. \A i \in 1 .. Len(kept) : \E k \in DOMAIN Turned(kept) : Turned(kept)[k] = kept[i]
  <2> DEFINE m == Len(kept)
  <2>1. /\ Turned(kept) \in Seq(Neighbor) /\ Len(Turned(kept)) = m
        /\ \A i \in 1 .. m - 1 : Turned(kept)[i] = kept[i + 1]
        /\ Turned(kept)[m] = kept[1]
    BY <1>10, TurnedEntries
  <2>2. m \in Nat \ {0}
    BY <1>10, TailEntries
  <2> HIDE DEF m
  <2>3. DOMAIN Turned(kept) = 1 .. m
    BY ONLY <2>1, <2>2
  <2>4. ASSUME NEW i \in 1 .. m
        PROVE  \E k \in 1 .. m : Turned(kept)[k] = kept[i]
    <3>1. CASE i = 1
      BY ONLY <2>1, <2>2, <3>1
    <3>2. CASE i # 1
      <4>1. i - 1 \in 1 .. m - 1 /\ i - 1 \in 1 .. m /\ (i - 1) + 1 = i
        BY ONLY <2>2, <3>2, i \in 1 .. m
      <4> QED
        BY ONLY <2>1, <4>1
    <3> QED
      BY ONLY <3>1, <3>2
  <2> QED
    BY <2>3, <2>4 DEF m
<1>12. Numbered(Forgotten(pings, gone), Turned(kept))
  <2>1. \A i \in 1 .. n : \/ list[i].addr \in gone
                          \/ \E k \in DOMAIN Turned(kept) : Turned(kept)[k] = list[i]
    BY ONLY <1>10, <1>11
  <2> HIDE DEF gone, n
  <2>2. \A i \in DOMAIN list : \/ list[i].addr \in gone
                                \/ \E k \in DOMAIN Turned(kept) :
                                     /\ Turned(kept)[k].addr = list[i].addr
                                     /\ Turned(kept)[k].seq = list[i].seq
    BY ONLY <1>7, <2>1
  <2> QED
    BY ONLY <1>9, <2>2, ForgottenNumbered
<1>13. Forgotten(pings, gone) \subseteq Ping
  <2> HIDE DEF gone
  <2> QED
    BY <1>9, ForgottenType
<1> QED
  BY <1>1, <1>12, <1>13

\* Who is known keeps the number when others come in front.
LEMMA FrontNumbers ==
  ASSUME NEW pings, NEW less \in SUBSET pings, NEW list \in Seq(Neighbor),
         Numbered(pings, list),
         NEW new \in Seq(Neighbor), NEW old \in Seq(Neighbor), Len(old) = Len(list),
         \A i \in DOMAIN list : old[i].addr = list[i].addr /\ old[i].seq = list[i].seq
  PROVE  Numbered(less, new \o old)
<1> DEFINE w == Len(new)
           m == Len(old)
<1>1. /\ new \o old \in Seq(Neighbor) /\ Len(new \o old) = w + m
      /\ \A i \in 1 .. w + m : (new \o old)[i] = IF i <= w THEN new[i] ELSE old[i - w]
  BY ONLY new \in Seq(Neighbor), old \in Seq(Neighbor), ConcatProperties
<1>2. w \in Nat /\ m \in Nat /\ DOMAIN list = 1 .. m
  OBVIOUS
<1> HIDE DEF w, m
<1>3. DOMAIN (new \o old) = 1 .. w + m
  BY ONLY <1>1
<1>4. ASSUME NEW i \in 1 .. m
      PROVE  w + i \in 1 .. w + m /\ (new \o old)[w + i] = old[i]
  <2>1. w + i \in 1 .. w + m /\ ~(w + i <= w) /\ (w + i) - w = i
    BY ONLY <1>2, i \in 1 .. m
  <2> QED
    BY ONLY <1>1, <2>1
<1> DEFINE next == new \o old
<1>5. ASSUME NEW i \in DOMAIN list
      PROVE  \E k \in DOMAIN next : next[k].addr = list[i].addr /\ next[k].seq = list[i].seq
  <2>1. w + i \in DOMAIN next /\ next[w + i] = old[i]
    BY <1>2, <1>3, <1>4
  <2> HIDE DEF next
  <2> QED
    BY <2>1
<1> HIDE DEF next
<1>6. ASSUME NEW p \in less, p.later < SeqLimit
      PROVE  Counts(next, p)
  <2>1. Counts(list, p)
    BY <1>6 DEF Numbered
  <2> QED
    BY ONLY <1>5, <2>1 DEF Counts
<1> QED
  BY <1>6 DEF next, Numbered

\* A ping changes no number.
LEMMA PingNumbers ==
  ASSUME TypeOK, MapMatchesList, Numbered(net, nl), NEW a \in Addrs, ProcessProbePing(a)
  PROVE  Numbered(net', nl')
<1>1. net' = net /\ (nl' = <<New(a, "peer")>> \o nl \/ nl' = nl)
  BY DEF ProcessProbePing
<1>2. <<New(a, "peer")>> \in Seq(Neighbor)
  BY DEF New, Neighbor, Types, Ages
<1>3. nl \in Seq(Neighbor)
  BY TableType
<1>4. Numbered(net, <<New(a, "peer")>> \o nl)
  BY ONLY <1>2, <1>3, Numbered(net, nl), FrontNumbers
<1> QED
  BY <1>1, <1>4

\* Nor does a pong, for the pings that are left.
LEMMA PongNumbers ==
  ASSUME TypeOK, MapMatchesList, Numbered(net, nl),
         NEW p \in net, NEW rest \in {net, net \ {p}}, NEW listed \in Listed(p),
         ProcessProbePong(p, rest, listed)
  PROVE  Numbered(net', nl')
<1> DEFINE new == Reverse(Learned(listed))
           old == [i \in DOMAIN nl |-> IF nl[i].addr = p.to
                                       THEN [nl[i] EXCEPT !.age = 0] ELSE nl[i]]
<1>1. net' = rest /\ (nl' = new \o old \/ nl' = nl)
  BY DEF ProcessProbePong, table
<1>2. new \in Seq(Neighbor)
  BY LearnedEntries, ReversedEntries
<1>3. nl \in Seq(Neighbor) /\ DOMAIN nl = 1 .. Len(nl) /\ Len(nl) \in Nat
      /\ \A i \in 1 .. Len(nl) : nl[i] \in Neighbor
  BY TableType
<1>4. \A x \in Neighbor :
        /\ [x EXCEPT !.age = 0] \in Neighbor
        /\ [x EXCEPT !.age = 0].addr = x.addr /\ [x EXCEPT !.age = 0].seq = x.seq
  <2>1. 0 \in Ages
    BY DEF Ages
  <2> QED
    BY ONLY <2>1 DEF Neighbor
<1>5. \A i \in 1 .. Len(nl) : old[i] \in Neighbor /\ old[i].addr = nl[i].addr /\ old[i].seq = nl[i].seq
  BY <1>3, <1>4
<1>6. old \in Seq(Neighbor) /\ Len(old) = Len(nl)
  <2>1. old = [i \in 1 .. Len(nl) |-> old[i]]
    BY <1>3
  <2> HIDE DEF old
  <2> QED
    BY ONLY <1>3, <1>5, <2>1
<1> HIDE DEF new, old
<1>7. Numbered(rest, new \o old)
  BY <1>2, <1>3, <1>5, <1>6, FrontNumbers
<1>8. Numbered(rest, nl)
  BY DEF Numbered
<1> QED
  BY <1>1, <1>7, <1>8

\* Nor does time.
LEMMA AgedNumbers ==
  ASSUME NEW pings, NEW list \in Seq(Neighbor), Numbered(pings, list)
  PROVE  Numbered(pings, [i \in DOMAIN list |-> [list[i] EXCEPT !.age = Older(@)]])
<1> DEFINE aged == [i \in DOMAIN list |-> [list[i] EXCEPT !.age = Older(@)]]
<1>1. ASSUME NEW i \in DOMAIN list
      PROVE  aged[i].addr = list[i].addr /\ aged[i].seq = list[i].seq
  <2>1. list[i] \in Neighbor
    BY ElementOfSeq
  <2> QED
    BY <2>1 DEF Neighbor
<1>2. DOMAIN aged = DOMAIN list
  OBVIOUS
<1> HIDE DEF aged
<1>3. \A i \in DOMAIN list : \E k \in DOMAIN aged :
        aged[k].addr = list[i].addr /\ aged[k].seq = list[i].seq
  BY ONLY <1>1, <1>2
<1>4. Numbered(pings, aged)
  BY <1>3 DEF Numbered, Counts
<1> QED
  BY <1>4 DEF aged

-----------------------------------------------------------------------------
(* The invariant *)

\* Nobody is in the file twice, an oracle of the file is in the list of a proxy that
\* runs, and one that is down has no list.
FileInv ==
  /\ Unique(file)
  /\ up /\ ~torn => OraclesOf(file) \subseteq OraclesOf(nl)
  /\ ~up => nl = <<>>

\* The last of the list was probed by the last probe.
LastInv == up /\ probed => nl[Len(nl)].age <= since

\* The number of a neighbour is later + 1 past that of a ping to it.
SeqInv == up => Numbered(net, nl)

IInv == Inv /\ FileInv /\ LastInv /\ SeqInv

\* The invariant holds initially.
LEMMA InitInv == Init => IInv
<1> SUFFICES ASSUME Init
             PROVE  IInv
  OBVIOUS
<1>1. file \in Seq(Line) /\ file # <<>> /\ Unique(file)
  BY GeneratedEntries DEF Init
<1>2. /\ nl \in Seq(Neighbor) /\ nl # <<>> /\ Unique(nl)
      /\ nm = AddrsOf(nl) /\ nm \subseteq Addrs
      /\ OraclesOf(nl) = OraclesOf(file)
  BY <1>1, LoadedEntries DEF Init
<1>3. TypeOK
  <2>1. since \in 0 .. ProbeInterval + MaxLag /\ crashes \in 0 .. MaxCrashes
    BY DEF Init
  <2> QED
    BY <1>1, <1>2, <2>1 DEF Init, TypeOK
<1>4. MapMatchesList
  BY <1>2 DEF MapMatchesList, Unique
<1> QED
  BY <1>1, <1>2, <1>3, <1>4 DEF IInv, Inv, FileInv, LastInv, SeqInv, Numbered, Init

\* The rest of the invariant is about the table, its clock and the file.
LEMMA SameTable ==
  ASSUME up => MapMatchesList, FileInv, LastInv,
         UNCHANGED <<nl, nm, since, file, up, probed, torn>>
  PROVE  /\ up' => MapMatchesList'
         /\ FileInv' /\ LastInv'
         /\ OraclesOf(file) \subseteq OraclesOf(file')
<1>1. up' => MapMatchesList'
  BY DEF MapMatchesList, AddrsOf
<1>2. OraclesOf(file)' = OraclesOf(file) /\ OraclesOf(nl)' = OraclesOf(nl)
  BY DEF OraclesOf
<1>3. FileInv'
  <2>1. Unique(file)'
    BY DEF FileInv, Unique
  <2> QED
    BY <1>2, <2>1 DEF FileInv
<1>4. LastInv'
  BY DEF LastInv
<1>5. OraclesOf(file') = OraclesOf(file)
  BY DEF OraclesOf
<1> QED
  BY <1>1, <1>3, <1>4, <1>5

\* The numbers stay when list and pings do.
LEMMA SameSeqs ==
  ASSUME SeqInv, UNCHANGED <<nl, net, up>>
  PROVE  SeqInv'
BY DEF SeqInv, Numbered, Counts

\* What a step may do to the table and the file.
LEMMA StepFacts ==
  ASSUME IInv, [Next]_vars
  PROVE  IInv' /\ (~torn' => ~torn /\ OraclesOf(file) \subseteq OraclesOf(file'))
<1> USE DEF IInv, Inv
<1>1. CASE Probe
  <2>0. up /\ MapMatchesList /\ up'
    BY <1>1 DEF Probe, disk
  <2>1. /\ nl' \in Seq(Neighbor) /\ nm' \subseteq Addrs
        /\ MapMatchesList'
        /\ OraclesOf(nl) \subseteq OraclesOf(nl')
        /\ nl'[Len(nl')].age = 0
    BY <1>1, <2>0, ProbeKeepsTable
  <2>2. UNCHANGED disk /\ since' = 0 /\ probed' = TRUE
    BY <1>1 DEF Probe
  <2>3. net' \subseteq Ping /\ SeqInv'
    BY <1>1, <2>0, ProbeNumbers DEF SeqInv
  <2>4. TypeOK'
    BY <2>1, <2>2, <2>3 DEF TypeOK, disk
  <2>5. FileInv'
    BY <2>0, <2>1, <2>2 DEF FileInv, disk, OraclesOf, Unique
  <2>6. LastInv'
    BY <2>1, <2>2 DEF LastInv
  <2> QED
    BY <2>1, <2>2, <2>3, <2>4, <2>5, <2>6 DEF disk
<1>2. CASE Save
  <2>1. file' \in Saved /\ UNCHANGED <<table, since, net, up, crashes, probed, torn>>
    BY <1>2 DEF Save
  <2>0. up /\ MapMatchesList
    BY <1>2 DEF Save
  <2>2. file' \in Seq(Line) /\ Unique(file') /\ OraclesOf(file') = OraclesOf(nl)
    BY <2>0, <2>1, SavedEntries
  <2>3. TypeOK' /\ MapMatchesList'
    BY <2>0, <2>1, <2>2 DEF TypeOK, MapMatchesList, AddrsOf, table
  <2>4. FileInv'
    BY <2>0, <2>1, <2>2 DEF FileInv, Unique, OraclesOf, table
  <2> QED
    BY <2>0, <2>1, <2>2, <2>3, <2>4 DEF FileInv, LastInv, SeqInv, Numbered, Counts, table
<1>3. CASE Crash
  <2>0. up /\ MapMatchesList
    BY <1>3 DEF Crash
  <2>1. /\ up' = FALSE /\ crashes' = crashes + 1 /\ crashes < MaxCrashes
        /\ nl' = <<>> /\ nm' = {} /\ since' = 0 /\ probed' = FALSE /\ UNCHANGED net
    BY <1>3 DEF Crash
  <2>2. crashes' \in 0 .. MaxCrashes
    <3>1. crashes \in 0 .. MaxCrashes
      BY DEF TypeOK
    <3> QED
      BY <2>1, <3>1
  <2>3. file' \in Seq(Line) /\ torn' \in BOOLEAN => TypeOK'
    <3>1. nl' \in Seq(Neighbor) /\ since' \in 0 .. ProbeInterval + MaxLag
      BY <2>1
    <3> QED
      BY <2>1, <2>2, <3>1 DEF TypeOK
  <2>4. CASE UNCHANGED <<file, torn>>
    <3>1. TypeOK'
      BY <2>3, <2>4 DEF TypeOK
    <3>2. FileInv' /\ OraclesOf(file') = OraclesOf(file)
      BY <2>1, <2>4 DEF FileInv, Unique, OraclesOf
    <3> QED
      BY <2>1, <2>4, <3>1, <3>2 DEF LastInv, SeqInv
  <2>5. CASE \E lines \in Saved : \E n \in 0 .. Len(lines) - 1 :
               file' = SubSeq(lines, 1, n) /\ torn' = TRUE
    <3>1. PICK lines \in Saved : \E n \in 0 .. Len(lines) - 1 :
                 file' = SubSeq(lines, 1, n) /\ torn' = TRUE
      BY <2>5
    <3>2. lines \in Seq(Line) /\ Unique(lines) /\ Len(lines) \in Nat
      BY <2>0, SavedEntries
    <3>3. PICK n \in 0 .. Len(lines) - 1 : file' = SubSeq(lines, 1, n) /\ torn' = TRUE
      BY <3>1
    <3>4. /\ file' \in Seq(Line) /\ Len(file') = n
          /\ \A i \in 1 .. n : file'[i] = lines[i]
      <4>1. n \in 0 .. Len(lines)
        BY <3>2
      <4> QED
        BY ONLY <3>2, <3>3, <4>1, PrefixEntries
    <3>5. Unique(file')
      <4>1. DOMAIN file' = 1 .. n /\ \A i \in 1 .. n : i \in DOMAIN lines
        BY ONLY <3>2, <3>4, n \in 0 .. Len(lines) - 1
      <4> QED
        BY ONLY <3>2, <3>4, <4>1 DEF Unique
    <3>6. TypeOK'
      BY <2>3, <3>3, <3>4
    <3>7. FileInv'
      BY <2>1, <3>5 DEF FileInv, Unique
    <3> QED
      BY <2>1, <3>3, <3>6, <3>7 DEF LastInv, SeqInv
  <2> QED
    BY <1>3, <2>4, <2>5 DEF Crash
<1>4. CASE Restart
  <2>1. /\ ~up /\ file # <<>> /\ up' = TRUE /\ nl' = Loaded(file) /\ nm' = AddrsOf(file)
        /\ since' = 0 /\ probed' = FALSE
        /\ net' = Forgotten(net, Addrs)
        /\ UNCHANGED <<file, crashes, torn>>
    BY <1>4 DEF Restart
  <2>2. /\ nl' \in Seq(Neighbor) /\ nl' # <<>> /\ Unique(nl')
        /\ nm' = AddrsOf(nl') /\ nm' \subseteq Addrs
        /\ OraclesOf(nl') = OraclesOf(file)
    BY <2>1, LoadedEntries DEF TypeOK, FileInv
  <2>3. TypeOK'
    <3>1. since' \in 0 .. ProbeInterval + MaxLag
      BY <2>1 DEF TypeOK
    <3>2. net' \subseteq Ping
      BY <2>1, ForgottenType DEF TypeOK
    <3> QED
      BY <2>1, <2>2, <3>1, <3>2 DEF TypeOK
  <2>6. SeqInv'
    <3>1. \A p \in net' : p.later = SeqLimit
      <4>1. \A p \in net : p \in Ping /\ p.to \in Addrs
        BY DEF TypeOK, Ping
      <4>2. \A p \in net : [p EXCEPT !.later = SeqLimit].later = SeqLimit
        BY <4>1 DEF Ping
      <4> QED
        BY <2>1, <4>1, <4>2 DEF Forgotten
    <3> QED
      BY <3>1 DEF SeqInv, Numbered
  <2>4. MapMatchesList'
    BY <2>2 DEF MapMatchesList, Unique, AddrsOf
  <2>5. OraclesOf(nl)' = OraclesOf(nl') /\ OraclesOf(file)' = OraclesOf(file)
    BY <2>1 DEF OraclesOf
  <2> QED
    BY <2>1, <2>2, <2>3, <2>4, <2>5, <2>6 DEF FileInv, LastInv, Unique
<1>5. ASSUME NEW a \in Addrs, ProcessProbePing(a)
      PROVE  IInv' /\ (~torn' => ~torn /\ OraclesOf(file) \subseteq OraclesOf(file'))
  <2>0. up /\ MapMatchesList
    BY <1>5 DEF ProcessProbePing
  <2>1. /\ nl' \in Seq(Neighbor) /\ nm' \subseteq Addrs
        /\ MapMatchesList'
        /\ OraclesOf(nl) \subseteq OraclesOf(nl')
        /\ nl'[Len(nl')] = nl[Len(nl)]
    BY <1>5, <2>0, PingKeepsTable
  <2>2. UNCHANGED <<since, net, disk, probed>>
    BY <1>5 DEF ProcessProbePing
  <2>3. SeqInv'
    BY <1>5, <2>0, PingNumbers DEF SeqInv
  <2> QED
    BY <2>0, <2>1, <2>2, <2>3 DEF TypeOK, FileInv, LastInv, Unique, OraclesOf, disk
<1>6. ASSUME NEW p \in net, NEW rest \in {net, net \ {p}}, NEW listed \in Listed(p),
             ProcessProbePong(p, rest, listed)
      PROVE  IInv' /\ (~torn' => ~torn /\ OraclesOf(file) \subseteq OraclesOf(file'))
  <2>0. up /\ MapMatchesList
    BY <1>6 DEF ProcessProbePong
  <2>1. /\ nl' \in Seq(Neighbor) /\ nm' \subseteq Addrs
        /\ MapMatchesList'
        /\ OraclesOf(nl) \subseteq OraclesOf(nl')
        /\ nl'[Len(nl')].age <= nl[Len(nl)].age
    BY <1>6, <2>0, PongKeepsTable
  <2>2. net' = rest /\ UNCHANGED <<since, disk, probed>>
    BY <1>6 DEF ProcessProbePong
  <2>3. net' \subseteq net
    BY <2>2
  <2>4. TypeOK'
    BY <2>1, <2>2, <2>3 DEF TypeOK, disk
  <2>5. FileInv'
    BY <2>0, <2>1, <2>2 DEF FileInv, Unique, OraclesOf, disk
  <2>6. LastInv'
    <3>1. nl[Len(nl)] \in Neighbor /\ nl'[Len(nl')] \in Neighbor
      <4>1. nl' \in Seq(Neighbor) /\ nl' # <<>>
        BY <2>1 DEF MapMatchesList
      <4>2. Len(nl') \in 1 .. Len(nl')
        BY ONLY <4>1, TailEntries
      <4> QED
        BY ONLY <2>0, <4>1, <4>2, TypeOK, TableType, ElementOfSeq
    <3> QED
      BY <2>1, <2>2, <3>1 DEF LastInv, Neighbor, Ages, disk, TypeOK
  <2>7. SeqInv'
    BY <1>6, <2>0, PongNumbers DEF SeqInv
  <2> QED
    BY <2>1, <2>2, <2>4, <2>5, <2>6, <2>7 DEF disk
<1>7. ASSUME NEW p \in net, Vanishes(p)
      PROVE  IInv' /\ (~torn' => ~torn /\ OraclesOf(file) \subseteq OraclesOf(file'))
  <2>1. UNCHANGED <<nl, nm, since, file, up, crashes, probed, torn>> /\ net' = net \ {p}
    BY <1>7 DEF Vanishes, disk, table
  <2>2. TypeOK'
    BY <2>1 DEF TypeOK
  <2>3. SeqInv'
    BY <2>1 DEF SeqInv, Numbered, Counts
  <2> QED
    BY <2>1, <2>2, <2>3, SameTable
<1>8. CASE Tick
  <2>1. /\ nl' = [i \in DOMAIN nl |-> [nl[i] EXCEPT !.age = Older(@)]]
        /\ file' = [i \in DOMAIN file |-> [file[i] EXCEPT !.age = Older(@)]]
        /\ since' = IF up THEN since + 1 ELSE since
        /\ up => since < ProbeInterval + MaxLag
        /\ UNCHANGED <<nm, net, up, crashes, probed, torn>>
    BY <1>8 DEF Tick
  <2>2. nl \in Seq(Neighbor) /\ Unique(nl)
    BY DEF TypeOK, MapMatchesList, FileInv, Unique
  <2>3. /\ nl' \in Seq(Neighbor) /\ Unique(nl') /\ Len(nl') = Len(nl)
        /\ AddrsOf(nl') = AddrsOf(nl) /\ OraclesOf(nl') = OraclesOf(nl)
        /\ \A i \in DOMAIN nl : nl'[i].age <= nl[i].age + 1
    BY <2>1, <2>2, AgedEntries
  <2>4. /\ file' \in Seq(Line) /\ Unique(file')
        /\ OraclesOf(file') = OraclesOf(file)
    BY <2>1, AgedEntries DEF TypeOK, FileInv
  <2>5. since' \in 0 .. ProbeInterval + MaxLag
    <3>1. since \in 0 .. ProbeInterval + MaxLag
      BY DEF TypeOK
    <3>2. since < ProbeInterval + MaxLag => since + 1 \in 0 .. ProbeInterval + MaxLag
      BY ONLY <3>1, NbmtrAssumption DEF NbmtrAssumption
    <3> QED
      BY ONLY <2>1, <3>1, <3>2
  <2>6. TypeOK'
    BY <2>1, <2>3, <2>4, <2>5 DEF TypeOK
  <2>7. up => MapMatchesList'
    <3>1. up => nl # <<>> /\ nm = AddrsOf(nl)
      BY DEF MapMatchesList
    <3>2. up => nl' # <<>>
      BY ONLY <2>2, <2>3, <3>1, EmptySeq
    <3> QED
      BY <2>1, <2>2, <2>3, <3>1, <3>2 DEF MapMatchesList, Unique, AddrsOf
  <2>8. FileInv'
    <3>1. ~up => nl' = <<>>
      BY <2>1 DEF FileInv
    <3> QED
      BY <2>1, <2>3, <2>4, <3>1 DEF FileInv, Unique, OraclesOf
  <2>9. LastInv'
    <3> SUFFICES ASSUME up, probed PROVE nl'[Len(nl')].age <= since'
      BY <2>1 DEF LastInv
    <3>1. Len(nl) \in DOMAIN nl /\ nl[Len(nl)] \in Neighbor
      BY TableType
    <3>2. nl'[Len(nl)] \in Neighbor
      BY ONLY <2>2, <2>3, <3>1, ElementOfSeq
    <3>3. nl[Len(nl)].age \in Nat /\ nl'[Len(nl)].age \in Nat
      BY <3>1, <3>2 DEF Neighbor, Ages
    <3>4. since \in Nat /\ nl[Len(nl)].age <= since
      BY DEF LastInv, TypeOK
    <3>5. nl'[Len(nl')].age <= nl[Len(nl)].age + 1
      BY ONLY <2>3, <3>1
    <3>6. since' = since + 1 /\ nl'[Len(nl')].age \in Nat
      BY <2>1, <2>3, <3>3
    <3> QED
      BY ONLY <3>3, <3>4, <3>5, <3>6
  <2>10. SeqInv'
    BY <2>1, <2>2, AgedNumbers DEF SeqInv
  <2> QED
    BY <2>1, <2>4, <2>6, <2>7, <2>8, <2>9, <2>10
<1>9. CASE UNCHANGED vars
  <2>1. UNCHANGED <<nl, nm, since, net, file, up, crashes, probed, torn>>
    BY <1>9 DEF vars, disk, table
  <2>2. TypeOK'
    BY <2>1 DEF TypeOK
  <2>3. SeqInv'
    BY <2>1, SameSeqs
  <2> QED
    BY <2>1, <2>2, <2>3, SameTable
<1> QED
  BY <1>1, <1>2, <1>3, <1>4, <1>5, <1>6, <1>7, <1>8, <1>9 DEF Next

\* It holds always.
LEMMA InvariantHolds == Spec => []IInv
<1>1. Init => IInv
  BY InitInv
<1>2. IInv /\ [Next]_vars => IInv'
  BY StepFacts
<1> QED
  BY <1>1, <1>2, PTL DEF Spec

\* Only a probe drops neighbours of a proxy that runs.
LEMMA OnlyProbesDrop ==
  ASSUME IInv, [Next]_vars, up, up'
  PROVE  Probe \/ nm \subseteq nm'
BY PingKeepsTable, PongKeepsTable
   DEF IInv, Inv, Next, vars, table, Save, Crash, Restart, Vanishes, Tick

\* After the first probe the last of the list is too young to be dropped.
LEMMA LastIsYoung ==
  ASSUME IInv, up, probed
  PROVE  ~(nl[Len(nl)].age >= AbateInterval)
<1>0. MapMatchesList
  BY DEF IInv, Inv
<1>1. nl[Len(nl)].age <= since
  BY DEF IInv, LastInv
<1>2. nl[Len(nl)] \in Neighbor
  BY <1>0, TableType DEF IInv, Inv
<1> QED
  BY <1>1, <1>2 DEF IInv, Inv, TypeOK, Neighbor, Ages

-----------------------------------------------------------------------------
(* The theorems *)

\* The map and the list of a proxy hold the same neighbours, each once and never
\* nobody, whatever is probed, learned, dropped, saved or torn by a crash.
THEOREM TableStaysWhole == Spec => []Inv
<1>1. IInv => Inv
  BY DEF IInv
<1> QED
  BY <1>1, InvariantHolds, PTL

\* A proxy that runs accepts a pong only if it answers the last ping to its sender,
\* unless a whole round of the numbers was sent since or they began anew: late,
\* repeated and reordered pongs are told by the number alone.
THEOREM OnlyLastPongs == Spec => []StalePongsIgnored
<1>1. IInv => StalePongsIgnored
  <2> SUFFICES ASSUME IInv, NEW p \in net, up, Expected(p), p.later < SeqLimit
               PROVE  p.later = 0
    <3>1. TypeOK => \A p \in net : p.later \in Nat /\ p.later <= SeqLimit
      BY DEF TypeOK, Ping
    <3> QED
      BY <3>1 DEF StalePongsIgnored, IInv, Inv
  <2>1. TypeOK /\ MapMatchesList /\ Numbered(net, nl)
    BY DEF IInv, Inv, SeqInv
  <2>2. PICK i \in DOMAIN nl : nl[i].addr = p.to /\ nl[i].seq = p.seq + 1
    BY DEF Expected
  <2>3. PICK k \in DOMAIN nl :
          /\ nl[k].addr = p.to
          /\ nl[k].seq \in {p.seq + 1 + p.later, p.seq + 1 + p.later - SeqLimit}
    BY <2>1 DEF Numbered, Counts
  <2>4. i = k
    BY <2>1, <2>2, <2>3 DEF MapMatchesList
  <2>5. p.seq \in Nat /\ p.later \in Nat
    BY <2>1 DEF TypeOK, Ping
  <2> QED
    BY <2>2, <2>3, <2>4, <2>5
<1> QED
  BY <1>1, InvariantHolds, PTL

\* After its first probe a proxy drops nobody more.
THEOREM DropsNobodyLater == Spec => DropsOnlyAtStart
<1>1. IInv /\ [Next]_vars => [up /\ up' /\ probed => nm \subseteq nm']_vars
  <2> SUFFICES ASSUME IInv, [Next]_vars, up, up', probed
               PROVE  nm \subseteq nm'
    OBVIOUS
  <2>1. TypeOK /\ MapMatchesList
    BY DEF IInv, Inv
  <2>2. CASE Probe
    <3>1. ~(nl[Len(nl)].age >= AbateInterval)
      BY LastIsYoung
    <3>2. \A i \in DOMAIN nl : nl[i].addr \in nm'
      BY <2>1, <2>2, <3>1, ProbeKeepsTable
    <3> QED
      BY <2>1, <3>2 DEF MapMatchesList, AddrsOf
  <2>3. Probe \/ nm \subseteq nm'
    BY OnlyProbesDrop
  <2> QED
    BY <2>2, <2>3
<1> QED
  BY <1>1, InvariantHolds, PTL DEF Spec, DropsOnlyAtStart

\* The oracles of the file stay neighbours and stay in the file, unless a crash
\* cuts a save.
THEOREM OraclesNeverLost == Spec => OraclesStay
<1>1. IInv /\ [Next]_vars =>
        [~torn' => /\ OraclesOf(file) \subseteq OraclesOf(file')
                   /\ up' => OraclesOf(file) \subseteq OraclesOf(nl')]_vars
  <2> SUFFICES ASSUME IInv, [Next]_vars, ~torn'
               PROVE  /\ OraclesOf(file) \subseteq OraclesOf(file')
                      /\ up' => OraclesOf(file) \subseteq OraclesOf(nl')
    OBVIOUS
  <2>1. IInv' /\ OraclesOf(file) \subseteq OraclesOf(file')
    BY StepFacts
  <2>2. up' => OraclesOf(file') \subseteq OraclesOf(nl')
    BY <2>1 DEF IInv, FileInv, OraclesOf
  <2> QED
    BY <2>1, <2>2
<1> QED
  BY <1>1, InvariantHolds, PTL DEF Spec, OraclesStay

\* Where the neighbour at place i is after a step.
NextPlace(i) == IF ~Probe THEN i ELSE IF i > 1 THEN i - 1 ELSE Len(nl)

\* After the first probe a step brings new neighbours, or it is a probe and
\* everybody comes one place nearer to the front, the probed one to the end, or
\* everybody stays where it is: nobody is passed over (simplenbmtr.cpp:230-239).
TurnsOn ==
  [][up /\ up' /\ probed =>
       \/ nm \subseteq nm' /\ nm' # nm
       \/ /\ nm' = nm /\ Len(nl') = Len(nl)
          /\ \A i \in DOMAIN nl : nl'[NextPlace(i)].addr = nl[i].addr]_vars

\* Between the arrivals of new neighbours, of which there are finitely many, each
\* probe brings everybody nearer to being probed: the safety half of
\* EverybodyProbed.
THEOREM ProbeComesNearer == Spec => TurnsOn
<1> DEFINE Turn == \A i \in DOMAIN nl : nl'[NextPlace(i)].addr = nl[i].addr
           Goal == \/ nm \subseteq nm' /\ nm' # nm
                   \/ nm' = nm /\ Len(nl') = Len(nl) /\ Turn
<1>1. IInv /\ [Next]_vars => [up /\ up' /\ probed => Goal]_vars
  <2> SUFFICES ASSUME IInv, [Next]_vars, up, up', probed
               PROVE  Goal
    OBVIOUS
  <2>1. TypeOK /\ MapMatchesList
    BY DEF IInv, Inv
  <2>2. CASE Probe
    <3>1. ~(nl[Len(nl)].age >= AbateInterval)
      BY <2>1, LastIsYoung
    <3>2. /\ Len(nl) \in Nat \ {0} /\ DOMAIN nl = 1 .. Len(nl)
          /\ Len(nl') = Len(nl) /\ nm' = nm
          /\ \A i \in 1 .. Len(nl) - 1 : Same(nl'[i], nl[i + 1])
          /\ Same(nl'[Len(nl)], nl[1])
      BY <2>1, <2>2, <3>1, ProbeTurns, TableType
    <3>3. ASSUME NEW i \in 1 .. Len(nl), i > 1
          PROVE  Same(nl'[i - 1], nl[i])
      <4>1. i - 1 \in 1 .. Len(nl) - 1 /\ (i - 1) + 1 = i
        BY ONLY <3>2, <3>3
      <4> QED
        BY <3>2, <4>1
    <3>4. \A i \in 1 .. Len(nl) : ~(i > 1) => i = 1
      BY ONLY <3>2
    <3>5. Turn
      BY ONLY <2>2, <3>2, <3>3, <3>4 DEF NextPlace, Same
    <3> QED
      BY <3>2, <3>5
  <2>3. CASE ~Probe /\ StaysPut
    <3>1. Len(nl') = Len(nl) /\ Turn
      BY ONLY <2>3 DEF StaysPut, NextPlace, Same
    <3>2. nm \subseteq nm'
      BY <2>1, <2>3, OnlyProbesDrop
    <3> QED
      BY <3>1, <3>2
  <2>4. ~Probe /\ nm' = nm => StaysPut
    <3>1. Tick => StaysPut
      <4>1. nl \in Seq(Neighbor) /\ Unique(nl)
        BY <2>1 DEF TypeOK, MapMatchesList, Unique
      <4> QED
        BY <4>1, AgedEntries DEF Tick, StaysPut
    <3>2. UNCHANGED nl => StaysPut
      BY DEF StaysPut, Same
    <3>3. Tick \/ UNCHANGED nl \/ Probe \/ (nm' = nm => StaysPut)
      BY <2>1, PingKeepsTable, PongKeepsTable
         DEF Next, vars, table, Save, Crash, Restart, Vanishes
    <3> QED
      BY <3>1, <3>2, <3>3
  <2>5. ~Probe => nm \subseteq nm'
    BY <2>1, OnlyProbesDrop
  <2> QED
    BY <2>2, <2>3, <2>4, <2>5
<1> QED
  BY <1>1, InvariantHolds, PTL DEF Spec, TurnsOn

=============================================================================
