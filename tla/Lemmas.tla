------------------------------- MODULE Lemmas -------------------------------
(***************************************************************************)
(* Lemmas that the proofs about several components rest on: the sequences  *)
(* the models keep lists in and what is left of one by an insertion, an    *)
(* erasure or a loop over it, the sets of its positions, and arithmetic    *)
(* modulo a width that is not a literal (uint16_t _cur_rq_bw).             *)
(***************************************************************************)
EXTENDS Lists, SequencesExt, SequenceTheorems,
        FiniteSetTheorems, WellFoundedInduction, TLAPS

-----------------------------------------------------------------------------
(* The entries of a sequence after a change *)

\* The entries of a sequence with one element inserted: std::list::insert.
LEMMA InsertAtEntries ==
  ASSUME NEW S, NEW s \in Seq(S), NEW p \in 1 .. Len(s) + 1, NEW e \in S
  PROVE  /\ InsertAt(s, p, e) \in Seq(S)
         /\ Len(InsertAt(s, p, e)) = Len(s) + 1
         /\ \A i \in 1 .. Len(s) + 1 :
              InsertAt(s, p, e)[i] = IF i < p THEN s[i] ELSE IF i = p THEN e ELSE s[i - 1]
<1> DEFINE front == SubSeq(s, 1, p - 1)
           back  == SubSeq(s, p, Len(s))
<1>1. /\ front \in Seq(S) /\ Len(front) = p - 1
      /\ \A i \in 1 .. p - 1 : front[i] = s[i]
  <2>1. \A i \in 1 .. p - 1 : s[i] \in S
    BY ElementOfSeq
  <2> QED
    BY <2>1, SubSeqProperties
<1>2. /\ back \in Seq(S) /\ Len(back) = Len(s) - p + 1
      /\ \A i \in 1 .. Len(s) - p + 1 : back[i] = s[p + i - 1]
  <2>1. \A i \in p .. Len(s) : s[i] \in S
    BY ElementOfSeq
  <2> QED
    BY <2>1, SubSeqProperties
<1>3. <<e>> \in Seq(S) /\ Len(<<e>>) = 1 /\ <<e>>[1] = e
  OBVIOUS
<1> HIDE DEF front, back
<1>4. /\ front \o <<e>> \in Seq(S) /\ Len(front \o <<e>>) = p
      /\ \A i \in 1 .. p : (front \o <<e>>)[i] = IF i < p THEN s[i] ELSE e
  BY <1>1, <1>3, ConcatProperties
<1> DEFINE left == front \o <<e>>
<1>5. /\ left \in Seq(S) /\ Len(left) = p
      /\ \A i \in 1 .. p : left[i] = IF i < p THEN s[i] ELSE e
  BY <1>4
<1> HIDE DEF left
<1>6. /\ left \o back \in Seq(S)
      /\ Len(left \o back) = Len(s) + 1
      /\ \A i \in 1 .. Len(s) + 1 :
           (left \o back)[i]
             = IF i < p THEN s[i] ELSE IF i = p THEN e ELSE s[i - 1]
  <2>1. /\ left \o back \in Seq(S)
        /\ Len(left \o back) = Len(left) + Len(back)
        /\ \A i \in 1 .. Len(left) + Len(back) :
             (left \o back)[i] = IF i <= Len(left) THEN left[i] ELSE back[i - Len(left)]
    BY <1>2, <1>5, ConcatProperties
  <2> DEFINE both == left \o back
  <2> HIDE DEF both
  <2>2. Len(left) = p /\ Len(left) + Len(back) = Len(s) + 1
    BY <1>2, <1>5
  <2>3. \A i \in 1 .. Len(s) + 1 :
          both[i] = IF i <= p THEN left[i] ELSE back[i - p]
    BY <2>1, <2>2 DEF both
  <2>4. \A i \in 1 .. Len(s) + 1 : i > p =>
          /\ i - p \in 1 .. Len(s) - p + 1
          /\ p + (i - p) - 1 = i - 1
    OBVIOUS
  <2>5. ASSUME NEW i \in 1 .. Len(s) + 1, i > p
        PROVE  back[i - p] = s[i - 1]
    BY <1>2, <2>4, <2>5
  <2> QED
    BY <1>2, <1>5, <2>1, <2>3, <2>5 DEF both
<1> QED
  BY <1>6 DEF InsertAt, left, front, back

\* The entries of a sequence with one element removed: std::list::erase.
LEMMA RemoveAtEntries ==
  ASSUME NEW S, NEW s \in Seq(S), NEW p \in 1 .. Len(s)
  PROVE  /\ RemoveAt(s, p) \in Seq(S)
         /\ Len(RemoveAt(s, p)) = Len(s) - 1
         /\ \A i \in 1 .. Len(s) - 1 :
              RemoveAt(s, p)[i] = IF i < p THEN s[i] ELSE s[i + 1]
<1> DEFINE front == SubSeq(s, 1, p - 1)
           back  == SubSeq(s, p + 1, Len(s))
<1>1. /\ front \in Seq(S) /\ Len(front) = p - 1
      /\ \A i \in 1 .. p - 1 : front[i] = s[i]
  <2>1. \A i \in 1 .. p - 1 : s[i] \in S
    BY ElementOfSeq
  <2> QED
    BY <2>1, SubSeqProperties
<1>2. /\ back \in Seq(S) /\ Len(back) = Len(s) - p
      /\ \A i \in 1 .. Len(s) - p : back[i] = s[p + i]
  <2>1. \A i \in p + 1 .. Len(s) : s[i] \in S
    BY ElementOfSeq
  <2> QED
    BY <2>1, SubSeqProperties
<1> HIDE DEF front, back
<1>3. /\ front \o back \in Seq(S)
      /\ Len(front \o back) = Len(s) - 1
      /\ \A i \in 1 .. Len(s) - 1 :
           (front \o back)[i] = IF i < p THEN s[i] ELSE s[i + 1]
  <2>1. /\ front \o back \in Seq(S)
        /\ Len(front \o back) = Len(front) + Len(back)
        /\ \A i \in 1 .. Len(front) + Len(back) :
             (front \o back)[i]
               = IF i <= Len(front) THEN front[i] ELSE back[i - Len(front)]
    BY <1>1, <1>2, ConcatProperties
  <2> DEFINE both == front \o back
  <2> HIDE DEF both
  <2>2. \A i \in 1 .. Len(s) - 1 :
          both[i] = IF i < p THEN front[i] ELSE back[i - (p - 1)]
    BY <2>1, <1>1, <1>2 DEF both
  <2>3. \A i \in 1 .. Len(s) - 1 : ~(i < p) =>
          /\ i - (p - 1) \in 1 .. Len(s) - p
          /\ p + (i - (p - 1)) = i + 1
    OBVIOUS
  <2>4. ASSUME NEW i \in 1 .. Len(s) - 1, ~(i < p)
        PROVE  back[i - (p - 1)] = s[i + 1]
    BY <1>2, <2>3, <2>4
  <2> QED
    BY <1>1, <1>2, <2>1, <2>2, <2>4 DEF both
<1> QED
  BY <1>3 DEF RemoveAt, front, back

\* The entries of a sequence without its last: erase(--end()).
LEMMA PrefixEntries ==
  ASSUME NEW S, NEW s \in Seq(S), NEW n \in 0 .. Len(s)
  PROVE  /\ SubSeq(s, 1, n) \in Seq(S)
         /\ Len(SubSeq(s, 1, n)) = n
         /\ \A i \in 1 .. n : SubSeq(s, 1, n)[i] = s[i]
<1>1. \A i \in 1 .. n : s[i] \in S
  BY ElementOfSeq
<1> QED
  BY <1>1, SubSeqProperties

\* The entries of a sequence without its first: pop_front.
LEMMA TailEntries ==
  ASSUME NEW S, NEW s \in Seq(S), s # <<>>
  PROVE  /\ Head(s) \in S /\ Head(s) = s[1]
         /\ Tail(s) \in Seq(S)
         /\ Len(s) \in Nat \ {0}
         /\ Len(Tail(s)) = Len(s) - 1
         /\ \A i \in 1 .. Len(s) - 1 : Tail(s)[i] = s[i + 1]
<1>1. Len(s) \in Nat \ {0}
  BY EmptySeq
<1> QED
  BY <1>1, HeadTailProperties, ElementOfSeq

-----------------------------------------------------------------------------
(* Positions *)

\* A nonempty set of natural numbers has a least element.
LEMMA LeastNumber ==
  ASSUME NEW S, S \subseteq Nat, S # {}
  PROVE  \E m \in S : \A j \in S : m <= j
<1> DEFINE Less == OpToRel(<, Nat)
<1>1. \E i \in S : \A j \in S : ~(<<j, i>> \in Less)
  BY NatLessThanWellFounded, WFMin
<1>2. \A i, j \in S : <<j, i>> \in Less <=> j < i
  BY DEF OpToRel
<1> HIDE DEF Less
<1>3. \E i \in S : \A j \in S : ~(j < i)
  BY <1>1, <1>2, Zenon
<1> QED
  BY <1>3

\* Positions of which every earlier one is one of them are the first ones, as
\* many as they are.
LEMMA FirstPositions ==
  ASSUME NEW n \in Nat, NEW S \in SUBSET (1 .. n),
         \A i \in S : \A j \in 1 .. n : j < i => j \in S
  PROVE  Cardinality(S) \in 0 .. n /\ S = 1 .. Cardinality(S)
<1>1. PICK m \in 0 .. n : S = 1 .. m
  <2>1. CASE S = 1 .. n
    BY <2>1
  <2>2. CASE S # 1 .. n
    <3> DEFINE rest == (1 .. n) \ S
    <3>1. rest # {}
      BY <2>2, Zenon
    <3>2. rest \subseteq Nat
      OBVIOUS
    <3>3. \E m \in rest : \A j \in rest : m <= j
      <4> HIDE DEF rest
      <4> QED
        BY <3>1, <3>2, LeastNumber
    <3>4. PICK k \in 1 .. n : k \notin S /\ \A j \in 1 .. n : j \notin S => k <= j
      BY <3>3
    <3>5. ASSUME NEW j \in 1 .. n
          PROVE  j \in S <=> j \in 1 .. k - 1
      BY <3>4
    <3>6. S = 1 .. k - 1
      <4>1. \A j \in S : j \in 1 .. n
        OBVIOUS
      <4>2. \A j \in 1 .. k - 1 : j \in 1 .. n
        BY <3>4
      <4>3. \A j : j \in S <=> j \in 1 .. k - 1
        BY ONLY <3>5, <4>1, <4>2, Zenon
      <4> QED
        BY ONLY <4>3, Zenon
    <3> QED
      BY <3>4, <3>6
  <2> QED
    BY <2>1, <2>2
<1>2. Cardinality(1 .. m) = m
  BY FS_Interval
<1> QED
  BY <1>1, <1>2

-----------------------------------------------------------------------------
(* Entries taken from a list *)

\* The recursive function of Only exists: its approximations up to each
\* position do.
IsPicked(f, list, P, N) ==
  f = [n \in 0 .. N |-> IF n = 0 THEN <<>>
                        ELSE IF n \in P THEN Append(f[n - 1], list[n])
                        ELSE f[n - 1]]

\* The function that picks entries, up to every N, exists.
LEMMA PickedExists ==
  ASSUME NEW list, NEW P, NEW N \in Nat
  PROVE  \E f : IsPicked(f, list, P, N)
<1> USE DEF IsPicked
<1> DEFINE Is(f, m) == IsPicked(f, list, P, m)
           none == {m \in Nat : ~ \E f : Is(f, m)}
<1>1. ASSUME none # {} PROVE FALSE
  <2>1. PICK m \in none : \A j \in none : m <= j
    <3>1. none \subseteq Nat
      OBVIOUS
    <3> HIDE DEF none
    <3> QED
      BY <1>1, <3>1, LeastNumber
  <2>2. m # 0
    <3>1. Is([n \in 0 .. 0 |-> <<>>], 0)
      OBVIOUS
    <3> HIDE DEF Is
    <3> QED
      BY <3>1
  <2>3. m \in Nat /\ m - 1 \in Nat
    BY <2>2
  <2>4. m - 1 \notin none
    <3> HIDE DEF none
    <3> QED
      BY <2>1, <2>3
  <2>5. PICK g : Is(g, m - 1)
    BY <2>3, <2>4
  <2> DEFINE h == [n \in 0 .. m |-> IF n <= m - 1 THEN g[n]
                                    ELSE IF m \in P THEN Append(g[m - 1], list[m])
                                    ELSE g[m - 1]]
  <2>6. Is(h, m)
    <3>1. \A n \in 0 .. m - 1 :
            g[n] = IF n = 0 THEN <<>>
                   ELSE IF n \in P THEN Append(g[n - 1], list[n]) ELSE g[n - 1]
      BY <2>5
    <3>2. \A n \in 0 .. m - 1 : h[n] = g[n]
      BY <2>3
    <3>3. h[m] = IF m \in P THEN Append(g[m - 1], list[m]) ELSE g[m - 1]
      BY <2>3
    <3>4. ASSUME NEW n \in 0 .. m
          PROVE  h[n] = IF n = 0 THEN <<>>
                        ELSE IF n \in P THEN Append(h[n - 1], list[n]) ELSE h[n - 1]
      <4> HIDE DEF h
      <4>1. CASE n = m
        BY <4>1, <2>2, <2>3, <3>2, <3>3
      <4>2. CASE n # m
        BY <4>2, <2>3, <3>1, <3>2
      <4> QED
        BY <4>1, <4>2
    <3>5. h = [n \in 0 .. m |-> h[n]]
      OBVIOUS
    <3> HIDE DEF h
    <3> QED
      BY <3>4, <3>5
  <2> QED
    <3> HIDE DEF Is, h
    <3> QED
      BY <2>1, <2>6
<1> QED
  BY <1>1

\* A list has the entries of another at some positions, each once, in its
\* order: at[k] is the position of the k-th.
ChosenFrom(t, s, P) ==
  \E at \in [1 .. Len(t) -> P] :
    /\ \A k \in 1 .. Len(t) : t[k] = s[at[k]]
    /\ \A k, l \in 1 .. Len(t) : k < l => at[k] < at[l]
    /\ \A i \in P : \E k \in 1 .. Len(t) : at[k] = i

\* That is what Only does.
LEMMA OnlyEntries ==
  ASSUME NEW S, NEW s \in Seq(S), NEW P \in SUBSET (1 .. Len(s))
  PROVE  Only(s, P) \in Seq(S) /\ ChosenFrom(Only(s, P), s, P)
<1> DEFINE Picked == CHOOSE f : f = [n \in 0 .. Len(s) |->
                      IF n = 0 THEN <<>>
                      ELSE IF n \in P THEN Append(f[n - 1], s[n]) ELSE f[n - 1]]
<1>1. Len(s) \in Nat
  OBVIOUS
<1>2. Picked = [n \in 0 .. Len(s) |->
                 IF n = 0 THEN <<>>
                 ELSE IF n \in P THEN Append(Picked[n - 1], s[n]) ELSE Picked[n - 1]]
  <2>1. \E f : IsPicked(f, s, P, Len(s))
    BY <1>1, PickedExists, Zenon
  <2>2. Picked = CHOOSE f : IsPicked(f, s, P, Len(s))
    BY DEF IsPicked
  <2> HIDE DEF Picked
  <2>3. IsPicked(Picked, s, P, Len(s))
    BY <2>1, <2>2, Zenon
  <2> QED
    BY <2>3 DEF IsPicked
<1>3. Only(s, P) = Picked[Len(s)]
  BY DEF Only
<1> HIDE DEF Picked
<1> DEFINE Taken(t, n) ==
             /\ t \in Seq(S)
             /\ \E at \in [1 .. Len(t) -> P] :
                  /\ \A k \in 1 .. Len(t) : at[k] <= n /\ t[k] = s[at[k]]
                  /\ \A k, l \in 1 .. Len(t) : k < l => at[k] < at[l]
                  /\ \A i \in P : i <= n => \E k \in 1 .. Len(t) : at[k] = i
           bad == {n \in 0 .. Len(s) : ~ Taken(Picked[n], n)}
<1>4. ASSUME bad # {} PROVE FALSE
  <2>1. PICK n \in bad : \A j \in bad : n <= j
    <3>1. bad \subseteq Nat
      OBVIOUS
    <3> HIDE DEF bad
    <3> QED
      BY <1>4, <3>1, LeastNumber
  <2>2. n \in 0 .. Len(s)
    OBVIOUS
  <2>3. CASE n = 0
    <3>1. Picked[0] = <<>>
      BY <1>2
    <3>2. ASSUME NEW none, none = <<>>
          PROVE  Taken(none, 0)
      <4> DEFINE at == [k \in 1 .. 0 |-> CHOOSE i \in P : TRUE]
      <4>1. Len(none) = 0 /\ none \in Seq(S)
        BY <3>2
      <4>2. at \in [1 .. 0 -> P]
        OBVIOUS
      <4>3. \A i \in P : ~(i <= 0)
        OBVIOUS
      <4>4. \A k : k \notin 1 .. 0
        OBVIOUS
      <4> HIDE DEF at
      <4>5. /\ \A k \in 1 .. 0 : at[k] <= 0 /\ none[k] = s[at[k]]
            /\ \A k, l \in 1 .. 0 : k < l => at[k] < at[l]
            /\ \A i \in P : i <= 0 => \E k \in 1 .. 0 : at[k] = i
        BY ONLY <4>3, <4>4, Zenon
      <4> QED
        BY ONLY <4>1, <4>2, <4>5 DEF Taken
    <3> HIDE DEF Taken
    <3> QED
      BY <2>3, <3>1, <3>2
  <2>4. CASE n # 0
    <3> DEFINE t == Picked[n - 1]
    <3>1. n - 1 \in 0 .. Len(s) /\ n \in 1 .. Len(s)
      BY <2>2, <2>4
    <3>2. Taken(t, n - 1)
      <4>1. n - 1 \notin bad
        <5>1. n - 1 < n
          BY <3>1
        <5> HIDE DEF bad
        <5> QED
          BY <2>1, <3>1, <5>1
      <4> HIDE DEF Taken
      <4> QED
        BY <3>1, <4>1
    <3>3. Picked[n] = IF n \in P THEN Append(t, s[n]) ELSE t
      BY <1>2, <2>4, <3>1
    <3> HIDE DEF t
    <3>4. t \in Seq(S)
      BY <3>2
    <3>5. PICK at \in [1 .. Len(t) -> P] :
                  /\ \A k \in 1 .. Len(t) : at[k] <= n - 1 /\ t[k] = s[at[k]]
                  /\ \A k, l \in 1 .. Len(t) : k < l => at[k] < at[l]
                  /\ \A i \in P : i <= n - 1 => \E k \in 1 .. Len(t) : at[k] = i
      BY <3>2
    <3>a. /\ \A k \in 1 .. Len(t) : at[k] \in P /\ at[k] \in Int
          /\ n \in Int
      <4>1. \A k \in 1 .. Len(t) : at[k] \in P
        BY ONLY <3>5, Zenon
      <4>2. \A i \in P : i \in Int
        OBVIOUS
      <4>3. n \in Int
        BY <3>1
      <4> QED
        BY ONLY <4>1, <4>2, <4>3, Zenon
    <3>6. CASE n \notin P
      <4>1. \A k \in 1 .. Len(t) : at[k] <= n /\ t[k] = s[at[k]]
        BY ONLY <3>5, <3>a, SMT
      <4>2. \A i \in P : i <= n => i <= n - 1
        BY <3>1, <3>6
      <4>3. Taken(t, n)
        BY <3>4, <3>5, <4>1, <4>2
      <4> HIDE DEF Taken
      <4> QED
        BY <3>3, <3>6, <4>3
    <3>7. CASE n \in P
      <4> DEFINE u == Append(t, s[n])
                 m == Len(t) + 1
                 to == [k \in 1 .. m |-> IF k = m THEN n ELSE at[k]]
      <4>1. Len(t) \in Nat /\ s[n] \in S
        BY <3>1, <3>4
      <4>2. /\ u \in Seq(S) /\ Len(u) = m /\ u[m] = s[n]
            /\ \A k \in 1 .. Len(t) : u[k] = t[k]
        BY <3>4, <4>1
      <4>3. to \in [1 .. m -> P] /\ to[m] = n /\ \A k \in 1 .. Len(t) : to[k] = at[k]
        BY <3>7, <4>1
      <4>4. \A k \in 1 .. m : k = m \/ k \in 1 .. Len(t)
        BY <4>1
      <4>5. m \in 1 .. m /\ \A k \in 1 .. Len(t) : k \in 1 .. m
        BY <4>1
      <4>a. \A k, l \in 1 .. m : k < l => k \in 1 .. Len(t)
        BY <4>1
      <4> HIDE DEF u, m, to
      <4>6. \A k \in 1 .. m : to[k] <= n /\ u[k] = s[to[k]]
        BY ONLY <3>5, <3>a, <4>2, <4>3, <4>4, SMT
      <4>7. \A k, l \in 1 .. m : k < l => to[k] < to[l]
        BY ONLY <3>5, <3>a, <4>3, <4>4, <4>a, SMT
      <4>8. \A i \in P : i <= n => \E k \in 1 .. m : to[k] = i
        <5> SUFFICES ASSUME NEW i \in P, i <= n PROVE \E k \in 1 .. m : to[k] = i
          OBVIOUS
        <5>1. i = n \/ i <= n - 1
          BY <3>1
        <5> QED
          BY <5>1, <3>5, <4>3, <4>5
      <4>9. Taken(u, n)
        BY <4>2, <4>3, <4>6, <4>7, <4>8
      <4>10. Picked[n] = u
        BY <3>3, <3>7 DEF u
      <4> HIDE DEF Taken
      <4> QED
        BY <4>9, <4>10
    <3> QED
      BY <3>6, <3>7
  <2> QED
    BY <2>3, <2>4
<1>5. Taken(Picked[Len(s)], Len(s))
  <2>1. Len(s) \notin bad
    BY <1>4
  <2> HIDE DEF Taken
  <2> QED
    BY <1>1, <2>1
<1>6. Taken(Only(s, P), Len(s))
  <2> HIDE DEF Taken
  <2> QED
    BY <1>3, <1>5
<1> DEFINE only == Only(s, P)
<1>7. Taken(only, Len(s))
  BY <1>6
<1>8. \A i \in P : i <= Len(s)
  OBVIOUS
<1> HIDE DEF only
<1>9. /\ only \in Seq(S)
      /\ \E at \in [1 .. Len(only) -> P] :
           /\ \A k \in 1 .. Len(only) : only[k] = s[at[k]]
           /\ \A k, l \in 1 .. Len(only) : k < l => at[k] < at[l]
           /\ \A i \in P : \E k \in 1 .. Len(only) : at[k] = i
  BY <1>7, <1>8
<1>10. only \in Seq(S) /\ ChosenFrom(only, s, P)
  BY ONLY <1>9 DEF ChosenFrom
<1> QED
  BY ONLY <1>10 DEF only

\* What Among takes: the entries that are in the set, all of them, and none
\* twice if the list has none twice.
LEMMA AmongEntries ==
  ASSUME NEW S, NEW s \in Seq(S), NEW T
  PROVE  /\ Among(s, T) \in Seq(S)
         /\ \A k \in 1 .. Len(Among(s, T)) :
              Among(s, T)[k] \in T /\ \E i \in 1 .. Len(s) : s[i] = Among(s, T)[k]
         /\ \A i \in 1 .. Len(s) :
              s[i] \in T => \E k \in 1 .. Len(Among(s, T)) : Among(s, T)[k] = s[i]
         /\ (\A i, j \in 1 .. Len(s) : i # j => s[i] # s[j])
              => \A k, l \in 1 .. Len(Among(s, T)) :
                   k # l => Among(s, T)[k] # Among(s, T)[l]
<1> DEFINE P == {i \in 1 .. Len(s) : s[i] \in T}
           only == Only(s, P)
<1>1. Among(s, T) = only
  <2>1. DOMAIN s = 1 .. Len(s)
    OBVIOUS
  <2> QED
    BY ONLY <2>1, Zenon DEF Among
<1>2. only \in Seq(S) /\ ChosenFrom(only, s, P)
  <2>1. P \in SUBSET (1 .. Len(s))
    OBVIOUS
  <2> HIDE DEF P
  <2> QED
    BY <2>1, OnlyEntries
<1> HIDE DEF only
<1>3. PICK at \in [1 .. Len(only) -> P] :
        /\ \A k \in 1 .. Len(only) : only[k] = s[at[k]]
        /\ \A k, l \in 1 .. Len(only) : k < l => at[k] < at[l]
        /\ \A i \in P : \E k \in 1 .. Len(only) : at[k] = i
  BY ONLY <1>2, Zenon DEF ChosenFrom
<1>4. \A k \in 1 .. Len(only) : at[k] \in 1 .. Len(s) /\ s[at[k]] \in T
  OBVIOUS
<1>5. \A k, l \in 1 .. Len(only) : k # l => at[k] # at[l]
  <2>1. \A k, l \in 1 .. Len(only) : k # l => k < l \/ l < k
    OBVIOUS
  <2>2. \A k, l \in 1 .. Len(only) : at[k] < at[l] => at[k] # at[l]
    BY <1>4
  <2> QED
    BY ONLY <1>3, <2>1, <2>2, Zenon
<1>6. \A i \in 1 .. Len(s) : s[i] \in T => \E k \in 1 .. Len(only) : only[k] = s[i]
  BY <1>3
<1>7. (\A i, j \in 1 .. Len(s) : i # j => s[i] # s[j])
        => \A k, l \in 1 .. Len(only) : k # l => only[k] # only[l]
  <2> SUFFICES ASSUME \A i, j \in 1 .. Len(s) : i # j => s[i] # s[j],
                      NEW k \in 1 .. Len(only), NEW l \in 1 .. Len(only), k # l
               PROVE  only[k] # only[l]
    OBVIOUS
  <2>1. at[k] \in 1 .. Len(s) /\ at[l] \in 1 .. Len(s) /\ at[k] # at[l]
    BY ONLY <1>4, <1>5, k # l, Zenon
  <2>2. only[k] = s[at[k]] /\ only[l] = s[at[l]]
    BY ONLY <1>3, Zenon
  <2> QED
    BY ONLY <2>1, <2>2, \A i, j \in 1 .. Len(s) : i # j => s[i] # s[j], Zenon
<1>8. \A k \in 1 .. Len(only) :
        only[k] \in T /\ \E i \in 1 .. Len(s) : s[i] = only[k]
  BY ONLY <1>3, <1>4, Zenon
<1> QED
  BY ONLY <1>1, <1>2, <1>6, <1>7, <1>8

\* A list with entries of another is not longer.
LEMMA OnlyLength ==
  ASSUME NEW S, NEW s \in Seq(S), NEW P \in SUBSET (1 .. Len(s))
  PROVE  Len(Only(s, P)) \in Nat /\ Len(Only(s, P)) <= Len(s)
<1>1. Only(s, P) \in Seq(S) /\ ChosenFrom(Only(s, P), s, P)
  BY OnlyEntries
<1>2. Len(Only(s, P)) \in Nat /\ Len(s) \in Nat
  BY <1>1
<1>3. PICK at \in [1 .. Len(Only(s, P)) -> P] :
        \A k, l \in 1 .. Len(Only(s, P)) : k < l => at[k] < at[l]
  BY <1>1, Zenon DEF ChosenFrom
<1>4. ASSUME NEW N \in Nat, NEW M \in Nat, NEW f \in [1 .. N -> 1 .. M],
             \A k, l \in 1 .. N : k < l => f[k] < f[l]
      PROVE  N <= M
  <2>1. ASSUME NEW k \in 1 .. N, NEW l \in 1 .. N, f[k] = f[l] PROVE k = l
    <3>1. ~ (f[k] < f[l]) /\ ~ (f[l] < f[k])
      BY <2>1
    <3>2. ~ (k < l) /\ ~ (l < k)
      BY <3>1, <1>4
    <3> QED
      BY <3>2
  <2>2. f \in Injection(1 .. N, 1 .. M)
    BY <2>1 DEF Injection, IsInjective
  <2>3. IsFiniteSet(1 .. M) /\ Cardinality(1 .. M) = M /\ Cardinality(1 .. N) = N
    BY FS_Interval
  <2>4. Cardinality(1 .. N) <= Cardinality(1 .. M)
    BY <2>2, <2>3, FS_Injection
  <2> QED
    BY <2>3, <2>4
<1>5. at \in [1 .. Len(Only(s, P)) -> 1 .. Len(s)]
  OBVIOUS
<1> DEFINE n == Len(Only(s, P))
           m == Len(s)
<1>6. n \in Nat /\ m \in Nat /\ at \in [1 .. n -> 1 .. m]
      /\ \A k, l \in 1 .. n : k < l => at[k] < at[l]
  BY <1>2, <1>3, <1>5
<1> HIDE DEF n, m
<1>7. n <= m
  BY ONLY <1>4, <1>6
<1> QED
  BY <1>6, <1>7 DEF n, m

\* A list that has no entry twice is no longer than the set of what it may
\* have is large.
LEMMA DistinctLength ==
  ASSUME NEW S, IsFiniteSet(S), NEW s \in Seq(S),
         \A i, j \in 1 .. Len(s) : i # j => s[i] # s[j]
  PROVE  Cardinality(S) \in Nat /\ Len(s) \in Nat /\ Len(s) <= Cardinality(S)
<1>1. s \in [1 .. Len(s) -> S] /\ Len(s) \in Nat
  OBVIOUS
<1>2. s \in Injection(1 .. Len(s), S)
  BY <1>1 DEF Injection, IsInjective
<1>3. Cardinality(1 .. Len(s)) <= Cardinality(S)
  BY <1>2, FS_Injection
<1>4. ASSUME NEW n \in Nat PROVE Cardinality(1 .. n) = n
  BY FS_Interval
<1>5. Cardinality(S) \in Nat
  BY FS_CardinalityType
<1> QED
  BY <1>1, <1>3, <1>4, <1>5

-----------------------------------------------------------------------------
(* Arithmetic modulo a width *)

\* Division with remainder, for a positive divisor.
LEMMA DivisionWithRemainder ==
  ASSUME NEW a \in Int, NEW w \in Nat \ {0}
  PROVE  /\ a % w \in 0 .. w - 1
         /\ a \div w \in Int
         /\ a = w * (a \div w) + (a % w)
  BY SMT

\* The only multiple of w strictly between -w and w is 0.
LEMMA SmallMultiple ==
  ASSUME NEW d \in Int, NEW w \in Nat \ {0}, w * d < w, w * d > -w
  PROVE  d = 0
<1>1. CASE d >= 1
  <2>1. w * (d - 1) >= 0
    BY <1>1, SMT
  <2> QED
    BY <2>1, SMT
<1>2. CASE d <= -1
  <2>1. w * ((-d) - 1) >= 0
    BY <1>2, SMT
  <2> QED
    BY <2>1, SMT
<1> QED
  BY <1>1, <1>2, SMT

\* The remainder is unique.
LEMMA RemainderUnique ==
  ASSUME NEW w \in Nat \ {0}, NEW p \in Int, NEW q \in Int,
         NEW r \in 0 .. w - 1, NEW s \in 0 .. w - 1,
         w * q + r = w * p + s
  PROVE  r = s
<1>1. w * (q - p) = s - r
  BY SMT
<1>2. /\ q - p \in Int
      /\ w * (q - p) < w
      /\ w * (q - p) > -w
  BY <1>1, SMT
<1>3. q - p = 0
  BY <1>2, SmallMultiple
<1> QED
  BY <1>1, <1>3, SMT

\* A remainder is its own remainder.
LEMMA ModSmall ==
  ASSUME NEW w \in Nat \ {0}, NEW r \in 0 .. w - 1
  PROVE  r % w = r
<1>1. r \in Int
  OBVIOUS
<1>2. /\ r % w \in 0 .. w - 1
      /\ r \div w \in Int
      /\ r = w * (r \div w) + (r % w)
  BY <1>1, DivisionWithRemainder
<1>3. w * (r \div w) + (r % w) = w * 0 + r
  BY <1>2, SMT
<1>4. r % w = r
  <2> DEFINE s == r % w
             q == r \div w
  <2>1. /\ s \in 0 .. w - 1
        /\ q \in Int
        /\ w * q + s = w * 0 + r
    BY <1>2, <1>3
  <2> HIDE DEF s, q
  <2>2. s = r
    BY <2>1, RemainderUnique
  <2> QED
    BY <2>2 DEF s
<1> QED
  BY <1>4

\* A remainder in the first summand changes nothing.
LEMMA ModAdd ==
  ASSUME NEW a \in Int, NEW b \in Int, NEW w \in Nat \ {0}
  PROVE  ((a % w) + b) % w = (a + b) % w
<1> DEFINE x == (a % w) + b
           y == a + b
<1>1. /\ a % w \in 0 .. w - 1
      /\ a \div w \in Int
      /\ a = w * (a \div w) + (a % w)
      /\ x \in Int
      /\ y \in Int
  BY DivisionWithRemainder
<1>2. /\ x % w \in 0 .. w - 1
      /\ x \div w \in Int
      /\ x = w * (x \div w) + (x % w)
  BY <1>1, DivisionWithRemainder
<1>3. /\ y % w \in 0 .. w - 1
      /\ y \div w \in Int
      /\ y = w * (y \div w) + (y % w)
  BY <1>1, DivisionWithRemainder
<1>4. /\ (a \div w) + (x \div w) \in Int
      /\ w * ((a \div w) + (x \div w)) + (x % w) = w * (y \div w) + (y % w)
  BY <1>1, <1>2, <1>3, SMT
<1>5. x % w = y % w
  <2> HIDE DEF x, y
  <2> QED
    BY <1>2, <1>3, <1>4, RemainderUnique
<1> QED
  BY <1>5 DEF x, y

\* The same in the second summand, and in a difference.
LEMMA ModSubtract ==
  ASSUME NEW a \in Int, NEW b \in Int, NEW w \in Nat \ {0}
  PROVE  ((a % w) - b) % w = (a - b) % w
<1>1. ((a % w) + (-b)) % w = (a + (-b)) % w
  <2>1. -b \in Int
    OBVIOUS
  <2> QED
    BY <2>1, ModAdd
<1>2. a % w \in Int
  BY DivisionWithRemainder
<1>3. (a % w) + (-b) = (a % w) - b /\ a + (-b) = a - b
  BY <1>2, SMT
<1> QED
  BY <1>1, <1>3

\* A wrapped summand may be unwrapped under the wrap.
LEMMA ModAddRight ==
  ASSUME NEW a \in Int, NEW b \in Int, NEW w \in Nat \ {0}
  PROVE  (a + (b % w)) % w = (a + b) % w
<1>1. b % w \in Int
  BY DivisionWithRemainder
<1>2. a + (b % w) = (b % w) + a /\ a + b = b + a
  BY <1>1, SMT
<1>3. ((b % w) + a) % w = (b + a) % w
  BY ModAdd
<1> QED
  BY <1>2, <1>3
=============================================================================
