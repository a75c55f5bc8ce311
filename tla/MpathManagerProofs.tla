------------------------- MODULE MpathManagerProofs -------------------------
(***************************************************************************)
(* Proofs about the multipath managers, for any relays, bandwidths and     *)
(* requirement, and any number of other sockets that move the statics: the *)
(* invariants of MpathManager are inductive together with what ties the    *)
(* counts to the phase and the headers to the path; and every check        *)
(* selects relays as it should.                                            *)
(*                                                                         *)
(* First what get_requirement selects, then one step of each part of the   *)
(* invariant.                                                              *)
(***************************************************************************)
EXTENDS MpathManager, Lemmas

USE MpathAssumption DEF MpathAssumption

-----------------------------------------------------------------------------
(* The inductive invariant *)

\* No phase has more packets than its number, and within one with statistics no
\* relay has more than were sent, unless another socket sends as well.
InPhase == send_num < IF bstat THEN StatOn ELSE StatOff

CountsFollowPhase ==
  /\ InPhase
  /\ others = 0 => \A r \in Relays : snd_map[r] <= IF bstat THEN send_num ELSE StatOn

\* What the headers of the packets on their way say.
Headers ==
  \A p \in out :
    /\ p.control = 0
    /\ p.long = (p.path # Direct)
    /\ p.direct = IF ~ Stat /\ p.path = Direct THEN 1 ELSE 0

IInv == /\ TypeOK
        /\ GivenUpForGood
        /\ CountsFollowPhase
        /\ StatisticsSilent
        /\ Headers

-----------------------------------------------------------------------------
(* What get_requirement selects *)

\* The types that the selection depends on, and no relay in use twice.
Selection ==
  /\ relaylist_ \in Seq(Relays)
  /\ goodrelays \in Seq(Relays)
  /\ badrelays \subseteq Relays
  /\ GivenUpForGood

\* Paths given up for good, and the types, are all that Selection needs.
LEMMA SelectionHolds ==
  ASSUME TypeOK, GivenUpForGood PROVE Selection
<1>1. relaylist_ \in UNION {[1 .. m -> Relays] : m \in 0 .. MaxList}
  BY DEF TypeOK, RelayLists, BoundedSeq, SeqOf
<1>2. PICK m \in 0 .. MaxList : relaylist_ \in [1 .. m -> Relays]
  BY <1>1
<1>3. relaylist_ \in Seq(Relays)
  BY <1>2
<1> QED
  BY <1>3 DEF Selection, TypeOK

\* Of the relays in use those are kept that the selector lists and that are
\* not given up.
LEMMA KeptRelays ==
  ASSUME Selection
  PROVE  /\ Kept \in Seq(Relays)
         /\ \A k \in 1 .. Len(Kept) :
              /\ Kept[k] \in InUse(relaylist_) \ GivenUp
              /\ Kept[k] \notin badrelays
              /\ Contains(goodrelays, Kept[k])
         /\ \A k, l \in 1 .. Len(Kept) : k # l => Kept[k] # Kept[l]
<1> DEFINE listed == InUse(relaylist_) \ GivenUp
<1>1. goodrelays \in Seq(Relays) /\ DOMAIN goodrelays = 1 .. Len(goodrelays)
  BY DEF Selection
<1>2. /\ \A i, j \in 1 .. Len(goodrelays) : i # j => goodrelays[i] # goodrelays[j]
      /\ \A i \in 1 .. Len(goodrelays) : goodrelays[i] \notin badrelays
  BY <1>1 DEF Selection, GivenUpForGood, InUse
<1>3. Kept = Among(goodrelays, listed)
  BY DEF Kept
<1> HIDE DEF listed
<1>4. /\ Kept \in Seq(Relays)
      /\ \A k \in 1 .. Len(Kept) :
           Kept[k] \in listed /\ \E i \in 1 .. Len(goodrelays) : goodrelays[i] = Kept[k]
      /\ \A k, l \in 1 .. Len(Kept) : k # l => Kept[k] # Kept[l]
  <2>1. ASSUME NEW list \in Seq(Relays), NEW T
        PROVE  /\ Among(list, T) \in Seq(Relays)
               /\ \A k \in 1 .. Len(Among(list, T)) :
                    Among(list, T)[k] \in T /\ \E i \in 1 .. Len(list) : list[i] = Among(list, T)[k]
               /\ \A i \in 1 .. Len(list) :
                    list[i] \in T => \E k \in 1 .. Len(Among(list, T)) : Among(list, T)[k] = list[i]
               /\ (\A i, j \in 1 .. Len(list) : i # j => list[i] # list[j])
                    => \A k, l \in 1 .. Len(Among(list, T)) :
                         k # l => Among(list, T)[k] # Among(list, T)[l]
    BY ONLY <2>1, AmongEntries
  <2>2. ASSUME NEW list \in Seq(Relays), NEW T,
               \A i, j \in 1 .. Len(list) : i # j => list[i] # list[j]
        PROVE  \A k, l \in 1 .. Len(Among(list, T)) :
                 k # l => Among(list, T)[k] # Among(list, T)[l]
    BY ONLY <2>1, <2>2, SMTT(20)
  <2>3. \A k, l \in 1 .. Len(Among(goodrelays, listed)) :
          k # l => Among(goodrelays, listed)[k] # Among(goodrelays, listed)[l]
    <3>1. goodrelays \in Seq(Relays)
      BY <1>1
    <3> QED
      BY ONLY <1>2, <2>2, <3>1
  <2>4. \A k \in 1 .. Len(Among(goodrelays, listed)) :
          /\ Among(goodrelays, listed)[k] \in listed
          /\ \E i \in 1 .. Len(goodrelays) : goodrelays[i] = Among(goodrelays, listed)[k]
    BY ONLY <1>1, <2>1
  <2>5. Among(goodrelays, listed) \in Seq(Relays)
    BY ONLY <1>1, <2>1, Zenon
  <2> QED
    BY ONLY <1>3, <2>3, <2>4, <2>5, Zenon
<1> QED
  BY ONLY <1>2, <1>4, Zenon DEF Contains, listed

\* Those that can be added are of the list as well, each once, not in use, and were
\* not given up; and every relay of the list that is so can be added.
LEMMA AddableRelays ==
  ASSUME Selection
  PROVE  /\ Addable \in Seq(Relays)
         /\ \A k \in 1 .. Len(Addable) :
              /\ Addable[k] \in InUse(relaylist_)
              /\ Addable[k] \notin InUse(Kept) \cup badrelays \cup GivenUp
         /\ \A k, l \in 1 .. Len(Addable) : k # l => Addable[k] # Addable[l]
         /\ \A r \in InUse(relaylist_) \ (InUse(Kept) \cup badrelays \cup GivenUp) :
              \E k \in 1 .. Len(Addable) : Addable[k] = r
<1> DEFINE taken == InUse(Kept) \cup badrelays \cup GivenUp
           P == {i \in 1 .. Len(relaylist_) : relaylist_[i] \notin taken /\ First(i)}
           only == Only(relaylist_, P)
<1>1. relaylist_ \in Seq(Relays) /\ DOMAIN relaylist_ = 1 .. Len(relaylist_)
      /\ Len(relaylist_) \in Nat
  BY DEF Selection
<1>2. Addable = only
  BY <1>1, Zenon DEF Addable, Free
<1> HIDE DEF taken
<1>3. only \in Seq(Relays) /\ ChosenFrom(only, relaylist_, P)
  <2>1. P \in SUBSET (1 .. Len(relaylist_))
    OBVIOUS
  <2> HIDE DEF P
  <2> QED
    BY <1>1, <2>1, OnlyEntries
<1> HIDE DEF only
<1>4. PICK at \in [1 .. Len(only) -> P] :
        /\ \A k \in 1 .. Len(only) : only[k] = relaylist_[at[k]]
        /\ \A k, l \in 1 .. Len(only) : k < l => at[k] < at[l]
        /\ \A i \in P : \E k \in 1 .. Len(only) : at[k] = i
  BY ONLY <1>3, Zenon DEF ChosenFrom
<1>5. ASSUME NEW k \in 1 .. Len(only)
      PROVE  /\ at[k] \in P
             /\ only[k] \in InUse(relaylist_)
             /\ only[k] \notin taken
  <2>1. at[k] \in P
    BY <1>4
  <2>2. at[k] \in 1 .. Len(relaylist_) /\ relaylist_[at[k]] \notin taken
    BY <2>1
  <2> QED
    BY <1>1, <1>4, <2>1, <2>2 DEF InUse
<1>6. ASSUME NEW k \in 1 .. Len(only), NEW l \in 1 .. Len(only), k < l
      PROVE  only[k] # only[l]
  <2>1. /\ at[k] \in 1 .. Len(relaylist_) /\ at[l] \in 1 .. Len(relaylist_)
        /\ First(at[l])
    BY <1>5
  <2>2. at[k] < at[l]
    BY <1>4, <1>6
  <2>3. at[k] \in 1 .. at[l] - 1
    BY ONLY <1>1, <2>1, <2>2
  <2>4. relaylist_[at[k]] # relaylist_[at[l]]
    BY <2>1, <2>3 DEF First
  <2> QED
    BY <1>4, <2>4
<1>7. \A k, l \in 1 .. Len(only) : k # l => only[k] # only[l]
  <2> SUFFICES ASSUME NEW k \in 1 .. Len(only), NEW l \in 1 .. Len(only), k # l
               PROVE  only[k] # only[l]
    OBVIOUS
  <2>1. k < l \/ l < k
    OBVIOUS
  <2> QED
    BY <1>6, <2>1
<1>8. ASSUME NEW r \in InUse(relaylist_) \ taken
      PROVE  \E k \in 1 .. Len(only) : only[k] = r
  <2> DEFINE places == {i \in 1 .. Len(relaylist_) : relaylist_[i] = r}
  <2>1. places # {} /\ places \subseteq Nat
    BY <1>1 DEF InUse
  <2>2. PICK i \in places : \A j \in places : i <= j
    <3> HIDE DEF places
    <3> QED
      BY <2>1, LeastNumber
  <2>3. First(i)
    <3> SUFFICES ASSUME NEW j \in 1 .. i - 1 PROVE relaylist_[j] # relaylist_[i]
      BY DEF First
    <3>1. j \in 1 .. Len(relaylist_) /\ ~ (i <= j)
      BY <1>1, <2>2
    <3> QED
      BY <2>2, <3>1
  <2>4. i \in P /\ relaylist_[i] = r
    BY <2>2, <2>3
  <2> QED
    BY <1>4, <2>4
<1> QED
  BY <1>2, <1>3, <1>5, <1>7, <1>8 DEF taken

\* The relays kept, and n of those that can be added behind them.
LEMMA WithAddedRelays ==
  ASSUME Selection, NEW n \in 0 .. Len(Addable)
  PROVE  /\ WithAdded(n) \in Seq(Relays)
         /\ Len(WithAdded(n)) = Len(Kept) + n
         /\ \A i \in 1 .. Len(Kept) + n :
              WithAdded(n)[i] = IF i <= Len(Kept) THEN Kept[i] ELSE Addable[i - Len(Kept)]
<1> DEFINE more == SubSeq(Addable, 1, n)
<1>1. Kept \in Seq(Relays) /\ Addable \in Seq(Relays)
  BY KeptRelays, AddableRelays
<1>2. /\ more \in Seq(Relays)
      /\ Len(more) = n
      /\ \A i \in 1 .. n : more[i] = Addable[i]
  BY <1>1, PrefixEntries
<1> HIDE DEF more
<1>3. /\ Kept \o more \in Seq(Relays)
      /\ Len(Kept \o more) = Len(Kept) + Len(more)
      /\ \A i \in 1 .. Len(Kept) + Len(more) :
           (Kept \o more)[i] = IF i <= Len(Kept) THEN Kept[i] ELSE more[i - Len(Kept)]
  BY ONLY <1>1, <1>2, ConcatProperties
<1> DEFINE all == Kept \o more
<1>4. WithAdded(n) = all
  BY DEF WithAdded, more
<1> HIDE DEF all
<1>5. /\ all \in Seq(Relays)
      /\ Len(all) = Len(Kept) + n
      /\ \A i \in 1 .. Len(Kept) + n :
           all[i] = IF i <= Len(Kept) THEN Kept[i] ELSE more[i - Len(Kept)]
  BY <1>2, <1>3 DEF all
<1>6. ASSUME NEW i \in 1 .. Len(Kept) + n, ~ (i <= Len(Kept))
      PROVE  more[i - Len(Kept)] = Addable[i - Len(Kept)]
  <2>1. i - Len(Kept) \in 1 .. n
    BY <1>1, <1>6
  <2> QED
    BY <1>2, <2>1
<1> QED
  BY ONLY <1>4, <1>5, <1>6

\* The loop adds relays as long as those before do not suffice, and ends.
LEMMA MostAdded ==
  ASSUME Selection
  PROVE  \E n \in 0 .. Len(Addable) :
           /\ NewGood = WithAdded(n)
           /\ \A m \in 0 .. n - 1 : ~ Meets(WithAdded(m))
           /\ n = Len(Addable) \/ Meets(WithAdded(n))
<1>1. Len(Addable) \in Nat
  BY AddableRelays
<1> DEFINE left == {Len(Addable) - n : n \in Added}
<1>2. Added \subseteq 0 .. Len(Addable) /\ 0 \in Added
  BY <1>1 DEF Added
<1>3. PICK least \in left : \A j \in left : least <= j
  <2>1. left \subseteq Nat /\ left # {}
    BY <1>1, <1>2
  <2> HIDE DEF left
  <2> QED
    BY <2>1, LeastNumber
<1>4. PICK most \in Added : \A m \in Added : Len(Addable) - most <= Len(Addable) - m
  BY <1>3
<1>5. \A m \in Added : m <= most
  BY <1>1, <1>2, <1>4
<1> DEFINE chosen == CHOOSE n \in Added : \A m \in Added : m <= n
<1>6. chosen \in Added
  BY <1>5, Zenon
<1>7. NewGood = WithAdded(chosen)
  BY DEF NewGood
<1>8. \A m \in Added : m <= chosen
  BY <1>5, Zenon
<1> HIDE DEF chosen
<1>9. ASSUME chosen # Len(Addable) PROVE Meets(WithAdded(chosen))
  <2>1. chosen \in 0 .. Len(Addable) /\ chosen + 1 \in 0 .. Len(Addable)
    BY <1>1, <1>2, <1>6, <1>9
  <2>2. ~ (chosen + 1 <= chosen)
    BY <2>1
  <2>3. chosen + 1 \notin Added
    BY <1>8, <2>2
  <2>4. PICK m \in 0 .. chosen + 1 - 1 : Meets(WithAdded(m))
    BY <2>1, <2>3 DEF Added
  <2>5. m \notin 0 .. chosen - 1
    BY <1>6, <2>4 DEF Added
  <2>6. m = chosen
    BY ONLY <2>1, <2>4, <2>5
  <2> QED
    BY <2>4, <2>6
<1> QED
  BY <1>6, <1>7, <1>9 DEF Added

\* The relays in use after it: each once, each of the selector's list, none
\* that was given up now or before.
LEMMA NewGoodRelays ==
  ASSUME Selection
  PROVE  /\ NewGood \in Seq(Relays)
         /\ \A i, j \in 1 .. Len(NewGood) : i # j => NewGood[i] # NewGood[j]
         /\ \A i \in 1 .. Len(NewGood) :
              /\ NewGood[i] \in InUse(relaylist_)
              /\ NewGood[i] \notin badrelays \cup GivenUp
<1>1. PICK n \in 0 .. Len(Addable) : NewGood = WithAdded(n)
  BY MostAdded
<1>2. /\ NewGood \in Seq(Relays)
      /\ Len(NewGood) = Len(Kept) + n
      /\ \A i \in 1 .. Len(Kept) + n :
           NewGood[i] = IF i <= Len(Kept) THEN Kept[i] ELSE Addable[i - Len(Kept)]
  BY <1>1, WithAddedRelays
<1>3. Len(Kept) \in Nat /\ Len(Addable) \in Nat
  BY KeptRelays, AddableRelays
<1>4. \A i \in 1 .. Len(NewGood) :
        \/ i \in 1 .. Len(Kept) /\ NewGood[i] = Kept[i]
        \/ /\ i - Len(Kept) \in 1 .. Len(Addable)
           /\ i > Len(Kept)
           /\ NewGood[i] = Addable[i - Len(Kept)]
  BY <1>2, <1>3
<1>5. \A k \in 1 .. Len(Kept), l \in 1 .. Len(Addable) : Kept[k] # Addable[l]
  <2> SUFFICES ASSUME NEW k \in 1 .. Len(Kept), NEW l \in 1 .. Len(Addable)
               PROVE  Kept[k] # Addable[l]
    OBVIOUS
  <2>1. Kept[k] \in InUse(Kept)
    <3>1. DOMAIN Kept = 1 .. Len(Kept)
      BY KeptRelays
    <3> QED
      BY <3>1 DEF InUse
  <2>2. Addable[l] \notin InUse(Kept)
    BY AddableRelays
  <2> QED
    BY <2>1, <2>2
<1>6. ASSUME NEW i \in 1 .. Len(NewGood), NEW j \in 1 .. Len(NewGood), i # j
      PROVE  NewGood[i] # NewGood[j]
  <2>1. i \in Int /\ j \in Int
    OBVIOUS
  <2>2. CASE i \in 1 .. Len(Kept) /\ j \in 1 .. Len(Kept)
    <3>1. NewGood[i] = Kept[i] /\ NewGood[j] = Kept[j]
      BY <2>2, <1>3, <1>4
    <3> QED
      BY <3>1, <2>2, <1>6, KeptRelays
  <2>3. CASE i \in 1 .. Len(Kept) /\ j \notin 1 .. Len(Kept)
    <3>1. NewGood[i] = Kept[i] /\ NewGood[j] = Addable[j - Len(Kept)]
          /\ j - Len(Kept) \in 1 .. Len(Addable)
      BY <2>3, <1>3, <1>4
    <3> QED
      BY <3>1, <2>3, <1>5
  <2>4. CASE i \notin 1 .. Len(Kept) /\ j \in 1 .. Len(Kept)
    <3>1. NewGood[j] = Kept[j] /\ NewGood[i] = Addable[i - Len(Kept)]
          /\ i - Len(Kept) \in 1 .. Len(Addable)
      BY <2>4, <1>3, <1>4
    <3> QED
      BY <3>1, <2>4, <1>5
  <2>5. CASE i \notin 1 .. Len(Kept) /\ j \notin 1 .. Len(Kept)
    <3>1. /\ NewGood[i] = Addable[i - Len(Kept)] /\ i - Len(Kept) \in 1 .. Len(Addable)
          /\ NewGood[j] = Addable[j - Len(Kept)] /\ j - Len(Kept) \in 1 .. Len(Addable)
      BY <2>5, <1>4
    <3>2. i - Len(Kept) # j - Len(Kept)
      BY <2>1, <1>3, <1>6
    <3> QED
      BY <3>1, <3>2, AddableRelays
  <2> QED
    BY <2>2, <2>3, <2>4, <2>5
<1>7. ASSUME NEW i \in 1 .. Len(NewGood)
      PROVE  /\ NewGood[i] \in InUse(relaylist_)
             /\ NewGood[i] \notin badrelays \cup GivenUp
  <2>1. CASE i \in 1 .. Len(Kept) /\ NewGood[i] = Kept[i]
    BY <2>1, KeptRelays
  <2>2. CASE i - Len(Kept) \in 1 .. Len(Addable) /\ NewGood[i] = Addable[i - Len(Kept)]
    BY <2>2, AddableRelays
  <2> QED
    BY <1>4, <2>1, <2>2
<1> QED
  BY <1>2, <1>6, <1>7

\* They meet the requirement, or there is no other to take.
LEMMA EnoughOrAll ==
  ASSUME Selection, ~ Meets(NewGood)
  PROVE  InUse(relaylist_) \ (badrelays \cup GivenUp) \subseteq InUse(NewGood)
<1>1. PICK n \in 0 .. Len(Addable) : /\ NewGood = WithAdded(n)
                                     /\ n = Len(Addable) \/ Meets(WithAdded(n))
  BY MostAdded
<1>2. n = Len(Addable)
  BY <1>1
<1>3. /\ NewGood \in Seq(Relays)
      /\ Len(NewGood) = Len(Kept) + n
      /\ \A i \in 1 .. Len(Kept) + n :
           NewGood[i] = IF i <= Len(Kept) THEN Kept[i] ELSE Addable[i - Len(Kept)]
  BY <1>1, WithAddedRelays
<1>4. /\ Len(Kept) \in Nat /\ Len(Addable) \in Nat
      /\ DOMAIN Kept = 1 .. Len(Kept) /\ DOMAIN NewGood = 1 .. Len(NewGood)
  BY <1>3, KeptRelays, AddableRelays
<1> SUFFICES ASSUME NEW r \in InUse(relaylist_) \ (badrelays \cup GivenUp)
             PROVE  \E i \in 1 .. Len(NewGood) : NewGood[i] = r
  BY <1>4 DEF InUse
<1>5. CASE r \in InUse(Kept)
  <2>1. PICK k \in 1 .. Len(Kept) : Kept[k] = r
    BY <1>4, <1>5 DEF InUse
  <2>2. k \in 1 .. Len(NewGood) /\ k \in 1 .. Len(Kept) + n /\ k <= Len(Kept)
    BY <1>2, <1>3, <1>4
  <2> QED
    BY <1>3, <2>1, <2>2
<1>6. CASE r \notin InUse(Kept)
  <2>1. r \in InUse(relaylist_) \ (InUse(Kept) \cup badrelays \cup GivenUp)
    BY <1>6
  <2>2. PICK k \in 1 .. Len(Addable) : Addable[k] = r
    BY <2>1, AddableRelays
  <2> DEFINE i == Len(Kept) + k
  <2>3. /\ i \in 1 .. Len(NewGood) /\ i \in 1 .. Len(Kept) + n
        /\ ~ (i <= Len(Kept)) /\ i - Len(Kept) = k
    BY <1>2, <1>3, <1>4
  <2> HIDE DEF i
  <2>4. NewGood[i] = Addable[k]
    BY <1>3, <2>3
  <2> QED
    BY <2>2, <2>3, <2>4
<1> QED
  BY <1>5, <1>6

\* A relay that is new is added because those before it do not suffice.
LEMMA AddedForNeed ==
  ASSUME Selection, NEW i \in 1 .. Len(NewGood), ~ Contains(goodrelays, NewGood[i])
  PROVE  ~ Meets(SubSeq(NewGood, 1, i - 1))
<1>1. PICK n \in 0 .. Len(Addable) :
        NewGood = WithAdded(n) /\ \A m \in 0 .. n - 1 : ~ Meets(WithAdded(m))
  BY MostAdded
<1>2. /\ NewGood \in Seq(Relays)
      /\ Len(NewGood) = Len(Kept) + n
      /\ \A k \in 1 .. Len(Kept) + n :
           NewGood[k] = IF k <= Len(Kept) THEN Kept[k] ELSE Addable[k - Len(Kept)]
  BY <1>1, WithAddedRelays
<1>3. Len(Kept) \in Nat /\ Len(Addable) \in Nat
  BY KeptRelays, AddableRelays
<1>4. i > Len(Kept)
  <2>1. CASE i \in 1 .. Len(Kept)
    <3>1. NewGood[i] = Kept[i]
      BY <2>1, <1>2, <1>3
    <3> QED
      BY <3>1, <2>1, KeptRelays
  <2> QED
    BY <2>1, <1>2, <1>3
<1> DEFINE m == i - 1 - Len(Kept)
           before == SubSeq(NewGood, 1, i - 1)
<1>5. m \in 0 .. n - 1 /\ m \in 0 .. Len(Addable) /\ Len(Kept) + m = i - 1
  BY <1>2, <1>3, <1>4
<1>6. /\ WithAdded(m) \in Seq(Relays)
      /\ Len(WithAdded(m)) = Len(Kept) + m
      /\ \A k \in 1 .. Len(Kept) + m :
           WithAdded(m)[k] = IF k <= Len(Kept) THEN Kept[k] ELSE Addable[k - Len(Kept)]
  <2> HIDE DEF m
  <2> QED
    BY <1>5, WithAddedRelays
<1>7. /\ before \in Seq(Relays)
      /\ Len(before) = i - 1
      /\ \A k \in 1 .. i - 1 : before[k] = NewGood[k]
  <2>1. i - 1 \in 0 .. Len(NewGood)
    BY <1>2, <1>3
  <2> QED
    BY <1>2, <2>1, PrefixEntries
<1>8. before = WithAdded(m)
  <2>1. ASSUME NEW k \in 1 .. i - 1
        PROVE  before[k] = WithAdded(m)[k]
    <3>1. k \in 1 .. Len(Kept) + n /\ k \in 1 .. Len(Kept) + m
      BY <1>2, <1>3, <1>5
    <3> HIDE DEF before, m
    <3> QED
      BY <3>1, <1>2, <1>6, <1>7
  <2>2. Len(WithAdded(m)) = i - 1
    BY <1>5, <1>6
  <2> HIDE DEF before, m
  <2> QED
    BY <2>1, <2>2, <1>6, <1>7, SeqEqual
<1> HIDE DEF m
<1> QED
  BY <1>1, <1>5, <1>8

-----------------------------------------------------------------------------
(* The parts of the invariant, step by step *)

\* What the check behind a sending keeps.
LEMMA CheckKeeps ==
  ASSUME TypeOK, GivenUpForGood, CheckRequirement
  PROVE  /\ goodrelays' \in Seq(Relays)
         /\ badrelays' \subseteq Relays
         /\ lossy' \in [Relays -> BOOLEAN]
         /\ age' \in 0 .. QueryInterval + 1
         /\ GivenUpForGood'
<1>1. Selection
  BY SelectionHolds
<1>2. /\ goodrelays \in Seq(Relays) /\ badrelays \subseteq Relays
      /\ lossy \in [Relays -> BOOLEAN] /\ age \in 0 .. QueryInterval + 1
  BY DEF TypeOK
<1>3. CASE UNCHANGED selected
  <2>1. goodrelays' = goodrelays /\ badrelays' = badrelays /\ lossy' = lossy
    BY <1>3 DEF selected
  <2>2. age' \in 0 .. QueryInterval + 1
    BY <1>2 DEF CheckRequirement
  <2> QED
    BY <1>2, <2>1, <2>2 DEF GivenUpForGood, InUse
<1>4. CASE ~ UNCHANGED selected
  <2>1. /\ goodrelays' = NewGood
        /\ badrelays' = badrelays \cup GivenUp
        /\ \E garbage \in [Relays -> Lossy] :
             lossy' = [r \in Relays |->
                         /\ Stat
                         /\ Contains(NewGood, r)
                         /\ IF Contains(Kept, r) THEN lossy[r] ELSE garbage[r]]
        /\ age' = IF Satisfied THEN age ELSE 0
    BY <1>4 DEF CheckRequirement, GetRequirement
  <2>2. /\ NewGood \in Seq(Relays)
        /\ \A i, j \in 1 .. Len(NewGood) : i # j => NewGood[i] # NewGood[j]
        /\ \A i \in 1 .. Len(NewGood) :
             /\ NewGood[i] \in InUse(relaylist_)
             /\ NewGood[i] \notin badrelays \cup GivenUp
    BY <1>1, NewGoodRelays
  <2>3. DOMAIN NewGood = 1 .. Len(NewGood)
    BY <2>2
  <2>4. GivenUpForGood'
    BY <2>1, <2>2, <2>3 DEF GivenUpForGood, InUse
  <2>5. GivenUp \subseteq Relays
    BY <1>2 DEF GivenUp, InUse
  <2>6. lossy' \in [Relays -> BOOLEAN]
    BY <2>1, Zenon
  <2>7. age' \in 0 .. QueryInterval + 1
    BY <1>2, <2>1
  <2> QED
    BY <1>2, <2>1, <2>2, <2>4, <2>5, <2>6, <2>7
<1> QED
  BY <1>3, <1>4

\* What it selects.
LEMMA CheckSelects ==
  ASSUME TypeOK, GivenUpForGood, GetRequirement, relaylist_ # <<>>
  PROVE  /\ InUse(goodrelays') \subseteq Usable
         /\ Meets(goodrelays') \/ Usable \subseteq InUse(goodrelays')
         /\ \A i \in DOMAIN goodrelays' :
              ~ Contains(goodrelays, goodrelays'[i]) => ~ Meets(SubSeq(goodrelays', 1, i - 1))
<1>1. Selection
  BY SelectionHolds
<1>2. goodrelays' = NewGood /\ badrelays' = badrelays \cup GivenUp
  BY DEF GetRequirement
<1>3. Usable = InUse(relaylist_) \ (badrelays \cup GivenUp)
  BY <1>2 DEF Usable
<1>4. DOMAIN NewGood = 1 .. Len(NewGood)
  BY <1>1, NewGoodRelays
<1>5. InUse(NewGood) \subseteq Usable
  BY <1>1, <1>3, <1>4, NewGoodRelays DEF InUse
<1>6. ~ Meets(NewGood) => Usable \subseteq InUse(NewGood)
  BY <1>1, <1>3, EnoughOrAll
<1>7. \A i \in DOMAIN NewGood :
        ~ Contains(goodrelays, NewGood[i]) => ~ Meets(SubSeq(NewGood, 1, i - 1))
  BY <1>1, <1>4, AddedForNeed
<1> QED
  BY <1>2, <1>5, <1>6, <1>7

\* The channel after one is that of a relay in use or the direct one.
LEMMA AfterBound ==
  ASSUME NEW c \in Nat, NEW n \in Nat PROVE After(c, n) \in 0 .. n
<1>1. n + 1 \in Nat \ {0} /\ c + 1 \in Int
  OBVIOUS
<1> QED
  BY <1>1, DivisionWithRemainder DEF After

\* There are no more relays in use than there are.
LEMMA ChannelBound ==
  ASSUME TypeOK, GivenUpForGood
  PROVE  /\ Len(goodrelays) \in Nat /\ Cardinality(Relays) \in Nat
         /\ Len(goodrelays) <= Cardinality(Relays)
         /\ NextChannel \in 0 .. Len(goodrelays)
<1>1. goodrelays \in Seq(Relays) /\ DOMAIN goodrelays = 1 .. Len(goodrelays)
  BY DEF TypeOK
<1>2. \A i, j \in 1 .. Len(goodrelays) : i # j => goodrelays[i] # goodrelays[j]
  BY <1>1 DEF GivenUpForGood
<1>3. /\ Len(goodrelays) \in Nat /\ Cardinality(Relays) \in Nat
      /\ Len(goodrelays) <= Cardinality(Relays)
  BY <1>1, <1>2, DistinctLength
<1>4. cur_channel \in Nat
  BY <1>3 DEF TypeOK
<1> QED
  BY <1>3, <1>4, AfterBound DEF NextChannel

\* The phases with and without statistics take turns, whoever sends.
LEMMA PhaseKeeps ==
  ASSUME bstat \in BOOLEAN, send_num \in Nat, InPhase, PhaseGoesOn
  PROVE  /\ bstat' \in BOOLEAN /\ send_num' \in 0 .. StatOn + StatOff
         /\ InPhase'
<1>1. /\ StatOn \in Nat \ {0} /\ StatOff \in Nat \ {0}
      /\ send_num' = IF PhaseEnds THEN 0 ELSE send_num + 1
      /\ PhaseEnds <=> send_num + 1 >= (IF bstat THEN StatOn ELSE StatOff)
      /\ send_num < IF bstat THEN StatOn ELSE StatOff
  BY DEF PhaseGoesOn, PhaseEnds, InPhase
<1>2. bstat' = (bstat # PhaseEnds) /\ PhaseEnds \in BOOLEAN
  BY DEF PhaseGoesOn, PhaseEnds
<1>3. bstat' \in BOOLEAN /\ (~ PhaseEnds => bstat' = bstat)
  BY ONLY <1>2, bstat \in BOOLEAN, Zenon
<1>4. CASE PhaseEnds
  <2>1. send_num' = 0
    BY <1>1, <1>4
  <2> QED
    BY <1>1, <1>3, <2>1 DEF InPhase
<1>5. CASE ~ PhaseEnds
  <2>1. /\ send_num' = send_num + 1
        /\ send_num + 1 < IF bstat THEN StatOn ELSE StatOff
    BY <1>1, <1>5, send_num \in Nat
  <2>2. send_num' \in 0 .. StatOn + StatOff
    BY <1>1, <2>1, send_num \in Nat
  <2> QED
    BY <1>3, <1>5, <2>1, <2>2 DEF InPhase
<1> QED
  BY <1>4, <1>5

\* The counts of a sending, when no other socket sends.
LEMMA CountKeepsAlone ==
  ASSUME TypeOK, CountsFollowPhase, NEW paths \in SUBSET Relays, Count(paths), others = 0,
         others' = others
  PROVE  /\ snd_map' \in [Relays -> Nat]
         /\ bstat' \in BOOLEAN
         /\ send_num' \in 0 .. StatOn + StatOff
         /\ CountsFollowPhase'
<1>1. /\ snd_map \in [Relays -> Nat] /\ bstat \in BOOLEAN
      /\ send_num \in Nat /\ StatOn \in Nat \ {0} /\ StatOff \in Nat \ {0}
  BY DEF TypeOK
<1>2. /\ send_num < IF bstat THEN StatOn ELSE StatOff
      /\ \A r \in Relays : snd_map[r] <= IF bstat THEN send_num ELSE StatOn
  BY DEF CountsFollowPhase, InPhase
<1>3. CASE ~ Stat
  <2>1. snd_map' = snd_map /\ bstat' = bstat /\ send_num' = send_num
    BY <1>3 DEF Count
  <2> QED
    BY <1>1, <1>2, <2>1 DEF CountsFollowPhase, InPhase, TypeOK
<1>4. CASE Stat /\ bstat
  <2>1. /\ snd_map' = [r \in Relays |-> IF r \in paths THEN snd_map[r] + 1 ELSE snd_map[r]]
        /\ bstat' = ~ PhaseEnds
        /\ send_num' = IF PhaseEnds THEN 0 ELSE send_num + 1
    BY <1>1, <1>4, Zenon DEF Count, Counted, PhaseGoesOn
  <2>2. PhaseEnds <=> send_num + 1 >= StatOn
    BY <1>4 DEF PhaseEnds
  <2>3. \A r \in Relays : snd_map[r] <= send_num
    BY <1>2, <1>4
  <2>4. send_num < StatOn
    BY <1>2, <1>4
  <2>5. \A r \in Relays : snd_map'[r] \in Nat /\ snd_map'[r] <= send_num + 1
    BY ONLY <1>1, <2>1, <2>3
  <2>6. snd_map' \in [Relays -> Nat]
    BY ONLY <1>1, <2>1
  <2>7. CASE PhaseEnds
    <3>1. ~ bstat' /\ bstat' \in BOOLEAN
      BY ONLY <2>1, <2>7, Zenon
    <3>2. send_num' = 0
      BY ONLY <2>1, <2>7, Zenon
    <3>3. send_num + 1 = StatOn
      BY ONLY <1>1, <2>2, <2>4, <2>7
    <3>4. CountsFollowPhase'
      BY ONLY <1>1, <2>5, <3>1, <3>2, <3>3 DEF CountsFollowPhase, InPhase
    <3> QED
      BY <1>1, <2>6, <3>1, <3>2, <3>4
  <2>8. CASE ~ PhaseEnds
    <3>1. bstat' /\ bstat' \in BOOLEAN
      BY ONLY <2>1, <2>8, Zenon
    <3>2. send_num' = send_num + 1
      BY ONLY <2>1, <2>8, Zenon
    <3>3. send_num + 1 < StatOn
      BY ONLY <1>1, <2>2, <2>8
    <3>4. CountsFollowPhase'
      BY ONLY <1>1, <2>5, <3>1, <3>2, <3>3 DEF CountsFollowPhase, InPhase
    <3> QED
      BY <1>1, <2>6, <3>1, <3>2, <3>3, <3>4
  <2> QED
    BY <2>7, <2>8
<1>5. CASE Stat /\ ~ bstat
  <2>1. /\ snd_map' = [r \in Relays |-> IF PhaseEnds THEN 0 ELSE snd_map[r]]
        /\ bstat' = PhaseEnds
        /\ send_num' = IF PhaseEnds THEN 0 ELSE send_num + 1
    <3>1. bstat' = (bstat # PhaseEnds) /\ bstat = FALSE /\ PhaseEnds \in BOOLEAN
      BY <1>1, <1>5 DEF Count, PhaseEnds, PhaseGoesOn
    <3>2. bstat' = PhaseEnds
      BY ONLY <3>1, Zenon
    <3> QED
      BY <1>5, <3>1, <3>2, Zenon DEF Count, Counted, PhaseGoesOn
  <2>2. (PhaseEnds <=> send_num + 1 >= StatOff) /\ PhaseEnds \in BOOLEAN
    BY <1>5 DEF PhaseEnds
  <2>3. \A r \in Relays : snd_map[r] <= StatOn
    BY <1>2, <1>5
  <2>4. CASE PhaseEnds
    <3>1. bstat' /\ bstat' \in BOOLEAN
      BY ONLY <2>1, <2>4, Zenon
    <3>2. send_num' = 0 /\ snd_map' = [r \in Relays |-> 0]
      BY ONLY <2>1, <2>4, Zenon
    <3>3. CountsFollowPhase'
      BY ONLY <1>1, <3>1, <3>2 DEF CountsFollowPhase, InPhase
    <3> QED
      BY <1>1, <3>1, <3>2, <3>3
  <2>5. CASE ~ PhaseEnds
    <3>1. ~ bstat' /\ bstat' \in BOOLEAN
      <4>1. PhaseEnds = FALSE
        BY ONLY <2>2, <2>5, Zenon
      <4> QED
        BY ONLY <2>1, <4>1, Zenon
    <3>2. send_num' = send_num + 1 /\ snd_map' = [r \in Relays |-> snd_map[r]]
      BY ONLY <2>1, <2>5, Zenon
    <3>3. send_num + 1 < StatOff
      BY ONLY <1>1, <2>2, <2>5
    <3>4. CountsFollowPhase'
      BY ONLY <1>1, <2>3, <3>1, <3>2, <3>3 DEF CountsFollowPhase, InPhase
    <3> QED
      BY <1>1, <3>1, <3>2, <3>3, <3>4
  <2> QED
    BY <2>4, <2>5
<1> QED
  BY <1>1, <1>3, <1>4, <1>5

\* The counts of a sending.
LEMMA CountKeeps ==
  ASSUME TypeOK, CountsFollowPhase, NEW paths \in SUBSET Relays, Count(paths),
         others' = others
  PROVE  /\ snd_map' \in [Relays -> Nat]
         /\ bstat' \in BOOLEAN
         /\ send_num' \in 0 .. StatOn + StatOff
         /\ CountsFollowPhase'
<1>1. CASE others = 0
  BY <1>1, CountKeepsAlone
<1>2. CASE others # 0 /\ Stat
  <2>1. PhaseGoesOn /\ snd_map' = Counted(paths)
    BY <1>2 DEF Count
  <2>2. /\ bstat' \in BOOLEAN /\ send_num' \in 0 .. StatOn + StatOff
        /\ InPhase'
    BY <2>1, PhaseKeeps DEF TypeOK, CountsFollowPhase
  <2>3. snd_map' \in [Relays -> Nat]
    <3>1. snd_map \in [Relays -> Nat]
      BY DEF TypeOK
    <3> QED
      BY ONLY <2>1, <3>1 DEF Counted
  <2> QED
    BY <1>2, <2>2, <2>3 DEF CountsFollowPhase
<1>3. CASE ~ Stat
  BY <1>3 DEF Count, TypeOK, CountsFollowPhase, InPhase
<1> QED
  BY <1>1, <1>2, <1>3

\* The headers of a sending.
LEMMA PacketHeaders ==
  ASSUME NEW paths,
         \A p \in out' : \E q \in paths, load \in {"sent", "stale"} : p = Packet(q, load),
         kind' = kind
  PROVE  Headers'
<1> SUFFICES ASSUME NEW p \in out'
             PROVE  /\ p.control = 0
                    /\ p.long = (p.path # Direct)
                    /\ p.direct = IF ~ Stat /\ p.path = Direct THEN 1 ELSE 0
  BY Zenon DEF Headers, Stat
<1>1. PICK q \in paths, load \in {"sent", "stale"} : p = Packet(q, load)
  OBVIOUS
<1>2. /\ p.control = 0
      /\ p.path = q
      /\ p.long = (q # Direct)
      /\ p.direct = DirectBit(q)
  BY <1>1 DEF Packet, Control, LongHeader
<1>3. DirectBit(q) = IF ~ Stat /\ q = Direct THEN 1 ELSE 0
  <2>1. (IF bstat THEN 4 ELSE 0) % 2 = 0
    <3>1. 4 % 2 = 0 /\ 0 % 2 = 0
      OBVIOUS
    <3> QED
      BY <3>1
  <2> QED
    BY ONLY <2>1, Zenon DEF DirectBit
<1> QED
  BY ONLY <1>2, <1>3, Zenon

-----------------------------------------------------------------------------
(* Inductiveness *)

\* The list of a selector that has found nothing.
LEMMA EmptyList == <<>> \in RelayLists
<1>1. <<>> \in [1 .. 0 -> Relays] /\ 0 \in 0 .. MaxList
  OBVIOUS
<1> QED
  BY <1>1 DEF RelayLists, BoundedSeq, SeqOf

\* The invariant holds initially.
LEMMA InitIInv == Init => IInv
<1> SUFFICES ASSUME Init PROVE IInv
  OBVIOUS
<1>1. Cardinality(Relays) \in Nat
  BY FS_CardinalityType
<1>2. relaylist_ \in RelayLists
  BY EmptyList DEF Init
<1>3. TypeOK
  BY <1>1, <1>2 DEF Init, TypeOK
<1>4. GivenUpForGood
  BY DEF Init, GivenUpForGood, InUse
<1>5. CountsFollowPhase
  BY DEF Init, CountsFollowPhase, InPhase
<1>6. StatisticsSilent /\ Headers
  BY DEF Init, StatisticsSilent, Headers
<1> QED
  BY <1>3, <1>4, <1>5, <1>6 DEF IInv

\* IMPORTANCE.
LEMMA SendMeshKeeps ==
  ASSUME IInv, SendMesh PROVE IInv'
<1> USE DEF IInv
<1>1. /\ kind' = kind /\ open' = open /\ relaylist_' = relaylist_
      /\ cur_channel' = cur_channel /\ rev_map' = rev_map
      /\ others' = others
      /\ CheckRequirement /\ Count(InUse(goodrelays))
      /\ out' = {Packet(path, "sent") : path \in {Direct} \cup InUse(goodrelays)}
  BY DEF SendMesh
<1>2. /\ goodrelays' \in Seq(Relays) /\ badrelays' \subseteq Relays
      /\ lossy' \in [Relays -> BOOLEAN] /\ age' \in 0 .. QueryInterval + 1
      /\ GivenUpForGood'
  BY <1>1, CheckKeeps
<1>3. InUse(goodrelays) \in SUBSET Relays
  BY DEF InUse, TypeOK
<1>4. /\ snd_map' \in [Relays -> Nat] /\ bstat' \in BOOLEAN
      /\ send_num' \in 0 .. StatOn + StatOff /\ CountsFollowPhase'
  BY <1>1, <1>3, CountKeeps
<1>6. TypeOK'
  BY <1>1, <1>2, <1>4 DEF TypeOK, RelayLists
<1>7. StatisticsSilent'
  BY <1>1 DEF StatisticsSilent
<1>8. Headers'
  <2> DEFINE paths == {Direct} \cup InUse(goodrelays)
  <2>1. \A p \in out' : \E q \in paths, load \in {"sent", "stale"} : p = Packet(q, load)
    BY <1>1
  <2> HIDE DEF paths
  <2> QED
    BY <1>1, <2>1, PacketHeaders
<1> QED
  BY <1>2, <1>4, <1>6, <1>7, <1>8

\* NORMAL.
LEMMA SendInTurnKeeps ==
  ASSUME IInv, SendInTurn PROVE IInv'
<1> USE DEF IInv
<1>1. /\ kind' = kind /\ open' = open /\ relaylist_' = relaylist_
      /\ cur_channel' = NextChannel /\ rev_map' = rev_map
      /\ others' = others
      /\ CheckRequirement
  BY DEF SendInTurn
<1>2. /\ goodrelays' \in Seq(Relays) /\ badrelays' \subseteq Relays
      /\ lossy' \in [Relays -> BOOLEAN] /\ age' \in 0 .. QueryInterval + 1
      /\ GivenUpForGood'
  BY <1>1, CheckKeeps
<1>3. /\ Len(goodrelays) \in Nat /\ Cardinality(Relays) \in Nat
      /\ Len(goodrelays) <= Cardinality(Relays)
      /\ NextChannel \in 0 .. Len(goodrelays)
  BY ChannelBound
<1>4. PICK paths \in SUBSET Relays : Count(paths)
  <2>1. CASE NextChannel = Len(goodrelays)
    <3>1. Count({})
      BY <2>1 DEF SendInTurn
    <3> QED
      BY <3>1
  <2>2. CASE NextChannel # Len(goodrelays)
    <3>1. Count({goodrelays[NextChannel + 1]})
      BY <2>2 DEF SendInTurn
    <3>2. NextChannel + 1 \in 1 .. Len(goodrelays)
      BY <1>3, <2>2
    <3>3. goodrelays[NextChannel + 1] \in Relays
      <4> DEFINE k == NextChannel + 1
      <4> HIDE DEF k
      <4>1. k \in 1 .. Len(goodrelays)
        BY <3>2 DEF k
      <4>2. goodrelays[k] \in Relays
        BY <4>1, ElementOfSeq DEF TypeOK
      <4> QED
        BY <4>2 DEF k
    <3> QED
      BY <3>1, <3>3
  <2> QED
    BY <2>1, <2>2
<1>5. /\ snd_map' \in [Relays -> Nat] /\ bstat' \in BOOLEAN
      /\ send_num' \in 0 .. StatOn + StatOff /\ CountsFollowPhase'
  BY <1>1, <1>4, CountKeeps
<1>9. cur_channel' \in 0 .. Cardinality(Relays)
  BY ONLY <1>1, <1>3
<1>10. TypeOK'
  BY <1>1, <1>2, <1>5, <1>9 DEF TypeOK, RelayLists
<1>11. StatisticsSilent'
  BY <1>1 DEF StatisticsSilent
<1>12. Headers'
  <2> DEFINE used == {Direct, goodrelays[NextChannel + 1]}
  <2>1. \A p \in out' : \E q \in used, load \in {"sent", "stale"} : p = Packet(q, load)
    <3>1. CASE NextChannel = Len(goodrelays)
      <4>1. out' = {Packet(Direct, "sent")}
        BY <3>1 DEF SendInTurn
      <4> QED
        BY <4>1
    <3>2. CASE NextChannel # Len(goodrelays)
      <4>1. \E payload \in {"sent", "stale"} :
              out' = {Packet(goodrelays[NextChannel + 1], payload)}
        BY <3>2 DEF SendInTurn
      <4> QED
        BY <4>1
    <3> QED
      BY <3>1, <3>2
  <2> HIDE DEF used
  <2> QED
    BY <1>1, <2>1, PacketHeaders
<1> QED
  BY <1>2, <1>5, <1>10, <1>11, <1>12

\* A packet for another destination.
LEMMA SendElsewhereKeeps ==
  ASSUME IInv, SendElsewhere PROVE IInv'
<1> USE DEF IInv
<1>1. /\ kind' = kind /\ open' = open /\ relaylist_' = relaylist_
      /\ cur_channel' = cur_channel /\ bstat' = bstat /\ send_num' = send_num
      /\ snd_map' = snd_map /\ rev_map' = rev_map /\ out' = {}
      /\ others' = others
      /\ CheckRequirement
  BY DEF SendElsewhere, statics
<1>2. /\ goodrelays' \in Seq(Relays) /\ badrelays' \subseteq Relays
      /\ lossy' \in [Relays -> BOOLEAN] /\ age' \in 0 .. QueryInterval + 1
      /\ GivenUpForGood'
  BY <1>1, CheckKeeps
<1>4. TypeOK'
  BY <1>1, <1>2 DEF TypeOK, RelayLists
<1>5. CountsFollowPhase' /\ StatisticsSilent' /\ Headers'
  BY <1>1 DEF CountsFollowPhase, InPhase, StatisticsSilent, Headers
<1> QED
  BY <1>2, <1>4, <1>5

\* A packet of another socket: the phases go on, the counts of this one do not follow.
LEMMA OtherSendsKeeps ==
  ASSUME IInv, NEW relays \in 0 .. Cardinality(Relays), OtherSends(relays) PROVE IInv'
<1> USE DEF IInv
<1>1. /\ UNCHANGED <<kind, open, relaylist_, goodrelays, badrelays, lossy, snd_map, rev_map>>
      /\ UNCHANGED <<out, age>>
      /\ cur_channel' \in {cur_channel, After(cur_channel, relays)}
      /\ others' = others + 1 /\ others < MaxOthers
  BY DEF OtherSends, selected
<1>2. cur_channel' \in 0 .. Cardinality(Relays)
  <2>1. Cardinality(Relays) \in Nat
    BY FS_CardinalityType
  <2>2. cur_channel \in 0 .. Cardinality(Relays) /\ cur_channel \in Nat /\ relays \in Nat
    BY <2>1 DEF TypeOK
  <2>3. After(cur_channel, relays) \in 0 .. relays
    BY <2>2, AfterBound
  <2>4. After(cur_channel, relays) \in 0 .. Cardinality(Relays)
    BY <2>1, <2>2, <2>3
  <2> QED
    BY <1>1, <2>2, <2>4
<1>3. bstat' \in BOOLEAN /\ send_num' \in 0 .. StatOn + StatOff /\ InPhase'
  <2>1. CASE Stat
    <3>1. PhaseGoesOn
      BY <2>1 DEF OtherSends
    <3> QED
      BY <3>1, PhaseKeeps DEF TypeOK, CountsFollowPhase
  <2>2. CASE ~ Stat
    BY <2>2 DEF OtherSends, TypeOK, CountsFollowPhase, InPhase
  <2> QED
    BY <2>1, <2>2
<1>4. others' \in 0 .. MaxOthers /\ others' # 0
  BY <1>1 DEF TypeOK
<1>5. TypeOK'
  BY <1>1, <1>2, <1>3, <1>4 DEF TypeOK, RelayLists
<1>6. CountsFollowPhase'
  BY <1>3, <1>4 DEF CountsFollowPhase
<1>7. GivenUpForGood' /\ StatisticsSilent'
  BY <1>1 DEF GivenUpForGood, InUse, StatisticsSilent
<1>8. Headers'
  BY <1>1, Zenon DEF Headers, Stat
<1> QED
  BY <1>5, <1>6, <1>7, <1>8

\* recvfrom: no packet asks to be counted.
LEMMA ReceiveKeeps ==
  ASSUME IInv, NEW p \in out, Receive(p) PROVE IInv'
<1> USE DEF IInv
<1>1. /\ UNCHANGED <<kind, open, relaylist_, selected, statics, snd_map, out, age, others>>
      /\ rev_map' = [r \in Relays |->
           IF Stat /\ ReadsLong(p) /\ p.control >= 4 /\ r = p.path /\ rev_map[r] < 2
           THEN rev_map[r] + 1 ELSE rev_map[r]]
  BY DEF Receive
<1>2. ~ (p.control >= 4)
  <2>1. p.control = 0
    BY DEF Headers
  <2> QED
    BY <2>1
<1>3. rev_map' = rev_map
  BY ONLY <1>1, <1>2, TypeOK DEF TypeOK
<1>5. TypeOK'
  BY <1>1, <1>3 DEF TypeOK, selected, statics, RelayLists
<1>6. GivenUpForGood' /\ CountsFollowPhase' /\ StatisticsSilent'
  BY <1>1, <1>3 DEF GivenUpForGood, InUse, CountsFollowPhase, InPhase, StatisticsSilent,
                    selected, statics
<1>7. Headers'
  BY <1>1, Zenon DEF Headers, Stat
<1> QED
  BY <1>5, <1>6, <1>7

\* The selector, the clock, and a step of nobody.
LEMMA EnvironmentKeeps ==
  ASSUME IInv, SelectorChanges \/ Tick \/ UNCHANGED vars PROVE IInv'
<1> USE DEF IInv
<1>1. /\ UNCHANGED <<kind, open, selected, statics, snd_map, rev_map, out, others>>
      /\ relaylist_' \in RelayLists
      /\ age' \in 0 .. QueryInterval + 1
  BY DEF SelectorChanges, Tick, vars, TypeOK
<1>3. TypeOK'
  BY <1>1 DEF TypeOK, selected, statics, RelayLists
<1>4. GivenUpForGood' /\ CountsFollowPhase' /\ StatisticsSilent'
  BY <1>1 DEF GivenUpForGood, InUse, CountsFollowPhase, InPhase, StatisticsSilent,
              selected, statics
<1>5. Headers'
  BY <1>1, Zenon DEF Headers, Stat
<1> QED
  BY <1>3, <1>4, <1>5

\* close, and the next init: the counts begin at nothing, in whatever phase.
LEMMA SocketKeeps ==
  ASSUME IInv, Close \/ Open PROVE IInv'
<1> USE DEF IInv
<1>1. /\ kind' = kind /\ UNCHANGED statics /\ rev_map' = rev_map
      /\ open' \in BOOLEAN
      /\ goodrelays' = <<>> /\ badrelays' = {}
      /\ lossy' = [r \in Relays |-> FALSE]
      /\ snd_map' = [r \in Relays |-> 0]
      /\ others' \in {0, others}
      /\ out' \subseteq out
      /\ age' \in {0, age}
      /\ relaylist_' = <<>> \/ relaylist_' = relaylist_
  BY DEF Close, Open, Fresh
<1>3. relaylist_' \in RelayLists
  BY <1>1, EmptyList DEF TypeOK
<1>4. TypeOK'
  BY <1>1, <1>3 DEF TypeOK, statics, RelayLists
<1>5. GivenUpForGood'
  BY <1>1 DEF GivenUpForGood, InUse
<1>6. CountsFollowPhase'
  <2>1. send_num \in Nat /\ bstat \in BOOLEAN
    BY DEF TypeOK
  <2> QED
    BY <1>1, <2>1 DEF CountsFollowPhase, InPhase, statics
<1>7. StatisticsSilent'
  BY <1>1 DEF StatisticsSilent
<1>8. Headers'
  BY <1>1, Zenon DEF Headers, Stat
<1> QED
  BY <1>4, <1>5, <1>6, <1>7, <1>8

\* Every step keeps it.
LEMMA NextKeeps == IInv /\ [Next]_vars => IInv'
<1> SUFFICES ASSUME IInv, [Next]_vars PROVE IInv'
  OBVIOUS
<1>1. CASE SendMesh
  BY <1>1, SendMeshKeeps
<1>2. CASE SendInTurn
  BY <1>2, SendInTurnKeeps
<1>3. CASE SendElsewhere
  BY <1>3, SendElsewhereKeeps
<1>4. ASSUME NEW p \in out, Receive(p) PROVE IInv'
  BY <1>4, ReceiveKeeps
<1>5. CASE SelectorChanges \/ Tick \/ UNCHANGED vars
  BY <1>5, EnvironmentKeeps
<1>6. CASE Close \/ Open
  BY <1>6, SocketKeeps
<1>7. ASSUME NEW relays \in 0 .. Cardinality(Relays), OtherSends(relays) PROVE IInv'
  BY <1>7, OtherSendsKeeps
<1> QED
  BY <1>1, <1>2, <1>3, <1>4, <1>5, <1>6, <1>7, Zenon DEF Next

\* Every check selects as it should.
LEMMA ChecksSelect ==
  ASSUME IInv, Checks
  PROVE  IF relaylist_ = <<>> THEN goodrelays' = goodrelays
         ELSE /\ InUse(goodrelays') \subseteq Usable
              /\ Meets(goodrelays') \/ Usable \subseteq InUse(goodrelays')
              /\ \A i \in DOMAIN goodrelays' :
                   ~ Contains(goodrelays, goodrelays'[i])
                     => ~ Meets(SubSeq(goodrelays', 1, i - 1))
<1>1. CheckRequirement /\ age > QueryInterval
  BY Zenon DEF Checks, SendMesh, SendInTurn, SendElsewhere
<1>2. GetRequirement
  BY <1>1, Zenon DEF CheckRequirement
<1>3. CASE relaylist_ = <<>>
  BY <1>2, <1>3 DEF GetRequirement, selected
<1>4. CASE relaylist_ # <<>>
  BY <1>2, <1>4, CheckSelects DEF IInv
<1> QED
  BY <1>3, <1>4

-----------------------------------------------------------------------------
(* The theorems *)

\* The inductive invariant holds throughout.
THEOREM Invariance == Spec => []IInv
<1>1. IInv /\ [Next]_vars => IInv'
  BY NextKeeps
<1> QED
  BY InitIInv, <1>1, PTL DEF Spec

\* The variables keep their types, no receiver counts a packet, and as long as no
\* other socket sends no count of a relay is higher than the packets of a phase with
\* statistics, though the statics of send_packet are those earlier sockets left.
THEOREM Counts == Spec => []Inv
<1>1. IInv => Inv
  <2> SUFFICES ASSUME IInv PROVE Inv
    OBVIOUS
  <2>1. send_num \in Nat /\ StatOn \in Nat /\ \A r \in Relays : snd_map[r] \in Nat
    BY DEF IInv, TypeOK
  <2>2. CountsOfOnePhase
    BY <2>1 DEF CountsOfOnePhase, IInv, CountsFollowPhase, InPhase
  <2> QED
    BY <2>2 DEF IInv, Inv
<1> QED
  BY Invariance, <1>1, PTL

\* No relay is in use twice, and none that was given up, though the selector lists a
\* relay twice or anew: get_requirement tests what it adds against what is in use.
THEOREM NoneBack == Spec => []GivenUpForGood
<1>1. IInv => GivenUpForGood
  BY DEF IInv
<1> QED
  BY Invariance, <1>1, PTL

\* Packets are read as they were sent.
THEOREM HeadersRead == Spec => []ReadAsSent
<1>1. IInv => ReadAsSent
  <2> SUFFICES ASSUME IInv, NEW p \in out, p.payload = "sent", ~ (Stat /\ p.path = Direct)
               PROVE  Parsed(p) = [payload |-> "sent", source |-> "sender",
                                   flag |-> IF p.path = Direct THEN 0 ELSE 1]
    BY Zenon DEF ReadAsSent
  <2>1. /\ p.long = (p.path # Direct)
        /\ p.direct = IF ~ Stat /\ p.path = Direct THEN 1 ELSE 0
    BY DEF IInv, Headers
  <2>2. CASE p.path = Direct
    <3>1. p.direct = 1 /\ p.long = FALSE
      BY <2>1, <2>2, Zenon
    <3> QED
      BY <3>1, <2>2 DEF Parsed, ReadsLong
  <2>3. CASE p.path # Direct
    <3>1. p.direct = 0 /\ p.long = TRUE
      BY <2>1, <2>3, Zenon
    <3>2. ReadsLong(p) = TRUE
      BY <3>1 DEF ReadsLong
    <3> QED
      BY <3>1, <3>2, <2>3, Zenon DEF Parsed
  <2> QED
    BY <2>2, <2>3
<1> QED
  BY Invariance, <1>1, PTL

\* Every check with relays to select from leaves in use what the selector lists and was
\* not given up, enough of it or all, and takes one into use only while those before
\* it do not suffice; one without leaves everything in use.
THEOREM RelaysSelected == Spec => SelectsRelays
<1>1. IInv /\ [Next]_vars =>
        [Checks =>
           IF relaylist_ = <<>> THEN goodrelays' = goodrelays
           ELSE /\ InUse(goodrelays') \subseteq Usable
                /\ Meets(goodrelays') \/ Usable \subseteq InUse(goodrelays')
                /\ \A i \in DOMAIN goodrelays' :
                     ~ Contains(goodrelays, goodrelays'[i])
                       => ~ Meets(SubSeq(goodrelays', 1, i - 1))]_vars
  BY ChecksSelect
<1> QED
  BY Invariance, <1>1, PTL DEF Spec, SelectsRelays
=============================================================================
