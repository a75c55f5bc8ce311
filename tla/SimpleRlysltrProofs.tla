------------------------- MODULE SimpleRlysltrProofs -------------------------
(***************************************************************************)
(* Proofs about the relay selector, for any set of relays and any bounds:  *)
(* the invariants of SimpleRlysltr are inductive together, a relay leaves  *)
(* the list for a reason only, and closing the socket comes to its end.    *)
(* Then the client with its relays (RelayedSession): the selector in it is *)
(* that of SimpleRlysltr, each of its leases is one of RelayLease, and     *)
(* what closing gives back and leaves behind.                              *)
(*                                                                         *)
(* First what an iterator and the list are after an erasure and an         *)
(* insertion, then one step of the invariant per action.  What insertion   *)
(* and erasure do to a sequence is in Lemmas.                              *)
(***************************************************************************)
EXTENDS RelayedSession, Lemmas

USE RlysltrAssumption DEF RlysltrAssumption

-----------------------------------------------------------------------------
(* Numbers *)

\* The least element of a nonempty set of numbers is one of them.
LEMMA FirstIsLeast ==
  ASSUME NEW S, S \subseteq Nat, S # {}
  PROVE  First(S) \in S /\ \A j \in S : First(S) <= j
<1> DEFINE Less == OpToRel(<, Nat)
<1>1. \E i \in S : \A j \in S : ~(<<j, i>> \in Less)
  BY NatLessThanWellFounded, WFMin
<1>2. \A i, j \in S : <<j, i>> \in Less <=> j < i
  BY DEF OpToRel
<1> HIDE DEF Less
<1>3. \E i \in S : \A j \in S : ~(j < i)
  BY <1>1, <1>2, Zenon
<1>4. \E i \in S : \A j \in S : i <= j
  BY <1>3
<1> QED
  BY <1>4 DEF First

-----------------------------------------------------------------------------
(* The relay list and its iterator *)

\* What the receiver and the pinger must preserve of the relay list: it is
\* sorted, within its bound, and the iterator is on a node or at end().
ListInv ==
  /\ relaylist \in Seq(Node)
  /\ iterr \in 1 .. Len(relaylist) + 1
  /\ RelaylistBound
  /\ RelaylistSorted

\* The delays of the list are numbers.
LEMMA DelayType ==
  ASSUME relaylist \in Seq(Node), NEW i \in DOMAIN relaylist
  PROVE  relaylist[i] \in Node /\ relaylist[i].delay \in 0 .. MaxAge
<1>1. relaylist[i] \in Node
  BY ElementOfSeq
<1> QED
  BY <1>1 DEF Node

\* A relay in use has a first entry, which is an entry.
LEMMA FirstEntry ==
  ASSUME relaylist \in Seq(Node), NEW r, InUse(r)
  PROVE  First(Entries(r)) \in 1 .. Len(relaylist)
<1>1. Entries(r) \subseteq Nat /\ Entries(r) # {}
  BY DEF InUse, Entries
<1>2. First(Entries(r)) \in Entries(r)
  BY <1>1, FirstIsLeast
<1> QED
  BY <1>2 DEF Entries

\* process_fw_reply erases an entry: the list stays sorted and the iterator, had
\* it been on that entry or not, is on a node of the new list or at its end().
LEMMA ErasedKeepsList ==
  ASSUME ListInv, cursor \in Nat, NEW p \in 1 .. Len(relaylist), Erased(p)
  PROVE  ListInv' /\ cursor' \in Nat
<1> DEFINE n == Len(relaylist)
           it == AfterErase(StepAside(p), p)
<1>1. n \in Nat /\ relaylist \in Seq(Node)
  BY DEF ListInv
<1>2. /\ relaylist' \in Seq(Node)
      /\ Len(relaylist') = n - 1
      /\ \A i \in 1 .. n - 1 :
           relaylist'[i] = IF i < p THEN relaylist[i] ELSE relaylist[i + 1]
  BY <1>1, RemoveAtEntries DEF Erased
<1>3. it \in 1 .. n /\ iterr' = IF it = n THEN 1 ELSE it
  BY <1>1 DEF Erased, ListInv, AfterErase, StepAside
<1>4. iterr' \in 1 .. Len(relaylist') + 1
  BY <1>1, <1>2, <1>3
<1>5. RelaylistBound'
  BY <1>1, <1>2 DEF ListInv, RelaylistBound
<1>6. RelaylistSorted'
  <2> SUFFICES ASSUME NEW i \in 1 .. n - 1, NEW j \in 1 .. n - 1, i < j
               PROVE  relaylist'[i].delay <= relaylist'[j].delay
    BY <1>2 DEF RelaylistSorted
  <2>1. PICK a \in 1 .. n : a = (IF i < p THEN i ELSE i + 1)
    BY <1>1
  <2>2. PICK b \in 1 .. n : b = (IF j < p THEN j ELSE j + 1)
    BY <1>1
  <2>3. a < b
    BY <1>1, <2>1, <2>2
  <2>4. relaylist'[i] = relaylist[a] /\ relaylist'[j] = relaylist[b]
    BY <1>2, <2>1, <2>2
  <2> QED
    BY <1>1, <2>3, <2>4 DEF ListInv, RelaylistSorted
<1>7. cursor' \in Nat
  BY <1>1 DEF Erased, Shifted, AfterErase, Dangling
<1> QED
  BY <1>2, <1>4, <1>5, <1>6, <1>7 DEF ListInv

\* Where process_bw_reply inserts: the entries before are faster, the others are
\* not, and the place is one of the first relaynum.
LEMMA PositionFits ==
  ASSUME ListInv, NEW d \in 0 .. MaxAge, InsertPosition(d) # 0
  PROVE  /\ InsertPosition(d) \in 1 .. Len(relaylist) + 1
         /\ InsertPosition(d) <= RelayNum
         /\ \A i \in 1 .. Len(relaylist) :
              IF i < InsertPosition(d) THEN relaylist[i].delay < d
                                       ELSE relaylist[i].delay >= d
<1> DEFINE n == Len(relaylist)
           slower == {i \in DOMAIN relaylist : i <= RelayNum /\ relaylist[i].delay >= d}
<1>1. /\ n \in Nat /\ DOMAIN relaylist = 1 .. n /\ n <= RelayNum
      /\ \A i \in 1 .. n : relaylist[i].delay \in 0 .. MaxAge
  BY DelayType DEF ListInv, RelaylistBound
<1>2. \A i \in 1 .. n : i \notin slower => relaylist[i].delay < d
  BY <1>1
<1>3. CASE slower # {}
  <2>1. InsertPosition(d) = First(slower)
    BY <1>3 DEF InsertPosition
  <2>2. slower \subseteq Nat
    BY <1>1
  <2> DEFINE f == First(slower)
  <2>3. f \in slower /\ \A j \in slower : f <= j
    <3> HIDE DEF slower
    <3> QED
      BY <1>3, <2>2, FirstIsLeast
  <2> HIDE DEF f
  <2>4. f \in 1 .. n /\ f <= RelayNum /\ relaylist[f].delay >= d
    BY <1>1, <2>3
  <2>5. ASSUME NEW i \in 1 .. n, i < f
        PROVE  relaylist[i].delay < d
    <3>1. i \notin slower
      BY <1>1, <2>3, <2>4, <2>5
    <3> QED
      BY <1>2, <3>1
  <2>6. ASSUME NEW i \in 1 .. n, ~(i < f)
        PROVE  relaylist[i].delay >= d
    <3>1. relaylist[f].delay <= relaylist[i].delay
      <4> HIDE DEF n
      <4>1. f < i => relaylist[f].delay <= relaylist[i].delay
        BY <1>1, <2>4 DEF ListInv, RelaylistSorted
      <4>2. relaylist[f].delay <= relaylist[f].delay
        BY ONLY <1>1, <2>4
      <4> QED
        BY ONLY i \in 1 .. n, <1>1, <2>4, <2>6, <4>1, <4>2
    <3> QED
      BY <1>1, <2>4, <3>1
  <2> QED
    BY <1>1, <2>1, <2>4, <2>5, <2>6 DEF f
<1>4. CASE slower = {}
  <2>1. InsertPosition(d) = n + 1 /\ n < RelayNum
    BY <1>4 DEF InsertPosition
  <2> QED
    BY <1>1, <1>2, <1>4, <2>1
<1> QED
  BY <1>3, <1>4

\* The list with the new entry in: no delay is out of order.
LEMMA InsertedSorted ==
  ASSUME ListInv, NEW node \in Node, InsertPosition(node.delay) # 0
  PROVE  LET n      == Len(relaylist)
             p      == InsertPosition(node.delay)
             longer == InsertAt(relaylist, p, node)
         IN  /\ longer \in Seq(Node)
             /\ Len(longer) = n + 1
             /\ \A i \in 1 .. n + 1 :
                  longer[i] = IF i < p THEN relaylist[i]
                              ELSE IF i = p THEN node ELSE relaylist[i - 1]
             /\ \A i, j \in 1 .. n + 1 : i < j => longer[i].delay <= longer[j].delay
<1> DEFINE n      == Len(relaylist)
           p      == InsertPosition(node.delay)
           longer == InsertAt(relaylist, p, node)
<1>1. node.delay \in 0 .. MaxAge
  BY DEF Node
<1>2. /\ n \in Nat /\ relaylist \in Seq(Node)
      /\ p \in 1 .. n + 1
      /\ \A i \in 1 .. n : relaylist[i].delay \in 0 .. MaxAge
      /\ \A i \in 1 .. n : IF i < p THEN relaylist[i].delay < node.delay
                                    ELSE relaylist[i].delay >= node.delay
  BY <1>1, DelayType, PositionFits DEF ListInv
<1> HIDE DEF p
<1>3. /\ longer \in Seq(Node)
      /\ Len(longer) = n + 1
      /\ \A i \in 1 .. n + 1 :
           longer[i] = IF i < p THEN relaylist[i]
                       ELSE IF i = p THEN node ELSE relaylist[i - 1]
  <2>1. relaylist \in Seq(Node) /\ p \in 1 .. Len(relaylist) + 1 /\ node \in Node
    BY <1>2
  <2>2. /\ InsertAt(relaylist, p, node) \in Seq(Node)
        /\ Len(InsertAt(relaylist, p, node)) = Len(relaylist) + 1
        /\ \A i \in 1 .. Len(relaylist) + 1 :
             InsertAt(relaylist, p, node)[i] =
               IF i < p THEN relaylist[i] ELSE IF i = p THEN node ELSE relaylist[i - 1]
    <3> HIDE DEF n, longer
    <3>1. ASSUME NEW q \in 1 .. Len(relaylist) + 1
          PROVE  /\ InsertAt(relaylist, q, node) \in Seq(Node)
                 /\ Len(InsertAt(relaylist, q, node)) = Len(relaylist) + 1
                 /\ \A i \in 1 .. Len(relaylist) + 1 :
                      InsertAt(relaylist, q, node)[i] =
                        IF i < q THEN relaylist[i] ELSE IF i = q THEN node ELSE relaylist[i - 1]
      BY ONLY <2>1, q \in 1 .. Len(relaylist) + 1, InsertAtEntries
    <3> QED
      BY ONLY <2>1, <3>1
  <2> QED
    BY <2>2
<1> HIDE DEF longer
<1>4. ASSUME NEW i \in 1 .. n + 1, NEW j \in 1 .. n + 1, i < j
      PROVE  longer[i].delay <= longer[j].delay
  <2>1. CASE j < p
    <3>1. longer[i] = relaylist[i] /\ longer[j] = relaylist[j]
      BY <1>2, <1>3, <1>4, <2>1
    <3>2. i \in 1 .. n /\ j \in 1 .. n
      BY <1>2, <1>4, <2>1
    <3> QED
      BY <3>1, <3>2, <1>4 DEF ListInv, RelaylistSorted
  <2>2. CASE j = p
    <3>1. longer[i] = relaylist[i] /\ longer[j] = node /\ i \in 1 .. n /\ i < p
      BY <1>2, <1>3, <1>4, <2>2
    <3> QED
      BY <1>1, <1>2, <3>1
  <2>3. CASE j > p
    <3>1. longer[j] = relaylist[j - 1] /\ j - 1 \in 1 .. n /\ ~(j - 1 < p)
      BY <1>2, <1>3, <1>4, <2>3
    <3>2. CASE i < p
      <4>1. longer[i] = relaylist[i] /\ i \in 1 .. n /\ i < j - 1
        BY <1>2, <1>3, <1>4, <2>3, <3>2
      <4> QED
        BY <3>1, <4>1 DEF ListInv, RelaylistSorted
    <3>3. CASE i = p
      <4>1. longer[i] = node
        BY <1>2, <1>3, <3>3
      <4> QED
        BY <1>1, <1>2, <3>1, <4>1
    <3>4. CASE i > p
      <4>1. longer[i] = relaylist[i - 1] /\ i - 1 \in 1 .. n /\ i - 1 < j - 1
        BY <1>2, <1>3, <1>4, <3>4
      <4> QED
        BY <3>1, <4>1 DEF ListInv, RelaylistSorted
    <3> QED
      BY <1>2, <3>2, <3>3, <3>4
  <2> QED
    BY <1>2, <2>1, <2>2, <2>3
<1> QED
  BY <1>3, <1>4 DEF p, longer

\* process_bw_reply inserts an entry and erases the last one when there is one
\* too many: the list stays sorted and within relaynum, the iterator valid.
LEMMA ReplyKeepsList ==
  ASSUME ListInv, cursor \in Nat, NEW m \in Packet, NEW rest, ProcessBwReply(m, rest)
  PROVE  ListInv' /\ cursor' \in Nat
<1> DEFINE n      == Len(relaylist)
           p      == InsertPosition(m.age)
           node   == [relay |-> m.relay, delay |-> m.age]
           longer == IF p = 0 THEN relaylist ELSE InsertAt(relaylist, p, node)
           it     == IF p = 0 THEN iterr ELSE AfterInsert(iterr, p)
           at     == IF p = 0 THEN cursor ELSE Shifted(AfterInsert(cursor, p))
           last   == Len(longer)
<1>1. /\ n \in Nat /\ n <= RelayNum /\ relaylist \in Seq(Node)
      /\ iterr \in 1 .. n + 1
      /\ \A i \in 1 .. n : relaylist[i].delay \in 0 .. MaxAge
  BY DelayType DEF ListInv, RelaylistBound
<1>2. m.age \in 0 .. MaxAge /\ node \in Node
  BY DEF Packet, Node
<1>3. IF TooMany(last)
      THEN /\ relaylist' = SubSeq(longer, 1, last - 1)
           /\ iterr' = AfterErase(IF it = last THEN 1 ELSE it, last)
           /\ cursor' = Shifted(AfterErase(at, last))
      ELSE /\ relaylist' = longer
           /\ iterr' = it
           /\ cursor' = at
  BY DEF ProcessBwReply
<1>4. CASE p = 0
  <2>1. last = n /\ ~TooMany(last)
    BY <1>1, <1>4 DEF TooMany
  <2>2. relaylist' = relaylist /\ iterr' = iterr /\ cursor' = cursor
    BY <1>3, <1>4, <2>1
  <2> QED
    BY <2>2 DEF ListInv, RelaylistBound, RelaylistSorted
<1>5. CASE p # 0
  <2>1. /\ p \in 1 .. n + 1 /\ p <= RelayNum
        /\ \A i \in 1 .. n : IF i < p THEN relaylist[i].delay < m.age
                                      ELSE relaylist[i].delay >= m.age
    BY <1>2, <1>5, PositionFits
  <2>2. /\ longer \in Seq(Node)
        /\ last = n + 1
        /\ \A i, j \in 1 .. n + 1 : i < j => longer[i].delay <= longer[j].delay
    BY <1>2, <1>5, InsertedSorted
  <2> HIDE DEF p, node
  <2>3. it \in 1 .. n + 2 /\ at \in Nat
    BY <1>1, <1>5, <2>1 DEF AfterInsert, Shifted
  <2> HIDE DEF longer, it, at
  <2>4. CASE TooMany(last)
    <3>1. n = RelayNum /\ n >= 1
      BY <1>1, <2>1, <2>2, <2>4 DEF TooMany
    <3>2. /\ relaylist' \in Seq(Node) /\ Len(relaylist') = n
          /\ \A i \in 1 .. n : relaylist'[i] = longer[i]
      BY <1>1, <1>3, <2>2, <2>4, PrefixEntries
    <3>3. iterr' \in 1 .. n + 1
      <4>1. iterr' = AfterErase(IF it = last THEN 1 ELSE it, last)
        BY <1>3, <2>4
      <4> QED
        BY ONLY <2>2, <2>3, <3>1, <4>1 DEF AfterErase, Dangling
    <3>4. cursor' \in Nat
      BY <1>1, <1>3, <2>2, <2>3, <2>4 DEF AfterErase, Shifted, Dangling
    <3>5. RelaylistSorted'
      <4>1. \A i, j \in 1 .. n : i < j => relaylist'[i].delay <= relaylist'[j].delay
        BY ONLY <1>1, <2>2, <3>2
      <4>2. DOMAIN relaylist' = 1 .. n
        BY <3>2
      <4> QED
        BY ONLY <4>1, <4>2 DEF RelaylistSorted
    <3> QED
      BY <1>1, <3>1, <3>2, <3>3, <3>4, <3>5 DEF ListInv, RelaylistBound
  <2>5. CASE ~TooMany(last)
    <3>1. /\ relaylist' = longer /\ iterr' = it /\ cursor' = at
          /\ n + 1 <= RelayNum
      BY <1>1, <1>3, <2>2, <2>5 DEF TooMany
    <3>2. RelaylistSorted'
      BY <2>2, <3>1 DEF RelaylistSorted
    <3> QED
      BY <1>1, <2>2, <2>3, <3>1, <3>2 DEF ListInv, RelaylistBound
  <2> QED
    BY <2>4, <2>5
<1> QED
  BY <1>4, <1>5

-----------------------------------------------------------------------------
(* The candidates *)

CandInv ==
  /\ candidates \in Seq(Relays)
  /\ iterc \in DOMAIN candidates
  /\ CandidatesBound

\* The sequences of at most n elements.
LEMMA BoundedSequence ==
  ASSUME NEW S, NEW n \in Nat, NEW s \in SeqOf(S, n)
  PROVE  s \in Seq(S) /\ Len(s) <= n
<1>1. PICK m \in 0 .. n : s \in [1 .. m -> S]
  BY DEF SeqOf
<1> QED
  BY <1>1

\* process_rl_advice: cleared or not, the list is not empty when the iterator is
\* set to its first node, and not longer than MAX_CAND_LEN.
LEMMA AdviceKeepsCandidates ==
  ASSUME CandInv, NEW new \in SeqOf(Relays, MaxAdvice), new # <<>>,
         ProcessRlAdvice(new)
  PROVE  CandInv'
<1>1. new \in Seq(Relays) /\ Len(new) <= MaxAdvice /\ Len(new) > 0
  <2>1. new \in Seq(Relays) /\ Len(new) <= MaxAdvice
    BY BoundedSequence
  <2> QED
    BY <2>1, EmptySeq
<1>2. /\ new \o candidates \in Seq(Relays)
      /\ Len(new \o candidates) = Len(new) + Len(candidates)
  BY <1>1, ConcatProperties DEF CandInv
<1>3. iterc' = 1
  BY DEF ProcessRlAdvice
<1>4. CASE Crowded(new)
  <2>1. candidates' = new
    BY <1>4 DEF ProcessRlAdvice
  <2> QED
    BY <1>1, <1>3, <2>1 DEF CandInv, CandidatesBound
<1>5. CASE ~Crowded(new)
  <2>1. candidates' = new \o candidates
    BY <1>5 DEF ProcessRlAdvice
  <2>2. Len(candidates') <= MaxCandLen /\ Len(candidates') > 0
    BY <1>1, <1>2, <1>5, <2>1 DEF CandInv, Crowded
  <2> QED
    BY <1>2, <1>3, <2>1, <2>2 DEF CandInv, CandidatesBound
<1> QED
  BY <1>4, <1>5

\* increase_iter leaves the candidate iterator on a node.
LEMMA NextCandidateKeeps ==
  ASSUME CandInv, NextCandidate
  PROVE  CandInv'
  BY DEF CandInv, CandidatesBound, NextCandidate, Advance

-----------------------------------------------------------------------------
(* The invariant *)

\* Pinger, application and network.
OtherInv ==
  /\ pinger \in Pinger
  /\ running \in BOOLEAN
  /\ app \in {"new", "open", "closing", "releasing", "closed"}
  /\ cursor \in Nat
  /\ net \subseteq Packet

IInv == CandInv /\ ListInv /\ OtherInv

\* What is sent is a packet.
LEMMA SentType ==
  ASSUME NEW rest \in SUBSET Packet,
         NEW type \in {"FW_PROBE", "BW_RESERVE", "BW_REPLY", "BW_RELEASE", "DATA"},
         NEW r \in Relays, NEW age \in 0 .. MaxAge
  PROVE  Sent(rest, type, r, age) \subseteq Packet
  BY DEF Sent, Packet

\* So is a probe.
LEMMA ProbedType ==
  ASSUME OtherInv, NEW r \in Relays
  PROVE  Probed(r) \subseteq Packet
<1>1. net \in SUBSET Packet /\ 0 \in 0 .. MaxAge
  BY DEF OtherInv
<1>2. Sent(net, "FW_PROBE", r, 0) \subseteq Packet
  BY <1>1, SentType
<1> QED
  BY <1>1, <1>2 DEF Probed

\* The records At(place) are places of the pinger.
LEMMA PlaceType ==
  \A place \in {"top", "next_candidate", "next_relay", "done"} : At(place) \in Pinger
  BY DEF At, Pinger

\* The invariant holds initially.
LEMMA InitInv == Init => IInv
<1> SUFFICES ASSUME Init PROVE IInv
  OBVIOUS
<1>1. CandInv
  <2>1. candidates \in Seq(Relays) /\ Len(candidates) <= BootLen
    BY BoundedSequence DEF Init
  <2>2. candidates # <<>> /\ iterc = 1
    BY DEF Init
  <2> QED
    BY <2>1, <2>2, EmptySeq DEF CandInv, CandidatesBound
<1>2. ListInv
  BY DEF Init, ListInv, RelaylistBound, RelaylistSorted
<1>3. OtherInv
  BY DEF Init, OtherInv, Pinger, At
<1> QED
  BY <1>1, <1>2, <1>3 DEF IInv

\* Steps that touch neither candidates nor their iterator keep their part.
LEMMA CandUnchanged ==
  ASSUME CandInv, UNCHANGED cands
  PROVE  CandInv'
  BY DEF CandInv, CandidatesBound, cands

\* The same for the relay list.
LEMMA ListUnchanged ==
  ASSUME ListInv, UNCHANGED relays
  PROVE  ListInv'
  BY DEF ListInv, RelaylistBound, RelaylistSorted, relays

\* The steps of the application and of the pinger.
LEMMA ActiveStep == IInv /\ (Open \/ Closing \/ CyclePing) => IInv'
<1> SUFFICES ASSUME IInv, Open \/ Closing \/ CyclePing
             PROVE  IInv'
  OBVIOUS
<1>0. CandInv /\ ListInv /\ OtherInv
  BY DEF IInv
<1>1. \A i \in DOMAIN relaylist : relaylist[i].relay \in Relays
  BY <1>0, DelayType DEF ListInv, Node
<1>2. CASE Open \/ Close \/ Join \/ ReleaseEnds \/ PingerStops
  <2>1. UNCHANGED cands /\ UNCHANGED relays /\ UNCHANGED net
    BY <1>2 DEF Open, Close, Join, ReleaseEnds, PingerStops
  <2>2. pinger' = pinger \/ pinger' = At("done")
    BY <1>2 DEF Open, Close, Join, ReleaseEnds, PingerStops
  <2>3. /\ running' \in BOOLEAN /\ cursor' \in Nat
        /\ app' \in {"new", "open", "closing", "releasing", "closed"}
    <3>1. running' = running \/ running' = FALSE
      BY <1>2 DEF Open, Close, Join, ReleaseEnds, PingerStops
    <3>2. cursor' = cursor \/ cursor' = 1
      BY <1>2 DEF Open, Close, Join, ReleaseEnds, PingerStops
    <3>3. app' = app \/ app' \in {"open", "closing", "releasing", "closed"}
      BY <1>2 DEF Open, Close, Join, ReleaseEnds, PingerStops
    <3>4. running' \in BOOLEAN
      BY <1>0, <3>1, Zenon DEF OtherInv
    <3> QED
      BY <1>0, <3>2, <3>3, <3>4 DEF OtherInv
  <2>4. OtherInv'
    BY <1>0, <2>1, <2>2, <2>3, PlaceType DEF OtherInv
  <2> QED
    BY <1>0, <2>1, <2>4, CandUnchanged, ListUnchanged DEF IInv
<1>3. CASE ReleaseOne
  <2>1. net' \subseteq Packet
    <3>1. /\ net \in SUBSET Packet /\ 0 \in 0 .. MaxAge
          /\ relaylist[cursor].relay \in Relays
      BY <1>0, <1>1, <1>3 DEF ReleaseOne, OtherInv
    <3>2. Sent(net, "BW_RELEASE", relaylist[cursor].relay, 0) \subseteq Packet
      BY <3>1, SentType
    <3> QED
      BY <1>3, <3>2 DEF ReleaseOne
  <2>2. UNCHANGED cands /\ UNCHANGED relays /\ OtherInv'
    BY <1>0, <1>3, <2>1 DEF ReleaseOne, OtherInv
  <2> QED
    BY <1>0, <2>2, CandUnchanged, ListUnchanged DEF IInv
<1>4. CASE PingerProbes
  <2>1. candidates[iterc] \in Relays
    BY <1>0, ElementOfSeq DEF CandInv
  <2>2. net' \subseteq Packet
    BY <1>0, <1>4, <2>1, ProbedType DEF PingerProbes
  <2>3. UNCHANGED cands /\ UNCHANGED relays /\ OtherInv'
    BY <1>0, <1>4, <2>1, <2>2 DEF PingerProbes, OtherInv, Pinger
  <2> QED
    BY <1>0, <2>3, CandUnchanged, ListUnchanged DEF IInv
<1>5. CASE PingerScans
  <2>1. iterr # Len(relaylist) + 1 => iterr \in DOMAIN relaylist
    BY <1>0 DEF ListInv
  <2>2. net' \subseteq Packet
    BY <1>0, <1>1, <1>5, <2>1, ProbedType DEF PingerScans, OtherInv
  <2>3. UNCHANGED cands /\ UNCHANGED relays /\ OtherInv'
    BY <1>0, <1>5, <2>2 DEF PingerScans, OtherInv, Pinger, At
  <2> QED
    BY <1>0, <2>3, CandUnchanged, ListUnchanged DEF IInv
<1>6. CASE NextCandidate
  <2>1. UNCHANGED relays /\ OtherInv'
    BY <1>0, <1>6 DEF NextCandidate, OtherInv, Pinger, At
  <2> QED
    BY <1>0, <1>6, <2>1, NextCandidateKeeps, ListUnchanged DEF IInv
<1>7. CASE NextRelay
  <2>1. UNCHANGED cands /\ OtherInv'
    BY <1>0, <1>7 DEF NextRelay, OtherInv, Pinger, At
  <2>2. ListInv'
    BY <1>0, <1>7 DEF NextRelay, ListInv, RelaylistBound, RelaylistSorted, Advance
  <2> QED
    BY <1>0, <2>1, <2>2, CandUnchanged DEF IInv
<1> QED
  BY <1>2, <1>3, <1>4, <1>5, <1>6, <1>7 DEF Closing, CyclePing

\* The steps of the receiver and of the network, and the sending of data.
LEMMA PassiveStep ==
  IInv /\ (Receive \/ Tick \/ (\E r \in Relays : SendsData(r))
           \/ \E m \in net : Vanishes(m)
                \/ \E rest \in {net, net \ {m}} : Answered(m, rest)) => IInv'
<1> SUFFICES ASSUME IInv,
                    \/ Receive
                    \/ Tick
                    \/ \E r \in Relays : SendsData(r)
                    \/ \E m \in net : Vanishes(m)
                         \/ \E rest \in {net, net \ {m}} : Answered(m, rest)
             PROVE  IInv'
  OBVIOUS
<1>0. CandInv /\ ListInv /\ OtherInv
  BY DEF IInv
<1>1. \A m \in net : /\ m \in Packet /\ m.relay \in Relays /\ m.age \in 0 .. MaxAge
                     /\ \A rest \in {net, net \ {m}} : rest \in SUBSET Packet
  BY <1>0 DEF OtherInv, Packet
<1>2. ASSUME NEW new \in SeqOf(Relays, MaxAdvice), new # <<>>, ProcessRlAdvice(new)
      PROVE  IInv'
  <2>1. UNCHANGED relays /\ OtherInv'
    BY <1>0, <1>2 DEF ProcessRlAdvice, OtherInv
  <2> QED
    BY <1>0, <1>2, <2>1, AdviceKeepsCandidates, ListUnchanged DEF IInv
<1>3. ASSUME NEW m \in net, NEW rest \in {net, net \ {m}}, NEW busy \in BOOLEAN,
             ProcessFwReplyGood(m, rest, busy)
      PROVE  IInv'
  <2>1. net' \subseteq Packet
    BY <1>1, <1>3, SentType DEF ProcessFwReplyGood
  <2>2. UNCHANGED cands /\ UNCHANGED relays /\ OtherInv'
    BY <1>0, <1>3, <2>1 DEF ProcessFwReplyGood, OtherInv
  <2> QED
    BY <1>0, <2>2, CandUnchanged, ListUnchanged DEF IInv
<1>4. ASSUME NEW m \in net, NEW rest \in {net, net \ {m}}, ProcessFwReplyLate(m, rest)
      PROVE  IInv'
  <2>1. UNCHANGED cands /\ net' \subseteq Packet /\ UNCHANGED <<pinger, running, app>>
    BY <1>1, <1>4 DEF ProcessFwReplyLate
  <2>2. ListInv' /\ cursor' \in Nat
    <3>1. CASE InUse(m.relay)
      <4>1. Erased(First(Entries(m.relay)))
        BY <1>4, <3>1 DEF ProcessFwReplyLate
      <4>2. First(Entries(m.relay)) \in 1 .. Len(relaylist)
        BY <1>0, <3>1, FirstEntry DEF ListInv
      <4> QED
        BY <1>0, <4>1, <4>2, ErasedKeepsList DEF OtherInv
    <3>2. CASE ~InUse(m.relay)
      BY <1>0, <1>4, <3>2, ListUnchanged DEF ProcessFwReplyLate, OtherInv
    <3> QED
      BY <3>1, <3>2
  <2> QED
    BY <1>0, <2>1, <2>2, CandUnchanged DEF IInv, OtherInv
<1>5. ASSUME NEW m \in net, NEW rest \in {net, net \ {m}}, ProcessBwReply(m, rest)
      PROVE  IInv'
  <2>1. UNCHANGED cands /\ net' \subseteq Packet /\ UNCHANGED <<pinger, running, app>>
    BY <1>1, <1>5 DEF ProcessBwReply
  <2>2. ListInv' /\ cursor' \in Nat
    BY <1>0, <1>1, <1>5, ReplyKeepsList DEF OtherInv
  <2> QED
    BY <1>0, <2>1, <2>2, CandUnchanged DEF IInv, OtherInv
<1>6. ASSUME NEW m \in net, NEW rest \in {net, net \ {m}}, Answered(m, rest)
      PROVE  IInv'
  <2>1. net' \subseteq Packet
    BY <1>1, <1>6, SentType DEF Answered
  <2>2. UNCHANGED cands /\ UNCHANGED relays /\ OtherInv'
    BY <1>0, <1>6, <2>1 DEF Answered, OtherInv
  <2> QED
    BY <1>0, <2>2, CandUnchanged, ListUnchanged DEF IInv
<1>7. ASSUME NEW m \in net, Vanishes(m)
      PROVE  IInv'
  <2>1. UNCHANGED cands /\ UNCHANGED relays /\ OtherInv'
    BY <1>0, <1>7 DEF Vanishes, OtherInv
  <2> QED
    BY <1>0, <2>1, CandUnchanged, ListUnchanged DEF IInv
<1>8. CASE Tick
  <2>1. net' \subseteq Packet
    <3> SUFFICES ASSUME NEW m \in net, m.age < MaxAge
                 PROVE  [m EXCEPT !.age = m.age + 1] \in Packet
      BY <1>8 DEF Tick
    <3> QED
      BY <1>1 DEF Packet
  <2>2. UNCHANGED cands /\ UNCHANGED relays /\ OtherInv'
    BY <1>0, <1>8, <2>1 DEF Tick, OtherInv
  <2> QED
    BY <1>0, <2>2, CandUnchanged, ListUnchanged DEF IInv
<1>9. ASSUME NEW r \in Relays, SendsData(r)
      PROVE  IInv'
  <2>1. net' \subseteq Packet
    <3>1. net \in SUBSET Packet /\ 0 \in 0 .. MaxAge
      BY <1>0 DEF OtherInv
    <3> QED
      BY <1>9, <3>1, SentType DEF SendsData
  <2>2. UNCHANGED cands /\ UNCHANGED relays /\ OtherInv'
    BY <1>0, <1>9, <2>1 DEF SendsData, OtherInv
  <2> QED
    BY <1>0, <2>2, CandUnchanged, ListUnchanged DEF IInv
<1> QED
  BY <1>2, <1>3, <1>4, <1>5, <1>6, <1>7, <1>8, <1>9 DEF Receive

\* Every step preserves the invariant.
LEMMA NextInv == IInv /\ [Next]_vars => IInv'
<1>1. IInv /\ UNCHANGED vars => IInv'
  BY CandUnchanged, ListUnchanged DEF IInv, OtherInv, vars
<1> QED
  BY <1>1, ActiveStep, PassiveStep DEF Next, Client

\* The invariant holds always.
LEMMA AlwaysIInv == Spec => []IInv
  BY InitInv, NextInv, PTL DEF Spec

\* It implies the invariants of SimpleRlysltr.
LEMMA InvImplies ==
  IInv => TypeOK /\ IteratorsValid /\ CandidatesBound /\ RelaylistBound /\ RelaylistSorted
<1> SUFFICES ASSUME IInv
             PROVE  TypeOK /\ IteratorsValid /\ CandidatesBound
                      /\ RelaylistBound /\ RelaylistSorted
  OBVIOUS
<1>1. iterc \in Nat /\ iterr \in 0 .. RelayNum + 1
  BY DEF IInv, CandInv, ListInv, RelaylistBound
<1> QED
  BY <1>1 DEF IInv, CandInv, ListInv, OtherInv, TypeOK, IteratorsValid

\* The variables keep their types.
THEOREM TypeCorrect == Spec => []TypeOK
  BY AlwaysIInv, InvImplies, PTL

\* The iterators the pinger keeps between its locked sections are never left on
\* an erased node, and the candidate iterator always is on a node.
THEOREM IteratorsStayValid == Spec => []IteratorsValid
  BY AlwaysIInv, InvImplies, PTL

\* The candidate list never outgrows MAX_CAND_LEN or the configuration file.
THEOREM CandidatesBounded == Spec => []CandidatesBound
  BY AlwaysIInv, InvImplies, PTL

\* No more relays are in use than the requirement names.
THEOREM RelaylistBounded == Spec => []RelaylistBound
  BY AlwaysIInv, InvImplies, PTL

\* The relays in use are sorted by delay, whatever order the replies come in.
THEOREM FastestFirst == Spec => []RelaylistSorted
  BY AlwaysIInv, InvImplies, PTL

-----------------------------------------------------------------------------
(* Why a relay leaves the list *)

\* A late reply of a relay takes no entry of another relay away.
LEMMA LateErasesItsOwn ==
  ASSUME ListInv, NEW m, InUse(m.relay), Erased(First(Entries(m.relay))),
         NEW r, r # m.relay, InUse(r)
  PROVE  InUse(r)'
<1> DEFINE n == Len(relaylist)
           p == First(Entries(m.relay))
<1>1. n \in Nat /\ relaylist \in Seq(Node) /\ p \in 1 .. n
  BY FirstEntry DEF ListInv
<1>2. relaylist[p].relay = m.relay
  <2>1. Entries(m.relay) \subseteq Nat /\ Entries(m.relay) # {}
    BY <1>1 DEF InUse, Entries
  <2>2. p \in Entries(m.relay)
    BY <2>1, FirstIsLeast
  <2> QED
    BY <2>2 DEF Entries
<1>3. PICK i \in 1 .. n : relaylist[i].relay = r
  BY <1>1 DEF InUse, Entries
<1>4. i # p
  BY <1>2, <1>3
<1>5. relaylist' = RemoveAt(relaylist, p)
  BY DEF Erased
<1> HIDE DEF p
<1>6. /\ relaylist' \in Seq(Node) /\ Len(relaylist') = n - 1
      /\ \A j \in 1 .. n - 1 :
           relaylist'[j] = IF j < p THEN relaylist[j] ELSE relaylist[j + 1]
  BY <1>1, <1>5, RemoveAtEntries
<1>7. \E j \in 1 .. n - 1 : relaylist'[j] = relaylist[i]
  <2>1. CASE i < p
    <3>1. i \in 1 .. n - 1
      BY <1>1, <2>1
    <3> QED
      BY <1>6, <2>1, <3>1
  <2>2. CASE i > p
    <3>1. i - 1 \in 1 .. n - 1 /\ ~(i - 1 < p) /\ (i - 1) + 1 = i
      BY <1>1, <2>2
    <3>2. relaylist'[i - 1] = relaylist[(i - 1) + 1]
      BY <1>6, <3>1
    <3> QED
      BY <3>1, <3>2
  <2> QED
    BY <1>1, <1>4, <2>1, <2>2
<1> QED
  BY <1>3, <1>6, <1>7 DEF InUse, Entries

\* The reply of a reservation pushes an entry out only of a full list, and only
\* the slowest one.
LEMMA ReplyErasesSlowest ==
  ASSUME ListInv, NEW m \in Packet, NEW rest, ProcessBwReply(m, rest),
         NEW r, NEW i \in Entries(r), ~InUse(r)'
  PROVE  /\ Len(relaylist') = RelayNum
         /\ \A j \in 1 .. RelayNum : relaylist'[j].delay <= relaylist[i].delay
<1> DEFINE n      == Len(relaylist)
           node   == [relay |-> m.relay, delay |-> m.age]
           p      == InsertPosition(node.delay)
           longer == InsertAt(relaylist, p, node)
<1>1. /\ n \in Nat /\ n <= RelayNum /\ relaylist \in Seq(Node)
      /\ i \in 1 .. n /\ relaylist[i].relay = r
  BY DEF ListInv, RelaylistBound, Entries
<1>2. node \in Node /\ node.delay = m.age
  BY DEF Packet, Node
<1>3. p # 0
  <2> SUFFICES ASSUME p = 0 PROVE FALSE
    OBVIOUS
  <2>1. relaylist' = relaylist
    BY <1>1, <1>2 DEF ProcessBwReply, TooMany
  <2> QED
    BY <2>1 DEF InUse, Entries
<1>4. p \in 1 .. n + 1
  BY <1>2, <1>3, PositionFits DEF Node
<1>5. /\ longer \in Seq(Node) /\ Len(longer) = n + 1
      /\ \A k \in 1 .. n + 1 :
           longer[k] = IF k < p THEN relaylist[k]
                       ELSE IF k = p THEN node ELSE relaylist[k - 1]
      /\ \A j, k \in 1 .. n + 1 : j < k => longer[j].delay <= longer[k].delay
  BY <1>2, <1>3, InsertedSorted
<1>6. relaylist' = IF TooMany(Len(longer)) THEN SubSeq(longer, 1, Len(longer) - 1)
                                           ELSE longer
  BY <1>2, <1>3 DEF ProcessBwReply
<1> HIDE DEF p, node, longer
<1>7. PICK k \in 1 .. n + 1 : longer[k] = relaylist[i]
  <2>1. CASE i < p
    BY <1>1, <1>5, <2>1
  <2>2. CASE ~(i < p)
    <3>1. i + 1 \in 1 .. n + 1 /\ ~(i + 1 < p) /\ i + 1 # p /\ (i + 1) - 1 = i
      BY <1>1, <1>4, <2>2
    <3>2. longer[i + 1] = relaylist[(i + 1) - 1]
      BY <1>5, <3>1
    <3> QED
      BY <3>1, <3>2
  <2> QED
    BY <2>1, <2>2
<1>8. CASE ~TooMany(Len(longer))
  <2>1. relaylist'[k].relay = r /\ k \in DOMAIN relaylist'
    BY <1>1, <1>5, <1>6, <1>7, <1>8
  <2> QED
    BY <2>1 DEF InUse, Entries
<1>9. CASE TooMany(Len(longer))
  <2>1. n = RelayNum
    BY <1>1, <1>5, <1>9 DEF TooMany
  <2>2. /\ relaylist' \in Seq(Node) /\ Len(relaylist') = n
        /\ \A j \in 1 .. n : relaylist'[j] = longer[j]
    <3>1. relaylist' = SubSeq(longer, 1, n)
      BY <1>1, <1>5, <1>6, <1>9
    <3>2. n \in 0 .. Len(longer)
      BY <1>1, <1>5
    <3> QED
      BY <1>5, <3>1, <3>2, PrefixEntries
  <2>3. k = n + 1
    <3> SUFFICES ASSUME k \in 1 .. n PROVE FALSE
      BY <1>1
    <3>1. relaylist'[k].relay = r
      BY <1>1, <1>7, <2>2
    <3> QED
      BY <2>2, <3>1 DEF InUse, Entries
  <2>4. \A j \in 1 .. n : longer[j].delay <= longer[k].delay
    BY <1>1, <1>5, <2>3
  <2> QED
    BY <1>7, <2>1, <2>2, <2>4
<1> QED
  BY <1>8, <1>9

\* A relay leaves the list only because a probe of it came back late or because
\* the list is full of relays that are at least as fast.
THEOREM LeavesOnlyForAReason == Spec => LeavesForAReason
<1>1. ASSUME IInv, Next, NEW r \in Relays, NEW i \in Entries(r), ~InUse(r)'
      PROVE  Reason(r, i)
  <2>0. ListInv /\ OtherInv /\ InUse(r)
    BY <1>1 DEF IInv, InUse
  <2>1. ASSUME relaylist' = relaylist PROVE FALSE
    BY <1>1, <2>1 DEF InUse, Entries
  <2>2. ASSUME NEW m \in net, NEW rest \in {net, net \ {m}}, ProcessFwReplyLate(m, rest)
        PROVE  Reason(r, i)
    <3>1. m.type = "FW_PROBE" /\ m.age > MaxDelay
      <4>1. m.age \in Nat
        BY <2>0 DEF OtherInv, Packet
      <4> QED
        BY <2>2, <4>1 DEF ProcessFwReplyLate, Arrives, MeetRequirement
    <3>2. r = m.relay
      <4> SUFFICES ASSUME r # m.relay PROVE FALSE
        OBVIOUS
      <4>1. CASE InUse(m.relay)
        <5>1. Erased(First(Entries(m.relay)))
          BY <2>2, <4>1 DEF ProcessFwReplyLate
        <5> QED
          BY <1>1, <2>0, <4>1, <5>1, LateErasesItsOwn
      <4>2. CASE ~InUse(m.relay)
        BY <2>1, <2>2, <4>2 DEF ProcessFwReplyLate, relays
      <4> QED
        BY <4>1, <4>2
    <3> QED
      BY <3>1, <3>2 DEF Reason
  <2>3. ASSUME NEW m \in net, NEW rest \in {net, net \ {m}}, ProcessBwReply(m, rest)
        PROVE  Reason(r, i)
    BY <1>1, <2>0, <2>3, ReplyErasesSlowest DEF OtherInv, Reason
  <2>4. CASE Open \/ Closing \/ CyclePing \/ Tick
    BY <2>1, <2>4 DEF Open, Closing, Close, Join, ReleaseOne, ReleaseEnds, CyclePing,
       PingerStops, PingerProbes, PingerScans, NextCandidate, NextRelay, Tick, relays
  <2>5. ASSUME NEW m \in net,
               Vanishes(m) \/ \E rest \in {net, net \ {m}} : Answered(m, rest)
        PROVE  FALSE
    BY <2>1, <2>5 DEF Vanishes, Answered, relays
  <2>7. ASSUME NEW q \in Relays, SendsData(q) PROVE FALSE
    BY <2>1, <2>7 DEF SendsData, relays
  <2>6. CASE Receive
    <3>1. ASSUME NEW new, ProcessRlAdvice(new) PROVE FALSE
      BY <2>1, <3>1 DEF ProcessRlAdvice, relays
    <3>2. ASSUME NEW m, NEW rest, NEW busy, ProcessFwReplyGood(m, rest, busy)
          PROVE  FALSE
      BY <2>1, <3>2 DEF ProcessFwReplyGood, relays
    <3> QED
      BY <2>2, <2>3, <2>6, <3>1, <3>2 DEF Receive
  <2> QED
    BY <1>1, <2>4, <2>5, <2>6, <2>7 DEF Next, Client
<1>2. IInv /\ [Next]_vars =>
        [\A r \in Relays : Leaves(r) => \A i \in Entries(r) : Reason(r, i)]_vars
  BY <1>1 DEF Leaves
<1> QED
  BY <1>2, AlwaysIInv, PTL DEF Spec, LeavesForAReason

-----------------------------------------------------------------------------
(* Closing the socket *)

\* From close() on the flag is down, and once the pinger is joined it is done.
\* The release loop walks a list that nobody else changes, unless packets are
\* still received.
CloseInv ==
  /\ app \in {"closing", "releasing", "closed"} => running = FALSE
  /\ app \in {"releasing", "closed"} => pinger = At("done")
  /\ ~ConcurrentClose /\ app = "releasing" => cursor \in 1 .. Len(relaylist) + 1

\* What the application and the network leave to the pinger.
LEMMA NotThePinger ==
  ASSUME [Next]_vars, ~CyclePing
  PROVE  UNCHANGED pinger
  BY DEF Next, vars, Client, Closing, Open, Close, Join, ReleaseOne, ReleaseEnds, Receive,
         ProcessRlAdvice, ProcessFwReplyGood, ProcessFwReplyLate, ProcessBwReply,
         SendsData, Answered, Vanishes, Tick

\* While the socket is closed without a receiver, only the application moves.
LEMMA NobodyReceives ==
  ASSUME [Next]_vars, ~ConcurrentClose, app \in {"closing", "releasing", "closed"}
  PROVE  /\ UNCHANGED <<relaylist, running>>
         /\ UNCHANGED <<app, cursor>> \/ Join \/ ReleaseOne \/ ReleaseEnds
<1>1. ~Receive
  BY DEF Receive, Receiving, ProcessRlAdvice, ProcessFwReplyGood, ProcessFwReplyLate,
         ProcessBwReply, Arrives
<1>2. CASE CyclePing
  BY <1>2 DEF CyclePing, PingerStops, PingerProbes, PingerScans, NextCandidate,
             NextRelay, cands, relays
<1>3. CASE Join \/ ReleaseOne \/ ReleaseEnds
  BY <1>3 DEF Join, ReleaseOne, ReleaseEnds, relays
<1>4. ~Open /\ ~Close /\ \A r \in Relays : ~SendsData(r)
  BY DEF Open, Close, SendsData
<1>5. CASE \/ \E m \in net : \E rest \in {net, net \ {m}} : Answered(m, rest)
           \/ \E m \in net : Vanishes(m)
           \/ Tick
           \/ UNCHANGED vars
  BY <1>5 DEF Answered, Vanishes, Tick, relays, vars
<1> QED
  BY <1>1, <1>2, <1>3, <1>4, <1>5 DEF Next, Client, Closing

\* Where the application is, it goes on in one direction only.
LEMMA AppGoesOn ==
  ASSUME [Next]_vars
  PROVE  /\ running' = running \/ (app = "open" /\ app' = "closing" /\ running' = FALSE)
         /\ \/ app' = app
            \/ app = "new" /\ app' = "open"
            \/ app = "open" /\ app' = "closing" /\ running' = FALSE
            \/ Join \/ ReleaseEnds
<1>1. CASE Open \/ Close \/ Join \/ ReleaseOne \/ ReleaseEnds
  BY <1>1 DEF Open, Close, Join, ReleaseOne, ReleaseEnds
<1>2. CASE CyclePing
  BY <1>2 DEF CyclePing, PingerStops, PingerProbes, PingerScans, NextCandidate, NextRelay
<1>3. CASE Receive
  BY <1>3 DEF Receive, ProcessRlAdvice, ProcessFwReplyGood, ProcessFwReplyLate,
              ProcessBwReply
<1>4. CASE \/ \E m \in net : \E rest \in {net, net \ {m}} : Answered(m, rest)
           \/ \E m \in net : Vanishes(m)
           \/ \E r \in Relays : SendsData(r)
           \/ Tick
           \/ UNCHANGED vars
  BY <1>4 DEF Answered, Vanishes, SendsData, Tick, vars
<1> QED
  BY <1>1, <1>2, <1>3, <1>4 DEF Next, Client, Closing

\* Every step keeps it.
LEMMA CloseKept == IInv /\ CloseInv /\ [Next]_vars => CloseInv'
<1> SUFFICES ASSUME IInv, CloseInv, [Next]_vars PROVE CloseInv'
  OBVIOUS
<1>1. app' \in {"closing", "releasing", "closed"} => running' = FALSE
  BY AppGoesOn DEF CloseInv, Join, ReleaseEnds
<1>2. app' \in {"releasing", "closed"} => pinger' = At("done")
  <2>1. app' \in {"releasing", "closed"} => pinger = At("done") /\ running = FALSE
    BY AppGoesOn DEF CloseInv, Join, ReleaseEnds
  <2>2. ASSUME pinger = At("done") PROVE ~CyclePing
    BY <2>2 DEF CyclePing, PingerStops, PingerProbes, PingerScans, NextCandidate,
               NextRelay, At
  <2> QED
    BY <2>1, <2>2, NotThePinger
<1>3. ASSUME ~ConcurrentClose, app' = "releasing"
      PROVE  cursor' \in 1 .. Len(relaylist') + 1
  <2>1. Len(relaylist) \in Nat
    BY DEF IInv, ListInv
  <2>2. app \in {"closing", "releasing"}
    BY <1>3, AppGoesOn DEF Join, ReleaseEnds
  <2>3. UNCHANGED relaylist /\ (UNCHANGED <<app, cursor>> \/ Join \/ ReleaseOne \/ ReleaseEnds)
    BY <1>3, <2>2, NobodyReceives
  <2>4. CASE UNCHANGED <<app, cursor>>
    BY <1>3, <2>3, <2>4 DEF CloseInv
  <2>5. CASE Join
    BY <2>1, <2>3, <2>5 DEF Join
  <2>6. CASE ReleaseOne
    BY <2>1, <2>3, <2>6 DEF ReleaseOne
  <2>7. CASE ReleaseEnds
    BY <1>3, <2>7 DEF ReleaseEnds
  <2> QED
    BY <2>3, <2>4, <2>5, <2>6, <2>7
<1> QED
  BY <1>1, <1>2, <1>3 DEF CloseInv

\* What closing needs holds always.
LEMMA AlwaysClose == Spec => [](IInv /\ CloseInv)
<1>1. Init => CloseInv
  BY DEF Init, CloseInv
<1> QED
  BY <1>1, InitInv, NextInv, CloseKept, PTL DEF Spec

\* release_resources walks relaylist_ without its mutex
\* (simplerlysltr.cpp:696-711).  Its iterator stays on a node or at end() all the
\* same as long as no thread receives packets while the socket is closed.
THEOREM LoopSafeWithoutReceiver == Spec => [](~ConcurrentClose => ReleaseLoopSafe)
<1>1. CloseInv => (~ConcurrentClose => ReleaseLoopSafe)
  BY DEF CloseInv, ReleaseLoopSafe
<1> QED
  BY <1>1, AlwaysClose, PTL

\* How many steps of the pinger are left when the flag is down.
StepsOf == [scan |-> 4, next_candidate |-> 3, next_relay |-> 2, top |-> 1, done |-> 0]
PingerLeft == StepsOf[pinger.at]

\* Why close() ends: until the join every step of the pinger takes it one nearer
\* to its end and nothing else moves it, so that it probes each list once more
\* at the most; then every turn of the release loop takes it one entry nearer to
\* the end of a list that stays as it is, and nothing but the end of the list
\* ends it.
CloseGoesOn ==
  [][/\ app = "closing" =>
          \/ pinger' = pinger /\ app' = "closing"
          \/ CyclePing /\ PingerLeft' = PingerLeft - 1 /\ app' = "closing"
          \/ PingerLeft = 0 /\ app' = "releasing" /\ cursor' = 1
     /\ app = "releasing" /\ ~ConcurrentClose =>
          \/ UNCHANGED <<relaylist, cursor, app>>
          \/ cursor <= Len(relaylist) /\ cursor' = cursor + 1 /\ UNCHANGED <<relaylist, app>>
          \/ cursor = Len(relaylist) + 1 /\ app' = "closed"
     /\ app = "closed" => app' = "closed"]_vars

\* close() comes nearer to its end with every step of the two threads it needs,
\* and no other step sets it back: the safety half of CloseEnds.
THEOREM CloseComesNearer == Spec => CloseGoesOn
<1> DEFINE Nearer ==
             /\ app = "closing" =>
                  \/ pinger' = pinger /\ app' = "closing"
                  \/ CyclePing /\ PingerLeft' = PingerLeft - 1 /\ app' = "closing"
                  \/ PingerLeft = 0 /\ app' = "releasing" /\ cursor' = 1
             /\ app = "releasing" /\ ~ConcurrentClose =>
                  \/ UNCHANGED <<relaylist, cursor, app>>
                  \/ /\ cursor <= Len(relaylist) /\ cursor' = cursor + 1
                     /\ UNCHANGED <<relaylist, app>>
                  \/ cursor = Len(relaylist) + 1 /\ app' = "closed"
             /\ app = "closed" => app' = "closed"
<1>1. ASSUME IInv, CloseInv, [Next]_vars PROVE Nearer
  <2>1. ASSUME app = "closing"
        PROVE  \/ pinger' = pinger /\ app' = "closing"
               \/ CyclePing /\ PingerLeft' = PingerLeft - 1 /\ app' = "closing"
               \/ PingerLeft = 0 /\ app' = "releasing" /\ cursor' = 1
    <3>1. running = FALSE
      BY <1>1, <2>1 DEF CloseInv
    <3>2. CASE CyclePing
      <4>1. app' = "closing"
        BY <2>1, <3>2 DEF CyclePing, PingerStops, PingerProbes, PingerScans,
                         NextCandidate, NextRelay
      <4>2. ~PingerProbes
        BY <3>1 DEF PingerProbes
      <4>3. PingerLeft' = PingerLeft - 1
        <5>1. \/ pinger.at = "top" /\ pinger'.at = "done"
              \/ pinger.at = "scan" /\ pinger'.at = "next_candidate"
              \/ pinger.at = "next_candidate" /\ pinger'.at = "next_relay"
              \/ pinger.at = "next_relay" /\ pinger'.at = "top"
          BY <3>2, <4>2 DEF CyclePing, PingerStops, PingerScans, NextCandidate, NextRelay, At
        <5> QED
          BY ONLY <5>1 DEF PingerLeft, StepsOf
      <4> QED
        BY <3>2, <4>1, <4>3
    <3>3. CASE Join
      BY <3>3 DEF Join, PingerLeft, StepsOf, At
    <3>4. CASE ~CyclePing /\ ~Join
      BY <1>1, <2>1, <3>4, NotThePinger, AppGoesOn DEF ReleaseEnds
    <3> QED
      BY <3>2, <3>3, <3>4
  <2>2. ASSUME app = "releasing", ~ConcurrentClose
        PROVE  \/ UNCHANGED <<relaylist, cursor, app>>
               \/ /\ cursor <= Len(relaylist) /\ cursor' = cursor + 1
                  /\ UNCHANGED <<relaylist, app>>
               \/ cursor = Len(relaylist) + 1 /\ app' = "closed"
    <3>1. UNCHANGED relaylist /\ (UNCHANGED <<app, cursor>> \/ Join \/ ReleaseOne \/ ReleaseEnds)
      BY <1>1, <2>2, NobodyReceives
    <3>2. ~Join
      BY <2>2 DEF Join
    <3>3. CASE ReleaseOne
      <4>1. relaylist \in Seq(Node)
        BY <1>1 DEF IInv, ListInv
      <4>2. cursor \in 1 .. Len(relaylist) /\ Len(relaylist) \in Nat
        BY <3>3, <4>1 DEF ReleaseOne
      <4>3. cursor <= Len(relaylist)
        BY ONLY <4>2
      <4> QED
        BY <3>1, <3>3, <4>3 DEF ReleaseOne
    <3>4. CASE ReleaseEnds
      BY <3>4 DEF ReleaseEnds
    <3> QED
      BY <3>1, <3>2, <3>3, <3>4
  <2>3. ASSUME app = "closed" PROVE app' = "closed"
    BY <1>1, <2>3, AppGoesOn DEF Join, ReleaseEnds
  <2> QED
    BY <2>1, <2>2, <2>3
<1>2. IInv /\ CloseInv /\ [Next]_vars => [Nearer]_vars
  BY <1>1
<1> QED
  BY <1>2, AlwaysClose, PTL DEF Spec, CloseGoesOn

-----------------------------------------------------------------------------
(* A client and its relays *)

\* What a step of the client and its relays is to the selector.
LEMMA SessionIsNext == [SessionNext]_svars => [Next]_vars
<1> SUFFICES ASSUME [SessionNext]_svars PROVE [Next]_vars
  OBVIOUS
<1>1. CASE ClientReleases
  BY <1>1 DEF ClientReleases, Next, Client, Closing
<1>2. ASSUME NEW m \in net, NEW rest \in {net, net \ {m}}, ClientConfirms(m, rest)
      PROVE  Next
  BY <1>2 DEF ClientConfirms, Next, Client, Receive
<1>3. CASE ClientOther
  BY <1>3 DEF ClientOther, Next, Client, Closing, Receive
<1>4. ASSUME NEW r \in Relays, RelayAges(r) \/ RelayExpires(r)
      PROVE  UNCHANGED vars
  BY <1>4 DEF RelayAges, RelayExpires
<1>5. ASSUME NEW m \in net, NEW rest \in {net, net \ {m}}, NEW room \in BOOLEAN,
             RelayReserves(m, rest, room)
      PROVE  Next
  BY <1>5 DEF RelayReserves, Next
<1>6. ASSUME NEW m \in net, NEW rest \in {net, net \ {m}},
             RelayReleases(m, rest) \/ RelayForwards(m, rest)
      PROVE  [Next]_vars
  <2>1. CASE rest = net
    BY <1>6, <2>1 DEF RelayReleases, RelayForwards, vars
  <2>2. CASE rest = net \ {m}
    BY <1>6, <2>2 DEF RelayReleases, RelayForwards, Vanishes, Next
  <2> QED
    BY <2>1, <2>2
<1>7. ASSUME NEW m \in net, Vanishes(m) PROVE Next
  BY <1>7 DEF Next
<1>8. CASE Tick
  BY <1>8 DEF Next
<1>9. CASE UNCHANGED svars
  BY <1>9 DEF svars
<1>10. ASSUME NEW r \in Relays, ClientSendsData(r) PROVE Next
  BY <1>10 DEF ClientSendsData, Next, Client
<1> QED
  BY <1>1, <1>2, <1>3, <1>4, <1>5, <1>6, <1>7, <1>8, <1>9, <1>10 DEF SessionNext

\* The selector in the composition of a client with its relays is the selector
\* of SimpleRlysltr: a relay does nothing to it that its network does not, so
\* whatever holds of the one holds of the other.
THEOREM SelectorInSession == SessionSpec => Spec
<1>1. SessionInit => Init
  BY DEF SessionInit
<1> QED
  BY <1>1, SessionIsNext, PTL DEF SessionSpec, Spec

\* The lease of this client at relay r, as the relay promises it to a client
\* that has the relay for itself; data and renewals are the same to it.
Relay(r) == INSTANCE RelayLease WITH
  Keys    <- {"client"},
  MaxFlow <- 1,
  lease   <- [k \in {"client"} |-> lease[r]],
  relayed <- {}

LeaseTypes == lease \in [Relays -> {"none", "live", "stale"}]

\* What the relay may make of one lease.
RelayStep(r) ==
  \/ lease'[r] \in {lease[r], "none", "live"}
  \/ lease[r] = "live" /\ lease'[r] = "stale"

\* Whatever such a step makes of a lease, RelayLease allows it.
LEMMA RelayStepAllowed ==
  ASSUME LeaseTypes, LeaseTypes', NEW r \in Relays, RelayStep(r)
  PROVE  Relay(r)!Next
<1> DEFINE l == [k \in {"client"} |-> lease[r]]
           after == [k \in {"client"} |-> lease'[r]]
<1>1. /\ lease[r] \in {"none", "live", "stale"} /\ lease'[r] \in {"none", "live", "stale"}
  BY DEF LeaseTypes
<1>2. after = [l EXCEPT !["client"] = lease'[r]]
  OBVIOUS
<1>3. CASE lease'[r] = lease[r]
  <2>1. Relay(r)!Answered
    BY <1>3 DEF Relay!Answered
  <2> QED
    BY <2>1 DEF Relay!Next
<1>4. CASE lease'[r] = "none"
  <2>1. Relay(r)!Released("client")
    BY <1>2, <1>4 DEF Relay!Released
  <2> QED
    BY <2>1 DEF Relay!Next
<1>5. CASE lease'[r] = "live"
  <2>1. "client" \in Relay(r)!Held \/ Relay(r)!Cardinality(Relay(r)!Held) < 1
    <3>1. CASE lease[r] # "none"
      BY <3>1 DEF Relay!Held
    <3>2. CASE lease[r] = "none"
      <4>1. Relay(r)!Held = {}
        BY <3>2 DEF Relay!Held
      <4>2. Cardinality({}) = 0
        BY FS_EmptySet
      <4>3. Relay(r)!Cardinality({}) = Cardinality({})
        BY DEF Relay!Cardinality, Cardinality
      <4> QED
        BY <4>1, <4>2, <4>3
    <3> QED
      BY <3>1, <3>2
  <2>2. Relay(r)!Granted("client")
    <3>1. after = [l EXCEPT !["client"] = "live"]
      BY <1>2, <1>5
    <3> QED
      BY <2>1, <3>1 DEF Relay!Granted
  <2> QED
    BY <2>2 DEF Relay!Next
<1>6. CASE lease[r] = "live" /\ lease'[r] = "stale"
  <2>1. Relay(r)!Ages
    <3>1. {"client"} \in SUBSET {k \in {"client"} : l[k] = "live"}
      BY <1>6
    <3>2. after = [k \in {"client"} |-> IF k \in {"client"} THEN "stale" ELSE l[k]]
      BY <1>6
    <3> QED
      BY <3>1, <3>2 DEF Relay!Ages
  <2> QED
    BY <2>1 DEF Relay!Next
<1> QED
  BY <1>1, <1>3, <1>4, <1>5, <1>6 DEF RelayStep

\* Each step of a client and its relays makes of a lease what its relay may.
LEMMA LeaseSteps ==
  ASSUME LeaseTypes, [SessionNext]_svars
  PROVE  LeaseTypes' /\ \A r \in Relays : RelayStep(r)
<1>1. CASE UNCHANGED lease
  BY <1>1 DEF LeaseTypes, RelayStep
<1>2. ASSUME NEW q \in Relays, NEW place \in {"none", "live", "stale"},
             lease' = [lease EXCEPT ![q] = place],
             place = "stale" => lease[q] = "live"
      PROVE  LeaseTypes' /\ \A r \in Relays : RelayStep(r)
  BY <1>2 DEF LeaseTypes, RelayStep
<1>3. ASSUME NEW m \in net, NEW rest, NEW room, RelayReserves(m, rest, room), m.relay \in Relays
      PROVE  LeaseTypes' /\ \A r \in Relays : RelayStep(r)
  BY <1>1, <1>2, <1>3 DEF RelayReserves
<1>4. ASSUME NEW m \in net, NEW rest, RelayReleases(m, rest), m.relay \in Relays
      PROVE  LeaseTypes' /\ \A r \in Relays : RelayStep(r)
  BY <1>2, <1>4 DEF RelayReleases
<1>9. ASSUME NEW m \in net, NEW rest, RelayForwards(m, rest), m.relay \in Relays
      PROVE  LeaseTypes' /\ \A r \in Relays : RelayStep(r)
  BY <1>1, <1>2, <1>9 DEF RelayForwards
<1>5. ASSUME NEW r \in Relays, RelayAges(r) \/ RelayExpires(r)
      PROVE  LeaseTypes' /\ \A q \in Relays : RelayStep(q)
  BY <1>2, <1>5 DEF RelayAges, RelayExpires
<1>6. ASSUME NEW m \in net, m.relay \notin Relays, NEW rest,
             \/ RelayReleases(m, rest)
             \/ RelayForwards(m, rest)
             \/ \E room \in BOOLEAN : RelayReserves(m, rest, room)
      PROVE  UNCHANGED lease
  BY <1>6 DEF RelayReleases, RelayForwards, RelayReserves, LeaseTypes
<1>7. CASE \E m \in net : \E rest \in {net, net \ {m}} :
             \/ RelayReleases(m, rest)
             \/ RelayForwards(m, rest)
             \/ \E room \in BOOLEAN : RelayReserves(m, rest, room)
  BY <1>1, <1>3, <1>4, <1>6, <1>7, <1>9
<1>8. CASE \/ ClientReleases
           \/ \E m \in net : \E rest \in {net, net \ {m}} : ClientConfirms(m, rest)
           \/ ClientOther
           \/ \E r \in Relays : ClientSendsData(r)
           \/ \E m \in net : Vanishes(m) /\ UNCHANGED session
           \/ Tick /\ UNCHANGED session
           \/ UNCHANGED svars
  BY <1>1, <1>8 DEF ClientReleases, ClientConfirms, ClientOther, ClientSendsData, session, svars
<1> QED
  BY <1>5, <1>7, <1>8 DEF SessionNext

\* Leases keep their type.
LEMMA LeasesTyped == SessionSpec => []LeaseTypes
<1>1. SessionInit => LeaseTypes
  BY DEF SessionInit, LeaseTypes
<1>2. LeaseTypes /\ [SessionNext]_svars => LeaseTypes'
  BY LeaseSteps
<1> QED
  BY <1>1, <1>2, PTL DEF SessionSpec

\* At every relay of a client, the session is a lease as RelayLease describes it.
RelaysKeepLeases ==
  /\ \A r \in Relays : Relay(r)!Init
  /\ [][\A r \in Relays : Relay(r)!Next]_svars

\* The composition assumes no more of a relay than a relay promises: each lease
\* of the client is a behaviour of RelayLease, which SimpleFwd implements
\* (ForwarderKeepsLeases in SimpleFwdProofs).
THEOREM SessionsAreLeases == SessionSpec => RelaysKeepLeases
<1>1. SessionInit => \A r \in Relays : Relay(r)!Init
  BY DEF SessionInit, Relay!Init
<1>2. LeaseTypes /\ LeaseTypes' /\ [SessionNext]_svars
        => [\A r \in Relays : Relay(r)!Next]_svars
  BY LeaseSteps, RelayStepAllowed
<1> QED
  BY <1>1, <1>2, LeasesTyped, PTL DEF SessionSpec, RelaysKeepLeases

-----------------------------------------------------------------------------
(* What a closed client leaves behind *)

\* What makes or keeps a lease at relay r, on its way to it.
ContactsOf(r) == {m \in net : m.type \in {"BW_RESERVE", "DATA"} /\ m.relay = r}

\* Nothing of a closed client comes back for good: it stays closed; a lease is
\* made, or kept from going stale, only by a reservation or by data that is still
\* on its way, data does not make one; there is no new packet of either kind,
\* none is younger than one before, and time makes all of them older.
NothingComesBack ==
  [][app = "closed" =>
       /\ app' = "closed"
       /\ \A r \in Relays :
            /\ \A m \in ContactsOf(r)' : \E n \in ContactsOf(r) :
                 n.type = m.type /\ n.age <= m.age /\ (Tick => n.age < m.age)
            /\ lease[r] = "none" /\ lease'[r] # "none" =>
                 \E m \in ContactsOf(r) : m.type = "BW_RESERVE"
            /\ lease[r] = "stale" /\ lease'[r] = "live" => ContactsOf(r) # {}]_svars

\* What a closed client may still do to the network and the leases.
LEMMA ClosedSteps ==
  ASSUME app = "closed", SessionNext
  PROVE  \/ /\ CyclePing
            /\ UNCHANGED session
         \/ \E m \in net : \E rest \in {net, net \ {m}} :
              \/ \E room \in BOOLEAN : RelayReserves(m, rest, room)
              \/ RelayReleases(m, rest)
              \/ RelayForwards(m, rest)
         \/ \E r \in Relays : RelayAges(r) \/ RelayExpires(r)
         \/ \E m \in net : Vanishes(m) /\ UNCHANGED session
         \/ Tick /\ UNCHANGED session
<1>1. ~ClientReleases
  BY DEF ClientReleases, ReleaseOne
<1>2. ~Receiving
  BY DEF Receiving
<1>3. \A m, rest : ~ClientConfirms(m, rest)
  BY <1>2 DEF ClientConfirms, ProcessBwReply, Arrives
<1>4. ClientOther => CyclePing /\ UNCHANGED session
  BY <1>2 DEF ClientOther, Open, Close, Join, ReleaseEnds, ProcessRlAdvice,
              ProcessFwReplyGood, ProcessFwReplyLate, Arrives
<1>5. \A r \in Relays : ~ClientSendsData(r)
  BY DEF ClientSendsData, SendsData
<1> QED
  BY <1>1, <1>3, <1>4, <1>5 DEF SessionNext

\* A packet of another kind adds none.
LEMMA SentContacts ==
  ASSUME NEW rest, rest \subseteq net, NEW type, type \notin {"BW_RESERVE", "DATA"},
         NEW q, NEW age,
         NEW m \in Sent(rest, type, q, age), m.type \in {"BW_RESERVE", "DATA"}
  PROVE  m \in net
  BY DEF Sent

\* What the network of a closed client does to its reservations and data.
LEMMA ContactsFade ==
  ASSUME OtherInv, app = "closed", SessionNext, NEW r \in Relays, NEW m \in ContactsOf(r)'
  PROVE  \E n \in ContactsOf(r) :
           n.type = m.type /\ n.age <= m.age /\ (Tick => n.age < m.age)
<1>1. m \in net' /\ m.type \in {"BW_RESERVE", "DATA"} /\ m.relay = r
  BY DEF ContactsOf
<1>2. CASE Tick
  <2>1. PICK n \in net : n.age < MaxAge /\ m = [n EXCEPT !.age = @ + 1]
    BY <1>1, <1>2 DEF Tick
  <2>2. n \in Packet
    BY DEF OtherInv
  <2>3. n.age \in Nat /\ m.age = n.age + 1 /\ m.type = n.type /\ m.relay = n.relay
    BY <2>1, <2>2 DEF Packet
  <2>4. n.age <= m.age /\ n.age < m.age
    BY ONLY <2>3
  <2> QED
    BY <1>1, <2>3, <2>4 DEF ContactsOf
<1>3. CASE ~Tick
  <2>1. m \in net
    <3>1. CASE CyclePing
      BY <1>1, <3>1, SentContacts DEF CyclePing, PingerStops, PingerProbes, PingerScans,
         NextCandidate, NextRelay, Probed
    <3>2. ASSUME NEW k \in net, NEW rest \in {net, net \ {k}},
                 \/ RelayReleases(k, rest)
                 \/ RelayForwards(k, rest)
                 \/ \E room \in BOOLEAN : RelayReserves(k, rest, room)
          PROVE  m \in net
      BY <1>1, <3>2, SentContacts DEF RelayReserves, RelayReleases, RelayForwards, Answered
    <3>3. ASSUME NEW q \in Relays, RelayAges(q) \/ RelayExpires(q) PROVE net' = net
      BY <3>3 DEF RelayAges, RelayExpires, vars
    <3>4. ASSUME NEW k \in net, Vanishes(k) PROVE net' \subseteq net
      BY <3>4 DEF Vanishes
    <3> QED
      BY <1>1, <1>3, <3>1, <3>2, <3>3, <3>4, ClosedSteps
  <2>2. m.age \in Nat
    BY <2>1 DEF OtherInv, Packet
  <2>3. m.age <= m.age
    BY ONLY <2>2
  <2> QED
    BY <1>1, <1>3, <2>1, <2>3 DEF ContactsOf
<1> QED
  BY <1>2, <1>3

\* And to its leases.
LEMMA LeasesFade ==
  ASSUME LeaseTypes, app = "closed", SessionNext, NEW r \in Relays
  PROVE  /\ lease[r] = "none" /\ lease'[r] # "none" =>
              \E m \in ContactsOf(r) : m.type = "BW_RESERVE"
         /\ lease[r] = "stale" /\ lease'[r] = "live" => ContactsOf(r) # {}
<1>1. CASE UNCHANGED lease
  BY <1>1
<1>2. ASSUME NEW k \in net, NEW rest, NEW room, RelayReserves(k, rest, room)
      PROVE  \/ lease' = lease
             \/ /\ k \in ContactsOf(k.relay) /\ k.type = "BW_RESERVE"
                /\ lease' = [lease EXCEPT ![k.relay] = "live"]
  BY <1>2 DEF RelayReserves, Answered, ContactsOf
<1>3. ASSUME NEW k \in net, NEW rest, RelayReleases(k, rest)
      PROVE  lease' = [lease EXCEPT ![k.relay] = "none"]
  BY <1>3 DEF RelayReleases
<1>8. ASSUME NEW k \in net, NEW rest, RelayForwards(k, rest)
      PROVE  \/ lease' = lease
             \/ /\ k \in ContactsOf(k.relay) /\ lease[k.relay] # "none"
                /\ lease' = [lease EXCEPT ![k.relay] = "live"]
  BY <1>8 DEF RelayForwards, ContactsOf
<1>4. ASSUME NEW q \in Relays, RelayAges(q) \/ RelayExpires(q)
      PROVE  \/ lease[q] = "live" /\ lease' = [lease EXCEPT ![q] = "stale"]
             \/ lease[q] = "stale" /\ lease' = [lease EXCEPT ![q] = "none"]
  BY <1>4 DEF RelayAges, RelayExpires
<1>5. CASE \E k \in net : \E rest \in {net, net \ {k}} :
             \/ \E room \in BOOLEAN : RelayReserves(k, rest, room)
             \/ RelayReleases(k, rest)
             \/ RelayForwards(k, rest)
  <2>1. PICK k \in net : \E rest \in {net, net \ {k}} :
             \/ \E room \in BOOLEAN : RelayReserves(k, rest, room)
             \/ RelayReleases(k, rest)
             \/ RelayForwards(k, rest)
    BY <1>5
  <2>2. \/ lease' = lease
        \/ /\ k \in ContactsOf(k.relay)
           /\ k.type = "BW_RESERVE" \/ lease[k.relay] # "none"
           /\ lease' = [lease EXCEPT ![k.relay] = "live"]
        \/ lease' = [lease EXCEPT ![k.relay] = "none"]
    BY <1>2, <1>3, <1>8, <2>1
  <2> QED
    BY <2>2 DEF LeaseTypes
<1>6. CASE \E q \in Relays : RelayAges(q) \/ RelayExpires(q)
  BY <1>4, <1>6 DEF LeaseTypes
<1>7. CASE UNCHANGED session
  BY <1>1, <1>7 DEF session
<1> QED
  BY <1>5, <1>6, <1>7, ClosedSteps

\* What a closed client has left at a relay, it keeps only for as long as
\* reservations and data are on their way to it, and they are ever fewer and
\* older: the safety half of ResourcesComeBack.
THEOREM ClosedClientFades == SessionSpec => NothingComesBack
<1> DEFINE Fades ==
             /\ app' = "closed"
             /\ \A r \in Relays :
                  /\ \A m \in ContactsOf(r)' : \E n \in ContactsOf(r) :
                       n.type = m.type /\ n.age <= m.age /\ (Tick => n.age < m.age)
                  /\ lease[r] = "none" /\ lease'[r] # "none" =>
                       \E m \in ContactsOf(r) : m.type = "BW_RESERVE"
                  /\ lease[r] = "stale" /\ lease'[r] = "live" => ContactsOf(r) # {}
<1>1. ASSUME IInv, LeaseTypes, SessionNext, app = "closed"
      PROVE  Fades
  <2>1. app' = "closed"
    BY <1>1, SessionIsNext, AppGoesOn DEF Join, ReleaseEnds
  <2>2. OtherInv
    BY <1>1 DEF IInv
  <2> QED
    BY <1>1, <2>1, <2>2, ContactsFade, LeasesFade
<1>2. IInv /\ LeaseTypes /\ [SessionNext]_svars => [app = "closed" => Fades]_svars
  BY <1>1
<1> QED
  BY <1>2, LeasesTyped, AlwaysIInv, SelectorInSession, PTL DEF SessionSpec, NothingComesBack

-----------------------------------------------------------------------------
(* What closing gives back *)

\* While packets are received, every relay of the list has confirmed a
\* reservation that was not given back.
ListedConfirmed ==
  app \in {"new", "open", "closing"} =>
    \A i \in DOMAIN relaylist : relaylist[i].relay \in confirmed

\* The release loop has given back what it has passed, and when it is through,
\* every relay of the list.
ReleasedSoFar ==
  ~ConcurrentClose =>
    /\ app = "releasing" =>
         \A i \in DOMAIN relaylist : i < cursor => relaylist[i].relay \notin confirmed
    /\ app = "closed" =>
         \A i \in DOMAIN relaylist : relaylist[i].relay \notin confirmed

\* An entry of the list after a late reply is an entry of the list before.
LEMMA ErasedAddsNone ==
  ASSUME ListInv, NEW p \in 1 .. Len(relaylist), Erased(p), NEW j \in DOMAIN relaylist'
  PROVE  \E i \in DOMAIN relaylist : relaylist'[j] = relaylist[i]
<1> DEFINE n == Len(relaylist)
<1>1. n \in Nat /\ relaylist \in Seq(Node) /\ DOMAIN relaylist = 1 .. n
  BY DEF ListInv
<1>2. /\ relaylist' \in Seq(Node)
      /\ Len(relaylist') = n - 1
      /\ \A i \in 1 .. n - 1 :
           relaylist'[i] = IF i < p THEN relaylist[i] ELSE relaylist[i + 1]
  BY <1>1, RemoveAtEntries DEF Erased
<1>3. j \in 1 .. n - 1 /\ j \in 1 .. n /\ j + 1 \in 1 .. n
  BY <1>1, <1>2
<1> QED
  BY <1>1, <1>2, <1>3

\* The reply of a reservation adds its own relay only.
LEMMA ReplyAddsItsOwn ==
  ASSUME ListInv, NEW m \in Packet, NEW rest, ProcessBwReply(m, rest),
         NEW j \in DOMAIN relaylist'
  PROVE  \/ relaylist'[j].relay = m.relay
         \/ \E i \in DOMAIN relaylist : relaylist'[j] = relaylist[i]
<1> DEFINE n      == Len(relaylist)
           node   == [relay |-> m.relay, delay |-> m.age]
           p      == InsertPosition(node.delay)
           longer == InsertAt(relaylist, p, node)
<1>1. n \in Nat /\ n <= RelayNum /\ relaylist \in Seq(Node) /\ DOMAIN relaylist = 1 .. n
  BY DEF ListInv, RelaylistBound
<1>2. node \in Node /\ node.delay = m.age
  BY DEF Packet, Node
<1>3. CASE p = 0
  <2>1. relaylist' = relaylist
    BY <1>1, <1>2, <1>3 DEF ProcessBwReply, TooMany
  <2> QED
    BY <2>1
<1>4. CASE p # 0
  <2>1. p \in 1 .. n + 1
    BY <1>2, <1>4, PositionFits DEF Node
  <2>2. /\ longer \in Seq(Node) /\ Len(longer) = n + 1
        /\ \A k \in 1 .. n + 1 :
             longer[k] = IF k < p THEN relaylist[k]
                         ELSE IF k = p THEN node ELSE relaylist[k - 1]
    BY <1>2, <1>4, InsertedSorted
  <2>3. relaylist' = IF TooMany(Len(longer)) THEN SubSeq(longer, 1, Len(longer) - 1)
                                             ELSE longer
    BY <1>2, <1>4 DEF ProcessBwReply
  <2>4. node.relay = m.relay
    OBVIOUS
  <2> HIDE DEF p, node, longer
  <2>5. j \in 1 .. n + 1 /\ relaylist'[j] = longer[j]
    <3>1. CASE TooMany(Len(longer))
      <4>1. relaylist' = SubSeq(longer, 1, n) /\ n \in 0 .. Len(longer)
        BY <1>1, <2>2, <2>3, <3>1
      <4>2. /\ relaylist' \in Seq(Node) /\ Len(relaylist') = n
            /\ \A k \in 1 .. n : relaylist'[k] = longer[k]
        BY <2>2, <4>1, PrefixEntries
      <4>3. j \in 1 .. n
        BY <4>2
      <4> QED
        BY <1>1, <4>2, <4>3
    <3>2. CASE ~TooMany(Len(longer))
      BY <2>2, <2>3, <3>2
    <3> QED
      BY <3>1, <3>2
  <2>6. CASE j < p
    BY <1>1, <2>1, <2>2, <2>5, <2>6
  <2>7. CASE j = p
    BY <2>2, <2>4, <2>5, <2>7
  <2>8. CASE j > p
    <3>1. j - 1 \in 1 .. n /\ longer[j] = relaylist[j - 1]
      BY <1>1, <2>1, <2>2, <2>5, <2>8
    <3> QED
      BY <1>1, <2>5, <3>1
  <2> QED
    BY <2>1, <2>5, <2>6, <2>7, <2>8
<1> QED
  BY <1>3, <1>4

\* What a step leaves of both, when it neither releases nor reads a reply.
LEMMA ConfirmedStays ==
  ASSUME IInv, [SessionNext]_svars, ~ClientReleases,
         \A m \in net : \A rest \in {net, net \ {m}} : ~ClientConfirms(m, rest)
  PROVE  /\ confirmed' = confirmed
         /\ app = "releasing" /\ ~ConcurrentClose => cursor' = cursor
         /\ \A j \in DOMAIN relaylist' :
              \E i \in DOMAIN relaylist : relaylist'[j] = relaylist[i]
<1>0. ListInv
  BY DEF IInv
<1>1. CASE /\ UNCHANGED <<relaylist, confirmed>>
           /\ cursor' = cursor \/ app # "releasing"
  BY <1>1
<1>2. ASSUME NEW m, NEW rest, ProcessFwReplyLate(m, rest), UNCHANGED session
      PROVE  /\ confirmed' = confirmed
             /\ app = "releasing" /\ ~ConcurrentClose => cursor' = cursor
             /\ \A j \in DOMAIN relaylist' :
                  \E i \in DOMAIN relaylist : relaylist'[j] = relaylist[i]
  <2>1. confirmed' = confirmed /\ ~(app = "releasing" /\ ~ConcurrentClose)
    BY <1>2 DEF session, ProcessFwReplyLate, Arrives, Receiving
  <2>2. CASE InUse(m.relay)
    <3>1. Erased(First(Entries(m.relay)))
      BY <1>2, <2>2 DEF ProcessFwReplyLate
    <3>2. First(Entries(m.relay)) \in 1 .. Len(relaylist)
      BY <1>0, <2>2, FirstEntry DEF ListInv
    <3> QED
      BY <1>0, <2>1, <3>1, <3>2, ErasedAddsNone
  <2>3. CASE ~InUse(m.relay)
    BY <1>2, <2>1, <2>3 DEF ProcessFwReplyLate, relays
  <2> QED
    BY <2>2, <2>3
<1>3. CASE ClientOther
  <2>1. CASE Open \/ Close \/ Join \/ ReleaseEnds \/ CyclePing
    BY <1>1, <1>3, <2>1 DEF ClientOther, session, Open, Close, Join, ReleaseEnds, CyclePing,
       PingerStops, PingerProbes, PingerScans, NextCandidate, NextRelay, relays
  <2>2. ASSUME NEW new, ProcessRlAdvice(new) PROVE UNCHANGED <<relaylist, cursor>>
    BY <2>2 DEF ProcessRlAdvice, relays
  <2>3. ASSUME NEW m, NEW rest, NEW busy, ProcessFwReplyGood(m, rest, busy)
        PROVE  UNCHANGED <<relaylist, cursor>>
    BY <2>3 DEF ProcessFwReplyGood, relays
  <2> QED
    BY <1>1, <1>2, <1>3, <2>1, <2>2, <2>3 DEF ClientOther, session
<1>4. CASE \E r \in Relays : ClientSendsData(r) \/ RelayAges(r) \/ RelayExpires(r)
  BY <1>1, <1>4 DEF ClientSendsData, SendsData, RelayAges, RelayExpires, session, vars, relays
<1>5. CASE \E m \in net : \E rest \in {net, net \ {m}} :
             \/ RelayReleases(m, rest)
             \/ RelayForwards(m, rest)
             \/ \E room \in BOOLEAN : RelayReserves(m, rest, room)
  BY <1>1, <1>5 DEF RelayReleases, RelayForwards, RelayReserves, Answered, relays
<1>6. CASE \/ \E m \in net : Vanishes(m) /\ UNCHANGED session
           \/ Tick /\ UNCHANGED session
           \/ UNCHANGED svars
  BY <1>1, <1>6 DEF Vanishes, Tick, session, svars, vars, relays
<1> QED
  BY <1>3, <1>4, <1>5, <1>6 DEF SessionNext

\* Every step keeps both.
LEMMA ListedKept ==
  ASSUME IInv, CloseInv, ListedConfirmed, ReleasedSoFar, [SessionNext]_svars
  PROVE  ListedConfirmed' /\ ReleasedSoFar'
<1>0. [Next]_vars /\ ListInv /\ OtherInv
  BY SessionIsNext DEF IInv
<1>1. CASE ClientReleases
  <2>1. app = "releasing" /\ app' = "releasing" /\ relaylist' = relaylist
    BY <1>1 DEF ClientReleases, ReleaseOne, relays
  <2>2. confirmed' = confirmed \ {relaylist[cursor].relay} /\ cursor' = cursor + 1
    BY <1>1 DEF ClientReleases, ReleaseOne
  <2>3. cursor \in Nat /\ \A i \in DOMAIN relaylist : i \in Nat
    BY <1>0 DEF ListInv, OtherInv
  <2>4. ListedConfirmed'
    BY <2>1 DEF ListedConfirmed
  <2>5. ASSUME ~ConcurrentClose, NEW i \in DOMAIN relaylist, i < cursor + 1
        PROVE  relaylist[i].relay \notin confirmed'
    <3>1. i < cursor \/ i = cursor
      BY <2>3, <2>5
    <3> QED
      BY <2>1, <2>2, <2>5, <3>1 DEF ReleasedSoFar
  <2> QED
    BY <2>1, <2>2, <2>4, <2>5 DEF ReleasedSoFar
<1>2. ASSUME NEW m \in net, NEW rest \in {net, net \ {m}}, ClientConfirms(m, rest)
      PROVE  ListedConfirmed' /\ ReleasedSoFar'
  <2>1. ProcessBwReply(m, rest) /\ confirmed' = confirmed \cup {m.relay} /\ m \in Packet
    BY <1>0, <1>2 DEF ClientConfirms, OtherInv
  <2>2. app' = app /\ Receiving
    BY <2>1 DEF ProcessBwReply, Arrives
  <2>3. ReleasedSoFar'
    BY <2>2 DEF ReleasedSoFar, Receiving
  <2>4. ListedConfirmed'
    BY <1>0, <2>1, <2>2, ReplyAddsItsOwn DEF ListedConfirmed
  <2> QED
    BY <2>3, <2>4
<1>3. CASE /\ ~ClientReleases
           /\ \A m \in net : \A rest \in {net, net \ {m}} : ~ClientConfirms(m, rest)
  <2>1. /\ confirmed' = confirmed
        /\ \A j \in DOMAIN relaylist' :
             \E i \in DOMAIN relaylist : relaylist'[j] = relaylist[i]
    BY <1>3, ConfirmedStays
  <2>2. ListedConfirmed'
    <3>1. app' \in {"new", "open", "closing"} => app \in {"new", "open", "closing"}
      BY <1>0, AppGoesOn DEF Join, ReleaseEnds
    <3> QED
      BY <2>1, <3>1 DEF ListedConfirmed
  <2>3. ASSUME ~ConcurrentClose, app' \in {"releasing", "closed"}
        PROVE  /\ app' = "releasing" =>
                    \A i \in DOMAIN relaylist' : i < cursor' => relaylist'[i].relay \notin confirmed'
               /\ app' = "closed" =>
                    \A i \in DOMAIN relaylist' : relaylist'[i].relay \notin confirmed'
    <3>1. app \in {"closing", "releasing", "closed"}
      BY <1>0, <2>3, AppGoesOn DEF Join, ReleaseEnds
    <3>2. /\ relaylist' = relaylist
          /\ UNCHANGED <<app, cursor>> \/ Join \/ ReleaseOne \/ ReleaseEnds
      BY <1>0, <2>3, <3>1, NobodyReceives
    <3>3. CASE UNCHANGED <<app, cursor>>
      BY <2>1, <2>3, <3>2, <3>3 DEF ReleasedSoFar
    <3>4. CASE Join
      <4>1. app' = "releasing" /\ cursor' = 1 /\ \A i \in DOMAIN relaylist : ~(i < 1)
        BY <1>0, <3>4 DEF Join, ListInv
      <4> QED
        BY <3>2, <4>1
    <3>5. ~ReleaseOne
      <4>1. ASSUME ReleaseOne PROVE FALSE
        <5>1. cursor' = cursor /\ cursor' = cursor + 1 /\ cursor \in Nat
          BY <1>0, <2>3, <4>1, <1>3, ConfirmedStays DEF ReleaseOne, OtherInv
        <5> QED
          BY ONLY <5>1
      <4> QED
        BY <4>1
    <3>6. CASE ReleaseEnds
      <4>1. app = "releasing" /\ app' = "closed" /\ \A i \in DOMAIN relaylist : i < cursor
        BY <1>0, <3>6 DEF ReleaseEnds, ListInv
      <4> QED
        BY <2>1, <2>3, <3>2, <4>1 DEF ReleasedSoFar
    <3> QED
      BY <3>2, <3>3, <3>4, <3>5, <3>6
  <2> QED
    BY <2>2, <2>3 DEF ReleasedSoFar
<1> QED
  BY <1>1, <1>2, <1>3

\* Both hold always.
LEMMA AlwaysListed == SessionSpec => [](ListedConfirmed /\ ReleasedSoFar)
<1>1. SessionInit => ListedConfirmed /\ ReleasedSoFar
  <2> SUFFICES ASSUME SessionInit PROVE ListedConfirmed /\ ReleasedSoFar
    OBVIOUS
  <2>1. DOMAIN relaylist = {} /\ app = "new"
    BY DEF SessionInit, Init
  <2> QED
    BY <2>1 DEF ListedConfirmed, ReleasedSoFar
<1>2. (IInv /\ CloseInv) /\ (ListedConfirmed /\ ReleasedSoFar) /\ [SessionNext]_svars
        => (ListedConfirmed /\ ReleasedSoFar)'
  BY ListedKept
<1> QED
  BY <1>1, <1>2, AlwaysClose, SelectorInSession, PTL DEF SessionSpec

\* A client uses only relays that have confirmed its reservation and that it has
\* not given back.
THEOREM OnlyConfirmedInUse ==
  SessionSpec => [](app \in {"new", "open", "closing"} =>
                      \A r \in Relays : InUse(r) => r \in confirmed)
<1>1. ListedConfirmed =>
        (app \in {"new", "open", "closing"} => \A r \in Relays : InUse(r) => r \in confirmed)
  BY DEF ListedConfirmed, InUse, Entries
<1> QED
  BY <1>1, AlwaysListed, PTL

\* What is true of "release all preserved resources" (simplerlysltr.cpp:695): when
\* the client has closed, every relay still in its list has been sent a release
\* since it last confirmed a reservation, if no packet was received meanwhile.
\* Relays that have left the list are not, as AllReleased shows.
THEOREM EveryListedReleased ==
  SessionSpec => [](~ConcurrentClose /\ app = "closed" =>
                      \A r \in Relays : InUse(r) => r \notin confirmed)
<1>1. ReleasedSoFar =>
        (~ConcurrentClose /\ app = "closed" => \A r \in Relays : InUse(r) => r \notin confirmed)
  BY DEF ReleasedSoFar, InUse, Entries
<1> QED
  BY <1>1, AlwaysListed, PTL

=============================================================================
