-------------------------- MODULE KnowledgeProofs ---------------------------
(***************************************************************************)
(* Proofs about relay knowledge.  The proxies and their relay advisors     *)
(* (CorsProxy), for any number of proxies and inquiries, any neighbours,   *)
(* knowledge and bounds: the invariants of CorsProxy are inductive         *)
(* together with what they need of the places an inquiry can be at, of the *)
(* hops it has left and of the clock of the loop; and no task ends         *)
(* unanswered without a reason.  The database server (Translator), for any *)
(* relays, reports and failures of its queries: what its table and its     *)
(* answers have to do with what was reported.                              *)
(*                                                                         *)
(* First totals over tasks and what is left of a queue, then what becomes  *)
(* of inquiries when a packet or a task is dealt with, then the steps.     *)
(* The database server comes last and needs nothing of this.               *)
(***************************************************************************)
EXTENDS CorsProxy, Translator, Lemmas

\* What is assumed of the bounds and of the configuration.
LEMMA Bounds ==
  /\ MaxTTL \in 1 .. 255
  /\ MaxAdvicedRelays \in Nat \ {0} /\ MaxRlNum \in Nat
  /\ CacheLife \in Nat /\ UpdateInterval \in Nat \ {0} /\ MaxLate \in Nat
  /\ Required \in [Inquiries -> 0 .. 255]
  /\ Advisor \in [Proxies -> {"AdvanceRldvr", "SimpleRldvr"}]
  BY ProtocolAssumption, AdvisorAssumption, AdvanceAssumption, SimpleAssumption,
     ProxyAssumption
     DEF ProtocolAssumption, AdvisorAssumption, AdvanceAssumption, SimpleAssumption,
         ProxyAssumption

-----------------------------------------------------------------------------
(* The inductive invariant *)

Message == [to : Proxies, id : Inquiries, required : 0 .. 255, ttl : 1 .. MaxTTL]
Task == [id : Inquiries, required : 0 .. 255, ttl : 0 .. MaxTTL, age : Nat]
Entry == {NoEntry} \cup [asn_set : Knowledge, age : Nat]

Types ==
  /\ neighbors \in [Proxies -> UNION {NeighborLists[p] : p \in Proxies}]
  /\ \A p \in Proxies : neighbors[p] \in NeighborLists[p]
  /\ net \subseteq Message
  /\ tosend \subseteq Inquiries
  /\ answers \in [Inquiries -> Nat] /\ advised \in [Inquiries -> Nat]
  /\ asn_cache \in [Proxies -> [AsnPairs -> Entry]]
  /\ task_queue \in [Proxies -> Seq(Task)]
  /\ pc \in [Proxies -> {"run", "select"}]
  /\ due \in [Proxies -> - MaxLate - 1 .. UpdateInterval]
  /\ wake \in [Proxies -> Int]

\* What has a name, an inquiry or a copy of one, is at one place: not sent yet, in
\* one packet, or one task.
OnePlace ==
  /\ \A i \in tosend :
       /\ answers[i] = 0 /\ advised[i] = 0
       /\ \A m \in net : m.id # i
       /\ \A p \in Proxies : \A j \in DOMAIN task_queue[p] : task_queue[p][j].id # i
  /\ \A m, n \in net : m.id = n.id => m = n
  /\ \A m \in net, p \in Proxies : \A j \in DOMAIN task_queue[p] : task_queue[p][j].id # m.id
  /\ \A p, q \in Proxies : \A j \in DOMAIN task_queue[p], k \in DOMAIN task_queue[q] :
       task_queue[p][j].id = task_queue[q][k].id => p = q /\ j = k

\* The hops an inquiry has left allow for no more answers than it may have.
HopsLeft ==
  /\ \A i \in Inquiries : answers[i] <= MaxTTL
  /\ \A m \in net : answers[m.id] + m.ttl <= MaxTTL
  /\ \A p \in Proxies : \A j \in DOMAIN task_queue[p] :
       answers[task_queue[p][j].id] + task_queue[p][j].ttl + 1 <= MaxTTL

\* select ends with the next event or within the second after it, and nothing is
\* older than the time since the last one allows.
InTime ==
  \A p \in Proxies :
    /\ pc[p] = "select" => wake[p] \in {due[p], due[p] + 1}
    /\ \A j \in DOMAIN task_queue[p] : task_queue[p][j].age <= UpdateInterval - due[p]
    /\ \A key \in AsnPairs : asn_cache[p][key].age <= CacheLife + UpdateInterval - due[p]

\* Tasks are in the order of their ages, so that update finds those it is
\* late for in front.
OldestFirst ==
  \A p \in Proxies : \A j, k \in DOMAIN task_queue[p] :
    j < k => task_queue[p][j].age >= task_queue[p][k].age

\* A SimpleRldvr has no tasks and no cache.
SimpleKnowsNothing ==
  \A p \in Proxies : Advisor[p] # "AdvanceRldvr" =>
    task_queue[p] = <<>> /\ \A key \in AsnPairs : asn_cache[p][key] = NoEntry

IInv == /\ Types
        /\ OnePlace
        /\ HopsLeft
        /\ AskedIsMissing
        /\ NoTaskForKnown
        /\ InTime
        /\ OldestFirst
        /\ SimpleKnowsNothing

-----------------------------------------------------------------------------
(* Totals *)

\* What a total over a set is computed by.
IsTotal(f, amount, S) ==
  f = [s \in SUBSET S |->
         IF s = {} THEN 0
         ELSE f[s \ {CHOOSE x \in s : TRUE}] + amount[CHOOSE x \in s : TRUE]]

\* A total over nothing, and over one task.
LEMMA TotalOfNone ==
  ASSUME NEW amount PROVE Total(amount, {}) = 0
<1> DEFINE total == CHOOSE f : IsTotal(f, amount, {})
<1>1. Total(amount, {}) = total[{}]
  BY DEF Total, FoldSet, MapThenFoldSet, IsTotal
<1>2. \E f : IsTotal(f, amount, {})
  <2> DEFINE g == [s \in SUBSET {} |-> 0]
  <2>1. \A s \in SUBSET {} : s = {}
    OBVIOUS
  <2>2. IsTotal(g, amount, {})
    BY <2>1 DEF IsTotal
  <2> QED
    BY <2>2
<1>3. IsTotal(total, amount, {})
  BY <1>2, Zenon
<1> HIDE DEF total
<1>4. total[{}] = 0
  BY <1>3 DEF IsTotal
<1> QED
  BY <1>1, <1>4

\* The total over one task is its own.
LEMMA TotalOfOne ==
  ASSUME NEW amount, NEW x, amount[x] \in Nat PROVE Total(amount, {x}) = amount[x]
<1> DEFINE total == CHOOSE f : IsTotal(f, amount, {x})
<1>1. Total(amount, {x}) = total[{x}]
  BY DEF Total, FoldSet, MapThenFoldSet, IsTotal
<1>0. /\ {x} \ {CHOOSE y \in {x} : TRUE} = {}
      /\ (CHOOSE y \in {x} : TRUE) = x
      /\ {} \in SUBSET {x} /\ {x} \in SUBSET {x} /\ {x} # {}
      /\ \A s \in SUBSET {x} : s = {} \/ s = {x}
  OBVIOUS
<1>2. \E f : IsTotal(f, amount, {x})
  <2> DEFINE g == [s \in SUBSET {x} |-> IF s = {} THEN 0 ELSE amount[x]]
             h == [s \in SUBSET {x} |->
                     IF s = {} THEN 0
                     ELSE g[s \ {CHOOSE y \in s : TRUE}] + amount[CHOOSE y \in s : TRUE]]
  <2>1. g[{}] = 0 /\ g[{x}] = amount[x]
    BY <1>0
  <2>2. h[{}] = 0
    BY <1>0
  <2>3. h[{x}] = g[{x} \ {CHOOSE y \in {x} : TRUE}] + amount[CHOOSE y \in {x} : TRUE]
    BY <1>0
  <2>4. h[{x}] = amount[x]
    <3> HIDE DEF g, h
    <3> QED
      BY ONLY <1>0, <2>1, <2>3, amount[x] \in Nat
  <2>5. g = [s \in SUBSET {x} |-> g[s]] /\ h = [s \in SUBSET {x} |-> h[s]]
    OBVIOUS
  <2>6. g = h
    <3>1. \A s \in SUBSET {x} : g[s] = h[s]
      <4> HIDE DEF g, h
      <4> QED
        BY <1>0, <2>1, <2>2, <2>4, Zenon
    <3> HIDE DEF g, h
    <3> QED
      BY ONLY <3>1, <2>5, Zenon
  <2>7. IsTotal(g, amount, {x})
    BY <2>6 DEF IsTotal
  <2> QED
    BY <2>7
<1>3. IsTotal(total, amount, {x})
  BY <1>2, Zenon
<1> HIDE DEF total
<1>4. total[{}] = 0 
  BY <1>3, <1>0 DEF IsTotal
<1>5. total[{x}] = total[{x} \ {CHOOSE y \in {x} : TRUE}] + amount[CHOOSE y \in {x} : TRUE]
  BY <1>3, <1>0 DEF IsTotal
<1>6. total[{x}] = total[{}] + amount[x]
  BY <1>0, <1>5
<1> QED
  BY <1>1, <1>4, <1>6

-----------------------------------------------------------------------------
(* Lists *)

\* What of a list is sent: as many entries as fit, from the front.
LEMMA UpToPrefix ==
  ASSUME NEW S, NEW list \in Seq(S), NEW bound \in Nat
  PROVE  /\ UpTo(list, bound) \in Seq(S)
         /\ Len(UpTo(list, bound)) = IF Len(list) < bound THEN Len(list) ELSE bound
         /\ \A i \in 1 .. Len(UpTo(list, bound)) : UpTo(list, bound)[i] = list[i]
<1> DEFINE n == IF Len(list) < bound THEN Len(list) ELSE bound
<1>1. n \in 0 .. Len(list)
  OBVIOUS
<1>2. UpTo(list, bound) = SubSeq(list, 1, n)
  BY DEF UpTo
<1> HIDE DEF n
<1>3. /\ SubSeq(list, 1, n) \in Seq(S) /\ Len(SubSeq(list, 1, n)) = n
      /\ \A i \in 1 .. n : SubSeq(list, 1, n)[i] = list[i]
  BY ONLY <1>1, PrefixEntries, list \in Seq(S)
<1> QED
  BY ONLY <1>2, <1>3 DEF n

\* Its length only.
LEMMA UpToEntries ==
  ASSUME NEW S, NEW list \in Seq(S), NEW bound \in Nat
  PROVE  /\ UpTo(list, bound) \in Seq(S)
         /\ Len(UpTo(list, bound)) \in Nat
         /\ Len(UpTo(list, bound)) = IF Len(list) < bound THEN Len(list) ELSE bound
BY UpToPrefix

\* The list of neighbours, read from either end, is a sequence of addresses.
LEMMA Nodes ==
  ASSUME Types, NEW p \in Proxies
  PROVE  /\ neighbors[p] \in Seq(DOMAIN Asn)
         /\ Len(neighbors[p]) \in Nat
         /\ Reverse(neighbors[p]) \in Seq(DOMAIN Asn)
         /\ Len(Reverse(neighbors[p])) = Len(neighbors[p])
<1>1. neighbors[p] \in Seq(DOMAIN Asn)
  BY AdvisorAssumption DEF Types, AdvisorAssumption
<1> DEFINE list == neighbors[p]
<1>2. list \in Seq(DOMAIN Asn)
  BY <1>1
<1> HIDE DEF list
<1>3. Len(list) \in Nat /\ \A i \in 1 .. Len(list) : list[i] \in DOMAIN Asn
  BY <1>2, ElementOfSeq
<1>4. \A i \in 1 .. Len(list) : list[(Len(list) - i) + 1] \in DOMAIN Asn
  <2>1. \A i \in 1 .. Len(list) : (Len(list) - i) + 1 \in 1 .. Len(list)
    BY <1>3
  <2> QED
    BY <1>3, <2>1
<1>5. Reverse(list) \in [1 .. Len(list) -> DOMAIN Asn]
  BY <1>4 DEF Reverse
<1>6. Reverse(list) \in Seq(DOMAIN Asn) /\ Len(Reverse(list)) = Len(list)
  BY <1>3, <1>5
<1> QED
  BY <1>2, <1>3, <1>6 DEF list

\* A search through the neighbours finds neighbours, and no more than it may.
LEMMA MatchingList ==
  ASSUME Types, NEW p \in Proxies, NEW asn_set, NEW bound \in Nat
  PROVE  /\ Matching(p, asn_set, bound) \in Seq(DOMAIN Asn)
         /\ Len(Matching(p, asn_set, bound)) \in Nat
         /\ Len(Matching(p, asn_set, bound)) <= bound
         /\ Len(Matching(p, asn_set, bound)) <= Len(neighbors[p])
<1> DEFINE list == Reverse(neighbors[p])
           P == {i \in DOMAIN list : list[i] \in {x \in DOMAIN Asn : Asn[x] \in asn_set}}
<1>1. list \in Seq(DOMAIN Asn) /\ Len(list) = Len(neighbors[p]) /\ Len(list) \in Nat
  BY Nodes
<1>2. P \in SUBSET (1 .. Len(list))
  BY <1>1
<1>3. Matching(p, asn_set, bound) = UpTo(Only(list, P), bound)
  BY DEF Matching, Among
<1> HIDE DEF list, P
<1> DEFINE only == Only(list, P)
<1>4. only \in Seq(DOMAIN Asn) /\ Len(only) \in Nat /\ Len(only) <= Len(list)
  BY <1>1, <1>2, OnlyEntries, OnlyLength
<1> HIDE DEF only
<1>5. /\ UpTo(only, bound) \in Seq(DOMAIN Asn)
      /\ Len(UpTo(only, bound)) \in Nat
      /\ Len(UpTo(only, bound)) = IF Len(only) < bound THEN Len(only) ELSE bound
  BY <1>4, UpToEntries
<1>6. Matching(p, asn_set, bound) = UpTo(only, bound)
  BY <1>3 DEF only
<1> QED
  BY ONLY <1>1, <1>4, <1>5, <1>6, bound \in Nat

-----------------------------------------------------------------------------
(* What is left of a queue *)

\* The tasks waiting at a proxy, and the ranges of their fields.
LEMMA Queue ==
  ASSUME Types, NEW p \in Proxies
  PROVE  /\ task_queue[p] \in Seq(Task)
         /\ Len(task_queue[p]) \in Nat
         /\ DOMAIN task_queue[p] = 1 .. Len(task_queue[p])
         /\ \A j \in DOMAIN task_queue[p] :
              /\ task_queue[p][j] \in Task /\ j \in Nat
              /\ task_queue[p][j].id \in Inquiries
              /\ task_queue[p][j].required \in 0 .. 255
              /\ task_queue[p][j].ttl \in Nat /\ task_queue[p][j].ttl \in 0 .. MaxTTL
              /\ task_queue[p][j].age \in Nat
<1> DEFINE q == task_queue[p]
<1>1. q \in Seq(Task)
  BY DEF Types
<1> HIDE DEF q
<1>2. /\ Len(q) \in Nat /\ DOMAIN q = 1 .. Len(q)
      /\ \A j \in 1 .. Len(q) : q[j] \in Task
  BY <1>1, ElementOfSeq
<1>3. \A j \in DOMAIN q : j \in Nat
  BY <1>2
<1>4. \A t \in Task : /\ t.id \in Inquiries /\ t.required \in 0 .. 255
                      /\ t.ttl \in Nat /\ t.ttl \in 0 .. MaxTTL /\ t.age \in Nat
  BY Bounds DEF Task
<1>5. \A j \in DOMAIN q :
        /\ q[j] \in Task /\ j \in Nat
        /\ q[j].id \in Inquiries /\ q[j].required \in 0 .. 255
        /\ q[j].ttl \in Nat /\ q[j].ttl \in 0 .. MaxTTL /\ q[j].age \in Nat
  BY ONLY <1>2, <1>3, <1>4, Zenon
<1> QED
  BY <1>1, <1>2, <1>5 DEF q

\* A queue without some of its tasks has the others, in their order.
LEMMA Without ==
  ASSUME Types, NEW p \in Proxies, NEW gone \in SUBSET (DOMAIN task_queue[p])
  PROVE  /\ TasksWithout(p, gone) \in Seq(Task)
         /\ ChosenFrom(TasksWithout(p, gone), task_queue[p], DOMAIN task_queue[p] \ gone)
         /\ DOMAIN TasksWithout(p, gone) = 1 .. Len(TasksWithout(p, gone))
<1> DEFINE q == task_queue[p]
           P == DOMAIN q \ gone
<1>1. q \in Seq(Task) /\ DOMAIN q = 1 .. Len(q)
  BY Queue
<1>2. P \in SUBSET (1 .. Len(q))
  BY <1>1
<1>3. TasksWithout(p, gone) = Only(q, P)
  BY DEF TasksWithout
<1> HIDE DEF P, q
<1>4. Only(q, P) \in Seq(Task) /\ ChosenFrom(Only(q, P), q, P)
  BY <1>1, <1>2, OnlyEntries
<1>5. \A s \in Seq(Task) : DOMAIN s = 1 .. Len(s)
  OBVIOUS
<1> QED
  BY ONLY <1>3, <1>4, <1>5, Zenon DEF P, q

\* A task that is left was there before, at a place of its own.
Left(gone, p) ==
  \E at \in [DOMAIN task_queue'[p] -> DOMAIN task_queue[p] \ gone] :
    /\ \A k \in DOMAIN task_queue'[p] : task_queue'[p][k] = task_queue[p][at[k]]
    /\ \A k, l \in DOMAIN task_queue'[p] : k < l => at[k] < at[l]
    /\ \A k, l \in DOMAIN task_queue'[p] : at[k] = at[l] => k = l
    /\ \A j \in DOMAIN task_queue[p] \ gone : \E k \in DOMAIN task_queue'[p] : at[k] = j

\* What a proxy has left of its queue when some tasks are erased.
LEMMA TasksLeft ==
  ASSUME Types, NEW p \in Proxies, NEW gone \in SUBSET (DOMAIN task_queue[p]),
         task_queue' = [task_queue EXCEPT ![p] = TasksWithout(p, gone)]
  PROVE  /\ task_queue' \in [Proxies -> Seq(Task)]
         /\ Left(gone, p)
         /\ \A q \in Proxies : q # p => task_queue'[q] = task_queue[q]
<1> DEFINE t == TasksWithout(p, gone)
           P == DOMAIN task_queue[p] \ gone
<1>1. t \in Seq(Task) /\ ChosenFrom(t, task_queue[p], P) /\ DOMAIN t = 1 .. Len(t)
  BY Without
<1> HIDE DEF t
<1>2. task_queue'[p] = t /\ \A q \in Proxies : q # p => task_queue'[q] = task_queue[q]
  BY DEF Types, t
<1>3. task_queue' \in [Proxies -> Seq(Task)]
  BY <1>1 DEF Types, t
<1>4. \A j \in P : j \in Int
  BY Queue
<1> HIDE DEF P
<1>5. PICK at \in [1 .. Len(t) -> P] :
        /\ \A k \in 1 .. Len(t) : t[k] = task_queue[p][at[k]]
        /\ \A k, l \in 1 .. Len(t) : k < l => at[k] < at[l]
        /\ \A i \in P : \E k \in 1 .. Len(t) : at[k] = i
  BY <1>1, Zenon DEF ChosenFrom
<1>6. ASSUME NEW k \in 1 .. Len(t), NEW l \in 1 .. Len(t), at[k] = at[l]
      PROVE  k = l
  <2>1. at[k] \in Int /\ at[l] \in Int
    BY <1>4, <1>5
  <2>2. ~ (k < l) /\ ~ (l < k)
    BY ONLY <1>5, <1>6, <2>1
  <2> QED
    BY <2>2
<1>7. Left(gone, p)
  <2> DEFINE D == DOMAIN task_queue'[p]
  <2>1. D = 1 .. Len(t)
    BY <1>1, <1>2
  <2> HIDE DEF D
  <2>2. at \in [D -> P]
    BY ONLY <1>5, <2>1, Zenon
  <2>3. \A k \in D : task_queue'[p][k] = task_queue[p][at[k]]
    BY ONLY <1>2, <1>5, <2>1
  <2>4. /\ \A k, l \in D : k < l => at[k] < at[l]
        /\ \A k, l \in D : at[k] = at[l] => k = l
        /\ \A i \in P : \E k \in D : at[k] = i
    BY ONLY <1>5, <1>6, <2>1
  <2> QED
    BY ONLY <2>2, <2>3, <2>4, Zenon DEF Left, P, D
<1> QED
  BY <1>2, <1>3, <1>7

-----------------------------------------------------------------------------
(* Where inquiries are *)

\* What an inquiry asks for where it is, and the hops it has left.
Fits(i, required, ttl) == Missing(i, required) /\ answers[i] + ttl <= MaxTTL

Places ==
  /\ OnePlace
  /\ \A i \in Inquiries : answers[i] <= MaxTTL
  /\ \A m \in net : Fits(m.id, m.required, m.ttl)
  /\ \A p \in Proxies : \A j \in DOMAIN task_queue[p] :
       Fits(task_queue[p][j].id, task_queue[p][j].required, task_queue[p][j].ttl + 1)

\* Places says the same as the three invariants about where an inquiry is.
LEMMA PlacesMeaning ==
  Types => (Places <=> OnePlace /\ HopsLeft /\ AskedIsMissing)
<1> SUFFICES ASSUME Types PROVE Places <=> OnePlace /\ HopsLeft /\ AskedIsMissing
  OBVIOUS
<1>1. ASSUME NEW p \in Proxies, NEW j \in DOMAIN task_queue[p]
      PROVE  answers[task_queue[p][j].id] + (task_queue[p][j].ttl + 1)
               = answers[task_queue[p][j].id] + task_queue[p][j].ttl + 1
  <2>1. /\ task_queue[p][j].id \in Inquiries
        /\ task_queue[p][j].ttl \in Nat
    BY Queue
  <2>2. answers[task_queue[p][j].id] \in Nat
    BY <2>1 DEF Types
  <2> QED
    BY ONLY <2>1, <2>2
<1> QED
  BY ONLY <1>1, Zenon DEF Places, Fits, HopsLeft, AskedIsMissing

\* A step deals with some inquiries and leaves the others where they are.
\* Those it deals with are afterwards in one packet or one task at most, and
\* fit in there.
DealtFit(dealt) ==
  /\ \A m \in net : m.id \in dealt => Fits(m.id, m.required, m.ttl)
  /\ \A p \in Proxies : \A j \in DOMAIN task_queue[p] :
       task_queue[p][j].id \in dealt =>
         Fits(task_queue[p][j].id, task_queue[p][j].required, task_queue[p][j].ttl + 1)

DealtOnce(dealt) ==
  /\ \A m, n \in net : m.id \in dealt /\ m.id = n.id => m = n
  /\ \A m \in net, p \in Proxies : \A k \in DOMAIN task_queue[p] :
       m.id \in dealt => task_queue[p][k].id # m.id
  /\ \A p, q \in Proxies : \A k \in DOMAIN task_queue[p], l \in DOMAIN task_queue[q] :
       task_queue[p][k].id = task_queue[q][l].id => p = q /\ k = l

OthersStay(dealt) ==
  /\ tosend' = tosend \ dealt
  /\ \A i \in Inquiries \ dealt : answers'[i] = answers[i] /\ advised'[i] = advised[i]
  /\ \A m \in net' : m.id \notin dealt => m \in net
  /\ \A p \in Proxies : \A k \in DOMAIN task_queue'[p] :
       task_queue'[p][k].id \notin dealt =>
         \E j \in DOMAIN task_queue[p] :
           /\ task_queue'[p][k].id = task_queue[p][j].id
           /\ task_queue'[p][k].required = task_queue[p][j].required
           /\ task_queue'[p][k].ttl = task_queue[p][j].ttl

DealsWith(dealt) ==
  /\ OthersStay(dealt)
  /\ DealtFit(dealt)'
  /\ DealtOnce(dealt)'
  /\ \A i \in dealt : answers'[i] <= MaxTTL

\* What is not dealt with fits where it was.
LEMMA OthersFit ==
  ASSUME NEW dealt, OthersStay(dealt), NEW i \in Inquiries \ dealt, NEW required, NEW ttl,
         Fits(i, required, ttl)
  PROVE  Fits(i, required, ttl)'
<1>1. answers'[i] = answers[i] /\ advised'[i] = advised[i]
  BY DEF OthersStay
<1> QED
  BY <1>1, Zenon DEF Fits, Missing, ListsFit

\* A step that deals with some inquiries as DealsWith says keeps the others'
\* places and leaves each at one place.
LEMMA PlacesKept ==
  ASSUME Types, Types', Places, NEW dealt \in SUBSET Inquiries, DealsWith(dealt)
  PROVE  Places'
<1> USE DEF DealsWith
<1>1. \A m \in net : m.id \in Inquiries
  BY DEF Types, Message
<1>2. \A p \in Proxies : \A k \in DOMAIN task_queue[p] : task_queue[p][k].id \in Inquiries
  BY Queue
<1>3. (\A m \in net : Fits(m.id, m.required, m.ttl))'
  <2> SUFFICES ASSUME NEW m \in net' PROVE Fits(m.id, m.required, m.ttl)'
    OBVIOUS
  <2>1. CASE m.id \in dealt
    BY <2>1, Zenon DEF DealtFit
  <2>2. CASE m.id \notin dealt
    <3>1. m \in net
      BY <2>2, Zenon DEF OthersStay
    <3>2. Fits(m.id, m.required, m.ttl)
      BY <3>1, Zenon DEF Places
    <3>3. m.id \in Inquiries \ dealt
      BY <1>1, <2>2, <3>1
    <3> QED
      BY <3>2, <3>3, OthersFit
  <2> QED
    BY <2>1, <2>2
<1>4. (\A p \in Proxies : \A j \in DOMAIN task_queue[p] :
         Fits(task_queue[p][j].id, task_queue[p][j].required, task_queue[p][j].ttl + 1))'
  <2> SUFFICES ASSUME NEW p \in Proxies, NEW k \in DOMAIN task_queue'[p]
               PROVE  Fits(task_queue[p][k].id, task_queue[p][k].required,
                           task_queue[p][k].ttl + 1)'
    BY Zenon
  <2>1. CASE task_queue'[p][k].id \in dealt
    BY <2>1, Zenon DEF DealtFit
  <2>2. CASE task_queue'[p][k].id \notin dealt
    <3>1. PICK j \in DOMAIN task_queue[p] :
               /\ task_queue'[p][k].id = task_queue[p][j].id
               /\ task_queue'[p][k].required = task_queue[p][j].required
               /\ task_queue'[p][k].ttl = task_queue[p][j].ttl
      BY <2>2, Zenon DEF OthersStay
    <3>2. Fits(task_queue[p][j].id, task_queue[p][j].required, task_queue[p][j].ttl + 1)
      BY Zenon DEF Places
    <3>3. /\ answers'[task_queue[p][j].id] = answers[task_queue[p][j].id]
          /\ advised'[task_queue[p][j].id] = advised[task_queue[p][j].id]
      <4>1. task_queue[p][j].id \in Inquiries \ dealt
        BY <1>2, <2>2, <3>1
      <4> QED
        BY <4>1, Zenon DEF OthersStay
    <3> QED
      BY ONLY <3>1, <3>2, <3>3, Zenon DEF Fits, Missing, ListsFit
  <2> QED
    BY <2>1, <2>2
<1>5. (\A i \in tosend :
        /\ answers[i] = 0 /\ advised[i] = 0
        /\ \A m \in net : m.id # i
        /\ \A p \in Proxies : \A j \in DOMAIN task_queue[p] : task_queue[p][j].id # i)'
  <2> SUFFICES ASSUME NEW i \in tosend'
               PROVE  /\ answers'[i] = 0 /\ advised'[i] = 0
                      /\ \A m \in net' : m.id # i
                      /\ \A p \in Proxies : \A k \in DOMAIN task_queue'[p] :
                           task_queue'[p][k].id # i
    BY Zenon
  <2>1. i \in tosend /\ i \notin dealt /\ i \in Inquiries
    BY DEF OthersStay, Types
  <2>2. answers'[i] = 0 /\ advised'[i] = 0
    BY <2>1 DEF OthersStay, Places, OnePlace
  <2>5. /\ \A m \in net : m.id # i
        /\ \A p \in Proxies : \A j \in DOMAIN task_queue[p] : task_queue[p][j].id # i
    BY <2>1, Zenon DEF Places, OnePlace
  <2>3. \A m \in net' : m.id # i
    <3> SUFFICES ASSUME NEW m \in net', m.id = i PROVE FALSE
      BY Zenon
    <3>1. m \in net
      BY <2>1, Zenon DEF OthersStay
    <3> QED
      BY <2>5, <3>1
  <2>4. \A p \in Proxies : \A k \in DOMAIN task_queue'[p] : task_queue'[p][k].id # i
    <3> SUFFICES ASSUME NEW p \in Proxies, NEW k \in DOMAIN task_queue'[p],
                        task_queue'[p][k].id = i
                 PROVE  FALSE
      BY Zenon
    <3>1. task_queue'[p][k].id \notin dealt
      BY ONLY <2>1, task_queue'[p][k].id = i
    <3>2. PICK j \in DOMAIN task_queue[p] : task_queue'[p][k].id = task_queue[p][j].id
      BY <3>1, Zenon DEF OthersStay
    <3>3. task_queue[p][j].id # i
      BY <2>5
    <3> QED
      BY ONLY <3>2, <3>3, task_queue'[p][k].id = i
  <2> QED
    BY <2>2, <2>3, <2>4
<1>6. (\A m, n \in net : m.id = n.id => m = n)'
  <2> SUFFICES ASSUME NEW m \in net', NEW n \in net', m.id = n.id PROVE m = n
    BY Zenon
  <2>1. CASE m.id \in dealt
    BY <2>1, Zenon DEF DealtOnce
  <2>2. CASE m.id \notin dealt
    <3>1. m \in net /\ n \in net
      BY <2>2, Zenon DEF OthersStay
    <3> QED
      BY <3>1, Zenon DEF Places, OnePlace
  <2> QED
    BY <2>1, <2>2
<1>7. (\A m \in net, p \in Proxies : \A j \in DOMAIN task_queue[p] : task_queue[p][j].id # m.id)'
  <2> SUFFICES ASSUME NEW m \in net', NEW p \in Proxies, NEW k \in DOMAIN task_queue'[p],
                      task_queue'[p][k].id = m.id
               PROVE  FALSE
    BY Zenon
  <2>1. CASE m.id \in dealt
    BY <2>1, Zenon DEF DealtOnce
  <2>2. CASE m.id \notin dealt
    <3>1. m \in net
      BY <2>2, Zenon DEF OthersStay
    <3>2. PICK j \in DOMAIN task_queue[p] : task_queue'[p][k].id = task_queue[p][j].id
      BY <2>2, Zenon DEF OthersStay
    <3>3. \A o \in net, r \in Proxies : \A l \in DOMAIN task_queue[r] :
            task_queue[r][l].id # o.id
      BY Zenon DEF Places, OnePlace
    <3>4. task_queue[p][j].id # m.id
      BY ONLY <3>1, <3>3, p \in Proxies, j \in DOMAIN task_queue[p], Zenon
    <3> QED
      BY ONLY <3>2, <3>4, task_queue'[p][k].id = m.id
  <2> QED
    BY <2>1, <2>2
<1>8. OnePlace'
  BY <1>5, <1>6, <1>7, Zenon DEF DealtOnce, OnePlace
<1>9. (\A i \in Inquiries : answers[i] <= MaxTTL)'
  <2> SUFFICES ASSUME NEW i \in Inquiries PROVE answers'[i] <= MaxTTL
    OBVIOUS
  <2>1. CASE i \in dealt
    BY <2>1
  <2>2. CASE i \notin dealt
    BY <2>2 DEF OthersStay, Places
  <2> QED
    BY <2>1, <2>2
<1> QED
  BY ONLY <1>3, <1>4, <1>8, <1>9, Zenon DEF Places

-----------------------------------------------------------------------------
(* What an answer does to an inquiry *)

\* The inquiries that go on for m: one at most, for what n relays leave missing.
GoesOn(S, m, ttl, n) ==
  /\ \A f \in S : /\ f \in Message /\ f.id = m.id /\ f.required = m.required - n
                  /\ f.ttl = ttl /\ n < m.required
  /\ \A f, g \in S : f = g

\* What is passed on of an inquiry that n relays were found for.
LEMMA InquiryGoesOn ==
  ASSUME NEW m, m.id \in Inquiries, m.required \in 0 .. 255,
         NEW ttl \in 0 .. MaxTTL, NEW n \in Nat, NEW to,
         NEW S, S = IF n < m.required /\ ttl > 0
                    THEN {Inquiry(to, m.id, StillRequired(m, n), ttl)} ELSE {}
  PROVE  GoesOn(Sent(S), m, ttl, n)
<1> DEFINE f == Inquiry(to, m.id, StillRequired(m, n), ttl)
<1>0. MaxTTL \in Nat
  BY Bounds
<1>1. CASE n < m.required /\ ttl > 0
  <2>1. m.required - n \in 0 .. 255 /\ ttl \in 1 .. MaxTTL
    <3>1. \A x \in 0 .. 255 : n < x => x - n \in 0 .. 255
      OBVIOUS
    <3>2. ttl \in 1 .. MaxTTL
      BY ONLY <1>0, <1>1, ttl \in 0 .. MaxTTL
    <3> QED
      BY ONLY <1>1, <3>1, <3>2, m.required \in 0 .. 255, Zenon
  <2>2. f = [to |-> to, id |-> m.id, required |-> m.required - n, ttl |-> ttl]
    BY DEF Inquiry, StillRequired
  <2>3. f.id = m.id /\ f.required = m.required - n /\ f.ttl = ttl /\ f.to = to
    BY <2>2
  <2>4. to \in Proxies => f \in Message
    BY <2>1, <2>2 DEF Message
  <2> HIDE DEF f
  <2>5. S = {f}
    BY <1>1 DEF f
  <2>6. Sent(S) = IF to \in Proxies THEN {f} ELSE {}
    BY <2>3, <2>5 DEF Sent
  <2> QED
    BY ONLY <1>1, <2>3, <2>4, <2>6, Zenon DEF GoesOn
<1>2. CASE ~ (n < m.required /\ ttl > 0)
  BY <1>2 DEF GoesOn, Sent
<1> QED
  BY <1>1, <1>2

\* The same when the advisor forwards it by its own rule.
LEMMA TaskGoesOn ==
  ASSUME NEW m, m.id \in Inquiries, m.required \in 0 .. 255,
         NEW ttl \in 0 .. MaxTTL, NEW n \in Nat, NEW p
  PROVE  GoesOn(Sent(Forwarded(p, m, ttl, n)), m, ttl, n)
<1> DEFINE S == Forwarded(p, m, ttl, n)
<1>1. S = IF n < m.required /\ ttl > 0
          THEN {Inquiry(Last(neighbors[p]), m.id, StillRequired(m, n), ttl)} ELSE {}
  BY DEF Forwarded
<1> HIDE DEF S
<1>2. GoesOn(Sent(S), m, ttl, n)
  BY <1>1, InquiryGoesOn
<1> QED
  BY <1>2 DEF S

\* One more advice for it, with k of the n relays found.
LEMMA AnsweredFits ==
  ASSUME Types, NEW i \in Inquiries, NEW required \in 0 .. 255, NEW ttl \in 0 .. MaxTTL,
         NEW n \in Nat, NEW k \in Nat, k <= n, ListsFit => k = n,
         Fits(i, required, ttl + 1),
         answers'[i] = answers[i] + 1, advised'[i] = advised[i] + k
  PROVE  Fits(i, required - n, ttl)' /\ answers'[i] <= MaxTTL
<1>1. /\ answers[i] \in Nat /\ advised[i] \in Nat /\ MaxTTL \in Nat
      /\ Required[i] \in Nat
  <2>1. answers \in [Inquiries -> Nat] /\ advised \in [Inquiries -> Nat]
    BY Zenon DEF Types
  <2>2. MaxTTL \in 1 .. 255 /\ Required \in [Inquiries -> 0 .. 255]
    BY Bounds
  <2>3. Required[i] \in 0 .. 255
    BY <2>2, Zenon
  <2> QED
    BY ONLY <2>1, <2>2, <2>3, i \in Inquiries
<1>2. ListsFit' = ListsFit
  BY Zenon DEF ListsFit
<1>3. /\ required + advised[i] <= Required[i]
      /\ ListsFit => required + advised[i] >= Required[i]
      /\ answers[i] + (ttl + 1) <= MaxTTL
  BY Zenon DEF Fits, Missing
<1>4. (required - n) + advised'[i] <= Required[i]
  BY ONLY <1>1, <1>3, k <= n, advised'[i] = advised[i] + k, required \in 0 .. 255,
          n \in Nat, k \in Nat
<1>5. ListsFit' => (required - n) + advised'[i] >= Required[i]
  BY ONLY <1>1, <1>2, <1>3, ListsFit => k = n, advised'[i] = advised[i] + k,
          required \in 0 .. 255, n \in Nat, k \in Nat
<1>6. answers'[i] + ttl <= MaxTTL /\ answers'[i] <= MaxTTL
  BY ONLY <1>1, <1>3, answers'[i] = answers[i] + 1, ttl \in 0 .. MaxTTL
<1> QED
  BY ONLY <1>4, <1>5, <1>6, Zenon DEF Fits, Missing

\* m.ttl is not 0, so that it does not wrap.
LEMMA OneHop ==
  ASSUME NEW m \in Message
  PROVE  /\ OneHopLess(m) = m.ttl - 1 /\ OneHopLess(m) \in 0 .. MaxTTL
         /\ m.ttl = OneHopLess(m) + 1
         /\ m.id \in Inquiries /\ m.required \in 0 .. 255
<1>1. m.ttl \in 1 .. MaxTTL /\ m.id \in Inquiries /\ m.required \in 0 .. 255
  BY DEF Message
<1>2. m.ttl - 1 \in 0 .. 256 - 1 /\ m.ttl - 1 \in 0 .. MaxTTL /\ m.ttl = (m.ttl - 1) + 1
  BY <1>1, Bounds
<1>3. (m.ttl - 1) % 256 = m.ttl - 1
  <2>1. 256 \in Nat \ {0}
    OBVIOUS
  <2> QED
    BY ONLY <1>2, <2>1, ModSmall, Zenon
<1> QED
  BY <1>1, <1>2, <1>3 DEF OneHopLess

\* No two tasks are for one inquiry, so that no sum is over two of them.
LEMMA OfOneTask ==
  ASSUME Types, OnePlace, NEW p \in Proxies, NEW S \in SUBSET (DOMAIN task_queue[p]),
         NEW amount \in [S -> Nat]
  PROVE  /\ OfTasks(p, amount) \in [Inquiries -> Nat]
         /\ \A i \in Inquiries :
              (\A j \in S : task_queue[p][j].id # i) => OfTasks(p, amount)[i] = 0
         /\ \A j \in S : OfTasks(p, amount)[task_queue[p][j].id] = amount[j]
<1> DEFINE Of(i) == {j \in S : task_queue[p][j].id = i}
<1>1. OfTasks(p, amount) = [i \in Inquiries |-> Total(amount, Of(i))]
  BY DEF OfTasks
<1>2. ASSUME NEW i \in Inquiries, \A j \in S : task_queue[p][j].id # i
      PROVE  Total(amount, Of(i)) = 0
  <2>1. Of(i) = {}
    BY <1>2
  <2> QED
    BY <2>1, TotalOfNone
<1>3. ASSUME NEW j \in S PROVE Total(amount, Of(task_queue[p][j].id)) = amount[j]
  <2>1. \A k \in S : task_queue[p][k].id = task_queue[p][j].id => k = j
    <3>1. \A q, r \in Proxies : \A k \in DOMAIN task_queue[q], l \in DOMAIN task_queue[r] :
            task_queue[q][k].id = task_queue[r][l].id => q = r /\ k = l
      BY Zenon DEF OnePlace
    <3> QED
      BY ONLY <3>1, p \in Proxies, S \in SUBSET (DOMAIN task_queue[p]), j \in S
  <2>2. Of(task_queue[p][j].id) = {j}
    BY <2>1
  <2> HIDE DEF Of
  <2> QED
    BY <2>2, TotalOfOne
<1>4. \A i \in Inquiries : Total(amount, Of(i)) \in Nat
  <2> SUFFICES ASSUME NEW i \in Inquiries PROVE Total(amount, Of(i)) \in Nat
    OBVIOUS
  <2>1. CASE \A j \in S : task_queue[p][j].id # i
    BY <1>2, <2>1
  <2>2. CASE \E j \in S : task_queue[p][j].id = i
    <3>1. PICK j \in S : task_queue[p][j].id = i
      BY <2>2
    <3>2. Total(amount, Of(task_queue[p][j].id)) = amount[j]
      BY <1>3
    <3> HIDE DEF Of
    <3> QED
      BY <3>1, <3>2
  <2> QED
    BY <2>1, <2>2
<1>5. \A j \in S : task_queue[p][j].id \in Inquiries
  BY Queue
<1> HIDE DEF Of
<1> QED
  BY <1>1, <1>2, <1>3, <1>4, <1>5

-----------------------------------------------------------------------------
(* What becomes of packets and tasks *)

\* A step that may only lose packets keeps every inquiry where it is.
LEMMA PlacesSame ==
  ASSUME Types, Types', Places, UNCHANGED <<tosend, advice>>, net' \subseteq net,
         \A p \in Proxies :
           /\ DOMAIN task_queue'[p] = DOMAIN task_queue[p]
           /\ \A j \in DOMAIN task_queue[p] :
                /\ task_queue'[p][j].id = task_queue[p][j].id
                /\ task_queue'[p][j].required = task_queue[p][j].required
                /\ task_queue'[p][j].ttl = task_queue[p][j].ttl
  PROVE  Places'
<1>1. OthersStay({})
  <2>1. tosend' = tosend \ {} /\ \A m \in net' : m.id \notin {} => m \in net
    OBVIOUS
  <2>2. \A i \in Inquiries \ {} : answers'[i] = answers[i] /\ advised'[i] = advised[i]
    BY DEF advice
  <2>3. \A p \in Proxies : \A k \in DOMAIN task_queue'[p] :
          /\ k \in DOMAIN task_queue[p]
          /\ task_queue'[p][k].id = task_queue[p][k].id
          /\ task_queue'[p][k].required = task_queue[p][k].required
          /\ task_queue'[p][k].ttl = task_queue[p][k].ttl
    OBVIOUS
  <2> QED
    BY ONLY <2>1, <2>2, <2>3, Zenon DEF OthersStay
<1>2. DealtFit({})'
  BY DEF DealtFit
<1>3. \A p, q \in Proxies : \A j \in DOMAIN task_queue[p], k \in DOMAIN task_queue[q] :
        task_queue[p][j].id = task_queue[q][k].id => p = q /\ j = k
  BY Zenon DEF Places, OnePlace
<1>4. \A p, q \in Proxies : \A j \in DOMAIN task_queue'[p], k \in DOMAIN task_queue'[q] :
        task_queue'[p][j].id = task_queue'[q][k].id => p = q /\ j = k
  BY <1>3
<1>5. DealtOnce({})'
  BY <1>4 DEF DealtOnce
<1>6. DealsWith({})
  BY <1>1, <1>2, <1>5 DEF DealsWith
<1> QED
  BY <1>6, PlacesKept

\* What an advice for one inquiry is counted for.
LEMMA OneAdvised ==
  ASSUME Types, NEW m, m.id \in Inquiries, NEW relays, Len(relays) \in Nat,
         AdviseOne(m, relays)
  PROVE  /\ answers' \in [Inquiries -> Nat] /\ advised' \in [Inquiries -> Nat]
         /\ answers'[m.id] = answers[m.id] + 1
         /\ advised'[m.id] = advised[m.id] + Len(relays)
         /\ \A i \in Inquiries \ {m.id} : answers'[i] = answers[i] /\ advised'[i] = advised[i]
<1>1. /\ answers' = [i \in Inquiries |-> answers[i] + (IF i = m.id THEN 1 ELSE 0)]
      /\ advised' = [i \in Inquiries |-> advised[i] + (IF i = m.id THEN Len(relays) ELSE 0)]
  BY DEF AdviseOne, Advise
<1>2. answers \in [Inquiries -> Nat] /\ advised \in [Inquiries -> Nat]
  BY Zenon DEF Types
<1> DEFINE l == Len(relays)
<1> HIDE DEF l
<1>3. l \in Nat /\ advised' = [i \in Inquiries |-> advised[i] + (IF i = m.id THEN l ELSE 0)]
  BY <1>1 DEF l
<1>4. /\ answers' \in [Inquiries -> Nat] /\ advised' \in [Inquiries -> Nat]
      /\ answers'[m.id] = answers[m.id] + 1
      /\ advised'[m.id] = advised[m.id] + l
      /\ \A i \in Inquiries \ {m.id} : answers'[i] = answers[i] /\ advised'[i] = advised[i]
  BY ONLY <1>1, <1>2, <1>3, m.id \in Inquiries
<1> QED
  BY <1>4 DEF l

\* A packet is answered with k of the n relays found, and goes on for the rest.
LEMMA PacketAnswered ==
  ASSUME Types, Types', Places, NEW m \in net, NEW n \in Nat, NEW relays,
         Len(relays) \in Nat, Len(relays) <= n, ListsFit => Len(relays) = n,
         AdviseOne(m, relays),
         NEW S, GoesOn(S, m, OneHopLess(m), n), net' = (net \ {m}) \cup S,
         UNCHANGED <<tosend, task_queue>>
  PROVE  Places'
<1>1. m \in Message
  BY DEF Types
<1>2. /\ OneHopLess(m) \in 0 .. MaxTTL /\ m.ttl = OneHopLess(m) + 1
      /\ m.id \in Inquiries /\ m.required \in 0 .. 255
  BY <1>1, OneHop
<1>3. /\ answers'[m.id] = answers[m.id] + 1
      /\ advised'[m.id] = advised[m.id] + Len(relays)
      /\ \A i \in Inquiries \ {m.id} : answers'[i] = answers[i] /\ advised'[i] = advised[i]
  BY <1>2, OneAdvised, Zenon
<1>4. Fits(m.id, m.required, OneHopLess(m) + 1)
  BY <1>2 DEF Places
<1>5. Fits(m.id, m.required - n, OneHopLess(m))' /\ answers'[m.id] <= MaxTTL
  <2> DEFINE ttl == OneHopLess(m)
             l == Len(relays)
  <2> HIDE DEF ttl, l
  <2>1. /\ ttl \in 0 .. MaxTTL /\ Fits(m.id, m.required, ttl + 1)
        /\ l \in Nat /\ l <= n /\ (ListsFit => l = n)
        /\ answers'[m.id] = answers[m.id] + 1 /\ advised'[m.id] = advised[m.id] + l
    BY <1>2, <1>3, <1>4 DEF ttl, l
  <2>2. Fits(m.id, m.required - n, ttl)' /\ answers'[m.id] <= MaxTTL
    BY ONLY <1>2, <2>1, Types, n \in Nat, AnsweredFits
  <2> QED
    BY <2>2 DEF ttl
<1>6. m.id \notin tosend
  BY Zenon DEF Places, OnePlace
<1>7. \A f \in S : /\ f.id = m.id /\ f.required = m.required - n /\ f.ttl = OneHopLess(m)
  BY DEF GoesOn
<1>8. \A o \in net : o.id = m.id => o = m
  BY Zenon DEF Places, OnePlace
<1>9. \A p \in Proxies : \A j \in DOMAIN task_queue[p] : task_queue[p][j].id # m.id
  BY Zenon DEF Places, OnePlace
<1>10. \A f \in net' : f.id = m.id => f \in S
  BY <1>8
<1>11. OthersStay({m.id})
  <2>1. tosend' = tosend \ {m.id}
    BY <1>6
  <2>2. \A f \in net' : f.id \notin {m.id} => f \in net
    BY <1>7
  <2> QED
    BY <1>3, <2>1, <2>2 DEF OthersStay
<1>12. DealtFit({m.id})'
  <2>1. \A f \in net' : f.id = m.id => Fits(f.id, f.required, f.ttl)'
    <3> SUFFICES ASSUME NEW f \in net', f.id = m.id PROVE Fits(f.id, f.required, f.ttl)'
      OBVIOUS
    <3>1. f.id = m.id /\ f.required = m.required - n /\ f.ttl = OneHopLess(m)
      BY <1>7, <1>10
    <3> QED
      BY ONLY <3>1, <1>5 DEF Fits, Missing, ListsFit
  <2> QED
    BY <1>9, <2>1 DEF DealtFit
<1>13. DealtOnce({m.id})'
  <2>1. \A f, g \in net' : f.id \in {m.id} /\ f.id = g.id => f = g
    BY <1>10 DEF GoesOn
  <2>2. \A p, q \in Proxies : \A j \in DOMAIN task_queue[p], k \in DOMAIN task_queue[q] :
          task_queue[p][j].id = task_queue[q][k].id => p = q /\ j = k
    BY Zenon DEF Places, OnePlace
  <2> QED
    BY <1>9, <2>1, <2>2 DEF DealtOnce
<1>14. DealsWith({m.id})
  BY <1>5, <1>11, <1>12, <1>13 DEF DealsWith
<1> QED
  BY <1>2, <1>14, PlacesKept

\* A client sends an inquiry, which no one has answered yet.
LEMMA InquirySent ==
  ASSUME Types, Types', Places, NEW p \in Proxies, NEW i \in Inquiries, ClientAsks(p, i)
  PROVE  Places'
<1> DEFINE m == Inquiry(p, i, Required[i], MaxTTL)
<1>1. m.id = i /\ m.required = Required[i] /\ m.ttl = MaxTTL
  BY DEF Inquiry
<1>2. /\ i \in tosend /\ tosend' = tosend \ {i} /\ net' = net \cup {m}
      /\ UNCHANGED <<answers, advised, task_queue>>
  BY DEF ClientAsks, advice, knowledge
<1> HIDE DEF m
<1>3. /\ answers[i] = 0 /\ advised[i] = 0
      /\ \A o \in net : o.id # i
      /\ \A r \in Proxies : \A j \in DOMAIN task_queue[r] : task_queue[r][j].id # i
  BY <1>2, Zenon DEF Places, OnePlace
<1>4. Fits(i, Required[i], MaxTTL)
  <2>1. MaxTTL \in 1 .. 255 /\ Required \in [Inquiries -> 0 .. 255]
    BY Bounds
  <2>2. Required[i] \in Nat /\ MaxTTL \in Nat
    BY <2>1
  <2> QED
    BY <1>3, <2>2 DEF Fits, Missing
<1>5. answers'[i] <= MaxTTL
  BY <1>2 DEF Places
<1>6. OthersStay({i})
  BY <1>1, <1>2 DEF OthersStay
<1>7. DealtFit({i})'
  <2>1. \A f \in net' : f.id = i => f = m
    BY <1>2, <1>3
  <2>2. Fits(i, Required[i], MaxTTL)'
    BY <1>2, <1>4 DEF Fits, Missing, ListsFit
  <2>3. \A f \in net' : f.id = i => Fits(f.id, f.required, f.ttl)'
    <3> SUFFICES ASSUME NEW f \in net', f.id = i PROVE Fits(f.id, f.required, f.ttl)'
      OBVIOUS
    <3>1. f.id = i /\ f.required = Required[i] /\ f.ttl = MaxTTL
      BY <1>1, <2>1
    <3> QED
      BY ONLY <3>1, <2>2 DEF Fits, Missing, ListsFit
  <2> QED
    BY <1>2, <1>3, <2>3 DEF DealtFit
<1>8. DealtOnce({i})'
  <2>1. \A q, r \in Proxies : \A j \in DOMAIN task_queue[q], k \in DOMAIN task_queue[r] :
          task_queue[q][j].id = task_queue[r][k].id => q = r /\ j = k
    BY Zenon DEF Places, OnePlace
  <2> QED
    BY <1>1, <1>2, <1>3, <2>1 DEF DealtOnce
<1>9. DealsWith({i})
  BY <1>5, <1>6, <1>7, <1>8 DEF DealsWith
<1> QED
  BY <1>9, PlacesKept

\* The network delivers an inquiry twice: the copy fits where the packet did.
LEMMA InquiryDuplicated ==
  ASSUME Types, Types', Places, NEW m \in net, NEW i \in tosend, i \in Inquiries,
         Duplicates(m, i)
  PROVE  Places'
<1> DEFINE copy == [m EXCEPT !.id = i]
<1>0. /\ m \in Message /\ m.id \in Inquiries
      /\ answers \in [Inquiries -> Nat] /\ advised \in [Inquiries -> Nat]
  BY DEF Types, Message
<1>1. copy.id = i /\ copy.required = m.required /\ copy.ttl = m.ttl
  BY <1>0 DEF Message
<1>2. /\ tosend' = tosend \ {i} /\ net' = net \cup {copy} /\ task_queue' = task_queue
      /\ answers'[i] = answers[m.id] /\ advised'[i] = advised[m.id]
      /\ \A k \in Inquiries \ {i} : answers'[k] = answers[k] /\ advised'[k] = advised[k]
      /\ Required[i] = Required[m.id]
  BY <1>0 DEF Duplicates, knowledge
<1> HIDE DEF copy
<1>3. /\ \A o \in net : o.id # i
      /\ \A r \in Proxies : \A j \in DOMAIN task_queue[r] : task_queue[r][j].id # i
  BY Zenon DEF Places, OnePlace
<1>4. Fits(m.id, m.required, m.ttl) /\ answers[m.id] <= MaxTTL
  BY <1>0, Zenon DEF Places
<1>5. \A f \in net' : f.id = i => f = copy
  BY <1>2, <1>3
<1>6. OthersStay({i})
  <2>1. \A f \in net' : f.id \notin {i} => f \in net
    BY <1>1, <1>2
  <2> QED
    BY <1>2, <2>1 DEF OthersStay
<1>7. DealtFit({i})'
  <2>1. ASSUME NEW f \in net', f.id = i
        PROVE  Fits(f.id, f.required, f.ttl)'
    <3>1. f.id = i /\ f.required = m.required /\ f.ttl = m.ttl
      BY <1>1, <1>5, <2>1
    <3> QED
      BY ONLY <1>2, <1>4, <3>1 DEF Fits, Missing, ListsFit
  <2>2. \A r \in Proxies : \A j \in DOMAIN task_queue'[r] : task_queue'[r][j].id # i
    BY <1>2, <1>3
  <2> QED
    BY <2>1, <2>2 DEF DealtFit
<1>8. DealtOnce({i})'
  <2>1. \A q, r \in Proxies : \A j \in DOMAIN task_queue[q], k \in DOMAIN task_queue[r] :
          task_queue[q][j].id = task_queue[r][k].id => q = r /\ j = k
    BY Zenon DEF Places, OnePlace
  <2>2. \A f, g \in net' : f.id \in {i} /\ f.id = g.id => f = g
    BY <1>5
  <2> QED
    BY <1>2, <1>3, <2>1, <2>2 DEF DealtOnce
<1>9. DealsWith({i})
  BY <1>2, <1>4, <1>6, <1>7, <1>8 DEF DealsWith
<1> QED
  BY <1>9, PlacesKept

\* What a task appended to a queue changes.
LEMMA TaskAppended ==
  ASSUME Types, NEW p \in Proxies, NEW task \in Task,
         task_queue' = [task_queue EXCEPT ![p] = Append(@, task)]
  PROVE  /\ task_queue' \in [Proxies -> Seq(Task)]
         /\ \A q \in Proxies : q # p => task_queue'[q] = task_queue[q]
         /\ Len(task_queue[p]) + 1 \in DOMAIN task_queue'[p]
         /\ task_queue'[p][Len(task_queue[p]) + 1] = task
         /\ \A j \in DOMAIN task_queue'[p] :
              \/ /\ j \in DOMAIN task_queue[p] /\ j < Len(task_queue[p]) + 1
                 /\ task_queue'[p][j] = task_queue[p][j]
              \/ j = Len(task_queue[p]) + 1
<1> DEFINE q == task_queue[p]
           new == Append(q, task)
<1>1. q \in Seq(Task) /\ Len(q) \in Nat /\ DOMAIN q = 1 .. Len(q)
  BY Queue
<1>2. task_queue \in [Proxies -> Seq(Task)]
  BY Zenon DEF Types
<1>3. task_queue' = [task_queue EXCEPT ![p] = new]
  OBVIOUS
<1> HIDE DEF q
<1>4. /\ new \in Seq(Task) /\ DOMAIN new = 1 .. Len(q) + 1
      /\ new[Len(q) + 1] = task
      /\ \A j \in 1 .. Len(q) : new[j] = q[j]
  BY ONLY <1>1, task \in Task
<1> HIDE DEF new
<1>5. /\ task_queue' \in [Proxies -> Seq(Task)]
      /\ task_queue'[p] = new
      /\ \A r \in Proxies : r # p => task_queue'[r] = task_queue[r]
  BY ONLY <1>2, <1>3, <1>4, p \in Proxies
<1>6. \A j \in 1 .. Len(q) + 1 : (j \in 1 .. Len(q) /\ j < Len(q) + 1) \/ j = Len(q) + 1
  BY <1>1
<1>7. Len(q) + 1 \in 1 .. Len(q) + 1
  BY <1>1
<1>8. \A j \in DOMAIN new : \/ j \in DOMAIN q /\ j < Len(q) + 1 /\ new[j] = q[j]
                            \/ j = Len(q) + 1
  BY ONLY <1>1, <1>4, <1>6, Zenon
<1> QED
  BY ONLY <1>4, <1>5, <1>7, <1>8, Zenon DEF q

\* A packet becomes a task.
LEMMA PacketKept ==
  ASSUME Types, Types', Places, NEW p \in Proxies, NEW m \in net, m.to = p,
         AskDatabase(p, m, OneHopLess(m)), UNCHANGED tosend
  PROVE  Places'
<1> DEFINE task == [id |-> m.id, required |-> m.required, ttl |-> OneHopLess(m), age |-> 0]
           last == Len(task_queue[p]) + 1
<1>1. m \in Message
  BY DEF Types
<1>2. /\ OneHopLess(m) \in 0 .. MaxTTL /\ m.ttl = OneHopLess(m) + 1
      /\ m.id \in Inquiries /\ m.required \in 0 .. 255
  BY <1>1, OneHop
<1>3. task \in Task /\ task.id = m.id /\ task.required = m.required
      /\ task.ttl = OneHopLess(m)
  BY <1>2 DEF Task
<1>4. /\ task_queue' = [task_queue EXCEPT ![p] = Append(@, task)]
      /\ net' = net \ {m} /\ UNCHANGED <<answers, advised, tosend>>
  BY DEF AskDatabase, advice
<1> HIDE DEF task
<1>5. /\ \A q \in Proxies : q # p => task_queue'[q] = task_queue[q]
      /\ last \in DOMAIN task_queue'[p] /\ task_queue'[p][last] = task
      /\ \A j \in DOMAIN task_queue'[p] :
           \/ j \in DOMAIN task_queue[p] /\ task_queue'[p][j] = task_queue[p][j]
           \/ j = last
  BY <1>3, <1>4, TaskAppended
<1> HIDE DEF last
<1>6. /\ m.id \notin tosend
      /\ \A o \in net : o.id = m.id => o = m
      /\ \A q \in Proxies : \A j \in DOMAIN task_queue[q] : task_queue[q][j].id # m.id
  BY Zenon DEF Places, OnePlace
<1>7. \A q \in Proxies : \A j \in DOMAIN task_queue'[q] :
        \/ q = p /\ j = last /\ task_queue'[q][j] = task
        \/ j \in DOMAIN task_queue[q] /\ task_queue'[q][j] = task_queue[q][j]
           /\ task_queue'[q][j].id # m.id
  <2> SUFFICES ASSUME NEW q \in Proxies, NEW j \in DOMAIN task_queue'[q]
               PROVE  \/ q = p /\ j = last /\ task_queue'[q][j] = task
                      \/ j \in DOMAIN task_queue[q] /\ task_queue'[q][j] = task_queue[q][j]
                         /\ task_queue'[q][j].id # m.id
    OBVIOUS
  <2>1. \/ q = p /\ j = last /\ task_queue'[q][j] = task
        \/ j \in DOMAIN task_queue[q] /\ task_queue'[q][j] = task_queue[q][j]
    BY <1>5
  <2> QED
    BY <1>6, <2>1
<1>8. \A o \in net' : o \in net /\ o.id # m.id
  BY <1>4, <1>6
<1>9. OthersStay({m.id})
  <2>1. tosend' = tosend \ {m.id}
    BY <1>4, <1>6
  <2>2. \A q \in Proxies : \A k \in DOMAIN task_queue'[q] :
          task_queue'[q][k].id \notin {m.id} =>
            k \in DOMAIN task_queue[q] /\ task_queue'[q][k] = task_queue[q][k]
    BY <1>3, <1>7
  <2> QED
    BY <1>4, <1>8, <2>1, <2>2 DEF OthersStay
<1>10. Fits(m.id, m.required, OneHopLess(m) + 1)'
  <2>1. Fits(m.id, m.required, OneHopLess(m) + 1)
    BY <1>2 DEF Places
  <2> QED
    BY <1>4, <2>1 DEF Fits, Missing, ListsFit
<1>11. DealtFit({m.id})'
  <2> SUFFICES ASSUME NEW q \in Proxies, NEW j \in DOMAIN task_queue'[q],
                      task_queue'[q][j].id = m.id
               PROVE  Fits(task_queue[q][j].id, task_queue[q][j].required,
                           task_queue[q][j].ttl + 1)'
    BY <1>8 DEF DealtFit
  <2>1. task_queue'[q][j] = task
    BY <1>7
  <2>2. /\ task_queue'[q][j].id = m.id /\ task_queue'[q][j].required = m.required
        /\ task_queue'[q][j].ttl = OneHopLess(m)
    BY <1>3, <2>1
  <2> QED
    BY ONLY <1>10, <2>2 DEF Fits, Missing, ListsFit
<1>12. DealtOnce({m.id})'
  <2>1. \A q, r \in Proxies : \A j \in DOMAIN task_queue[q], k \in DOMAIN task_queue[r] :
          task_queue[q][j].id = task_queue[r][k].id => q = r /\ j = k
    BY Zenon DEF Places, OnePlace
  <2>2. ASSUME NEW q \in Proxies, NEW r \in Proxies, NEW j \in DOMAIN task_queue'[q],
               NEW k \in DOMAIN task_queue'[r],
               task_queue'[q][j].id = task_queue'[r][k].id
        PROVE  q = r /\ j = k
    <3>1. /\ \/ q = p /\ j = last /\ task_queue'[q][j] = task
             \/ j \in DOMAIN task_queue[q] /\ task_queue'[q][j] = task_queue[q][j]
                /\ task_queue'[q][j].id # m.id
          /\ \/ r = p /\ k = last /\ task_queue'[r][k] = task
             \/ k \in DOMAIN task_queue[r] /\ task_queue'[r][k] = task_queue[r][k]
                /\ task_queue'[r][k].id # m.id
      BY <1>7
    <3>2. \/ q = p /\ j = last /\ r = p /\ k = last
          \/ /\ j \in DOMAIN task_queue[q] /\ k \in DOMAIN task_queue[r]
             /\ task_queue[q][j].id = task_queue[r][k].id
      BY ONLY <1>3, <2>2, <3>1
    <3> QED
      BY <2>1, <3>2
  <2> QED
    BY <1>8, <2>2, Zenon DEF DealtOnce
<1>13. answers'[m.id] <= MaxTTL
  BY <1>2, <1>4 DEF Places
<1>14. DealsWith({m.id})
  BY <1>9, <1>11, <1>12, <1>13 DEF DealsWith
<1> QED
  BY <1>2, <1>14, PlacesKept

\* What is counted for tasks that end: count advices with so many relays.
LEMMA TasksAdvised ==
  ASSUME Types, OnePlace, NEW p \in Proxies, NEW S \in SUBSET (DOMAIN task_queue[p]),
         NEW count \in [S -> 0 .. 1], NEW relays \in [S -> Nat],
         Advise(OfTasks(p, count), OfTasks(p, relays))
  PROVE  /\ answers' \in [Inquiries -> Nat] /\ advised' \in [Inquiries -> Nat]
         /\ \A i \in Inquiries : (\A j \in S : task_queue[p][j].id # i) =>
              answers'[i] = answers[i] /\ advised'[i] = advised[i]
         /\ \A j \in S :
              /\ answers'[task_queue[p][j].id] = answers[task_queue[p][j].id] + count[j]
              /\ advised'[task_queue[p][j].id] = advised[task_queue[p][j].id] + relays[j]
<1> DEFINE A == OfTasks(p, count)
           R == OfTasks(p, relays)
<1>1. /\ A \in [Inquiries -> Nat]
      /\ \A i \in Inquiries : (\A j \in S : task_queue[p][j].id # i) => A[i] = 0
      /\ \A j \in S : A[task_queue[p][j].id] = count[j]
  <2>1. count \in [S -> Nat]
    OBVIOUS
  <2>2. /\ OfTasks(p, count) \in [Inquiries -> Nat]
        /\ \A i \in Inquiries :
             (\A j \in S : task_queue[p][j].id # i) => OfTasks(p, count)[i] = 0
        /\ \A j \in S : OfTasks(p, count)[task_queue[p][j].id] = count[j]
    BY <2>1, OfOneTask
  <2> QED
    BY ONLY <2>2 DEF A
<1>2. /\ R \in [Inquiries -> Nat]
      /\ \A i \in Inquiries : (\A j \in S : task_queue[p][j].id # i) => R[i] = 0
      /\ \A j \in S : R[task_queue[p][j].id] = relays[j]
  <2>1. relays \in [S -> Nat]
    OBVIOUS
  <2>2. /\ OfTasks(p, relays) \in [Inquiries -> Nat]
        /\ \A i \in Inquiries :
             (\A j \in S : task_queue[p][j].id # i) => OfTasks(p, relays)[i] = 0
        /\ \A j \in S : OfTasks(p, relays)[task_queue[p][j].id] = relays[j]
    BY <2>1, OfOneTask
  <2> QED
    BY ONLY <2>2 DEF R
<1>3. /\ answers' = [i \in Inquiries |-> answers[i] + A[i]]
      /\ advised' = [i \in Inquiries |-> advised[i] + R[i]]
  BY DEF Advise
<1> HIDE DEF A, R
<1>4. answers \in [Inquiries -> Nat] /\ advised \in [Inquiries -> Nat]
  BY Zenon DEF Types
<1>5. \A j \in S : task_queue[p][j].id \in Inquiries
  BY Queue
<1>6. answers' \in [Inquiries -> Nat] /\ advised' \in [Inquiries -> Nat]
  BY ONLY <1>1, <1>2, <1>3, <1>4
<1>7. ASSUME NEW i \in Inquiries, \A j \in S : task_queue[p][j].id # i
      PROVE  answers'[i] = answers[i] /\ advised'[i] = advised[i]
  <2>1. A[i] = 0 /\ R[i] = 0
    BY <1>1, <1>2, <1>7, Zenon
  <2> QED
    BY ONLY <1>3, <1>4, <2>1, i \in Inquiries
<1>8. ASSUME NEW j \in S
      PROVE  /\ answers'[task_queue[p][j].id] = answers[task_queue[p][j].id] + count[j]
             /\ advised'[task_queue[p][j].id] = advised[task_queue[p][j].id] + relays[j]
  BY ONLY <1>1, <1>2, <1>3, <1>5, j \in S
<1> QED
  BY <1>6, <1>7, <1>8, Zenon

\* Tasks end, and those that were answered may go on as packets.
LEMMA TasksEnd ==
  ASSUME Types, Types', Places, NEW p \in Proxies, NEW S \in SUBSET (DOMAIN task_queue[p]),
         NEW count \in [S -> 0 .. 1], NEW relays \in [S -> Nat],
         Advise(OfTasks(p, count), OfTasks(p, relays)),
         task_queue' = [task_queue EXCEPT ![p] = TasksWithout(p, S)],
         NEW T, net' = net \cup T,
         \A f \in T : \E j \in S :
           /\ f.id = task_queue[p][j].id /\ count[j] = 1
           /\ f.required = task_queue[p][j].required - relays[j]
           /\ f.ttl = task_queue[p][j].ttl,
         \A f, g \in T : f.id = g.id => f = g,
         UNCHANGED tosend
  PROVE  Places'
<1>0. PICK dealt : dealt = {task_queue[p][j].id : j \in S}
  OBVIOUS
<1>1. dealt \in SUBSET Inquiries
  BY <1>0, Queue
<1>2. \A j \in S : task_queue[p][j].id \in dealt
  BY <1>0
<1>3. \A i \in dealt : \E j \in S : i = task_queue[p][j].id
  BY <1>0
<1>4. OnePlace
  BY DEF Places
<1>5. /\ \A i \in Inquiries : (\A j \in S : task_queue[p][j].id # i) =>
              answers'[i] = answers[i] /\ advised'[i] = advised[i]
      /\ \A j \in S :
              /\ answers'[task_queue[p][j].id] = answers[task_queue[p][j].id] + count[j]
              /\ advised'[task_queue[p][j].id] = advised[task_queue[p][j].id] + relays[j]
  BY ONLY Types, <1>4, p \in Proxies, S \in SUBSET (DOMAIN task_queue[p]),
          count \in [S -> 0 .. 1], relays \in [S -> Nat],
          Advise(OfTasks(p, count), OfTasks(p, relays)), TasksAdvised
<1>6. PICK from :
        \A q \in Proxies :
          /\ \A k \in DOMAIN task_queue'[q] :
               /\ from[q][k] \in DOMAIN task_queue[q]
               /\ task_queue'[q][k] = task_queue[q][from[q][k]]
               /\ q = p => from[q][k] \notin S
          /\ \A k, l \in DOMAIN task_queue'[q] : from[q][k] = from[q][l] => k = l
  <2>1. Left(S, p) /\ \A q \in Proxies : q # p => task_queue'[q] = task_queue[q]
    BY TasksLeft
  <2>2. PICK at \in [DOMAIN task_queue'[p] -> DOMAIN task_queue[p] \ S] :
          /\ \A k \in DOMAIN task_queue'[p] : task_queue'[p][k] = task_queue[p][at[k]]
          /\ \A k, l \in DOMAIN task_queue'[p] : at[k] = at[l] => k = l
    BY <2>1, Zenon DEF Left
  <2> DEFINE from == [q \in Proxies |-> IF q = p THEN at ELSE [k \in DOMAIN task_queue[q] |-> k]]
  <2>3. ASSUME NEW q \in Proxies
        PROVE  /\ \A k \in DOMAIN task_queue'[q] :
                    /\ from[q][k] \in DOMAIN task_queue[q]
                    /\ task_queue'[q][k] = task_queue[q][from[q][k]]
                    /\ q = p => from[q][k] \notin S
               /\ \A k, l \in DOMAIN task_queue'[q] : from[q][k] = from[q][l] => k = l
    <3>1. CASE q = p
      <4>1. from[q] = at
        BY <3>1
      <4> HIDE DEF from
      <4> QED
        BY <2>2, <3>1, <4>1
    <3>2. CASE q # p
      <4>1. \A k \in DOMAIN task_queue[q] : from[q][k] = k
        BY <3>2
      <4>2. task_queue'[q] = task_queue[q]
        BY <2>1, <3>2
      <4> HIDE DEF from
      <4> QED
        BY <3>2, <4>1, <4>2
    <3> QED
      BY <3>1, <3>2
  <2> HIDE DEF from
  <2> QED
    BY <2>3
<1>7. \A q, r \in Proxies : \A j \in DOMAIN task_queue[q], k \in DOMAIN task_queue[r] :
        task_queue[q][j].id = task_queue[r][k].id => q = r /\ j = k
  BY <1>4, Zenon DEF OnePlace
<1>8. \A q \in Proxies : \A k \in DOMAIN task_queue'[q] : task_queue'[q][k].id \notin dealt
  <2> SUFFICES ASSUME NEW q \in Proxies, NEW k \in DOMAIN task_queue'[q],
                      task_queue'[q][k].id \in dealt
               PROVE  FALSE
    OBVIOUS
  <2>1. /\ from[q][k] \in DOMAIN task_queue[q]
        /\ task_queue'[q][k] = task_queue[q][from[q][k]]
        /\ q = p => from[q][k] \notin S
    BY <1>6
  <2>2. PICK j \in S : task_queue'[q][k].id = task_queue[p][j].id
    BY <1>3
  <2>3. q = p /\ from[q][k] = j
    BY <1>7, <2>1, <2>2
  <2> QED
    BY <2>1, <2>3
<1>9. \A m \in net : m.id \notin dealt
  <2>1. \A m \in net, q \in Proxies : \A j \in DOMAIN task_queue[q] : task_queue[q][j].id # m.id
    BY <1>4, Zenon DEF OnePlace
  <2> QED
    BY <1>3, <2>1
<1>10. \A f \in T : f.id \in dealt
  BY <1>2
<1>11. OthersStay(dealt)
  <2>1. tosend' = tosend \ dealt
    <3>1. \A i \in tosend : i \notin dealt
      <4>1. \A i \in tosend, q \in Proxies : \A j \in DOMAIN task_queue[q] :
              task_queue[q][j].id # i
        BY <1>4, Zenon DEF OnePlace
      <4> QED
        BY <1>3, <4>1
    <3> QED
      BY <3>1
  <2>2. \A i \in Inquiries \ dealt : answers'[i] = answers[i] /\ advised'[i] = advised[i]
    <3> SUFFICES ASSUME NEW i \in Inquiries \ dealt
                 PROVE  answers'[i] = answers[i] /\ advised'[i] = advised[i]
      OBVIOUS
    <3>1. \A j \in S : task_queue[p][j].id # i
      BY <1>2
    <3> QED
      BY <1>5, <3>1
  <2>3. \A m \in net' : m.id \notin dealt => m \in net
    BY <1>10
  <2>4. \A q \in Proxies : \A k \in DOMAIN task_queue'[q] : \E j \in DOMAIN task_queue[q] :
           /\ task_queue'[q][k].id = task_queue[q][j].id
           /\ task_queue'[q][k].required = task_queue[q][j].required
           /\ task_queue'[q][k].ttl = task_queue[q][j].ttl
    BY <1>6
  <2> QED
    BY ONLY <2>1, <2>2, <2>3, <2>4, Zenon DEF OthersStay
<1>12. ASSUME NEW j \in S, NEW i, NEW required, NEW ttl, i = task_queue[p][j].id,
              required = task_queue[p][j].required, ttl = task_queue[p][j].ttl
       PROVE  /\ answers'[i] <= MaxTTL
              /\ count[j] = 1 => Fits(i, required - relays[j], ttl)'
  <2>1. i \in Inquiries /\ required \in 0 .. 255 /\ ttl \in 0 .. MaxTTL
    BY <1>12, Queue
  <2>2. Fits(i, required, ttl + 1)
    BY <1>12, Zenon DEF Places
  <2>3. answers'[i] = answers[i] + count[j] /\ advised'[i] = advised[i] + relays[j]
    BY <1>5, <1>12
  <2>4. CASE count[j] = 1
    <3> DEFINE n == relays[j]
    <3>1. n \in Nat /\ n <= n /\ (ListsFit => n = n)
      OBVIOUS
    <3>2. answers'[i] = answers[i] + 1 /\ advised'[i] = advised[i] + n
      BY <2>3, <2>4
    <3> HIDE DEF n
    <3>3. Fits(i, required - n, ttl)' /\ answers'[i] <= MaxTTL
      BY ONLY Types, <2>1, <2>2, <3>1, <3>2, AnsweredFits
    <3> QED
      BY <3>3 DEF n
  <2>5. CASE count[j] # 1
    <3>1. count[j] = 0
      BY <2>5
    <3>2. answers[i] \in Nat
      BY <2>1 DEF Types
    <3>3. answers[i] <= MaxTTL
      BY <2>1 DEF Places
    <3>4. answers'[i] <= MaxTTL
      BY ONLY <2>3, <3>1, <3>2, <3>3
    <3> QED
      BY <2>5, <3>4
  <2> QED
    BY <2>4, <2>5
<1>13. DealtFit(dealt)'
  <2> SUFFICES ASSUME NEW f \in net', f.id \in dealt PROVE Fits(f.id, f.required, f.ttl)'
    BY <1>8 DEF DealtFit
  <2>1. f \in T
    BY <1>9
  <2>2. PICK j \in S :
           /\ f.id = task_queue[p][j].id /\ count[j] = 1
           /\ f.required = task_queue[p][j].required - relays[j]
           /\ f.ttl = task_queue[p][j].ttl
    BY <2>1
  <2>3. PICK i, required, ttl :
          i = task_queue[p][j].id /\ required = task_queue[p][j].required
          /\ ttl = task_queue[p][j].ttl
    OBVIOUS
  <2>4. Fits(i, required - relays[j], ttl)'
    BY <1>12, <2>2, <2>3
  <2>5. f.id = i /\ f.required = required - relays[j] /\ f.ttl = ttl
    BY ONLY <2>2, <2>3
  <2> QED
    BY ONLY <2>4, <2>5 DEF Fits, Missing, ListsFit
<1>14. DealtOnce(dealt)'
  <2>1. \A f, g \in net' : f.id \in dealt /\ f.id = g.id => f = g
    BY <1>9
  <2>2. \A m \in net', q \in Proxies : \A k \in DOMAIN task_queue'[q] :
          m.id \in dealt => task_queue'[q][k].id # m.id
    BY <1>8
  <2>3. ASSUME NEW q \in Proxies, NEW r \in Proxies, NEW j \in DOMAIN task_queue'[q],
               NEW k \in DOMAIN task_queue'[r],
               task_queue'[q][j].id = task_queue'[r][k].id
        PROVE  q = r /\ j = k
    <3>1. /\ from[q][j] \in DOMAIN task_queue[q] /\ task_queue'[q][j] = task_queue[q][from[q][j]]
          /\ from[r][k] \in DOMAIN task_queue[r] /\ task_queue'[r][k] = task_queue[r][from[r][k]]
      BY <1>6
    <3>2. q = r /\ from[q][j] = from[r][k]
      BY <1>7, <2>3, <3>1
    <3> QED
      BY <1>6, <3>2
  <2> QED
    BY <2>1, <2>2, <2>3 DEF DealtOnce
<1>15. \A i \in dealt : answers'[i] <= MaxTTL
  BY <1>3, <1>12
<1>16. DealsWith(dealt)
  BY <1>11, <1>13, <1>14, <1>15 DEF DealsWith
<1> QED
  BY <1>1, <1>16, PlacesKept

-----------------------------------------------------------------------------
(* The cache, the queue and the clock *)

Knowing == NoTaskForKnown /\ OldestFirst /\ SimpleKnowsNothing

\* A step that touches neither cache nor queue keeps what the cache is to them.
LEMMA KnowledgeStays ==
  ASSUME Knowing, UNCHANGED <<asn_cache, task_queue>> PROVE Knowing'
  BY DEF Knowing, NoTaskForKnown, OldestFirst, SimpleKnowsNothing, Known, Answered

\* A step that touches no age and no deadline, and sends no proxy to select,
\* keeps the ages in time.
LEMMA TimeStays ==
  ASSUME InTime, UNCHANGED <<asn_cache, task_queue, due, wake>>,
         \A p \in Proxies : pc'[p] = "select" => pc[p] = "select"
  PROVE  InTime'
  BY DEF InTime

\* Dispatching a packet sends no proxy to select and touches no deadline.
LEMMA Dispatched ==
  ASSUME Types, NEW p \in Proxies, Dispatches(p)
  PROVE  /\ pc' \in [Proxies -> {"run", "select"}]
         /\ \A q \in Proxies : pc'[q] = "select" => pc[q] = "select"
         /\ UNCHANGED <<neighbors, tosend, due, wake>>
<1>1. pc \in [Proxies -> {"run", "select"}] /\ pc' = [pc EXCEPT ![p] = "run"]
  BY Zenon DEF Types, Dispatches
<1>2. UNCHANGED <<neighbors, tosend, due, wake>>
  BY DEF Dispatches
<1> QED
  BY <1>1, <1>2

\* The deadline of the next event lies between one that is late and one just set.
LEMMA DueBounds ==
  ASSUME Types, NEW p \in Proxies
  PROVE  due[p] \in Int /\ - MaxLate - 1 <= due[p] /\ due[p] <= UpdateInterval
<1>1. MaxLate \in Nat /\ UpdateInterval \in Nat
  BY Bounds
<1>2. due[p] \in - MaxLate - 1 .. UpdateInterval
  BY DEF Types
<1> QED
  BY ONLY <1>1, <1>2

\* An entry of the cache: its age, and if it is there its relays.
LEMMA CacheEntry ==
  ASSUME Types, NEW p \in Proxies, NEW key \in AsnPairs
  PROVE  /\ asn_cache[p][key] \in Entry
         /\ asn_cache[p][key].age \in Int
         /\ Known(p, key) => /\ asn_cache[p][key] \in [asn_set : Knowledge, age : Nat]
                             /\ asn_cache[p][key].age \in Nat
                             /\ asn_cache[p][key].asn_set \in Knowledge
<1> DEFINE e == asn_cache[p][key]
<1>1. e \in Entry
  <2>1. asn_cache \in [Proxies -> [AsnPairs -> Entry]]
    BY Zenon DEF Types
  <2> QED
    BY <2>1
<1>2. Known(p, key) <=> e # NoEntry
  BY DEF Known
<1> HIDE DEF e
<1>3. e = NoEntry \/ e \in [asn_set : Knowledge, age : Nat]
  BY <1>1 DEF Entry
<1>4. NoEntry.age = -1
  BY DEF NoEntry
<1>5. e.age \in Int /\ (e # NoEntry => e.age \in Nat /\ e.asn_set \in Knowledge)
  BY ONLY <1>3, <1>4
<1> QED
  BY ONLY <1>1, <1>2, <1>3, <1>5, Zenon DEF e

\* Tasks that leave a queue leave the others as they were.
LEMMA QueueShrinks ==
  ASSUME Types, OldestFirst, NEW p \in Proxies, NEW gone \in SUBSET (DOMAIN task_queue[p]),
         task_queue' = [task_queue EXCEPT ![p] = TasksWithout(p, gone)]
  PROVE  /\ task_queue' \in [Proxies -> Seq(Task)]
         /\ OldestFirst'
         /\ \A q \in Proxies : q # p => task_queue'[q] = task_queue[q]
         /\ \A q \in Proxies : \A k \in DOMAIN task_queue'[q] :
              \E j \in DOMAIN task_queue[q] :
                task_queue'[q][k] = task_queue[q][j] /\ (q = p => j \notin gone)
<1>1. /\ task_queue' \in [Proxies -> Seq(Task)] /\ Left(gone, p)
      /\ \A q \in Proxies : q # p => task_queue'[q] = task_queue[q]
  BY TasksLeft
<1>2. PICK at \in [DOMAIN task_queue'[p] -> DOMAIN task_queue[p] \ gone] :
        /\ \A k \in DOMAIN task_queue'[p] : task_queue'[p][k] = task_queue[p][at[k]]
        /\ \A k, l \in DOMAIN task_queue'[p] : k < l => at[k] < at[l]
  BY <1>1, Zenon DEF Left
<1>3. \A k \in DOMAIN task_queue'[p] : at[k] \in DOMAIN task_queue[p] /\ at[k] \notin gone
  BY <1>2
<1>4. ASSUME NEW q \in Proxies, NEW k \in DOMAIN task_queue'[q]
      PROVE  \E j \in DOMAIN task_queue[q] :
               task_queue'[q][k] = task_queue[q][j] /\ (q = p => j \notin gone)
  <2>1. CASE q = p
    BY <1>2, <1>3, <2>1
  <2>2. CASE q # p
    BY <1>1, <2>2
  <2> QED
    BY <2>1, <2>2
<1>5. ASSUME NEW q \in Proxies, NEW j \in DOMAIN task_queue'[q],
             NEW k \in DOMAIN task_queue'[q], j < k
      PROVE  task_queue'[q][j].age >= task_queue'[q][k].age
  <2>0. \A r \in Proxies : \A l, n \in DOMAIN task_queue[r] :
          l < n => task_queue[r][l].age >= task_queue[r][n].age
    BY Zenon DEF OldestFirst
  <2>1. CASE q = p
    <3>1. /\ task_queue'[p][j] = task_queue[p][at[j]]
          /\ task_queue'[p][k] = task_queue[p][at[k]]
          /\ at[j] < at[k]
      BY <1>2, <1>5, <2>1
    <3>2. at[j] \in DOMAIN task_queue[p] /\ at[k] \in DOMAIN task_queue[p]
      BY <1>3, <2>1
    <3>3. task_queue[p][at[j]].age >= task_queue[p][at[k]].age
      BY <2>0, <3>1, <3>2
    <3> QED
      BY ONLY <2>1, <3>1, <3>3
  <2>2. CASE q # p
    <3>1. task_queue'[q] = task_queue[q]
      BY <1>1, <2>2
    <3> QED
      BY <1>5, <2>0, <3>1
  <2> QED
    BY <2>1, <2>2
<1>6. OldestFirst'
  BY <1>5 DEF OldestFirst
<1> QED
  BY <1>1, <1>4, <1>6

-----------------------------------------------------------------------------
(* Inquiries that arrive *)

\* Where what is known does not change, and no loop but that of the packet.
LEMMA InquiryStep ==
  ASSUME Types, Places, Knowing, InTime, NEW p \in Proxies, Dispatches(p),
         Types' /\ Places', UNCHANGED knowledge
  PROVE  Types' /\ Places' /\ Knowing' /\ InTime'
<1>1. UNCHANGED <<asn_cache, task_queue>>
  BY DEF knowledge
<1>2. /\ \A q \in Proxies : pc'[q] = "select" => pc[q] = "select"
      /\ UNCHANGED <<due, wake>>
  BY Dispatched
<1> QED
  BY <1>1, <1>2, KnowledgeStays, TimeStays

\* What is left to be shown of the types when a packet is answered.
LEMMA AnswerTypes ==
  ASSUME Types, NEW p \in Proxies, Dispatches(p), UNCHANGED knowledge,
         net' \subseteq Message,
         answers' \in [Inquiries -> Nat], advised' \in [Inquiries -> Nat]
  PROVE  Types'
<1>1. pc' \in [Proxies -> {"run", "select"}] /\ UNCHANGED <<neighbors, tosend, due, wake>>
  BY Dispatched
<1> QED
  BY <1>1 DEF Types, knowledge

\* An inquiry is read and dropped.
LEMMA InquiryDropped ==
  ASSUME Types, Places, Knowing, InTime, NEW p \in Proxies, Dispatches(p),
         NEW m \in net, net' = net \ {m}, UNCHANGED <<knowledge, advice>>
  PROVE  Types' /\ Places' /\ Knowing' /\ InTime'
<1>1. UNCHANGED <<tosend, answers, advised, task_queue, knowledge>> /\ net' \subseteq net
  BY Dispatched DEF knowledge, advice
<1>2. Types'
  <2>1. net \subseteq Message /\ answers \in [Inquiries -> Nat] /\ advised \in [Inquiries -> Nat]
    BY Zenon DEF Types
  <2> QED
    BY <1>1, <2>1, AnswerTypes
<1>3. Places'
  <2>1. UNCHANGED <<tosend, advice>>
    BY <1>1 DEF advice
  <2> QED
    BY <1>1, <1>2, <2>1, PlacesSame
<1> QED
  BY <1>1, <1>2, <1>3, InquiryStep

\* Either advisor answers with some of the n relays it has, with all of them
\* if an advice has room for them.
LEMMA InquiryAnswered ==
  ASSUME Types, Places, Knowing, InTime, NEW p \in Proxies, Dispatches(p),
         NEW m \in net, NEW n \in Nat, NEW relays,
         Len(relays) \in Nat, Len(relays) <= n, ListsFit => Len(relays) = n,
         AdviseOne(m, relays),
         NEW S, GoesOn(S, m, OneHopLess(m), n), net' = (net \ {m}) \cup S,
         UNCHANGED knowledge
  PROVE  Types' /\ Places' /\ Knowing' /\ InTime'
<1>1. m.id \in Inquiries
  BY DEF Types, Message
<1>2. answers' \in [Inquiries -> Nat] /\ advised' \in [Inquiries -> Nat]
  BY <1>1, OneAdvised
<1>3. net' \subseteq Message
  BY DEF Types, GoesOn
<1>4. Types'
  BY <1>2, <1>3, AnswerTypes
<1>5. UNCHANGED <<tosend, task_queue>>
  BY Dispatched DEF knowledge
<1>6. Places'
  BY <1>4, <1>5, PacketAnswered
<1> QED
  BY <1>4, <1>6, InquiryStep

\* SimpleRldvr answers an inquiry.
LEMMA SimpleAnswers ==
  ASSUME Types, Places, Knowing, InTime, NEW p \in Proxies, Dispatches(p),
         Advisor[p] # "AdvanceRldvr",
         NEW m \in net, m.to = p, SimpleInquiry(p, m), UNCHANGED knowledge
  PROVE  Types' /\ Places' /\ Knowing' /\ InTime'
<1>1. CASE neighbors[p] = <<>> \/ ~ SimpleInquiryParses(InquiryLen)
  <2>1. net' = net \ {m} /\ UNCHANGED advice
    BY <1>1 DEF SimpleInquiry
  <2> QED
    BY <2>1, InquiryDropped
<1>2. CASE ~ (neighbors[p] = <<>> \/ ~ SimpleInquiryParses(InquiryLen))
  <2> DEFINE n == Len(neighbors[p])
             S == SimpleForwarded(p, m, OneHopLess(m))
             relays == SimpleAdvice(p)
  <2>1. net' = (net \ {m}) \cup Sent(S) /\ AdviseOne(m, relays)
    BY <1>2 DEF SimpleInquiry
  <2>2. n \in Nat /\ Reverse(neighbors[p]) \in Seq(DOMAIN Asn) /\ Len(Reverse(neighbors[p])) = n
    BY Nodes
  <2>3. MaxRlNum \in Nat
    BY Bounds
  <2>4. Len(relays) \in Nat /\ Len(relays) = IF n < MaxRlNum THEN n ELSE MaxRlNum
    BY <2>2, <2>3, UpToEntries DEF SimpleAdvice
  <2>5. m \in Message /\ m.id \in Inquiries /\ m.required \in 0 .. 255
        /\ OneHopLess(m) \in 0 .. MaxTTL
    BY OneHop DEF Types
  <2>6. GoesOn(Sent(S), m, OneHopLess(m), n)
    <3>1. S = IF n < m.required /\ OneHopLess(m) > 0
              THEN {Inquiry(Head(neighbors[p]), m.id, StillRequired(m, n), OneHopLess(m))}
              ELSE {}
      BY DEF SimpleForwarded
    <3> HIDE DEF S, n
    <3> QED
      BY <2>2, <2>5, <3>1, InquiryGoesOn
  <2>7. ListsFit => n <= MaxRlNum
    <3>1. neighbors[p] \in NeighborLists[p]
      BY DEF Types
    <3> QED
      BY <3>1 DEF ListsFit
  <2> HIDE DEF n, S, relays
  <2>8. Len(relays) <= n /\ (ListsFit => Len(relays) = n)
    BY ONLY <2>2, <2>3, <2>4, <2>7
  <2>9. PICK T : T = Sent(S)
    OBVIOUS
  <2>10. PICK list : list = relays
    OBVIOUS
  <2>11. PICK k : k = n
    OBVIOUS
  <2>12. /\ k \in Nat /\ Len(list) \in Nat /\ Len(list) <= k /\ (ListsFit => Len(list) = k)
         /\ AdviseOne(m, list) /\ GoesOn(T, m, OneHopLess(m), k)
         /\ net' = (net \ {m}) \cup T
    BY <2>1, <2>2, <2>4, <2>6, <2>8, <2>9, <2>10, <2>11
  <2> QED
    BY <2>12, InquiryAnswered
<1> QED
  BY <1>1, <1>2

\* AdvanceRldvr answers from its cache.
LEMMA CacheAnswers ==
  ASSUME Types, Places, Knowing, InTime, NEW p \in Proxies, Dispatches(p),
         Advisor[p] = "AdvanceRldvr",
         NEW m \in net, m.to = p, AnswerFromCache(p, m, OneHopLess(m))
  PROVE  Types' /\ Places' /\ Knowing' /\ InTime'
<1> DEFINE found == Matching(p, asn_cache[p][AsnPair[m.id]].asn_set, m.required)
           n == Len(found)
           S == Forwarded(p, m, OneHopLess(m), n)
           relays == UpTo(found, MaxAdvicedRelays)
<1>1. net' = (net \ {m}) \cup Sent(S) /\ AdviseOne(m, relays) /\ UNCHANGED knowledge
  BY DEF AnswerFromCache
<1>2. m \in Message /\ m.id \in Inquiries /\ m.required \in 0 .. 255
      /\ OneHopLess(m) \in 0 .. MaxTTL
  BY OneHop DEF Types
<1>3. MaxAdvicedRelays \in Nat
  BY Bounds
<1>4. Len(neighbors[p]) \in Nat
  BY Nodes
<1>5. found \in Seq(DOMAIN Asn) /\ n \in Nat /\ n <= Len(neighbors[p])
  <2>1. m.required \in Nat
    BY <1>2
  <2> QED
    BY ONLY <2>1, Types, p \in Proxies, MatchingList
<1> HIDE DEF found
<1>6. Len(relays) \in Nat /\ Len(relays) = IF n < MaxAdvicedRelays THEN n ELSE MaxAdvicedRelays
  BY <1>3, <1>5, UpToEntries
<1>7. GoesOn(Sent(S), m, OneHopLess(m), n)
  <2> HIDE DEF n
  <2> QED
    BY <1>2, <1>5, TaskGoesOn
<1>8. ListsFit => Len(neighbors[p]) <= MaxAdvicedRelays
  <2>1. neighbors[p] \in NeighborLists[p]
    BY DEF Types
  <2> QED
    BY <2>1 DEF ListsFit
<1> HIDE DEF n, S, relays
<1>9. Len(relays) <= n /\ (ListsFit => Len(relays) = n)
  BY ONLY <1>3, <1>4, <1>5, <1>6, <1>8
<1>10. PICK T, list, k : T = Sent(S) /\ list = relays /\ k = n
  OBVIOUS
<1>11. /\ k \in Nat /\ Len(list) \in Nat /\ Len(list) <= k /\ (ListsFit => Len(list) = k)
       /\ AdviseOne(m, list) /\ GoesOn(T, m, OneHopLess(m), k)
       /\ net' = (net \ {m}) \cup T
  BY <1>1, <1>5, <1>6, <1>7, <1>9, <1>10
<1> QED
  BY <1>1, <1>11, InquiryAnswered

\* AdvanceRldvr asks the database and keeps the inquiry as a task.
LEMMA TaskKept ==
  ASSUME Types, Places, Knowing, InTime, NEW p \in Proxies, Dispatches(p),
         Advisor[p] = "AdvanceRldvr",
         NEW m \in net, m.to = p, ~ Known(p, AsnPair[m.id]),
         AskDatabase(p, m, OneHopLess(m))
  PROVE  Types' /\ Places' /\ Knowing' /\ InTime'
<1> DEFINE task == [id |-> m.id, required |-> m.required, ttl |-> OneHopLess(m), age |-> 0]
           last == Len(task_queue[p]) + 1
<1>1. m \in Message /\ m.id \in Inquiries /\ m.required \in 0 .. 255
      /\ OneHopLess(m) \in 0 .. MaxTTL
  BY OneHop DEF Types
<1>2. task \in Task /\ task.id = m.id /\ task.age = 0
  BY <1>1 DEF Task
<1>3. /\ task_queue' = [task_queue EXCEPT ![p] = Append(@, task)]
      /\ net' = net \ {m} /\ UNCHANGED <<asn_cache, answers, advised>>
  BY DEF AskDatabase, advice
<1>4. /\ pc' \in [Proxies -> {"run", "select"}]
      /\ \A q \in Proxies : pc'[q] = "select" => pc[q] = "select"
      /\ UNCHANGED <<neighbors, tosend, due, wake>>
  BY Dispatched
<1> HIDE DEF task
<1>5. /\ task_queue' \in [Proxies -> Seq(Task)]
      /\ \A q \in Proxies : q # p => task_queue'[q] = task_queue[q]
      /\ task_queue'[p][last] = task
      /\ \A j \in DOMAIN task_queue'[p] :
           \/ /\ j \in DOMAIN task_queue[p] /\ j < last
              /\ task_queue'[p][j] = task_queue[p][j]
           \/ j = last
  BY <1>2, <1>3, TaskAppended
<1>6. last \in Nat /\ \A j \in DOMAIN task_queue[p] : j \in Nat /\ j < last
  BY Queue
<1> HIDE DEF last
<1>7. Types'
  BY <1>3, <1>4, <1>5 DEF Types
<1>8. Places'
  BY <1>4, <1>7, PacketKept
<1>9. \A q \in Proxies : \A j \in DOMAIN task_queue'[q] :
        \/ j \in DOMAIN task_queue[q] /\ task_queue'[q][j] = task_queue[q][j]
        \/ q = p /\ j = last /\ task_queue'[q][j] = task
  BY <1>5
<1>10. NoTaskForKnown'
  <2> SUFFICES ASSUME NEW q \in Proxies, NEW key \in AsnPairs, Known(q, key)',
                      NEW j \in DOMAIN task_queue'[q], AsnPair[task_queue'[q][j].id] = key
               PROVE  FALSE
    BY DEF NoTaskForKnown, Answered
  <2>1. Known(q, key)
    BY <1>3 DEF Known
  <2>2. CASE j \in DOMAIN task_queue[q] /\ task_queue'[q][j] = task_queue[q][j]
    BY <2>1, <2>2 DEF Knowing, NoTaskForKnown, Answered
  <2>3. CASE q = p /\ j = last /\ task_queue'[q][j] = task
    BY <1>2, <2>1, <2>3
  <2> QED
    BY <1>9, <2>2, <2>3
<1>11. OldestFirst'
  <2> SUFFICES ASSUME NEW q \in Proxies, NEW j \in DOMAIN task_queue'[q],
                      NEW k \in DOMAIN task_queue'[q], j < k
               PROVE  task_queue'[q][j].age >= task_queue'[q][k].age
    BY DEF OldestFirst
  <2>0. \A r \in Proxies : \A l, n \in DOMAIN task_queue[r] :
          l < n => task_queue[r][l].age >= task_queue[r][n].age
    BY Zenon DEF Knowing, OldestFirst
  <2>1. CASE q # p
    BY <1>5, <2>0, <2>1
  <2>2. CASE q = p
    <3>1. j \in DOMAIN task_queue[p] /\ task_queue'[p][j] = task_queue[p][j]
      <4>1. j # last
        <5> SUFFICES ASSUME j = last PROVE FALSE
          OBVIOUS
        <5>1. k \in Nat /\ (k < last \/ k = last)
          BY <1>5, <1>6, <2>2
        <5> QED
          BY <1>6, <5>1
      <4> QED
        BY <1>5, <2>2, <4>1
    <3>2. task_queue[p][j].age \in Nat
      BY <3>1, Queue
    <3>3. CASE k = last
      <4>1. task_queue'[p][k].age = 0
        BY <1>2, <1>5, <3>3
      <4> QED
        BY <2>2, <3>1, <3>2, <4>1
    <3>4. CASE k \in DOMAIN task_queue[p] /\ task_queue'[p][k] = task_queue[p][k]
      BY <2>0, <2>2, <3>1, <3>4
    <3> QED
      BY <1>5, <2>2, <3>3, <3>4
  <2> QED
    BY <2>1, <2>2
<1>12. SimpleKnowsNothing'
  BY <1>3, <1>5 DEF Knowing, SimpleKnowsNothing
<1>13. InTime'
  <2>1. \A q \in Proxies : /\ pc'[q] = "select" => wake'[q] \in {due'[q], due'[q] + 1}
                           /\ \A key \in AsnPairs :
                                asn_cache'[q][key].age <= CacheLife + UpdateInterval - due'[q]
    BY <1>3, <1>4 DEF InTime
  <2>2. ASSUME NEW q \in Proxies, NEW j \in DOMAIN task_queue'[q]
        PROVE  task_queue'[q][j].age <= UpdateInterval - due'[q]
    <3>1. UpdateInterval \in Nat /\ due[q] \in Int /\ due[q] <= UpdateInterval
      BY Bounds, DueBounds
    <3>2. CASE j \in DOMAIN task_queue[q] /\ task_queue'[q][j] = task_queue[q][j]
      BY <1>4, <3>2 DEF InTime
    <3>3. CASE task_queue'[q][j] = task
      BY <1>2, <1>4, <3>1, <3>3
    <3> QED
      BY <1>9, <3>2, <3>3
  <2> QED
    BY <2>1, <2>2 DEF InTime
<1> QED
  BY <1>7, <1>8, <1>10, <1>11, <1>12, <1>13 DEF Knowing

\* An inquiry arrives, whichever advisor the proxy has.
LEMMA InquiryDispatched ==
  ASSUME Types, Places, Knowing, InTime, NEW p \in Proxies, NEW m \in net,
         DispatchInquiry(p, m)
  PROVE  Types' /\ Places' /\ Knowing' /\ InTime'
<1>1. m.to = p /\ Dispatches(p)
  BY DEF DispatchInquiry
<1>2. CASE Advisor[p] # "AdvanceRldvr"
  <2>1. SimpleInquiry(p, m) /\ UNCHANGED knowledge
    BY <1>2 DEF DispatchInquiry
  <2> QED
    BY <1>1, <1>2, <2>1, SimpleAnswers
<1>3. CASE Advisor[p] = "AdvanceRldvr"
  <2>0. AdvanceInquiry(p, m)
    BY <1>3 DEF DispatchInquiry
  <2>1. CASE neighbors[p] = <<>> \/ m.required = 0
    <3>1. net' = net \ {m} /\ UNCHANGED <<knowledge, advice>>
      BY <2>0, <2>1 DEF AdvanceInquiry
    <3> QED
      BY <1>1, <3>1, InquiryDropped
  <2>2. CASE ~ (neighbors[p] = <<>> \/ m.required = 0) /\ Known(p, AsnPair[m.id])
    <3>1. AnswerFromCache(p, m, OneHopLess(m))
      BY <2>0, <2>2 DEF AdvanceInquiry
    <3> QED
      BY <1>1, <1>3, <3>1, CacheAnswers
  <2>3. CASE ~ (neighbors[p] = <<>> \/ m.required = 0) /\ ~ Known(p, AsnPair[m.id])
    <3>1. AskDatabase(p, m, OneHopLess(m))
      BY <2>0, <2>3 DEF AdvanceInquiry
    <3> QED
      BY <1>1, <1>3, <2>3, <3>1, TaskKept
  <2> QED
    BY <2>1, <2>2, <2>3
<1> QED
  BY <1>2, <1>3

-----------------------------------------------------------------------------
(* The database answers *)

\* The answer of the database arrives: the tasks of its key are served.
LEMMA Learns ==
  ASSUME Types, Places, Knowing, InTime, NEW p \in Proxies, Dispatches(p),
         Advisor[p] = "AdvanceRldvr", NEW key \in AsnPairs, NEW asn_set \in Knowledge,
         NEW found, found = Matching(p, asn_set, MaxAdvicedRelays),
         Learn(p, key, asn_set, found)
  PROVE  Types' /\ Places' /\ Knowing' /\ InTime'
<1> DEFINE entry == [asn_set |-> asn_set, age |-> 0]
<1>0. PICK S : S = Served(p, key)
  OBVIOUS
<1>1. S \in SUBSET (DOMAIN task_queue[p]) /\ \A j \in DOMAIN task_queue[p] :
        AsnPair[task_queue[p][j].id] = key => j \in S
  BY <1>0 DEF Served, Answered
<1>2. PICK n : n = Len(found)
  OBVIOUS
<1>3. n \in Nat
  <2>1. MaxAdvicedRelays \in Nat
    BY Bounds
  <2> QED
    BY <1>2, <2>1, MatchingList
<1>4. PICK count, relays : count = [j \in S |-> 1] /\ relays = [j \in S |-> n]
  OBVIOUS
<1>5. /\ count \in [S -> 0 .. 1] /\ \A j \in S : count[j] = 1
      /\ relays \in [S -> Nat] /\ \A j \in S : relays[j] = n
  BY <1>3, <1>4
<1>6. PICK T : T = Sent(UNION {Forwarded(p, task_queue[p][j], task_queue[p][j].ttl, n) : j \in S})
  OBVIOUS
<1>7. /\ asn_cache' = [asn_cache EXCEPT ![p][key] = entry]
      /\ task_queue' = [task_queue EXCEPT ![p] = TasksWithout(p, S)]
      /\ Advise(OfTasks(p, count), OfTasks(p, relays))
      /\ net' = net \cup T
  BY <1>0, <1>2, <1>4, <1>6 DEF Learn
<1>8. /\ pc' \in [Proxies -> {"run", "select"}]
      /\ \A q \in Proxies : pc'[q] = "select" => pc[q] = "select"
      /\ UNCHANGED <<neighbors, tosend, due, wake>>
  BY Dispatched
<1>9. OnePlace /\ OldestFirst /\ NoTaskForKnown /\ SimpleKnowsNothing
  BY DEF Places, Knowing
<1>10. /\ task_queue' \in [Proxies -> Seq(Task)]
       /\ OldestFirst'
       /\ \A q \in Proxies : q # p => task_queue'[q] = task_queue[q]
       /\ \A q \in Proxies : \A k \in DOMAIN task_queue'[q] :
            \E j \in DOMAIN task_queue[q] :
              task_queue'[q][k] = task_queue[q][j] /\ (q = p => j \notin S)
  BY <1>1, <1>7, <1>9, QueueShrinks
<1>11. \A j \in S : GoesOn(Sent(Forwarded(p, task_queue[p][j], task_queue[p][j].ttl, n)),
                           task_queue[p][j], task_queue[p][j].ttl, n)
  <2> SUFFICES ASSUME NEW j \in S
               PROVE  GoesOn(Sent(Forwarded(p, task_queue[p][j], task_queue[p][j].ttl, n)),
                             task_queue[p][j], task_queue[p][j].ttl, n)
    OBVIOUS
  <2> DEFINE t == task_queue[p][j]
  <2>1. t.id \in Inquiries /\ t.required \in 0 .. 255 /\ t.ttl \in 0 .. MaxTTL
    BY <1>1, Queue
  <2> HIDE DEF t
  <2>2. GoesOn(Sent(Forwarded(p, t, t.ttl, n)), t, t.ttl, n)
    BY <1>3, <2>1, TaskGoesOn
  <2> QED
    BY <2>2 DEF t
<1>12. \A f \in T : \E j \in S :
          f \in Sent(Forwarded(p, task_queue[p][j], task_queue[p][j].ttl, n))
  BY <1>6 DEF Sent
<1>13. \A f \in T : \E j \in S :
          /\ f.id = task_queue[p][j].id /\ count[j] = 1
          /\ f.required = task_queue[p][j].required - relays[j]
          /\ f.ttl = task_queue[p][j].ttl
  <2> SUFFICES ASSUME NEW f \in T
               PROVE  \E j \in S :
                        /\ f.id = task_queue[p][j].id /\ count[j] = 1
                        /\ f.required = task_queue[p][j].required - relays[j]
                        /\ f.ttl = task_queue[p][j].ttl
    OBVIOUS
  <2>1. PICK j \in S : f \in Sent(Forwarded(p, task_queue[p][j], task_queue[p][j].ttl, n))
    BY <1>12
  <2>2. /\ f.id = task_queue[p][j].id /\ f.ttl = task_queue[p][j].ttl
        /\ f.required = task_queue[p][j].required - n
    BY <1>11, <2>1 DEF GoesOn
  <2> QED
    BY <1>5, <2>2
<1>14. T \subseteq Message
  BY <1>11, <1>12 DEF GoesOn
<1>15. \A f, g \in T : f.id = g.id => f = g
  <2> SUFFICES ASSUME NEW f \in T, NEW g \in T, f.id = g.id PROVE f = g
    OBVIOUS
  <2>1. PICK j \in S : f \in Sent(Forwarded(p, task_queue[p][j], task_queue[p][j].ttl, n))
    BY <1>12
  <2>2. PICK k \in S : g \in Sent(Forwarded(p, task_queue[p][k], task_queue[p][k].ttl, n))
    BY <1>12
  <2>3. f.id = task_queue[p][j].id /\ g.id = task_queue[p][k].id
    BY <1>11, <2>1, <2>2 DEF GoesOn
  <2>4. \A q, r \in Proxies : \A l \in DOMAIN task_queue[q], o \in DOMAIN task_queue[r] :
          task_queue[q][l].id = task_queue[r][o].id => q = r /\ l = o
    BY <1>9, Zenon DEF OnePlace
  <2>5. j = k
    <3>1. j \in DOMAIN task_queue[p] /\ k \in DOMAIN task_queue[p]
      BY <1>1
    <3>2. task_queue[p][j].id = task_queue[p][k].id
      BY <2>3
    <3> QED
      BY ONLY <2>4, <3>1, <3>2, p \in Proxies
  <2> QED
    BY <1>11, <2>1, <2>2, <2>5, Zenon DEF GoesOn
<1>16. answers' \in [Inquiries -> Nat] /\ advised' \in [Inquiries -> Nat]
  BY <1>1, <1>5, <1>7, <1>9, TasksAdvised
<1>17. entry \in Entry /\ entry.age = 0
  BY DEF Entry
<1>18. asn_cache \in [Proxies -> [AsnPairs -> Entry]]
  BY Zenon DEF Types
<1> HIDE DEF entry
<1>19. /\ asn_cache' \in [Proxies -> [AsnPairs -> Entry]]
       /\ \A q \in Proxies, k \in AsnPairs :
            asn_cache'[q][k] = IF q = p /\ k = key THEN entry ELSE asn_cache[q][k]
  BY ONLY <1>7, <1>17, <1>18, p \in Proxies, key \in AsnPairs
<1>20. Types'
  <2>1. net' \subseteq Message
    BY <1>7, <1>14 DEF Types
  <2> QED
    BY <1>8, <1>10, <1>16, <1>19, <2>1 DEF Types
<1>21. Places'
  BY <1>1, <1>5, <1>7, <1>8, <1>13, <1>15, <1>20, TasksEnd
<1>22. NoTaskForKnown'
  <2> SUFFICES ASSUME NEW q \in Proxies, NEW other \in AsnPairs, Known(q, other)',
                      NEW k \in DOMAIN task_queue'[q], AsnPair[task_queue'[q][k].id] = other
               PROVE  FALSE
    BY DEF NoTaskForKnown, Answered
  <2>1. PICK j \in DOMAIN task_queue[q] :
          task_queue'[q][k] = task_queue[q][j] /\ (q = p => j \notin S)
    BY <1>10
  <2>2. ~ (q = p /\ other = key)
    BY <1>1, <2>1
  <2>3. Known(q, other)
    BY <1>19, <2>2 DEF Known
  <2> QED
    BY <1>9, <2>1, <2>3 DEF NoTaskForKnown, Answered
<1>23. SimpleKnowsNothing'
  <2> SUFFICES ASSUME NEW q \in Proxies, Advisor[q] # "AdvanceRldvr"
               PROVE  task_queue'[q] = <<>> /\ \A k \in AsnPairs : asn_cache'[q][k] = NoEntry
    BY DEF SimpleKnowsNothing
  <2>1. q # p
    OBVIOUS
  <2>2. task_queue[q] = <<>> /\ \A k \in AsnPairs : asn_cache[q][k] = NoEntry
    BY <1>9 DEF SimpleKnowsNothing
  <2> QED
    BY <1>10, <1>19, <2>1, <2>2
<1>24. InTime'
  <2>1. ASSUME NEW q \in Proxies, NEW k \in DOMAIN task_queue'[q]
        PROVE  task_queue'[q][k].age <= UpdateInterval - due'[q]
    <3>1. PICK j \in DOMAIN task_queue[q] : task_queue'[q][k] = task_queue[q][j]
      BY <1>10
    <3> QED
      BY <1>8, <3>1 DEF InTime
  <2>2. ASSUME NEW q \in Proxies, NEW k \in AsnPairs
        PROVE  asn_cache'[q][k].age <= CacheLife + UpdateInterval - due'[q]
    <3>1. /\ UpdateInterval \in Nat /\ CacheLife \in Nat
          /\ due[q] \in Int /\ due[q] <= UpdateInterval
      BY Bounds, DueBounds
    <3>2. CASE asn_cache'[q][k] = entry
      BY <1>8, <1>17, <3>1, <3>2
    <3>3. CASE asn_cache'[q][k] = asn_cache[q][k]
      BY <1>8, <3>3 DEF InTime
    <3> QED
      BY <1>19, <3>2, <3>3
  <2>3. \A q \in Proxies : pc'[q] = "select" => wake'[q] \in {due'[q], due'[q] + 1}
    BY <1>8 DEF InTime
  <2> QED
    BY <2>1, <2>2, <2>3 DEF InTime
<1> QED
  BY <1>10, <1>20, <1>21, <1>22, <1>23, <1>24 DEF Knowing

\* An answer of the database is dispatched, learned from or not.
LEMMA FilterDispatched ==
  ASSUME Types, Places, Knowing, InTime, NEW p \in Proxies, NEW key \in AsnPairs,
         NEW asn_set \in Knowledge, DispatchFilter(p, key, asn_set)
  PROVE  Types' /\ Places' /\ Knowing' /\ InTime'
<1> DEFINE packet == CorsAdvice("TYPE_RLY_FILTER", key, key, SetToSeq(asn_set))
           found  == Matching(p, asn_set, MaxAdvicedRelays)
<1>1. Advisor[p] = "AdvanceRldvr" /\ Dispatches(p)
  BY DEF DispatchFilter
<1>2. \/ Learn(p, key, asn_set, found)
      \/ UNCHANGED <<asn_cache, task_queue, net, advice>>
  BY DEF DispatchFilter, AdvanceFilter
<1>3. CASE Learn(p, key, asn_set, found)
  <2>1. PICK list : list = found
    OBVIOUS
  <2>2. Learn(p, key, asn_set, list)
    BY <1>3, <2>1
  <2> QED
    BY <1>1, <2>1, <2>2, Learns
<1>4. CASE UNCHANGED <<asn_cache, task_queue, net, advice>>
  <2>1. /\ pc' \in [Proxies -> {"run", "select"}]
        /\ \A q \in Proxies : pc'[q] = "select" => pc[q] = "select"
        /\ UNCHANGED <<neighbors, tosend, due, wake>>
    BY <1>1, Dispatched
  <2>2. Types'
    BY <1>4, <2>1 DEF Types, advice
  <2>3. Places'
    BY <1>4, <2>1, <2>2, PlacesSame
  <2>4. Knowing' /\ InTime'
    BY <1>4, <2>1, KnowledgeStays, TimeStays
  <2> QED
    BY <2>2, <2>3, <2>4
<1> QED
  BY <1>2, <1>3, <1>4

-----------------------------------------------------------------------------
(* Time *)

\* What is chosen for a task is of the neighbours, so that it has a number.
LEMMA Updates ==
  ASSUME Types, Places, Knowing, InTime, NEW p \in Proxies, AdvanceUpdate(p),
         Advisor[p] = "AdvanceRldvr",
         due[p] <= 0, due' = [due EXCEPT ![p] = UpdateInterval],
         pc[p] = "run", UNCHANGED <<neighbors, tosend, pc, wake>>
  PROVE  Types' /\ Places' /\ Knowing' /\ InTime'
<1>0. PICK S : S = Expired(p)
  OBVIOUS
<1>1. S \in SUBSET (DOMAIN task_queue[p])
  BY <1>0 DEF Expired
<1>2. PICK chosen \in [S -> SUBSET (DOMAIN neighbors[p])] :
        Advise(OfTasks(p, [j \in S |-> IF chosen[j] = {} THEN 0 ELSE 1]),
               OfTasks(p, [j \in S |-> Cardinality(chosen[j])]))
  BY <1>0 DEF AdvanceUpdate
<1>3. PICK count, relays : /\ count = [j \in S |-> IF chosen[j] = {} THEN 0 ELSE 1]
                           /\ relays = [j \in S |-> Cardinality(chosen[j])]
  OBVIOUS
<1>4. count \in [S -> 0 .. 1] /\ relays \in [S -> Nat]
  <2>1. DOMAIN neighbors[p] = 1 .. Len(neighbors[p]) /\ Len(neighbors[p]) \in Nat
    BY Nodes
  <2>2. IsFiniteSet(1 .. Len(neighbors[p]))
    BY <2>1, FS_Interval
  <2>3. \A c \in SUBSET (DOMAIN neighbors[p]) : Cardinality(c) \in Nat
    BY <2>1, <2>2, FS_Subset, FS_CardinalityType
  <2>4. \A j \in S : Cardinality(chosen[j]) \in Nat
    BY <2>3
  <2> QED
    BY <1>3, <2>4
<1>5. /\ Advise(OfTasks(p, count), OfTasks(p, relays))
      /\ task_queue' = [task_queue EXCEPT ![p] = TasksWithout(p, S)]
      /\ asn_cache' = [asn_cache EXCEPT ![p] =
            [key \in AsnPairs |-> IF @[key].age > CacheLife THEN NoEntry ELSE @[key]]]
      /\ net' = net
  BY <1>0, <1>2, <1>3 DEF AdvanceUpdate
<1>6. OnePlace /\ OldestFirst /\ NoTaskForKnown /\ SimpleKnowsNothing
  BY DEF Places, Knowing
<1>7. /\ task_queue' \in [Proxies -> Seq(Task)]
      /\ OldestFirst'
      /\ \A q \in Proxies : q # p => task_queue'[q] = task_queue[q]
      /\ \A q \in Proxies : \A k \in DOMAIN task_queue'[q] :
           \E j \in DOMAIN task_queue[q] :
             task_queue'[q][k] = task_queue[q][j] /\ (q = p => j \notin S)
  BY <1>1, <1>5, <1>6, QueueShrinks
<1>8. answers' \in [Inquiries -> Nat] /\ advised' \in [Inquiries -> Nat]
  BY <1>1, <1>4, <1>5, <1>6, TasksAdvised
<1>9. asn_cache \in [Proxies -> [AsnPairs -> Entry]]
  BY Zenon DEF Types
<1>10. NoEntry \in Entry /\ NoEntry.age = -1
  BY DEF Entry, NoEntry
<1>11. /\ asn_cache' \in [Proxies -> [AsnPairs -> Entry]]
       /\ \A q \in Proxies, k \in AsnPairs :
            asn_cache'[q][k] = IF q = p /\ asn_cache[q][k].age > CacheLife THEN NoEntry
                               ELSE asn_cache[q][k]
  BY ONLY <1>5, <1>9, <1>10, p \in Proxies
<1>12. due' \in [Proxies -> - MaxLate - 1 .. UpdateInterval] /\ due'[p] = UpdateInterval
       /\ \A q \in Proxies : q # p => due'[q] = due[q]
  <2>1. due \in [Proxies -> - MaxLate - 1 .. UpdateInterval]
    BY Zenon DEF Types
  <2>2. UpdateInterval \in - MaxLate - 1 .. UpdateInterval
    BY Bounds
  <2> QED
    BY <2>1, <2>2
<1>13. Types'
  BY <1>5, <1>7, <1>8, <1>11, <1>12 DEF Types
<1>14. Places'
  <2>1. PICK T : T = {}
    OBVIOUS
  <2>2. /\ net' = net \cup T
        /\ \A f \in T : \E j \in S :
             /\ f.id = task_queue[p][j].id /\ count[j] = 1
             /\ f.required = task_queue[p][j].required - relays[j]
             /\ f.ttl = task_queue[p][j].ttl
        /\ \A f, g \in T : f.id = g.id => f = g
    BY <1>5, <2>1
  <2> QED
    BY <1>1, <1>4, <1>5, <1>13, <2>2, TasksEnd
<1>15. NoTaskForKnown'
  <2> SUFFICES ASSUME NEW q \in Proxies, NEW key \in AsnPairs, Known(q, key)',
                      NEW k \in DOMAIN task_queue'[q], AsnPair[task_queue'[q][k].id] = key
               PROVE  FALSE
    BY DEF NoTaskForKnown, Answered
  <2>1. PICK j \in DOMAIN task_queue[q] : task_queue'[q][k] = task_queue[q][j]
    BY <1>7
  <2>2. Known(q, key)
    BY <1>11 DEF Known
  <2> QED
    BY <1>6, <2>1, <2>2 DEF NoTaskForKnown, Answered
<1>16. SimpleKnowsNothing'
  <2> SUFFICES ASSUME NEW q \in Proxies, Advisor[q] # "AdvanceRldvr"
               PROVE  task_queue'[q] = <<>> /\ \A k \in AsnPairs : asn_cache'[q][k] = NoEntry
    BY DEF SimpleKnowsNothing
  <2>1. q # p
    OBVIOUS
  <2>2. task_queue[q] = <<>> /\ \A k \in AsnPairs : asn_cache[q][k] = NoEntry
    BY <1>6 DEF SimpleKnowsNothing
  <2> QED
    BY <1>7, <1>11, <2>1, <2>2
<1>17. ASSUME NEW j \in DOMAIN task_queue[p], j \notin S
       PROVE  task_queue[p][j].age = 0
  <2>1. PICK k \in 1 .. j : ~ (task_queue[p][k].age > 0)
    BY <1>0, <1>17 DEF Expired
  <2>2. k \in DOMAIN task_queue[p] /\ (k < j \/ k = j)
    BY Queue
  <2>3. task_queue[p][k].age \in Nat /\ task_queue[p][j].age \in Nat
    BY <2>2, Queue
  <2>4. k < j => task_queue[p][k].age >= task_queue[p][j].age
    BY <1>6, <2>2 DEF OldestFirst
  <2> QED
    BY ONLY <2>1, <2>2, <2>3, <2>4
<1>18. InTime'
  <2>1. ASSUME NEW q \in Proxies, NEW k \in DOMAIN task_queue'[q]
        PROVE  task_queue'[q][k].age <= UpdateInterval - due'[q]
    <3>1. PICK j \in DOMAIN task_queue[q] :
            task_queue'[q][k] = task_queue[q][j] /\ (q = p => j \notin S)
      BY <1>7
    <3>2. CASE q = p
      <4>1. task_queue'[q][k].age = 0
        BY <1>17, <3>1, <3>2
      <4>2. UpdateInterval \in Nat
        BY Bounds
      <4> QED
        BY <1>12, <3>2, <4>1, <4>2
    <3>3. CASE q # p
      BY <1>12, <3>1, <3>3 DEF InTime
    <3> QED
      BY <3>2, <3>3
  <2>2. ASSUME NEW q \in Proxies, NEW k \in AsnPairs
        PROVE  asn_cache'[q][k].age <= CacheLife + UpdateInterval - due'[q]
    <3>1. UpdateInterval \in Nat /\ CacheLife \in Nat /\ asn_cache[q][k].age \in Int
      BY Bounds, CacheEntry
    <3>2. CASE q = p
      <4>1. asn_cache'[q][k].age <= CacheLife
        BY <1>10, <1>11, <3>1, <3>2
      <4>2. asn_cache'[q][k].age \in Int
        BY <1>10, <1>11, <3>1
      <4> QED
        BY <1>12, <3>1, <3>2, <4>1, <4>2
    <3>3. CASE q # p
      BY <1>11, <1>12, <3>3 DEF InTime
    <3> QED
      BY <3>2, <3>3
  <2>3. \A q \in Proxies : pc'[q] = "select" => wake'[q] \in {due'[q], due'[q] + 1}
    BY <1>12 DEF InTime
  <2> QED
    BY <2>1, <2>2, <2>3 DEF InTime
<1> QED
  BY <1>7, <1>13, <1>14, <1>15, <1>16, <1>18 DEF Knowing

\* The advisor's event runs: the cache and the queue age.
LEMMA EventRun ==
  ASSUME Types, Places, Knowing, InTime, NEW p \in Proxies, Runs(p)
  PROVE  Types' /\ Places' /\ Knowing' /\ InTime'
<1>1. /\ pc[p] = "run" /\ due[p] <= 0 /\ due' = [due EXCEPT ![p] = UpdateInterval]
      /\ UNCHANGED <<neighbors, tosend, pc, wake>>
  BY DEF Runs
<1>2. CASE Advisor[p] = "AdvanceRldvr"
  <2>1. AdvanceUpdate(p)
    BY <1>2 DEF Runs
  <2> QED
    BY <1>1, <1>2, <2>1, Updates
<1>3. CASE Advisor[p] # "AdvanceRldvr"
  <2>1. UNCHANGED <<net, answers, advised, asn_cache, task_queue>>
    BY <1>3 DEF Runs, advice, knowledge
  <2>2. due' \in [Proxies -> - MaxLate - 1 .. UpdateInterval] /\ due'[p] = UpdateInterval
        /\ \A q \in Proxies : q # p => due'[q] = due[q]
    <3>1. due \in [Proxies -> - MaxLate - 1 .. UpdateInterval]
      BY Zenon DEF Types
    <3>2. UpdateInterval \in - MaxLate - 1 .. UpdateInterval
      BY Bounds
    <3> QED
      BY <1>1, <3>1, <3>2
  <2>3. Types'
    BY <1>1, <2>1, <2>2 DEF Types
  <2>4. Places'
    <3>1. UNCHANGED <<tosend, advice>> /\ net' \subseteq net
      BY <1>1, <2>1 DEF advice
    <3> QED
      BY <2>1, <2>3, <3>1, PlacesSame
  <2>5. Knowing'
    BY <2>1, KnowledgeStays
  <2>6. task_queue[p] = <<>> /\ \A key \in AsnPairs : asn_cache[p][key] = NoEntry
    BY <1>3 DEF Knowing, SimpleKnowsNothing
  <2>7. ASSUME NEW q \in Proxies
        PROVE  /\ pc'[q] = "select" => wake'[q] \in {due'[q], due'[q] + 1}
               /\ \A j \in DOMAIN task_queue'[q] :
                    task_queue'[q][j].age <= UpdateInterval - due'[q]
               /\ \A key \in AsnPairs :
                    asn_cache'[q][key].age <= CacheLife + UpdateInterval - due'[q]
    <3>1. CASE q = p
      <4>1. CacheLife \in Nat /\ UpdateInterval \in Nat
        BY Bounds
      <4>2. \A key \in AsnPairs : asn_cache'[q][key].age = -1
        BY <2>1, <2>6, <3>1 DEF NoEntry
      <4>3. DOMAIN task_queue'[q] = {}
        BY <2>1, <2>6, <3>1
      <4> QED
        BY <1>1, <2>2, <3>1, <4>1, <4>2, <4>3
    <3>2. CASE q # p
      BY <1>1, <2>1, <2>2, <3>2 DEF InTime
    <3> QED
      BY <3>1, <3>2
  <2> QED
    BY <2>3, <2>4, <2>5, <2>7 DEF InTime
<1> QED
  BY <1>2, <1>3

\* A second more for the tasks and entries of all proxies.
LEMMA AllOlder ==
  ASSUME Types, Older
  PROVE  /\ task_queue' \in [Proxies -> Seq(Task)]
         /\ asn_cache' \in [Proxies -> [AsnPairs -> Entry]]
         /\ \A p \in Proxies :
              /\ DOMAIN task_queue'[p] = DOMAIN task_queue[p]
              /\ \A j \in DOMAIN task_queue[p] :
                   /\ task_queue'[p][j].id = task_queue[p][j].id
                   /\ task_queue'[p][j].required = task_queue[p][j].required
                   /\ task_queue'[p][j].ttl = task_queue[p][j].ttl
                   /\ task_queue'[p][j].age = task_queue[p][j].age + 1
              /\ \A key \in AsnPairs :
                   /\ Known(p, key)' <=> Known(p, key)
                   /\ ~ Known(p, key) => asn_cache'[p][key] = NoEntry
                   /\ Known(p, key) => asn_cache'[p][key].age = asn_cache[p][key].age + 1
<1> DEFINE older(t) == [t EXCEPT !.age = @ + 1]
<1>1. \A t \in Task : /\ older(t) \in Task /\ older(t).id = t.id
                      /\ older(t).required = t.required /\ older(t).ttl = t.ttl
                      /\ older(t).age = t.age + 1
  BY DEF Task
<1>2. task_queue' = [p \in Proxies |-> [j \in DOMAIN task_queue[p] |-> older(task_queue[p][j])]]
  BY DEF Older
<1> HIDE DEF older
<1>3. ASSUME NEW p \in Proxies
      PROVE  /\ task_queue'[p] \in Seq(Task)
             /\ DOMAIN task_queue'[p] = DOMAIN task_queue[p]
             /\ \A j \in DOMAIN task_queue[p] : task_queue'[p][j] = older(task_queue[p][j])
  <2> DEFINE q == task_queue[p]
             t == [j \in DOMAIN q |-> older(q[j])]
  <2>1. task_queue'[p] = t
    BY <1>2
  <2>2. q \in Seq(Task) /\ Len(q) \in Nat /\ DOMAIN q = 1 .. Len(q)
        /\ \A j \in 1 .. Len(q) : q[j] \in Task
    BY Queue
  <2> HIDE DEF q
  <2>3. t \in [1 .. Len(q) -> Task] /\ DOMAIN t = DOMAIN q
        /\ \A j \in DOMAIN q : t[j] = older(q[j])
    BY <1>1, <2>2
  <2> HIDE DEF t
  <2>4. t \in Seq(Task)
    BY ONLY <2>2, <2>3
  <2> QED
    BY ONLY <2>1, <2>3, <2>4 DEF q
<1>4. task_queue' \in [Proxies -> Seq(Task)]
  <2>1. task_queue' = [p \in Proxies |-> task_queue'[p]]
    BY <1>2
  <2> QED
    BY ONLY <1>3, <2>1
<1>5. ASSUME NEW p \in Proxies, NEW j \in DOMAIN task_queue[p]
      PROVE  /\ task_queue'[p][j].id = task_queue[p][j].id
             /\ task_queue'[p][j].required = task_queue[p][j].required
             /\ task_queue'[p][j].ttl = task_queue[p][j].ttl
             /\ task_queue'[p][j].age = task_queue[p][j].age + 1
  <2>1. task_queue[p][j] \in Task /\ task_queue'[p][j] = older(task_queue[p][j])
    BY <1>3, Queue
  <2> QED
    BY <1>1, <2>1
<1>6. asn_cache' = [p \in Proxies |-> [key \in AsnPairs |->
        IF Known(p, key) THEN [asn_cache[p][key] EXCEPT !.age = @ + 1] ELSE NoEntry]]
  BY DEF Older
<1>7. ASSUME NEW p \in Proxies, NEW key \in AsnPairs
      PROVE  /\ asn_cache'[p][key] \in Entry
             /\ Known(p, key)' <=> Known(p, key)
             /\ ~ Known(p, key) => asn_cache'[p][key] = NoEntry
             /\ Known(p, key) => asn_cache'[p][key].age = asn_cache[p][key].age + 1
  <2> DEFINE e == asn_cache[p][key]
             f == asn_cache'[p][key]
  <2>1. f = IF Known(p, key) THEN [e EXCEPT !.age = @ + 1] ELSE NoEntry
    BY <1>6
  <2>2. Known(p, key) => e \in [asn_set : Knowledge, age : Nat]
    BY CacheEntry
  <2>3. Known(p, key)' <=> f # NoEntry
    BY DEF Known
  <2> HIDE DEF e, f
  <2>4. CASE Known(p, key)
    <3>1. f \in [asn_set : Knowledge, age : Nat] /\ f.age = e.age + 1 /\ f.age \in Nat
      BY <2>1, <2>2, <2>4
    <3>2. f # NoEntry
      BY <3>1 DEF NoEntry
    <3> QED
      BY <2>3, <2>4, <3>1, <3>2 DEF Entry, e, f
  <2>5. CASE ~ Known(p, key)
    <3>1. f = NoEntry /\ NoEntry \in Entry
      BY <2>1, <2>5 DEF Entry
    <3> QED
      BY <2>3, <2>5, <3>1 DEF f
  <2> QED
    BY <2>4, <2>5
<1>8. asn_cache' \in [Proxies -> [AsnPairs -> Entry]]
  BY <1>6, <1>7
<1> QED
  BY <1>3, <1>4, <1>5, <1>7, <1>8

\* A second passes at every proxy.
LEMMA SecondPasses ==
  ASSUME Types, Places, Knowing, InTime, Tick
  PROVE  Types' /\ Places' /\ Knowing' /\ InTime'
<1>1. /\ \A p \in Proxies : ~ Late(p)
      /\ due' = [p \in Proxies |-> due[p] - 1]
      /\ wake' = [p \in Proxies |-> IF pc[p] = "select" THEN wake[p] - 1 ELSE 0]
      /\ Older
      /\ UNCHANGED <<neighbors, net, tosend, answers, advised, pc>>
  BY DEF Tick, advice
<1>2. /\ task_queue' \in [Proxies -> Seq(Task)]
      /\ asn_cache' \in [Proxies -> [AsnPairs -> Entry]]
      /\ \A p \in Proxies :
              /\ DOMAIN task_queue'[p] = DOMAIN task_queue[p]
              /\ \A j \in DOMAIN task_queue[p] :
                   /\ task_queue'[p][j].id = task_queue[p][j].id
                   /\ task_queue'[p][j].required = task_queue[p][j].required
                   /\ task_queue'[p][j].ttl = task_queue[p][j].ttl
                   /\ task_queue'[p][j].age = task_queue[p][j].age + 1
              /\ \A key \in AsnPairs :
                   /\ Known(p, key)' <=> Known(p, key)
                   /\ ~ Known(p, key) => asn_cache'[p][key] = NoEntry
                   /\ Known(p, key) => asn_cache'[p][key].age = asn_cache[p][key].age + 1
  BY <1>1, AllOlder
<1>3. due' \in [Proxies -> - MaxLate - 1 .. UpdateInterval] /\ wake' \in [Proxies -> Int]
  <2>1. ASSUME NEW p \in Proxies PROVE due[p] - 1 \in - MaxLate - 1 .. UpdateInterval
    <3>1. /\ MaxLate \in Nat /\ UpdateInterval \in Nat
          /\ due[p] \in Int /\ due[p] <= UpdateInterval
      BY Bounds, DueBounds
    <3>2. pc[p] \in {"run", "select"}
      BY DEF Types
    <3>3. ~ (due[p] <= - MaxLate - 1)
      <4>1. CASE pc[p] = "run"
        <5>1. ~ (due[p] <= - MaxLate)
          BY <1>1, <4>1 DEF Late
        <5> QED
          BY ONLY <3>1, <5>1
      <4>2. CASE pc[p] = "select"
        <5>1. ~ (wake[p] <= - MaxLate) /\ wake[p] \in {due[p], due[p] + 1}
          BY <1>1, <4>2 DEF Late, InTime
        <5> QED
          BY ONLY <3>1, <5>1
      <4> QED
        BY <3>2, <4>1, <4>2
    <3> QED
      BY ONLY <3>1, <3>3
  <2>2. \A p \in Proxies : wake[p] - 1 \in Int
    BY DEF Types
  <2> QED
    BY <1>1, <2>1, <2>2
<1>4. Types'
  BY <1>1, <1>2, <1>3 DEF Types
<1>5. Places'
  <2>1. UNCHANGED <<tosend, advice>> /\ net' \subseteq net
    BY <1>1 DEF advice
  <2> QED
    BY <1>2, <1>4, <2>1, PlacesSame
<1>6. NoTaskForKnown'
  <2> SUFFICES ASSUME NEW q \in Proxies, NEW key \in AsnPairs, Known(q, key)',
                      NEW k \in DOMAIN task_queue'[q], AsnPair[task_queue'[q][k].id] = key
               PROVE  FALSE
    BY DEF NoTaskForKnown, Answered
  <2>1. Known(q, key)
    BY <1>2
  <2>2. k \in DOMAIN task_queue[q] /\ AsnPair[task_queue[q][k].id] = key
    BY <1>2
  <2> QED
    BY <2>1, <2>2 DEF Knowing, NoTaskForKnown, Answered
<1>7. OldestFirst'
  <2> SUFFICES ASSUME NEW p \in Proxies, NEW j \in DOMAIN task_queue[p],
                      NEW k \in DOMAIN task_queue[p], j < k
               PROVE  task_queue'[p][j].age >= task_queue'[p][k].age
    BY <1>2 DEF OldestFirst
  <2>1. task_queue[p][j].age \in Nat /\ task_queue[p][k].age \in Nat
    BY Queue
  <2>2. task_queue[p][j].age >= task_queue[p][k].age
    BY DEF Knowing, OldestFirst
  <2>3. /\ task_queue'[p][j].age = task_queue[p][j].age + 1
        /\ task_queue'[p][k].age = task_queue[p][k].age + 1
    BY <1>2
  <2> QED
    BY ONLY <2>1, <2>2, <2>3
<1>8. SimpleKnowsNothing'
  <2> SUFFICES ASSUME NEW q \in Proxies, Advisor[q] # "AdvanceRldvr"
               PROVE  task_queue'[q] = <<>> /\ \A k \in AsnPairs : asn_cache'[q][k] = NoEntry
    BY DEF SimpleKnowsNothing
  <2>1. task_queue[q] = <<>> /\ \A k \in AsnPairs : asn_cache[q][k] = NoEntry
    BY DEF Knowing, SimpleKnowsNothing
  <2>2. \A k \in AsnPairs : asn_cache'[q][k] = NoEntry
    BY <1>2, <2>1 DEF Known
  <2>3. task_queue'[q] = <<>>
    BY <1>2, <2>1
  <2> QED
    BY <2>2, <2>3
<1>9. InTime'
  <2>1. ASSUME NEW p \in Proxies
        PROVE  /\ pc'[p] = "select" => wake'[p] \in {due'[p], due'[p] + 1}
               /\ due'[p] = due[p] - 1 /\ due[p] \in Int
               /\ UpdateInterval \in Nat /\ CacheLife \in Nat /\ due[p] <= UpdateInterval
    <3>1. UpdateInterval \in Nat /\ CacheLife \in Nat /\ due[p] \in Int
          /\ due[p] <= UpdateInterval
      BY Bounds, DueBounds
    <3> QED
      BY <1>1, <3>1 DEF InTime
  <2>2. ASSUME NEW p \in Proxies, NEW j \in DOMAIN task_queue[p]
        PROVE  task_queue'[p][j].age <= UpdateInterval - due'[p]
    <3>1. task_queue[p][j].age \in Nat /\ task_queue[p][j].age <= UpdateInterval - due[p]
      BY Queue DEF InTime
    <3>2. task_queue'[p][j].age = task_queue[p][j].age + 1
      BY <1>2
    <3> QED
      BY ONLY <2>1, <3>1, <3>2
  <2>3. ASSUME NEW p \in Proxies, NEW key \in AsnPairs
        PROVE  asn_cache'[p][key].age <= CacheLife + UpdateInterval - due'[p]
    <3>1. asn_cache[p][key].age \in Int
          /\ asn_cache[p][key].age <= CacheLife + UpdateInterval - due[p]
      BY CacheEntry DEF InTime
    <3>2. asn_cache'[p][key].age = asn_cache[p][key].age + 1 \/ asn_cache'[p][key].age = -1
      BY <1>2 DEF NoEntry
    <3> QED
      BY ONLY <2>1, <3>1, <3>2
  <2> QED
    BY <1>2, <2>1, <2>2, <2>3 DEF InTime
<1> QED
  BY <1>4, <1>5, <1>6, <1>7, <1>8, <1>9 DEF Knowing

-----------------------------------------------------------------------------
(* The other steps *)

\* The select of a loop, and neighbours that change, leave the rest as it is.
LEMMA LoopStep ==
  ASSUME Types, Places, Knowing, InTime, UNCHANGED <<net, tosend, advice, knowledge, due>>,
         neighbors' \in [Proxies -> UNION {NeighborLists[p] : p \in Proxies}],
         \A p \in Proxies : neighbors'[p] \in NeighborLists[p],
         pc' \in [Proxies -> {"run", "select"}], wake' \in [Proxies -> Int],
         \A p \in Proxies : pc'[p] = "select" => wake'[p] \in {due[p], due[p] + 1}
  PROVE  Types' /\ Places' /\ Knowing' /\ InTime'
<1>1. UNCHANGED <<net, tosend, answers, advised, asn_cache, task_queue, due>>
  BY DEF advice, knowledge
<1>2. Types'
  BY <1>1 DEF Types
<1>3. Places'
  <2>1. UNCHANGED <<tosend, advice>> /\ net' \subseteq net
    BY <1>1 DEF advice
  <2> QED
    BY <1>1, <1>2, <2>1, PlacesSame
<1>4. Knowing'
  BY <1>1, KnowledgeStays
<1>5. InTime'
  BY <1>1 DEF InTime
<1> QED
  BY <1>2, <1>3, <1>4, <1>5

\* The loop itself, the other packets and the neighbour maintainer.
LEMMA OtherSteps ==
  ASSUME Types, Places, Knowing, InTime, NEW p \in Proxies,
         Selects(p) \/ Wakes(p) \/ DispatchOther(p) \/ NeighborsChange(p)
  PROVE  Types' /\ Places' /\ Knowing' /\ InTime'
<1>1. /\ pc \in [Proxies -> {"run", "select"}] /\ wake \in [Proxies -> Int]
      /\ due \in [Proxies -> Int]
      /\ neighbors \in [Proxies -> UNION {NeighborLists[r] : r \in Proxies}]
      /\ \A q \in Proxies : neighbors[q] \in NeighborLists[q]
      /\ \A q \in Proxies : pc[q] = "select" => wake[q] \in {due[q], due[q] + 1}
  <2>1. \A q \in Proxies : due[q] \in Int
    BY DueBounds
  <2>2. due \in [Proxies -> Int]
    BY <2>1 DEF Types
  <2> QED
    BY <2>2, Zenon DEF Types, InTime
<1>2. CASE Selects(p)
  <2>1. PICK fraction \in {0, 1} :
           /\ pc' = [pc EXCEPT ![p] = "select"]
           /\ wake' = [wake EXCEPT ![p] = due[p] + fraction]
           /\ UNCHANGED <<neighbors, net, tosend, advice, knowledge, due>>
    BY <1>2 DEF Selects, IdleTime
  <2>2. /\ pc' \in [Proxies -> {"run", "select"}] /\ wake' \in [Proxies -> Int]
        /\ \A q \in Proxies : pc'[q] = "select" => wake'[q] \in {due[q], due[q] + 1}
    BY ONLY <1>1, <2>1, p \in Proxies
  <2> QED
    BY <1>1, <2>1, <2>2, LoopStep
<1>3. CASE Wakes(p) \/ DispatchOther(p)
  <2>1. /\ pc' = [pc EXCEPT ![p] = "run"]
        /\ UNCHANGED <<neighbors, net, tosend, advice, knowledge, due, wake>>
    BY <1>3 DEF Wakes, DispatchOther, Dispatches
  <2>2. /\ pc' \in [Proxies -> {"run", "select"}]
        /\ \A q \in Proxies : pc'[q] = "select" => wake'[q] \in {due[q], due[q] + 1}
    BY ONLY <1>1, <2>1, p \in Proxies
  <2> QED
    BY <1>1, <2>1, <2>2, LoopStep
<1>4. CASE NeighborsChange(p)
  <2>1. PICK list \in NeighborLists[p] : neighbors' = [neighbors EXCEPT ![p] = list]
    BY <1>4 DEF NeighborsChange
  <2>2. UNCHANGED <<net, tosend, advice, knowledge, pc, due, wake>>
    BY <1>4 DEF NeighborsChange, loop
  <2>3. /\ neighbors' \in [Proxies -> UNION {NeighborLists[r] : r \in Proxies}]
        /\ \A q \in Proxies : neighbors'[q] \in NeighborLists[q]
    BY ONLY <1>1, <2>1, p \in Proxies
  <2>4. \A q \in Proxies : pc'[q] = "select" => wake'[q] \in {due[q], due[q] + 1}
    BY <1>1, <2>2
  <2> QED
    BY <1>1, <2>2, <2>3, <2>4, LoopStep
<1> QED
  BY <1>2, <1>3, <1>4

\* A client asks.
LEMMA ClientStep ==
  ASSUME Types, Places, Knowing, InTime, NEW p \in Proxies, NEW i \in Inquiries,
         ClientAsks(p, i)
  PROVE  Types' /\ Places' /\ Knowing' /\ InTime'
<1>1. /\ tosend' = tosend \ {i} /\ net' = net \cup {Inquiry(p, i, Required[i], MaxTTL)}
      /\ UNCHANGED <<neighbors, answers, advised, asn_cache, task_queue, pc, due, wake>>
  BY DEF ClientAsks, advice, knowledge, loop
<1>2. Inquiry(p, i, Required[i], MaxTTL) \in Message
  <2>1. MaxTTL \in 1 .. 255 /\ Required \in [Inquiries -> 0 .. 255]
    BY Bounds
  <2>2. Required[i] \in 0 .. 255 /\ MaxTTL \in 1 .. MaxTTL
    BY <2>1
  <2> QED
    BY <2>2 DEF Inquiry, Message
<1>3. Types'
  BY <1>1, <1>2 DEF Types
<1>4. Places'
  BY <1>3, InquirySent
<1>5. Knowing' /\ InTime'
  BY <1>1, KnowledgeStays, TimeStays
<1> QED
  BY <1>3, <1>4, <1>5

\* The network delivers an inquiry twice.
LEMMA DuplicateStep ==
  ASSUME Types, Places, Knowing, InTime, NEW m \in net, NEW i \in tosend,
         Duplicates(m, i)
  PROVE  Types' /\ Places' /\ Knowing' /\ InTime'
<1> DEFINE copy == [m EXCEPT !.id = i]
<1>1. /\ tosend' = tosend \ {i} /\ net' = net \cup {copy}
      /\ answers' = [answers EXCEPT ![i] = answers[m.id]]
      /\ advised' = [advised EXCEPT ![i] = advised[m.id]]
      /\ UNCHANGED <<neighbors, asn_cache, task_queue, pc, due, wake>>
  BY DEF Duplicates, knowledge, loop
<1>2. m \in Message /\ i \in Inquiries
  BY DEF Types
<1>3. copy \in Message
  BY <1>2 DEF Message
<1>4. answers' \in [Inquiries -> Nat] /\ advised' \in [Inquiries -> Nat]
  <2>1. /\ answers \in [Inquiries -> Nat] /\ advised \in [Inquiries -> Nat]
        /\ m.id \in Inquiries
    BY <1>2 DEF Types, Message
  <2> QED
    BY <1>1, <1>2, <2>1
<1>5. Types'
  <2>1. net' \subseteq Message /\ tosend' \subseteq Inquiries
    BY <1>1, <1>3 DEF Types
  <2> QED
    BY <1>1, <1>4, <2>1 DEF Types
<1>6. Places'
  BY <1>2, <1>5, InquiryDuplicated
<1>7. Knowing' /\ InTime'
  BY <1>1, KnowledgeStays, TimeStays
<1> QED
  BY <1>5, <1>6, <1>7

-----------------------------------------------------------------------------
(* The invariant *)

\* The parts of the inductive invariant.
LEMMA Parts ==
  ASSUME Types PROVE IInv <=> Places /\ Knowing /\ InTime
  BY PlacesMeaning DEF IInv, Knowing

\* It holds initially.
LEMMA InitIInv == Init => IInv
<1> SUFFICES ASSUME Init PROVE IInv
  OBVIOUS
<1> USE DEF Init, AdvisorInit, AdvanceInit
<1>1. Types
  <2>1. /\ UpdateInterval \in - MaxLate - 1 .. UpdateInterval
        /\ <<>> \in Seq(Task) /\ NoEntry \in Entry
    BY Bounds DEF Entry
  <2> QED
    BY <2>1 DEF Types
<1>2. Places
  <2>1. \A p \in Proxies : DOMAIN task_queue[p] = {}
    OBVIOUS
  <2>2. \A i \in Inquiries : answers[i] = 0 /\ advised[i] = 0 /\ answers[i] <= MaxTTL
    BY Bounds
  <2>3. OnePlace
    BY <2>1, <2>2 DEF OnePlace
  <2> QED
    BY <2>1, <2>2, <2>3 DEF Places
<1>3. Knowing
  BY DEF Knowing, NoTaskForKnown, Known, OldestFirst, SimpleKnowsNothing
<1>4. InTime
  <2>1. UpdateInterval \in Nat /\ CacheLife \in Nat /\ NoEntry.age = -1
    BY Bounds DEF NoEntry
  <2>2. \A p \in Proxies : /\ DOMAIN task_queue[p] = {} /\ pc[p] = "run"
                           /\ due[p] = UpdateInterval
                           /\ \A key \in AsnPairs : asn_cache[p][key] = NoEntry
    OBVIOUS
  <2> QED
    BY ONLY <2>1, <2>2 DEF InTime
<1> QED
  BY <1>1, <1>2, <1>3, <1>4, Parts

\* Every step keeps it.
LEMMA StepIInv == IInv /\ [Next]_vars => IInv'
<1> SUFFICES ASSUME IInv, [Next]_vars PROVE IInv'
  OBVIOUS
<1>1. Types /\ Places /\ Knowing /\ InTime
  BY Parts DEF IInv
<1>2. Types' /\ Places' /\ Knowing' /\ InTime'
  <2>1. CASE \E p \in Proxies : Loop(p) \/ DispatchOther(p) \/ NeighborsChange(p)
    BY <1>1, <2>1, EventRun, OtherSteps DEF Loop
  <2>2. CASE \E p \in Proxies : \E m \in net : DispatchInquiry(p, m)
    BY <1>1, <2>2, InquiryDispatched
  <2>3. CASE \E p \in Proxies : \E key \in AsnPairs, asn_set \in Knowledge :
               DispatchFilter(p, key, asn_set)
    BY <1>1, <2>3, FilterDispatched
  <2>4. CASE \E p \in Proxies : \E i \in Inquiries : ClientAsks(p, i)
    BY <1>1, <2>4, ClientStep
  <2>5. CASE Tick
    BY <1>1, <2>5, SecondPasses
  <2>6. CASE \E m \in net, i \in tosend : Duplicates(m, i)
    BY <1>1, <2>6, DuplicateStep
  <2>7. CASE UNCHANGED vars
    <3>1. UNCHANGED <<net, tosend, advice, knowledge, neighbors, pc, due, wake>>
      BY <2>7 DEF vars, loop
    <3>2. /\ neighbors \in [Proxies -> UNION {NeighborLists[p] : p \in Proxies}]
          /\ \A p \in Proxies : neighbors[p] \in NeighborLists[p]
          /\ pc \in [Proxies -> {"run", "select"}] /\ wake \in [Proxies -> Int]
          /\ \A p \in Proxies : pc[p] = "select" => wake[p] \in {due[p], due[p] + 1}
      BY <1>1, Zenon DEF Types, InTime
    <3>3. /\ neighbors' \in [Proxies -> UNION {NeighborLists[p] : p \in Proxies}]
          /\ \A p \in Proxies : neighbors'[p] \in NeighborLists[p]
          /\ pc' \in [Proxies -> {"run", "select"}] /\ wake' \in [Proxies -> Int]
          /\ \A p \in Proxies : pc'[p] = "select" => wake'[p] \in {due[p], due[p] + 1}
      BY ONLY <3>1, <3>2
    <3> QED
      BY <1>1, <3>1, <3>3, LoopStep
  <2> QED
    BY <2>1, <2>2, <2>3, <2>4, <2>5, <2>6, <2>7, Zenon DEF Next
<1>3. (IInv <=> Places /\ Knowing /\ InTime)'
  <2>1. Types'
    BY <1>2
  <2>2. (Places <=> OnePlace /\ HopsLeft /\ AskedIsMissing)'
    BY <2>1, PlacesMeaning, PTL
  <2> QED
    BY <1>2, <2>2 DEF IInv, Knowing
<1> QED
  BY <1>2, <1>3

-----------------------------------------------------------------------------
(* Theorems *)

\* In every state of every behaviour the strengthened invariant holds.
THEOREM Invariance == Spec => []IInv
<1>1. Init => IInv
  BY InitIInv
<1>2. IInv /\ [Next]_vars => IInv'
  BY StepIInv
<1> QED
  BY <1>1, <1>2, PTL DEF Spec

\* The variables have their types, and no packet asks the next proxy for relays that
\* were advised on its way or, where an advice has room for all, for fewer than are
\* missing, the copies the network makes included: process_rl_inquiry and
\* process_rl_filter of either advisor.
THEOREM AsksForMissing == Spec => []Inv
<1>1. IInv => Inv
  <2> SUFFICES ASSUME IInv PROVE Inv
    OBVIOUS
  <2>1. Types /\ AskedIsMissing
    BY DEF IInv
  <2>2. MaxTTL \in Nat
    BY Bounds
  <2>3. \A m \in net : /\ m.to \in Proxies /\ m.id \in Inquiries
                       /\ m.required \in 0 .. 255 /\ m.ttl \in 0 .. MaxTTL
    <3>1. \A m \in Message : /\ m.to \in Proxies /\ m.id \in Inquiries
                             /\ m.required \in 0 .. 255 /\ m.ttl \in 0 .. MaxTTL
      BY <2>2 DEF Message
    <3> QED
      BY <2>1, <3>1 DEF Types
  <2>4. \A p \in Proxies, key \in AsnPairs :
          Known(p, key) => asn_cache[p][key].asn_set \in Knowledge
    BY <2>1, CacheEntry
  <2>5. \A p \in Proxies : \A j \in DOMAIN task_queue[p] : task_queue[p][j].id \in Inquiries
    BY <2>1, Queue
  <2>6. TypeOK
    BY <2>1, <2>3, <2>4, <2>5, Zenon DEF TypeOK, Types
  <2> QED
    BY <2>1, <2>6 DEF Inv
<1> QED
  BY Invariance, <1>1, PTL

\* An inquiry is answered no more than MAX_TTL times, whatever neighbours the
\* proxies have, and so is each copy the network makes of it, wherever it does: the
\* ttl of process_rl_inquiry bounds the way a packet goes.
THEOREM AnswersAreBounded == Spec => []AnswersEnd
<1>1. IInv => AnswersEnd
  BY DEF IInv, HopsLeft, AnswersEnd
<1> QED
  BY Invariance, <1>1, PTL

\* No task waits for what the cache knows: process_rl_filter serves all tasks
\* of the pair when it makes the entry.
THEOREM TasksAreServed == Spec => []NoTaskForKnown
<1>1. IInv => NoTaskForKnown
  BY DEF IInv
<1> QED
  BY Invariance, <1>1, PTL

\* update keeps tasks and entries from growing older than they may, though the wait
\* of the loop may be up to a second longer than it is set to: the queue
\* is in the order of their times, so that it may stop at the first young one.
THEOREM UpdateInTime == Spec => []Timely
<1>1. IInv => Timely
  <2> SUFFICES ASSUME IInv, NEW p \in Proxies
               PROVE  /\ \A j \in DOMAIN task_queue[p] :
                           task_queue[p][j].age <= UpdateInterval + MaxLate + 1
                      /\ \A key \in AsnPairs :
                           asn_cache[p][key].age <= CacheLife + UpdateInterval + MaxLate + 1
    BY DEF Timely
  <2>1. Types /\ InTime
    BY DEF IInv
  <2>2. /\ UpdateInterval \in Nat /\ MaxLate \in Nat /\ CacheLife \in Nat
        /\ due[p] \in Int /\ - MaxLate - 1 <= due[p]
    BY <2>1, Bounds, DueBounds
  <2>3. ASSUME NEW j \in DOMAIN task_queue[p]
        PROVE  task_queue[p][j].age <= UpdateInterval + MaxLate + 1
    <3>1. task_queue[p][j].age \in Nat /\ task_queue[p][j].age <= UpdateInterval - due[p]
      BY <2>1, Queue DEF InTime
    <3> QED
      BY ONLY <2>2, <3>1
  <2>4. ASSUME NEW key \in AsnPairs
        PROVE  asn_cache[p][key].age <= CacheLife + UpdateInterval + MaxLate + 1
    <3>1. asn_cache[p][key].age \in Int
          /\ asn_cache[p][key].age <= CacheLife + UpdateInterval - due[p]
      BY <2>1, CacheEntry DEF InTime
    <3> QED
      BY ONLY <2>2, <3>1
  <2> QED
    BY <2>3, <2>4
<1> QED
  BY Invariance, <1>1, PTL

-----------------------------------------------------------------------------
(* Why a task ends *)

\* A task goes on or is answered, or no neighbour could be drawn for it.
Accounted(p, j) ==
  \/ \E n \in DOMAIN task_queue'[p] : task_queue'[p][n].id = task_queue[p][j].id
  \/ answers'[task_queue[p][j].id] > answers[task_queue[p][j].id]
  \/ neighbors[p] = <<>>
  \/ 2 * task_queue[p][j].required < Len(neighbors[p])

\* A task that is not among those that leave the queue goes on.
LEMMA GoesOnAsTask ==
  ASSUME Types, NEW p \in Proxies, NEW gone \in SUBSET (DOMAIN task_queue[p]),
         task_queue' = [task_queue EXCEPT ![p] = TasksWithout(p, gone)],
         NEW q \in Proxies, NEW j \in DOMAIN task_queue[q], q = p => j \notin gone
  PROVE  Accounted(q, j)
<1>1. Left(gone, p) /\ \A r \in Proxies : r # p => task_queue'[r] = task_queue[r]
  BY TasksLeft
<1>2. CASE q # p
  BY <1>1, <1>2 DEF Accounted
<1>3. CASE q = p
  <2>1. PICK at \in [DOMAIN task_queue'[p] -> DOMAIN task_queue[p] \ gone] :
          /\ \A k \in DOMAIN task_queue'[p] : task_queue'[p][k] = task_queue[p][at[k]]
          /\ \A l \in DOMAIN task_queue[p] \ gone : \E k \in DOMAIN task_queue'[p] : at[k] = l
    BY <1>1, Zenon DEF Left
  <2>2. PICK k \in DOMAIN task_queue'[p] : at[k] = j
    BY <1>3, <2>1
  <2>3. task_queue'[p][k].id = task_queue[p][j].id
    BY <2>1, <2>2
  <2> QED
    BY <1>3, <2>3 DEF Accounted
<1> QED
  BY <1>2, <1>3

\* A task the database answers for is answered.
LEMMA FilterAccounts ==
  ASSUME Types, OnePlace, NEW p \in Proxies, NEW key, NEW asn_set, NEW found,
         found = Matching(p, asn_set, MaxAdvicedRelays), Learn(p, key, asn_set, found),
         NEW q \in Proxies, NEW j \in DOMAIN task_queue[q]
  PROVE  Accounted(q, j)
<1>0. PICK S : S = Served(p, key)
  OBVIOUS
<1>1. S \in SUBSET (DOMAIN task_queue[p])
  BY <1>0 DEF Served, Answered
<1>2. PICK n : n = Len(found)
  OBVIOUS
<1>3. n \in Nat
  <2>1. MaxAdvicedRelays \in Nat
    BY Bounds
  <2> QED
    BY <1>2, <2>1, MatchingList
<1>4. PICK count, relays : count = [k \in S |-> 1] /\ relays = [k \in S |-> n]
  OBVIOUS
<1>5. /\ count \in [S -> 0 .. 1] /\ (\A k \in S : count[k] = 1) /\ relays \in [S -> Nat]
  BY <1>3, <1>4
<1>6. /\ task_queue' = [task_queue EXCEPT ![p] = TasksWithout(p, S)]
      /\ Advise(OfTasks(p, count), OfTasks(p, relays))
  BY <1>0, <1>2, <1>4 DEF Learn
<1>7. CASE q = p /\ j \in S
  <2>1. answers'[task_queue[p][j].id] = answers[task_queue[p][j].id] + 1
    <3>1. \A k \in S : answers'[task_queue[p][k].id] = answers[task_queue[p][k].id] + count[k]
      BY <1>1, <1>5, <1>6, TasksAdvised
    <3>2. j \in S /\ count[j] = 1
      BY <1>5, <1>7
    <3> QED
      BY <3>1, <3>2
  <2>2. answers[task_queue[p][j].id] \in Nat
    BY <1>7, Queue DEF Types
  <2>3. answers'[task_queue[p][j].id] > answers[task_queue[p][j].id]
    BY ONLY <2>1, <2>2
  <2> QED
    BY <1>7, <2>3 DEF Accounted
<1>8. CASE ~ (q = p /\ j \in S)
  BY <1>1, <1>6, <1>8, GoesOnAsTask
<1> QED
  BY <1>7, <1>8

\* update draws a neighbour for a task if there is one and the task asks for
\* half of them or more: the last one always is among those with room.
LEMMA UpdateAccounts ==
  ASSUME Types, OnePlace, NEW p \in Proxies, AdvanceUpdate(p),
         NEW q \in Proxies, NEW j \in DOMAIN task_queue[q]
  PROVE  Accounted(q, j)
<1>0. PICK S : S = Expired(p)
  OBVIOUS
<1>1. S \in SUBSET (DOMAIN task_queue[p])
  BY <1>0 DEF Expired
<1>2. PICK chosen \in [S -> SUBSET (DOMAIN neighbors[p])] :
        /\ \A k \in S : chosen[k] \in Drawn(p, task_queue[p][k])
        /\ Advise(OfTasks(p, [k \in S |-> IF chosen[k] = {} THEN 0 ELSE 1]),
                  OfTasks(p, [k \in S |-> Cardinality(chosen[k])]))
  BY <1>0 DEF AdvanceUpdate
<1>3. PICK count, relays : /\ count = [k \in S |-> IF chosen[k] = {} THEN 0 ELSE 1]
                           /\ relays = [k \in S |-> Cardinality(chosen[k])]
  OBVIOUS
<1>4. /\ Len(neighbors[p]) \in Nat /\ DOMAIN neighbors[p] = 1 .. Len(neighbors[p])
      /\ Len(neighbors[p]) = 0 => neighbors[p] = <<>>
  BY Nodes
<1>5. count \in [S -> 0 .. 1] /\ relays \in [S -> Nat]
  <2>1. IsFiniteSet(1 .. Len(neighbors[p]))
    BY <1>4, FS_Interval
  <2>2. \A c \in SUBSET (DOMAIN neighbors[p]) : Cardinality(c) \in Nat
    BY <1>4, <2>1, FS_Subset, FS_CardinalityType
  <2>3. \A k \in S : Cardinality(chosen[k]) \in Nat
    BY <2>2
  <2> QED
    BY <1>3, <2>3
<1>6. /\ task_queue' = [task_queue EXCEPT ![p] = TasksWithout(p, S)]
      /\ Advise(OfTasks(p, count), OfTasks(p, relays))
  BY <1>0, <1>2, <1>3 DEF AdvanceUpdate
<1>7. CASE q = p /\ j \in S
  <2> DEFINE n == Len(neighbors[p])
             required == task_queue[p][j].required
  <2>1. SUFFICES ASSUME n # 0, ~ (2 * required < n) PROVE count[j] = 1
    <3>1. answers'[task_queue[p][j].id] = answers[task_queue[p][j].id] + count[j]
      BY <1>1, <1>5, <1>6, <1>7, TasksAdvised
    <3>2. answers[task_queue[p][j].id] \in Nat
      BY <1>7, Queue DEF Types
    <3>3. CASE count[j] = 1
      <4>1. answers'[task_queue[p][j].id] > answers[task_queue[p][j].id]
        BY ONLY <3>1, <3>2, <3>3
      <4> QED
        BY <1>7, <4>1 DEF Accounted
    <3>4. CASE n = 0 \/ 2 * required < n
      BY <1>4, <1>7, <3>4 DEF Accounted
    <3> QED
      BY <3>3, <3>4
  <2>2. required \in 0 .. 255 /\ MaxAdvicedRelays \in Nat \ {0} /\ n \in Nat
    BY <1>4, <1>7, Queue, Bounds
  <2>3. chosen[j] \in Drawn(p, task_queue[p][j])
    BY <1>2, <1>7
  <2>4. AllAdvised(task_queue[p][j], n)
    <3>1. 2 * required >= n
      <4> HIDE DEF n, required
      <4> QED
        BY <2>1, <2>2
    <3> QED
      BY <3>1 DEF AllAdvised
  <2>5. chosen[j] = {x \in 1 .. n : n - x < MaxAdvicedRelays}
    BY <2>3, <2>4 DEF Drawn
  <2>6. n \in {x \in 1 .. n : n - x < MaxAdvicedRelays}
    <3> HIDE DEF n
    <3> QED
      BY <2>1, <2>2
  <2>7. chosen[j] # {}
    BY <2>5, <2>6
  <2> QED
    BY <1>3, <1>7, <2>7
<1>8. CASE ~ (q = p /\ j \in S)
  BY <1>1, <1>6, <1>8, GoesOnAsTask
<1> QED
  BY <1>7, <1>8

\* A step that leaves every task where it is accounts for all of them.
LEMMA StaysAccounted ==
  ASSUME NEW q \in Proxies, NEW j \in DOMAIN task_queue[q],
         j \in DOMAIN task_queue'[q], task_queue'[q][j].id = task_queue[q][j].id
  PROVE  Accounted(q, j)
  BY DEF Accounted

\* No task ends unanswered unless no neighbour may be drawn for it: neither
\* process_rl_filter nor update drops one that has neighbours to be advised.
THEOREM TasksAreAnswered == Spec => NoSilentDrop
<1>1. ASSUME IInv, [Next]_vars, NEW q \in Proxies, NEW j \in DOMAIN task_queue[q]
      PROVE  Accounted(q, j)
  <2>0. Types /\ OnePlace
    BY <1>1 DEF IInv
  <2>1. CASE task_queue' = task_queue
    BY <2>1, StaysAccounted
  <2>2. CASE \E p \in Proxies : Runs(p)
    <3>1. PICK p \in Proxies : Runs(p)
      BY <2>2
    <3>2. CASE AdvanceUpdate(p)
      BY <2>0, <3>2, UpdateAccounts
    <3>3. CASE UNCHANGED knowledge
      BY <2>1, <3>3 DEF knowledge
    <3> QED
      BY <3>1, <3>2, <3>3 DEF Runs
  <2>3. CASE \E p \in Proxies : \E m \in net : DispatchInquiry(p, m)
    <3>1. PICK p \in Proxies, m \in net : DispatchInquiry(p, m)
      BY <2>3
    <3>2. CASE UNCHANGED knowledge
      BY <2>1, <3>2 DEF knowledge
    <3>3. CASE AskDatabase(p, m, OneHopLess(m))
      <4> DEFINE task == [id |-> m.id, required |-> m.required,
                          ttl |-> OneHopLess(m), age |-> 0]
      <4>1. task_queue' = [task_queue EXCEPT ![p] = Append(@, task)]
        BY <3>3 DEF AskDatabase
      <4>2. task_queue \in [Proxies -> Seq(Task)] /\ task_queue[p] \in Seq(Task)
        BY <2>0, Queue DEF Types
      <4> HIDE DEF task
      <4>3. CASE q = p
        <5> DEFINE t == task_queue[p]
        <5>1. task_queue'[p] = Append(t, task)
          BY <4>1, <4>2
        <5>2. t \in Seq(Task) /\ j \in DOMAIN t
          BY <4>2, <4>3
        <5> HIDE DEF t
        <5>3. j \in DOMAIN Append(t, task) /\ Append(t, task)[j] = t[j]
          BY ONLY <5>2
        <5>4. j \in DOMAIN task_queue'[q] /\ task_queue'[q][j] = task_queue[q][j]
          BY ONLY <4>3, <5>1, <5>3 DEF t
        <5> QED
          BY <5>4, StaysAccounted
      <4>4. CASE q # p
        <5>1. task_queue'[q] = task_queue[q]
          BY <4>1, <4>2, <4>4
        <5> QED
          BY <5>1, StaysAccounted
      <4> QED
        BY <4>3, <4>4
    <3> QED
      BY <3>1, <3>2, <3>3 DEF DispatchInquiry, AdvanceInquiry, AnswerFromCache
  <2>4. CASE \E p \in Proxies : \E key \in AsnPairs, asn_set \in Knowledge :
               DispatchFilter(p, key, asn_set)
    <3>1. PICK p \in Proxies, key \in AsnPairs, asn_set \in Knowledge :
               DispatchFilter(p, key, asn_set)
      BY <2>4
    <3>2. PICK found : found = Matching(p, asn_set, MaxAdvicedRelays)
      OBVIOUS
    <3>3. Learn(p, key, asn_set, found) \/ UNCHANGED task_queue
      BY <3>1, <3>2 DEF DispatchFilter, AdvanceFilter
    <3> QED
      BY <2>0, <2>1, <3>2, <3>3, FilterAccounts
  <2>5. CASE Tick
    <3>1. Older
      BY <2>5 DEF Tick
    <3> QED
      BY <2>0, <3>1, AllOlder, StaysAccounted
  <2>6. CASE \E p \in Proxies : \/ Selects(p) \/ Wakes(p) \/ DispatchOther(p)
                                \/ NeighborsChange(p)
                                \/ \E i \in Inquiries : ClientAsks(p, i)
    BY <2>1, <2>6 DEF Selects, Wakes, DispatchOther, NeighborsChange, ClientAsks, knowledge
  <2>7. CASE \E m \in net, i \in tosend : Duplicates(m, i)
    BY <2>1, <2>7 DEF Duplicates, knowledge
  <2>8. CASE UNCHANGED vars
    BY <2>1, <2>8 DEF vars, knowledge
  <2> QED
    BY <1>1, <2>2, <2>3, <2>4, <2>5, <2>6, <2>7, <2>8, Zenon DEF Next, Loop
<1>2. IInv /\ [Next]_vars =>
        [\A p \in Proxies : \A j \in DOMAIN task_queue[p] :
           LET task == task_queue[p][j]
           IN  \/ \E n \in DOMAIN task_queue'[p] : task_queue'[p][n].id = task.id
               \/ answers'[task.id] > answers[task.id]
               \/ neighbors[p] = <<>>
               \/ 2 * task.required < Len(neighbors[p])]_vars
  BY <1>1, Zenon DEF Accounted
<1> QED
  BY Invariance, <1>2, PTL DEF Spec, NoSilentDrop

-----------------------------------------------------------------------------
(* The database server *)

\* Records behind those that fill a packet do not show in it.
LEMMA FullStays ==
  ASSUME NEW S, NEW s \in Seq(S), NEW t \in Seq(S), NEW bound \in Nat,
         Len(UpTo(s, bound)) = bound
  PROVE  UpTo(s \o t, bound) = UpTo(s, bound)
<1>1. s \o t \in Seq(S) /\ Len(s \o t) = Len(s) + Len(t) /\ Len(s) \in Nat /\ Len(t) \in Nat
  OBVIOUS
<1>2. \A i \in 1 .. Len(s) : (s \o t)[i] = s[i]
  OBVIOUS
<1>3. /\ UpTo(s, bound) \in Seq(S) /\ bound <= Len(s)
      /\ \A i \in 1 .. bound : UpTo(s, bound)[i] = s[i]
  BY <1>1, UpToPrefix
<1>4. /\ UpTo(s \o t, bound) \in Seq(S) /\ Len(UpTo(s \o t, bound)) = bound
      /\ \A i \in 1 .. bound : UpTo(s \o t, bound)[i] = (s \o t)[i]
  <2>1. /\ UpTo(s \o t, bound) \in Seq(S)
        /\ Len(UpTo(s \o t, bound)) = IF Len(s \o t) < bound THEN Len(s \o t) ELSE bound
        /\ \A i \in 1 .. Len(UpTo(s \o t, bound)) : UpTo(s \o t, bound)[i] = (s \o t)[i]
    BY ONLY <1>1, bound \in Nat, UpToPrefix
  <2>2. bound <= Len(s \o t)
    BY ONLY <1>1, <1>3, bound \in Nat
  <2>3. Len(UpTo(s \o t, bound)) = bound
    BY ONLY <1>1, <2>1, <2>2, bound \in Nat
  <2> QED
    BY <2>1, <2>3
<1>5. \A i \in 1 .. bound : UpTo(s \o t, bound)[i] = UpTo(s, bound)[i]
  BY ONLY <1>1, <1>2, <1>3, <1>4, bound \in Nat
<1> QED
  BY ONLY <1>3, <1>4, <1>5, Len(UpTo(s, bound)) = bound, SeqEqual

\* The records are rows of the table, none of which was ever deleted, and the
\* last answer is of the oldest of them.
RecordsAreRows ==
  /\ \A i \in 1 .. Len(m_s) : \E j \in 1 .. Len(path) : path[j] = m_s[i]
  /\ answer = UpTo(m_s, MaxAdvicedRelays)

DatabaseIInv == DatabaseInv /\ RecordsAreRows

\* The rows of a relay.
Rows(table, r) == {i \in DOMAIN table : table[i] = r}

\* A row more for e, and for no other.
LEMMA OneRowMore ==
  ASSUME NEW s \in Seq(Relays), NEW e \in Relays, NEW r \in Relays
  PROVE  /\ Cardinality(Rows(s, r)) \in Nat
         /\ Cardinality(Rows(s \o <<e>>, r))
              = Cardinality(Rows(s, r)) + (IF r = e THEN 1 ELSE 0)
<1>1. /\ Len(s) \in Nat /\ DOMAIN s = 1 .. Len(s)
      /\ DOMAIN (s \o <<e>>) = 1 .. Len(s) + 1
      /\ \A i \in 1 .. Len(s) : (s \o <<e>>)[i] = s[i]
      /\ (s \o <<e>>)[Len(s) + 1] = e
  OBVIOUS
<1>2. IsFiniteSet(Rows(s, r)) /\ Cardinality(Rows(s, r)) \in Nat
  <2>1. IsFiniteSet(1 .. Len(s)) /\ Rows(s, r) \subseteq 1 .. Len(s)
    BY <1>1, FS_Interval DEF Rows
  <2> QED
    BY <2>1, FS_Subset, FS_CardinalityType
<1>3. Len(s) + 1 \notin Rows(s, r)
  BY <1>1 DEF Rows
<1>4. CASE r = e
  <2>1. Rows(s \o <<e>>, r) = Rows(s, r) \cup {Len(s) + 1}
    BY <1>1, <1>4 DEF Rows
  <2> QED
    BY <1>2, <1>3, <1>4, <2>1, FS_AddElement
<1>5. CASE r # e
  <2>1. Rows(s \o <<e>>, r) = Rows(s, r)
    BY <1>1, <1>5 DEF Rows
  <2> QED
    BY <1>2, <1>5, <2>1
<1> QED
  BY <1>4, <1>5

\* What a report stores: nothing, or its first entry, which it counts.
LEMMA ReportStores ==
  ASSUME DatabaseIInv, NEW list \in Reports, ProcessReport(list)
  PROVE  /\ reported' \in [Relays -> Nat]
         /\ \A r \in Relays : reported[r] <= reported'[r]
         /\ \/ path' = path
            \/ \E e \in Relays : path' = path \o <<e>> /\ reported'[e] > reported[e]
<1> DEFINE told == CorsReport(Net, Net, list).reports
           times(r) == Cardinality(Rows(told, r))
<1>1. list \in Seq(Relays)
  <2>1. PICK m \in 0 .. MaxEntries : list \in [1 .. m -> Relays]
    BY DEF Reports, BoundedSeq, SeqOf
  <2>2. m \in Nat
    BY TranslatorAssumption DEF TranslatorAssumption
  <2> QED
    BY <2>1, <2>2
<1>2. told = UpTo(list, MaxReportEntrys) /\ MaxReportEntrys \in Nat
  BY ProtocolAssumption DEF CorsReport, ProtocolAssumption
<1>3. told \in Seq(Relays)
  BY ONLY <1>1, <1>2, UpToPrefix
<1>4. reported' = [r \in Relays |-> reported[r] + times(r)]
  BY DEF ProcessReport, Rows
<1>5. /\ \/ path' = path
         \/ told # <<>> /\ \E ok \in BOOLEAN : path' = path \o Stored(told, ok)
  BY DEF ProcessReport
<1>6. path \in Seq(Relays) /\ reported \in [Relays -> Nat]
  BY DEF DatabaseIInv, DatabaseInv, DatabaseTypes
<1> HIDE DEF told
<1>7. ASSUME NEW r \in Relays
      PROVE  times(r) \in Nat /\ (\A i \in 1 .. Len(told) : told[i] = r => times(r) > 0)
  <2>1. IsFiniteSet(Rows(told, r))
    <3>1. IsFiniteSet(1 .. Len(told)) /\ Rows(told, r) \subseteq 1 .. Len(told)
      BY <1>3, FS_Interval DEF Rows
    <3> QED
      BY <3>1, FS_Subset
  <2>2. times(r) \in Nat
    BY <2>1, FS_CardinalityType
  <2>3. ASSUME NEW i \in 1 .. Len(told), told[i] = r PROVE times(r) > 0
    <3>1. Rows(told, r) # {}
      BY <1>3, <2>3 DEF Rows
    <3>2. times(r) # 0
      BY <2>1, <3>1, FS_EmptySet
    <3> QED
      BY ONLY <2>2, <3>2
  <2> QED
    BY <2>2, <2>3
<1> HIDE DEF times
<1>8. reported' \in [Relays -> Nat] /\ \A r \in Relays : reported[r] <= reported'[r]
  BY <1>4, <1>6, <1>7
<1>9. CASE told # <<>>
  <2>1. 1 \in 1 .. Len(told) /\ told[1] \in Relays
    BY <1>3, <1>9
  <2>2. Inserted(told) = <<told[1]>>
    <3>1. Len(told) \in Nat /\ 1 \in 0 .. Len(told)
      BY <1>3, <2>1
    <3>2. SubSeq(told, 1, 1) \in Seq(Relays) /\ Len(SubSeq(told, 1, 1)) = 1
          /\ \A i \in 1 .. 1 : SubSeq(told, 1, 1)[i] = told[i]
      BY ONLY <1>3, <3>1, PrefixEntries
    <3>3. /\ <<told[1]>> \in Seq(Relays) /\ Len(<<told[1]>>) = 1
          /\ \A i \in 1 .. 1 : <<told[1]>>[i] = told[1] /\ i = 1
      BY ONLY <2>1
    <3>4. SubSeq(told, 1, 1) = <<told[1]>>
      BY ONLY <3>2, <3>3, SeqEqual
    <3> QED
      BY <3>4 DEF Inserted
  <2>3. reported'[told[1]] > reported[told[1]]
    BY <1>4, <1>6, <1>7, <2>1
  <2>4. path \o <<>> = path
    BY <1>6
  <2> QED
    BY <1>5, <1>8, <2>1, <2>2, <2>3, <2>4 DEF Stored
<1> QED
  BY <1>5, <1>8, <1>9

\* A report keeps the invariant.
LEMMA ReportKeeps ==
  ASSUME DatabaseIInv, NEW list \in Reports, ProcessReport(list)
  PROVE  DatabaseIInv'
<1>1. /\ reports < MaxReports /\ reports' = reports + 1
      /\ executed' \in {-1, executed}
      /\ UNCHANGED <<m_s, pos, m_recordcount, answer, inquiries>>
  BY DEF ProcessReport
<1>2. /\ path \in Seq(Relays) /\ reported \in [Relays -> Nat]
      /\ reports \in 0 .. MaxReports /\ inquiries \in 0 .. MaxInquiries
      /\ executed \in Nat \cup {-1} /\ pos \in Nat /\ pos <= Len(m_s)
      /\ m_s \in Seq(Relays) /\ m_recordcount \in Nat
      /\ answer \in Seq(Relays) /\ Len(answer) <= MaxAdvicedRelays
      /\ \A r \in Relays : Cardinality(Rows(path, r)) <= reported[r]
      /\ RecordsAreRows
  BY DEF DatabaseIInv, DatabaseInv, DatabaseTypes, RowsAreReported, Rows
<1>3. reported' \in [Relays -> Nat] /\ \A r \in Relays : reported[r] <= reported'[r]
  BY ReportStores
<1>4. reports' \in 0 .. MaxReports
  <2>1. MaxReports \in Nat
    BY TranslatorAssumption DEF TranslatorAssumption
  <2> QED
    BY ONLY <1>1, <1>2, <2>1
<1>5. /\ path' \in Seq(Relays)
      /\ \A r \in Relays : Cardinality(Rows(path', r)) <= reported'[r]
      /\ \A i \in 1 .. Len(path) : i \in 1 .. Len(path') /\ path'[i] = path[i]
  <2>1. CASE path' = path
    <3>1. ASSUME NEW r \in Relays PROVE Cardinality(Rows(path', r)) <= reported'[r]
      <4>1. Cardinality(Rows(path, r)) \in Nat
        BY <1>2, OneRowMore
      <4>2. reported[r] \in Nat /\ reported'[r] \in Nat
        BY <1>2, <1>3
      <4>3. Cardinality(Rows(path, r)) <= reported[r] /\ reported[r] <= reported'[r]
        BY <1>2, <1>3
      <4> QED
        BY ONLY <2>1, <4>1, <4>2, <4>3
    <3> QED
      BY <1>2, <2>1, <3>1
  <2>2. CASE \E e \in Relays : path' = path \o <<e>> /\ reported'[e] > reported[e]
    <3>1. PICK e \in Relays : path' = path \o <<e>> /\ reported'[e] > reported[e]
      BY <2>2
    <3>2. ASSUME NEW r \in Relays PROVE Cardinality(Rows(path', r)) <= reported'[r]
      <4>1. /\ Cardinality(Rows(path, r)) \in Nat
            /\ Cardinality(Rows(path', r))
                 = Cardinality(Rows(path, r)) + (IF r = e THEN 1 ELSE 0)
        BY <1>2, <3>1, OneRowMore
      <4>2. reported[r] \in Nat /\ reported'[r] \in Nat
        BY <1>2, <1>3
      <4>3. Cardinality(Rows(path, r)) <= reported[r] /\ reported[r] <= reported'[r]
        BY <1>2, <1>3
      <4>4. r = e => reported'[r] > reported[r]
        BY <3>1
      <4> QED
        BY ONLY <4>1, <4>2, <4>3, <4>4
    <3>3. /\ path \o <<e>> \in Seq(Relays)
          /\ \A i \in 1 .. Len(path) : i \in 1 .. Len(path \o <<e>>) /\ (path \o <<e>>)[i] = path[i]
      BY ONLY <1>2, e \in Relays
    <3> QED
      BY <3>1, <3>2, <3>3
  <2> QED
    BY <2>1, <2>2, ReportStores
<1>6. RecordsAreRows'
  <2>1. \A i \in 1 .. Len(m_s) : \E j \in 1 .. Len(path') : path'[j] = m_s[i]
    BY ONLY <1>2, <1>5 DEF RecordsAreRows
  <2>2. answer' = UpTo(m_s', MaxAdvicedRelays)
    BY <1>1, <1>2 DEF RecordsAreRows
  <2> QED
    BY <1>1, <2>1, <2>2 DEF RecordsAreRows
<1>7. DatabaseTypes'
  BY <1>1, <1>2, <1>3, <1>4, <1>5 DEF DatabaseTypes
<1>8. RowsAreReported'
  BY <1>1, <1>2, <1>5 DEF RowsAreReported, Rows
<1> QED
  BY <1>6, <1>7, <1>8 DEF DatabaseIInv, DatabaseInv

\* An inquiry keeps the invariant; where its query succeeds the records end with
\* all the rows of the table.
LEMMA InquiryKeeps ==
  ASSUME DatabaseIInv, ProcessInquiry
  PROVE  /\ DatabaseIInv'
         /\ path' = path
         /\ m_s' = m_s \/ m_s' = m_s \o path
         /\ executed' # -1 => m_s' = m_s \o path
         /\ answer' = UpTo(m_s', MaxAdvicedRelays)
<1>1. /\ inquiries < MaxInquiries /\ inquiries' = inquiries + 1
      /\ pos' = Len(m_s') /\ Select
      /\ UNCHANGED <<path, reported, reports>>
      /\ answer' = UpTo(SubSeq(m_s', 1, Len(m_s')), MaxAdvicedRelays)
  BY DEF ProcessInquiry, CorsAdvice, MoveFirst
<1>2. /\ path \in Seq(Relays) /\ reported \in [Relays -> Nat]
      /\ reports \in 0 .. MaxReports /\ inquiries \in 0 .. MaxInquiries
      /\ m_s \in Seq(Relays) /\ m_recordcount \in Nat
      /\ RowsAreReported /\ RecordsAreRows
  BY DEF DatabaseIInv, DatabaseInv, DatabaseTypes
<1>3. /\ m_s' \in Seq(Relays) /\ m_recordcount' \in Nat
      /\ executed' \in Nat \cup {-1}
      /\ m_s' = m_s \/ m_s' = m_s \o path
      /\ executed' # -1 => m_s' = m_s \o path
  <2>1. CASE /\ m_s' = m_s \o path
             /\ m_recordcount' = Len(path)
             /\ executed' = Len(m_s')
    <3>1. m_s' \in Seq(Relays) /\ Len(path) \in Nat
      BY <1>2, <2>1
    <3>2. Len(m_s') \in Nat
      BY <3>1
    <3> QED
      BY <2>1, <3>1, <3>2
  <2>2. CASE executed' = -1 /\ UNCHANGED <<m_s, m_recordcount>>
    BY <1>2, <2>2
  <2> QED
    BY <1>1, <2>1, <2>2 DEF Select, Fetched
<1>4. SubSeq(m_s', 1, Len(m_s')) = m_s'
  <2>1. Len(m_s') \in 0 .. Len(m_s') /\ Len(m_s') \in Nat
    BY <1>3
  <2>2. /\ SubSeq(m_s', 1, Len(m_s')) \in Seq(Relays)
        /\ Len(SubSeq(m_s', 1, Len(m_s'))) = Len(m_s')
        /\ \A i \in 1 .. Len(m_s') : SubSeq(m_s', 1, Len(m_s'))[i] = m_s'[i]
    BY ONLY <1>3, <2>1, PrefixEntries
  <2> QED
    BY ONLY <1>3, <2>2, SeqEqual
<1>5. answer' = UpTo(m_s', MaxAdvicedRelays)
  BY <1>1, <1>4
<1>6. answer' \in Seq(Relays) /\ Len(answer') <= MaxAdvicedRelays
  <2>1. MaxAdvicedRelays \in Nat
    BY ProtocolAssumption DEF ProtocolAssumption
  <2>2. Len(m_s') \in Nat
    BY <1>3
  <2>3. /\ UpTo(m_s', MaxAdvicedRelays) \in Seq(Relays)
        /\ Len(UpTo(m_s', MaxAdvicedRelays))
             = IF Len(m_s') < MaxAdvicedRelays THEN Len(m_s') ELSE MaxAdvicedRelays
    BY ONLY <1>3, <2>1, UpToPrefix
  <2> QED
    BY ONLY <1>5, <2>1, <2>2, <2>3
<1>7. inquiries' \in 0 .. MaxInquiries
  <2>1. MaxInquiries \in Nat
    BY TranslatorAssumption DEF TranslatorAssumption
  <2> QED
    BY ONLY <1>1, <1>2, <2>1
<1>8. DatabaseTypes'
  BY <1>1, <1>2, <1>3, <1>6, <1>7 DEF DatabaseTypes
<1>9. RowsAreReported'
  BY <1>1, <1>2, <1>3 DEF RowsAreReported
<1>10. RecordsAreRows'
  <2>1. \A i \in 1 .. Len(m_s') : \E j \in 1 .. Len(path) : path[j] = m_s'[i]
    <3>1. CASE m_s' = m_s
      BY <1>2, <3>1 DEF RecordsAreRows
    <3>2. CASE m_s' = m_s \o path
      <4> SUFFICES ASSUME NEW i \in 1 .. Len(m_s')
                   PROVE  \E j \in 1 .. Len(path) : path[j] = m_s'[i]
        OBVIOUS
      <4>1. CASE i <= Len(m_s)
        <5>1. i \in 1 .. Len(m_s) /\ m_s'[i] = m_s[i]
          BY <1>2, <3>2, <4>1
        <5> QED
          BY <1>2, <5>1 DEF RecordsAreRows
      <4>2. CASE i > Len(m_s)
        <5>1. i - Len(m_s) \in 1 .. Len(path) /\ m_s'[i] = path[i - Len(m_s)]
          BY <1>2, <3>2, <4>2
        <5> QED
          BY <5>1
      <4>3. i \in Nat /\ Len(m_s) \in Nat
        BY <1>2, <1>3
      <4> QED
        BY <4>1, <4>2, <4>3
    <3> QED
      BY <1>3, <3>1, <3>2
  <2> QED
    BY <1>1, <1>5, <2>1 DEF RecordsAreRows
<1> QED
  BY <1>1, <1>3, <1>5, <1>8, <1>9, <1>10 DEF DatabaseIInv, DatabaseInv

\* Every state of the database server satisfies its inductive invariant.
LEMMA DatabaseInvariance == TranslatorSpec => []DatabaseIInv
<1>1. TranslatorInit => DatabaseIInv
  <2> SUFFICES ASSUME TranslatorInit PROVE DatabaseIInv
    OBVIOUS
  <2>1. UpTo(<<>>, MaxAdvicedRelays) = <<>> /\ 0 <= MaxAdvicedRelays
    BY ProtocolAssumption DEF UpTo, ProtocolAssumption
  <2>2. \A r \in Relays : Cardinality({i \in DOMAIN path : path[i] = r}) = 0
    <3>1. \A r \in Relays : {i \in DOMAIN path : path[i] = r} = {}
      BY DEF TranslatorInit
    <3> QED
      BY <3>1, FS_EmptySet
  <2>3. RowsAreReported /\ RecordsAreRows
    BY <2>1, <2>2 DEF TranslatorInit, RowsAreReported, RecordsAreRows
  <2>4. DatabaseTypes
    BY <2>1, TranslatorAssumption DEF TranslatorInit, DatabaseTypes, TranslatorAssumption
  <2> QED
    BY <2>3, <2>4 DEF DatabaseIInv, DatabaseInv
<1>2. DatabaseIInv /\ [TranslatorNext]_database => DatabaseIInv'
  <2> SUFFICES ASSUME DatabaseIInv, [TranslatorNext]_database PROVE DatabaseIInv'
    OBVIOUS
  <2>1. CASE ProcessInquiry
    BY <2>1, InquiryKeeps
  <2>2. CASE \E list \in Reports : ProcessReport(list)
    BY <2>2, ReportKeeps
  <2>3. CASE UNCHANGED database
    BY <2>3 DEF database, recordset, DatabaseIInv, DatabaseInv, DatabaseTypes,
                RowsAreReported, RecordsAreRows
  <2> QED
    BY <2>1, <2>2, <2>3 DEF TranslatorNext
<1> QED
  BY <1>1, <1>2, PTL DEF TranslatorSpec

\* The table never has more rows of a relay than reports of it, whichever
\* queries fail and however many entries a report has.
THEOREM TableIsReported == TranslatorSpec => []DatabaseInv
<1>1. DatabaseIInv => DatabaseInv
  BY DEF DatabaseIInv
<1> QED
  BY DatabaseInvariance, <1>1, PTL

\* As long as the records fit in a packet, an inquiry whose query succeeds is
\* answered with every relay of the table.
THEOREM AnswersHaveTheTable == TranslatorSpec => AnswersAreFresh
<1>1. DatabaseIInv /\ [TranslatorNext]_database
        => [inquiries' > inquiries /\ executed' # -1 /\ Len(m_s') <= MaxAdvicedRelays
              => \A i \in DOMAIN path : Contains(answer', path[i])]_database
  <2> SUFFICES ASSUME DatabaseIInv, [TranslatorNext]_database, inquiries' > inquiries,
                      executed' # -1, Len(m_s') <= MaxAdvicedRelays,
                      NEW i \in DOMAIN path
               PROVE  Contains(answer', path[i])
    OBVIOUS
  <2>1. inquiries \in Nat
    BY DEF DatabaseIInv, DatabaseInv, DatabaseTypes
  <2>2. ProcessInquiry
    <3>1. inquiries' # inquiries
      BY ONLY <2>1, inquiries' > inquiries
    <3> QED
      BY <3>1 DEF TranslatorNext, ProcessReport, database
  <2>3. m_s' = m_s \o path /\ answer' = UpTo(m_s', MaxAdvicedRelays)
    BY <2>2, InquiryKeeps
  <2>4. path \in Seq(Relays) /\ m_s \in Seq(Relays)
    BY DEF DatabaseIInv, DatabaseInv, DatabaseTypes
  <2>5. MaxAdvicedRelays \in Nat
    BY ProtocolAssumption DEF ProtocolAssumption
  <2>6. /\ m_s' \in Seq(Relays) /\ Len(m_s') \in Nat
        /\ Len(m_s) + i \in 1 .. Len(m_s') /\ m_s'[Len(m_s) + i] = path[i]
    BY <2>3, <2>4
  <2>7. /\ Len(answer') = IF Len(m_s') < MaxAdvicedRelays THEN Len(m_s')
                                                          ELSE MaxAdvicedRelays
        /\ answer' \in Seq(Relays)
        /\ \A j \in 1 .. Len(answer') : answer'[j] = m_s'[j]
    BY ONLY <2>3, <2>5, <2>6, UpToPrefix
  <2>8. Len(m_s) + i \in 1 .. Len(answer')
    BY ONLY <2>5, <2>6, <2>7, Len(m_s') <= MaxAdvicedRelays
  <2>9. answer'[Len(m_s) + i] = path[i]
    BY <2>6, <2>7, <2>8
  <2>10. DOMAIN answer' = 1 .. Len(answer')
    BY <2>7
  <2> QED
    BY <2>8, <2>9, <2>10 DEF Contains
<1> QED
  BY DatabaseInvariance, <1>1, PTL DEF TranslatorSpec, AnswersAreFresh

\* Every relay of an answer was reported at some time (translator.cpp:241-277
\* answers whatever the records hold, rows of former queries included).
AnswersWereReported == \A i \in DOMAIN answer : reported[answer[i]] > 0

\* No answer names a relay that nobody reported.
THEOREM OnlyReportedRelays == TranslatorSpec => []AnswersWereReported
<1>1. DatabaseIInv => AnswersWereReported
  <2> SUFFICES ASSUME DatabaseIInv, NEW i \in DOMAIN answer PROVE reported[answer[i]] > 0
    BY DEF AnswersWereReported
  <2>1. /\ path \in Seq(Relays) /\ m_s \in Seq(Relays) /\ reported \in [Relays -> Nat]
        /\ answer \in Seq(Relays) /\ answer = UpTo(m_s, MaxAdvicedRelays)
    BY DEF DatabaseIInv, DatabaseInv, DatabaseTypes, RecordsAreRows
  <2>2. MaxAdvicedRelays \in Nat
    BY ProtocolAssumption DEF ProtocolAssumption
  <2>3. i \in 1 .. Len(answer) /\ answer[i] \in Relays
    BY <2>1
  <2>4. i \in 1 .. Len(m_s) /\ answer[i] = m_s[i]
    <3>1. /\ Len(answer) = IF Len(m_s) < MaxAdvicedRelays THEN Len(m_s) ELSE MaxAdvicedRelays
          /\ \A j \in 1 .. Len(answer) : answer[j] = m_s[j]
      BY ONLY <2>1, <2>2, UpToPrefix
    <3>2. Len(m_s) \in Nat
      BY <2>1
    <3> QED
      BY ONLY <2>2, <2>3, <3>1, <3>2
  <2>5. PICK j \in 1 .. Len(path) : path[j] = m_s[i]
    BY <2>4 DEF DatabaseIInv, RecordsAreRows
  <2> DEFINE r == answer[i]
  <2>6. Rows(path, r) # {}
    BY <2>1, <2>4, <2>5 DEF Rows
  <2>7. IsFiniteSet(Rows(path, r))
    <3>1. IsFiniteSet(1 .. Len(path)) /\ Rows(path, r) \subseteq 1 .. Len(path)
      <4>1. DOMAIN path = 1 .. Len(path) /\ Len(path) \in Int
        BY <2>1
      <4>2. Rows(path, r) \subseteq DOMAIN path
        BY DEF Rows
      <4> QED
        BY ONLY <4>1, <4>2, FS_Interval
    <3> QED
      BY <3>1, FS_Subset
  <2>8. Cardinality(Rows(path, r)) \in Nat /\ Cardinality(Rows(path, r)) # 0
    BY <2>6, <2>7, FS_CardinalityType, FS_EmptySet
  <2>9. Cardinality(Rows(path, r)) <= reported[r] /\ reported[r] \in Nat
    BY <2>1, <2>3 DEF DatabaseIInv, DatabaseInv, RowsAreReported, Rows
  <2> QED
    BY ONLY <2>8, <2>9
<1> QED
  BY DatabaseInvariance, <1>1, PTL

\* An answer that fills its packet is given to every later inquiry too: rows are
\* fetched behind those of former queries (cors_mysql.cpp:235), and what is
\* reported from then on is never told.
FullAnswersStay ==
  [][Len(answer) = MaxAdvicedRelays => answer' = answer]_database

\* The answers of the server become stale for good once they are full.
THEOREM FullAnswersNeverChange == TranslatorSpec => FullAnswersStay
<1>1. DatabaseIInv /\ [TranslatorNext]_database
        => [Len(answer) = MaxAdvicedRelays => answer' = answer]_database
  <2> SUFFICES ASSUME DatabaseIInv, [TranslatorNext]_database,
                      Len(answer) = MaxAdvicedRelays
               PROVE  answer' = answer
    OBVIOUS
  <2>1. CASE ProcessInquiry
    <3>1. /\ m_s' = m_s \/ m_s' = m_s \o path
          /\ answer' = UpTo(m_s', MaxAdvicedRelays)
      BY <2>1, InquiryKeeps
    <3>2. path \in Seq(Relays) /\ m_s \in Seq(Relays) /\ answer = UpTo(m_s, MaxAdvicedRelays)
      BY DEF DatabaseIInv, DatabaseInv, DatabaseTypes, RecordsAreRows
    <3>3. MaxAdvicedRelays \in Nat
      BY ProtocolAssumption DEF ProtocolAssumption
    <3>4. UpTo(m_s \o path, MaxAdvicedRelays) = UpTo(m_s, MaxAdvicedRelays)
      <4>1. Len(UpTo(m_s, MaxAdvicedRelays)) = MaxAdvicedRelays
        BY <3>2
      <4> QED
        BY ONLY <3>2, <3>3, <4>1, FullStays
    <3> QED
      BY <3>1, <3>2, <3>4
  <2>2. CASE ~ ProcessInquiry
    BY <2>2 DEF TranslatorNext, ProcessReport, database
  <2> QED
    BY <2>1, <2>2
<1> QED
  BY DatabaseInvariance, <1>1, PTL DEF TranslatorSpec, FullAnswersStay

=============================================================================
