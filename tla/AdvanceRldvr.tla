---------------------------- MODULE AdvanceRldvr ----------------------------
(***************************************************************************)
(* The relay advisor with knowledge (proxy/advancerldvr.cpp): it answers   *)
(* an inquiry from its cache of what the database knows, or keeps it as a  *)
(* task, asks the database, and answers when the database does, or at      *)
(* random when it does not in time.  What its own neighbours cannot give   *)
(* it asks the last one of them for.                                       *)
(*                                                                         *)
(* Times are kept as ages in seconds.                                      *)
(***************************************************************************)
EXTENDS RelayAdvisor

CONSTANTS
  Knowledge,   \* sets of AS numbers the database may name
  CacheLife    \* seconds an entry of the cache is good for: 120

ASSUME AdvanceAssumption == CacheLife \in Nat

VARIABLES
  asn_cache,   \* AS pair -> none or the AS set of the entry and its age
  task_queue,  \* inquiries to be answered, the oldest first
  asked        \* AS pairs the database was asked for

knowledge == <<asn_cache, task_queue, asked>>

AsnPairs == {AsnPair[i] : i \in Inquiries}

NoEntry == [asn_set |-> {}, age |-> -1]
Known(p, key) == asn_cache[p][key] # NoEntry

AdvanceInit ==
  /\ asn_cache = [p \in Proxies |-> [key \in AsnPairs |-> NoEntry]]
  /\ task_queue = [p \in Proxies |-> <<>>]
  /\ asked = [p \in Proxies |-> {}]

\* The neighbours in an AS set, from the last on, up to a bound.
Matching(p, asn_set, bound) ==
  UpTo(Among(Reverse(neighbors[p]), {x \in DOMAIN Asn : Asn[x] \in asn_set}), bound)

\* The inquiries that go on to the last neighbour, of which m was answered
\* with so many relays.
Forwarded(p, m, ttl, n) ==
  IF n < m.required /\ ttl > 0
  THEN {Inquiry(Last(neighbors[p]), m.id, StillRequired(m, n), ttl)} ELSE {}

-----------------------------------------------------------------------------
(* process_rl_inquiry *)

AnswerFromCache(p, m, ttl) ==
  LET found == Matching(p, asn_cache[p][AsnPair[m.id]].asn_set, m.required)
  IN  /\ AdviseOne(m, UpTo(found, MaxAdvicedRelays))
      /\ net' = (net \ {m}) \cup Sent(Forwarded(p, m, ttl, Len(found)))
      /\ UNCHANGED knowledge

AskDatabase(p, m, ttl) ==
  LET task == [id |-> m.id, required |-> m.required, ttl |-> ttl, age |-> 0]
  IN  /\ task_queue' = [task_queue EXCEPT ![p] = Append(@, task)]
      /\ asked' = [asked EXCEPT ![p] = @ \cup {AsnPair[m.id]}]
      /\ net' = net \ {m}
      /\ UNCHANGED <<asn_cache, advice>>

AdvanceInquiry(p, m) ==
  IF neighbors[p] = <<>> \/ m.required = 0
  THEN net' = net \ {m} /\ UNCHANGED <<knowledge, advice>>
  ELSE IF Known(p, AsnPair[m.id])
  THEN AnswerFromCache(p, m, OneHopLess(m))
  ELSE AskDatabase(p, m, OneHopLess(m))

-----------------------------------------------------------------------------
(* process_rl_filter: the database names the AS set of a pair *)

Answered(p, key) == {j \in DOMAIN task_queue[p] : AsnPair[task_queue[p][j].id] = key}
AnsweredFirst(p, key) == {j \in Answered(p, key) : \A i \in Answered(p, key) : j <= i}

\* Which of the tasks the answer of the database is for.
ServedFirst(p, key) == AnsweredFirst(p, key)
Served(p, key) == Answered(p, key)

TasksWithout(p, gone) == Only(task_queue[p], DOMAIN task_queue[p] \ gone)

\* What the tasks of each inquiry sum up to.
Total(amount, S) == FoldSet(LAMBDA j, sum : sum + amount[j], 0, S)
OfTasks(p, amount) ==
  [i \in Inquiries |-> Total(amount, {j \in DOMAIN amount : task_queue[p][j].id = i})]

Learn(p, key, asn_set, found) ==
  LET served == Served(p, key)
  IN  /\ asn_cache' = [asn_cache EXCEPT ![p][key] = [asn_set |-> asn_set, age |-> 0]]
      /\ task_queue' = [task_queue EXCEPT ![p] = TasksWithout(p, served)]
      /\ Advise(OfTasks(p, [j \in served |-> 1]), OfTasks(p, [j \in served |-> Len(found)]))
      /\ net' = net \cup Sent(UNION {Forwarded(p, task_queue[p][j], task_queue[p][j].ttl,
                                               Len(found)) : j \in served})

\* A filter that names no neighbour is ignored: its tasks stay.  The database
\* is asked once for every task, so that answers for a pair come late and more
\* than once.
AdvanceFilter(p, key, asn_set) ==
  LET packet == CorsAdvice("TYPE_RLY_FILTER", key, key, SetToSeq(asn_set))
      found  == Matching(p, asn_set, MaxAdvicedRelays)
  IN  /\ key \in asked[p]
      /\ IF AdviceParses(packet, AdviceLen(packet)) /\ found # <<>>
         THEN Learn(p, key, asn_set, found)
         ELSE UNCHANGED <<asn_cache, task_queue, net, advice>>
      /\ UNCHANGED asked

-----------------------------------------------------------------------------
(* update, once a second *)

\* From the front on, up to the first task that is not a second old.
Expired(p) == {j \in DOMAIN task_queue[p] : \A k \in 1 .. j : task_queue[p][k].age > 0}

\* Each neighbour is advised with a chance of twice the share that is asked:
\* all of them when the share is a half or more, as far as an advice has room.
RatioOfRequired(task, n) == task.required >= n
AllAdvised(task, n) == 2 * task.required >= n
Drawn(p, task) ==
  LET n == Len(neighbors[p])
  IN  IF AllAdvised(task, n) THEN {{x \in 1 .. n : n - x < MaxAdvicedRelays}}
      ELSE {x \in SUBSET (1 .. n) : Cardinality(x) <= MaxAdvicedRelays}

\* A task is answered if a neighbour was drawn for it, and dropped otherwise.
AdvanceUpdate(p) ==
  LET due == Expired(p)
  IN  /\ \E chosen \in [due -> SUBSET (DOMAIN neighbors[p])] :
           /\ \A j \in due : chosen[j] \in Drawn(p, task_queue[p][j])
           /\ Advise(OfTasks(p, [j \in due |-> IF chosen[j] = {} THEN 0 ELSE 1]),
                     OfTasks(p, [j \in due |-> Cardinality(chosen[j])]))
      /\ task_queue' = [task_queue EXCEPT ![p] = TasksWithout(p, due)]
      /\ asn_cache' = [asn_cache EXCEPT ![p] =
            [key \in AsnPairs |-> IF @[key].age > CacheLife THEN NoEntry ELSE @[key]]]
      /\ UNCHANGED <<asked, net>>

\* A second passes: tasks and entries grow older.
Older ==
  /\ task_queue' = [p \in Proxies |->
       [j \in DOMAIN task_queue[p] |-> [task_queue[p][j] EXCEPT !.age = @ + 1]]]
  /\ asn_cache' = [p \in Proxies |-> [key \in AsnPairs |->
       IF Known(p, key) THEN [asn_cache[p][key] EXCEPT !.age = @ + 1] ELSE NoEntry]]
  /\ UNCHANGED asked
=============================================================================
