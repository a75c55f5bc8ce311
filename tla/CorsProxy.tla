----------------------------- MODULE CorsProxy ------------------------------
(***************************************************************************)
(* Proxies with their relay advisors, their loop (proxy/corsproxy.cpp) and *)
(* the network of their inquiries.                                         *)
(*                                                                         *)
(* Each proxy is one thread: it runs the events that are due, waits in     *)
(* select for the next event or a packet, dispatches one packet by its     *)
(* type, and runs the events again.  The event queue is that of Agenda,    *)
(* with the update of the advisor; times count from the present second.    *)
(* The database, the clients and the neighbour maintainers are the         *)
(* environment: the first answers an inquiry any number of times.  The     *)
(* network loses, delays, reorders and duplicates inquiries: no advisor    *)
(* knows a copy from the packet it is a copy of, so that each goes its own *)
(* way from there on, under its own name.                                  *)
(***************************************************************************)
EXTENDS AdvanceRldvr, SimpleRldvr

CONSTANTS
  Advisor,         \* the advisor a proxy is configured with
  UpdateInterval,  \* get_update_interval: 1
  MaxLate          \* seconds a proxy may be late: bound of the model

ASSUME ProxyAssumption ==
  /\ Advisor \in [Proxies -> {"AdvanceRldvr", "SimpleRldvr"}]
  /\ UpdateInterval \in Nat \ {0}
  /\ MaxLate \in Nat

VARIABLES
  pc,    \* where each proxy is: it runs events or waits in select
  due,   \* seconds until its next event
  wake   \* seconds until its select ends

loop == <<pc, due, wake>>
vars == <<neighbors, net, tosend, advice, knowledge, loop>>

Init ==
  /\ AdvisorInit
  /\ AdvanceInit
  /\ pc = [p \in Proxies |-> "run"]
  /\ due = [p \in Proxies |-> UpdateInterval]
  /\ wake = [p \in Proxies |-> 0]

-----------------------------------------------------------------------------
(* The loop *)

\* EventQueue::run executes an event, which adds itself anew.  That of a proxy
\* with a SimpleRldvr is the probe, which is not modelled here.
Runs(p) ==
  /\ pc[p] = "run"
  /\ due[p] <= 0
  /\ due' = [due EXCEPT ![p] = UpdateInterval]
  /\ IF Advisor[p] = "AdvanceRldvr" THEN AdvanceUpdate(p)
     ELSE UNCHANGED <<net, advice, knowledge>>
  /\ UNCHANGED <<neighbors, tosend, pc, wake>>

\* The timeout of select: the idle time, and less than a second more if an earlier
\* wait left a fraction in tv_usec, which is not set (see EventQueue).
IdleTimeMinute(p) == 60
IdleTime(p) == due[p]

Selects(p) ==
  /\ pc[p] = "run"
  /\ due[p] > 0
  /\ pc' = [pc EXCEPT ![p] = "select"]
  /\ \E fraction \in {0, 1} : wake' = [wake EXCEPT ![p] = IdleTime(p) + fraction]
  /\ UNCHANGED <<neighbors, net, tosend, advice, knowledge, due>>

Wakes(p) ==
  /\ pc[p] = "select"
  /\ wake[p] <= 0
  /\ pc' = [pc EXCEPT ![p] = "run"]
  /\ UNCHANGED <<neighbors, net, tosend, advice, knowledge, due, wake>>

Dispatches(p) ==
  /\ pc[p] = "select"
  /\ pc' = [pc EXCEPT ![p] = "run"]
  /\ UNCHANGED <<neighbors, tosend, due, wake>>

DispatchInquiry(p, m) ==
  /\ m \in net
  /\ m.to = p
  /\ Dispatches(p)
  /\ IF Advisor[p] = "AdvanceRldvr" THEN AdvanceInquiry(p, m)
     ELSE SimpleInquiry(p, m) /\ UNCHANGED knowledge

DispatchFilter(p, key, asn_set) ==
  /\ Advisor[p] = "AdvanceRldvr"
  /\ Dispatches(p)
  /\ AdvanceFilter(p, key, asn_set)

\* A packet for another component, or a report, which goes on as it is.
DispatchOther(p) == Dispatches(p) /\ UNCHANGED <<net, advice, knowledge>>

-----------------------------------------------------------------------------
(* The environment *)

ClientAsks(p, i) ==
  /\ i \in tosend
  /\ tosend' = tosend \ {i}
  /\ net' = net \cup {Inquiry(p, i, Required[i], MaxTTL)}
  /\ UNCHANGED <<neighbors, advice, knowledge, loop>>

\* The network delivers an inquiry twice.  The copy gets a name of its own, of which
\* everything is counted as it was for the packet until now.
Duplicates(m, i) ==
  /\ i \in tosend
  /\ AsnPair[i] = AsnPair[m.id] /\ Required[i] = Required[m.id]
  /\ tosend' = tosend \ {i}
  /\ net' = net \cup {[m EXCEPT !.id = i]}
  /\ answers' = [answers EXCEPT ![i] = answers[m.id]]
  /\ advised' = [advised EXCEPT ![i] = advised[m.id]]
  /\ UNCHANGED <<neighbors, knowledge, loop>>

NeighborsChange(p) ==
  /\ \E list \in NeighborLists[p] : neighbors' = [neighbors EXCEPT ![p] = list]
  /\ UNCHANGED <<net, tosend, advice, knowledge, loop>>

\* A second passes, when no proxy is too late with what it has to do.
Late(p) == (IF pc[p] = "run" THEN due[p] ELSE wake[p]) <= - MaxLate
Tick ==
  /\ \A p \in Proxies : ~ Late(p)
  /\ due' = [p \in Proxies |-> due[p] - 1]
  /\ wake' = [p \in Proxies |-> IF pc[p] = "select" THEN wake[p] - 1 ELSE 0]
  /\ Older
  /\ UNCHANGED <<neighbors, net, tosend, advice, pc>>

Loop(p) == Runs(p) \/ Selects(p) \/ Wakes(p)

Next ==
  \/ \E p \in Proxies :
       \/ Loop(p)
       \/ \E m \in net : DispatchInquiry(p, m)
       \/ \E key \in AsnPairs, asn_set \in Knowledge : DispatchFilter(p, key, asn_set)
       \/ DispatchOther(p)
       \/ NeighborsChange(p)
       \/ \E i \in Inquiries : ClientAsks(p, i)
  \/ \E m \in net, i \in tosend : Duplicates(m, i)
  \/ Tick

\* No packet has to arrive: one that is lost stays in net.
Spec == Init /\ [][Next]_vars

-----------------------------------------------------------------------------
(* Properties *)

\* Types of the variables.
TypeOK ==
  /\ \A p \in Proxies : neighbors[p] \in NeighborLists[p]
  /\ \A m \in net : m.to \in Proxies /\ m.id \in Inquiries /\ m.required \in 0 .. 255
                    /\ m.ttl \in 0 .. MaxTTL
  /\ tosend \subseteq Inquiries
  /\ \A p \in Proxies, key \in AsnPairs :
       Known(p, key) => asn_cache[p][key].asn_set \in Knowledge
  /\ \A p \in Proxies : \A j \in DOMAIN task_queue[p] : task_queue[p][j].id \in Inquiries
  /\ pc \in [Proxies -> {"run", "select"}]
  /\ due \in [Proxies -> - MaxLate - 1 .. UpdateInterval]

\* No proxy may have more neighbours than one advice of its advisor has room for.
ListsFit ==
  \A p \in Proxies : \A list \in NeighborLists[p] :
    Len(list) <= IF Advisor[p] = "AdvanceRldvr" THEN MaxAdvicedRelays ELSE MaxRlNum

\* What is still asked for, together with all that was advised on the way, is
\* no more than the client asked for, and no less where an advice has room for
\* all neighbours.
Missing(i, required) ==
  /\ required + advised[i] <= Required[i]
  /\ ListsFit => required + advised[i] >= Required[i]

\* So it is for every inquiry, in a packet or as a task: no proxy asks the next
\* for relays that were advised on the way of this packet, nor for fewer than are
\* missing.  (What copies of a packet are advised counts for each copy alone: they
\* ask for the same relays again.)
AskedIsMissing ==
  /\ \A m \in net : Missing(m.id, m.required)
  /\ \A p \in Proxies : \A j \in DOMAIN task_queue[p] :
       Missing(task_queue[p][j].id, task_queue[p][j].required)

\* Both together, as the run checks them.
Inv == TypeOK /\ AskedIsMissing

\* However inquiries go round among proxies that are each other's neighbours,
\* an inquiry is answered no more than MAX_TTL times, and so is each copy of it.
AnswersEnd == \A i \in Inquiries : answers[i] <= MaxTTL

\* An inquiry does not wait for the database once the cache knows the answer.
NoTaskForKnown ==
  \A p \in Proxies, key \in AsnPairs : Known(p, key) => Answered(p, key) = {}

\* A task waits no longer than the time the database has and an update, and no
\* entry is used that much longer than its life, but for the lateness of the proxy
\* and the second that tv_usec may add to its wait.
Timely ==
  \A p \in Proxies :
    /\ \A j \in DOMAIN task_queue[p] : task_queue[p][j].age <= UpdateInterval + MaxLate + 1
    /\ \A key \in AsnPairs : asn_cache[p][key].age <= CacheLife + UpdateInterval + MaxLate + 1

\* A task ends unanswered only when the proxy has no neighbour at all, or too
\* many for the inquiry, so that none may be drawn.
NoSilentDrop ==
  [][\A p \in Proxies : \A j \in DOMAIN task_queue[p] :
       LET task == task_queue[p][j]
       IN  \/ \E n \in DOMAIN task_queue'[p] : task_queue'[p][n].id = task.id
           \/ answers'[task.id] > answers[task.id]
           \/ neighbors[p] = <<>>
           \/ 2 * task.required < Len(neighbors[p])]_vars
=============================================================================
