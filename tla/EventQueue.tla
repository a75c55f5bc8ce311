----------------------------- MODULE EventQueue -----------------------------
(***************************************************************************)
(* The event queue of a proxy (proxy/eventqueue.cpp) over its skip list,   *)
(* and the loop of the proxy that runs it (proxy/corsproxy.cpp).           *)
(*                                                                         *)
(* An entry of the queue is a second with the events that are due in it.   *)
(* run takes the entries that are due, one after the other, and executes   *)
(* their events; each of these is periodic and adds itself anew.  The loop *)
(* then waits in select until the first entry is due or a packet comes.    *)
(* It sets the seconds of the timeout only: what an earlier wait left in   *)
(* tv_usec, when a packet cut it, lengthens the next by less than a second.*)
(* The queue is shown to implement Agenda.                                 *)
(***************************************************************************)
EXTENDS SkipList, Sequences, SequencesExt

CONSTANTS
  MaxInterval,  \* the longest interval: bound of the model
  MaxNow        \* the last second: bound of the model

ASSUME EventQueueAssumption ==
  /\ MaxInterval \in Nat \ {0}
  /\ MaxNow \in Nat
  /\ Keys = 1 .. MaxNow + MaxInterval

VARIABLES
  interval,  \* seconds between an event and the next of its kind
  entries,   \* the events of each entry of the queue
  now,       \* time(NULL)
  seen,      \* now of run: the time it read last
  running,   \* run: the entry being executed, its second and events left
  pc,        \* where the daemon is: starting, running or in select
  toadd,     \* the events start has not added yet
  wake,      \* the second in which select ends if no packet comes
  tv_usec    \* tv.tv_usec: 1 if there is a fraction of a second in it, else 0

loop == <<interval, entries, now, seen, running, pc, toadd, wake, tv_usec>>
vars == <<skiplist, loop>>

Idle == [ts |-> NULL, events |-> <<>>]

\* nbmtr->start, then rldvr->start.
StartOrder == <<"probe", "save", "update">>
Events == {"probe", "save", "update"}

Init ==
  /\ SkipListInit
  /\ interval \in [Events -> 1 .. MaxInterval]
  /\ entries = [k \in Keys |-> <<>>]
  /\ now = 0
  /\ seen = 0
  /\ running = Idle
  /\ pc = "start"
  /\ toadd = StartOrder
  /\ wake = 0
  /\ tv_usec = 1

\* add_event: the event joins the entry of its second, or a new one.  The
\* clock of the queue is never set: no event is too old for it.
AddEvent(e, t) ==
  /\ entries' = [entries EXCEPT ![t] = Append(@, e)]
  /\ IF Search(t) THEN UNCHANGED skiplist
     ELSE \E n \in RndLvl : Insert(t, n)

Starts ==
  /\ pc = "start"
  /\ toadd # <<>>
  /\ AddEvent(Head(toadd), now + interval[Head(toadd)])
  /\ toadd' = Tail(toadd)
  /\ pc' = IF Tail(toadd) = <<>> THEN "run" ELSE "start"
  /\ UNCHANGED <<interval, now, seen, running, wake, tv_usec>>

\* The next entry that is due leaves the queue.
Takes ==
  /\ pc = "run"
  /\ running = Idle
  /\ head # NULL /\ head <= seen
  /\ running' = [ts |-> head, events |-> entries[head]]
  /\ entries' = [entries EXCEPT ![head] = <<>>]
  /\ RemoveHead
  /\ UNCHANGED <<interval, now, seen, pc, toadd, wake, tv_usec>>

\* An event of it is executed, and adds itself one interval from now.  Behind
\* the last one the clock is read again.
AgainOnTime(e) == running.ts + interval[e]
Again(e) == now + interval[e]

Executes ==
  /\ pc = "run"
  /\ running.events # <<>>
  /\ LET e == Head(running.events) IN AddEvent(e, Again(e))
  /\ running' = IF Len(running.events) = 1 THEN Idle
                ELSE [running EXCEPT !.events = Tail(@)]
  /\ seen' = IF Len(running.events) = 1 THEN now ELSE seen
  /\ UNCHANGED <<interval, now, pc, toadd, wake, tv_usec>>

\* get_idle_time: seconds select may wait, one minute when nothing is queued.
IdleOfTail == IF tail = NULL THEN 60 ELSE IF tail > now THEN tail - now ELSE 0
GetIdleTime == IF head = NULL THEN 60 ELSE IF head > now THEN head - now ELSE 0

\* tv_sec is set to it, tv_usec is what it was.  The clock shows whole seconds.
Selects ==
  /\ pc = "run"
  /\ running = Idle
  /\ head = NULL \/ head > seen
  /\ pc' = "select"
  /\ wake' \in now + GetIdleTime .. now + GetIdleTime + tv_usec
  /\ UNCHANGED <<skiplist, interval, entries, now, seen, running, toadd, tv_usec>>

\* select ends, and run begins and reads the clock.
RunsAgain ==
  /\ pc = "select"
  /\ pc' = "run"
  /\ seen' = now
  /\ UNCHANGED <<skiplist, interval, entries, now, running, toadd, wake>>

\* Its time is over: select leaves 0 in tv.
Wakes ==
  /\ wake <= now
  /\ tv_usec' = 0
  /\ RunsAgain

\* A packet has come, to be dispatched: select leaves in tv what was left to wait.
Packet ==
  /\ tv_usec' \in {0, 1}
  /\ RunsAgain

Tick ==
  /\ now < MaxNow
  /\ pc # "start"
  /\ now' = now + 1
  /\ UNCHANGED <<skiplist, interval, entries, seen, running, pc, toadd, wake, tv_usec>>

Daemon == Starts \/ Takes \/ Executes \/ Selects \/ Wakes

Next == Daemon \/ Packet \/ Tick

\* The last second of a wait.
WaitEnds == pc = "select" /\ wake = now + 1 /\ Tick

\* The daemon is a running process, and a wait that is due to end in the next
\* second comes to it; packets need not come, nor time pass else.
Spec == Init /\ [][Next]_vars /\ WF_vars(Daemon) /\ WF_vars(WaitEnds)

-----------------------------------------------------------------------------
(* The agenda the queue stands for *)

\* When an event is due, by the entry it is in.
DueOf(e) ==
  IF Contains(toadd, e) THEN now + interval[e]
  ELSE IF Contains(running.events, e) THEN running.ts
  ELSE CHOOSE k \in Keys : Contains(entries[k], e)

A == INSTANCE Agenda WITH due <- [e \in Events |-> DueOf(e)]

-----------------------------------------------------------------------------
(* Properties *)

\* Types of the variables.
TypeOK ==
  /\ interval \in [Events -> 1 .. MaxInterval]
  /\ head \in Keys \cup {NULL} /\ tail \in Keys \cup {NULL}
  /\ sz \in 0 .. Cardinality(Keys)
  /\ lvl \in 1 .. MaxLevs
  /\ forward \in [Keys -> [Levels -> Keys \cup {NULL}]]
  /\ previous \in [Keys -> Keys \cup {NULL}]
  /\ entries \in [Keys -> Seq(Events)]
  /\ now \in 0 .. MaxNow /\ seen \in 0 .. now
  /\ running \in [ts : Keys \cup {NULL}, events : Seq(Events)]
  /\ pc \in {"start", "run", "select"}
  /\ toadd \in Seq(Events)
  /\ wake \in 0 .. MaxNow + MaxInterval + 61
  /\ tv_usec \in {0, 1}

\* The skip list stays whole (what its repok asserts, on every level): each
\* level links the members it has in the order of their keys, the head is as
\* high as the list, the back links are the forward ones reversed, tail and
\* sz are right.
SkipListWhole ==
  /\ (head = NULL) = (Members = {})
  /\ \A i \in Levels : \A k \in Members :
       /\ k \in Linked(i) => forward[k][i] = NextOn(i, k)
       /\ forward[k][i] # NULL => k \in Linked(i) /\ i < lvl
  /\ \A k \in Members : forward[k][0] # NULL => previous[forward[k][0]] = k
  /\ Members # {} => head = Min(Members) /\ tail = Max(Members) /\ previous[head] = NULL
  /\ sz = Cardinality(Members)

\* The periodic events never die out and never double: each of them is in
\* one place, and an entry is in the list exactly when it has events.
OneOfEach ==
  /\ \A e \in Events :
       LET places == {k \in Keys : Contains(entries[k], e)}
           here   == {i \in DOMAIN running.events : running.events[i] = e}
           tocome == {i \in DOMAIN toadd : toadd[i] = e}
       IN  Cardinality(places) + Cardinality(here) + Cardinality(tocome) = 1
  /\ \A k \in Keys : k \in Members <=> entries[k] # <<>>

\* The structure of the queue: types, links and one place for each event.
Inv == TypeOK /\ SkipListWhole /\ OneOfEach

\* A wait in select goes past the time of an entry, or past now if the entry is
\* due already, by at most the fraction in tv_usec: not at all unless a packet cut
\* the wait before, or it is the first, and by less than a second then.
WakesInTime ==
  pc = "select" /\ now < wake =>
    \A k \in Members : wake <= k + tv_usec \/ wake <= now + tv_usec

\* The queue executes the events as the agenda says: at their time or later,
\* the earliest first, each again one interval after its execution; and what
\* is due is executed, whatever packets come, while the clock is below MaxNow.
RefinesAgenda == A!Spec
=============================================================================
