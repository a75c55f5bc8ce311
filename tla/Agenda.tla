------------------------------- MODULE Agenda -------------------------------
(***************************************************************************)
(* What the event queue of a proxy promises: every periodic event of the   *)
(* proxy is due at one time, is executed when that time has come, the      *)
(* earliest first, and is then due again one interval later.               *)
(***************************************************************************)
EXTENDS Integers

CONSTANTS
  Events,       \* the periodic events: probe, save, update
  MaxInterval,  \* the longest interval: bound of the model
  MaxNow        \* the last second: bound of the model

VARIABLES
  interval,     \* seconds between an event and the next of its kind
  now,          \* the time
  due           \* when each event is due

vars == <<interval, now, due>>

Init ==
  /\ interval \in [Events -> 1 .. MaxInterval]
  /\ now = 0
  /\ due = interval

Tick ==
  /\ now < MaxNow
  /\ now' = now + 1
  /\ UNCHANGED <<interval, due>>

Execute(e) ==
  /\ due[e] <= now
  /\ \A f \in Events : due[e] <= due[f]
  /\ due' = [due EXCEPT ![e] = now + interval[e]]
  /\ UNCHANGED <<interval, now>>

Next == Tick \/ \E e \in Events : Execute(e)

\* What is due is executed, while the clock of the model has not come to its end.
Spec == Init /\ [][Next]_vars /\ \A e \in Events : WF_vars(now < MaxNow /\ Execute(e))
=============================================================================
