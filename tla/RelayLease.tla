----------------------------- MODULE RelayLease -----------------------------
(***************************************************************************)
(* What a CORS relay promises its clients, without threads, clocks and     *)
(* counters: a lease per session key.  A lease is "none", "live" (contacted *)
(* within the timeout) or "stale".  Only packets of a session that holds a *)
(* lease are relayed; a live lease ends by a release and by nothing else;  *)
(* a stale one is taken back.                                              *)
(***************************************************************************)
EXTENDS Integers, FiniteSets

CONSTANTS
  Keys,     \* session keys
  MaxFlow   \* leases the relay gives at one time

VARIABLES
  lease,    \* lease[k] is "none", "live" or "stale"
  relayed   \* the key of the last packet relayed, or {} after other packets

vars == <<lease, relayed>>

Held == {k \in Keys : lease[k] # "none"}

Init ==
  /\ lease = [k \in Keys |-> "none"]
  /\ relayed = {}

\* A reservation that is granted: a new lease while there is room, or a renewal.
Granted(k) ==
  /\ k \in Held \/ Cardinality(Held) < MaxFlow
  /\ lease' = [lease EXCEPT ![k] = "live"]
  /\ relayed' = {}

\* A control packet that changes no lease: a probe, or a refused reservation.
Answered ==
  /\ relayed' = {}
  /\ UNCHANGED lease

Released(k) ==
  /\ lease' = [lease EXCEPT ![k] = "none"]
  /\ UNCHANGED relayed

Relayed(k) ==
  /\ k \in Held
  /\ lease' = [lease EXCEPT ![k] = "live"]
  /\ relayed' = {k}

\* Time passes for some of the live leases.
Ages ==
  /\ \E S \in SUBSET {k \in Keys : lease[k] = "live"} :
       lease' = [k \in Keys |-> IF k \in S THEN "stale" ELSE lease[k]]
  /\ UNCHANGED relayed

\* The relay takes stale leases back.
Expires ==
  /\ \E S \in SUBSET {k \in Keys : lease[k] = "stale"} :
       lease' = [k \in Keys |-> IF k \in S THEN "none" ELSE lease[k]]
  /\ UNCHANGED relayed

Next ==
  \/ \E k \in Keys : Granted(k) \/ Released(k) \/ Relayed(k)
  \/ Answered
  \/ Ages
  \/ Expires

Spec == Init /\ [][Next]_vars

=============================================================================
