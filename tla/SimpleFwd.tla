------------------------------ MODULE SimpleFwd ------------------------------
(***************************************************************************)
(* The packet forwarder of a CORS proxy (proxy/simplefwd.cpp): the table   *)
(* of relay sessions a proxy has admitted, and the relay bandwidth they    *)
(* hold.  Two threads use it.  The event loop of the proxy calls one of    *)
(* the process_* handlers per packet; update_daemon wakes every            *)
(* UpdateInterval seconds and erases the sessions idle for more than       *)
(* TimeoutSec seconds.  Both read the clock BEFORE they take               *)
(* _fwd_hmap_mutex, so a thread may act on a time that is out of date: the *)
(* clock reading and the locked section are two steps.  Everything inside  *)
(* the lock is one step, because every access to the table is made under   *)
(* that mutex.                                                             *)
(*                                                                         *)
(* Time.  The absolute clock is not modelled.  Where the code keeps a time *)
(* stamp the model keeps its age in whole seconds: hmap[k].idle is         *)
(* now - last_contact, main.lag is now - cur_time of the running handler,  *)
(* daemon.elapsed is the time since the daemon last changed place.  Tick   *)
(* adds a second to each.  MaxLag bounds how long a runnable thread may be *)
(* delayed, in seconds.                                                    *)
(***************************************************************************)
EXTENDS Integers, FiniteSets, Functions

CONSTANTS
  Keys,            \* session keys: source and destination endpoint
  Requests,        \* the bandwidths a BW_RESERVE may ask for (uint32_t)
  Width,           \* values of a uint16_t: 2^16 in the code
  MaxFwdBw,        \* MAX_FWD_BW, 2^21 in the code
  MaxFlow,         \* _max_flow, a uint8_t
  TimeoutSec,      \* _timeout_sec
  UpdateInterval,  \* _update_interval
  MaxLag           \* longest scheduling delay of a runnable thread

ASSUME FwdAssumption ==
  /\ Requests \subseteq Nat
  /\ Width \in Nat \ {0}
  /\ MaxFwdBw \in Nat
  /\ Width <= MaxFwdBw
  /\ MaxFlow \in Nat
  /\ TimeoutSec \in Nat
  /\ UpdateInterval \in Nat
  /\ MaxLag \in Nat
  /\ MaxLag <= TimeoutSec

VARIABLES
  hmap,       \* _fwd_hmap: session key -> [rq_bw, idle]
  cur_rq_bw,  \* _cur_rq_bw, a uint16_t
  main,       \* the handler between its clock reading and its lock, or Idle
  daemon,     \* update_daemon: where it is and since when
  sent,       \* the last packet the forwarder sent, or NoPacket
  lost        \* history variable: bandwidth charged to refused sessions

vars == <<hmap, cur_rq_bw, main, daemon, sent, lost>>

-----------------------------------------------------------------------------
(* Values *)

UInt16 == 0 .. Width - 1

\* The longest a session can stay in the table without contact (IdleBound).
MaxIdle == TimeoutSec + UpdateInterval + 3 * MaxLag

\* Ages above MaxIdle are not told apart: the bound of the clock.
Older(age) == IF age <= MaxIdle THEN age + 1 ELSE age

Idle     == [op |-> "none"]
NoPacket == [type |-> "none"]

Handlers ==
       {Idle}
  \cup [op : {"reserve"}, key : Keys, rq_bw : Requests, lag : 0 .. MaxLag]
  \cup [op : {"data"}, key : Keys, lag : 0 .. MaxLag]

Sleeping == [at : {"select"}, elapsed : 0 .. UpdateInterval + MaxLag]
Locking  == [at : {"lock"}, elapsed : 0 .. MaxLag]

\* A uint32_t field filled with htons(value): the low 16 bits of the value end
\* up in the two most significant bytes of the field, so the receiver, which
\* applies ntohl, reads them multiplied by 2^16.
Wire(value) == (value % Width) * Width

Packets ==
       {NoPacket}
  \cup [type : {"FW_FORWARD", "BW_FORWARD"}, key : Keys,
        bw : {Wire(v) : v \in UInt16}, task : 0 .. MaxFlow]
  \cup [type : {"DATA"}, key : Keys]

Session == [rq_bw : UInt16, idle : 0 .. MaxIdle + 1]

\* _fwd_hmap.size()
Size == Cardinality(DOMAIN hmap)

\* _fwd_hmap.size() < _max_flow, and its variant with an off-by-one.
RoomOffByOne == Size <= MaxFlow
HasRoom == Size < MaxFlow

\* What a session is given when the sessions before it use "used":
\* (MAX_FWD_BW-_cur_rq_bw)>=rq_bw ? rq_bw : (MAX_FWD_BW-_cur_rq_bw), stored in
\* the uint16_t field of its record.
Grant(rq, used) ==
  (IF MaxFwdBw - used >= rq THEN rq ELSE MaxFwdBw - used) % Width

\* The table without the sessions of a set.
Without(S) == Restrict(hmap, DOMAIN hmap \ S)

With(k, session) ==
  [j \in DOMAIN hmap \cup {k} |-> IF j = k THEN session ELSE hmap[j]]

\* Bandwidth as a set: one unit of session k for each i in 1..rq_bw, so that
\* the sum over the table is a cardinality.
UnitsOf(S) == UNION {{k} \X (1 .. hmap[k].rq_bw) : k \in S}
Units == UnitsOf(DOMAIN hmap)

-----------------------------------------------------------------------------
(* The event loop *)

Init ==
  /\ hmap = <<>>
  /\ cur_rq_bw = 0
  /\ main = Idle
  /\ daemon = [at |-> "select", elapsed |-> 0]
  /\ sent = NoPacket
  /\ lost = 0

\* process_probe: reads the table under the lock, changes nothing, and sends
\* the probe on to the destination it names.
ProcessProbe(k) ==
  /\ main = Idle
  /\ sent' = [type |-> "FW_FORWARD", key |-> k,
              bw |-> Wire(MaxFwdBw - cur_rq_bw), task |-> Size]
  /\ UNCHANGED <<hmap, cur_rq_bw, main, daemon, lost>>

\* process_bw_reserve up to the lock: the clock is read.
ReserveArrives(k, rq) ==
  /\ main = Idle
  /\ main' = [op |-> "reserve", key |-> k, rq_bw |-> rq, lag |-> 0]
  /\ UNCHANGED <<hmap, cur_rq_bw, daemon, sent, lost>>

BwForward(k, granted, size) ==
  [type |-> "BW_FORWARD", key |-> k, bw |-> Wire(granted), task |-> size]

\* The locked part, the key known: the grant is recomputed only when the
\* requested bandwidth differs, and the session is refreshed.
ReserveKnown ==
  /\ main.op = "reserve"
  /\ main.key \in DOMAIN hmap
  /\ LET old     == hmap[main.key].rq_bw
         freed   == (cur_rq_bw - old) % Width
         granted == IF main.rq_bw = old THEN old ELSE Grant(main.rq_bw, freed)
     IN  /\ hmap' = [hmap EXCEPT ![main.key] =
                       [rq_bw |-> granted, idle |-> main.lag]]
         /\ cur_rq_bw' = IF main.rq_bw = old THEN cur_rq_bw
                         ELSE (freed + granted) % Width
         /\ sent' = BwForward(main.key, granted, Size)
  /\ main' = Idle
  /\ UNCHANGED <<daemon, lost>>

\* The locked part, the key new and the table not full.
ReserveAdmitted ==
  /\ main.op = "reserve"
  /\ main.key \notin DOMAIN hmap
  /\ HasRoom
  /\ LET granted == Grant(main.rq_bw, cur_rq_bw)
     IN  /\ cur_rq_bw' = (cur_rq_bw + granted) % Width
         /\ hmap' = With(main.key, [rq_bw |-> granted, idle |-> main.lag])
         /\ sent' = BwForward(main.key, granted, Size + 1)
  /\ main' = Idle
  /\ UNCHANGED <<daemon, lost>>

\* The locked part, the key new and the table full: the bandwidth is charged
\* before the size test, the record is not inserted, and the reply is the one
\* an admitted session gets.
ReserveRefused ==
  /\ main.op = "reserve"
  /\ main.key \notin DOMAIN hmap
  /\ ~HasRoom
  /\ LET granted == Grant(main.rq_bw, cur_rq_bw)
     IN  /\ cur_rq_bw' = (cur_rq_bw + granted) % Width
         /\ lost' = (lost + granted) % Width
         /\ sent' = BwForward(main.key, granted, Size)
  /\ main' = Idle
  /\ UNCHANGED <<hmap, daemon>>

\* process_bw_release.  Its clock reading only goes to the log.
ProcessBwRelease(k) ==
  /\ main = Idle
  /\ k \in DOMAIN hmap
  /\ cur_rq_bw' = (cur_rq_bw - hmap[k].rq_bw) % Width
  /\ hmap' = Without({k})
  /\ UNCHANGED <<main, daemon, sent, lost>>

\* process_data_packet up to the lock: a packet of at least MIN_DATA_PKT_LEN
\* bytes from k's source for k's destination; shorter ones are dropped.
DataArrives(k) ==
  /\ main = Idle
  /\ main' = [op |-> "data", key |-> k, lag |-> 0]
  /\ UNCHANGED <<hmap, cur_rq_bw, daemon, sent, lost>>

\* The locked part for a session of the table: refresh and forward.
DataForwarded ==
  /\ main.op = "data"
  /\ main.key \in DOMAIN hmap
  /\ hmap' = [hmap EXCEPT ![main.key].idle = main.lag]
  /\ sent' = [type |-> "DATA", key |-> main.key]
  /\ main' = Idle
  /\ UNCHANGED <<cur_rq_bw, daemon, lost>>

\* The locked part when no session matches: the packet is dropped silently.
DataDropped ==
  /\ main.op = "data"
  /\ main.key \notin DOMAIN hmap
  /\ main' = Idle
  /\ UNCHANGED <<hmap, cur_rq_bw, daemon, sent, lost>>

MainLocked ==
  ReserveKnown \/ ReserveAdmitted \/ ReserveRefused \/ DataForwarded \/ DataDropped

-----------------------------------------------------------------------------
(* update_daemon *)

\* select returns after UpdateInterval seconds and update_fwd_hmap reads the
\* clock.
DaemonWakes ==
  /\ daemon.at = "select"
  /\ daemon.elapsed >= UpdateInterval
  /\ daemon' = [at |-> "lock", elapsed |-> 0]
  /\ UNCHANGED <<hmap, cur_rq_bw, main, sent, lost>>

\* Variants of TimedOut: one that is a second early, and one that gives up when
\* a handler is running, as a trylock would.
TimedOutEarly ==
  {k \in DOMAIN hmap : hmap[k].idle - daemon.elapsed >= TimeoutSec}

TimedOutTryLock ==
  {k \in DOMAIN hmap : main = Idle /\ hmap[k].idle - daemon.elapsed > TimeoutSec}

\* The sessions update_fwd_hmap finds timed out: cur_time is the reading made
\* when the daemon woke, so the difference is the age less the time since then.
TimedOut ==
  {k \in DOMAIN hmap : hmap[k].idle - daemon.elapsed > TimeoutSec}

\* The bandwidth the erased sessions held; the variant forgets to return it.
ReclaimedNothing == 0
Reclaimed == Cardinality(UnitsOf(TimedOut))

\* The locked part of update_fwd_hmap: one pass over the table.
UpdateFwdHmap ==
  /\ daemon.at = "lock"
  /\ hmap' = Without(TimedOut)
  /\ cur_rq_bw' = (cur_rq_bw - Reclaimed) % Width
  /\ daemon' = [at |-> "select", elapsed |-> 0]
  /\ UNCHANGED <<main, sent, lost>>

-----------------------------------------------------------------------------
(* The clock *)

\* A second passes, unless a thread that can run has waited MaxLag already.
Tick ==
  /\ main # Idle => main.lag < MaxLag
  /\ daemon.elapsed < MaxLag + (IF daemon.at = "select" THEN UpdateInterval ELSE 0)
  /\ hmap' = [k \in DOMAIN hmap |-> [hmap[k] EXCEPT !.idle = Older(@)]]
  /\ main' = IF main = Idle THEN Idle ELSE [main EXCEPT !.lag = @ + 1]
  /\ daemon' = [daemon EXCEPT !.elapsed = @ + 1]
  /\ UNCHANGED <<cur_rq_bw, sent, lost>>

Next ==
  \/ \E k \in Keys : ProcessProbe(k)
  \/ \E k \in Keys, rq \in Requests : ReserveArrives(k, rq)
  \/ \E k \in Keys : ProcessBwRelease(k)
  \/ \E k \in Keys : DataArrives(k)
  \/ MainLocked
  \/ DaemonWakes
  \/ UpdateFwdHmap
  \/ Tick

Spec == Init /\ [][Next]_vars

\* The clock runs, and the scheduler and the mutex let both threads go on.
\* Nothing is assumed of the packets that arrive.
Fairness ==
  /\ WF_vars(Tick)
  /\ WF_vars(MainLocked)
  /\ WF_vars(DaemonWakes)
  /\ WF_vars(UpdateFwdHmap)

FairSpec == Spec /\ Fairness

-----------------------------------------------------------------------------
(* Properties *)

\* Type invariant: uint16_t counters stay in range, ages stay below the bound
\* of the clock, packets and handlers are well formed.
TypeOK ==
  /\ DOMAIN hmap \subseteq Keys
  /\ hmap \in [DOMAIN hmap -> Session]
  /\ cur_rq_bw \in UInt16
  /\ main \in Handlers
  /\ daemon \in Sleeping \cup Locking
  /\ sent \in Packets
  /\ lost \in UInt16

\* _cur_rq_bw is, modulo 2^16, the bandwidth of the sessions in the table plus
\* what refused reservations were charged: no interleaving of handlers, resizes,
\* releases and sweeps makes the two drift apart in any other way.
Accounting == cur_rq_bw = (Cardinality(Units) + lost) % Width

\* The table never holds more than _max_flow sessions (simplefwd.cpp:205).
FlowLimit == Size <= MaxFlow

\* A session nobody uses is gone after timeout + update interval + three
\* scheduling delays: the relay resource of a client that vanished is back then.
IdleBound == \A k \in DOMAIN hmap : hmap[k].idle <= MaxIdle

\* Only a release takes away a session that was contacted in the last
\* TimeoutSec seconds, although the daemon works with an old clock reading.
FreshSessionsStay ==
  [][\A k \in DOMAIN hmap : hmap[k].idle <= TimeoutSec =>
       (k \in DOMAIN hmap' \/ ProcessBwRelease(k))]_vars

\* The race of the sweep with a packet that waits for the lock: the packet
\* finds its session gone only if it arrived in the last MaxLag seconds before
\* the session timed out.
RaceWindow ==
  [][\A k \in DOMAIN hmap \ DOMAIN hmap' :
       (main # Idle /\ main.key = k) =>
          hmap[k].idle - main.lag > TimeoutSec - MaxLag]_vars

\* A session idle for longer than the timeout does not stay so: it is erased or
\* contacted again, whatever packets keep the event loop busy.
StaleSessionsGo ==
  \A k \in Keys :
    (k \in DOMAIN hmap /\ hmap[k].idle > TimeoutSec)
      ~> (k \notin DOMAIN hmap \/ hmap[k].idle <= TimeoutSec)

-----------------------------------------------------------------------------
(* Refinement of RelayLease *)

\* The lease of a session: how long ago it was contacted decides.
LeaseOf(k) ==
  IF k \notin DOMAIN hmap THEN "none"
  ELSE IF hmap[k].idle <= TimeoutSec THEN "live" ELSE "stale"

RelayedKey == IF sent.type = "DATA" THEN {sent.key} ELSE {}

Lease == INSTANCE RelayLease WITH
  lease <- [k \in Keys |-> LeaseOf(k)], relayed <- RelayedKey

\* The forwarder, with its two threads and its late clock readings, keeps the
\* promise of RelayLease: every step of it is a step of the lease specification.
KeepsLeases == Lease!Spec

-----------------------------------------------------------------------------
(* What the comments say and the code does not do *)

\* simplefwd.cpp:169-171 and 232: bandwidth is allocated to a session that is
\* inserted, and comes back with it.  So the counter is what the sessions hold.
NoPhantomBandwidth == cur_rq_bw = Cardinality(Units) % Width

\* simplefwd.cpp:149-152: a probe tells its reader the remaining bandwidth.
ProbeTellsRemaining ==
  [][(sent' # sent /\ sent'.type = "FW_FORWARD") =>
       sent'.bw = MaxFwdBw - cur_rq_bw]_vars

=============================================================================
