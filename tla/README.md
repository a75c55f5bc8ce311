# CORS overlay routing: verification project

CORS sends the packets of an application over an overlay: besides the direct
path a *client* uses *relays* (proxies) that forward its data packets to the
destination.  This directory holds TLA+ models of the parts of CORS that keep
state and react to packets, timers and threads, the TLC configurations that
check them, and TLAPS proofs about them.  Paths below are relative to
`src/CORS/src/`.

## 1. The system

### Components

| Component | Source | State | Operations |
|---|---|---|---|
| Packet forwarder | `proxy/simplefwd.*` | session table `_fwd_hmap`, 16-bit bandwidth counter `_cur_rq_bw` | probe, reserve, release, data packet; sweep by a second thread |
| Neighbour maintainer | `proxy/simplenbmtr.*` | map `nm` and probing order `nl` of neighbours, file of neighbours | probe and save timers, ping, pong |
| Relay advisors | `proxy/advancerldvr.*`, `simplerldvr.*` | AS cache and task queue of the first, none that is read of the second | inquiry, filter, report, update timer |
| Event queue | `proxy/eventqueue.*`, `skiplist.h` | skip list of time stamps with their events | add, run, idle time |
| Proxy loop | `proxy/corsproxy.*` | none of its own | one turn: due events, then one packet |
| Relay selector | `client/simplerlysltr.*` | `candidates_`, `relaylist_`, an iterator into each, `running_` | pinger thread, advice, probe reply, reservation reply, release |
| Multipath managers | `client/simplempathmanager.*`, `statmpathmanager.*` | relays in use and given up, counts per relay; next path and phase in statics | send, receive, requirement, statistics, release |
| Client socket | `client/corssocket.*` | destination, time of the last inquiry, the two objects above | init, sendto, recvfrom, close |
| Wire protocol | `common/corsprotocol.*` | packet objects | serialise, deserialise |
| Knowledge database | `corsdb/*` | a MySQL table, one record set for all queries | inquiry, report |
| Stream player, jitter buffers | `test/streamplayer.cpp`, `jitter*.{h,cpp}` | list of frames with a 16-bit deadline, the slot handed from thread to thread | write, read, start, stop |
| Factories, utilities, tools, test programs | `*factory.*`, `utils/*`, `test/*` | none that matters | |

### How they interact

The proxy is one thread (`CorsProxy::start`): due timer events, then one packet
to one handler of the neighbour maintainer, the forwarder or the advisor.  The
forwarder alone has a second thread, which shares `_fwd_hmap` under a mutex.
A client has the application, the pinger thread of its relay selector and
possibly a receive thread (`test/rtpsender.cpp`; `test/simpleclient.cpp`
receives in the application's own thread).  They share the two lists of the
selector under two mutexes, except in `release_resources`, which takes none.
The player is three threads: the main thread writes frames into the buffer, a
timer thread counts slots, and a play thread, woken by a condition variable,
takes from the buffer what is due.
Client, proxies and destination talk over UDP: packets are lost, reordered and
duplicated, and no packet is retransmitted; periodic probing and the
forwarder's timeout make up for it.  No advisor recognises an inquiry it had before
(`proxy/advancerldvr.cpp:77-160`, `proxy/simplerldvr.cpp:67-207`): a copy that the
network makes goes its own way.  A probe travels client - relay -
destination - client and so does a reservation; a release goes one way.

### What is hard, and what makes each component correct

* Forwarder: two threads with clock readings made before the lock; a counter
  of 16 bits that is charged and credited on five paths.  Correct when the
  counter is what the sessions hold, the table stays within its limit, no live
  session is swept away and no dead one stays.
* Relay selector: two iterators that one thread advances while another erases
  and inserts; replies in any order, late and twice.  Correct when no iterator
  is left on an erased node, the relay list is bounded and sorted, a relay is
  dropped only for a reason, everything known is probed again and again, and
  closing ends.
* A client with its relays: the release is a single unacknowledged packet.
  Correct when every relay gets its bandwidth back.
* Neighbour maintainer: wrapping sequence numbers, a table that must not run
  empty, a map and a list that must agree.
* Advisors: requests forwarded from proxy to proxy must end, each copy of them, and ask
  only for what is missing; cached knowledge gets stale; a task waits for an answer of
  the database that may come late, again or never.
* Event queue: timers run at their time and in order, while events add events;
  select must not sleep past one, though part of its timeout is what the wait
  before left in it.
* Multipath managers: the list of relays in use follows one that another thread
  changes and in which a relay may stand twice; a relay given up must stay out;
  statics are shared by all sockets; both ends must agree on the header.
* Knowledge database: one record set for all queries, results not looked at.
* Stream player: 16-bit sequence numbers around the wrap, a slot that is
  overwritten before it is taken, two threads to stop and to join.

`PROJECT.json` lists each hazard at its line.

## 2. Plan

In this order, the most important behaviour first:

1. `SimpleFwd`, with `RelayLease` as its abstract specification, and
   `SimpleFwdProofs` - done.
2. `SimpleRlysltr` and `SimpleRlysltrProofs` - done.
3. `RelayedSession`: the selector composed with the lease of its session at
   each relay, with its theorems in `SimpleRlysltrProofs` - done.
4. `SimpleNbmtr`: ping/pong with wrapping sequence numbers, map and list, the
   file, and `SimpleNbmtrProofs` - done.
5. `EventQueue` over `SkipList`, with the loop of the proxy and `Agenda` as the
   abstract specification, and `EventQueueProofs` - done.
6. `CorsProtocol`, `AdvanceRldvr`, `SimpleRldvr` and their composition
   `CorsProxy`; `Translator`; `KnowledgeProofs`, for any graph of neighbours and any
   reports - done.
7. `MpathManager` and `MpathManagerProofs`, `StreamPlayer` and `StreamPlayerProofs` -
   done.

All modules have the same layout: constants with named assumptions, one action
per handler or locked section, named conjuncts in the invariants, no `RECURSIVE`.

## 3. Modules

| Module | What it is |
|---|---|
| `SimpleFwd` | the forwarder: handlers, sweep, clock |
| `RelayLease` | what a relay promises: leases per session key |
| `Lists` | the elements of a list at some places, or in some set, in their order |
| `Lemmas` | lemmas on `%`, cardinalities, sums, and on insertions, erasures and positions in lists |
| `SimpleFwdProofs` | theorems about `SimpleFwd` |
| `SimpleRlysltr` | the relay selector: pinger, receiver, close, network |
| `MCSimpleRlysltr` | symmetry of the relays for TLC |
| `SimpleRlysltrProofs` | theorems about `SimpleRlysltr` and `RelayedSession` |
| `RelayedSession` | a client and its session at each relay |
| `SimpleNbmtr` | the neighbour maintainer: timers, ping, pong, file, crash |
| `SimpleNbmtrProofs` | theorems about `SimpleNbmtr` |
| `Agenda` | what the event queue promises: periodic events at their time, in order |
| `SkipList` | the skip list of the event queue, pointer by pointer |
| `EventQueue` | the event queue over the skip list, and the loop of the proxy |
| `EventQueueProofs` | theorems about `EventQueue` and its skip list |
| `CorsProtocol` | the packets of relay knowledge: bounds, lengths, what is refused |
| `RelayAdvisor` | what the advisors share: neighbours, inquiries on their way, advice |
| `AdvanceRldvr`, `SimpleRldvr` | the two relay advisors |
| `CorsProxy`, `MCCorsProxy` | proxies with their advisors, loop and network; two proxies for TLC |
| `Translator` | the knowledge database server |
| `KnowledgeProofs` | theorems about `CorsProxy`, its advisors and `Translator` |
| `MpathManager`, `MCMpathManager` | both multipath managers under the socket; two relays for TLC |
| `MpathManagerProofs` | theorems about `MpathManager` |
| `StreamPlayer` | the stream player with its jitter buffer |
| `StreamPlayerProofs` | theorems about `StreamPlayer` |

### SimpleFwd

`hmap` is `_fwd_hmap` with the reserved bandwidth and the *age* of
`last_contact`; `cur_rq_bw` is `_cur_rq_bw`.  Both threads read the clock before
they lock, so `process_bw_reserve` and `process_data_packet` are two steps:
`ReserveArrives`/`DataArrives` (clock read) and one of `ReserveKnown`,
`ReserveAdmitted`, `ReserveRefused`, `DataForwarded`, `DataDropped` (the locked
section and the send).  `process_probe` and `process_bw_release` use no clock
reading and are one step.  `update_daemon` is `DaemonWakes` (select returns,
clock read) and `UpdateFwdHmap` (the locked pass over the table).  `Tick` is a
second of the clock; it ages every stamp, and it may not pass while a runnable
thread has waited `MaxLag` seconds.  `lost` is a history variable, the bandwidth
charged to refused reservations.

Numbers keep their width: `Width` stands for 2^16.  `Wire` is `htons` applied to
a 32-bit field.  Sums over the table are cardinalities of sets of units
(`Units`), which needs no recursion and lets the proofs use the library on
finite sets.

### RelayLease

A lease per key, "none", "live" or "stale".  Live leases end by a release only;
only packets of leased sessions are relayed; at most `MaxFlow` leases.
`SimpleFwd!KeepsLeases` is the refinement: a session is live while it is idle for
no longer than the timeout.

### SimpleRlysltr

Iterators of `std::list` stay with their node, so the model keeps an iterator as
the position of its node, moved by `AfterInsert` and `AfterErase`; `Dangling` is
an iterator whose node was erased.  `cycle_ping` is split where it takes and
leaves its mutexes: `PingerProbes`, `PingerScans`, `NextCandidate`, `NextRelay`.
The receiver's handlers hold one mutex once and are one step each:
`ProcessRlAdvice`, `ProcessFwReplyGood`, `ProcessFwReplyLate`, `ProcessBwReply`.
`release_resources` is `Close`, `Join`, one `ReleaseOne` per entry,
`ReleaseEnds`; with `ConcurrentClose` packets are still received meanwhile.

`net` holds packets with their age.  An `FW_PROBE` entry stands for the probe on
its whole way to the relay, the destination and back; `BW_RESERVE` becomes
`BW_REPLY` at the destination (`Answered`).  Packets are lost (`Vanishes`, or
older than `MaxAge`, or more than `MaxNet`), reordered (it is a set) and
duplicated (`rest` may keep the packet).  The delay of a reply is its age.
With `WithData` the data that `sendto` sends over a relay is on the network too
(`SendsData`); the selector does nothing with it, the composition below does.

Left out because they change no state of the selector: reports and inquiries,
and the answers the client gives as somebody else's destination.

### RelayedSession

Extends `SimpleRlysltr` with `lease[r]`, the client's session at relay `r`, which
moves as `RelayLease` allows, and the history variable `confirmed`.  Other clients
of a relay show as reservations that are refused (and answered all the same).
Data is a packet like the others, from `ClientSendsData` to `RelayForwards`: it may
reach the relay, once or often, when the socket is closed, and make a stale
session live again.

### SimpleNbmtr

`nl` is the list of neighbours, `nm` the set of addresses the map has, `file` the
configuration file.  `ts` is kept as an age.  `Probe` is a `ProbeEvent` with all
of `probe`: one ping to the front, a second one to the back while there are fewer
than `MinSize`, the test of the last one's age, the turn of the list.  It runs
when `ProbeInterval` has passed, at most `MaxLag` late.  `Save` may come at any time,
which includes every `save_interval`.  `Crash` takes the memory of the process and may
cut a save after any number of lines; `Restart` is the constructor and `start`; the
proxies of the file are those `Init` and `Save` can leave there, none of them filtered.

`net` holds pings; the answering proxy is part of the step `ProcessProbePong`,
which may list any other proxies as anything (`Listed`), because its own file and
neighbours decide that.  Pings from others have no state but their sender.  The
field `later` of a ping, the number of pings sent to its receiver since, and the
variables `probed` and `torn` are history.  `ts` is set where the code sets it, in
`probe` and where somebody is learned or a pong is accepted, and not by the pings of a
known neighbour.

Left out: `rtt`, `mask`, `asn` and `port`, which are stored and passed on, and an
address that is twice in a file.

### Agenda, SkipList, EventQueue

`Agenda` has one time per periodic event: an event is executed when its time has
come and no other is earlier, and is then due one interval later.

`SkipList` is `proxy/skiplist.h` with its pointers: `forward[k][i]`, `previous[k]`,
`head`, `tail`, `lvl`, `sz`.  `Insert` may give an element any height (`RndLvl`), which
includes what `rndlvl` draws; `RemoveHead` is what `pop` comes to.  An element is named
by its key, the second of its entry. `EventQueue` keeps the events of each entry in
`entries`; `AddEvent` joins an entry or inserts one.  `EventQueue::run` is taken apart
where its state can be seen by the events it executes: `Takes` (the head leaves the
list), `Executes` (one event, which adds itself), with the second clock reading behind
the last one.  `Selects` is `get_idle_time` and the call of select, `Wakes` and `Packet`
its ends.  The code sets `tv_sec` of the timeout only: `tv_usec` is 10 at the start, 0
after a wait that came to its end, and whatever was left of one that a packet cut
(`corsproxy.cpp:66,75,77`).  The model keeps whether it is 0, and a fraction may carry
the wait into the next second.  `Tick` may come anywhere, also inside `run`.
`RefinesAgenda` maps `due` to the place of the event (`DueOf`).

Left out: `append_event`, removal of an element that is not the head,
`closestsucc` and traversals, which nothing calls.

### CorsProtocol, RelayAdvisor, AdvanceRldvr, SimpleRldvr, CorsProxy

`CorsProtocol` keeps the fields of a packet that decide something.  What
`Deserialize` refuses is `Complete`: a field that begins behind the end.

`RelayAdvisor` has the neighbours of each proxy, which its neighbour maintainer
changes at will, and the inquiries in the network.  `AdvanceInquiry` is
`process_rl_inquiry`, with `AnswerFromCache` and `AskDatabase`; `AdvanceFilter` is
`process_rl_filter`, which names the AS set of a pair and answers the tasks that
wait for it; `AdvanceUpdate` is the timer: it answers overdue tasks at random
(`Drawn`) and drops old entries of the cache.  Stamps are kept as ages.
`SimpleInquiry` is `process_rl_inquiry` of the other advisor.

`CorsProxy` adds the loop: `Runs`, `Selects`, `Wakes`, `Dispatch...`.  The database
answers a pair it was asked for any number of times; clients ask at any time.
`answers` and `advised` are history.  An inquiry keeps its name (`id`) on its way
so that the properties can tell which advice is for which.  `Duplicates` is the network
delivering a packet twice: the copy is like the packet but for its name, and
inherits what was counted for it, so that the counts of a name are those of one
way through the proxies.  The fraction in `tv_usec` is any (`Selects`).

Left out: `process_rl_filter` of `SimpleRldvr`, which fills a cache nobody reads
(that advisor never asks the database), the reports, which both advisors pass on as
they are, and `FakeRldvr`, whose handlers are empty.

### Translator

`path` is the table, `m_s` and `pos` the record set with its cursor.
`ProcessReport` inserts the first entry of a report: the text of the values grows
from one entry to the next (`translator.cpp:303`), and what is sent for the second
is no statement MySQL takes.  `Select` appends the rows it fetches to those of
former queries (`cors_mysql.cpp:235`).  Any query may fail.

### MpathManager

A socket of either kind of manager, one after the other.  `SendMesh`, `SendInTurn` and
`SendElsewhere` are `CorsSocket::sendto` with the `send_packet` branch it takes, and
with the check of the requirement behind it (`GetRequirement`).  `SelectorChanges` is
the thread of the relay selector, which gives any list, one relay in it twice included:
that is what `SimpleRlysltr` shows `process_bw_reply` to leave.  `Receive` is `recvfrom`
with `parse_data_packet` at the other end, as often as the network delivers the packet.
`cur_channel`, `bstat` and `send_num` are statics of the code: they survive `Close` and
`Open`, and the other sockets of the program move them (`OtherSends`), which have relays
and counts of their own.  Sockets are used by one thread at a time; the code does not
guard the statics.  A field `lossrate` nobody sets is any Boolean of "too high"
(`Lossy`).  The packet of `SendElsewhere` is not kept: it has no header, and its first
byte is assumed not to be one of CORS's types, by which `recvfrom` would take it for a
packet of its own.  Left out: `process_path_statistics`, which is never called, because
`control` is never 4 (`StatisticsSilent`).

### StreamPlayer

The three threads with their program counters `listen`, `tick`, `play`; each action is
what a thread does in one locked section or between two.  `buffer` holds frames by
index; the program sees their number modulo `SeqWidth`.  `Write` and `Read` are those of
`test/jitter.cpp`.  Frames are lost (they stay in `net`), reordered (a set) and
duplicated (`MaxDups`).  Left out: the dump file, decoding, statistics, and
`jitter2.cpp`, the buffer of `streamdump`.

## 4. Runs

| Run | Shows | Bounds |
|---|---|---|
| `fwd_safety` | bandwidth accounting, flow limit, bounded idleness, fresh sessions stay, the window of the sweep's race, `SimpleFwd` implements `RelayLease`, stale sessions go | 3 keys, table of 2, numbers of one bit, requests that fit and that overflow, timeout, interval and lag of 1 s |
| `rlysltr_safety` | valid iterators, bounded lists, sorted relay list, reasons to leave | 2 relays, list of 2, 2 packets, ages to 2, advice of 2 |
| `rlysltr_live` | closing ends; nobody is forgotten by the pinger | 2 relays, lists of 2, 1 packet, data of the socket included |
| `rlysltr_loop` | *violated*: the release loop stands on an erased node | receive thread of its own |
| `session_live` | relays get their resources back and keep them, whatever is late or duplicated, data included | 2 relays, list of 1, 2 packets |
| `nbmtr_safety` | map and list agree, only the pong of the last ping is accepted (or of one a whole round before), oracles of the file stay, drops at the start only, everybody who stays is probed again and again | 3 proxies, 1 crash, 1 ping, pongs of 2, numbers to 1, abate after 2 s |
| `events` | the skip list is whole, one place for each event, no wait past an event by more than the fraction left in `tv_usec`, `EventQueue` implements `Agenda` with its fairness | 3 events with all intervals to 3 s, 5 s, 2 levels |
| `proxy` | each copy of an inquiry is answered `MAX_TTL` times at most and asks the next proxy only for what is missing on its way, tasks and cache entries do not outlive their time, no task ends unanswered without a reason | 2 proxies, one of each advisor, 2 inquiries of one AS pair or one and a copy, 3 hops |
| `corsdb` | no row that was not reported, answers hold every row of the table | 2 relays, reports of 3, 3 reports, 3 inquiries, packets of 4 |
| `mpath` | relays given up stay out, none is in use twice, packets are read as sent, relays in use are listed ones | 2 relays of bandwidth 1 and 2, all lists of up to 2, phases of 2 and 1 packets, 1 packet of another socket, inquiries every second |
| `mpath_payload` | *violated*: in round robin a relay is sent no payload | as before |
| `player` | the buffer is ordered, nothing played early, nor twice or backwards within a round of the numbers, a stopped player closes, the buffer drains | 4 frames with a wrap of the numbers between them, 1 duplicate, slots to 3 |

`corsdb` and `events` do not check deadlock: packets and seconds end at their bound.

Why these bounds are enough.  A full table plus one key outside it meets every
branch of the forwarder; a request of `Width` is truncated to 0, two of 1 make the
counter wrap, and a session is resized from one to the other.  A lag of one second
is what makes clock readings late; more of it changes numbers only (the theorems
hold for every value).  In the selector a list of two with two relays, either of
which may appear twice, puts the pinger's iterator before, on and behind the node
that goes, and at `end()`; an age of `MaxDelay + 1` makes a reply late; two packets
make reordering and duplicates possible, and a release and a reservation of the
same relay to be on the way together.  Among neighbours, three make a front, a
middle and a back, a `MinSize` of the same number makes the second ping come and
go, and a pong of two has a known and an unknown one in either order.

Three events with intervals of 1 to 3 seconds meet in one entry and part again, and two
levels give every shape of update path an insertion can find: above the head, below it,
beside it.  Five seconds let every interval but the longest come round twice. Among
neighbours, two sequence numbers are the shortest round that tells the last pong from
the one before.  Two proxies that are each other's neighbours are the smallest circle an
inquiry can run in; what an inquiry requires is more than both can advise, so that only
the TTL ends it, and three hops bring it back to where it began; the second name is an
inquiry of its own or a copy of the first, made anywhere on its way; both are of one
pair, so that the cache, a waiting task and an answer meet.  In `corsdb` a packet of 4
relays is fuller than the table and smaller than three queries of it.  In `mpath` one
relay alone meets the requirement and the other does not, both orders of the list occur,
one relay twice and none at all, and the phases are of different lengths; one packet of
another socket is enough to begin a phase in which this socket's counts are not zeroed.
In `player` the numbers are 6, 7, 0, 1: two frames on each side of the wrap, with the
time stamps of I, P, B, B, which are played out of the order they are sent in.

Bounds of the models: `MaxLag`, `MaxIdle` (the ages not told apart), `MaxAge`, `MaxNet`,
`BootLen`, `MaxListed`, `MaxCrashes`, `MaxNow`, `MaxInterval`, `MaxLate`, `MaxEntries`,
`MaxReports`, `MaxInquiries`, `MaxList`, `MaxOthers`, `NFrames`, `MaxDups`, `MaxSlot`.

### Fairness

* `SimpleFwd`: weak fairness of the clock, of a handler that waits for the
  mutex and of the daemon's two steps: threads are scheduled, and the mutex is
  held for one pass over the table.  Nothing is assumed of packets.
* `SimpleRlysltr`: weak fairness of the pinger and of the closing thread, none of
  packets or of the application.
* `RelayedSession`: time passes (so packets are delivered or die) and every
  relay ages and sweeps its sessions, which is what `StaleSessionsGo` establishes.
* `SimpleNbmtr`: weak fairness of the clock, of `Probe` (the loop runs what is due
  at every turn) and of `Restart`; none of packets, nor of `Save`.
* `EventQueue`: weak fairness of the daemon's steps together, and of the last second of
  a wait (`WaitEnds`): select returns when its time is over.  None of packets or of time
  otherwise.  From it follows the fairness of every event of `Agenda`, which holds while
  the clock is below its bound `MaxNow`: there the clock of the model stands, and a wait
  that a fraction carries past it would not end.
* `StreamPlayer`: weak fairness of each thread (its main thread only once it stops
  listening); none of packets, of the sender or of the end of the stream.
* `CorsProxy`, `Translator`, `MpathManager`: none; their properties are safety.

`NobodyForgotten` holds while the receiver leaves the lists alone.  Without that
condition it is false: advice resets the candidate iterator to `begin()`, and
dropped entries reset the relay iterator, so that repeated replies can keep the
tail of a list from ever being probed.  `Open` may never happen, and then the
pinger's probes name destination 0.0.0.0 and are never answered (`Probed`).

## 5. Proofs

All theorems are for every value of the constants that satisfies the assumption of
the module they are about (`FwdAssumption`, `RlysltrAssumption`, `NbmtrAssumption`,
`PlayerAssumption`, `MpathAssumption`, `SkipListAssumption` and `EventQueueAssumption`,
`ProtocolAssumption` and `TranslatorAssumption`, and those of the modules `CorsProxy`
extends).

`SimpleFwdProofs`: `TypeCorrect`, `NeverTooManyFlows`, `BandwidthAccounted`,
`IdleBounded`, `FreshStay`, `RaceWindowBounded`, `ForwarderKeepsLeases`.  The
argument has three inductive parts.  `TypeInv` adds to the types that the table
is finite and within `MaxFlow` (`TableInv`); without finiteness the cardinalities
in `Size` and `Accounting` say nothing.  `Accounting` is inductive together with
it, and rests on lemmas that let `%` pass through sums and
differences.  `IdleInv` strengthens `IdleBound` by the place of the daemon: between
two sweeps a session can be no older than what the last sweep spared plus the
time since.  What a sweep takes is timed out by a clock reading that is at most
`MaxLag` old (`WhoErases`), which gives `FreshStay`, `RaceWindowBounded` and the
refinement: what the sweep takes is stale.

`SimpleRlysltrProofs`: `TypeCorrect`, `IteratorsStayValid`, `CandidatesBounded`,
`RelaylistBounded`, `FastestFirst`, `LeavesOnlyForAReason`.  The invariant has three
parts: `ListInv` (relay list sorted, bounded, its iterator valid), `CandInv`
(candidates never empty, their iterator on a node) and `OtherInv` (the rest of the
types).  `PositionFits` says where `process_bw_reply` inserts: after everything
faster, before everything not faster; from it follow order and bound.

Closing, in the same module: `LoopSafeWithoutReceiver`, `CloseComesNearer`.  `CloseInv`
says what the end of a socket leaves still: from `close()` on the flag is down, after the
join the pinger is done, and without a receiver the release loop walks a list nobody
changes, so that its iterator stays in place.  `ReleaseLoopSafe` therefore fails only as
`rlysltr_loop` shows it, through a thread that receives meanwhile.  `CloseComesNearer` is
the part of `CloseEnds` that needs no fairness: a count of the pinger's steps
(`PingerLeft`), then the rest of the list, which every step of the thread in question
lowers and no step of another one raises.

The client with its relays, in the same module: `SelectorInSession`,
`SessionsAreLeases`, `ClosedClientFades`, `OnlyConfirmedInUse`, `EveryListedReleased`.
The first says that the selector of `RelayedSession` is the one of `SimpleRlysltr`
(`SessionIsNext`), so that all of the above holds in the composition.  The second is a
refinement per relay, `Relay(r) == INSTANCE RelayLease WITH ...`: what the composition
lets a relay do to a lease, `RelayLease` allows; with `ForwarderKeepsLeases`, which
shows that the forwarder implements `RelayLease`, it ties the two ends of the system
together. `ClosedClientFades` is the part of `ResourcesComeBack` that needs no fairness:
a lease of a closed client revives only from a reservation on its way, there are no new
ones, and time makes those there are older; a stale one becomes live again from such a
reservation or from data that is still on its way.  The last two are what is true of
"release all preserved resources" (`simplerlysltr.cpp:695`, section 6): every relay in
use has confirmed and was not given back (`ListedConfirmed`), the release loop has given
back all it has passed (`ReleasedSoFar`), and so every relay *listed* is released; those
that left the list earlier are not, as `AllReleased` shows.

`SimpleNbmtrProofs`: `TableStaysWhole`, `OnlyLastPongs`, `DropsNobodyLater`,
`OraclesNeverLost`, `ProbeComesNearer`.  Map and list are not inductive alone: a restart
takes both from the file, so that the file must have nobody twice, whole or torn
(`FileInv`), which a save gives because it goes through the map; and the oracles of the
file must be in the list as long as no save was torn.  `LastInv` says why nobody is
dropped after the first probe: the last of the list is the one probed last, no older
than the time since, and that stays below `AbateInterval`.  `SeqInv` is why late pongs
are told from the last one: the number of a neighbour is as many past that of a ping on
its way as pings were sent to it since, modulo the round, as long as the numbers did not
begin anew; they do when a proxy restarts, or drops the neighbour and learns it again.
`ProbeTurns` and `FrontGrows` say what probe and the two handlers do to the list.
`ProbeComesNearer` is the safety half of `EverybodyProbed`: after the first probe the
list grows in front, which it does finitely often, or every probe brings everybody one
place nearer to the front, and no other step moves anybody.

`StreamPlayerProofs`: `BufferStaysOrdered`, `NeverPlaysEarly`, `PlaysInOrder`.
`PlayedInv` puts the deadline above every number played in a round, until its last
number is; `SlotInv` keeps what is played behind the slot the timer has reached.
`PlaceFits`, with `FirstPositions`, says where `Write` inserts a frame.
`NobodyLeftWaiting` and `StopComesNearer` are about the end of the player.  The join of
the play thread would be for ever if it waited for a slot after the timer thread has
ended; `HandoverInv` says that whoever waits then finds `Terminate`, because the timer
thread writes it last and the play thread takes it only to end.  While the main thread
waits for the two, each step of the timer thread lowers `TimerLeft`, and each of the play
thread lowers `PlayLeft` or, within one hand-over, the frames and slots that are left
(`Unplayed`).

`MpathManagerProofs`: `Counts`, `NoneBack`, `HeadersRead`, `RelaysSelected`.
The properties of `Inv` and `ReadAsSent` are not inductive, because they say nothing of
the statics and of the headers.
`CountsFollowPhase` ties the counts to `send_num`: as long as no other socket sends,
no relay was sent more within a phase with statistics than the phase so far, and at
its end it starts anew.  `Headers` says what the headers of packets on their way
contain, and with it `Parsed` gives back what was sent.  `KeptRelays`, `AddableRelays`
and what follows on them say what a check of the requirement selects, from a list that
may have a relay more than once: of those that can be added each is taken at its first
place (`First`), which is what the test against `goodrelays` as it grows comes to.  They
rest on `Lists`, in which selecting from a list is taking a strictly increasing sequence
of places.

`KnowledgeProofs`: `Invariance`, `AsksForMissing`, `AnswersAreBounded`,
`TasksAreServed`, `UpdateInTime`, `TasksAreAnswered`, for any number of proxies, any
lists of neighbours and any knowledge of the database.  Neither what an inquiry asks for
nor how often it is answered is inductive alone, for the handlers add to both what they
find in the queue.  `OnePlace` says that what bears one name, an inquiry or a copy of
one, is with its client, in one packet or one task: a handler takes it from its place
before it answers, so no two places add to one account (`UpdateSums` and the lemmas on
`Total` sum over the tasks that one event answers).  `HopsLeft` adds the hops that are
left to the answers there were; each answer costs one.  `AskedIsMissing` is two-sided:
never more than is missing on the way of this copy, and no less where an advice has room
for all the neighbours there can be (`ListsFit`; otherwise the code asks for too little,
see section 6). `OldestFirst` is why the update timer, which stops at the first task
that is young enough, leaves no old one behind; `InTime` puts every stamp below the time
since the last update and the wait of the loop below the time to the next one and a
second. All this is per copy: of an inquiry that the network makes n packets of, up to
`MAX_TTL` answers for each come, and the copies ask for relays that others were advised.
`SimpleKnowsNothing` keeps the other advisor out of all this.  The update timer is the
long part: it answers several tasks in one step, at random.

The database server, in the same module: `TableIsReported`, `AnswersHaveTheTable`,
`OnlyReportedRelays`, `FullAnswersNeverChange`, for any relays, any reports and any
failures of the queries.  `RowsAreReported` bounds the rows of each relay by its reports;
it is inductive, since a report adds one row at the most (`ReportStores`, `OneRowMore`).
What the answers are needs the record set as well: `RecordsAreRows` says that the records,
of whichever query they are, are rows of the table, and that the last answer is of the
oldest of them.  With `DatabaseInv` it makes `DatabaseIInv`; it gives
`AnswersAreFresh`, that nobody is named who was not reported, and the end of freshness:
once an answer fills its packet, every later one is the same.

`EventQueueProofs`: `Invariance`, `QueueStaysWhole`, `SleepsInTime`, `QueueKeepsAgenda`,
for any intervals, any number of levels and whatever heights are drawn.  `SkipListWhole`
alone cannot be kept by an argument about pointers, for it says what the links are and
not what a search along them finds.  `Shape(M, L)` says it with sets: M are the members,
each level L[i] a subset of the one below it, linked in the order of the keys
(`Follows`); elements outside have no links.  `Along` and `Update`, the walk over a
level and the predecessors it collects, are recursive functions; `AlongFinds` and
`UpdateFinds` find the functions that satisfy their equations, by the greatest place at
which another one would differ.  From them `InsertShapes` (at the head, or behind some
element) and `RemoveHeadShapes`, `RemoveLastShapes` say which shape an operation leaves,
and `SearchFinds` that a search finds the members and no others.  `InsertAdds` and
`RemoveHeadTakes` are all that the event queue needs of its list.  Above it `OnePlace`
says that each event is to be added, about to be executed or in one entry; `Lists`, that
the entries with events are the members; `RunsTheEarliest`, that what has left the list
comes before all that is in it.  With these the time an event is due (`DueOf`) changes
only where it is executed, which is the refinement, `A!Init /\ [][A!Next]_A!vars`.
`WakesInTime` needs that the head is the least member, that nothing is added while
select waits, and that what is left in `tv_usec` is less than a second.

The assumptions that matter: `Width <= MaxFwdBw` (2^16 and 2^21), so the cap on a
grant is never below the width; `MaxLag <= TimeoutSec`, no scheduling delay as
long as the session timeout; a configuration file with at least one candidate
(the constructor throws otherwise); advice no longer than `MAX_CAND_LEN`, which
CORS senders respect (`MAX_ADVICED_RELAYS`); `ProbeInterval + MaxLag <
AbateInterval`, by default 1 s and 1200 s; `MaxTTL <= 255`, the field is a byte (it is 4).

Only model-checked: the liveness properties (`StaleSessionsGo`, `CloseEnds`,
`NobodyForgotten`, `ResourcesComeBack`, `EverybodyProbed`, `StopEnds`, `Drains`, and the
fairness in `RefinesAgenda`): the prover does neither fairness nor ENABLED.  Of
`CloseEnds`, `ResourcesComeBack`, `EverybodyProbed`, `StopEnds` and `RefinesAgenda` the
safety half is proved, as said above, and `IdleBound` bounds what `StaleSessionsGo` waits
for.  Every invariant and every action property of a passing run is a theorem.

## 6. Disagreements with the source's own words

* `rlysltr_loop`: `simplerlysltr.cpp:696` walks `relaylist_` without its mutex.
* `mpath_payload`: `simplempathmanager.cpp:135` (and `statmpathmanager.cpp:133`) sends
  the header and `nbytes` of the stack instead of the payload.

Stated as properties in the modules and found violated by TLC when they are asked
for, with the specification and constants named:

* `NoPhantomBandwidth` (`SimpleFwd`, `fwd_safety.cfg` with `Spec`): `simplefwd.cpp:203`
  charges a reservation before the size test of line 205; refused reservations are
  never credited.
* `ProbeTellsRemaining` (`SimpleFwd`, the same): `simplefwd.cpp:158` converts a 32-bit
  number with `htons`.
* `AllReleased` (`RelayedSession`, `session_live.cfg` with `SessionSpec`,
  `MaxCandLen = 2` and `MaxDelay = 1`): relays that confirmed a reservation and then
  left the list (`simplerlysltr.cpp:604`, `670`, or never inserted, `663`) are not
  released.
* `LastPongExpected` (`SimpleNbmtr`, all of `Oracles = {1, 2, 3}`, `SeqLimit = 4`, no
  crash): numbers wrap at 250 (`simplenbmtr.cpp:205`), answers do not.
* `NovelPushed` (`SimpleNbmtr`, `nbmtr_safety.cfg`, no crash): `simplenbmtr.cpp:388`
  moves on in a pong only past new entries.

Seen while modelling, and part of the models, though no property is about them:

* `lossrate` of a relay node is never set; with a required loss rate of 0 the second
  manager gives up every relay (`Lossy`).
* `direct` is a field of one bit and is given `FOUR`; `control` is always 0, so that no
  receiver reports statistics.
* The direct path may be left out for any number of packets: `cur_channel` is reduced by
  the relays in use of the moment (`simplempathmanager.cpp:113`), and where that number
  alternates between 2 and 3 the channels are 1, 2, 0, 1, 2, ..., in which the direct
  path never has its turn; another socket, which shares the static, may as well take all
  its turns.  No property claims that it gets one.
* With two sockets open `send_num` and `bstat` are of both, and only the one whose packet
  begins a phase zeroes its counts (`statmpathmanager.cpp:150-158`): those of the other
  grow from phase to phase, beyond `stat_on` (`CountsOfOnePhase` holds with
  `others = 0` only).
* When the selector's list has become empty, the check of the requirement returns before
  it compares anything (`simplempathmanager.cpp:214`, `statmpathmanager.cpp:271`): relays
  the selector has dropped stay in use until it lists one again (the first case of
  `SelectsRelays`).
* `CorsProxy::start` sets `tv_sec` of its timeout and never `tv_usec`
  (`corsproxy.cpp:66,75`): after a packet the next wait is longer than `get_idle_time`
  by what select left there, less than a second, and events run that much late
  (`WakesInTime`).
* A duplicated inquiry is answered in all its copies, and each copy asks the next proxy
  for relays that the other was advised.
* `CorsSocket::sendto` with another destination sends to the stored one, without a
  header (`SendElsewhere`).
* `EventQueue::run` would not return if an event had an interval of 0; the model
  assumes an interval of a second at least, as the configuration has.
* `repok` of the skip list does not begin anew on each level: it checks the top level
  only.  `SkipListWhole` checks all.
* The translator sends its answer to the address of the pointer
  (`translator.cpp:284`), while line 280 logs the asker; it does not clear the text of
  the values between two entries (303); its answer is not restricted to the pair of
  the inquiry, because the condition is commented out (232).
* `ExecuteSQL` appends the rows of a query to those of former ones, so that after 20
  records all answers are the oldest 20 (`FullAnswersNeverChange`).
* `AdvanceRldvr` asks the next neighbour for too little when more than 20 relays are
  required and more than 20 match: it counts those it could not put in the packet.
* `SimpleRldvr` reads an inquiry by a layout of its own, in which the client's port is
  where the AS number is: its advice goes to no client.
* At the wrap of the sequence numbers `jitter.cpp:76` refuses the frames of the next
  round as too late, until the frame of the last number was played.
* `DropsOnlyAtStart` says that `abate_interval` has no effect after the first probe,
  and `nbconfgen` makes an oracle of everybody after the first one.

## 7. Not modelled

* The early returns of the relay selector's constructor for a short parameter list
  (`simplerlysltr.cpp:59,63`), after which there are no mutexes and no pinger, and close
  joins a thread that was never made; and the filter of the neighbour maintainer's
  constructor, which leaves out the lines of its file that have the proxy's own address
  or one of a private network (`simplenbmtr.cpp:70`): the model's proxies have neither.
* Factories: a switch on a type name each.
* `CorsProbe` and `ParseToString` of the wire protocol: the first is used by test
  programs only, the second is formatting.
* `process_rl_filter` of `SimpleRldvr`, `FakeRldvr`, `process_path_statistics`: see the
  modules above.
* `jitter2.cpp` and `streamdump`: a second buffer with a bench for relayed packets,
  used by one tool that dumps a stream.
* The heartbeat thread of `corsdb`, which logs; transactions, cursors and moves of the
  MySQL wrapper, which nothing calls.
* Address and AS-number utilities, configuration generators (but for what they write
  into the file of neighbours), media and file I/O of the test programs, deployment
  scripts, logging, parameter parsing, and behaviour after the C++ objects have been
  deleted.

## 8. Running

In this directory, for example

    tlc -workers 2 -config fwd_safety.cfg SimpleFwd.tla
    tlapm SimpleFwdProofs.tla

The module and properties of each run are in `PROJECT.json`.
