---------------------------- MODULE SimpleRlysltr ----------------------------
(***************************************************************************)
(* The relay selector of a CORS client (client/simplerlysltr.cpp).  It     *)
(* probes candidate relays, reserves bandwidth at those that are fast      *)
(* enough and keeps the reserved ones in relaylist_, sorted by delay.      *)
(*                                                                         *)
(* Threads.  cycle_ping, the pinger, walks round both lists with one       *)
(* iterator each and sends probes.  A receiver calls process_* for every   *)
(* packet.  The application opens and closes the socket; it may be the     *)
(* receiver itself (test/simpleclient.cpp) or another thread               *)
(* (test/rtpsender.cpp): ConcurrentClose.  What is done under one lock is  *)
(* one step, with the sends that follow it.                                *)
(*                                                                         *)
(* The lists are std::lists, so an iterator stays with its node: inserting *)
(* or erasing elsewhere does not move it, and erasing its node leaves it   *)
(* dangling.  An iterator is the position of its node, Len + 1 is end(),   *)
(* and Dangling is an iterator whose node was erased.                      *)
(*                                                                         *)
(* Network and time.  The client keeps no record of what it asked; replies *)
(* carry the time stamp of the probe that started the exchange.  The model *)
(* keeps the age of each packet in net instead; an entry of type FW_PROBE  *)
(* stands for a probe on its way to the relay, the destination and back.   *)
(* Packets are lost, reordered and duplicated.  A relay is known by its    *)
(* address, the only field the code compares.                              *)
(***************************************************************************)
EXTENDS Integers, Sequences, FiniteSets, SequencesExt

CONSTANTS
  Relays,          \* addresses of relays
  BootLen,         \* longest list of candidates in the configuration file
  MaxCandLen,      \* MAX_CAND_LEN, 20 in the code
  MaxAdvice,       \* MAX_ADVICED_RELAYS, 20 in the code
  RelayNum,        \* req.relaynum
  MaxDelay,        \* the largest delay meet_requirement accepts
  MaxAge,          \* packets older than this have been lost: bound of the model
  MaxNet,          \* packets on the network at one time: bound of the model
  ConcurrentClose, \* whether packets are received while the socket is closed
  WithData         \* whether the data of the socket is followed too

ASSUME RlysltrAssumption ==
  /\ BootLen \in Nat \ {0}
  /\ MaxCandLen \in Nat
  /\ MaxAdvice \in 1 .. MaxCandLen
  /\ RelayNum \in Nat
  /\ MaxDelay \in Nat
  /\ MaxAge \in Nat
  /\ MaxNet \in Nat
  /\ ConcurrentClose \in BOOLEAN
  /\ WithData \in BOOLEAN

VARIABLES
  candidates,  \* candidates_
  iterc,       \* iter_candidates
  relaylist,   \* relaylist_
  iterr,       \* iter_relaylist
  pinger,      \* cycle_ping: where it is and its copy of the candidate
  running,     \* running_
  app,         \* where the application is in the life of the socket
  cursor,      \* the iterator of release_resources
  net          \* packets on the network

cands  == <<candidates, iterc>>
relays == <<relaylist, iterr>>
vars   == <<cands, relays, pinger, running, app, cursor, net>>

-----------------------------------------------------------------------------
(* Values *)

Node == [relay : Relays, delay : 0 .. MaxAge]

Packet == [type : {"FW_PROBE", "BW_RESERVE", "BW_REPLY", "BW_RELEASE", "DATA"},
           relay : Relays, age : 0 .. MaxAge]

Pinger ==
       [at : {"top", "next_candidate", "next_relay", "done"}]
  \cup [at : {"scan"}, cand : Relays]

At(place) == [at |-> place]

Dangling == 0

\* Variant of Advance: it stays on the last node.
AdvanceStuck(it, list) == IF it < Len(list) THEN it + 1 ELSE it

\* ++it on a circular walk: end() is stepped over, and in a std::list the
\* successor of end() is begin().
Advance(it, list) == IF it < Len(list) THEN it + 1 ELSE 1

\* An iterator after an insertion at p and after erasing position p.
AfterInsert(it, p) == IF it >= p THEN it + 1 ELSE it
AfterErase(it, p) ==
  IF it = p THEN Dangling ELSE IF it > p THEN it - 1 ELSE it

\* The positions of the list entries for a relay.
Entries(r) == {i \in DOMAIN relaylist : relaylist[i].relay = r}

InUse(r) == Entries(r) # {}

First(S) == CHOOSE i \in S : \A j \in S : i <= j

\* A packet sent into a network that holds the packets of rest.
Sent(rest, type, r, age) ==
  LET packet == [type |-> type, relay |-> r, age |-> age]
  IN  IF Cardinality(rest) < MaxNet THEN rest \cup {packet} ELSE rest

-----------------------------------------------------------------------------
(* The application *)

Init ==
  /\ candidates \in {s \in SeqOf(Relays, BootLen) : s # <<>>}
  /\ iterc = 1
  /\ relaylist = <<>>
  /\ iterr = 1
  /\ pinger = At("top")
  /\ running = TRUE
  /\ app = "new"
  /\ cursor = 1
  /\ net = {}

\* CorsSocket::init: the destination and the requirement are set.
Open ==
  /\ app = "new"
  /\ app' = "open"
  /\ UNCHANGED <<cands, relays, pinger, running, cursor, net>>

\* release_resources up to the join; the variant forgets the flag.
CloseUnannounced ==
  /\ app = "open"
  /\ app' = "closing"
  /\ UNCHANGED <<cands, relays, pinger, running, cursor, net>>

Close ==
  /\ app = "open"
  /\ app' = "closing"
  /\ running' = FALSE
  /\ UNCHANGED <<cands, relays, pinger, cursor, net>>

\* pthread_join returns and the loop over relaylist_ starts.
Join ==
  /\ app = "closing"
  /\ pinger = At("done")
  /\ app' = "releasing"
  /\ cursor' = 1
  /\ UNCHANGED <<cands, relays, pinger, running, net>>

\* One turn of that loop, which holds no lock.
ReleaseOne ==
  /\ app = "releasing"
  /\ cursor \in DOMAIN relaylist
  /\ net' = Sent(net, "BW_RELEASE", relaylist[cursor].relay, 0)
  /\ cursor' = cursor + 1
  /\ UNCHANGED <<cands, relays, pinger, running, app>>

ReleaseEnds ==
  /\ app = "releasing"
  /\ cursor = Len(relaylist) + 1
  /\ app' = "closed"
  /\ UNCHANGED <<cands, relays, pinger, running, cursor, net>>

Closing == Close \/ Join \/ ReleaseOne \/ ReleaseEnds

\* CorsSocket::sendto: a data packet to relay r leaves the same socket.  The
\* manager chooses the relay (MpathManager), and its list lags behind relaylist_.
SendsData(r) ==
  /\ WithData
  /\ app = "open"
  /\ net' = Sent(net, "DATA", r, 0)
  /\ UNCHANGED <<cands, relays, pinger, running, app, cursor>>

-----------------------------------------------------------------------------
(* cycle_ping *)

PingerStops ==
  /\ pinger = At("top")
  /\ ~running
  /\ pinger' = At("done")
  /\ UNCHANGED <<cands, relays, running, app, cursor, net>>

\* What a probe of relay r puts on the network: before init() the destination
\* is 0.0.0.0 and no answer will come.
Probed(r) == IF app = "new" THEN net ELSE Sent(net, "FW_PROBE", r, 0)

\* The candidate of iter_candidates is copied under its lock and probed.  The
\* report of the whole relaylist that follows every 10 seconds changes nothing
\* but its own timer.
PingerProbes ==
  /\ pinger = At("top")
  /\ running
  /\ pinger' = [at |-> "scan", cand |-> candidates[iterc]]
  /\ net' = Probed(candidates[iterc])
  /\ UNCHANGED <<cands, relays, running, app, cursor>>

\* The relay of iter_relaylist is probed too, unless the iterator is end() or
\* the relay is the candidate of this turn.
PingerScans ==
  /\ pinger.at = "scan"
  /\ net' = IF \/ iterr = Len(relaylist) + 1
               \/ relaylist[iterr].relay = pinger.cand
            THEN net ELSE Probed(relaylist[iterr].relay)
  /\ pinger' = At("next_candidate")
  /\ UNCHANGED <<cands, relays, running, app, cursor>>

\* increase_iter, its two locked sections.
NextCandidate ==
  /\ pinger = At("next_candidate")
  /\ iterc' = Advance(iterc, candidates)
  /\ pinger' = At("next_relay")
  /\ UNCHANGED <<candidates, relays, running, app, cursor, net>>

NextRelay ==
  /\ pinger = At("next_relay")
  /\ iterr' = Advance(iterr, relaylist)
  /\ pinger' = At("top")
  /\ UNCHANGED <<cands, relaylist, running, app, cursor, net>>

CyclePing ==
  PingerStops \/ PingerProbes \/ PingerScans \/ NextCandidate \/ NextRelay

-----------------------------------------------------------------------------
(* The receiver *)

Receiving == app = "open" \/ (ConcurrentClose /\ app \in {"closing", "releasing"})

\* A packet of the type arrives.  In the handlers "rest" is what the network
\* still holds afterwards: it keeps the packet when the packet was duplicated.
Arrives(m, type) ==
  /\ Receiving
  /\ m.type = type

\* Whether the candidates make room for new ones; the variant looks at the old
\* list only.
CrowdedBefore(new) == Len(candidates) > MaxCandLen
Crowded(new) == Len(candidates) + Len(new) > MaxCandLen

\* process_rl_advice with at least one relay; the new ones go to the front.
ProcessRlAdvice(new) ==
  /\ Receiving
  /\ candidates' = IF Crowded(new) THEN new ELSE new \o candidates
  /\ iterc' = 1
  /\ UNCHANGED <<relays, pinger, running, app, cursor, net>>

\* meet_requirement: delay <= 1.5 * req.delay; the variant excludes the bound.
MeetsStrictly(delay) == delay < MaxDelay
MeetRequirement(delay) == delay <= MaxDelay

\* process_fw_reply, the delay accepted: bandwidth is reserved at a relay that
\* is not in use and not busy.  The reservation keeps the probe's time stamp.
ProcessFwReplyGood(m, rest, busy) ==
  /\ Arrives(m, "FW_PROBE")
  /\ MeetRequirement(m.age)
  /\ net' = IF InUse(m.relay) \/ busy THEN rest
            ELSE Sent(rest, "BW_RESERVE", m.relay, m.age)
  /\ UNCHANGED <<cands, relays, pinger, running, app, cursor>>

\* The iterator of the release loop, which moves only while that loop runs.
Shifted(it) == IF app = "releasing" THEN it ELSE cursor

\* iter_relaylist when the entry at p is going to be erased; the variant
\* forgets that it may be that entry.
StayOn(p) == iterr
StepAside(p) == IF iterr = p THEN iterr + 1 ELSE iterr

\* The entry at p erased and end() turned into begin().
Erased(p) ==
  LET it == AfterErase(StepAside(p), p)
  IN  /\ relaylist' = RemoveAt(relaylist, p)
      /\ iterr' = IF it = Len(relaylist) THEN 1 ELSE it
      /\ cursor' = Shifted(AfterErase(cursor, p))

\* process_fw_reply, the delay too long: the first entry of the relay goes.
ProcessFwReplyLate(m, rest) ==
  /\ Arrives(m, "FW_PROBE")
  /\ ~MeetRequirement(m.age)
  /\ net' = rest
  /\ IF InUse(m.relay) THEN Erased(First(Entries(m.relay)))
                       ELSE UNCHANGED <<relays, cursor>>
  /\ UNCHANGED <<cands, pinger, running, app>>

\* Variant of InsertPosition: the order of arrival.
InsertLast(delay) == IF Len(relaylist) < RelayNum THEN Len(relaylist) + 1 ELSE 0

\* Where process_bw_reply inserts: before the first of the RelayNum first
\* entries that is not faster, else at the end if that is one of the first
\* RelayNum places; 0 is nowhere.
InsertPosition(delay) ==
  LET slower == {i \in DOMAIN relaylist : i <= RelayNum /\ relaylist[i].delay >= delay}
  IN  IF slower # {} THEN First(slower)
      ELSE IF Len(relaylist) < RelayNum THEN Len(relaylist) + 1 ELSE 0

\* The list has an entry too many; the variant counts from zero.
TooManyByOne(n) == n > RelayNum + 1
TooMany(n) == n > RelayNum

\* process_bw_reply.  The delay is that of the probe plus the reservation, and
\* is not compared with the requirement.
ProcessBwReply(m, rest) ==
  /\ Arrives(m, "BW_REPLY")
  /\ net' = rest
  /\ LET p        == InsertPosition(m.age)
         node     == [relay |-> m.relay, delay |-> m.age]
         longer   == IF p = 0 THEN relaylist ELSE InsertAt(relaylist, p, node)
         it       == IF p = 0 THEN iterr ELSE AfterInsert(iterr, p)
         at       == IF p = 0 THEN cursor ELSE Shifted(AfterInsert(cursor, p))
         last     == Len(longer)
     IN  IF TooMany(last)
         THEN /\ relaylist' = SubSeq(longer, 1, last - 1)
              /\ iterr' = AfterErase(IF it = last THEN 1 ELSE it, last)
              /\ cursor' = Shifted(AfterErase(at, last))
         ELSE /\ relaylist' = longer
              /\ iterr' = it
              /\ cursor' = at
  /\ UNCHANGED <<cands, pinger, running, app>>

Receive ==
  \/ \E new \in SeqOf(Relays, MaxAdvice) : new # <<>> /\ ProcessRlAdvice(new)
  \/ \E m \in net : \E rest \in {net, net \ {m}} :
       \/ \E busy \in BOOLEAN : ProcessFwReplyGood(m, rest, busy)
       \/ ProcessFwReplyLate(m, rest)
       \/ ProcessBwReply(m, rest)

-----------------------------------------------------------------------------
(* The network, the relays and the destination *)

\* A reservation passes the relay and the destination and comes back.
Answered(m, rest) ==
  /\ m.type = "BW_RESERVE"
  /\ net' = Sent(rest, "BW_REPLY", m.relay, m.age)
  /\ UNCHANGED <<cands, relays, pinger, running, app, cursor>>

\* A packet is lost, or read by somebody who does not answer.
Vanishes(m) ==
  /\ net' = net \ {m}
  /\ UNCHANGED <<cands, relays, pinger, running, app, cursor>>

\* Time passes.  One unit is what tells two delays apart.
Tick ==
  /\ net' = {[m EXCEPT !.age = @ + 1] : m \in {n \in net : n.age < MaxAge}}
  /\ UNCHANGED <<cands, relays, pinger, running, app, cursor>>

Client ==
  Open \/ Closing \/ CyclePing \/ Receive \/ \E r \in Relays : SendsData(r)

Next ==
  \/ Client
  \/ \E m \in net : \E rest \in {net, net \ {m}} : Answered(m, rest)
  \/ \E m \in net : Vanishes(m)
  \/ Tick

Spec == Init /\ [][Next]_vars

\* The scheduler lets the pinger and the closing application go on, and the
\* mutexes are held for a few instructions only.  Nothing is assumed of packets.
Fairness ==
  /\ WF_vars(CyclePing)
  /\ WF_vars(Join \/ ReleaseOne \/ ReleaseEnds)

FairSpec == Spec /\ Fairness

-----------------------------------------------------------------------------
(* Properties *)

\* Type invariant.
TypeOK ==
  /\ candidates \in Seq(Relays)
  /\ iterc \in Nat
  /\ relaylist \in Seq(Node)
  /\ iterr \in 0 .. RelayNum + 1
  /\ pinger \in Pinger
  /\ running \in BOOLEAN
  /\ app \in {"new", "open", "closing", "releasing", "closed"}
  /\ cursor \in Nat
  /\ net \subseteq Packet

\* Neither iterator of the pinger is ever left on an erased node, although the
\* receiver clears, prepends, inserts and erases between two of its steps; and
\* the candidate iterator, which the pinger dereferences without looking, is
\* never end() ("candidates should not be empty", simplerlysltr.cpp:139).
IteratorsValid ==
  /\ iterc \in DOMAIN candidates
  /\ iterr \in 1 .. Len(relaylist) + 1

\* The candidate list is bounded by MAX_CAND_LEN, or by the configuration file.
CandidatesBound == Len(candidates) <= MaxCandLen \/ Len(candidates) <= BootLen

\* The list holds at most the required number of relays (relaynum), fastest
\* first, whatever order the replies come in.
RelaylistBound == Len(relaylist) <= RelayNum
RelaylistSorted ==
  \A i, j \in DOMAIN relaylist : i < j => relaylist[i].delay <= relaylist[j].delay

\* Why entry i of relay r may go: a probe of r came back late, or the list is
\* full of relays that are at least as fast.
Reason(r, i) ==
  \/ \E m \in net : m.type = "FW_PROBE" /\ m.relay = r /\ m.age > MaxDelay
  \/ /\ Len(relaylist') = RelayNum
     /\ \A j \in 1 .. RelayNum : relaylist'[j].delay <= relaylist[i].delay

Leaves(r) == InUse(r) /\ ~InUse(r)'

\* A relay leaves the list only for a reason: a probe of it came back late, or
\* the list is full of relays that are at least as fast.
LeavesForAReason ==
  [][\A r \in Relays : Leaves(r) => \A i \in Entries(r) : Reason(r, i)]_vars

\* close() ends: the pinger sees running_, the join returns and every listed
\* relay is sent its release.
CloseEnds == (app = "closing") ~> (app = "closed")

\* The pinger sends a probe to relay r.
Probes(r) ==
  \/ PingerProbes /\ candidates[iterc] = r
  \/ PingerScans /\ iterr \in DOMAIN relaylist /\ relaylist[iterr].relay = r

Known(r) == InUse(r) \/ \E i \in DOMAIN candidates : candidates[i] = r

\* A step that leaves the lists alone, and lets only the pinger move the
\* iterators.  Replies that replace an entry by its like, or advice that repeats
\* itself, send an iterator back to begin() and can keep it from the tail.
LeftAlone ==
  /\ UNCHANGED <<candidates, relaylist>>
  /\ UNCHANGED <<iterc, iterr>> \/ CyclePing

\* When the receiver leaves the lists alone and the socket stays open, every
\* candidate and every relay in use is probed again and again, although the two
\* iterators advance in step and a relay that is the candidate of the turn is
\* skipped.
NobodyForgotten ==
  (<>[][LeftAlone]_vars /\ <>[]running) =>
    \A r \in Relays : <>[]Known(r) => []<><<Probes(r)>>_vars

\* The release loop of release_resources stays on a node of the list it walks
\* ("mutex for thread safety of relay node list", simplerlysltr.h:145).
ReleaseLoopSafe == app = "releasing" => cursor \in 1 .. Len(relaylist) + 1

=============================================================================
