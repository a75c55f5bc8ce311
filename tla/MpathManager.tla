---------------------------- MODULE MpathManager ----------------------------
(***************************************************************************)
(* The multipath managers of a client (client/simplempathmanager.cpp and   *)
(* client/statmpathmanager.cpp) under CorsSocket (client/corssocket.cpp):  *)
(* which relays the packets of the application go through, what their      *)
(* headers say, and how the socket at the other end reads them.            *)
(*                                                                         *)
(* The relay selector is its list of relays, which it changes at will and  *)
(* in which a relay may stand twice (SimpleRlysltr).  The other sockets of *)
(* the program have relays and counts of their own; what they share with   *)
(* this one are the statics of send_packet.                                *)
(*                                                                         *)
(* A packet is kept from its sending to the next one, and is read by the   *)
(* receiver meanwhile, once, often or never.  The statistics packets of    *)
(* the second manager are left out: no receiver sends one                  *)
(* (StatisticsSilent).                                                     *)
(***************************************************************************)
EXTENDS Lists, FiniteSets, SequencesExt

CONSTANTS
  Kinds,          \* the managers a socket may be configured with
  Relays,         \* relays the selector may list
  Bandwidth,      \* bandwidth each of them has to give
  MaxList,        \* length of the selector's list: bound of the model
  MaxOthers,      \* sendings of other sockets: bound of the model
  RqBandwidth, RqRelayNum, RqLossrate,  \* the requirement
  StatOn, StatOff,  \* packets of a phase with statistics and of one without
  QueryInterval   \* seconds between two inquiries: 3

ASSUME MpathAssumption ==
  /\ Kinds \subseteq {"SimpleMpathManager", "StatMpathManager"}
  /\ IsFiniteSet(Relays)
  /\ Bandwidth \in [Relays -> Nat]
  /\ MaxList \in Nat /\ MaxOthers \in Nat
  /\ RqBandwidth \in Nat /\ RqRelayNum \in Nat /\ RqLossrate \in Nat
  /\ StatOn \in Nat \ {0} /\ StatOff \in Nat \ {0}
  /\ QueryInterval \in Nat

VARIABLES
  kind,        \* the manager
  open,        \* whether the socket is open
  relaylist_,  \* the list of the relay selector
  goodrelays, badrelays,  \* relays in use, and relays given up
  lossy,       \* whether lossrate of a relay in use is too high: never set
  cur_channel, bstat, send_num,  \* statics of send_packet
  snd_map,     \* packets sent through a relay in a phase with statistics
  rev_map,     \* receiver: packets received through a relay
  out,         \* the packets of the last sending
  age,         \* seconds since last_query_time
  others       \* history variable: sendings of other sockets since init

statics  == <<cur_channel, bstat, send_num>>
selected == <<goodrelays, badrelays, lossy>>
vars == <<kind, open, relaylist_, selected, statics, snd_map, rev_map, out, age, others>>

Stat == kind = "StatMpathManager"

RelayLists == BoundedSeq(Relays, MaxList)

Fresh ==
  /\ open' = TRUE
  /\ goodrelays' = <<>> /\ badrelays' = {}
  /\ lossy' = [r \in Relays |-> FALSE]
  /\ snd_map' = [r \in Relays |-> 0]
  /\ out' = {}
  /\ age' = 0
  /\ others' = 0

Init ==
  /\ kind \in Kinds
  /\ open = TRUE
  /\ relaylist_ = <<>>
  /\ goodrelays = <<>> /\ badrelays = {}
  /\ lossy = [r \in Relays |-> FALSE]
  /\ cur_channel = 0 /\ bstat = TRUE /\ send_num = 0
  /\ snd_map = [r \in Relays |-> 0]
  /\ rev_map = [r \in Relays |-> 0]
  /\ out = {}
  /\ age = 0
  /\ others = 0

-----------------------------------------------------------------------------
(* Headers *)

Direct == "direct"   \* the path that goes through no relay

\* One bit of direct, three of control; FOUR loses its only bit in direct.
DirectBit(path) ==
  IF Stat THEN (IF bstat THEN 4 ELSE 0) % 2 ELSE IF path = Direct THEN 1 ELSE 0
Control(path) == 0

\* The long header is that of a packet for a relay.
LongHeader(path) == path # Direct

Packet(path, payload) ==
  [path |-> path, direct |-> DirectBit(path), control |-> Control(path),
   long |-> LongHeader(path), payload |-> payload]

\* parse_data_packet: by the direct bit, the long header or the short one is
\* stripped, the sender is the peer or is read from the long header, which
\* the relay has filled, and flag tells the paths apart.  With the wrong
\* header, a part of the payload is taken for the address.
ReadsLongAlways(p) == TRUE
ReadsLong(p) == p.direct # 1

Parsed(p) ==
  [payload |-> IF ReadsLong(p) = p.long THEN p.payload ELSE "cut",
   source  |-> IF ReadsLong(p) => p.long THEN "sender" ELSE "unknown",
   flag    |-> IF ReadsLong(p) THEN 1 ELSE 0]

-----------------------------------------------------------------------------
(* get_requirement *)

InUse(list) == {list[i] : i \in DOMAIN list}
Gain(list) == FoldSeq(LAMBDA r, sum : sum + Bandwidth[r], 0, list)
Meets(list) == Gain(list) >= RqBandwidth /\ Len(list) >= RqRelayNum

\* Relays in use whose loss rate is not below the required one are given up.
GivenUp == {r \in InUse(goodrelays) \cap InUse(relaylist_) : Stat /\ lossy[r]}

\* Of the relays in use, those the selector still lists.
KeptAll == Among(goodrelays, Relays \ GivenUp)
Kept == Among(goodrelays, InUse(relaylist_) \ GivenUp)

\* The relays of the list that can be added, in its order: none that is in use,
\* be it that it was added just before, and none that was given up.
Free(i) == relaylist_[i] \notin InUse(Kept) \cup badrelays \cup GivenUp
First(i) == \A j \in 1 .. i - 1 : relaylist_[j] # relaylist_[i]
AddableAll == Only(relaylist_, {i \in DOMAIN relaylist_ : Free(i)})
Addable == Only(relaylist_, {i \in DOMAIN relaylist_ : Free(i) /\ First(i)})

\* They are added until the requirement is met.
WithAdded(n) == Kept \o SubSeq(Addable, 1, n)
Added == {n \in 0 .. Len(Addable) : \A m \in 0 .. n - 1 : ~ Meets(WithAdded(m))}

NewGood ==
  LET most == CHOOSE n \in Added : \A m \in Added : m <= n
  IN  WithAdded(most)

\* lossrate of a node is not set by anyone: what it holds is any number.
Lossy == IF RqLossrate = 0 THEN {TRUE} ELSE BOOLEAN

GetRequirement ==
  LET good == NewGood
  IN  IF relaylist_ = <<>> THEN UNCHANGED selected
      ELSE /\ goodrelays' = good
           /\ badrelays' = badrelays \cup GivenUp
           /\ \E garbage \in [Relays -> Lossy] :
                lossy' = [r \in Relays |->
                            /\ Stat
                            /\ Contains(good, r)
                            /\ IF Contains(Kept, r) THEN lossy[r] ELSE garbage[r]]

\* What get_requirement returns.
Satisfied == relaylist_ # <<>> /\ Meets(goodrelays')

\* CorsSocket::sendto: the check behind every sending, and the inquiry.
CheckRequirement ==
  IF age > QueryInterval
  THEN /\ GetRequirement
       /\ age' = IF Satisfied THEN age ELSE 0
  ELSE UNCHANGED <<selected, age>>

-----------------------------------------------------------------------------
(* send_packet *)

\* Sent packets are counted in the phases with statistics, which take turns
\* with those without; the counts are zeroed when the former begin.
PhaseEnds == send_num + 1 >= (IF bstat THEN StatOn ELSE StatOff)

PhaseGoesOn ==
  /\ bstat' = (bstat # PhaseEnds)
  /\ send_num' = IF PhaseEnds THEN 0 ELSE send_num + 1

CountedOn(paths) == [r \in Relays |-> IF bstat /\ r \in paths THEN snd_map[r] + 1 ELSE snd_map[r]]
Counted(paths) ==
  [r \in Relays |-> IF PhaseEnds /\ ~ bstat THEN 0
                    ELSE IF bstat /\ r \in paths THEN snd_map[r] + 1
                    ELSE snd_map[r]]

Count(paths) ==
  IF Stat THEN snd_map' = Counted(paths) /\ PhaseGoesOn
  ELSE UNCHANGED <<snd_map, bstat, send_num>>

\* IMPORTANCE: the packet goes over every path.
SendMesh ==
  /\ open
  /\ out' = {Packet(path, "sent") : path \in {Direct} \cup InUse(goodrelays)}
  /\ Count(InUse(goodrelays))
  /\ CheckRequirement
  /\ UNCHANGED <<kind, open, relaylist_, cur_channel, rev_map, others>>

\* NORMAL: the packet goes over the next path, of which the last is the direct
\* one.  For a relay the payload is not copied behind the header: what the
\* packet holds there is what the stack held.
After(channel, relays) == (channel + 1) % (relays + 1)
NextChannel == After(cur_channel, Len(goodrelays))

SendInTurn ==
  /\ open
  /\ cur_channel' = NextChannel
  /\ IF NextChannel = Len(goodrelays)
     THEN /\ out' = {Packet(Direct, "sent")}
          /\ Count({})
     ELSE /\ \E payload \in {"sent", "stale"} :
               out' = {Packet(goodrelays[NextChannel + 1], payload)}
          /\ Count({goodrelays[NextChannel + 1]})
  /\ CheckRequirement
  /\ UNCHANGED <<kind, open, relaylist_, rev_map, others>>

\* A packet for another destination than that of init is sent to the latter
\* without a header; the receiver finds no type of CORS in its first byte.
SendElsewhere ==
  /\ open
  /\ out' = {}
  /\ CheckRequirement
  /\ UNCHANGED <<kind, open, relaylist_, statics, snd_map, rev_map, others>>

\* Another socket of the program sends, over so many relays of its own: in turn,
\* or over all of them.  It counts in its own snd_map.
OtherSends(relays) ==
  /\ others < MaxOthers
  /\ cur_channel' \in {cur_channel, After(cur_channel, relays)}
  /\ IF Stat THEN PhaseGoesOn ELSE UNCHANGED <<bstat, send_num>>
  /\ others' = others + 1
  /\ UNCHANGED <<kind, open, relaylist_, selected, snd_map, rev_map, out, age>>

-----------------------------------------------------------------------------
(* The receiver, the selector, time and the application *)

\* What recvfrom keeps of a packet: it is counted when control says so.
Receive(p) ==
  /\ p \in out
  /\ rev_map' = [r \in Relays |->
       IF Stat /\ ReadsLong(p) /\ p.control >= 4 /\ r = p.path /\ rev_map[r] < 2
       THEN rev_map[r] + 1 ELSE rev_map[r]]
  /\ UNCHANGED <<kind, open, relaylist_, selected, statics, snd_map, out, age, others>>

SelectorChanges ==
  /\ relaylist_' \in RelayLists
  /\ UNCHANGED <<kind, open, selected, statics, snd_map, rev_map, out, age, others>>

Tick ==
  /\ age <= QueryInterval
  /\ age' = age + 1
  /\ UNCHANGED <<kind, open, relaylist_, selected, statics, snd_map, rev_map, out, others>>

\* close: release_resources clears the relays and the counts, not the statics.
Close ==
  /\ open
  /\ open' = FALSE
  /\ goodrelays' = <<>> /\ badrelays' = {}
  /\ lossy' = [r \in Relays |-> FALSE]
  /\ snd_map' = [r \in Relays |-> 0]
  /\ relaylist_' = <<>>
  /\ UNCHANGED <<kind, statics, rev_map, out, age, others>>

\* The program opens its next socket.
Open ==
  /\ ~ open
  /\ Fresh
  /\ UNCHANGED <<kind, relaylist_, statics, rev_map>>

Next ==
  \/ SendMesh \/ SendInTurn \/ SendElsewhere
  \/ \E relays \in 0 .. Cardinality(Relays) : OtherSends(relays)
  \/ \E p \in out : Receive(p)
  \/ open /\ SelectorChanges
  \/ Tick \/ Close \/ Open

Spec == Init /\ [][Next]_vars

-----------------------------------------------------------------------------
(* Properties *)

\* Types of the variables, and a channel there is or was a relay for.
TypeOK ==
  /\ kind \in Kinds
  /\ open \in BOOLEAN /\ bstat \in BOOLEAN
  /\ relaylist_ \in RelayLists
  /\ goodrelays \in Seq(Relays)
  /\ badrelays \subseteq Relays
  /\ lossy \in [Relays -> BOOLEAN]
  /\ cur_channel \in 0 .. Cardinality(Relays)
  /\ send_num \in 0 .. StatOn + StatOff
  /\ snd_map \in [Relays -> Nat] /\ rev_map \in [Relays -> Nat]
  /\ age \in 0 .. QueryInterval + 1
  /\ others \in 0 .. MaxOthers

\* No relay is in use twice, and none that was given up is in use again
\* before the socket is closed, though the selector lists it twice or anew.
GivenUpForGood ==
  /\ \A i, j \in DOMAIN goodrelays : i # j => goodrelays[i] # goodrelays[j]
  /\ InUse(goodrelays) \cap badrelays = {}

\* The count of a relay is that of one phase: through no relay were more
\* packets sent than the phase has, in whatever phase earlier sockets left the
\* statics.  It does not hold once another socket sends as well: the one that
\* begins a phase zeroes no counts but its own.
CountsOfOnePhase == others = 0 => \A r \in Relays : snd_map[r] <= StatOn

\* No packet asks the receiver to count it: the phases with statistics end
\* like the others, no loss rate is ever reported.
StatisticsSilent == \A r \in Relays : rev_map[r] = 0

\* The counts at both ends and the types of all variables.
Inv == TypeOK /\ CountsOfOnePhase /\ StatisticsSilent

\* A packet that went out with its payload is read as it was sent, with the
\* address of its sender and the mark of its path; the exception is the
\* direct path of the second manager, whose packets are all read as indirect.
ReadAsSent ==
  \A p \in out : p.payload = "sent" /\ ~ (Stat /\ p.path = Direct) =>
    Parsed(p) = [payload |-> "sent", source |-> "sender",
                 flag |-> IF p.path = Direct THEN 0 ELSE 1]

\* A sending that asks the selector.  If it lists no relay at all, all remain in use,
\* those included that it has dropped.  Otherwise only relays are in use that it lists
\* and that were not given up; if they do not meet the requirement, all of these are;
\* and one is taken into use only while those before it do not suffice.
Checks == age > QueryInterval /\ (SendMesh \/ SendInTurn \/ SendElsewhere)
Usable == InUse(relaylist_) \ badrelays'

SelectsRelays ==
  [][Checks =>
       IF relaylist_ = <<>> THEN goodrelays' = goodrelays
       ELSE /\ InUse(goodrelays') \subseteq Usable
            /\ Meets(goodrelays') \/ Usable \subseteq InUse(goodrelays')
            /\ \A i \in DOMAIN goodrelays' :
                 ~ Contains(goodrelays, goodrelays'[i])
                   => ~ Meets(SubSeq(goodrelays', 1, i - 1))]_vars

\* multipathmanager.h: parse_data_packet strips the headers and returns the
\* payload, that of the packet given to send_packet.
PayloadReturned == \A p \in out : Parsed(p).payload = "sent"
=============================================================================
