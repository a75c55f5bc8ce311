----------------------------- MODULE SimpleNbmtr -----------------------------
(***************************************************************************)
(* The neighbour maintainer of a CORS proxy (proxy/simplenbmtr.cpp): the   *)
(* other proxies it knows, in the order in which it will probe them.  A    *)
(* timer probes the front of the list and turns the list by one; a pong of *)
(* a probed neighbour tells of further proxies, a ping of an unknown one   *)
(* makes it known; and a neighbour whose time stamp is AbateInterval old   *)
(* is dropped, unless it is an oracle.  A second timer saves the           *)
(* neighbours to the file the proxy starts from.                           *)
(*                                                                         *)
(* The proxy is one thread, so a handler is a step.  It may crash between  *)
(* two steps or while it saves, and is started again.  The other proxies   *)
(* and the network are the environment: pings come from anybody; a pong    *)
(* answers a ping this proxy sent and lists anybody but this proxy.  Pings *)
(* and pongs are lost, reordered and duplicated.                           *)
(*                                                                         *)
(* Time.  The age of a neighbour is the time since its ts.  An address is  *)
(* in the configuration file once, so that a neighbour is known by it.     *)
(***************************************************************************)
EXTENDS Integers, Sequences, FiniteSets, SequencesExt

CONSTANTS
  Addrs,          \* addresses of other proxies
  Oracles,        \* those that nbconfgen is told are oracles
  MinSize,        \* minsize: neighbours are asked for below this size
  SeqLimit,       \* 250 in the code
  AbateInterval,  \* abate_interval
  ProbeInterval,  \* probe_interval
  MaxLag,         \* longest delay of a timer event
  MaxListed,      \* neighbours listed in a pong: bound of the model
  MaxNet,         \* pings unanswered at one time: bound of the model
  MaxCrashes      \* crashes: bound of the model

ASSUME NbmtrAssumption ==
  /\ Addrs \subseteq Nat /\ IsFiniteSet(Addrs)
  /\ Oracles \subseteq Addrs
  /\ MinSize \in Nat
  /\ SeqLimit \in Nat \ {0}
  /\ AbateInterval \in Nat
  /\ ProbeInterval \in Nat
  /\ MaxLag \in Nat
  /\ ProbeInterval + MaxLag < AbateInterval
  /\ MaxListed \in Nat
  /\ MaxNet \in Nat
  /\ MaxCrashes \in Nat

VARIABLES
  nl,       \* nl, the neighbours in probing order
  nm,       \* the addresses nm maps
  since,    \* time since the last ProbeEvent
  net,      \* pings that are still to be answered
  file,     \* conf_file
  up,       \* whether the proxy runs
  crashes,  \* crashes so far
  probed,   \* history variable: whether it has probed since its start
  torn      \* history variable: whether a crash cut a save

table == <<nl, nm>>
disk  == <<file, up, crashes, torn>>
vars  == <<table, since, net, disk, probed>>

-----------------------------------------------------------------------------
(* Values *)

Types == {"oracle", "peer"}
Ages  == 0 .. AbateInterval

Neighbor == [addr : Addrs, type : Types, seq : 0 .. SeqLimit - 1, age : Ages]
Line     == [addr : Addrs, type : Types, age : Ages]

\* A ping on its way.  "later" is a history field: the number of pings sent there
\* after it, and SeqLimit if it is that or more, or if the sequence numbers of the
\* neighbour began anew since.
Ping == [to : Addrs, seq : 0 .. SeqLimit - 1, asks : BOOLEAN, later : 0 .. SeqLimit]

Older(age) == IF age < AbateInterval THEN age + 1 ELSE age

New(a, type) == [addr |-> a, type |-> type, seq |-> 0, age |-> 0]

AddrsOf(list) == {list[i].addr : i \in DOMAIN list}

\* ++seq, and back to 0 from SeqLimit.
Bump(seq) == IF seq + 1 >= SeqLimit THEN 0 ELSE seq + 1

\* The network after a ping to n, if it still holds the pings of rest.
Pinged(rest, n, asks) ==
  LET older == {IF p.to = n.addr /\ p.later < SeqLimit
                THEN [p EXCEPT !.later = @ + 1] ELSE p : p \in rest}
  IN  IF Cardinality(older) < MaxNet
      THEN older \cup {[to |-> n.addr, seq |-> n.seq, asks |-> asks, later |-> 0]}
      ELSE older

\* The network when the proxy forgets the sequence numbers of the addresses gone.
Forgotten(pings, gone) ==
  {IF p.to \in gone THEN [p EXCEPT !.later = SeqLimit] ELSE p : p \in pings}

\* The file as the constructor reads it, and as save() writes it: in the order
\* of the map, which is that of the addresses.
Loaded(lines) ==
  [i \in DOMAIN lines |-> [addr |-> lines[i].addr, type |-> lines[i].type,
                           seq |-> 0, age |-> lines[i].age]]

Lines == {[addr |-> nl[i].addr, type |-> nl[i].type, age |-> nl[i].age] :
            i \in {j \in DOMAIN nl : nl[j].addr \in nm}}

Saved == {s \in SetToSeqs(Lines) : \A i, j \in DOMAIN s : i < j => s[i].addr < s[j].addr}

-----------------------------------------------------------------------------
(* Start and crash *)

\* A file of nbconfgen: any order, every time stamp 0, and after the first
\* oracle only oracles, because its "type" is not set back.
Generated(s) ==
  [i \in DOMAIN s |->
     [addr |-> s[i], age |-> AbateInterval,
      type |-> IF \E j \in 1 .. i : s[j] \in Oracles THEN "oracle" ELSE "peer"]]

Init ==
  /\ file \in {Generated(s) : s \in UNION {SetToSeqs(S) : S \in (SUBSET Addrs) \ {{}}}}
  /\ nl = Loaded(file)
  /\ nm = AddrsOf(file)
  /\ since = 0
  /\ net = {}
  /\ up = TRUE
  /\ crashes = 0
  /\ probed = FALSE
  /\ torn = FALSE

Save ==
  /\ up
  /\ file' \in Saved
  /\ UNCHANGED <<table, since, net, up, crashes, probed, torn>>

\* The end of the process and of what it had in memory, at any time or after n lines
\* of a save.
Crash ==
  /\ up
  /\ crashes < MaxCrashes
  /\ up' = FALSE
  /\ crashes' = crashes + 1
  /\ \/ UNCHANGED <<file, torn>>
     \/ \E lines \in Saved : \E n \in 0 .. Len(lines) - 1 :
          /\ file' = SubSeq(lines, 1, n)
          /\ torn' = TRUE
  /\ nl' = <<>> /\ nm' = {}
  /\ since' = 0
  /\ probed' = FALSE
  /\ UNCHANGED net

\* The constructor, which throws when the file names nobody, and start().
Restart ==
  /\ ~up
  /\ file # <<>>
  /\ up' = TRUE
  /\ nl' = Loaded(file)
  /\ nm' = AddrsOf(file)
  /\ since' = 0
  /\ net' = Forgotten(net, Addrs)
  /\ probed' = FALSE
  /\ UNCHANGED <<file, crashes, torn>>

-----------------------------------------------------------------------------
(* probe *)

\* Whether probe drops the last neighbour, after the front has got its new ts;
\* the variants forget the oracles and the clause on the age.
AbatesAll(back) == back.age >= AbateInterval
AbatesAlways(back) == back.type # "oracle"
Abates(back) == back.age >= AbateInterval /\ back.type # "oracle"

\* The list turned by one; the variant leaves the probed neighbour in front.
Unturned(list) == list
Turned(list) == Tail(list) \o <<Head(list)>>

Probe ==
  /\ up
  /\ since >= ProbeInterval
  /\ LET n     == Len(nl)
         asks  == Cardinality(nm) < MinSize
         both  == asks /\ n > 1
         front == [nl[1] EXCEPT !.seq = Bump(@), !.age = 0]
         back  == IF both THEN [nl[n] EXCEPT !.seq = Bump(@)] ELSE nl[n]
         list  == [nl EXCEPT ![n] = back, ![1] = front]
         drop  == Abates(list[n]) /\ Cardinality(nm) > 1
         pings == Pinged(IF both THEN Pinged(net, nl[n], asks) ELSE net, nl[1], asks)
     IN  /\ net' = Forgotten(pings, IF drop THEN {back.addr} ELSE {})
         /\ nl' = Turned(IF drop THEN Front(list) ELSE list)
         /\ nm' = IF drop THEN nm \ {back.addr} ELSE nm
  /\ since' = 0
  /\ probed' = TRUE
  /\ UNCHANGED disk

-----------------------------------------------------------------------------
(* process_probe_ping and process_probe_pong *)

\* Whether an address is new; the variant looks for it at the front only.
NotInFront(a) == nl[1].addr # a
Unknown(a) == a \notin nm

\* Reverse learning; the pong that is sent changes nothing here.
ProcessProbePing(from) ==
  /\ up
  /\ nl' = IF Unknown(from) THEN <<New(from, "peer")>> \o nl ELSE nl
  /\ nm' = nm \cup {from}
  /\ UNCHANGED <<since, net, disk, probed>>

\* A pong is expected if it carries the number the next ping will carry; the
\* variant looks for the sender only.
ExpectedOfKnown(p) == \E i \in DOMAIN nl : nl[i].addr = p.to
Expected(p) == \E i \in DOMAIN nl : nl[i].addr = p.to /\ nl[i].seq = p.seq + 1

\* What is learned of the neighbours listed in a pong.  The read position moves
\* on only past a new one, so that a known one hides all those after it.
Learned(listed) ==
  LET known == {i \in DOMAIN listed : ~Unknown(listed[i].addr)}
  IN  IF known = {} THEN listed ELSE SubSeq(listed, 1, Min(known) - 1)

ProcessProbePong(p, rest, listed) ==
  /\ up
  /\ net' = rest
  /\ IF Expected(p)
     THEN LET new == Learned(listed)
          IN  /\ nl' = Reverse(new) \o
                       [i \in DOMAIN nl |-> IF nl[i].addr = p.to
                                            THEN [nl[i] EXCEPT !.age = 0] ELSE nl[i]]
              /\ nm' = nm \cup AddrsOf(new)
     ELSE UNCHANGED table
  /\ UNCHANGED <<since, disk, probed>>

\* The lists a pong may hold: as many as were asked for, nobody twice and not
\* the one that sends it.
Listed(p) ==
  {s \in SeqOf({New(a, t) : a \in Addrs \ {p.to}, t \in Types},
               IF p.asks THEN MaxListed ELSE 0) :
     \A i, j \in DOMAIN s : s[i].addr = s[j].addr => i = j}

-----------------------------------------------------------------------------
(* The clock and the network *)

Tick ==
  /\ up => since < ProbeInterval + MaxLag
  /\ since' = IF up THEN since + 1 ELSE since
  /\ nl' = [i \in DOMAIN nl |-> [nl[i] EXCEPT !.age = Older(@)]]
  /\ file' = [i \in DOMAIN file |-> [file[i] EXCEPT !.age = Older(@)]]
  /\ UNCHANGED <<nm, net, up, crashes, probed, torn>>

Vanishes(p) ==
  /\ net' = net \ {p}
  /\ UNCHANGED <<table, since, disk, probed>>

Next ==
  \/ Probe
  \/ Save
  \/ Crash
  \/ Restart
  \/ \E a \in Addrs : ProcessProbePing(a)
  \/ \E p \in net : \E rest \in {net, net \ {p}}, listed \in Listed(p) :
       ProcessProbePong(p, rest, listed)
  \/ \E p \in net : Vanishes(p)
  \/ Tick

Spec == Init /\ [][Next]_vars

\* The clock runs, the event loop runs what is due, and somebody starts a proxy
\* that has crashed.  Nothing is assumed of packets.
Fairness ==
  /\ WF_vars(Tick)
  /\ WF_vars(Probe)
  /\ WF_vars(Restart)

FairSpec == Spec /\ Fairness

-----------------------------------------------------------------------------
(* Properties *)

\* Type invariant.
TypeOK ==
  /\ nl \in Seq(Neighbor)
  /\ nm \subseteq Addrs
  /\ since \in 0 .. ProbeInterval + MaxLag
  /\ net \subseteq Ping
  /\ file \in Seq(Line)
  /\ up \in BOOLEAN
  /\ crashes \in 0 .. MaxCrashes
  /\ probed \in BOOLEAN
  /\ torn \in BOOLEAN

\* The map and the list hold the same neighbours, each once, and never nobody:
\* probe takes nl.front() and the advisor nl.back() without looking.
MapMatchesList ==
  /\ nl # <<>>
  /\ nm = AddrsOf(nl)
  /\ \A i, j \in DOMAIN nl : nl[i].addr = nl[j].addr => i = j

\* The structure of the table of a proxy that runs, with the types of all variables.
Inv == TypeOK /\ (up => MapMatchesList)

\* The oracles of the file stay neighbours and in the file: through probes,
\* saves, crashes and restarts, unless a crash cut a save.
OraclesOf(list) == {list[i].addr : i \in {j \in DOMAIN list : list[j].type = "oracle"}}

OraclesStay ==
  [][~torn' => /\ OraclesOf(file) \subseteq OraclesOf(file')
               /\ up' => OraclesOf(file) \subseteq OraclesOf(nl')]_vars

\* Only the first probe after a start drops a neighbour: later the last of the
\* list is the one probed before, whose ts is new.  A dead neighbour stays.
DropsOnlyAtStart == [][up /\ up' /\ probed => nm \subseteq nm']_vars

\* A pong is accepted only if it answers the last ping to its sender: pongs that
\* come late, twice or out of order find the number moved on, unless exactly a
\* round of SeqLimit pings was sent in between or the numbers began anew.
StalePongsIgnored == \A p \in net : up /\ Expected(p) => p.later \in {0, SeqLimit}

\* The probe goes to address a.
Probes(a) == Probe /\ nl[1].addr = a

\* Everybody known is probed again and again, though new neighbours get in
\* front of the others.
EverybodyProbed == \A a \in Addrs : <>[](up /\ a \in nm) => []<><<Probes(a)>>_vars

\* simplenbmtr.cpp:340 "check if this pong message is expected": the pong to the
\* last ping sent to a neighbour is.
LastPongExpected == \A p \in net : (up /\ p.later = 0 /\ p.to \in nm) => Expected(p)

\* simplenbmtr.cpp:381 "push the novel neighbors in front of nl": when a pong is
\* accepted, all that it lists are neighbours afterwards.
NovelPushed ==
  [][\A p \in net : \A rest \in {net, net \ {p}}, listed \in Listed(p) :
       (ProcessProbePong(p, rest, listed) /\ Expected(p)) => AddrsOf(listed) \subseteq nm']_vars

=============================================================================
