---------------------------- MODULE RelayAdvisor ----------------------------
(***************************************************************************)
(* What the relay advisors of all proxies share (proxy/relayadvisor.h):    *)
(* the neighbours they advise, the inquiries that travel from proxy to     *)
(* proxy, and the advice that goes to the clients.                         *)
(*                                                                         *)
(* An inquiry has a name by which its copies and answers are known; the    *)
(* program has none.  An advice is counted when it is sent.                *)
(***************************************************************************)
EXTENDS CorsProtocol, FiniteSets

CONSTANTS
  Proxies,        \* the proxies
  Asn,            \* AS number of a node
  NeighborLists,  \* the lists a neighbour maintainer may come to have
  Inquiries,      \* names of inquiries and of copies of them
  Required,       \* relays each of them asks for
  AsnPair         \* source and destination AS of each of them

ASSUME AdvisorAssumption ==
  /\ IsFiniteSet(Inquiries)
  /\ \A p \in Proxies : \A list \in NeighborLists[p] : list \in Seq(DOMAIN Asn)
  /\ Required \in [Inquiries -> 0 .. 255]

VARIABLES
  neighbors,  \* get_neighbor_list of each proxy
  net,        \* inquiries on their way to a proxy
  tosend,     \* names of inquiries and copies that are not sent yet
  answers,    \* history variable: advices sent for an inquiry
  advised     \* history variable: relays in them

advice == <<answers, advised>>

Inquiry(to, i, required, ttl) == [to |-> to, id |-> i, required |-> required, ttl |-> ttl]

AdvisorInit ==
  /\ neighbors \in [Proxies -> UNION {NeighborLists[p] : p \in Proxies}]
  /\ \A p \in Proxies : neighbors[p] \in NeighborLists[p]
  /\ net = {}
  /\ tosend = Inquiries
  /\ answers = [i \in Inquiries |-> 0]
  /\ advised = [i \in Inquiries |-> 0]

\* An inquiry sent to a node that is none of these proxies goes out of sight.
Sent(inquiries) == {m \in inquiries : m.to \in Proxies}

\* Advices for inquiries: count many, with so many relays in all.
Advise(count, relays) ==
  /\ answers' = [i \in Inquiries |-> answers[i] + count[i]]
  /\ advised' = [i \in Inquiries |-> advised[i] + relays[i]]

AdviseOne(m, relays) ==
  Advise([i \in Inquiries |-> IF i = m.id THEN 1 ELSE 0],
         [i \in Inquiries |-> IF i = m.id THEN Len(relays) ELSE 0])

\* ttl is one byte.
OneHopFree(m) == m.ttl
OneHopLess(m) == (m.ttl - 1) % 256

\* The inquiry that asks a neighbour for what n relays leave missing.
StillRequiredAll(m, n) == m.required
StillRequired(m, n) == m.required - n
=============================================================================
