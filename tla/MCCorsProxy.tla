---------------------------- MODULE MCCorsProxy -----------------------------
(***************************************************************************)
(* A proxy with an AdvanceRldvr and one with a SimpleRldvr that are each   *)
(* other's neighbours, so that an inquiry comes back to where it was; the  *)
(* first may lose its neighbours.  q and r are nodes outside.  Two         *)
(* inquiries of one AS pair ask for more than either proxy has; or one of  *)
(* the two is a copy of the other.                                         *)
(***************************************************************************)
EXTENDS CorsProxy

CONSTANTS a, s, q, r, big, again, pair

MCAdvisor == [p \in Proxies |-> IF p = s THEN "SimpleRldvr" ELSE "AdvanceRldvr"]
MCAsn == [x \in {a, s, q, r} |-> IF x \in {q, r} THEN 2 ELSE 1]
MCNeighborLists == [p \in Proxies |-> IF p = a THEN {<<q, r, s>>, <<>>} ELSE {<<a>>}]
MCRequired == [i \in Inquiries |-> 4]
MCAsnPair == [i \in Inquiries |-> pair]
MCKnowledge == {{1}, {3}}
=============================================================================
