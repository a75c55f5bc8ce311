---------------------------- MODULE SimpleRldvr -----------------------------
(***************************************************************************)
(* The relay advisor without knowledge (proxy/simplerldvr.cpp): it answers *)
(* every inquiry at once with all its neighbours, and asks the first of    *)
(* them for what is missing.                                               *)
(*                                                                         *)
(* Its layout of an inquiry has the port of the source where CorsInquiry   *)
(* has its AS number: TTL and number are read as they are meant, the       *)
(* client is not, so the advice goes to an address that is none.           *)
(***************************************************************************)
EXTENDS RelayAdvisor

CONSTANT MaxRlNum    \* MAX_RL_NUM: 10

ASSUME SimpleAssumption == MaxRlNum \in Nat

\* Inquiry::INQUIRY_LEN, which parse_rl_inquiry wants, where time_t has four
\* bytes.  Where it has eight it is 39, the length of a CorsInquiry.
SimpleInquiryLen == 35
SimpleInquiryParses(len) == len >= SimpleInquiryLen

SimpleForwarded(p, m, ttl) ==
  LET n == Len(neighbors[p])
  IN  IF n < m.required /\ ttl > 0
      THEN {Inquiry(Head(neighbors[p]), m.id, StillRequired(m, n), ttl)} ELSE {}

\* pack_rl_advice: the neighbours, from the last on, up to MAX_RL_NUM.
SimpleAdvice(p) == UpTo(Reverse(neighbors[p]), MaxRlNum)

SimpleInquiry(p, m) ==
  IF neighbors[p] = <<>> \/ ~ SimpleInquiryParses(InquiryLen)
  THEN net' = net \ {m} /\ UNCHANGED advice
  ELSE /\ net' = (net \ {m}) \cup Sent(SimpleForwarded(p, m, OneHopLess(m)))
       /\ AdviseOne(m, SimpleAdvice(p))
=============================================================================
