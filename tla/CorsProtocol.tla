---------------------------- MODULE CorsProtocol ----------------------------
(***************************************************************************)
(* The packets of common/corsprotocol.cpp that carry relay knowledge: the  *)
(* inquiry, the advice (and the filter, an advice of another type) and the *)
(* report.  A packet is a record of its fields; how its length is read is  *)
(* modelled, how its fields are laid out in bytes is not.                  *)
(***************************************************************************)
EXTENDS Lists, SequencesExt

CONSTANTS
  MaxTTL,             \* MAX_TTL: 4
  MaxAdvicedRelays,   \* MAX_ADVICED_RELAYS: 20
  MaxReportEntrys     \* MAX_REPORT_ENTRYS: 20

ASSUME ProtocolAssumption ==
  /\ MaxTTL \in 1 .. 255
  /\ MaxAdvicedRelays \in Nat \ {0}
  /\ MaxReportEntrys \in Nat \ {0}

\* CORS_MAX_MSG_SIZE, and the bytes of an end point and of a report entry.
MaxMsgSize == 2048
EndPointLen == 12
ReportEntryLen == EndPointLen + 16

\* A list is sent up to its bound: what is behind it is left out.
UpTo(list, bound) == SubSeq(list, 1, IF Len(list) < bound THEN Len(list) ELSE bound)

\* Type, TTL and number, source and destination, then n entries.
PacketLen(n, entry) == 3 + 2 * EndPointLen + n * entry

\* Deserialize refuses a packet of which a field begins behind its end.
FieldStarts(n, entry) ==
  {1, 2, 3, 3 + EndPointLen} \cup {PacketLen(i, entry) : i \in 0 .. n - 1}
Complete(n, entry, len) == \A start \in FieldStarts(n, entry) : start < len

-----------------------------------------------------------------------------

CorsInquiry(source, destination, required) ==
  [type |-> "TYPE_RLY_INQUIRY", ttl |-> MaxTTL, required |-> required,
   source |-> source, destination |-> destination]

InquiryLen == PacketLen(1, EndPointLen)

\* The third end point is that of the proxy.
InquiryParses(packet, len) ==
  packet.type = "TYPE_RLY_INQUIRY" /\ Complete(1, EndPointLen, len)

CorsAdvice(type, source, destination, relays) ==
  [type |-> type, ttl |-> MaxTTL, source |-> source, destination |-> destination,
   relays |-> UpTo(relays, MaxAdvicedRelays)]

AdviceLen(packet) == PacketLen(Len(packet.relays), EndPointLen)

AdviceParses(packet, len) ==
  /\ packet.type \in {"TYPE_RLY_ADVICE", "TYPE_RLY_FILTER"}
  /\ Complete(Len(packet.relays), EndPointLen, len)

CorsReport(source, destination, reports) ==
  [type |-> "TYPE_RLY_REPORT", ttl |-> MaxTTL, source |-> source,
   destination |-> destination, reports |-> UpTo(reports, MaxReportEntrys)]

ReportLen(packet) == PacketLen(Len(packet.reports), ReportEntryLen)

ReportParses(packet, len) ==
  packet.type = "TYPE_RLY_REPORT" /\ Complete(Len(packet.reports), ReportEntryLen, len)
=============================================================================
