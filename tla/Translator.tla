----------------------------- MODULE Translator -----------------------------
(***************************************************************************)
(* The knowledge database server (corsdb/translator.cpp) and its access to *)
(* MySQL (corsdb/cors_mysql.cpp): reports of relays go into the table      *)
(* path, inquiries are answered from it.  One thread serves one packet     *)
(* after the other.                                                        *)
(*                                                                         *)
(* A row is known by its relay.  A query may fail, as it does when the     *)
(* connection to MySQL is lost: the results of ExecuteSQL are not looked   *)
(* at.  The record set is one object for all queries.  The model ends with *)
(* the answer that is built: sendto is given the address of the pointer to *)
(* the asker instead of that of the asker, and what becomes of the packet  *)
(* is up to the socket.                                                    *)
(***************************************************************************)
EXTENDS CorsProtocol, FiniteSets

CONSTANTS
  Relays,        \* the AS numbers of relays
  Net,           \* the end point of all sources and destinations
  MaxEntries,    \* entries of a report: bound of the model
  MaxReports,    \* reports that come: bound of the model
  MaxInquiries   \* inquiries that come: bound of the model

ASSUME TranslatorAssumption ==
  /\ MaxEntries \in Nat \ {0}
  /\ MaxReports \in Nat
  /\ MaxInquiries \in Nat

VARIABLES
  path,            \* the table: the relays of its rows, in their order
  m_s,             \* the rows of the record set
  pos,             \* its cursor
  m_recordcount,   \* rows of its last query
  executed,        \* what the last ExecuteSQL returned
  answer,          \* the relays of the last answer
  reported,        \* history variable: how often each relay was reported
  reports, inquiries  \* packets handled

recordset == <<m_s, pos, m_recordcount, executed>>
database == <<path, recordset, answer, reported, reports, inquiries>>

TranslatorInit ==
  /\ path = <<>>
  /\ m_s = <<>>
  /\ pos = 0
  /\ m_recordcount = 0
  /\ executed = 0
  /\ answer = <<>>
  /\ reported = [r \in Relays |-> 0]
  /\ reports = 0
  /\ inquiries = 0

-----------------------------------------------------------------------------
(* process_report *)

Reports == BoundedSeq(Relays, MaxEntries)

\* The text of the values is not cleared from one entry to the next: from the
\* second entry on, the statement has too many of them and MySQL refuses it.
Inserted(entries) == SubSeq(entries, 1, 1)

\* What is stored, when the query of the first entry succeeds.
StoredTwice(entries, ok) == IF ok THEN Inserted(entries) \o Inserted(entries) ELSE <<>>
Stored(entries, ok) == IF ok THEN Inserted(entries) ELSE <<>>

ProcessReport(list) ==
  LET packet == CorsReport(Net, Net, list)
  IN  /\ reports < MaxReports
      /\ reports' = reports + 1
      /\ reported' = [r \in Relays |->
                        reported[r] + Cardinality({i \in DOMAIN packet.reports :
                                                     packet.reports[i] = r})]
      /\ IF ReportParses(packet, MaxMsgSize) /\ packet.reports # <<>>
         THEN /\ \E ok \in BOOLEAN : path' = path \o Stored(packet.reports, ok)
              /\ executed' = -1
         ELSE UNCHANGED <<path, executed>>
      /\ UNCHANGED <<m_s, pos, m_recordcount, answer, inquiries>>

-----------------------------------------------------------------------------
(* process_inquiry *)

\* ExecuteSQL("select * from path;"): the rows join those of former queries.
FetchedButLast == SubSeq(path, 1, Len(path) - 1)
Fetched == path

Select ==
  \/ /\ m_s' = m_s \o Fetched
     /\ m_recordcount' = Len(path)
     /\ executed' = Len(m_s')
  \/ /\ executed' = -1
     /\ UNCHANGED <<m_s, m_recordcount>>

MoveFirst == 0

\* The answer is of the records from MoveFirst to IsEof, whatever the query
\* returned, and whatever the nets of the inquiry are.
ProcessInquiry ==
  /\ inquiries < MaxInquiries
  /\ inquiries' = inquiries + 1
  /\ InquiryParses(CorsInquiry(Net, Net, 1), MaxMsgSize)
  /\ Select
  /\ pos' = Len(m_s')
  /\ answer' = CorsAdvice("TYPE_RLY_FILTER", Net, Net,
                          SubSeq(m_s', MoveFirst + 1, Len(m_s'))).relays
  /\ UNCHANGED <<path, reported, reports>>

TranslatorNext == ProcessInquiry \/ \E list \in Reports : ProcessReport(list)

TranslatorSpec == TranslatorInit /\ [][TranslatorNext]_database

-----------------------------------------------------------------------------
(* Properties *)

\* Types of the variables.
DatabaseTypes ==
  /\ path \in Seq(Relays)
  /\ m_s \in Seq(Relays)
  /\ pos \in Nat
  /\ m_recordcount \in Nat
  /\ executed \in Nat \cup {-1}
  /\ answer \in Seq(Relays) /\ Len(answer) <= MaxAdvicedRelays
  /\ reported \in [Relays -> Nat]
  /\ reports \in 0 .. MaxReports /\ inquiries \in 0 .. MaxInquiries

\* A relay has no more rows in the table than it was reported, and the cursor
\* has not passed the records, whichever queries failed.
RowsAreReported ==
  /\ \A r \in Relays : Cardinality({i \in DOMAIN path : path[i] = r}) <= reported[r]
  /\ pos <= Len(m_s)

\* The table and the record set, with the types of all variables.
DatabaseInv == DatabaseTypes /\ RowsAreReported

\* An inquiry whose query succeeds is answered with every relay the table has,
\* as long as the records of all queries so far fit in a packet, which keeps the
\* oldest ones (translator.cpp:241-277): the last reports are not left out.
AnswersAreFresh ==
  [][inquiries' > inquiries /\ executed' # -1 /\ Len(m_s') <= MaxAdvicedRelays
       => \A i \in DOMAIN path : Contains(answer', path[i])]_database
=============================================================================
