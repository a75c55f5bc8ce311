SPECIFICATION TranslatorSpec
CONSTANTS
  MaxTTL = 4
  MaxAdvicedRelays = 4
  MaxReportEntrys = 2
  Relays = {r1, r2}
  Net = net
  MaxEntries = 3
  MaxReports = 3
  MaxInquiries = 3
INVARIANTS DatabaseInv
PROPERTIES AnswersAreFresh
CHECK_DEADLOCK FALSE
