SPECIFICATION Spec
CONSTANTS
  a = a
  s = s
  q = q
  r = r
  big = big
  again = again
  pair = pair
  Proxies = {a, s}
  Inquiries = {big, again}
  Asn <- MCAsn
  NeighborLists <- MCNeighborLists
  Required <- MCRequired
  AsnPair <- MCAsnPair
  Advisor <- MCAdvisor
  Knowledge <- MCKnowledge
  CacheLife = 1
  UpdateInterval = 1
  MaxLate = 1
  MaxTTL = 3
  MaxAdvicedRelays = 20
  MaxReportEntrys = 20
  MaxRlNum = 10
INVARIANTS Inv AnswersEnd NoTaskForKnown Timely
PROPERTIES NoSilentDrop
