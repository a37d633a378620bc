\* One alert, two analysts and two cases at most; three uploads of two paths that
\* give one object key; two administrators and four requests; two agents, two
\* scans and four ticks; four events of three processes, in a window of three and
\* pages of two; two starts of a server.
SPECIFICATION ControlPlaneSpec
CONSTANTS
  a1 = a1
  high = high
  low = low
  t1 = t1
  Alerts = {a1}
  Analysts = {w1, w2}
  Priorities = {high, low}
  Severity <- MCSeverity
  Tasks = {t1}
  TaskCase <- MCTaskCase
  None = None
  MaxCases = 2
  MaxEdits = 3
  r1 = r1
  r2 = r2
  Reports = {r1, r2}
  ByHand <- MCByHand
  p1 = p1
  p2 = p2
  Paths = {p1, p2}
  Segment <- MCSegment
  Contents = {x, y}
  Purposes = {c1}
  NoPurpose = NoPurpose
  Uploaders = {u1, u2}
  NoFile = NoFile
  Torn = Torn
  MaxUploads = 3
  MaxFailures = 1
  Admins = {d1, d2}
  Bodies = {b1}
  Indicators = {i1}
  Queries = {q1}
  NoCriterion = NoCriterion
  Keep = Keep
  MaxVersion = 2
  MaxChanges = 4
  Agents = {g1, g2}
  Scanners = {s1, s2}
  StaleAfter = 1
  MaxClock = 3
  MaxScans = 2
  addr = addr
  longer = longer
  slashed = slashed
  joined = joined
  wild = wild
  upper = upper
  pidA = pidA
  pidB = pidB
  Absent = Absent
  Texts <- MCTexts
  Needles <- MCNeedles
  Chars <- MCChars
  Spelling <- MCSpelling
  Lower <- MCLower
  Timestamp <- MCTimestamp
  Processes = {1, 2, 3}
  PidOf <- MCPidOf
  NameOf <- MCNameOf
  Endpoint = endpoint
  RemotesOf <- MCRemotesOf
  Limit = 3
  PageLimit = 2
  MaxEvents = 4
  Minted = {m1, m2}
  MaxStarts = 2
CHECK_DEADLOCK FALSE
INVARIANTS
  ControlPlaneTypeOK
  CasesCarryTheirEvidence
  OneCaseWithItsEdits
  EvidenceHolds
  VersionsIncrease
  HuntsKeepACriterion
  OfflineIsExplained
  GraphIsTrue
  UncertaintyExplained
  WorkspaceIsComplete
  StoresAgree
  TablesAgree
  TokensHaveCause
