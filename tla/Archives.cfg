CONSTANTS
  c1 = c1
  Nobody = Nobody
  Clients <- MCClients
  Floor <- MCFloor
  Life <- MCLife
  LastVersion = 2
  MaxEpoch = 1
  MaxTime = 3
  MaxReversals = 1
  p1 = p1
  p2 = p2
  deb1 = deb1
  deb2 = deb2
  Last = 3
  Binary <- MCBinary
  SourceOf <- MCSourceOf
  Sources <- MCSources
  Members = {"dsc", "tar"}
  MaxBreaks = 2
  Commands = {p1, p2}
  Archives = {deb1, deb2}
  LastFile = 2
  MaxChanges = 2
  MaxLosses = 1
  Absent = Absent
  Unknown = Unknown
  Torn = Torn
  Characters = {"0", "1", "a", "~", "+", ":", "-"}
  Letters = {"a"}
  Code <- MCCode
  Longest = 4
  GreatestEpoch = 10
  Radix = 3
  Places = 2
  Octal = 2
  Byte = 8
  Most = 15
  LongestText = 7
  FieldSize = 5
SPECIFICATION MCSpec
SYMMETRY Symmetry
INVARIANTS
  EvidenceOutlivesReceipt
  SignedUnderStandingFiles
  OneRelease
  ListingIsOneMoment
  IndexIsTrue
  CompareIsDebianOrder
  ReadsWhatIsWritten
CHECK_DEADLOCK FALSE
