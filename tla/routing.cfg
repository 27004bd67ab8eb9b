\* Five prefixes sharing branches; rules that overlap, are refused half way
\* and lie across the words of the bit sets; two pinex servers that may have
\* one name, delivering over connections that come and go.
SPECIFICATION Spec
CONSTANTS
  north = north
  south = south
  n1 = n1
  n2 = n2
  Character = {"1", "2"}
  Prefix <- MCPrefix
  Number <- MCNumber
  Destination = {north, south}
  NoDest = none
  Limits = {2, 9}
  MaxList = 2
  Char <- MCChar
  Rule <- MCRule
  Query <- MCQuery
  NoTarget = none
  Upper <- MCUpper
  Unprintable = {"~"}
  MaximumRules = 4
  WordBits = 5
  Peer = {p1, p2}
  Name = {n1, n2}
  Names <- AnyNames
  Msg = {m1, m2}
  NoPeer = NoPeer
  NoName = NoName
  NoMsg = NoMsg
  NoInfo = NoInfo
  Timeout = 0
  MaxSequence = 2
  AutoReconnect = TRUE
INVARIANTS
  LongestWins
  LatestWins
  AnswersFit
PROPERTY
  DeliverPathService
\* An exception ends the process.
CHECK_DEADLOCK FALSE
