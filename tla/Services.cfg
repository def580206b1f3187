SPECIFICATION Spec
CONSTANTS
  c1 = c1
  c2 = c2
  c3 = c3
  i1 = i1
  i2 = i2
  agent = agent
  area = area
  a1 = a1
  a2 = a2
  q = q
  v1 = v1
  v2 = v2
  e1 = e1
  e2 = e2
  SessionCalls <- MCCalls
  MaxSession = 2
  MaxEra = 1
  Size = 2
  MaxRow = 4
  MaxPage = 5
  MaxMoves = 2
  Fields = {"tags", "others"}
  LastField = "others"
  MaxResults = 2
  PageSize = 2
  MaxProperty = 4
  MaxStreamPage = 3
  MaxEdits = 1
  CartItems <- MCItems
  CartCalls <- MCPair
  MaxCartCalls = 5
  RateCalls <- MCCalls
  Targets <- MCTargets
  Scores <- MCScores
  Resolvers <- MCResolvers
  Wishes <- MCWishes
  ResolveCalls <- MCPair
  MaxBuilt = 2
  Servers <- MCServers
  Emails <- MCEmails
  MaxBoots = 3
  f1 = f1
  f2 = f2
  n1 = n1
  n2 = n2
  Flats <- MCFlats
  TagNames <- MCNames
  MergeCalls <- MCPair
INVARIANTS
  RevocationHolds
  LatestGrantServes
  
  
  NeverOnTwoPages
  NothingPassedOver
  CartShowsWanted
  TotalsAddUp
  
  
  MergedUntilNamed
CHECK_DEADLOCK FALSE
