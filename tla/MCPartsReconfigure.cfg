CONSTANTS
  None = None
  Nobody = Nobody
  Fetched = Fetched
  Searched = Searched
  EntryScope = EntryScope
  Other = Other
  r1 = r1
  r2 = r2
  dir = dir
  main = main
  old = old
  new = new
  z1 = z1
  z2 = z2
  pkg = pkg
  pkg2 = pkg2
  web = web
  worker = worker
  v1 = v1
  Zordons = {z1, z2}
  Loads <- PinLoads
  Pinnings <- PinPinnings
  FirstLocks <- PinLocks
  Tips <- PinTips
  Workspaces = {w1, w2}
  Refs = {old}
  OwnBranch <- Trees
  MaxKills = 2
  MaxActs = 1
  Names = {web, worker}
  Detached = {web}
  Asked <- RequestsAsked
  Handlers = {h1, h2}
  MaxRequests = 3
  Alphas = {a1, a2}
  Plans <- ToolPlans
  Newest <- ToolReleases
  Entries <- EvalEntries
  Lexical <- EvalLexical
  Absent = Absent
  Depth = 3
  Texts <- LevelTexts
  Ports <- LevelPorts
  Runs <- LevelRuns
  Terminals = {z1, z2}
  MaxRuns = 2
  MaxEdits = 1
SPECIFICATION Spec
CONSTRAINT Serialized
PROPERTY UntouchedKeepRunning
