SPECIFICATION Spec
CONSTANTS
  None = None
  Conversation = {c1}
  NewDraft = new
  MaxAttachments = 1
  MaxCalls = 2
  MaxPieces = 1
  MaxEdits = 1
  MaxMoves = 1
  Call = {a, b, s}
  Retryable = {a}
  Stop = s
  MaxRetries = 1
  MaxConnections = 2
  CallsOf <- MCCallsOf
  ClicksOf <- MCClicksOf
  MostCalls = 3
  MostClicks = 7
  File = {"f"}
  Provider = {"Acme", "acme"}
  Slug <- MCSlug
  ModelId = {"m"}
  Chat = {"c1", "c2"}
  Skill = {"k"}
  Bundle = {"p1", "p2"}
  Mentions <- MCMentions
  Package = {"p1", "p2"}
  KindOf <- MCKindOf
  Known = {"r1"}
  Custom = {"r2"}
  TypeOf <- MCTypeOf
  From <- MCFrom
  Query = {"q"}
  Hits <- MCHits
  Workspace = {"w1", "w2"}
  MemoryType = {"t"}
  MemoryKey = {"k"}
  Handbook = {"h1", "h2"}
  RecordId = {1, 2}
  Category = {"a"}
  Limit = 1
  Home = "home"
  Message = {"t"}
  KeyOf <- MCKeyOf
  Path = {"p1", "p2"}
  Contents = {"x"}
  Goal = {"g"}
  Full = 2
  Profile = {"p"}
  Name = {"n"}
  Untitled = "new"
  Project = {"c2"}
  Start = "start"
  Other = "v"
  Task = {"t1", "t2"}
  Run = {"r"}
  Watched = {"c"}
  Subagent = {"s"}
  MaxEchoes = 2
  Shared = "w"
  Card = {"k1", "k2"}
  Tool = {"a", "b"}
  MaxMessages = 7
  View = {"chat", "today", "git", "capabilities"}
  ModeOf <- MCModeOf
  Offered = {"light-warm"}
INVARIANTS
  TypeOK
  InStep
  BusyMeansCalling
  DetailMatches
  TextGoesWhereItWasTyped
  CarriedOutOnce
PROPERTIES
  MovingKeepsDrafts
CHECK_DEADLOCK FALSE
