SPECIFICATION ProgramsSpec
CONSTANTS
  Boards <- MCBoards
  Scouts = 2
  UnderWay = {"Running"}
  MaxScoutFaults = 1
  MaxCampaigns = 2
  MaxCampFaults = 2
  MaxSignals = 2
  Chunks = 3
  Workers = 2
  MaxShardFaults = 2
  Ranges = {1, 2, 3}
  Threads = 2
  MaxTries = 2
  MaxStops = 2
  MaxLosses = 1
  Units = {"skill", "soul"}
  MaxTreeEdits = 3
  MaxAgentActs = 2
  MaxBundleFaults = 2
  Ingests = {"client", "catalog"}
  Uris = {"u1", "u2"}
  Lengths = {1, 3, 5}
  PieceSize = 3
  Overlap = 1
  MaxIngests = 3
  Names = {"coder", "coordinator", "m", "n"}
  Coordinator = "coordinator"
  Roles = {"coder"}
  KeyObjects <- MCKeyObjects
  Entries <- MCEntries
  Routers = {"router"}
  Backends = {"lane"}
  Contexts = {0, 2}
  MaxEdits = 2
  Namespaces = {"llm", "home"}
  Secrets = {"deploy-key", "age"}
  MaxRuns = 2
  MaxBootFaults = 2
  Users = {"tim", "gateway", "planner", "hermes", "gitops", "friend"}
  Owner = "tim"
  GatewayBot = "gateway"
  Bots = {"gateway", "planner"}
  Dropped = {"hermes"}
  Untouchable = {"gitops"}
  Attempts = 2
  MaxLayoutRuns = 2
  MaxLayoutFaults = 2
  MaxChanges = 1
  Sizes <- MCSizes
  Repetitions = 2
  CorpusLength = 4
  MaxTokens = 4
  MaxResets = 2
  MaxGuesses = 2
  Tolerance = 0
  MaxBenchFaults = 2
INVARIANTS
  ProgramsTypeOK
  FinalClosesThread
  RestoredAtEnd
  VerifiedIsWhole
  CompletedIsWritten
  StoredIsWhole
  ServedInScope
  CleanRunLaysOut
  FitFindsCrossing
  BoardIsReadable
PROPERTIES
  AgentOwns
CHECK_DEADLOCK FALSE
