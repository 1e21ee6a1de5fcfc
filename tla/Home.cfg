SPECIFICATION Spec
CONSTANTS
  Processes = {p1, p2}
  Keep = 2
  MaxBytes = 2
  MaxEvents = 5
  MaxFiles = 3
  MaxHeld = 1
  Tuis = {p1}
  Plains = {p2}
  MaxEntries = 2
  MaxAccepted = 5
  MaxSaves = 3
  MaxSessions = 2
  MaxAsks = 2
  CapEpisodes = 2
  CapSessions = 1
  ByAge = FALSE
  ListLimit = 2
  MaxFaults = 1
  Prompts = {"x", "y"}
  Private = {"y"}
  MultiLine = {"x"}
  Settings = {"model", "server"}
  Values = {"v"}
INVARIANTS TypeOK TraceReadsBack PromptsAreKept
PROPERTIES ConfigurationIsKept SessionsAreKept
CHECK_DEADLOCK FALSE
