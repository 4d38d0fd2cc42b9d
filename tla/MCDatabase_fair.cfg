SPECIFICATION DatabaseSpec
CHECK_DEADLOCK FALSE
CONSTANTS
  Runs <- MCRuns
  Pids = {"pid1", "pid2"}
  Names = {"a"}
  PidOf <- MCPidOf
  NameOf <- OneName
  Chunks = 2
  MaxWrites = 1
  Openers = {"o1", "o2"}
  Current = 1
  Tables = {"runtime_sessions", "session_graphs", "session_semantic"}
  OldTables <- NoneFirstOrAll
  Columns = {"stance", "perspective"}
  OldColumns <- StanceOrNone
  Nobody = "nobody"
INVARIANTS DestinationIsWhole OpenedMeansComplete
PROPERTIES BackupsEnd CommandsEnd ChatCloses
