SPECIFICATION FairSpec
CHECK_DEADLOCK FALSE
CONSTANTS
  Runs <- MCRuns
  Pids = {"pid1", "pid2"}
  Names = {"a"}
  PidOf <- MCPidOf
  NameOf <- OneName
  Chunks = 1
  MaxWrites = 1
PROPERTIES NeverOverwrites
