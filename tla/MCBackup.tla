----------------------------- MODULE MCBackup -----------------------------
(* Three backup commands to one name for TLC; the third gets the process   *)
(* id of the first again once that one has ended.                          *)
EXTENDS Backup

MCRuns == {"first", "second", "again"}
MCPidOf == [r \in MCRuns |-> IF r = "second" THEN "pid2" ELSE "pid1"]
OneName == [r \in MCRuns |-> "a"]
============================================================================
