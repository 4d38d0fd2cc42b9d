----------------------------- MODULE MCDatabase -----------------------------
(***************************************************************************)
(* One database file with everything that runs on it: backups copy it      *)
(* while processes open and upgrade it and others write; and, with the     *)
(* schema in place, two processes run sessions on it.  Every commit, of a  *)
(* migration or of a writer, is a new version of the source, and writers   *)
(* wait for the lock a migration holds.  A behaviour is about the copies,  *)
(* the upgrade or the sessions, `focus`: of the sessions the first two see *)
(* only that they write.                                                   *)
(***************************************************************************)
EXTENDS MCBackup, Migration

VARIABLES
  focus,
  exclusive, runtime, graphs, semantics, owner, txn, stage, command, session,
  seen, memory, turns, purpose, stopping, late, committed, acked     \* SessionStore

Processes == {"p1", "p2"}
Store == INSTANCE SessionStore WITH
  writer <- owner, Sessions <- {"s1"}, Commands <- {"turn", "chat"},
  Outcomes <- {"answered"}, MaxTurns <- 1

ASSUME MigrationAssumption

StanceOrNone == {{}, {"stance"}}
NoneFirstOrAll == {{}, {"runtime_sessions"}, Tables}

upgradeOnly == <<schema, writer, opener>>
storeVars == <<exclusive, runtime, graphs, semantics, owner, txn, stage, command,
               session, seen, memory, turns, purpose, stopping, late, committed, acked>>
databaseVars == <<focus, vars, upgradeOnly, storeVars>>

DatabaseInit ==
  /\ focus \in {"copies", "upgrade", "sessions"}
  /\ Init
  /\ IF focus = "upgrade" THEN MigrationInit
     ELSE /\ schema = [version |-> Current, tables |-> Tables, columns |-> Columns]
          /\ writer = Nobody /\ opener = [o \in Openers |-> Fresh]
  /\ Store!Init /\ ~exclusive
  /\ focus # "sessions" => runtime = [s \in {"s1"} |-> Store!NoState]

BackupStep(r) == Start(r) \/ Step(r) \/ Fail(r) \/ Kill(r)
UpgradeStep == \E o \in Openers : Quietly(o) \/ CommitMigration(o)

(* Three backups overlap each other, or the first of them the upgrade.      *)
FileNext ==
  /\ UNCHANGED <<focus, storeVars>>
  /\ \/ focus = "copies" /\ Next /\ UNCHANGED upgradeOnly
     \/ focus = "upgrade" /\ BackupStep("first") /\ UNCHANGED upgradeOnly
     \/ focus = "upgrade" /\ Write /\ OtherCommit
     \/ focus = "upgrade" /\ UpgradeStep /\ UNCHANGED <<dest, partial, pc>>

SessionsStep(action) ==
  /\ focus = "sessions" /\ UNCHANGED <<focus, vars, upgradeOnly>>
  /\ action

DatabaseNext == FileNext \/ SessionsStep(Store!Next)

(* The file keeps moving and so do the processes, as each module says why.  *)
DatabaseSpec ==
  /\ DatabaseInit /\ [][DatabaseNext]_databaseVars
  /\ \A r \in Runs :
       WF_databaseVars(focus # "sessions" /\ Step(r)
                       /\ UNCHANGED <<focus, upgradeOnly, storeVars>>)
  /\ \A p \in Processes : WF_databaseVars(SessionsStep(Store!Progress(p) /\ UNCHANGED exclusive))

CommandsEnd == Store!CommandsEnd
ChatCloses == Store!ChatCloses
=============================================================================
