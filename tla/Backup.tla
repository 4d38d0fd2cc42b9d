------------------------------ MODULE Backup ------------------------------
(***************************************************************************)
(* Persistence::backup_database: several backup commands copy the live     *)
(* database into a private partial file, check it and rename it to its     *)
(* destination, while other processes keep writing.  A file is the list    *)
(* of source versions its chunks were copied from; it is consistent when   *)
(* they are one.  The copy is SQLite's online backup: it starts over when  *)
(* the source has changed since the last chunk.                            *)
(***************************************************************************)
EXTENDS DatabaseFile, Integers, Sequences, FiniteSets

CONSTANTS
  Runs,         \* backup commands, each with its process id and destination
  Pids, Names,  \* process ids and destination file names
  PidOf, NameOf,\* of each run; a process id may be used again after a crash
  Chunks,       \* chunks of 128 pages in the database
  MaxWrites     \* bound on commits of other processes

ASSUME BackupAssumption ==
  /\ PidOf \in [Runs -> Pids] /\ NameOf \in [Runs -> Names]
  /\ Chunks \in Nat \ {0} /\ MaxWrites \in Nat

VARIABLES
  dest,       \* destination name -> file
  partial,    \* <<name, pid>> -> partial file
  pc          \* where each run is in backup_database

vars == <<source, dest, partial, pc>>

Absent == <<0>>   \* no file: version 0 is never copied
PartialOf(r) == <<NameOf[r], PidOf[r]>>
Whole(f) == Len(f) = Chunks /\ \A i \in 1 .. Chunks : f[i] = f[1]

Goto(r, from, to) == pc[r] = from /\ pc' = [pc EXCEPT ![r] = to]

(* A run starts only when no live run has its process id.                  *)
Start(r) ==
  /\ Goto(r, "idle", "check")
  /\ \A q \in Runs \ {r} : PidOf[q] = PidOf[r] => pc[q] \in {"idle", "ok", "failed", "killed"}
  /\ UNCHANGED <<source, dest, partial>>

(* Mutant: an existing destination is waited out instead of refused.       *)
CheckWaits(r) ==
  /\ dest[NameOf[r]] = Absent /\ partial[PartialOf(r)] = Absent
  /\ Goto(r, "check", "create")
  /\ UNCHANGED <<source, dest, partial>>

(* The early returns: destination exists, partial destination exists.      *)
Check(r) ==
  /\ \/ /\ dest[NameOf[r]] = Absent /\ partial[PartialOf(r)] = Absent
        /\ Goto(r, "check", "create")
     \/ /\ dest[NameOf[r]] # Absent \/ partial[PartialOf(r)] # Absent
        /\ Goto(r, "check", "failed")
  /\ UNCHANGED <<source, dest, partial>>

(* The partial database is created empty.                                  *)
Create(r) ==
  /\ Goto(r, "create", "copy")
  /\ partial' = [partial EXCEPT ![PartialOf(r)] = << >>]
  /\ UNCHANGED <<source, dest>>

(* Mutant: a changed source does not restart the copy.                     *)
CopyWithoutRestart(r) ==
  LET file == partial[PartialOf(r)]
  IN  /\ pc[r] = "copy"
      /\ Len(file) < Chunks
      /\ partial' = [partial EXCEPT ![PartialOf(r)] = Append(file, source)]
      /\ pc' = [pc EXCEPT ![r] = IF Len(file) + 1 = Chunks THEN "verify" ELSE "copy"]
      /\ UNCHANGED <<source, dest>>

(* One step of run_to_completion; it may take any number of restarts.      *)
Copy(r) ==
  LET file == partial[PartialOf(r)]
      more == IF \A i \in 1 .. Len(file) : file[i] = source
                THEN Append(file, source) ELSE <<source>>
  IN  /\ pc[r] = "copy"
      /\ partial' = [partial EXCEPT ![PartialOf(r)] = more]
      /\ pc' = [pc EXCEPT ![r] = IF Len(more) = Chunks THEN "verify" ELSE "copy"]
      /\ UNCHANGED <<source, dest>>

(* PRAGMA quick_check on the partial file; a damaged copy is an error.     *)
Verify(r) ==
  /\ Goto(r, "verify", "rename") \/ Goto(r, "verify", "error")
  /\ UNCHANGED <<source, dest, partial>>

(* std::fs::rename replaces whatever the destination is by now.            *)
Rename(r) ==
  /\ Goto(r, "rename", "ok")
  /\ dest' = [dest EXCEPT ![NameOf[r]] = partial[PartialOf(r)]]
  /\ partial' = [partial EXCEPT ![PartialOf(r)] = Absent]
  /\ UNCHANGED source

(* Any step of the copy may fail with an I/O or SQLite error.              *)
Fail(r) ==
  /\ pc[r] \in {"create", "copy", "rename"}
  /\ pc' = [pc EXCEPT ![r] = "error"]
  /\ UNCHANGED <<source, dest, partial>>

(* On an error the partial file is removed.                                *)
CleanUp(r) ==
  /\ Goto(r, "error", "failed")
  /\ partial' = [partial EXCEPT ![PartialOf(r)] = Absent]
  /\ UNCHANGED <<source, dest>>

(* The process dies; its partial file stays.                               *)
Kill(r) ==
  /\ pc[r] \notin {"idle", "ok", "failed", "killed"}
  /\ pc' = [pc EXCEPT ![r] = "killed"]
  /\ UNCHANGED <<source, dest, partial>>

(* Another process commits to the live database.                           *)
Write ==
  /\ source <= MaxWrites
  /\ source' = source + 1
  /\ UNCHANGED <<dest, partial, pc>>

Init ==
  /\ source = 1
  /\ dest = [n \in Names |-> Absent]
  /\ partial = [p \in Names \X Pids |-> Absent]
  /\ pc = [r \in Runs |-> "idle"]

Step(r) == Check(r) \/ Create(r) \/ Copy(r) \/ Verify(r) \/ Rename(r) \/ CleanUp(r)

Next ==
  \/ Write
  \/ \E r \in Runs : Start(r) \/ Step(r) \/ Fail(r) \/ Kill(r)

Fairness == \A r \in Runs : WF_vars(Step(r))

Spec == Init /\ [][Next]_vars
FairSpec == Spec /\ Fairness

----------------------------------------------------------------------------
(* Types of the files and the program counters; Absent is a sequence too.   *)
TypeOK ==
  /\ source \in Nat
  /\ dest \in [Names -> Seq(Nat)] /\ partial \in [Names \X Pids -> Seq(Nat)]
  /\ pc \in [Runs -> {"idle", "check", "create", "copy", "verify", "rename",
                      "error", "ok", "failed", "killed"}]

(***************************************************************************)
(* A destination only ever shows a complete, consistent copy of one        *)
(* committed version of the source, whatever was written meanwhile and     *)
(* wherever a run failed or died.                                          *)
(***************************************************************************)
DestinationIsWhole ==
  \A n \in Names : dest[n] # Absent => Whole(dest[n])

(***************************************************************************)
(* No litter: a partial file belongs to a run that is under way or was     *)
(* killed, so a backup that returned an error can be repeated at once.     *)
(***************************************************************************)
PartialsHaveOwners ==
  \A p \in Names \X Pids :
    partial[p] # Absent =>
      \E r \in Runs : PartialOf(r) = p /\ pc[r] \notin {"idle", "ok", "failed"}

(***************************************************************************)
(* A partial file is private: two runs never write the same one.           *)
(***************************************************************************)
PartialsArePrivate ==
  \A q, r \in Runs :
    /\ q # r /\ PartialOf(q) = PartialOf(r)
    => ~({pc[q], pc[r]} \subseteq {"create", "copy", "verify", "rename", "error"})

(***************************************************************************)
(* "Existing destinations are never overwritten": a file another backup    *)
(* finished meanwhile is not replaced either.                              *)
(***************************************************************************)
NeverOverwrites == [][\A n \in Names : dest[n] # Absent => dest'[n] = dest[n]]_dest

(***************************************************************************)
(* Every backup command that is neither killed nor waiting ends: writers   *)
(* can only make it start its copy over, and they pause in the end.        *)
(***************************************************************************)
BackupsEnd == \A r \in Runs : pc[r] = "check" ~> pc[r] \in {"ok", "failed", "killed"}
============================================================================
