-------------------------- MODULE DatabaseProofs --------------------------
(***************************************************************************)
(* Proofs about the database file.  The online backup, for any number of   *)
(* commands, names, process ids, pages and writes: partial files are       *)
(* private and owned, and only whole copies reach a destination.  The      *)
(* migrations, for any number of processes that open, upgrade, fail or die *)
(* on one database, any tables and any older schema.                       *)
(***************************************************************************)
EXTENDS Backup, Migration, TLAPS

-----------------------------------------------------------------------------
(* The online backup.                                                      *)
Live(r) == pc[r] \in {"check", "create", "copy", "verify", "rename", "error"}

(* The operating system gives a process id to one live process.            *)
PidsInv == \A q, r \in Runs : q # r /\ Live(q) /\ Live(r) => PidOf[q] # PidOf[r]

(* A copy in progress is short of the source, a finished one is whole.     *)
CopyInv ==
  \A r \in Runs :
    /\ pc[r] = "copy" => Len(partial[PartialOf(r)]) < Chunks
    /\ pc[r] \in {"verify", "rename"} => Whole(partial[PartialOf(r)])

(* A partial file was created by a run that has not removed it yet.        *)
OwnerInv ==
  \A p \in Names \X Pids :
    partial[p] # Absent =>
      \E r \in Runs : /\ PartialOf(r) = p
                      /\ pc[r] \in {"copy", "verify", "rename", "error", "killed"}

(* The inductive invariant.                                                *)
BackupInv == TypeOK /\ PidsInv /\ CopyInv /\ OwnerInv /\ DestinationIsWhole

----------------------------------------------------------------------------
LEMMA PartialIsAFile ==
  ASSUME NEW r \in Runs
  PROVE  PartialOf(r) \in Names \X Pids
BY BackupAssumption DEF PartialOf, BackupAssumption

(* What one step of the copy leaves in the partial file.                   *)
LEMMA CopiedChunks ==
  ASSUME NEW file \in Seq(Nat), NEW version \in Nat, Len(file) < Chunks
  PROVE  LET more == IF \A i \in 1 .. Len(file) : file[i] = version
                       THEN Append(file, version) ELSE <<version>>
         IN  /\ more \in Seq(Nat)
             /\ Len(more) <= Chunks
             /\ \A i \in 1 .. Len(more) : more[i] = version
<1>0. Chunks \in Nat \ {0}
  BY BackupAssumption DEF BackupAssumption
<1>1. CASE \A i \in 1 .. Len(file) : file[i] = version
  <2>1. /\ Append(file, version) \in Seq(Nat)
        /\ Len(Append(file, version)) = Len(file) + 1
        /\ \A i \in 1 .. Len(file) + 1 : Append(file, version)[i] = version
    BY <1>1
  <2>2. QED
    BY <1>0, <1>1, <2>1
<1>2. CASE ~ \A i \in 1 .. Len(file) : file[i] = version
  BY <1>0, <1>2
<1>3. QED
  BY <1>1, <1>2

(* Live runs with one process id are one run, so a live run's partial file *)
(* is touched by no other.                                                 *)
LEMMA LiveFilesDiffer ==
  ASSUME PidsInv, NEW q \in Runs, NEW r \in Runs, q # r, Live(q), Live(r)
  PROVE  PartialOf(q) # PartialOf(r)
BY DEF PidsInv, PartialOf

----------------------------------------------------------------------------
LEMMA InitBackup == Init => BackupInv
<1> SUFFICES ASSUME Init PROVE BackupInv
  OBVIOUS
<1>1. Absent \in Seq(Nat)
  BY DEF Absent
<1>2. TypeOK
  BY <1>1 DEF Init, TypeOK
<1>3. PidsInv
  BY DEF Init, PidsInv, Live
<1>4. CopyInv
  BY DEF Init, CopyInv
<1>5. OwnerInv
  BY DEF Init, OwnerInv
<1>6. DestinationIsWhole
  BY DEF Init, DestinationIsWhole
<1>7. QED
  BY <1>2, <1>3, <1>4, <1>5, <1>6 DEF BackupInv

LEMMA StepBackup == BackupInv /\ [Next]_vars => BackupInv'
<1> SUFFICES ASSUME BackupInv, [Next]_vars PROVE BackupInv'
  OBVIOUS
<1> USE DEF BackupInv
<1>1. ASSUME NEW r \in Runs, Start(r) PROVE BackupInv'
  <2>1. TypeOK'
    BY <1>1 DEF Start, Goto, TypeOK
  <2>2. PidsInv'
    BY <1>1 DEF Start, Goto, TypeOK, PidsInv, Live
  <2>3. CopyInv'
    BY <1>1 DEF Start, Goto, TypeOK, CopyInv, PartialOf
  <2>4. OwnerInv'
    BY <1>1 DEF Start, Goto, TypeOK, OwnerInv, PartialOf
  <2>5. DestinationIsWhole'
    BY <1>1 DEF Start, DestinationIsWhole, Whole
  <2>6. QED
    BY <2>1, <2>2, <2>3, <2>4, <2>5
<1>2. ASSUME NEW r \in Runs, Check(r) PROVE BackupInv'
  <2>1. TypeOK'
    BY <1>2 DEF Check, Goto, TypeOK
  <2>2. PidsInv'
    BY <1>2 DEF Check, Goto, TypeOK, PidsInv, Live
  <2>3. CopyInv'
    BY <1>2 DEF Check, Goto, TypeOK, CopyInv, PartialOf
  <2>4. OwnerInv'
    BY <1>2 DEF Check, Goto, TypeOK, OwnerInv, PartialOf
  <2>5. DestinationIsWhole'
    BY <1>2 DEF Check, DestinationIsWhole, Whole
  <2>6. QED
    BY <2>1, <2>2, <2>3, <2>4, <2>5
<1>3. ASSUME NEW r \in Runs, Create(r) PROVE BackupInv'
  <2>0. /\ PartialOf(r) \in Names \X Pids /\ pc[r] = "create" /\ Live(r)
        /\ \A p \in Names \X Pids : partial'[p] = IF p = PartialOf(r) THEN << >> ELSE partial[p]
        /\ \A q \in Runs : pc'[q] = IF q = r THEN "copy" ELSE pc[q]
    BY <1>3, PartialIsAFile DEF Create, Goto, TypeOK, Live
  <2>1. TypeOK'
    <3>1. << >> \in Seq(Nat)
      OBVIOUS
    <3>2. partial' \in [Names \X Pids -> Seq(Nat)]
      BY <1>3, <3>1 DEF Create, TypeOK
    <3>3. QED
      BY <1>3, <3>2 DEF Create, Goto, TypeOK
  <2>2. PidsInv'
    BY <2>0 DEF PidsInv, Live
  <2>3. CopyInv'
    <3>1. ASSUME NEW q \in Runs
          PROVE  /\ pc'[q] = "copy" => Len(partial'[PartialOf(q)]) < Chunks
                 /\ pc'[q] \in {"verify", "rename"} => Whole(partial'[PartialOf(q)])
      <4>1. CASE q = r
        BY <2>0, <4>1, BackupAssumption DEF BackupAssumption
      <4>2. CASE q # r /\ pc[q] \in {"copy", "verify", "rename"}
        <5>1. PartialOf(q) # PartialOf(r)
          BY <2>0, <4>2, LiveFilesDiffer DEF Live
        <5>2. partial'[PartialOf(q)] = partial[PartialOf(q)]
          BY <2>0, <5>1, PartialIsAFile
        <5>3. QED
          BY <2>0, <4>2, <5>2 DEF CopyInv
      <4>3. CASE q # r /\ pc[q] \notin {"copy", "verify", "rename"}
        BY <2>0, <4>3
      <4>4. QED
        BY <4>1, <4>2, <4>3
    <3>2. QED
      BY <3>1 DEF CopyInv, PartialOf
  <2>4. OwnerInv'
    BY <2>0 DEF OwnerInv, PartialOf
  <2>5. DestinationIsWhole'
    BY <1>3 DEF Create, DestinationIsWhole, Whole
  <2>6. QED
    BY <2>1, <2>2, <2>3, <2>4, <2>5
<1>4. ASSUME NEW r \in Runs, Copy(r) PROVE BackupInv'
  <2> DEFINE file == partial[PartialOf(r)]
             more == IF \A i \in 1 .. Len(file) : file[i] = source
                       THEN Append(file, source) ELSE <<source>>
  <2>0. /\ PartialOf(r) \in Names \X Pids /\ pc[r] = "copy" /\ Live(r)
        /\ file \in Seq(Nat) /\ Len(file) < Chunks /\ source \in Nat
    BY <1>4, PartialIsAFile DEF Copy, TypeOK, CopyInv, Live
  <2>1. /\ more \in Seq(Nat) /\ Len(more) <= Chunks
        /\ \A i \in 1 .. Len(more) : more[i] = source
    BY <2>0, CopiedChunks
  <2>2. /\ partial' = [partial EXCEPT ![PartialOf(r)] = more]
        /\ pc' = [pc EXCEPT ![r] = IF Len(more) = Chunks THEN "verify" ELSE "copy"]
        /\ UNCHANGED <<source, dest>>
    BY <1>4 DEF Copy
  <2> HIDE DEF more
  <2>3. /\ \A p \in Names \X Pids : partial'[p] = IF p = PartialOf(r) THEN more ELSE partial[p]
        /\ \A q \in Runs : pc'[q] = IF q = r THEN (IF Len(more) = Chunks THEN "verify" ELSE "copy")
                                             ELSE pc[q]
    BY <2>2 DEF TypeOK
  <2>4. TypeOK'
    BY <2>0, <2>1, <2>2 DEF TypeOK
  <2>5. PidsInv'
    BY <2>0, <2>3 DEF PidsInv, Live
  <2>6. Len(more) = Chunks => Whole(more)
    BY <2>1, BackupAssumption DEF Whole, BackupAssumption
  <2>7. CopyInv'
    <3>1. ASSUME NEW q \in Runs
          PROVE  /\ pc'[q] = "copy" => Len(partial'[PartialOf(q)]) < Chunks
                 /\ pc'[q] \in {"verify", "rename"} => Whole(partial'[PartialOf(q)])
      <4>1. CASE q = r
        <5>1. Len(more) \in Nat /\ Chunks \in Nat
          BY <2>1, BackupAssumption DEF BackupAssumption
        <5>2. QED
          BY <2>0, <2>1, <2>3, <2>6, <4>1, <5>1
      <4>2. CASE q # r /\ pc[q] \in {"copy", "verify", "rename"}
        <5>1. PartialOf(q) # PartialOf(r)
          BY <2>0, <4>2, LiveFilesDiffer DEF Live
        <5>2. partial'[PartialOf(q)] = partial[PartialOf(q)]
          BY <2>3, <5>1, PartialIsAFile
        <5>3. QED
          BY <2>3, <4>2, <5>2 DEF CopyInv
      <4>3. CASE q # r /\ pc[q] \notin {"copy", "verify", "rename"}
        BY <2>3, <4>3
      <4>4. QED
        BY <4>1, <4>2, <4>3
    <3>2. QED
      BY <3>1 DEF CopyInv, PartialOf
  <2>8. OwnerInv'
    BY <2>0, <2>3 DEF OwnerInv, PartialOf
  <2>9. DestinationIsWhole'
    BY <2>2 DEF DestinationIsWhole, Whole
  <2>10. QED
    BY <2>4, <2>5, <2>7, <2>8, <2>9
<1>5. ASSUME NEW r \in Runs, Verify(r) PROVE BackupInv'
  <2>1. TypeOK'
    BY <1>5 DEF Verify, Goto, TypeOK
  <2>2. PidsInv'
    BY <1>5 DEF Verify, Goto, TypeOK, PidsInv, Live
  <2>3. CopyInv'
    BY <1>5 DEF Verify, Goto, TypeOK, CopyInv, PartialOf, Whole
  <2>4. OwnerInv'
    BY <1>5 DEF Verify, Goto, TypeOK, OwnerInv, PartialOf
  <2>5. DestinationIsWhole'
    BY <1>5 DEF Verify, DestinationIsWhole, Whole
  <2>6. QED
    BY <2>1, <2>2, <2>3, <2>4, <2>5
<1>6. ASSUME NEW r \in Runs, Rename(r) PROVE BackupInv'
  <2>0. /\ PartialOf(r) \in Names \X Pids /\ NameOf[r] \in Names
        /\ pc[r] = "rename" /\ Live(r) /\ Absent \in Seq(Nat)
    BY <1>6, PartialIsAFile, BackupAssumption
       DEF Rename, Goto, Live, Absent, BackupAssumption
  <2>1. /\ \A p \in Names \X Pids : partial'[p] = IF p = PartialOf(r) THEN Absent ELSE partial[p]
        /\ \A q \in Runs : pc'[q] = IF q = r THEN "ok" ELSE pc[q]
        /\ \A n \in Names : dest'[n] = IF n = NameOf[r] THEN partial[PartialOf(r)] ELSE dest[n]
    BY <1>6, <2>0 DEF Rename, Goto, TypeOK
  <2>2. TypeOK'
    BY <1>6, <2>0 DEF Rename, Goto, TypeOK
  <2>3. PidsInv'
    BY <2>0, <2>1 DEF PidsInv, Live
  <2>4. CopyInv'
    <3>1. ASSUME NEW q \in Runs
          PROVE  /\ pc'[q] = "copy" => Len(partial'[PartialOf(q)]) < Chunks
                 /\ pc'[q] \in {"verify", "rename"} => Whole(partial'[PartialOf(q)])
      <4>1. CASE q = r
        BY <2>1, <4>1
      <4>2. CASE q # r /\ pc[q] \in {"copy", "verify", "rename"}
        <5>1. PartialOf(q) # PartialOf(r)
          BY <2>0, <4>2, LiveFilesDiffer DEF Live
        <5>2. partial'[PartialOf(q)] = partial[PartialOf(q)]
          BY <2>1, <5>1, PartialIsAFile
        <5>3. QED
          BY <2>1, <4>2, <5>2 DEF CopyInv
      <4>3. CASE q # r /\ pc[q] \notin {"copy", "verify", "rename"}
        BY <2>1, <4>3
      <4>4. QED
        BY <4>1, <4>2, <4>3
    <3>2. QED
      BY <3>1 DEF CopyInv, PartialOf
  <2>5. OwnerInv'
    BY <2>0, <2>1 DEF OwnerInv, PartialOf
  <2>6. DestinationIsWhole'
    <3>1. Whole(partial[PartialOf(r)])
      BY <2>0 DEF CopyInv
    <3>2. QED
      BY <2>1, <3>1 DEF DestinationIsWhole, Whole
  <2>7. QED
    BY <2>2, <2>3, <2>4, <2>5, <2>6
<1>7. ASSUME NEW r \in Runs, Fail(r) PROVE BackupInv'
  <2>1. TypeOK'
    BY <1>7 DEF Fail, TypeOK
  <2>2. PidsInv'
    BY <1>7 DEF Fail, TypeOK, PidsInv, Live
  <2>3. CopyInv'
    BY <1>7 DEF Fail, TypeOK, CopyInv, PartialOf, Whole
  <2>4. OwnerInv'
    BY <1>7 DEF Fail, TypeOK, OwnerInv, PartialOf
  <2>5. DestinationIsWhole'
    BY <1>7 DEF Fail, DestinationIsWhole, Whole
  <2>6. QED
    BY <2>1, <2>2, <2>3, <2>4, <2>5
<1>8. ASSUME NEW r \in Runs, CleanUp(r) PROVE BackupInv'
  <2>0. /\ PartialOf(r) \in Names \X Pids /\ pc[r] = "error" /\ Live(r)
        /\ Absent \in Seq(Nat)
    BY <1>8, PartialIsAFile DEF CleanUp, Goto, Live, Absent
  <2>1. /\ \A p \in Names \X Pids : partial'[p] = IF p = PartialOf(r) THEN Absent ELSE partial[p]
        /\ \A q \in Runs : pc'[q] = IF q = r THEN "failed" ELSE pc[q]
    BY <1>8, <2>0 DEF CleanUp, Goto, TypeOK
  <2>2. TypeOK'
    BY <1>8, <2>0 DEF CleanUp, Goto, TypeOK
  <2>3. PidsInv'
    BY <2>0, <2>1 DEF PidsInv, Live
  <2>4. CopyInv'
    <3>1. ASSUME NEW q \in Runs
          PROVE  /\ pc'[q] = "copy" => Len(partial'[PartialOf(q)]) < Chunks
                 /\ pc'[q] \in {"verify", "rename"} => Whole(partial'[PartialOf(q)])
      <4>1. CASE q = r
        BY <2>1, <4>1
      <4>2. CASE q # r /\ pc[q] \in {"copy", "verify", "rename"}
        <5>1. PartialOf(q) # PartialOf(r)
          BY <2>0, <4>2, LiveFilesDiffer DEF Live
        <5>2. partial'[PartialOf(q)] = partial[PartialOf(q)]
          BY <2>1, <5>1, PartialIsAFile
        <5>3. QED
          BY <2>1, <4>2, <5>2 DEF CopyInv
      <4>3. CASE q # r /\ pc[q] \notin {"copy", "verify", "rename"}
        BY <2>1, <4>3
      <4>4. QED
        BY <4>1, <4>2, <4>3
    <3>2. QED
      BY <3>1 DEF CopyInv, PartialOf
  <2>5. OwnerInv'
    BY <2>0, <2>1 DEF OwnerInv, PartialOf
  <2>6. DestinationIsWhole'
    BY <1>8 DEF CleanUp, DestinationIsWhole, Whole
  <2>7. QED
    BY <2>2, <2>3, <2>4, <2>5, <2>6
<1>9. ASSUME NEW r \in Runs, Kill(r) PROVE BackupInv'
  <2>1. TypeOK'
    BY <1>9 DEF Kill, TypeOK
  <2>2. PidsInv'
    BY <1>9 DEF Kill, TypeOK, PidsInv, Live
  <2>3. CopyInv'
    BY <1>9 DEF Kill, TypeOK, CopyInv, PartialOf, Whole
  <2>4. OwnerInv'
    BY <1>9 DEF Kill, TypeOK, OwnerInv, PartialOf
  <2>5. DestinationIsWhole'
    BY <1>9 DEF Kill, DestinationIsWhole, Whole
  <2>6. QED
    BY <2>1, <2>2, <2>3, <2>4, <2>5
<1>10. CASE Write
  <2>1. TypeOK'
    BY <1>10 DEF Write, TypeOK
  <2>2. PidsInv'
    BY <1>10 DEF Write, PidsInv, Live
  <2>3. CopyInv'
    BY <1>10 DEF Write, CopyInv, PartialOf, Whole
  <2>4. OwnerInv'
    BY <1>10 DEF Write, OwnerInv, PartialOf
  <2>5. DestinationIsWhole'
    BY <1>10 DEF Write, DestinationIsWhole, Whole
  <2>6. QED
    BY <2>1, <2>2, <2>3, <2>4, <2>5
<1>11. CASE UNCHANGED vars
  BY <1>11 DEF vars, TypeOK, PidsInv, Live, CopyInv, OwnerInv, DestinationIsWhole, Whole, PartialOf
<1>12. QED
  BY <1>1, <1>2, <1>3, <1>4, <1>5, <1>6, <1>7, <1>8, <1>9, <1>10, <1>11 DEF Next, Step

LEMMA BackupInvariant == Spec => []BackupInv
BY InitBackup, StepBackup, PTL DEF Spec

----------------------------------------------------------------------------
(***************************************************************************)
(* The live database, the files and the program counters of the commands   *)
(* keep their types (every step of backup_database).                       *)
(***************************************************************************)
THEOREM TypeCorrect == Spec => []TypeOK
BY BackupInvariant, PTL DEF BackupInv

(***************************************************************************)
(* A destination only ever shows a complete copy of one committed version  *)
(* of the source, for any number of commands, chunks and writes.           *)
(***************************************************************************)
THEOREM OnlyWholeBackups == Spec => []DestinationIsWhole
BY BackupInvariant, PTL DEF BackupInv

(***************************************************************************)
(* Two runs never write one partial file, as long as the operating system  *)
(* does not give one process id to two live processes.                     *)
(***************************************************************************)
THEOREM PrivatePartials == Spec => []PartialsArePrivate
<1>1. BackupInv => PartialsArePrivate
  <2>1. ASSUME PidsInv, NEW q \in Runs, NEW r \in Runs, q # r, PartialOf(q) = PartialOf(r)
        PROVE  ~({pc[q], pc[r]} \subseteq {"create", "copy", "verify", "rename", "error"})
    BY <2>1, LiveFilesDiffer DEF Live
  <2>2. QED
    BY <2>1 DEF BackupInv, PartialsArePrivate
<1>2. QED
  BY <1>1, BackupInvariant, PTL

(***************************************************************************)
(* A partial file left behind is that of a killed run: a backup that       *)
(* returned, with or without an error, leaves none.                        *)
(***************************************************************************)
THEOREM NoLitter == Spec => []PartialsHaveOwners
<1>1. BackupInv => PartialsHaveOwners
  BY DEF BackupInv, OwnerInv, PartialsHaveOwners
<1>2. QED
  BY <1>1, BackupInvariant, PTL

-----------------------------------------------------------------------------
(* The migrations.                                                         *)
Schemas == [version : Nat, tables : SUBSET Tables, columns : SUBSET Columns]

Places == {"start", "tables", "columns", "version", "commit", "opened", "failed"}

MigrationTypeOK ==
  /\ source \in Nat /\ schema \in Schemas /\ schema.version <= Current
  /\ writer \in Openers \cup {Nobody}
  /\ opener \in [Openers -> [at : Places, snapshot : Nat, draft : Schemas]]

(* How far the open transaction of a process has brought its schema.        *)
DraftGrows(o) ==
  LET draft == opener[o].draft
  IN  /\ opener[o].at \in {"columns", "version", "commit"} => draft.tables = Tables
      /\ opener[o].at \in {"version", "commit"} => draft.columns = Columns
      /\ At(o, "commit") => draft.version = Current

(* Whoever has written holds the lock and works on the latest commit.       *)
WriterIsCurrent ==
  \A o \in Openers :
    /\ writer = o => /\ opener[o].at \in {"columns", "version", "commit"}
                     /\ opener[o].snapshot = source
    /\ At(o, "commit") => writer = o

MigrationInv ==
  /\ MigrationTypeOK /\ WriterIsCurrent /\ OpenedMeansComplete
  /\ \A o \in Openers : DraftGrows(o)

LEMMA InitEstablishes == ASSUME MigrationAssumption, MigrationInit, source \in Nat
                         PROVE  MigrationInv
<1>1. schema \in Schemas /\ schema.version <= Current /\ ~(schema.version >= Current)
  BY DEF MigrationAssumption, MigrationInit, OldSchemas, Schemas
<1>2. Fresh \in [at : Places, snapshot : Nat, draft : Schemas] /\ Fresh.at = "start"
  BY DEF Fresh, NoDraft, Schemas, Places
<1>3. /\ writer = Nobody /\ Nobody \notin Openers
      /\ opener = [o \in Openers |-> Fresh]
  BY DEF MigrationAssumption, MigrationInit
<1>4. MigrationTypeOK
  BY <1>1, <1>2, <1>3 DEF MigrationTypeOK
<1> QED BY <1>1, <1>2, <1>3, <1>4
        DEF MigrationInv, WriterIsCurrent, OpenedMeansComplete, DraftGrows, At

(* A step of one process is a step of its own record. *)
LEMMA StepKeeps ==
  ASSUME MigrationAssumption, MigrationInv, [MigrationNext]_migrationVars
  PROVE  MigrationInv'
<1>1. /\ source \in Nat /\ schema \in Schemas /\ schema.version <= Current
      /\ writer \in Openers \cup {Nobody} /\ Nobody \notin Openers /\ Current \in Nat
      /\ opener \in [Openers -> [at : Places, snapshot : Nat, draft : Schemas]]
  BY DEF MigrationInv, MigrationTypeOK, MigrationAssumption
<1>2. CASE UNCHANGED migrationVars
  BY <1>2 DEF migrationVars, MigrationInv, MigrationTypeOK, WriterIsCurrent,
              OpenedMeansComplete, DraftGrows, At
<1>3. CASE OtherCommit
  <2>1. \A o \in Openers : writer # o
    BY <1>1, <1>3 DEF OtherCommit
  <2> QED BY <1>1, <1>3, <2>1 DEF OtherCommit, MigrationInv, MigrationTypeOK, WriterIsCurrent,
                                  OpenedMeansComplete, DraftGrows, At
<1>4. ASSUME NEW o \in Openers, ReadVersion(o) PROVE MigrationInv'
  <2> DEFINE where == IF schema.version >= Current THEN "opened" ELSE "tables"
  <2>1. /\ opener' = [opener EXCEPT ![o].at = where, ![o].draft = NoDraft]
        /\ source' = source /\ schema' = schema /\ writer' = writer /\ At(o, "start")
    BY <1>4 DEF ReadVersion, OnTo
  <2>2. where \in Places /\ NoDraft \in Schemas
    BY DEF Places, NoDraft, Schemas
  <2>3. MigrationTypeOK'
    BY <1>1, <2>1, <2>2 DEF MigrationTypeOK
  <2>4. /\ opener'[o].at = where /\ writer # o
        /\ \A p \in Openers \ {o} : opener'[p] = opener[p]
    BY <1>1, <2>1 DEF MigrationInv, WriterIsCurrent, At
  <2>5. WriterIsCurrent' /\ \A p \in Openers : DraftGrows(p)'
    BY <1>1, <2>1, <2>4 DEF MigrationInv, WriterIsCurrent, DraftGrows, At
  <2>6. OpenedMeansComplete'
    BY <1>1, <2>1, <2>4 DEF MigrationInv, OpenedMeansComplete, Complete, At
  <2> QED BY <2>3, <2>5, <2>6 DEF MigrationInv
<1>5. ASSUME NEW o \in Openers, CreateTables(o) PROVE MigrationInv'
  <2> DEFINE draft == IF schema.tables = Tables THEN schema
                      ELSE [schema EXCEPT !.tables = Tables,
                              !.columns = IF "session_semantic" \in schema.tables THEN @ ELSE Columns]
  <2>1. /\ opener' = [opener EXCEPT ![o] = [at |-> "columns", snapshot |-> source, draft |-> draft]]
        /\ source' = source /\ schema' = schema /\ writer' \in {writer, o} /\ At(o, "tables")
        /\ writer' # writer => writer = Nobody
    BY <1>5 DEF CreateTables
  <2>2. draft \in Schemas /\ draft.tables = Tables
    BY <1>1 DEF Schemas
  <2> HIDE DEF draft
  <2>3. MigrationTypeOK'
    BY <1>1, <2>1, <2>2 DEF MigrationTypeOK, Places
  <2>4. /\ opener'[o] = [at |-> "columns", snapshot |-> source, draft |-> draft]
        /\ writer # o /\ \A p \in Openers \ {o} : opener'[p] = opener[p]
    BY <1>1, <2>1 DEF MigrationInv, WriterIsCurrent, At
  <2>5. WriterIsCurrent' /\ \A p \in Openers : DraftGrows(p)'
    BY <1>1, <2>1, <2>2, <2>4 DEF MigrationInv, WriterIsCurrent, DraftGrows, At
  <2>6. OpenedMeansComplete'
    BY <1>1, <2>1, <2>4 DEF MigrationInv, OpenedMeansComplete, Complete, At
  <2> QED BY <2>3, <2>5, <2>6 DEF MigrationInv
<1>6. ASSUME NEW o \in Openers, AddColumns(o) PROVE MigrationInv'
  <2> DEFINE draft == [opener[o].draft EXCEPT !.columns = Columns]
  <2>1. /\ opener' = [opener EXCEPT ![o].at = "version", ![o].draft = draft]
        /\ source' = source /\ schema' = schema /\ At(o, "columns")
        /\ writer' = writer \/ (MayWrite(o) /\ writer' = o)
    BY <1>6 DEF AddColumns, OnTo
  <2>2. /\ draft \in Schemas /\ draft.tables = Tables /\ draft.columns = Columns
    BY <1>1, <2>1 DEF Schemas, MigrationInv, DraftGrows, At
  <2> HIDE DEF draft
  <2>3. MigrationTypeOK'
    BY <1>1, <2>1, <2>2 DEF MigrationTypeOK, Places
  <2>4. /\ opener'[o].at = "version" /\ opener'[o].draft = draft
        /\ opener'[o].snapshot = opener[o].snapshot
        /\ \A p \in Openers \ {o} : opener'[p] = opener[p]
    BY <1>1, <2>1
  <2>5. WriterIsCurrent' /\ \A p \in Openers : DraftGrows(p)'
    BY <1>1, <2>1, <2>2, <2>4 DEF MigrationInv, WriterIsCurrent, DraftGrows, At, MayWrite
  <2>6. OpenedMeansComplete'
    BY <1>1, <2>1, <2>4 DEF MigrationInv, OpenedMeansComplete, Complete, At
  <2> QED BY <2>3, <2>5, <2>6 DEF MigrationInv
<1>7. ASSUME NEW o \in Openers, SetVersion(o) PROVE MigrationInv'
  <2> DEFINE draft == [opener[o].draft EXCEPT !.version = Current]
  <2>1. /\ opener' = [opener EXCEPT ![o].at = "commit", ![o].draft = draft]
        /\ source' = source /\ schema' = schema /\ At(o, "version")
        /\ MayWrite(o) /\ writer' = o
    BY <1>7 DEF SetVersion, OnTo
  <2>2. /\ draft \in Schemas /\ draft.tables = Tables /\ draft.columns = Columns
        /\ draft.version = Current
    BY <1>1, <2>1 DEF Schemas, MigrationInv, DraftGrows, At
  <2> HIDE DEF draft
  <2>3. MigrationTypeOK'
    BY <1>1, <2>1, <2>2 DEF MigrationTypeOK, Places
  <2>4. /\ opener'[o].at = "commit" /\ opener'[o].draft = draft
        /\ opener'[o].snapshot = opener[o].snapshot
        /\ \A p \in Openers \ {o} : opener'[p] = opener[p]
    BY <1>1, <2>1
  <2>5. WriterIsCurrent' /\ \A p \in Openers : DraftGrows(p)'
    BY <1>1, <2>1, <2>2, <2>4 DEF MigrationInv, WriterIsCurrent, DraftGrows, At, MayWrite
  <2>6. OpenedMeansComplete'
    BY <1>1, <2>1, <2>4 DEF MigrationInv, OpenedMeansComplete, Complete, At
  <2> QED BY <2>3, <2>5, <2>6 DEF MigrationInv
<1>8. ASSUME NEW o \in Openers, OpenFails(o) PROVE MigrationInv'
  <2>1. /\ opener' = [opener EXCEPT ![o].at = "failed", ![o].draft = NoDraft]
        /\ source' = source /\ schema' = schema
        /\ writer' = IF writer = o THEN Nobody ELSE writer
    BY <1>8 DEF OpenFails, OnTo
  <2>2. NoDraft \in Schemas
    BY DEF NoDraft, Schemas
  <2>3. MigrationTypeOK'
    BY <1>1, <2>1, <2>2 DEF MigrationTypeOK, Places
  <2>4. opener'[o].at = "failed" /\ \A p \in Openers \ {o} : opener'[p] = opener[p]
    BY <1>1, <2>1
  <2>5. WriterIsCurrent' /\ \A p \in Openers : DraftGrows(p)'
    BY <1>1, <2>1, <2>4 DEF MigrationInv, WriterIsCurrent, DraftGrows, At
  <2>6. OpenedMeansComplete'
    BY <1>1, <2>1, <2>4 DEF MigrationInv, OpenedMeansComplete, Complete, At
  <2> QED BY <2>3, <2>5, <2>6 DEF MigrationInv
<1>9. ASSUME NEW o \in Openers, CommitMigration(o) PROVE MigrationInv'
  <2>1. /\ opener' = [opener EXCEPT ![o].at = "opened", ![o].draft = NoDraft]
        /\ source' = source + 1 /\ schema' = opener[o].draft /\ writer' = Nobody
        /\ At(o, "commit")
    BY <1>9 DEF CommitMigration, OnTo
  <2>2. /\ schema' \in Schemas /\ schema'.tables = Tables /\ schema'.columns = Columns
        /\ schema'.version = Current /\ writer = o /\ NoDraft \in Schemas
    BY <1>1, <2>1 DEF MigrationInv, DraftGrows, WriterIsCurrent, At, NoDraft, Schemas
  <2>3. MigrationTypeOK'
    <3>1. opener' \in [Openers -> [at : Places, snapshot : Nat, draft : Schemas]]
      BY <1>1, <2>1, <2>2 DEF Places
    <3>2. source' \in Nat /\ schema'.version <= Current
      BY <1>1, <2>1, <2>2
    <3> QED BY <1>1, <2>1, <2>2, <3>1, <3>2 DEF MigrationTypeOK
  <2>4. opener'[o].at = "opened" /\ \A p \in Openers \ {o} : opener'[p] = opener[p]
    BY <1>1, <2>1
  <2>5. WriterIsCurrent' /\ \A p \in Openers : DraftGrows(p)'
    BY <1>1, <2>1, <2>2, <2>4 DEF MigrationInv, WriterIsCurrent, DraftGrows, At
  <2>6. OpenedMeansComplete'
    BY <1>1, <2>2 DEF OpenedMeansComplete, Complete
  <2> QED BY <2>3, <2>5, <2>6 DEF MigrationInv
<1> QED BY <1>2, <1>3, <1>4, <1>5, <1>6, <1>7, <1>8, <1>9 DEF MigrationNext, Quietly

(* The inductive invariant: a transaction that has written holds the lock   *)
(* and the latest snapshot, and its draft has what its place says.          *)
THEOREM UpgradesAreSerial == ASSUME MigrationAssumption PROVE MigrationSpec => []MigrationInv
<1>1. MigrationInit /\ source \in Nat => MigrationInv
  BY InitEstablishes
<1>2. MigrationInv /\ [MigrationNext]_migrationVars => MigrationInv'
  BY StepKeeps
<1> QED BY <1>1, <1>2, PTL DEF MigrationSpec

(* A database that claims the current version has the whole schema, and no  *)
(* process that opened it works on less.                                    *)
THEOREM OpenedIsComplete ==
  ASSUME MigrationAssumption PROVE MigrationSpec => []OpenedMeansComplete
<1>1. MigrationInv => OpenedMeansComplete
  BY DEF MigrationInv
<1> QED BY <1>1, UpgradesAreSerial, PTL
============================================================================
