---------------------------- MODULE SessionStore ----------------------------
(***************************************************************************)
(* Sessions of the dialogue runtime in one SQLite file shared by several   *)
(* operating-system processes.  A session is spread over three tables      *)
(* (runtime_sessions, session_graphs, session_semantic).  A process loads  *)
(* it with three separate SELECTs, runs turns on its in-memory copy and    *)
(* writes the copy back in one transaction; nothing but SQLite's write     *)
(* lock orders the processes.                                              *)
(*                                                                         *)
(* The content of a state is abstracted to its history: the set of turns   *)
(* each part of it (dialogue, graph, semantic) has been through.           *)
(*                                                                         *)
(* A definition directly above another and named after it (AfterTurnFor-   *)
(* getsHistory above AfterTurn) is a mutation of it: no part of Spec, only *)
(* there to show that a property notices the bug.                          *)
(***************************************************************************)
EXTENDS Naturals, FiniteSets

CONSTANTS
  Processes,   \* processes that may run the qxfx0 binary
  Sessions,    \* session identifiers
  Commands,    \* subset of AllCommands offered in this instance
  Outcomes,    \* subset of AllOutcomes a turn may have in this instance
  MaxTurns,    \* bound: turns taken by one process identifier
  Nobody       \* no process: nobody holds the write lock

AllCommands == {"turn", "shadow", "chat", "selfplay", "delete"}
AllOutcomes == {"answered", "grounded", "blocked", "recovered"}

ASSUME SessionStoreAssumption ==
  /\ Commands \subseteq AllCommands
  /\ Outcomes \subseteq AllOutcomes
  /\ MaxTurns \in Nat
  /\ Nobody \notin Processes
  /\ Sessions # {}

-----------------------------------------------------------------------------
(* A turn is named by the process that ran it, its number and its outcome. *)
Turns == [by : Processes, n : 1..MaxTurns, how : AllOutcomes]

(* The history every row written before the split tables existed carries.  *)
LegacyTurn == [by |-> Nobody, n |-> 0, how |-> "answered"]

Part  == SUBSET (Turns \cup {LegacyTurn})
State == [dialogue : Part, graph : Part, semantic : Part]

(* No row in a table, nothing in memory: values no turn can produce.       *)
NoRow   == {[by |-> Nobody, n |-> 1, how |-> "none"]}
NoState == [dialogue |-> NoRow, graph |-> NoRow, semantic |-> NoRow]

FreshState  == [dialogue |-> {}, graph |-> {}, semantic |-> {}]
LegacyState == [dialogue |-> {LegacyTurn}, graph |-> {LegacyTurn}, semantic |-> {LegacyTurn}]

(* A Perspective is non-empty once a grounded turn reached the part that   *)
(* keeps it; the knowledge-pack fingerprint lives with the dialogue.       *)
HasGrounding(part) == \E t \in part : t.how = "grounded"

(* state.validate() and perspective_authority_violations(): of the checks, *)
(* the one that relates two tables.                                        *)
ValidIgnoresPerspective(state) == TRUE
Valid(state) == HasGrounding(state.semantic) => HasGrounding(state.dialogue)

-----------------------------------------------------------------------------
VARIABLES
  exclusive,  \* the operator starts a process only when none is running
  runtime,    \* runtime_sessions.state_json, the whole state
  graphs,     \* session_graphs
  semantics,  \* session_semantic
  writer,     \* the process in a write transaction
  txn,        \* rows its statements have produced so far, visible to it only
  stage,      \* where each process is
  command,    \* the subcommand it runs
  session,    \* the session it works on
  seen,       \* what its first two SELECTs returned
  memory,     \* its in-memory SystemState
  turns,      \* turns it has taken
  purpose,    \* why it is saving
  stopping,   \* its SHUTDOWN flag
  late,       \* turns it began after SHUTDOWN was set   (history)
  committed,  \* turns ever committed, per session       (history)
  acked       \* turns whose response was printed, until the session is deleted (history)

tables  == <<runtime, graphs, semantics>>
lock    == <<writer, txn>>
client  == <<session, turns>>
signals == <<stopping, late>>
history == <<committed, acked>>
vars == <<exclusive, tables, lock, stage, command, client, seen, memory, purpose, signals, history>>

Stages == {"idle", "load_graph", "load_semantic", "load_runtime", "ready", "prompt",
           "save_runtime", "save_graph", "save_semantic", "save_commit", "reply",
           "delete_graph", "delete_semantic", "delete_runtime", "delete_commit"}

(* Stages between a transaction's first statement and its COMMIT.          *)
InTransaction == {"save_graph", "save_semantic", "save_commit",
                  "delete_semantic", "delete_runtime", "delete_commit"}

Saving   == {"save_runtime", "save_graph", "save_semantic", "save_commit"}

NothingSeen == [graph |-> NoRow, semantic |-> NoRow]
NoTxn       == [runtime |-> NoState, graph |-> NoRow, semantic |-> NoRow]

TypeOK ==
  /\ runtime \in [Sessions -> State \cup {NoState}]
  /\ graphs \in [Sessions -> Part \cup {NoRow}]
  /\ semantics \in [Sessions -> Part \cup {NoRow}]
  /\ writer \in Processes \cup {Nobody}
  /\ txn \in [runtime : State \cup {NoState}, graph : Part \cup {NoRow}, semantic : Part \cup {NoRow}]
  /\ stage \in [Processes -> Stages]
  /\ command \in [Processes -> AllCommands]
  /\ session \in [Processes -> Sessions]
  /\ seen \in [Processes -> [graph : Part \cup {NoRow}, semantic : Part \cup {NoRow}]]
  /\ memory \in [Processes -> State \cup {NoState}]
  /\ turns \in [Processes -> 0..MaxTurns]
  /\ purpose \in [Processes -> {"turn", "closing", "final"}]
  /\ stopping \in [Processes -> BOOLEAN]
  /\ late \in [Processes -> Nat]
  /\ committed \in [Sessions -> Part]
  /\ acked \in [Sessions -> Part]

(* A database written by a release before the split tables existed holds   *)
(* runtime_sessions rows only.                                             *)
Init ==
  /\ exclusive \in BOOLEAN
  /\ runtime \in [Sessions -> {NoState, LegacyState}]
  /\ graphs = [s \in Sessions |-> NoRow]
  /\ semantics = [s \in Sessions |-> NoRow]
  /\ writer = Nobody
  /\ txn = NoTxn
  /\ stage = [p \in Processes |-> "idle"]
  /\ command = [p \in Processes |-> "turn"]
  /\ session \in [Processes -> {CHOOSE s \in Sessions : TRUE}]
  /\ seen = [p \in Processes |-> NothingSeen]
  /\ memory = [p \in Processes |-> NoState]
  /\ turns = [p \in Processes |-> 0]
  /\ purpose = [p \in Processes |-> "turn"]
  /\ stopping = [p \in Processes |-> FALSE]
  /\ late = [p \in Processes |-> 0]
  /\ committed = [s \in Sessions |-> IF runtime[s] = NoState THEN {} ELSE {LegacyTurn}]
  /\ acked = committed

-----------------------------------------------------------------------------
Goto(p, next) == stage' = [stage EXCEPT ![p] = next]

(* The process is gone: its memory is lost and SQLite rolls its open       *)
(* transaction back, which releases the write lock.                        *)
Exit(p) ==
  /\ Goto(p, "idle")
  /\ command' = [command EXCEPT ![p] = "turn"]
  /\ memory' = [memory EXCEPT ![p] = NoState]
  /\ seen' = [seen EXCEPT ![p] = NothingSeen]
  /\ purpose' = [purpose EXCEPT ![p] = "turn"]
  /\ stopping' = [stopping EXCEPT ![p] = FALSE]
  /\ late' = [late EXCEPT ![p] = 0]

Release(p) ==
  IF writer = p THEN writer' = Nobody /\ txn' = NoTxn
                ELSE UNCHANGED lock

(* The user starts the binary with a subcommand and a session id.  The     *)
(* turn guard is the bound of the model.                                   *)
Start(p, c, s) ==
  /\ stage[p] = "idle"
  /\ exclusive => \A q \in Processes : stage[q] = "idle"
  /\ c \notin {"delete", "shadow"} => turns[p] < MaxTurns
  /\ command' = [command EXCEPT ![p] = c]
  /\ session' = [session EXCEPT ![p] = s]
  /\ Goto(p, IF c = "delete" THEN "delete_graph" ELSE "load_graph")
  /\ UNCHANGED <<tables, lock, seen, memory, turns, purpose, signals, history>>

-----------------------------------------------------------------------------
(* load_state(): three SELECTs outside any transaction.  Each sees the     *)
(* last commit at its own instant.                                         *)
LoadGraph(p) ==
  /\ stage[p] = "load_graph"
  /\ seen' = [seen EXCEPT ![p].graph = graphs[session[p]]]
  /\ Goto(p, "load_semantic")
  /\ UNCHANGED <<tables, lock, command, client, memory, purpose, signals, history>>

LoadSemantic(p) ==
  /\ stage[p] = "load_semantic"
  /\ seen' = [seen EXCEPT ![p].semantic = semantics[session[p]]]
  /\ Goto(p, "load_runtime")
  /\ UNCHANGED <<tables, lock, command, client, memory, purpose, signals, history>>

(* What load_state() builds from a session row: the dialogue comes from the *)
(* row; graph and semantic parts come from the split rows when both were   *)
(* seen, otherwise everything comes from the row (legacy fallback).        *)
Assemble(row, rows) ==
  IF rows.graph # NoRow /\ rows.semantic # NoRow
  THEN [dialogue |-> row.dialogue, graph |-> rows.graph, semantic |-> rows.semantic]
  ELSE row

(* load_or_create_state(): Ok(None) becomes a fresh state, an error exits. *)
LoadedFreshWhenUnsplit(p) ==
  IF seen[p].graph = NoRow \/ seen[p].semantic = NoRow THEN FreshState
  ELSE Assemble(runtime[session[p]], seen[p])
Loaded(p) ==
  LET row == runtime[session[p]]
  IN IF row = NoState THEN FreshState ELSE Assemble(row, seen[p])

AfterLoad(c) == IF c \in {"chat", "selfplay"} THEN "ready" ELSE "prompt"

LoadRuntime(p) ==
  /\ stage[p] = "load_runtime"
  /\ Valid(Loaded(p))
  /\ memory' = [memory EXCEPT ![p] = Loaded(p)]
  /\ seen' = [seen EXCEPT ![p] = NothingSeen]
  /\ Goto(p, AfterLoad(command[p]))
  /\ UNCHANGED <<tables, lock, command, client, purpose, signals, history>>

LoadRejected(p) ==
  /\ stage[p] = "load_runtime"
  /\ ~ Valid(Loaded(p))
  /\ Exit(p)
  /\ UNCHANGED <<tables, lock, client, history>>

-----------------------------------------------------------------------------
(* Top of the chat and self-play loops: SHUTDOWN is looked at here only.   *)
LoopTop(p) ==
  /\ stage[p] = "ready"
  /\ IF stopping[p]
     THEN Goto(p, "save_runtime") /\ purpose' = [purpose EXCEPT ![p] = "closing"]
     ELSE /\ command[p] = "selfplay" => turns[p] < MaxTurns
          /\ Goto(p, "prompt")
          /\ UNCHANGED purpose
  /\ UNCHANGED <<tables, lock, command, client, seen, memory, signals, history>>

(* What a finished turn leaves in the state.  A guard-blocked turn keeps   *)
(* its dialogue entry and puts the whole semantic state back; a recovered  *)
(* stage error puts everything back.                                       *)
AfterTurnBlockedKeepsGraph(state, turn) ==
  IF turn.how = "recovered" THEN state
  ELSE IF turn.how = "blocked"
       THEN [state EXCEPT !.dialogue = @ \cup {turn}, !.graph = @ \cup {turn}]
  ELSE [dialogue |-> state.dialogue \cup {turn},
        graph    |-> state.graph \cup {turn},
        semantic |-> state.semantic \cup {turn}]
AfterTurnForgetsHistory(state, turn) ==
  IF turn.how = "recovered" THEN state ELSE [state EXCEPT !.dialogue = {turn}]
AfterTurn(state, turn) ==
  IF turn.how = "recovered" THEN state
  ELSE IF turn.how = "blocked" THEN [state EXCEPT !.dialogue = @ \cup {turn}]
  ELSE [dialogue |-> state.dialogue \cup {turn},
        graph    |-> state.graph \cup {turn},
        semantic |-> state.semantic \cup {turn}]

(* process_turn() followed by save_state().                                *)
ProcessTurnRepliesFirst(p, how) ==
  /\ stage[p] = "prompt" /\ command[p] # "shadow"
  /\ turns[p] < MaxTurns
  /\ turns' = [turns EXCEPT ![p] = @ + 1]
  /\ memory' = [memory EXCEPT ![p] =
                   AfterTurn(@, [by |-> p, n |-> turns[p] + 1, how |-> how])]
  /\ Goto(p, "reply")
  /\ UNCHANGED <<tables, lock, command, session, seen, purpose, signals, history>>
ProcessTurn(p, how) ==
  /\ stage[p] = "prompt" /\ command[p] # "shadow"
  /\ turns[p] < MaxTurns
  /\ turns' = [turns EXCEPT ![p] = @ + 1]
  /\ memory' = [memory EXCEPT ![p] =
                   AfterTurn(@, [by |-> p, n |-> turns[p] + 1, how |-> how])]
  /\ late' = [late EXCEPT ![p] = IF stopping[p] THEN @ + 1 ELSE @]
  /\ purpose' = [purpose EXCEPT ![p] = "turn"]
  /\ Goto(p, "save_runtime")
  /\ UNCHANGED <<tables, lock, command, session, seen, stopping, history>>

(* The V2 shadow trace runs the turn and exits without saving.             *)
ShadowTurn(p) ==
  /\ stage[p] = "prompt" /\ command[p] = "shadow"
  /\ Exit(p)
  /\ UNCHANGED <<tables, lock, client, history>>

(* The chat user types :quit, closes the input, or enters an empty line.   *)
Quit(p) ==
  /\ stage[p] = "prompt" /\ command[p] = "chat"
  /\ purpose' = [purpose EXCEPT ![p] = "closing"]
  /\ Goto(p, "save_runtime")
  /\ UNCHANGED <<tables, lock, command, client, seen, memory, signals, history>>

EndOfInput(p) ==
  /\ stage[p] = "prompt" /\ command[p] = "chat"
  /\ purpose' = [purpose EXCEPT ![p] = "final"]
  /\ Goto(p, "save_runtime")
  /\ UNCHANGED <<tables, lock, command, client, seen, memory, signals, history>>

EmptyLine(p) ==
  /\ stage[p] = "prompt" /\ command[p] = "chat"
  /\ Goto(p, "ready")
  /\ UNCHANGED <<tables, lock, command, client, seen, memory, purpose, signals, history>>

(* Self-play has run its iterations; every turn is already saved.          *)
IterationsDone(p) ==
  /\ stage[p] = "ready" /\ command[p] = "selfplay"
  /\ Exit(p)
  /\ UNCHANGED <<tables, lock, client, history>>

-----------------------------------------------------------------------------
(* save_state(): the first upsert takes SQLite's write lock.               *)
SaveRuntime(p) ==
  /\ stage[p] = "save_runtime"
  /\ writer = Nobody
  /\ Valid(memory[p])
  /\ writer' = p
  /\ txn' = [runtime  |-> memory[p],
             graph    |-> graphs[session[p]],
             semantic |-> semantics[session[p]]]
  /\ Goto(p, "save_graph")
  /\ UNCHANGED <<tables, command, client, seen, memory, purpose, signals, history>>

SaveGraphAutocommit(p) ==
  /\ stage[p] = "save_graph"
  /\ graphs' = [graphs EXCEPT ![session[p]] = memory[p].graph]
  /\ txn' = [txn EXCEPT !.graph = memory[p].graph]
  /\ Goto(p, "save_semantic")
  /\ UNCHANGED <<runtime, semantics, writer, command, client, seen, memory, purpose, signals, history>>
SaveGraph(p) ==
  /\ stage[p] = "save_graph"
  /\ txn' = [txn EXCEPT !.graph = memory[p].graph]
  /\ Goto(p, "save_semantic")
  /\ UNCHANGED <<tables, writer, command, client, seen, memory, purpose, signals, history>>

SaveSemantic(p) ==
  /\ stage[p] = "save_semantic"
  /\ txn' = [txn EXCEPT !.semantic = memory[p].semantic]
  /\ Goto(p, "save_commit")
  /\ UNCHANGED <<tables, writer, command, client, seen, memory, purpose, signals, history>>

Publish(p) ==
  /\ runtime' = [runtime EXCEPT ![session[p]] = txn.runtime]
  /\ graphs' = [graphs EXCEPT ![session[p]] = txn.graph]
  /\ semantics' = [semantics EXCEPT ![session[p]] = txn.semantic]

(* COMMIT, then back to whoever called save_state().  A chat that is       *)
(* closing falls out of its loop into the unconditional final save.        *)
SaveCommitNoBreak(p) ==
  /\ stage[p] = "save_commit"
  /\ Publish(p)
  /\ Release(p)
  /\ committed' = [committed EXCEPT ![session[p]] = @ \cup memory[p].dialogue]
  /\ Goto(p, IF purpose[p] = "turn" THEN "reply" ELSE "ready")
  /\ UNCHANGED <<command, client, seen, memory, purpose, signals, acked>>
SaveCommit(p) ==
  /\ stage[p] = "save_commit"
  /\ Publish(p)
  /\ Release(p)
  /\ committed' = [committed EXCEPT ![session[p]] = @ \cup memory[p].dialogue]
  /\ \/ /\ purpose[p] = "turn"
        /\ Goto(p, "reply")
        /\ UNCHANGED <<command, seen, memory, purpose, signals>>
     \/ /\ purpose[p] = "closing" /\ command[p] = "chat"
        /\ purpose' = [purpose EXCEPT ![p] = "final"]
        /\ Goto(p, "save_runtime")
        /\ UNCHANGED <<command, seen, memory, signals>>
     \/ /\ \/ purpose[p] = "final"
           \/ purpose[p] = "closing" /\ command[p] = "selfplay"
        /\ Exit(p)
  /\ UNCHANGED <<client, acked>>

(* The response is printed only after save_state() returned.               *)
Reply(p) ==
  /\ stage[p] = "reply"
  /\ acked' = [acked EXCEPT ![session[p]] =
                 @ \cup {t \in memory[p].dialogue : t.by = p /\ t.n = turns[p]}]
  /\ IF command[p] \in {"chat", "selfplay"}
     THEN Goto(p, "ready") /\ UNCHANGED <<command, seen, memory, purpose, signals>>
     ELSE Exit(p)
  /\ UNCHANGED <<tables, lock, client, committed>>

(* SQLITE_BUSY after busy_timeout: another process kept the write lock.    *)
BusyWaitsForever(p) == FALSE /\ UNCHANGED vars
BusyTimeout(p) ==
  /\ stage[p] \in {"save_runtime", "delete_graph"}
  /\ writer \notin {Nobody, p}
  /\ Exit(p)
  /\ UNCHANGED <<tables, lock, client, history>>

(* A statement, COMMIT, print or trace write fails, or the process is      *)
(* killed: it exits with its transaction rolled back.                      *)
Crash(p) ==
  /\ stage[p] # "idle"
  /\ Exit(p)
  /\ Release(p)
  /\ UNCHANGED <<tables, client, history>>

(* Ctrl+C.                                                                 *)
Signal(p) ==
  /\ stage[p] # "idle" /\ ~ stopping[p]
  /\ command[p] \in {"chat", "selfplay"}
  /\ stopping' = [stopping EXCEPT ![p] = TRUE]
  /\ UNCHANGED <<tables, lock, stage, command, client, seen, memory, purpose, late, history>>

-----------------------------------------------------------------------------
(* delete_session(): one transaction, children first.                      *)
DeleteGraph(p) ==
  /\ stage[p] = "delete_graph"
  /\ writer = Nobody
  /\ writer' = p
  /\ txn' = [runtime  |-> runtime[session[p]],
             graph    |-> NoRow,
             semantic |-> semantics[session[p]]]
  /\ Goto(p, "delete_semantic")
  /\ UNCHANGED <<tables, command, client, seen, memory, purpose, signals, history>>

DeleteSemantic(p) ==
  /\ stage[p] = "delete_semantic"
  /\ txn' = [txn EXCEPT !.semantic = NoRow]
  /\ Goto(p, "delete_runtime")
  /\ UNCHANGED <<tables, writer, command, client, seen, memory, purpose, signals, history>>

DeleteRuntime(p) ==
  /\ stage[p] = "delete_runtime"
  /\ txn' = [txn EXCEPT !.runtime = NoState]
  /\ Goto(p, "delete_commit")
  /\ UNCHANGED <<tables, writer, command, client, seen, memory, purpose, signals, history>>

DeleteCommit(p) ==
  /\ stage[p] = "delete_commit"
  /\ Publish(p)
  /\ Release(p)
  /\ acked' = [acked EXCEPT ![session[p]] = {}]
  /\ Exit(p)
  /\ UNCHANGED <<client, committed>>

-----------------------------------------------------------------------------
(* Steps a running process takes by itself; the rest is the user's, the    *)
(* operating system's or the disk's doing.                                 *)
Work(p) ==
  \/ LoadGraph(p) \/ LoadSemantic(p) \/ LoadRuntime(p) \/ LoadRejected(p)
  \/ LoopTop(p) \/ ShadowTurn(p)
  \/ SaveRuntime(p) \/ SaveGraph(p) \/ SaveSemantic(p) \/ SaveCommit(p)
  \/ BusyTimeout(p) \/ Reply(p)
  \/ DeleteGraph(p) \/ DeleteSemantic(p) \/ DeleteRuntime(p) \/ DeleteCommit(p)

Next ==
  /\ UNCHANGED exclusive
  /\ \E p \in Processes :
       \/ \E c \in Commands, s \in Sessions : Start(p, c, s)
       \/ \E how \in Outcomes : ProcessTurn(p, how)
       \/ Work(p)
       \/ Quit(p) \/ EndOfInput(p) \/ EmptyLine(p) \/ IterationsDone(p)
       \/ Crash(p) \/ Signal(p)

Spec == Init /\ [][Next]_vars

(* A running process keeps working, a waiting writer is let in or timed    *)
(* out by busy_timeout, a turn given on the command line or by the         *)
(* self-play list is processed, and self-play stops after its iterations.  *)
(* Nothing is assumed of the chat user, of signals or of crashes.          *)
Progress(p) ==
  \/ Work(p)
  \/ command[p] # "chat" /\ \E how \in Outcomes : ProcessTurn(p, how)
  \/ IterationsDone(p)

-----------------------------------------------------------------------------
(* What a SELECT-by-SELECT load of a session nobody else touches returns.  *)
Stored(s) == Assemble(runtime[s], [graph |-> graphs[s], semantic |-> semantics[s]])

(* The three tables never show two different saves of a session: either    *)
(* only the pre-split row exists, or the split rows are exactly the parts  *)
(* the session row embeds (the single transaction of save_state and        *)
(* delete_session, whatever crashes or interleaves).                       *)
TablesAgree ==
  \A s \in Sessions :
    \/ graphs[s] = NoRow /\ semantics[s] = NoRow
    \/ /\ runtime[s] # NoState
       /\ graphs[s] = runtime[s].graph
       /\ semantics[s] = runtime[s].semantic

(* No interleaving of processes persists a session load_state would refuse *)
(* for a Perspective without a knowledge-pack fingerprint, although a load *)
(* may mix two commits.                                                    *)
NoSessionBricked ==
  \A s \in Sessions :
    runtime[s] # NoState /\ (\E t \in Stored(s).semantic : t.how = "grounded")
      => \E t \in Stored(s).dialogue : t.how = "grounded"

(* A response is shown only for a turn whose state was committed before    *)
(* (run_turn: "Persists before returning the response text").              *)
ReplyAfterCommit == \A s \in Sessions : acked[s] \subseteq committed[s]

(* After Ctrl+C the chat and self-play loops begin at most one more turn.  *)
AtMostOneLateTurn == \A p \in Processes : late[p] <= 1

(* The parts of a state have been through the same turns; a blocked turn   *)
(* shows in the dialogue only.                                             *)
Coherent(state) ==
  /\ state.graph = state.semantic
  /\ state.graph = {t \in state.dialogue : t.how # "blocked"}

(* Every stored session is the result of whole turns: no part of it has    *)
(* missed a turn another part has been through ("a session is never left   *)
(* in a half-persisted state").                                            *)
NeverHalfPersisted == \A s \in Sessions : runtime[s] # NoState => Coherent(Stored(s))

(* A turn whose response was shown is part of the session until the        *)
(* session is deleted.  Side by side this is not so: the save of a process *)
(* that loaded the session earlier wins.                                   *)
AckedTurnsSurvive ==
  \A s \in Sessions :
    \A t \in acked[s] : runtime[s] # NoState /\ t \in runtime[s].dialogue

(* A one-shot command and a self-play run come to an end, whatever the     *)
(* other processes do with the write lock.                                 *)
CommandsEnd ==
  \A p \in Processes :
    (stage[p] # "idle" /\ command[p] # "chat") ~> (stage[p] = "idle")

(* A chat that was told to stop writes its state and exits.                *)
ChatCloses ==
  \A p \in Processes : (purpose[p] \in {"closing", "final"}) ~> (stage[p] = "idle")

(* Every turn a session has been through: what a log of it would hold.     *)
LogOf(s) == IF runtime[s] = NoState THEN {} ELSE runtime[s].dialogue

(* One process at a time, no stored session has a part that missed a turn. *)
WholeWhenAlone == exclusive => NeverHalfPersisted

(* One process at a time, a turn that was answered stays until the session *)
(* is deleted.                                                             *)
AnswersKeptWhenAlone == exclusive => AckedTurnsSurvive

(* One process at a time, every session is a log of whole turns; side by   *)
(* side the log is not told.                                               *)
Told(value, untold) == [s \in Sessions |-> IF exclusive THEN value[s] ELSE untold]
Log == INSTANCE SessionLog WITH
  Entries <- Turns \cup {LegacyTurn},
  exists <- Told([s \in Sessions |-> runtime[s] # NoState], FALSE),
  log <- Told([s \in Sessions |-> LogOf(s)], {}),
  ever <- Told(committed, {})
ImplementsLogWhenAlone == Log!Spec
=============================================================================
