------------------------- MODULE SessionStoreProofs -------------------------
(***************************************************************************)
(* Proofs about SessionStore, for any set of processes and sessions and    *)
(* any bound on turns.                                                     *)
(***************************************************************************)
EXTENDS SessionStore, TLAPS

(* The actions of one process, named so that proofs can split on them.     *)
Step(p) ==
  \/ \E c \in Commands, s \in Sessions : Start(p, c, s)
  \/ \E how \in Outcomes : ProcessTurn(p, how)
  \/ Work(p)
  \/ Quit(p) \/ EndOfInput(p) \/ EmptyLine(p) \/ IterationsDone(p)
  \/ Crash(p) \/ Signal(p)

LEMMA NextIsStep == Next <=> UNCHANGED exclusive /\ \E p \in Processes : Step(p)
  BY DEF Next, Step

(* The absent row is no part and the absent state no state.                *)
LEMMA AbsentRow == NoRow \notin Part /\ NoState \notin State
<1>1. [by |-> Nobody, n |-> 1, how |-> "none"] \notin Turns \cup {LegacyTurn}
  <2>1. [by |-> Nobody, n |-> 1, how |-> "none"] \notin Turns
    BY SessionStoreAssumption DEF Turns
  <2>2. [by |-> Nobody, n |-> 1, how |-> "none"] # LegacyTurn
    BY DEF LegacyTurn
  <2> QED BY <2>1, <2>2
<1>2. NoRow \notin Part
  BY <1>1 DEF NoRow, Part
<1> QED BY <1>2 DEF NoState, State

LEMMA PartClosed ==
  /\ {} \in Part
  /\ \A a, b \in Part : a \cup b \in Part
  /\ \A a \in Part : \A b \in SUBSET a : a \cup b \in Part /\ b \in Part
  BY DEF Part

(* What a turn leaves in a state is a state.                               *)
LEMMA AfterTurnType ==
  ASSUME NEW state \in State, NEW turn \in Turns
  PROVE  AfterTurn(state, turn) \in State
<1>1. state.dialogue \cup {turn} \in Part /\ state.graph \cup {turn} \in Part
      /\ state.semantic \cup {turn} \in Part
  BY DEF State, Part
<1> QED BY <1>1 DEF AfterTurn, State

(* A load returns a state if the tables hold parts.                        *)
LEMMA LoadedType ==
  ASSUME TypeOK, NEW p \in Processes
  PROVE  Loaded(p) \in State
<1>1. FreshState \in State
  BY DEF FreshState, State, Part
<1>2. ASSUME NEW row \in State, NEW rows \in [graph : Part \cup {NoRow}, semantic : Part \cup {NoRow}]
      PROVE Assemble(row, rows) \in State
  BY DEF Assemble, State
<1> QED BY <1>1, <1>2 DEF Loaded, TypeOK

-----------------------------------------------------------------------------
(* A process that runs turns, saves or replies has a state in memory.      *)
HasState ==
  \A p \in Processes :
    stage[p] \in Saving \cup {"reply", "prompt", "ready"} => memory[p] \in State

TypeInv == TypeOK /\ HasState

LEMMA TypeInit == Init => TypeInv
<1> SUFFICES ASSUME Init PROVE TypeInv
  OBVIOUS
<1>1. LegacyState \in State /\ {LegacyTurn} \in Part /\ {} \in Part
  BY DEF LegacyState, State, Part
<1>2. TypeOK
  <2>1. /\ runtime \in [Sessions -> State \cup {NoState}]
        /\ committed \in [Sessions -> Part]
        /\ acked \in [Sessions -> Part]
    BY <1>1 DEF Init
  <2>2. session \in [Processes -> Sessions]
    BY SessionStoreAssumption DEF Init
  <2>3. /\ graphs \in [Sessions -> Part \cup {NoRow}]
        /\ semantics \in [Sessions -> Part \cup {NoRow}]
        /\ writer \in Processes \cup {Nobody}
        /\ txn \in [runtime : State \cup {NoState}, graph : Part \cup {NoRow},
                    semantic : Part \cup {NoRow}]
        /\ seen \in [Processes -> [graph : Part \cup {NoRow}, semantic : Part \cup {NoRow}]]
        /\ memory \in [Processes -> State \cup {NoState}]
    BY DEF Init, NoTxn, NothingSeen
  <2>4. /\ stage \in [Processes -> Stages]
        /\ command \in [Processes -> AllCommands]
        /\ turns \in [Processes -> 0..MaxTurns]
        /\ purpose \in [Processes -> {"turn", "closing", "final"}]
        /\ stopping \in [Processes -> BOOLEAN]
        /\ late \in [Processes -> Nat]
    BY SessionStoreAssumption DEF Init, Stages, AllCommands
  <2> QED BY <2>1, <2>2, <2>3, <2>4 DEF TypeOK
<1>3. HasState
  BY DEF Init, HasState, Saving
<1> QED BY <1>2, <1>3 DEF TypeInv

LEMMA TypeStep == TypeInv /\ [Next]_vars => TypeInv'
<1> SUFFICES ASSUME TypeInv, [Next]_vars PROVE TypeInv'
  OBVIOUS
<1> USE DEF TypeInv, TypeOK, HasState, tables, lock, client, signals, history, Goto, Stages, Saving
<1>1. CASE UNCHANGED vars
  BY <1>1 DEF vars
<1>2. ASSUME NEW p \in Processes, NEW c \in Commands, NEW s \in Sessions, Start(p, c, s)
      PROVE  TypeInv'
  BY <1>2, SessionStoreAssumption DEF Start
<1>3. ASSUME NEW p \in Processes, NEW how \in Outcomes, ProcessTurn(p, how)
      PROVE  TypeInv'
  <2> DEFINE turn == [by |-> p, n |-> turns[p] + 1, how |-> how]
  <2>1. turns[p] + 1 \in 1..MaxTurns /\ turn \in Turns
    BY <1>3, SessionStoreAssumption DEF ProcessTurn, Turns
  <2>2. memory[p] \in State
    BY <1>3 DEF ProcessTurn
  <2>3. AfterTurn(memory[p], turn) \in State
    BY <2>1, <2>2, AfterTurnType
  <2> HIDE DEF turn
  <2>4. memory' = [memory EXCEPT ![p] = AfterTurn(memory[p], turn)]
    BY <1>3 DEF ProcessTurn, turn
  <2>5. memory' \in [Processes -> State \cup {NoState}] /\ memory'[p] \in State
    BY <2>3, <2>4
  <2>6. HasState'
    BY <1>3, <2>3, <2>4 DEF ProcessTurn
  <2>7. /\ turns' \in [Processes -> 0..MaxTurns]
        /\ late' \in [Processes -> Nat]
        /\ purpose' \in [Processes -> {"turn", "closing", "final"}]
        /\ stage' \in [Processes -> Stages]
    BY <1>3, <2>1, SessionStoreAssumption DEF ProcessTurn
  <2> QED BY <1>3, <2>5, <2>6, <2>7 DEF ProcessTurn
<1>4. ASSUME NEW p \in Processes, LoadGraph(p) PROVE TypeInv'
  <2>1. seen[p] \in [graph : Part \cup {NoRow}, semantic : Part \cup {NoRow}]
        /\ graphs[session[p]] \in Part \cup {NoRow}
    OBVIOUS
  <2>2. [seen[p] EXCEPT !.graph = graphs[session[p]]]
          \in [graph : Part \cup {NoRow}, semantic : Part \cup {NoRow}]
    BY <2>1
  <2>3. seen' \in [Processes -> [graph : Part \cup {NoRow}, semantic : Part \cup {NoRow}]]
    BY <1>4, <2>2 DEF LoadGraph
  <2> QED BY <1>4, <2>3 DEF LoadGraph
<1>5. ASSUME NEW p \in Processes, LoadSemantic(p) PROVE TypeInv'
  <2>1. seen[p] \in [graph : Part \cup {NoRow}, semantic : Part \cup {NoRow}]
        /\ semantics[session[p]] \in Part \cup {NoRow}
    OBVIOUS
  <2>2. [seen[p] EXCEPT !.semantic = semantics[session[p]]]
          \in [graph : Part \cup {NoRow}, semantic : Part \cup {NoRow}]
    BY <2>1
  <2>3. seen' \in [Processes -> [graph : Part \cup {NoRow}, semantic : Part \cup {NoRow}]]
    BY <1>5, <2>2 DEF LoadSemantic
  <2> QED BY <1>5, <2>3 DEF LoadSemantic
<1>6. ASSUME NEW p \in Processes, LoadRuntime(p) PROVE TypeInv'
  BY <1>6, LoadedType DEF LoadRuntime, NothingSeen, AfterLoad
<1>7. ASSUME NEW p \in Processes, LoadRejected(p) PROVE TypeInv'
  BY <1>7 DEF LoadRejected, Exit, NothingSeen, AllCommands
<1>8. ASSUME NEW p \in Processes, LoopTop(p) PROVE TypeInv'
  BY <1>8 DEF LoopTop
<1>9. ASSUME NEW p \in Processes, ShadowTurn(p) PROVE TypeInv'
  BY <1>9 DEF ShadowTurn, Exit, NothingSeen, AllCommands
<1>10. ASSUME NEW p \in Processes, SaveRuntime(p) PROVE TypeInv'
  BY <1>10 DEF SaveRuntime
<1>11. ASSUME NEW p \in Processes, SaveGraph(p) PROVE TypeInv'
  <2>1. memory[p].graph \in Part
    BY <1>11 DEF SaveGraph, State
  <2>2. txn' \in [runtime : State \cup {NoState}, graph : Part \cup {NoRow},
                 semantic : Part \cup {NoRow}]
    BY <1>11, <2>1 DEF SaveGraph
  <2> QED BY <1>11, <2>2 DEF SaveGraph
<1>12. ASSUME NEW p \in Processes, SaveSemantic(p) PROVE TypeInv'
  <2>1. memory[p].semantic \in Part
    BY <1>12 DEF SaveSemantic, State
  <2>2. txn' \in [runtime : State \cup {NoState}, graph : Part \cup {NoRow},
                 semantic : Part \cup {NoRow}]
    BY <1>12, <2>1 DEF SaveSemantic
  <2> QED BY <1>12, <2>2 DEF SaveSemantic
<1>13. ASSUME NEW p \in Processes, SaveCommit(p) PROVE TypeInv'
  <2>1. memory[p].dialogue \in Part
    BY <1>13 DEF SaveCommit, State
  <2>2. committed' \in [Sessions -> Part]
    <3>0. committed[session[p]] \in Part
      OBVIOUS
    <3>1. committed[session[p]] \cup memory[p].dialogue \in Part
      BY <2>1, <3>0, PartClosed
    <3>2. committed' = [committed EXCEPT ![session[p]] =
                          committed[session[p]] \cup memory[p].dialogue]
      BY <1>13 DEF SaveCommit
    <3> QED BY <3>1, <3>2
  <2>3. /\ runtime' \in [Sessions -> State \cup {NoState}]
        /\ graphs' \in [Sessions -> Part \cup {NoRow}]
        /\ semantics' \in [Sessions -> Part \cup {NoRow}]
    BY <1>13 DEF SaveCommit, Publish
  <2>4. writer' \in Processes \cup {Nobody}
        /\ txn' \in [runtime : State \cup {NoState}, graph : Part \cup {NoRow},
                     semantic : Part \cup {NoRow}]
    BY <1>13 DEF SaveCommit, Release, NoTxn
  <2>5. CASE Exit(p)
    BY <1>13, <2>2, <2>3, <2>4, <2>5 DEF SaveCommit, Exit, NothingSeen, AllCommands
  <2>6. CASE Goto(p, "reply") /\ UNCHANGED <<command, seen, memory, purpose, signals>>
    BY <1>13, <2>2, <2>3, <2>4, <2>6 DEF SaveCommit
  <2>7. CASE /\ purpose' = [purpose EXCEPT ![p] = "final"]
             /\ Goto(p, "save_runtime")
             /\ UNCHANGED <<command, seen, memory, signals>>
    BY <1>13, <2>2, <2>3, <2>4, <2>7 DEF SaveCommit
  <2> QED BY <1>13, <2>5, <2>6, <2>7 DEF SaveCommit
<1>14. ASSUME NEW p \in Processes, BusyTimeout(p) PROVE TypeInv'
  BY <1>14 DEF BusyTimeout, Exit, NothingSeen, AllCommands
<1>15. ASSUME NEW p \in Processes, Reply(p) PROVE TypeInv'
  <2>1. memory[p].dialogue \in Part
    BY <1>15 DEF Reply, State
  <2>2. acked' \in [Sessions -> Part]
    <3> DEFINE new == {t \in memory[p].dialogue : t.by = p /\ t.n = turns[p]}
    <3>1. new \in Part
      BY <2>1 DEF Part
    <3>2. acked' = [acked EXCEPT ![session[p]] = @ \cup new]
      BY <1>15 DEF Reply
    <3> HIDE DEF new
    <3>3. acked[session[p]] \cup new \in Part
      BY <3>1, PartClosed
    <3> QED BY <3>2, <3>3
  <2>3. CASE Exit(p)
    BY <1>15, <2>2, <2>3 DEF Reply, Exit, NothingSeen, AllCommands
  <2>4. CASE Goto(p, "ready") /\ UNCHANGED <<command, seen, memory, purpose, signals>>
    BY <1>15, <2>2, <2>4 DEF Reply
  <2> QED BY <1>15, <2>3, <2>4 DEF Reply
<1>16. ASSUME NEW p \in Processes, DeleteGraph(p) PROVE TypeInv'
  BY <1>16 DEF DeleteGraph
<1>17. ASSUME NEW p \in Processes, DeleteSemantic(p) PROVE TypeInv'
  BY <1>17 DEF DeleteSemantic
<1>18. ASSUME NEW p \in Processes, DeleteRuntime(p) PROVE TypeInv'
  BY <1>18 DEF DeleteRuntime
<1>19. ASSUME NEW p \in Processes, DeleteCommit(p) PROVE TypeInv'
  <2>1. acked' \in [Sessions -> Part]
    BY <1>19, PartClosed DEF DeleteCommit
  <2>2. /\ runtime' \in [Sessions -> State \cup {NoState}]
        /\ graphs' \in [Sessions -> Part \cup {NoRow}]
        /\ semantics' \in [Sessions -> Part \cup {NoRow}]
    BY <1>19 DEF DeleteCommit, Publish
  <2>3. writer' \in Processes \cup {Nobody}
        /\ txn' \in [runtime : State \cup {NoState}, graph : Part \cup {NoRow},
                     semantic : Part \cup {NoRow}]
    BY <1>19 DEF DeleteCommit, Release, NoTxn
  <2> QED BY <1>19, <2>1, <2>2, <2>3 DEF DeleteCommit, Exit, NothingSeen, AllCommands
<1>20. ASSUME NEW p \in Processes, Quit(p) PROVE TypeInv'
  BY <1>20 DEF Quit
<1>21. ASSUME NEW p \in Processes, EndOfInput(p) PROVE TypeInv'
  BY <1>21 DEF EndOfInput
<1>22. ASSUME NEW p \in Processes, EmptyLine(p) PROVE TypeInv'
  BY <1>22 DEF EmptyLine
<1>23. ASSUME NEW p \in Processes, IterationsDone(p) PROVE TypeInv'
  BY <1>23 DEF IterationsDone, Exit, NothingSeen, AllCommands
<1>24. ASSUME NEW p \in Processes, Crash(p) PROVE TypeInv'
  BY <1>24 DEF Crash, Exit, NothingSeen, Release, NoTxn, AllCommands
<1>25. ASSUME NEW p \in Processes, Signal(p) PROVE TypeInv'
  BY <1>25 DEF Signal
<1> QED
  BY <1>1, <1>2, <1>3, <1>4, <1>5, <1>6, <1>7, <1>8, <1>9, <1>10, <1>11, <1>12, <1>13, <1>14, <1>15, <1>16, <1>17, <1>18, <1>19, <1>20, <1>21, <1>22, <1>23, <1>24, <1>25 DEF Next, Work

(* Every variable keeps its type.                                          *)
THEOREM TypeCorrect == Spec => []TypeOK
<1>1. TypeInv => TypeOK
  BY DEF TypeInv
<1> QED BY TypeInit, TypeStep, <1>1, PTL DEF Spec

-----------------------------------------------------------------------------
(* The write lock belongs to the process between its first statement and   *)
(* its COMMIT, and what it has written so far is its own copy.             *)
LockInv == \A p \in Processes : stage[p] \in InTransaction <=> writer = p

TxnInv ==
  \A p \in Processes :
    /\ stage[p] \in {"save_graph", "save_semantic", "save_commit"} => txn.runtime = memory[p]
    /\ stage[p] \in {"save_semantic", "save_commit"} => txn.graph = memory[p].graph
    /\ stage[p] = "save_commit" => txn.semantic = memory[p].semantic
    /\ stage[p] \in {"delete_semantic", "delete_runtime", "delete_commit"} => txn.graph = NoRow
    /\ stage[p] \in {"delete_runtime", "delete_commit"} => txn.semantic = NoRow
    /\ stage[p] = "delete_commit" => txn.runtime = NoState

StoreInv == TypeInv /\ LockInv /\ TxnInv /\ TablesAgree

LEMMA StoreInit == Init => StoreInv
<1>1. Init => LockInv /\ TxnInv /\ TablesAgree
  BY SessionStoreAssumption DEF Init, LockInv, TxnInv, TablesAgree, InTransaction
<1> QED BY <1>1, TypeInit DEF StoreInv

(* Two processes are never inside a transaction together.                  *)
LEMMA OneWriter ==
  ASSUME LockInv, NEW p \in Processes, NEW q \in Processes,
         stage[p] \in InTransaction, stage[q] \in InTransaction
  PROVE  p = q
  BY DEF LockInv

LEMMA StoreStep == StoreInv /\ [Next]_vars => StoreInv'
<1> SUFFICES ASSUME StoreInv, [Next]_vars PROVE LockInv' /\ TxnInv' /\ TablesAgree'
  BY TypeStep DEF StoreInv
<1> USE DEF tables, lock, client, signals, history, Goto, InTransaction
<1> USE SessionStoreAssumption
<1>0. TypeInv /\ TypeOK /\ HasState /\ LockInv /\ TxnInv /\ TablesAgree
  BY DEF StoreInv, TypeInv
<1>00. stage \in [Processes -> Stages] /\ memory \in [Processes -> State \cup {NoState}]
       /\ session \in [Processes -> Sessions]
       /\ runtime \in [Sessions -> State \cup {NoState}]
       /\ graphs \in [Sessions -> Part \cup {NoRow}]
       /\ semantics \in [Sessions -> Part \cup {NoRow}]
  BY <1>0 DEF TypeOK
<1>1. CASE UNCHANGED vars
  BY <1>0, <1>1 DEF vars, LockInv, TxnInv, TablesAgree
<1>2. ASSUME NEW p \in Processes, NEW c \in Commands, NEW s \in Sessions, Start(p, c, s)
      PROVE  LockInv' /\ TxnInv' /\ TablesAgree'
  BY <1>0, <1>00, <1>2 DEF Start, LockInv, TxnInv, TablesAgree
<1>3. ASSUME NEW p \in Processes, NEW how \in Outcomes, ProcessTurn(p, how)
      PROVE  LockInv' /\ TxnInv' /\ TablesAgree'
  <2>1. LockInv' /\ TablesAgree'
    BY <1>0, <1>00, <1>3 DEF ProcessTurn, LockInv, TablesAgree
  <2>2. \A q \in Processes : q # p => stage'[q] = stage[q] /\ memory'[q] = memory[q]
    BY <1>00, <1>3 DEF ProcessTurn
  <2>3. stage'[p] = "save_runtime" /\ txn' = txn
    BY <1>00, <1>3 DEF ProcessTurn
  <2> QED BY <1>0, <2>1, <2>2, <2>3 DEF TxnInv
<1>4. ASSUME NEW p \in Processes, LoadGraph(p) PROVE LockInv' /\ TxnInv' /\ TablesAgree'
  BY <1>0, <1>00, <1>4 DEF LoadGraph, LockInv, TxnInv, TablesAgree
<1>5. ASSUME NEW p \in Processes, LoadSemantic(p) PROVE LockInv' /\ TxnInv' /\ TablesAgree'
  BY <1>0, <1>00, <1>5 DEF LoadSemantic, LockInv, TxnInv, TablesAgree
<1>6. ASSUME NEW p \in Processes, LoadRuntime(p) PROVE LockInv' /\ TxnInv' /\ TablesAgree'
  BY <1>0, <1>00, <1>6 DEF LoadRuntime, AfterLoad, LockInv, TxnInv, TablesAgree
<1>7. ASSUME NEW p \in Processes, LoadRejected(p) PROVE LockInv' /\ TxnInv' /\ TablesAgree'
  BY <1>0, <1>00, <1>7 DEF LoadRejected, Exit, LockInv, TxnInv, TablesAgree
<1>8. ASSUME NEW p \in Processes, LoopTop(p) PROVE LockInv' /\ TxnInv' /\ TablesAgree'
  BY <1>0, <1>00, <1>8 DEF LoopTop, LockInv, TxnInv, TablesAgree
<1>9. ASSUME NEW p \in Processes, ShadowTurn(p) PROVE LockInv' /\ TxnInv' /\ TablesAgree'
  BY <1>0, <1>00, <1>9 DEF ShadowTurn, Exit, LockInv, TxnInv, TablesAgree
<1>10. ASSUME NEW p \in Processes, SaveRuntime(p) PROVE LockInv' /\ TxnInv' /\ TablesAgree'
  BY <1>0, <1>00, <1>10 DEF SaveRuntime, LockInv, TxnInv, TablesAgree
<1>11. ASSUME NEW p \in Processes, SaveGraph(p) PROVE LockInv' /\ TxnInv' /\ TablesAgree'
  BY <1>0, <1>00, <1>11 DEF SaveGraph, LockInv, TxnInv, TablesAgree
<1>12. ASSUME NEW p \in Processes, SaveSemantic(p) PROVE LockInv' /\ TxnInv' /\ TablesAgree'
  BY <1>0, <1>00, <1>12 DEF SaveSemantic, LockInv, TxnInv, TablesAgree
<1>13. ASSUME NEW p \in Processes, SaveCommit(p) PROVE LockInv' /\ TxnInv' /\ TablesAgree'
  <2>1. \A q \in Processes : q # p => stage[q] \notin InTransaction
    BY <1>0, <1>13, OneWriter DEF SaveCommit
  <2>2. writer = p /\ writer' = Nobody /\ txn' = NoTxn
    BY <1>0, <1>13 DEF SaveCommit, Release, LockInv
  <2>3. stage'[p] \notin InTransaction /\ \A q \in Processes : q # p => stage'[q] = stage[q]
    BY <1>00, <1>13 DEF SaveCommit, Exit
  <2>4. LockInv' /\ TxnInv'
    BY <2>1, <2>2, <2>3 DEF LockInv, TxnInv
  <2>5. TablesAgree'
    <3>1. memory[p] \in State
      BY <1>0, <1>13 DEF HasState, SaveCommit, Saving
    <3>2. memory[p] # NoState
      BY <3>1, AbsentRow
    <3>3. txn.runtime = memory[p] /\ txn.graph = memory[p].graph /\ txn.semantic = memory[p].semantic
      BY <1>0, <1>13 DEF TxnInv, SaveCommit
    <3> QED BY <1>0, <1>00, <1>13, <3>2, <3>3 DEF SaveCommit, Publish, TablesAgree
  <2> QED BY <2>4, <2>5
<1>14. ASSUME NEW p \in Processes, BusyTimeout(p) PROVE LockInv' /\ TxnInv' /\ TablesAgree'
  BY <1>0, <1>00, <1>14 DEF BusyTimeout, Exit, LockInv, TxnInv, TablesAgree
<1>15. ASSUME NEW p \in Processes, Reply(p) PROVE LockInv' /\ TxnInv' /\ TablesAgree'
  BY <1>0, <1>00, <1>15 DEF Reply, Exit, LockInv, TxnInv, TablesAgree
<1>16. ASSUME NEW p \in Processes, DeleteGraph(p) PROVE LockInv' /\ TxnInv' /\ TablesAgree'
  BY <1>0, <1>00, <1>16 DEF DeleteGraph, LockInv, TxnInv, TablesAgree
<1>17. ASSUME NEW p \in Processes, DeleteSemantic(p) PROVE LockInv' /\ TxnInv' /\ TablesAgree'
  BY <1>0, <1>00, <1>17 DEF DeleteSemantic, LockInv, TxnInv, TablesAgree
<1>18. ASSUME NEW p \in Processes, DeleteRuntime(p) PROVE LockInv' /\ TxnInv' /\ TablesAgree'
  BY <1>0, <1>00, <1>18 DEF DeleteRuntime, LockInv, TxnInv, TablesAgree
<1>19. ASSUME NEW p \in Processes, DeleteCommit(p) PROVE LockInv' /\ TxnInv' /\ TablesAgree'
  <2>1. \A q \in Processes : q # p => stage[q] \notin InTransaction
    BY <1>0, <1>19, OneWriter DEF DeleteCommit
  <2>2. writer = p /\ writer' = Nobody /\ txn' = NoTxn
    BY <1>0, <1>19 DEF DeleteCommit, Release, LockInv
  <2>3. stage'[p] \notin InTransaction /\ \A q \in Processes : q # p => stage'[q] = stage[q]
    BY <1>00, <1>19 DEF DeleteCommit, Exit
  <2>4. LockInv' /\ TxnInv'
    BY <2>1, <2>2, <2>3 DEF LockInv, TxnInv
  <2>5. TablesAgree'
    <3>1. txn.graph = NoRow /\ txn.semantic = NoRow
      BY <1>0, <1>19 DEF TxnInv, DeleteCommit
    <3> QED BY <1>0, <1>00, <1>19, <3>1 DEF DeleteCommit, Publish, TablesAgree
  <2> QED BY <2>4, <2>5
<1>20. ASSUME NEW p \in Processes, Quit(p) PROVE LockInv' /\ TxnInv' /\ TablesAgree'
  BY <1>0, <1>00, <1>20 DEF Quit, LockInv, TxnInv, TablesAgree
<1>21. ASSUME NEW p \in Processes, EndOfInput(p) PROVE LockInv' /\ TxnInv' /\ TablesAgree'
  BY <1>0, <1>00, <1>21 DEF EndOfInput, LockInv, TxnInv, TablesAgree
<1>22. ASSUME NEW p \in Processes, EmptyLine(p) PROVE LockInv' /\ TxnInv' /\ TablesAgree'
  BY <1>0, <1>00, <1>22 DEF EmptyLine, LockInv, TxnInv, TablesAgree
<1>23. ASSUME NEW p \in Processes, IterationsDone(p) PROVE LockInv' /\ TxnInv' /\ TablesAgree'
  BY <1>0, <1>00, <1>23 DEF IterationsDone, Exit, LockInv, TxnInv, TablesAgree
<1>24. ASSUME NEW p \in Processes, Crash(p) PROVE LockInv' /\ TxnInv' /\ TablesAgree'
  BY <1>0, <1>00, <1>24 DEF Crash, Exit, Release, NoTxn, LockInv, TxnInv, TablesAgree
<1>25. ASSUME NEW p \in Processes, Signal(p) PROVE LockInv' /\ TxnInv' /\ TablesAgree'
  BY <1>0, <1>00, <1>25 DEF Signal, LockInv, TxnInv, TablesAgree
<1> QED
  BY <1>1, <1>2, <1>3, <1>4, <1>5, <1>6, <1>7, <1>8, <1>9, <1>10, <1>11, <1>12, <1>13, <1>14, <1>15, <1>16, <1>17, <1>18, <1>19, <1>20, <1>21, <1>22, <1>23, <1>24, <1>25 DEF Next, Work

(* The tables never show two different saves of a session.                 *)
THEOREM TablesAlwaysAgree == Spec => []TablesAgree
<1>1. StoreInv => TablesAgree
  BY DEF StoreInv
<1> QED BY StoreInit, StoreStep, <1>1, PTL DEF Spec

-----------------------------------------------------------------------------
(* Whatever is in memory, in the tables or on its way there passes the     *)
(* Perspective check, because a load is checked before it is used and a    *)
(* turn grounds dialogue and semantic part together.                       *)
GroundInv ==
  /\ \A p \in Processes : Valid(memory[p])
  /\ \A s \in Sessions : Valid(runtime[s])
  /\ Valid(txn.runtime)

LEMMA AbsentIsValid == Valid(NoState)
  BY DEF Valid, HasGrounding, NoState, NoRow

LEMMA AfterTurnValid ==
  ASSUME NEW state \in State, NEW turn \in Turns, Valid(state)
  PROVE  Valid(AfterTurn(state, turn))
  BY DEF AfterTurn, Valid, HasGrounding, State

LEMMA GroundInit == Init => GroundInv
<1>1. Valid(LegacyState)
  BY DEF Valid, HasGrounding, LegacyState, LegacyTurn
<1> QED BY <1>1, AbsentIsValid DEF Init, GroundInv, NoTxn

LEMMA GroundStep == TypeInv /\ GroundInv /\ [Next]_vars => GroundInv'
<1> SUFFICES ASSUME TypeInv, GroundInv, [Next]_vars PROVE GroundInv'
  OBVIOUS
<1> USE AbsentIsValid DEF tables, lock, client, signals, history, Goto
<1>0. /\ memory \in [Processes -> State \cup {NoState}]
      /\ runtime \in [Sessions -> State \cup {NoState}]
      /\ session \in [Processes -> Sessions]
      /\ turns \in [Processes -> 0..MaxTurns]
      /\ txn \in [runtime : State \cup {NoState}, graph : Part \cup {NoRow},
                  semantic : Part \cup {NoRow}]
  BY DEF TypeInv, TypeOK
<1>1. CASE UNCHANGED vars
  BY <1>1 DEF vars, GroundInv
<1>2. ASSUME NEW p \in Processes, NEW c \in Commands, NEW s \in Sessions, Start(p, c, s)
      PROVE  GroundInv'
  BY <1>2 DEF Start, GroundInv
<1>3. ASSUME NEW p \in Processes, NEW how \in Outcomes, ProcessTurn(p, how)
      PROVE  GroundInv'
  <2> DEFINE turn == [by |-> p, n |-> turns[p] + 1, how |-> how]
  <2>1. turn \in Turns
    BY <1>0, <1>3, SessionStoreAssumption DEF ProcessTurn, Turns
  <2>2. memory[p] \in State
    BY <1>3 DEF ProcessTurn, TypeInv, HasState
  <2>3. Valid(AfterTurn(memory[p], turn))
    BY <2>1, <2>2, AfterTurnValid DEF GroundInv
  <2> HIDE DEF turn
  <2>4. memory' = [memory EXCEPT ![p] = AfterTurn(memory[p], turn)]
    BY <1>3 DEF ProcessTurn, turn
  <2> QED BY <1>0, <1>3, <2>3, <2>4 DEF ProcessTurn, GroundInv
<1>4. ASSUME NEW p \in Processes, LoadGraph(p) PROVE GroundInv'
  BY <1>0, <1>4 DEF LoadGraph, GroundInv
<1>5. ASSUME NEW p \in Processes, LoadSemantic(p) PROVE GroundInv'
  BY <1>0, <1>5 DEF LoadSemantic, GroundInv
<1>6. ASSUME NEW p \in Processes, LoadRuntime(p) PROVE GroundInv'
  <2>1. memory' = [memory EXCEPT ![p] = Loaded(p)] /\ Valid(Loaded(p))
    BY <1>6 DEF LoadRuntime
  <2> QED BY <1>0, <1>6, <2>1 DEF LoadRuntime, GroundInv
<1>7. ASSUME NEW p \in Processes, LoadRejected(p) PROVE GroundInv'
  BY <1>0, <1>7 DEF LoadRejected, Exit, GroundInv
<1>8. ASSUME NEW p \in Processes, LoopTop(p) PROVE GroundInv'
  BY <1>0, <1>8 DEF LoopTop, GroundInv
<1>9. ASSUME NEW p \in Processes, ShadowTurn(p) PROVE GroundInv'
  BY <1>0, <1>9 DEF ShadowTurn, Exit, GroundInv
<1>10. ASSUME NEW p \in Processes, SaveRuntime(p) PROVE GroundInv'
  BY <1>0, <1>10 DEF SaveRuntime, GroundInv
<1>11. ASSUME NEW p \in Processes, SaveGraph(p) PROVE GroundInv'
  <2>1. txn'.runtime = txn.runtime
    BY <1>0, <1>11 DEF SaveGraph
  <2> QED BY <1>11, <2>1 DEF SaveGraph, GroundInv
<1>12. ASSUME NEW p \in Processes, SaveSemantic(p) PROVE GroundInv'
  <2>1. txn'.runtime = txn.runtime
    BY <1>0, <1>12 DEF SaveSemantic
  <2> QED BY <1>12, <2>1 DEF SaveSemantic, GroundInv
<1>13. ASSUME NEW p \in Processes, SaveCommit(p) PROVE GroundInv'
  BY <1>0, <1>13 DEF SaveCommit, Exit, Release, NoTxn, Publish, GroundInv
<1>14. ASSUME NEW p \in Processes, BusyTimeout(p) PROVE GroundInv'
  BY <1>0, <1>14 DEF BusyTimeout, Exit, GroundInv
<1>15. ASSUME NEW p \in Processes, Reply(p) PROVE GroundInv'
  BY <1>0, <1>15 DEF Reply, Exit, GroundInv
<1>16. ASSUME NEW p \in Processes, DeleteGraph(p) PROVE GroundInv'
  BY <1>0, <1>16 DEF DeleteGraph, GroundInv
<1>17. ASSUME NEW p \in Processes, DeleteSemantic(p) PROVE GroundInv'
  <2>1. txn'.runtime = txn.runtime
    BY <1>0, <1>17 DEF DeleteSemantic
  <2> QED BY <1>17, <2>1 DEF DeleteSemantic, GroundInv
<1>18. ASSUME NEW p \in Processes, DeleteRuntime(p) PROVE GroundInv'
  <2>1. txn'.runtime = NoState
    BY <1>0, <1>18 DEF DeleteRuntime
  <2> QED BY <1>18, <2>1 DEF DeleteRuntime, GroundInv
<1>19. ASSUME NEW p \in Processes, DeleteCommit(p) PROVE GroundInv'
  BY <1>0, <1>19 DEF DeleteCommit, Exit, Release, NoTxn, Publish, GroundInv
<1>20. ASSUME NEW p \in Processes, Quit(p) PROVE GroundInv'
  BY <1>0, <1>20 DEF Quit, GroundInv
<1>21. ASSUME NEW p \in Processes, EndOfInput(p) PROVE GroundInv'
  BY <1>0, <1>21 DEF EndOfInput, GroundInv
<1>22. ASSUME NEW p \in Processes, EmptyLine(p) PROVE GroundInv'
  BY <1>0, <1>22 DEF EmptyLine, GroundInv
<1>23. ASSUME NEW p \in Processes, IterationsDone(p) PROVE GroundInv'
  BY <1>0, <1>23 DEF IterationsDone, Exit, GroundInv
<1>24. ASSUME NEW p \in Processes, Crash(p) PROVE GroundInv'
  BY <1>0, <1>24 DEF Crash, Exit, Release, NoTxn, GroundInv
<1>25. ASSUME NEW p \in Processes, Signal(p) PROVE GroundInv'
  BY <1>0, <1>25 DEF Signal, GroundInv
<1> QED
  BY <1>1, <1>2, <1>3, <1>4, <1>5, <1>6, <1>7, <1>8, <1>9, <1>10, <1>11, <1>12, <1>13, <1>14, <1>15, <1>16, <1>17, <1>18, <1>19, <1>20, <1>21, <1>22, <1>23, <1>24, <1>25 DEF Next, Work

(* No interleaving persists a session whose loads are refused.             *)
THEOREM SessionsStayLoadable == Spec => []NoSessionBricked
<1>1. TablesAgree /\ GroundInv => NoSessionBricked
  BY DEF TablesAgree, GroundInv, NoSessionBricked, Stored, Assemble, Valid, HasGrounding
<1>2. StoreInv => TypeInv /\ TablesAgree
  BY DEF StoreInv
<1> QED
  BY StoreInit, StoreStep, GroundInit, GroundStep, <1>1, <1>2, PTL DEF Spec

-----------------------------------------------------------------------------
(* A process that is about to reply has committed what it replies to.      *)
ReplyInv ==
  /\ ReplyAfterCommit
  /\ \A p \in Processes : stage[p] = "reply" => memory[p].dialogue \subseteq committed[session[p]]

LEMMA ReplyInit == Init => ReplyInv
  BY DEF Init, ReplyInv, ReplyAfterCommit

LEMMA ReplyStep == TypeInv /\ ReplyInv /\ [Next]_vars => ReplyInv'
<1> SUFFICES ASSUME TypeInv, ReplyInv, [Next]_vars PROVE ReplyInv'
  OBVIOUS
<1> USE DEF tables, lock, client, signals, history, Goto, ReplyAfterCommit
<1>0. /\ memory \in [Processes -> State \cup {NoState}]
      /\ stage \in [Processes -> Stages]
      /\ session \in [Processes -> Sessions]
      /\ committed \in [Sessions -> Part]
      /\ acked \in [Sessions -> Part]
  BY DEF TypeInv, TypeOK
<1>1. CASE UNCHANGED vars
  BY <1>1 DEF vars, ReplyInv
<1>2. ASSUME NEW p \in Processes, NEW c \in Commands, NEW s \in Sessions, Start(p, c, s)
      PROVE  ReplyInv'
  BY <1>0, <1>2 DEF Start, ReplyInv
<1>3. ASSUME NEW p \in Processes, NEW how \in Outcomes, ProcessTurn(p, how)
      PROVE  ReplyInv'
  <2>1. \A q \in Processes : q # p => stage'[q] = stage[q] /\ memory'[q] = memory[q]
    BY <1>0, <1>3 DEF ProcessTurn
  <2>2. stage'[p] = "save_runtime" /\ UNCHANGED <<session, committed, acked>>
    BY <1>0, <1>3 DEF ProcessTurn
  <2> QED BY <2>1, <2>2 DEF ReplyInv
<1>4. ASSUME NEW p \in Processes, LoadGraph(p) PROVE ReplyInv'
  BY <1>0, <1>4 DEF LoadGraph, ReplyInv
<1>5. ASSUME NEW p \in Processes, LoadSemantic(p) PROVE ReplyInv'
  BY <1>0, <1>5 DEF LoadSemantic, ReplyInv
<1>6. ASSUME NEW p \in Processes, LoadRuntime(p) PROVE ReplyInv'
  BY <1>0, <1>6 DEF LoadRuntime, AfterLoad, ReplyInv
<1>7. ASSUME NEW p \in Processes, LoadRejected(p) PROVE ReplyInv'
  BY <1>0, <1>7 DEF LoadRejected, Exit, ReplyInv
<1>8. ASSUME NEW p \in Processes, LoopTop(p) PROVE ReplyInv'
  BY <1>0, <1>8 DEF LoopTop, ReplyInv
<1>9. ASSUME NEW p \in Processes, ShadowTurn(p) PROVE ReplyInv'
  BY <1>0, <1>9 DEF ShadowTurn, Exit, ReplyInv
<1>10. ASSUME NEW p \in Processes, SaveRuntime(p) PROVE ReplyInv'
  BY <1>0, <1>10 DEF SaveRuntime, ReplyInv
<1>11. ASSUME NEW p \in Processes, SaveGraph(p) PROVE ReplyInv'
  BY <1>0, <1>11 DEF SaveGraph, ReplyInv
<1>12. ASSUME NEW p \in Processes, SaveSemantic(p) PROVE ReplyInv'
  BY <1>0, <1>12 DEF SaveSemantic, ReplyInv
<1>13. ASSUME NEW p \in Processes, SaveCommit(p) PROVE ReplyInv'
  BY <1>0, <1>13 DEF SaveCommit, Exit, Release, NoTxn, Publish, ReplyInv
<1>14. ASSUME NEW p \in Processes, BusyTimeout(p) PROVE ReplyInv'
  BY <1>0, <1>14 DEF BusyTimeout, Exit, ReplyInv
<1>15. ASSUME NEW p \in Processes, Reply(p) PROVE ReplyInv'
  BY <1>0, <1>15 DEF Reply, Exit, ReplyInv
<1>16. ASSUME NEW p \in Processes, DeleteGraph(p) PROVE ReplyInv'
  BY <1>0, <1>16 DEF DeleteGraph, ReplyInv
<1>17. ASSUME NEW p \in Processes, DeleteSemantic(p) PROVE ReplyInv'
  BY <1>0, <1>17 DEF DeleteSemantic, ReplyInv
<1>18. ASSUME NEW p \in Processes, DeleteRuntime(p) PROVE ReplyInv'
  BY <1>0, <1>18 DEF DeleteRuntime, ReplyInv
<1>19. ASSUME NEW p \in Processes, DeleteCommit(p) PROVE ReplyInv'
  BY <1>0, <1>19 DEF DeleteCommit, Exit, Release, NoTxn, Publish, ReplyInv
<1>20. ASSUME NEW p \in Processes, Quit(p) PROVE ReplyInv'
  BY <1>0, <1>20 DEF Quit, ReplyInv
<1>21. ASSUME NEW p \in Processes, EndOfInput(p) PROVE ReplyInv'
  BY <1>0, <1>21 DEF EndOfInput, ReplyInv
<1>22. ASSUME NEW p \in Processes, EmptyLine(p) PROVE ReplyInv'
  BY <1>0, <1>22 DEF EmptyLine, ReplyInv
<1>23. ASSUME NEW p \in Processes, IterationsDone(p) PROVE ReplyInv'
  BY <1>0, <1>23 DEF IterationsDone, Exit, ReplyInv
<1>24. ASSUME NEW p \in Processes, Crash(p) PROVE ReplyInv'
  BY <1>0, <1>24 DEF Crash, Exit, Release, NoTxn, ReplyInv
<1>25. ASSUME NEW p \in Processes, Signal(p) PROVE ReplyInv'
  BY <1>0, <1>25 DEF Signal, ReplyInv
<1> QED
  BY <1>1, <1>2, <1>3, <1>4, <1>5, <1>6, <1>7, <1>8, <1>9, <1>10, <1>11, <1>12, <1>13, <1>14, <1>15, <1>16, <1>17, <1>18, <1>19, <1>20, <1>21, <1>22, <1>23, <1>24, <1>25 DEF Next, Work

(* No response is shown for a turn that was not committed first.           *)
THEOREM RepliesFollowCommits == Spec => []ReplyAfterCommit
<1>1. ReplyInv => ReplyAfterCommit
  BY DEF ReplyInv
<1> QED BY TypeInit, TypeStep, ReplyInit, ReplyStep, <1>1, PTL DEF Spec

-----------------------------------------------------------------------------
(* A turn begun after Ctrl+C is the last: from then on SHUTDOWN stays set, *)
(* so the process does not get back to the prompt.                         *)
LateInv ==
  \A p \in Processes :
    /\ late[p] <= 1
    /\ late[p] # 0 => stopping[p]
    /\ stage[p] \in {"idle", "load_graph", "load_semantic", "load_runtime", "prompt"} => late[p] = 0

LEMMA LateInit == Init => LateInv
  BY DEF Init, LateInv

LEMMA LateStep == TypeInv /\ LateInv /\ [Next]_vars => LateInv'
<1> SUFFICES ASSUME TypeInv, LateInv, [Next]_vars PROVE LateInv'
  OBVIOUS
<1> USE DEF tables, lock, client, signals, history, Goto
<1>0. /\ stage \in [Processes -> Stages]
      /\ stopping \in [Processes -> BOOLEAN]
      /\ late \in [Processes -> Nat]
  BY DEF TypeInv, TypeOK
<1>1. CASE UNCHANGED vars
  BY <1>1 DEF vars, LateInv
<1>2. ASSUME NEW p \in Processes, NEW c \in Commands, NEW s \in Sessions, Start(p, c, s)
      PROVE  LateInv'
  BY <1>0, <1>2 DEF Start, LateInv
<1>3. ASSUME NEW p \in Processes, NEW how \in Outcomes, ProcessTurn(p, how)
      PROVE  LateInv'
  BY <1>0, <1>3 DEF ProcessTurn, LateInv
<1>4. ASSUME NEW p \in Processes, LoadGraph(p) PROVE LateInv'
  BY <1>0, <1>4 DEF LoadGraph, LateInv
<1>5. ASSUME NEW p \in Processes, LoadSemantic(p) PROVE LateInv'
  BY <1>0, <1>5 DEF LoadSemantic, LateInv
<1>6. ASSUME NEW p \in Processes, LoadRuntime(p) PROVE LateInv'
  BY <1>0, <1>6 DEF LoadRuntime, AfterLoad, LateInv
<1>7. ASSUME NEW p \in Processes, LoadRejected(p) PROVE LateInv'
  BY <1>0, <1>7 DEF LoadRejected, Exit, LateInv
<1>8. ASSUME NEW p \in Processes, LoopTop(p) PROVE LateInv'
  BY <1>0, <1>8 DEF LoopTop, LateInv
<1>9. ASSUME NEW p \in Processes, ShadowTurn(p) PROVE LateInv'
  BY <1>0, <1>9 DEF ShadowTurn, Exit, LateInv
<1>10. ASSUME NEW p \in Processes, SaveRuntime(p) PROVE LateInv'
  BY <1>0, <1>10 DEF SaveRuntime, LateInv
<1>11. ASSUME NEW p \in Processes, SaveGraph(p) PROVE LateInv'
  BY <1>0, <1>11 DEF SaveGraph, LateInv
<1>12. ASSUME NEW p \in Processes, SaveSemantic(p) PROVE LateInv'
  BY <1>0, <1>12 DEF SaveSemantic, LateInv
<1>13. ASSUME NEW p \in Processes, SaveCommit(p) PROVE LateInv'
  BY <1>0, <1>13 DEF SaveCommit, Exit, Release, NoTxn, Publish, LateInv
<1>14. ASSUME NEW p \in Processes, BusyTimeout(p) PROVE LateInv'
  BY <1>0, <1>14 DEF BusyTimeout, Exit, LateInv
<1>15. ASSUME NEW p \in Processes, Reply(p) PROVE LateInv'
  BY <1>0, <1>15 DEF Reply, Exit, LateInv
<1>16. ASSUME NEW p \in Processes, DeleteGraph(p) PROVE LateInv'
  BY <1>0, <1>16 DEF DeleteGraph, LateInv
<1>17. ASSUME NEW p \in Processes, DeleteSemantic(p) PROVE LateInv'
  BY <1>0, <1>17 DEF DeleteSemantic, LateInv
<1>18. ASSUME NEW p \in Processes, DeleteRuntime(p) PROVE LateInv'
  BY <1>0, <1>18 DEF DeleteRuntime, LateInv
<1>19. ASSUME NEW p \in Processes, DeleteCommit(p) PROVE LateInv'
  BY <1>0, <1>19 DEF DeleteCommit, Exit, Release, NoTxn, Publish, LateInv
<1>20. ASSUME NEW p \in Processes, Quit(p) PROVE LateInv'
  BY <1>0, <1>20 DEF Quit, LateInv
<1>21. ASSUME NEW p \in Processes, EndOfInput(p) PROVE LateInv'
  BY <1>0, <1>21 DEF EndOfInput, LateInv
<1>22. ASSUME NEW p \in Processes, EmptyLine(p) PROVE LateInv'
  BY <1>0, <1>22 DEF EmptyLine, LateInv
<1>23. ASSUME NEW p \in Processes, IterationsDone(p) PROVE LateInv'
  BY <1>0, <1>23 DEF IterationsDone, Exit, LateInv
<1>24. ASSUME NEW p \in Processes, Crash(p) PROVE LateInv'
  BY <1>0, <1>24 DEF Crash, Exit, Release, NoTxn, LateInv
<1>25. ASSUME NEW p \in Processes, Signal(p) PROVE LateInv'
  BY <1>0, <1>25 DEF Signal, LateInv
<1> QED
  BY <1>1, <1>2, <1>3, <1>4, <1>5, <1>6, <1>7, <1>8, <1>9, <1>10, <1>11, <1>12, <1>13, <1>14, <1>15, <1>16, <1>17, <1>18, <1>19, <1>20, <1>21, <1>22, <1>23, <1>24, <1>25 DEF Next, Work

(* After Ctrl+C at most one more turn is begun.                            *)
THEOREM OneLateTurn == Spec => []AtMostOneLateTurn
<1>1. LateInv => AtMostOneLateTurn
  BY DEF LateInv, AtMostOneLateTurn
<1> QED BY TypeInit, TypeStep, LateInit, LateStep, <1>1, PTL DEF Spec

-----------------------------------------------------------------------------
(* The log of every session, told or not.                                  *)
Plain == INSTANCE SessionLog WITH
  Entries <- Turns \cup {LegacyTurn},
  exists <- [s \in Sessions |-> runtime[s] # NoState],
  log <- [s \in Sessions |-> LogOf(s)],
  ever <- committed

(* One process at a time: what it holds in memory is what is stored, or a  *)
(* session that is not stored yet, but for a turn that is being saved.     *)
Alone == \A p, q \in Processes : stage[p] # "idle" /\ stage[q] # "idle" => p = q

Current(p) ==
  \/ runtime[session[p]] = NoState /\ memory[p] = FreshState
  \/ runtime[session[p]] # NoState /\ memory[p] = runtime[session[p]]

NewTurn(p, how) == [by |-> p, n |-> turns[p], how |-> how]

Grown(p) ==
  \/ memory[p].dialogue = LogOf(session[p])
  \/ \E how \in Outcomes :
       /\ memory[p].dialogue = LogOf(session[p]) \cup {NewTurn(p, how)}
       /\ NewTurn(p, how) \notin committed[session[p]]

ViewOf(p) ==
  /\ stage[p] \in {"load_semantic", "load_runtime"} => seen[p].graph = graphs[session[p]]
  /\ stage[p] = "load_runtime" => seen[p].semantic = semantics[session[p]]
  /\ stage[p] \in {"prompt", "ready"} => Current(p)
  /\ stage[p] \in Saving => Grown(p)
  /\ stage[p] = "reply" => runtime[session[p]] # NoState /\ memory[p] = runtime[session[p]]
  /\ stage[p] \in Saving \cup {"prompt", "ready", "reply"} => Coherent(memory[p])

(* A stored session is whole, holds what was answered and nothing that was *)
(* not committed; the numbers of committed turns have been given out.      *)
LogInv(s) ==
  /\ runtime[s] # NoState => Coherent(runtime[s])
  /\ LogOf(s) \subseteq committed[s] /\ acked[s] \subseteq LogOf(s)
  /\ \A t \in committed[s], q \in Processes : t.by = q => t.n <= turns[q]

SerialInv ==
  /\ Alone
  /\ \A p \in Processes : ViewOf(p)
  /\ \A s \in Sessions : LogInv(s)

LEMMA SerialInit == Init => SerialInv
<1> SUFFICES ASSUME Init PROVE SerialInv
  OBVIOUS
<1>1. Alone /\ \A p \in Processes : ViewOf(p)
  BY DEF Init, Alone, ViewOf, Saving
<1>2. ASSUME NEW s \in Sessions PROVE LogInv(s)
  <2>1. Coherent(LegacyState)
    BY DEF Coherent, LegacyState, LegacyTurn
  <2>2. /\ runtime[s] \in {NoState, LegacyState}
        /\ committed[s] = IF runtime[s] = NoState THEN {} ELSE {LegacyTurn}
        /\ acked[s] = committed[s]
    BY DEF Init
  <2>3. LegacyTurn.by \notin Processes /\ LegacyState.dialogue = {LegacyTurn}
    BY SessionStoreAssumption DEF LegacyTurn, LegacyState
  <2> QED BY <2>1, <2>2, <2>3 DEF LogInv, LogOf
<1> QED BY <1>1, <1>2 DEF SerialInv

(* While a process takes a step the others are idle. *)
LEMMA OthersIdle ==
  ASSUME exclusive, TypeOK, Alone, NEW p \in Processes, Step(p)
  PROVE  \A q \in Processes \ {p} : stage'[q] = "idle"
<1> USE DEF TypeOK, Goto, Exit
<1>1. ASSUME NEW c \in Commands, NEW s \in Sessions, Start(p, c, s)
      PROVE  \A q \in Processes \ {p} : stage'[q] = "idle"
  BY <1>1 DEF Start
<1>2. CASE stage[p] # "idle"
  <2>1. \A q \in Processes \ {p} : stage[q] = "idle"
    BY <1>2 DEF Alone
  <2>2. \A q \in Processes \ {p} : stage'[q] = stage[q]
    <3>1. ASSUME NEW how \in Outcomes, ProcessTurn(p, how)
          PROVE  \A q \in Processes \ {p} : stage'[q] = stage[q]
      BY <3>1 DEF ProcessTurn
    <3>2. CASE Quit(p) \/ EndOfInput(p) \/ EmptyLine(p) \/ IterationsDone(p) \/ Crash(p) \/ Signal(p)
      BY <3>2 DEF Quit, EndOfInput, EmptyLine, IterationsDone, Crash, Signal
    <3>3. CASE LoadGraph(p) \/ LoadSemantic(p) \/ LoadRuntime(p) \/ LoadRejected(p) \/ LoopTop(p)
      BY <3>3 DEF LoadGraph, LoadSemantic, LoadRuntime, LoadRejected, LoopTop
    <3>4. CASE ShadowTurn(p) \/ SaveRuntime(p) \/ SaveGraph(p) \/ SaveSemantic(p)
      BY <3>4 DEF ShadowTurn, SaveRuntime, SaveGraph, SaveSemantic
    <3>5. CASE SaveCommit(p) \/ BusyTimeout(p) \/ Reply(p)
      BY <3>5 DEF SaveCommit, BusyTimeout, Reply
    <3>6. CASE DeleteGraph(p) \/ DeleteSemantic(p) \/ DeleteRuntime(p) \/ DeleteCommit(p)
      BY <3>6 DEF DeleteGraph, DeleteSemantic, DeleteRuntime, DeleteCommit
    <3>7. CASE \E c \in Commands, s \in Sessions : Start(p, c, s)
      BY <3>7 DEF Start
    <3> QED BY <3>1, <3>2, <3>3, <3>4, <3>5, <3>6, <3>7 DEF Step, Work
  <2> QED BY <2>1, <2>2
<1>3. CASE stage[p] = "idle"
  BY <1>1, <1>3 DEF Step, Work, ProcessTurn, Quit, EndOfInput, EmptyLine, IterationsDone, Crash,
       Signal, LoadGraph, LoadSemantic, LoadRuntime, LoadRejected, LoopTop, ShadowTurn, SaveRuntime,
       SaveGraph, SaveSemantic, SaveCommit, BusyTimeout, Reply, DeleteGraph, DeleteSemantic,
       DeleteRuntime, DeleteCommit
<1> QED BY <1>2, <1>3

(* What a turn leaves in a whole state is whole. *)
LEMMA AfterTurnCoherent ==
  ASSUME NEW state \in State, Coherent(state), NEW turn, turn.how \in AllOutcomes
  PROVE  /\ Coherent(AfterTurn(state, turn))
         /\ AfterTurn(state, turn).dialogue \in {state.dialogue, state.dialogue \cup {turn}}
<1>1. CASE turn.how = "recovered"
  BY <1>1 DEF AfterTurn
<1>2. CASE turn.how = "blocked"
  <2>1. AfterTurn(state, turn) = [state EXCEPT !.dialogue = state.dialogue \cup {turn}]
    BY <1>2 DEF AfterTurn
  <2> QED BY <1>2, <2>1 DEF State, Coherent
<1>3. CASE turn.how \in {"answered", "grounded"}
  BY <1>3 DEF AfterTurn, Coherent
<1> QED BY <1>1, <1>2, <1>3 DEF AllOutcomes

(* A step that leaves the sessions alone leaves the log alone. *)
LEMMA QuietKeepsLog ==
  ASSUME TypeOK, \A s \in Sessions : LogInv(s),
         UNCHANGED <<runtime, committed, acked>>,
         \A q \in Processes : turns'[q] \in Nat /\ turns[q] <= turns'[q]
  PROVE  (\A s \in Sessions : LogInv(s)') /\ UNCHANGED Plain!vars
<1>1. \A t \in Turns \cup {LegacyTurn} : t.n \in Nat
  BY SessionStoreAssumption DEF Turns, LegacyTurn
<1>2. ASSUME NEW s \in Sessions PROVE LogInv(s)'
  <2>1. \A t \in committed[s] : t.n \in Nat
    BY <1>1 DEF TypeOK, Part
  <2>2. \A q \in Processes : turns[q] \in Nat
    BY SessionStoreAssumption DEF TypeOK
  <2>3. \A t \in committed[s], q \in Processes : t.by = q => t.n <= turns'[q]
    BY <2>1, <2>2 DEF LogInv
  <2> QED BY <2>3 DEF LogInv, LogOf
<1>3. UNCHANGED Plain!vars
  BY DEF Plain!vars, LogOf
<1> QED BY <1>2, <1>3

(* The steps that neither commit nor reply nor run a turn. *)
Quietly(p) ==
  \/ \E c \in Commands, s \in Sessions : Start(p, c, s)
  \/ LoadGraph(p) \/ LoadSemantic(p) \/ LoadRuntime(p) \/ LoadRejected(p)
  \/ LoopTop(p) \/ ShadowTurn(p)
  \/ SaveRuntime(p) \/ SaveGraph(p) \/ SaveSemantic(p)
  \/ BusyTimeout(p)
  \/ DeleteGraph(p) \/ DeleteSemantic(p) \/ DeleteRuntime(p)
  \/ Quit(p) \/ EndOfInput(p) \/ EmptyLine(p) \/ IterationsDone(p)
  \/ Crash(p) \/ Signal(p)

LEMMA QuietlyIsQuiet ==
  ASSUME TypeOK, NEW p \in Processes, Quietly(p)
  PROVE  /\ UNCHANGED <<runtime, graphs, semantics, committed, acked, turns>>
         /\ \A q \in Processes : turns'[q] \in Nat /\ turns[q] <= turns'[q]
<1>1. UNCHANGED <<runtime, graphs, semantics, committed, acked, turns>>
  BY DEF Quietly, tables, client, history, Start, LoadGraph, LoadSemantic, LoadRuntime,
         LoadRejected, LoopTop, ShadowTurn, SaveRuntime, SaveGraph, SaveSemantic, BusyTimeout,
         DeleteGraph, DeleteSemantic, DeleteRuntime, Quit, EndOfInput, EmptyLine, IterationsDone,
         Crash, Signal
<1> QED BY <1>1, SessionStoreAssumption DEF TypeOK

(* A load that nobody interferes with finds what is stored. *)
LEMMA LoadIsWhole ==
  ASSUME TypeOK, TablesAgree, NEW p \in Processes, ViewOf(p), LogInv(session[p]),
         stage[p] = "load_runtime"
  PROVE  /\ Coherent(Loaded(p))
         /\ \/ runtime[session[p]] = NoState /\ Loaded(p) = FreshState
            \/ runtime[session[p]] # NoState /\ Loaded(p) = runtime[session[p]]
<1> DEFINE s == session[p]
<1>1. s \in Sessions /\ runtime[s] \in State \cup {NoState}
      /\ seen[p].graph = graphs[s] /\ seen[p].semantic = semantics[s]
  BY DEF TypeOK, ViewOf
<1>2. Coherent(FreshState)
  BY DEF Coherent, FreshState
<1>3. CASE runtime[s] = NoState
  BY <1>2, <1>3 DEF Loaded
<1>4. CASE runtime[s] # NoState
  <2>1. runtime[s] \in State /\ Coherent(runtime[s]) /\ Loaded(p) = Assemble(runtime[s], seen[p])
    BY <1>1, <1>4 DEF LogInv, Loaded
  <2>2. Assemble(runtime[s], seen[p]) = runtime[s]
    BY <1>1, <2>1 DEF TablesAgree, Assemble, State
  <2> QED BY <1>4, <2>1, <2>2
<1> QED BY <1>3, <1>4

LEMMA QuietlyKeepsView ==
  ASSUME exclusive, StoreInv, SerialInv, NEW p \in Processes, Quietly(p)
  PROVE  ViewOf(p)'
<1> USE DEF tables, lock, client, signals, history, Goto, Saving
<1>0. /\ TypeOK /\ TablesAgree /\ ViewOf(p) /\ session[p] \in Sessions /\ LogInv(session[p])
      /\ stage \in [Processes -> Stages] /\ memory \in [Processes -> State \cup {NoState}]
      /\ session \in [Processes -> Sessions]
      /\ seen \in [Processes -> [graph : Part \cup {NoRow}, semantic : Part \cup {NoRow}]]
  BY DEF StoreInv, TypeInv, TypeOK, SerialInv
<1>1. ASSUME NEW c \in Commands, NEW s \in Sessions, Start(p, c, s) PROVE ViewOf(p)'
  BY <1>0, <1>1 DEF Start, ViewOf
<1>2. CASE LoadGraph(p)
  BY <1>0, <1>2 DEF LoadGraph, ViewOf
<1>3. CASE LoadSemantic(p)
  BY <1>0, <1>3 DEF LoadSemantic, ViewOf
<1>4. CASE LoadRuntime(p)
  <2>1. /\ stage'[p] \in {"ready", "prompt"} /\ memory'[p] = Loaded(p)
        /\ UNCHANGED <<runtime, session>> /\ stage[p] = "load_runtime"
    BY <1>0, <1>4 DEF LoadRuntime, AfterLoad
  <2>2. Coherent(Loaded(p))
        /\ \/ runtime[session[p]] = NoState /\ Loaded(p) = FreshState
           \/ runtime[session[p]] # NoState /\ Loaded(p) = runtime[session[p]]
    BY <1>0, <2>1, LoadIsWhole
  <2> QED BY <2>1, <2>2 DEF ViewOf, Current, Coherent
<1>5. CASE LoadRejected(p) \/ ShadowTurn(p) \/ BusyTimeout(p) \/ IterationsDone(p) \/ Crash(p)
  <2>1. stage'[p] = "idle"
    BY <1>0, <1>5 DEF LoadRejected, ShadowTurn, BusyTimeout, IterationsDone, Crash, Exit
  <2> QED BY <2>1 DEF ViewOf
<1>6. ASSUME stage'[p] \in Saving \cup {"prompt", "ready"}, stage[p] \in {"prompt", "ready"},
             UNCHANGED <<runtime, session, memory, committed>>
      PROVE  ViewOf(p)'
  <2>1. Current(p) /\ Coherent(memory[p])
    BY <1>0, <1>6 DEF ViewOf
  <2>2. memory[p].dialogue = LogOf(session[p])
    BY <2>1 DEF Current, FreshState, LogOf
  <2> QED BY <1>6, <2>1, <2>2 DEF ViewOf, Current, Grown, LogOf, Coherent
<1>7. CASE LoopTop(p) \/ Quit(p) \/ EndOfInput(p) \/ EmptyLine(p)
  BY <1>0, <1>6, <1>7 DEF LoopTop, Quit, EndOfInput, EmptyLine
<1>8. ASSUME stage'[p] \in Saving, stage[p] \in Saving,
             UNCHANGED <<runtime, session, memory, committed, turns>>
      PROVE  ViewOf(p)'
  <2>1. Grown(p) /\ Coherent(memory[p])
    BY <1>0, <1>8 DEF ViewOf
  <2> QED BY <1>8, <2>1 DEF ViewOf, Grown, NewTurn, LogOf, Coherent
<1>9. CASE SaveRuntime(p) \/ SaveGraph(p) \/ SaveSemantic(p)
  BY <1>0, <1>8, <1>9 DEF SaveRuntime, SaveGraph, SaveSemantic
<1>10. CASE DeleteGraph(p) \/ DeleteSemantic(p) \/ DeleteRuntime(p)
  BY <1>0, <1>10 DEF DeleteGraph, DeleteSemantic, DeleteRuntime, ViewOf
<1>11. CASE Signal(p)
  BY <1>0, <1>11 DEF Signal, ViewOf, Current, Grown, NewTurn, LogOf, Coherent
<1> QED BY <1>1, <1>2, <1>3, <1>4, <1>5, <1>7, <1>9, <1>10, <1>11 DEF Quietly

(* A turn is new: its number has not been given out before. *)
LEMMA TurnKeepsSerial ==
  ASSUME exclusive, StoreInv, SerialInv, NEW p \in Processes, NEW how \in Outcomes,
         ProcessTurn(p, how)
  PROVE  ViewOf(p)' /\ (\A s \in Sessions : LogInv(s)') /\ UNCHANGED Plain!vars
<1> DEFINE turn == [by |-> p, n |-> turns[p] + 1, how |-> how]
<1>0. /\ TypeOK /\ HasState /\ ViewOf(p) /\ session[p] \in Sessions /\ LogInv(session[p])
      /\ stage \in [Processes -> Stages] /\ turns \in [Processes -> 0 .. MaxTurns]
      /\ memory \in [Processes -> State \cup {NoState}] /\ MaxTurns \in Nat
      /\ \A s \in Sessions : LogInv(s)
  BY SessionStoreAssumption DEF StoreInv, TypeInv, TypeOK, SerialInv
<1>1. /\ stage[p] = "prompt" /\ stage'[p] = "save_runtime" /\ turns'[p] = turns[p] + 1
      /\ memory'[p] = AfterTurn(memory[p], turn)
      /\ \A q \in Processes : turns'[q] \in Nat /\ turns[q] <= turns'[q]
      /\ UNCHANGED <<runtime, session, committed, acked>>
  BY <1>0 DEF ProcessTurn, Goto, tables, history
<1>2. (\A s \in Sessions : LogInv(s)') /\ UNCHANGED Plain!vars
  BY <1>0, <1>1, QuietKeepsLog
<1>3. memory[p] \in State /\ Current(p) /\ Coherent(memory[p])
  BY <1>0, <1>1 DEF HasState, ViewOf
<1>4. memory[p].dialogue = LogOf(session[p])
  BY <1>3 DEF Current, FreshState, LogOf
<1>5. turn.how \in AllOutcomes /\ turn.by = p /\ turn.n = turns[p] + 1
  BY SessionStoreAssumption
<1>6. turn \notin committed[session[p]]
  <2>1. turns[p] \in Nat
    BY <1>0
  <2> QED BY <1>0, <1>5, <2>1 DEF LogInv
<1>7. turn = NewTurn(p, how)'
  BY <1>1 DEF NewTurn
<1> HIDE DEF turn
<1>8. /\ Coherent(memory'[p])
      /\ memory'[p].dialogue \in {memory[p].dialogue, memory[p].dialogue \cup {turn}}
  BY <1>1, <1>3, <1>5, AfterTurnCoherent
<1>9. Grown(p)'
  <2>1. LogOf(session[p])' = LogOf(session[p]) /\ committed'[session'[p]] = committed[session[p]]
    BY <1>1 DEF LogOf
  <2>2. CASE memory'[p].dialogue = memory[p].dialogue
    BY <1>4, <2>1, <2>2 DEF Grown
  <2>3. CASE memory'[p].dialogue = memory[p].dialogue \cup {turn}
    <3>1. /\ memory'[p].dialogue = LogOf(session[p])' \cup {NewTurn(p, how)'}
          /\ NewTurn(p, how)' \notin committed'[session'[p]]
      BY <1>4, <1>6, <1>7, <2>1, <2>3
    <3> QED BY <3>1 DEF Grown
  <2> QED BY <1>8, <2>2, <2>3
<1>10. ViewOf(p)'
  BY <1>1, <1>8, <1>9 DEF ViewOf, Saving, Coherent
<1> QED BY <1>2, <1>10

(* A commit adds the turn to the log, or makes the session exist. *)
LEMMA CommitKeepsSerial ==
  ASSUME exclusive, StoreInv, SerialInv, NEW p \in Processes, SaveCommit(p)
  PROVE  ViewOf(p)' /\ (\A s \in Sessions : LogInv(s)') /\ [Plain!Next]_Plain!vars
<1>00. PICK s \in Sessions : s = session[p]
  BY DEF StoreInv, TypeInv, TypeOK
<1>0. /\ TypeOK /\ HasState /\ TxnInv /\ ViewOf(p) /\ s = session[p] /\ LogInv(s)
      /\ stage \in [Processes -> Stages] /\ turns \in [Processes -> 0 .. MaxTurns]
      /\ memory \in [Processes -> State \cup {NoState}] /\ MaxTurns \in Nat
      /\ runtime \in [Sessions -> State \cup {NoState}] /\ committed \in [Sessions -> Part]
      /\ \A r \in Sessions : LogInv(r)
  BY <1>00, SessionStoreAssumption DEF StoreInv, TypeInv, TypeOK, SerialInv
<1>1. stage[p] = "save_commit" /\ UNCHANGED <<session, turns, acked>>
  BY DEF SaveCommit, client
<1>2. memory[p] \in State /\ memory[p] # NoState /\ txn.runtime = memory[p]
      /\ Grown(p) /\ Coherent(memory[p])
  BY <1>0, <1>1, AbsentRow DEF HasState, TxnInv, ViewOf, Saving
<1>11. \/ memory[p].dialogue = LogOf(s)
       \/ \E how \in Outcomes : /\ memory[p].dialogue = LogOf(s) \cup {NewTurn(p, how)}
                               /\ NewTurn(p, how) \notin committed[s]
  BY <1>0, <1>2 DEF Grown, LogOf
<1>3. /\ runtime' = [runtime EXCEPT ![s] = memory[p]]
      /\ committed' = [committed EXCEPT ![s] = committed[s] \cup memory[p].dialogue]
  BY <1>0, <1>2 DEF SaveCommit, Publish
<1>4. \/ stage'[p] = "idle"
      \/ stage'[p] \in {"reply", "save_runtime"} /\ UNCHANGED memory
  BY <1>0 DEF SaveCommit, Exit, Goto
<1>5. /\ LogOf(s)' = memory[p].dialogue /\ runtime'[s] # NoState /\ runtime'[s] = memory[p]
      /\ committed'[s] = committed[s] \cup memory[p].dialogue
      /\ \A r \in Sessions \ {s} : /\ runtime'[r] = runtime[r] /\ committed'[r] = committed[r]
                                   /\ LogOf(r)' = LogOf(r)
  BY <1>0, <1>1, <1>2, <1>3 DEF LogOf
<1>6. ViewOf(p)'
  <2>1. memory'[p].dialogue = LogOf(session[p])' \/ stage'[p] # "save_runtime"
    BY <1>0, <1>1, <1>4, <1>5 DEF LogOf
  <2>2. runtime'[session'[p]] # NoState /\ runtime'[session'[p]] = memory[p]
    BY <1>0, <1>1, <1>5
  <2> QED BY <1>1, <1>2, <1>4, <2>1, <2>2 DEF ViewOf, Grown, Saving, Coherent
<1>7. LogOf(s) \subseteq memory[p].dialogue
  BY <1>11
<1>8. \A t \in memory[p].dialogue, q \in Processes : t.by = q => t.n <= turns[q]
  <2>1. CASE memory[p].dialogue = LogOf(s)
    BY <1>0, <2>1 DEF LogInv
  <2>2. ASSUME NEW how \in Outcomes, memory[p].dialogue = LogOf(s) \cup {NewTurn(p, how)}
        PROVE  \A t \in memory[p].dialogue, q \in Processes : t.by = q => t.n <= turns[q]
    <3>1. NewTurn(p, how).by = p /\ NewTurn(p, how).n = turns[p] /\ turns[p] \in Nat
      BY <1>0 DEF NewTurn
    <3> QED BY <1>0, <2>2, <3>1 DEF LogInv
  <2> QED BY <1>11, <2>1, <2>2
<1>9. ASSUME NEW r \in Sessions PROVE LogInv(r)'
  <2>1. CASE r = s
    <3>1. Coherent(runtime'[s])
      BY <1>2, <1>5
    <3>2. LogOf(s)' \subseteq committed'[s] /\ acked'[s] \subseteq LogOf(s)'
      BY <1>0, <1>1, <1>5, <1>7 DEF LogInv
    <3>3. \A t \in committed'[s], q \in Processes : t.by = q => t.n <= turns'[q]
      BY <1>0, <1>1, <1>5, <1>8 DEF LogInv
    <3> QED BY <2>1, <3>1, <3>2, <3>3 DEF LogInv, Coherent
  <2>2. CASE r # s
    BY <1>0, <1>1, <1>5, <2>2 DEF LogInv, Coherent
  <2> QED BY <2>1, <2>2
<1>10. [Plain!Next]_Plain!vars
  <2> DEFINE E == [r \in Sessions |-> runtime[r] # NoState]
             L == [r \in Sessions |-> LogOf(r)]
  <2>1. /\ [r \in Sessions |-> runtime'[r] # NoState] = [E EXCEPT ![s] = TRUE]
        /\ \A r \in Sessions : E[r] \in BOOLEAN
    BY <1>5
  <2>2. CASE memory[p].dialogue = LogOf(s)
    <3>1. committed' = committed
      BY <1>0, <1>3, <2>2 DEF LogInv
    <3>2. [r \in Sessions |-> LogOf(r)'] = L
      BY <1>5, <2>2
    <3>3. CASE runtime[s] # NoState
      <4>1. [r \in Sessions |-> runtime'[r] # NoState] = E
        BY <1>5, <3>3
      <4> QED BY <3>1, <3>2, <4>1 DEF Plain!vars, LogOf
    <3>4. CASE runtime[s] = NoState
      <4>1. Plain!Open(s)
        BY <1>0, <2>1, <3>1, <3>2, <3>4 DEF Plain!Open, LogOf
      <4> QED BY <1>0, <4>1 DEF Plain!Next
    <3> QED BY <3>3, <3>4
  <2>3. ASSUME NEW how \in Outcomes, memory[p].dialogue = LogOf(s) \cup {NewTurn(p, how)},
               NewTurn(p, how) \notin committed[s]
        PROVE  Plain!Next
    <3>1. NewTurn(p, how) \in Turns \cup {LegacyTurn}
      BY <1>2, <2>3 DEF State, Part
    <3>6. PICK t \in Turns \cup {LegacyTurn} : t = NewTurn(p, how)
      BY <3>1
    <3>2. committed' = [committed EXCEPT ![s] = committed[s] \cup {t}]
      BY <1>0, <1>3, <2>3, <3>6 DEF LogInv
    <3>3. [r \in Sessions |-> LogOf(r)'] = [L EXCEPT ![s] = L[s] \cup {t}]
      BY <1>0, <1>5, <2>3, <3>6
    <3>4. t \notin committed[s]
      BY <2>3, <3>6
    <3>5. Plain!Accept(s, t)
      BY <2>1, <3>2, <3>3, <3>4 DEF Plain!Accept, LogOf
    <3> QED BY <1>0, <3>5 DEF Plain!Next
  <2> QED BY <1>11, <2>2, <2>3
<1> QED BY <1>6, <1>9, <1>10

(* What is answered has been committed, and stays until the session goes. *)
LEMMA ReplyKeepsSerial ==
  ASSUME exclusive, StoreInv, SerialInv, NEW p \in Processes, Reply(p)
  PROVE  ViewOf(p)' /\ (\A s \in Sessions : LogInv(s)') /\ UNCHANGED Plain!vars
<1>00. PICK s \in Sessions : s = session[p]
  BY DEF StoreInv, TypeInv, TypeOK
<1>0. /\ TypeOK /\ ViewOf(p) /\ s = session[p]
      /\ stage \in [Processes -> Stages] /\ acked \in [Sessions -> Part]
      /\ \A r \in Sessions : LogInv(r)
  BY <1>00 DEF StoreInv, TypeInv, TypeOK, SerialInv
<1>1. /\ stage[p] = "reply" /\ UNCHANGED <<runtime, graphs, semantics, session, turns, committed>>
      /\ acked' = [acked EXCEPT ![s] =
                     acked[s] \cup {t \in memory[p].dialogue : t.by = p /\ t.n = turns[p]}]
      /\ \/ stage'[p] = "idle"
         \/ stage'[p] = "ready" /\ UNCHANGED memory
  BY <1>0 DEF Reply, Exit, Goto, tables, client
<1>2. /\ runtime[s] # NoState /\ memory[p] = runtime[s] /\ Coherent(memory[p])
      /\ LogOf(s) = memory[p].dialogue
  BY <1>0, <1>1 DEF ViewOf, LogOf
<1>3. ViewOf(p)'
  BY <1>0, <1>1, <1>2 DEF ViewOf, Saving, Current, Coherent
<1>4. ASSUME NEW r \in Sessions PROVE LogInv(r)'
  <2>1. acked'[r] \subseteq LogOf(r)
    BY <1>0, <1>1, <1>2 DEF LogInv
  <2> QED BY <1>0, <1>1, <2>1 DEF LogInv, LogOf, Coherent
<1>5. UNCHANGED Plain!vars
  BY <1>1 DEF Plain!vars, LogOf
<1> QED BY <1>3, <1>4, <1>5

(* Deleting a session forgets its log. *)
LEMMA DeleteKeepsSerial ==
  ASSUME exclusive, StoreInv, SerialInv, NEW p \in Processes, DeleteCommit(p)
  PROVE  ViewOf(p)' /\ (\A s \in Sessions : LogInv(s)') /\ [Plain!Next]_Plain!vars
<1>00. PICK s \in Sessions : s = session[p]
  BY DEF StoreInv, TypeInv, TypeOK
<1>0. /\ TypeOK /\ s = session[p] /\ stage \in [Processes -> Stages]
      /\ runtime \in [Sessions -> State \cup {NoState}] /\ acked \in [Sessions -> Part]
      /\ \A r \in Sessions : LogInv(r)
  BY <1>00 DEF StoreInv, TypeInv, TypeOK, SerialInv
<1>01. txn.runtime = NoState
  BY DEF StoreInv, TxnInv, DeleteCommit
<1>1. /\ runtime' = [runtime EXCEPT ![s] = NoState] /\ acked' = [acked EXCEPT ![s] = {}]
      /\ stage'[p] = "idle" /\ UNCHANGED <<turns, committed>>
  BY <1>0, <1>01 DEF DeleteCommit, Publish, Exit, Goto, client
<1>2. ViewOf(p)'
  BY <1>1 DEF ViewOf, Saving
<1>3. /\ LogOf(s)' = {} /\ runtime'[s] = NoState /\ acked'[s] = {}
      /\ \A r \in Sessions \ {s} : /\ runtime'[r] = runtime[r] /\ acked'[r] = acked[r]
                                   /\ LogOf(r)' = LogOf(r)
  BY <1>0, <1>1 DEF LogOf
<1>4. ASSUME NEW r \in Sessions PROVE LogInv(r)'
  <2>1. CASE r = s
    BY <1>0, <1>1, <1>3, <2>1 DEF LogInv
  <2>2. CASE r # s
    BY <1>0, <1>1, <1>3, <2>2 DEF LogInv, Coherent
  <2> QED BY <2>1, <2>2
<1>5. [Plain!Next]_Plain!vars
  <2> DEFINE E == [r \in Sessions |-> runtime[r] # NoState]
             L == [r \in Sessions |-> LogOf(r)]
  <2>1. CASE runtime[s] # NoState
    <3>1. /\ [r \in Sessions |-> runtime'[r] # NoState] = [E EXCEPT ![s] = FALSE]
          /\ [r \in Sessions |-> LogOf(r)'] = [L EXCEPT ![s] = {}]
      BY <1>3
    <3>2. Plain!Forget(s)
      BY <1>0, <1>1, <2>1, <3>1 DEF Plain!Forget, LogOf
    <3> QED BY <1>0, <3>2 DEF Plain!Next
  <2>2. CASE runtime[s] = NoState
    <3>1. runtime' = runtime
      BY <1>0, <1>1, <2>2
    <3> QED BY <1>1, <3>1 DEF Plain!vars, LogOf
  <2> QED BY <2>1, <2>2
<1> QED BY <1>2, <1>4, <1>5

(* One process at a time, a step keeps the log or adds one turn to it.     *)
LEMMA SerialStep ==
  ASSUME exclusive, StoreInv, StoreInv', SerialInv, [Next]_vars
  PROVE  SerialInv' /\ [Plain!Next]_Plain!vars
<1>0. /\ TypeOK /\ TypeOK' /\ Alone
      /\ \A q \in Processes : ViewOf(q)
      /\ \A s \in Sessions : LogInv(s)
  BY DEF StoreInv, TypeInv, SerialInv
<1>1. CASE UNCHANGED vars
  <2> USE <1>1 DEF vars, tables, lock, client, signals, history
  <2>1. Alone' /\ UNCHANGED Plain!vars
    BY <1>0 DEF Alone, Plain!vars, LogOf
  <2>2. \A q \in Processes : ViewOf(q)'
    BY <1>0 DEF ViewOf, Current, Grown, NewTurn, LogOf, Coherent, Saving
  <2>3. \A s \in Sessions : LogInv(s)'
    BY <1>0 DEF LogInv, LogOf, Coherent
  <2> QED BY <2>1, <2>2, <2>3 DEF SerialInv
<1>2. ASSUME NEW p \in Processes, Step(p) PROVE SerialInv' /\ [Plain!Next]_Plain!vars
  <2>1. \A q \in Processes \ {p} : stage'[q] = "idle"
    BY <1>0, <1>2, OthersIdle
  <2>2. Alone'
    BY <2>1 DEF Alone
  <2>3. ASSUME NEW q \in Processes \ {p} PROVE ViewOf(q)'
    BY <2>1 DEF ViewOf, Saving
  <2>4. ViewOf(p)' /\ (\A s \in Sessions : LogInv(s)') /\ [Plain!Next]_Plain!vars
    <3>1. CASE Quietly(p)
      <4>1. ViewOf(p)'
        BY <3>1, QuietlyKeepsView
      <4>2. /\ UNCHANGED <<runtime, committed, acked>>
            /\ \A q \in Processes : turns'[q] \in Nat /\ turns[q] <= turns'[q]
        BY <1>0, <3>1, QuietlyIsQuiet
      <4>3. (\A s \in Sessions : LogInv(s)') /\ UNCHANGED Plain!vars
        BY <1>0, <4>2, QuietKeepsLog
      <4> QED BY <4>1, <4>3
    <3>2. ASSUME NEW how \in Outcomes, ProcessTurn(p, how)
          PROVE  ViewOf(p)' /\ (\A s \in Sessions : LogInv(s)') /\ UNCHANGED Plain!vars
      BY <3>2, TurnKeepsSerial
    <3>3. CASE SaveCommit(p)
      BY <3>3, CommitKeepsSerial
    <3>4. CASE Reply(p)
      BY <3>4, ReplyKeepsSerial
    <3>5. CASE DeleteCommit(p)
      BY <3>5, DeleteKeepsSerial
    <3> QED BY <1>2, <3>1, <3>2, <3>3, <3>4, <3>5 DEF Step, Work, Quietly
  <2> QED BY <2>2, <2>3, <2>4 DEF SerialInv
<1> QED BY <1>1, <1>2, NextIsStep

(* One process at a time, every stored session is the result of whole      *)
(* turns.                                                                  *)
THEOREM SessionsAreWhole == Spec => []WholeWhenAlone
<1>1. Init => StoreInv /\ (exclusive => SerialInv)
  BY StoreInit, SerialInit
<1>2. StoreInv /\ (exclusive => SerialInv) /\ [Next]_vars
        => (StoreInv /\ (exclusive => SerialInv))'
  BY StoreStep, SerialStep DEF Next, vars
<1>3. StoreInv /\ (exclusive => SerialInv) => WholeWhenAlone
  <2> SUFFICES ASSUME StoreInv, SerialInv, NEW s \in Sessions, runtime[s] # NoState
               PROVE  Coherent(Stored(s))
    BY DEF WholeWhenAlone, NeverHalfPersisted
  <2>1. runtime[s] \in State /\ Coherent(runtime[s])
    BY DEF StoreInv, TypeInv, TypeOK, SerialInv, LogInv
  <2>2. Stored(s) = runtime[s]
    BY <2>1 DEF StoreInv, TablesAgree, Stored, Assemble, State
  <2> QED BY <2>1, <2>2
<1> QED BY <1>1, <1>2, <1>3, PTL DEF Spec

(* One process at a time, an answered turn stays in its session until the  *)
(* session is deleted.                                                     *)
THEOREM AnswersStay == Spec => []AnswersKeptWhenAlone
<1>1. Init => StoreInv /\ (exclusive => SerialInv)
  BY StoreInit, SerialInit
<1>2. StoreInv /\ (exclusive => SerialInv) /\ [Next]_vars
        => (StoreInv /\ (exclusive => SerialInv))'
  BY StoreStep, SerialStep DEF Next, vars
<1>3. StoreInv /\ (exclusive => SerialInv) => AnswersKeptWhenAlone
  BY DEF SerialInv, LogInv, LogOf, AnswersKeptWhenAlone, AckedTurnsSurvive
<1> QED BY <1>1, <1>2, <1>3, PTL DEF Spec

(* One process at a time, the store implements a log of whole turns: every *)
(* step of the processes accepts a turn, opens or forgets a session, or    *)
(* leaves the log alone.                                                   *)
THEOREM SessionsAreLogs == Spec => ImplementsLogWhenAlone
<1> DEFINE E == [s \in Sessions |-> runtime[s] # NoState]
           L == [s \in Sessions |-> LogOf(s)]
<1>1. Init => StoreInv /\ (exclusive => SerialInv)
  BY StoreInit, SerialInit
<1>2. StoreInv /\ (exclusive => SerialInv) /\ [Next]_vars
        => (StoreInv /\ (exclusive => SerialInv))'
  BY StoreStep, SerialStep DEF Next, vars
<1>3. StoreInv /\ StoreInv' /\ (exclusive => SerialInv) /\ [Next]_vars => [Log!Next]_Log!vars
  <2> SUFFICES ASSUME StoreInv, StoreInv', exclusive => SerialInv, [Next]_vars
               PROVE  [Log!Next]_Log!vars
    OBVIOUS
  <2>0. exclusive' = exclusive
    BY DEF Next, vars
  <2>1. CASE ~ exclusive
    <3>1. /\ Told(E, FALSE)' = Told(E, FALSE) /\ Told(L, {})' = Told(L, {})
          /\ Told(committed, {})' = Told(committed, {})
      BY <2>0, <2>1 DEF Told
    <3> QED BY <3>1 DEF Log!vars
  <2>2. CASE exclusive
    <3>1. [Plain!Next]_Plain!vars
      BY <2>2, SerialStep
    <3>2. /\ Told(E, FALSE) = E /\ Told(L, {}) = L /\ Told(committed, {}) = committed
      BY <2>2 DEF Told, StoreInv, TypeInv, TypeOK
    <3>3. /\ Told(E, FALSE)' = E' /\ Told(L, {})' = L' /\ Told(committed, {})' = committed'
      BY <2>0, <2>2 DEF Told, StoreInv, TypeInv, TypeOK
    <3>4. ASSUME NEW s \in Sessions, NEW t \in Turns \cup {LegacyTurn}
          PROVE  /\ Plain!Open(s) => Log!Open(s)
                 /\ Plain!Forget(s) => Log!Forget(s)
                 /\ Plain!Accept(s, t) => Log!Accept(s, t)
      <4>1. Plain!Open(s) => Log!Open(s)
        BY <3>2, <3>3, Zenon DEF Plain!Open, Log!Open
      <4>2. Plain!Forget(s) => Log!Forget(s)
        BY <3>2, <3>3, Zenon DEF Plain!Forget, Log!Forget
      <4>3. Plain!Accept(s, t) => Log!Accept(s, t)
        BY <3>2, <3>3, Zenon DEF Plain!Accept, Log!Accept
      <4> QED BY <4>1, <4>2, <4>3
    <3>5. UNCHANGED Plain!vars => UNCHANGED Log!vars
      BY <3>2, <3>3, Zenon DEF Plain!vars, Log!vars
    <3>6. Plain!Next => \E s \in Sessions : Log!Open(s) \/ Log!Forget(s)
                          \/ \E t \in Turns \cup {LegacyTurn} : Log!Accept(s, t)
      BY <3>4, Zenon DEF Plain!Next
    <3> QED BY <3>1, <3>5, <3>6 DEF Log!Next
  <2> QED BY <2>1, <2>2
<1>4. Init => Log!Init
  <2> SUFFICES ASSUME Init PROVE Log!Init
    OBVIOUS
  <2>0. ASSUME NEW s \in Sessions
        PROVE  LogOf(s) = IF runtime[s] = NoState THEN {} ELSE {LegacyTurn}
    <3>1. runtime[s] \in {NoState, LegacyState}
      BY DEF Init
    <3>2. LegacyState.dialogue = {LegacyTurn}
      BY DEF LegacyState
    <3> QED BY <3>1, <3>2 DEF LogOf
  <2>1. /\ \A s \in Sessions : LogOf(s) \subseteq Turns \cup {LegacyTurn}
        /\ committed = [s \in Sessions |-> LogOf(s)]
    BY <2>0 DEF Init
  <2>2. /\ Told(E, FALSE) \in [Sessions -> BOOLEAN]
        /\ Told(L, {}) \in [Sessions -> SUBSET (Turns \cup {LegacyTurn})]
        /\ Told(committed, {}) = Told(L, {})
        /\ \A s \in Sessions : ~ Told(E, FALSE)[s] => Told(L, {})[s] = {}
    BY <2>0, <2>1 DEF Told
  <2> QED BY <2>2 DEF Log!Init
<1> QED BY <1>1, <1>2, <1>3, <1>4, PTL DEF Spec, ImplementsLogWhenAlone, Log!Spec
============================================================================
