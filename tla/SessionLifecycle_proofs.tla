---------------------- MODULE SessionLifecycle_proofs ----------------------
(***************************************************************************)
(* Proofs about SessionLifecycle for every number of threads, sessions,    *)
(* names, workspaces, crashes and every set of faults.                     *)
(*                                                                         *)
(* TypeOK is inductive by itself.  The rest hangs on IdInv: an id is given *)
(* to one creator, and nothing is known about it before that creator       *)
(* inserts its row.                                                        *)
(***************************************************************************)
EXTENDS SessionLifecycle, TLAPS

-----------------------------------------------------------------------------
(* What the helpers do to the types of the state they change. *)

LEMMA GotoType ==
  ASSUME TypeOK, NEW t \in Threads, NEW pc \in HandlerSteps, Goto(t, pc)
  PROVE  h' \in [Threads -> Handlers]
BY DEF TypeOK, Goto, Handlers

LEMMA FinishType ==
  ASSUME TypeOK, NEW t \in Threads, Finish(t)
  PROVE  h' \in [Threads -> Handlers]
BY SizesAssumption DEF TypeOK, Finish, Handlers, Idle, HandlerSteps, Ids

LEMMA BeginType ==
  ASSUME TypeOK, NEW t \in Threads, NEW pc \in HandlerSteps, NEW i \in Ids,
         NEW n \in Names \cup {NoName}, NEW w \in Workspaces \cup {NoWorkspace},
         Begin(t, pc, i, n, w)
  PROVE  h' \in [Threads -> Handlers]
BY DEF TypeOK, Begin, Handlers

LEMMA SetStateType ==
  ASSUME TypeOK, NEW i \in Ids, NEW s \in RowStates, SetState(i, s)
  PROVE  rows' \in [Ids -> Rows]
BY DEF TypeOK, SetState, Rows

LEMMA InsertRowType ==
  ASSUME TypeOK, NEW i \in Ids, NEW n \in Names \cup {NoName},
         NEW w \in Workspaces \cup {NoWorkspace}, InsertRow(i, n, w)
  PROVE  rows' \in [Ids -> Rows]
BY DEF TypeOK, InsertRow, Rows, RowStates

LEMMA RemoveRowType ==
  ASSUME TypeOK, NEW i \in Ids, RemoveRow(i)
  PROVE  rows' \in [Ids -> Rows]
BY DEF TypeOK, RemoveRow, Rows, NoRow, RowStates

LEMMA OpenWindowType ==
  ASSUME TypeOK, NEW i \in Ids, OpenWindow(i)
  PROVE  /\ windows' \in [Ids -> 0 .. MaxWindows]
         /\ fresh' \subseteq Ids
BY SizesAssumption DEF TypeOK, OpenWindow

LEMMA KillWindowType ==
  ASSUME TypeOK, NEW i \in Ids, KillWindow(i)
  PROVE  windows' \in [Ids -> 0 .. MaxWindows]
BY SizesAssumption DEF TypeOK, KillWindow

LEMMA HandlerFields ==
  ASSUME TypeOK, NEW t \in Threads
  PROVE  /\ h[t].pc \in HandlerSteps
         /\ h[t].id \in Ids
         /\ h[t].name \in Names \cup {NoName}
         /\ h[t].ws \in Workspaces \cup {NoWorkspace}
BY DEF TypeOK, Handlers

-----------------------------------------------------------------------------
(* TypeOK is inductive. *)

LEMMA TypeInit == Init => TypeOK
BY SizesAssumption
   DEF Init, TypeOK, Rows, NoRow, RowStates, Handlers, Idle, HandlerSteps, Ids,
       PollIdle, Unknown

LEMMA TypeCreate ==
  ASSUME TypeOK, NEW t \in Threads, Create(t)
  PROVE  TypeOK'
<1> USE DEF Others
<1>h. /\ h[t].id \in Ids
      /\ h[t].name \in Names \cup {NoName}
      /\ h[t].ws \in Workspaces \cup {NoWorkspace}
  BY HandlerFields
<1>p. {"insert", "starting", "workspace", "window", "terminal", "running",
       "undo_kill", "drop_dir", "rollback_terminal", "rollback_row"}
        \subseteq HandlerSteps
  BY DEF HandlerSteps, CreateSteps
<1>s. {"creating", "starting", "running", "exited", "deleted"} \subseteq RowStates
  BY DEF RowStates
<1>1. CASE CreateBegin(t)
  <2>1. nextId \in Ids /\ nextId' \in 0 .. MaxSessions
    BY <1>1, SizesAssumption DEF CreateBegin, TypeOK, Ids
  <2>2. h' \in [Threads -> Handlers]
    BY <1>1, <1>p, <2>1, BeginType DEF CreateBegin, TypeOK
  <2> QED BY <1>1, <2>1, <2>2 DEF CreateBegin, TypeOK
<1>2. CASE CreateInsert(t)
  <2>1. rows' \in [Ids -> Rows]
    BY <1>2, <1>h, InsertRowType DEF CreateInsert
  <2>2. h' \in [Threads -> Handlers]
    BY <1>2, <1>h, <1>p, BeginType DEF CreateInsert
  <2> QED BY <1>2, <2>1, <2>2 DEF CreateInsert, TypeOK
<1>3. CASE CreateInsertFails(t)
  <2>1. h' \in [Threads -> Handlers]
    BY <1>3, FinishType DEF CreateInsertFails
  <2> QED BY <1>3, <2>1 DEF CreateInsertFails, TypeOK
<1>4. CASE CreateStarting(t)
  <2>1. rows' \in [Ids -> Rows]
    BY <1>4, <1>h, <1>s, SetStateType DEF CreateStarting, TypeOK
  <2>2. h' \in [Threads -> Handlers]
    BY <1>4, <1>p, GotoType DEF CreateStarting
  <2> QED BY <1>4, <2>1, <2>2 DEF CreateStarting, TypeOK
<1>5. CASE CreateWorkspace(t)
  <2>1. h' \in [Threads -> Handlers]
    BY <1>5, <1>p, GotoType DEF CreateWorkspace
  <2>2. dirs' \subseteq Workspaces
    BY <1>5 DEF CreateWorkspace, TypeOK
  <2> QED BY <1>5, <2>1, <2>2 DEF CreateWorkspace, TypeOK
<1>6. CASE CreateWindow(t)
  <2>1. h' \in [Threads -> Handlers]
    BY <1>6, <1>p, GotoType DEF CreateWindow
  <2>2. windows' \in [Ids -> 0 .. MaxWindows] /\ fresh' \subseteq Ids
    BY <1>6, <1>h, OpenWindowType DEF CreateWindow
  <2> QED BY <1>6, <2>1, <2>2 DEF CreateWindow, TypeOK
<1>7. CASE CreateWindowFails(t)
  <2>1. h' \in [Threads -> Handlers]
    BY <1>7, <1>p, GotoType DEF CreateWindowFails
  <2> QED BY <1>7, <2>1 DEF CreateWindowFails, TypeOK
<1>8. CASE CreateTerminal(t)
  <2>1. h' \in [Threads -> Handlers]
    BY <1>8, <1>p, GotoType DEF CreateTerminal
  <2> QED BY <1>8, <1>h, <2>1 DEF CreateTerminal, TypeOK
<1>9. CASE CreateRunning(t)
  <2>1. rows' \in [Ids -> Rows]
    BY <1>9, <1>h, <1>s, SetStateType DEF CreateRunning, TypeOK
  <2>2. h' \in [Threads -> Handlers]
    BY <1>9, <1>p, GotoType, FinishType DEF CreateRunning
  <2> QED BY <1>9, <2>1, <2>2 DEF CreateRunning, TypeOK
<1>10. CASE UndoKill(t)
  <2>1. h' \in [Threads -> Handlers]
    BY <1>10, <1>p, GotoType DEF UndoKill
  <2>2. windows' \in [Ids -> 0 .. MaxWindows]
    BY <1>10, <1>h, KillWindowType DEF UndoKill
  <2> QED BY <1>10, <2>1, <2>2 DEF UndoKill, TypeOK
<1>11. CASE DropDir(t)
  <2>1. h' \in [Threads -> Handlers]
    BY <1>11, <1>p, GotoType DEF DropDir
  <2> QED BY <1>11, <2>1 DEF DropDir, TypeOK
<1>12. CASE RollbackTerminal(t)
  <2>1. h' \in [Threads -> Handlers]
    BY <1>12, <1>p, GotoType DEF RollbackTerminal
  <2> QED BY <1>12, <2>1 DEF RollbackTerminal, TypeOK
<1>13. CASE RollbackRow(t)
  <2>1. h' \in [Threads -> Handlers]
    BY <1>13, FinishType DEF RollbackRow
  <2>2. rows' \in [Ids -> Rows]
    BY <1>13, <1>h, RemoveRowType DEF RollbackRow, TypeOK
  <2> QED BY <1>13, <2>1, <2>2 DEF RollbackRow, TypeOK
<1> QED
  BY <1>1, <1>2, <1>3, <1>4, <1>5, <1>6, <1>7, <1>8, <1>9, <1>10, <1>11, <1>12,
     <1>13
  DEF Create

LEMMA TypeRestart ==
  ASSUME TypeOK, NEW t \in Threads, Restart(t)
  PROVE  TypeOK'
<1> USE DEF Others
<1>h. h[t].id \in Ids
  BY HandlerFields
<1>p. RestartSteps \subseteq HandlerSteps
  BY DEF HandlerSteps
<1>1. CASE \E i \in Ids : RestartBegin(t, i)
  <2>1. h' \in [Threads -> Handlers]
    BY <1>1, <1>p, BeginType DEF RestartBegin, RestartSteps
  <2> QED BY <1>1, <2>1 DEF RestartBegin, TypeOK
<1>2. CASE RestartKill(t)
  <2>1. h' \in [Threads -> Handlers]
    BY <1>2, <1>p, GotoType DEF RestartKill, RestartSteps
  <2>2. windows' \in [Ids -> 0 .. MaxWindows]
    BY <1>2, <1>h, KillWindowType DEF RestartKill
  <2> QED BY <1>2, <2>1, <2>2 DEF RestartKill, TypeOK
<1>3. CASE RestartWindow(t)
  <2>1. h' \in [Threads -> Handlers]
    BY <1>3, <1>p, GotoType DEF RestartWindow, RestartSteps
  <2>2. windows' \in [Ids -> 0 .. MaxWindows] /\ fresh' \subseteq Ids
    BY <1>3, <1>h, OpenWindowType DEF RestartWindow
  <2> QED BY <1>3, <2>1, <2>2 DEF RestartWindow, TypeOK
<1>4. CASE RestartWindowFails(t)
  <2>1. h' \in [Threads -> Handlers]
    BY <1>4, FinishType DEF RestartWindowFails
  <2> QED BY <1>4, <2>1 DEF RestartWindowFails, TypeOK
<1>5. CASE RestartState(t)
  <2>1. h' \in [Threads -> Handlers]
    BY <1>5, <1>p, GotoType DEF RestartState, RestartSteps
  <2>2. rows' \in [Ids -> Rows]
    BY <1>5, <1>h, SetStateType DEF RestartState, RowStates, TypeOK
  <2> QED BY <1>5, <2>1, <2>2 DEF RestartState, TypeOK
<1>6. CASE RestartTerminal(t)
  <2>1. h' \in [Threads -> Handlers]
    BY <1>6, FinishType DEF RestartTerminal
  <2> QED BY <1>6, <1>h, <2>1 DEF RestartTerminal, TypeOK
<1> QED BY <1>1, <1>2, <1>3, <1>4, <1>5, <1>6 DEF Restart

LEMMA TypeDelete ==
  ASSUME TypeOK, NEW t \in Threads, Delete(t)
  PROVE  TypeOK'
<1> USE DEF Others
<1>h. h[t].id \in Ids
  BY HandlerFields
<1>p. DeleteSteps \subseteq HandlerSteps
  BY DEF HandlerSteps
<1>1. CASE \E i \in Ids : DeleteBegin(t, i)
  <2> PICK i \in Ids : DeleteBegin(t, i)
    BY <1>1
  <2>1. rows[i].ws \in Workspaces \cup {NoWorkspace}
    BY DEF TypeOK, Rows
  <2>2. h' \in [Threads -> Handlers]
    BY <1>p, <2>1, BeginType DEF DeleteBegin, DeleteSteps
  <2> QED BY <2>2 DEF DeleteBegin, TypeOK
<1>2. CASE DeleteRow(t)
  <2>1. h' \in [Threads -> Handlers]
    BY <1>2, <1>p, GotoType DEF DeleteRow, DeleteSteps
  <2>2. rows' \in [Ids -> Rows]
    BY <1>2, <1>h, SetStateType DEF DeleteRow, RowStates
  <2> QED BY <1>2, <2>1, <2>2 DEF DeleteRow, TypeOK
<1>3. CASE DeleteRowFails(t)
  <2>1. h' \in [Threads -> Handlers]
    BY <1>3, FinishType DEF DeleteRowFails
  <2> QED BY <1>3, <2>1 DEF DeleteRowFails, TypeOK
<1>4. CASE DeleteTerminal(t)
  <2>1. h' \in [Threads -> Handlers]
    BY <1>4, <1>p, GotoType DEF DeleteTerminal, DeleteSteps
  <2> QED BY <1>4, <2>1 DEF DeleteTerminal, TypeOK
<1>5. CASE DeleteDir(t)
  <2>1. h' \in [Threads -> Handlers]
    BY <1>5, <1>p, GotoType DEF DeleteDir, DeleteSteps
  <2> QED BY <1>5, <2>1 DEF DeleteDir, TypeOK
<1>6. CASE DeleteKill(t)
  <2>1. h' \in [Threads -> Handlers]
    BY <1>6, FinishType DEF DeleteKill
  <2>2. windows' \in [Ids -> 0 .. MaxWindows]
    BY <1>6, <1>h, KillWindowType DEF DeleteKill
  <2> QED BY <1>6, <2>1, <2>2 DEF DeleteKill, TypeOK
<1> QED BY <1>1, <1>2, <1>3, <1>4, <1>5, <1>6 DEF Delete

LEMMA TypePoll == TypeOK /\ Poll => TypeOK'
<1> SUFFICES ASSUME TypeOK, Poll PROVE TypeOK'
  OBVIOUS
<1>1. CASE PollSnapshot
  BY <1>1 DEF PollSnapshot, TypeOK, disk
<1>2. CASE PollReconcile
  <2>1. lastLive' \subseteq SUBSET Ids
    BY <1>2 DEF PollReconcile, TypeOK
  <2>2. poll' \in [pc : {"idle", "reconcile", "mark"}, live : SUBSET Ids,
                   victims : SUBSET Ids]
    BY <1>2 DEF PollReconcile, PollIdle, TypeOK
  <2> QED BY <1>2, <2>1, <2>2 DEF PollReconcile, TypeOK, disk
<1>3. CASE \E i \in Ids : PollMark(i)
  <2> PICK i \in Ids : PollMark(i)
    BY <1>3
  <2>1. rows' \in [Ids -> Rows]
    BY SetStateType DEF PollMark, RowStates, TypeOK
  <2>2. poll' \in [pc : {"idle", "reconcile", "mark"}, live : SUBSET Ids,
                   victims : SUBSET Ids]
    BY DEF PollMark, PollIdle, TypeOK
  <2> QED BY <2>1, <2>2 DEF PollMark, TypeOK
<1> QED BY <1>1, <1>2, <1>3 DEF Poll

LEMMA TypeRecover == TypeOK /\ Recover => TypeOK'
<1> SUFFICES ASSUME TypeOK, Recover PROVE TypeOK'
  OBVIOUS
<1>1. ASSUME NEW i \in Ids, RecoverAdopt(i) PROVE TypeOK'
  BY <1>1 DEF RecoverAdopt, TypeOK, disk
<1>2. ASSUME NEW i \in Ids, RecoverState(i) PROVE TypeOK'
  <2>1. rows' \in [Ids -> Rows]
    BY <1>2, SetStateType DEF RecoverState, RowStates, TypeOK
  <2> QED BY <1>2, <2>1 DEF RecoverState, Unknown, TypeOK
<1>3. CASE RecoveryDone
  BY <1>3 DEF RecoveryDone, TypeOK, disk
<1> QED BY <1>1, <1>2, <1>3 DEF Recover

LEMMA TypeNext == TypeOK /\ [Next]_vars => TypeOK'
<1> SUFFICES ASSUME TypeOK, [Next]_vars PROVE TypeOK'
  OBVIOUS
<1>1. ASSUME NEW t \in Threads, Create(t) \/ Restart(t) \/ Delete(t)
      PROVE  TypeOK'
  BY <1>1, TypeCreate, TypeRestart, TypeDelete
<1>2. ASSUME NEW i \in Ids, AgentExit(i) PROVE TypeOK'
  BY <1>2, SizesAssumption DEF AgentExit, TypeOK, disk, Others
<1>3. CASE Poll
  BY <1>3, TypePoll
<1>4. CASE Crash
  <2>1. Idle \in Handlers
    BY SizesAssumption DEF Idle, Handlers, HandlerSteps, Ids
  <2> QED BY <1>4, <2>1, SizesAssumption
          DEF Crash, TypeOK, PollIdle, Unknown, disk
<1>5. CASE Start
  BY <1>5 DEF Start, TypeOK, disk
<1>6. CASE Recover
  BY <1>6, TypeRecover
<1>7. CASE UNCHANGED vars
  BY <1>7 DEF vars, TypeOK
<1> QED BY <1>1, <1>2, <1>3, <1>4, <1>5, <1>6, <1>7 DEF Next

(* Every variable keeps its type in every behaviour. *)
THEOREM TypeCorrect == Spec => []TypeOK
BY TypeInit, TypeNext, PTL DEF Spec

-----------------------------------------------------------------------------
(* Ids.  A creator's id is below the counter, it shares it with no other
   creator, and until it inserts its row nobody else has written there. *)

FutureIdsFree == \A i \in Ids : i >= nextId => rows[i] = NoRow
CreatorsBelow == \A t \in Threads : Creating(t) => h[t].id < nextId
InsertTargetsFree ==
  \A t \in Threads : h[t].pc = "insert" => rows[h[t].id] = NoRow

IdInv ==
  /\ FutureIdsFree
  /\ CreatorsBelow
  /\ CreatorsDistinct
  /\ InsertTargetsFree

(* A step that starts no create, moves no creator to another id or back to its
   insert, and fills no empty row. *)
CreatorsCarryOn ==
  /\ nextId' = nextId
  /\ \A t \in Threads :
       \/ h'[t] = h[t]
       \/ h'[t].pc \notin CreateSteps
       \/ Creating(t) /\ h'[t].id = h[t].id /\ h'[t].pc # "insert"
  /\ \A i \in Ids : rows[i] = NoRow => rows'[i] = NoRow

LEMMA IdInvCarriesOn == TypeOK /\ IdInv /\ CreatorsCarryOn => IdInv'
<1> SUFFICES ASSUME TypeOK, IdInv, CreatorsCarryOn PROVE IdInv'
  OBVIOUS
<1>1. FutureIdsFree'
  BY DEF IdInv, CreatorsCarryOn, FutureIdsFree
<1>2. \A t \in Threads : Creating(t)' => Creating(t) /\ h'[t].id = h[t].id
  BY DEF CreatorsCarryOn, Creating
<1>3. CreatorsBelow'
  BY <1>2 DEF IdInv, CreatorsCarryOn, CreatorsBelow
<1>4. CreatorsDistinct'
  BY <1>2 DEF IdInv, CreatorsDistinct
<1>5. InsertTargetsFree'
  <2> SUFFICES ASSUME NEW t \in Threads, h'[t].pc = "insert"
               PROVE  rows'[h'[t].id] = NoRow
    BY DEF InsertTargetsFree
  <2>1. h'[t] = h[t]
    BY DEF CreatorsCarryOn, CreateSteps
  <2>2. h[t].id \in Ids
    BY HandlerFields
  <2> QED BY <2>1, <2>2 DEF IdInv, InsertTargetsFree, CreatorsCarryOn
<1> QED BY <1>1, <1>3, <1>4, <1>5 DEF IdInv

LEMMA SetStateKeepsGaps ==
  ASSUME TypeOK, NEW i \in Ids, NEW s, SetState(i, s)
  PROVE  \A j \in Ids : rows[j] = NoRow => rows'[j] = NoRow
BY DEF SetState, Listed, NoRow, TypeOK

LEMMA GotoCarriesOn ==
  ASSUME TypeOK, NEW t \in Threads, NEW pc, Creating(t), Goto(t, pc),
         pc # "insert"
  PROVE  \A u \in Threads :
           h'[u] = h[u] \/ (Creating(u) /\ h'[u].id = h[u].id /\ h'[u].pc # "insert")
BY DEF TypeOK, Goto, Handlers

(* Handlers of other requests never look like creators. *)
LEMMA OtherHandlersCarryOn ==
  ASSUME TypeOK, NEW t \in Threads, Restart(t) \/ Delete(t)
  PROVE  CreatorsCarryOn
<1> USE DEF Others
<1>1. \A i \in Ids, s \in RowStates : SetState(i, s) =>
        \A j \in Ids : rows[j] = NoRow => rows'[j] = NoRow
  BY SetStateKeepsGaps
<1>2. h[t].id \in Ids
  BY HandlerFields
<1>3. {"running", "deleted"} \subseteq RowStates
  BY DEF RowStates
<1>4. nextId' = nextId
  BY DEF Restart, RestartBegin, RestartKill, RestartWindow, RestartWindowFails,
         RestartState, RestartTerminal, Delete, DeleteBegin, DeleteRow,
         DeleteRowFails, DeleteTerminal, DeleteDir, DeleteKill
<1>5. rows' = rows \/ \E i \in Ids, s \in RowStates : SetState(i, s)
  BY <1>2, <1>3
     DEF Restart, RestartBegin, RestartKill, RestartWindow, RestartWindowFails,
         RestartState, RestartTerminal, Delete, DeleteBegin, DeleteRow,
         DeleteRowFails, DeleteTerminal, DeleteDir, DeleteKill
<1>6. \E pc \in {"idle"} \cup RestartSteps \cup DeleteSteps :
        \E r : h' = [h EXCEPT ![t] = r] /\ r.pc = pc
  <2>1. CASE Restart(t)
    BY <2>1 DEF Restart, RestartBegin, RestartKill, RestartWindow,
         RestartWindowFails, RestartState, RestartTerminal, Begin, Goto, Finish,
         Idle, RestartSteps, TypeOK, Handlers
  <2>2. CASE Delete(t)
    BY <2>2 DEF Delete, DeleteBegin, DeleteRow, DeleteRowFails, DeleteTerminal,
         DeleteDir, DeleteKill, Begin, Goto, Finish, Idle, DeleteSteps, TypeOK,
         Handlers
  <2> QED BY <2>1, <2>2
<1>7. \A u \in Threads : h'[u] = h[u] \/ h'[u].pc \notin CreateSteps
  BY <1>6 DEF TypeOK, CreateSteps, RestartSteps, DeleteSteps
<1> QED BY <1>1, <1>4, <1>5, <1>7 DEF CreatorsCarryOn

(* A creator past its insert only moves on, gives up or rolls back. *)
LEMMA CreatorsPastInsertCarryOn ==
  ASSUME TypeOK, NEW t \in Threads,
         \/ CreateInsertFails(t) \/ CreateStarting(t) \/ CreateWorkspace(t)
         \/ CreateWindow(t) \/ CreateWindowFails(t) \/ CreateTerminal(t)
         \/ CreateRunning(t) \/ UndoKill(t) \/ DropDir(t)
         \/ RollbackTerminal(t) \/ RollbackRow(t)
  PROVE  CreatorsCarryOn
<1> USE DEF Others
<1>1. h[t].id \in Ids
  BY HandlerFields
<1>2. nextId' = nextId
  BY DEF CreateInsertFails, CreateStarting, CreateWorkspace, CreateWindow,
         CreateWindowFails, CreateTerminal, CreateRunning, UndoKill, DropDir,
         RollbackTerminal, RollbackRow
<1>3. \/ rows' = rows
      \/ \E s \in {"starting", "running"} : SetState(h[t].id, s)
      \/ RemoveRow(h[t].id)
  BY DEF CreateInsertFails, CreateStarting, CreateWorkspace, CreateWindow,
         CreateWindowFails, CreateTerminal, CreateRunning, UndoKill, DropDir,
         RollbackTerminal, RollbackRow
<1>4. \A i \in Ids : rows[i] = NoRow => rows'[i] = NoRow
  <2>1. CASE RemoveRow(h[t].id)
    BY <2>1 DEF RemoveRow, TypeOK
  <2> QED BY <1>1, <1>3, <2>1, SetStateKeepsGaps
<1>5. \/ Finish(t)
      \/ Creating(t) /\ \E pc \in CreateSteps \ {"insert"} : Goto(t, pc)
  BY DEF CreateInsertFails, CreateStarting, CreateWorkspace, CreateWindow,
         CreateWindowFails, CreateTerminal, CreateRunning, UndoKill, DropDir,
         RollbackTerminal, RollbackRow, At, Creating, CreateSteps
<1>6. \A u \in Threads :
        \/ h'[u] = h[u]
        \/ h'[u].pc \notin CreateSteps
        \/ Creating(u) /\ h'[u].id = h[u].id /\ h'[u].pc # "insert"
  <2>1. CASE Finish(t)
    BY <2>1 DEF Finish, Idle, CreateSteps, TypeOK
  <2> QED BY <1>5, <2>1, GotoCarriesOn
<1> QED BY <1>2, <1>4, <1>6 DEF CreatorsCarryOn

LEMMA DaemonCarriesOn ==
  ASSUME TypeOK,
         \/ \E i \in Ids : AgentExit(i)
         \/ Poll \/ Crash \/ Start \/ Recover \/ UNCHANGED vars
  PROVE  CreatorsCarryOn
<1> USE DEF disk, Others
<1>1. nextId' = nextId
  BY DEF AgentExit, Poll, PollSnapshot, PollReconcile, PollMark, Crash, Start,
         Recover, RecoverAdopt, RecoverState, RecoveryDone, vars
<1>2. rows' = rows \/ \E i \in Ids, s \in RowStates : SetState(i, s)
  BY DEF AgentExit, Poll, PollSnapshot, PollReconcile, PollMark, Crash, Start,
         Recover, RecoverAdopt, RecoverState, RecoveryDone, vars, RowStates,
         TypeOK
<1>3. \A t \in Threads : h'[t] = h[t] \/ h'[t] = Idle
  BY DEF AgentExit, Poll, PollSnapshot, PollReconcile, PollMark, Crash, Start,
         Recover, RecoverAdopt, RecoverState, RecoveryDone, vars
<1>4. Idle.pc \notin CreateSteps
  BY DEF Idle, CreateSteps
<1> QED BY <1>1, <1>2, <1>3, <1>4, SetStateKeepsGaps DEF CreatorsCarryOn

LEMMA IdInvInit == Init => IdInv
BY DEF Init, IdInv, FutureIdsFree, CreatorsBelow, CreatorsDistinct,
       InsertTargetsFree, Creating, Idle, CreateSteps

LEMMA IdInvNext == TypeOK /\ IdInv /\ [Next]_vars => IdInv'
<1> SUFFICES ASSUME TypeOK, IdInv, [Next]_vars PROVE IdInv'
  OBVIOUS
<1>1. ASSUME NEW t \in Threads, CreateBegin(t) PROVE IdInv'
  <2>1. rows' = rows /\ nextId' = nextId + 1 /\ nextId \in Ids
    BY <1>1, SizesAssumption DEF CreateBegin, TypeOK, Ids
  <2>2. \A u \in Threads : \/ h'[u] = h[u]
                           \/ u = t /\ h'[u].id = nextId
    BY <1>1 DEF CreateBegin, Begin, TypeOK
  <2>3. \A u \in Threads : h[u].id \in Ids
    BY HandlerFields
  <2>4. FutureIdsFree' /\ InsertTargetsFree'
    BY <2>1, <2>2, <2>3 DEF IdInv, FutureIdsFree, InsertTargetsFree, Ids
  <2>5. CreatorsBelow' /\ CreatorsDistinct'
    BY <2>1, <2>2, <2>3
       DEF IdInv, CreatorsBelow, CreatorsDistinct, Creating, Ids
  <2> QED BY <2>4, <2>5 DEF IdInv
<1>2. ASSUME NEW t \in Threads, CreateInsert(t) PROVE IdInv'
  <2> DEFINE k == h[t].id
  <2>1. k \in Ids /\ Creating(t) /\ nextId' = nextId
    BY <1>2, HandlerFields DEF CreateInsert, At, Creating, CreateSteps
  <2>2. \A i \in Ids : i # k => rows'[i] = rows[i]
    BY <1>2 DEF CreateInsert, InsertRow, TypeOK
  <2>3. \A u \in Threads : \/ u # t /\ h'[u] = h[u]
                           \/ u = t /\ h'[u].id = k /\ h'[u].pc = "starting"
    BY <1>2 DEF CreateInsert, Begin, TypeOK
  <2>4. \A u \in Threads : Creating(u)' <=> Creating(u)
    BY <2>1, <2>3 DEF Creating, CreateSteps
  <2>5. FutureIdsFree'
    <3>1. k < nextId /\ k \in Nat /\ nextId \in Nat
      BY <2>1, SizesAssumption DEF IdInv, CreatorsBelow, Ids, TypeOK
    <3>2. \A i \in Ids : i >= nextId => i # k
      BY <3>1, SizesAssumption DEF Ids
    <3> QED BY <2>1, <2>2, <3>2 DEF IdInv, FutureIdsFree
  <2>6. CreatorsBelow' /\ CreatorsDistinct'
    BY <2>1, <2>3, <2>4 DEF IdInv, CreatorsBelow, CreatorsDistinct
  <2>7. InsertTargetsFree'
    <3> SUFFICES ASSUME NEW u \in Threads, h'[u].pc = "insert"
                 PROVE  rows'[h'[u].id] = NoRow
      BY DEF InsertTargetsFree
    <3>1. u # t /\ h'[u] = h[u] /\ Creating(u) /\ h[u].id \in Ids
      BY <2>3, HandlerFields DEF Creating, CreateSteps
    <3>2. h[u].id # k
      BY <2>1, <3>1 DEF IdInv, CreatorsDistinct
    <3> QED BY <2>2, <3>1, <3>2 DEF IdInv, InsertTargetsFree
  <2> QED BY <2>5, <2>6, <2>7 DEF IdInv
<1>3. CASE CreatorsCarryOn
  BY <1>3, IdInvCarriesOn
<1> QED
  BY <1>1, <1>2, <1>3, OtherHandlersCarryOn, CreatorsPastInsertCarryOn,
     DaemonCarriesOn
  DEF Next, Create

LEMMA IdInvAlways == Spec => [](TypeOK /\ IdInv)
BY TypeInit, TypeNext, IdInvInit, IdInvNext, PTL DEF Spec

(* next_session_id never gives one id to two creates. *)
THEOREM CreatorsAreDistinct == Spec => []CreatorsDistinct
<1>1. IdInv => CreatorsDistinct
  BY DEF IdInv
<1> QED BY <1>1, IdInvAlways, PTL

-----------------------------------------------------------------------------
(* Rows.  The four ways a step can change the sessions table. *)

RowStep ==
  \/ rows' = rows
  \/ \E i \in Ids, s \in RowStates \ {"absent", "creating"} : SetState(i, s)
  \/ \E t \in Threads :
       /\ h[t].pc = "insert"
       /\ InsertRow(h[t].id, h[t].name, h[t].ws)
  \/ \E t \in Threads : Creating(t) /\ RemoveRow(h[t].id)

LEMMA EveryStepIsARowStep == TypeOK /\ [Next]_vars => RowStep
<1> SUFFICES ASSUME TypeOK, [Next]_vars PROVE RowStep
  OBVIOUS
<1> USE DEF disk, Others
<1>s. {"starting", "running", "exited", "unreachable", "deleted"}
        = RowStates \ {"absent", "creating"}
  BY DEF RowStates
<1>h. \A t \in Threads : h[t].id \in Ids
  BY HandlerFields
<1>1. ASSUME NEW t \in Threads, Create(t) PROVE RowStep
  <2>1. \/ rows' = rows
        \/ \E s \in {"starting", "running"} : SetState(h[t].id, s)
        \/ h[t].pc = "insert" /\ InsertRow(h[t].id, h[t].name, h[t].ws)
        \/ h[t].pc = "rollback_row" /\ RemoveRow(h[t].id)
    BY <1>1 DEF Create, CreateBegin, CreateInsert, CreateInsertFails,
         CreateStarting, CreateWorkspace, CreateWindow, CreateWindowFails,
         CreateTerminal, CreateRunning, UndoKill, DropDir, RollbackTerminal,
         RollbackRow, At
  <2> QED BY <1>s, <1>h, <2>1 DEF RowStep, Creating, CreateSteps
<1>2. ASSUME NEW t \in Threads, Restart(t) \/ Delete(t) PROVE RowStep
  <2>1. rows' = rows \/ \E s \in {"running", "deleted"} : SetState(h[t].id, s)
    BY <1>2
       DEF Restart, RestartBegin, RestartKill, RestartWindow, RestartWindowFails,
           RestartState, RestartTerminal, Delete, DeleteBegin, DeleteRow,
           DeleteRowFails, DeleteTerminal, DeleteDir, DeleteKill
  <2> QED BY <1>s, <1>h, <2>1 DEF RowStep
<1>3. CASE Recover
  BY <1>3, <1>s
     DEF Recover, RecoverAdopt, RecoverState, RecoveryDone, RowStep, TypeOK
<1>4. CASE Poll
  BY <1>4, <1>s DEF Poll, PollSnapshot, PollReconcile, PollMark, RowStep
<1>5. CASE (\E i \in Ids : AgentExit(i)) \/ Crash \/ Start \/ UNCHANGED vars
  BY <1>5 DEF AgentExit, Crash, Start, vars, RowStep
<1> QED BY <1>1, <1>2, <1>3, <1>4, <1>5 DEF Next

(* A deleted session never comes back to the list: the state updates skip
   tombstones, and an insert only ever fills an empty row. *)
THEOREM DeletedStaysDeleted == Spec => DeletedIsFinal
<1>1. TypeOK /\ IdInv /\ RowStep
        => \A i \in Ids : rows[i].state = "deleted" =>
             rows'[i].state \in {"deleted", "absent"}
  <2> SUFFICES ASSUME TypeOK, IdInv, RowStep,
                      NEW i \in Ids, rows[i].state = "deleted"
               PROVE  rows'[i].state \in {"deleted", "absent"}
    OBVIOUS
  <2>1. CASE rows' = rows
    BY <2>1
  <2>2. ASSUME NEW j \in Ids, NEW s, SetState(j, s)
        PROVE  rows'[i].state = "deleted"
    BY <2>2 DEF SetState, Listed, TypeOK
  <2>3. ASSUME NEW t \in Threads, h[t].pc = "insert",
               InsertRow(h[t].id, h[t].name, h[t].ws)
        PROVE  rows'[i].state = "deleted"
    <3>1. h[t].id # i
      BY <2>3 DEF IdInv, InsertTargetsFree, NoRow
    <3> QED BY <2>3, <3>1 DEF InsertRow, TypeOK
  <2>4. ASSUME NEW t \in Threads, RemoveRow(h[t].id)
        PROVE  rows'[i].state \in {"deleted", "absent"}
    BY <2>4 DEF RemoveRow, NoRow, TypeOK
  <2> QED BY <2>1, <2>2, <2>3, <2>4 DEF RowStep
<1>2. TypeOK /\ IdInv /\ [Next]_vars
        => [\A i \in Ids : rows[i].state = "deleted" =>
              rows'[i].state \in {"deleted", "absent"}]_vars
  BY <1>1, EveryStepIsARowStep
<1> QED BY <1>2, IdInvAlways, PTL DEF Spec, DeletedIsFinal

-----------------------------------------------------------------------------
(* Refinement.  A step is an action of SessionRegistry on nextId, Book and
   Unanswered, or leaves all three alone. *)

BookSame == nextId' = nextId /\ Book' = Book /\ Unanswered' = Unanswered

LEMMA UnansweredKept ==
  ASSUME \A t \in Threads :
           /\ Creating(t)' <=> Creating(t)
           /\ Creating(t) => h'[t].id = h[t].id
  PROVE  Unanswered' = Unanswered
BY DEF Unanswered

LEMMA UnansweredAnswered ==
  ASSUME TypeOK, IdInv, NEW t \in Threads, Creating(t), Finish(t)
  PROVE  Unanswered' = Unanswered \ {h[t].id}
<1>1. \A u \in Threads : h'[u] = IF u = t THEN Idle ELSE h[u]
  BY DEF Finish, TypeOK
<1>2. \A u \in Threads : Creating(u)' <=> Creating(u) /\ u # t
  BY <1>1 DEF Creating, Idle, CreateSteps
<1>3. \A u \in Threads : Creating(u) /\ u # t => h[u].id # h[t].id
  BY DEF IdInv, CreatorsDistinct
<1> QED BY <1>1, <1>2, <1>3 DEF Unanswered

LEMMA UnansweredCarriesOn ==
  ASSUME TypeOK, NEW t \in Threads, Creating(t), NEW pc \in CreateSteps,
         Goto(t, pc)
  PROVE  Unanswered' = Unanswered
<1>1. \A u \in Threads : \/ h'[u] = h[u]
                         \/ u = t /\ h'[u].id = h[u].id /\ h'[u].pc = pc
  BY DEF Goto, TypeOK, Handlers
<1> QED BY <1>1, UnansweredKept DEF Creating

LEMMA SetStateBook ==
  ASSUME TypeOK, NEW i \in Ids, NEW s, SetState(i, s)
  PROVE  Book' = IF Listed(i) THEN [Book EXCEPT ![i].state = s] ELSE Book
<1>1. CASE Listed(i)
  <2>1. \A j \in Ids : /\ rows'[j].state = IF j = i THEN s ELSE rows[j].state
                       /\ rows'[j].name = rows[j].name
    BY <1>1 DEF SetState, TypeOK, Rows
  <2>2. Book' = [j \in Ids |-> [state |-> IF j = i THEN s ELSE rows[j].state,
                                name |-> rows[j].name]]
    BY <2>1 DEF Book
  <2>3. [Book EXCEPT ![i].state = s]
          = [j \in Ids |-> [state |-> IF j = i THEN s ELSE rows[j].state,
                            name |-> rows[j].name]]
    <3> DEFINE r == [state |-> rows[i].state, name |-> rows[i].name]
    <3>1. [r EXCEPT !.state = s] = [state |-> s, name |-> rows[i].name]
      OBVIOUS
    <3>2. Book[i] = r
      BY DEF Book
    <3>3. [Book EXCEPT ![i].state = s] = [Book EXCEPT ![i] = [Book[i] EXCEPT !.state = s]]
      OBVIOUS
    <3>4. [Book EXCEPT ![i].state = s]
            = [Book EXCEPT ![i] = [state |-> s, name |-> rows[i].name]]
      BY <3>1, <3>2, <3>3
    <3> QED BY <3>4 DEF Book
  <2> QED BY <1>1, <2>2, <2>3
<1>2. CASE ~Listed(i)
  BY <1>2 DEF SetState, Book
<1> QED BY <1>1, <1>2

LEMMA ListedIsShown ==
  ASSUME TypeOK, NEW i \in Ids
  PROVE  Listed(i) <=> Registry!Shown(i)
BY DEF TypeOK, Rows, RowStates, Listed, Book, Registry!Shown,
       Registry!ShownStates, Registry!LaterStates

(* Setting a state is ChangeState or Delete when the row is listed, and
   changes nothing otherwise. *)
LEMMA SetStateRefines ==
  ASSUME TypeOK, NEW i \in Ids, NEW s, SetState(i, s), nextId' = nextId,
         \/ s \in Registry!LaterStates /\ Unanswered' \in {Unanswered, Unanswered \ {i}}
         \/ s = "deleted" /\ Unanswered' = Unanswered
  PROVE  \/ Registry!ChangeState(i) \/ Registry!Delete(i)
         \/ Book' = Book /\ nextId' = nextId
<1>1. CASE Listed(i)
  BY <1>1, SetStateBook, ListedIsShown
     DEF Registry!ChangeState, Registry!Delete, Registry!LaterStates
<1>2. CASE ~Listed(i)
  BY <1>2, SetStateBook
<1> QED BY <1>1, <1>2

LEMMA InitRefines == Init => Registry!BookInit
<1> SUFFICES ASSUME Init PROVE Registry!BookInit
  OBVIOUS
<1>1. Unanswered = {}
  BY DEF Init, Unanswered, Creating, Idle, CreateSteps
<1>2. Book = [i \in Registry!BookIds |-> Registry!Blank]
  BY DEF Init, Book, NoRow, Ids, Registry!BookIds, Registry!Blank
<1> QED BY <1>1, <1>2 DEF Init, Registry!BookInit

LEMMA CreateRefines ==
  ASSUME TypeOK, IdInv, NEW t \in Threads, Create(t)
  PROVE  Registry!BookNext \/ BookSame
<1> USE DEF Others
<1>h. h[t].id \in Ids /\ Registry!BookIds = Ids
  BY HandlerFields DEF Registry!BookIds, Ids
<1>f. Creating(t) /\ Finish(t) => /\ Unanswered' = Unanswered \ {h[t].id}
                                  /\ h[t].id \in Unanswered
  BY UnansweredAnswered DEF Unanswered
<1>g. ASSUME NEW pc \in CreateSteps, Creating(t), Goto(t, pc)
      PROVE  Unanswered' = Unanswered
  BY <1>g, UnansweredCarriesOn
<1>c. h[t].pc \in CreateSteps => Creating(t)
  BY DEF Creating
<1>1. CASE CreateBegin(t)
  <2>1. Book' = Book
    BY <1>1 DEF CreateBegin, Book
  <2>2. Unanswered' = Unanswered \cup {nextId} \/ Unanswered' = Unanswered
    <3>1. CASE UNCHANGED h
      BY <3>1 DEF Unanswered, Creating
    <3>2. CASE \E n \in Names, w \in Workspaces \cup {NoWorkspace} :
                 Begin(t, "insert", nextId, n, w)
      <4>1. /\ h'[t].id = nextId /\ h'[t].pc = "insert"
            /\ \A u \in Threads \ {t} : h'[u] = h[u]
        BY <3>2 DEF Begin, TypeOK
      <4>2. \A u \in Threads : Creating(u)' <=> Creating(u) \/ u = t
        BY <4>1 DEF Creating, CreateSteps
      <4>3. ~Creating(t)
        BY <1>1 DEF CreateBegin, At, Creating, CreateSteps
      <4> QED BY <4>1, <4>2, <4>3 DEF Unanswered
    <3> QED BY <1>1, <3>1, <3>2 DEF CreateBegin
  <2>3. Registry!Allocate
    BY <1>1, <2>1, <2>2 DEF CreateBegin, Registry!Allocate
  <2> QED BY <2>3 DEF Registry!BookNext
<1>2. CASE CreateInsert(t)
  <2> DEFINE k == h[t].id
  <2>1. Creating(t) /\ k \in Unanswered
    BY <1>2 DEF CreateInsert, At, Creating, CreateSteps, Unanswered
  <2>2. Unanswered' = Unanswered
    <3>1. \A u \in Threads : \/ h'[u] = h[u]
                             \/ u = t /\ h'[u].id = h[u].id /\ h'[u].pc = "starting"
      BY <1>2 DEF CreateInsert, Begin, TypeOK
    <3> QED BY <2>1, <3>1, UnansweredKept DEF Creating, CreateSteps
  <2>3. rows[k] = NoRow /\ Book[k] = Registry!Blank
    BY <1>2, <1>h DEF CreateInsert, At, IdInv, InsertTargetsFree, Book, NoRow,
         Registry!Blank
  <2>4. \A j \in Ids : Book[j].name # h[t].name
    BY <1>2 DEF CreateInsert, InsertRow, Book
  <2>5. h[t].name \in Names
    BY <1>h, <2>3, <2>4, HandlerFields DEF Registry!Blank
  <2>6. Book' = [Book EXCEPT ![k] = [state |-> "creating", name |-> h[t].name]]
    BY <1>2, <1>h DEF CreateInsert, InsertRow, Book, TypeOK
  <2>7. Registry!Appear(k)
    BY <1>2, <1>h, <2>1, <2>2, <2>3, <2>4, <2>5, <2>6
       DEF CreateInsert, Registry!Appear
  <2> QED BY <1>h, <2>7 DEF Registry!BookNext
<1>3. CASE CreateInsertFails(t)
  <2>1. Registry!Answer(h[t].id)
    BY <1>3, <1>c, <1>f
       DEF CreateInsertFails, At, CreateSteps, Book, Registry!Answer
  <2> QED BY <1>h, <2>1 DEF Registry!BookNext
<1>4. CASE CreateStarting(t)
  <2>1. Unanswered' = Unanswered /\ nextId' = nextId
    BY <1>4, <1>c, <1>g DEF CreateStarting, At, CreateSteps
  <2>2. CASE UNCHANGED rows
    BY <2>1, <2>2 DEF BookSame, Book
  <2>3. CASE SetState(h[t].id, "starting")
    BY <1>h, <2>1, <2>3, SetStateRefines
       DEF Registry!LaterStates, Registry!BookNext, BookSame
  <2> QED BY <1>4, <2>2, <2>3 DEF CreateStarting
<1>5. CASE \/ CreateWorkspace(t) \/ CreateWindow(t) \/ CreateWindowFails(t)
           \/ CreateTerminal(t) \/ UndoKill(t) \/ DropDir(t)
           \/ RollbackTerminal(t)
  <2>1. rows' = rows /\ nextId' = nextId
    BY <1>5 DEF CreateWorkspace, CreateWindow, CreateWindowFails,
         CreateTerminal, UndoKill, DropDir, RollbackTerminal
  <2>2. Creating(t) /\ \E pc \in CreateSteps : Goto(t, pc)
    BY <1>5 DEF CreateWorkspace, CreateWindow, CreateWindowFails,
         CreateTerminal, UndoKill, DropDir, RollbackTerminal, At, Creating,
         CreateSteps
  <2> QED BY <1>g, <2>1, <2>2 DEF BookSame, Book
<1>6. CASE CreateRunning(t)
  <2>1. Creating(t) /\ nextId' = nextId
    BY <1>6 DEF CreateRunning, At, Creating, CreateSteps
  <2>2. CASE SetState(h[t].id, "running") /\ Finish(t)
    <3>1. Unanswered' = Unanswered \ {h[t].id} /\ h[t].id \in Unanswered
      BY <1>f, <2>1, <2>2
    <3>2. Registry!Answer(h[t].id) \/ Book' # Book
      BY <2>1, <3>1 DEF Registry!Answer
    <3> QED BY <1>h, <2>1, <2>2, <3>1, <3>2, SetStateRefines
            DEF Registry!LaterStates, Registry!BookNext
  <2>3. CASE Goto(t, "undo_kill") /\ UNCHANGED rows
    BY <1>g, <2>1, <2>3 DEF BookSame, Book, CreateSteps
  <2> QED BY <1>6, <2>2, <2>3 DEF CreateRunning
<1>7. CASE RollbackRow(t)
  <2>1. /\ Unanswered' = Unanswered \ {h[t].id} /\ h[t].id \in Unanswered
        /\ nextId' = nextId
    BY <1>7, <1>c, <1>f DEF RollbackRow, At, CreateSteps
  <2>2. CASE RemoveRow(h[t].id)
    <3>1. Book' = [Book EXCEPT ![h[t].id] = Registry!Blank]
      BY <1>h, <2>2 DEF RemoveRow, NoRow, Book, Registry!Blank, TypeOK
    <3> QED BY <1>h, <2>1, <3>1 DEF Registry!Withdraw, Registry!BookNext
  <2>3. CASE UNCHANGED rows
    BY <1>h, <2>1, <2>3 DEF Registry!Answer, Registry!BookNext, Book
  <2> QED BY <1>7, <2>2, <2>3 DEF RollbackRow
<1> QED BY <1>1, <1>2, <1>3, <1>4, <1>5, <1>6, <1>7 DEF Create

LEMMA OtherHandlersRefine ==
  ASSUME TypeOK, NEW t \in Threads, Restart(t) \/ Delete(t)
  PROVE  Registry!BookNext \/ BookSame
<1> USE DEF Others
<1>h. h[t].id \in Ids /\ Registry!BookIds = Ids
  BY HandlerFields DEF Registry!BookIds, Ids
<1>1. nextId' = nextId
  BY OtherHandlersCarryOn DEF CreatorsCarryOn
<1>2. rows' = rows \/ \E s \in {"running", "deleted"} : SetState(h[t].id, s)
  BY DEF Restart, RestartBegin, RestartKill, RestartWindow, RestartWindowFails,
         RestartState, RestartTerminal, Delete, DeleteBegin, DeleteRow,
         DeleteRowFails, DeleteTerminal, DeleteDir, DeleteKill
<1>3. ~Creating(t)
  BY DEF Restart, RestartBegin, RestartKill, RestartWindow, RestartWindowFails,
         RestartState, RestartTerminal, Delete, DeleteBegin, DeleteRow,
         DeleteRowFails, DeleteTerminal, DeleteDir, DeleteKill, At, Creating,
         CreateSteps
<1>4. \A u \in Threads : u # t => h'[u] = h[u]
  BY DEF Restart, RestartBegin, RestartKill, RestartWindow, RestartWindowFails,
         RestartState, RestartTerminal, Delete, DeleteBegin, DeleteRow,
         DeleteRowFails, DeleteTerminal, DeleteDir, DeleteKill, Begin, Goto,
         Finish, TypeOK
<1>5. ~Creating(t)'
  BY <1>3, OtherHandlersCarryOn DEF CreatorsCarryOn, Creating
<1>6. Unanswered' = Unanswered
  BY <1>3, <1>4, <1>5, UnansweredKept DEF Creating
<1>7. CASE rows' = rows
  BY <1>1, <1>6, <1>7 DEF BookSame, Book
<1>8. CASE \E s \in {"running", "deleted"} : SetState(h[t].id, s)
  BY <1>h, <1>1, <1>6, <1>8, SetStateRefines
     DEF Registry!LaterStates, Registry!BookNext, BookSame
<1> QED BY <1>2, <1>7, <1>8

LEMMA DaemonRefines ==
  ASSUME TypeOK,
         \/ \E i \in Ids : AgentExit(i)
         \/ Poll \/ Crash \/ Start \/ Recover \/ UNCHANGED vars
  PROVE  Registry!BookNext \/ BookSame
<1> USE DEF disk, Others
<1>b. Registry!BookIds = Ids
  BY DEF Registry!BookIds, Ids
<1>1. nextId' = nextId
  BY DaemonCarriesOn DEF CreatorsCarryOn
<1>2. CASE Crash
  <2>1. Unanswered' = {} /\ Book' = Book
    BY <1>2 DEF Crash, Unanswered, Book, Creating, Idle, CreateSteps
  <2> QED BY <1>1, <2>1 DEF Registry!Forget, Registry!BookNext
<1>3. CASE ~Crash
  <2>1. Unanswered' = Unanswered
    <3>1. h' = h
      BY <1>3 DEF AgentExit, Poll, PollSnapshot, PollReconcile, PollMark, Start,
           Recover, RecoverAdopt, RecoverState, RecoveryDone, vars
    <3> QED BY <3>1 DEF Unanswered, Creating
  <2>2. \/ rows' = rows
        \/ \E i \in Ids, s \in Registry!LaterStates : SetState(i, s)
    BY <1>3
       DEF AgentExit, Poll, PollSnapshot, PollReconcile, PollMark, Start, Recover,
           RecoverAdopt, RecoverState, RecoveryDone, vars, TypeOK,
           Registry!LaterStates
  <2>3. CASE rows' = rows
    BY <1>1, <2>1, <2>3 DEF BookSame, Book
  <2>4. CASE \E i \in Ids, s \in Registry!LaterStates : SetState(i, s)
    BY <1>b, <1>1, <2>1, <2>4, SetStateRefines DEF Registry!BookNext, BookSame
  <2> QED BY <2>2, <2>3, <2>4
<1> QED BY <1>2, <1>3

(* The daemon implements SessionRegistry: whatever threads, crashes, faults and
   agents do, a client sees ids handed out once, sessions that appear once and
   vanish only by a delete or before their create is answered. *)
THEOREM LifecycleImplementsRegistry == Spec => RegistrySpec
<1>1. TypeOK /\ IdInv /\ [Next]_vars => [Registry!BookNext]_(Registry!bookVars)
  BY CreateRefines, OtherHandlersRefine, DaemonRefines
     DEF Next, BookSame, Registry!bookVars
<1> QED BY <1>1, InitRefines, IdInvAlways, PTL
        DEF Spec, RegistrySpec, Registry!BookSpec

-----------------------------------------------------------------------------
(* What one request's step leaves alone: the other requests, and everything
   the daemon's own steps keep. *)

LEMMA OneHandlerMoves ==
  ASSUME TypeOK, NEW t \in Threads, Create(t) \/ Restart(t) \/ Delete(t)
  PROVE  /\ \A u \in Threads : u # t => h'[u] = h[u]
         /\ daemon = "up"
         /\ UNCHANGED Others
<1> USE DEF Others
<1>1. daemon = "up" /\ UNCHANGED Others
  BY DEF Create, CreateBegin, CreateInsert, CreateInsertFails, CreateStarting,
         CreateWorkspace, CreateWindow, CreateWindowFails, CreateTerminal,
         CreateRunning, UndoKill, DropDir, RollbackTerminal, RollbackRow,
         Restart, RestartBegin, RestartKill, RestartWindow, RestartWindowFails,
         RestartState, RestartTerminal, Delete, DeleteBegin, DeleteRow,
         DeleteRowFails, DeleteTerminal, DeleteDir, DeleteKill, At
<1>2. h' = h \/ \E r : h' = [h EXCEPT ![t] = r]
  <2>1. CASE Create(t)
    BY <2>1
       DEF Create, CreateBegin, CreateInsert, CreateInsertFails, CreateStarting,
           CreateWorkspace, CreateWindow, CreateWindowFails, CreateTerminal,
           CreateRunning, UndoKill, DropDir, RollbackTerminal, RollbackRow,
           Begin, Goto, Finish, TypeOK
  <2>2. CASE Restart(t) \/ Delete(t)
    BY <2>2
       DEF Restart, RestartBegin, RestartKill, RestartWindow,
           RestartWindowFails, RestartState, RestartTerminal, Delete,
           DeleteBegin, DeleteRow, DeleteRowFails, DeleteTerminal, DeleteDir,
           DeleteKill, Begin, Goto, Finish, TypeOK
  <2> QED BY <2>1, <2>2
<1> QED BY <1>1, <1>2 DEF TypeOK

LEMMA HandlersWait ==
  ASSUME (\E i \in Ids : AgentExit(i)) \/ Poll \/ Start \/ Recover
         \/ UNCHANGED vars
  PROVE  h' = h
BY DEF AgentExit, Poll, PollSnapshot, PollReconcile, PollMark, Start, Recover,
       RecoverAdopt, RecoverState, RecoveryDone, vars, Others

-----------------------------------------------------------------------------
(* Recovery has the daemon to itself, and what it has still to do is exactly
   what it is about to look at or to store. *)

RecoveryInv ==
  /\ daemon # "up" => \A t \in Threads : ~Busy(t)
  /\ daemon # "recovering" => todo = {} /\ found = {}
  /\ \A f, g \in found : f = g

LEMMA RecoveryInvInit == Init => RecoveryInv
BY DEF Init, RecoveryInv, Unknown

LEMMA RecoveryInvNext == TypeOK /\ RecoveryInv /\ [Next]_vars => RecoveryInv'
<1> SUFFICES ASSUME TypeOK, RecoveryInv, [Next]_vars PROVE RecoveryInv'
  OBVIOUS
<1>1. ASSUME NEW t \in Threads, Create(t) \/ Restart(t) \/ Delete(t)
      PROVE  RecoveryInv'
  <2>1. daemon = "up" /\ UNCHANGED <<daemon, todo, found>>
    BY <1>1, OneHandlerMoves DEF Others
  <2> QED BY <2>1 DEF RecoveryInv
<1>2. CASE (\E i \in Ids : AgentExit(i)) \/ Poll \/ UNCHANGED vars
  BY <1>2 DEF AgentExit, Poll, PollSnapshot, PollReconcile, PollMark, vars,
              Others, RecoveryInv, Busy
<1>3. CASE Crash
  BY <1>3 DEF Crash, RecoveryInv, Busy, Idle, Unknown
<1>4. CASE Start
  BY <1>4 DEF Start, RecoveryInv, Busy
<1>5. ASSUME NEW i \in Ids, RecoverAdopt(i) PROVE RecoveryInv'
  BY <1>5 DEF RecoverAdopt, RecoveryInv, Busy, Unknown
<1>6. ASSUME NEW i \in Ids, RecoverState(i) PROVE RecoveryInv'
  BY <1>6 DEF RecoverState, RecoveryInv, Busy, Unknown
<1>7. CASE RecoveryDone
  BY <1>7 DEF RecoveryDone, RecoveryInv, Busy, Unknown
<1> QED BY <1>1, <1>2, <1>3, <1>4, <1>5, <1>6, <1>7 DEF Next, Recover

LEMMA RecoveryAlways == Spec => [](TypeOK /\ IdInv /\ RecoveryInv)
BY TypeInit, TypeNext, IdInvInit, IdInvNext, RecoveryInvInit, RecoveryInvNext,
   PTL DEF Spec

(* What recovery has still to look at or to store. *)
Awaited(i) == i \in todo \/ \E f \in found : f.id = i

(* A row in the middle of a create is followed up: by its creator, by the
   recovery under way, or by the next one. *)
CreatesGoOn ==
  \A i \in Ids : rows[i].state \in {"creating", "starting"} =>
    \/ daemon = "up" /\ \E t \in Threads : Creating(t) /\ h[t].id = i
    \/ daemon = "recovering" /\ Awaited(i)
    \/ daemon = "down"

LEMMA CreatesGoOnInit == Init => CreatesGoOn
BY DEF Init, CreatesGoOn, NoRow

(* A step that leaves the creators and the daemon where they are, and makes no
   row creating or starting, keeps every such row followed up. *)
LEMMA CreatesGoOnQuietly ==
  ASSUME CreatesGoOn,
         UNCHANGED <<daemon, todo, found>>,
         \A t \in Threads : Creating(t) => Creating(t)' /\ h'[t].id = h[t].id,
         \A i \in Ids : rows'[i].state \in {"creating", "starting"} =>
           \/ rows[i].state \in {"creating", "starting"}
           \/ daemon = "up" /\ \E t \in Threads : Creating(t) /\ h[t].id = i
  PROVE  CreatesGoOn'
BY DEF CreatesGoOn, Awaited

LEMMA SetStateRow ==
  ASSUME TypeOK, NEW i \in Ids, NEW s, SetState(i, s)
  PROVE  /\ \A j \in Ids : j # i => rows'[j] = rows[j]
         /\ Listed(i) => rows'[i].state = s
         /\ ~Listed(i) => rows'[i] = rows[i]
         /\ rows'[i].ws = rows[i].ws
BY DEF SetState, TypeOK, Rows

LEMMA CreatesGoOnNext ==
  ASSUME TypeOK, IdInv, RecoveryInv, CreatesGoOn, ~Unheeded, [Next]_vars
  PROVE  CreatesGoOn'
<1>h. \A t \in Threads : h[t].id \in Ids
  BY HandlerFields
<1>1. ASSUME NEW t \in Threads, Create(t) PROVE CreatesGoOn'
  <2>1. /\ \A u \in Threads : u # t => h'[u] = h[u]
        /\ daemon = "up"
        /\ UNCHANGED <<daemon, todo, found>>
    BY <1>1, OneHandlerMoves DEF Others
  <2>2. CASE CreateBegin(t)
    <3>1. ~Creating(t) /\ rows' = rows
      BY <2>2 DEF CreateBegin, At, Creating, CreateSteps
    <3>2. \A u \in Threads : Creating(u) => Creating(u)' /\ h'[u].id = h[u].id
      BY <2>1, <3>1 DEF Creating
    <3> QED BY <2>1, <3>1, <3>2, CreatesGoOnQuietly
  <2>3. CASE /\ Creating(t) /\ Creating(t)' /\ h'[t].id = h[t].id
             /\ \A i \in Ids : i # h[t].id => rows'[i] = rows[i]
    <3>1. \A u \in Threads : Creating(u) => Creating(u)' /\ h'[u].id = h[u].id
      BY <2>1, <2>3 DEF Creating
    <3> QED BY <2>1, <2>3, <3>1, CreatesGoOnQuietly
  <2>4. CASE /\ rows'[h[t].id].state \notin {"creating", "starting"}
             /\ \A i \in Ids : i # h[t].id => rows'[i] = rows[i]
    <3>1. ASSUME NEW i \in Ids, rows'[i].state \in {"creating", "starting"}
          PROVE  \E u \in Threads : Creating(u)' /\ h'[u].id = i
      <4>1. i # h[t].id /\ rows[i].state \in {"creating", "starting"}
        BY <2>4, <3>1
      <4>2. PICK u \in Threads : Creating(u) /\ h[u].id = i
        BY <2>1, <4>1 DEF CreatesGoOn
      <4>3. h'[u] = h[u]
        BY <2>1, <4>1, <4>2
      <4> QED BY <4>2, <4>3 DEF Creating
    <3> QED BY <2>1, <3>1 DEF CreatesGoOn
  <2>5. CASE CreateInsert(t)
    BY <2>5, <2>3, <1>h
       DEF CreateInsert, InsertRow, At, Begin, Creating, CreateSteps, TypeOK
  <2>6. CASE CreateInsertFails(t)
    <3>1. rows' = rows /\ rows[h[t].id] = NoRow
      BY <2>6 DEF CreateInsertFails, At, IdInv, InsertTargetsFree
    <3> QED BY <3>1, <2>4 DEF NoRow
  <2>7. CASE CreateStarting(t)
    <3>1. /\ \A i \in Ids : i # h[t].id => rows'[i] = rows[i]
          /\ Creating(t) /\ \E pc \in {"workspace", "rollback_terminal"} : Goto(t, pc)
      BY <2>7, <1>h, SetStateRow DEF CreateStarting, At, Creating, CreateSteps
    <3> QED BY <3>1, <2>3 DEF Goto, TypeOK, Handlers, Creating, CreateSteps
  <2>8. CASE \/ CreateWorkspace(t) \/ CreateWindow(t) \/ CreateWindowFails(t)
             \/ CreateTerminal(t) \/ UndoKill(t) \/ DropDir(t)
             \/ RollbackTerminal(t)
    <3>1. rows' = rows /\ Creating(t)
      BY <2>8 DEF CreateWorkspace, CreateWindow, CreateWindowFails,
           CreateTerminal, UndoKill, DropDir, RollbackTerminal, At, Creating,
           CreateSteps
    <3>2. \E pc \in CreateSteps : Goto(t, pc)
      BY <2>8 DEF CreateWorkspace, CreateWindow, CreateWindowFails,
           CreateTerminal, UndoKill, DropDir, RollbackTerminal, CreateSteps
    <3> QED BY <3>1, <3>2, <2>3 DEF Goto, TypeOK, Handlers, Creating
  <2>9. CASE CreateRunning(t)
    <3>1. CASE SetState(h[t].id, "running")
      <4>1. CASE Listed(h[t].id)
        <5>1. rows'[h[t].id].state = "running"
          BY <3>1, <4>1, <1>h, SetStateRow
        <5>2. \A i \in Ids : i # h[t].id => rows'[i] = rows[i]
          BY <3>1, <1>h, SetStateRow
        <5> QED BY <5>1, <5>2, <2>4
      <4>2. CASE ~Listed(h[t].id)
        BY <3>1, <4>2, <1>h, <2>4, SetStateRow DEF Listed
      <4> QED BY <4>1, <4>2
    <3>2. CASE Goto(t, "undo_kill") /\ UNCHANGED rows
      BY <2>9, <3>2, <2>3
         DEF CreateRunning, At, Goto, TypeOK, Handlers, Creating, CreateSteps
    <3> QED BY <2>9, <3>1, <3>2 DEF CreateRunning
  <2>10. CASE RollbackRow(t)
    <3>1. RemoveRow(h[t].id)
      BY <2>10 DEF RollbackRow
    <3> QED BY <3>1, <1>h, <2>4 DEF RemoveRow, NoRow, TypeOK
  <2> QED BY <1>1, <2>2, <2>5, <2>6, <2>7, <2>8, <2>9, <2>10 DEF Create
<1>2. ASSUME NEW t \in Threads, Restart(t) \/ Delete(t) PROVE CreatesGoOn'
  <2>1. /\ \A u \in Threads : u # t => h'[u] = h[u]
        /\ UNCHANGED <<daemon, todo, found>>
    BY <1>2, OneHandlerMoves DEF Others
  <2>2. ~Creating(t)
    BY <1>2
       DEF Restart, RestartBegin, RestartKill, RestartWindow, RestartWindowFails,
           RestartState, RestartTerminal, Delete, DeleteBegin, DeleteRow,
           DeleteRowFails, DeleteTerminal, DeleteDir, DeleteKill, At, Creating,
           CreateSteps
  <2>3. \A u \in Threads : Creating(u) => Creating(u)' /\ h'[u].id = h[u].id
    BY <2>1, <2>2 DEF Creating
  <2>4. rows' = rows \/ \E s \in {"running", "deleted"} : SetState(h[t].id, s)
    BY <1>2
       DEF Restart, RestartBegin, RestartKill, RestartWindow, RestartWindowFails,
           RestartState, RestartTerminal, Delete, DeleteBegin, DeleteRow,
           DeleteRowFails, DeleteTerminal, DeleteDir, DeleteKill
  <2>5. \A i \in Ids : rows'[i].state \in {"creating", "starting"} =>
                         rows[i].state \in {"creating", "starting"}
    <3>1. CASE rows' = rows
      BY <3>1
    <3>2. ASSUME NEW s \in {"running", "deleted"}, SetState(h[t].id, s)
          PROVE  \A i \in Ids : rows'[i].state \in {"creating", "starting"} =>
                                 rows[i].state \in {"creating", "starting"}
      <4>1. /\ \A i \in Ids : i # h[t].id => rows'[i] = rows[i]
            /\ rows'[h[t].id].state = s \/ rows'[h[t].id] = rows[h[t].id]
        BY <3>2, <1>h, SetStateRow
      <4> QED BY <4>1
    <3> QED BY <2>4, <3>1, <3>2
  <2> QED BY <2>1, <2>3, <2>5, CreatesGoOnQuietly
<1>3. CASE (\E i \in Ids : AgentExit(i)) \/ Poll \/ UNCHANGED vars
  <2>1. h' = h /\ UNCHANGED <<daemon, todo, found>>
    BY <1>3 DEF AgentExit, Poll, PollSnapshot, PollReconcile, PollMark, vars,
                Others
  <2>2. rows' = rows \/ \E i \in Ids : SetState(i, "exited")
    BY <1>3 DEF AgentExit, Poll, PollSnapshot, PollReconcile, PollMark, vars, disk
  <2>3. \A i \in Ids : rows'[i].state \in {"creating", "starting"} =>
                         rows[i].state \in {"creating", "starting"}
    BY <2>2, SetStateRow
  <2> QED BY <2>1, <2>3, CreatesGoOnQuietly DEF Creating
<1>4. CASE Crash
  BY <1>4 DEF Crash, CreatesGoOn
<1>5. CASE Start
  <2>1. rows' = rows /\ todo' = {i \in Ids : Listed(i)} /\ daemon' = "recovering"
    BY <1>5 DEF Start, disk
  <2> QED BY <2>1 DEF CreatesGoOn, Awaited, Listed
<1>6. ASSUME NEW i \in Ids, RecoverAdopt(i) PROVE CreatesGoOn'
  <2>1. /\ daemon = "recovering" /\ daemon' = daemon /\ rows' = rows
        /\ found = {} /\ \A j \in todo : j = i \/ j \in todo'
        /\ \E f \in found' : f.id = i
    BY <1>6 DEF RecoverAdopt, disk, Unknown
  <2> QED BY <2>1 DEF CreatesGoOn, Awaited
<1>7. ASSUME NEW i \in Ids, RecoverState(i) PROVE CreatesGoOn'
  <2>1. PICK f \in found : f.id = i /\ SetState(i, f.state)
    BY <1>7 DEF RecoverState
  <2>2. /\ daemon = "recovering" /\ UNCHANGED <<daemon, todo>>
        /\ \A g \in found : g.id = i
        /\ f.state \in {"running", "exited", "unreachable"}
    BY <1>7, <2>1 DEF RecoverState, RecoveryInv, TypeOK
  <2>3. rows'[i].state \notin {"creating", "starting"}
    BY <2>1, <2>2, SetStateRow DEF Listed
  <2>4. \A j \in Ids : j # i => rows'[j] = rows[j]
    BY <2>1, SetStateRow
  <2> QED BY <2>2, <2>3, <2>4 DEF CreatesGoOn, Awaited
<1>8. CASE RecoveryDone
  <2>1. ~(\E i \in Ids : Awaited(i)) /\ daemon = "recovering" /\ rows' = rows
    BY <1>8 DEF RecoveryDone, Awaited, Unknown, disk
  <2> QED BY <2>1 DEF CreatesGoOn
<1> QED BY <1>1, <1>2, <1>3, <1>4, <1>5, <1>6, <1>7, <1>8 DEF Next, Recover

(* While clients are served, a row still Creating or Starting has its create in
   progress, whatever failed and wherever the daemon died, as long as the
   statements whose errors the code drops (a rollback's, recovery's) succeed. *)
THEOREM CreatesAreNotAbandoned ==
  ASSUME ~Unheeded
  PROVE  Spec => []NoAbandonedCreate
<1>1. TypeOK /\ IdInv /\ RecoveryInv /\ CreatesGoOn /\ [Next]_vars => CreatesGoOn'
  BY CreatesGoOnNext
<1>2. CreatesGoOn => NoAbandonedCreate
  BY DEF CreatesGoOn, NoAbandonedCreate
<1> QED BY <1>1, <1>2, CreatesGoOnInit, RecoveryAlways, PTL DEF Spec

-----------------------------------------------------------------------------
(* Terminals.  A row that is not listed stays so unless a create is about to
   insert it, and no create inserts a row that a delete has been past. *)

LEMMA UnlistedStays ==
  ASSUME TypeOK, NEW i \in Ids, ~Listed(i), RowStep,
         \A t \in Threads : h[t].pc = "insert" => h[t].id # i
  PROVE  ~Listed(i)'
<1>1. CASE rows' = rows
  BY <1>1 DEF Listed
<1>2. ASSUME NEW j \in Ids, NEW s, SetState(j, s) PROVE ~Listed(i)'
  BY <1>2 DEF SetState, Listed, TypeOK
<1>3. ASSUME NEW t \in Threads, h[t].pc = "insert",
             InsertRow(h[t].id, h[t].name, h[t].ws)
      PROVE  ~Listed(i)'
  BY <1>3 DEF InsertRow, Listed, TypeOK
<1>4. ASSUME NEW t \in Threads, RemoveRow(h[t].id) PROVE ~Listed(i)'
  BY <1>4 DEF RemoveRow, Listed, NoRow, TypeOK
<1> QED BY <1>1, <1>2, <1>3, <1>4 DEF RowStep

Past == {"delete_terminal", "delete_dir", "delete_kill"}

DeletedForGood ==
  \A t \in Threads : h[t].pc \in Past =>
    /\ ~Listed(h[t].id)
    /\ h[t].id < nextId
    /\ \A u \in Threads : h[u].pc = "insert" => h[u].id # h[t].id

LEMMA DeletedForGoodInit == Init => DeletedForGood
BY DEF Init, DeletedForGood, Idle, Past

(* Who comes to be past a delete, and who comes to be about to insert. *)
LEMMA PastAndInserting ==
  ASSUME TypeOK, [Next]_vars, NEW u \in Threads
  PROVE  /\ h'[u].pc \in Past => \/ h[u].pc \in Past /\ h'[u].id = h[u].id
                                 \/ DeleteRow(u) /\ h'[u].id = h[u].id
         /\ h'[u].pc = "insert" => \/ h'[u] = h[u]
                                   \/ h'[u].id = nextId /\ nextId' = nextId + 1
<1>1. ASSUME NEW t \in Threads, Create(t) \/ Restart(t) \/ Delete(t), u # t
      PROVE  h'[u] = h[u]
  BY <1>1, OneHandlerMoves
<1>2. CASE Create(u)
  <2>1. CASE CreateBegin(u)
    BY <2>1 DEF CreateBegin, At, Begin, TypeOK, Past
  <2>2. CASE CreateInsert(u)
    BY <2>2 DEF CreateInsert, Begin, TypeOK, Past
  <2>3. CASE ~CreateBegin(u) /\ ~CreateInsert(u)
    <3>1. Finish(u) \/ \E pc \in CreateSteps \ {"insert"} : Goto(u, pc)
      BY <1>2, <2>3
         DEF Create, CreateInsertFails, CreateStarting, CreateWorkspace,
             CreateWindow, CreateWindowFails, CreateTerminal, CreateRunning,
             UndoKill, DropDir, RollbackTerminal, RollbackRow, CreateSteps
    <3> QED BY <3>1 DEF Finish, Goto, Idle, TypeOK, Handlers, Past, CreateSteps
  <2> QED BY <2>1, <2>2, <2>3
<1>3. CASE Restart(u)
  BY <1>3 DEF Restart, RestartBegin, RestartKill, RestartWindow,
       RestartWindowFails, RestartState, RestartTerminal, Begin, Goto, Finish,
       Idle, TypeOK, Handlers, Past
<1>4. CASE Delete(u)
  <2>1. CASE DeleteRow(u)
    BY <2>1 DEF DeleteRow, Goto, TypeOK, Handlers
  <2>2. CASE ~DeleteRow(u)
    BY <1>4, <2>2
       DEF Delete, DeleteBegin, DeleteRowFails, DeleteTerminal, DeleteDir,
           DeleteKill, At, Begin, Goto, Finish, Idle, TypeOK, Handlers, Past
  <2> QED BY <2>1, <2>2
<1>5. CASE (\E i \in Ids : AgentExit(i)) \/ Poll \/ Start \/ Recover
           \/ UNCHANGED vars
  BY <1>5, HandlersWait
<1>6. CASE Crash
  BY <1>6 DEF Crash, Idle, Past
<1> QED BY <1>1, <1>2, <1>3, <1>4, <1>5, <1>6 DEF Next

LEMMA DeletedForGoodNext ==
  ASSUME TypeOK, IdInv, DeletedForGood, [Next]_vars
  PROVE  DeletedForGood'
<1>1. RowStep
  BY EveryStepIsARowStep
<1>2. nextId \in Nat /\ nextId' \in Nat /\ nextId <= nextId'
  <2>1. nextId' = nextId \/ nextId' = nextId + 1
    BY OtherHandlersCarryOn, CreatorsPastInsertCarryOn, DaemonCarriesOn
       DEF Next, Create, CreateBegin, CreateInsert, CreatorsCarryOn
  <2> QED BY <2>1, SizesAssumption DEF TypeOK
<1>3. \A t \in Threads : h[t].id \in Ids /\ h[t].id \in Nat
  BY HandlerFields DEF Ids
<1> SUFFICES ASSUME NEW t \in Threads, h'[t].pc \in Past
             PROVE  /\ rows'[h'[t].id].state \in {"absent", "deleted"}
                    /\ h'[t].id < nextId'
                    /\ \A u \in Threads : h'[u].pc = "insert" => h'[u].id # h'[t].id
  BY DEF DeletedForGood, Listed
<1>4. PICK k \in Ids : /\ k = h[t].id /\ k = h'[t].id /\ k < nextId
                       /\ \A u \in Threads : h[u].pc = "insert" => h[u].id # k
  <2>1. CASE h[t].pc \in Past /\ h'[t].id = h[t].id
    BY <2>1, <1>3 DEF DeletedForGood
  <2>2. CASE DeleteRow(t) /\ h'[t].id = h[t].id
    <3>1. rows[h[t].id] # NoRow
      BY <2>2 DEF DeleteRow, Listed, NoRow
    <3>2. h[t].id < nextId
      BY <1>2, <1>3, <3>1 DEF IdInv, FutureIdsFree
    <3> QED BY <2>2, <1>3, <3>1, <3>2 DEF IdInv, InsertTargetsFree
  <2> QED BY <2>1, <2>2, PastAndInserting
<1>5. rows'[k].state \in {"absent", "deleted"}
  <2>1. CASE h[t].pc \in Past
    <3>1. ~Listed(k)
      BY <2>1, <1>4 DEF DeletedForGood
    <3>2. ~Listed(k)'
      BY <3>1, <1>1, <1>4, UnlistedStays
    <3> QED BY <3>2 DEF Listed
  <2>2. CASE DeleteRow(t)
    BY <2>2, <1>4, SetStateRow DEF DeleteRow
  <2> QED BY <2>1, <2>2, PastAndInserting
<1>6. ASSUME NEW u \in Threads, h'[u].pc = "insert" PROVE h'[u].id # h'[t].id
  BY <1>2, <1>3, <1>4, <1>6, PastAndInserting
<1>7. rows'[h'[t].id].state \in {"absent", "deleted"}
  BY <1>4, <1>5
<1>8. h'[t].id < nextId'
  BY <1>2, <1>4 DEF Ids
<1> QED BY <1>6, <1>7, <1>8

LEMMA DeletedForGoodAlways ==
  Spec => [](TypeOK /\ IdInv /\ RecoveryInv /\ DeletedForGood)
BY RecoveryAlways, DeletedForGoodInit, DeletedForGoodNext, PTL DEF Spec

(* A create about to report Running has given its session a terminal, unless
   the session was deleted under it; what recovery found running has one; and
   every running row has one, or a request or recovery that will give it one. *)
ReadyToRun ==
  \A t \in Threads : h[t].pc = "running" =>
    h[t].id \in terminals \/ ~Listed(h[t].id)
FoundGiven == \A f \in found : f.state = "running" => f.id \in terminals
Serves(t, i) == h[t].id = i /\ (Creating(t) \/ h[t].pc = "restart_terminal")
RunningServed ==
  \A i \in Ids : rows[i].state = "running" =>
    \/ i \in terminals
    \/ daemon = "up" /\ \E t \in Threads : Serves(t, i)
    \/ daemon = "recovering" /\ Awaited(i)
    \/ daemon = "down"

TerminalsGiven == ReadyToRun /\ FoundGiven /\ RunningServed

LEMMA TerminalsGivenInit == Init => TerminalsGiven
BY DEF Init, TerminalsGiven, ReadyToRun, FoundGiven, RunningServed, Idle,
       Unknown, NoRow

(* Who takes a terminal away. *)
LEMMA TerminalTaken ==
  ASSUME [Next]_vars, NEW i \in terminals
  PROVE  \/ i \in terminals'
         \/ Crash
         \/ \E t \in Threads : h[t].id = i /\ (RollbackTerminal(t) \/ DeleteTerminal(t))
<1>1. ASSUME NEW t \in Threads, Create(t), ~RollbackTerminal(t)
      PROVE  i \in terminals'
  BY <1>1 DEF Create, CreateBegin, CreateInsert, CreateInsertFails,
       CreateStarting, CreateWorkspace, CreateWindow, CreateWindowFails,
       CreateTerminal, CreateRunning, UndoKill, DropDir, RollbackRow
<1>2. ASSUME NEW t \in Threads, Restart(t) PROVE i \in terminals'
  BY <1>2 DEF Restart, RestartBegin, RestartKill, RestartWindow,
       RestartWindowFails, RestartState, RestartTerminal
<1>3. ASSUME NEW t \in Threads, Delete(t), ~DeleteTerminal(t)
      PROVE  i \in terminals'
  BY <1>3 DEF Delete, DeleteBegin, DeleteRow, DeleteRowFails, DeleteDir,
       DeleteKill
<1>4. ASSUME NEW t \in Threads, RollbackTerminal(t) \/ DeleteTerminal(t)
      PROVE  i \in terminals' \/ h[t].id = i
  BY <1>4 DEF RollbackTerminal, DeleteTerminal
<1>5. CASE (\E j \in Ids : AgentExit(j)) \/ Poll \/ Start \/ Recover
           \/ UNCHANGED vars
  BY <1>5 DEF AgentExit, Poll, PollSnapshot, PollReconcile, PollMark, Start,
       Recover, RecoverAdopt, RecoverState, RecoveryDone, vars
<1> QED BY <1>1, <1>2, <1>3, <1>4, <1>5 DEF Next

(* A handler comes to its last update of the row by inserting the terminal. *)
LEMMA ComesToRunning ==
  ASSUME TypeOK, [Next]_vars, NEW t \in Threads, h'[t].pc = "running"
  PROVE  h'[t] = h[t] \/ (CreateTerminal(t) /\ h'[t].id = h[t].id)
<1>1. ASSUME NEW u \in Threads, Create(u) \/ Restart(u) \/ Delete(u), u # t
      PROVE  h'[t] = h[t]
  BY <1>1, OneHandlerMoves
<1>2. CASE Create(t)
  <2>1. CASE CreateTerminal(t)
    BY <2>1 DEF CreateTerminal, Goto, TypeOK, Handlers
  <2>2. CASE CreateBegin(t) \/ CreateInsert(t)
    BY <2>2 DEF CreateBegin, CreateInsert, Begin, At, TypeOK
  <2>3. CASE ~CreateTerminal(t) /\ ~CreateBegin(t) /\ ~CreateInsert(t)
    <3>1. Finish(t) \/ \E pc \in CreateSteps \ {"running"} : Goto(t, pc)
      BY <1>2, <2>3
         DEF Create, CreateInsertFails, CreateStarting, CreateWorkspace,
             CreateWindow, CreateWindowFails, CreateRunning,
             UndoKill, DropDir, RollbackTerminal, RollbackRow, CreateSteps
    <3> QED BY <3>1 DEF Finish, Goto, Idle, TypeOK, Handlers
  <2> QED BY <2>1, <2>2, <2>3
<1>3. CASE Restart(t) \/ Delete(t)
  BY <1>3
     DEF Restart, RestartBegin, RestartKill, RestartWindow,
         RestartWindowFails, RestartState, RestartTerminal, Delete,
         DeleteBegin, DeleteRow, DeleteRowFails, DeleteTerminal, DeleteDir,
         DeleteKill, Begin, Goto, Finish, Idle, TypeOK, Handlers
<1>4. CASE (\E i \in Ids : AgentExit(i)) \/ Poll \/ Start \/ Recover
           \/ UNCHANGED vars
  BY <1>4, HandlersWait
<1>5. CASE Crash
  BY <1>5 DEF Crash, Idle
<1> QED BY <1>1, <1>2, <1>3, <1>4, <1>5 DEF Next

LEMMA ReadyToRunNext ==
  ASSUME TypeOK, IdInv, DeletedForGood, ReadyToRun, [Next]_vars
  PROVE  ReadyToRun'
<1>h. \A t \in Threads : h[t].id \in Ids
  BY HandlerFields
<1> SUFFICES ASSUME NEW t \in Threads, h'[t].pc = "running"
             PROVE  \/ h'[t].id \in terminals'
                    \/ rows'[h'[t].id].state \in {"absent", "deleted"}
  BY DEF ReadyToRun, Listed
<1>1. PICK k \in Ids : k = h[t].id /\ k = h'[t].id
  BY <1>h, ComesToRunning
<1>2. CASE CreateTerminal(t)
  BY <1>1, <1>2 DEF CreateTerminal
<1>3. CASE h'[t] = h[t]
  <2>1. Creating(t)
    BY <1>3 DEF Creating, CreateSteps
  <2>2. \A u \in Threads : Creating(u) /\ h[u].id = k => u = t
    BY <1>1, <2>1 DEF IdInv, CreatorsDistinct
  <2>3. CASE ~Listed(k)
    <3>1. \A u \in Threads : h[u].pc = "insert" => h[u].id # k
      BY <1>3, <2>2 DEF Creating, CreateSteps
    <3>2. ~Listed(k)'
      BY <2>3, <3>1, EveryStepIsARowStep, UnlistedStays
    <3> QED BY <1>1, <3>2 DEF Listed
  <2>4. CASE k \in terminals /\ Listed(k)
    <3>1. ~Crash
      BY DEF Crash, Idle
    <3>2. \A u \in Threads : ~(h[u].id = k /\ RollbackTerminal(u))
      BY <1>3, <2>2 DEF RollbackTerminal, At, Creating, CreateSteps
    <3>3. \A u \in Threads : ~(h[u].id = k /\ DeleteTerminal(u))
      BY <2>4 DEF DeleteTerminal, At, DeletedForGood, Past
    <3> QED BY <1>1, <2>4, <3>1, <3>2, <3>3, TerminalTaken
  <2> QED BY <1>1, <1>3, <2>3, <2>4 DEF ReadyToRun
<1> QED BY <1>2, <1>3, ComesToRunning

LEMMA FoundGivenNext ==
  ASSUME TypeOK, RecoveryInv, FoundGiven, [Next]_vars
  PROVE  FoundGiven'
<1>1. ASSUME NEW t \in Threads, Create(t) \/ Restart(t) \/ Delete(t)
      PROVE  FoundGiven'
  BY <1>1, OneHandlerMoves DEF Others, RecoveryInv, FoundGiven
<1>2. CASE (\E i \in Ids : AgentExit(i)) \/ Poll \/ Start \/ UNCHANGED vars
  BY <1>2 DEF AgentExit, Poll, PollSnapshot, PollReconcile, PollMark, Start,
              vars, Others, FoundGiven
<1>3. CASE Crash
  BY <1>3 DEF Crash, FoundGiven, Unknown
<1>4. CASE Recover
  BY <1>4 DEF Recover, RecoverAdopt, RecoverState, RecoveryDone, FoundGiven,
              Unknown
<1> QED BY <1>1, <1>2, <1>3, <1>4 DEF Next

LEMMA RunningServedNext ==
  ASSUME TypeOK, IdInv, RecoveryInv, DeletedForGood, TerminalsGiven, ~Unheeded,
         [Next]_vars
  PROVE  RunningServed'
<1>h. \A t \in Threads : h[t].id \in Ids
  BY HandlerFields
<1> SUFFICES ASSUME NEW i \in Ids, rows'[i].state = "running"
             PROVE  \/ i \in terminals'
                    \/ daemon' = "up" /\ \E t \in Threads : Serves(t, i)'
                    \/ daemon' = "recovering" /\ Awaited(i)'
                    \/ daemon' = "down"
  BY DEF RunningServed
<1>r. \/ i \in terminals
      \/ daemon = "up" /\ \E t \in Threads : Serves(t, i)
      \/ daemon = "recovering" /\ Awaited(i)
      \/ daemon = "down"
      \/ rows[i].state # "running"
  BY DEF TerminalsGiven, RunningServed
<1>1. ASSUME NEW t \in Threads, Create(t)
      PROVE  i \in terminals' \/ \E u \in Threads : Serves(u, i)'
  <2>1. daemon = "up" /\ \A u \in Threads : u # t => h'[u] = h[u]
    BY <1>1, OneHandlerMoves
  <2>2. ASSUME NEW u \in Threads, u # t, Serves(u, i)
        PROVE  Serves(u, i)'
    BY <2>1, <2>2 DEF Serves, Creating
  <2>3. CASE Creating(t)' /\ h'[t].id = h[t].id /\ h[t].id = i
    BY <2>3 DEF Serves
  <2>4. CASE CreateBegin(t)
    <3>1. ~Serves(t, i) /\ rows' = rows /\ terminals' = terminals
      BY <2>4 DEF CreateBegin, At, Serves, Creating, CreateSteps
    <3> QED BY <1>r, <2>1, <2>2, <3>1
  <2>5. CASE CreateRunning(t) /\ h[t].id = i
    <3>1. CASE SetState(i, "running") /\ Listed(i)
      BY <2>5, <3>1 DEF CreateRunning, At, TerminalsGiven, ReadyToRun
    <3>2. CASE Goto(t, "undo_kill")
      BY <2>3, <2>5, <3>2 DEF Goto, Creating, CreateSteps, TypeOK, Handlers
    <3>3. CASE SetState(i, "running") /\ ~Listed(i)
      BY <3>3, SetStateRow DEF Listed
    <3> QED BY <2>5, <3>1, <3>2, <3>3 DEF CreateRunning
  <2>6. CASE CreateInsertFails(t) /\ h[t].id = i
    BY <2>6 DEF CreateInsertFails, At, IdInv, InsertTargetsFree, NoRow
  <2>7. CASE RollbackRow(t) /\ h[t].id = i
    BY <2>7 DEF RollbackRow, RemoveRow, NoRow, TypeOK
  <2>8. CASE /\ ~CreateBegin(t) /\ ~CreateRunning(t) /\ ~CreateInsertFails(t)
             /\ ~RollbackRow(t) /\ h[t].id = i
    <3>1. Creating(t)' /\ h'[t].id = i
      <4>1. CASE CreateInsert(t)
        BY <2>8, <4>1 DEF CreateInsert, Begin, Creating, CreateSteps, TypeOK
      <4>2. CASE \E pc \in CreateSteps : Goto(t, pc)
        BY <2>8, <4>2 DEF Goto, Creating, TypeOK, Handlers
      <4> QED BY <1>1, <2>8, <4>1, <4>2
           DEF Create, CreateStarting, CreateWorkspace, CreateWindow,
               CreateWindowFails, CreateTerminal, UndoKill, DropDir,
               RollbackTerminal, CreateSteps
    <3> QED BY <3>1 DEF Serves
  <2>9. CASE ~CreateBegin(t) /\ h[t].id # i
    <3>1. ~Serves(t, i)
      BY <2>9 DEF Serves
    <3>2. rows[i].state = "running"
      <4>1. rows'[i] = rows[i]
        BY <1>1, <1>h, <2>9, SetStateRow
           DEF Create, CreateInsert, CreateInsertFails, CreateStarting,
               CreateWorkspace, CreateWindow, CreateWindowFails,
               CreateTerminal, CreateRunning, UndoKill, DropDir,
               RollbackTerminal, RollbackRow, InsertRow, RemoveRow, TypeOK
      <4> QED BY <4>1
    <3>3. i \in terminals => i \in terminals'
      BY <1>1, <2>9
         DEF Create, CreateInsert, CreateInsertFails, CreateStarting,
             CreateWorkspace, CreateWindow, CreateWindowFails,
             CreateTerminal, CreateRunning, UndoKill, DropDir,
             RollbackTerminal, RollbackRow
    <3> QED BY <1>r, <2>1, <2>2, <3>1, <3>2, <3>3
  <2> QED BY <2>4, <2>5, <2>6, <2>7, <2>8, <2>9
<1>2. ASSUME NEW t \in Threads, Restart(t)
      PROVE  i \in terminals' \/ \E u \in Threads : Serves(u, i)'
  <2>1. daemon = "up" /\ \A u \in Threads : u # t => h'[u] = h[u]
    BY <1>2, OneHandlerMoves
  <2>2. ASSUME NEW u \in Threads, u # t, Serves(u, i)
        PROVE  Serves(u, i)'
    BY <2>1, <2>2 DEF Serves, Creating
  <2>3. terminals \subseteq terminals'
    BY <1>2 DEF Restart, RestartBegin, RestartKill, RestartWindow,
         RestartWindowFails, RestartState, RestartTerminal
  <2>4. CASE RestartState(t) /\ h[t].id = i
    BY <2>4 DEF RestartState, Goto, Serves, TypeOK, Handlers
  <2>5. CASE ~(RestartState(t) /\ h[t].id = i)
    <3>1. rows[i].state = "running"
      <4>1. rows' = rows \/ (RestartState(t) /\ h[t].id # i)
        BY <1>2, <2>5 DEF Restart, RestartBegin, RestartKill, RestartWindow,
             RestartWindowFails, RestartTerminal
      <4>2. RestartState(t) /\ h[t].id # i => rows'[i] = rows[i]
        BY <1>h, SetStateRow DEF RestartState
      <4> QED BY <4>1, <4>2
    <3>2. CASE Serves(t, i)
      <4>1. RestartTerminal(t)
        BY <1>2, <3>2 DEF Serves, Creating, CreateSteps, Restart, RestartBegin,
             RestartKill, RestartWindow, RestartWindowFails, RestartState, At
      <4> QED BY <3>2, <4>1 DEF RestartTerminal, Serves
    <3> QED BY <1>r, <2>1, <2>2, <2>3, <3>1, <3>2
  <2> QED BY <2>4, <2>5
<1>3. ASSUME NEW t \in Threads, Delete(t)
      PROVE  i \in terminals' \/ \E u \in Threads : Serves(u, i)'
  <2>1. daemon = "up" /\ \A u \in Threads : u # t => h'[u] = h[u]
    BY <1>3, OneHandlerMoves
  <2>2. ~Serves(t, i)
    BY <1>3 DEF Delete, DeleteBegin, DeleteRow, DeleteRowFails, DeleteTerminal,
         DeleteDir, DeleteKill, At, Serves, Creating, CreateSteps
  <2>3. ASSUME NEW u \in Threads, u # t, Serves(u, i)
        PROVE  Serves(u, i)'
    BY <2>1, <2>3 DEF Serves, Creating
  <2>4. rows[i].state = "running"
    <3>1. CASE DeleteRow(t)
      BY <1>h, <3>1, SetStateRow DEF DeleteRow
    <3>2. CASE rows' = rows
      BY <3>2
    <3> QED BY <1>3, <3>1, <3>2
         DEF Delete, DeleteBegin, DeleteRowFails, DeleteTerminal, DeleteDir,
             DeleteKill
  <2>5. i \in terminals => i \in terminals'
    <3>1. CASE DeleteTerminal(t)
      <4>1. h[t].id # i
        BY <2>4, <3>1 DEF DeleteTerminal, At, DeletedForGood, Past, Listed
      <4> QED BY <3>1, <4>1 DEF DeleteTerminal
    <3>2. CASE terminals' = terminals
      BY <3>2
    <3> QED BY <1>3, <3>1, <3>2
         DEF Delete, DeleteBegin, DeleteRow, DeleteRowFails, DeleteDir,
             DeleteKill
  <2> QED BY <1>r, <2>1, <2>2, <2>3, <2>4, <2>5
<1>4. CASE (\E j \in Ids : AgentExit(j)) \/ Poll \/ UNCHANGED vars
  <2>1. /\ UNCHANGED <<terminals, h, daemon, todo, found>>
        /\ \/ rows' = rows \/ \E j \in Ids : PollMark(j)
    BY <1>4 DEF AgentExit, Poll, PollSnapshot, PollReconcile, PollMark, vars,
         Others, disk
  <2>2. rows[i].state = "running"
    BY <2>1, SetStateRow DEF PollMark
  <2> QED BY <1>r, <2>1, <2>2 DEF Serves, Creating, Awaited
<1>5. CASE Crash
  BY <1>5 DEF Crash
<1>6. CASE Start
  <2>1. daemon' = "recovering" /\ todo' = {j \in Ids : Listed(j)} /\ rows' = rows
    BY <1>6 DEF Start, disk
  <2> QED BY <2>1 DEF Listed, Awaited
<1>7. ASSUME NEW j \in Ids, RecoverAdopt(j)
      PROVE  i \in terminals' \/ (daemon' = "recovering" /\ Awaited(i)')
  <2>1. /\ daemon = "recovering" /\ daemon' = daemon /\ rows' = rows
        /\ found = {} /\ todo' = todo \ {j} /\ terminals \subseteq terminals'
        /\ \E s \in {"running", "exited", "unreachable"} : found' = {[id |-> j, state |-> s]}
    BY <1>7 DEF RecoverAdopt, disk, Unknown
  <2>2. j = i => \E f \in found' : f.id = i
    BY <2>1
  <2>3. i \in terminals \/ i \in todo
    BY <1>r, <2>1 DEF Awaited
  <2> QED BY <2>1, <2>2, <2>3 DEF Awaited
<1>8. ASSUME NEW j \in Ids, RecoverState(j)
      PROVE  i \in terminals' \/ (daemon' = "recovering" /\ Awaited(i)')
  <2>1. PICK f \in found : f.id = j /\ SetState(j, f.state)
    BY <1>8 DEF RecoverState
  <2>2. /\ daemon = "recovering" /\ UNCHANGED <<daemon, todo, terminals>>
        /\ \A g \in found : g = f
    BY <1>8, <2>1 DEF RecoverState, RecoveryInv
  <2>3. CASE j = i /\ Listed(i)
    <3>1. f.state = "running"
      BY <2>1, <2>3, SetStateRow
    <3> QED BY <2>1, <2>2, <2>3, <3>1 DEF TerminalsGiven, FoundGiven
  <2>4. CASE j = i /\ ~Listed(i)
    BY <2>1, <2>4, SetStateRow DEF Listed
  <2>5. CASE j # i
    <3>1. rows[i].state = "running"
      BY <2>1, <2>5, SetStateRow
    <3>2. i \in terminals \/ i \in todo
      BY <1>r, <2>1, <2>2, <2>5, <3>1 DEF Awaited
    <3> QED BY <2>2, <3>2 DEF Awaited
  <2> QED BY <2>3, <2>4, <2>5
<1>9. CASE RecoveryDone
  <2>1. /\ daemon = "recovering" /\ todo = {} /\ found = {}
        /\ rows' = rows /\ terminals' = terminals
    BY <1>9 DEF RecoveryDone, Unknown, disk
  <2> QED BY <1>r, <2>1 DEF Awaited
<1>u. ASSUME NEW t \in Threads, Create(t) \/ Restart(t) \/ Delete(t)
      PROVE  daemon' = "up"
  BY <1>u, OneHandlerMoves DEF Others
<1> QED BY <1>1, <1>2, <1>3, <1>4, <1>5, <1>6, <1>7, <1>8, <1>9, <1>u
        DEF Next, Recover

(* While clients are served, a session reported Running that no request is
   working on has a terminal, whatever requests, agents, the poller, crashes
   and recoveries interleave, as long as the statements whose errors the code
   drops succeed. *)
THEOREM RunningSessionsHaveTerminals ==
  ASSUME ~Unheeded
  PROVE  Spec => []RunningHasTerminal
<1>1. /\ TypeOK /\ IdInv /\ RecoveryInv /\ DeletedForGood
      /\ TerminalsGiven /\ [Next]_vars
      => TerminalsGiven'
  BY ReadyToRunNext, FoundGivenNext, RunningServedNext DEF TerminalsGiven
<1>2. TypeOK /\ TerminalsGiven => RunningHasTerminal
  BY DEF TypeOK, TerminalsGiven, RunningServed, RunningHasTerminal, Serves,
         Creating, WorkingOn, Busy, CreateSteps
<1> QED BY <1>1, <1>2, TerminalsGivenInit, DeletedForGoodAlways, PTL DEF Spec

-----------------------------------------------------------------------------
(* The poller.  A session its snapshot did not show, and a session it is about
   to mark, has no window, or has one opened since that snapshot. *)

Missed(i) == (poll.pc = "reconcile" /\ i \notin poll.live) \/ i \in poll.victims

VictimsGone ==
  /\ poll.pc # "mark" => poll.victims = {}
  /\ \A i \in Ids : Missed(i) => windows[i] = 0 \/ i \in fresh

LEMMA VictimsGoneInit == Init => VictimsGone
BY DEF Init, VictimsGone, PollIdle

(* A window that was not there is opened in sight of fresh. *)
LEMMA OpenWindowIsFresh ==
  ASSUME TypeOK, NEW j \in Ids, OpenWindow(j), NEW i \in Ids,
         windows[i] = 0 \/ i \in fresh
  PROVE  windows'[i] = 0 \/ i \in fresh'
BY DEF OpenWindow, TypeOK

LEMMA KillWindowKeepsGone ==
  ASSUME TypeOK, NEW j \in Ids, KillWindow(j), NEW i \in Ids, windows[i] = 0
  PROVE  windows'[i] = 0
BY DEF KillWindow, TypeOK

LEMMA GoneOrFresh ==
  ASSUME TypeOK, [Next]_vars, ~PollSnapshot, ~Crash, NEW i \in Ids,
         windows[i] = 0 \/ i \in fresh
  PROVE  windows'[i] = 0 \/ i \in fresh'
<1>1. ASSUME NEW t \in Threads, Create(t) \/ Restart(t) \/ Delete(t)
      PROVE  windows'[i] = 0 \/ i \in fresh'
  <2>h. h[t].id \in Ids
    BY HandlerFields
  <2>1. CASE OpenWindow(h[t].id)
    BY <2>h, <2>1, OpenWindowIsFresh
  <2>2. CASE KillWindow(h[t].id) /\ fresh' = fresh
    BY <2>h, <2>2, KillWindowKeepsGone
  <2>3. CASE windows' = windows /\ fresh' = fresh
    BY <2>3
  <2> QED BY <1>1, <2>1, <2>2, <2>3
      DEF Create, CreateBegin, CreateInsert, CreateInsertFails, CreateStarting,
          CreateWorkspace, CreateWindow, CreateWindowFails, CreateTerminal,
          CreateRunning, UndoKill, DropDir, RollbackTerminal, RollbackRow,
          Restart, RestartBegin, RestartKill, RestartWindow, RestartWindowFails,
          RestartState, RestartTerminal, Delete, DeleteBegin, DeleteRow,
          DeleteRowFails, DeleteTerminal, DeleteDir, DeleteKill
<1>2. ASSUME NEW j \in Ids, AgentExit(j) PROVE windows'[i] = 0 \/ i \in fresh'
  BY <1>2 DEF AgentExit, TypeOK
<1>3. CASE windows' = windows /\ fresh' = fresh
  BY <1>3
<1> QED BY <1>1, <1>2, <1>3
    DEF Next, Poll, PollReconcile, PollMark, Start, Recover, RecoverAdopt,
        RecoverState, RecoveryDone, vars

LEMMA VictimsGoneNext ==
  ASSUME TypeOK, VictimsGone, [Next]_vars
  PROVE  VictimsGone'
<1>1. CASE PollSnapshot
  BY <1>1 DEF PollSnapshot, VictimsGone, Missed, TypeOK
<1>2. CASE Crash
  BY <1>2 DEF Crash, PollIdle, VictimsGone, Missed
<1>3. CASE ~PollSnapshot /\ ~Crash
  <2> SUFFICES /\ poll'.pc # "mark" => poll'.victims = {}
               /\ \A i \in Ids : Missed(i)' => Missed(i)
    BY <1>3, GoneOrFresh DEF VictimsGone
  <2>1. CASE PollReconcile
    BY <2>1 DEF PollReconcile, PollIdle, Missed, TypeOK
  <2>2. ASSUME NEW j \in Ids, PollMark(j)
        PROVE  /\ poll'.pc # "mark" => poll'.victims = {}
               /\ \A i \in Ids : Missed(i)' => Missed(i)
    BY <2>2 DEF PollMark, PollIdle, Missed, TypeOK
  <2>3. CASE poll' = poll
    BY <2>3 DEF VictimsGone, Missed
  <2> QED BY <1>3, <2>1, <2>2, <2>3, OneHandlerMoves
      DEF Next, AgentExit, Poll, Start, Recover, RecoverAdopt, RecoverState,
          RecoveryDone, vars, Others
<1> QED BY <1>1, <1>2, <1>3

(* While clients are served only the poller reports a session Exited. *)
LEMMA ReportedByThePoller ==
  ASSUME TypeOK, [Next]_vars, NEW i \in Ids, daemon = "up",
         rows[i].state = "running", rows'[i].state = "exited"
  PROVE  i \in poll.victims
<1>h. \A t \in Threads : h[t].id \in Ids
  BY HandlerFields
<1>1. ASSUME NEW t \in Threads, Create(t) PROVE FALSE
  <2>1. CASE CreateInsert(t)
    BY <1>h, <2>1 DEF CreateInsert, InsertRow, TypeOK
  <2>2. CASE RollbackRow(t)
    BY <1>h, <2>2 DEF RollbackRow, RemoveRow, NoRow, TypeOK
  <2>3. CASE CreateStarting(t) \/ CreateRunning(t)
    BY <1>h, <2>3, SetStateRow DEF CreateStarting, CreateRunning
  <2> QED BY <1>1, <2>1, <2>2, <2>3
      DEF Create, CreateBegin, CreateInsertFails, CreateWorkspace, CreateWindow,
          CreateWindowFails, CreateTerminal, UndoKill, DropDir,
          RollbackTerminal
<1>2. ASSUME NEW t \in Threads, Restart(t) \/ Delete(t) PROVE FALSE
  <2>1. CASE RestartState(t) \/ DeleteRow(t)
    BY <1>h, <2>1, SetStateRow DEF RestartState, DeleteRow
  <2> QED BY <1>2, <2>1
      DEF Restart, RestartBegin, RestartKill, RestartWindow, RestartWindowFails,
          RestartTerminal, Delete, DeleteBegin, DeleteRowFails, DeleteTerminal,
          DeleteDir, DeleteKill
<1>3. ASSUME NEW j \in Ids, PollMark(j) PROVE i \in poll.victims
  BY <1>3, SetStateRow DEF PollMark
<1> QED BY <1>1, <1>2, <1>3
    DEF Next, AgentExit, Poll, PollSnapshot, PollReconcile, Crash, Start,
        Recover, RecoverAdopt, RecoverState, RecoveryDone, disk, vars

(* The poller's mark is by id alone and late by any number of steps of anyone,
   and still hits no session whose window has been there since before the
   snapshot the mark was decided from. *)
THEOREM LongLivedSessionsNotReportedDead == Spec => LongLivedNotReportedDead
<1>1. TypeOK /\ VictimsGone /\ [Next]_vars =>
        [\A i \in Ids :
           daemon = "up" /\ rows[i].state = "running" /\ rows'[i].state = "exited"
           => windows[i] = 0 \/ i \in fresh]_vars
  BY ReportedByThePoller DEF VictimsGone, Missed
<1>2. TypeOK /\ VictimsGone /\ [Next]_vars => VictimsGone'
  BY VictimsGoneNext
<1> QED BY <1>1, <1>2, TypeInit, TypeNext, VictimsGoneInit, PTL
        DEF Spec, LongLivedNotReportedDead

-----------------------------------------------------------------------------
(* Requests for one session that do not overlap. *)

LEMMA ApartStep == [Next /\ Apart']_vars => [Next]_vars
OBVIOUS

LEMMA ApartInit == Init => Apart
BY DEF Init, Apart, Busy, Idle

LEMMA ApartNext == Apart /\ [Next /\ Apart']_vars => Apart'
BY DEF Apart, Busy, Creating, vars

(* No two handlers work on one session: creates neither, as their ids differ. *)
OnePerSession ==
  \A t, u \in Threads : Busy(t) /\ Busy(u) /\ h[t].id = h[u].id => t = u

LEMMA ApartMeans == IdInv /\ Apart => OnePerSession
BY DEF IdInv, CreatorsDistinct, Apart, OnePerSession

LEMMA IdInvApart == ApartSpec => [](TypeOK /\ IdInv /\ OnePerSession)
BY TypeInit, TypeNext, IdInvInit, IdInvNext, ApartInit, ApartNext, ApartStep,
   ApartMeans, PTL DEF ApartSpec

(* What moves a handler, hides a row, changes its workspace, or adds a window. *)

LEMMA WhoMoves ==
  ASSUME TypeOK, [Next]_vars, NEW t \in Threads, h'[t] # h[t]
  PROVE  \/ Create(t) \/ Restart(t) \/ Delete(t)
         \/ Crash /\ h'[t] = Idle
<1>1. ASSUME NEW u \in Threads, Create(u) \/ Restart(u) \/ Delete(u)
      PROVE  u = t
  BY <1>1, OneHandlerMoves
<1>2. Crash => h'[t] = Idle
  BY DEF Crash
<1> QED BY <1>1, <1>2, HandlersWait DEF Next

LEMMA WhoHides ==
  ASSUME TypeOK, [Next]_vars, NEW i \in Ids, Listed(i)
  PROVE  \/ Listed(i)'
         \/ \E t \in Threads : h[t].id = i /\ (DeleteRow(t) \/ RollbackRow(t))
<1>h. \A t \in Threads : h[t].id \in Ids
  BY HandlerFields
<1>s. ASSUME NEW j \in Ids, NEW s \in {"starting", "running", "exited", "unreachable"},
             SetState(j, s)
      PROVE  Listed(i)'
  BY <1>s DEF SetState, Listed, TypeOK
<1>1. ASSUME NEW t \in Threads, Create(t), ~(h[t].id = i /\ RollbackRow(t))
      PROVE  Listed(i)'
  <2>1. CASE CreateInsert(t)
    BY <1>h, <2>1 DEF CreateInsert, InsertRow, TypeOK, Listed
  <2>2. CASE RollbackRow(t)
    BY <1>h, <1>1, <2>2 DEF RollbackRow, RemoveRow, NoRow, TypeOK, Listed
  <2>3. CASE CreateStarting(t) \/ CreateRunning(t)
    <3>1. SetState(h[t].id, "starting") \/ SetState(h[t].id, "running") \/ rows' = rows
      BY <2>3 DEF CreateStarting, CreateRunning
    <3> QED BY <1>h, <1>s, <3>1 DEF Listed
  <2>4. CASE rows' = rows
    BY <2>4 DEF Listed
  <2> QED BY <1>1, <2>1, <2>2, <2>3, <2>4
      DEF Create, CreateBegin, CreateInsertFails, CreateWorkspace, CreateWindow,
          CreateWindowFails, CreateTerminal, UndoKill, DropDir,
          RollbackTerminal
<1>2. ASSUME NEW t \in Threads, Restart(t) PROVE Listed(i)'
  <2>1. rows' = rows \/ SetState(h[t].id, "running")
    BY <1>2 DEF Restart, RestartBegin, RestartKill, RestartWindow,
       RestartWindowFails, RestartState, RestartTerminal
  <2> QED BY <1>h, <1>s, <2>1 DEF Listed
<1>3. ASSUME NEW t \in Threads, Delete(t), ~(h[t].id = i /\ DeleteRow(t))
      PROVE  Listed(i)'
  <2>1. CASE DeleteRow(t)
    BY <1>h, <1>3, <2>1, SetStateRow DEF DeleteRow, Listed
  <2>2. CASE rows' = rows
    BY <2>2 DEF Listed
  <2> QED BY <1>3, <2>1, <2>2
      DEF Delete, DeleteBegin, DeleteRowFails, DeleteTerminal, DeleteDir,
          DeleteKill
<1>4. ASSUME NEW j \in Ids, PollMark(j) \/ RecoverState(j) PROVE Listed(i)'
  <2>1. \/ rows' = rows
        \/ \E s \in {"running", "exited", "unreachable"} : SetState(j, s)
    BY <1>4 DEF PollMark, RecoverState, TypeOK
  <2> QED BY <1>s, <2>1 DEF Listed
<1>5. CASE rows' = rows
  BY <1>5 DEF Listed
<1> QED BY <1>1, <1>2, <1>3, <1>4, <1>5
    DEF Next, AgentExit, Poll, PollSnapshot, PollReconcile, Crash, Start,
        Recover, RecoverAdopt, RecoveryDone, disk, vars

LEMMA WhoOpens ==
  ASSUME TypeOK, [Next]_vars, NEW i \in Ids
  PROVE  \/ windows'[i] <= windows[i]
         \/ /\ windows'[i] = windows[i] + 1
            /\ \E t \in Threads : h[t].id = i /\ (CreateWindow(t) \/ RestartWindow(t))
<1>h. \A j \in Ids : windows[j] \in Nat
  BY DEF TypeOK
<1>1. ASSUME NEW t \in Threads, Create(t) \/ Restart(t) \/ Delete(t),
             ~(CreateWindow(t) \/ RestartWindow(t))
      PROVE  windows'[i] <= windows[i]
  <2>1. windows' = windows \/ KillWindow(h[t].id)
    BY <1>1
    DEF Create, CreateBegin, CreateInsert, CreateInsertFails, CreateStarting,
        CreateWorkspace, CreateWindowFails, CreateTerminal,
        CreateRunning, UndoKill, DropDir, RollbackTerminal, RollbackRow,
        Restart, RestartBegin, RestartKill, RestartWindowFails,
        RestartState, RestartTerminal, Delete, DeleteBegin, DeleteRow,
        DeleteRowFails, DeleteTerminal, DeleteDir, DeleteKill
  <2>2. KillWindow(h[t].id) => windows'[i] <= windows[i]
    BY <1>h, HandlerFields DEF KillWindow, TypeOK
  <2> QED BY <1>h, <2>1, <2>2
<1>2. ASSUME NEW t \in Threads, CreateWindow(t) \/ RestartWindow(t)
      PROVE  \/ windows'[i] <= windows[i]
             \/ windows'[i] = windows[i] + 1 /\ h[t].id = i
  BY <1>h, <1>2, HandlerFields DEF CreateWindow, RestartWindow, OpenWindow, TypeOK
<1>3. ASSUME NEW j \in Ids, AgentExit(j) PROVE windows'[i] <= windows[i]
  BY <1>h, <1>3 DEF AgentExit, TypeOK
<1>4. CASE windows' = windows
  BY <1>h, <1>4
<1> QED BY <1>1, <1>2, <1>3, <1>4
    DEF Next, Poll, PollSnapshot, PollReconcile, PollMark, Crash, Start,
        Recover, RecoverAdopt, RecoverState, RecoveryDone, vars

(* A create past its insert, and a restart, work on a session in the list. *)

OnListed == (CreateSteps \ {"insert"}) \cup RestartSteps
HandlersListed == \A t \in Threads : h[t].pc \in OnListed => Listed(h[t].id)

LEMMA ComesToBeListed ==
  ASSUME TypeOK, [Next]_vars, NEW t \in Threads, h'[t] # h[t],
         h'[t].pc \in OnListed
  PROVE  \/ CreateInsert(t) /\ h'[t].id = h[t].id
         \/ /\ Listed(h'[t].id)
            /\ rows' = rows
         \/ /\ h[t].pc \in OnListed /\ h'[t].id = h[t].id
            /\ ~DeleteRow(t) /\ ~RollbackRow(t)
<1>1. CASE Create(t)
  <2>1. CASE CreateBegin(t) \/ CreateInsertFails(t) \/ RollbackRow(t)
    BY <2>1 DEF CreateBegin, CreateInsertFails, RollbackRow, Begin, Finish,
         Idle, OnListed, CreateSteps, RestartSteps, TypeOK
  <2>2. CASE CreateInsert(t)
    BY <2>2 DEF CreateInsert, Begin, TypeOK
  <2>3. CASE ~CreateBegin(t) /\ ~CreateInsertFails(t) /\ ~RollbackRow(t)
             /\ ~CreateInsert(t)
    <3>1. h[t].pc \in OnListed /\ ~DeleteRow(t)
      BY <1>1, <2>3
         DEF Create, CreateStarting, CreateWorkspace, CreateWindow,
             CreateWindowFails, CreateTerminal, CreateRunning, UndoKill, DropDir,
             RollbackTerminal, DeleteRow, At, OnListed, CreateSteps
    <3>2. Finish(t) \/ \E pc \in HandlerSteps : Goto(t, pc)
      BY <1>1, <2>3
         DEF Create, CreateStarting, CreateWorkspace, CreateWindow,
             CreateWindowFails, CreateTerminal, CreateRunning, UndoKill, DropDir,
             RollbackTerminal, HandlerSteps, CreateSteps
    <3>3. h'[t].id = h[t].id
      BY <3>2 DEF Finish, Goto, Idle, TypeOK, Handlers, OnListed, CreateSteps,
           RestartSteps
    <3> QED BY <2>3, <3>1, <3>3
  <2> QED BY <2>1, <2>2, <2>3
<1>2. CASE Restart(t)
  <2>1. CASE \E i \in Ids : RestartBegin(t, i)
    BY <2>1 DEF RestartBegin, Begin, TypeOK
  <2>2. CASE ~\E i \in Ids : RestartBegin(t, i)
    BY <1>2, <2>2
       DEF Restart, RestartKill, RestartWindow, RestartWindowFails,
           RestartState, RestartTerminal, Goto, Finish, Idle, TypeOK, Handlers,
           OnListed, CreateSteps, RestartSteps, At, DeleteRow, RollbackRow
  <2> QED BY <2>1, <2>2
<1>3. CASE Delete(t)
  BY <1>3
     DEF Delete, DeleteBegin, DeleteRow, DeleteRowFails, DeleteTerminal,
         DeleteDir, DeleteKill, Begin, Goto, Finish, Idle, TypeOK, Handlers,
         OnListed, CreateSteps, RestartSteps
<1>4. CASE Crash /\ h'[t] = Idle
  BY <1>4 DEF Idle, OnListed, CreateSteps, RestartSteps
<1> QED BY <1>1, <1>2, <1>3, <1>4, WhoMoves

LEMMA HandlersListedInit == Init => HandlersListed
BY DEF Init, HandlersListed, Idle, OnListed, CreateSteps, RestartSteps

LEMMA HandlersListedNext ==
  ASSUME TypeOK, OnePerSession, HandlersListed, [Next]_vars
  PROVE  HandlersListed'
<1> SUFFICES ASSUME NEW t \in Threads, h'[t].pc \in OnListed
             PROVE  rows'[h'[t].id].state \notin {"absent", "deleted"}
  BY DEF HandlersListed, Listed
<1>h. \A u \in Threads : h[u].id \in Ids
  BY HandlerFields
<1>1. CASE CreateInsert(t) /\ h'[t].id = h[t].id
  BY <1>h, <1>1 DEF CreateInsert, InsertRow, TypeOK
<1>2. CASE Listed(h'[t].id) /\ rows' = rows
  BY <1>2 DEF Listed
<1>3. CASE /\ h[t].pc \in OnListed /\ h'[t].id = h[t].id
           /\ h'[t] # h[t] => ~DeleteRow(t) /\ ~RollbackRow(t)
  <2>1. PICK k \in Ids : k = h[t].id /\ k = h'[t].id
    BY <1>h, <1>3
  <2>2. Listed(k)
    BY <1>3, <2>1 DEF HandlersListed
  <2>3. ~DeleteRow(t) /\ ~RollbackRow(t)
    BY <1>3 DEF DeleteRow, RollbackRow, At, Goto, Finish, Idle, TypeOK,
         Handlers, OnListed, CreateSteps, RestartSteps
  <2>4. ASSUME NEW u \in Threads, h[u].id = k, DeleteRow(u) \/ RollbackRow(u)
        PROVE  FALSE
    <3>1. Busy(u) /\ Busy(t)
      BY <1>3, <2>4 DEF DeleteRow, RollbackRow, At, Busy, OnListed, CreateSteps,
           RestartSteps
    <3>2. u = t
      BY <2>1, <2>4, <3>1 DEF OnePerSession
    <3> QED BY <2>3, <2>4, <3>2
  <2>5. Listed(k)'
    BY <2>2, <2>4, WhoHides
  <2> QED BY <2>1, <2>5 DEF Listed
<1>4. CASE h'[t] = h[t]
  BY <1>3, <1>4
<1> QED BY <1>1, <1>2, <1>3, <1>4, ComesToBeListed

LEMMA HandlersListedAlways ==
  ApartSpec => [](TypeOK /\ IdInv /\ OnePerSession /\ HandlersListed)
BY IdInvApart, ApartStep, HandlersListedInit, HandlersListedNext, PTL
   DEF ApartSpec

(* Between a create's start and its window, after its window is gone, and
   between a restart's kill and its new window, a session has no window. *)

Windowless == {"insert", "starting", "workspace", "window", "drop_dir",
               "rollback_terminal", "rollback_row", "restart_window"}

FutureWindowless == \A i \in Ids : i >= nextId => windows[i] = 0
HandlersWindowless == \A t \in Threads : h[t].pc \in Windowless => windows[h[t].id] = 0
WindowInv == OneWindow /\ FutureWindowless /\ HandlersWindowless

LEMMA WindowInvInit == Init => WindowInv
BY DEF Init, WindowInv, OneWindow, FutureWindowless, HandlersWindowless, Idle,
       Windowless, Ids

LEMMA OneWindowNext ==
  ASSUME TypeOK, WindowInv, [Next]_vars
  PROVE  OneWindow'
<1> SUFFICES ASSUME NEW i \in Ids PROVE windows'[i] <= 1
  BY DEF OneWindow
<1>1. windows[i] \in Nat /\ windows'[i] \in Nat /\ windows[i] <= 1
  BY TypeNext DEF TypeOK, WindowInv, OneWindow
<1>2. ASSUME NEW t \in Threads, h[t].id = i, CreateWindow(t) \/ RestartWindow(t)
      PROVE  windows[i] = 0
  BY <1>2 DEF CreateWindow, RestartWindow, At, WindowInv, HandlersWindowless,
              Windowless
<1> QED BY <1>1, <1>2, WhoOpens

LEMMA OpensBelowNext ==
  ASSUME TypeOK, IdInv, HandlersListed, NEW t \in Threads,
         CreateWindow(t) \/ RestartWindow(t)
  PROVE  h[t].id < nextId /\ Listed(h[t].id)
<1>1. h[t].id \in Ids /\ h[t].id \in Nat /\ nextId \in Nat
  BY HandlerFields, SizesAssumption DEF Ids, TypeOK
<1>2. Listed(h[t].id)
  BY DEF CreateWindow, RestartWindow, At, HandlersListed, OnListed, CreateSteps,
         RestartSteps
<1>3. rows[h[t].id] # NoRow
  BY <1>2 DEF Listed, NoRow
<1> QED BY <1>1, <1>2, <1>3 DEF IdInv, FutureIdsFree

LEMMA FutureWindowlessNext ==
  ASSUME TypeOK, IdInv, HandlersListed, WindowInv, [Next]_vars
  PROVE  FutureWindowless'
<1>1. nextId \in Nat /\ nextId' \in Nat /\ nextId <= nextId'
  <2>1. nextId' = nextId \/ nextId' = nextId + 1
    BY OtherHandlersCarryOn, CreatorsPastInsertCarryOn, DaemonCarriesOn
       DEF Next, Create, CreateBegin, CreateInsert, CreatorsCarryOn
  <2> QED BY <2>1, SizesAssumption DEF TypeOK
<1> SUFFICES ASSUME NEW i \in Ids, i >= nextId' PROVE windows'[i] = 0
  BY DEF FutureWindowless
<1>2. i >= nextId /\ ~(i < nextId)
  BY <1>1 DEF Ids
<1>3. windows[i] = 0
  BY <1>2 DEF WindowInv, FutureWindowless
<1>4. windows'[i] \in Nat
  BY TypeNext DEF TypeOK
<1> QED BY <1>2, <1>3, <1>4, WhoOpens, OpensBelowNext

(* Who comes to a step at which its session has no window. *)
LEMMA ComesToBeWindowless ==
  ASSUME TypeOK, [Next]_vars, NEW t \in Threads, h'[t] # h[t],
         h'[t].pc \in Windowless
  PROVE  \/ h'[t].id = nextId /\ nextId \in Ids /\ windows' = windows
         \/ h[t].pc \in Windowless /\ h'[t].id = h[t].id /\ windows' = windows
         \/ KillWindow(h[t].id) /\ h'[t].id = h[t].id
<1>1. CASE Create(t)
  <2>1. CASE CreateBegin(t)
    BY <2>1, SizesAssumption DEF CreateBegin, Begin, TypeOK, Ids
  <2>2. CASE CreateInsert(t)
    BY <2>2 DEF CreateInsert, At, Begin, TypeOK, Windowless
  <2>3. CASE CreateInsertFails(t) \/ CreateRunning(t) \/ RollbackRow(t)
    BY <2>3 DEF CreateInsertFails, CreateRunning, RollbackRow, Goto, Finish,
         Idle, Windowless, TypeOK, Handlers
  <2>4. CASE UndoKill(t)
    BY <2>4 DEF UndoKill, Goto, TypeOK, Handlers
  <2>5. CASE CreateWindow(t) \/ CreateTerminal(t)
    BY <2>5 DEF CreateWindow, CreateTerminal, Goto, Windowless, TypeOK, Handlers
  <2>6. CASE \/ CreateStarting(t) \/ CreateWorkspace(t) \/ CreateWindowFails(t)
             \/ DropDir(t) \/ RollbackTerminal(t)
    BY <2>6 DEF CreateStarting, CreateWorkspace, CreateWindowFails, DropDir,
         RollbackTerminal, At, Goto, Windowless, TypeOK, Handlers
  <2> QED BY <1>1, <2>1, <2>2, <2>3, <2>4, <2>5, <2>6 DEF Create
<1>2. CASE Restart(t)
  <2>1. CASE RestartKill(t)
    BY <2>1 DEF RestartKill, Goto, TypeOK, Handlers
  <2>2. CASE ~RestartKill(t)
    BY <1>2, <2>2
       DEF Restart, RestartBegin, RestartWindow, RestartWindowFails,
           RestartState, RestartTerminal, Begin, Goto, Finish, Idle, TypeOK,
           Handlers, Windowless
  <2> QED BY <2>1, <2>2
<1>3. CASE Delete(t)
  BY <1>3
     DEF Delete, DeleteBegin, DeleteRow, DeleteRowFails, DeleteTerminal,
         DeleteDir, DeleteKill, Begin, Goto, Finish, Idle, TypeOK, Handlers,
         Windowless
<1>4. CASE Crash /\ h'[t] = Idle
  BY <1>4 DEF Idle, Windowless
<1> QED BY <1>1, <1>2, <1>3, <1>4, WhoMoves

LEMMA HandlersWindowlessNext ==
  ASSUME TypeOK, OnePerSession, WindowInv, ~Backend, [Next]_vars
  PROVE  HandlersWindowless'
<1> SUFFICES ASSUME NEW t \in Threads, h'[t].pc \in Windowless
             PROVE  windows'[h'[t].id] = 0
  BY DEF HandlersWindowless
<1>h. \A u \in Threads : h[u].id \in Ids
  BY HandlerFields
<1>1. CASE h'[t].id = nextId /\ nextId \in Ids /\ windows' = windows
  <2>1. windows[nextId] = 0
    BY <1>1 DEF WindowInv, FutureWindowless, Ids
  <2> QED BY <1>1, <2>1
<1>2. CASE h[t].pc \in Windowless /\ h'[t].id = h[t].id /\ windows' = windows
  BY <1>2 DEF WindowInv, HandlersWindowless
<1>3. CASE KillWindow(h[t].id) /\ h'[t].id = h[t].id
  <2>1. windows[h[t].id] \in Nat /\ windows[h[t].id] <= 1
    BY <1>h DEF TypeOK, WindowInv, OneWindow
  <2> QED BY <1>h, <1>3, <2>1 DEF KillWindow, TypeOK
<1>4. CASE h'[t] = h[t]
  <2>1. PICK k \in Ids : k = h[t].id /\ k = h'[t].id
    BY <1>h, <1>4
  <2>2. windows[k] = 0 /\ windows'[k] \in Nat
    BY <1>4, <2>1, TypeNext DEF WindowInv, HandlersWindowless, TypeOK
  <2>3. ASSUME NEW u \in Threads, h[u].id = k, CreateWindow(u) \/ RestartWindow(u)
        PROVE  FALSE
    <3>1. Busy(u) /\ Busy(t)
      BY <1>4, <2>3 DEF CreateWindow, RestartWindow, At, Busy, Windowless
    <3>2. u = t
      BY <2>1, <2>3, <3>1 DEF OnePerSession
    <3> QED BY <1>4, <2>3, <3>2 DEF CreateWindow, RestartWindow, At, Goto,
            TypeOK, Handlers
  <2>4. windows'[k] = 0
    BY <2>2, <2>3, WhoOpens
  <2> QED BY <2>1, <2>4
<1> QED BY <1>1, <1>2, <1>3, <1>4, ComesToBeWindowless

LEMMA WindowInvAlways ==
  ASSUME ~Backend
  PROVE  ApartSpec => [](TypeOK /\ IdInv /\ OnePerSession /\ HandlersListed /\ WindowInv)
<1>1. /\ TypeOK /\ IdInv /\ OnePerSession /\ HandlersListed /\ WindowInv /\ [Next]_vars
      => WindowInv'
  BY OneWindowNext, FutureWindowlessNext, HandlersWindowlessNext DEF WindowInv
<1> QED BY <1>1, HandlersListedAlways, ApartStep, WindowInvInit, PTL
        DEF ApartSpec

(* A session never has two windows, so its name addresses the one it has: for
   requests of one session that do not overlap, and a tmux that obeys a kill.
   Creates, restarts and deletes of different sessions, agents that exit,
   crashes and failing statements may interleave in any way. *)
THEOREM SessionsHaveOneWindow ==
  ASSUME ~Backend
  PROVE  ApartSpec => []OneWindow
BY WindowInvAlways, PTL DEF WindowInv

(* Every window belongs to a listed session or to a delete on its way to the
   kill, until a crash may cut a delete off. *)
WindowsOwned ==
  crashes = 0 => \A i \in Ids : windows[i] > 0 =>
    Listed(i) \/ \E t \in Threads : h[t].pc \in Past /\ h[t].id = i

LEMMA WindowsOwnedInit == Init => WindowsOwned
BY DEF Init, WindowsOwned

LEMMA UncrashedSoFar ==
  ASSUME TypeOK, [Next]_vars, crashes' = 0
  PROVE  crashes = 0 /\ ~Crash
<1>1. Crash => crashes' = crashes + 1
  BY DEF Crash
<1>2. ~Crash => crashes' = crashes
  BY OneHandlerMoves
     DEF Next, AgentExit, Poll, PollSnapshot, PollReconcile, PollMark, Start,
         Recover, RecoverAdopt, RecoverState, RecoveryDone, vars, Others
<1> QED BY <1>1, <1>2, SizesAssumption DEF TypeOK

LEMMA WindowsOwnedNext ==
  ASSUME TypeOK, IdInv, OnePerSession, HandlersListed, WindowInv, WindowsOwned,
         ~Backend, [Next]_vars
  PROVE  WindowsOwned'
<1> SUFFICES ASSUME crashes' = 0, NEW i \in Ids, windows'[i] > 0
             PROVE  Listed(i)' \/ \E t \in Threads : h'[t].pc \in Past /\ h'[t].id = i
  BY DEF WindowsOwned
<1>1. crashes = 0 /\ ~Crash
  BY UncrashedSoFar
<1>2. windows[i] \in Nat /\ windows'[i] \in Nat
  BY TypeNext DEF TypeOK
<1>3. ASSUME NEW t \in Threads, h[t].id = i, CreateWindow(t) \/ RestartWindow(t)
      PROVE  Listed(i)'
  BY <1>3, OpensBelowNext DEF CreateWindow, RestartWindow, Listed
<1>4. CASE windows[i] > 0 /\ Listed(i)
  <2>1. ASSUME NEW t \in Threads, h[t].id = i, DeleteRow(t)
        PROVE  h'[t].pc \in Past /\ h'[t].id = i
    BY <2>1 DEF DeleteRow, Goto, Past, TypeOK, Handlers
  <2>2. ASSUME NEW t \in Threads, h[t].id = i, RollbackRow(t) PROVE FALSE
    BY <1>4, <2>2 DEF RollbackRow, At, WindowInv, HandlersWindowless, Windowless
  <2> QED BY <1>4, <2>1, <2>2, WhoHides
<1>5. ASSUME windows[i] > 0, NEW t \in Threads, h[t].pc \in Past, h[t].id = i
      PROVE  h'[t].pc \in Past /\ h'[t].id = i
  <2>1. CASE h'[t] = h[t]
    BY <1>5, <2>1
  <2>2. CASE h'[t] # h[t]
    <3>1. Delete(t)
      BY <1>1, <1>5, <2>2, WhoMoves
         DEF Past, Create, CreateBegin, CreateInsert, CreateInsertFails,
             CreateStarting, CreateWorkspace, CreateWindow, CreateWindowFails,
             CreateTerminal, CreateRunning, UndoKill, DropDir,
             RollbackTerminal, RollbackRow, Restart, RestartBegin, RestartKill,
             RestartWindow, RestartWindowFails, RestartState, RestartTerminal, At
    <3>2. ~DeleteKill(t)
      <4>1. windows[i] <= 1
        BY DEF WindowInv, OneWindow
      <4> QED BY <1>2, <1>5, <4>1 DEF DeleteKill, KillWindow, TypeOK
    <3> QED BY <1>5, <3>1, <3>2
        DEF Delete, DeleteBegin, DeleteRow, DeleteRowFails, DeleteTerminal,
            DeleteDir, At, Goto, Past, TypeOK, Handlers
  <2> QED BY <2>1, <2>2
<1> QED BY <1>1, <1>2, <1>3, <1>4, <1>5, WhoOpens DEF WindowsOwned

(* With no request in flight and no daemon that died, no agent runs outside the
   list: what a failed create, a restart and a delete open, they close. *)
THEOREM NoWindowIsOrphaned ==
  ASSUME ~Backend
  PROVE  ApartSpec => []NoOrphanWindow
<1>1. WindowsOwned => NoOrphanWindow
  BY DEF WindowsOwned, NoOrphanWindow, Quiet, Busy, Past
<1> QED BY <1>1, WindowInvAlways, ApartStep, WindowsOwnedInit, WindowsOwnedNext,
        PTL DEF ApartSpec

-----------------------------------------------------------------------------
(* Workspaces.  A create, and a delete whose session is still there, hold the
   workspace of the session's row. *)

CreatorsHoldTheirs ==
  \A t \in Threads : h[t].pc \in CreateSteps \ {"insert"} =>
    h[t].ws = rows[h[t].id].ws
DeletesHoldTheirs ==
  \A t \in Threads : h[t].pc = "tombstone" /\ Listed(h[t].id) =>
    h[t].ws = rows[h[t].id].ws

(* A directory belongs to a listed session no create of which has failed, or is
   about to be dropped, until a crash may cut a delete off. *)
Owner(i, w) ==
  /\ Listed(i) /\ rows[i].ws = w
  /\ \A t \in Threads : Creating(t) /\ h[t].id = i =>
       h[t].pc \in {"window", "terminal", "running"}
Dropping(t, w) ==
  h[t].ws = w /\ h[t].pc \in {"drop_dir", "delete_terminal", "delete_dir"}
DirsOwned ==
  crashes = 0 => \A w \in dirs :
    (\E i \in Ids : Owner(i, w)) \/ \E t \in Threads : Dropping(t, w)

DirInv == CreatorsHoldTheirs /\ DeletesHoldTheirs /\ DirsOwned

LEMMA DirInvInit == Init => DirInv
BY DEF Init, DirInv, CreatorsHoldTheirs, DeletesHoldTheirs, DirsOwned, Idle,
       CreateSteps

LEMMA WhoChangesWorkspace ==
  ASSUME TypeOK, [Next]_vars, NEW i \in Ids, rows'[i].ws # rows[i].ws
  PROVE  \E t \in Threads : h[t].id = i /\ (CreateInsert(t) \/ RollbackRow(t))
<1>h. \A t \in Threads : h[t].id \in Ids
  BY HandlerFields
<1>s. ASSUME NEW j \in Ids, NEW s, SetState(j, s) PROVE FALSE
  BY <1>s, SetStateRow
<1>1. ASSUME NEW t \in Threads, Create(t) \/ Restart(t) \/ Delete(t)
      PROVE  h[t].id = i /\ (CreateInsert(t) \/ RollbackRow(t))
  <2>1. rows' # rows /\ \A s : ~SetState(h[t].id, s)
    BY <1>h, <1>s
  <2>2. CreateInsert(t) \/ RollbackRow(t)
    BY <1>1, <2>1
      DEF Create, CreateBegin, CreateInsertFails, CreateStarting,
          CreateWorkspace, CreateWindow, CreateWindowFails, CreateTerminal,
          CreateRunning, UndoKill, DropDir, RollbackTerminal,
          Restart, RestartBegin, RestartKill, RestartWindow, RestartWindowFails,
          RestartState, RestartTerminal, Delete, DeleteBegin, DeleteRow,
          DeleteRowFails, DeleteTerminal, DeleteDir, DeleteKill
  <2>3. InsertRow(h[t].id, h[t].name, h[t].ws) \/ RemoveRow(h[t].id)
    BY <2>1, <2>2 DEF CreateInsert, RollbackRow
  <2> QED BY <1>h, <2>2, <2>3 DEF InsertRow, RemoveRow, TypeOK
<1> QED BY <1>1, <1>s
    DEF Next, AgentExit, Poll, PollSnapshot, PollReconcile, PollMark, Crash,
        Start, Recover, RecoverAdopt, RecoverState, RecoveryDone, disk, vars

(* Who comes to hold a workspace for a session in the middle of a create. *)
LEMMA ComesToHold ==
  ASSUME TypeOK, [Next]_vars, NEW t \in Threads,
         h'[t].pc \in CreateSteps \ {"insert"}
  PROVE  /\ h'[t].id = h[t].id /\ h'[t].ws = h[t].ws
         /\ \/ CreateInsert(t)
            \/ h[t].pc \in CreateSteps \ {"insert"} /\ ~RollbackRow(t)
<1>1. CASE Create(t)
  <2>1. CASE CreateBegin(t) \/ CreateInsertFails(t) \/ RollbackRow(t)
    BY <2>1 DEF CreateBegin, CreateInsertFails, RollbackRow, At, Begin, Finish,
         Idle, CreateSteps, TypeOK
  <2>2. CASE CreateInsert(t)
    BY <2>2 DEF CreateInsert, Begin, TypeOK
  <2>3. CASE ~CreateBegin(t) /\ ~CreateInsertFails(t) /\ ~RollbackRow(t)
             /\ ~CreateInsert(t)
    <3>1. h[t].pc \in CreateSteps \ {"insert"}
      BY <1>1, <2>3
         DEF Create, CreateStarting, CreateWorkspace, CreateWindow,
             CreateWindowFails, CreateTerminal, CreateRunning, UndoKill, DropDir,
             RollbackTerminal, At, CreateSteps
    <3>2. Finish(t) \/ \E pc \in HandlerSteps : Goto(t, pc)
      BY <1>1, <2>3
         DEF Create, CreateStarting, CreateWorkspace, CreateWindow,
             CreateWindowFails, CreateTerminal, CreateRunning, UndoKill, DropDir,
             RollbackTerminal, HandlerSteps, CreateSteps
    <3>3. h'[t].id = h[t].id /\ h'[t].ws = h[t].ws
      BY <3>2 DEF Finish, Goto, Idle, TypeOK, Handlers, CreateSteps
    <3> QED BY <2>3, <3>1, <3>3
  <2> QED BY <2>1, <2>2, <2>3
<1>2. CASE Restart(t) \/ Delete(t)
  BY <1>2
     DEF Restart, RestartBegin, RestartKill, RestartWindow, RestartWindowFails,
         RestartState, RestartTerminal, Delete, DeleteBegin, DeleteRow,
         DeleteRowFails, DeleteTerminal, DeleteDir, DeleteKill, Begin, Goto,
         Finish, Idle, TypeOK, Handlers, CreateSteps
<1>3. CASE Crash /\ h'[t] = Idle
  BY <1>3 DEF Idle, CreateSteps
<1>4. CASE h'[t] = h[t]
  <2>1. ~RollbackRow(t)
    BY <1>4 DEF RollbackRow, At, Finish, Idle, TypeOK, Handlers
  <2> QED BY <1>4, <2>1
<1> QED BY <1>1, <1>2, <1>3, <1>4, WhoMoves

LEMMA CreatorsHoldTheirsNext ==
  ASSUME TypeOK, IdInv, CreatorsHoldTheirs, [Next]_vars
  PROVE  CreatorsHoldTheirs'
<1> SUFFICES ASSUME NEW t \in Threads, h'[t].pc \in CreateSteps \ {"insert"}
             PROVE  h'[t].ws = rows'[h'[t].id].ws
  BY DEF CreatorsHoldTheirs
<1>1. PICK k \in Ids : k = h[t].id /\ k = h'[t].id
  BY HandlerFields, ComesToHold
<1>2. CASE CreateInsert(t)
  <2>1. rows'[k].ws = h[t].ws
    BY <1>1, <1>2 DEF CreateInsert, InsertRow, TypeOK
  <2> QED BY <1>1, <2>1, ComesToHold
<1>3. CASE h[t].pc \in CreateSteps \ {"insert"} /\ ~RollbackRow(t)
  <2>1. \A u \in Threads : ~(h[u].id = k /\ (CreateInsert(u) \/ RollbackRow(u)))
    BY <1>1, <1>3 DEF CreateInsert, RollbackRow, At, IdInv, CreatorsDistinct,
                      Creating, CreateSteps
  <2>2. rows'[k].ws = rows[k].ws
    BY <2>1, WhoChangesWorkspace
  <2> QED BY <1>1, <1>3, <2>2, ComesToHold DEF CreatorsHoldTheirs
<1> QED BY <1>2, <1>3, ComesToHold

LEMMA DeletesHoldTheirsNext ==
  ASSUME TypeOK, OnePerSession, DeletesHoldTheirs, ~Misread, [Next]_vars
  PROVE  DeletesHoldTheirs'
<1> SUFFICES ASSUME NEW t \in Threads, h'[t].pc = "tombstone",
                    rows'[h'[t].id].state \notin {"absent", "deleted"}
             PROVE  h'[t].ws = rows'[h'[t].id].ws
  BY DEF DeletesHoldTheirs, Listed
<1>1. CASE h'[t] = h[t]
  <2>1. PICK k \in Ids : k = h[t].id /\ k = h'[t].id
    BY <1>1, HandlerFields
  <2>2. \A u \in Threads : ~(h[u].id = k /\ (CreateInsert(u) \/ RollbackRow(u)))
    BY <1>1, <2>1 DEF CreateInsert, RollbackRow, At, OnePerSession, Busy
  <2>3. rows'[k].ws = rows[k].ws
    BY <2>2, WhoChangesWorkspace
  <2>4. Listed(k)
    <3>1. \A u \in Threads : h[u].pc = "insert" => h[u].id # k
      BY <1>1, <2>1 DEF OnePerSession, Busy
    <3>2. Listed(k)'
      BY <2>1 DEF Listed
    <3> QED BY <3>1, <3>2, EveryStepIsARowStep, UnlistedStays
  <2> QED BY <1>1, <2>1, <2>3, <2>4 DEF DeletesHoldTheirs
<1>2. CASE \E i \in Ids : DeleteBegin(t, i)
  BY <1>2 DEF DeleteBegin, Begin, TypeOK
<1>3. CASE h'[t] # h[t] /\ ~\E i \in Ids : DeleteBegin(t, i)
  <2>1. CASE Create(t)
    <3>1. CASE CreateBegin(t) \/ CreateInsert(t)
      BY <1>3, <3>1 DEF CreateBegin, CreateInsert, Begin, TypeOK
    <3>2. CASE ~CreateBegin(t) /\ ~CreateInsert(t)
      <4>1. Finish(t) \/ \E pc \in CreateSteps : Goto(t, pc)
        BY <2>1, <3>2
         DEF Create, CreateInsertFails, CreateStarting, CreateWorkspace,
             CreateWindow, CreateWindowFails, CreateTerminal, CreateRunning,
             UndoKill, DropDir, RollbackTerminal, RollbackRow, CreateSteps
      <4> QED BY <4>1 DEF Finish, Goto, Idle, TypeOK, Handlers, CreateSteps
    <3> QED BY <3>1, <3>2
  <2>2. CASE Restart(t) \/ Delete(t)
    BY <1>3, <2>2
       DEF Restart, RestartBegin, RestartKill, RestartWindow,
           RestartWindowFails, RestartState, RestartTerminal, Delete,
           DeleteRow, DeleteRowFails, DeleteTerminal, DeleteDir, DeleteKill,
           Begin, Goto, Finish, Idle, TypeOK, Handlers
  <2>3. CASE Crash /\ h'[t] = Idle
    BY <2>3 DEF Idle
  <2> QED BY <1>3, <2>1, <2>2, <2>3, WhoMoves
<1> QED BY <1>1, <1>2, <1>3

LEMMA WhoAddsDir ==
  ASSUME [Next]_vars, NEW w \in dirs'
  PROVE  \/ w \in dirs
         \/ \E t \in Threads : CreateWorkspace(t) /\ h[t].ws = w /\ Goto(t, "window")
<1>1. ASSUME NEW t \in Threads, Create(t) \/ Restart(t) \/ Delete(t)
      PROVE  \/ w \in dirs
             \/ CreateWorkspace(t) /\ h[t].ws = w /\ Goto(t, "window")
  BY <1>1
    DEF Create, CreateBegin, CreateInsert, CreateInsertFails, CreateStarting,
        CreateWorkspace, CreateWindow, CreateWindowFails, CreateTerminal,
        CreateRunning, UndoKill, DropDir, RollbackTerminal, RollbackRow,
        Restart, RestartBegin, RestartKill, RestartWindow, RestartWindowFails,
        RestartState, RestartTerminal, Delete, DeleteBegin, DeleteRow,
        DeleteRowFails, DeleteTerminal, DeleteDir, DeleteKill
<1> QED BY <1>1
    DEF Next, AgentExit, Poll, PollSnapshot, PollReconcile, PollMark, Crash,
        Start, Recover, RecoverAdopt, RecoverState, RecoveryDone, vars

(* The create of an owner goes on to its end, or drops the directory. *)
LEMMA OwnersCreateGoesOn ==
  ASSUME TypeOK, IdInv, CreatorsHoldTheirs, ~Storage, [Next]_vars,
         NEW i \in Ids, NEW w \in dirs, Owner(i, w),
         NEW u \in Threads, Creating(u)', h'[u].id = i
  PROVE  \/ h'[u].pc \in {"window", "terminal", "running"}
         \/ h'[u].pc = "drop_dir" /\ h'[u].ws = w
<1>1. CASE h'[u] = h[u]
  BY <1>1 DEF Owner, Creating
<1>2. CASE Create(u)
  <2>1. ~CreateBegin(u)
    <3>1. rows[i] # NoRow /\ i \in Nat /\ nextId \in Nat
      BY SizesAssumption DEF Owner, Listed, NoRow, Ids, TypeOK
    <3>2. i # nextId
      BY <3>1 DEF IdInv, FutureIdsFree
    <3>3. CreateBegin(u) => h'[u].id = nextId \/ h' = h
      BY DEF CreateBegin, Begin, TypeOK
    <3>4. CreateBegin(u) => ~(h' = h)
      BY DEF CreateBegin, At, Creating, CreateSteps
    <3> QED BY <3>2, <3>3, <3>4
  <2>2. h[u].id = i /\ Creating(u)
    <3>1. CASE CreateInsert(u)
      BY <3>1 DEF CreateInsert, At, Begin, Creating, CreateSteps, TypeOK
    <3>2. CASE ~CreateInsert(u)
      <4>1. h'[u].pc \in CreateSteps \ {"insert"}
        <5>1. Finish(u) \/ \E pc \in CreateSteps \ {"insert"} : Goto(u, pc)
          BY <1>2, <2>1, <3>2
          DEF Create, CreateInsertFails, CreateStarting, CreateWorkspace,
              CreateWindow, CreateWindowFails, CreateTerminal, CreateRunning,
              UndoKill, DropDir, RollbackTerminal, RollbackRow, CreateSteps
        <5> QED BY <5>1 DEF Finish, Goto, Idle, TypeOK, Handlers, Creating,
                            CreateSteps
      <4> QED BY <3>2, <4>1, ComesToHold DEF Creating
    <3> QED BY <3>1, <3>2
  <2>3. h[u].pc \in {"window", "terminal", "running"}
    BY <2>2 DEF Owner
  <2>4. h[u].ws = w /\ w # NoWorkspace
    BY <2>2, <2>3, SentinelAssumption
       DEF CreatorsHoldTheirs, CreateSteps, Owner, TypeOK
  <2>5. CreateWindow(u) \/ CreateWindowFails(u) \/ CreateTerminal(u) \/ CreateRunning(u)
    BY <1>2, <2>1, <2>3
       DEF Create, CreateInsert, CreateInsertFails, CreateStarting,
           CreateWorkspace, UndoKill, DropDir, RollbackTerminal, RollbackRow, At
  <2>6. CASE CreateWindow(u) \/ CreateTerminal(u)
    BY <2>6 DEF CreateWindow, CreateTerminal, Goto, TypeOK, Handlers
  <2>7. CASE CreateWindowFails(u)
    BY <2>4, <2>7 DEF CreateWindowFails, Goto, TypeOK, Handlers
  <2>8. CASE CreateRunning(u)
    BY <2>8 DEF CreateRunning, Finish, Idle, Creating, CreateSteps, TypeOK
  <2> QED BY <2>5, <2>6, <2>7, <2>8
<1>3. CASE Restart(u) \/ Delete(u)
  BY <1>3
     DEF Restart, RestartBegin, RestartKill, RestartWindow, RestartWindowFails,
         RestartState, RestartTerminal, Delete, DeleteBegin, DeleteRow,
         DeleteRowFails, DeleteTerminal, DeleteDir, DeleteKill, Begin, Goto,
         Finish, Idle, TypeOK, Handlers, Creating, CreateSteps
<1>4. CASE Crash /\ h'[u] = Idle
  BY <1>4 DEF Idle, Creating, CreateSteps
<1> QED BY <1>1, <1>2, <1>3, <1>4, WhoMoves

LEMMA DirsOwnedNext ==
  ASSUME TypeOK, IdInv, HandlersListed, DirInv, ~Storage, [Next]_vars
  PROVE  DirsOwned'
<1> SUFFICES ASSUME crashes' = 0, NEW w \in dirs'
             PROVE  \/ \E i \in Ids : Owner(i, w)'
                    \/ \E t \in Threads : Dropping(t, w)'
  BY DEF DirsOwned
<1>h. \A t \in Threads : h[t].id \in Ids
  BY HandlerFields
<1>c. crashes = 0 /\ ~Crash
  BY UncrashedSoFar
<1>1. ASSUME NEW t \in Threads, CreateWorkspace(t), h[t].ws = w, Goto(t, "window")
      PROVE  \E i \in Ids : Owner(i, w)'
  <2>1. PICK k \in Ids : k = h[t].id
    BY <1>h
  <2>2. Listed(k) /\ rows[k].ws = w /\ rows' = rows
    BY <1>1, <2>1
       DEF CreateWorkspace, At, HandlersListed, OnListed, DirInv,
           CreatorsHoldTheirs, CreateSteps
  <2>3. ASSUME NEW u \in Threads, Creating(u)', h'[u].id = k
        PROVE  h'[u].pc = "window"
    <3>1. CASE u = t
      BY <1>1, <3>1 DEF Goto, TypeOK, Handlers
    <3>2. CASE u # t
      <4>1. h'[u] = h[u]
        BY <1>1, <3>2 DEF Goto, TypeOK
      <4>2. Creating(u) /\ Creating(t)
        BY <1>1, <2>3, <4>1 DEF CreateWorkspace, At, Creating, CreateSteps
      <4> QED BY <2>1, <2>3, <3>2, <4>1, <4>2 DEF IdInv, CreatorsDistinct
    <3> QED BY <3>1, <3>2
  <2>4. Owner(k, w)'
    BY <2>2, <2>3 DEF Owner, Listed
  <2> QED BY <2>4
<1>2. ASSUME w \in dirs, NEW i \in Ids, Owner(i, w)
      PROVE  Owner(i, w)' \/ \E t \in Threads : Dropping(t, w)'
  <2>1. CASE \E t \in Threads : h[t].id = i /\ DeleteRow(t)
    <3>1. PICK t \in Threads : h[t].id = i /\ DeleteRow(t)
      BY <2>1
    <3>2. h[t].ws = w
      BY <1>2, <3>1 DEF DeleteRow, At, DirInv, DeletesHoldTheirs, Owner
    <3> QED BY <3>1, <3>2 DEF DeleteRow, Goto, Dropping, TypeOK, Handlers
  <2>2. CASE ~\E t \in Threads : h[t].id = i /\ DeleteRow(t)
    <3>1. \A t \in Threads : ~(h[t].id = i /\ RollbackRow(t))
      BY <1>2 DEF RollbackRow, At, Owner, Creating, CreateSteps
    <3>2. \A t \in Threads : ~(h[t].id = i /\ CreateInsert(t))
      BY <1>2 DEF CreateInsert, At, IdInv, InsertTargetsFree, Owner, Listed, NoRow
    <3>3. Listed(i)' /\ rows'[i].ws = w
      BY <1>2, <2>2, <3>1, <3>2, WhoHides, WhoChangesWorkspace DEF Owner
    <3>4. \A u \in Threads : Creating(u)' /\ h'[u].id = i =>
            \/ h'[u].pc \in {"window", "terminal", "running"}
            \/ Dropping(u, w)'
      BY <1>2, OwnersCreateGoesOn DEF DirInv, Dropping
    <3> QED BY <3>3, <3>4 DEF Owner
  <2> QED BY <2>1, <2>2
<1>3. ASSUME w \in dirs, NEW t \in Threads, Dropping(t, w)
      PROVE  Dropping(t, w)'
  <2>1. CASE h'[t] = h[t]
    BY <1>3, <2>1 DEF Dropping
  <2>2. CASE h'[t] # h[t]
    <3>1. DropDir(t) \/ DeleteTerminal(t) \/ DeleteDir(t)
      BY <1>c, <1>3, <2>2, WhoMoves
         DEF Dropping, Create, CreateBegin, CreateInsert, CreateInsertFails,
             CreateStarting, CreateWorkspace, CreateWindow, CreateWindowFails,
             CreateTerminal, CreateRunning, UndoKill, RollbackTerminal,
             RollbackRow, Restart, RestartBegin, RestartKill, RestartWindow,
             RestartWindowFails, RestartState, RestartTerminal, Delete,
             DeleteBegin, DeleteRow, DeleteRowFails, DeleteKill, At
    <3>2. ~DropDir(t) /\ ~DeleteDir(t)
      BY <1>3 DEF DropDir, DeleteDir, Dropping
    <3> QED BY <1>3, <3>1, <3>2
        DEF DeleteTerminal, Goto, Dropping, TypeOK, Handlers
  <2> QED BY <2>1, <2>2
<1> QED BY <1>c, <1>1, <1>2, <1>3, WhoAddsDir DEF DirInv, DirsOwned

(* With no request in flight and no daemon that died, every workspace on disk
   belongs to a session in the list: whatever members of a workspace fail to
   build, windows fail to open and requests of different sessions interleave,
   for requests of one session that do not overlap and a database that
   answers. *)
THEOREM NoDirIsOrphaned ==
  ASSUME ~Storage, ~Misread
  PROVE  ApartSpec => []NoOrphanDir
<1>1. /\ TypeOK /\ IdInv /\ OnePerSession /\ HandlersListed /\ DirInv /\ [Next]_vars
      => DirInv'
  BY CreatorsHoldTheirsNext, DeletesHoldTheirsNext, DirsOwnedNext DEF DirInv
<1>2. DirInv => NoOrphanDir
  BY DEF DirInv, DirsOwned, NoOrphanDir, Quiet, Busy, Owner, Dropping
<1> QED BY <1>1, <1>2, HandlersListedAlways, ApartStep, DirInvInit, PTL
        DEF ApartSpec
=============================================================================
