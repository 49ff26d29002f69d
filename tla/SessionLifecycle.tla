-------------------------- MODULE SessionLifecycle --------------------------
(***************************************************************************)
(* The daemon's session lifecycle: the session rows in SQLite, the windows *)
(* of its multiplexer, its in-memory terminal store, the workspace         *)
(* directories, and the request handlers, poller and recovery that move    *)
(* them.                                                                   *)
(*                                                                         *)
(* A handler (runtime.rs create, restart, delete) runs on the thread of    *)
(* its client connection.  It takes the storage mutex once per statement   *)
(* and calls tmux with no lock held, so one step here is one such call:    *)
(* everything else may move between two steps of one handler.              *)
(*                                                                         *)
(* tmux and the agents in its windows outlive the daemon.  tmux allows     *)
(* several windows of the same name, so windows[i] is a count; the code    *)
(* addresses a session's window by that name only.                         *)
(***************************************************************************)
EXTENDS Naturals, FiniteSets

CONSTANTS
  Threads,      \* client connections, each serving one request at a time
  MaxSessions,  \* session ids 0 .. MaxSessions-1; bounds the creates
  Names,        \* session names
  Workspaces,   \* workspace ids
  NoName,       \* the name of a row that does not exist
  NoWorkspace,  \* a session without a workspace
  MaxWindows,   \* bound on the windows sharing one name
  MaxCrashes,   \* bound on daemon crashes
  Faults        \* which calls may fail: "storage", "unheeded", "misread", "backend"

Ids == 0 .. MaxSessions - 1

ASSUME SizesAssumption ==
  /\ MaxSessions \in Nat \ {0}
  /\ MaxWindows \in Nat \ {0}
  /\ MaxCrashes \in Nat
ASSUME SentinelAssumption ==
  /\ NoName \notin Names
  /\ NoWorkspace \notin Workspaces

VARIABLES
  rows,         \* rows[i]: the sessions table; "absent" when there is no row
  nextId,       \* schema_meta.next_session_id
  windows,      \* windows[i]: how many tmux windows are named i
  terminals,    \* ids with an entry in the TerminalStore
  dirs,         \* workspaces whose checkout is on disk
  h,            \* h[t]: what the handler on thread t is about to do
  poll,         \* the poller: its step, live set and sessions to mark
  lastLive,     \* last_live of reconcile_states
  daemon,       \* "up", "recovering", "down"
  todo,         \* sessions recover_sessions still has to adopt
  found,        \* what adopt answered, until it is stored: {} or {answer}
  crashes,      \* daemon crashes so far
  fresh         \* history: windows opened since the poller's last snapshot

disk == <<rows, nextId>>
vars == <<rows, nextId, windows, terminals, dirs, h, poll, lastLive, daemon,
          todo, found, crashes, fresh>>

-----------------------------------------------------------------------------
(* Data *)

RowStates == {"absent", "creating", "starting", "running", "exited",
              "unreachable", "deleted"}
NoRow == [state |-> "absent", name |-> NoName, ws |-> NoWorkspace]
Rows == [state : RowStates, name : Names \cup {NoName},
         ws : Workspaces \cup {NoWorkspace}]

(* list_sessions and get_session hide rows whose state is 'deleted'. *)
Listed(i) == rows[i].state \notin {"absent", "deleted"}

CreateSteps == {"insert", "starting", "workspace", "window", "terminal",
                "running", "undo_kill", "drop_dir", "rollback_terminal",
                "rollback_row"}
RestartSteps == {"restart_kill", "restart_window", "restart_state",
                 "restart_terminal"}
DeleteSteps == {"tombstone", "delete_terminal", "delete_dir", "delete_kill"}
HandlerSteps == {"idle"} \cup CreateSteps \cup RestartSteps \cup DeleteSteps

Handlers == [pc : HandlerSteps, id : Ids, name : Names \cup {NoName},
             ws : Workspaces \cup {NoWorkspace}]
Idle == [pc |-> "idle", id |-> 0, name |-> NoName, ws |-> NoWorkspace]

PollIdle == [pc |-> "idle", live |-> {}, victims |-> {}]
(* An Option is a set: {} for None, {x} for Some(x). *)
Unknown == {}

Busy(t) == h[t].pc # "idle"
Creating(t) == h[t].pc \in CreateSteps
WorkingOn(i) == {t \in Threads : Busy(t) /\ h[t].id = i}
Storage == "storage" \in Faults      \* a statement whose error is answered
Unheeded == "unheeded" \in Faults    \* one whose error the code drops
Misread == "misread" \in Faults      \* one whose error reads as "no such row"
Backend == "backend" \in Faults

-----------------------------------------------------------------------------
(* Init *)

Init ==
  /\ rows = [i \in Ids |-> NoRow]
  /\ nextId = 0
  /\ windows = [i \in Ids |-> 0]
  /\ terminals = {}
  /\ dirs = {}
  /\ h = [t \in Threads |-> Idle]
  /\ poll = PollIdle
  /\ lastLive = Unknown
  /\ daemon = "up"
  /\ todo = {}
  /\ found = Unknown
  /\ crashes = 0
  /\ fresh = {}
-----------------------------------------------------------------------------
(* Storage statements, each under one acquisition of the storage mutex. *)

(* Definitions named ...Mutant are bugs a definition below could have had; no
   action uses them, and README.md says which property notices each. *)
SetStateMutant(i, s) ==                   \* forgets AND state != 'deleted'
  rows' = IF rows[i] # NoRow THEN [rows EXCEPT ![i].state = s] ELSE rows

(* UPDATE ... SET state WHERE id AND state != 'deleted'.  No row matched is
   Ok(false), which no handler looks at. *)
SetState(i, s) ==
  rows' = IF Listed(i) THEN [rows EXCEPT ![i].state = s] ELSE rows

(* The name column is UNIQUE over every row, deleted ones included. *)
InsertRow(i, n, w) ==
  /\ \A j \in Ids : rows[j].name # n
  /\ rows' = [rows EXCEPT ![i] = [state |-> "creating", name |-> n, ws |-> w]]

RemoveRow(i) == rows' = [rows EXCEPT ![i] = NoRow]

(* tmux calls *)

(* new-session or new-window: a name already in use is no obstacle. *)
OpenWindow(i) ==
  /\ windows[i] < MaxWindows
  /\ windows' = [windows EXCEPT ![i] = @ + 1]
  /\ fresh' = fresh \cup {i}

KillWindowMutant(i) ==                      \* counts a miss as a kill
  windows' = [windows EXCEPT ![i] = @ - 1]

(* kill-window by name: one window goes; nothing happens when there is none,
   when several share the name (the target is ambiguous) or when tmux fails. *)
KillWindow(i) ==
  \/ /\ windows[i] > 0
     /\ windows' = [windows EXCEPT ![i] = @ - 1]
  \/ /\ windows[i] # 1 \/ Backend
     /\ windows' = windows

-----------------------------------------------------------------------------
(* Handler bookkeeping *)

At(t, pc) == daemon = "up" /\ h[t].pc = pc
Goto(t, pc) == h' = [h EXCEPT ![t].pc = pc]
Finish(t) == h' = [h EXCEPT ![t] = Idle]
Begin(t, pc, i, n, w) ==
  h' = [h EXCEPT ![t] = [pc |-> pc, id |-> i, name |-> n, ws |-> w]]

Others == <<poll, lastLive, daemon, todo, found, crashes>>

-----------------------------------------------------------------------------
(* create *)

CreateBeginMutant(t) ==            \* the counter is read but not bumped
  /\ At(t, "idle")
  /\ nextId < MaxSessions
  /\ \E n \in Names, w \in Workspaces \cup {NoWorkspace} :
       Begin(t, "insert", nextId, n, w)
  /\ UNCHANGED <<rows, nextId, windows, terminals, dirs, fresh, Others>>

(* next_session_id commits before the agent and the profile are looked up, so
   a request that names an unknown one burns the id. *)
CreateBegin(t) ==
  /\ At(t, "idle")
  /\ nextId < MaxSessions
  /\ nextId' = nextId + 1
  /\ \/ \E n \in Names, w \in Workspaces \cup {NoWorkspace} :
          Begin(t, "insert", nextId, n, w)
     \/ UNCHANGED h
  /\ UNCHANGED <<rows, windows, terminals, dirs, fresh, Others>>

CreateInsert(t) ==
  /\ At(t, "insert")
  /\ InsertRow(h[t].id, h[t].name, h[t].ws)
  /\ Begin(t, "starting", h[t].id, NoName, h[t].ws)
  /\ UNCHANGED <<nextId, windows, terminals, dirs, fresh, Others>>

CreateInsertFails(t) ==
  /\ At(t, "insert")
  /\ Storage \/ \E j \in Ids : rows[j].name = h[t].name
  /\ Finish(t)
  /\ UNCHANGED <<rows, nextId, windows, terminals, dirs, fresh, Others>>

CreateStarting(t) ==
  /\ At(t, "starting")
  /\ \/ SetState(h[t].id, "starting") /\ Goto(t, "workspace")
     \/ Storage /\ Goto(t, "rollback_terminal") /\ UNCHANGED rows
  /\ UNCHANGED <<nextId, windows, terminals, dirs, fresh, Others>>

(* WorkspaceManager::create.  An element of Workspaces is a whole spec, id and
   members, so a second create of it finds its destinations taken and fails.  A
   failure among the members runs cleanup(spec), which removes the workspace
   directory whoever built it; one before them leaves the disk alone. *)
CreateWorkspace(t) ==
  /\ At(t, "workspace")
  /\ \/ /\ h[t].ws = NoWorkspace
        /\ Goto(t, "window")
        /\ UNCHANGED dirs
     \/ /\ h[t].ws \in Workspaces \ dirs
        /\ dirs' = dirs \cup {h[t].ws}
        /\ Goto(t, "window")
     \/ /\ h[t].ws \in Workspaces
        /\ dirs' \in {dirs, dirs \ {h[t].ws}}
        /\ Goto(t, "rollback_terminal")
  /\ UNCHANGED <<rows, nextId, windows, terminals, fresh, Others>>

(* launch_under and backend.create *)
CreateWindow(t) ==
  /\ At(t, "window")
  /\ OpenWindow(h[t].id)
  /\ Goto(t, "terminal")
  /\ UNCHANGED <<rows, nextId, terminals, dirs, Others>>

CreateWindowFailsMutant(t) ==      \* rolls back without the workspace
  /\ At(t, "window")
  /\ Goto(t, "rollback_terminal")
  /\ UNCHANGED <<rows, nextId, windows, terminals, dirs, fresh, Others>>

CreateWindowFails(t) ==
  /\ At(t, "window")
  /\ Goto(t, IF h[t].ws = NoWorkspace THEN "rollback_terminal" ELSE "drop_dir")
  /\ UNCHANGED <<rows, nextId, windows, terminals, dirs, fresh, Others>>

(* terminals.insert fails only for an invalid size; DEFAULT_SIZE is valid. *)
CreateTerminal(t) ==
  /\ At(t, "terminal")
  /\ terminals' = terminals \cup {h[t].id}
  /\ Goto(t, "running")
  /\ UNCHANGED <<rows, nextId, windows, dirs, fresh, Others>>

(* The last update answers the client whether or not it matched a row; when
   it fails the window is killed but the workspace stays. *)
CreateRunning(t) ==
  /\ At(t, "running")
  /\ \/ SetState(h[t].id, "running") /\ Finish(t)
     \/ Storage /\ Goto(t, "undo_kill") /\ UNCHANGED rows
  /\ UNCHANGED <<nextId, windows, terminals, dirs, fresh, Others>>

UndoKill(t) ==
  /\ At(t, "undo_kill")
  /\ KillWindow(h[t].id)
  /\ Goto(t, "rollback_terminal")
  /\ UNCHANGED <<rows, nextId, terminals, dirs, fresh, Others>>

DropDir(t) ==
  /\ At(t, "drop_dir")
  /\ dirs' = dirs \ {h[t].ws}
  /\ Goto(t, "rollback_terminal")
  /\ UNCHANGED <<rows, nextId, windows, terminals, fresh, Others>>

RollbackTerminal(t) ==
  /\ At(t, "rollback_terminal")
  /\ terminals' = terminals \ {h[t].id}
  /\ Goto(t, "rollback_row")
  /\ UNCHANGED <<rows, nextId, windows, dirs, fresh, Others>>

(* DELETE FROM sessions: even a row a concurrent delete has tombstoned. *)
RollbackRow(t) ==
  /\ At(t, "rollback_row")
  /\ RemoveRow(h[t].id) \/ (Unheeded /\ UNCHANGED rows)
  /\ Finish(t)
  /\ UNCHANGED <<nextId, windows, terminals, dirs, fresh, Others>>

Create(t) ==
  \/ CreateBegin(t) \/ CreateInsert(t) \/ CreateInsertFails(t)
  \/ CreateStarting(t) \/ CreateWorkspace(t) \/ CreateWindow(t)
  \/ CreateWindowFails(t) \/ CreateTerminal(t) \/ CreateRunning(t)
  \/ UndoKill(t) \/ DropDir(t) \/ RollbackTerminal(t) \/ RollbackRow(t)

-----------------------------------------------------------------------------
(* restart *)

(* Any listed session: the state is not looked at.  A profile or sandbox that
   refuses the launch answers before anything changed. *)
RestartBegin(t, i) ==
  /\ At(t, "idle")
  /\ Listed(i)
  /\ Begin(t, "restart_kill", i, NoName, NoWorkspace)
  /\ UNCHANGED <<rows, nextId, windows, terminals, dirs, fresh, Others>>

RestartKillMutant(t) ==            \* launches next to the old window
  /\ At(t, "restart_kill")
  /\ Goto(t, "restart_window")
  /\ UNCHANGED <<rows, nextId, windows, terminals, dirs, fresh, Others>>

(* SessionBackend::restart: kill, its result ignored, then create. *)
RestartKill(t) ==
  /\ At(t, "restart_kill")
  /\ KillWindow(h[t].id)
  /\ Goto(t, "restart_window")
  /\ UNCHANGED <<rows, nextId, terminals, dirs, fresh, Others>>

RestartWindow(t) ==
  /\ At(t, "restart_window")
  /\ OpenWindow(h[t].id)
  /\ Goto(t, "restart_state")
  /\ UNCHANGED <<rows, nextId, terminals, dirs, Others>>

RestartWindowFailsMutant(t) ==     \* rolls back like a create
  /\ At(t, "restart_window")
  /\ RemoveRow(h[t].id)
  /\ Finish(t)
  /\ UNCHANGED <<nextId, windows, terminals, dirs, fresh, Others>>

RestartWindowFails(t) ==
  /\ At(t, "restart_window")
  /\ Finish(t)
  /\ UNCHANGED <<rows, nextId, windows, terminals, dirs, fresh, Others>>

(* Both results are dropped: the client is told Running in any case. *)
RestartState(t) ==
  /\ At(t, "restart_state")
  /\ SetState(h[t].id, "running") \/ (Unheeded /\ UNCHANGED rows)
  /\ Goto(t, "restart_terminal")
  /\ UNCHANGED <<nextId, windows, terminals, dirs, fresh, Others>>

RestartTerminal(t) ==
  /\ At(t, "restart_terminal")
  /\ terminals' = terminals \cup {h[t].id}
  /\ Finish(t)
  /\ UNCHANGED <<rows, nextId, windows, dirs, fresh, Others>>

Restart(t) ==
  \/ \E i \in Ids : RestartBegin(t, i)
  \/ RestartKill(t) \/ RestartWindow(t) \/ RestartWindowFails(t)
  \/ RestartState(t) \/ RestartTerminal(t)

-----------------------------------------------------------------------------
(* delete *)

(* get_session, whose error is read as "no such session".  The workspace to
   clean up is the one this read returned.  The approval gate that follows is
   module ApprovalGate: here a refused delete is one that never began. *)
DeleteBegin(t, i) ==
  /\ At(t, "idle")
  /\ \/ Begin(t, "tombstone", i, NoName, rows[i].ws)
     \/ Misread /\ Begin(t, "tombstone", i, NoName, NoWorkspace)
  /\ UNCHANGED <<rows, nextId, windows, terminals, dirs, fresh, Others>>

DeleteRow(t) ==
  /\ At(t, "tombstone")
  /\ Listed(h[t].id)
  /\ SetState(h[t].id, "deleted")
  /\ Goto(t, "delete_terminal")
  /\ UNCHANGED <<nextId, windows, terminals, dirs, fresh, Others>>

DeleteRowFails(t) ==        \* NotFound, or a storage error
  /\ At(t, "tombstone")
  /\ Storage \/ ~Listed(h[t].id)
  /\ Finish(t)
  /\ UNCHANGED <<rows, nextId, windows, terminals, dirs, fresh, Others>>

DeleteTerminal(t) ==
  /\ At(t, "delete_terminal")
  /\ terminals' = terminals \ {h[t].id}
  /\ Goto(t, "delete_dir")
  /\ UNCHANGED <<rows, nextId, windows, dirs, fresh, Others>>

DeleteDir(t) ==
  /\ At(t, "delete_dir")
  /\ dirs' = dirs \ {h[t].ws}
  /\ Goto(t, "delete_kill")
  /\ UNCHANGED <<rows, nextId, windows, terminals, fresh, Others>>

DeleteKillMutant(t) ==             \* leaves the agent running
  /\ At(t, "delete_kill")
  /\ Finish(t)
  /\ UNCHANGED <<rows, nextId, windows, terminals, dirs, fresh, Others>>

(* Whatever kill answers, the row is already a tombstone. *)
DeleteKill(t) ==
  /\ At(t, "delete_kill")
  /\ KillWindow(h[t].id)
  /\ Finish(t)
  /\ UNCHANGED <<rows, nextId, terminals, dirs, fresh, Others>>

Delete(t) ==
  \/ \E i \in Ids : DeleteBegin(t, i)
  \/ DeleteRow(t) \/ DeleteRowFails(t) \/ DeleteTerminal(t) \/ DeleteDir(t)
  \/ DeleteKill(t)

-----------------------------------------------------------------------------
(* Agents and the poller *)

(* The agent's process ends and tmux closes its window. *)
AgentExit(i) ==
  /\ windows[i] > 0
  /\ windows' = [windows EXCEPT ![i] = @ - 1]
  /\ UNCHANGED <<disk, terminals, dirs, h, fresh, Others>>

(* poll_backend asks for the windows; on an error it waits for the next tick. *)
PollSnapshot ==
  /\ daemon = "up" /\ poll.pc = "idle"
  /\ poll' = [poll EXCEPT !.pc = "reconcile",
                          !.live = {i \in Ids : windows[i] > 0}]
  /\ fresh' = {}
  /\ UNCHANGED <<disk, windows, terminals, dirs, h, lastLive, daemon, todo,
                 found, crashes>>

PollReconcileStaleMutant ==        \* compares the rows with the last live set
  /\ daemon = "up" /\ poll.pc = "reconcile"
  /\ lastLive' = {poll.live}
  /\ LET gone == {i \in Ids : /\ rows[i].state = "running"
                              /\ lastLive # {} /\ \A S \in lastLive : i \notin S}
     IN poll' = IF gone = {} THEN PollIdle
                ELSE [pc |-> "mark", live |-> {}, victims |-> gone]
  /\ UNCHANGED <<disk, windows, terminals, dirs, h, daemon, todo, found,
                 crashes, fresh>>

PollReconcileMutant ==             \* takes a smaller live set for no change
  /\ daemon = "up" /\ poll.pc = "reconcile"
  /\ IF \E S \in lastLive : poll.live \subseteq S
     THEN poll' = PollIdle /\ UNCHANGED lastLive
     ELSE /\ lastLive' = {poll.live}
          /\ poll' = PollIdle
  /\ UNCHANGED <<disk, windows, terminals, dirs, h, daemon, todo, found,
                 crashes, fresh>>

(* reconcile_states: nothing to do when the live set is the one seen last;
   otherwise it becomes the last one before the rows are read.  A failed
   list_sessions reads as no sessions. *)
PollReconcile ==
  /\ daemon = "up" /\ poll.pc = "reconcile"
  /\ IF lastLive = {poll.live}
     THEN poll' = PollIdle /\ UNCHANGED lastLive
     ELSE /\ lastLive' = {poll.live}
          /\ LET gone == {i \in Ids : /\ rows[i].state = "running"
                                      /\ i \notin poll.live}
             IN \E victims \in {gone} \cup (IF Unheeded THEN {{}} ELSE {}) :
                  poll' = IF victims = {} THEN PollIdle
                          ELSE [pc |-> "mark", live |-> {}, victims |-> victims]
  /\ UNCHANGED <<disk, windows, terminals, dirs, h, daemon, todo, found,
                 crashes, fresh>>

(* The row is set by id alone: it is not read again. *)
PollMark(i) ==
  /\ daemon = "up" /\ poll.pc = "mark" /\ i \in poll.victims
  /\ SetState(i, "exited") \/ (Unheeded /\ UNCHANGED rows)
  /\ poll' = IF poll.victims = {i} THEN PollIdle
             ELSE [poll EXCEPT !.victims = @ \ {i}]
  /\ UNCHANGED <<nextId, windows, terminals, dirs, h, lastLive, daemon, todo,
                 found, crashes, fresh>>

Poll == PollSnapshot \/ PollReconcile \/ \E i \in Ids : PollMark(i)

-----------------------------------------------------------------------------
(* Daemon crash, restart and recovery *)

(* Rows, windows and directories survive; everything in memory is lost, and
   every handler stops between two of its calls. *)
Crash ==
  /\ daemon # "down"
  /\ crashes < MaxCrashes
  /\ crashes' = crashes + 1
  /\ daemon' = "down"
  /\ terminals' = {}
  /\ h' = [t \in Threads |-> Idle]
  /\ poll' = PollIdle
  /\ lastLive' = Unknown
  /\ todo' = {}
  /\ found' = Unknown
  /\ fresh' = {}
  /\ UNCHANGED <<disk, windows, dirs>>

StartMutant ==                     \* recovers only what was running
  /\ daemon = "down"
  /\ daemon' = "recovering"
  /\ todo' = {i \in Ids : rows[i].state = "running"}
  /\ UNCHANGED <<disk, windows, terminals, dirs, h, poll, lastLive, found,
                 crashes, fresh>>

(* recover_sessions lists the rows before the first client is accepted. *)
Start ==
  /\ daemon = "down"
  /\ daemon' = "recovering"
  /\ \/ todo' = {i \in Ids : Listed(i)}
     \/ Unheeded /\ todo' = {}
  /\ UNCHANGED <<disk, windows, terminals, dirs, h, poll, lastLive, found,
                 crashes, fresh>>

RecoverAdoptMutant(i) ==           \* adopts without a terminal
  /\ daemon = "recovering" /\ found = Unknown /\ i \in todo
  /\ todo' = todo \ {i}
  /\ \E s \in {"running", "exited"} :
       /\ s = "running" => windows[i] > 0
       /\ s = "exited" => windows[i] # 1
       /\ found' = {[id |-> i, state |-> s]}
  /\ UNCHANGED <<disk, windows, terminals, dirs, h, poll, lastLive, daemon,
                 crashes, fresh>>

(* adopt decides the state: has-session finds the window, does not find it
   (or finds several: the name is ambiguous), or fails.  No client is served
   yet, so the terminal's insertion cannot be told from the adoption. *)
RecoverAdopt(i) ==
  /\ daemon = "recovering" /\ found = Unknown /\ i \in todo
  /\ todo' = todo \ {i}
  /\ \E s \in {"running", "exited", "unreachable"} :
       /\ s = "running" => windows[i] > 0
       /\ s = "exited" => windows[i] # 1
       /\ s = "unreachable" => Backend
       /\ terminals' = IF s = "running" THEN terminals \cup {i} ELSE terminals
       /\ found' = {[id |-> i, state |-> s]}
  /\ UNCHANGED <<disk, windows, dirs, h, poll, lastLive, daemon, crashes,
                 fresh>>

RecoverState(i) ==
  /\ daemon = "recovering"
  /\ \E f \in found :
       /\ f.id = i
       /\ SetState(i, f.state) \/ (Unheeded /\ UNCHANGED rows)
  /\ found' = Unknown
  /\ UNCHANGED <<nextId, windows, terminals, dirs, h, poll, lastLive, daemon,
                 todo, crashes, fresh>>

RecoveryDone ==
  /\ daemon = "recovering" /\ todo = {} /\ found = Unknown
  /\ daemon' = "up"
  /\ UNCHANGED <<disk, windows, terminals, dirs, h, poll, lastLive, todo, found,
                 crashes, fresh>>

Recover == (\E i \in Ids : RecoverAdopt(i) \/ RecoverState(i)) \/ RecoveryDone

-----------------------------------------------------------------------------
Next ==
  \/ \E t \in Threads : Create(t) \/ Restart(t) \/ Delete(t)
  \/ \E i \in Ids : AgentExit(i)
  \/ Poll
  \/ Crash \/ Start \/ Recover

Spec == Init /\ [][Next]_vars

(* The poller ticks forever, a handler that began runs to its answer (no step
   of it waits for anything), and recovery finishes.  Nothing says a client
   sends a request, an agent exits or the daemon crashes or is started. *)
HandlerStep(t) == Busy(t) /\ (Create(t) \/ Restart(t) \/ Delete(t))

Fairness ==
  /\ WF_vars(Poll)
  /\ WF_vars(Recover)
  /\ \A t \in Threads : WF_vars(HandlerStep(t))

FairSpec == Spec /\ Fairness

(* Requests for one session do not overlap: no code enforces it, but a client
   that waits for its answers keeps to it alone.  That creates get different ids
   is left to the code.  Requests for different sessions still interleave, and
   with them the poller, agents and crashes. *)
Apart ==
  \A t, u \in Threads :
    Busy(t) /\ Busy(u) /\ h[t].id = h[u].id =>
      t = u \/ (Creating(t) /\ Creating(u))

ApartSpec == Init /\ [][Next /\ Apart']_vars

-----------------------------------------------------------------------------
(* Properties *)

TypeOK ==
  /\ rows \in [Ids -> Rows]
  /\ nextId \in 0 .. MaxSessions
  /\ windows \in [Ids -> 0 .. MaxWindows]
  /\ terminals \subseteq Ids
  /\ dirs \subseteq Workspaces
  /\ h \in [Threads -> Handlers]
  /\ poll \in [pc : {"idle", "reconcile", "mark"}, live : SUBSET Ids,
               victims : SUBSET Ids]
  /\ lastLive \subseteq SUBSET Ids
  /\ daemon \in {"up", "recovering", "down"}
  /\ todo \subseteq Ids
  /\ found \subseteq [id : Ids, state : {"running", "exited", "unreachable"}]
  /\ crashes \in 0 .. MaxCrashes
  /\ fresh \subseteq Ids

(* An id has one creator: two create handlers never work on the same id
   (next_session_id reads and bumps the counter under one mutex). *)
CreatorsDistinct ==
  \A t, u \in Threads : Creating(t) /\ Creating(u) /\ h[t].id = h[u].id => t = u

(* While clients are served, a row still Creating or Starting belongs to a
   create in progress: neither a failure of a create nor a crash in the middle
   of one leaves a session that will never become anything. *)
NoAbandonedCreate ==
  daemon = "up" =>
    \A i \in Ids : rows[i].state \in {"creating", "starting"} =>
      \E t \in Threads : Creating(t) /\ h[t].id = i

(* A session reported Running that no handler is working on has a terminal, so
   capture and attach find its screen; this relates the database to the
   in-memory store, which recovery has to rebuild. *)
RunningHasTerminal ==
  daemon = "up" =>
    \A i \in Ids : rows[i].state = "running" /\ WorkingOn(i) = {} =>
      i \in terminals

(* The poller marks a session Exited only if its window is gone, or was opened
   since the snapshot it decided from: a window open since before that is never
   reported dead, however late the mark is made. *)
LongLivedNotReportedDead ==
  [][\A i \in Ids :
       daemon = "up" /\ rows[i].state = "running" /\ rows'[i].state = "exited" =>
       windows[i] = 0 \/ i \in fresh]_vars

(* A deleted session never comes back to the list. *)
DeletedIsFinal ==
  [][\A i \in Ids : rows[i].state = "deleted" =>
       rows'[i].state \in {"deleted", "absent"}]_vars

Quiet == daemon = "up" /\ \A t \in Threads : ~Busy(t)

(* With no request in flight, every window belongs to a session in the list:
   a failed create and a delete leave no agent running unseen.  (A daemon that
   dies between the tombstone and the kill of a delete does.) *)
NoOrphanWindow ==
  Quiet /\ crashes = 0 => \A i \in Ids : windows[i] > 0 => Listed(i)

(* With no request in flight, every workspace on disk belongs to a session in
   the list, again unless a delete was cut off. *)
NoOrphanDir ==
  Quiet /\ crashes = 0 =>
    \A w \in dirs : \E i \in Ids : Listed(i) /\ rows[i].ws = w

(* A session has at most one window, so its name addresses it. *)
OneWindow == \A i \in Ids : windows[i] <= 1

(* A listed session that asked for a workspace has it. *)
WorkspaceKept ==
  Quiet => \A i \in Ids : Listed(i) /\ rows[i].ws # NoWorkspace =>
    rows[i].ws \in dirs

(* A session whose window is gone stops being reported Running. *)
Dead(i) == rows[i].state = "running" /\ windows[i] = 0
DeadIsReported == \A i \in Ids : Dead(i) ~> ~Dead(i)

(* ... and does so whenever the poller had seen the window alive, unless the
   daemon goes down first: then the next recovery reports it. *)
ObservedDeathReported ==
  \A i \in Ids :
    /\ Dead(i) /\ (\E S \in lastLive : i \in S) ~> ~Dead(i) \/ daemon = "down"
    /\ Dead(i) /\ i \in todo ~> ~Dead(i) \/ daemon = "down"

-----------------------------------------------------------------------------
(* Refinement: the registry a client sees, and the creates that have not been
   answered. *)

Book == [i \in Ids |-> [state |-> rows[i].state, name |-> rows[i].name]]
Unanswered == {h[t].id : t \in {u \in Threads : Creating(u)}}

Registry == INSTANCE SessionRegistry WITH
  next <- nextId, book <- Book, pending <- Unanswered

RegistrySpec == Registry!BookSpec
=============================================================================
