--------------------------- MODULE SessionScreens ---------------------------
(***************************************************************************)
(* Windows and terminals together: the requests of runtime.rs that reach a *)
(* pane (input, resize, capture, attach), those that open and close one,   *)
(* the poller that copies panes to terminals, and recovery.                *)
(*                                                                         *)
(* No lock spans two tmux calls or a tmux call and the store, so each is a *)
(* step.  Requests that open or close the window of one session come one   *)
(* at a time here: what their interleaving does to rows and windows is     *)
(* SessionLifecycle's subject.                                             *)
(***************************************************************************)
EXTENDS TmuxBackend

CONSTANTS
  Clients,     \* connections, each serving one request at a time
  Typists,     \* the clients that send one input each
  Parts,       \* chunks of an input
  Blank,       \* the screen of a fresh terminal
  MaxCrashes,  \* bound on daemon restarts
  MaxDraws,    \* bound on what the agents draw
  Failures     \* whether a tmux process run for a request may just fail

ASSUME ScreensAssumption ==
  /\ Typists \subseteq Clients
  /\ Parts \in Nat \ {0}
  /\ MaxCrashes \in Nat /\ MaxDraws \in Nat
  /\ Failures \in BOOLEAN

VARIABLES
  terminals,   \* the TerminalStore
  call,        \* call[c]: the request of client c and its next step
  answer,      \* answer[c]: of c's input: "none", "accepted", "failed", "lost"
  poll,        \* the poller: its step, the ids left, what it captured
  listed,      \* sessions in the list
  used,        \* ids ever handed out: an id is never used again
  crashes,
  draws,       \* times an agent drew
  opened,      \* history: ids for which a window was opened
  muddled      \* history: whose size was set out of turn, or not as asked

Store == INSTANCE TerminalStore

vars == <<windows, typed, terminals, call, answer, poll, listed, used, crashes,
          draws, opened, muddled>>

Idle == [pc |-> "idle", id |-> 0, new |-> FALSE, saw |-> FALSE, part |-> 0,
         size |-> DefaultSize, text |-> {}]
PollIdle == [pc |-> "idle", todo |-> {}, text |-> {}]

Init ==
  /\ TmuxInit
  /\ Store!TerminalInit
  /\ call = [c \in Clients |-> Idle]
  /\ answer = [c \in Clients |-> "none"]
  /\ poll = PollIdle
  /\ listed = {}
  /\ used = {}
  /\ crashes = 0
  /\ draws = 0
  /\ opened = {}
  /\ muddled = {}

At(c, pc) == call[c].pc = pc
Goto(c, pc) == call' = [call EXCEPT ![c].pc = pc]
Finish(c) == call' = [call EXCEPT ![c] = Idle]
Begin(c, pc, i) == call' = [call EXCEPT ![c] = [Idle EXCEPT !.pc = pc, !.id = i]]

LaunchSteps == {"kill", "probe", "open", "fit", "entry"}
Moving == LaunchSteps \cup {"forget", "close"}
(* Between setting the size of the window and that of the terminal. *)
Halfway == {"fit", "entry", "resize_entry"}
In(steps, i) == {c \in Clients : call[c].id = i /\ call[c].pc \in steps}

(* What a call for i would reach besides its own window. *)
Astray(i) == Target(i) \ {i}
(* A call that sets the size of its window with no other halfway settles it. *)
Settled(c) ==
  LET i == call[c].id
  IN IF In(Halfway, i) \subseteq {c} THEN muddled \ {i} ELSE muddled \cup {i}

Book == <<listed, used, crashes, draws>>
Past == <<opened, muddled>>

-----------------------------------------------------------------------------
(* create, restart *)

CreateBegin(c, i) ==
  /\ At(c, "idle") /\ i \notin used
  /\ used' = used \cup {i} /\ listed' = listed \cup {i}
  /\ call' = [call EXCEPT ![c] = [Idle EXCEPT !.pc = "probe", !.id = i, !.new = TRUE]]
  /\ UNCHANGED <<tmuxVars, terminals, answer, poll, crashes, draws, Past>>

RestartBegin(c, i) ==
  /\ At(c, "idle") /\ i \in listed /\ In(Moving, i) = {}
  /\ Begin(c, "kill", i)
  /\ UNCHANGED <<tmuxVars, terminals, answer, poll, Book, Past>>

(* The answer of kill is dropped; a kill that fails with the window there leaves
   two of one name, which is SessionLifecycle's subject. *)
RestartKill(c) ==
  /\ At(c, "kill")
  /\ KillWindow(call[c].id) \/ (Failures /\ ~HasWindow(call[c].id)
                                /\ UNCHANGED tmuxVars)
  /\ Goto(c, "probe")
  /\ UNCHANGED <<terminals, answer, poll, Book, Past>>

(* session_exists: a failure to ask reads as no session. *)
Probe(c) ==
  /\ At(c, "probe")
  /\ \E saw \in {Live # {}} \cup (IF Failures THEN {FALSE} ELSE {}) :
       call' = [call EXCEPT ![c].pc = "open", ![c].saw = saw]
  /\ UNCHANGED <<tmuxVars, terminals, answer, poll, Book, Past>>

Open(c) ==
  LET i == call[c].id IN
  /\ At(c, "open")
  /\ ~NewWindowFails(call[c].saw)
  /\ NewWindow(i, call[c].saw)
  /\ opened' = opened \cup {i}
  /\ muddled' = Settled(c)
  /\ call' = [call EXCEPT ![c].pc = "fit", ![c].saw = FALSE, ![c].new = FALSE]
  /\ UNCHANGED <<terminals, answer, poll, Book>>

OpenFailsMutant(c) ==           \* "duplicate session" read as success
  /\ At(c, "open")
  /\ NewWindowFails(call[c].saw) \/ Failures
  /\ Goto(c, "entry")
  /\ UNCHANGED <<tmuxVars, terminals, answer, poll, Book, Past>>

(* A failed create rolls its row back; a failed restart keeps the session.
   Restart leaves the terminal of the old window where it is. *)
OpenFails(c) ==
  /\ At(c, "open")
  /\ NewWindowFails(call[c].saw) \/ Failures
  /\ listed' = IF call[c].new THEN listed \ {call[c].id} ELSE listed
  /\ Finish(c)
  /\ UNCHANGED <<tmuxVars, terminals, answer, poll, used, crashes, draws, Past>>

(* The second tmux call of create; its answer is dropped, so one that fails
   leaves the window the size of its tmux session. *)
Fit(c) ==
  LET i == call[c].id IN
  /\ At(c, "fit")
  /\ \/ /\ ResizeWindow(i, DefaultSize)
        /\ muddled' = Settled(c) \cup Astray(i)
     \/ /\ Failures /\ UNCHANGED tmuxVars
        /\ muddled' = IF \E w \in windows[i] : w.size # DefaultSize
                      THEN muddled \cup {i} ELSE muddled
  /\ Goto(c, "entry")
  /\ UNCHANGED <<terminals, answer, poll, Book, opened>>

Entry(c) ==
  /\ At(c, "entry")
  /\ Store!Insert(call[c].id, DefaultSize)
  /\ Finish(c)
  /\ UNCHANGED <<tmuxVars, answer, poll, Book, Past>>

Launch(c) ==
  \/ \E i \in Ids : CreateBegin(c, i) \/ RestartBegin(c, i)
  \/ RestartKill(c) \/ Probe(c) \/ Open(c) \/ OpenFails(c) \/ Fit(c) \/ Entry(c)

-----------------------------------------------------------------------------
(* delete: the row, the terminal, then the window, whose answer is dropped *)

DeleteBegin(c, i) ==
  /\ At(c, "idle") /\ i \in listed /\ In(Moving, i) = {}
  /\ listed' = listed \ {i}
  /\ Begin(c, "forget", i)
  /\ UNCHANGED <<tmuxVars, terminals, answer, poll, used, crashes, draws, Past>>

Forget(c) ==
  /\ At(c, "forget")
  /\ Store!Remove(call[c].id)
  /\ Goto(c, "close")
  /\ UNCHANGED <<tmuxVars, answer, poll, Book, Past>>

Close(c) ==
  /\ At(c, "close")
  /\ KillWindow(call[c].id) \/ (Failures /\ UNCHANGED tmuxVars)
  /\ Finish(c)
  /\ UNCHANGED <<terminals, answer, poll, Book, Past>>

Delete(c) == (\E i \in Ids : DeleteBegin(c, i)) \/ Forget(c) \/ Close(c)

-----------------------------------------------------------------------------
(* SendInput, for any id a client knows, listed or not *)

SendBegin(c, i) ==
  /\ At(c, "idle") /\ c \in Typists /\ answer[c] = "none" /\ i \in used
  /\ call' = [call EXCEPT ![c] = [Idle EXCEPT !.pc = "send", !.id = i, !.part = 1]]
  /\ UNCHANGED <<tmuxVars, terminals, answer, poll, Book, Past>>

SendChunkMutant(c) ==           \* goes on after a chunk that failed
  /\ At(c, "send")
  /\ SendKeys(call[c].id, c, call[c].part) \/ (Failures /\ UNCHANGED tmuxVars)
  /\ IF call[c].part = Parts
     THEN answer' = [answer EXCEPT ![c] = "accepted"] /\ Finish(c)
     ELSE call' = [call EXCEPT ![c].part = @ + 1] /\ UNCHANGED answer
  /\ UNCHANGED <<terminals, poll, Book, Past>>

(* Each chunk is a send-keys of its own, so two inputs may mix, and the target
   is resolved again every time. *)
SendChunk(c) ==
  /\ At(c, "send")
  /\ Target(call[c].id) # {}
  /\ SendKeys(call[c].id, c, call[c].part)
  /\ IF call[c].part = Parts
     THEN answer' = [answer EXCEPT ![c] = "accepted"] /\ Finish(c)
     ELSE call' = [call EXCEPT ![c].part = @ + 1] /\ UNCHANGED answer
  /\ UNCHANGED <<terminals, poll, Book, Past>>

(* The first chunk that fails is the answer; those before it stay typed. *)
SendFails(c) ==
  /\ At(c, "send")
  /\ Target(call[c].id) = {} \/ Failures
  /\ answer' = [answer EXCEPT ![c] = "failed"]
  /\ Finish(c)
  /\ UNCHANGED <<tmuxVars, terminals, poll, Book, Past>>

Send(c) == (\E i \in Ids : SendBegin(c, i)) \/ SendChunk(c) \/ SendFails(c)

-----------------------------------------------------------------------------
(* ResizeSession, for any id: the window, then the terminal *)

ResizeBegin(c, i, s) ==
  /\ At(c, "idle") /\ i \in used
  /\ call' = [call EXCEPT ![c] = [Idle EXCEPT !.pc = "resize", !.id = i, !.size = s]]
  /\ UNCHANGED <<tmuxVars, terminals, answer, poll, Book, Past>>

ResizeMutant(c) ==              \* goes on to the terminal after a failure
  /\ At(c, "resize")
  /\ \/ /\ ResizeWindow(call[c].id, call[c].size)
        /\ muddled' = Settled(c) \cup Astray(call[c].id)
     \/ Failures /\ UNCHANGED <<tmuxVars, muddled>>
  /\ Goto(c, "resize_entry")
  /\ UNCHANGED <<terminals, answer, poll, Book, opened>>

Resize(c) ==
  LET i == call[c].id IN
  /\ At(c, "resize")
  /\ \/ /\ Target(i) # {}
        /\ ResizeWindow(i, call[c].size)
        /\ muddled' = Settled(c) \cup Astray(i)
        /\ Goto(c, "resize_entry")
     \/ /\ Target(i) = {} \/ Failures
        /\ Finish(c)
        /\ UNCHANGED <<tmuxVars, muddled>>
  /\ UNCHANGED <<terminals, answer, poll, Book, opened>>

(* The window may have changed hands since: the store knows only the id. *)
ResizeEntry(c) ==
  /\ At(c, "resize_entry")
  /\ Store!ResizeTerminal(call[c].id, call[c].size)
  /\ Finish(c)
  /\ UNCHANGED <<tmuxVars, answer, poll, Book, Past>>

ResizeSession(c) ==
  \/ \E i \in Ids, s \in Sizes : ResizeBegin(c, i, s)
  \/ Resize(c) \/ ResizeEntry(c)

-----------------------------------------------------------------------------
(* CaptureScreen and AttachSession, for any id *)

CaptureBegin(c, i) ==
  /\ At(c, "idle") /\ i \in used
  /\ Begin(c, "capture", i)
  /\ UNCHANGED <<tmuxVars, terminals, answer, poll, Book, Past>>

Capture(c) ==
  LET i == call[c].id IN
  /\ At(c, "capture")
  /\ \/ /\ CapturePane(i) # {}
        /\ call' = [call EXCEPT ![c].pc = "pane", ![c].text = CapturePane(i)]
     \/ /\ CapturePane(i) = {} \/ Failures
        /\ Finish(c)
  /\ UNCHANGED <<tmuxVars, terminals, answer, poll, Book, Past>>

(* pane_state is a tmux call of its own, and best effort. *)
Pane(c) ==
  LET i == call[c].id IN
  /\ At(c, "pane")
  /\ \E p \in {PaneState(i)} \cup (IF Failures THEN {{}} ELSE {}) :
       Store!SetPane(i, p)
  /\ Goto(c, "apply")
  /\ UNCHANGED <<tmuxVars, answer, poll, Book, Past>>

(* Whatever was captured is applied, however old it is by now. *)
Apply(c) ==
  /\ At(c, "apply")
  /\ \E text \in call[c].text : Store!ApplyCapture(call[c].id, text)
  /\ Finish(c)
  /\ UNCHANGED <<tmuxVars, answer, poll, Book, Past>>

CaptureScreen(c) ==
  (\E i \in Ids : CaptureBegin(c, i)) \/ Capture(c) \/ Pane(c) \/ Apply(c)

-----------------------------------------------------------------------------
(* poll_backend *)

PollBegin ==
  /\ poll.pc = "idle"
  /\ poll' = IF Live = {} THEN PollIdle
             ELSE [poll EXCEPT !.pc = "capture", !.todo = Live]
  /\ UNCHANGED <<tmuxVars, terminals, call, answer, Book, Past>>

Rest(i) == IF poll.todo = {i} THEN PollIdle
           ELSE [pc |-> "capture", todo |-> poll.todo \ {i}, text |-> {}]
First(i) == i \in poll.todo /\ \A j \in poll.todo : i <= j

(* A session whose capture fails is passed over.  It fails here for want of a
   window only; when tmux itself fails the session waits for the next tick. *)
PollCapture(i) ==
  /\ poll.pc = "capture" /\ First(i)
  /\ \/ CapturePane(i) # {} /\ poll' = [poll EXCEPT !.pc = "pane",
                                                    !.text = CapturePane(i)]
     \/ CapturePane(i) = {} /\ poll' = Rest(i)
  /\ UNCHANGED <<tmuxVars, terminals, call, answer, Book, Past>>

PollPane(i) ==
  /\ poll.pc = "pane" /\ First(i)
  /\ Store!SetPane(i, PaneState(i))
  /\ poll' = [poll EXCEPT !.pc = "apply"]
  /\ UNCHANGED <<tmuxVars, call, answer, Book, Past>>

(* The id list is the one the tick began with; a terminal gone since is a
   NotFound, and the poller goes on. *)
PollApply(i) ==
  /\ poll.pc = "apply" /\ First(i)
  /\ \E text \in poll.text : Store!ApplyCapture(i, text)
  /\ poll' = Rest(i)
  /\ UNCHANGED <<tmuxVars, call, answer, Book, Past>>

Poll == PollBegin \/ \E i \in Ids : PollCapture(i) \/ PollPane(i) \/ PollApply(i)

-----------------------------------------------------------------------------
(* The daemon is killed and started again: recover_sessions gives every listed
   session whose name finds a window a terminal of the default size, whatever
   size the window has kept. *)
Recover ==
  /\ crashes < MaxCrashes
  /\ crashes' = crashes + 1
  /\ terminals' = [i \in Ids |->
       IF i \in listed /\ Target(i) # {}
       THEN {[screen |-> Blank, last |-> Blank, pane |-> {}, size |-> DefaultSize]}
       ELSE {}]
  /\ call' = [c \in Clients |-> Idle]
  /\ answer' = [c \in Clients |-> IF At(c, "send") THEN "lost" ELSE answer[c]]
  /\ poll' = PollIdle
  /\ muddled' = {i \in Ids : \E w \in windows[i] : w.size # DefaultSize}
  /\ UNCHANGED <<tmuxVars, listed, used, draws, opened>>

Agent(i) ==
  /\ \/ AgentDraws(i) /\ draws < MaxDraws /\ draws' = draws + 1
     \/ AgentEnds(i) /\ UNCHANGED draws
  /\ UNCHANGED <<terminals, call, answer, poll, listed, used, crashes, Past>>

Handler(c) == Launch(c) \/ Delete(c) \/ Send(c) \/ ResizeSession(c)
              \/ CaptureScreen(c)

Next ==
  \/ \E c \in Clients : Handler(c)
  \/ Poll \/ Recover
  \/ \E i \in Ids : Agent(i)

(* The poller ticks for ever.  Nothing says that a client asks for anything, that
   its request is answered, or that an agent draws. *)
Spec == Init /\ [][Next]_vars /\ WF_vars(Poll)

-----------------------------------------------------------------------------
(* Properties *)

(* What tmux got of the input of client c: which of all chunks, which parts. *)
Mine(c) == {k \in DOMAIN typed : typed[k].input = c}
Came(c) == {typed[k].part : k \in Mine(c)}

(* An accepted input reached tmux whole, in order and once; one answered with
   an error was typed up to the chunk that failed and no further.  The chunks
   of two clients may mix, and the session may die between two of them. *)
InputWhole ==
  \A c \in Typists :
    /\ \A j, k \in Mine(c) : j < k => typed[j].part < typed[k].part
    /\ \E n \in 0 .. Parts :
         /\ Came(c) = 1 .. n
         /\ answer[c] = "accepted" => n = Parts
         /\ answer[c] = "failed" => n < Parts

(* Input, and the screen a client is shown, cross from one session to another
   only when the name of the one begins the name of the other. *)
OwnWindow ==
  /\ \A k \in DOMAIN typed :
       typed[k].to # typed[k].id => Prefix(typed[k].id, typed[k].to)
  /\ \A i \in Ids : \A e \in terminals[i] :
       e.screen # Blank /\ e.screen.of # i => Prefix(i, e.screen.of)

(* A session that has a terminal was given a window, or recovery took that of
   a session whose name it begins for it: of two creates that both saw no tmux
   session, the one that lost is answered with the error. *)
TerminalHadWindow ==
  \A i \in Ids : Store!HasTerminal(i) =>
    i \in opened \/ \E j \in opened : Prefix(i, j)

(* With no request between its window and its terminal, a session is shown at the
   size its window has, from the first launch or resize that tmux obeyed and no
   other was halfway through, until one of these: two requests halfway at once,
   a call for another session that hits its window, a launch whose resize-window
   failed and was dropped, or a restart of the daemon after a resize. *)
SizesAgree ==
  \A i \in Ids \ muddled :
    In(Halfway, i) = {} =>
      \A w \in windows[i], e \in terminals[i] : w.size = e.size

(* A terminal that does not show what its window shows, cursor included, comes
   to do so: a stale capture applied late is repaired by the next tick, and a
   terminal made anew is filled.  Agents stop drawing at MaxDraws: one that
   draws at every tick is never caught up with. *)
Behind(i) ==
  \E w \in windows[i], e \in terminals[i] :
    LET now == [of |-> i, text |-> w.text]
    IN e.screen # now \/ e.pane # {now}
ScreenCatchesUp == \A i \in Ids : Behind(i) ~> ~Behind(i)
=============================================================================
