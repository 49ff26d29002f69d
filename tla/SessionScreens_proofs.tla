------------------------ MODULE SessionScreens_proofs -----------------------
(***************************************************************************)
(* Proofs about SessionScreens for any sessions, clients, sizes, restarts  *)
(* of the daemon and failures of tmux.                                     *)
(*                                                                         *)
(* Every step moves one client, the poller, an agent or the daemon; what a *)
(* client's step leaves of the other clients is in the lemmas on calls.    *)
(***************************************************************************)
EXTENDS SessionScreens, FiniteSetTheorems, TLAPS

-----------------------------------------------------------------------------
(* Types *)

Shots == [of : Ids, text : Texts]
WindowRecords == [text : Texts, size : Sizes]
TerminalRecords ==
  [screen : Shots \cup {Blank}, last : Shots \cup {Blank}, pane : SUBSET Shots,
   size : Sizes]
Steps == Moving \cup {"resize", "resize_entry", "idle", "send", "capture", "pane",
                     "apply"}
CallRecords ==
  {r \in [pc : Steps, id : Ids \cup {0}, new : BOOLEAN, saw : BOOLEAN,
          part : Nat, size : Sizes, text : SUBSET Shots] :
     r.pc # "idle" => r.id \in Ids}
PollRecords ==
  [pc : {"idle", "capture", "pane", "apply"}, todo : SUBSET Ids,
   text : SUBSET Shots]

CallType == call \in [Clients -> CallRecords]
WindowType == windows \in [Ids -> SUBSET WindowRecords]
TerminalType == terminals \in [Ids -> SUBSET TerminalRecords]
PollType == poll \in PollRecords

ScreensType == CallType /\ WindowType /\ TerminalType /\ PollType

(* Moves(c, r): client c goes on as r, and no other client moves. *)
Moves(c, r) == call' = [call EXCEPT ![c] = r]

LEMMA IdleIsCall == Idle \in CallRecords
BY WindowsAssumption DEF Idle, CallRecords, Steps

LEMMA MovesType ==
  ASSUME CallType, NEW c \in Clients, NEW r \in CallRecords, Moves(c, r)
  PROVE  /\ CallType'
         /\ call'[c] = r
         /\ \A d \in Clients \ {c} : call'[d] = call[d]
BY DEF CallType, Moves

LEMMA GotoMoves ==
  ASSUME CallType, NEW c \in Clients, call[c].pc # "idle", NEW pc \in Steps,
         Goto(c, pc)
  PROVE  \E r \in CallRecords :
           Moves(c, r) /\ r = [call[c] EXCEPT !.pc = pc]
BY DEF CallType, Goto, Moves, CallRecords

LEMMA FinishMoves ==
  ASSUME NEW c \in Clients, Finish(c) PROVE Moves(c, Idle)
BY DEF Finish, Moves

LEMMA BeginMoves ==
  ASSUME NEW c \in Clients, NEW pc \in Steps, NEW i \in Ids, Begin(c, pc, i)
  PROVE  \E r \in CallRecords :
           Moves(c, r) /\ r = [Idle EXCEPT !.pc = pc, !.id = i]
<1>1. [Idle EXCEPT !.pc = pc, !.id = i] \in CallRecords
  BY IdleIsCall DEF CallRecords, Idle
<1> QED BY <1>1 DEF Begin, Moves

(* A call reaches windows of its own name or of one it begins. *)
LEMMA TargetNamed ==
  ASSUME NEW i \in Ids
  PROVE  /\ Target(i) \subseteq Ids
         /\ \A j \in Target(i) : HasWindow(j) /\ (j = i \/ Prefix(i, j))
BY DEF Target, Live

LEMMA CaptureNamed ==
  ASSUME WindowType, NEW i \in Ids
  PROVE  /\ CapturePane(i) \subseteq Shots
         /\ \A t \in CapturePane(i) : t.of = i \/ Prefix(i, t.of)
<1>1. ASSUME NEW t \in CapturePane(i)
      PROVE  t \in Shots /\ (t.of = i \/ Prefix(i, t.of))
  <2>1. PICK j \in Target(i) : \E w \in windows[j] : t = [of |-> j, text |-> w.text]
    BY DEF CapturePane
  <2>2. j \in Ids /\ (j = i \/ Prefix(i, j))
    BY <2>1, TargetNamed
  <2>3. PICK w \in windows[j] : t = [of |-> j, text |-> w.text]
    BY <2>1
  <2>4. w.text \in Texts
    BY <2>2 DEF WindowType, WindowRecords
  <2> QED BY <2>2, <2>3, <2>4 DEF Shots
<1> QED BY <1>1

LEMMA WindowsKept ==
  ASSUME WindowType, NEW i \in Ids
  PROVE  /\ KillWindow(i) => WindowType'
         /\ \A s \in Sizes : ResizeWindow(i, s) => WindowType'
         /\ NewWindow(i, TRUE) \/ NewWindow(i, FALSE) => WindowType'
         /\ AgentDraws(i) \/ AgentEnds(i) => WindowType'
<1>1. KillWindow(i) => WindowType'
  BY DEF KillWindow, WindowType
<1>2. ASSUME NEW s \in Sizes, ResizeWindow(i, s) PROVE WindowType'
  <2>1. \A j \in Ids : \A w \in windows[j] : [w EXCEPT !.size = s] \in WindowRecords
    BY DEF WindowType, WindowRecords
  <2> QED BY <1>2, <2>1 DEF ResizeWindow, WindowType
<1>3. NewWindow(i, TRUE) \/ NewWindow(i, FALSE) => WindowType'
  BY WindowsAssumption DEF NewWindow, WindowType, WindowRecords
<1>4. ASSUME AgentDraws(i) PROVE WindowType'
  <2>1. \A t \in Texts, w \in windows[i] : [w EXCEPT !.text = t] \in WindowRecords
    BY DEF WindowType, WindowRecords
  <2> QED BY <1>4, <2>1 DEF AgentDraws, WindowType
<1>5. AgentEnds(i) => WindowType'
  BY DEF AgentEnds, WindowType
<1> QED BY <1>1, <1>2, <1>3, <1>4, <1>5

LEMMA TerminalsKept ==
  ASSUME TerminalType, NEW i \in Ids
  PROVE  /\ \A s \in Sizes : Store!Insert(i, s) => TerminalType'
         /\ Store!Remove(i) => TerminalType'
         /\ \A s \in Sizes : Store!ResizeTerminal(i, s) => TerminalType'
         /\ \A p \in SUBSET Shots : Store!SetPane(i, p) => TerminalType'
         /\ \A t \in Shots : Store!ApplyCapture(i, t) => TerminalType'
<1>0. \A e \in terminals[i] : e \in TerminalRecords
  BY DEF TerminalType
<1>1. ASSUME NEW s \in Sizes, Store!Insert(i, s) PROVE TerminalType'
  <2>1. [screen |-> Blank, last |-> Blank, pane |-> {}, size |-> s]
          \in TerminalRecords
    BY DEF TerminalRecords
  <2> QED BY <1>1, <2>1 DEF Store!Insert, TerminalType
<1>2. Store!Remove(i) => TerminalType'
  BY DEF Store!Remove, TerminalType
<1>3. ASSUME NEW s \in Sizes, Store!ResizeTerminal(i, s) PROVE TerminalType'
  <2>1. \A e \in terminals[i] : [e EXCEPT !.size = s] \in TerminalRecords
    BY <1>0 DEF TerminalRecords
  <2> QED BY <1>3, <2>1 DEF Store!ResizeTerminal, TerminalType
<1>4. ASSUME NEW p \in SUBSET Shots, Store!SetPane(i, p) PROVE TerminalType'
  <2>1. \A e \in terminals[i] : [e EXCEPT !.pane = p] \in TerminalRecords
    BY <1>0 DEF TerminalRecords
  <2> QED BY <1>4, <2>1 DEF Store!SetPane, TerminalType
<1>5. ASSUME NEW t \in Shots, Store!ApplyCapture(i, t) PROVE TerminalType'
  <2>1. \A e \in terminals[i] : Store!Applied(e, t) \in TerminalRecords
    BY <1>0 DEF TerminalRecords, Store!Applied
  <2> QED BY <1>5, <2>1 DEF Store!ApplyCapture, TerminalType
<1> QED BY <1>1, <1>2, <1>3, <1>4, <1>5

-----------------------------------------------------------------------------
(* ScreensType is inductive. *)

LEMMA InitType == Init => ScreensType
BY IdleIsCall
   DEF Init, TmuxInit, Store!TerminalInit, ScreensType, CallType, WindowType,
       TerminalType, PollType, PollIdle, PollRecords

(* What every request does to the calls, and to what it may touch besides. *)
LEMMA HandlerMoves ==
  ASSUME ScreensType, NEW c \in Clients, Handler(c)
  PROVE  \E r \in CallRecords : Moves(c, r)
<1> USE DEF ScreensType
<1>s. /\ LaunchSteps \cup {"forget", "close", "resize", "resize_entry", "idle",
                           "send", "capture", "pane", "apply"} = Steps
      /\ \A pc \in LaunchSteps : pc # "idle"
  BY DEF Steps, Moving, LaunchSteps
<1>f. Finish(c) => \E r \in CallRecords : Moves(c, r)
  BY FinishMoves, IdleIsCall
<1>g. ASSUME NEW pc \in Steps, call[c].pc # "idle", Goto(c, pc)
      PROVE  \E r \in CallRecords : Moves(c, r)
  BY <1>g, GotoMoves
<1>b. ASSUME NEW pc \in Steps, NEW i \in Ids, Begin(c, pc, i)
      PROVE  \E r \in CallRecords : Moves(c, r)
  BY <1>b, BeginMoves
<1>c. call[c] \in CallRecords
  BY DEF CallType
<1>1. CASE Launch(c)
  <2>1. ASSUME NEW i \in Ids, CreateBegin(c, i)
        PROVE  \E r \in CallRecords : Moves(c, r)
    <3>1. [Idle EXCEPT !.pc = "probe", !.id = i, !.new = TRUE] \in CallRecords
      BY <1>s, IdleIsCall DEF CallRecords, Idle, LaunchSteps
    <3> QED BY <2>1, <3>1 DEF CreateBegin, Moves
  <2>2. ASSUME NEW i \in Ids, RestartBegin(c, i)
        PROVE  \E r \in CallRecords : Moves(c, r)
    BY <1>b, <1>s, <2>2 DEF RestartBegin, LaunchSteps
  <2>3. RestartKill(c) => \E r \in CallRecords : Moves(c, r)
    BY <1>g, <1>s DEF RestartKill, LaunchSteps, At
  <2>4. ASSUME Probe(c) PROVE \E r \in CallRecords : Moves(c, r)
    <3>1. PICK saw \in BOOLEAN :
            call' = [call EXCEPT ![c].pc = "open", ![c].saw = saw]
      BY <2>4 DEF Probe
    <3>2. [call[c] EXCEPT !.pc = "open", !.saw = saw] \in CallRecords
      BY <1>c, <1>s, <2>4 DEF CallRecords, Probe, At, LaunchSteps
    <3> QED BY <3>1, <3>2 DEF Moves, CallType
  <2>5. ASSUME Open(c) PROVE \E r \in CallRecords : Moves(c, r)
    <3>1. [call[c] EXCEPT !.pc = "fit", !.saw = FALSE, !.new = FALSE]
            \in CallRecords
      BY <1>c, <1>s, <2>5 DEF CallRecords, Open, At, LaunchSteps
    <3> QED BY <2>5, <3>1 DEF Open, Moves, CallType
  <2>6. OpenFails(c) \/ Entry(c) => \E r \in CallRecords : Moves(c, r)
    BY <1>f DEF OpenFails, Entry
  <2>7. Fit(c) => \E r \in CallRecords : Moves(c, r)
    BY <1>g, <1>s DEF Fit, LaunchSteps, At
  <2> QED BY <1>1, <2>1, <2>2, <2>3, <2>4, <2>5, <2>6, <2>7 DEF Launch
<1>2. CASE Delete(c)
  <2>1. Forget(c) \/ Close(c) => \E r \in CallRecords : Moves(c, r)
    BY <1>f, <1>g, <1>s DEF Forget, Close, At
  <2> QED BY <1>2, <1>b, <1>s, <2>1 DEF Delete, DeleteBegin
<1>3. CASE Send(c)
  <2>1. ASSUME NEW i \in Ids, SendBegin(c, i)
        PROVE  \E r \in CallRecords : Moves(c, r)
    <3>1. [Idle EXCEPT !.pc = "send", !.id = i, !.part = 1] \in CallRecords
      BY <1>s, IdleIsCall DEF CallRecords, Idle
    <3> QED BY <2>1, <3>1 DEF SendBegin, Moves
  <2>2. ASSUME SendChunk(c) PROVE \E r \in CallRecords : Moves(c, r)
    <3>1. [call[c] EXCEPT !.part = @ + 1] \in CallRecords
      BY <1>c DEF CallRecords
    <3> QED BY <1>f, <2>2, <3>1 DEF SendChunk, Moves, CallType
  <2>3. SendFails(c) => \E r \in CallRecords : Moves(c, r)
    BY <1>f DEF SendFails
  <2> QED BY <1>3, <2>1, <2>2, <2>3 DEF Send
<1>4. CASE ResizeSession(c)
  <2>1. ASSUME NEW i \in Ids, NEW s \in Sizes, ResizeBegin(c, i, s)
        PROVE  \E r \in CallRecords : Moves(c, r)
    <3>1. [Idle EXCEPT !.pc = "resize", !.id = i, !.size = s] \in CallRecords
      BY <1>s, IdleIsCall DEF CallRecords, Idle
    <3> QED BY <2>1, <3>1 DEF ResizeBegin, Moves
  <2>2. Resize(c) \/ ResizeEntry(c) => \E r \in CallRecords : Moves(c, r)
    BY <1>f, <1>g, <1>s DEF Resize, ResizeEntry, At
  <2> QED BY <1>4, <2>1, <2>2 DEF ResizeSession
<1>5. CASE CaptureScreen(c)
  <2>1. ASSUME Capture(c) PROVE \E r \in CallRecords : Moves(c, r)
    <3>1. call[c].id \in Ids
      BY <1>c, <2>1 DEF Capture, At, CallRecords
    <3>2. [call[c] EXCEPT !.pc = "pane", !.text = CapturePane(call[c].id)]
            \in CallRecords
      BY <1>c, <1>s, <3>1, CaptureNamed DEF CallRecords
    <3> QED BY <1>f, <2>1, <3>2 DEF Capture, Moves, CallType
  <2>2. Pane(c) \/ Apply(c) => \E r \in CallRecords : Moves(c, r)
    BY <1>f, <1>g, <1>s DEF Pane, Apply, At
  <2> QED BY <1>5, <1>b, <1>s, <2>1, <2>2 DEF CaptureScreen, CaptureBegin
<1> QED BY <1>1, <1>2, <1>3, <1>4, <1>5 DEF Handler

LEMMA BusyCall ==
  ASSUME CallType, NEW c \in Clients, call[c].pc # "idle"
  PROVE  /\ call[c].id \in Ids
         /\ call[c].size \in Sizes
         /\ call[c].text \subseteq Shots
         /\ call[c].saw \in BOOLEAN
BY DEF CallType, CallRecords

(* The requests that reach a window, and those that reach a terminal. *)
LEMMA HandlerWindows ==
  ASSUME NEW c \in Clients, Handler(c)
  PROVE  \/ windows' = windows
         \/ call[c].pc \in {"kill", "close"} /\ KillWindow(call[c].id)
         \/ Open(c)
         \/ Fit(c) /\ ResizeWindow(call[c].id, DefaultSize)
         \/ Resize(c) /\ ResizeWindow(call[c].id, call[c].size)
                      /\ Goto(c, "resize_entry")
<1> USE DEF tmuxVars
<1>1. Launch(c) => \/ windows' = windows \/ Open(c)
                   \/ Fit(c) /\ ResizeWindow(call[c].id, DefaultSize)
                   \/ call[c].pc = "kill" /\ KillWindow(call[c].id)
  BY DEF Launch, CreateBegin, RestartBegin, RestartKill, Probe, OpenFails,
         Fit, Entry, At
<1>2. Delete(c) => \/ windows' = windows
                   \/ call[c].pc = "close" /\ KillWindow(call[c].id)
  <2>1. ASSUME NEW i \in Ids, DeleteBegin(c, i) PROVE windows' = windows
    BY <2>1 DEF DeleteBegin
  <2>2. Forget(c) => windows' = windows
    BY DEF Forget
  <2>3. Close(c) => \/ windows' = windows
                    \/ call[c].pc = "close" /\ KillWindow(call[c].id)
    BY DEF Close, At
  <2> QED BY <2>1, <2>2, <2>3 DEF Delete
<1>3. Send(c) \/ CaptureScreen(c) => windows' = windows
  BY DEF Send, SendBegin, SendChunk, SendFails, SendKeys, CaptureScreen,
         CaptureBegin, Capture, Pane, Apply
<1>4. ResizeSession(c) =>
        \/ windows' = windows
        \/ Resize(c) /\ ResizeWindow(call[c].id, call[c].size)
                     /\ Goto(c, "resize_entry")
  BY DEF ResizeSession, ResizeBegin, Resize, ResizeEntry
<1> QED BY <1>1, <1>2, <1>3, <1>4 DEF Handler

LEMMA HandlerTerminals ==
  ASSUME NEW c \in Clients, Handler(c)
  PROVE  terminals' = terminals \/ Entry(c) \/ Forget(c) \/ ResizeEntry(c)
         \/ Pane(c) \/ Apply(c)
<1>1. Launch(c) => terminals' = terminals \/ Entry(c)
  BY DEF Launch, CreateBegin, RestartBegin, RestartKill, Probe, Open, OpenFails,
         Fit
<1>2. Delete(c) => terminals' = terminals \/ Forget(c)
  BY DEF Delete, DeleteBegin, Close
<1>3. Send(c) => terminals' = terminals
  BY DEF Send, SendBegin, SendChunk, SendFails
<1>4. ResizeSession(c) => terminals' = terminals \/ ResizeEntry(c)
  BY DEF ResizeSession, ResizeBegin, Resize
<1>5. CaptureScreen(c) => terminals' = terminals \/ Pane(c) \/ Apply(c)
  BY DEF CaptureScreen, CaptureBegin, Capture
<1> QED BY <1>1, <1>2, <1>3, <1>4, <1>5 DEF Handler

LEMMA HandlerPoll ==
  ASSUME NEW c \in Clients, Handler(c) PROVE poll' = poll
BY DEF Handler, Launch, CreateBegin, RestartBegin, RestartKill, Probe, Open,
       OpenFails, Fit, Entry, Delete, DeleteBegin, Forget, Close, Send,
       SendBegin, SendChunk, SendFails, ResizeSession, ResizeBegin, Resize,
       ResizeEntry, CaptureScreen, CaptureBegin, Capture, Pane, Apply

LEMMA HandlerType ==
  ASSUME ScreensType, NEW c \in Clients, Handler(c)
  PROVE  ScreensType'
<1> USE DEF ScreensType
<1>1. CallType'
  BY HandlerMoves, MovesType
<1>2. WindowType'
  <2>1. CASE windows' = windows
    BY <2>1 DEF WindowType
  <2>2. CASE call[c].pc \in {"kill", "close"} /\ KillWindow(call[c].id)
    BY <2>2, BusyCall, WindowsKept
  <2>3. CASE Open(c)
    <3>1. call[c].id \in Ids /\ call[c].saw \in BOOLEAN
          /\ NewWindow(call[c].id, call[c].saw)
      BY <2>3, BusyCall DEF Open, At
    <3> QED BY <3>1, WindowsKept
  <2>4. CASE Fit(c) /\ ResizeWindow(call[c].id, DefaultSize)
    BY <2>4, BusyCall, WindowsAssumption, WindowsKept DEF Fit, At
  <2>5. CASE Resize(c) /\ ResizeWindow(call[c].id, call[c].size)
    BY <2>5, BusyCall, WindowsKept DEF Resize, At
  <2> QED BY <2>1, <2>2, <2>3, <2>4, <2>5, HandlerWindows
<1>3. TerminalType'
  <2>1. CASE terminals' = terminals
    BY <2>1 DEF TerminalType
  <2>2. CASE Entry(c)
    BY <2>2, BusyCall, WindowsAssumption, TerminalsKept DEF Entry, At
  <2>3. CASE Forget(c)
    BY <2>3, BusyCall, TerminalsKept DEF Forget, At
  <2>4. CASE ResizeEntry(c)
    BY <2>4, BusyCall, TerminalsKept DEF ResizeEntry, At
  <2>5. CASE Pane(c)
    <3>1. call[c].id \in Ids
      BY <2>5, BusyCall DEF Pane, At
    <3>2. PaneState(call[c].id) \in SUBSET Shots /\ {} \in SUBSET Shots
      BY <3>1, CaptureNamed DEF PaneState
    <3> QED BY <2>5, <3>1, <3>2, TerminalsKept DEF Pane
  <2>6. CASE Apply(c)
    BY <2>6, BusyCall, TerminalsKept DEF Apply, At
  <2> QED BY <2>1, <2>2, <2>3, <2>4, <2>5, <2>6, HandlerTerminals
<1>4. PollType'
  BY HandlerPoll DEF PollType
<1> QED BY <1>1, <1>2, <1>3, <1>4

LEMMA PollKeepsType == ASSUME ScreensType, Poll PROVE ScreensType'
<1> USE DEF ScreensType, PollType, PollRecords
<1>1. CASE PollBegin
  <2>1. poll' \in PollRecords
    BY <1>1 DEF PollBegin, PollIdle, Live
  <2> QED BY <1>1, <2>1 DEF PollBegin, tmuxVars, CallType, WindowType,
                            TerminalType
<1>2. ASSUME NEW i \in Ids PROVE Rest(i) \in PollRecords
  BY DEF Rest, PollIdle
<1>3. ASSUME NEW i \in Ids, PollCapture(i) PROVE ScreensType'
  <2>1. poll' \in PollRecords
    BY <1>2, <1>3, CaptureNamed DEF PollCapture
  <2> QED BY <1>3, <2>1 DEF PollCapture, tmuxVars, CallType, WindowType,
                            TerminalType
<1>4. ASSUME NEW i \in Ids, PollPane(i) PROVE ScreensType'
  <2>1. PaneState(i) \in SUBSET Shots
    BY CaptureNamed DEF PaneState
  <2>2. TerminalType'
    BY <1>4, <2>1, TerminalsKept DEF PollPane
  <2> QED BY <1>4, <2>2 DEF PollPane, tmuxVars, CallType, WindowType
<1>5. ASSUME NEW i \in Ids, PollApply(i) PROVE ScreensType'
  <2>1. TerminalType'
    BY <1>5, TerminalsKept DEF PollApply
  <2>2. poll' \in PollRecords
    BY <1>2, <1>5 DEF PollApply
  <2> QED BY <1>5, <2>1, <2>2 DEF PollApply, tmuxVars, CallType, WindowType
<1> QED BY <1>1, <1>3, <1>4, <1>5 DEF Poll

LEMMA OthersKeepType ==
  ASSUME ScreensType, Recover \/ (\E i \in Ids : Agent(i)) \/ UNCHANGED vars
  PROVE  ScreensType'
<1> USE DEF ScreensType
<1>1. CASE Recover
  <2>1. call' \in [Clients -> CallRecords]
    BY <1>1, IdleIsCall DEF Recover
  <2>2. terminals' \in [Ids -> SUBSET TerminalRecords]
    <3>1. [screen |-> Blank, last |-> Blank, pane |-> {}, size |-> DefaultSize]
            \in TerminalRecords
      BY WindowsAssumption DEF TerminalRecords
    <3> QED BY <1>1, <3>1 DEF Recover
  <2>3. poll' \in PollRecords /\ windows' = windows
    BY <1>1 DEF Recover, PollIdle, PollRecords, tmuxVars
  <2> QED BY <2>1, <2>2, <2>3 DEF CallType, WindowType, TerminalType, PollType
<1>2. ASSUME NEW i \in Ids, Agent(i) PROVE ScreensType'
  <2>1. WindowType'
    BY <1>2, WindowsKept DEF Agent
  <2> QED BY <1>2, <2>1 DEF Agent, CallType, TerminalType, PollType
<1>3. CASE UNCHANGED vars
  BY <1>3 DEF vars, tmuxVars, CallType, WindowType, TerminalType, PollType
<1> QED BY <1>1, <1>2, <1>3

LEMMA StepType == ASSUME ScreensType, [Next]_vars PROVE ScreensType'
BY HandlerType, PollKeepsType, OthersKeepType DEF Next

THEOREM ScreensInvariant == Spec => []ScreensType
<1>1. Init => ScreensType
  BY InitType
<1>2. ScreensType /\ [Next]_vars => ScreensType'
  BY StepType
<1> QED BY <1>1, <1>2, PTL DEF Spec

-----------------------------------------------------------------------------
(* The requests that set sizes, and all the others. *)

Quiet(c) ==
  /\ call[c].pc \notin Halfway /\ call'[c].pc \notin Halfway
  /\ \/ call'[c].text = {}
     \/ call'[c].text = call[c].text /\ call'[c].id = call[c].id
  /\ UNCHANGED <<opened, muddled>>

LEMMA QuietGoto ==
  ASSUME CallType, NEW c \in Clients, NEW pc \in Steps \ Halfway, Goto(c, pc),
         call[c].pc \notin Halfway, UNCHANGED <<opened, muddled>>
  PROVE  Quiet(c)
BY DEF CallType, Goto, Quiet, CallRecords

LEMMA QuietEnd ==
  ASSUME CallType, NEW c \in Clients, call[c].pc \notin Halfway,
         UNCHANGED <<opened, muddled>>,
         \/ Finish(c)
         \/ \E r \in CallRecords :
              Moves(c, r) /\ r.pc \notin Halfway /\ r.text = {}
  PROVE  Quiet(c)
BY DEF CallType, Finish, Moves, Idle, Quiet, Halfway

LEMMA HandlerQuiet ==
  ASSUME ScreensType, NEW c \in Clients, Handler(c)
  PROVE  Quiet(c) \/ Open(c) \/ Fit(c) \/ Entry(c) \/ Resize(c)
         \/ ResizeEntry(c) \/ Capture(c)
<1> USE DEF ScreensType, Past
<1>s. \A pc \in {"kill", "probe", "open", "forget", "close", "resize", "idle",
                 "send", "capture", "pane", "apply"} : pc \in Steps \ Halfway
  BY DEF Steps, Moving, LaunchSteps, Halfway
<1>c. call[c] \in CallRecords
  BY DEF CallType
<1>1. ASSUME NEW i \in Ids, CreateBegin(c, i) PROVE Quiet(c)
  BY <1>1, <1>s DEF CreateBegin, At, Idle, Quiet, CallType
<1>2. ASSUME NEW i \in Ids,
             RestartBegin(c, i) \/ DeleteBegin(c, i) \/ CaptureBegin(c, i)
      PROVE  Quiet(c)
  BY <1>2, <1>s
     DEF RestartBegin, DeleteBegin, CaptureBegin, Begin, At, Idle, Quiet, CallType
<1>3. ASSUME NEW i \in Ids, SendBegin(c, i) PROVE Quiet(c)
  BY <1>3, <1>s DEF SendBegin, At, Idle, Quiet, CallType
<1>4. ASSUME NEW i \in Ids, NEW s \in Sizes, ResizeBegin(c, i, s) PROVE Quiet(c)
  BY <1>4, <1>s DEF ResizeBegin, At, Idle, Quiet, CallType
<1>5. RestartKill(c) \/ Forget(c) \/ Pane(c) => Quiet(c)
  BY <1>s, QuietGoto DEF RestartKill, Forget, Pane, At
<1>6. OpenFails(c) \/ Close(c) \/ SendFails(c) \/ Apply(c) => Quiet(c)
  BY <1>s, QuietEnd DEF OpenFails, Close, SendFails, Apply, At
<1>7. ASSUME Probe(c) PROVE Quiet(c)
  BY <1>7, <1>s, <1>c DEF Probe, At, Quiet, CallType, CallRecords
<1>8. ASSUME SendChunk(c) PROVE Quiet(c)
  <2>1. CASE Finish(c)
    BY <1>8, <2>1, <1>s, QuietEnd DEF SendChunk, At
  <2>2. CASE call' = [call EXCEPT ![c].part = @ + 1]
    BY <1>8, <2>2, <1>s, <1>c DEF SendChunk, At, Quiet, CallType, CallRecords
  <2> QED BY <1>8, <2>1, <2>2 DEF SendChunk
<1> QED BY <1>1, <1>2, <1>3, <1>4, <1>5, <1>6, <1>7, <1>8
        DEF Handler, Launch, Delete, Send, ResizeSession, CaptureScreen

-----------------------------------------------------------------------------
(* OwnWindow.  What a request or the poller captured for i is of i or of a    *)
(* session whose name i begins, and it is applied to the terminal of i only.  *)

Own(i, t) == t.of = i \/ Prefix(i, t.of)
Chunks ==
  {d \in [id : Ids, to : Ids, input : Clients, part : Nat] :
     d.to # d.id => Prefix(d.id, d.to)}

OwnTyped == typed \in Seq(Chunks)
OwnCalls == \A c \in Clients : \A t \in call[c].text : Own(call[c].id, t)
OwnPoll ==
  \A i \in Ids : poll.pc \in {"pane", "apply"} /\ First(i) =>
    \A t \in poll.text : Own(i, t)
OwnScreens ==
  \A i \in Ids : \A e \in terminals[i] : e.screen # Blank => Own(i, e.screen)

OwnInv == ScreensType /\ OwnTyped /\ OwnCalls /\ OwnPoll /\ OwnScreens

LEMMA OwnInit == Init => OwnInv
<1> SUFFICES ASSUME Init PROVE OwnInv
  OBVIOUS
<1>1. typed = <<>> /\ \A c \in Clients : call[c].text = {}
  BY DEF Init, TmuxInit, Idle
<1>2. poll.pc = "idle" /\ \A i \in Ids : terminals[i] = {}
  BY DEF Init, Store!TerminalInit, PollIdle
<1> QED BY <1>1, <1>2, InitType
        DEF OwnInv, OwnTyped, OwnCalls, OwnPoll, OwnScreens

(* A chunk reaches the window of its session or of one its name begins. *)
LEMMA TypedKept ==
  ASSUME OwnTyped, NEW i \in Ids, NEW c \in Clients, NEW part \in Nat,
         Target(i) # {}, SendKeys(i, c, part)
  PROVE  OwnTyped'
<1>1. Cardinality(Target(i)) = 1
  <2>1. Cardinality({i}) = 1
    BY FS_Singleton
  <2> QED BY <2>1 DEF Target
<1> DEFINE j == CHOOSE j \in Target(i) : TRUE
           d == [id |-> i, to |-> j, input |-> c, part |-> part]
<1>2. j \in Target(i)
  OBVIOUS
<1>3. d \in Chunks
  BY <1>2, TargetNamed DEF Chunks
<1>4. [k \in 1 .. 1 |-> d] \in Seq(Chunks)
  BY <1>3
<1>5. typed' = typed \o [k \in 1 .. 1 |-> d]
  BY <1>1 DEF SendKeys
<1> QED BY <1>4, <1>5 DEF OwnTyped

LEMMA ScreensKept ==
  ASSUME OwnScreens, NEW i \in Ids, ScreensType
  PROVE  /\ \A s \in Sizes : Store!Insert(i, s) => OwnScreens'
         /\ Store!Remove(i) => OwnScreens'
         /\ \A s \in Sizes : Store!ResizeTerminal(i, s) => OwnScreens'
         /\ \A p \in SUBSET Shots : Store!SetPane(i, p) => OwnScreens'
         /\ \A t \in Shots : Own(i, t) /\ Store!ApplyCapture(i, t) => OwnScreens'
<1> USE DEF ScreensType, TerminalType, OwnScreens
<1>0. \A e \in terminals[i] :
        e \in TerminalRecords /\ (e.screen # Blank => Own(i, e.screen))
  OBVIOUS
<1>1. ASSUME NEW s \in Sizes, Store!Insert(i, s) PROVE OwnScreens'
  BY <1>1 DEF Store!Insert
<1>2. Store!Remove(i) => OwnScreens'
  BY DEF Store!Remove
<1>3. ASSUME NEW s \in Sizes, Store!ResizeTerminal(i, s) PROVE OwnScreens'
  <2>1. \A e \in terminals[i] : [e EXCEPT !.size = s].screen = e.screen
    BY <1>0 DEF TerminalRecords
  <2>2. /\ terminals'[i] = {[e EXCEPT !.size = s] : e \in terminals[i]}
        /\ \A j \in Ids \ {i} : terminals'[j] = terminals[j]
    BY <1>3 DEF Store!ResizeTerminal
  <2>3. \A f \in terminals'[i] : f.screen # Blank => Own(i, f.screen)
    BY <1>0, <2>1, <2>2
  <2> QED BY <2>2, <2>3
<1>4. ASSUME NEW p \in SUBSET Shots, Store!SetPane(i, p) PROVE OwnScreens'
  <2>1. \A e \in terminals[i] : [e EXCEPT !.pane = p].screen = e.screen
    BY <1>0 DEF TerminalRecords
  <2>2. /\ \/ terminals'[i] = terminals[i]
           \/ terminals'[i] = {[e EXCEPT !.pane = p] : e \in terminals[i]}
        /\ \A j \in Ids \ {i} : terminals'[j] = terminals[j]
    BY <1>4 DEF Store!SetPane
  <2>3. \A f \in terminals'[i] : f.screen # Blank => Own(i, f.screen)
    <3>1. CASE terminals'[i] = terminals[i]
      BY <1>0, <3>1
    <3>2. CASE terminals'[i] = {[e EXCEPT !.pane = p] : e \in terminals[i]}
      BY <1>0, <2>1, <3>2
    <3> QED BY <2>2, <3>1, <3>2
  <2> QED BY <2>2, <2>3
<1>5. ASSUME NEW t \in Shots, Own(i, t), Store!ApplyCapture(i, t)
      PROVE  OwnScreens'
  <2>1. \A e \in terminals[i] : Store!Applied(e, t).screen \in {e.screen, t}
    BY <1>0 DEF TerminalRecords, Store!Applied
  <2> QED BY <1>0, <1>5, <2>1 DEF Store!ApplyCapture
<1> QED BY <1>1, <1>2, <1>3, <1>4, <1>5

LEMMA HandlerTyped ==
  ASSUME NEW c \in Clients, Handler(c)
  PROVE  typed' = typed \/ SendChunk(c)
BY DEF Handler, Launch, CreateBegin, RestartBegin, RestartKill, Probe, Open,
       OpenFails, Fit, Entry, Delete, DeleteBegin, Forget, Close, Send,
       SendBegin, SendFails, ResizeSession, ResizeBegin, Resize, ResizeEntry,
       CaptureScreen, CaptureBegin, Capture, Pane, Apply, KillWindow, NewWindow,
       ResizeWindow, tmuxVars

LEMMA OwnHandler ==
  ASSUME OwnInv, NEW c \in Clients, Handler(c)
  PROVE  OwnInv'
<1> USE DEF OwnInv
<1>t. ScreensType'
  BY HandlerType
<1>c. call[c] \in CallRecords /\ CallType
  BY DEF ScreensType, CallType
<1>1. OwnTyped'
  <2>1. ASSUME SendChunk(c) PROVE OwnTyped'
    <3>1. call[c].id \in Ids /\ call[c].part \in Nat
      BY <1>c, <2>1 DEF CallRecords, SendChunk, At
    <3> QED BY <2>1, <3>1, TypedKept DEF SendChunk
  <2> QED BY <2>1, HandlerTyped DEF OwnTyped
<1>2. OwnCalls'
  <2>1. \A d \in Clients \ {c} : call'[d] = call[d]
    BY <1>c, HandlerMoves, MovesType
  <2>2. \A t \in call'[c].text : Own(call'[c].id, t)
    <3>1. CASE Quiet(c)
      BY <3>1 DEF Quiet, OwnCalls
    <3>2. CASE Open(c) \/ Fit(c) \/ Entry(c) \/ Resize(c) \/ ResizeEntry(c)
      BY <1>c, <3>2
         DEF Open, Fit, Entry, Resize, ResizeEntry, Goto, Finish, Idle, OwnCalls,
             CallRecords, CallType
    <3>3. CASE Capture(c)
      <4>1. call[c].id \in Ids
        BY <1>c, <3>3 DEF Capture, At, CallRecords
      <4>2. CASE call' = [call EXCEPT ![c].pc = "pane",
                                      ![c].text = CapturePane(call[c].id)]
        <5>1. call'[c].id = call[c].id /\ call'[c].text = CapturePane(call[c].id)
          BY <1>c, <4>2 DEF CallType, CallRecords
        <5> QED BY <4>1, <5>1, CaptureNamed DEF ScreensType, Own
      <4>3. CASE Finish(c)
        BY <1>c, <4>3 DEF Finish, Idle, CallType
      <4> QED BY <3>3, <4>2, <4>3 DEF Capture
    <3> QED BY <3>1, <3>2, <3>3, HandlerQuiet
  <2> QED BY <2>1, <2>2 DEF OwnCalls
<1>3. OwnPoll'
  BY HandlerPoll DEF OwnPoll, First
<1>4. OwnScreens'
  <2>0. call[c].pc # "idle" => /\ call[c].id \in Ids /\ call[c].size \in Sizes
                               /\ call[c].text \subseteq Shots
    BY <1>c DEF CallRecords
  <2>1. CASE terminals' = terminals
    BY <2>1 DEF OwnScreens
  <2>2. CASE Entry(c) \/ Forget(c) \/ ResizeEntry(c)
    BY <2>0, <2>2, ScreensKept, WindowsAssumption
       DEF Entry, Forget, ResizeEntry, At
  <2>3. CASE Pane(c)
    <3>1. PaneState(call[c].id) \in SUBSET Shots /\ {} \in SUBSET Shots
      BY <2>0, <2>3, CaptureNamed DEF Pane, At, PaneState, ScreensType
    <3> QED BY <2>0, <2>3, <3>1, ScreensKept DEF Pane, At
  <2>4. CASE Apply(c)
    BY <2>0, <2>4, ScreensKept DEF Apply, At, OwnCalls
  <2> QED BY <2>1, <2>2, <2>3, <2>4, HandlerTerminals
<1> QED BY <1>t, <1>1, <1>2, <1>3, <1>4

LEMMA OwnOthers ==
  ASSUME OwnInv, Poll \/ Recover \/ (\E i \in Ids : Agent(i)) \/ UNCHANGED vars
  PROVE  OwnInv'
<1> USE DEF OwnInv
<1>t. ScreensType'
  BY StepType DEF Next
<1>w. WindowType
  BY DEF ScreensType
<1>1. CASE PollBegin
  BY <1>1, <1>t
     DEF PollBegin, PollIdle, tmuxVars, OwnTyped, OwnCalls, OwnPoll, OwnScreens,
         ScreensType, PollType, PollRecords
<1>2. ASSUME NEW i \in Ids, PollCapture(i) PROVE OwnInv'
  <2>1. OwnPoll'
    <3>1. CASE poll' = Rest(i)
      BY <3>1 DEF Rest, PollIdle, OwnPoll
    <3>2. CASE poll' = [poll EXCEPT !.pc = "pane", !.text = CapturePane(i)]
      <4>1. poll'.todo = poll.todo /\ poll'.text = CapturePane(i)
        BY <3>2 DEF ScreensType, PollType, PollRecords
      <4>2. \A j \in Ids : First(j)' => j = i
        BY <1>2, <4>1, WindowsAssumption DEF PollCapture, First
      <4> QED BY <1>w, <4>1, <4>2, CaptureNamed DEF OwnPoll, Own
    <3> QED BY <1>2, <3>1, <3>2 DEF PollCapture
  <2> QED BY <1>2, <1>t, <2>1
          DEF PollCapture, tmuxVars, OwnTyped, OwnCalls, OwnScreens
<1>3. ASSUME NEW i \in Ids, PollPane(i) PROVE OwnInv'
  <2>1. OwnPoll'
    BY <1>3 DEF PollPane, OwnPoll, First, ScreensType, PollType, PollRecords
  <2>2. OwnScreens'
    BY <1>3, <1>w, CaptureNamed, ScreensKept DEF PollPane, PaneState
  <2> QED BY <1>3, <1>t, <2>1, <2>2 DEF PollPane, tmuxVars, OwnTyped, OwnCalls
<1>4. ASSUME NEW i \in Ids, PollApply(i) PROVE OwnInv'
  <2>1. OwnPoll'
    BY <1>4 DEF PollApply, Rest, PollIdle, OwnPoll
  <2>2. \A t \in poll.text : t \in Shots /\ Own(i, t)
    BY <1>4 DEF PollApply, OwnPoll, ScreensType, PollType, PollRecords
  <2>3. OwnScreens'
    BY <1>4, <2>2, ScreensKept DEF PollApply
  <2> QED BY <1>4, <1>t, <2>1, <2>3 DEF PollApply, tmuxVars, OwnTyped, OwnCalls
<1>5. CASE Recover
  <2>1. \A c \in Clients : call'[c] = Idle
    BY <1>5 DEF Recover
  <2>2. \A i \in Ids : \A e \in terminals'[i] : e.screen = Blank
    BY <1>5 DEF Recover
  <2>3. poll'.pc = "idle" /\ typed' = typed
    BY <1>5 DEF Recover, PollIdle, tmuxVars
  <2> QED BY <1>t, <2>1, <2>2, <2>3
          DEF Idle, OwnTyped, OwnCalls, OwnPoll, OwnScreens
<1>6. ASSUME NEW i \in Ids, Agent(i) PROVE OwnInv'
  BY <1>6, <1>t
     DEF Agent, AgentDraws, AgentEnds, OwnTyped, OwnCalls, OwnPoll, First,
         OwnScreens
<1>7. CASE UNCHANGED vars
  BY <1>7, <1>t
     DEF vars, tmuxVars, OwnTyped, OwnCalls, OwnPoll, First, OwnScreens
<1> QED BY <1>1, <1>2, <1>3, <1>4, <1>5, <1>6, <1>7 DEF Poll

(* No input and no screen crosses from one session to another, but to and from
   one whose name begins with its own: backend.rs addresses windows by name. *)
THEOREM SessionsKeepApart == Spec => []OwnWindow
<1>1. OwnInv /\ [Next]_vars => OwnInv'
  BY OwnHandler, OwnOthers DEF Next
<1>2. OwnInv => OwnWindow
  <2> SUFFICES ASSUME OwnInv PROVE OwnWindow
    OBVIOUS
  <2>1. \A k \in DOMAIN typed : typed[k] \in Chunks
    BY DEF OwnInv, OwnTyped
  <2> QED BY <2>1 DEF OwnInv, OwnScreens, Own, Chunks, OwnWindow
<1> QED BY <1>1, <1>2, OwnInit, PTL DEF Spec

-----------------------------------------------------------------------------
(* TerminalHadWindow.  Only a launch that got its window goes on to "fit" and *)
(* "entry", and a window that recovery finds was opened by such a launch.     *)

HadWindow(i) == i \in opened \/ \E j \in opened : Prefix(i, j)

HadWindows == \A i \in Ids : windows[i] # {} => i \in opened
HadCalls ==
  \A c \in Clients : call[c].pc \in {"fit", "entry"} => call[c].id \in opened
HadTerminals == \A i \in Ids : terminals[i] # {} => HadWindow(i)

HadInv == ScreensType /\ HadWindows /\ HadCalls /\ HadTerminals

LEMMA HadInit == Init => HadInv
<1> SUFFICES ASSUME Init PROVE HadInv
  OBVIOUS
<1>1. \A c \in Clients : call[c].pc = "idle"
  BY DEF Init, Idle
<1> QED BY <1>1, InitType
        DEF Init, TmuxInit, Store!TerminalInit, HadInv, HadWindows, HadCalls,
            HadTerminals

LEMMA OpenedGrows ==
  ASSUME ScreensType, NEW c \in Clients, Handler(c)
  PROVE  /\ opened \subseteq opened'
         /\ opened' # opened => Open(c)
BY HandlerQuiet
   DEF Quiet, Open, Fit, Entry, Resize, ResizeEntry, Capture, Past

(* Of the store's operations only insert makes a terminal. *)
LEMMA NoneMade ==
  ASSUME TerminalType, NEW i \in Ids,
         \/ Store!Remove(i)
         \/ \E s \in Sizes : Store!ResizeTerminal(i, s)
         \/ \E p \in SUBSET Shots : Store!SetPane(i, p)
         \/ \E t \in Shots : Store!ApplyCapture(i, t)
  PROVE  \A j \in Ids : terminals'[j] # {} => terminals[j] # {}
<1> USE DEF TerminalType
<1>1. CASE Store!Remove(i)
  BY <1>1 DEF Store!Remove
<1>2. ASSUME NEW s \in Sizes, Store!ResizeTerminal(i, s)
      PROVE  \A j \in Ids : terminals'[j] # {} => terminals[j] # {}
  BY <1>2 DEF Store!ResizeTerminal
<1>3. ASSUME NEW p \in SUBSET Shots, Store!SetPane(i, p)
      PROVE  \A j \in Ids : terminals'[j] # {} => terminals[j] # {}
  BY <1>3 DEF Store!SetPane
<1>4. ASSUME NEW t \in Shots, Store!ApplyCapture(i, t)
      PROVE  \A j \in Ids : terminals'[j] # {} => terminals[j] # {}
  BY <1>4 DEF Store!ApplyCapture
<1> QED BY <1>1, <1>2, <1>3, <1>4

LEMMA HadHandler ==
  ASSUME HadInv, NEW c \in Clients, Handler(c)
  PROVE  HadInv'
<1> USE DEF HadInv
<1>t. ScreensType'
  BY HandlerType
<1>c. call[c] \in CallRecords /\ CallType /\ WindowType
  BY DEF ScreensType, CallType
<1>i. call[c].pc # "idle" => call[c].id \in Ids
  BY <1>c DEF CallRecords
<1>o. opened \subseteq opened'
  BY OpenedGrows
<1>1. HadWindows'
  <2>1. CASE windows' = windows
    BY <1>o, <2>1 DEF HadWindows
  <2>2. CASE KillWindow(call[c].id)
    BY <1>o, <2>2 DEF HadWindows, KillWindow
  <2>3. CASE Open(c)
    BY <1>c, <1>o, <2>3 DEF HadWindows, Open, NewWindow, WindowType
  <2>4. ASSUME NEW s, ResizeWindow(call[c].id, s) PROVE HadWindows'
    BY <1>o, <2>4 DEF HadWindows, ResizeWindow
  <2> QED BY <2>1, <2>2, <2>3, <2>4, HandlerWindows DEF Fit
<1>2. HadCalls'
  <2>1. \A d \in Clients \ {c} : call'[d] = call[d]
    BY <1>c, HandlerMoves, MovesType
  <2>2. call'[c].pc \in {"fit", "entry"} => call'[c].id \in opened'
    <3>1. CASE Quiet(c)
      BY <3>1 DEF Quiet, Halfway
    <3>2. CASE Open(c)
      BY <1>c, <3>2 DEF Open, CallType, CallRecords
    <3>3. CASE Fit(c)
      BY <1>c, <1>o, <3>3 DEF Fit, At, Goto, HadCalls, CallType, CallRecords
    <3>4. CASE Entry(c) \/ Resize(c) \/ ResizeEntry(c) \/ Capture(c)
      BY <1>c, <3>4
         DEF Entry, Resize, ResizeEntry, Capture, Finish, Goto, Idle, CallType,
             CallRecords
    <3> QED BY <3>1, <3>2, <3>3, <3>4, HandlerQuiet
  <2> QED BY <1>o, <2>1, <2>2 DEF HadCalls
<1>3. HadTerminals'
  <2>1. \A i \in Ids : HadWindow(i) => HadWindow(i)'
    BY <1>o DEF HadWindow
  <2>2. CASE \A i \in Ids : terminals'[i] # {} => terminals[i] # {}
    BY <2>1, <2>2 DEF HadTerminals
  <2>3. CASE Entry(c)
    <3>1. HadWindow(call[c].id)
      BY <2>3 DEF Entry, At, HadCalls, HadWindow
    <3> QED BY <1>i, <2>1, <2>3, <3>1
            DEF Entry, At, Store!Insert, HadTerminals, ScreensType, TerminalType
  <2>4. CASE Forget(c) \/ ResizeEntry(c)
    BY <1>c, <1>i, <2>2, <2>4, NoneMade
       DEF Forget, ResizeEntry, At, CallRecords, ScreensType
  <2>5. CASE Pane(c)
    <3>1. PaneState(call[c].id) \in SUBSET Shots /\ {} \in SUBSET Shots
      BY <1>i, <2>5, CaptureNamed DEF Pane, At, PaneState, ScreensType
    <3> QED BY <1>i, <2>2, <2>5, <3>1, NoneMade DEF Pane, At, ScreensType
  <2>6. CASE Apply(c)
    BY <1>c, <1>i, <2>2, <2>6, NoneMade DEF Apply, At, CallRecords, ScreensType
  <2> QED BY <2>2, <2>3, <2>4, <2>5, <2>6, HandlerTerminals
<1> QED BY <1>t, <1>1, <1>2, <1>3

LEMMA HadOthers ==
  ASSUME HadInv, Poll \/ Recover \/ (\E i \in Ids : Agent(i)) \/ UNCHANGED vars
  PROVE  HadInv'
<1> USE DEF HadInv
<1>t. ScreensType'
  BY StepType DEF Next
<1>1. CASE Poll
  <2>1. windows' = windows /\ call' = call /\ opened' = opened
    BY <1>1 DEF Poll, PollBegin, PollCapture, PollPane, PollApply, tmuxVars, Past
  <2>2. \A i \in Ids : terminals'[i] # {} => terminals[i] # {}
    <3>1. ASSUME NEW i \in Ids, PollPane(i)
          PROVE  \A j \in Ids : terminals'[j] # {} => terminals[j] # {}
      BY <3>1, CaptureNamed, NoneMade DEF PollPane, PaneState, ScreensType
    <3>2. ASSUME NEW i \in Ids, PollApply(i)
          PROVE  \A j \in Ids : terminals'[j] # {} => terminals[j] # {}
      BY <3>2, NoneMade DEF PollApply, ScreensType, PollType, PollRecords
    <3>3. PollBegin \/ (\E i \in Ids : PollCapture(i)) => terminals' = terminals
      BY DEF PollBegin, PollCapture
    <3> QED BY <1>1, <3>1, <3>2, <3>3 DEF Poll
  <2> QED BY <1>t, <2>1, <2>2
          DEF HadWindows, HadCalls, HadTerminals, HadWindow
<1>2. CASE Recover
  <2>1. \A c \in Clients : call'[c].pc = "idle"
    BY <1>2 DEF Recover, Idle
  <2>2. ASSUME NEW i \in Ids, terminals'[i] # {} PROVE HadWindow(i)
    <3>1. PICK j \in Target(i) : TRUE
      BY <1>2, <2>2 DEF Recover
    <3> QED BY <3>1, TargetNamed DEF HadWindow, HadWindows, HasWindow
  <2> QED BY <1>2, <1>t, <2>1, <2>2
          DEF Recover, tmuxVars, HadWindows, HadCalls, HadTerminals, HadWindow
<1>3. ASSUME NEW i \in Ids, Agent(i) PROVE HadInv'
  <2>1. \A j \in Ids : windows'[j] # {} => windows[j] # {}
    BY <1>3 DEF Agent, AgentDraws, AgentEnds, HasWindow, ScreensType, WindowType
  <2> QED BY <1>3, <1>t, <2>1
          DEF Agent, Past, HadWindows, HadCalls, HadTerminals, HadWindow
<1>4. CASE UNCHANGED vars
  BY <1>4, <1>t
     DEF vars, tmuxVars, HadWindows, HadCalls, HadTerminals, HadWindow
<1> QED BY <1>1, <1>2, <1>3, <1>4

(* A launch that tmux refused leaves no terminal behind: whoever has one was
   given a window, or recovery matched its name to one (backend.rs, runtime.rs). *)
THEOREM TerminalsAreBacked == Spec => []TerminalHadWindow
<1>1. HadInv /\ [Next]_vars => HadInv'
  BY HadHandler, HadOthers DEF Next
<1>2. HadInv => TerminalHadWindow
  BY DEF HadInv, HadTerminals, HadWindow, TerminalHadWindow, Store!HasTerminal
<1> QED BY <1>1, <1>2, HadInit, PTL DEF Spec

-----------------------------------------------------------------------------
(* SizesAgree.  While i is not muddled at most one request is between setting *)
(* the size of the window and that of the terminal, and what it has still to  *)
(* do makes the two agree; with none there they do.  A request that found no  *)
(* other halfway and was obeyed makes it so.                                  *)

Busy(c, i) == call[c].id = i /\ call[c].pc \in Halfway
Agree(i) == \A w \in windows[i], e \in terminals[i] : w.size = e.size
SizesSet(i, s) == \A w \in windows[i] : w.size = s

SizeOk(i) ==
  /\ \A c, d \in Clients : Busy(c, i) /\ Busy(d, i) => c = d
  /\ \A c \in Clients : Busy(c, i) /\ call[c].pc = "entry" =>
                          SizesSet(i, DefaultSize)
  /\ \A c \in Clients : Busy(c, i) /\ call[c].pc = "resize_entry" =>
                          SizesSet(i, call[c].size)
  /\ (\A c \in Clients : ~Busy(c, i)) => Agree(i)

SizeInv == ScreensType /\ \A i \in Ids \ muddled : SizeOk(i)

SizesKept(i) ==
  /\ \A w \in windows'[i] : \E v \in windows[i] : v.size = w.size
  /\ \A e \in terminals'[i] : \E f \in terminals[i] : f.size = e.size
CallsKept(i) ==
  \A d \in Clients :
    /\ Busy(d, i)' <=> Busy(d, i)
    /\ Busy(d, i) => call'[d] = call[d]

LEMMA SizeFrame ==
  ASSUME NEW i \in Ids, SizeOk(i), SizesKept(i), CallsKept(i)
  PROVE  SizeOk(i)'
<1>1. \A s : SizesSet(i, s) => SizesSet(i, s)'
  BY DEF SizesKept, SizesSet
<1>2. Agree(i) => Agree(i)'
  BY DEF SizesKept, Agree
<1>3. \A c, d \in Clients : Busy(c, i)' /\ Busy(d, i)' => c = d
  BY DEF CallsKept, SizeOk
<1>4. ASSUME NEW c \in Clients, Busy(c, i)', call'[c].pc = "entry"
      PROVE  SizesSet(i, DefaultSize)'
  BY <1>1, <1>4 DEF CallsKept, SizeOk
<1>5. ASSUME NEW c \in Clients, Busy(c, i)', call'[c].pc = "resize_entry"
      PROVE  SizesSet(i, call[c].size)' /\ call'[c].size = call[c].size
  BY <1>1, <1>5 DEF CallsKept, SizeOk
<1>6. (\A c \in Clients : ~Busy(c, i)') => Agree(i)'
  BY <1>2 DEF CallsKept, SizeOk
<1> QED BY <1>3, <1>4, <1>5, <1>6 DEF SizeOk, SizesSet

(* What the operations of the window and of the store do to sizes. *)
LEMMA WindowSizes ==
  ASSUME WindowType, NEW i \in Ids, NEW j \in Ids,
         \/ windows' = windows \/ KillWindow(i) \/ AgentDraws(i) \/ AgentEnds(i)
         \/ (i # j /\ \E saw : NewWindow(i, saw))
  PROVE  \A w \in windows'[j] : \E v \in windows[j] : v.size = w.size
<1> USE DEF WindowType
<1>1. CASE windows' = windows
  BY <1>1
<1>2. CASE KillWindow(i)
  BY <1>2 DEF KillWindow
<1>3. CASE AgentDraws(i)
  <2>1. PICK t \in Texts, v \in windows[i] :
          windows' = [windows EXCEPT ![i] = {[v EXCEPT !.text = t]}]
    BY <1>3 DEF AgentDraws
  <2>2. [v EXCEPT !.text = t].size = v.size
    BY <2>1 DEF WindowRecords
  <2> QED BY <2>1, <2>2
<1>4. CASE AgentEnds(i)
  BY <1>4 DEF AgentEnds
<1>5. CASE i # j /\ \E saw : NewWindow(i, saw)
  BY <1>5 DEF NewWindow
<1> QED BY <1>1, <1>2, <1>3, <1>4, <1>5

LEMMA TerminalSizes ==
  ASSUME TerminalType, NEW i \in Ids, NEW j \in Ids,
         \/ terminals' = terminals
         \/ Store!Remove(i)
         \/ \E p \in SUBSET Shots : Store!SetPane(i, p)
         \/ \E t \in Shots : Store!ApplyCapture(i, t)
         \/ i # j /\ \E s \in Sizes : Store!Insert(i, s) \/ Store!ResizeTerminal(i, s)
  PROVE  \A e \in terminals'[j] : \E f \in terminals[j] : f.size = e.size
<1> USE DEF TerminalType
<1>0. \A e \in terminals[j] : e \in TerminalRecords
  OBVIOUS
<1>1. CASE terminals' = terminals
  BY <1>1
<1>2. CASE Store!Remove(i)
  BY <1>2 DEF Store!Remove
<1>3. ASSUME NEW p \in SUBSET Shots, Store!SetPane(i, p), NEW e \in terminals'[j]
      PROVE  \E f \in terminals[j] : f.size = e.size
  <2>1. \/ e \in terminals[j]
        \/ \E f \in terminals[j] : e = [f EXCEPT !.pane = p]
    BY <1>3 DEF Store!SetPane
  <2> QED BY <1>0, <2>1 DEF TerminalRecords
<1>4. ASSUME NEW t \in Shots, Store!ApplyCapture(i, t), NEW e \in terminals'[j]
      PROVE  \E f \in terminals[j] : f.size = e.size
  <2>1. \/ e \in terminals[j]
        \/ \E f \in terminals[j] : e = Store!Applied(f, t)
    BY <1>4 DEF Store!ApplyCapture
  <2> QED BY <1>0, <2>1 DEF TerminalRecords, Store!Applied
<1>5. CASE i # j /\ \E s \in Sizes : Store!Insert(i, s) \/ Store!ResizeTerminal(i, s)
  BY <1>5 DEF Store!Insert, Store!ResizeTerminal
<1> QED BY <1>1, <1>2, <1>3, <1>4, <1>5

(* resize-window gives i the size when i has a window, and disturbs another
   session only when it is what the name resolves to. *)
LEMMA ResizedSizes ==
  ASSUME WindowType, NEW i \in Ids, NEW s \in Sizes, ResizeWindow(i, s)
  PROVE  /\ SizesSet(i, s)'
         /\ \A j \in Ids \ Target(i) : windows'[j] = windows[j]
<1>1. \A w \in windows[i] : [w EXCEPT !.size = s].size = s
  BY DEF WindowType, WindowRecords
<1>2. windows[i] # {} => Target(i) = {i}
  BY DEF Target, HasWindow
<1>3. windows'[i] = IF i \in Target(i)
                    THEN {[w EXCEPT !.size = s] : w \in windows[i]} ELSE windows[i]
  BY DEF ResizeWindow
<1>4. ASSUME NEW w \in windows'[i] PROVE w.size = s
  <2>1. windows[i] # {}
    BY <1>3, <1>4
  <2>2. PICK v \in windows[i] : w = [v EXCEPT !.size = s]
    BY <1>2, <1>3, <1>4, <2>1
  <2> QED BY <1>1, <2>2
<1> QED BY <1>4 DEF SizesSet, ResizeWindow

(* A session is settled only by a call for it with no other halfway. *)
LEMMA OneSizing ==
  ASSUME NEW c \in Clients, NEW i \in Ids \ Settled(c)
  PROVE  /\ i # call[c].id => i \notin muddled
         /\ i = call[c].id => \A d \in Clients \ {c} : ~Busy(d, i)
BY DEF Settled, In, Busy

(* Requests that leave the sizes of i alone. *)
LEMMA SizeQuiet ==
  ASSUME SizeInv, NEW c \in Clients, Handler(c), NEW i \in Ids, SizeOk(i),
         Quiet(c) \/ Capture(c)
  PROVE  SizeOk(i)'
<1> USE DEF SizeInv, ScreensType
<1>c. call[c] \in CallRecords
  BY DEF CallType
<1>k. /\ call[c].pc # "idle" => call[c].id \in Ids
      /\ call[c].text \subseteq Shots
  BY <1>c DEF CallRecords
<1>q. call[c].pc \notin Halfway /\ call'[c].pc \notin Halfway
  BY <1>c DEF Quiet, Capture, At, Finish, Idle, Halfway, CallType, CallRecords
<1>1. CallsKept(i)
  <2>1. \A d \in Clients \ {c} : call'[d] = call[d]
    BY HandlerMoves, MovesType
  <2> QED BY <1>q, <2>1 DEF CallsKept, Busy
<1>2. \A w \in windows'[i] : \E v \in windows[i] : v.size = w.size
  <2>1. ~Open(c) /\ ~Fit(c) /\ ~Goto(c, "resize_entry")
    BY <1>q DEF Open, Fit, At, Goto, Halfway, CallType, CallRecords
  <2>2. CASE windows' = windows
    BY <2>2, WindowSizes
  <2>3. CASE call[c].pc \in {"kill", "close"} /\ KillWindow(call[c].id)
    BY <1>k, <2>3, WindowSizes
  <2> QED BY <2>1, <2>2, <2>3, HandlerWindows
<1>3. \A e \in terminals'[i] : \E f \in terminals[i] : f.size = e.size
  <2>1. ~Entry(c) /\ ~ResizeEntry(c)
    BY <1>q DEF Entry, ResizeEntry, At, Halfway
  <2>2. CASE terminals' = terminals
    BY <2>2, TerminalSizes
  <2>3. CASE Forget(c)
    BY <1>k, <2>3, TerminalSizes DEF Forget, At
  <2>4. CASE Pane(c)
    <3>1. PaneState(call[c].id) \in SUBSET Shots /\ {} \in SUBSET Shots
      BY <1>k, <2>4, CaptureNamed DEF Pane, At, PaneState
    <3> QED BY <1>k, <2>4, <3>1, TerminalSizes DEF Pane, At
  <2>5. CASE Apply(c)
    BY <1>k, <2>5, TerminalSizes DEF Apply, At
  <2> QED BY <2>1, <2>2, <2>3, <2>4, <2>5, HandlerTerminals
<1> QED BY <1>1, <1>2, <1>3, SizeFrame DEF SizesKept

(* Those that set them, for the session they are for and for the others. *)
LEMMA SizeSetting ==
  ASSUME SizeInv, NEW c \in Clients, Handler(c), NEW i \in Ids \ muddled',
         Open(c) \/ Fit(c) \/ Entry(c) \/ Resize(c) \/ ResizeEntry(c)
  PROVE  SizeOk(i)'
<1> USE DEF SizeInv, ScreensType
<1> DEFINE k == call[c].id
<1>c. call[c] \in CallRecords
  BY DEF CallType
<1>k. k \in Ids /\ call[c].size \in Sizes
  BY <1>c DEF CallRecords, Open, Fit, Entry, Resize, ResizeEntry, At
<1>d. \A d \in Clients \ {c} : call'[d] = call[d]
  BY HandlerMoves, MovesType
<1>g. ASSUME NEW pc, Goto(c, pc)
      PROVE  /\ call'[c].pc = pc /\ call'[c].id = k
             /\ call'[c].size = call[c].size
  BY <1>c, <1>g DEF Goto, CallType, CallRecords
<1>f. Finish(c) => call'[c] = Idle
  BY DEF Finish, CallType
<1>id. call'[c].id = k \/ call'[c] = Idle
  <2>1. CASE Open(c)
    BY <1>c, <2>1 DEF Open, CallType, CallRecords
  <2>2. CASE Fit(c)
    BY <1>g, <2>2 DEF Fit
  <2>3. CASE Entry(c) \/ ResizeEntry(c)
    BY <1>f, <2>3 DEF Entry, ResizeEntry
  <2>4. CASE Resize(c)
    BY <1>f, <1>g, <2>4 DEF Resize
  <2> QED BY <2>1, <2>2, <2>3, <2>4
<1>w. \/ Open(c) /\ muddled' = Settled(c)
      \/ /\ Fit(c) /\ ResizeWindow(k, DefaultSize)
         /\ muddled' = Settled(c) \cup Astray(k)
      \/ /\ Fit(c) /\ windows' = windows /\ muddled \subseteq muddled'
         /\ (\E w \in windows[k] : w.size # DefaultSize) => k \in muddled'
      \/ /\ Resize(c) /\ ResizeWindow(k, call[c].size)
         /\ muddled' = Settled(c) \cup Astray(k) /\ Goto(c, "resize_entry")
      \/ Resize(c) /\ Finish(c) /\ UNCHANGED <<windows, muddled>>
      \/ (Entry(c) \/ ResizeEntry(c)) /\ UNCHANGED <<windows, muddled>>
  BY DEF Open, Fit, Entry, Resize, ResizeEntry, Past, tmuxVars
<1>m. i # k => i \notin muddled
  BY <1>w, OneSizing
<1>1. CASE i # k
  <2>1. CallsKept(i)
    BY <1>1, <1>d, <1>id DEF CallsKept, Busy, Idle, Halfway
  <2>2. \A w \in windows'[i] : \E v \in windows[i] : v.size = w.size
    <3>1. CASE Open(c)
      BY <1>1, <1>k, <3>1 DEF Open, NewWindow, WindowType
    <3>2. CASE windows' = windows
      BY <3>2
    <3>3. ASSUME NEW s \in Sizes, ResizeWindow(k, s), i \notin Astray(k)
          PROVE  windows'[i] = windows[i]
      BY <1>1, <1>k, <3>3, ResizedSizes DEF Astray
    <3> QED BY <1>k, <1>w, <3>1, <3>2, <3>3, WindowsAssumption
  <2>3. \A e \in terminals'[i] : \E f \in terminals[i] : f.size = e.size
    BY <1>1, <1>k, WindowsAssumption, TerminalSizes
       DEF Open, Fit, Entry, Resize, ResizeEntry
  <2> QED BY <1>1, <1>m, <2>1, <2>2, <2>3, SizeFrame DEF SizesKept
<1>2. CASE i = k
  <2>1. muddled' = Settled(c) \/ muddled' = Settled(c) \cup Astray(k) =>
          \A d \in Clients \ {c} : ~Busy(d, i)'
    BY <1>2, <1>d, OneSizing DEF Busy
  <2>2. CASE Open(c)
    <3>1. call'[c].pc = "fit" /\ call'[c].id = i
      BY <1>2, <1>c, <2>2 DEF Open, CallType, CallRecords
    <3>2. \A d \in Clients : Busy(d, i)' <=> d = c
      BY <2>1, <2>2, <3>1 DEF Busy, Halfway, Open
    <3> QED BY <3>1, <3>2 DEF SizeOk
  <2>3. ASSUME Fit(c), SizesSet(i, DefaultSize)',
               \A d \in Clients \ {c} : ~Busy(d, i)'
        PROVE  SizeOk(i)'
    <3>1. call'[c].pc = "entry" /\ call'[c].id = i
      BY <1>2, <1>g, <2>3 DEF Fit
    <3>2. \A d \in Clients : Busy(d, i)' <=> d = c
      BY <2>3, <3>1 DEF Busy, Halfway
    <3> QED BY <2>3, <3>1, <3>2 DEF SizeOk
  <2>4. CASE Fit(c) /\ ResizeWindow(k, DefaultSize)
             /\ muddled' = Settled(c) \cup Astray(k)
    BY <1>2, <2>1, <2>3, <2>4, WindowsAssumption, ResizedSizes
  <2>5. CASE /\ Fit(c) /\ windows' = windows /\ muddled \subseteq muddled'
             /\ (\E w \in windows[k] : w.size # DefaultSize) => k \in muddled'
    <3>1. SizesSet(i, DefaultSize)'
      BY <1>2, <2>5 DEF SizesSet
    <3>2. Busy(c, i) /\ SizeOk(i)
      BY <1>2, <2>5 DEF Busy, Halfway, Fit, At
    <3>3. \A d \in Clients \ {c} : ~Busy(d, i)'
      BY <1>d, <3>2 DEF SizeOk, Busy
    <3> QED BY <2>3, <2>5, <3>1, <3>3
  <2>6. CASE /\ Resize(c) /\ ResizeWindow(k, call[c].size)
             /\ muddled' = Settled(c) \cup Astray(k) /\ Goto(c, "resize_entry")
    <3>1. /\ call'[c].pc = "resize_entry" /\ call'[c].id = i
          /\ call'[c].size = call[c].size
      BY <1>2, <1>g, <2>6
    <3>2. \A d \in Clients : Busy(d, i)' <=> d = c
      BY <2>1, <2>6, <3>1 DEF Busy, Halfway
    <3>3. PICK s \in Sizes : s = call[c].size
      BY <1>k
    <3>4. SizesSet(i, s)'
      BY <1>2, <1>k, <2>6, <3>3, ResizedSizes
    <3> QED BY <3>1, <3>2, <3>3, <3>4 DEF SizeOk, SizesSet
  <2>7. CASE Resize(c) /\ Finish(c) /\ UNCHANGED <<windows, muddled>>
    <3>1. i \notin muddled
      BY <2>7
    <3>2. CallsKept(i)
      BY <1>d, <1>f, <2>7 DEF CallsKept, Busy, Idle, Halfway, Resize, At
    <3>3. SizesKept(i)
      BY <2>7 DEF SizesKept, Resize
    <3> QED BY <3>1, <3>2, <3>3, SizeFrame
  <2>8. CASE Entry(c)
    <3>1. Busy(c, i) /\ call[c].pc = "entry" /\ i \notin muddled
      BY <1>2, <2>8 DEF Busy, Halfway, Entry, At, Past
    <3>2. SizesSet(i, DefaultSize) /\ \A d \in Clients : Busy(d, i) => d = c
      BY <3>1 DEF SizeOk
    <3>3. \A d \in Clients : ~Busy(d, i)'
      BY <1>d, <1>f, <2>8, <3>2 DEF Busy, Halfway, Idle, Entry
    <3>4. Agree(i)'
      BY <1>2, <2>8, <3>2
         DEF Agree, SizesSet, Entry, Store!Insert, tmuxVars, TerminalType
    <3> QED BY <3>3, <3>4 DEF SizeOk
  <2>9. CASE ResizeEntry(c)
    <3>1. Busy(c, i) /\ call[c].pc = "resize_entry" /\ i \notin muddled
      BY <1>2, <2>9 DEF Busy, Halfway, ResizeEntry, At, Past
    <3>2. SizesSet(i, call[c].size) /\ \A d \in Clients : Busy(d, i) => d = c
      BY <3>1 DEF SizeOk
    <3>3. \A d \in Clients : ~Busy(d, i)'
      BY <1>d, <1>f, <2>9, <3>2 DEF Busy, Halfway, Idle, ResizeEntry
    <3>4. \A e \in terminals'[i] : e.size = call[c].size
      <4>1. \A e \in terminals[i] :
              [e EXCEPT !.size = call[c].size].size = call[c].size
        BY DEF TerminalType, TerminalRecords
      <4>2. terminals'[i] = {[e EXCEPT !.size = call[c].size] : e \in terminals[i]}
        BY <1>2, <2>9 DEF ResizeEntry, Store!ResizeTerminal, TerminalType
      <4> QED BY <4>1, <4>2
    <3>5. Agree(i)'
      BY <2>9, <3>2, <3>4 DEF Agree, SizesSet, ResizeEntry, tmuxVars
    <3> QED BY <3>3, <3>5 DEF SizeOk
  <2> QED BY <1>w, <2>2, <2>4, <2>5, <2>8, <2>9, <2>6, <2>7
<1> QED BY <1>1, <1>2

LEMMA SizeHandler ==
  ASSUME SizeInv, NEW c \in Clients, Handler(c)
  PROVE  SizeInv'
<1>t. ScreensType /\ ScreensType'
  BY HandlerType DEF SizeInv
<1>1. ASSUME NEW i \in Ids \ muddled' PROVE SizeOk(i)'
  <2>1. CASE Quiet(c) \/ Capture(c)
    <3>1. i \notin muddled
      BY <1>1, <2>1 DEF Quiet, Capture, Past
    <3> QED BY <2>1, <3>1, SizeQuiet DEF SizeInv
  <2>2. CASE Open(c) \/ Fit(c) \/ Entry(c) \/ Resize(c) \/ ResizeEntry(c)
    BY <1>1, <2>2, SizeSetting
  <2> QED BY <1>t, <2>1, <2>2, HandlerQuiet
<1> QED BY <1>t, <1>1 DEF SizeInv

LEMMA SizeOthers ==
  ASSUME SizeInv, Poll \/ Recover \/ (\E i \in Ids : Agent(i)) \/ UNCHANGED vars
  PROVE  SizeInv'
<1> USE DEF SizeInv
<1>t. ScreensType'
  BY StepType DEF Next
<1>1. ASSUME UNCHANGED <<call, muddled>>, \A i \in Ids : SizesKept(i)
      PROVE  SizeInv'
  <2>1. \A i \in Ids : CallsKept(i)
    BY <1>1 DEF CallsKept, Busy
  <2> QED BY <1>t, <1>1, <2>1, SizeFrame
<1>2. CASE Poll
  <2>1. call' = call /\ muddled' = muddled /\ windows' = windows
    BY <1>2 DEF Poll, PollBegin, PollCapture, PollPane, PollApply, tmuxVars, Past
  <2>2. ASSUME NEW j \in Ids
        PROVE  \A e \in terminals'[j] : \E f \in terminals[j] : f.size = e.size
    <3>1. ASSUME NEW i \in Ids, PollPane(i)
          PROVE  \E p \in SUBSET Shots : Store!SetPane(i, p)
      BY <3>1, CaptureNamed DEF PollPane, PaneState, ScreensType
    <3>2. ASSUME NEW i \in Ids, PollApply(i)
          PROVE  \E t \in Shots : Store!ApplyCapture(i, t)
      BY <3>2 DEF PollApply, ScreensType, PollType, PollRecords
    <3>3. PollBegin \/ (\E i \in Ids : PollCapture(i)) => terminals' = terminals
      BY DEF PollBegin, PollCapture
    <3> QED BY <1>2, <3>1, <3>2, <3>3, TerminalSizes DEF Poll, ScreensType
  <2> QED BY <1>1, <2>1, <2>2 DEF SizesKept
<1>3. CASE Recover
  <2>1. ASSUME NEW i \in Ids \ muddled' PROVE SizeOk(i)'
    <3>1. \A c \in Clients : ~Busy(c, i)'
      BY <1>3 DEF Recover, Busy, Halfway, Idle
    <3>2. \A w \in windows'[i] : w.size = DefaultSize
      BY <1>3, <2>1 DEF Recover, tmuxVars
    <3>3. \A e \in terminals'[i] : e.size = DefaultSize
      BY <1>3 DEF Recover
    <3> QED BY <3>1, <3>2, <3>3 DEF SizeOk, Agree
  <2> QED BY <1>t, <2>1
<1>4. ASSUME NEW i \in Ids, Agent(i) PROVE SizeInv'
  <2>1. \A j \in Ids : SizesKept(j)
    BY <1>4, WindowSizes DEF Agent, SizesKept, ScreensType
  <2> QED BY <1>1, <1>4, <2>1 DEF Agent, Past
<1>5. CASE UNCHANGED vars
  <2>1. \A j \in Ids : SizesKept(j)
    BY <1>5 DEF vars, tmuxVars, SizesKept
  <2> QED BY <1>1, <1>5, <2>1 DEF vars
<1> QED BY <1>2, <1>3, <1>4, <1>5

LEMMA SizeInit == Init => SizeInv
<1> SUFFICES ASSUME Init PROVE SizeInv
  OBVIOUS
<1>1. \A c \in Clients : call[c].pc = "idle"
  BY DEF Init, Idle
<1>2. \A i \in Ids : windows[i] = {}
  BY DEF Init, TmuxInit
<1> QED BY <1>1, <1>2, InitType DEF SizeInv, SizeOk, Busy, Halfway, Agree

(* With no request halfway, a session is shown at the size of its window from the
   first launch or resize that tmux obeyed with no other halfway, but for requests
   that overlapped since, a name that resolved to another window, a resize-window
   that failed in a launch, and a restart of the daemon after a resize
   (backend.rs create, runtime.rs resize and recover_sessions). *)
THEOREM TerminalsFitWindows == Spec => []SizesAgree
<1>1. SizeInv /\ [Next]_vars => SizeInv'
  BY SizeHandler, SizeOthers DEF Next
<1>2. SizeInv => SizesAgree
  <2> SUFFICES ASSUME SizeInv, NEW i \in Ids \ muddled, In(Halfway, i) = {}
               PROVE  Agree(i)
    BY DEF SizesAgree, Agree
  <2>1. \A c \in Clients : ~Busy(c, i)
    BY DEF In, Busy
  <2> QED BY <2>1 DEF SizeInv, SizeOk
<1> QED BY <1>1, <1>2, SizeInit, PTL DEF Spec
-----------------------------------------------------------------------------
(* InputWhole.  While an input is being sent, tmux has got the parts before the *)
(* one its client is at; before that it has got none, and no client sends two.  *)

Progress(c, n) ==
  /\ answer[c] = "accepted" => n = Parts
  /\ answer[c] = "failed" => n < Parts
  /\ call[c].pc = "send" => answer[c] = "none" /\ n < Parts /\ call[c].part = n + 1
  /\ answer[c] = "none" /\ call[c].pc # "send" => n = 0

InOrder(c) == \A j, k \in Mine(c) : j < k => typed[j].part < typed[k].part

InputOf(c) ==
  InOrder(c) /\ \E n \in 0 .. Parts : Came(c) = 1 .. n /\ Progress(c, n)

InputInv ==
  /\ \A c \in Typists : InputOf(c)
  /\ \A c \in Clients : call[c].pc = "send" => c \in Typists

LEMMA InputInit == Init => InputInv
<1> SUFFICES ASSUME Init PROVE InputInv
  OBVIOUS
<1>1. typed = <<>> /\ \A c \in Clients : call[c].pc = "idle" /\ answer[c] = "none"
  BY DEF Init, TmuxInit, Idle
<1>2. ASSUME NEW c \in Typists PROVE InputOf(c)
  <2>1. Mine(c) = {} /\ Came(c) = {}
    BY <1>1 DEF Mine, Came
  <2>2. 0 \in 0 .. Parts /\ 1 .. 0 = {}
    BY ScreensAssumption
  <2> QED BY <1>1, <2>1, <2>2, ScreensAssumption DEF InputOf, InOrder, Progress
<1> QED BY <1>1, <1>2 DEF InputInv

LEMMA HandlerSends ==
  ASSUME CallType, NEW c \in Clients, Handler(c)
  PROVE  \/ (\E i \in Ids : SendBegin(c, i)) \/ SendChunk(c) \/ SendFails(c)
         \/ /\ call[c].pc # "send" /\ call'[c].pc # "send"
            /\ UNCHANGED <<typed, answer>>
<1>c. call[c] \in CallRecords
  BY DEF CallType
<1>g. ASSUME NEW pc, Goto(c, pc) PROVE call'[c].pc = pc
  BY <1>c, <1>g DEF Goto, CallType, CallRecords
<1>f. Finish(c) => call'[c].pc = "idle"
  BY DEF Finish, Idle, CallType
<1>b. ASSUME NEW pc, NEW i, Begin(c, pc, i) PROVE call'[c].pc = pc
  BY <1>b DEF Begin, Idle, CallType
<1> USE DEF At
<1>1. ASSUME Launch(c)
      PROVE  call[c].pc # "send" /\ call'[c].pc # "send" /\ UNCHANGED <<typed, answer>>
  <2>1. ASSUME NEW i \in Ids, CreateBegin(c, i) \/ RestartBegin(c, i)
        PROVE  call[c].pc # "send" /\ call'[c].pc # "send" /\ UNCHANGED <<typed, answer>>
    BY <2>1, <1>b DEF CreateBegin, RestartBegin, Idle, CallType, tmuxVars
  <2>2. RestartKill(c) \/ Fit(c) =>
          call[c].pc # "send" /\ call'[c].pc # "send" /\ UNCHANGED <<typed, answer>>
    BY <1>g DEF RestartKill, Fit, KillWindow, ResizeWindow, tmuxVars
  <2>3. ASSUME Probe(c) \/ Open(c)
        PROVE  call[c].pc # "send" /\ call'[c].pc # "send" /\ UNCHANGED <<typed, answer>>
    <3>1. call[c].pc # "send" /\ UNCHANGED <<typed, answer>>
      BY <2>3 DEF Probe, Open, NewWindow, tmuxVars
    <3>2. CASE Probe(c)
      <4>1. PICK saw : call' = [call EXCEPT ![c].pc = "open", ![c].saw = saw]
        BY <3>2 DEF Probe
      <4> QED BY <1>c, <3>1, <4>1 DEF CallType, CallRecords
    <3>3. CASE Open(c)
      <4>1. call' = [call EXCEPT ![c].pc = "fit", ![c].saw = FALSE, ![c].new = FALSE]
        BY <3>3 DEF Open
      <4> QED BY <1>c, <3>1, <4>1 DEF CallType, CallRecords
    <3> QED BY <2>3, <3>2, <3>3
  <2>4. OpenFails(c) \/ Entry(c) =>
          call[c].pc # "send" /\ call'[c].pc # "send" /\ UNCHANGED <<typed, answer>>
    BY <1>f DEF OpenFails, Entry, tmuxVars
  <2> QED BY <1>1, <2>1, <2>2, <2>3, <2>4 DEF Launch
<1>2. ASSUME Delete(c)
      PROVE  call[c].pc # "send" /\ call'[c].pc # "send" /\ UNCHANGED <<typed, answer>>
  BY <1>2, <1>b, <1>g, <1>f
     DEF Delete, DeleteBegin, Forget, Close, KillWindow, tmuxVars
<1>3. ASSUME ResizeSession(c)
      PROVE  call[c].pc # "send" /\ call'[c].pc # "send" /\ UNCHANGED <<typed, answer>>
  <2>1. ASSUME NEW i \in Ids, NEW s \in Sizes, ResizeBegin(c, i, s)
        PROVE  call[c].pc # "send" /\ call'[c].pc # "send" /\ UNCHANGED <<typed, answer>>
    BY <2>1 DEF ResizeBegin, Idle, CallType, tmuxVars
  <2>2. Resize(c) =>
          call[c].pc # "send" /\ call'[c].pc # "send" /\ UNCHANGED <<typed, answer>>
    BY <1>g, <1>f DEF Resize, ResizeWindow, tmuxVars
  <2>3. ResizeEntry(c) =>
          call[c].pc # "send" /\ call'[c].pc # "send" /\ UNCHANGED <<typed, answer>>
    BY <1>f DEF ResizeEntry, tmuxVars
  <2> QED BY <1>3, <2>1, <2>2, <2>3 DEF ResizeSession
<1>4. ASSUME CaptureScreen(c)
      PROVE  call[c].pc # "send" /\ call'[c].pc # "send" /\ UNCHANGED <<typed, answer>>
  <2>1. ASSUME NEW i \in Ids, CaptureBegin(c, i)
        PROVE  call[c].pc # "send" /\ call'[c].pc # "send" /\ UNCHANGED <<typed, answer>>
    BY <2>1, <1>b DEF CaptureBegin, tmuxVars
  <2>2. Capture(c) =>
          call[c].pc # "send" /\ call'[c].pc # "send" /\ UNCHANGED <<typed, answer>>
    BY <1>c, <1>f DEF Capture, CallType, CallRecords, tmuxVars
  <2>3. Pane(c) \/ Apply(c) =>
          call[c].pc # "send" /\ call'[c].pc # "send" /\ UNCHANGED <<typed, answer>>
    BY <1>g, <1>f DEF Pane, Apply, tmuxVars
  <2> QED BY <1>4, <2>1, <2>2, <2>3 DEF CaptureScreen
<1> QED BY <1>1, <1>2, <1>3, <1>4 DEF Handler, Send

(* One chunk more, the next of its input, and last of all that was typed. *)
LEMMA ChunkAdded ==
  ASSUME OwnTyped, NEW i \in Ids, NEW c \in Clients, NEW part \in Nat,
         Target(i) # {}, SendKeys(i, c, part)
  PROVE  /\ Mine(c)' = Mine(c) \cup {Len(typed) + 1}
         /\ \A d \in Clients \ {c} : Mine(d)' = Mine(d)
         /\ \A k \in DOMAIN typed : typed'[k] = typed[k] /\ k < Len(typed) + 1
         /\ typed'[Len(typed) + 1].part = part
<1>1. Cardinality(Target(i)) = 1
  <2>1. Cardinality({i}) = 1
    BY FS_Singleton
  <2> QED BY <2>1 DEF Target
<1> DEFINE j == CHOOSE j \in Target(i) : TRUE
           d == [id |-> i, to |-> j, input |-> c, part |-> part]
<1>2. typed' = typed \o [k \in 1 .. 1 |-> d]
  BY <1>1 DEF SendKeys
<1>3. d.input = c /\ d.part = part
  OBVIOUS
<1> HIDE DEF d
<1>4. /\ DOMAIN typed' = 1 .. Len(typed) + 1 /\ DOMAIN typed = 1 .. Len(typed)
      /\ Len(typed) \in Nat
      /\ \A k \in 1 .. Len(typed) : typed'[k] = typed[k]
      /\ typed'[Len(typed) + 1] = d
  BY <1>2 DEF OwnTyped
<1>5. \A e \in Clients : Mine(e)' = {k \in 1 .. Len(typed) + 1 : typed'[k].input = e}
  BY <1>4 DEF Mine
<1> QED BY <1>3, <1>4, <1>5 DEF Mine

LEMMA InputKept ==
  ASSUME InputInv, NEW c \in Typists, Mine(c)' = Mine(c),
         \A k \in Mine(c) : typed'[k] = typed[k],
         \A n \in 0 .. Parts : Progress(c, n) => Progress(c, n)'
  PROVE  InputOf(c)'
<1>1. Came(c)' = Came(c)
  BY DEF Came
<1> QED BY <1>1 DEF InputInv, InputOf, InOrder
LEMMA InputHandler ==
  ASSUME OwnInv, InputInv, answer \in [Clients -> {"none", "accepted", "failed", "lost"}],
         NEW c \in Clients, Handler(c)
  PROVE  InputInv' /\ answer' \in [Clients -> {"none", "accepted", "failed", "lost"}]
<1>s. CallType /\ OwnTyped /\ ScreensType
  BY DEF OwnInv, ScreensType
<1>c. call[c] \in CallRecords
  BY <1>s DEF CallType
<1>p. Parts \in Nat \ {0} /\ Typists \subseteq Clients
  BY ScreensAssumption
<1>m. \A d \in Clients \ {c} : call'[d] = call[d]
  BY <1>s, HandlerMoves, MovesType
<1>1. CASE /\ call[c].pc # "send" /\ call'[c].pc # "send"
           /\ UNCHANGED <<typed, answer>>
  <2>1. ASSUME NEW d \in Typists PROVE InputOf(d)'
    <3>1. Mine(d)' = Mine(d)
      BY <1>1 DEF Mine
    <3>2. \A n \in 0 .. Parts : Progress(d, n) => Progress(d, n)'
      BY <1>1, <1>m, <1>p DEF Progress
    <3> QED BY <1>1, <3>1, <3>2, InputKept
  <2> QED BY <1>1, <1>m, <2>1 DEF InputInv
<1>2. ASSUME NEW i \in Ids, SendBegin(c, i)
      PROVE  InputInv' /\ answer' \in [Clients -> {"none", "accepted", "failed", "lost"}]
  <2>1. /\ c \in Typists /\ answer[c] = "none" /\ call[c].pc # "send"
        /\ call'[c].pc = "send" /\ call'[c].part = 1
        /\ UNCHANGED <<typed, answer>>
    BY <1>2, <1>s DEF SendBegin, At, Idle, CallType, tmuxVars
  <2>2. ASSUME NEW d \in Typists PROVE InputOf(d)'
    <3>1. Mine(d)' = Mine(d)
      BY <2>1 DEF Mine
    <3>2. \A n \in 0 .. Parts : Progress(d, n) => Progress(d, n)'
      BY <2>1, <1>m, <1>p DEF Progress
    <3> QED BY <2>1, <3>1, <3>2, InputKept
  <2> QED BY <2>1, <1>m, <2>2 DEF InputInv
<1>3. CASE SendFails(c)
  <2>1. /\ call[c].pc = "send" /\ call'[c].pc = "idle"
        /\ answer' = [answer EXCEPT ![c] = "failed"] /\ UNCHANGED typed
    BY <1>3, <1>s DEF SendFails, At, Finish, Idle, CallType, tmuxVars
  <2>2. ASSUME NEW d \in Typists PROVE InputOf(d)'
    <3>1. Mine(d)' = Mine(d)
      BY <2>1 DEF Mine
    <3>2. \A n \in 0 .. Parts : Progress(d, n) => Progress(d, n)'
      BY <2>1, <1>m, <1>p DEF Progress
    <3> QED BY <2>1, <3>1, <3>2, InputKept
  <2> QED BY <2>1, <1>m, <2>2 DEF InputInv
<1>4. CASE SendChunk(c)
  <2>1. /\ call[c].pc = "send" /\ c \in Typists
        /\ call[c].id \in Ids /\ call[c].part \in Nat
        /\ Target(call[c].id) # {} /\ SendKeys(call[c].id, c, call[c].part)
    BY <1>4, <1>c DEF SendChunk, At, InputInv, CallRecords
  <2>2. /\ Mine(c)' = Mine(c) \cup {Len(typed) + 1}
        /\ \A d \in Clients \ {c} : Mine(d)' = Mine(d)
        /\ \A k \in DOMAIN typed : typed'[k] = typed[k] /\ k < Len(typed) + 1
        /\ typed'[Len(typed) + 1].part = call[c].part
    BY <1>s, <2>1, ChunkAdded
  <2>3. /\ answer' \in [Clients -> {"none", "accepted", "failed", "lost"}]
        /\ \A d \in Clients \ {c} : answer'[d] = answer[d]
        /\ \/ /\ call[c].part = Parts /\ answer'[c] = "accepted"
              /\ call'[c].pc = "idle"
           \/ /\ call[c].part # Parts /\ answer'[c] = answer[c]
              /\ call'[c].pc = "send" /\ call'[c].part = call[c].part + 1
    <3>1. CASE call[c].part = Parts
      <4>1. answer' = [answer EXCEPT ![c] = "accepted"] /\ Finish(c)
        BY <1>4, <3>1 DEF SendChunk
      <4> QED BY <1>s, <3>1, <4>1 DEF Finish, Idle, CallType
    <3>2. CASE call[c].part # Parts
      <4>1. call' = [call EXCEPT ![c].part = @ + 1] /\ UNCHANGED answer
        BY <1>4, <3>2 DEF SendChunk
      <4>2. call'[c].pc = "send" /\ call'[c].part = call[c].part + 1
        BY <1>s, <1>c, <2>1, <4>1 DEF CallType, CallRecords
      <4> QED BY <3>2, <4>1, <4>2
    <3> QED BY <3>1, <3>2
  <2>4. ASSUME NEW d \in Typists \ {c} PROVE InputOf(d)'
    <3>1. Mine(d)' = Mine(d) /\ \A k \in Mine(d) : typed'[k] = typed[k]
      BY <1>p, <2>2 DEF Mine
    <3>2. \A n \in 0 .. Parts : Progress(d, n) => Progress(d, n)'
      BY <1>m, <1>p, <2>3 DEF Progress
    <3> QED BY <3>1, <3>2, InputKept
  <2>5. InputOf(c)'
    <3>1. PICK n \in 0 .. Parts : Came(c) = 1 .. n /\ Progress(c, n)
      BY <2>1 DEF InputInv, InputOf
    <3>2. n \in Nat /\ n < Parts /\ call[c].part = n + 1 /\ answer[c] = "none"
      BY <1>p, <2>1, <3>1 DEF Progress
    <3>3. \A k \in Mine(c) : typed'[k].part = typed[k].part /\ typed[k].part \in 1 .. n
                             /\ k < Len(typed) + 1
      BY <2>2, <3>1 DEF Mine, Came
    <3>4. Came(c)' = 1 .. n + 1
      <4>1. Came(c)' = {typed'[k].part : k \in Mine(c)} \cup {n + 1}
        BY <2>2, <3>2 DEF Came
      <4>2. {typed'[k].part : k \in Mine(c)} = Came(c)
        BY <3>3 DEF Came
      <4>3. 1 .. n + 1 = (1 .. n) \cup {n + 1}
        BY <3>2
      <4> QED BY <3>1, <4>1, <4>2, <4>3
    <3>5. InOrder(c)'
      <4> SUFFICES ASSUME NEW j \in Mine(c)', NEW k \in Mine(c)', j < k
                   PROVE  typed'[j].part < typed'[k].part
        BY DEF InOrder
      <4>0. Mine(c) \subseteq Nat /\ Len(typed) \in Nat
        BY <1>s DEF Mine, OwnTyped
      <4>1. j \in Mine(c)
        BY <2>2, <3>3, <4>0
      <4>2. CASE k \in Mine(c)
        BY <2>1, <3>3, <4>1, <4>2 DEF InputInv, InputOf, InOrder
      <4>3. CASE k = Len(typed) + 1
        <5>1. typed'[j].part \in 1 .. n /\ typed'[k].part = n + 1
          BY <2>2, <3>2, <3>3, <4>1, <4>3
        <5> QED BY <3>2, <5>1
      <4> QED BY <2>2, <4>2, <4>3
    <3>6. n + 1 \in 0 .. Parts /\ Progress(c, n + 1)'
      BY <1>p, <2>3, <3>2 DEF Progress
    <3> QED BY <3>4, <3>5, <3>6 DEF InputOf
  <2>6. \A d \in Clients : call'[d].pc = "send" => d \in Typists
    BY <1>m, <2>1 DEF InputInv
  <2> QED BY <2>3, <2>4, <2>5, <2>6 DEF InputInv
<1> QED BY <1>s, <1>1, <1>2, <1>3, <1>4, HandlerSends DEF SendFails

LEMMA InputOthers ==
  ASSUME InputInv, answer \in [Clients -> {"none", "accepted", "failed", "lost"}],
         CallType, Poll \/ Recover \/ (\E i \in Ids : Agent(i)) \/ UNCHANGED vars
  PROVE  InputInv' /\ answer' \in [Clients -> {"none", "accepted", "failed", "lost"}]
<1>p. Parts \in Nat \ {0} /\ Typists \subseteq Clients
  BY ScreensAssumption
<1>t. typed' = typed
  BY DEF Poll, PollBegin, PollCapture, PollPane, PollApply, Recover, Agent, AgentDraws,
         AgentEnds, vars, tmuxVars
<1>m. \A d \in Typists : Mine(d)' = Mine(d)
  BY <1>t DEF Mine
<1>1. CASE UNCHANGED <<call, answer>>
  <2>1. \A d \in Typists : InputOf(d)'
    BY <1>1, <1>m, <1>t, InputKept DEF Progress
  <2> QED BY <1>1, <2>1 DEF InputInv
<1>2. CASE Recover
  <2>1. \A d \in Clients : /\ call'[d].pc = "idle"
                           /\ answer'[d] = IF call[d].pc = "send" THEN "lost" ELSE answer[d]
    BY <1>2 DEF Recover, Idle, At
  <2>2. ASSUME NEW d \in Typists PROVE InputOf(d)'
    <3>1. \A n \in 0 .. Parts : Progress(d, n) => Progress(d, n)'
      BY <1>p, <2>1 DEF Progress
    <3> QED BY <1>m, <1>t, <3>1, InputKept
  <2>3. answer' \in [Clients -> {"none", "accepted", "failed", "lost"}]
    BY <1>2 DEF Recover
  <2> QED BY <2>1, <2>2, <2>3 DEF InputInv
<1>3. UNCHANGED <<call, answer>> \/ Recover
  BY DEF Poll, PollBegin, PollCapture, PollPane, PollApply, Agent, vars
<1> QED BY <1>1, <1>2, <1>3

(* An input that was accepted was typed whole, in order and once, and one that was
   refused up to some chunk, whichever session each chunk went to and whatever the
   other clients, tmux and a restart did between two of them: the loop over the
   chunks of send_input stops at the first that fails. *)
THEOREM InputsArriveWhole == Spec => []InputWhole
<1> DEFINE Inv == OwnInv /\ InputInv
                  /\ answer \in [Clients -> {"none", "accepted", "failed", "lost"}]
<1>1. Init => Inv
  BY OwnInit, InputInit DEF Init
<1>2. Inv /\ [Next]_vars => Inv'
  <2> SUFFICES ASSUME Inv, [Next]_vars PROVE Inv'
    OBVIOUS
  <2>1. CallType
    BY DEF OwnInv, ScreensType
  <2>2. OwnInv'
    BY OwnHandler, OwnOthers DEF Next
  <2>3. InputInv' /\ answer' \in [Clients -> {"none", "accepted", "failed", "lost"}]
    BY <2>1, InputHandler, InputOthers DEF Next
  <2> QED BY <2>2, <2>3
<1>3. Inv => InputWhole
  BY DEF InputInv, InputOf, InOrder, Progress, InputWhole
<1> QED BY <1>1, <1>2, <1>3, PTL DEF Spec
=============================================================================
