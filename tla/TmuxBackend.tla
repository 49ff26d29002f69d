---------------------------- MODULE TmuxBackend -----------------------------
(***************************************************************************)
(* The daemon's multiplexer (backend.rs, LocalTmuxBackend): one tmux       *)
(* session with a window per anclave session, named session-<n> and        *)
(* addressed by that name.  Every operator below is one tmux process.      *)
(*                                                                         *)
(* A target session:name without '=' is resolved by tmux: the window of    *)
(* that name, else the only one whose name begins with it.  So the name of *)
(* a session whose window is gone may address another one.                 *)
(***************************************************************************)
EXTENDS Naturals, Sequences, FiniteSets

CONSTANTS
  Ids,         \* the n of the session-<n> names
  Texts,       \* what a pane may show
  Sizes,       \* window sizes
  DefaultSize  \* terminal.rs DEFAULT_SIZE, which every launch asks for

ASSUME WindowsAssumption ==
  /\ Ids \subseteq Nat \ {0}
  /\ DefaultSize \in Sizes

VARIABLES
  windows,     \* windows[i]: {} or {[text, size]}
  typed        \* history: the chunks of input that reached a window, in order

tmuxVars == <<windows, typed>>

HasWindow(i) == windows[i] # {}
(* list-windows, and has-session on the tmux session itself: tmux drops the
   session, and its server ends, with the last window. *)
Live == {i \in Ids : HasWindow(i)}

(* session-i is a proper prefix of session-j. *)
Prefix(i, j) == \E k \in 1 .. 4 : i = j \div 10 ^ k

TargetMutant(i) ==                     \* any window when there is none
  IF HasWindow(i) THEN {i} ELSE IF Cardinality(Live) = 1 THEN Live ELSE {}

(* The window a call for i reaches: {} when there is none, or several. *)
Target(i) ==
  LET like == {j \in Live : Prefix(i, j)}
  IN IF HasWindow(i) THEN {i}
     ELSE IF Cardinality(like) = 1 THEN like ELSE {}

TmuxInit ==
  /\ windows = [i \in Ids |-> {}]
  /\ typed = <<>>

-----------------------------------------------------------------------------
(* new-window needs the tmux session that has-session saw, new-session needs
   there to be none: the look and the call are two processes, and what
   happened in between makes the call fail. *)
NewWindowFails(saw) == saw # (Live # {})

(* new-session takes the requested size, new-window that of the session. *)
NewWindow(i, saw) ==
  /\ windows[i] = {}
  /\ \E t \in Texts, s \in IF saw THEN Sizes ELSE {DefaultSize} :
       windows' = [windows EXCEPT ![i] = {[text |-> t, size |-> s]}]
  /\ UNCHANGED typed

(* resize-window; nothing happens when the target resolves to no window. *)
ResizeWindow(i, s) ==
  /\ windows' = [j \in Ids |-> IF j \notin Target(i) THEN windows[j]
                               ELSE {[w EXCEPT !.size = s] : w \in windows[j]}]
  /\ UNCHANGED typed

KillWindow(i) ==
  /\ windows' = [j \in Ids |-> IF j \in Target(i) THEN {} ELSE windows[j]]
  /\ UNCHANGED typed

(* send-keys with one chunk of at most INPUT_CHUNK_BYTES. *)
SendKeys(i, input, part) ==
  /\ typed' = typed \o [k \in 1 .. Cardinality(Target(i)) |->
                 [id |-> i, to |-> CHOOSE j \in Target(i) : TRUE,
                  input |-> input, part |-> part]]
  /\ UNCHANGED windows

(* capture-pane, as a set: {} when the target resolves to no window.  The text
   carries whose pane it is.  to_terminal_bytes changes line ends, not what is
   on the screen. *)
CapturePane(i) ==
  UNION {{[of |-> j, text |-> w.text] : w \in windows[j]} : j \in Target(i)}

(* display-message: cursor and alternate screen, which go with the text. *)
PaneState(i) == CapturePane(i)

(* An agent draws, or ends. *)
AgentDraws(i) ==
  /\ \E t \in Texts, w \in windows[i] :
       windows' = [windows EXCEPT ![i] = {[w EXCEPT !.text = t]}]
  /\ UNCHANGED typed

AgentEnds(i) ==
  /\ HasWindow(i)
  /\ windows' = [windows EXCEPT ![i] = {}]
  /\ UNCHANGED typed
=============================================================================
