------------------------------- MODULE TuiHost -------------------------------
(***************************************************************************)
(* The terminal UI as its user drives it (tui/src/main.rs): the list and   *)
(* the selected line, the pane, the mode that says whose the keys are, and *)
(* a daemon that comes and goes meanwhile.                                 *)
(*                                                                         *)
(* What the socket does to requests and events is EventStream's, and which *)
(* line an event leaves is ClientView's: here an event may be about any    *)
(* session there ever was and say anything of it.  A request is one step.  *)
(***************************************************************************)
EXTENDS Naturals, Sequences, SequencesExt

CONSTANTS
  MaxSessions, \* sessions ever created, numbered in that order
  NoSession

VARIABLES
  existing,   \* the daemon's sessions, in the order ListSessions has them
  created,    \* sessions created so far
  list,       \* lines of the list: [id, state]
  selected,   \* the line selected
  screen,     \* the session whose screen is in the pane
  attached,   \* screen_session: whose screen is followed, and who gets keys
  mode,       \* "navigate" or "terminal"
  overlay,    \* "none", "form" or "details"
  connected

daemonVars == <<existing, created>>
paneVars == <<screen, attached>>
tuiVars == <<daemonVars, list, selected, paneVars, mode, overlay, connected>>

States == {"running", "other"}      \* has a terminal or not
Line(i, state) == [id |-> i, state |-> state]
Ids(lines) == {lines[k].id : k \in DOMAIN lines}
SelectedId == IF list = <<>> THEN NoSession ELSE list[selected].id
LineOf(i) == CHOOSE k \in DOMAIN list : list[k].id = i
Lesser(a, b) == IF a < b THEN a ELSE b
LastLine(lines) == IF lines = <<>> THEN 1 ELSE Len(lines)

TuiInit ==
  /\ existing = <<>> /\ created = 0
  /\ list = <<>> /\ selected = 1
  /\ screen = NoSession /\ attached = NoSession
  /\ mode = "navigate" /\ overlay = "none"
  /\ connected = FALSE

-----------------------------------------------------------------------------
(* The daemon, and other clients *)

CreateSession ==
  /\ created < MaxSessions
  /\ created' = created + 1
  /\ existing' = Append(existing, created')
  /\ UNCHANGED <<list, selected, paneVars, mode, overlay, connected>>

DeleteSession(i) ==
  /\ \E k \in DOMAIN existing :
       existing[k] = i /\ existing' = RemoveAt(existing, k)
  /\ UNCHANGED <<created, list, selected, paneVars, mode, overlay, connected>>

-----------------------------------------------------------------------------
(* connect: the list of the daemon replaces the one on the screen *)

UpdateSessionsMutant(lines) ==      \* the pane is cleared, not what it follows
  LET kept == {k \in DOMAIN lines : lines[k].id = SelectedId}
  IN /\ list' = lines
     /\ selected' = IF kept # {} THEN CHOOSE k \in kept : TRUE
                    ELSE Lesser(selected, LastLine(lines))
     /\ screen' = IF lines = <<>> THEN NoSession ELSE screen
     /\ UNCHANGED attached

UpdateSessions(lines) ==
  LET kept == {k \in DOMAIN lines : lines[k].id = SelectedId}
  IN /\ list' = lines
     /\ selected' = IF kept # {} THEN CHOOSE k \in kept : TRUE
                    ELSE Lesser(selected, LastLine(lines))
     /\ IF lines = <<>> THEN screen' = NoSession /\ attached' = NoSession
        ELSE UNCHANGED paneVars

(* Any step of connect may fail, which changes no more than what is said. *)
Connect ==
  /\ ~connected
  /\ connected' = TRUE
  /\ \E says \in [DOMAIN existing -> States] :
       UpdateSessions([k \in DOMAIN existing |-> Line(existing[k], says[k])])
  /\ UNCHANGED <<daemonVars, mode, overlay>>

(* The next event fails, or a request, which closes the form if it was that of
   the form. *)
Disconnect ==
  /\ connected /\ connected' = FALSE
  /\ overlay' \in {overlay, IF overlay = "form" THEN "none" ELSE overlay}
  /\ UNCHANGED <<daemonVars, list, selected, paneVars, mode>>

-----------------------------------------------------------------------------
(* drain_live_client *)

ApplyEventMutant(i, kind) ==        \* the newest on top
  list' = IF i \in Ids(list)
          THEN [list EXCEPT ![LineOf(i)].state =
                  IF kind = "created" THEN "other" ELSE kind]
          ELSE IF kind = "created" THEN <<Line(i, "other")>> \o list
          ELSE list

ApplyEvent(i, kind) ==
  list' = IF i \in Ids(list)
          THEN [list EXCEPT ![LineOf(i)].state =
                  IF kind = "created" THEN "other" ELSE kind]
          ELSE IF kind = "created" THEN Append(list, Line(i, "other"))
          ELSE list

DrainEvent(i, kind) ==
  /\ connected
  /\ ApplyEvent(i, kind)
  /\ UNCHANGED <<daemonVars, selected, paneVars, mode, overlay, connected>>

(* The screen is asked for; an error leaves the last frame. *)
ScreenChanged(i) ==
  /\ connected /\ attached = i /\ Contains(existing, i)
  /\ screen' = i
  /\ UNCHANGED <<daemonVars, list, selected, attached, mode, overlay,
                 connected>>

-----------------------------------------------------------------------------
(* Keys *)

(* handle_terminal_key: Ctrl+] leaves, anything else is sent to an agent, or to
   nobody.  An error in answer to it is not looked at. *)
Leave ==
  /\ mode = "terminal" /\ mode' = "navigate"
  /\ UNCHANGED <<daemonVars, list, selected, paneVars, overlay, connected>>

KeysGoTo == IF mode = "terminal" /\ connected THEN attached ELSE NoSession

Navigating == mode = "navigate" /\ overlay = "none"

(* move_selection, by one line within the list *)
MoveSelection(k) ==
  /\ Navigating /\ list # <<>>
  /\ selected' = k
  /\ screen' = IF attached # list[k].id THEN NoSession ELSE screen
  /\ UNCHANGED <<daemonVars, list, attached, mode, overlay, connected>>

Move ==
  \/ MoveSelection(Lesser(selected + 1, LastLine(list)))
  \/ MoveSelection(IF selected = 1 THEN 1 ELSE selected - 1)

ReconnectKey ==
  /\ Navigating
  /\ connected' = FALSE
  /\ UNCHANGED <<daemonVars, list, selected, paneVars, mode, overlay>>

OpenOverlay(what) ==
  /\ Navigating
  /\ what = "form" => connected
  /\ overlay' = what
  /\ UNCHANGED <<daemonVars, list, selected, paneVars, mode, connected>>

CloseOverlay ==
  /\ mode = "navigate" /\ overlay # "none" /\ overlay' = "none"
  /\ UNCHANGED <<daemonVars, list, selected, paneVars, mode, connected>>

(* submit_form; a refusal leaves the form open. *)
Submit ==
  /\ mode = "navigate" /\ overlay = "form" /\ connected
  /\ created < MaxSessions
  /\ created' = created + 1 /\ existing' = Append(existing, created')
  /\ list' = Append(list, Line(created', "running"))
  /\ overlay' = "none"
  /\ UNCHANGED <<selected, paneVars, mode, connected>>

Focus(i) ==
  /\ Contains(existing, i)
  /\ screen' = i /\ attached' = i /\ mode' = "terminal"

(* focus_selected: the state listed may be out of date, and then the daemon
   refuses. *)
FocusSelected ==
  /\ Navigating /\ connected /\ list # <<>>
  /\ list[selected].state = "running"
  /\ Focus(SelectedId)
  /\ UNCHANGED <<daemonVars, list, selected, overlay, connected>>

(* q, and a UI started anew. *)
QuitKey ==
  /\ Navigating
  /\ list' = <<>> /\ selected' = 1
  /\ screen' = NoSession /\ attached' = NoSession
  /\ connected' = FALSE
  /\ UNCHANGED <<daemonVars, mode, overlay>>

TuiNext ==
  \/ CreateSession
  \/ \E i \in 1 .. created :
       \/ DeleteSession(i) \/ ScreenChanged(i)
       \/ \E kind \in States \cup {"created"} : DrainEvent(i, kind)
  \/ Connect \/ Disconnect
  \/ Leave \/ Move \/ ReconnectKey \/ CloseOverlay \/ Submit \/ FocusSelected
  \/ QuitKey
  \/ \E what \in {"form", "details"} : OpenOverlay(what)

TuiSpec == TuiInit /\ [][TuiNext]_tuiVars

-----------------------------------------------------------------------------
(* Properties *)

(* No key goes to a session other than the one in the pane, however the list,
   the selection and the connection changed since it was attached. *)
KeysGoToScreen == KeysGoTo # NoSession => screen = KeysGoTo

(* The selection stays on its session as sessions come, go and are listed again:
   only a key, a new UI or the end of that session moves it. *)
SelectionFollows ==
  [][list' # list /\ list' # <<>> =>
       /\ selected' \in DOMAIN list'
       /\ SelectedId \in Ids(list') => list'[selected'].id = SelectedId]_tuiVars
=============================================================================
