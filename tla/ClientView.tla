----------------------------- MODULE ClientView -----------------------------
(***************************************************************************)
(* The list of sessions the terminal UI shows, and the daemon's rows it is *)
(* a picture of (tui/src/main.rs over EventStream).                        *)
(*                                                                         *)
(* The UI subscribes, lists, and from then on applies events.  A change    *)
(* and its event are two steps in the daemon, and some changes have none:  *)
(* restart, delete, and the rollback of a create.                          *)
(***************************************************************************)
EXTENDS EventStream

CONSTANTS
  Sessions,
  MaxTurns       \* bound on what may happen for ever: keys, resizes, restarts,
                 \* changes of a screen, stops of the daemon

ASSUME ViewAssumption == MaxTurns \in Nat

VARIABLES
  rows,          \* rows[s]: the state of session s in the daemon's storage
  stage,         \* stage[s]: how far the create handler of s is
  polled,        \* sessions the poller has found dead and not marked yet
  say,           \* events not published yet, of each create and the poller
  unannounced,   \* history: sessions changed without a word since subscribe
  doing,         \* what the UI is at: off, a request, idle or drain
  shown,         \* shown[s]: the lines of the list that show s
  turns          \* how many of those there were

rowVars == <<rows, stage, polled, say, unannounced>>
uiVars == <<doing, shown>>
vars == <<streamVars, rowVars, uiVars, turns>>

Turn == turns < MaxTurns /\ turns' = turns + 1

Gone == {"absent", "deleted"}
RowStates == Gone \cup {"creating", "starting", "running", "exited"}
Event(s, state) == [id |-> s, state |-> state]
Poller == "poller"
Speakers == Sessions \cup {Poller}

(* What ListSessions answers for s. *)
Listed(s) == IF rows[s] \in Gone THEN <<>> ELSE <<rows[s]>>

Init ==
  /\ StreamInit
  /\ rows = [s \in Sessions |-> "absent"]
  /\ stage = [s \in Sessions |-> "none"]
  /\ polled = {}
  /\ say = [a \in Speakers |-> <<>>]
  /\ unannounced = {}
  /\ doing = "off"
  /\ shown = [s \in Sessions |-> <<>>]
  /\ turns = 0

-----------------------------------------------------------------------------
(* The daemon's rows.  A write does not touch a row that is gone, and the event
   goes out all the same. *)

Written(s, state) == IF rows[s] \in Gone THEN rows ELSE [rows EXCEPT ![s] = state]

Unsaid == <<polled, unannounced>>

Insert(s) ==
  /\ stage[s] = "none"
  /\ rows' = [rows EXCEPT ![s] = "creating"]
  /\ stage' = [stage EXCEPT ![s] = "insert"]
  /\ say' = [say EXCEPT ![s] = <<Event(s, "created")>>]
  /\ UNCHANGED Unsaid

MoveOn(s, from, to, state) ==
  /\ stage[s] = from
  /\ say[s] = <<>>
  /\ rows' = Written(s, state)
  /\ stage' = [stage EXCEPT ![s] = to]
  /\ say' = [say EXCEPT ![s] = <<Event(s, state)>>]
  /\ UNCHANGED Unsaid

Rollback(s) ==
  /\ stage[s] \in {"insert", "start"}
  /\ say[s] = <<>>
  /\ rows' = [rows EXCEPT ![s] = "absent"]
  /\ stage' = [stage EXCEPT ![s] = "failed"]
  /\ unannounced' = unannounced \cup {s}
  /\ UNCHANGED <<polled, say>>

CreateSteps(s) ==
  \/ MoveOn(s, "insert", "start", "starting")
  \/ MoveOn(s, "start", "run", "running")
  \/ Rollback(s)

(* The poller lists the rows, and marks those whose window it missed. *)
Poll ==
  /\ polled = {} /\ say[Poller] = <<>>
  /\ \E dead \in SUBSET {s \in Sessions : rows[s] = "running"} : polled' = dead
  /\ UNCHANGED <<rows, stage, say, unannounced>>

Mark(s) ==
  /\ s \in polled /\ say[Poller] = <<>>
  /\ polled' = polled \ {s}
  /\ rows' = Written(s, "exited")
  /\ say' = [say EXCEPT ![Poller] = <<Event(s, "exited")>>]
  /\ UNCHANGED <<stage, unannounced>>

Restart(s) ==
  /\ rows[s] \notin Gone
  /\ rows' = [rows EXCEPT ![s] = "running"]
  /\ unannounced' = unannounced \cup {s}
  /\ UNCHANGED <<stage, polled, say>>

Delete(s) ==
  /\ rows[s] \notin Gone
  /\ rows' = [rows EXCEPT ![s] = "deleted"]
  /\ unannounced' = unannounced \cup {s}
  /\ UNCHANGED <<stage, polled, say>>

(* The state an event announces. *)
Announced(e) == IF e.state = "created" THEN "creating" ELSE e.state

(* An event that says what the row says makes good for what went unsaid. *)
Announce(a) ==
  /\ say[a] # <<>>
  /\ LET e == Head(say[a])
     IN /\ Publish(e)
        /\ unannounced' = IF Announced(e) = rows[e.id] THEN unannounced \ {e.id}
                          ELSE unannounced \cup {e.id}
  /\ say' = [say EXCEPT ![a] = <<>>]
  /\ UNCHANGED <<rows, stage, polled>>

ScreenChange(s) ==
  /\ rows[s] = "running"
  /\ Publish(Event(s, "screen"))
  /\ UNCHANGED rowVars

Daemon ==
  /\ \/ /\ \/ \E s \in Sessions : Insert(s) \/ CreateSteps(s) \/ Mark(s)
                                  \/ Delete(s)
           \/ Poll
        /\ UNCHANGED <<streamVars, turns>>
     \/ (\E s \in Sessions : Restart(s)) /\ Turn /\ UNCHANGED streamVars
     \/ (\E a \in Speakers : Announce(a)) /\ UNCHANGED turns
     \/ (\E s \in Sessions : ScreenChange(s)) /\ Turn
  /\ UNCHANGED uiVars

-----------------------------------------------------------------------------
(* The connection's requests, as the daemon handles them *)

Plain == {"version", "subscribe", "list", "resize", "capture"}
Requests == Plain \cup Sessions           \* a create asks for a session by name

(* A session's id is none of the model's own words. *)
ASSUME SessionsAssumption ==
  Sessions \cap (Plain \cup {"off", "idle", "drain", "poller"}) = {}

Answer(r, listed) == [for |-> r, listed |-> listed]
NoSessions == [s \in Sessions |-> <<>>]

Reply ==
  /\ task = "busy" /\ out.body.for \in Plain
  /\ Respond(Answer(out.body.for, IF out.body.for = "list" THEN [s \in Sessions |-> Listed(s)]
                              ELSE NoSessions))
  /\ UNCHANGED rowVars

(* The handler runs in this task; its steps are those of any create. *)
ReplyCreate(s) ==
  /\ task \in {"busy", "create"} /\ out.body.for = s
  /\ \/ /\ task = "busy" /\ stage[s] = "none"
        /\ Insert(s)
        /\ task' = "create"
        /\ UNCHANGED <<out, busVars, up, down, torn, callVars>>
     \/ /\ task = "busy" /\ stage[s] # "none"
        /\ Respond(Answer(s, NoSessions))
        /\ UNCHANGED rowVars
     \/ /\ task = "create" /\ stage[s] \in {"run", "failed"} /\ say[s] = <<>>
        /\ Respond(Answer(s, IF stage[s] = "failed" THEN NoSessions
                             ELSE [NoSessions EXCEPT ![s] = <<"running">>]))
        /\ UNCHANGED rowVars

Handler ==
  /\ Reply \/ \E s \in Sessions : ReplyCreate(s)
  /\ UNCHANGED <<uiVars, turns>>

Connection ==
  /\ ReadPrefix \/ ReadPayload \/ ReadTorn \/ ForwardEvent \/ Write
  /\ unannounced' = IF task' = "busy" /\ out'.body.for = "subscribe" THEN {}
                    ELSE unannounced
  /\ UNCHANGED <<rows, stage, polled, say, uiVars, turns>>

(* Shutdown is seen by the loop; the client finds the stream at its end. *)
Stop ==
  /\ task \in {"select", "half"}
  /\ Turn
  /\ CloseTask
  /\ UNCHANGED <<rowVars, uiVars>>

-----------------------------------------------------------------------------
(* The UI: connect, then a loop of a key, a resize and a drain of events *)

Dial ==
  /\ doing = "off"
  /\ Open
  /\ doing' = "version"
  /\ UNCHANGED shown

Ask ==
  /\ doing \in Requests
  /\ SendRequest(doing)
  /\ UNCHANGED uiVars

Begin(next, libraryCall) ==
  /\ doing = "idle"
  /\ doing' = next
  /\ call' = libraryCall
  /\ UNCHANGED <<shown, taskVars, busVars, up, down, torn, half, pending>>

Key == \E s \in Sessions : Begin(s, "head")
Resize == Begin("resize", "head")
Drain == Begin("drain", "next")

Lose == Disconnected /\ doing' = "off" /\ UNCHANGED shown

Reconnect == doing = "idle" /\ Lose                           \* the r key

(* submit_form adds the session it created unless it is there already. *)
Push(listed) ==
  [s \in Sessions |-> IF shown[s] = <<>> THEN listed[s] ELSE shown[s]]

After(request) ==
  CASE request = "version" -> [doing |-> "subscribe", call |-> "head"]
    [] request = "subscribe" -> [doing |-> "list", call |-> "head"]
    [] request = "capture" -> [doing |-> "drain", call |-> "next"]
    [] OTHER -> [doing |-> "idle", call |-> "none"]

Receive ==
  /\ doing \in Requests
  /\ TakeResponse(After(doing).call)
  /\ doing' = After(doing).doing
  /\ LET listed == Head(down).body.listed
     IN shown' = IF doing = "list" THEN listed ELSE Push(listed)

(* What an event does to the lines of its session: apply_event. *)
ApplyMutant(e) ==                  \* a created session is pushed
  LET lines == shown[e.id]
  IN CASE e.state = "created" -> [shown EXCEPT ![e.id] = Append(lines, "creating")]
       [] e.state = "screen" -> shown
       [] OTHER -> [shown EXCEPT ![e.id] = IF lines = <<>> THEN lines
                                           ELSE <<e.state>> \o Tail(lines)]

Apply(e) ==
  LET lines == shown[e.id]
  IN CASE e.state = "created" -> [shown EXCEPT ![e.id] =
                                    <<"creating">> \o
                                    (IF lines = <<>> THEN lines ELSE Tail(lines))]
       [] e.state = "screen" -> shown
       [] OTHER -> [shown EXCEPT ![e.id] = IF lines = <<>> THEN lines
                                           ELSE <<e.state>> \o Tail(lines)]

(* The screen of the session in the pane is fetched in the middle of it. *)
Update ==
  /\ doing = "drain"
  /\ \E e \in {Event(s, st) : s \in Sessions,
                 st \in {"created", "starting", "running", "exited", "screen"}} :
       /\ shown' = Apply(e)
       /\ \/ NextEvent(e, "next") /\ UNCHANGED doing
          \/ e.state = "screen" /\ NextEvent(e, "head") /\ doing' = "capture"

DrainEnds ==
  /\ Timeout
  /\ doing' = "idle"
  /\ UNCHANGED shown

Read ==
  /\ TakePrefix \/ KeepEvent
  /\ UNCHANGED uiVars

(* Only the answer to a resize is ignored when it is an error. *)
GiveUp ==
  /\ Broken
  /\ IF doing # "resize" THEN Lose
     ELSE /\ doing' = "idle" /\ call' = "none" /\ half' = FALSE
          /\ UNCHANGED <<shown, taskVars, busVars, up, down, torn, pending>>

UI ==
  /\ \/ (Key \/ Resize \/ Reconnect) /\ Turn
     \/ /\ Dial \/ Ask \/ Drain \/ Receive \/ Update \/ DrainEnds \/ Read \/ GiveUp
        /\ UNCHANGED turns
  /\ UNCHANGED rowVars

Next == Daemon \/ Handler \/ Connection \/ Stop \/ UI

Spec == Init /\ [][Next]_vars

(* Handlers and the connection's task never wait for anything but the socket,
   and a UI that waits for an answer reads; nothing makes a key be pressed. *)
Fairness ==
  /\ WF_vars(Connection) /\ WF_vars(Handler)
  /\ \A s \in Sessions : WF_vars(CreateSteps(s) /\ UNCHANGED <<streamVars, uiVars, turns>>)
  /\ \A a \in Speakers : WF_vars(Announce(a) /\ UNCHANGED <<uiVars, turns>>)
  /\ WF_vars((Ask \/ Receive \/ Read \/ GiveUp) /\ UNCHANGED <<rowVars, turns>>)

FairSpec == Spec /\ Fairness

-----------------------------------------------------------------------------
(* Properties *)

TypeOK ==
  /\ rows \in [Sessions -> RowStates]
  /\ doing \in Requests \cup {"off", "idle", "drain"}
  /\ call \in {"none", "head", "body", "wait", "next"}
  /\ task \in {"none", "select", "half", "busy", "create", "head", "body", "closed"}
  /\ Len(queue) <= Capacity /\ Len(down) <= MaxWire
  /\ shown \in [Sessions -> Seq(RowStates)]

(* A session has one line, however it came to the list: from the listing, from
   its event, or from the form that created it. *)
NoRowTwice == \A s \in Sessions : Len(shown[s]) <= 1

(* No id is compared, and still a request takes the answer to itself: none
   arrives out of turn, not even one that next_event would have to discard. *)
AnswersMatch ==
  Arrived("response") => call = "wait" /\ Head(down).body.for = doing

(* Once everything said has arrived, the list shows each session as it is,
   unless events were overwritten or its last change was not announced. *)
Drained ==
  /\ doing = "idle" /\ subscribed /\ task = "select"
  /\ queue = <<>> /\ down = <<>> /\ pending = <<>> /\ "down" \notin torn
  /\ \A a \in Speakers : say[a] = <<>>
ViewIsRow ==
  Drained /\ ~lagged =>
    \A s \in Sessions \ unannounced : shown[s] = Listed(s)

(* A request ends, with an answer or with the connection. *)
RequestEnds == call = "wait" ~> call # "wait"
=============================================================================
