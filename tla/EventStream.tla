----------------------------- MODULE EventStream -----------------------------
(***************************************************************************)
(* One client's connection: the event bus, the task that serves the        *)
(* connection, the socket, and the client library on the other end         *)
(* (events.rs, handle_client of main.rs, cli/src/lib.rs).                  *)
(*                                                                         *)
(* Requests, responses and events share the socket.  A frame is written    *)
(* and read in two parts, the length and the payload.  Both readers can be *)
(* cancelled in between, the daemon's by select! and the client's by a     *)
(* timeout around next_event, and what was read is then lost: the next     *)
(* read takes text for a length, which is always more than a frame may     *)
(* have (the first of its bytes is no control character), and fails.       *)
(***************************************************************************)
EXTENDS Naturals, Sequences

CONSTANTS
  Capacity,      \* of the broadcast buffer: 128 in the code
  MaxWire        \* parts of frames the socket holds towards the client

ASSUME StreamAssumption == Capacity \in Nat \ {0} /\ MaxWire \in Nat \ {0}

VARIABLES
  task,          \* the connection's task, and what its loop is at
  out,           \* the request it works on, or the frame it writes
  subscribed,    \* it holds a receiver of the bus
  queue,         \* events that receiver has not taken yet
  lagged,        \* history: some were overwritten since it subscribed
  up, down,      \* parts on the socket, towards the daemon and the client
  torn,          \* directions whose reader has lost part of a frame
  call,          \* the library call the client is in
  half,          \* it has read the length of a frame
  pending        \* events that came while it waited for a response

busVars == <<subscribed, queue, lagged>>
taskVars == <<task, out>>
callVars == <<call, half, pending>>
streamVars == <<busVars, taskVars, up, down, torn, callVars>>

Frame(kind, body) == [kind |-> kind, body |-> body]
Asking(r) == Frame("request", [for |-> r])
Prefix == Frame("prefix", [for |-> "any"])
Nothing == Frame("nothing", [for |-> "none"])

Disconnected ==
  /\ task' = "none" /\ out' = Nothing
  /\ subscribed' = FALSE /\ queue' = <<>> /\ lagged' = FALSE
  /\ up' = <<>> /\ down' = <<>> /\ torn' = {}
  /\ call' = "none" /\ half' = FALSE /\ pending' = <<>>

StreamInit ==
  /\ task = "none" /\ out = Nothing
  /\ subscribed = FALSE /\ queue = <<>> /\ lagged = FALSE
  /\ up = <<>> /\ down = <<>> /\ torn = {}
  /\ call = "none" /\ half = FALSE /\ pending = <<>>

-----------------------------------------------------------------------------
(* The bus: the oldest event makes room, and the receiver's Lagged error is
   passed over by the task. *)

PublishMutant(e) ==             \* one event too many
  /\ IF ~subscribed THEN UNCHANGED busVars
     ELSE /\ queue' = IF Len(queue) > Capacity THEN Append(Tail(queue), e)
                      ELSE Append(queue, e)
          /\ lagged' = (lagged \/ Len(queue) > Capacity)
          /\ UNCHANGED subscribed
  /\ UNCHANGED <<taskVars, up, down, torn, callVars>>

Publish(e) ==
  /\ IF ~subscribed THEN UNCHANGED busVars
     ELSE /\ queue' = IF Len(queue) = Capacity THEN Append(Tail(queue), e)
                      ELSE Append(queue, e)
          /\ lagged' = (lagged \/ Len(queue) = Capacity)
          /\ UNCHANGED subscribed
  /\ UNCHANGED <<taskVars, up, down, torn, callVars>>

-----------------------------------------------------------------------------
(* The daemon's end: a loop around select! *)

ReadPrefix ==
  /\ task = "select"
  /\ up # <<>> /\ "up" \notin torn
  /\ task' = "half"
  /\ up' = Tail(up)
  /\ UNCHANGED <<out, busVars, down, torn, callVars>>

(* The subscription starts before the request is handled. *)
ReadPayload ==
  /\ task = "half"
  /\ up # <<>>
  /\ task' = "busy"
  /\ out' = Head(up)
  /\ up' = Tail(up)
  /\ IF Head(up).body.for = "subscribe"
     THEN subscribed' = TRUE /\ queue' = <<>> /\ lagged' = FALSE
     ELSE UNCHANGED busVars
  /\ UNCHANGED <<down, torn, callVars>>

CloseTask ==
  /\ task' = "closed" /\ out' = Nothing
  /\ subscribed' = FALSE /\ queue' = <<>>
  /\ up' = <<>>
  /\ UNCHANGED <<lagged, down, torn, callVars>>

ReadTornMutant ==               \* takes the payload for noise and reads on
  /\ task = "select"
  /\ up # <<>> /\ "up" \in torn
  /\ up' = Tail(up)
  /\ torn' = torn \ {"up"}
  /\ UNCHANGED <<taskVars, busVars, down, callVars>>

ReadTorn ==
  /\ task = "select"
  /\ up # <<>> /\ "up" \in torn
  /\ CloseTask

ForwardEvent ==
  /\ task \in {"select", "half"}
  /\ queue # <<>>
  /\ out' = Frame("event", Head(queue))
  /\ queue' = Tail(queue)
  /\ torn' = IF task = "half" THEN torn \cup {"up"} ELSE torn
  /\ task' = "head"
  /\ UNCHANGED <<subscribed, lagged, up, down, callVars>>

Respond(body) ==
  /\ out' = Frame("response", body)
  /\ task' = "head"
  /\ UNCHANGED <<busVars, up, down, torn, callVars>>

(* Nothing cancels a write: a client that does not read holds the task here. *)
Write ==
  /\ Len(down) < MaxWire
  /\ \/ task = "head" /\ task' = "body" /\ down' = Append(down, Prefix)
        /\ UNCHANGED out
     \/ task = "body" /\ task' = "select" /\ down' = Append(down, out)
        /\ out' = Nothing
  /\ UNCHANGED <<busVars, up, torn, callVars>>

-----------------------------------------------------------------------------
(* The client's end *)

Open ==
  /\ task = "none"
  /\ task' = "select"
  /\ call' = "head"
  /\ UNCHANGED <<out, busVars, up, down, torn, half, pending>>

SendRequest(r) ==
  /\ task # "closed"
  /\ \/ call = "head" /\ call' = "body" /\ up' = Append(up, Prefix)
     \/ call = "body" /\ call' = "wait" /\ up' = Append(up, Asking(r))
  /\ UNCHANGED <<taskVars, busVars, down, torn, half, pending>>

Reading == call = "wait" \/ (call = "next" /\ pending = <<>>)

TakePrefix ==
  /\ Reading /\ ~half
  /\ down # <<>> /\ "down" \notin torn
  /\ half' = TRUE
  /\ down' = Tail(down)
  /\ UNCHANGED <<taskVars, busVars, up, torn, call, pending>>

(* The payload of the frame begun. *)
Arrived(kind) == Reading /\ half /\ down # <<>> /\ Head(down).kind = kind

KeepEventMutant ==              \* request drops the events it reads
  /\ call = "wait" /\ Arrived("event")
  /\ half' = FALSE
  /\ down' = Tail(down)
  /\ UNCHANGED <<taskVars, busVars, up, torn, call, pending>>

KeepEvent ==
  /\ call = "wait" /\ Arrived("event")
  /\ pending' = Append(pending, Head(down).body)
  /\ half' = FALSE
  /\ down' = Tail(down)
  /\ UNCHANGED <<taskVars, busVars, up, torn, call>>

(* The first response ends the request: no id is compared. *)
TakeResponse(after) ==
  /\ call = "wait" /\ Arrived("response")
  /\ call' = after
  /\ half' = FALSE
  /\ down' = Tail(down)
  /\ UNCHANGED <<taskVars, busVars, up, torn, pending>>

(* next_event answers e, and the caller goes on to another call. *)
NextEvent(e, after) ==
  /\ call = "next"
  /\ \/ /\ pending # <<>>
        /\ e = Head(pending)
        /\ pending' = Tail(pending)
        /\ UNCHANGED <<down, half>>
     \/ /\ Arrived("event")
        /\ e = Head(down).body
        /\ down' = Tail(down)
        /\ half' = FALSE
        /\ UNCHANGED pending
  /\ call' = after
  /\ UNCHANGED <<taskVars, busVars, up, torn>>

TimeoutMutant ==                \* also cuts a request made in between
  /\ call \in {"next", "wait"} /\ pending = <<>>
  /\ down = <<>> /\ task # "closed"
  /\ call' = "none"
  /\ half' = FALSE
  /\ torn' = IF half THEN torn \cup {"down"} ELSE torn
  /\ UNCHANGED <<taskVars, busVars, up, down, pending>>

(* A millisecond without what next_event waits for. *)
Timeout ==
  /\ call = "next" /\ pending = <<>>
  /\ down = <<>> /\ task # "closed"
  /\ call' = "none"
  /\ half' = FALSE
  /\ torn' = IF half THEN torn \cup {"down"} ELSE torn
  /\ UNCHANGED <<taskVars, busVars, up, down, pending>>

(* A read or a write that fails: out of step, at the end of the stream, or with
   nobody at the other end. *)
Broken ==
  \/ Reading /\ down # <<>> /\ "down" \in torn
  \/ Reading /\ down = <<>> /\ task = "closed"
  \/ call \in {"head", "body"} /\ task = "closed"
=============================================================================
