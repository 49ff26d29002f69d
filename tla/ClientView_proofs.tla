------------------------- MODULE ClientView_proofs -------------------------
(***************************************************************************)
(* Proofs about ClientView for any sessions, buffer, socket and turns.     *)
(*                                                                         *)
(* No session is listed twice because none is in any listing on its way:   *)
(* ViewInv types every frame on the socket, and in a response the lines of *)
(* each session are one at most.  A request gets its answer because        *)
(* AnswerInv knows where the one request is; and the list is the rows once *)
(* all is quiet because RowInv knows, at any time, what the events on      *)
(* their way will make of it.                                              *)
(***************************************************************************)
EXTENDS ClientView, FiniteSetTheorems, SequenceTheorems, WellFoundedInduction, TLAPS

Events == [id : Sessions,
           state : {"created", "starting", "running", "exited", "screen"}]

Lines == {q \in Seq(RowStates) : Len(q) <= 1}
Lists == [Sessions -> Lines]

Prefixes == [kind : {"prefix"}, body : [for : {"any"}]]
Asked == Prefixes \cup [kind : {"request"}, body : [for : Requests]]
EventFrames == [kind : {"event"}, body : Events]
Answers == [kind : {"response"}, body : [for : Requests, listed : Lists]]
Said == EventFrames \cup Answers

RowTypes ==
  /\ rows \in [Sessions -> RowStates]
  /\ say \in [Speakers -> Seq(Events)]

TaskTypes ==
  /\ task \in {"none", "select", "half", "busy", "create", "head", "body", "closed"}
  /\ task \in {"head", "body"} => out \in Said
  /\ queue \in Seq(Events) /\ Len(queue) <= Capacity

WireTypes ==
  /\ up \in Seq(Asked)
  /\ down \in Seq(Said \cup Prefixes) /\ Len(down) <= MaxWire

ClientTypes ==
  /\ call \in {"none", "head", "body", "wait", "next"}
  /\ pending \in Seq(Events)
  /\ doing \in Requests \cup {"off", "idle", "drain"}
  /\ shown \in Lists

ViewInv == RowTypes /\ TaskTypes /\ WireTypes /\ ClientTypes

-----------------------------------------------------------------------------
(* Sequences: what is put in and taken out *)

LEMMA Queues ==
  ASSUME NEW S, NEW q \in Seq(S)
  PROVE  /\ Len(q) \in Nat
         /\ q # <<>> => /\ Head(q) \in S
                        /\ Tail(q) \in Seq(S)
                        /\ Len(Tail(q)) = Len(q) - 1
                        /\ Len(q) >= 1
         /\ \A e \in S : /\ Append(q, e) \in Seq(S)
                         /\ Len(Append(q, e)) = Len(q) + 1
         /\ <<>> \in Seq(S) /\ Len(<<>>) = 0
<1>1. Len(q) \in Nat
  BY LenProperties
<1>2. ASSUME q # <<>>
      PROVE  Head(q) \in S /\ Tail(q) \in Seq(S) /\ Len(Tail(q)) = Len(q) - 1
             /\ Len(q) >= 1
  BY <1>2, <1>1, HeadTailProperties, EmptySeq
<1>3. ASSUME NEW e \in S
      PROVE  Append(q, e) \in Seq(S) /\ Len(Append(q, e)) = Len(q) + 1
  BY AppendProperties
<1>4. <<>> \in Seq(S) /\ Len(<<>>) = 0
  BY EmptySeq
<1> QED BY <1>1, <1>2, <1>3, <1>4

(* What a line may be. *)
LEMMA OneLine ==
  /\ <<>> \in Lines
  /\ \A r \in RowStates : <<r>> \in Lines
  /\ \A r \in RowStates, q \in Lines :
       q # <<>> => <<r>> \o Tail(q) \in Lines
<1>1. <<>> \in Lines
  BY EmptySeq DEF Lines
<1>2. ASSUME NEW r \in RowStates
      PROVE  <<r>> \in Seq(RowStates) /\ Len(<<r>>) = 1
  OBVIOUS
<1>3. ASSUME NEW r \in RowStates, NEW q \in Lines, q # <<>>
      PROVE  <<r>> \o Tail(q) \in Lines
  <2>1. q \in Seq(RowStates) /\ Len(q) <= 1
    BY DEF Lines
  <2>2. /\ Tail(q) \in Seq(RowStates)
        /\ Len(Tail(q)) = Len(q) - 1
        /\ Len(q) \in Nat
    BY <1>3, <2>1, Queues
  <2>3. /\ <<r>> \o Tail(q) \in Seq(RowStates)
        /\ Len(<<r>> \o Tail(q)) = Len(<<r>>) + Len(Tail(q))
    BY <1>2, <2>2, ConcatProperties
  <2> QED BY <1>2, <2>1, <2>2, <2>3 DEF Lines
<1> QED BY <1>1, <1>2, <1>3 DEF Lines

(* An event of a session leaves it the lines it had, or gives it one. *)
LEMMA ApplyLists ==
  ASSUME NEW e \in Events, shown \in Lists
  PROVE  Apply(e) \in Lists
<1>1. shown[e.id] \in Lines /\ e.id \in Sessions
  BY DEF Lists, Events
<1>2. "creating" \in RowStates
  BY DEF RowStates
<1>3. CASE e.state = "created"
  <2>1. <<"creating">> \o <<>> = <<"creating">>
    OBVIOUS
  <2>2. <<"creating">> \o (IF shown[e.id] = <<>> THEN shown[e.id]
                           ELSE Tail(shown[e.id])) \in Lines
    BY <1>1, <1>2, <2>1, OneLine
  <2> QED BY <1>3, <2>2 DEF Apply, Lists
<1>4. CASE e.state = "screen"
  BY <1>4 DEF Apply
<1>5. CASE e.state \notin {"created", "screen"}
  <2>1. e.state \in RowStates
    BY <1>5 DEF Events, RowStates
  <2>2. (IF shown[e.id] = <<>> THEN shown[e.id]
         ELSE <<e.state>> \o Tail(shown[e.id])) \in Lines
    BY <1>1, <2>1, OneLine
  <2> QED BY <1>5, <2>2 DEF Apply, Lists
<1> QED BY <1>3, <1>4, <1>5

LEMMA ListsMade ==
  /\ NoSessions \in Lists
  /\ \A s \in Sessions : [NoSessions EXCEPT ![s] = <<"running">>] \in Lists
  /\ RowTypes => [s \in Sessions |-> Listed(s)] \in Lists
  /\ shown \in Lists => \A l \in Lists : Push(l) \in Lists
<1>1. NoSessions \in Lists
  BY OneLine DEF NoSessions, Lists
<1>2. <<"running">> \in Lines
  BY OneLine DEF RowStates
<1>3. ASSUME RowTypes, NEW s \in Sessions PROVE Listed(s) \in Lines
  BY <1>3, OneLine DEF RowTypes, Listed
<1>4. [s \in Sessions |-> Listed(s)] \in Lists <=>
        \A s \in Sessions : Listed(s) \in Lines
  BY DEF Lists
<1>5. ASSUME shown \in Lists, NEW l \in Lists PROVE Push(l) \in Lists
  BY <1>5 DEF Push, Lists
<1> QED BY <1>1, <1>2, <1>3, <1>4, <1>5 DEF Lists

LEMMA FrameTypes ==
  /\ Prefix \in Prefixes
  /\ \A r \in Requests : Asking(r) \in Asked
  /\ \A e \in Events : Frame("event", e) \in Said
  /\ \A r \in Requests, l \in Lists : Frame("response", Answer(r, l)) \in Said
  /\ \A f \in Said \cup Prefixes :
       /\ f.kind = "event" => f.body \in Events
       /\ f.kind = "response" => f.body.listed \in Lists
  /\ \A s \in Sessions, state \in {"created", "starting", "running", "exited", "screen"} :
       Event(s, state) \in Events
<1>1. Prefix \in Prefixes
  BY DEF Prefix, Prefixes, Frame
<1>2. \A r \in Requests : Asking(r) \in Asked
  BY DEF Asking, Asked, Frame
<1>3. \A e \in Events : Frame("event", e) \in Said
  BY DEF Said, EventFrames, Frame
<1>4. ASSUME NEW r \in Requests, NEW l \in Lists
      PROVE  Frame("response", Answer(r, l)) \in Said
  <2>1. Answer(r, l) \in [for : Requests, listed : Lists]
    BY DEF Answer
  <2> QED BY <2>1 DEF Said, Answers, Frame
<1>5. ASSUME NEW f \in Said \cup Prefixes
      PROVE  /\ f.kind = "event" => f.body \in Events
             /\ f.kind = "response" => f.body.listed \in Lists
  BY DEF Said, EventFrames, Answers, Prefixes
<1>6. \A s \in Sessions, state \in {"created", "starting", "running", "exited", "screen"} :
        Event(s, state) \in Events
  BY DEF Event, Events
<1> QED BY <1>1, <1>2, <1>3, <1>4, <1>5, <1>6

(* What a step does not touch keeps its type. *)
LEMMA Kept ==
  ASSUME ViewInv
  PROVE  /\ UNCHANGED <<rows, say>> => RowTypes'
         /\ UNCHANGED <<task, out, queue>> => TaskTypes'
         /\ UNCHANGED <<up, down>> => WireTypes'
         /\ UNCHANGED <<call, pending, doing, shown>> => ClientTypes'
<1>1. UNCHANGED <<rows, say>> => RowTypes'
  BY DEF ViewInv, RowTypes
<1>2. UNCHANGED <<task, out, queue>> => TaskTypes'
  BY DEF ViewInv, TaskTypes
<1>3. UNCHANGED <<up, down>> => WireTypes'
  BY DEF ViewInv, WireTypes
<1>4. UNCHANGED <<call, pending, doing, shown>> => ClientTypes'
  BY DEF ViewInv, ClientTypes
<1> QED BY <1>1, <1>2, <1>3, <1>4

LEMMA ViewInit == Init => ViewInv
<1> SUFFICES ASSUME Init PROVE ViewInv
  OBVIOUS
<1> USE DEF Init, StreamInit
<1>1. RowTypes
  BY EmptySeq DEF RowTypes, RowStates, Gone
<1>2. TaskTypes
  BY EmptySeq, StreamAssumption DEF TaskTypes
<1>3. WireTypes
  BY EmptySeq, StreamAssumption DEF WireTypes
<1>4. ClientTypes
  BY EmptySeq, OneLine DEF ClientTypes, Lists
<1> QED BY <1>1, <1>2, <1>3, <1>4 DEF ViewInv

-----------------------------------------------------------------------------
(* The daemon's rows and events *)

LEMMA PublishTypes ==
  ASSUME ViewInv, NEW e \in Events, Publish(e)
  PROVE  TaskTypes' /\ UNCHANGED <<up, down, call, pending>>
<1>1. /\ queue \in Seq(Events) /\ Len(queue) <= Capacity /\ Capacity \in Nat \ {0}
  BY StreamAssumption DEF ViewInv, TaskTypes
<1>2. CASE queue' = queue
  BY <1>2 DEF Publish, taskVars, ViewInv, TaskTypes, callVars
<1>3. CASE Len(queue) = Capacity /\ queue' = Append(Tail(queue), e)
  <2>1. queue # <<>>
    BY <1>1, <1>3, EmptySeq
  <2>2. Tail(queue) \in Seq(Events) /\ Len(Tail(queue)) = Len(queue) - 1
    BY <1>1, <2>1, Queues
  <2>3. queue' \in Seq(Events) /\ Len(queue') = Len(Tail(queue)) + 1
    BY <1>3, <2>2, Queues
  <2>4. Len(queue') <= Capacity
    BY <1>1, <1>3, <2>2, <2>3
  <2> QED BY <2>3, <2>4 DEF Publish, taskVars, ViewInv, TaskTypes, callVars
<1>4. CASE Len(queue) # Capacity /\ queue' = Append(queue, e)
  <2>1. queue' \in Seq(Events) /\ Len(queue') = Len(queue) + 1 /\ Len(queue) \in Nat
    BY <1>1, <1>4, Queues
  <2>2. Len(queue') <= Capacity
    BY <1>1, <1>4, <2>1
  <2> QED BY <2>1, <2>2 DEF Publish, taskVars, ViewInv, TaskTypes, callVars
<1> QED BY <1>2, <1>3, <1>4 DEF Publish, busVars

LEMMA RowWrites ==
  ASSUME ViewInv, NEW s \in Sessions, NEW state \in RowStates
  PROVE  Written(s, state) \in [Sessions -> RowStates]
BY DEF Written, ViewInv, RowTypes

LEMMA SaidEvents ==
  ASSUME ViewInv, NEW a \in Speakers, NEW e \in Events
  PROVE  [say EXCEPT ![a] = <<e>>] \in [Speakers -> Seq(Events)]
<1>1. <<e>> \in Seq(Events)
  OBVIOUS
<1> QED BY <1>1 DEF ViewInv, RowTypes

LEMMA RowSteps ==
  ASSUME ViewInv, NEW s \in Sessions,
         Insert(s) \/ CreateSteps(s) \/ Mark(s) \/ Delete(s) \/ Poll \/ Restart(s)
  PROVE  RowTypes'
<1>s. s \in Speakers /\ Poller \in Speakers
  BY DEF Speakers
<1>r. {"creating", "starting", "running", "exited", "absent", "deleted"} \subseteq RowStates
  BY DEF RowStates, Gone
<1>t. /\ rows \in [Sessions -> RowStates]
      /\ say \in [Speakers -> Seq(Events)]
  BY DEF ViewInv, RowTypes
<1>e. \A state \in {"created", "starting", "running", "exited", "screen"} :
        Event(s, state) \in Events
  BY FrameTypes
<1>1. CASE Insert(s)
  BY <1>1, <1>s, <1>r, <1>t, <1>e, SaidEvents DEF Insert, RowTypes
<1>2. CASE MoveOn(s, "insert", "start", "starting")
  BY <1>2, <1>s, <1>r, <1>e, SaidEvents, RowWrites DEF MoveOn, RowTypes
<1>3. CASE MoveOn(s, "start", "run", "running")
  BY <1>3, <1>s, <1>r, <1>e, SaidEvents, RowWrites DEF MoveOn, RowTypes
<1>4. CASE Rollback(s)
  BY <1>4, <1>r, <1>t DEF Rollback, RowTypes
<1>5. CASE Mark(s)
  BY <1>5, <1>s, <1>r, <1>e, SaidEvents, RowWrites DEF Mark, RowTypes
<1>6. CASE Delete(s)
  BY <1>6, <1>r, <1>t DEF Delete, RowTypes
<1>7. CASE Poll
  BY <1>7, <1>t DEF Poll, RowTypes
<1>8. CASE Restart(s)
  BY <1>8, <1>r, <1>t DEF Restart, RowTypes
<1> QED BY <1>1, <1>2, <1>3, <1>4, <1>5, <1>6, <1>7, <1>8 DEF CreateSteps

LEMMA DaemonTypes ==
  ASSUME ViewInv, Daemon PROVE ViewInv'
<1> USE DEF streamVars, busVars, taskVars, callVars, uiVars, rowVars
<1>u. UNCHANGED <<doing, shown>>
  BY DEF Daemon
<1>1. ASSUME NEW s \in Sessions,
             Insert(s) \/ CreateSteps(s) \/ Mark(s) \/ Delete(s) \/ Restart(s),
             UNCHANGED streamVars
      PROVE  ViewInv'
  BY <1>1, <1>u, RowSteps, Kept DEF ViewInv
<1>2. CASE Poll /\ UNCHANGED streamVars
  <2>1. UNCHANGED <<rows, say>>
    BY <1>2 DEF Poll
  <2> QED BY <1>2, <1>u, <2>1, Kept DEF ViewInv
<1>3. ASSUME NEW a \in Speakers, Announce(a)
      PROVE  ViewInv'
  <2>1. say \in [Speakers -> Seq(Events)] /\ say[a] # <<>>
    BY <1>3 DEF Announce, ViewInv, RowTypes
  <2>2. Head(say[a]) \in Events
    BY <2>1, Queues
  <2>3. Publish(Head(say[a]))
    BY <1>3 DEF Announce
  <2>4. TaskTypes' /\ UNCHANGED <<up, down, call, pending>>
    BY <2>2, <2>3, PublishTypes
  <2>5. <<>> \in Seq(Events)
    BY EmptySeq
  <2>6. RowTypes'
    BY <1>3, <2>1, <2>5 DEF Announce, RowTypes, ViewInv
  <2> QED BY <1>u, <2>4, <2>6, Kept DEF ViewInv
<1>4. ASSUME NEW s \in Sessions, ScreenChange(s)
      PROVE  ViewInv'
  <2>1. Event(s, "screen") \in Events
    BY FrameTypes
  <2>2. TaskTypes' /\ UNCHANGED <<up, down, call, pending, rows, say>>
    BY <1>4, <2>1, PublishTypes DEF ScreenChange
  <2> QED BY <1>u, <2>2, Kept DEF ViewInv
<1> QED BY <1>1, <1>2, <1>3, <1>4 DEF Daemon

-----------------------------------------------------------------------------
(* The connection's task *)

LEMMA ResponseTypes ==
  ASSUME ViewInv, NEW r \in Requests, NEW l \in Lists, Respond(Answer(r, l))
  PROVE  TaskTypes' /\ UNCHANGED <<up, down, call, pending>>
<1>1. out' \in Said
  BY FrameTypes DEF Respond
<1> QED BY <1>1 DEF Respond, TaskTypes, ViewInv, busVars, callVars

LEMMA HandlerTypes ==
  ASSUME ViewInv, Handler PROVE ViewInv'
<1> USE DEF rowVars, uiVars
<1>u. UNCHANGED <<doing, shown>>
  BY DEF Handler
<1>r. Plain \subseteq Requests /\ Sessions \subseteq Requests
  BY DEF Requests
<1>1. CASE Reply
  <2>1. out.body.for \in Requests
    BY <1>1, <1>r DEF Reply
  <2>2. (IF out.body.for = "list" THEN [s \in Sessions |-> Listed(s)]
         ELSE NoSessions) \in Lists
    BY ListsMade DEF ViewInv
  <2>3. TaskTypes' /\ UNCHANGED <<up, down, call, pending>>
    BY <1>1, <2>1, <2>2, ResponseTypes DEF Reply
  <2> QED BY <1>1, <1>u, <2>3, Kept DEF Reply, ViewInv
<1>2. ASSUME NEW s \in Sessions, ReplyCreate(s) PROVE ViewInv'
  <2>1. CASE task' = "create" /\ Insert(s)
             /\ UNCHANGED <<out, busVars, up, down, torn, callVars>>
    <3>1. RowTypes'
      BY <2>1, RowSteps
    <3>2. TaskTypes'
      BY <2>1 DEF TaskTypes, ViewInv, busVars
    <3> QED BY <2>1, <1>u, <3>1, <3>2, Kept DEF ViewInv, callVars
  <2>2. CASE Respond(Answer(s, NoSessions)) /\ UNCHANGED rowVars
    BY <2>2, <1>u, <1>r, ListsMade, ResponseTypes, Kept DEF ViewInv
  <2>3. CASE /\ Respond(Answer(s, IF stage[s] = "failed" THEN NoSessions
                                  ELSE [NoSessions EXCEPT ![s] = <<"running">>]))
             /\ UNCHANGED rowVars
    <3>1. (IF stage[s] = "failed" THEN NoSessions
           ELSE [NoSessions EXCEPT ![s] = <<"running">>]) \in Lists
      BY ListsMade
    <3> QED BY <2>3, <1>u, <1>r, <3>1, ResponseTypes, Kept DEF ViewInv
  <2> QED BY <1>2, <2>1, <2>2, <2>3 DEF ReplyCreate
<1> QED BY <1>1, <1>2 DEF Handler

LEMMA CloseTypes ==
  ASSUME ViewInv, CloseTask
  PROVE  TaskTypes' /\ WireTypes' /\ UNCHANGED <<call, pending>>
BY EmptySeq, StreamAssumption
   DEF CloseTask, callVars, ViewInv, TaskTypes, WireTypes

LEMMA ConnectionTypes ==
  ASSUME ViewInv, Connection PROVE ViewInv'
<1> USE DEF busVars, taskVars, callVars, uiVars
<1>u. UNCHANGED <<rows, say, doing, shown>>
  BY DEF Connection
<1>w. /\ up \in Seq(Asked)
      /\ down \in Seq(Said \cup Prefixes) /\ Len(down) <= MaxWire
      /\ queue \in Seq(Events) /\ Len(queue) <= Capacity
  BY DEF ViewInv, WireTypes, TaskTypes
<1>1. CASE ReadPrefix
  <2>1. Tail(up) \in Seq(Asked)
    BY <1>1, <1>w, Queues DEF ReadPrefix
  <2>2. WireTypes'
    BY <1>1, <1>w, <2>1 DEF ReadPrefix, WireTypes
  <2>3. TaskTypes'
    BY <1>1, <1>w DEF ReadPrefix, TaskTypes
  <2> QED BY <1>1, <1>u, <2>2, <2>3, Kept DEF ReadPrefix, ViewInv
<1>2. CASE ReadPayload
  <2>1. Tail(up) \in Seq(Asked)
    BY <1>2, <1>w, Queues DEF ReadPayload
  <2>2. WireTypes'
    BY <1>2, <1>w, <2>1 DEF ReadPayload, WireTypes
  <2>3. queue' \in Seq(Events) /\ Len(queue') <= Capacity
    <3>1. CASE queue' = <<>>
      <4>1. <<>> \in Seq(Events) /\ Len(<<>>) = 0
        BY EmptySeq
      <4> QED BY <3>1, <4>1, StreamAssumption
    <3>2. CASE queue' = queue
      BY <1>w, <3>2
    <3> QED BY <1>2, <3>1, <3>2 DEF ReadPayload
  <2>4. TaskTypes'
    BY <1>2, <2>3 DEF ReadPayload, TaskTypes
  <2> QED BY <1>2, <1>u, <2>2, <2>4, Kept DEF ReadPayload, ViewInv
<1>3. CASE ReadTorn
  BY <1>3, <1>u, CloseTypes, Kept DEF ReadTorn, ViewInv
<1>4. CASE ForwardEvent
  <2>1. /\ Head(queue) \in Events
        /\ Tail(queue) \in Seq(Events)
        /\ Len(Tail(queue)) = Len(queue) - 1
        /\ Len(queue) \in Nat
    BY <1>4, <1>w, Queues DEF ForwardEvent
  <2>2. out' \in Said
    BY <1>4, <2>1, FrameTypes DEF ForwardEvent
  <2>3. Len(queue') <= Capacity
    BY <1>4, <1>w, <2>1, StreamAssumption DEF ForwardEvent
  <2>4. TaskTypes'
    BY <1>4, <2>1, <2>2, <2>3 DEF ForwardEvent, TaskTypes
  <2> QED BY <1>4, <1>u, <2>4, Kept DEF ForwardEvent, ViewInv
<1>5. CASE Write
  <2>1. PICK f \in Said \cup Prefixes :
          down' = Append(down, f) /\ task' \in {"body", "select"}
          /\ (task' = "body" => out' = out /\ task = "head")
    BY <1>5, FrameTypes DEF Write, ViewInv, TaskTypes
  <2>2. down' \in Seq(Said \cup Prefixes) /\ Len(down') = Len(down) + 1
        /\ Len(down) \in Nat
    BY <1>w, <2>1, Queues
  <2>3. WireTypes'
    BY <1>5, <1>w, <2>2, StreamAssumption DEF Write, WireTypes
  <2>4. TaskTypes'
    BY <1>5, <2>1 DEF Write, TaskTypes, ViewInv
  <2> QED BY <1>5, <1>u, <2>3, <2>4, Kept DEF Write, ViewInv
<1> QED BY <1>1, <1>2, <1>3, <1>4, <1>5 DEF Connection

LEMMA StopTypes ==
  ASSUME ViewInv, Stop PROVE ViewInv'
<1>1. UNCHANGED <<rows, say, doing, shown>> /\ CloseTask
  BY DEF Stop, rowVars, uiVars
<1> QED BY <1>1, CloseTypes, Kept DEF ViewInv

-----------------------------------------------------------------------------
(* The UI *)

LEMMA LoseTypes ==
  ASSUME ViewInv, Lose
  PROVE  TaskTypes' /\ WireTypes' /\ ClientTypes'
<1>1. TaskTypes'
  BY EmptySeq, StreamAssumption DEF Lose, Disconnected, TaskTypes
<1>2. WireTypes'
  BY EmptySeq, StreamAssumption DEF Lose, Disconnected, WireTypes
<1>3. ClientTypes'
  BY EmptySeq DEF Lose, Disconnected, ClientTypes, ViewInv
<1> QED BY <1>1, <1>2, <1>3

LEMMA AfterTypes ==
  \A r : /\ After(r).doing \in Requests \cup {"off", "idle", "drain"}
         /\ After(r).call \in {"none", "head", "body", "wait", "next"}
BY DEF After, Requests, Plain

(* A frame the client takes from the socket. *)
LEMMA TakenFrame ==
  ASSUME ViewInv, down # <<>>
  PROVE  /\ Tail(down) \in Seq(Said \cup Prefixes)
         /\ Len(Tail(down)) <= MaxWire
         /\ Head(down).kind = "event" => Head(down).body \in Events
         /\ Head(down).kind = "response" => Head(down).body.listed \in Lists
<1>1. down \in Seq(Said \cup Prefixes) /\ Len(down) <= MaxWire
  BY DEF ViewInv, WireTypes
<1>2. /\ Head(down) \in Said \cup Prefixes
      /\ Tail(down) \in Seq(Said \cup Prefixes)
      /\ Len(Tail(down)) = Len(down) - 1
      /\ Len(down) \in Nat
  BY <1>1, Queues
<1> QED BY <1>1, <1>2, FrameTypes, StreamAssumption

LEMMA RequestTypes ==
  ASSUME ViewInv, UNCHANGED <<rows, say>>, Ask \/ Receive
  PROVE  ViewInv'
<1> USE DEF busVars, taskVars, callVars, uiVars
<1>1. CASE Ask
  <2>1. Prefix \in Asked /\ Asking(doing) \in Asked
    BY <1>1, FrameTypes DEF Ask, Asked
  <2>2. Append(up, Prefix) \in Seq(Asked) /\ Append(up, Asking(doing)) \in Seq(Asked)
    BY <2>1, Queues DEF ViewInv, WireTypes
  <2>3. WireTypes'
    BY <1>1, <2>2 DEF Ask, SendRequest, ViewInv, WireTypes
  <2>4. ClientTypes'
    BY <1>1 DEF Ask, SendRequest, ViewInv, ClientTypes
  <2> QED BY <1>1, <2>3, <2>4, Kept DEF Ask, SendRequest, ViewInv
<1>2. CASE Receive
  <2>1. /\ down # <<>> /\ Head(down).kind = "response"
        /\ down' = Tail(down)
        /\ call' = After(doing).call
        /\ UNCHANGED <<task, out, queue, up, pending>>
    BY <1>2 DEF Receive, TakeResponse, Arrived
  <2>2. WireTypes'
    BY <2>1, TakenFrame DEF ViewInv, WireTypes
  <2>3. Head(down).body.listed \in Lists
    BY <2>1, TakenFrame
  <2>4. shown' \in Lists
    BY <1>2, <2>3, ListsMade DEF Receive, ViewInv, ClientTypes
  <2>5. ClientTypes'
    BY <1>2, <2>1, <2>4, AfterTypes DEF Receive, ViewInv, ClientTypes
  <2> QED BY <2>1, <2>2, <2>5, Kept DEF ViewInv
<1> QED BY <1>1, <1>2

LEMMA UpdateTypes ==
  ASSUME ViewInv, UNCHANGED <<rows, say>>, Update
  PROVE  ViewInv'
<1> USE DEF busVars, taskVars
<1>1. PICK e \in Events, after \in {"next", "head"} :
        /\ NextEvent(e, after)
        /\ shown' = Apply(e)
        /\ doing' \in {doing, "capture"}
  BY FrameTypes DEF Update
<1>2. UNCHANGED <<task, out, queue, up>> /\ call' = after
  BY <1>1 DEF NextEvent
<1>3. shown' \in Lists
  BY <1>1, ApplyLists DEF ViewInv, ClientTypes
<1>4. pending' \in Seq(Events)
  <2>1. CASE pending # <<>> /\ pending' = Tail(pending)
    BY <2>1, Queues DEF ViewInv, ClientTypes
  <2>2. CASE pending' = pending
    BY <2>2 DEF ViewInv, ClientTypes
  <2> QED BY <1>1, <2>1, <2>2 DEF NextEvent
<1>5. WireTypes'
  <2>1. CASE down' = down
    BY <1>2, <2>1, Kept
  <2>2. CASE down # <<>> /\ down' = Tail(down)
    BY <1>2, <2>2, TakenFrame DEF ViewInv, WireTypes
  <2> QED BY <1>1, <2>1, <2>2 DEF NextEvent, Arrived
<1>6. ClientTypes'
  BY <1>1, <1>2, <1>3, <1>4 DEF ViewInv, ClientTypes, Requests, Plain
<1> QED BY <1>2, <1>5, <1>6, Kept DEF ViewInv

LEMMA ReadTypes ==
  ASSUME ViewInv, UNCHANGED <<rows, say>>, Read
  PROVE  ViewInv'
<1> USE DEF busVars, taskVars, uiVars
<1>1. /\ down # <<>> /\ down' = Tail(down)
      /\ UNCHANGED <<task, out, queue, up, call, doing, shown>>
  BY DEF Read, TakePrefix, KeepEvent, Arrived
<1>2. WireTypes'
  BY <1>1, TakenFrame DEF ViewInv, WireTypes
<1>3. pending' \in Seq(Events)
  <2>1. CASE TakePrefix
    BY <2>1 DEF TakePrefix, ViewInv, ClientTypes
  <2>2. CASE KeepEvent
    <3>1. Head(down).body \in Events
      BY <1>1, <2>2, TakenFrame DEF KeepEvent, Arrived
    <3> QED BY <2>2, <3>1, Queues DEF KeepEvent, ViewInv, ClientTypes
  <2> QED BY <2>1, <2>2 DEF Read
<1>4. ClientTypes'
  BY <1>1, <1>3 DEF ViewInv, ClientTypes
<1> QED BY <1>1, <1>2, <1>4, Kept DEF ViewInv

LEMMA UITypes ==
  ASSUME ViewInv, UI PROVE ViewInv'
<1> USE DEF busVars, taskVars, callVars, uiVars
<1>u. UNCHANGED <<rows, say>>
  BY DEF UI, rowVars
<1>1. ASSUME NEW next \in Requests \cup {"drain"}, NEW c \in {"head", "next"},
             Begin(next, c)
      PROVE  ViewInv'
  <2>1. ClientTypes'
    BY <1>1 DEF Begin, ViewInv, ClientTypes
  <2> QED BY <1>1, <1>u, <2>1, Kept DEF Begin, ViewInv
<1>2. CASE Key
  BY <1>1, <1>2 DEF Key, Requests
<1>3. CASE Resize
  BY <1>1, <1>3 DEF Resize, Requests, Plain
<1>4. CASE Drain
  BY <1>1, <1>4 DEF Drain
<1>5. CASE Lose
  BY <1>5, <1>u, LoseTypes, Kept DEF ViewInv
<1>6. CASE Dial
  <2>1. TaskTypes'
    BY <1>6 DEF Dial, Open, ViewInv, TaskTypes
  <2>2. ClientTypes'
    BY <1>6 DEF Dial, Open, ViewInv, ClientTypes, Requests, Plain
  <2> QED BY <1>6, <1>u, <2>1, <2>2, Kept DEF Dial, Open, ViewInv
<1>7. CASE Ask \/ Receive
  BY <1>7, <1>u, RequestTypes
<1>8. CASE Update
  BY <1>8, <1>u, UpdateTypes
<1>9. CASE DrainEnds
  <2>1. ClientTypes'
    BY <1>9 DEF DrainEnds, Timeout, ViewInv, ClientTypes
  <2> QED BY <1>9, <1>u, <2>1, Kept DEF DrainEnds, Timeout, ViewInv
<1>10. CASE Read
  BY <1>10, <1>u, ReadTypes
<1>11. CASE GiveUp /\ ~Lose
  <2>1. ClientTypes'
    BY <1>11 DEF GiveUp, ViewInv, ClientTypes
  <2> QED BY <1>11, <1>u, <2>1, Kept DEF GiveUp, ViewInv
<1> QED BY <1>2, <1>3, <1>4, <1>5, <1>6, <1>7, <1>8, <1>9, <1>10, <1>11
        DEF UI, Reconnect

-----------------------------------------------------------------------------
(* The theorems *)

LEMMA ViewStep == ViewInv /\ [Next]_vars => ViewInv'
<1> SUFFICES ASSUME ViewInv, [Next]_vars PROVE ViewInv'
  OBVIOUS
<1>1. CASE UNCHANGED vars
  BY <1>1, Kept DEF vars, streamVars, busVars, taskVars, callVars, rowVars, uiVars,
                    ViewInv
<1>2. CASE Daemon
  BY <1>2, DaemonTypes
<1>3. CASE Handler
  BY <1>3, HandlerTypes
<1>4. CASE Connection
  BY <1>4, ConnectionTypes
<1>5. CASE Stop
  BY <1>5, StopTypes
<1>6. CASE UI
  BY <1>6, UITypes
<1> QED BY <1>1, <1>2, <1>3, <1>4, <1>5, <1>6 DEF Next

LEMMA ViewGives == ViewInv => TypeOK /\ NoRowTwice
<1> SUFFICES ASSUME ViewInv PROVE TypeOK /\ NoRowTwice
  OBVIOUS
<1>1. \A s \in Sessions : shown[s] \in Seq(RowStates) /\ Len(shown[s]) <= 1
  BY DEF ViewInv, ClientTypes, Lists, Lines
<1>2. shown \in [Sessions -> Seq(RowStates)]
  BY <1>1 DEF ViewInv, ClientTypes, Lists
<1> QED BY <1>1, <1>2
        DEF ViewInv, RowTypes, TaskTypes, WireTypes, ClientTypes, TypeOK, NoRowTwice

(* The buffer and the socket keep within their bounds, and whatever is on the
   way to the UI is an event or an answer it has a use for. *)
THEOREM ViewTypes == Spec => []TypeOK
BY ViewInit, ViewStep, ViewGives, PTL DEF Spec

(* However a session reaches the list of the UI (listing, event or form), it has
   one line there: apply_event of tui/src/main.rs updates what it finds. *)
THEOREM OneRowEach == Spec => []NoRowTwice
BY ViewInit, ViewStep, ViewGives, PTL DEF Spec
-----------------------------------------------------------------------------
(* A request and its answer.  AnswerInv says where the one request of a call is
   by what the call is at; it is void once the client's reader is out of step,
   for then nothing arrives until the connection is made anew. *)

Silent(q) == \A k \in DOMAIN q : q[k].kind # "response"

AnswerFor(q, r) ==
  /\ \A k \in DOMAIN q : q[k].kind = "response" => q[k].body.for = r
  /\ \A j, k \in DOMAIN q :
       q[j].kind = "response" /\ q[k].kind = "response" => j = k

Loop == {"select", "head", "body"}
EventOut == task \in {"head", "body"} => out.kind = "event"

NotAsked == up = <<>> /\ task \in Loop \cup {"none", "closed"} /\ EventOut /\ Silent(down)

HalfAsked ==
  /\ EventOut /\ Silent(down)
  /\ \/ up = <<Prefix>> /\ task \in Loop
     \/ up = <<>> /\ task \in {"half", "closed"}
     \/ up = <<>> /\ task \in Loop /\ "up" \in torn

AskedNow ==
  /\ EventOut /\ Silent(down)
  /\ \/ up = <<Prefix, Asking(doing)>> /\ task \in Loop
     \/ up = <<Asking(doing)>> /\ task = "half"
     \/ up = <<Asking(doing)>> /\ task \in Loop /\ "up" \in torn

Handled == up = <<>> /\ Silent(down) /\ task \in {"busy", "create"} /\ out = Asking(doing)

Answering ==
  /\ up = <<>> /\ Silent(down)
  /\ task \in {"head", "body"} /\ out.kind = "response" /\ out.body.for = doing

Answered ==
  up = <<>> /\ EventOut /\ task \in Loop \cup {"closed"} /\ AnswerFor(down, doing)

OneRequest ==
  "down" \notin torn =>
    /\ call \in {"none", "head", "next"} => NotAsked
    /\ call = "body" => HalfAsked
    /\ call = "wait" => AskedNow \/ Handled \/ Answering \/ Answered

AtRest ==
  /\ doing = "idle" => call = "none"
  /\ task = "none" => doing = "off" /\ call = "none"
WholeFrames == "down" \in torn => ~half

AnswerInv == AtRest /\ WholeFrames /\ OneRequest

(* What a sequence of frames says of its end, or of one frame more. *)
LEMMA FramesMoved ==
  ASSUME NEW S, NEW q \in Seq(S), NEW r
  PROVE  /\ Silent(<<>>)
         /\ Silent(q) => AnswerFor(q, r)
         /\ \A f \in S : Silent(q) /\ f.kind # "response" => Silent(Append(q, f))
         /\ \A f \in S : Silent(q) /\ f.body.for = r => AnswerFor(Append(q, f), r)
         /\ \A f \in S : AnswerFor(q, r) /\ f.kind # "response"
                           => AnswerFor(Append(q, f), r)
         /\ q # <<>> /\ Silent(q) => Silent(Tail(q)) /\ Head(q).kind # "response"
         /\ q # <<>> /\ AnswerFor(q, r) =>
              /\ AnswerFor(Tail(q), r)
              /\ Head(q).kind = "response" => Silent(Tail(q)) /\ Head(q).body.for = r
<1>n. Len(q) \in Nat /\ DOMAIN q = 1 .. Len(q)
  BY LenProperties
<1>1. Silent(<<>>)
  BY DEF Silent
<1>2. Silent(q) => AnswerFor(q, r)
  BY DEF Silent, AnswerFor
<1>a. ASSUME NEW f \in S
      PROVE  /\ DOMAIN Append(q, f) = 1 .. Len(q) + 1
             /\ \A k \in DOMAIN Append(q, f) :
                  Append(q, f)[k] = IF k = Len(q) + 1 THEN f ELSE q[k]
             /\ \A k \in DOMAIN Append(q, f) : k # Len(q) + 1 => k \in DOMAIN q
  BY <1>n, AppendProperties
<1>3. ASSUME NEW f \in S, Silent(q), f.kind # "response"
      PROVE  Silent(Append(q, f))
  BY <1>3, <1>a DEF Silent
<1>4. ASSUME NEW f \in S, Silent(q), f.body.for = r
      PROVE  AnswerFor(Append(q, f), r)
  BY <1>4, <1>a DEF Silent, AnswerFor
<1>5. ASSUME NEW f \in S, AnswerFor(q, r), f.kind # "response"
      PROVE  AnswerFor(Append(q, f), r)
  BY <1>5, <1>a DEF AnswerFor
<1>b. ASSUME q # <<>>
      PROVE  /\ DOMAIN Tail(q) = 1 .. (Len(q) - 1)
             /\ \A k \in DOMAIN Tail(q) : k + 1 \in DOMAIN q /\ Tail(q)[k] = q[k + 1]
             /\ \A k \in DOMAIN Tail(q) : k + 1 # 1
             /\ \A j, k \in DOMAIN Tail(q) : j + 1 = k + 1 => j = k
             /\ 1 \in DOMAIN q /\ Head(q) = q[1]
  BY <1>b, <1>n, HeadTailProperties, EmptySeq
<1>6. ASSUME q # <<>>, Silent(q)
      PROVE  Silent(Tail(q)) /\ Head(q).kind # "response"
  BY <1>6, <1>b DEF Silent
<1>7. ASSUME q # <<>>, AnswerFor(q, r)
      PROVE  /\ AnswerFor(Tail(q), r)
             /\ Head(q).kind = "response" => Silent(Tail(q)) /\ Head(q).body.for = r
  <2>1. AnswerFor(Tail(q), r)
    <3>1. \A k \in DOMAIN Tail(q) :
            Tail(q)[k].kind = "response" => Tail(q)[k].body.for = r
      BY <1>7, <1>b DEF AnswerFor
    <3>2. \A j, k \in DOMAIN Tail(q) :
            Tail(q)[j].kind = "response" /\ Tail(q)[k].kind = "response" => j = k
      BY <1>7, <1>b DEF AnswerFor
    <3> QED BY <3>1, <3>2 DEF AnswerFor
  <2>2. Head(q).kind = "response" => Head(q).body.for = r
    BY <1>7, <1>b DEF AnswerFor
  <2>3. ASSUME Head(q).kind = "response", NEW k \in DOMAIN Tail(q)
        PROVE  Tail(q)[k].kind # "response"
    BY <2>3, <1>7, <1>b DEF AnswerFor
  <2> QED BY <2>1, <2>2, <2>3 DEF Silent
<1> QED BY <1>1, <1>2, <1>3, <1>4, <1>5, <1>6, <1>7
LEMMA AnswerInit == Init => AnswerInv
<1> SUFFICES ASSUME Init PROVE AnswerInv
  OBVIOUS
<1>1. Silent(down)
  BY DEF Init, StreamInit, Silent
<1> QED BY <1>1 DEF Init, StreamInit, AnswerInv, AtRest, WholeFrames, OneRequest,
                    NotAsked, EventOut, Nothing, Frame

LEMMA AnswerKept ==
  ASSUME AnswerInv, UNCHANGED <<doing, call, half, up, task, out, torn, down>>
  PROVE  AnswerInv'
BY DEF AnswerInv, AtRest, WholeFrames, OneRequest, NotAsked, HalfAsked, AskedNow,
       Handled, Answering, Answered, EventOut

(* The wires of a request, apart from the rest. *)
LEMMA Shorts ==
  ASSUME NEW a, NEW b
  PROVE  /\ Append(<<>>, a) = <<a>> /\ Append(<<a>>, b) = <<a, b>>
         /\ Head(<<a>>) = a /\ Head(<<a, b>>) = a
         /\ Tail(<<a>>) = <<>> /\ Tail(<<a, b>>) = <<b>>
         /\ <<a>> # <<>> /\ <<a, b>> # <<>>
<1>e. <<>> \in Seq({a, b}) /\ <<a>> \in Seq({a, b})
  OBVIOUS
<1>1. Append(<<>>, a) = <<a>> /\ Append(<<a>>, b) = <<a, b>>
  <2>1. Append(<<>>, a) = <<a>>
    BY <1>e, AppendProperties, SeqEqual
  <2>2. <<a, b>> \in Seq({a, b}) /\ Len(<<a, b>>) = 2
        /\ <<a, b>>[1] = a /\ <<a, b>>[2] = b /\ Len(<<a>>) = 1 /\ <<a>>[1] = a
    OBVIOUS
  <2>3. /\ Append(<<a>>, b) \in Seq({a, b}) /\ Len(Append(<<a>>, b)) = 2
        /\ Append(<<a>>, b)[1] = a /\ Append(<<a>>, b)[2] = b
    BY <1>e, <2>2, AppendProperties
  <2>4. \A i \in 1 .. Len(Append(<<a>>, b)) : i = 1 \/ i = 2
    BY <2>3
  <2> QED BY <2>1, <2>2, <2>3, <2>4, SeqEqual
<1>2. Head(<<a>>) = a /\ Head(<<a, b>>) = a
  OBVIOUS
<1>3. Tail(<<a>>) = <<>>
  OBVIOUS
<1>4. Tail(<<a, b>>) = <<b>>
  OBVIOUS
<1>5. <<a>> # <<>> /\ <<a, b>> # <<>>
  OBVIOUS
<1> QED BY <1>1, <1>2, <1>3, <1>4, <1>5

LEMMA UpWire ==
  ASSUME NEW r
  PROVE  /\ Append(<<>>, Prefix) = <<Prefix>>
         /\ Append(<<>>, Asking(r)) = <<Asking(r)>>
         /\ Append(<<Prefix>>, Asking(r)) = <<Prefix, Asking(r)>>
         /\ Tail(<<Prefix>>) = <<>> /\ Tail(<<Asking(r)>>) = <<>>
         /\ Tail(<<Prefix, Asking(r)>>) = <<Asking(r)>>
         /\ Head(<<Asking(r)>>) = Asking(r)
         /\ <<Prefix>> # <<>> /\ <<Asking(r)>> # <<>> /\ <<Prefix, Asking(r)>> # <<>>
BY Shorts

LEMMA DownWire ==
  ASSUME ViewInv, NEW r
  PROVE  /\ down \in Seq(Said \cup Prefixes)
         /\ Silent(<<>>)
         /\ Silent(down) => AnswerFor(down, r)
         /\ \A f \in Said \cup Prefixes :
              /\ Silent(down) /\ f.kind # "response" => Silent(Append(down, f))
              /\ Silent(down) /\ f.body.for = r => AnswerFor(Append(down, f), r)
              /\ AnswerFor(down, r) /\ f.kind # "response" => AnswerFor(Append(down, f), r)
         /\ down # <<>> /\ Silent(down) =>
              Silent(Tail(down)) /\ Head(down).kind # "response"
         /\ down # <<>> /\ AnswerFor(down, r) =>
              /\ AnswerFor(Tail(down), r)
              /\ Head(down).kind = "response" =>
                   Silent(Tail(down)) /\ Head(down).body.for = r
<1>1. down \in Seq(Said \cup Prefixes)
  BY DEF ViewInv, WireTypes
<1> QED BY <1>1, FramesMoved

LEMMA DaemonAnswers ==
  ASSUME AnswerInv, Daemon PROVE AnswerInv'
<1> USE DEF streamVars, taskVars, callVars, uiVars
<1>1. ASSUME NEW e, Publish(e)
      PROVE  UNCHANGED <<call, half, up, task, out, torn, down>>
  BY <1>1 DEF Publish
<1>2. UNCHANGED <<doing, call, half, up, task, out, torn, down>>
  <2>1. CASE \E a \in Speakers : Announce(a)
    BY <1>1, <2>1 DEF Daemon, Announce
  <2>2. CASE \E s \in Sessions : ScreenChange(s)
    BY <1>1, <2>2 DEF Daemon, ScreenChange
  <2> QED BY <2>1, <2>2 DEF Daemon
<1> QED BY <1>2, AnswerKept

LEMMA HandlerAnswers ==
  ASSUME ViewInv, AnswerInv, Handler PROVE AnswerInv'
<1> USE DEF busVars, callVars, uiVars
<1>h. task \in {"busy", "create"} /\ UNCHANGED <<doing, call, half, up, torn, down>>
  BY DEF Handler, Reply, ReplyCreate, Respond
<1>1. "down" \notin torn =>
        /\ call = "wait" /\ up = <<>> /\ Silent(down) /\ out = Asking(doing)
  <2>1. call \in {"none", "head", "next", "body", "wait"}
    BY DEF ViewInv, ClientTypes
  <2> QED BY <1>h, <2>1
          DEF AnswerInv, OneRequest, NotAsked, HalfAsked, AskedNow, Handled,
              Answering, Answered, Loop
<1>2. /\ AtRest' /\ WholeFrames'
      /\ "down" \notin torn => Silent(down')
  <2>1. task' # "none"
    BY <1>h DEF Handler, Reply, ReplyCreate, Respond
  <2> QED BY <1>h, <1>1, <2>1 DEF AnswerInv, AtRest, WholeFrames
<1>3. CASE task' = "create" /\ UNCHANGED out
  BY <1>h, <1>1, <1>2, <1>3 DEF AnswerInv, OneRequest, Handled
<1>4. ASSUME NEW l, Respond(Answer(out.body.for, l))
      PROVE  AnswerInv'
  <2>1. task' = "head" /\ out'.kind = "response" /\ out'.body.for = out.body.for
    BY <1>4 DEF Respond, Answer, Frame
  <2>2. "down" \notin torn => out'.body.for = doing
    BY <1>1, <2>1 DEF Asking, Frame
  <2> QED BY <1>h, <1>1, <1>2, <2>1, <2>2 DEF AnswerInv, OneRequest, Answering
<1>5. CASE Reply
  BY <1>4, <1>5 DEF Reply
<1>6. ASSUME NEW s \in Sessions, ReplyCreate(s)
      PROVE  AnswerInv'
  BY <1>3, <1>4, <1>6 DEF ReplyCreate
<1> QED BY <1>5, <1>6 DEF Handler

LEMMA ConnectionAnswers ==
  ASSUME ViewInv, AnswerInv, UNCHANGED doing,
         Connection \/ (task \in {"select", "half"} /\ CloseTask)
  PROVE  AnswerInv'
<1> USE DEF busVars, taskVars, callVars
<1>u. UNCHANGED <<call, half>> /\ ("down" \in torn <=> "down" \in torn')
  BY DEF Connection, ReadPrefix, ReadPayload, ReadTorn, CloseTask, ForwardEvent, Write
<1>c. AtRest' /\ WholeFrames'
  <2>1. task' # "none"
    BY DEF Connection, ReadPrefix, ReadPayload, ReadTorn, CloseTask, ForwardEvent, Write
  <2> QED BY <1>u, <2>1 DEF AnswerInv, AtRest, WholeFrames
<1> SUFFICES ASSUME "down" \notin torn
             PROVE  OneRequest'
  BY <1>u, <1>c DEF AnswerInv, OneRequest
<1>p. \/ call \in {"none", "head", "next"} /\ NotAsked
      \/ call = "body" /\ HalfAsked
      \/ call = "wait" /\ (AskedNow \/ Handled \/ Answering \/ Answered)
  BY DEF AnswerInv, OneRequest, ViewInv, ClientTypes
<1>d. \A f \in Said \cup Prefixes :
        /\ Silent(down) /\ f.kind # "response" => Silent(Append(down, f))
        /\ Silent(down) /\ f.body.for = doing => AnswerFor(Append(down, f), doing)
        /\ AnswerFor(down, doing) /\ f.kind # "response"
             => AnswerFor(Append(down, f), doing)
  BY DownWire
<1>s. Silent(down) => AnswerFor(down, doing)
  BY DownWire
<1>a. Asking(doing) # Prefix
  BY DEF Asking, Prefix, Frame
<1>1. CASE ReadPrefix
  <2>1. task = "select" /\ up # <<>> /\ task' = "half" /\ up' = Tail(up)
        /\ "up" \notin torn /\ UNCHANGED <<down, torn, out>>
    BY <1>1 DEF ReadPrefix
  <2>2. \/ call = "body" /\ up = <<Prefix>> /\ Silent(down)
        \/ call = "wait" /\ up = <<Prefix, Asking(doing)>> /\ Silent(down)
    BY <1>p, <2>1 DEF NotAsked, HalfAsked, AskedNow, Handled, Answering, Answered
  <2> QED BY <1>u, <2>1, <2>2, UpWire
          DEF OneRequest, HalfAsked, AskedNow, EventOut
<1>2. CASE ReadPayload
  <2>1. /\ task = "half" /\ up # <<>> /\ task' = "busy" /\ up' = Tail(up)
        /\ out' = Head(up) /\ UNCHANGED <<down, torn>>
    BY <1>2 DEF ReadPayload
  <2>2. call = "wait" /\ up = <<Asking(doing)>> /\ Silent(down)
    BY <1>p, <2>1
       DEF NotAsked, HalfAsked, AskedNow, Handled, Answering, Answered, Loop
  <2> QED BY <1>u, <2>1, <2>2, UpWire DEF OneRequest, Handled
<1>3. CASE CloseTask /\ task \in {"select", "half"}
  <2>1. task' = "closed" /\ up' = <<>> /\ UNCHANGED down
    BY <1>3 DEF CloseTask
  <2>2. EventOut'
    BY <2>1 DEF EventOut
  <2>3. CASE call # "wait"
    <3>1. Silent(down')
      BY <1>p, <2>1, <2>3 DEF NotAsked, HalfAsked
    <3> QED BY <1>p, <1>u, <2>1, <2>2, <2>3, <3>1 DEF OneRequest, NotAsked, HalfAsked
  <2>4. CASE call = "wait"
    <3>1. AnswerFor(down', doing')
      BY <1>p, <1>s, <1>3, <2>1, <2>4 DEF AskedNow, Handled, Answering, Answered
    <3> QED BY <1>u, <2>1, <2>2, <2>4, <3>1 DEF OneRequest, Answered
  <2> QED BY <2>3, <2>4
<1>4. CASE ForwardEvent
  <2>1. /\ task \in {"select", "half"} /\ task' = "head" /\ out'.kind = "event"
        /\ task = "half" => "up" \in torn'
        /\ "up" \in torn => "up" \in torn'
        /\ UNCHANGED <<up, down>>
    BY <1>4 DEF ForwardEvent, Frame
  <2> QED BY <1>p, <1>u, <2>1
          DEF OneRequest, NotAsked, HalfAsked, AskedNow, Handled, Answering, Answered,
              EventOut, Loop
<1>5. CASE Write
  <2>1. CASE task = "head" /\ task' = "body" /\ down' = Append(down, Prefix)
             /\ UNCHANGED <<out, up, torn>>
    <3>1. Prefix \in Said \cup Prefixes /\ Prefix.kind # "response"
      BY FrameTypes DEF Prefix, Frame
    <3>2. /\ Silent(down) => Silent(down')
          /\ AnswerFor(down, doing) => AnswerFor(down', doing)
      BY <1>d, <2>1, <3>1
    <3> QED BY <1>p, <1>u, <2>1, <3>2
            DEF OneRequest, NotAsked, HalfAsked, AskedNow, Handled, Answering, Answered,
                EventOut, Loop
  <2>2. CASE task = "body" /\ task' = "select" /\ down' = Append(down, out)
             /\ UNCHANGED <<up, torn>>
    <3>1. out \in Said \cup Prefixes
      BY <2>2 DEF ViewInv, TaskTypes
    <3>2. CASE call = "wait" /\ Answering
      <4>1. AnswerFor(down', doing')
        BY <1>d, <2>2, <3>1, <3>2 DEF Answering
      <4> QED BY <1>u, <2>2, <3>2, <4>1 DEF OneRequest, Answering, Answered, EventOut, Loop
    <3>3. CASE out.kind # "response"
      <4>1. /\ Silent(down) => Silent(down')
            /\ AnswerFor(down, doing) => AnswerFor(down', doing)
        BY <1>d, <2>2, <3>1, <3>3
      <4> QED BY <1>p, <1>u, <2>2, <3>2, <4>1
              DEF OneRequest, NotAsked, HalfAsked, AskedNow, Handled, Answered,
                  EventOut, Loop
    <3>4. out.kind # "response" \/ (call = "wait" /\ Answering)
      BY <1>p, <2>2 DEF NotAsked, HalfAsked, AskedNow, Handled, Answered, EventOut
    <3> QED BY <3>2, <3>3, <3>4
  <2> QED BY <1>5, <2>1, <2>2 DEF Write
<1> QED BY <1>1, <1>2, <1>3, <1>4, <1>5 DEF Connection, ReadTorn

LEMMA UIAnswers ==
  ASSUME ViewInv, AnswerInv, UI PROVE AnswerInv'
<1> USE DEF busVars, taskVars, callVars, uiVars
<1>p. "down" \notin torn =>
        \/ call \in {"none", "head", "next"} /\ NotAsked
        \/ call = "body" /\ HalfAsked
        \/ call = "wait" /\ (AskedNow \/ Handled \/ Answering \/ Answered)
  BY DEF AnswerInv, OneRequest, ViewInv, ClientTypes
<1>i. "idle" \notin Sessions /\ "off" \notin Sessions
  BY SessionsAssumption
<1>a. /\ doing = "idle" => call = "none"
      /\ task = "none" => doing = "off" /\ call = "none"
      /\ "down" \in torn => ~half
  BY DEF AnswerInv, AtRest, WholeFrames
<1>s. Silent(<<>>)
  BY DownWire
<1>1. ASSUME NEW next \in Requests \cup {"drain"}, NEW c \in {"head", "next"},
             Begin(next, c)
      PROVE  AnswerInv'
  <2>1. next # "idle"
    BY <1>i DEF Requests, Plain
  <2>2. /\ doing = "idle" /\ doing' # "idle" /\ call = "none" /\ call' \in {"head", "next"}
        /\ UNCHANGED <<half, up, task, out, torn, down>>
    BY <1>1, <1>a, <2>1 DEF Begin
  <2> QED BY <1>p, <1>a, <2>2
          DEF AnswerInv, AtRest, WholeFrames, OneRequest, NotAsked, EventOut
<1>2. CASE Key \/ Resize \/ Drain
  BY <1>1, <1>2 DEF Key, Resize, Drain, Requests, Plain
<1>3. CASE Lose
  BY <1>3, <1>s DEF Lose, Disconnected, AnswerInv, AtRest, WholeFrames, OneRequest,
                    NotAsked, EventOut
<1>4. CASE Dial
  <2>1. /\ task = "none" /\ task' = "select" /\ doing' = "version" /\ call' = "head"
        /\ UNCHANGED <<half, up, out, torn, down>>
    BY <1>4 DEF Dial, Open
  <2> QED BY <1>p, <1>a, <2>1
          DEF AnswerInv, AtRest, WholeFrames, OneRequest, NotAsked, HalfAsked, AskedNow,
              Handled, Answering, Answered, EventOut, Loop
<1>5. CASE Ask
  <2>1. /\ doing \notin {"idle", "off"} /\ task # "closed"
        /\ UNCHANGED <<doing, half, task, out, torn, down>>
        /\ \/ call = "head" /\ call' = "body" /\ up' = Append(up, Prefix)
           \/ call = "body" /\ call' = "wait" /\ up' = Append(up, Asking(doing))
    BY <1>5, <1>i DEF Ask, SendRequest, Requests, Plain
  <2>2. CASE call = "head" /\ call' = "body" /\ up' = Append(up, Prefix)
    <3>1. "down" \notin torn => up' = <<Prefix>> /\ task \in Loop
      BY <1>p, <1>a, <2>1, <2>2, UpWire DEF NotAsked
    <3> QED BY <1>p, <1>a, <2>1, <2>2, <3>1
            DEF AnswerInv, AtRest, WholeFrames, OneRequest, NotAsked, HalfAsked, EventOut
  <2>3. CASE call = "body" /\ call' = "wait" /\ up' = Append(up, Asking(doing))
    BY <1>p, <1>a, <2>1, <2>3, UpWire
       DEF AnswerInv, AtRest, WholeFrames, OneRequest, HalfAsked, AskedNow, EventOut
  <2> QED BY <2>1, <2>2, <2>3
<1>6. CASE Receive
  <2>1. /\ call = "wait" /\ half /\ down # <<>> /\ Head(down).kind = "response"
        /\ call' = After(doing).call /\ doing' = After(doing).doing
        /\ ~half' /\ down' = Tail(down) /\ UNCHANGED <<up, task, out, torn>>
    BY <1>6 DEF Receive, TakeResponse, Arrived
  <2>2. Answered
    BY <1>p, <1>a, <2>1, DownWire DEF AskedNow, Handled, Answering
  <2>3. Silent(down')
    BY <2>1, <2>2, DownWire DEF Answered
  <2>4. /\ call' \in {"none", "head", "next"}
        /\ doing' = "idle" => call' = "none"
    BY <2>1 DEF After
  <2> QED BY <2>1, <2>2, <2>3, <2>4
          DEF AnswerInv, AtRest, WholeFrames, OneRequest, NotAsked, Answered, EventOut
<1>7. CASE Update
  <2>1. /\ call = "next" /\ call' \in {"next", "head"} /\ doing' \in {"drain", "capture"}
        /\ UNCHANGED <<task, out, up, torn>>
        /\ \/ UNCHANGED <<down, half>>
           \/ down # <<>> /\ down' = Tail(down) /\ ~half'
    BY <1>7 DEF Update, NextEvent, Arrived
  <2>2. "down" \notin torn => Silent(down')
    BY <1>p, <2>1, DownWire DEF NotAsked
  <2> QED BY <1>p, <1>a, <2>1, <2>2
          DEF AnswerInv, AtRest, WholeFrames, OneRequest, NotAsked, EventOut
<1>8. CASE DrainEnds
  <2>1. /\ call = "next" /\ call' = "none" /\ doing' = "idle" /\ ~half'
        /\ torn' \in {torn, torn \cup {"down"}} /\ UNCHANGED <<task, out, up, down>>
    BY <1>8 DEF DrainEnds, Timeout
  <2> QED BY <1>p, <2>1
          DEF AnswerInv, AtRest, WholeFrames, OneRequest, NotAsked, EventOut
<1>9. CASE Read
  <2>1. /\ down # <<>> /\ down' = Tail(down) /\ call \in {"wait", "next"}
        /\ Head(down).kind = "event" \/ "down" \notin torn
        /\ UNCHANGED <<task, out, up, torn, call, doing>>
        /\ half' => "down" \notin torn
    BY <1>9 DEF Read, TakePrefix, KeepEvent, Arrived, Reading
  <2>2. "down" \notin torn =>
          /\ Silent(down) => Silent(down')
          /\ AnswerFor(down, doing) => AnswerFor(down', doing)
    BY <2>1, DownWire
  <2>3. AtRest' /\ WholeFrames'
    BY <1>a, <2>1 DEF AtRest, WholeFrames
  <2>4. OneRequest'
    BY <1>p, <2>1, <2>2
       DEF OneRequest, NotAsked, HalfAsked, AskedNow, Handled, Answering, Answered, EventOut
  <2> QED BY <2>3, <2>4 DEF AnswerInv
<1>10. CASE GiveUp /\ ~Lose
  <2>1. /\ Broken /\ doing' = "idle" /\ call' = "none" /\ ~half'
        /\ UNCHANGED <<task, out, up, down, torn>>
    BY <1>10 DEF GiveUp
  <2>2. task # "none"
    BY <1>a, <2>1 DEF Broken, Reading
  <2>3. "down" \notin torn => NotAsked'
    BY <1>p, <2>1
       DEF Broken, Reading, NotAsked, HalfAsked, AskedNow, Handled, Answering, Answered,
           EventOut, Loop, Silent, AnswerFor
  <2> QED BY <2>1, <2>2, <2>3 DEF AnswerInv, AtRest, WholeFrames, OneRequest
<1> QED BY <1>2, <1>3, <1>4, <1>5, <1>6, <1>7, <1>8, <1>9, <1>10 DEF UI, Reconnect

LEMMA AnswerStep == ViewInv /\ AnswerInv /\ [Next]_vars => AnswerInv'
<1> SUFFICES ASSUME ViewInv, AnswerInv, [Next]_vars PROVE AnswerInv'
  OBVIOUS
<1>1. CASE UNCHANGED vars
  BY <1>1, AnswerKept DEF vars, streamVars, taskVars, callVars, uiVars
<1>2. CASE Daemon
  BY <1>2, DaemonAnswers
<1>3. CASE Handler
  BY <1>3, HandlerAnswers
<1>4. CASE Connection
  BY <1>4, ConnectionAnswers DEF Connection, uiVars
<1>5. CASE Stop
  BY <1>5, ConnectionAnswers DEF Stop, uiVars
<1>6. CASE UI
  BY <1>6, UIAnswers
<1> QED BY <1>1, <1>2, <1>3, <1>4, <1>5, <1>6 DEF Next

LEMMA AnswerGives == ViewInv /\ AnswerInv => AnswersMatch
<1> SUFFICES ASSUME ViewInv, AnswerInv, Arrived("response")
             PROVE  call = "wait" /\ Head(down).body.for = doing
  BY DEF AnswersMatch
<1>1. /\ "down" \notin torn /\ call \in {"wait", "next"}
      /\ down # <<>> /\ Head(down).kind = "response"
  BY DEF Arrived, Reading, AnswerInv, WholeFrames
<1>2. call = "wait" /\ Answered
  BY <1>1, DownWire DEF AnswerInv, OneRequest, NotAsked, AskedNow, Handled, Answering
<1> QED BY <1>1, <1>2, DownWire DEF Answered

(* No id is compared when a response is read (request of cli/src/lib.rs takes the
   first one), and still each request of the UI takes its own answer, whatever was
   cut off, forwarded, closed or timed out before; and next_event, which would
   throw a response away, never has one before it. *)
THEOREM ResponsesMatchRequests == Spec => []AnswersMatch
<1>1. Spec => [](ViewInv /\ AnswerInv)
  BY ViewInit, ViewStep, AnswerInit, AnswerStep, PTL DEF Spec
<1> QED BY <1>1, AnswerGives, PTL

-----------------------------------------------------------------------------
(* The list and the rows.  RowInv says what the list will show of each session
   once everything on its way has arrived, in the order it will; a queue counts
   by the newest event about the session and by whether one introduces it. *)

(* Events about s in a queue; a screen is no news of it. *)
About(e, s) == e.id = s /\ e.state # "screen"
Telling(q, s) == {k \in DOMAIN q : About(q[k], s)}
Newest(q, s) == CHOOSE k \in Telling(q, s) : \A j \in Telling(q, s) : j <= k
Introduced(q, s) == \E k \in DOMAIN q : q[k].id = s /\ q[k].state = "created"

(* What the lines l of s are once an event, or a queue of them, is applied. *)
Seen(e, s, l) ==
  IF ~About(e, s) \/ (l = <<>> /\ e.state # "created") THEN l ELSE <<Announced(e)>>
Lead(q, s, l) ==
  IF Telling(q, s) = {} \/ (l = <<>> /\ ~Introduced(q, s)) THEN l
  ELSE <<Announced(q[Newest(q, s)])>>

(* Everything on its way to the list, nearest to it first: kept by a request, on
   the socket, being written, in the receiver's buffer. *)
Body(f) == IF f.kind = "event" THEN f.body ELSE Event("none", "screen")
Bodies(q) == [k \in DOMAIN q |-> Body(q[k])]
Writing == task \in {"head", "body"}
Going == IF Writing THEN <<Body(out)>> ELSE <<>>
Through(p, d, g, q, s, l) ==
  Lead(q, s, Lead(g, s, Lead(Bodies(d), s, Lead(p, s, l))))
Reached(s, l) == Through(pending, down, Going, queue, s, l)

(* The lines all this is applied to: those shown, or those of the listing the UI
   is about to get, which is on its way or will be made from the rows. *)
Elems(q) == {q[k] : k \in DOMAIN q}
OnTheWay == Elems(down) \cup (IF Writing THEN {out} ELSE {})
IsListing(f) == f.kind = "response" /\ f.body.for = "list"
Listings == {f.body.listed : f \in {g \in OnTheWay : IsListing(g)}}
Base(s) ==
  IF doing \notin {"version", "subscribe", "list"} THEN shown[s]
  ELSE IF Listings = {} THEN Listed(s) ELSE (CHOOSE l \in Listings : TRUE)[s]

(* An event about s is still to be published; its first one has been. *)
Untold(s) == \E a \in Speakers : say[a] # <<>> /\ Head(say[a]).id = s
NotFirst(s) == say[s] # <<>> => Head(say[s]).state # "created"

Shows(s, l) ==
  /\ rows[s] \notin Gone /\ NotFirst(s) => l # <<>>
  /\ s \notin unannounced /\ ~Untold(s) => l = Listed(s)
Following == subscribed /\ ~lagged /\ "down" \notin torn
UpToDate == Following => \A s \in Sessions : Shows(s, Reached(s, Base(s)))

(* Lengths and payloads alternate on a socket that is read in step. *)
Opens(f) == f.kind = "prefix"
Alternates(q) ==
  \A k \in DOMAIN q : k + 1 \in DOMAIN q => (Opens(q[k]) <=> ~Opens(q[k + 1]))
InStep ==
  "down" \notin torn =>
    /\ Alternates(down)
    /\ down # <<>> => /\ Opens(Head(down)) <=> ~half
                      /\ Opens(down[Len(down)]) <=> task = "body"
    /\ down = <<>> => (half <=> task = "body")
HalfRead ==
  /\ half => Reading
  /\ call = "next" => doing = "drain"

(* Nothing comes unasked, and a subscription is asked for once. *)
BeforeSubscribe ==
  ~subscribed /\ task # "closed" =>
    queue = <<>> /\ pending = <<>> /\ \A f \in OnTheWay : f.kind # "event"
SubscribedWhen ==
  subscribed => /\ doing \notin {"off", "version"}
                /\ doing = "subscribe" => call = "wait" /\ up = <<>>

(* A reader that is out of step was in time when the subscription was made. *)
TornLater == "down" \in torn => doing \notin {"off", "version", "subscribe"}

StageType ==
  stage \in [Sessions -> {"none", "insert", "start", "run", "failed"}]
SayOwn == \A s \in Sessions : say[s] # <<>> => Head(say[s]).id = s

(* A create that answers with its session has run, and whatever removed the
   session since went without a word. *)
Missed(s) == rows[s] \in Gone => s \in unannounced
Returns(f, s) == f.kind = "response" /\ f.body.for = s /\ f.body.listed[s] # <<>>
CreatedHere ==
  "down" \notin torn =>
    \A s \in Sessions :
      /\ task = "create" /\ out.body.for = s => Missed(s)
      /\ (\E f \in OnTheWay : Returns(f, s)) =>
           Missed(s) /\ stage[s] = "run" /\ NotFirst(s)

(* Only a listing lists more than what was asked for. *)
OwnLines(f) ==
  f.kind = "response" /\ f.body.for # "list" =>
    \A s \in Sessions : f.body.for # s => f.body.listed[s] = <<>>
PlainAnswers == \A f \in OnTheWay : OwnLines(f)

RowInv ==
  /\ StageType /\ SayOwn /\ BeforeSubscribe /\ SubscribedWhen /\ TornLater
  /\ InStep /\ HalfRead /\ CreatedHere /\ PlainAnswers /\ UpToDate

-----------------------------------------------------------------------------
(* What a queue makes of the lines of a session *)

LEMMA Greatest ==
  ASSUME NEW n \in Nat, NEW T \in SUBSET (1 .. n), T # {}
  PROVE  \E k \in T : \A j \in T : j <= k
<1> DEFINE above == {k .. n : k \in T}
<1>1. \A k \in T : IsFiniteSet(k .. n) /\ k .. n \in SUBSET Nat
  BY FS_Interval
<1>2. above \subseteq FiniteSubsetsOf(Nat) /\ above # {}
  BY <1>1 DEF FiniteSubsetsOf
<1>3. PICK x \in above : \A y \in above : ~ (<<y, x>> \in StrictSubsetOrdering(Nat))
  <2> HIDE DEF above
  <2> QED BY <1>2, FS_StrictSubsetOrderingWellFounded, WFMin
<1>4. PICK k \in T : x = k .. n
  BY <1>3
<1>5. ASSUME NEW j \in T PROVE j <= k
  <2>1. j .. n \in above /\ j .. n \subseteq Nat /\ k .. n \subseteq Nat
    OBVIOUS
  <2>2. ~ (j .. n \subseteq k .. n /\ j .. n # k .. n)
    BY <2>1, <1>3, <1>4 DEF StrictSubsetOrdering
  <2>3. ~ (j <= k) => j .. n \subseteq k .. n /\ k \in k .. n /\ k \notin j .. n
    OBVIOUS
  <2> QED BY <2>2, <2>3
<1> QED BY <1>5

LEMMA NewestIs ==
  ASSUME NEW S, NEW q \in Seq(S), NEW s
  PROVE  /\ Telling(q, s) # {} => /\ Newest(q, s) \in Telling(q, s)
                                  /\ \A j \in Telling(q, s) : j <= Newest(q, s)
         /\ \A k \in Telling(q, s) :
              (\A j \in Telling(q, s) : j <= k) => k = Newest(q, s)
<1>1. Telling(q, s) \subseteq 1 .. Len(q) /\ Len(q) \in Nat
  BY DEF Telling
<1>2. ASSUME Telling(q, s) # {}
      PROVE  /\ Newest(q, s) \in Telling(q, s)
             /\ \A j \in Telling(q, s) : j <= Newest(q, s)
  <2>1. \E k \in Telling(q, s) : \A j \in Telling(q, s) : j <= k
    BY <1>1, <1>2, Greatest
  <2> QED BY <2>1 DEF Newest
<1>3. ASSUME NEW k \in Telling(q, s), \A j \in Telling(q, s) : j <= k
      PROVE  k = Newest(q, s)
  <2>1. Newest(q, s) \in Telling(q, s) /\ k <= Newest(q, s) /\ Newest(q, s) <= k
    BY <1>2, <1>3
  <2>2. k \in Nat /\ Newest(q, s) \in Nat
    BY <1>1, <2>1
  <2> QED BY <2>1, <2>2
<1> QED BY <1>2, <1>3

LEMMA LeadEmpty ==
  ASSUME NEW s, NEW l PROVE Lead(<<>>, s, l) = l
<1>1. Telling(<<>>, s) = {}
  BY DEF Telling
<1> QED BY <1>1 DEF Lead

(* An event that comes last. *)
LEMMA LeadAppend ==
  ASSUME NEW S, NEW q \in Seq(S), NEW e \in S, NEW s, NEW l
  PROVE  Lead(Append(q, e), s, l) = Seen(e, s, Lead(q, s, l))
<1> DEFINE p == Append(q, e)
           n == Len(q) + 1
<1>1. /\ p \in Seq(S) /\ Len(q) \in Nat
      /\ DOMAIN q = 1 .. Len(q) /\ DOMAIN p = 1 .. n
      /\ p[n] = e /\ \A k \in DOMAIN q : p[k] = q[k]
  OBVIOUS
<1>2. \A k : k \in DOMAIN p <=> k \in DOMAIN q \/ k = n
  BY <1>1
<1>3. /\ About(e, s) => Telling(p, s) = Telling(q, s) \cup {n}
      /\ ~About(e, s) => Telling(p, s) = Telling(q, s)
      /\ Telling(q, s) \subseteq DOMAIN q
  <2> HIDE DEF p, n
  <2>1. \A k : k \in Telling(p, s) <=> k \in Telling(q, s) \/ (k = n /\ About(e, s))
    <3>1. n \notin DOMAIN q
      BY <1>1 DEF n
    <3> QED BY <1>1, <1>2, <3>1 DEF Telling
  <2>2. \A k \in Telling(q, s) : k \in DOMAIN q
    BY DEF Telling
  <2> QED BY <2>1, <2>2
<1>4. Introduced(p, s) <=> Introduced(q, s) \/ (e.id = s /\ e.state = "created")
  <2> HIDE DEF p, n
  <2> QED BY <1>1, <1>2 DEF Introduced
<1>5. CASE ~About(e, s)
  <2>1. ~(e.id = s /\ e.state = "created")
    BY <1>5 DEF About
  <2>2. Telling(q, s) # {} => p[Newest(q, s)] = q[Newest(q, s)]
    BY <1>1, <1>3, NewestIs
  <2>3. Newest(p, s) = Newest(q, s)
    BY <1>3, <1>5 DEF Newest
  <2>4. Lead(p, s, l) = Lead(q, s, l)
    <3> HIDE DEF p
    <3> QED BY <1>3, <1>4, <1>5, <2>1, <2>2, <2>3 DEF Lead
  <2> QED BY <1>5, <2>4 DEF Seen
<1>6. CASE About(e, s)
  <2>1. n = Newest(p, s)
    <3>1. n \in Telling(p, s) /\ \A j \in Telling(p, s) : j <= n
      BY <1>1, <1>3, <1>6
    <3> HIDE DEF p, n
    <3> QED BY <1>1, <3>1, NewestIs
  <2>2. Telling(p, s) # {}
    BY <1>3, <1>6
  <2>3. Lead(p, s, l) = IF l = <<>> /\ ~Introduced(p, s) THEN l ELSE <<Announced(e)>>
    <3> HIDE DEF p, n
    <3> QED BY <1>1, <2>1, <2>2 DEF Lead
  <2>4. Lead(q, s, l) = <<>> <=> l = <<>> /\ (Telling(q, s) = {} \/ ~Introduced(q, s))
    BY DEF Lead
  <2>5. Telling(q, s) = {} => ~Introduced(q, s)
    BY DEF Telling, Introduced, About
  <2>6. e.id = s
    BY <1>6 DEF About
  <2> HIDE DEF p, n
  <2>7. Lead(p, s, l) = Seen(e, s, Lead(q, s, l))
    BY <1>4, <1>6, <2>3, <2>4, <2>5, <2>6 DEF Seen
  <2> QED BY <2>7 DEF p
<1> QED BY <1>5, <1>6

(* An event that comes first. *)
LEMMA LeadTail ==
  ASSUME NEW S, NEW q \in Seq(S), q # <<>>, NEW s, NEW l
  PROVE  Lead(q, s, l) = Lead(Tail(q), s, Seen(Head(q), s, l))
<1> DEFINE p == Tail(q)
           e == Head(q)
           m == Seen(e, s, l)
<1>1. /\ p \in Seq(S) /\ Len(q) \in Nat \ {0}
      /\ DOMAIN q = 1 .. Len(q) /\ DOMAIN p = 1 .. Len(q) - 1
      /\ q[1] = e /\ \A k \in DOMAIN p : p[k] = q[k + 1]
  OBVIOUS
<1>2. /\ \A k \in DOMAIN p : k + 1 \in DOMAIN q
      /\ \A k \in DOMAIN q : k = 1 \/ (k - 1 \in DOMAIN p /\ p[k - 1] = q[k])
      /\ 1 \in DOMAIN q
  BY <1>1
<1>3. /\ \A k \in Telling(p, s) : k + 1 \in Telling(q, s)
      /\ \A k \in Telling(q, s) : k = 1 \/ k - 1 \in Telling(p, s)
      /\ 1 \in Telling(q, s) <=> About(e, s)
  <2> HIDE DEF p, e
  <2> QED BY <1>1, <1>2 DEF Telling
<1>4. Introduced(q, s) <=> Introduced(p, s) \/ (e.id = s /\ e.state = "created")
  <2> HIDE DEF p, e
  <2> QED BY <1>1, <1>2 DEF Introduced
<1>5. /\ Introduced(p, s) => Telling(p, s) # {}
      /\ Introduced(q, s) => Telling(q, s) # {}
  BY DEF Telling, Introduced, About
<1>6. CASE Telling(p, s) = {}
  <2>0. Lead(p, s, m) = m
    <3> HIDE DEF p, m
    <3> QED BY <1>6 DEF Lead
  <2>1. CASE ~About(e, s)
    <3>1. Telling(q, s) = {}
      BY <1>3, <1>6, <2>1
    <3>2. Lead(q, s, l) = l /\ m = l
      BY <2>1, <3>1 DEF Lead, Seen
    <3> QED BY <2>0, <3>2
  <2>2. CASE About(e, s)
    <3>1. Telling(q, s) = {1}
      BY <1>3, <1>6, <2>2
    <3>2. Newest(q, s) = 1
      BY <3>1, NewestIs
    <3>3. ~Introduced(p, s) /\ e.id = s
      BY <1>5, <1>6, <2>2 DEF About
    <3>4. Lead(q, s, l) = m
      <4> HIDE DEF p, e
      <4> QED BY <1>1, <1>4, <2>2, <3>1, <3>2, <3>3 DEF Lead, Seen
    <3> QED BY <2>0, <3>4
  <2> QED BY <2>1, <2>2
<1>7. CASE Telling(p, s) # {}
  <2>1. Newest(p, s) \in Telling(p, s) /\ \A j \in Telling(p, s) : j <= Newest(p, s)
    <3> HIDE DEF p
    <3> QED BY <1>1, <1>7, NewestIs
  <2>2. Newest(p, s) \in DOMAIN p
    BY <2>1 DEF Telling
  <2>3. \A j \in Telling(q, s) : j <= Newest(p, s) + 1
    <3> SUFFICES ASSUME NEW j \in Telling(q, s) PROVE j <= Newest(p, s) + 1
      OBVIOUS
    <3> DEFINE w == Newest(p, s)
    <3>1. w \in Nat /\ w >= 1 /\ j \in Nat
      BY <1>1, <2>2 DEF Telling
    <3>2. j = 1 \/ j - 1 <= w
      BY <1>3, <2>1
    <3>3. j <= w + 1
      <4> HIDE DEF w, p
      <4> QED BY <3>1, <3>2
    <3> QED BY <3>3
  <2>4. Newest(p, s) + 1 = Newest(q, s)
    <3>1. Newest(p, s) + 1 \in Telling(q, s)
      BY <1>3, <2>1
    <3> HIDE DEF p
    <3> QED BY <2>3, <3>1, NewestIs
  <2>5. q[Newest(q, s)] = p[Newest(p, s)]
    BY <1>1, <2>2, <2>4
  <2>6. Telling(q, s) # {}
    BY <1>3, <1>7
  <2>7. m = <<>> <=> l = <<>> /\ ~(e.id = s /\ e.state = "created")
    BY DEF Seen, About
  <2> HIDE DEF p, e, m
  <2>8. Lead(q, s, l) = IF l = <<>> /\ ~Introduced(q, s) THEN <<>>
                         ELSE <<Announced(p[Newest(p, s)])>>
    BY <2>5, <2>6 DEF Lead
  <2>9. Lead(p, s, m) = IF m = <<>> /\ ~Introduced(p, s) THEN <<>>
                         ELSE <<Announced(p[Newest(p, s)])>>
    BY <1>7 DEF Lead
  <2>10. Lead(q, s, l) = Lead(p, s, m)
    BY <1>4, <2>7, <2>8, <2>9
  <2> QED BY <2>10 DEF p, e, m
<1> QED BY <1>6, <1>7

LEMMA LeadOne ==
  ASSUME NEW e, NEW s, NEW l
  PROVE  Lead(<<e>>, s, l) = Seen(e, s, l)
<1>1. <<e>> \in Seq({e}) /\ <<e>> # <<>> /\ Tail(<<e>>) = <<>> /\ Head(<<e>>) = e
  OBVIOUS
<1>2. Lead(<<e>>, s, l) = Lead(Tail(<<e>>), s, Seen(Head(<<e>>), s, l))
  BY <1>1, LeadTail
<1> QED BY <1>1, <1>2, LeadEmpty

(* A queue keeps lines there are, and what it makes of none it makes of any. *)
LEMMA LeadKeeps ==
  ASSUME NEW q, NEW s, NEW l
  PROVE  /\ l # <<>> => Lead(q, s, l) # <<>>
         /\ \A b : b = l \/ b = <<>> =>
                     Lead(q, s, b) = Lead(q, s, l) \/ Lead(q, s, b) = <<>>
         /\ (\A k \in DOMAIN q : ~About(q[k], s)) => Lead(q, s, l) = l
<1>1. Telling(q, s) = {} <=> \A k \in DOMAIN q : ~About(q[k], s)
  BY DEF Telling
<1> QED BY <1>1 DEF Lead

LEMMA BodiesMoved ==
  ASSUME NEW S, NEW q \in Seq(S)
  PROVE  /\ Bodies(q) \in Seq({Body(f) : f \in S})
         /\ \A f \in S : Bodies(Append(q, f)) = Append(Bodies(q), Body(f))
         /\ q # <<>> => /\ Bodies(q) # <<>>
                        /\ Head(Bodies(q)) = Body(Head(q))
                        /\ Tail(Bodies(q)) = Bodies(Tail(q))
<1>1. Bodies(q) \in Seq({Body(f) : f \in S}) /\ Len(Bodies(q)) = Len(q)
  BY DEF Bodies
<1>2. ASSUME NEW f \in S PROVE Bodies(Append(q, f)) = Append(Bodies(q), Body(f))
  BY DEF Bodies
<1>3. ASSUME q # <<>>
      PROVE  /\ Bodies(q) # <<>>
             /\ Head(Bodies(q)) = Body(Head(q))
             /\ Tail(Bodies(q)) = Bodies(Tail(q))
  BY <1>3 DEF Bodies
<1> QED BY <1>1, <1>2, <1>3

LEMMA ElemsMoved ==
  ASSUME NEW S, NEW q \in Seq(S)
  PROVE  /\ Elems(<<>>) = {}
         /\ Elems(q) \subseteq S
         /\ \A f : Elems(Append(q, f)) = Elems(q) \cup {f}
         /\ q # <<>> => Elems(q) = {Head(q)} \cup Elems(Tail(q))
<1>1. ASSUME NEW f PROVE Elems(Append(q, f)) = Elems(q) \cup {f}
  <2>1. /\ DOMAIN Append(q, f) = DOMAIN q \cup {Len(q) + 1}
        /\ \A k \in DOMAIN q : Append(q, f)[k] = q[k]
        /\ Append(q, f)[Len(q) + 1] = f
    OBVIOUS
  <2> QED BY <2>1 DEF Elems
<1>2. ASSUME q # <<>> PROVE Elems(q) = {Head(q)} \cup Elems(Tail(q))
  <2>1. /\ \A k \in DOMAIN Tail(q) : k + 1 \in DOMAIN q /\ Tail(q)[k] = q[k + 1]
        /\ 1 \in DOMAIN q /\ q[1] = Head(q)
        /\ \A k \in DOMAIN q : k = 1 \/ (k - 1 \in DOMAIN Tail(q)
                                         /\ Tail(q)[k - 1] = q[k])
    BY <1>2
  <2>2. \A x : x \in Elems(q) => x = Head(q) \/ x \in Elems(Tail(q))
    BY <2>1 DEF Elems
  <2>3. \A x : x = Head(q) \/ x \in Elems(Tail(q)) => x \in Elems(q)
    BY <2>1 DEF Elems
  <2> QED BY <2>2, <2>3
<1>3. Elems(<<>>) = {}
  <2>1. \A x : x \notin Elems(<<>>)
    BY DEF Elems
  <2> QED BY <2>1
<1>4. Elems(q) \subseteq S
  <2>1. \A k \in DOMAIN q : q[k] \in S
    OBVIOUS
  <2> QED BY <2>1 DEF Elems
<1> QED BY <1>1, <1>2, <1>3, <1>4

(* What has no event in it changes nothing, wherever it is. *)
LEMMA NoNews ==
  ASSUME NEW f, f.kind # "event", NEW s, NEW l
  PROVE  Seen(Body(f), s, l) = l
BY DEF Body, Seen, About, Event

LEMMA Ways ==
  ASSUME ViewInv, NEW g, NEW s, NEW l
  PROVE  /\ \A e \in Events :
              Through(pending, down, g, Append(queue, e), s, l)
                = Seen(e, s, Through(pending, down, g, queue, s, l))
         /\ queue # <<>> =>
              Through(pending, down, <<Head(queue)>>, Tail(queue), s, l)
                = Through(pending, down, <<>>, queue, s, l)
         /\ \A f \in Said \cup Prefixes :
              /\ Through(pending, Append(down, f), <<>>, queue, s, l)
                   = Through(pending, down, <<Body(f)>>, queue, s, l)
              /\ f.kind # "event" =>
                   Through(pending, down, <<Body(f)>>, queue, s, l)
                     = Through(pending, down, <<>>, queue, s, l)
         /\ \A f \in Said \cup Prefixes : f.kind # "event" =>
              Through(pending, Append(down, f), g, queue, s, l)
                = Through(pending, down, g, queue, s, l)
         /\ down # <<>> /\ Head(down).kind # "event" =>
              Through(pending, Tail(down), g, queue, s, l)
                = Through(pending, down, g, queue, s, l)
         /\ down # <<>> /\ Head(down).kind = "event" =>
              /\ Through(Append(pending, Head(down).body), Tail(down), g, queue, s, l)
                   = Through(pending, down, g, queue, s, l)
              /\ pending = <<>> =>
                   Through(pending, Tail(down), g, queue, s, Seen(Head(down).body, s, l))
                     = Through(pending, down, g, queue, s, l)
         /\ pending # <<>> =>
              Through(Tail(pending), down, g, queue, s, Seen(Head(pending), s, l))
                = Through(pending, down, g, queue, s, l)
<1> USE DEF Through
<1> DEFINE p == pending
           d == down
           q == queue
           S == Said \cup Prefixes
           B == {Body(f) : f \in S}
<1>b. /\ Bodies(d) \in Seq(B) /\ \A f \in S : Body(f) \in B
      /\ \A f \in S : Bodies(Append(d, f)) = Append(Bodies(d), Body(f))
      /\ d # <<>> => /\ Bodies(d) # <<>>
                     /\ Head(Bodies(d)) = Body(Head(d))
                     /\ Tail(Bodies(d)) = Bodies(Tail(d))
  <2>1. d \in Seq(S)
    BY DEF ViewInv, WireTypes
  <2> HIDE DEF d, S
  <2> QED BY <2>1, BodiesMoved
<1>t. p \in Seq(Events) /\ q \in Seq(Events) /\ d \in Seq(S)
  BY DEF ViewInv, TaskTypes, ClientTypes, WireTypes
<1>f. d # <<>> /\ Head(d).kind = "event" => Head(d).body \in Events
  <2>1. d # <<>> => Head(d) \in S
    BY <1>t, Queues
  <2> QED BY <2>1, FrameTypes
<1> HIDE DEF B, S, p, d, q
<1>1. ASSUME NEW e \in Events
      PROVE  Through(p, d, g, Append(q, e), s, l) = Seen(e, s, Through(p, d, g, q, s, l))
  BY <1>t, LeadAppend
<1>2. ASSUME q # <<>>
      PROVE  Through(p, d, <<Head(q)>>, Tail(q), s, l) = Through(p, d, <<>>, q, s, l)
  BY <1>2, <1>t, LeadTail, LeadOne, LeadEmpty
<1>3. ASSUME NEW f \in S, NEW m
      PROVE  /\ Lead(Bodies(Append(d, f)), s, m) = Seen(Body(f), s, Lead(Bodies(d), s, m))
             /\ Lead(<<Body(f)>>, s, m) = Seen(Body(f), s, m)
             /\ f.kind # "event" => Seen(Body(f), s, m) = m
  <2>2. Lead(Append(Bodies(d), Body(f)), s, m) = Seen(Body(f), s, Lead(Bodies(d), s, m))
    BY <1>b, <1>t, LeadAppend
  <2>3. Bodies(Append(d, f)) = Append(Bodies(d), Body(f))
    BY <1>b
  <2>4. Lead(<<Body(f)>>, s, m) = Seen(Body(f), s, m)
    BY LeadOne
  <2>5. f.kind # "event" => Seen(Body(f), s, m) = m
    BY NoNews
  <2> QED BY <2>2, <2>3, <2>4, <2>5
<1>4. ASSUME NEW f \in S
      PROVE  /\ Through(p, Append(d, f), <<>>, q, s, l) = Through(p, d, <<Body(f)>>, q, s, l)
             /\ f.kind # "event" =>
                  /\ Through(p, Append(d, f), g, q, s, l) = Through(p, d, g, q, s, l)
                  /\ Through(p, d, <<Body(f)>>, q, s, l) = Through(p, d, <<>>, q, s, l)
  <2>1. \A m : /\ Lead(Bodies(Append(d, f)), s, m) = Seen(Body(f), s, Lead(Bodies(d), s, m))
               /\ Lead(<<Body(f)>>, s, m) = Seen(Body(f), s, m)
               /\ f.kind # "event" => Seen(Body(f), s, m) = m
               /\ Lead(<<>>, s, m) = m
    BY <1>3, LeadEmpty
  <2>2. f.kind # "event" => Seen(Body(f), s, Lead(Bodies(d), s, Lead(p, s, l)))
                              = Lead(Bodies(d), s, Lead(p, s, l))
    BY <2>1
  <2> QED BY <2>1, <2>2
<1>5. ASSUME d # <<>>, NEW m
      PROVE  Lead(Bodies(d), s, m) = Lead(Bodies(Tail(d)), s, Seen(Body(Head(d)), s, m))
  <2>1. Lead(Bodies(d), s, m) = Lead(Tail(Bodies(d)), s, Seen(Head(Bodies(d)), s, m))
    BY <1>5, <1>b, <1>t, LeadTail
  <2> QED BY <1>5, <1>b, <2>1
<1>6. ASSUME d # <<>>, Head(d).kind # "event"
      PROVE  Through(p, Tail(d), g, q, s, l) = Through(p, d, g, q, s, l)
  BY <1>5, <1>6, NoNews
<1>7. ASSUME d # <<>>, Head(d).kind = "event"
      PROVE  /\ Through(Append(p, Head(d).body), Tail(d), g, q, s, l)
                  = Through(p, d, g, q, s, l)
             /\ p = <<>> => Through(p, Tail(d), g, q, s, Seen(Head(d).body, s, l))
                              = Through(p, d, g, q, s, l)
  <2>1. Body(Head(d)) = Head(d).body
    BY <1>7 DEF Body
  <2>2. Lead(Append(p, Head(d).body), s, l) = Seen(Head(d).body, s, Lead(p, s, l))
    BY <1>7, <1>f, <1>t, LeadAppend
  <2> QED BY <1>5, <1>7, <2>1, <2>2, LeadEmpty
<1>8. ASSUME p # <<>>
      PROVE  Through(Tail(p), d, g, q, s, Seen(Head(p), s, l)) = Through(p, d, g, q, s, l)
  BY <1>8, <1>t, LeadTail
<1> QED BY <1>1, <1>2, <1>4, <1>6, <1>7, <1>8, <1>f DEF S, p, d, q

LEMMA WaysKeep ==
  ASSUME NEW p, NEW d, NEW g, NEW q, NEW s, NEW l
  PROVE  /\ l # <<>> => Through(p, d, g, q, s, l) # <<>>
         /\ \/ Through(p, d, g, q, s, <<>>) = Through(p, d, g, q, s, l)
            \/ Through(p, d, g, q, s, <<>>) = <<>>
         /\ (p = <<>> /\ g = <<>> /\ q = <<>> /\ \A f \in Elems(d) : f.kind # "event")
              => Through(p, d, g, q, s, l) = l
<1>1. l # <<>> => Through(p, d, g, q, s, l) # <<>>
  BY LeadKeeps DEF Through
<1>2. \/ Through(p, d, g, q, s, <<>>) = Through(p, d, g, q, s, l)
      \/ Through(p, d, g, q, s, <<>>) = <<>>
  <2>1. Lead(p, s, <<>>) = Lead(p, s, l) \/ Lead(p, s, <<>>) = <<>>
    BY LeadKeeps
  <2>2. \/ Lead(Bodies(d), s, Lead(p, s, <<>>)) = Lead(Bodies(d), s, Lead(p, s, l))
        \/ Lead(Bodies(d), s, Lead(p, s, <<>>)) = <<>>
    BY <2>1, LeadKeeps
  <2>3. \/ Lead(g, s, Lead(Bodies(d), s, Lead(p, s, <<>>)))
             = Lead(g, s, Lead(Bodies(d), s, Lead(p, s, l)))
        \/ Lead(g, s, Lead(Bodies(d), s, Lead(p, s, <<>>))) = <<>>
    BY <2>2, LeadKeeps
  <2> QED BY <2>3, LeadKeeps DEF Through
<1>3. ASSUME p = <<>>, g = <<>>, q = <<>>, \A f \in Elems(d) : f.kind # "event"
      PROVE  Through(p, d, g, q, s, l) = l
  <2>1. DOMAIN Bodies(d) = DOMAIN d
    BY DEF Bodies
  <2>2. ASSUME NEW k \in DOMAIN d PROVE ~About(Bodies(d)[k], s)
    <3>1. d[k].kind # "event"
      BY <1>3 DEF Elems
    <3> QED BY <3>1 DEF Bodies, Body, About, Event
  <2>3. Lead(Bodies(d), s, l) = l
    BY <2>1, <2>2, LeadKeeps
  <2> QED BY <1>3, <2>3, LeadEmpty DEF Through
<1> QED BY <1>1, <1>2, <1>3

-----------------------------------------------------------------------------
(* The rows *)

RowStep(s) ==
  Insert(s) \/ CreateSteps(s) \/ Mark(s) \/ Delete(s) \/ Restart(s)

(* A step on the row of s leaves the others alone, and is either announced later
   or counted as unannounced. *)
LEMMA RowMoves ==
  ASSUME ViewInv, StageType, SayOwn, NEW s \in Sessions, RowStep(s)
  PROVE  /\ StageType' /\ SayOwn'
         /\ \A r \in Sessions \ {s} :
              /\ rows'[r] = rows[r] /\ say'[r] = say[r] /\ stage'[r] = stage[r]
              /\ r \in unannounced' <=> r \in unannounced
              /\ Untold(r)' <=> Untold(r)
         /\ s \in unannounced' \/ Untold(s)'
         /\ rows'[s] \notin Gone /\ NotFirst(s)' => rows[s] \notin Gone /\ NotFirst(s)
         /\ Missed(s) => Missed(s)'
         /\ stage[s] = "run" /\ NotFirst(s) => stage'[s] = "run" /\ NotFirst(s)'
<1>t. /\ rows \in [Sessions -> RowStates]
      /\ say \in [Speakers -> Seq(Events)]
      /\ stage \in [Sessions -> {"none", "insert", "start", "run", "failed"}]
      /\ Poller \notin Sessions /\ Speakers = Sessions \cup {Poller}
      /\ \A a \in Sessions : say[a] # <<>> => Head(say[a]).id = a
  BY SessionsAssumption DEF ViewInv, RowTypes, StageType, SayOwn, Speakers, Poller
<1>e. \A state : /\ <<Event(s, state)>> # <<>>
                 /\ Head(<<Event(s, state)>>) = [id |-> s, state |-> state]
  BY DEF Event
<1>g. {"creating", "starting", "running", "exited"} \cap Gone = {}
      /\ {"absent", "deleted"} \subseteq Gone
  BY DEF Gone
(* Either the create's own events, or the poller's, or nothing is to be said. *)
<1>1. ASSUME NEW a \in {s, Poller}, NEW state, say' = [say EXCEPT ![a] = <<Event(s, state)>>],
             a = Poller => say[Poller] = <<>>
      PROVE  /\ SayOwn' /\ Untold(s)'
             /\ \A r \in Sessions \ {s} : say'[r] = say[r] /\ (Untold(r)' <=> Untold(r))
             /\ a = s => (NotFirst(s)' <=> state # "created")
             /\ a = Poller => (NotFirst(s)' <=> NotFirst(s))
  <2>1. /\ a \in Speakers /\ say'[a] = <<Event(s, state)>>
        /\ \A b \in Speakers \ {a} : say'[b] = say[b]
    BY <1>1, <1>t
  <2>2. Head(say'[a]).id = s /\ Head(say'[a]).state = state /\ say'[a] # <<>>
    BY <1>e, <2>1
  <2>3. say[a] # <<>> => Head(say[a]).id = s
    BY <1>1, <1>t
  <2>4. SayOwn'
    BY <1>t, <2>1, <2>2 DEF SayOwn
  <2>5. \A r \in Sessions \ {s} : Untold(r)' <=> Untold(r)
    BY <2>1, <2>2, <2>3 DEF Untold
  <2>6. Untold(s)'
    BY <2>1, <2>2 DEF Untold
  <2> QED BY <1>1, <1>t, <2>1, <2>2, <2>4, <2>5, <2>6 DEF NotFirst
<1>2. ASSUME say' = say
      PROVE  /\ SayOwn' /\ (NotFirst(s)' <=> NotFirst(s))
             /\ \A r \in Sessions \ {s} : say'[r] = say[r] /\ (Untold(r)' <=> Untold(r))
  BY <1>2 DEF SayOwn, NotFirst, Untold
<1>3. ASSUME NEW state, rows' = Written(s, state), state \notin Gone
      PROVE  /\ \A r \in Sessions \ {s} : rows'[r] = rows[r]
             /\ rows'[s] \in Gone <=> rows[s] \in Gone
  BY <1>3, <1>t DEF Written
<1>4. CASE Insert(s)
  <2>1. /\ rows' = [rows EXCEPT ![s] = "creating"] /\ stage[s] = "none"
        /\ stage' = [stage EXCEPT ![s] = "insert"]
        /\ say' = [say EXCEPT ![s] = <<Event(s, "created")>>]
        /\ UNCHANGED unannounced
    BY <1>4 DEF Insert, Unsaid
  <2>2. StageType' /\ rows'[s] \notin Gone
        /\ \A r \in Sessions \ {s} : rows'[r] = rows[r] /\ stage'[r] = stage[r]
    BY <1>t, <1>g, <2>1 DEF StageType
  <2>3. /\ SayOwn' /\ Untold(s)' /\ ~NotFirst(s)' /\ stage[s] # "run"
        /\ \A r \in Sessions \ {s} : say'[r] = say[r] /\ (Untold(r)' <=> Untold(r))
    <3>1. s # Poller
      BY <1>t
    <3> QED BY <1>1, <2>1, <3>1
  <2> QED BY <2>1, <2>2, <2>3 DEF Missed
<1>5. ASSUME NEW from \in {"insert", "start"}, NEW to \in {"start", "run"},
             NEW state \in {"starting", "running"}, MoveOn(s, from, to, state)
      PROVE  /\ StageType' /\ SayOwn'
             /\ \A r \in Sessions \ {s} :
                  /\ rows'[r] = rows[r] /\ say'[r] = say[r] /\ stage'[r] = stage[r]
                  /\ r \in unannounced' <=> r \in unannounced
                  /\ Untold(r)' <=> Untold(r)
             /\ Untold(s)' /\ NotFirst(s) /\ stage[s] # "run"
             /\ rows'[s] \in Gone <=> rows[s] \in Gone
             /\ s \in unannounced' <=> s \in unannounced
  <2>1. /\ rows' = Written(s, state) /\ stage[s] = from /\ say[s] = <<>>
        /\ stage' = [stage EXCEPT ![s] = to]
        /\ say' = [say EXCEPT ![s] = <<Event(s, state)>>]
        /\ UNCHANGED unannounced
    BY <1>5 DEF MoveOn, Unsaid
  <2>2. StageType' /\ stage[s] # "run" /\ \A r \in Sessions \ {s} : stage'[r] = stage[r]
    BY <1>t, <2>1 DEF StageType
  <2>3. state \notin Gone
    BY <1>g
  <2>4. NotFirst(s)
    BY <2>1 DEF NotFirst
  <2> QED BY <1>1, <1>3, <2>1, <2>2, <2>3, <2>4
<1>6. CASE Rollback(s)
  <2>1. /\ rows' = [rows EXCEPT ![s] = "absent"] /\ stage[s] # "run"
        /\ stage' = [stage EXCEPT ![s] = "failed"]
        /\ say' = say /\ unannounced' = unannounced \cup {s}
    BY <1>6 DEF Rollback
  <2>2. StageType' /\ rows'[s] \in Gone
        /\ \A r \in Sessions \ {s} : rows'[r] = rows[r] /\ stage'[r] = stage[r]
    BY <1>t, <1>g, <2>1 DEF StageType
  <2> QED BY <1>2, <2>1, <2>2 DEF Missed
<1>7. CASE Mark(s)
  <2>1. /\ rows' = Written(s, "exited") /\ say[Poller] = <<>>
        /\ say' = [say EXCEPT ![Poller] = <<Event(s, "exited")>>]
        /\ UNCHANGED <<stage, unannounced>>
    BY <1>7 DEF Mark
  <2>2. "exited" \notin Gone
    BY <1>g
  <2>3. StageType'
    BY <1>t, <2>1 DEF StageType
  <2> QED BY <1>1, <1>3, <2>1, <2>2, <2>3 DEF Missed
<1>8. CASE Delete(s)
  <2>1. /\ rows' = [rows EXCEPT ![s] = "deleted"] /\ UNCHANGED <<stage, say>>
        /\ unannounced' = unannounced \cup {s}
    BY <1>8 DEF Delete
  <2>2. StageType' /\ rows'[s] \in Gone /\ \A r \in Sessions \ {s} : rows'[r] = rows[r]
    BY <1>t, <1>g, <2>1 DEF StageType
  <2> QED BY <1>2, <2>1, <2>2 DEF Missed
<1>9. CASE Restart(s)
  <2>1. /\ rows' = [rows EXCEPT ![s] = "running"] /\ UNCHANGED <<stage, say>>
        /\ unannounced' = unannounced \cup {s} /\ rows[s] \notin Gone
    BY <1>9 DEF Restart
  <2>2. StageType' /\ \A r \in Sessions \ {s} : rows'[r] = rows[r]
    BY <1>t, <2>1 DEF StageType
  <2> QED BY <1>2, <2>1, <2>2 DEF Missed
<1> QED BY <1>4, <1>5, <1>6, <1>7, <1>8, <1>9 DEF RowStep, CreateSteps, Missed

(* ... while nothing moves towards the list, but that a create may take over the
   connection's task. *)
LEMMA RowStepKeeps ==
  ASSUME ViewInv, RowInv, NEW s \in Sessions, RowStep(s),
         UNCHANGED <<doing, shown, queue, pending, down, up, call, half, torn, lagged,
                     subscribed>>,
         OnTheWay' = OnTheWay, Going' = Going, task' = "closed" <=> task = "closed",
         task' = "body" <=> task = "body",
         task' = "create" => out' = out /\ (task = "create" \/ (Insert(s) /\ out.body.for = s))
  PROVE  RowInv'
<1>m. /\ StageType' /\ SayOwn'
      /\ \A r \in Sessions \ {s} :
           /\ rows'[r] = rows[r] /\ say'[r] = say[r] /\ stage'[r] = stage[r]
           /\ r \in unannounced' <=> r \in unannounced
           /\ Untold(r)' <=> Untold(r)
      /\ s \in unannounced' \/ Untold(s)'
      /\ rows'[s] \notin Gone /\ NotFirst(s)' => rows[s] \notin Gone /\ NotFirst(s)
      /\ Missed(s) => Missed(s)'
      /\ stage[s] = "run" /\ NotFirst(s) => stage'[s] = "run" /\ NotFirst(s)'
  BY RowMoves DEF RowInv
<1>1. /\ BeforeSubscribe' /\ SubscribedWhen' /\ TornLater' /\ InStep' /\ HalfRead'
      /\ PlainAnswers'
  BY DEF RowInv, BeforeSubscribe, SubscribedWhen, TornLater, InStep, HalfRead, Reading, PlainAnswers
<1>2. CreatedHere'
  <2> SUFFICES ASSUME "down" \notin torn, NEW r \in Sessions
               PROVE  /\ task' = "create" /\ out'.body.for = r => Missed(r)'
                      /\ (\E f \in OnTheWay : Returns(f, r)) =>
                           Missed(r)' /\ stage'[r] = "run" /\ NotFirst(r)'
    BY DEF CreatedHere, Returns
  <2>1. /\ task = "create" /\ out.body.for = r => Missed(r)
        /\ (\E f \in OnTheWay : Returns(f, r)) =>
             Missed(r) /\ stage[r] = "run" /\ NotFirst(r)
    BY DEF RowInv, CreatedHere
  <2>2. CASE r = s
    <3>1. Insert(s) => Missed(s)'
      BY DEF Insert, Missed, Gone, ViewInv, RowTypes
    <3> QED BY <1>m, <2>1, <2>2, <3>1
  <2>3. CASE r # s
    <3>1. Missed(r) => Missed(r)'
      BY <1>m, <2>3 DEF Missed
    <3>2. NotFirst(r) => NotFirst(r)'
      BY <1>m, <2>3 DEF NotFirst
    <3> QED BY <1>m, <2>1, <2>3, <3>1, <3>2
  <2> QED BY <2>2, <2>3
<1>3. UpToDate'
  <2> SUFFICES ASSUME Following, NEW r \in Sessions
               PROVE  Shows(r, Reached(r, Base(r)))'
    BY DEF UpToDate, Following
  <2>1. Shows(r, Reached(r, Base(r)))
    BY DEF RowInv, UpToDate
  <2>2. \A l : Through(pending', down', Going', queue', r, l)
                 = Through(pending, down, Going, queue, r, l)
    OBVIOUS
  <2>3. Listings' = Listings
    BY DEF Listings, IsListing
  <2>4. CASE r # s
    <3>1. Listed(r)' = Listed(r)
      BY <1>m, <2>4 DEF Listed
    <3>2. Base(r)' = Base(r)
      BY <2>3, <3>1 DEF Base
    <3>3. Reached(r, Base(r))' = Reached(r, Base(r))
      BY <2>2, <3>2 DEF Reached
    <3>4. NotFirst(r)' <=> NotFirst(r)
      BY <1>m, <2>4 DEF NotFirst
    <3> QED BY <1>m, <2>1, <2>4, <3>1, <3>3, <3>4 DEF Shows
  <2>5. CASE r = s
    <3> SUFFICES ASSUME rows'[s] \notin Gone, NotFirst(s)'
                 PROVE  Reached(s, Base(s))' # <<>>
      BY <1>m, <2>5 DEF Shows
    <3>1. Reached(s, Base(s)) # <<>>
      BY <1>m, <2>1, <2>5 DEF Shows
    <3>2. CASE Base(s)' = Base(s)
      BY <2>2, <2>5, <3>1, <3>2 DEF Reached
    <3>3. CASE Base(s)' = Listed(s)'
      <4>1. Base(s)' # <<>>
        BY <3>3 DEF Listed
      <4> QED BY <4>1, WaysKeep DEF Reached
    <3>4. Base(s)' = Base(s) \/ Base(s)' = Listed(s)'
      BY <2>3 DEF Base
    <3> QED BY <3>2, <3>3, <3>4
  <2> QED BY <2>4, <2>5
<1> QED BY <1>m, <1>1, <1>2, <1>3 DEF RowInv

(* What a step that leaves the rows alone has to show. *)
LEMMA Carried ==
  ASSUME RowInv, UNCHANGED <<rows, stage, say, unannounced>>,
         "down" \in torn => "down" \in torn'
  PROVE  /\ StageType' /\ SayOwn'
         /\ \A s \in Sessions :
              /\ Listed(s)' = Listed(s) /\ (Missed(s)' <=> Missed(s))
              /\ NotFirst(s)' <=> NotFirst(s)
              /\ \A l : Shows(s, l)' <=> Shows(s, l)
         /\ task' # "create" /\ (\A f \in OnTheWay' : f \in OnTheWay \/ f.kind # "response")
              => CreatedHere' /\ PlainAnswers'
         /\ (Following' => Following) /\ (Following => \A s \in Sessions :
               Reached(s, Base(s))' = Reached(s, Base(s)))
              => UpToDate'
<1>1. StageType' /\ SayOwn'
  BY DEF RowInv, StageType, SayOwn
<1>2. ASSUME NEW s \in Sessions
      PROVE  /\ Listed(s)' = Listed(s) /\ (Missed(s)' <=> Missed(s))
             /\ NotFirst(s)' <=> NotFirst(s)
             /\ Untold(s)' <=> Untold(s)
  BY DEF Listed, Missed, NotFirst, Untold
<1>3. ASSUME NEW s \in Sessions, NEW l
      PROVE  Shows(s, l)' <=> Shows(s, l)
  BY <1>2 DEF Shows
<1>4. ASSUME task' # "create", \A f \in OnTheWay' : f \in OnTheWay \/ f.kind # "response"
      PROVE  CreatedHere' /\ PlainAnswers'
  BY <1>2, <1>4 DEF RowInv, CreatedHere, PlainAnswers, Returns, OwnLines
<1>5. ASSUME Following' => Following,
             Following => \A s \in Sessions :
               Reached(s, Base(s))' = Reached(s, Base(s))
      PROVE  UpToDate'
  <2> SUFFICES ASSUME Following', NEW s \in Sessions
               PROVE  Shows(s, Reached(s, Base(s)))'
    BY DEF UpToDate
  <2>1. Shows(s, Reached(s, Base(s))) /\ Reached(s, Base(s))' = Reached(s, Base(s))
    BY <1>5 DEF RowInv, UpToDate
  <2> QED BY <1>2, <2>1 DEF Shows
<1> QED BY <1>1, <1>2, <1>3, <1>4, <1>5

LEMMA RowSame ==
  ASSUME RowInv, UNCHANGED <<rows, stage, say, unannounced, uiVars, streamVars>>
  PROVE  RowInv'
<1> USE DEF uiVars, streamVars, busVars, taskVars, callVars
<1>1. OnTheWay' = OnTheWay /\ Going' = Going /\ (task' = "create" <=> task = "create")
  BY DEF OnTheWay, Writing, Going
<1>2. /\ BeforeSubscribe' /\ SubscribedWhen' /\ TornLater' /\ InStep' /\ HalfRead'
      /\ PlainAnswers'
  BY <1>1 DEF RowInv, BeforeSubscribe, SubscribedWhen, TornLater, InStep, HalfRead,
              Reading, PlainAnswers
<1>3. CreatedHere'
  BY <1>1, Carried DEF RowInv, CreatedHere, Returns
<1>4. \A s \in Sessions : Reached(s, Base(s))' = Reached(s, Base(s))
  <2> SUFFICES ASSUME NEW s \in Sessions
               PROVE  Reached(s, Base(s))' = Reached(s, Base(s))
    OBVIOUS
  <2>1. Base(s)' = Base(s)
    <3>1. Listed(s)' = Listed(s)
      BY Carried
    <3>2. Listings' = Listings
      BY <1>1 DEF Listings, IsListing
    <3> QED BY <3>1, <3>2 DEF Base
  <2> QED BY <1>1, <2>1 DEF Reached
<1> QED BY <1>2, <1>3, <1>4, Carried DEF RowInv, Following

(* What is published reaches the list last, unless it drives something out. *)
LEMMA PublishRows ==
  ASSUME ViewInv, RowInv, NEW e \in Events, Publish(e),
         UNCHANGED <<rows, stage, uiVars>>, StageType', SayOwn', CreatedHere',
         \A s \in Sessions :
           \A l : Shows(s, l) => Shows(s, Seen(e, s, l))'
  PROVE  RowInv'
<1> USE DEF busVars, taskVars, callVars, uiVars
<1>1. /\ UNCHANGED <<task, out, subscribed, up, down, torn, call, half, pending>>
      /\ UNCHANGED <<doing, shown>> /\ (~subscribed => queue' = queue)
      /\ subscribed /\ ~lagged' => ~lagged /\ queue' = Append(queue, e)
  BY DEF Publish
<1>2. OnTheWay' = OnTheWay /\ Going' = Going
  BY <1>1 DEF OnTheWay, Writing, Going
<1>3. /\ BeforeSubscribe' /\ SubscribedWhen' /\ TornLater' /\ InStep' /\ HalfRead'
      /\ PlainAnswers'
  BY <1>1, <1>2 DEF RowInv, BeforeSubscribe, SubscribedWhen, TornLater, InStep, HalfRead,
                    Reading, PlainAnswers
<1>4. UpToDate'
  <2> SUFFICES ASSUME Following', NEW s \in Sessions
               PROVE  Shows(s, Reached(s, Base(s)))'
    BY DEF UpToDate
  <2>1. Following /\ queue' = Append(queue, e)
    BY <1>1 DEF Following
  <2>2. Shows(s, Reached(s, Base(s)))
    BY <2>1 DEF RowInv, UpToDate
  <2>3. Base(s)' = Base(s)
    BY <1>1, <1>2 DEF Base, Listed, Listings, IsListing
  <2>4. /\ queue \in Seq(Events) /\ pending \in Seq(Events)
        /\ down \in Seq(Said \cup Prefixes)
    BY DEF ViewInv, TaskTypes, ClientTypes, WireTypes
  <2>5. Reached(s, Base(s))' = Seen(e, s, Reached(s, Base(s)))
    <3>1. Reached(s, Base(s))' = Through(pending, down, Going, Append(queue, e), s, Base(s))
      BY <1>1, <1>2, <2>1, <2>3 DEF Reached
    <3>2. Through(pending, down, Going, Append(queue, e), s, Base(s))
            = Seen(e, s, Through(pending, down, Going, queue, s, Base(s)))
      BY Ways
    <3> QED BY <3>1, <3>2 DEF Reached
  <2> DEFINE l == Reached(s, Base(s))
  <2> QED BY <2>2, <2>5 DEF Shows
<1> QED BY <1>3, <1>4 DEF RowInv

LEMMA AnnounceRows ==
  ASSUME ViewInv, RowInv, NEW a \in Speakers, Announce(a), UNCHANGED uiVars
  PROVE  RowInv'
<1>t. /\ say \in [Speakers -> Seq(Events)] /\ say[a] # <<>>
      /\ \A s \in Sessions : rows[s] \in RowStates
      /\ Sessions \subseteq Speakers
  BY DEF Announce, ViewInv, RowTypes, Speakers
<1>e. PICK e \in Events : e = Head(say[a])
  BY <1>t, Queues
<1>n. e.id \in Sessions /\ Announced(e) \notin Gone /\ (e.state = "screen" => Announced(e) \notin RowStates)
  BY <1>e DEF Announced, Events, Gone, RowStates
<1>1. /\ Publish(e) /\ UNCHANGED <<rows, stage>>
      /\ unannounced' = IF Announced(e) = rows[e.id] THEN unannounced \ {e.id}
                        ELSE unannounced \cup {e.id}
      /\ say' = [say EXCEPT ![a] = <<>>]
  BY <1>e DEF Announce
<1>2. /\ say'[a] = <<>> /\ \A b \in Speakers : b # a => say'[b] = say[b]
      /\ Head(say[a]).id = e.id /\ Head(say[a]).state = e.state
  BY <1>t, <1>e, <1>1
<1>3. StageType' /\ SayOwn'
  BY <1>1, <1>2, <1>t DEF RowInv, StageType, SayOwn
<1>4. ASSUME NEW s \in Sessions
      PROVE  /\ NotFirst(s) => NotFirst(s)'
             /\ Missed(s) => Missed(s)'
             /\ s # e.id => /\ NotFirst(s)' <=> NotFirst(s)
                            /\ Untold(s)' <=> Untold(s)
                            /\ s \in unannounced' <=> s \in unannounced
             /\ s = e.id /\ ~NotFirst(s) => e.state = "created" \/ (~NotFirst(s)' /\ Untold(s)')
  <2>1. NotFirst(s) => NotFirst(s)'
    BY <1>2, <1>t DEF NotFirst
  <2>2. Missed(s) => Missed(s)'
    BY <1>1, <1>n DEF Missed
  <2>3. say[s] # <<>> => Head(say[s]).id = s
    BY DEF RowInv, SayOwn
  <2>4. ASSUME s # e.id
        PROVE  /\ NotFirst(s)' <=> NotFirst(s)
               /\ Untold(s)' <=> Untold(s)
               /\ s \in unannounced' <=> s \in unannounced
    <3>1. s # a
      BY <1>2, <1>t, <2>3, <2>4
    <3> QED BY <1>1, <1>2, <1>t, <2>4, <3>1 DEF NotFirst, Untold
  <2>5. ASSUME s = e.id, ~NotFirst(s)
        PROVE  e.state = "created" \/ (~NotFirst(s)' /\ Untold(s)')
    BY <1>2, <1>t, <2>3, <2>5 DEF NotFirst, Untold
  <2> QED BY <2>1, <2>2, <2>4, <2>5
<1>5. CreatedHere'
  <2>1. UNCHANGED <<task, out, torn, down>>
    BY <1>1 DEF Publish, taskVars
  <2>2. OnTheWay' = OnTheWay
    BY <2>1 DEF OnTheWay, Writing
  <2> QED BY <1>1, <1>4, <2>1, <2>2 DEF RowInv, CreatedHere, Returns
<1>6. ASSUME NEW s \in Sessions, NEW l, Shows(s, l)
      PROVE  Shows(s, Seen(e, s, l))'
  <2> SUFFICES /\ rows[s] \notin Gone /\ NotFirst(s)' => Seen(e, s, l) # <<>>
               /\ s \notin unannounced' /\ ~Untold(s)' => Seen(e, s, l) = Listed(s)
    <3>1. Listed(s)' = Listed(s) /\ rows'[s] = rows[s]
      BY <1>1 DEF Listed
    <3> QED BY <3>1 DEF Shows, Seen, About, Announced
  <2>1. CASE s # e.id
    BY <1>1, <1>4, <1>6, <2>1 DEF Shows, Seen, About
  <2>2. CASE s = e.id
    <3>1. About(e, s) <=> e.state # "screen"
      BY <2>2 DEF About
    <3>2. ASSUME rows[s] \notin Gone, NotFirst(s)'
          PROVE  Seen(e, s, l) # <<>>
      <4>1. NotFirst(s) \/ e.state = "created"
        BY <1>4, <2>2, <3>2
      <4>2. NotFirst(s) => l # <<>>
        BY <1>6, <3>2 DEF Shows
      <4> QED BY <3>1, <4>1, <4>2 DEF Seen
    <3>3. ASSUME s \notin unannounced', ~Untold(s)'
          PROVE  Seen(e, s, l) = Listed(s)
      <4>1. Announced(e) = rows[s]
        BY <1>1, <2>2, <3>3
      <4>2. Listed(s) = <<Announced(e)>> /\ rows[s] \notin Gone /\ About(e, s)
        BY <1>n, <1>t, <3>1, <4>1 DEF Listed
      <4>3. NotFirst(s) \/ e.state = "created"
        BY <1>4, <2>2, <3>3
      <4>4. l # <<>> \/ e.state = "created"
        BY <1>6, <4>2, <4>3 DEF Shows
      <4> QED BY <4>2, <4>4 DEF Seen
    <3> QED BY <3>2, <3>3
  <2> QED BY <2>1, <2>2
<1> QED BY <1>1, <1>3, <1>5, <1>6, PublishRows

LEMMA DaemonRows ==
  ASSUME ViewInv, RowInv, Daemon PROVE RowInv'
<1>u. UNCHANGED uiVars
  BY DEF Daemon
<1>1. ASSUME NEW s \in Sessions, RowStep(s), UNCHANGED streamVars
      PROVE  RowInv'
  <2>1. OnTheWay' = OnTheWay /\ Going' = Going /\ UNCHANGED <<task, out>>
    BY <1>1 DEF OnTheWay, Writing, Going, streamVars, taskVars
  <2>2. UNCHANGED <<doing, shown, queue, pending, down, up, call, half, torn, lagged,
                    subscribed>>
    BY <1>1, <1>u DEF streamVars, busVars, callVars, uiVars
  <2> QED BY <1>1, <2>1, <2>2, RowStepKeeps
<1>2. CASE Poll /\ UNCHANGED streamVars
  BY <1>2, <1>u, RowSame DEF Poll
<1>3. ASSUME NEW a \in Speakers, Announce(a) PROVE RowInv'
  BY <1>3, <1>u, AnnounceRows
<1>4. ASSUME NEW s \in Sessions, ScreenChange(s) PROVE RowInv'
  <2>1. /\ Publish(Event(s, "screen")) /\ Event(s, "screen") \in Events
        /\ UNCHANGED <<rows, stage, say, unannounced>>
    BY <1>4, FrameTypes DEF ScreenChange, rowVars
  <2>2. \A r, l : Seen(Event(s, "screen"), r, l) = l
    BY DEF Seen, About, Event
  <2>3. UNCHANGED <<task, out, torn, down>>
    BY <2>1 DEF Publish, taskVars
  <2>4. OnTheWay' = OnTheWay
    BY <2>3 DEF OnTheWay, Writing
  <2>5. StageType' /\ SayOwn' /\ CreatedHere'
    BY <2>1, <2>3, <2>4, Carried DEF RowInv, CreatedHere, Returns
  <2>6. \A r \in Sessions : \A l :
          Shows(r, l) => Shows(r, Seen(Event(s, "screen"), r, l))'
    <3> SUFFICES ASSUME NEW r \in Sessions, NEW l, Shows(r, l)
                 PROVE  Shows(r, Seen(Event(s, "screen"), r, l))'
      OBVIOUS
    <3>1. Shows(r, l)'
      BY <2>1, <2>3, Carried
    <3> QED BY <3>1 DEF Seen, About, Event
  <2> QED BY <1>u, <2>1, <2>5, <2>6, PublishRows
<1> QED BY <1>1, <1>2, <1>3, <1>4 DEF Daemon, RowStep

(* A response takes the way of its request, and a listing that of the rows. *)
LEMMA RespondRows ==
  ASSUME ViewInv, AnswerInv, RowInv, task \in {"busy", "create"},
         NEW r \in Requests, out.body.for = r, NEW l \in Lists, Respond(Answer(r, l)),
         UNCHANGED <<rowVars, uiVars>>,
         r = "list" => l = [s \in Sessions |-> Listed(s)],
         r # "list" => \A s \in Sessions : s # r => l[s] = <<>>,
         r \in Sessions /\ l[r] # <<>> /\ "down" \notin torn =>
           Missed(r) /\ stage[r] = "run" /\ NotFirst(r)
  PROVE  RowInv'
<1> USE DEF rowVars, uiVars, busVars, callVars
<1>1. /\ UNCHANGED <<rows, stage, say, unannounced, doing, shown, subscribed, queue,
                     lagged, up, down, torn, call, half, pending>>
      /\ task' = "head" /\ out'.kind = "response" /\ out'.body.for = r
      /\ out'.body.listed = l /\ out' \in Said
  BY FrameTypes DEF Respond, Answer, Frame
<1>2. "down" \notin torn =>
        /\ call = "wait" /\ up = <<>> /\ Silent(down) /\ r = doing
  <2>1. call \in {"none", "head", "next", "body", "wait"}
    BY DEF ViewInv, ClientTypes
  <2> QED BY <2>1
          DEF AnswerInv, OneRequest, NotAsked, HalfAsked, AskedNow, Handled,
              Answering, Answered, Loop, Asking, Frame
<1>3. /\ OnTheWay = Elems(down) /\ OnTheWay' = Elems(down) \cup {out'}
      /\ Going = <<>> /\ Going' = <<Body(out')>>
  BY <1>1 DEF OnTheWay, Writing, Going
<1>4. BeforeSubscribe' /\ SubscribedWhen' /\ TornLater' /\ InStep' /\ HalfRead'
  BY <1>1, <1>3 DEF RowInv, BeforeSubscribe, SubscribedWhen, TornLater, InStep, HalfRead,
                    Reading
<1>5. PlainAnswers'
  BY <1>1, <1>3 DEF RowInv, PlainAnswers, OwnLines
<1>6. CreatedHere'
  <2> SUFFICES ASSUME "down" \notin torn, NEW s \in Sessions, NEW f \in OnTheWay',
                      Returns(f, s)
               PROVE  Missed(s) /\ stage[s] = "run" /\ NotFirst(s)
    BY <1>1 DEF CreatedHere, Missed, NotFirst, Returns
  <2>1. CASE f \in OnTheWay
    BY <2>1 DEF RowInv, CreatedHere
  <2>2. CASE f = out'
    BY <1>1, <2>2 DEF Returns
  <2> QED BY <1>3, <2>1, <2>2
<1>7. ASSUME Following, NEW s \in Sessions
      PROVE  Reached(s, Base(s))' = Reached(s, Base(s))
  <2>1. Base(s)' = Base(s)
    <3>1. Listings = {} /\ "down" \notin torn /\ doing # "version"
      <4>1. \A f \in Elems(down) : f.kind # "response"
        BY <1>2, <1>7 DEF Following, Silent, Elems
      <4> QED BY <1>3, <1>7, <4>1 DEF Listings, IsListing, Following, RowInv, SubscribedWhen
    <3>2. CASE r = "list"
      <4>1. Listings' = {l}
        <5>1. \A f \in Elems(down) : ~IsListing(f)
          BY <1>2, <3>1 DEF Silent, Elems, IsListing
        <5>2. IsListing(out')
          BY <1>1, <3>2 DEF IsListing
        <5>3. {g \in OnTheWay' : IsListing(g)} = {out'}
          BY <1>3, <5>1, <5>2
        <5> QED BY <1>1, <5>3 DEF Listings, IsListing
      <4>2. (CHOOSE m \in Listings' : TRUE) = l
        BY <4>1
      <4>3. l[s] = Listed(s)
        BY <3>2
      <4>4. Base(s)' = l[s]
        BY <1>1, <1>2, <3>1, <3>2, <4>1, <4>2 DEF Base
      <4> QED BY <1>2, <3>1, <3>2, <4>3, <4>4 DEF Base
    <3>3. CASE r # "list"
      <4>1. Listings' = {}
        BY <1>1, <1>3, <3>1, <3>3 DEF Listings, IsListing
      <4> QED BY <1>1, <3>1, <4>1 DEF Base, Listed
    <3> QED BY <3>2, <3>3
  <2>2. Through(pending, down, <<Body(out')>>, queue, s, Base(s))
          = Through(pending, down, <<>>, queue, s, Base(s))
    <3>1. out' \in Said \cup Prefixes /\ out'.kind # "event"
      BY <1>1
    <3> QED BY <3>1, Ways
  <2> QED BY <1>1, <1>3, <2>1, <2>2 DEF Reached
<1>8. Following' => Following
  BY <1>1 DEF Following
<1> QED BY <1>1, <1>4, <1>5, <1>6, <1>7, <1>8, Carried DEF RowInv

LEMMA HandlerRows ==
  ASSUME ViewInv, AnswerInv, RowInv, Handler PROVE RowInv'
<1>u. UNCHANGED uiVars
  BY DEF Handler
<1>p. Plain \cap Sessions = {} /\ "list" \in Plain /\ Plain \subseteq Requests
      /\ Sessions \subseteq Requests
  BY SessionsAssumption DEF Plain, Requests
<1>1. CASE Reply
  <2> DEFINE l == IF out.body.for = "list" THEN [s \in Sessions |-> Listed(s)]
                  ELSE NoSessions
  <2>1. task = "busy" /\ out.body.for \in Plain /\ Respond(Answer(out.body.for, l))
        /\ UNCHANGED rowVars
    BY <1>1 DEF Reply
  <2>2. l \in Lists
    BY ListsMade DEF ViewInv
  <2>3. out.body.for # "list" => \A s \in Sessions : l[s] = <<>>
    BY DEF NoSessions
  <2>4. out.body.for \in Requests /\ out.body.for \notin Sessions
    BY <1>p, <2>1
  <2>5. out.body.for = "list" => l = [s \in Sessions |-> Listed(s)]
    OBVIOUS
  <2> HIDE DEF l
  <2> QED BY <1>u, <2>1, <2>2, <2>3, <2>4, <2>5, RespondRows
<1>2. ASSUME NEW s \in Sessions, ReplyCreate(s) PROVE RowInv'
  <2>s. s \in Requests /\ s # "list"
    BY <1>p
  <2>1. CASE task = "busy" /\ task' = "create" /\ out.body.for = s /\ Insert(s)
             /\ UNCHANGED <<out, busVars, up, down, torn, callVars>>
    <3>1. OnTheWay' = OnTheWay /\ Going' = Going
      BY <2>1 DEF OnTheWay, Writing, Going
    <3>2. UNCHANGED <<doing, shown, queue, pending, down, up, call, half, torn, lagged,
                      subscribed>>
      BY <1>u, <2>1 DEF busVars, callVars, uiVars
    <3> QED BY <2>1, <3>1, <3>2, RowStepKeeps DEF RowStep
  <2>2. CASE task = "busy" /\ out.body.for = s /\ Respond(Answer(s, NoSessions))
             /\ UNCHANGED rowVars
    <3>1. NoSessions \in Lists /\ \A r \in Sessions : NoSessions[r] = <<>>
      BY ListsMade DEF NoSessions
    <3> QED BY <1>u, <2>s, <2>2, <3>1, RespondRows
  <2>3. CASE /\ task = "create" /\ stage[s] \in {"run", "failed"} /\ say[s] = <<>>
             /\ out.body.for = s
             /\ Respond(Answer(s, IF stage[s] = "failed" THEN NoSessions
                                  ELSE [NoSessions EXCEPT ![s] = <<"running">>]))
             /\ UNCHANGED rowVars
    <3> DEFINE l == IF stage[s] = "failed" THEN NoSessions
                    ELSE [NoSessions EXCEPT ![s] = <<"running">>]
    <3>1. l \in Lists /\ (stage[s] = "failed" => l[s] = <<>>)
          /\ \A r \in Sessions : r # s => l[r] = <<>>
      <4>1. l \in Lists
        BY ListsMade
      <4>2. NoSessions = [r \in Sessions |-> <<>>]
        BY DEF NoSessions
      <4> QED BY <4>1, <4>2
    <3>2. Respond(Answer(s, l))
      BY <2>3
    <3>3. NotFirst(s)
      BY <2>3 DEF NotFirst
    <3>4. "down" \notin torn => Missed(s)
      BY <2>3 DEF RowInv, CreatedHere
    <3> HIDE DEF l
    <3> QED BY <1>u, <2>s, <2>3, <3>1, <3>2, <3>3, <3>4, RespondRows
  <2> QED BY <1>2, <2>1, <2>2, <2>3 DEF ReplyCreate
<1> QED BY <1>1, <1>2 DEF Handler

(* Lengths and payloads, put in and taken out. *)
LEMMA AlternatesMoved ==
  ASSUME NEW S, NEW q \in Seq(S), Alternates(q)
  PROVE  /\ \A f \in S :
              /\ q = <<>> \/ (Opens(q[Len(q)]) <=> ~Opens(f)) => Alternates(Append(q, f))
              /\ Append(q, f) # <<>> /\ Append(q, f)[Len(Append(q, f))] = f
              /\ Head(Append(q, f)) = IF q = <<>> THEN f ELSE Head(q)
         /\ q # <<>> /\ Tail(q) = <<>> => q[Len(q)] = Head(q)
         /\ q # <<>> => Alternates(Tail(q))
         /\ q # <<>> /\ Tail(q) # <<>> =>
              /\ Opens(Head(Tail(q))) <=> ~Opens(Head(q))
              /\ Tail(q)[Len(Tail(q))] = q[Len(q)]
<1>n. Len(q) \in Nat /\ DOMAIN q = 1 .. Len(q)
  BY LenProperties
<1>1. ASSUME NEW f \in S
      PROVE  /\ q = <<>> \/ (Opens(q[Len(q)]) <=> ~Opens(f)) => Alternates(Append(q, f))
             /\ Append(q, f) # <<>> /\ Append(q, f)[Len(Append(q, f))] = f
             /\ Head(Append(q, f)) = IF q = <<>> THEN f ELSE Head(q)
  <2>1. /\ DOMAIN Append(q, f) = 1 .. Len(q) + 1 /\ Len(Append(q, f)) = Len(q) + 1
        /\ Append(q, f)[Len(q) + 1] = f
        /\ \A k \in 1 .. Len(q) : Append(q, f)[k] = q[k]
    BY <1>n, AppendProperties
  <2>2. ASSUME q = <<>> \/ (Opens(q[Len(q)]) <=> ~Opens(f)), NEW k \in DOMAIN Append(q, f),
               k + 1 \in DOMAIN Append(q, f)
        PROVE  Opens(Append(q, f)[k]) <=> ~Opens(Append(q, f)[k + 1])
    <3>1. k \in 1 .. Len(q)
      BY <1>n, <2>1, <2>2
    <3>2. CASE k = Len(q)
      <4>1. q # <<>>
        BY <1>n, <3>1
      <4> QED BY <2>1, <2>2, <3>1, <3>2, <4>1
    <3>3. CASE k # Len(q)
      <4>1. k + 1 \in 1 .. Len(q)
        BY <1>n, <3>1, <3>3
      <4> QED BY <1>n, <2>1, <3>1, <4>1 DEF Alternates
    <3> QED BY <3>2, <3>3
  <2>3. Append(q, f) # <<>> /\ Head(Append(q, f)) = Append(q, f)[1]
    BY <1>n, AppendProperties
  <2>4. Head(Append(q, f)) = IF q = <<>> THEN f ELSE Head(q)
    BY <1>n, <2>1, <2>3, EmptySeq
  <2> QED BY <2>1, <2>2, <2>3, <2>4 DEF Alternates
<1>2. ASSUME q # <<>>
      PROVE  /\ DOMAIN Tail(q) = 1 .. (Len(q) - 1) /\ Len(Tail(q)) = Len(q) - 1
             /\ \A k \in 1 .. (Len(q) - 1) : k + 1 \in 1 .. Len(q) /\ Tail(q)[k] = q[k + 1]
             /\ 1 \in 1 .. Len(q) /\ Head(q) = q[1]
             /\ Tail(q) \in Seq(S)
  BY <1>2, <1>n, HeadTailProperties, EmptySeq
<1>3. ASSUME q # <<>>, Tail(q) = <<>>
      PROVE  q[Len(q)] = Head(q)
  <2>1. Len(Tail(q)) = Len(q) - 1 /\ Head(q) = q[1] /\ Len(Tail(q)) = 0
    BY <1>2, <1>3, EmptySeq
  <2>2. Len(q) = 1
    BY <1>n, <2>1
  <2> QED BY <2>1, <2>2
<1>4. ASSUME q # <<>>
      PROVE  Alternates(Tail(q))
  <2> SUFFICES ASSUME NEW k \in DOMAIN Tail(q), k + 1 \in DOMAIN Tail(q)
               PROVE  Opens(Tail(q)[k]) <=> ~Opens(Tail(q)[k + 1])
    BY DEF Alternates
  <2>1. /\ k + 1 \in DOMAIN q /\ k + 1 + 1 \in DOMAIN q
        /\ Tail(q)[k] = q[k + 1] /\ Tail(q)[k + 1] = q[k + 1 + 1]
    BY <1>2, <1>4, <1>n
  <2> QED BY <2>1 DEF Alternates
<1>5. ASSUME q # <<>>, Tail(q) # <<>>
      PROVE  /\ Opens(Head(Tail(q))) <=> ~Opens(Head(q))
             /\ Tail(q)[Len(Tail(q))] = q[Len(q)]
  <2>1. Len(q) - 1 >= 1 /\ 1 + 1 \in DOMAIN q
    BY <1>2, <1>5, <1>n, EmptySeq
  <2>2. Head(Tail(q)) = q[1 + 1]
    BY <1>2, <1>5, <1>n, <2>1, HeadTailProperties
  <2>3. Tail(q)[Len(Tail(q))] = q[Len(q)]
    BY <1>2, <1>5, <1>n, <2>1
  <2>4. 1 \in DOMAIN q /\ Head(q) = q[1]
    BY <1>2, <1>5, <1>n
  <2> QED BY <2>1, <2>2, <2>3, <2>4 DEF Alternates
<1> QED BY <1>1, <1>3, <1>4, <1>5

LEMMA InStepMoved ==
  ASSUME ViewInv, InStep, "down" \notin torn
  PROVE  /\ down # <<>> /\ down' = Tail(down) /\ (half' <=> ~half)
              /\ (task' = "body" <=> task = "body") => InStep'
         /\ task = "head" /\ task' = "body" /\ down' = Append(down, Prefix)
              /\ (half' <=> half) => InStep'
         /\ task = "body" /\ task' # "body" /\ down' = Append(down, out)
              /\ (half' <=> half) => InStep'
         /\ down # <<>> => (Opens(Head(down)) <=> ~half)
<1>1. /\ down \in Seq(Said \cup Prefixes) /\ Alternates(down)
      /\ down # <<>> => /\ Opens(Head(down)) <=> ~half
                        /\ Opens(down[Len(down)]) <=> task = "body"
      /\ down = <<>> => (half <=> task = "body")
  BY DEF ViewInv, WireTypes, InStep
<1>2. ASSUME down # <<>>, down' = Tail(down), half' <=> ~half,
             task' = "body" <=> task = "body"
      PROVE  InStep'
  <2>1. /\ Tail(down) = <<>> => down[Len(down)] = Head(down)
        /\ Alternates(Tail(down))
        /\ Tail(down) # <<>> =>
             /\ Opens(Head(Tail(down))) <=> ~Opens(Head(down))
             /\ Tail(down)[Len(Tail(down))] = down[Len(down)]
    BY <1>1, <1>2, AlternatesMoved
  <2> QED BY <1>1, <1>2, <2>1 DEF InStep
<1>3. ASSUME NEW f \in Said \cup Prefixes, down' = Append(down, f),
             down = <<>> \/ (Opens(down[Len(down)]) <=> ~Opens(f)),
             half' <=> half, down = <<>> => (Opens(f) <=> ~half),
             Opens(f) <=> task' = "body"
      PROVE  InStep'
  <2>1. /\ Alternates(Append(down, f)) /\ Append(down, f) # <<>>
        /\ Append(down, f)[Len(Append(down, f))] = f
        /\ Head(Append(down, f)) = IF down = <<>> THEN f ELSE Head(down)
    BY <1>1, <1>3, AlternatesMoved
  <2> QED BY <1>1, <1>3, <2>1 DEF InStep
<1>4. Prefix \in Said \cup Prefixes /\ Opens(Prefix)
  BY FrameTypes DEF Prefix, Frame, Opens
<1>5. ASSUME task = "head", task' = "body", down' = Append(down, Prefix), half' <=> half
      PROVE  InStep'
  BY <1>1, <1>3, <1>4, <1>5
<1>6. ASSUME task = "body", task' # "body", down' = Append(down, out), half' <=> half
      PROVE  InStep'
  <2>1. out \in Said \cup Prefixes /\ ~Opens(out)
    BY <1>6 DEF ViewInv, TaskTypes, Said, EventFrames, Answers, Opens
  <2> QED BY <1>1, <1>3, <1>6, <2>1
<1> QED BY <1>1, <1>2, <1>5, <1>6

LEMMA CloseRows ==
  ASSUME ViewInv, RowInv, task \in {"select", "half"}, CloseTask,
         UNCHANGED <<rows, stage, say, unannounced, uiVars>>
  PROVE  RowInv'
<1> USE DEF uiVars, callVars
<1>1. /\ task' = "closed" /\ ~subscribed'
      /\ UNCHANGED <<doing, shown, lagged, down, torn, call, half, pending>>
  BY DEF CloseTask
<1>2. OnTheWay' = OnTheWay
  BY <1>1 DEF OnTheWay, Writing
<1>3. BeforeSubscribe' /\ SubscribedWhen' /\ TornLater' /\ InStep' /\ HalfRead'
  BY <1>1 DEF RowInv, BeforeSubscribe, SubscribedWhen, TornLater, InStep, HalfRead, Reading
<1>4. UpToDate'
  BY <1>1 DEF UpToDate, Following
<1> QED BY <1>1, <1>2, <1>3, <1>4, Carried DEF RowInv

(* The subscription is made before anything is sent, and the listing after. *)
LEMMA SubscribeRows ==
  ASSUME ViewInv, AnswerInv, RowInv, ReadPayload, Head(up).body.for = "subscribe",
         UNCHANGED <<rows, stage, polled, say, uiVars>>, unannounced' = {}
  PROVE  RowInv'
<1> USE DEF uiVars, callVars
<1>1. /\ task = "half" /\ task' = "busy" /\ up # <<>> /\ up' = Tail(up)
      /\ subscribed' /\ queue' = <<>> /\ ~lagged'
      /\ UNCHANGED <<doing, shown, down, torn, call, half, pending>>
  BY DEF ReadPayload
<1>2. OnTheWay' = OnTheWay /\ OnTheWay = Elems(down) /\ Going' = <<>>
  BY <1>1 DEF OnTheWay, Writing, Going
<1>3. "down" \notin torn =>
        /\ doing = "subscribe" /\ call = "wait" /\ up' = <<>> /\ ~subscribed
        /\ \A f \in OnTheWay : f.kind \notin {"response", "event"}
        /\ pending = <<>>
  <2> SUFFICES ASSUME "down" \notin torn
               PROVE  /\ doing = "subscribe" /\ call = "wait" /\ up' = <<>> /\ ~subscribed
                      /\ \A f \in OnTheWay : f.kind \notin {"response", "event"}
                      /\ pending = <<>>
    OBVIOUS
  <2>1. call \in {"none", "head", "next", "body", "wait"}
    BY DEF ViewInv, ClientTypes
  <2>2. call = "wait" /\ up = <<Asking(doing)>> /\ Silent(down)
    BY <1>1, <2>1
       DEF AnswerInv, OneRequest, NotAsked, HalfAsked, AskedNow, Handled, Answering,
           Answered, Loop
  <2>3. doing = "subscribe" /\ up' = <<>>
    BY <1>1, <2>2, UpWire DEF Asking, Frame
  <2>4. ~subscribed
    BY <1>1, <2>3 DEF RowInv, SubscribedWhen
  <2>5. pending = <<>> /\ \A f \in OnTheWay : f.kind # "event"
    BY <1>1, <2>4 DEF RowInv, BeforeSubscribe
  <2>6. \A f \in OnTheWay : f.kind # "response"
    BY <1>2, <2>2 DEF Silent, Elems
  <2> QED BY <2>2, <2>3, <2>4, <2>5, <2>6
<1>4. BeforeSubscribe' /\ TornLater' /\ InStep' /\ HalfRead' /\ StageType' /\ SayOwn'
  BY <1>1, <1>2 DEF RowInv, BeforeSubscribe, TornLater, InStep, HalfRead, Reading,
                    StageType, SayOwn
<1>5. SubscribedWhen'
  BY <1>1, <1>3 DEF RowInv, SubscribedWhen, TornLater
<1>6. PlainAnswers' /\ CreatedHere'
  BY <1>1, <1>2, <1>3 DEF RowInv, PlainAnswers, CreatedHere, Returns
<1>7. UpToDate'
  <2> SUFFICES ASSUME "down" \notin torn, NEW s \in Sessions
               PROVE  Shows(s, Reached(s, Base(s)))'
    BY <1>1 DEF UpToDate, Following
  <2>1. Base(s)' = Listed(s)'
    <3>1. Listings' = {}
      BY <1>2, <1>3 DEF Listings, IsListing
    <3> QED BY <1>1, <1>3, <3>1 DEF Base
  <2>2. \A f \in Elems(down) : f.kind # "event"
    BY <1>2, <1>3
  <2>3. \A l : Through(<<>>, down, <<>>, <<>>, s, l) = l
    BY <2>2, WaysKeep
  <2>4. Reached(s, Base(s))' = Listed(s)'
    BY <1>1, <1>2, <1>3, <2>1, <2>3 DEF Reached
  <2>5. rows'[s] \notin Gone => Listed(s)' # <<>>
    BY DEF Listed
  <2> QED BY <2>4, <2>5 DEF Shows
<1> QED BY <1>4, <1>5, <1>6, <1>7 DEF RowInv

LEMMA ConnectionRows ==
  ASSUME ViewInv, AnswerInv, RowInv, Connection PROVE RowInv'
<1> USE DEF uiVars, busVars, taskVars, callVars
<1>u. UNCHANGED <<rows, stage, polled, say, doing, shown>>
      /\ unannounced' = IF task' = "busy" /\ out'.body.for = "subscribe" THEN {}
                        ELSE unannounced
  BY DEF Connection
<1>1. CASE ReadPrefix \/ (ReadPayload /\ Head(up).body.for # "subscribe")
  <2>1. /\ task \in {"select", "half"} /\ task' \in {"half", "busy"} /\ up # <<>>
        /\ UNCHANGED <<subscribed, queue, lagged, down, torn, call, half, pending>>
        /\ UNCHANGED unannounced
    BY <1>1, <1>u DEF ReadPrefix, ReadPayload
  <2>2. OnTheWay' = OnTheWay /\ Going' = Going
    BY <2>1 DEF OnTheWay, Writing, Going
  <2>3. BeforeSubscribe' /\ SubscribedWhen' /\ TornLater' /\ InStep' /\ HalfRead'
    BY <1>u, <2>1, <2>2 DEF RowInv, BeforeSubscribe, SubscribedWhen, TornLater, InStep,
                            HalfRead, Reading
  <2>4. ASSUME NEW s \in Sessions PROVE Reached(s, Base(s))' = Reached(s, Base(s))
    <3>1. Base(s)' = Base(s)
      BY <1>u, <2>2 DEF Base, Listings, IsListing, Listed
    <3> QED BY <2>1, <2>2, <3>1 DEF Reached
  <2>5. Following' => Following
    BY <2>1 DEF Following
  <2> QED BY <1>u, <2>1, <2>2, <2>3, <2>4, <2>5, Carried DEF RowInv
<1>2. CASE ReadPayload /\ Head(up).body.for = "subscribe"
  <2>1. unannounced' = {}
    BY <1>2, <1>u DEF ReadPayload
  <2> QED BY <1>2, <1>u, <2>1, SubscribeRows
<1>3. CASE ReadTorn
  <2>1. CloseTask /\ task = "select" /\ task' = "closed"
    BY <1>3 DEF ReadTorn, CloseTask
  <2> QED BY <1>u, <2>1, CloseRows
<1>4. CASE ForwardEvent
  <2>1. /\ task \in {"select", "half"} /\ task' = "head" /\ queue # <<>>
        /\ out' = Frame("event", Head(queue)) /\ queue' = Tail(queue)
        /\ "down" \in torn' <=> "down" \in torn
        /\ UNCHANGED <<subscribed, lagged, up, down, call, half, pending, unannounced>>
    BY <1>4, <1>u DEF ForwardEvent
  <2>2. out'.kind = "event" /\ Body(out') = Head(queue)
    BY <2>1 DEF Frame, Body
  <2>3. /\ OnTheWay' = OnTheWay \cup {out'} /\ Going = <<>> /\ Going' = <<Head(queue)>>
    BY <2>1, <2>2 DEF OnTheWay, Writing, Going
  <2>4. subscribed
    BY <2>1 DEF RowInv, BeforeSubscribe
  <2>5. BeforeSubscribe' /\ SubscribedWhen' /\ TornLater' /\ InStep' /\ HalfRead'
    BY <1>u, <2>1, <2>4 DEF RowInv, BeforeSubscribe, SubscribedWhen, TornLater, InStep,
                            HalfRead, Reading
  <2>6. ASSUME NEW s \in Sessions PROVE Reached(s, Base(s))' = Reached(s, Base(s))
    <3>1. {g \in OnTheWay' : IsListing(g)} = {g \in OnTheWay : IsListing(g)}
      BY <2>2, <2>3 DEF IsListing
    <3>2. Listings' = Listings
      BY <3>1 DEF Listings, IsListing
    <3>3. Base(s)' = Base(s)
      BY <1>u, <3>2 DEF Base, Listed
    <3>4. Through(pending, down, <<Head(queue)>>, Tail(queue), s, Base(s))
            = Through(pending, down, <<>>, queue, s, Base(s))
      BY <2>1, Ways
    <3> QED BY <2>1, <2>3, <3>3, <3>4 DEF Reached
  <2>7. Following' => Following
    BY <2>1 DEF Following
  <2>8. task' # "create" /\ \A f \in OnTheWay' : f \in OnTheWay \/ f.kind # "response"
    BY <2>1, <2>2, <2>3
  <2> QED BY <1>u, <2>1, <2>5, <2>6, <2>7, <2>8, Carried DEF RowInv
<1>5. CASE Write
  <2>1. /\ UNCHANGED <<subscribed, queue, lagged, up, torn, call, half, pending>>
        /\ task \in {"head", "body"} /\ task' \in {"body", "select"}
        /\ \/ task = "head" /\ task' = "body" /\ down' = Append(down, Prefix)
              /\ UNCHANGED out
           \/ task = "body" /\ task' = "select" /\ down' = Append(down, out)
        /\ UNCHANGED unannounced
    BY <1>5, <1>u DEF Write
  <2>2. InStep'
    <3>1. CASE "down" \in torn
      BY <2>1, <3>1 DEF InStep
    <3>2. CASE "down" \notin torn
      BY <2>1, <3>2, InStepMoved DEF RowInv
    <3> QED BY <3>1, <3>2
  <2>3. /\ OnTheWay = Elems(down) \cup {out} /\ Prefix.kind = "prefix"
        /\ OnTheWay' = OnTheWay \/ OnTheWay' = OnTheWay \cup {Prefix}
    <3>1. down \in Seq(Said \cup Prefixes)
      BY DEF ViewInv, WireTypes
    <3>2. \A f : Elems(Append(down, f)) = Elems(down) \cup {f}
      BY <3>1, ElemsMoved
    <3> QED BY <2>1, <3>2 DEF OnTheWay, Writing, Prefix, Frame
  <2>4. BeforeSubscribe' /\ SubscribedWhen' /\ TornLater' /\ HalfRead'
    BY <1>u, <2>1, <2>3 DEF RowInv, BeforeSubscribe, SubscribedWhen, TornLater,
                            HalfRead, Reading
  <2>5. ASSUME NEW s \in Sessions PROVE Reached(s, Base(s))' = Reached(s, Base(s))
    <3>1. {g \in OnTheWay' : IsListing(g)} = {g \in OnTheWay : IsListing(g)}
      BY <2>3 DEF IsListing
    <3>2. Listings' = Listings
      BY <3>1 DEF Listings, IsListing
    <3>3. Base(s)' = Base(s)
      BY <1>u, <3>2 DEF Base, Listed
    <3>4. Through(pending, down', Going', queue, s, Base(s))
            = Through(pending, down, Going, queue, s, Base(s))
      <4>1. CASE task = "head" /\ task' = "body" /\ down' = Append(down, Prefix)
                 /\ UNCHANGED out
        <5>1. PICK f \in Said \cup Prefixes : f = Prefix /\ f.kind # "event"
          BY <2>3, FrameTypes
        <5>2. Going' = Going
          BY <4>1 DEF Going, Writing
        <5>3. Through(pending, Append(down, f), Going, queue, s, Base(s))
                = Through(pending, down, Going, queue, s, Base(s))
          BY <5>1, Ways
        <5> QED BY <4>1, <5>1, <5>2, <5>3
      <4>2. CASE task = "body" /\ task' = "select" /\ down' = Append(down, out)
        <5>1. out \in Said \cup Prefixes
          BY <4>2 DEF ViewInv, TaskTypes
        <5>2. Going = <<Body(out)>> /\ Going' = <<>>
          BY <4>2 DEF Going, Writing
        <5> QED BY <4>2, <5>1, <5>2, Ways
      <4> QED BY <2>1, <4>1, <4>2
    <3> QED BY <2>1, <3>3, <3>4 DEF Reached
  <2>6. Following' => Following
    BY <2>1 DEF Following
  <2>7. task' # "create" /\ \A f \in OnTheWay' : f \in OnTheWay \/ f.kind # "response"
    BY <2>1, <2>3
  <2> QED BY <1>u, <2>1, <2>2, <2>4, <2>5, <2>6, <2>7, Carried DEF RowInv
<1> QED BY <1>1, <1>2, <1>3, <1>4, <1>5 DEF Connection

(* A frame taken from the socket. *)
LEMMA TakenRows ==
  ASSUME ViewInv, AnswerInv, RowInv, down # <<>>, down' = Tail(down), half' <=> ~half,
         half' => Reading', call' = "next" => doing' = "drain", "down" \notin torn,
         UNCHANGED <<rowVars, subscribed, queue, lagged, task, out, up, torn>>
  PROVE  /\ StageType' /\ SayOwn' /\ InStep' /\ HalfRead' /\ TornLater'
         /\ OnTheWay = OnTheWay' \cup {Head(down)} /\ Head(down) \in OnTheWay
         /\ Going' = Going /\ PlainAnswers'
         /\ CreatedHere'
         /\ Opens(Head(down)) <=> ~half
         /\ (~subscribed => Head(down).kind # "event" /\ UNCHANGED pending) => BeforeSubscribe'
<1> USE DEF rowVars
<1>1. InStep' /\ (Opens(Head(down)) <=> ~half)
  BY InStepMoved DEF RowInv
<1>2. HalfRead' /\ TornLater'
  BY DEF HalfRead, TornLater
<1>3. /\ OnTheWay = OnTheWay' \cup {Head(down)} /\ Head(down) \in OnTheWay
      /\ Going' = Going
  <2>1. down \in Seq(Said \cup Prefixes)
    BY DEF ViewInv, WireTypes
  <2>2. Elems(down) = {Head(down)} \cup Elems(Tail(down))
    BY <2>1, ElemsMoved
  <2> QED BY <2>2 DEF OnTheWay, Writing, Going
<1>4. CreatedHere' /\ PlainAnswers'
  BY <1>3, Carried DEF RowInv, CreatedHere, PlainAnswers, Returns, Missed, NotFirst
<1>5. (~subscribed => Head(down).kind # "event" /\ UNCHANGED pending) => BeforeSubscribe'
  BY <1>3 DEF RowInv, BeforeSubscribe
<1> QED BY <1>1, <1>2, <1>3, <1>4, <1>5, Carried

LEMMA ReadRows ==
  ASSUME ViewInv, AnswerInv, RowInv, Read, UNCHANGED rowVars
  PROVE  RowInv'
<1> USE DEF busVars, taskVars, uiVars, rowVars
<1>1. /\ down # <<>> /\ down' = Tail(down) /\ "down" \notin torn /\ (half' <=> ~half)
      /\ UNCHANGED <<subscribed, queue, lagged, task, out, up, torn, call, doing, shown>>
      /\ half' => Reading' /\ (call' = "next" => doing' = "drain")
      /\ \/ ~half /\ UNCHANGED pending
         \/ Head(down).kind = "event" /\ pending' = Append(pending, Head(down).body)
            /\ call = "wait"
  BY DEF Read, TakePrefix, KeepEvent, Arrived, AnswerInv, WholeFrames, Reading, RowInv,
         HalfRead
<1>2. /\ StageType' /\ SayOwn' /\ InStep' /\ HalfRead' /\ TornLater'
      /\ OnTheWay = OnTheWay' \cup {Head(down)} /\ Head(down) \in OnTheWay
      /\ Going' = Going /\ PlainAnswers' /\ CreatedHere'
      /\ Opens(Head(down)) <=> ~half
      /\ (~subscribed => Head(down).kind # "event" /\ UNCHANGED pending) => BeforeSubscribe'
  BY <1>1, TakenRows
<1>3. SubscribedWhen'
  BY <1>1 DEF RowInv, SubscribedWhen
<1>4. Head(down).kind # "response" /\ (~half => Head(down).kind = "prefix")
  BY <1>1, <1>2 DEF Opens
<1>5. BeforeSubscribe'
  <2>1. CASE subscribed \/ task = "closed"
    BY <1>1, <2>1 DEF BeforeSubscribe
  <2>2. CASE ~subscribed /\ task # "closed"
    <3>1. Head(down).kind # "event"
      BY <1>2, <2>2 DEF RowInv, BeforeSubscribe
    <3> QED BY <1>1, <1>2, <3>1
  <2> QED BY <2>1, <2>2
<1>6. ASSUME NEW s \in Sessions PROVE Reached(s, Base(s))' = Reached(s, Base(s))
  <2>1. Listings' = Listings
    <3>1. ~IsListing(Head(down))
      BY <1>4 DEF IsListing
    <3>2. {g \in OnTheWay' : IsListing(g)} = {g \in OnTheWay : IsListing(g)}
      BY <1>2, <3>1
    <3> QED BY <3>2 DEF Listings, IsListing
  <2>2. Base(s)' = Base(s)
    BY <1>1, <2>1 DEF Base, Listed
  <2>3. CASE ~half /\ UNCHANGED pending
    <3>1. Head(down).kind # "event"
      BY <1>4, <2>3
    <3>2. Through(pending, Tail(down), Going, queue, s, Base(s))
            = Through(pending, down, Going, queue, s, Base(s))
      BY <1>1, <3>1, Ways
    <3> QED BY <1>1, <1>2, <2>2, <2>3, <3>2 DEF Reached
  <2>4. CASE Head(down).kind = "event" /\ pending' = Append(pending, Head(down).body)
    <3>1. Through(Append(pending, Head(down).body), Tail(down), Going, queue, s, Base(s))
            = Through(pending, down, Going, queue, s, Base(s))
      BY <1>1, <2>4, Ways
    <3> QED BY <1>1, <1>2, <2>2, <2>4, <3>1 DEF Reached
  <2> QED BY <1>1, <2>3, <2>4
<1>7. Following' => Following
  BY <1>1 DEF Following
<1> QED BY <1>1, <1>2, <1>3, <1>5, <1>6, <1>7, Carried DEF RowInv

(* The answer is the one response there is. *)
LEMMA AnswerTaken ==
  ASSUME ViewInv, AnswerInv, Receive
  PROVE  /\ "down" \notin torn /\ half /\ ~half' /\ call = "wait" /\ doing \in Requests
         /\ down # <<>> /\ down' = Tail(down)
         /\ UNCHANGED <<subscribed, queue, lagged, task, out, up, torn, pending>>
         /\ task' # "create" /\ Head(down).kind = "response" /\ Head(down).body.for = doing
         /\ \A f \in OnTheWay' : f.kind # "response"
<1>1. /\ call = "wait" /\ half /\ ~half' /\ down # <<>> /\ Head(down).kind = "response"
      /\ down' = Tail(down) /\ doing \in Requests
      /\ UNCHANGED <<subscribed, queue, lagged, task, out, up, torn, pending>>
  BY DEF Receive, TakeResponse, Arrived, taskVars, busVars
<1>2. "down" \notin torn
  BY <1>1 DEF AnswerInv, WholeFrames
<1>3. Answered
  BY <1>1, <1>2, DownWire DEF AnswerInv, OneRequest, AskedNow, Handled, Answering
<1>4. Silent(Tail(down)) /\ Head(down).body.for = doing
  BY <1>1, <1>3, DownWire DEF Answered
<1>5. \A f \in Elems(Tail(down)) : f.kind # "response"
  BY <1>4 DEF Silent, Elems
<1>6. \A f \in OnTheWay' : f.kind # "response"
  BY <1>1, <1>3, <1>5 DEF OnTheWay, Writing, Answered, EventOut
<1>7. task' # "create"
  BY <1>1, <1>3 DEF Answered, Loop
<1> QED BY <1>1, <1>2, <1>4, <1>6, <1>7

LEMMA ReceiveRows ==
  ASSUME ViewInv, AnswerInv, RowInv, Receive, UNCHANGED rowVars
  PROVE  RowInv'
<1> USE DEF rowVars
<1>1. /\ "down" \notin torn /\ half /\ ~half' /\ call = "wait" /\ doing \in Requests
      /\ down # <<>> /\ down' = Tail(down)
      /\ UNCHANGED <<subscribed, queue, lagged, task, out, up, torn, pending>>
      /\ task' # "create" /\ Head(down).kind = "response" /\ Head(down).body.for = doing
      /\ \A f \in OnTheWay' : f.kind # "response"
      /\ call' = "next" => doing' = "drain"
  BY AnswerTaken DEF Receive, TakeResponse, After
<1>2. /\ StageType' /\ SayOwn' /\ InStep' /\ HalfRead' /\ TornLater'
      /\ OnTheWay = OnTheWay' \cup {Head(down)} /\ Head(down) \in OnTheWay
      /\ Going' = Going /\ PlainAnswers' /\ CreatedHere'
      /\ (~subscribed => Head(down).kind # "event" /\ UNCHANGED pending) => BeforeSubscribe'
  BY <1>1, TakenRows
<1> DEFINE listed == Head(down).body.listed
<1>3. /\ doing' = After(doing).doing
      /\ shown' = IF doing = "list" THEN listed ELSE Push(listed)
  BY DEF Receive
<1>p. Plain \cap Sessions = {} /\ "idle" \notin Sessions /\ "off" \notin Sessions
      /\ {"version", "subscribe", "list"} \subseteq Plain
  BY SessionsAssumption DEF Plain
<1>4. /\ doing = "version" => doing' = "subscribe"
      /\ doing = "subscribe" => doing' = "list"
      /\ doing \notin {"version", "subscribe"} => doing' \in {"idle", "drain"}
  BY <1>3 DEF After
<1>5. BeforeSubscribe'
  BY <1>1, <1>2
<1>6. SubscribedWhen'
  BY <1>1, <1>4 DEF RowInv, SubscribedWhen
<1>7. UpToDate'
  <2> SUFFICES ASSUME Following', NEW s \in Sessions
               PROVE  Shows(s, Reached(s, Base(s)))'
    BY DEF UpToDate
  <2>1. Following /\ subscribed
    BY <1>1 DEF Following
  <2>2. Shows(s, Reached(s, Base(s)))
    BY <2>1 DEF RowInv, UpToDate
  <2>3. doing # "version"
    BY <2>1 DEF RowInv, SubscribedWhen
  <2>4. \A l : Through(pending, Tail(down), Going, queue, s, l)
                 = Through(pending, down, Going, queue, s, l)
    BY <1>1, Ways
  <2>5. Reached(s, Base(s))' = Reached(s, Base(s)')
    BY <1>1, <1>2, <2>4 DEF Reached
  <2>6. \A l : Shows(s, l)' <=> Shows(s, l)
    BY <1>1, Carried
  <2>7. ASSUME Base(s)' = Base(s) PROVE Shows(s, Reached(s, Base(s)))'
    BY <2>2, <2>5, <2>6, <2>7 DEF Shows
  <2>8. CASE doing = "subscribe"
    <3>1. Listings' = {}
      BY <1>1 DEF Listings, IsListing
    <3>2. Listings = {}
      BY <1>1, <1>2, <2>8 DEF Listings, IsListing
    <3>3. Base(s)' = Base(s)
      BY <1>4, <2>8, <3>1, <3>2 DEF Base, Listed
    <3> QED BY <2>7, <3>3
  <2>9. CASE doing = "list"
    <3>1. {g \in OnTheWay : IsListing(g)} = {Head(down)}
      BY <1>1, <1>2, <2>9 DEF IsListing
    <3>2. Listings = {listed}
      BY <3>1 DEF Listings
    <3>3. Base(s) = listed[s]
      <4>1. (CHOOSE l \in Listings : TRUE) = listed
        BY <3>2
      <4> QED BY <2>9, <3>2, <4>1 DEF Base
    <3>4. Base(s)' = listed[s]
      BY <1>3, <1>4, <2>9 DEF Base
    <3> QED BY <2>7, <3>3, <3>4
  <2>10. CASE doing \notin {"version", "subscribe", "list"}
    <3>1. Base(s) = shown[s] /\ Base(s)' = shown'[s]
      BY <1>4, <2>10 DEF Base
    <3>2. shown'[s] = IF shown[s] = <<>> THEN listed[s] ELSE shown[s]
      BY <1>3, <2>10 DEF Push
    <3>3. CASE listed[s] = <<>>
      BY <2>7, <3>1, <3>2, <3>3
    <3>4. CASE shown[s] # <<>>
      BY <2>7, <3>1, <3>2, <3>4
    <3>5. CASE listed[s] # <<>> /\ shown[s] = <<>>
      <4>1. doing = s
        <5>1. OwnLines(Head(down))
          BY <1>2 DEF RowInv, PlainAnswers
        <5> QED BY <1>1, <2>10, <3>5, <5>1 DEF OwnLines
      <4>2. Returns(Head(down), s)
        BY <1>1, <3>5, <4>1 DEF Returns
      <4>3. Missed(s) /\ NotFirst(s)
        BY <1>1, <1>2, <4>2 DEF RowInv, CreatedHere
      <4> DEFINE l == listed[s]
      <4>4. Base(s) = <<>> /\ Base(s)' = l /\ l # <<>>
        BY <3>1, <3>2, <3>5
      <4>5. Shows(s, Reached(s, <<>>))
        BY <2>2, <4>4
      <4>6. \/ Reached(s, <<>>) = Reached(s, l) \/ Reached(s, <<>>) = <<>>
        BY WaysKeep DEF Reached
      <4>7. Reached(s, l) # <<>>
        BY <4>4, WaysKeep DEF Reached
      <4>8. Shows(s, Reached(s, l))
        <5>1. CASE Reached(s, <<>>) = Reached(s, l)
          BY <4>5, <5>1
        <5>2. CASE Reached(s, <<>>) = <<>>
          <6>1. rows[s] \in Gone
            BY <4>3, <4>5, <5>2 DEF Shows
          <6>2. s \in unannounced
            BY <4>3, <6>1 DEF Missed
          <6> QED BY <4>7, <6>2 DEF Shows
        <5> QED BY <4>6, <5>1, <5>2
      <4> HIDE DEF l
      <4>9. Reached(s, Base(s))' = Reached(s, l)
        BY <2>5, <4>4
      <4> QED BY <2>6, <4>8, <4>9 DEF Shows
    <3> QED BY <3>3, <3>4, <3>5
  <2> QED BY <2>3, <2>8, <2>9, <2>10
<1> QED BY <1>2, <1>5, <1>6, <1>7 DEF RowInv

LEMMA ApplySeen ==
  ASSUME shown \in Lists, NEW e \in Events, NEW s \in Sessions
  PROVE  Apply(e)[s] = Seen(e, s, shown[s])
<1>1. shown[e.id] \in Lines /\ e.id \in Sessions
  BY DEF Lists, Events
<1>2. shown[e.id] = <<>> \/ Tail(shown[e.id]) = <<>>
  <2>1. shown[e.id] \in Seq(RowStates) /\ Len(shown[e.id]) <= 1
    BY <1>1 DEF Lines
  <2>2. shown[e.id] # <<>> =>
          /\ Tail(shown[e.id]) \in Seq(RowStates)
          /\ Len(Tail(shown[e.id])) = Len(shown[e.id]) - 1
          /\ Len(shown[e.id]) \in Nat /\ Len(shown[e.id]) >= 1
    BY <2>1, Queues
  <2> QED BY <2>1, <2>2, EmptySeq
<1>3. \A x : <<x>> \o <<>> = <<x>>
  OBVIOUS
<1>4. CASE e.state = "created"
  <2>1. Apply(e) = [shown EXCEPT ![e.id] = <<"creating">> \o
                      (IF shown[e.id] = <<>> THEN shown[e.id] ELSE Tail(shown[e.id]))]
    BY <1>4 DEF Apply
  <2>2. Apply(e) = [shown EXCEPT ![e.id] = <<"creating">>]
    BY <1>2, <1>3, <2>1
  <2> QED BY <1>1, <1>4, <2>2 DEF Lists, Seen, About, Announced
<1>5. CASE e.state = "screen"
  BY <1>5 DEF Apply, Seen, About
<1>6. CASE e.state \notin {"created", "screen"}
  <2>1. Apply(e) = [shown EXCEPT ![e.id] =
          IF shown[e.id] = <<>> THEN shown[e.id] ELSE <<e.state>> \o Tail(shown[e.id])]
    BY <1>6 DEF Apply
  <2>2. Apply(e) = [shown EXCEPT ![e.id] =
          IF shown[e.id] = <<>> THEN <<>> ELSE <<e.state>>]
    BY <1>2, <1>3, <2>1
  <2> QED BY <1>1, <1>6, <2>2 DEF Lists, Seen, About, Announced
<1> QED BY <1>4, <1>5, <1>6

LEMMA UpdateRows ==
  ASSUME ViewInv, AnswerInv, RowInv, Update, UNCHANGED rowVars
  PROVE  RowInv'
<1> USE DEF busVars, taskVars, rowVars
<1>1. PICK e \in Events :
        /\ doing = "drain" /\ doing' \in {"drain", "capture"} /\ call = "next"
        /\ shown' = Apply(e)
        /\ UNCHANGED <<subscribed, queue, lagged, task, out, up, torn>>
        /\ \/ /\ pending # <<>> /\ e = Head(pending) /\ pending' = Tail(pending)
              /\ UNCHANGED <<down, half>>
           \/ /\ pending = <<>> /\ half /\ ~half' /\ down # <<>>
              /\ Head(down).kind = "event" /\ e = Head(down).body
              /\ down' = Tail(down) /\ UNCHANGED pending
        /\ call' = "next" => doing' = "drain"
  BY FrameTypes DEF Update, NextEvent, Arrived, Reading
<1>2. ASSUME NEW s \in Sessions
      PROVE  Base(s) = shown[s] /\ Base(s)' = Seen(e, s, shown[s])
  <2>1. Apply(e)[s] = Seen(e, s, shown[s])
    BY ApplySeen DEF ViewInv, ClientTypes
  <2> QED BY <1>1, <2>1 DEF Base
<1>3. SubscribedWhen' /\ TornLater' /\ (Following' => Following)
  BY <1>1 DEF SubscribedWhen, TornLater, Following
<1>4. CASE pending # <<>> /\ e = Head(pending) /\ pending' = Tail(pending)
           /\ UNCHANGED <<down, half>>
  <2>1. ~half
    BY <1>1, <1>4 DEF RowInv, HalfRead, Reading
  <2>2. OnTheWay' = OnTheWay /\ Going' = Going
    BY <1>1, <1>4 DEF OnTheWay, Writing, Going
  <2>3. HalfRead' /\ InStep' /\ PlainAnswers' /\ BeforeSubscribe'
    BY <1>1, <1>4, <2>1, <2>2 DEF HalfRead, RowInv, InStep, PlainAnswers, BeforeSubscribe
  <2>4. CreatedHere'
    BY <1>1, <2>2 DEF RowInv, CreatedHere, Returns, Missed, NotFirst
  <2>5. ASSUME NEW s \in Sessions PROVE Reached(s, Base(s))' = Reached(s, Base(s))
    <3>1. Through(Tail(pending), down, Going, queue, s, Seen(e, s, shown[s]))
            = Through(pending, down, Going, queue, s, shown[s])
      BY <1>4, Ways
    <3>2. Reached(s, Base(s))' = Through(Tail(pending), down, Going, queue, s, Base(s)')
      BY <1>1, <1>4, <2>2 DEF Reached
    <3> QED BY <1>2, <3>1, <3>2 DEF Reached
  <2> QED BY <1>3, <2>3, <2>4, <2>5, Carried, <1>1 DEF RowInv
<1>5. CASE /\ pending = <<>> /\ half /\ ~half' /\ down # <<>>
           /\ Head(down).kind = "event" /\ e = Head(down).body
           /\ down' = Tail(down) /\ UNCHANGED pending
  <2>1. "down" \notin torn
    BY <1>5 DEF AnswerInv, WholeFrames
  <2>2. /\ StageType' /\ SayOwn' /\ InStep' /\ HalfRead'
        /\ OnTheWay = OnTheWay' \cup {Head(down)} /\ Head(down) \in OnTheWay
        /\ Going' = Going /\ PlainAnswers' /\ CreatedHere'
        /\ (~subscribed => Head(down).kind # "event" /\ UNCHANGED pending)
             => BeforeSubscribe'
    BY <1>1, <1>5, <2>1, TakenRows
  <2>3. BeforeSubscribe'
    <3>1. CASE subscribed \/ task = "closed"
      BY <1>1, <3>1 DEF BeforeSubscribe
    <3>2. CASE ~subscribed /\ task # "closed"
      BY <1>5, <2>2, <3>2 DEF RowInv, BeforeSubscribe
    <3> QED BY <3>1, <3>2
  <2>4. ASSUME NEW s \in Sessions PROVE Reached(s, Base(s))' = Reached(s, Base(s))
    <3>1. Through(pending, Tail(down), Going, queue, s, Seen(e, s, shown[s]))
            = Through(pending, down, Going, queue, s, shown[s])
      BY <1>5, Ways
    <3>2. Reached(s, Base(s))' = Through(pending, Tail(down), Going, queue, s, Base(s)')
      BY <1>1, <1>5, <2>2 DEF Reached
    <3> QED BY <1>2, <3>1, <3>2 DEF Reached
  <2> QED BY <1>1, <1>3, <2>2, <2>3, <2>4, Carried DEF RowInv
<1> QED BY <1>1, <1>4, <1>5

(* Steps of the UI that move nothing towards the list. *)
LEMMA StillRows ==
  ASSUME ViewInv, RowInv, UNCHANGED rowVars,
         UNCHANGED <<shown, subscribed, queue, lagged, out, down, pending>>,
         "down" \in torn => "down" \in torn',
         task' = task \/ {task, task'} = {"none", "select"},
         "down" \notin torn' => (half' <=> half),
         HalfRead', SubscribedWhen', TornLater',
         Following => /\ doing \notin {"version", "subscribe", "list"} \/ doing' = doing
                      /\ doing' \notin {"version", "subscribe", "list"} \/ doing' = doing
  PROVE  RowInv'
<1> USE DEF rowVars
<1>1. /\ OnTheWay' = OnTheWay /\ Going' = Going
      /\ task' = "create" <=> task = "create"
      /\ task' = "body" <=> task = "body" /\ (task' = "closed" <=> task = "closed")
  BY DEF OnTheWay, Writing, Going
<1>2. BeforeSubscribe' /\ InStep' /\ PlainAnswers'
  BY <1>1 DEF RowInv, BeforeSubscribe, InStep, PlainAnswers
<1>3. CreatedHere'
  BY <1>1 DEF RowInv, CreatedHere, Returns, Missed, NotFirst
<1>4. ASSUME Following, NEW s \in Sessions
      PROVE  Reached(s, Base(s))' = Reached(s, Base(s))
  <2>1. Listings' = Listings
    BY <1>1 DEF Listings, IsListing
  <2>2. Base(s)' = Base(s)
    BY <1>4, <2>1 DEF Base, Listed
  <2> QED BY <1>1, <2>2 DEF Reached
<1>5. Following' => Following
  BY DEF Following
<1> QED BY <1>2, <1>3, <1>4, <1>5, Carried DEF RowInv

LEMMA UIRows ==
  ASSUME ViewInv, AnswerInv, RowInv, UI PROVE RowInv'
<1> USE DEF busVars, taskVars, callVars, uiVars
<1>u. UNCHANGED rowVars
  BY DEF UI
<1>i. {"idle", "off", "drain"} \cap Sessions = {} /\ Plain \cap Sessions = {}
  BY SessionsAssumption
<1>a. /\ doing = "idle" => call = "none"
      /\ task = "none" => doing = "off" /\ call = "none"
      /\ "down" \in torn => ~half
  BY DEF AnswerInv, AtRest, WholeFrames
<1>r. /\ half => call = "wait" \/ (call = "next" /\ pending = <<>>)
      /\ subscribed => /\ doing \notin {"off", "version"}
                       /\ doing = "subscribe" => call = "wait" /\ up = <<>>
      /\ "down" \in torn => doing \notin {"off", "version", "subscribe"}
      /\ "down" \notin torn /\ down = <<>> => (half <=> task = "body")
      /\ call = "next" => doing = "drain"
  BY DEF RowInv, HalfRead, Reading, SubscribedWhen, TornLater, InStep
<1>1. ASSUME NEW next \in Sessions \cup {"resize", "drain"}, NEW c \in {"head", "next"},
             c = "next" => next = "drain", Begin(next, c)
      PROVE  RowInv'
  <2>1. next \notin {"off", "version", "subscribe", "list"}
    BY <1>i DEF Plain
  <2>2. /\ doing = "idle" /\ doing' = next /\ ~half
        /\ call' = "next" => doing' = "drain"
        /\ UNCHANGED <<shown, subscribed, queue, lagged, task, out, up, down, torn, half,
                       pending>>
    BY <1>1, <1>a, <1>r DEF Begin
  <2>3. HalfRead' /\ SubscribedWhen' /\ TornLater'
    BY <2>1, <2>2 DEF HalfRead, SubscribedWhen, TornLater
  <2> QED BY <1>u, <2>1, <2>2, <2>3, StillRows
<1>2. CASE Key \/ Resize \/ Drain
  BY <1>1, <1>2 DEF Key, Resize, Drain
<1>3. CASE Lose
  <2>1. /\ task' = "none" /\ ~subscribed' /\ queue' = <<>> /\ down' = <<>> /\ torn' = {}
        /\ ~half' /\ pending' = <<>> /\ doing' = "off" /\ call' = "none"
    BY <1>3 DEF Lose, Disconnected
  <2>2. OnTheWay' = {}
    BY <2>1, ElemsMoved DEF OnTheWay, Writing, Elems
  <2>3. /\ BeforeSubscribe' /\ SubscribedWhen' /\ TornLater' /\ HalfRead' /\ CreatedHere'
        /\ PlainAnswers' /\ UpToDate'
    BY <2>1, <2>2 DEF BeforeSubscribe, SubscribedWhen, TornLater, HalfRead, CreatedHere,
                      PlainAnswers, UpToDate, Following
  <2>4. InStep'
    BY <2>1 DEF InStep, Alternates
  <2>5. StageType' /\ SayOwn'
    BY <1>u DEF rowVars, RowInv, StageType, SayOwn
  <2> QED BY <2>3, <2>4, <2>5 DEF RowInv
<1>4. CASE Dial
  <2>1. /\ task = "none" /\ task' = "select" /\ doing' = "version" /\ ~half /\ ~subscribed
        /\ call' = "head"
        /\ "down" \notin torn
        /\ UNCHANGED <<shown, subscribed, queue, lagged, out, up, down, torn, half, pending>>
    BY <1>4, <1>a, <1>r DEF Dial, Open
  <2>2. HalfRead' /\ SubscribedWhen' /\ TornLater' /\ ~Following
    BY <2>1 DEF HalfRead, SubscribedWhen, TornLater, Following
  <2> QED BY <1>u, <2>1, <2>2, StillRows
<1>5. CASE Ask
  <2>1. /\ call \in {"head", "body"} /\ ~half /\ call' # "next"
        /\ UNCHANGED <<doing, shown, subscribed, queue, lagged, task, out, down, torn, half,
                       pending>>
    BY <1>5, <1>r DEF Ask, SendRequest
  <2>2. HalfRead' /\ SubscribedWhen' /\ TornLater'
    BY <1>r, <2>1 DEF HalfRead, SubscribedWhen, TornLater
  <2> QED BY <1>u, <2>1, <2>2, StillRows
<1>6. CASE Receive
  BY <1>6, <1>u, ReceiveRows
<1>7. CASE Update
  BY <1>7, <1>u, UpdateRows
<1>8. CASE DrainEnds
  <2>1. /\ call = "next" /\ doing' = "idle" /\ down = <<>> /\ ~half' /\ call' = "none"
        /\ torn' = IF half THEN torn \cup {"down"} ELSE torn
        /\ UNCHANGED <<shown, subscribed, queue, lagged, task, out, up, down, pending>>
    BY <1>8 DEF DrainEnds, Timeout
  <2>2. HalfRead' /\ SubscribedWhen' /\ TornLater'
    BY <2>1 DEF HalfRead, SubscribedWhen, TornLater
  <2>3. doing = "drain"
    BY <1>r, <2>1
  <2> QED BY <1>u, <2>1, <2>2, <2>3, StillRows
<1>9. CASE Read
  BY <1>9, <1>u, ReadRows
<1>10. CASE GiveUp /\ ~Lose
  <2>1. /\ Broken /\ doing = "resize" /\ doing' = "idle" /\ ~half' /\ call' = "none"
        /\ UNCHANGED <<shown, subscribed, queue, lagged, task, out, up, down, torn, pending>>
    BY <1>10 DEF GiveUp
  <2>2. "down" \notin torn => ~half
    BY <1>r, <2>1 DEF Broken, Reading
  <2>3. HalfRead' /\ SubscribedWhen' /\ TornLater'
    BY <2>1 DEF HalfRead, SubscribedWhen, TornLater
  <2> QED BY <1>u, <2>1, <2>2, <2>3, StillRows
<1> QED BY <1>2, <1>3, <1>4, <1>5, <1>6, <1>7, <1>8, <1>9, <1>10 DEF UI, Reconnect

-----------------------------------------------------------------------------
LEMMA RowInit == Init => RowInv
<1> SUFFICES ASSUME Init PROVE RowInv
  OBVIOUS
<1>1. OnTheWay = {} /\ task = "none" /\ ~half /\ call = "none"
  BY ElemsMoved DEF Init, StreamInit, OnTheWay, Writing, Elems
<1>2. StageType /\ SayOwn /\ BeforeSubscribe /\ SubscribedWhen /\ TornLater /\ HalfRead
  BY <1>1 DEF Init, StreamInit, StageType, SayOwn, BeforeSubscribe, SubscribedWhen,
              TornLater, HalfRead, Speakers
<1>3. InStep
  BY DEF Init, StreamInit, InStep, Alternates
<1>4. CreatedHere /\ PlainAnswers /\ UpToDate
  BY <1>1 DEF Init, StreamInit, CreatedHere, PlainAnswers, UpToDate, Following
<1> QED BY <1>2, <1>3, <1>4 DEF RowInv

LEMMA RowNext == ViewInv /\ AnswerInv /\ RowInv /\ [Next]_vars => RowInv'
<1> SUFFICES ASSUME ViewInv, AnswerInv, RowInv, [Next]_vars PROVE RowInv'
  OBVIOUS
<1>1. CASE UNCHANGED vars
  BY <1>1, RowSame DEF vars, rowVars
<1>2. CASE Daemon
  BY <1>2, DaemonRows
<1>3. CASE Handler
  BY <1>3, HandlerRows
<1>4. CASE Connection
  BY <1>4, ConnectionRows
<1>5. CASE Stop
  BY <1>5, CloseRows DEF Stop, rowVars
<1>6. CASE UI
  BY <1>6, UIRows
<1> QED BY <1>1, <1>2, <1>3, <1>4, <1>5, <1>6 DEF Next

(* Nothing is on its way any more, so what is reached is what is shown. *)
LEMMA RowGives == RowInv => ViewIsRow
<1> SUFFICES ASSUME RowInv, Drained, ~lagged, NEW s \in Sessions \ unannounced
             PROVE  shown[s] = Listed(s)
  BY DEF ViewIsRow
<1>1. /\ doing = "idle" /\ subscribed /\ task = "select" /\ "down" \notin torn
      /\ queue = <<>> /\ down = <<>> /\ pending = <<>>
      /\ \A a \in Speakers : say[a] = <<>>
  BY DEF Drained
<1>2. Following /\ ~Untold(s)
  BY <1>1 DEF Following, Untold
<1>3. Reached(s, Base(s)) = Listed(s)
  BY <1>2 DEF RowInv, UpToDate, Shows
<1>4. Base(s) = shown[s] /\ Going = <<>>
  BY <1>1 DEF Base, Going, Writing
<1>5. \A f \in Elems(down) : f.kind # "event"
  BY <1>1, ElemsMoved DEF Elems
<1>6. \A l : Through(<<>>, down, <<>>, <<>>, s, l) = l
  BY <1>5, WaysKeep
<1>7. Reached(s, Base(s)) = shown[s]
  BY <1>1, <1>4, <1>6 DEF Reached
<1> QED BY <1>3, <1>7

(* The list of the UI is the daemon's, though it is put together from a listing
   and the events of a subscription made before it, which arrive in between
   other answers, one part of a frame at a time, in a buffer that may overflow:
   when everything said has arrived, a session whose last change was announced is
   shown as it is (apply_event, submit_form and connect of tui/src/main.rs). *)
THEOREM ListIsDaemons == Spec => []ViewIsRow
<1>1. Spec => [](ViewInv /\ AnswerInv /\ RowInv)
  BY ViewInit, ViewStep, AnswerInit, AnswerStep, RowInit, RowNext, PTL DEF Spec
<1> QED BY <1>1, RowGives, PTL
=============================================================================
