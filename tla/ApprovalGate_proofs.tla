------------------------ MODULE ApprovalGate_proofs ------------------------
(***************************************************************************)
(* Proofs about ApprovalGate for any clients, sessions, files and bounds.  *)
(*                                                                         *)
(* The heart is GateInv: until a request inserts its approval, nobody else *)
(* knows that id, so the session an approval is for never changes under a  *)
(* handler that has named it; and a gated delete past the gate holds an    *)
(* approval of its own session that was approved.                          *)
(***************************************************************************)
EXTENDS ApprovalGate, TLAPS

(* An id in use has been handed out. *)
UsedIds ==
  /\ \A a \in pending \cup history : a <= nextId
  /\ \A a \in Approvals : decided[a] # "open" => a <= nextId
  /\ \A c \in Clients : h[c].approval <= nextId

(* The approval about to be inserted is known to its handler alone. *)
InsertFresh ==
  \A c \in Clients : h[c].pc = "insert" =>
    /\ h[c].approval # None
    /\ h[c].approval \notin pending \cup history
    /\ decided[h[c].approval] = "open"
    /\ \A d \in Clients \ {c} : h[d].approval # h[c].approval

(* A handler that named an approval named one of its own session. *)
NamedRight ==
  \A c \in Clients : h[c].pc \in {"push", "decision"} =>
    h[c].approval # None /\ subject[h[c].approval] = h[c].session

(* A delete of a gated session past the gate was granted.  The gate is what it
   was when the handler passed it: the file is read at the daemon's start, which
   no handler survives. *)
PastGate ==
  \A c \in Clients :
    h[c].pc \in {"tombstone", "cleanup"} /\ h[c].known /\ h[c].session \in Gated =>
      /\ h[c].approval # None
      /\ subject[h[c].approval] = h[c].session
      /\ decided[h[c].approval] = "approved"

CleanupKnown == \A c \in Clients : h[c].pc = "cleanup" => h[c].known

(* Nothing is pending and decided at once. *)
PendingOpen == \A a \in pending : decided[a] = "open"

GateInv ==
  UsedIds /\ InsertFresh /\ NamedRight /\ PastGate /\ CleanupKnown /\ PendingOpen

-----------------------------------------------------------------------------
(* Types *)

LEMMA IdleType == Idle \in Handlers
BY ApprovalsAssumption DEF Idle, Handlers, GateSteps

LEMMA StepType ==
  ASSUME GateTypeOK, NEW c \in Clients
  PROVE  /\ \A pc \in GateSteps : Goto(c, pc) => h' \in [Clients -> Handlers]
         /\ Finish(c) => h' \in [Clients -> Handlers]
         /\ \A pc \in GateSteps, a \in Approvals :
              Names(c, a, pc) => h' \in [Clients -> Handlers]
<1>1. ASSUME NEW pc \in GateSteps, Goto(c, pc) PROVE h' \in [Clients -> Handlers]
  BY <1>1 DEF Goto, GateTypeOK, Handlers
<1>2. ASSUME Finish(c) PROVE h' \in [Clients -> Handlers]
  BY <1>2, IdleType DEF Finish, GateTypeOK
<1>3. ASSUME NEW pc \in GateSteps, NEW a \in Approvals, Names(c, a, pc)
      PROVE  h' \in [Clients -> Handlers]
  BY <1>3 DEF Names, GateTypeOK, Handlers
<1> QED BY <1>1, <1>2, <1>3

LEMMA TypeInit == GateInit => GateTypeOK
BY ApprovalsAssumption, IdleType
   DEF GateInit, GateTypeOK, Idle, Handlers, Decisions, Approvals

LEMMA TypeDelete ==
  ASSUME GateTypeOK, InsertFresh, NamedRight, NEW c \in Clients, Delete(c)
  PROVE  GateTypeOK'
<1> USE DEF broker
<1>s. GateSteps = {"idle", "pending_scan", "history_scan", "next_id", "insert",
               "push", "decision", "tombstone", "cleanup"}
  BY DEF GateSteps
<1>h. /\ h[c].session \in Sessions
      /\ h[c].pc \in {"insert", "push", "decision"} => h[c].approval \in Approvals
  BY DEF GateTypeOK, Handlers, InsertFresh, NamedRight
<1>1. CASE \E s \in Sessions : DeleteBegin(c, s)
  <2>1. h' \in [Clients -> Handlers]
    BY <1>s, <1>1 DEF DeleteBegin, GateTypeOK, Handlers
  <2> QED BY <1>1, <2>1 DEF DeleteBegin, GateTypeOK
<1>2. CASE PendingScan(c)
  <2>1. h' \in [Clients -> Handlers]
    BY <1>s, <1>2, StepType DEF PendingScan, GateTypeOK
  <2> QED BY <1>2, <2>1 DEF PendingScan, GateTypeOK
<1>3. CASE HistoryScan(c)
  <2>1. h' \in [Clients -> Handlers]
    BY <1>s, <1>3, StepType DEF HistoryScan, GateTypeOK
  <2> QED BY <1>3, <2>1 DEF HistoryScan, GateTypeOK
<1>4. CASE TakeId(c)
  <2>1. nextId + 1 \in Approvals
    BY <1>4, ApprovalsAssumption DEF TakeId, GateTypeOK, Approvals
  <2>2. h' \in [Clients -> Handlers]
    BY <1>s, <1>4, <2>1, StepType DEF TakeId
  <2> QED BY <1>4, <2>1, <2>2 DEF TakeId, GateTypeOK, Approvals
<1>5. CASE InsertPending(c)
  <2>1. h' \in [Clients -> Handlers]
    BY <1>s, <1>5, StepType DEF InsertPending
  <2>2. h[c].approval \in Approvals
    BY <1>h, <1>5 DEF InsertPending, At
  <2>3. subject' \in [Approvals -> Sessions]
    BY <1>h, <1>5, <2>2 DEF InsertPending, GateTypeOK
  <2> QED BY <1>h, <1>5, <2>1, <2>2, <2>3 DEF InsertPending, GateTypeOK
<1>6. CASE PushHistory(c)
  <2>1. h' \in [Clients -> Handlers]
    BY <1>s, <1>6, StepType DEF PushHistory
  <2>2. h[c].approval \in Approvals
    BY <1>h, <1>6 DEF PushHistory, At
  <2> QED BY <1>6, <2>1, <2>2 DEF PushHistory, GateTypeOK
<1>7. CASE ReadDecision(c)
  <2>1. h' \in [Clients -> Handlers]
    BY <1>s, <1>7, StepType DEF ReadDecision
  <2> QED BY <1>7, <2>1 DEF ReadDecision, GateTypeOK
<1>8. CASE Tombstone(c)
  <2>1. h' \in [Clients -> Handlers]
    BY <1>s, <1>8, StepType DEF Tombstone
  <2> QED BY <1>8, <2>1 DEF Tombstone, GateTypeOK
<1>9. CASE Cleanup(c)
  <2>1. h' \in [Clients -> Handlers]
    BY <1>9, StepType DEF Cleanup
  <2> QED BY <1>9, <2>1 DEF Cleanup, GateTypeOK
<1> QED
  BY <1>1, <1>2, <1>3, <1>4, <1>5, <1>6, <1>7, <1>8, <1>9 DEF Delete

(* Decisions keep everything else in place: only open approvals change. *)
LEMMA DecideKeeps ==
  ASSUME GateTypeOK, NEW a \in Approvals, NEW s \in Sessions, NEW answer \in Answers,
         Decide(a, s, answer)
  PROVE  /\ GateTypeOK'
         /\ \A b \in Approvals : decided[b] # "open" => decided'[b] = decided[b]
         /\ \A b \in Approvals : decided'[b] # decided[b] => b \in pending
         /\ pending' \subseteq pending
         /\ UNCHANGED <<policy, listed, kept, nextId, subject, history, h,
                        prompts, restarts>>
<1>1. decided' \in [Approvals -> Decisions]
  BY DEF Decide, GateTypeOK, Decisions
<1> QED BY <1>1 DEF Decide, GateTypeOK

LEMMA ExpireKeeps ==
  ASSUME GateTypeOK, \A a \in pending : decided[a] = "open",
         NEW lapsed \in SUBSET pending, Expire(lapsed)
  PROVE  /\ GateTypeOK'
         /\ \A b \in Approvals : decided[b] # "open" => decided'[b] = decided[b]
         /\ \A b \in Approvals : decided'[b] # decided[b] => b \in pending
         /\ pending' \subseteq pending
         /\ UNCHANGED <<policy, listed, kept, nextId, subject, history, h,
                        prompts, restarts>>
<1>1. decided' \in [Approvals -> Decisions]
  BY DEF Expire, GateTypeOK, Decisions
<1> QED BY <1>1 DEF Expire, GateTypeOK

LEMMA RestartType == GateTypeOK /\ Restart => GateTypeOK'
<1> SUFFICES ASSUME GateTypeOK, Restart PROVE GateTypeOK'
  OBVIOUS
<1>1. h' \in [Clients -> Handlers]
  BY IdleType DEF Restart
<1>2. subject' \in [Approvals -> Sessions] /\ decided' \in [Approvals -> Decisions]
  BY IdleType DEF Restart, Handlers, Decisions
<1> QED BY <1>1, <1>2, ApprovalsAssumption DEF Restart, GateTypeOK

-----------------------------------------------------------------------------
(* GateInv is inductive. *)

LEMMA InvInit == GateInit => GateInv
BY DEF GateInit, GateInv, UsedIds, InsertFresh, NamedRight, PastGate, CleanupKnown,
       PendingOpen, Idle, None, Approvals

(* GateSteps that touch no approval leave GateInv alone if the handler they move
   forgets its approval, or satisfies its part of the invariant. *)
LEMMA HandlerMoves ==
  ASSUME GateTypeOK, GateInv, NEW c \in Clients,
         UNCHANGED <<policy, nextId, subject, pending, decided, history>>,
         \A d \in Clients \ {c} : h'[d] = h[d],
         h'[c].approval \in Approvals \cup {None},
         h'[c].approval <= nextId, h'[c].pc # "insert",
         \A d \in Clients : h[d].pc = "insert" => h'[c].approval # h[d].approval,
         h'[c].pc \in {"push", "decision"} =>
           h'[c].approval # None /\ subject[h'[c].approval] = h'[c].session,
         h'[c].pc \in {"tombstone", "cleanup"} /\ h'[c].known
             /\ h'[c].session \in Gated =>
           /\ h'[c].approval # None
           /\ subject[h'[c].approval] = h'[c].session
           /\ decided[h'[c].approval] = "approved",
         h'[c].pc = "cleanup" => h'[c].known
  PROVE  GateInv'
<1>1. UsedIds'
  BY DEF GateInv, UsedIds
<1>2. InsertFresh'
  BY DEF GateInv, InsertFresh
<1>3. NamedRight' /\ CleanupKnown' /\ PendingOpen'
  BY DEF GateInv, NamedRight, CleanupKnown, PendingOpen
<1>4. PastGate'
  BY DEF GateInv, PastGate, Gated
<1> QED BY <1>1, <1>2, <1>3, <1>4 DEF GateInv

LEMMA GateDelete ==
  ASSUME GateTypeOK, GateInv, NEW c \in Clients, Delete(c)
  PROVE  GateInv'
<1> USE DEF broker
<1>h. /\ h[c].session \in Sessions
      /\ h[c].approval \in Approvals \cup {None}
      /\ nextId \in Nat /\ None = 0
      /\ \A a \in Approvals : a \in Nat
      /\ \A d \in Clients : h[d].pc = "insert" => h[d].approval # None
  BY ApprovalsAssumption
     DEF GateTypeOK, Handlers, GateInv, InsertFresh, Approvals, None
<1>i. Idle.pc = "idle" /\ Idle.approval = None
  BY DEF Idle
<1>a. \A d \in Clients : /\ h[d].approval \in Approvals \cup {None}
                         /\ h[d].approval \in Nat
                         /\ h[d].approval <= nextId
  <2>1. \A d \in Clients : h[d].approval \in Approvals \cup {None}
    BY DEF GateTypeOK, Handlers
  <2>2. ASSUME NEW x \in Approvals \cup {None} PROVE x \in Nat
    BY <1>h
  <2>3. \A d \in Clients : h[d].approval <= nextId
    BY DEF GateInv, UsedIds
  <2> QED BY <2>1, <2>2, <2>3
<1>1. CASE \E s \in Sessions : DeleteBegin(c, s)
  <2>1. /\ h'[c].approval = None
        /\ h'[c].pc \in {"pending_scan", "tombstone"}
        /\ h'[c].pc = "tombstone" => ~h'[c].known \/ h'[c].session \notin Gated
        /\ \A d \in Clients \ {c} : h'[d] = h[d]
    BY <1>1 DEF DeleteBegin, GateTypeOK, Approval, Gated
  <2> QED BY <1>1, <1>h, <2>1, HandlerMoves DEF DeleteBegin
<1>2. CASE PendingScan(c) \/ HistoryScan(c)
  <2>1. CASE \E a \in pending \cup history :
               Names(c, a, "decision") /\ subject[a] = h[c].session
    <3> PICK a \in pending \cup history :
               Names(c, a, "decision") /\ subject[a] = h[c].session
      BY <2>1
    <3>1. a \in Approvals /\ a <= nextId
      BY DEF GateTypeOK, GateInv, UsedIds
    <3>2. /\ h'[c].approval = a /\ h'[c].pc = "decision"
          /\ h'[c].session = h[c].session
          /\ \A d \in Clients \ {c} : h'[d] = h[d]
      BY DEF Names, GateTypeOK, Handlers
    <3>3. \A d \in Clients : h[d].pc = "insert" => a # h[d].approval
      BY DEF GateInv, InsertFresh
    <3>4. a # None
      BY <1>h, <3>1, ApprovalsAssumption DEF Approvals
    <3> QED BY <1>2, <3>1, <3>2, <3>3, <3>4, HandlerMoves
            DEF PendingScan, HistoryScan
  <2>2. CASE \E pc \in {"history_scan", "next_id"} : Goto(c, pc)
    <3>1. /\ h'[c].approval = h[c].approval
          /\ h'[c].pc \in {"history_scan", "next_id"}
          /\ \A d \in Clients \ {c} : h'[d] = h[d]
      BY <2>2 DEF Goto, GateTypeOK, Handlers
    <3>2. h[c].approval <= nextId
      BY DEF GateInv, UsedIds
    <3>3. h[c].pc \in {"pending_scan", "history_scan"}
      BY <1>2 DEF PendingScan, HistoryScan, At
    <3>4. \A d \in Clients : h[d].pc = "insert" => h[c].approval # h[d].approval
      BY <3>3 DEF GateInv, InsertFresh
    <3> QED BY <1>2, <1>h, <3>1, <3>2, <3>4, HandlerMoves
            DEF PendingScan, HistoryScan
  <2> QED BY <1>2, <2>1, <2>2 DEF PendingScan, HistoryScan
<1>4. CASE TakeId(c)
  <2>1. /\ h'[c].approval = nextId + 1 /\ h'[c].pc = "insert"
        /\ \A d \in Clients \ {c} : h'[d] = h[d]
        /\ nextId + 1 \in Approvals
    BY <1>4, <1>h, ApprovalsAssumption
       DEF TakeId, Names, GateTypeOK, Handlers, Approvals
  <2>2. UsedIds'
    <3>1. /\ nextId' = nextId + 1 /\ pending' = pending /\ history' = history
          /\ decided' = decided
      BY <1>4 DEF TakeId
    <3>2. \A a \in Approvals : a <= nextId => a <= nextId + 1
      BY <1>h
    <3>3. pending \cup history \subseteq Approvals
      BY DEF GateTypeOK
    <3>4. \A d \in Clients : h'[d].approval <= nextId + 1
      BY <1>h, <1>a, <2>1
    <3> QED BY <3>1, <3>2, <3>3, <3>4 DEF GateInv, UsedIds
  <2>3. InsertFresh'
    <3>1. \A d \in Clients : h[d].approval \in Nat /\ h[d].approval # nextId + 1
      <4> SUFFICES ASSUME NEW d \in Clients
                   PROVE  h[d].approval \in Nat /\ h[d].approval # nextId + 1
        OBVIOUS
      <4>1. h[d].approval \in Nat /\ h[d].approval <= nextId
        BY <1>a
      <4> QED BY <1>h, <4>1
    <3>2. nextId + 1 \notin pending \cup history /\ decided[nextId + 1] = "open"
      BY <1>h, <2>1 DEF GateInv, UsedIds
    <3> QED BY <1>4, <1>h, <2>1, <3>1, <3>2 DEF TakeId, GateInv, InsertFresh
  <2>4. NamedRight' /\ CleanupKnown' /\ PendingOpen' /\ PastGate'
    BY <1>4, <2>1
       DEF TakeId, GateInv, NamedRight, CleanupKnown, PendingOpen, PastGate,
           Gated
  <2> QED BY <2>2, <2>3, <2>4 DEF GateInv
<1>5. CASE InsertPending(c)
  <2> DEFINE k == h[c].approval
  <2>1. /\ k \in Approvals /\ k \notin pending \cup history
        /\ decided[k] = "open" /\ k <= nextId
        /\ \A d \in Clients \ {c} : h[d].approval # k
    BY <1>5, <1>h DEF InsertPending, At, GateInv, InsertFresh, UsedIds
  <2>2. /\ h'[c].approval = k /\ h'[c].pc = "push" /\ h'[c].session = h[c].session
        /\ \A d \in Clients \ {c} : h'[d] = h[d]
    BY <1>5 DEF InsertPending, Goto, GateTypeOK, Handlers
  <2>3. /\ subject'[k] = h[c].session
        /\ \A a \in Approvals \ {k} : subject'[a] = subject[a]
    BY <1>5, <2>1 DEF InsertPending, GateTypeOK
  <2>4. UsedIds' /\ InsertFresh' /\ CleanupKnown' /\ PendingOpen'
    BY <1>5, <2>1, <2>2
       DEF InsertPending, GateInv, UsedIds, InsertFresh, CleanupKnown, PendingOpen
  <2>5. \A d \in Clients \ {c} : h[d].approval # None =>
          subject'[h[d].approval] = subject[h[d].approval]
    BY <1>a, <2>1, <2>3
  <2>6. NamedRight'
    BY <1>h, <2>1, <2>2, <2>3, <2>5, ApprovalsAssumption
       DEF GateInv, NamedRight, Approvals
  <2>7. PastGate'
    BY <1>5, <2>2, <2>5 DEF InsertPending, GateInv, PastGate, Gated
  <2> QED BY <2>4, <2>6, <2>7 DEF GateInv
<1>6. CASE PushHistory(c)
  <2>1. /\ h'[c].approval = h[c].approval /\ h'[c].pc = "decision"
        /\ h'[c].session = h[c].session
        /\ \A d \in Clients \ {c} : h'[d] = h[d]
    BY <1>6 DEF PushHistory, Goto, GateTypeOK, Handlers
  <2>2. h[c].pc = "push"
    BY <1>6 DEF PushHistory, At
  <2>3. UsedIds' /\ InsertFresh'
    BY <1>6, <2>1, <2>2 DEF PushHistory, GateInv, UsedIds, InsertFresh
  <2>4. NamedRight' /\ PastGate' /\ CleanupKnown' /\ PendingOpen'
    BY <1>6, <2>1, <2>2
       DEF PushHistory, GateInv, NamedRight, PastGate, CleanupKnown, PendingOpen,
           Gated
  <2> QED BY <2>3, <2>4 DEF GateInv
<1>7. CASE ReadDecision(c)
  <2>1. \A d \in Clients \ {c} : h'[d] = h[d]
    BY <1>7 DEF ReadDecision, Goto, Finish, GateTypeOK
  <2>2. CASE decided[h[c].approval] = "approved"
    <3>1. /\ h'[c].approval = h[c].approval /\ h'[c].pc = "tombstone"
          /\ h'[c].session = h[c].session
      BY <1>7, <2>2 DEF ReadDecision, Goto, GateTypeOK, Handlers
    <3>2. /\ h[c].approval # None /\ subject[h[c].approval] = h[c].session
          /\ h[c].approval <= nextId /\ h[c].pc # "insert"
      BY <1>7 DEF ReadDecision, At, GateInv, NamedRight, UsedIds
    <3>3. \A d \in Clients : h[d].pc = "insert" => h[c].approval # h[d].approval
      BY <3>2 DEF GateInv, InsertFresh
    <3> QED BY <1>7, <1>h, <2>1, <2>2, <3>1, <3>2, <3>3, HandlerMoves
            DEF ReadDecision
  <2>3. CASE decided[h[c].approval] # "approved"
    <3>1. h'[c] = Idle
      BY <1>7, <2>3 DEF ReadDecision, Finish, GateTypeOK
    <3> QED BY <1>7, <1>h, <1>i, <2>1, <3>1, HandlerMoves DEF ReadDecision
  <2> QED BY <2>2, <2>3
<1>8. CASE Tombstone(c) \/ Cleanup(c)
  <2>1. CASE Finish(c)
    <3>1. h'[c] = Idle /\ \A d \in Clients \ {c} : h'[d] = h[d]
      BY <2>1 DEF Finish, GateTypeOK
    <3> QED BY <1>8, <1>h, <1>i, <3>1, HandlerMoves DEF Tombstone, Cleanup
  <2>2. CASE Goto(c, "cleanup") /\ h[c].known /\ h[c].pc = "tombstone"
    <3>1. /\ h'[c].approval = h[c].approval /\ h'[c].pc = "cleanup"
          /\ h'[c].session = h[c].session /\ h'[c].known = h[c].known
          /\ \A d \in Clients \ {c} : h'[d] = h[d]
      BY <2>2 DEF Goto, GateTypeOK, Handlers
    <3>2. h[c].approval <= nextId
      BY DEF GateInv, UsedIds
    <3>3. \A d \in Clients : h[d].pc = "insert" => h[c].approval # h[d].approval
      BY <2>2 DEF GateInv, InsertFresh
    <3>4. h[c].session \in Gated =>
            /\ h[c].approval # None
            /\ subject[h[c].approval] = h[c].session
            /\ decided[h[c].approval] = "approved"
      BY <2>2 DEF GateInv, PastGate
    <3> QED BY <1>8, <1>h, <2>2, <3>1, <3>2, <3>3, <3>4, HandlerMoves
            DEF Tombstone, Cleanup
  <2> QED BY <1>8, <2>1, <2>2 DEF Tombstone, Cleanup, At
<1> QED BY <1>1, <1>2, <1>4, <1>5, <1>6, <1>7, <1>8 DEF Delete

(* A decision or an expiry only ever changes open approvals. *)
LEMMA GateDecided ==
  ASSUME GateTypeOK, GateInv,
         UNCHANGED <<policy, nextId, subject, history, h>>,
         pending' \subseteq pending,
         \A a \in Approvals : decided[a] # "open" => decided'[a] = decided[a],
         \A a \in Approvals : decided'[a] # decided[a] =>
           a \in pending \ pending'
  PROVE  GateInv'
<1>1. UsedIds' /\ PendingOpen'
  BY DEF GateInv, UsedIds, PendingOpen, GateTypeOK
<1>2. InsertFresh'
  <2> SUFFICES ASSUME NEW c \in Clients, h[c].pc = "insert"
               PROVE  /\ h[c].approval # None
                      /\ h[c].approval \notin pending' \cup history
                      /\ decided'[h[c].approval] = "open"
                      /\ \A d \in Clients \ {c} : h[d].approval # h[c].approval
    BY DEF InsertFresh
  <2>1. h[c].approval \in Approvals
    BY DEF GateInv, InsertFresh, GateTypeOK, Handlers
  <2> QED BY <2>1 DEF GateInv, InsertFresh
<1>3. NamedRight' /\ CleanupKnown'
  BY DEF GateInv, NamedRight, CleanupKnown
<1>4. PastGate'
  BY DEF GateInv, PastGate, GateTypeOK, Handlers, Gated
<1> QED BY <1>1, <1>2, <1>3, <1>4 DEF GateInv

LEMMA DecideAnswers ==
  ASSUME GateTypeOK, GateInv, Answer
  PROVE  /\ GateTypeOK' /\ GateInv'
         /\ \A a \in Approvals : decided[a] # "open" => decided'[a] = decided[a]
<1>1. PICK p \in prompts, answer \in Answers : Decide(p[1], p[2], answer)
  BY DEF Answer
<1>2. p[1] \in Approvals /\ p[2] \in Sessions
  BY DEF GateTypeOK
<1>3. \A a \in Approvals : decided'[a] # decided[a] => a \in pending \ pending'
  BY <1>1, <1>2 DEF Decide, GateTypeOK
<1> QED BY <1>1, <1>2, <1>3, DecideKeeps, GateDecided

LEMMA ExpireDecides ==
  ASSUME GateTypeOK, GateInv, NEW lapsed \in SUBSET pending, Expire(lapsed)
  PROVE  /\ GateTypeOK' /\ GateInv'
         /\ \A a \in Approvals : decided[a] # "open" => decided'[a] = decided[a]
<1>1. \A a \in pending : decided[a] = "open"
  BY DEF GateInv, PendingOpen
<1>2. \A a \in Approvals : decided'[a] # decided[a] => a \in pending \ pending'
  BY DEF Expire, GateTypeOK
<1> QED BY <1>1, <1>2, ExpireKeeps, GateDecided

LEMMA RestartForgets == Restart => GateInv'
<1>1. Idle.pc = "idle" /\ Idle.approval = None
  BY DEF Idle
<1> QED BY <1>1, ApprovalsAssumption
        DEF Restart, GateInv, UsedIds, InsertFresh, NamedRight, PastGate,
            CleanupKnown, PendingOpen, None, Approvals

LEMMA InvNext == GateTypeOK /\ GateInv /\ [GateNext]_gateVars => GateTypeOK' /\ GateInv'
<1> SUFFICES ASSUME GateTypeOK, GateInv, [GateNext]_gateVars PROVE GateTypeOK' /\ GateInv'
  OBVIOUS
<1>1. ASSUME NEW c \in Clients, Delete(c) PROVE GateTypeOK' /\ GateInv'
  BY <1>1, TypeDelete, GateDelete DEF GateInv
<1>2. CASE Answer
  BY <1>2, DecideAnswers
<1>3. CASE \E lapsed \in SUBSET pending : Expire(lapsed)
  BY <1>3, ExpireDecides
<1>4. CASE Restart
  BY <1>4, RestartType, RestartForgets
<1>5. CASE UNCHANGED gateVars
  BY <1>5 DEF gateVars, GateTypeOK, GateInv, UsedIds, InsertFresh, NamedRight,
       PastGate, CleanupKnown, PendingOpen, Gated
<1> QED BY <1>1, <1>2, <1>3, <1>4, <1>5 DEF GateNext

LEMMA GateAlways == GateSpec => [](GateTypeOK /\ GateInv)
BY TypeInit, InvInit, InvNext, PTL DEF GateSpec

(* Every variable keeps its type. *)
THEOREM ApprovalTypes == GateSpec => []GateTypeOK
BY GateAlways, PTL

(* A decision is final while the daemon lives. *)
THEOREM DecisionsAreFinal == GateSpec => DecisionFinal
<1>1. GateTypeOK /\ GateInv /\ [GateNext]_gateVars =>
        [restarts' = restarts =>
           \A a \in Approvals : decided[a] # "open" => decided'[a] = decided[a]]_gateVars
  <2> SUFFICES ASSUME GateTypeOK, GateInv, GateNext, restarts' = restarts,
                      NEW a \in Approvals, decided[a] # "open"
               PROVE  decided'[a] = decided[a]
    OBVIOUS
  <2>1. ASSUME NEW c \in Clients, Delete(c) PROVE decided' = decided
    BY <2>1 DEF Delete, DeleteBegin, PendingScan, HistoryScan, TakeId,
         InsertPending, PushHistory, ReadDecision, Tombstone, Cleanup, broker
  <2>2. CASE Answer
    BY <2>2, DecideAnswers
  <2>3. CASE \E lapsed \in SUBSET pending : Expire(lapsed)
    BY <2>3, ExpireDecides
  <2>4. ~Restart
    BY DEF Restart, GateTypeOK
  <2> QED BY <2>1, <2>2, <2>3, <2>4 DEF GateNext
<1> QED BY <1>1, GateAlways, PTL DEF GateSpec, DecisionFinal

(* While the daemon's file has a session's profile and that asks for approval,
   neither the session nor its workspace goes but under an approval of it which
   the daemon holds as approved, but for the row of a delete whose first read
   failed. *)
THEOREM DestroysAreGranted == GateSpec => DestroyIsGranted
<1>1. GateTypeOK /\ GateInv /\ [GateNext]_gateVars =>
        [\A s \in Gated :
           /\ s \in kept \ kept' => Granted(s)
           /\ s \in listed \ listed' =>
                \/ Granted(s)
                \/ \E c \in Clients : At(c, "tombstone") /\ h[c].session = s
                                      /\ ~h[c].known /\ h'[c] # h[c]]_gateVars
  <2> SUFFICES ASSUME GateTypeOK, GateInv, GateNext, NEW s \in Gated
               PROVE  /\ s \in kept \ kept' => Granted(s)
                      /\ s \in listed \ listed' =>
                           \/ Granted(s)
                           \/ \E c \in Clients :
                                At(c, "tombstone") /\ h[c].session = s
                                /\ ~h[c].known /\ h'[c] # h[c]
    OBVIOUS
  <2>1. ASSUME NEW c \in Clients, h[c].pc \in {"tombstone", "cleanup"},
               h[c].known, h[c].session = s
        PROVE  Granted(s)
    <3>1. /\ h[c].approval # None /\ subject[h[c].approval] = s
          /\ decided[h[c].approval] = "approved"
      BY <2>1 DEF GateInv, PastGate
    <3> QED BY <3>1 DEF GateTypeOK, Handlers, Granted
  <2>2. ASSUME s \in kept, s \notin kept' PROVE Granted(s)
    <3>1. PICK c \in Clients : Cleanup(c)
      BY <2>2 DEF GateNext, Delete, DeleteBegin, PendingScan, HistoryScan,
           TakeId, InsertPending, PushHistory, ReadDecision, Tombstone, Answer,
           Decide, Expire, Restart
    <3>2. h[c].pc = "cleanup" /\ h[c].session = s
      BY <2>2, <3>1 DEF Cleanup, At
    <3>3. h[c].known
      BY <3>2 DEF GateInv, CleanupKnown
    <3> QED BY <2>1, <3>2, <3>3
  <2>3. ASSUME s \in listed, s \notin listed'
        PROVE  \/ Granted(s)
               \/ \E c \in Clients :
                    At(c, "tombstone") /\ h[c].session = s
                    /\ ~h[c].known /\ h'[c] # h[c]
    <3>1. PICK c \in Clients : Tombstone(c)
      BY <2>3 DEF GateNext, Delete, DeleteBegin, PendingScan, HistoryScan,
           TakeId, InsertPending, PushHistory, ReadDecision, Cleanup, Answer,
           Decide, Expire, Restart
    <3>2. At(c, "tombstone") /\ h[c].session = s
      BY <2>3, <3>1 DEF Tombstone
    <3>3. CASE h[c].known
      BY <2>1, <3>2, <3>3 DEF At
    <3>4. CASE ~h[c].known
      <4>1. h' = [h EXCEPT ![c] = Idle]
        BY <2>3, <3>1, <3>4 DEF Tombstone, Finish
      <4>2. h'[c] = Idle /\ Idle.pc # h[c].pc
        BY <3>2, <4>1 DEF GateTypeOK, At, Idle
      <4>3. h'[c] # h[c]
        BY <4>2
      <4> QED BY <3>2, <3>4, <4>3
    <3> QED BY <3>3, <3>4
  <2> QED BY <2>2, <2>3
<1> QED BY <1>1, GateAlways, PTL DEF GateSpec, DestroyIsGranted
=============================================================================
