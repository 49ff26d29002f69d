---------------------------- MODULE ApprovalGate ----------------------------
(***************************************************************************)
(* The approval broker (approval.rs) and the one action it gates: deleting *)
(* a session which has a workspace and whose stored profile has, in the    *)
(* security file the daemon loaded at its start, the anclave approval      *)
(* policy (runtime.rs refuse_unapproved_destroy, delete).                  *)
(*                                                                         *)
(* The broker keeps its maps behind four mutexes, so a request takes one   *)
(* step per lock; decide and expire_due hold pending and decided together. *)
(* Everything is in memory and starts over with the daemon, while clients  *)
(* and their users remember the prompts they were shown.                   *)
(*                                                                         *)
(* The session fixes the action (its own workspace), so an approval is for *)
(* a session.  SessionLifecycle has the rest of a delete.                  *)
(***************************************************************************)
EXTENDS Naturals

CONSTANTS
  Clients,       \* connections that send deletes, one at a time each
  Sessions,      \* sessions with a workspace
  MaxApprovals,  \* bound on the approvals raised between two restarts
  MaxRestarts    \* bound on daemon restarts

ASSUME ApprovalsAssumption ==
  /\ MaxApprovals \in Nat
  /\ MaxRestarts \in Nat
  /\ Sessions # {}

Approvals == 1 .. MaxApprovals
None == 0                   \* no approval

VARIABLES
  policy,      \* policy[s]: what the daemon's security file says of s's profile
  listed,      \* sessions whose row is not deleted
  kept,        \* sessions whose workspace is still on disk
  nextId,      \* the last approval id handed out
  subject,     \* subject[a]: the session approval a is for
  pending,     \* the pending map's keys
  decided,     \* the decided map: "open" where there is no entry
  history,     \* approvals in the history vector
  h,           \* h[c]: what the delete handler of client c is about to do
  prompts,     \* history: the <<approval, session>> pairs people may have seen
  consent,     \* history: sessions whose destruction a person approved
  restarts     \* daemon restarts so far

broker == <<nextId, subject, pending, decided, history>>
gateVars == <<policy, listed, kept, nextId, subject, pending, decided, history,
              h, prompts, consent, restarts>>

Answers == {"approved", "denied"}
Decisions == {"open", "expired"} \cup Answers
GateSteps == {"idle", "pending_scan", "history_scan", "next_id", "insert",
              "push", "decision", "tombstone", "cleanup"}
(* known: get_session found the row, so the gate and the cleanup apply. *)
Handlers == [pc : GateSteps, session : Sessions, known : BOOLEAN,
             approval : Approvals \cup {None}]

Idle == [pc |-> "idle", session |-> CHOOSE s \in Sessions : TRUE,
         known |-> FALSE, approval |-> None]

Policies == {"anclave", "agent", "gone"}    \* gone: no such profile any more

GateInit ==
  /\ policy \in [Sessions -> Policies]
  /\ listed = Sessions
  /\ kept = Sessions
  /\ nextId = 0
  /\ subject = [a \in Approvals |-> Idle.session]    \* read only once set
  /\ pending = {}
  /\ decided = [a \in Approvals |-> "open"]
  /\ history = {}
  /\ h = [c \in Clients |-> Idle]
  /\ prompts = {}
  /\ consent = {}
  /\ restarts = 0

-----------------------------------------------------------------------------
(* delete, up to the gate's answer *)

At(c, pc) == h[c].pc = pc
Goto(c, pc) == h' = [h EXCEPT ![c].pc = pc]
Finish(c) == h' = [h EXCEPT ![c] = Idle]
Names(c, a, pc) == h' = [h EXCEPT ![c] = [@ EXCEPT !.approval = a, !.pc = pc]]

(* get(..).ok().unwrap_or_default(): a profile the file no longer has counts as
   the default one, which leaves the decision to the agent. *)
Approval(s) == IF policy[s] = "gone" THEN "agent" ELSE policy[s]

(* get_session: a storage error reads as no session, which skips the gate and
   the cleanup but not the deletion. *)
DeleteBegin(c, s) ==
  /\ At(c, "idle")
  /\ \E known \in BOOLEAN :
       /\ known => s \in listed
       /\ h' = [h EXCEPT ![c] =
                  [pc |-> IF known /\ Approval(s) = "anclave"
                          THEN "pending_scan" ELSE "tombstone",
                   session |-> s, known |-> known, approval |-> None]]
  /\ UNCHANGED <<policy, listed, kept, broker, prompts, consent, restarts>>

PendingScanMutant(c) ==             \* any pending approval will do
  /\ At(c, "pending_scan")
  /\ \/ \E a \in pending : Names(c, a, "decision")
     \/ pending = {} /\ Goto(c, "history_scan")
  /\ UNCHANGED <<policy, listed, kept, broker, prompts, consent, restarts>>

(* live_for: a pending approval of this session ... *)
PendingScan(c) ==
  /\ At(c, "pending_scan")
  /\ LET same == {a \in pending : subject[a] = h[c].session}
     IN \/ \E a \in same : Names(c, a, "decision")
        \/ same = {} /\ Goto(c, "history_scan")
  /\ UNCHANGED <<policy, listed, kept, broker, prompts, consent, restarts>>

(* ... or one it was granted before. *)
HistoryScan(c) ==
  /\ At(c, "history_scan")
  /\ LET granted == {a \in history : /\ subject[a] = h[c].session
                                     /\ decided[a] = "approved"}
     IN \/ \E a \in granted : Names(c, a, "decision")
        \/ granted = {} /\ Goto(c, "next_id")
  /\ UNCHANGED <<policy, listed, kept, broker, prompts, consent, restarts>>

TakeIdMutant(c) ==                  \* names the id before it counts up
  /\ At(c, "next_id")
  /\ nextId < MaxApprovals
  /\ nextId' = nextId + 1
  /\ Names(c, nextId, "insert")
  /\ UNCHANGED <<policy, listed, kept, subject, pending, decided, history,
                 prompts, consent, restarts>>

TakeId(c) ==
  /\ At(c, "next_id")
  /\ nextId < MaxApprovals
  /\ nextId' = nextId + 1
  /\ Names(c, nextId + 1, "insert")
  /\ UNCHANGED <<policy, listed, kept, subject, pending, decided, history,
                 prompts, consent, restarts>>

(* From here on ListApprovals shows it, and the ApprovalRequested event and the
   refusal follow: anyone may have seen the prompt. *)
InsertPending(c) ==
  /\ At(c, "insert")
  /\ pending' = pending \cup {h[c].approval}
  /\ subject' = [subject EXCEPT ![h[c].approval] = h[c].session]
  /\ prompts' = prompts \cup {<<h[c].approval, h[c].session>>}
  /\ Goto(c, "push")
  /\ UNCHANGED <<policy, listed, kept, nextId, decided, history, consent,
                 restarts>>

PushHistory(c) ==
  /\ At(c, "push")
  /\ history' = history \cup {h[c].approval}
  /\ Goto(c, "decision")
  /\ UNCHANGED <<policy, listed, kept, nextId, subject, pending, decided,
                 prompts, consent, restarts>>

(* approval_decision: only Approved lets the delete on; otherwise the client is
   refused and told the id to approve. *)
ReadDecision(c) ==
  /\ At(c, "decision")
  /\ IF decided[h[c].approval] = "approved" THEN Goto(c, "tombstone")
     ELSE Finish(c)
  /\ UNCHANGED <<policy, listed, kept, broker, prompts, consent, restarts>>

(* delete_session: NotFound without a listed row, or a storage error. *)
Tombstone(c) ==
  /\ At(c, "tombstone")
  /\ \/ /\ h[c].session \in listed
        /\ listed' = listed \ {h[c].session}
        /\ IF h[c].known THEN Goto(c, "cleanup") ELSE Finish(c)
     \/ Finish(c) /\ UNCHANGED listed
  /\ UNCHANGED <<policy, kept, broker, prompts, consent, restarts>>

Cleanup(c) ==
  /\ At(c, "cleanup")
  /\ kept' = kept \ {h[c].session}
  /\ Finish(c)
  /\ UNCHANGED <<policy, listed, broker, prompts, consent, restarts>>

Delete(c) ==
  \/ \E s \in Sessions : DeleteBegin(c, s)
  \/ PendingScan(c) \/ HistoryScan(c) \/ TakeId(c) \/ InsertPending(c)
  \/ PushHistory(c) \/ ReadDecision(c) \/ Tombstone(c) \/ Cleanup(c)

-----------------------------------------------------------------------------
(* Clients decide, time passes *)

DecideMutant(a, s, answer) ==       \* a later answer replaces an earlier one
  /\ a \in pending \/ decided[a] # "open"
  /\ pending' = pending \ {a}
  /\ decided' = [decided EXCEPT ![a] = answer]
  /\ consent' = IF answer = "approved" THEN consent \cup {s} ELSE consent
  /\ UNCHANGED <<policy, listed, kept, nextId, subject, history, h, prompts,
                 restarts>>

(* decide, on a connection of its own, answers a pending approval, whether or
   not its deadline has passed; anything else is AlreadyDecided or Unknown and
   changes nothing.  The person deciding means the session s of the prompt. *)
Decide(a, s, answer) ==
  /\ a \in pending /\ decided[a] = "open"
  /\ pending' = pending \ {a}
  /\ decided' = [decided EXCEPT ![a] = answer]
  /\ consent' = IF answer = "approved" THEN consent \cup {s} ELSE consent
  /\ UNCHANGED <<policy, listed, kept, nextId, subject, history, h, prompts,
                 restarts>>

Answer ==
  \E p \in prompts, answer \in Answers : Decide(p[1], p[2], answer)

ExpireMutant(lapsed) ==             \* decides but leaves the prompt standing
  /\ lapsed # {} /\ lapsed \subseteq pending
  /\ decided' = [a \in Approvals |-> IF a \in lapsed THEN "expired"
                                     ELSE decided[a]]
  /\ UNCHANGED <<policy, listed, kept, nextId, subject, pending, history, h,
                 prompts, consent, restarts>>

(* expire_due, on a tick of the poller: lapsed are the pending approvals whose
   deadline has passed. *)
Expire(lapsed) ==
  /\ lapsed # {} /\ lapsed \subseteq pending
  /\ pending' = pending \ lapsed
  /\ decided' = [a \in Approvals |-> IF a \in lapsed THEN "expired"
                                     ELSE decided[a]]
  /\ UNCHANGED <<policy, listed, kept, nextId, subject, history, h, prompts,
                 consent, restarts>>

(* The daemon stops, at any point, and is started again: with an empty broker,
   and with whatever the security file has become. *)
Restart ==
  /\ restarts < MaxRestarts
  /\ restarts' = restarts + 1
  /\ policy' \in [Sessions -> Policies]
  /\ nextId' = 0
  /\ subject' = [a \in Approvals |-> Idle.session]
  /\ pending' = {}
  /\ decided' = [a \in Approvals |-> "open"]
  /\ history' = {}
  /\ h' = [c \in Clients |-> Idle]
  /\ UNCHANGED <<listed, kept, prompts, consent>>

GateNext ==
  \/ \E c \in Clients : Delete(c)
  \/ Answer
  \/ \E lapsed \in SUBSET pending : Expire(lapsed)
  \/ Restart

GateSpec == GateInit /\ [][GateNext]_gateVars

(* Every deadline passes and the poller ticks; nobody has to answer a prompt. *)
GateFairness ==
  \A a \in Approvals :
    WF_gateVars(\E lapsed \in SUBSET pending : a \in lapsed /\ Expire(lapsed))

-----------------------------------------------------------------------------
(* Properties *)

GateTypeOK ==
  /\ policy \in [Sessions -> Policies]
  /\ listed \subseteq Sessions
  /\ kept \subseteq Sessions
  /\ nextId \in 0 .. MaxApprovals
  /\ subject \in [Approvals -> Sessions]
  /\ pending \subseteq Approvals
  /\ decided \in [Approvals -> Decisions]
  /\ history \subseteq Approvals
  /\ h \in [Clients -> Handlers]
  /\ prompts \subseteq Approvals \X Sessions
  /\ consent \subseteq Sessions
  /\ restarts \in 0 .. MaxRestarts

Gated == {s \in Sessions : policy[s] = "anclave"}
Granted(s) == \E a \in Approvals : subject[a] = s /\ decided[a] = "approved"

(* While the file this daemon loaded has a session's profile, and that asks for
   approval, neither the session nor its workspace goes but under an approval of
   that very session which this daemon holds as approved: not another session's,
   not one denied or expired, whatever other deletes and decisions interleave.
   Two ways around the gate are left, and the property says where.  A profile
   that is gone from the file asks for nothing; and a delete whose first read
   failed tombstones the row unasked, though it leaves the workspace. *)
DestroyIsGranted ==
  [][\A s \in Gated :
       /\ s \in kept \ kept' => Granted(s)
       /\ s \in listed \ listed' =>
            \/ Granted(s)
            \/ \E c \in Clients : At(c, "tombstone") /\ h[c].session = s
                                  /\ ~h[c].known /\ h'[c] # h[c]]_gateVars

(* ... and a person approved destroying that session, having been shown a
   prompt that named it. *)
DestroyNeedsConsent ==
  [][\A s \in Gated : s \in kept \ kept' => s \in consent]_gateVars

(* A decision is final while the daemon lives: two clients racing, or a late
   answer meeting the expiry, cannot turn one into another. *)
DecisionFinal ==
  [][restarts' = restarts =>
       \A a \in Approvals :
         decided[a] # "open" => decided'[a] = decided[a]]_gateVars

(* Silence is not consent and not a deadlock either: every prompt ends. *)
PromptsEnd == \A a \in Approvals : a \in pending ~> a \notin pending
=============================================================================
