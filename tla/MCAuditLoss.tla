----------------------------- MODULE MCAuditLoss -----------------------------
(* DaemonHost with a record of the events a running daemon failed to append: how
   many entries the file had each time. *)
EXTENDS DaemonHost

VARIABLE missed

Missing(d) ==
  /\ draft[d] # {} /\ draft'[d] = {} /\ heads' = heads
  /\ at'[d] # "off"

LossInit == Init /\ missed = {}
LossNext ==
  /\ Next
  /\ missed' = missed \cup (IF \E d \in Daemons : Missing(d) THEN {Len(log)} ELSE {})

LossSpec == LossInit /\ [][LossNext]_<<vars, missed>>

(* An event whose append failed shows in the log's own sequence: once another
   has been appended after it, verify reports the gap (the comment on
   Runtime::record promises it). *)
LossShows == edits = 0 => \A k \in missed : k < Len(log) => ~Intact
=============================================================================
