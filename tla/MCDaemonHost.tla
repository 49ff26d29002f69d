---------------------------- MODULE MCDaemonHost ----------------------------
(* The daemon beside its sessions for TLC: its processes with what they keep on
   disk, and its approval broker.  The two share no modelled state, so each
   behaviour is about one of them and the other stays as it began. *)
EXTENDS DaemonHost, ApprovalGate

VARIABLE theme

mcVars == <<vars, gateVars, theme>>

(* The first daemon's file asks for approval everywhere; the next one's still
   does or has lost the profile.  A profile that asks for nothing is no different
   from a lost one to the gate, and is left to the proofs. *)
MCInit ==
  /\ Init /\ GateInit
  /\ theme \in {"host", "gate"}
  /\ theme = "gate" => version = SchemaVersion
  /\ policy = [s \in Sessions |-> "anclave"]

MCNext ==
  /\ \/ theme = "host" /\ Next /\ UNCHANGED gateVars
     \/ theme = "gate" /\ GateNext /\ UNCHANGED vars
                        /\ \A s \in Sessions : policy'[s] # "agent"
  /\ UNCHANGED theme

MCSpec == MCInit /\ [][MCNext]_mcVars /\ GateFairness
=============================================================================
