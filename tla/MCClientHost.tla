---------------------------- MODULE MCClientHost ----------------------------
(* The client's process for TLC.  Its list over the connection, its keyboard and
   its plugins share no modelled state, so each behaviour is about one of them
   and the others stay as they began. *)
EXTENDS ClientView, TuiHost, PluginTrust

VARIABLE theme

mcVars == <<vars, tuiVars, trustVars, theme>>

(* Plugins start out alike but for one at most; which one is all the same. *)
Alike == [p \in Paths |-> CHOOSE c \in Contents : TRUE]
OneDiffers ==
  \E c \in Contents : files = [Alike EXCEPT ![CHOOSE p \in Paths : TRUE] = c]

MCInit ==
  /\ Init /\ TuiInit /\ TrustInit
  /\ theme \in {"list", "keys", "plugins"}
  /\ IF theme = "plugins" THEN OneDiffers ELSE files = Alike

(* What a render leaves bears on no other plugin, command or edit, so one plugin
   at a time has asked for something or failed, with no command at work. *)
OneRendered ==
  LET rendered == {p \in Paths : plugins'[p].asks \/ plugins'[p].failed}
  IN rendered # {} => /\ Cardinality(rendered) = 1
                      /\ \A k \in Commands : command'[k].pc = "done"

MCNext ==
  /\ \/ theme = "list" /\ Next /\ UNCHANGED <<tuiVars, trustVars>>
     \/ theme = "keys" /\ TuiNext /\ UNCHANGED <<vars, trustVars>>
     \/ theme = "plugins" /\ TrustNext /\ OneRendered /\ UNCHANGED <<vars, tuiVars>>
  /\ UNCHANGED theme

MCSpec == MCInit /\ [][MCNext]_mcVars /\ Fairness
=============================================================================
