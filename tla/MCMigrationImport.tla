-------------------------- MODULE MCMigrationImport --------------------------
(* An instance of MigrationImport for TLC: sources that name a session like an
   agent or like a preference, and sources that do not. *)
EXTENDS MigrationImport

Agents == {Unparsable, {[name |-> "claude", command |-> "given"]},
           {[name |-> "claude", command |-> "blank"]}}
SessionLists ==
  {Nothing} \cup
  {{[name |-> n, secured |-> b]} : n \in {"claude", "sandbox"}, b \in BOOLEAN}
MCSources ==
  [agents : Agents, sessions : SessionLists,
   preferences : {{"theme"}, {"theme", "sandbox"}}]
=============================================================================
