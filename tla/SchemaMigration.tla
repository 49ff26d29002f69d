--------------------------- MODULE SchemaMigration ---------------------------
(***************************************************************************)
(* Storage::migrate: bringing a database of any earlier version to version *)
(* 4, one autocommitted statement at a time (storage.rs 201-259).          *)
(*                                                                         *)
(* The plan is made from the version read first.  CREATE TABLE IF NOT      *)
(* EXISTS and the counter's ON CONFLICT DO NOTHING leave an existing       *)
(* database as it is and are not steps here.                               *)
(***************************************************************************)
EXTENDS Naturals, Sequences

CONSTANT Processes       \* daemons that may open the database

VARIABLES
  columns,     \* columns of the sessions table beyond id, name and state
  version,     \* schema_version; 1 where there is no such row
  folded,      \* no row still waits for its workspace in the v2 columns
  left         \* left[d]: the statements process d has still to execute

schemaVars == <<columns, version, folded, left>>

SchemaVersion == 4
V2Columns == {"agent", "workspace_id", "workspace_repository",
              "workspace_branch", "workspace_base"}
V3Column == "workspace_members"
V4Column == "security_profile"
AllColumns == V2Columns \cup {V3Column, V4Column}
Statements == AllColumns \cup {"backfill", "version"}

(* What earlier releases left: nothing, or a complete database of version 2, 3
   or 4, whose v2 rows may have a workspace in the columns of that version. *)
Vintages ==
  {[columns |-> {}, version |-> 1, folded |-> TRUE],
   [columns |-> V2Columns, version |-> 2, folded |-> FALSE],
   [columns |-> V2Columns \cup {V3Column}, version |-> 3, folded |-> TRUE],
   [columns |-> AllColumns, version |-> 4, folded |-> TRUE]}

SchemaInit ==
  /\ \E v \in Vintages :
       columns = v.columns /\ version = v.version /\ folded = v.folded
  /\ left = [d \in Processes |-> <<>>]

PlanMutant(v) ==                 \* records the version before the columns
  CASE v < 2 -> <<"version", "agent", "workspace_id", "workspace_repository",
                  "workspace_branch", "workspace_base", V4Column, V3Column,
                  "backfill">>
    [] v = 2 -> <<"version", V4Column, V3Column, "backfill">>
    [] v = 3 -> <<"version", V4Column>>
    [] OTHER -> <<"version">>

(* The code adds version 4's column before version 3's. *)
Plan(v) ==
  CASE v < 2 -> <<"agent", "workspace_id", "workspace_repository",
                  "workspace_branch", "workspace_base", V4Column, V3Column,
                  "backfill", "version">>
    [] v = 2 -> <<V4Column, V3Column, "backfill", "version">>
    [] v = 3 -> <<V4Column, "version">>
    [] OTHER -> <<"version">>

ReadVersion(d) ==
  /\ left' = [left EXCEPT ![d] = Plan(version)]
  /\ UNCHANGED <<columns, version, folded>>

(* ALTER TABLE ADD COLUMN refuses a column that exists. *)
Duplicate(d) == left[d] # <<>> /\ Head(left[d]) \in columns

Execute(d) ==
  /\ left[d] # <<>>
  /\ ~Duplicate(d)
  /\ LET s == Head(left[d])
     IN /\ columns' = columns \cup ({s} \cap AllColumns)
        /\ folded' = (folded \/ s = "backfill")
        /\ version' = IF s = "version" THEN SchemaVersion ELSE version
  /\ left' = [left EXCEPT ![d] = Tail(@)]

Abandon(d) ==
  /\ left' = [left EXCEPT ![d] = <<>>]
  /\ UNCHANGED <<columns, version, folded>>

Current == columns = AllColumns /\ version = SchemaVersion /\ folded

SchemaTypeOK ==
  /\ columns \subseteq AllColumns
  /\ version \in 1 .. SchemaVersion
  /\ folded \in BOOLEAN
  /\ left \in [Processes -> Seq(Statements)]
=============================================================================
