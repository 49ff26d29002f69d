--------------------------- MODULE MigrationImport ---------------------------
(***************************************************************************)
(* Importing a previous installation (migration.rs and runtime.rs          *)
(* import_migration): a report of what each item of the source would do,   *)
(* a rollback record, then the files, kept by the report and read again.   *)
(* The source belongs to its user, who may edit it at any time; the daemon *)
(* may die between two writes.  One import at a time.                      *)
(***************************************************************************)
EXTENDS Naturals, FiniteSets

CONSTANTS
  Names,      \* names of agents, sessions and preferences
  Sensitive,  \* names with an unsafe key in them
  Sources,    \* what the source may hold: [agents, sessions, preferences]
  Unparsable, \* a file that is not TOML or JSON
  Nothing,    \* no file, no report, no record
  MaxEdits    \* bound on the edits of the source

VARIABLES
  source,     \* the files read
  agents,     \* agents the daemon knows: read when it started
  sessions,   \* names of its sessions
  report,     \* items of the import under way or of the last one
  pc,         \* what the import does next
  rollback,   \* the undo record: the sessions there were
  landed,     \* landed[kind]: what the file of that kind holds
  edits

vars == <<source, agents, sessions, report, pc, rollback, landed, edits>>

Init ==
  /\ source \in Sources
  /\ agents \in SUBSET Names /\ sessions \in SUBSET Names
  /\ report = Nothing /\ pc = "idle" /\ rollback = Nothing
  /\ landed = [kind \in {"agent", "preference"} |-> Nothing]
  /\ edits = 0

-----------------------------------------------------------------------------
(* The report *)

Entries(f) == IF f \in {Nothing, Unparsable} THEN {} ELSE f
Item(kind, name, action) == [kind |-> kind, name |-> name, action |-> action]
NotParsed(kind, f) ==
  IF f = Unparsable THEN {Item(kind, "the file", "skip")} ELSE {}

InspectAgents ==
  NotParsed("agents", source.agents) \cup
  {Item("agent", a.name, IF a.command = "blank" THEN "skip"
                         ELSE IF a.name \in agents THEN "already_present"
                         ELSE "import") : a \in Entries(source.agents)}

InspectSessions ==
  NotParsed("sessions", source.sessions) \cup
  {Item("session", s.name, IF s.name \in sessions THEN "already_present"
                           ELSE IF s.secured THEN "skip" ELSE "import")
     : s \in Entries(source.sessions)}

InspectPreferences ==
  NotParsed("preferences", source.preferences) \cup
  {Item("preference", k, IF k \in Sensitive THEN "skip" ELSE "import")
     : k \in Entries(source.preferences)}

Inspect ==
  LET items == InspectAgents \cup InspectSessions \cup InspectPreferences
  IN IF items = {} THEN {Item("source", "the source", "skip")} ELSE items

(* Of whatever kind. *)
Wanted == {i.name : i \in {j \in report : j.action = "import"}}

-----------------------------------------------------------------------------
(* The import *)

(* The dry run stops at the report. *)
DryRun ==
  /\ pc = "idle"
  /\ report' = Inspect
  /\ UNCHANGED <<source, agents, sessions, pc, rollback, landed, edits>>

(* The record comes before the first change, or nothing is changed. *)
Record ==
  /\ pc = "idle"
  /\ report' = Inspect
  /\ \/ rollback' = sessions /\ pc' = "agents"
     \/ UNCHANGED <<rollback, pc>>
  /\ UNCHANGED <<source, agents, sessions, landed, edits>>

Write(kind, kept) ==
  landed' = IF kept = {} THEN landed ELSE [landed EXCEPT ![kind] = kept]

WriteAgents ==
  /\ pc = "agents" /\ pc' = "preferences"
  /\ Write("agent", {a \in Entries(source.agents) : a.name \in Wanted})
  /\ UNCHANGED <<source, agents, sessions, report, rollback, edits>>

WritePreferences ==
  /\ pc = "preferences" /\ pc' = "idle"
  /\ Write("preference", Entries(source.preferences) \cap Wanted)
  /\ UNCHANGED <<source, agents, sessions, report, rollback, edits>>

(* A write fails, or the daemon dies: what is written stays. *)
Breaks ==
  /\ pc # "idle" /\ pc' = "idle"
  /\ UNCHANGED <<source, agents, sessions, report, rollback, landed, edits>>

(* AgentRegistry::load, by a daemon started on the imported file. *)
Restart ==
  /\ pc' = "idle"
  /\ \A a \in Entries(landed["agent"]) : a.command # "blank"
  /\ agents' = agents \cup {a.name : a \in Entries(landed["agent"])}
  /\ UNCHANGED <<source, sessions, report, rollback, landed, edits>>

CreateSession(n) ==
  /\ sessions' = sessions \cup {n}
  /\ UNCHANGED <<source, agents, report, pc, rollback, landed, edits>>

Edit ==
  /\ edits < MaxEdits /\ edits' = edits + 1
  /\ source' \in Sources
  /\ UNCHANGED <<agents, sessions, report, pc, rollback, landed>>

Next ==
  \/ DryRun \/ Record \/ WriteAgents \/ WritePreferences \/ Breaks \/ Restart
  \/ \E n \in Names : CreateSession(n)
  \/ Edit

Spec == Init /\ [][Next]_vars

-----------------------------------------------------------------------------
(* "Only the items the report marked `Import` are written, so what was reviewed
   is exactly what lands" (migration.rs:289-290): whatever an import writes into
   a file, its report marks that item, of that kind, for import. *)
ReviewedIsWritten ==
  [][/\ landed'["agent"] # landed["agent"] =>
          \A a \in landed'["agent"] : Item("agent", a.name, "import") \in report
     /\ landed'["preference"] # landed["preference"] =>
          \A k \in landed'["preference"] :
            Item("preference", k, "import") \in report]_vars
=============================================================================
