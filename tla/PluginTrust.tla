----------------------------- MODULE PluginTrust -----------------------------
(***************************************************************************)
(* UI plugins and what they are granted (crates/plugin, the plugin command *)
(* of cli/src/main.rs, and load, reload and render in tui/src/main.rs).    *)
(*                                                                         *)
(* Three parties share a directory without a lock: whoever edits plugins,  *)
(* commands that trust or revoke one, each a process that reads the whole  *)
(* store and writes it back, and the UI, which reads the store once, when  *)
(* it starts, and the plugins whenever it is told to.  What Lua may reach  *)
(* is left out; that a render may fail in any of its ways is not.          *)
(***************************************************************************)
EXTENDS Naturals, FiniteSets

CONSTANTS
  Paths,       \* plugin files
  Contents,    \* what may be in one, told apart by its digest
  Capable,     \* those that declare a capability
  Absent,      \* no file, no plugin
  Torn,        \* a trust file that cannot be parsed
  Commands,    \* processes of the command line
  MaxCommands, \* bound on the commands run
  MaxEdits     \* bound on the edits

VARIABLES
  files,       \* files[p]: what is in plugin p
  store,       \* the trust file: entries, or Torn while it is written
  command,     \* command[k]: [pc, path, wants, entries, read]
  trust,       \* the entries the UI holds; Absent: no UI
  plugins,     \* plugins[p]: [content, granted, failed, asks] of the UI's
  ran, edited, \* how many commands and edits there were
  approved,    \* history: contents a saved command trusted at p
  decided,     \* history: what the last command saved for p said
  overlapped,  \* history: a command began while another was running
  heard        \* history: decided and overlapped when the UI read the store

historyVars == <<approved, decided, overlapped>>
heldVars == <<trust, plugins, heard>>
trustVars == <<files, store, command, heldVars, ran, edited, historyVars>>

NoEntries == [p \in Paths |-> Absent]
Done == [pc |-> "done", path |-> Absent, wants |-> "revoke",
         entries |-> NoEntries, read |-> Absent]
NotLoaded == [content |-> Absent, granted |-> FALSE, failed |-> FALSE,
              asks |-> FALSE]

TrustInit ==
  /\ files \in [Paths -> Contents]
  /\ store = NoEntries
  /\ command = [k \in Commands |-> Done]
  /\ trust = Absent
  /\ plugins = [p \in Paths |-> NotLoaded]
  /\ ran = 0 /\ edited = 0
  /\ approved = [p \in Paths |-> {}]
  /\ decided = NoEntries
  /\ overlapped = FALSE
  /\ heard = [decided |-> NoEntries, overlapped |-> FALSE]

(* load: what cannot be parsed holds nothing. *)
Entries == IF store = Torn THEN NoEntries ELSE store

-----------------------------------------------------------------------------
(* plugin trust, plugin revoke *)

Load(k, p, wants) ==
  /\ command[k].pc = "done" /\ ran < MaxCommands /\ ran' = ran + 1
  /\ command' = [command EXCEPT ![k] =
                   [pc |-> "read", path |-> p, wants |-> wants,
                    entries |-> Entries, read |-> Absent]]
  /\ overlapped' = (overlapped \/ \E j \in Commands : command[j].pc # "done")
  /\ UNCHANGED <<files, store, heldVars, edited, approved, decided>>

(* A file to trust that is not there ends the command. *)
ReadPlugin(k) ==
  LET c == command[k]
      content == IF c.wants = "trust" THEN files[c.path] ELSE Absent
  IN /\ c.pc = "read"
     /\ command' = [command EXCEPT ![k] =
          IF c.wants = "trust" /\ content = Absent THEN Done
          ELSE [c EXCEPT !.pc = "open", !.read = content,
                         !.entries[c.path] = content]]
     /\ UNCHANGED <<files, store, heldVars, ran, edited, historyVars>>

(* save truncates the file and then writes it. *)
Truncate(k) ==
  /\ command[k].pc = "open"
  /\ command' = [command EXCEPT ![k].pc = "write"]
  /\ store' = Torn
  /\ UNCHANGED <<files, heldVars, ran, edited, historyVars>>

WriteStore(k) ==
  LET c == command[k] IN
  /\ c.pc = "write"
  /\ command' = [command EXCEPT ![k] = Done]
  /\ store' = c.entries
  /\ approved' = [approved EXCEPT ![c.path] = @ \cup ({c.read} \ {Absent})]
  /\ decided' = [decided EXCEPT ![c.path] = c.read]
  /\ UNCHANGED <<files, heldVars, ran, edited, overlapped>>

Dies(k) ==
  /\ command[k].pc # "done"
  /\ command' = [command EXCEPT ![k] = Done]
  /\ UNCHANGED <<files, store, heldVars, ran, edited, historyVars>>

Edit(p) ==
  /\ edited < MaxEdits /\ edited' = edited + 1
  /\ \E c \in (Contents \cup {Absent}) \ {files[p]} :
       files' = [files EXCEPT ![p] = c]
  /\ UNCHANGED <<store, command, heldVars, ran, historyVars>>

-----------------------------------------------------------------------------
(* The UI *)

StateOfMutant(entries, p, content) ==      \* by path alone
  IF content \notin Capable THEN "not required"
  ELSE IF entries[p] = Absent THEN "untrusted" ELSE "trusted"

StateOf(entries, p, content) ==
  IF content \notin Capable THEN "not required"
  ELSE IF entries[p] = Absent THEN "untrusted"
  ELSE IF entries[p] = content THEN "trusted" ELSE "modified"

(* load_one for each file: what it runs is what it takes the digest of.  A file
   that does not load is left out. *)
LoadAll(entries, bad) ==
  [p \in Paths |->
     IF files[p] = Absent \/ p \in bad THEN NotLoaded
     ELSE [content |-> files[p], failed |-> FALSE, asks |-> FALSE,
           granted |-> files[p] \in Capable
                         /\ StateOf(entries, p, files[p]) = "trusted"]]

(* load_plugins: once without trust, then with that of the store. *)
Start ==
  /\ trust = Absent
  /\ trust' = Entries
  /\ \E bad \in SUBSET Paths : plugins' = LoadAll(Entries, bad)
  /\ heard' = [decided |-> decided, overlapped |-> overlapped]
  /\ UNCHANGED <<files, store, command, ran, edited, historyVars>>

(* The store is not read again. *)
Reload ==
  /\ trust # Absent
  /\ \E bad \in SUBSET Paths : plugins' = LoadAll(trust, bad)
  /\ UNCHANGED <<files, store, command, trust, heard, ran, edited, historyVars>>

(* One plugin's turn in render_plugins.  What it asks is whatever it left under
   __commands in the context it was handed, a table it may write: one that was
   granted nothing has no function for it, and may put it there itself.  A
   failure, be it an error, the budget or the tree, drops what it asked for and
   lasts until it is loaded again. *)
Render(p) ==
  /\ plugins[p].content # Absent /\ ~plugins[p].failed
  /\ \/ \E asks \in BOOLEAN : plugins' = [plugins EXCEPT ![p].asks = asks]
     \/ plugins' = [plugins EXCEPT ![p].failed = TRUE, ![p].asks = FALSE]
  /\ UNCHANGED <<files, store, command, trust, heard, ran, edited, historyVars>>

Quit ==
  /\ trust # Absent /\ trust' = Absent
  /\ plugins' = [p \in Paths |-> NotLoaded]
  /\ UNCHANGED <<files, store, command, heard, ran, edited, historyVars>>

TrustNext ==
  \/ \E k \in Commands :
       \/ \E p \in Paths, wants \in {"trust", "revoke"} : Load(k, p, wants)
       \/ ReadPlugin(k) \/ Truncate(k) \/ WriteStore(k) \/ Dies(k)
  \/ Start \/ Reload \/ Quit
  \/ \E p \in Paths : Edit(p) \/ Render(p)

TrustSpec == TrustInit /\ [][TrustNext]_trustVars

-----------------------------------------------------------------------------
(* Properties *)

(* A plugin that is granted what it declares is, byte for byte, one that was
   trusted at its path, and unless two commands overlapped, one whose trust had
   not been withdrawn or replaced when the UI read the store: whatever was
   edited, copied, or cut short in between.  It says what a plugin was granted,
   not what it asks: nothing keeps one that was granted nothing from asking. *)
GrantIsApproved ==
  \A p \in Paths :
    plugins[p].granted =>
      /\ plugins[p].content \in approved[p]
      /\ heard.overlapped \/ plugins[p].content = heard.decided[p]
=============================================================================
