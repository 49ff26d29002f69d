-------------------------- MODULE PluginTrust_proofs --------------------------
(***************************************************************************)
(* Proofs about PluginTrust for any plugins, commands, edits and contents. *)
(*                                                                         *)
(* An entry, wherever a process holds it, was approved for its path; while *)
(* no two commands overlap it is also the last decision saved for it, for  *)
(* then a command writes back what nobody changed since it read it.  What  *)
(* the UI grants it grants by the entries it read when it started.         *)
(***************************************************************************)
EXTENDS PluginTrust, TLAPS

CommandRecords ==
  [pc : {"done", "read", "open", "write"}, path : Paths \cup {Absent},
   wants : {"trust", "revoke"}, entries : [Paths -> Contents \cup {Absent}],
   read : Contents \cup {Absent}]
PluginRecords ==
  [content : Contents \cup {Absent}, granted : BOOLEAN, failed : BOOLEAN,
   asks : BOOLEAN]

TrustType ==
  /\ files \in [Paths -> Contents \cup {Absent}]
  /\ Entries \in [Paths -> Contents \cup {Absent}]
  /\ command \in [Commands -> CommandRecords]
  /\ \A k \in Commands : command[k].pc # "done" => command[k].path \in Paths
  /\ plugins \in [Paths -> PluginRecords]
  /\ approved \in [Paths -> SUBSET Contents]
  /\ decided \in [Paths -> Contents \cup {Absent}]
  /\ overlapped \in BOOLEAN

Known(p, content) ==
  content # Absent => content \in approved[p]
Current(p, content) ==
  content # Absent => content = decided[p]

(* Its own path a command may have set to what is not saved yet. *)
Kept(k, p) ==
  LET c == command[k]
  IN c.pc = "read" \/ (c.pc \in {"open", "write"} /\ p # c.path)

StoreKnown == \A p \in Paths : Known(p, Entries[p])
CommandKnown ==
  \A k \in Commands, p \in Paths : Kept(k, p) => Known(p, command[k].entries[p])
CommandReads ==
  \A k \in Commands :
    LET c == command[k] IN c.pc \in {"open", "write"} => c.entries[c.path] = c.read
OneAtATime ==
  ~overlapped =>
    /\ \A j, k \in Commands :
         command[j].pc # "done" /\ command[k].pc # "done" => j = k
    /\ \A p \in Paths : Current(p, Entries[p])
    /\ \A k \in Commands, p \in Paths :
         Kept(k, p) => Current(p, command[k].entries[p])

Granted(p, content) ==
  /\ content \in approved[p]
  /\ heard.overlapped \/ content = heard.decided[p]
TrustHeard ==
  trust # Absent => \A p \in Paths : trust[p] # Absent => Granted(p, trust[p])
GrantHeard ==
  \A p \in Paths : plugins[p].granted => Granted(p, plugins[p].content)

StoreInv == StoreKnown /\ CommandKnown /\ CommandReads /\ OneAtATime
TrustInv == TrustType /\ StoreInv /\ TrustHeard /\ GrantHeard

LEMMA NotLoadedType == NotLoaded \in PluginRecords
BY DEF NotLoaded, PluginRecords

LEMMA DoneType == Done \in CommandRecords
BY DEF Done, NoEntries, CommandRecords

LEMMA TrustInvInit == TrustInit => TrustInv
<1> SUFFICES ASSUME TrustInit PROVE TrustInv
  OBVIOUS
<1>1. \A p \in Paths : Entries[p] = Absent
  BY DEF TrustInit, Entries, NoEntries
<1>2. /\ \A k \in Commands : command[k].pc = "done"
      /\ \A p \in Paths : ~plugins[p].granted
  BY DEF TrustInit, Done, NotLoaded
<1>3. TrustType
  BY DoneType, NotLoadedType DEF TrustInit, TrustType, Entries, NoEntries, Done
<1> QED BY <1>1, <1>2, <1>3
        DEF TrustInit, TrustInv, StoreInv, StoreKnown, CommandKnown, CommandReads,
            OneAtATime, Known, Current, Kept, TrustHeard, GrantHeard

-----------------------------------------------------------------------------
(* What the UI grants stays granted rightly while approvals only grow. *)
LEMMA HeardKept ==
  ASSUME TrustInv, UNCHANGED heldVars, TrustType',
         \A p \in Paths : approved[p] \subseteq approved'[p]
  PROVE  TrustHeard' /\ GrantHeard'
BY DEF TrustInv, TrustHeard, GrantHeard, Granted, heldVars

LEMMA LoadKeepsInv ==
  ASSUME TrustInv, NEW k \in Commands, NEW p \in Paths,
         NEW wants \in {"trust", "revoke"}, Load(k, p, wants)
  PROVE  TrustInv'
<1> USE DEF TrustInv, StoreInv
<1> DEFINE r == [pc |-> "read", path |-> p, wants |-> wants, entries |-> Entries,
                 read |-> Absent]
<1>1. Entries' = Entries /\ UNCHANGED <<files, plugins, approved, decided>>
  BY DEF Load, Entries, heldVars
<1>2. r \in CommandRecords
  BY DEF TrustType, CommandRecords
<1>3. /\ command'[k] = r /\ \A j \in Commands \ {k} : command'[j] = command[j]
      /\ command' \in [Commands -> CommandRecords]
  BY <1>2 DEF Load, TrustType
<1>4. TrustType'
  BY <1>1, <1>3 DEF Load, TrustType
<1>5. StoreKnown' /\ CommandKnown' /\ CommandReads'
  BY <1>1, <1>3 DEF StoreKnown, CommandKnown, CommandReads, Kept, Known
<1>6. OneAtATime'
  <2> SUFFICES ASSUME ~overlapped' PROVE OneAtATime'
    BY DEF OneAtATime
  <2>1. ~overlapped /\ \A j \in Commands : command[j].pc = "done"
    BY DEF Load, TrustType
  <2>2. \A j \in Commands : command'[j].pc # "done" => j = k
    BY <1>3, <2>1
  <2>3. \A q \in Paths : Current(q, Entries[q])'
    BY <1>1, <2>1 DEF OneAtATime, Current
  <2>4. \A j \in Commands, q \in Paths :
          Kept(j, q)' => Current(q, command[j].entries[q])'
    BY <1>1, <1>3, <2>1, <2>3 DEF Kept, Current
  <2> QED BY <2>2, <2>3, <2>4 DEF OneAtATime
<1>7. TrustHeard' /\ GrantHeard'
  BY <1>1, <1>4, HeardKept DEF Load
<1> QED BY <1>4, <1>5, <1>6, <1>7

LEMMA ReadKeepsInv ==
  ASSUME TrustInv, NEW k \in Commands, ReadPlugin(k)
  PROVE  TrustInv'
<1> USE DEF TrustInv, StoreInv
<1> DEFINE c == command[k]
           content == IF c.wants = "trust" THEN files[c.path] ELSE Absent
           r == [c EXCEPT !.pc = "open", !.read = content,
                          !.entries[c.path] = content]
<1>1. /\ Entries' = Entries /\ overlapped' = overlapped
      /\ UNCHANGED <<files, plugins, approved, decided>>
  BY DEF ReadPlugin, Entries, heldVars, historyVars
<1>2. c \in CommandRecords /\ c.path \in Paths /\ c.pc = "read"
  BY DEF ReadPlugin, TrustType
<1>3. content \in Contents \cup {Absent}
  BY <1>2 DEF TrustType
<1>4. r \in CommandRecords
  BY <1>2, <1>3 DEF CommandRecords
<1>5. /\ r.pc = "open" /\ r.path = c.path /\ r.read = content
      /\ r.entries[c.path] = content
      /\ \A q \in Paths \ {c.path} : r.entries[q] = c.entries[q]
  BY <1>2 DEF CommandRecords
<1>6. /\ command'[k] = Done \/ command'[k] = r
      /\ \A j \in Commands \ {k} : command'[j] = command[j]
      /\ command' \in [Commands -> CommandRecords]
  BY <1>4, DoneType DEF ReadPlugin, TrustType
<1> HIDE DEF r, content
<1>7. TrustType'
  BY <1>1, <1>2, <1>5, <1>6 DEF TrustType, Done
<1>8. \A j \in Commands, q \in Paths :
        Kept(j, q)' => /\ Kept(j, q)
                       /\ command'[j].entries[q] = command[j].entries[q]
  BY <1>2, <1>5, <1>6 DEF Kept, Done
<1>9. StoreKnown' /\ CommandKnown'
  BY <1>1, <1>8 DEF StoreKnown, CommandKnown, Known
<1>10. CommandReads'
  BY <1>5, <1>6 DEF CommandReads, Done
<1>11. OneAtATime'
  <2>1. \A j \in Commands : command'[j].pc # "done" => command[j].pc # "done"
    BY <1>2, <1>6 DEF Done
  <2> QED BY <1>1, <1>8, <2>1 DEF OneAtATime, Current
<1>12. TrustHeard' /\ GrantHeard'
  BY <1>1, <1>7, HeardKept DEF ReadPlugin
<1> QED BY <1>7, <1>9, <1>10, <1>11, <1>12

LEMMA TruncateKeepsInv ==
  ASSUME TrustInv, NEW k \in Commands, Truncate(k)
  PROVE  TrustInv'
<1> USE DEF TrustInv, StoreInv
<1>1. /\ \A p \in Paths : Entries'[p] = Absent
      /\ Entries' \in [Paths -> Contents \cup {Absent}]
      /\ overlapped' = overlapped
      /\ UNCHANGED <<files, plugins, approved, decided>>
  BY DEF Truncate, Entries, NoEntries, heldVars, historyVars
<1>2. command[k].pc = "open" /\ command[k] \in CommandRecords
  BY DEF Truncate, TrustType
<1>3. /\ command'[k] = [command[k] EXCEPT !.pc = "write"]
      /\ \A j \in Commands \ {k} : command'[j] = command[j]
      /\ command' \in [Commands -> CommandRecords]
  BY <1>2 DEF Truncate, TrustType, CommandRecords
<1>4. /\ \A j \in Commands : /\ command'[j].path = command[j].path
                             /\ command'[j].entries = command[j].entries
                             /\ command'[j].read = command[j].read
                             /\ command'[j].pc = "done" <=> command[j].pc = "done"
                             /\ command'[j].pc \in {"open", "write"}
                                  <=> command[j].pc \in {"open", "write"}
                             /\ command'[j].pc = "read" <=> command[j].pc = "read"
  BY <1>2, <1>3 DEF CommandRecords
<1>5. TrustType'
  BY <1>1, <1>3, <1>4 DEF TrustType
<1>6. StoreKnown' /\ CommandKnown' /\ CommandReads'
  BY <1>1, <1>4 DEF StoreKnown, CommandKnown, CommandReads, Kept, Known
<1>7. OneAtATime'
  BY <1>1, <1>4 DEF OneAtATime, Kept, Current
<1>8. TrustHeard' /\ GrantHeard'
  BY <1>1, <1>5, HeardKept DEF Truncate
<1> QED BY <1>5, <1>6, <1>7, <1>8

LEMMA WriteKeepsInv ==
  ASSUME TrustInv, NEW k \in Commands, WriteStore(k)
  PROVE  TrustInv'
<1> USE DEF TrustInv, StoreInv
<1> DEFINE c == command[k]
<1>1. c \in CommandRecords /\ c.path \in Paths /\ c.pc = "write"
  BY DEF WriteStore, TrustType
<1>2. Entries' = c.entries \/ Entries' = NoEntries
  BY DEF WriteStore, Entries
<1>3. /\ approved'[c.path] = approved[c.path] \cup ({c.read} \ {Absent})
      /\ \A q \in Paths \ {c.path} : approved'[q] = approved[q]
      /\ decided'[c.path] = c.read
      /\ \A q \in Paths \ {c.path} : decided'[q] = decided[q]
      /\ overlapped' = overlapped /\ UNCHANGED <<files, plugins>>
  BY <1>1 DEF WriteStore, TrustType, heldVars
<1>4. /\ command'[k] = Done /\ \A j \in Commands \ {k} : command'[j] = command[j]
      /\ command' \in [Commands -> CommandRecords]
  BY DoneType DEF WriteStore, TrustType
<1>5. TrustType'
  <2>1. /\ approved' \in [Paths -> SUBSET Contents]
        /\ decided' \in [Paths -> Contents \cup {Absent}]
    BY <1>1 DEF WriteStore, TrustType, CommandRecords
  <2>2. Entries' \in [Paths -> Contents \cup {Absent}]
    BY <1>1, <1>2 DEF NoEntries, CommandRecords
  <2> QED BY <1>3, <1>4, <2>1, <2>2 DEF TrustType, Done
<1>6. \A q \in Paths : approved[q] \subseteq approved'[q]
  BY <1>3
<1>7. StoreKnown'
  <2>1. ASSUME NEW q \in Paths, c.entries[q] # Absent
        PROVE  c.entries[q] \in approved'[q]
    <3>1. CASE q = c.path
      BY <1>1, <1>3, <2>1, <3>1 DEF CommandReads
    <3>2. CASE q # c.path
      BY <1>1, <1>3, <2>1, <3>2 DEF CommandKnown, Kept, Known
    <3> QED BY <3>1, <3>2
  <2> QED BY <1>2, <2>1 DEF StoreKnown, Known, NoEntries
<1>8. CommandKnown' /\ CommandReads'
  BY <1>4, <1>6 DEF CommandKnown, CommandReads, Kept, Known, Done
<1>9. OneAtATime'
  <2> SUFFICES ASSUME ~overlapped' PROVE OneAtATime'
    BY DEF OneAtATime
  <2>1. ~overlapped
    BY <1>3
  <2>2. \A j \in Commands : command'[j].pc = "done"
    BY <1>1, <1>4, <2>1 DEF OneAtATime, Done
  <2>3. ASSUME NEW q \in Paths PROVE Current(q, Entries[q])'
    <3>1. CASE q = c.path
      BY <1>1, <1>2, <1>3, <3>1 DEF CommandReads, Current, NoEntries
    <3>2. CASE q # c.path
      BY <1>1, <1>2, <1>3, <2>1, <3>2 DEF OneAtATime, Kept, Current, NoEntries
    <3> QED BY <3>1, <3>2
  <2> QED BY <2>2, <2>3 DEF OneAtATime, Kept
<1>10. TrustHeard' /\ GrantHeard'
  BY <1>5, <1>6, HeardKept DEF WriteStore
<1> QED BY <1>5, <1>7, <1>8, <1>9, <1>10

LEMMA DiesKeepsInv ==
  ASSUME TrustInv, NEW k \in Commands, Dies(k)
  PROVE  TrustInv'
<1> USE DEF TrustInv, StoreInv
<1>1. /\ Entries' = Entries /\ overlapped' = overlapped
      /\ UNCHANGED <<files, plugins, approved, decided>>
  BY DEF Dies, Entries, heldVars, historyVars
<1>2. /\ command'[k] = Done /\ \A j \in Commands \ {k} : command'[j] = command[j]
      /\ command' \in [Commands -> CommandRecords]
  BY DoneType DEF Dies, TrustType
<1>3. TrustType'
  BY <1>1, <1>2 DEF TrustType, Done
<1>4. StoreKnown' /\ CommandKnown' /\ CommandReads'
  BY <1>1, <1>2 DEF StoreKnown, CommandKnown, CommandReads, Kept, Known, Done
<1>5. OneAtATime'
  BY <1>1, <1>2 DEF OneAtATime, Kept, Current, Done
<1>6. TrustHeard' /\ GrantHeard'
  BY <1>1, <1>3, HeardKept DEF Dies
<1> QED BY <1>3, <1>4, <1>5, <1>6

-----------------------------------------------------------------------------
(* What loads is granted by the entries it loads under, and no other way. *)
LEMMA LoadedIsGranted ==
  ASSUME TrustType, NEW entries, NEW bad,
         \A p \in Paths : entries[p] # Absent => Granted(p, entries[p])
  PROVE  /\ LoadAll(entries, bad) \in [Paths -> PluginRecords]
         /\ \A p \in Paths :
              LET l == LoadAll(entries, bad)[p]
              IN l.granted => Granted(p, l.content)
<1>1. ASSUME NEW p \in Paths
      PROVE  /\ LoadAll(entries, bad)[p] \in PluginRecords
             /\ LoadAll(entries, bad)[p].granted
                  => Granted(p, LoadAll(entries, bad)[p].content)
  <2>1. CASE files[p] = Absent \/ p \in bad
    BY <2>1, NotLoadedType DEF LoadAll, NotLoaded
  <2>2. CASE ~(files[p] = Absent \/ p \in bad)
    BY <2>2 DEF LoadAll, StateOf, TrustType, PluginRecords
  <2> QED BY <2>1, <2>2
<1> QED BY <1>1 DEF LoadAll

(* The store and the commands are as they were. *)
LEMMA StoreKept ==
  ASSUME StoreInv, UNCHANGED <<store, command, historyVars>>
  PROVE  StoreInv'
BY DEF StoreInv, StoreKnown, CommandKnown, CommandReads, OneAtATime, Kept, Known,
       Current, Entries, historyVars

LEMMA UiKeepsInv ==
  ASSUME TrustInv,
         Start \/ Reload \/ Quit \/ (\E p \in Paths : Edit(p) \/ Render(p))
  PROVE  TrustInv'
<1> USE DEF TrustInv
<1>e. UNCHANGED store => Entries' = Entries
  BY DEF Entries
<1>1. CASE Start
  <2>1. PICK bad \in SUBSET Paths : plugins' = LoadAll(Entries, bad)
    BY <1>1 DEF Start
  <2>2. /\ trust' = Entries /\ heard'.decided = decided
        /\ heard'.overlapped = overlapped
        /\ UNCHANGED <<files, store, command, approved, decided, overlapped>>
    BY <1>1 DEF Start, historyVars
  <2>3. \A p \in Paths : Entries[p] # Absent =>
          /\ Entries[p] \in approved[p]
          /\ overlapped \/ Entries[p] = decided[p]
    BY DEF StoreInv, StoreKnown, OneAtATime, Known, Current
  <2>4. ASSUME NEW p \in Paths
        PROVE  /\ plugins'[p] \in PluginRecords
               /\ plugins'[p].granted =>
                    Granted(p, plugins[p].content)'
    <3>1. CASE files[p] = Absent \/ p \in bad
      BY <2>1, <3>1, NotLoadedType DEF LoadAll, NotLoaded
    <3>2. CASE ~(files[p] = Absent \/ p \in bad)
      BY <2>1, <2>2, <2>3, <3>2
         DEF LoadAll, StateOf, TrustType, PluginRecords, Granted
    <3> QED BY <3>1, <3>2
  <2>5. plugins' \in [Paths -> PluginRecords]
    BY <2>1, <2>4 DEF LoadAll
  <2>6. TrustType'
    BY <1>e, <2>2, <2>5 DEF TrustType
  <2>7. StoreInv'
    BY <2>2, StoreKept DEF historyVars
  <2> QED BY <2>2, <2>3, <2>4, <2>6, <2>7 DEF TrustHeard, GrantHeard, Granted
<1>2. CASE Reload
  <2>1. PICK bad \in SUBSET Paths : plugins' = LoadAll(trust, bad)
    BY <1>2 DEF Reload
  <2>2. UNCHANGED <<files, store, command, trust, heard, approved, decided,
                    overlapped>>
    BY <1>2 DEF Reload, historyVars
  <2>3. /\ plugins' \in [Paths -> PluginRecords]
        /\ \A p \in Paths : plugins'[p].granted =>
                              Granted(p, plugins'[p].content)
    BY <1>2, <2>1, LoadedIsGranted DEF Reload, TrustHeard
  <2>4. TrustType'
    BY <1>e, <2>2, <2>3 DEF TrustType
  <2>5. StoreInv'
    BY <2>2, StoreKept DEF historyVars
  <2> QED BY <2>2, <2>3, <2>4, <2>5 DEF TrustHeard, GrantHeard, Granted
<1>3. CASE Quit
  <2>1. \A p \in Paths : plugins'[p] = NotLoaded
    BY <1>3 DEF Quit
  <2>2. UNCHANGED <<files, store, command, approved, decided, overlapped>>
    BY <1>3 DEF Quit, historyVars
  <2>3. TrustType'
    BY <1>3, <1>e, <2>2, NotLoadedType DEF Quit, TrustType
  <2>4. StoreInv'
    BY <2>2, StoreKept DEF historyVars
  <2> QED BY <1>3, <2>1, <2>3, <2>4 DEF Quit, NotLoaded, TrustHeard, GrantHeard
<1>4. ASSUME NEW p \in Paths, Edit(p) PROVE TrustInv'
  <2>1. TrustType'
    BY <1>4, <1>e DEF Edit, heldVars, historyVars, TrustType
  <2>2. StoreInv'
    BY <1>4, StoreKept DEF Edit
  <2> QED BY <1>4, <2>1, <2>2, HeardKept DEF Edit, historyVars
<1>5. ASSUME NEW p \in Paths, Render(p) PROVE TrustInv'
  <2>1. /\ plugins'[p].content = plugins[p].content
        /\ plugins'[p].granted = plugins[p].granted
        /\ \A q \in Paths \ {p} : plugins'[q] = plugins[q]
        /\ plugins' \in [Paths -> PluginRecords]
    <3>1. plugins[p] \in PluginRecords
      BY DEF TrustType
    <3>2. ASSUME NEW asks \in BOOLEAN
          PROVE  [plugins[p] EXCEPT !.asks = asks] \in PluginRecords
      BY <3>1 DEF PluginRecords
    <3>3. [plugins[p] EXCEPT !.failed = TRUE, !.asks = FALSE] \in PluginRecords
      BY <3>1 DEF PluginRecords
    <3>4. CASE \E asks \in BOOLEAN :
                 plugins' = [plugins EXCEPT ![p].asks = asks]
      BY <3>1, <3>2, <3>4 DEF TrustType, PluginRecords
    <3>5. CASE plugins' = [plugins EXCEPT ![p].failed = TRUE, ![p].asks = FALSE]
      BY <3>1, <3>3, <3>5 DEF TrustType, PluginRecords
    <3> QED BY <1>5, <3>4, <3>5 DEF Render
  <2>2. UNCHANGED <<files, store, command, trust, heard, approved, decided,
                    overlapped>>
    BY <1>5 DEF Render, historyVars
  <2>3. TrustType'
    BY <1>e, <2>1, <2>2 DEF TrustType
  <2>4. StoreInv'
    BY <2>2, StoreKept DEF historyVars
  <2> QED BY <2>1, <2>2, <2>3, <2>4 DEF TrustHeard, GrantHeard, Granted
<1> QED BY <1>1, <1>2, <1>3, <1>4, <1>5

LEMMA TrustStep == TrustInv /\ [TrustNext]_trustVars => TrustInv'
<1> SUFFICES ASSUME TrustInv, [TrustNext]_trustVars PROVE TrustInv'
  OBVIOUS
<1>1. CASE UNCHANGED trustVars
  <2>1. TrustType'
    BY <1>1 DEF trustVars, heldVars, historyVars, TrustInv, TrustType, Entries
  <2>2. StoreInv'
    BY <1>1, StoreKept DEF trustVars, TrustInv
  <2> QED BY <1>1, <2>1, <2>2, HeardKept DEF trustVars, historyVars, TrustInv
<1> QED BY <1>1, LoadKeepsInv, ReadKeepsInv, TruncateKeepsInv, WriteKeepsInv,
           DiesKeepsInv, UiKeepsInv DEF TrustNext

(* Whatever is edited, copied or cut short, a plugin is granted nothing unless its
   very bytes were trusted at its path, and that trust still stood in the store
   the UI read (load_one with trust.rs). *)
THEOREM GrantsAreApproved == TrustSpec => []GrantIsApproved
<1>1. TrustInv => GrantIsApproved
  BY DEF TrustInv, GrantHeard, Granted, GrantIsApproved
<1> QED BY TrustInvInit, TrustStep, <1>1, PTL DEF TrustSpec
=============================================================================
