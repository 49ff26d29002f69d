-------------------------- MODULE DaemonHost_proofs --------------------------
(***************************************************************************)
(* Proofs about DaemonHost for any set of processes and events and any     *)
(* bounds.                                                                 *)
(*                                                                         *)
(* OwnInv carries the socket: while starts and stops are orderly one       *)
(* process at most is between two of its resting places, and one that has  *)
(* found the path stale or free is alone.  SchemaInv says that what a      *)
(* column still misses is ahead in the plan of whoever migrates, and that  *)
(* the version is written last.  AuditInv rests on OwnInv: the entry a     *)
(* process has linked to the file still fits when it is written, because   *)
(* no other process writes.                                                *)
(***************************************************************************)
EXTENDS DaemonHost, FiniteSetTheorems, WellFoundedInduction, TLAPS

Moving(d) == at[d] \notin {"off", "serve"}

OwnInv ==
  Orderly =>
    /\ \A d, e \in Daemons : Moving(d) /\ Moving(e) => d = e
    /\ \A d \in Daemons : at[d] \in {"open", "migrate", "serve"} => path = d
    /\ \A d, e \in Daemons :
         /\ at[d] \in {"remove", "bind", "open", "migrate", "unlink", "drain"}
         /\ at[e] = "serve"
         => d = e

-----------------------------------------------------------------------------
(* The socket *)

(* What any step does to the socket's variables. *)
SocketStep ==
  \/ UNCHANGED socketVars
  \/ \E d \in Daemons :
       \/ Launch(d) \/ Look(d) \/ TryConnect(d) \/ RemoveStale(d) \/ Bind(d)
       \/ Open(d) \/ Serve(d) \/ GiveUp(d) \/ Stop(d) \/ Unlink(d) \/ Exit(d)
       \/ Kill(d)

LEMMA StepsMoveTheSocket == [Next]_vars => SocketStep
BY DEF Next, vars, SocketStep, Start, OpenStorage, Migrate, MigrateFails, Ready,
       Record, End, Crash, Tamper

LEMMA SocketTypes ==
  ASSUME SocketTypeOK, SocketStep
  PROVE  SocketTypeOK'
<1>1. CASE UNCHANGED socketVars
  BY <1>1 DEF SocketTypeOK, socketVars
<1>2. ASSUME NEW d \in Daemons,
             \/ Launch(d) \/ Look(d) \/ TryConnect(d) \/ Open(d) \/ Serve(d)
             \/ GiveUp(d) \/ Stop(d) \/ Exit(d) \/ Kill(d)
      PROVE  SocketTypeOK'
  BY <1>2 DEF SocketTypeOK, Launch, Look, TryConnect, Open, Serve, GiveUp, Stop,
              Exit, Kill, Enter, Steps, Starting, Ending
<1>3. ASSUME NEW d \in Daemons, RemoveStale(d) \/ Bind(d) \/ Unlink(d)
      PROVE  SocketTypeOK'
  BY <1>3 DEF SocketTypeOK, RemoveStale, Bind, Unlink, Enter, Steps, Starting,
              Ending
<1> QED BY <1>1, <1>2, <1>3 DEF SocketStep

LEMMA OwnInit == Init => OwnInv
BY DEF Init, SocketInit, OwnInv, Moving

(* Each step moves one process, whose next place says what it has seen. *)
LEMMA OwnNext ==
  ASSUME SocketTypeOK, OwnInv, SocketStep
  PROVE  OwnInv'
<1> SUFFICES ASSUME Orderly
             PROVE  /\ \A d, e \in Daemons : Moving(d)' /\ Moving(e)' => d = e
                    /\ \A d \in Daemons :
                         at'[d] \in {"open", "migrate", "serve"} => path' = d
                    /\ \A d, e \in Daemons :
                         /\ at'[d] \in {"remove", "bind", "open", "migrate",
                                        "unlink", "drain"}
                         /\ at'[e] = "serve"
                         => d = e
  BY DEF OwnInv
<1>1. CASE UNCHANGED socketVars
  BY <1>1 DEF OwnInv, Moving, socketVars
<1>2. ASSUME NEW d \in Daemons, Launch(d) PROVE OwnInv'
  BY <1>2 DEF OwnInv, Moving, Launch, Enter, SocketTypeOK, Settled, Starting,
              Ending, Steps
<1>3. ASSUME NEW d \in Daemons, Look(d) PROVE OwnInv'
  BY <1>3, OwnersAssumption DEF OwnInv, Moving, Look, Enter, SocketTypeOK
<1>4. ASSUME NEW d \in Daemons, TryConnect(d) PROVE OwnInv'
  BY <1>4 DEF OwnInv, Moving, TryConnect, Enter, SocketTypeOK, Listening
<1>5. ASSUME NEW d \in Daemons, RemoveStale(d) PROVE OwnInv'
  BY <1>5 DEF OwnInv, Moving, RemoveStale, Enter, SocketTypeOK
<1>6. ASSUME NEW d \in Daemons, Bind(d) PROVE OwnInv'
  BY <1>6 DEF OwnInv, Moving, Bind, Enter, SocketTypeOK
<1>7. ASSUME NEW d \in Daemons, Open(d) \/ Serve(d) PROVE OwnInv'
  BY <1>7 DEF OwnInv, Moving, Open, Serve, Enter, SocketTypeOK
<1>8. ASSUME NEW d \in Daemons, Stop(d) PROVE OwnInv'
  BY <1>8 DEF OwnInv, Moving, Stop, Enter, SocketTypeOK, Settled, Starting,
              Ending, Steps
<1>9. ASSUME NEW d \in Daemons, Unlink(d) PROVE OwnInv'
  BY <1>9 DEF OwnInv, Moving, Unlink, Enter, SocketTypeOK
<1>10. ASSUME NEW d \in Daemons, GiveUp(d) \/ Exit(d) \/ Kill(d) PROVE OwnInv'
  BY <1>10 DEF OwnInv, Moving, GiveUp, Exit, Kill, Enter, SocketTypeOK
<1> QED
  BY <1>1, <1>2, <1>3, <1>4, <1>5, <1>6, <1>7, <1>8, <1>9, <1>10
     DEF SocketStep, OwnInv

LEMMA OwnersAreSole ==
  ASSUME OwnInv, Orderly
  PROVE  SoleOwner
BY DEF OwnInv, SoleOwner, Owning, Moving

LEMMA SocketAlways == Spec => [](SocketTypeOK /\ OwnInv)
<1>1. Init => SocketTypeOK
  BY DEF Init, SocketInit, SocketTypeOK, Steps
<1> QED BY <1>1, OwnInit, StepsMoveTheSocket, SocketTypes, OwnNext, PTL DEF Spec

(* Whatever crashes and second starts, a serving daemon keeps its path, as long
   as nobody starts or stops one while another start or stop is going on. *)
THEOREM ServedIsReachable ==
  ASSUME Orderly
  PROVE  Spec => []Reachable
<1>1. OwnInv => Reachable
  BY DEF OwnInv, Reachable
<1> QED BY <1>1, SocketAlways, PTL

(* It is also the only one with the database and the log open. *)
THEOREM OwnerIsSole ==
  ASSUME Orderly
  PROVE  Spec => []SoleOwner
<1>1. OwnInv => SoleOwner
  BY OwnersAreSole
<1> QED BY <1>1, SocketAlways, PTL

-----------------------------------------------------------------------------
(* Types *)

(* What any step does to the schema's variables. *)
SchemaStep ==
  \/ UNCHANGED schemaVars
  \/ \E d \in Daemons : ReadVersion(d) \/ Execute(d) \/ Abandon(d)

(* What any step does to the log's. *)
AuditStep ==
  \/ UNCHANGED auditVars
  \/ \E d \in Daemons :
       AppendRead(d) \/ AppendWrite(d) \/ AppendCut(d) \/ AppendLost(d)
  \/ EditByHand

LEMMA StepsOfTheParts == [Next]_vars => SchemaStep /\ AuditStep
<1>1. ASSUME UNCHANGED vars PROVE SchemaStep /\ AuditStep
  BY <1>1 DEF vars, SchemaStep, AuditStep
<1>2. ASSUME NEW d \in Daemons, Start(d) \/ Ready(d) \/ End(d)
      PROVE  SchemaStep /\ AuditStep
  BY <1>2 DEF Start, Ready, End, SchemaStep, AuditStep, schemaVars, auditVars
<1>3. ASSUME NEW d \in Daemons, OpenStorage(d) \/ Migrate(d) \/ MigrateFails(d)
      PROVE  SchemaStep /\ AuditStep
  BY <1>3 DEF OpenStorage, Migrate, MigrateFails, SchemaStep, AuditStep,
              schemaVars, auditVars
<1>4. ASSUME NEW d \in Daemons, Record(d) \/ Crash(d)
      PROVE  SchemaStep /\ AuditStep
  BY <1>4 DEF Record, Crash, SchemaStep, AuditStep, schemaVars, auditVars
<1>5. ASSUME Tamper PROVE SchemaStep /\ AuditStep
  BY <1>5 DEF Tamper, SchemaStep, AuditStep, schemaVars, auditVars
<1> QED BY <1>1, <1>2, <1>3, <1>4, <1>5 DEF Next

LEMMA PlanTypes ==
  ASSUME NEW v \in 1 .. SchemaVersion
  PROVE  Plan(v) \in Seq(Statements)
<1>1. CASE v = 1
  BY <1>1 DEF Plan, Statements, AllColumns, V2Columns, V3Column, V4Column
<1>2. CASE v = 2
  BY <1>2 DEF Plan, Statements, AllColumns, V2Columns, V3Column, V4Column
<1>3. CASE v = 3
  BY <1>3 DEF Plan, Statements, AllColumns, V2Columns, V3Column, V4Column
<1>4. CASE v = 4
  BY <1>4 DEF Plan, Statements, AllColumns, V2Columns, V3Column, V4Column
<1> QED BY <1>1, <1>2, <1>3, <1>4 DEF SchemaVersion

LEMMA SchemaTypes ==
  ASSUME SchemaTypeOK, SchemaStep
  PROVE  SchemaTypeOK'
<1>1. CASE UNCHANGED schemaVars
  BY <1>1 DEF SchemaTypeOK, schemaVars
<1>2. ASSUME NEW d \in Daemons, ReadVersion(d) PROVE SchemaTypeOK'
  <2>1. Plan(version) \in Seq(Statements)
    BY PlanTypes DEF SchemaTypeOK
  <2> QED BY <1>2, <2>1 DEF SchemaTypeOK, ReadVersion
<1>3. ASSUME NEW d \in Daemons, Execute(d) PROVE SchemaTypeOK'
  <2>1. left[d] \in Seq(Statements) /\ left[d] # <<>>
    BY <1>3, SameProcesses DEF SchemaTypeOK, Execute
  <2>2. left' \in [Processes -> Seq(Statements)]
    <3>1. Tail(left[d]) \in Seq(Statements)
      BY <2>1
    <3> QED BY <1>3, <3>1 DEF SchemaTypeOK, Execute
  <2>3. columns' \subseteq AllColumns
    BY <1>3 DEF SchemaTypeOK, Execute
  <2>5. folded' \in BOOLEAN
    <3>1. folded' = (folded \/ Head(left[d]) = "backfill")
      BY <1>3 DEF Execute
    <3>2. (folded \/ Head(left[d]) = "backfill") \in BOOLEAN
      OBVIOUS
    <3> QED BY <3>1, <3>2
  <2>4. version' \in 1 .. SchemaVersion
    BY <1>3 DEF SchemaTypeOK, Execute, SchemaVersion
  <2> QED BY <2>2, <2>3, <2>4, <2>5 DEF SchemaTypeOK
<1>4. ASSUME NEW d \in Daemons, Abandon(d) PROVE SchemaTypeOK'
  <2>1. <<>> \in Seq(Statements)
    OBVIOUS
  <2> QED BY <1>4, <2>1 DEF SchemaTypeOK, Abandon
<1> QED BY <1>1, <1>2, <1>3, <1>4 DEF SchemaStep

(* The entry append links to the file is one. *)
LEMMA NextEntryTypes ==
  ASSUME log \in Seq(Entries), NEW e \in Events
  PROVE  /\ NextEntry(e) \in Entries
         /\ NextEntry(e).event = e
<1>1. ASSUME NEW n \in Nat \ {0}, NEW previous \in Hashes
      PROVE  Entry(n, previous, e) \in Entries /\ Entry(n, previous, e).event = e
  BY <1>1 DEF Entry, Entries, Hashes, hash_entry
<1>2. GENESIS \in Hashes
  BY DEF GENESIS, Hashes
<1>3. ASSUME log # <<>>
      PROVE  /\ log[Len(log)].sequence + 1 \in Nat \ {0}
             /\ log[Len(log)].hash \in Hashes
  <2>1. log[Len(log)] \in Entries
    BY <1>3
  <2> QED BY <2>1 DEF Entries
<1> QED BY <1>1, <1>2, <1>3 DEF NextEntry

LEMMA AuditTypes ==
  ASSUME AuditTypeOK, AuditStep
  PROVE  AuditTypeOK'
<1>1. CASE UNCHANGED auditVars
  BY <1>1 DEF AuditTypeOK, auditVars
<1>2. ASSUME NEW d \in Daemons, AppendRead(d) PROVE AuditTypeOK'
  <2>1. PICK e \in Events : draft' = [draft EXCEPT ![d] = {NextEntry(e)}]
    BY <1>2 DEF AppendRead
  <2>2. NextEntry(e) \in Entries
    BY NextEntryTypes DEF AuditTypeOK
  <2> QED BY <1>2, <2>1, <2>2 DEF AuditTypeOK, AppendRead
<1>3. ASSUME NEW d \in Daemons, AppendWrite(d) \/ AppendCut(d) PROVE AuditTypeOK'
  <2>1. \A entry \in draft[d] : entry \in Entries /\ entry.hash \in Hashes
    BY SameProcesses DEF AuditTypeOK, Entries
  <2>2. draft' \in [Writers -> SUBSET Entries] /\ edits' \in 0 .. MaxEdits
    BY <1>3 DEF AuditTypeOK, AppendWrite, AppendCut
  <2>3. tail' \in {"clean", "open", "cut"} /\ heads' \subseteq Hashes
    BY <1>3, <2>1 DEF AuditTypeOK, AppendWrite, AppendCut, Written
  <2>4. SubSeq(log, 1, Len(log) - 1) \in Seq(Entries)
    BY DEF AuditTypeOK
  <2>5. log' \in Seq(Entries)
    BY <1>3, <2>1, <2>4 DEF AuditTypeOK, AppendWrite, AppendCut, Written
  <2> QED BY <2>2, <2>3, <2>5 DEF AuditTypeOK
<1>4. ASSUME NEW d \in Daemons, AppendLost(d) PROVE AuditTypeOK'
  BY <1>4 DEF AuditTypeOK, AppendLost
<1>5. ASSUME EditByHand PROVE AuditTypeOK'
  <2>1. ASSUME NEW k \in DOMAIN log, NEW e \in Events
        PROVE  [log EXCEPT ![k].event = e] \in Seq(Entries)
    <3>1. log \in Seq(Entries) /\ Len(log) \in Nat /\ DOMAIN log = 1 .. Len(log)
      BY DEF AuditTypeOK
    <3>2. log[k] \in Entries
      BY <3>1
    <3>3. [log[k] EXCEPT !.event = e] \in Entries
      BY <3>2 DEF Entries
    <3>4. [log EXCEPT ![k] = [log[k] EXCEPT !.event = e]] \in [1 .. Len(log) -> Entries]
      BY <3>1, <3>3
    <3> QED BY <3>1, <3>4
  <2>2. ASSUME NEW k \in DOMAIN log
        PROVE  SubSeq(log, 1, k - 1) \o SubSeq(log, k + 1, Len(log)) \in Seq(Entries)
    <3>1. log \in Seq(Entries) /\ k \in 1 .. Len(log)
      BY DEF AuditTypeOK
    <3>2. SubSeq(log, 1, k - 1) \in Seq(Entries)
      BY <3>1
    <3>3. SubSeq(log, k + 1, Len(log)) \in Seq(Entries)
      BY <3>1
    <3> QED BY <3>2, <3>3
  <2>3. log' \in Seq(Entries)
    BY <1>5, <2>1, <2>2 DEF EditByHand
  <2> QED BY <1>5, <2>3, AuditAssumption DEF AuditTypeOK, EditByHand
<1> QED BY <1>1, <1>2, <1>3, <1>4, <1>5 DEF AuditStep

LEMMA TypesInit == Init => TypeOK
<1> SUFFICES ASSUME Init PROVE TypeOK
  OBVIOUS
<1>1. SocketTypeOK
  BY DEF Init, SocketInit, SocketTypeOK, Steps
<1>2. SchemaTypeOK
  <2>1. left \in [Processes -> Seq(Statements)]
    BY DEF Init, SchemaInit
  <2>2. PICK v \in Vintages :
          columns = v.columns /\ version = v.version /\ folded = v.folded
    BY DEF Init, SchemaInit
  <2>3. v.columns \subseteq AllColumns
    BY DEF Vintages, AllColumns
  <2>4. v.version \in 1 .. SchemaVersion
    BY DEF Vintages, SchemaVersion
  <2>5. v.folded \in BOOLEAN
    <3>1. ASSUME NEW c, NEW n, NEW b \in BOOLEAN,
                 v = [columns |-> c, version |-> n, folded |-> b]
          PROVE  v.folded \in BOOLEAN
      BY <3>1
    <3>2. TRUE \in BOOLEAN /\ FALSE \in BOOLEAN
      OBVIOUS
    <3> QED BY <3>1, <3>2 DEF Vintages
  <2> QED BY <2>1, <2>2, <2>3, <2>4, <2>5 DEF SchemaTypeOK
<1>3. AuditTypeOK
  BY AuditAssumption DEF Init, AuditInit, AuditTypeOK
<1> QED BY <1>1, <1>2, <1>3 DEF TypeOK

(* Every variable keeps its type, whatever crashes, tampering and races. *)
THEOREM HostTypes == Spec => []TypeOK
<1>1. TypeOK /\ [Next]_vars => TypeOK'
  BY StepsMoveTheSocket, StepsOfTheParts, SocketTypes, SchemaTypes, AuditTypes
     DEF TypeOK
<1> QED BY TypesInit, <1>1, PTL DEF Spec

-----------------------------------------------------------------------------
(* The schema *)

(* Statement s is still ahead of process d. *)
Ahead(d, s) == \E k \in 1 .. Len(left[d]) : left[d][k] = s

VersionSays ==
  /\ version >= 2 => V2Columns \subseteq columns
  /\ version >= 3 => V3Column \in columns /\ folded
  /\ version >= 4 => V4Column \in columns

Promised(d) ==
  /\ \A c \in AllColumns : c \in columns \/ Ahead(d, c)
  /\ folded \/ Ahead(d, "backfill")
  /\ version = SchemaVersion \/ Ahead(d, "version")
  /\ \A k \in 1 .. Len(left[d]) : left[d][k] = "version" => k = Len(left[d])

SchemaInv ==
  /\ VersionSays
  /\ \A d \in Daemons : at[d] = "migrate" => Promised(d)
  /\ \A d \in Daemons : at[d] = "serve" => Current

(* A plan made from the version alone reaches everything that version lacks. *)
LEMMA PlanIsComplete ==
  ASSUME SchemaTypeOK, VersionSays, NEW d \in Daemons, ReadVersion(d)
  PROVE  Promised(d)'
<1> DEFINE p == Plan(version)
<1>1. left'[d] = p /\ UNCHANGED <<columns, version, folded>>
  BY SameProcesses DEF ReadVersion, SchemaTypeOK
<1>2. version \in 1 .. 4
  BY DEF SchemaTypeOK, SchemaVersion
<1>3. AllColumns = {"agent", "workspace_id", "workspace_repository",
                    "workspace_branch", "workspace_base", V3Column, V4Column}
  BY DEF AllColumns, V2Columns
<1>4. CASE version = 1
  <2>1. p = <<"agent", "workspace_id", "workspace_repository", "workspace_branch",
              "workspace_base", V4Column, V3Column, "backfill", "version">>
    BY <1>4 DEF Plan
  <2>2. Len(p) = 9
    BY <2>1
  <2>3. /\ p[1] = "agent" /\ p[2] = "workspace_id"
        /\ p[3] = "workspace_repository" /\ p[4] = "workspace_branch"
        /\ p[5] = "workspace_base" /\ p[6] = V4Column /\ p[7] = V3Column
        /\ p[8] = "backfill" /\ p[9] = "version"
    BY <2>1
  <2>4. \A c \in AllColumns : \E k \in 1 .. Len(p) : p[k] = c
    BY <1>3, <2>2, <2>3
  <2>5. \A k \in 1 .. Len(p) : p[k] = "version" => k = Len(p)
    BY <2>2, <2>3 DEF V3Column, V4Column
  <2> HIDE DEF p
  <2> QED BY <1>1, <2>2, <2>3, <2>4, <2>5 DEF Promised, Ahead
<1>5. CASE version = 2
  <2>1. p = <<V4Column, V3Column, "backfill", "version">>
    BY <1>5 DEF Plan
  <2>2. /\ Len(p) = 4 /\ p[1] = V4Column /\ p[2] = V3Column
        /\ p[3] = "backfill" /\ p[4] = "version"
    BY <2>1
  <2>3. V2Columns \subseteq columns
    BY <1>5 DEF VersionSays
  <2>4. \A c \in AllColumns : c \in columns \/ \E k \in 1 .. Len(p) : p[k] = c
    BY <2>2, <2>3 DEF AllColumns
  <2>5. \A k \in 1 .. Len(p) : p[k] = "version" => k = Len(p)
    BY <2>2 DEF V3Column, V4Column
  <2> HIDE DEF p
  <2> QED BY <1>1, <2>2, <2>4, <2>5 DEF Promised, Ahead
<1>6. CASE version = 3
  <2>1. p = <<V4Column, "version">>
    BY <1>6 DEF Plan
  <2>2. Len(p) = 2 /\ p[1] = V4Column /\ p[2] = "version"
    BY <2>1
  <2>3. V2Columns \subseteq columns /\ V3Column \in columns /\ folded
    BY <1>6 DEF VersionSays
  <2>4. \A c \in AllColumns : c \in columns \/ \E k \in 1 .. Len(p) : p[k] = c
    BY <2>2, <2>3 DEF AllColumns
  <2>5. \A k \in 1 .. Len(p) : p[k] = "version" => k = Len(p)
    BY <2>2 DEF V4Column
  <2> HIDE DEF p
  <2> QED BY <1>1, <2>2, <2>3, <2>4, <2>5 DEF Promised, Ahead
<1>7. CASE version = 4
  <2>1. p = <<"version">>
    BY <1>7 DEF Plan
  <2>2. Len(p) = 1 /\ p[1] = "version"
    BY <2>1
  <2>3. AllColumns \subseteq columns /\ folded
    BY <1>7 DEF VersionSays, AllColumns
  <2> HIDE DEF p
  <2> QED BY <1>1, <2>2, <2>3 DEF Promised, Ahead
<1> QED BY <1>2, <1>4, <1>5, <1>6, <1>7

(* What a statement does is no longer ahead, and everything else still is. *)
LEMMA ExecuteKeepsPromises ==
  ASSUME SchemaTypeOK, NEW d \in Daemons, Promised(d), Execute(d)
  PROVE  /\ Promised(d)'
         /\ version' # version => Current'
<1> DEFINE q == left[d]
           s == Head(q)
<1>1. q \in Seq(Statements) /\ q # <<>> /\ Len(q) \in Nat /\ Len(q) > 0
  BY SameProcesses DEF Execute, SchemaTypeOK
<1>2. left'[d] = Tail(q) /\ s = q[1]
  BY <1>1, SameProcesses DEF Execute, SchemaTypeOK
<1>3. /\ columns' = columns \cup ({s} \cap AllColumns)
      /\ folded' = (folded \/ s = "backfill")
      /\ version' = IF s = "version" THEN SchemaVersion ELSE version
  BY DEF Execute
<1>4. /\ Len(Tail(q)) = Len(q) - 1
      /\ \A k \in 1 .. Len(q) - 1 : Tail(q)[k] = q[k + 1]
  BY <1>1
<1> HIDE DEF q, s
<1>5. ASSUME NEW t, \E k \in 1 .. Len(q) : q[k] = t, t # s
      PROVE  \E k \in 1 .. Len(Tail(q)) : Tail(q)[k] = t
  <2>1. PICK k \in 1 .. Len(q) : q[k] = t
    BY <1>5
  <2>2. k # 1
    BY <1>2, <1>5, <2>1
  <2>3. k - 1 \in 1 .. Len(Tail(q)) /\ Tail(q)[k - 1] = t
    BY <1>1, <1>4, <2>1, <2>2
  <2> QED BY <2>3
<1>6. /\ \A c \in AllColumns : c \in columns \/ \E k \in 1 .. Len(q) : q[k] = c
      /\ folded \/ \E k \in 1 .. Len(q) : q[k] = "backfill"
      /\ version = SchemaVersion \/ \E k \in 1 .. Len(q) : q[k] = "version"
  BY DEF Promised, Ahead, q
<1>7. \A k \in 1 .. Len(q) : q[k] = "version" => k = Len(q)
  BY DEF Promised, q
<1>8. \A c \in AllColumns :
        c \in columns' \/ \E k \in 1 .. Len(Tail(q)) : Tail(q)[k] = c
  BY <1>3, <1>5, <1>6
<1>9. folded' \/ \E k \in 1 .. Len(Tail(q)) : Tail(q)[k] = "backfill"
  BY <1>3, <1>5, <1>6
<1>10. version' = SchemaVersion \/ \E k \in 1 .. Len(Tail(q)) : Tail(q)[k] = "version"
  BY <1>3, <1>5, <1>6
<1>11. ASSUME NEW k \in 1 .. Len(Tail(q)), Tail(q)[k] = "version"
       PROVE  k = Len(Tail(q))
  <2>1. k \in Nat /\ k + 1 \in 1 .. Len(q) /\ q[k + 1] = "version"
    BY <1>1, <1>4, <1>11
  <2>2. k + 1 = Len(q)
    BY <1>7, <2>1
  <2>3. k = Len(q) - 1
    BY <1>1, <2>1, <2>2
  <2> QED BY <1>4, <2>3
<1>12. Promised(d)'
  BY <1>2, <1>8, <1>9, <1>10, <1>11 DEF Promised, Ahead
<1>13. ASSUME version' # version PROVE Current'
  <2>1. s = "version" /\ Len(q) = 1
    <3>1. s = "version"
      BY <1>3, <1>13
    <3>2. 1 \in 1 .. Len(q)
      BY <1>1
    <3> QED BY <1>2, <1>7, <3>1, <3>2
  <2>2. Len(Tail(q)) = 0
    BY <1>4, <2>1
  <2>3. AllColumns \subseteq columns'
    BY <1>8, <2>2
  <2>4. columns' \subseteq AllColumns
    BY <1>3 DEF SchemaTypeOK
  <2>5. folded'
    BY <1>9, <2>2
  <2>6. version' = SchemaVersion
    BY <1>3, <2>1
  <2> QED BY <2>3, <2>4, <2>5, <2>6 DEF Current
<1> QED BY <1>12, <1>13

LEMMA SchemaInvInit == Init => SchemaInv
<1> SUFFICES ASSUME Init PROVE SchemaInv
  OBVIOUS
<1>1. PICK v \in Vintages :
        columns = v.columns /\ version = v.version /\ folded = v.folded
  BY DEF Init, SchemaInit
<1>2. VersionSays
  BY <1>1 DEF VersionSays, Vintages, AllColumns
<1>3. \A d \in Daemons : at[d] = "off"
  BY DEF Init, SocketInit
<1> QED BY <1>2, <1>3 DEF SchemaInv

(* Columns are never dropped, rows never unfolded: what one process still has
   ahead, or a serving one relies on, no other process can spoil. *)
LEMMA OthersKeepPromises ==
  ASSUME NEW d \in Daemons, left'[d] = left[d], columns \subseteq columns',
         folded => folded', version' = version \/ version' = SchemaVersion
  PROVE  Promised(d) => Promised(d)'
BY DEF Promised, Ahead

LEMMA SchemaInvNext ==
  ASSUME SocketTypeOK, SchemaTypeOK, SchemaInv, [Next]_vars
  PROVE  SchemaInv'
<1> USE SameProcesses
<1>1. CASE UNCHANGED vars
  BY <1>1 DEF SchemaInv, VersionSays, Promised, Ahead, Current, vars, socketVars,
              schemaVars
<1>2. ASSUME NEW d \in Daemons, Start(d) \/ End(d) \/ Record(d)
      PROVE  SchemaInv'
  <2>1. UNCHANGED schemaVars
    BY <1>2 DEF Start, End, Record
  <2>2. \A e \in Daemons : at'[e] \in {"migrate", "serve"} => at'[e] = at[e]
    BY <1>2 DEF Start, End, Record, Launch, Look, TryConnect, RemoveStale, Bind,
                Stop, Unlink, Exit, Enter, SocketTypeOK, socketVars
  <2> QED BY <2>1, <2>2 DEF SchemaInv, VersionSays, Promised, Ahead, Current,
                            schemaVars
<1>3. ASSUME NEW d \in Daemons, OpenStorage(d) PROVE SchemaInv'
  <2>1. ReadVersion(d) /\ Open(d)
    BY <1>3 DEF OpenStorage
  <2>2. \A e \in Daemons \ {d} : at'[e] = at[e] /\ left'[e] = left[e]
    BY <2>1 DEF Open, Enter, SocketTypeOK, ReadVersion, SchemaTypeOK
  <2>3. at'[d] = "migrate" /\ UNCHANGED <<columns, version, folded>>
    BY <2>1 DEF Open, Enter, SocketTypeOK, ReadVersion
  <2>4. Promised(d)'
    BY <2>1, PlanIsComplete DEF SchemaInv
  <2>5. \A e \in Daemons : at'[e] = "migrate" => Promised(e)'
    BY <2>2, <2>3, <2>4, OthersKeepPromises DEF SchemaInv
  <2> QED BY <2>2, <2>3, <2>5 DEF SchemaInv, VersionSays, Current
<1>4. ASSUME NEW d \in Daemons, Migrate(d) PROVE SchemaInv'
  <2>1. Execute(d) /\ at[d] = "migrate" /\ UNCHANGED at
    BY <1>4 DEF Migrate, socketVars
  <2>2. \A e \in Daemons \ {d} : left'[e] = left[e]
    BY <2>1 DEF Execute, SchemaTypeOK
  <2>3. columns \subseteq columns' /\ columns' \subseteq AllColumns
    BY <2>1 DEF Execute, SchemaTypeOK
  <2>4. folded => folded'
    BY <2>1 DEF Execute
  <2>5. version' = version \/ version' = SchemaVersion
    BY <2>1 DEF Execute
  <2>6. Promised(d)' /\ (version' # version => Current')
    BY <2>1, ExecuteKeepsPromises DEF SchemaInv
  <2>7. \A e \in Daemons : at'[e] = "migrate" => Promised(e)'
    BY <2>1, <2>2, <2>3, <2>4, <2>5, <2>6, OthersKeepPromises DEF SchemaInv
  <2>8. VersionSays'
    <3>1. CASE version' = version
      BY <2>3, <2>4, <3>1 DEF SchemaInv, VersionSays
    <3>2. CASE Current'
      BY <3>2 DEF VersionSays, Current, AllColumns
    <3> QED BY <2>6, <3>1, <3>2
  <2>9. \A e \in Daemons : at'[e] = "serve" => Current'
    BY <2>1, <2>3, <2>4, <2>5 DEF SchemaInv, Current
  <2> QED BY <2>7, <2>8, <2>9 DEF SchemaInv
<1>5. ASSUME NEW d \in Daemons, MigrateFails(d) \/ Crash(d) PROVE SchemaInv'
  <2>1. Abandon(d) /\ (GiveUp(d) \/ Kill(d))
    BY <1>5 DEF MigrateFails, Crash
  <2>2. \A e \in Daemons \ {d} : at'[e] = at[e] /\ left'[e] = left[e]
    BY <2>1 DEF GiveUp, Kill, Enter, SocketTypeOK, Abandon, SchemaTypeOK
  <2>3. at'[d] = "off" /\ UNCHANGED <<columns, version, folded>>
    BY <2>1 DEF GiveUp, Kill, Enter, SocketTypeOK, Abandon
  <2>4. \A e \in Daemons : at'[e] = "migrate" => Promised(e)'
    BY <2>2, <2>3, OthersKeepPromises DEF SchemaInv
  <2> QED BY <2>2, <2>3, <2>4 DEF SchemaInv, VersionSays, Current
<1>6. ASSUME NEW d \in Daemons, Ready(d) PROVE SchemaInv'
  <2>1. left[d] = <<>> /\ at[d] = "migrate" /\ UNCHANGED schemaVars
    BY <1>6 DEF Ready, Serve
  <2>2. \A e \in Daemons \ {d} : at'[e] = at[e]
    BY <1>6 DEF Ready, Serve, Enter, SocketTypeOK
  <2>3. at'[d] = "serve"
    BY <1>6 DEF Ready, Serve, Enter, SocketTypeOK
  <2>4. Promised(d) /\ Len(left[d]) = 0
    BY <2>1 DEF SchemaInv
  <2>5. AllColumns \subseteq columns /\ folded /\ version = SchemaVersion
    BY <2>4 DEF Promised, Ahead
  <2>6. Current'
    BY <2>1, <2>5 DEF Current, SchemaTypeOK, schemaVars
  <2>7. \A e \in Daemons : at'[e] = "migrate" => Promised(e)'
    BY <2>1, <2>2, <2>3 DEF SchemaInv, Promised, Ahead, schemaVars
  <2> QED BY <2>1, <2>6, <2>7 DEF SchemaInv, VersionSays, schemaVars
<1>7. CASE Tamper
  BY <1>7 DEF Tamper, SchemaInv, VersionSays, Promised, Ahead, Current,
              socketVars, schemaVars
<1> QED BY <1>1, <1>2, <1>3, <1>4, <1>5, <1>6, <1>7 DEF Next

(* Whatever version a start finds and wherever an earlier migration was killed,
   a daemon that serves has the whole schema. *)
THEOREM SchemaIsCurrent == Spec => []ServesCurrentSchema
<1>1. SchemaInv => ServesCurrentSchema
  BY DEF SchemaInv, ServesCurrentSchema
<1>2. TypeOK => SocketTypeOK /\ SchemaTypeOK
  BY DEF TypeOK
<1> QED BY <1>1, <1>2, HostTypes, SchemaInvInit, SchemaInvNext, PTL DEF Spec

-----------------------------------------------------------------------------
(* What the log commits to.  That every hash of a verified log determines all
   the events before it is shown by a least counterexample: the library's
   induction rules take an operator, which no prover here can instantiate, but
   the well-foundedness of set inclusion is a fact like any other. *)

LEMMA Least ==
  ASSUME NEW T \in SUBSET Nat, T # {}
  PROVE  \E n \in T : \A m \in T : n <= m
<1> DEFINE below == {0 .. n : n \in T}
<1>1. \A n \in T : IsFiniteSet(0 .. n) /\ 0 .. n \in SUBSET Nat
  BY FS_Interval
<1>2. below \subseteq FiniteSubsetsOf(Nat) /\ below # {}
  BY <1>1 DEF FiniteSubsetsOf
<1>3. PICK x \in below : \A y \in below : ~ (<<y, x>> \in StrictSubsetOrdering(Nat))
  <2> HIDE DEF below
  <2> QED BY <1>2, FS_StrictSubsetOrderingWellFounded, WFMin
<1>4. PICK n \in T : x = 0 .. n
  BY <1>3
<1>5. ASSUME NEW m \in T PROVE n <= m
  <2>1. 0 .. m \in below /\ 0 .. m \subseteq Nat /\ 0 .. n \subseteq Nat
    OBVIOUS
  <2>2. ~ (0 .. m \subseteq 0 .. n /\ 0 .. m # 0 .. n)
    BY <2>1, <1>3, <1>4 DEF StrictSubsetOrdering
  <2>3. ~ (n <= m) => 0 .. m \subseteq 0 .. n /\ n \in 0 .. n /\ n \notin 0 .. m
    OBVIOUS
  <2> QED BY <2>2, <2>3
<1> QED BY <1>5

LEMMA VerifiedHashes ==
  ASSUME log \in Seq(Entries), Verify(log), NEW k \in DOMAIN log
  PROVE  log[k].hash = [j \in 1 .. k |-> <<j, log[j].event>>]
<1> DEFINE wrong == {n \in DOMAIN log :
                       log[n].hash # [j \in 1 .. n |-> <<j, log[j].event>>]}
<1>1. DOMAIN log = 1 .. Len(log) /\ Len(log) \in Nat
  OBVIOUS
<1> SUFFICES ASSUME wrong # {} PROVE FALSE
  OBVIOUS
<1>2. PICK n \in wrong : \A m \in wrong : n <= m
  <2>1. wrong \in SUBSET Nat
    BY <1>1
  <2> HIDE DEF wrong
  <2> QED BY <2>1, Least
<1>3. n \in 1 .. Len(log)
  BY <1>1, <1>2
<1>4. /\ log[n].previous = IF n = 1 THEN GENESIS ELSE log[n - 1].hash
      /\ log[n].hash = Append(log[n].previous, <<n, log[n].event>>)
  BY <1>1, <1>3 DEF Verify, hash_entry
<1>5. CASE n = 1
  <2>1. log[1].hash = Append(<<>>, <<1, log[1].event>>)
    BY <1>4, <1>5 DEF GENESIS
  <2>2. Append(<<>>, <<1, log[1].event>>) = [j \in 1 .. 1 |-> <<j, log[j].event>>]
    OBVIOUS
  <2> QED BY <1>2, <1>5, <2>1, <2>2
<1>6. CASE n # 1
  <2>1. n - 1 \in DOMAIN log /\ n - 1 \in Nat /\ ~(n <= n - 1) /\ (n - 1) + 1 = n
    BY <1>1, <1>3, <1>6
  <2>2. log[n - 1].hash = [j \in 1 .. n - 1 |-> <<j, log[j].event>>]
    BY <1>2, <2>1
  <2>3. log[n].hash = Append([j \in 1 .. n - 1 |-> <<j, log[j].event>>],
                             <<n, log[n].event>>)
    BY <1>4, <1>6, <2>2
  <2> DEFINE s == [j \in 1 .. n - 1 |-> <<j, log[j].event>>]
             S == {<<j, log[j].event>> : j \in 1 .. n}
  <2>4. s \in Seq(S) /\ Len(s) = n - 1
    BY <2>1
  <2>5. Append(s, <<n, log[n].event>>) = [j \in 1 .. n |-> <<j, log[j].event>>]
    BY <2>1, <2>4
  <2> QED BY <1>2, <2>3, <2>5
<1> QED BY <1>5, <1>6

-----------------------------------------------------------------------------
(* The log *)

(* A draft belongs to the owner of the path, and fits the file as it is. *)
DraftsOwned ==
  \A d \in Daemons : draft[d] # {} => at[d] \in {"serve", "unlink", "drain"}

DraftsFit ==
  \A d \in Daemons : \A entry \in draft[d] :
    entry.event \in Events /\ entry = NextEntry(entry.event)

Kept == \A head \in heads : Stays(head)

LogInv == DraftsOwned /\ (edits = 0 => Verify(log) /\ DraftsFit /\ Kept)

LEMMA VerifyPrefix ==
  ASSUME log \in Seq(Entries), Verify(log), log # <<>>
  PROVE  Verify(SubSeq(log, 1, Len(log) - 1))
<1> DEFINE p == SubSeq(log, 1, Len(log) - 1)
<1>1. Len(log) \in Nat /\ Len(log) > 0 /\ DOMAIN log = 1 .. Len(log)
  OBVIOUS
<1>2. p \in Seq(Entries) /\ Len(p) = Len(log) - 1
  BY <1>1
<1>3. \A k \in 1 .. Len(log) - 1 : p[k] = log[k]
  BY <1>1
<1>4. DOMAIN p = 1 .. Len(log) - 1
  BY <1>1, <1>2
<1> HIDE DEF p
<1>5. ASSUME NEW k \in DOMAIN p
      PROVE  /\ p[k].sequence = k
             /\ p[k].previous = IF k = 1 THEN GENESIS ELSE p[k - 1].hash
             /\ p[k].hash = hash_entry(p[k].sequence, p[k].previous, p[k].event)
  <2>1. k \in DOMAIN log /\ p[k] = log[k]
    BY <1>1, <1>3, <1>4
  <2>2. k # 1 => p[k - 1] = log[k - 1]
    BY <1>1, <1>3, <1>4
  <2> QED BY <2>1, <2>2 DEF Verify
<1> QED BY <1>5 DEF Verify, p

(* Appending the entry that fits keeps the chain. *)
LEMMA VerifyAppend ==
  ASSUME log \in Seq(Entries), Verify(log), NEW e \in Events
  PROVE  Verify(Append(log, NextEntry(e)))
<1> DEFINE x == NextEntry(e)
           p == Append(log, x)
           n == Len(log) + 1
<1>1. Len(log) \in Nat /\ DOMAIN log = 1 .. Len(log) /\ x \in Entries
  BY NextEntryTypes
<1>2. DOMAIN p = 1 .. n /\ p[n] = x /\ \A k \in 1 .. Len(log) : p[k] = log[k]
  BY <1>1
<1>3. /\ x.sequence = n
      /\ x.previous = IF n = 1 THEN GENESIS ELSE log[n - 1].hash
      /\ x.hash = hash_entry(x.sequence, x.previous, x.event)
  <2>1. CASE log = <<>>
    BY <2>1 DEF NextEntry, Entry
  <2>2. CASE log # <<>>
    <3>1. Len(log) \in DOMAIN log /\ n # 1 /\ n - 1 = Len(log)
      BY <1>1, <2>2
    <3>2. log[Len(log)].sequence = Len(log)
      BY <3>1 DEF Verify
    <3>3. x = Entry(n, log[Len(log)].hash, e)
      BY <2>2, <3>2 DEF NextEntry
    <3> QED BY <3>1, <3>3 DEF Entry
  <2> QED BY <2>1, <2>2
<1> HIDE DEF p, x
<1>4. ASSUME NEW k \in 1 .. n
      PROVE  /\ p[k].sequence = k
             /\ p[k].previous = IF k = 1 THEN GENESIS ELSE p[k - 1].hash
             /\ p[k].hash = hash_entry(p[k].sequence, p[k].previous, p[k].event)
  <2>1. CASE k = n
    <3>1. n # 1 => p[n - 1] = log[n - 1]
      BY <1>1, <1>2
    <3> QED BY <1>2, <1>3, <2>1, <3>1
  <2>2. CASE k # n
    <3>1. k \in DOMAIN log /\ p[k] = log[k]
      BY <1>1, <1>2, <2>2
    <3>2. k # 1 => p[k - 1] = log[k - 1]
      BY <1>1, <1>2, <2>2
    <3> QED BY <3>1, <3>2 DEF Verify
  <2> QED BY <2>1, <2>2
<1> QED BY <1>2, <1>4 DEF Verify, p, x

(* The hash of the entry that fits is of all entries and itself. *)
LEMMA NextHash ==
  ASSUME log \in Seq(Entries), Verify(log), NEW e \in Events
  PROVE  /\ DOMAIN NextEntry(e).hash = 1 .. Len(log) + 1
         /\ Len(NextEntry(e).hash) = Len(log) + 1
         /\ \A k \in 1 .. Len(log) : NextEntry(e).hash[k][2] = log[k].event
         /\ NextEntry(e).hash[Len(log) + 1][2] = e
<1> DEFINE n == Len(log)
<1>1. n \in Nat /\ DOMAIN log = 1 .. n
  OBVIOUS
<1>2. CASE log = <<>>
  <2>1. NextEntry(e).hash = Append(<<>>, <<1, e>>)
    BY <1>2 DEF NextEntry, Entry, GENESIS, hash_entry
  <2>2. Append(<<>>, <<1, e>>) = << <<1, e>> >>
    OBVIOUS
  <2> QED BY <1>1, <1>2, <2>1, <2>2
<1>3. CASE log # <<>>
  <2>1. n \in DOMAIN log
    BY <1>1, <1>3
  <2> DEFINE s == [j \in 1 .. n |-> <<j, log[j].event>>]
             S == {<<j, log[j].event>> : j \in 1 .. n} \cup {<<n + 1, e>>}
             h == Append(s, <<n + 1, e>>)
  <2>2. log[n].hash = s
    BY <2>1, VerifiedHashes
  <2>3. log[n].sequence = n
    BY <2>1 DEF Verify
  <2>4. NextEntry(e).hash = h
    BY <1>3, <2>2, <2>3 DEF NextEntry, Entry, hash_entry
  <2>5. s \in Seq(S) /\ Len(s) = n
    BY <1>1
  <2>6. /\ DOMAIN h = 1 .. n + 1 /\ Len(h) = n + 1
        /\ h[n + 1] = <<n + 1, e>>
        /\ \A k \in 1 .. n : h[k] = <<k, log[k].event>>
    <3>1. \A k \in 1 .. n : s[k] = <<k, log[k].event>>
      OBVIOUS
    <3> HIDE DEF s
    <3> QED BY <1>1, <2>5, <3>1
  <2> QED BY <2>4, <2>6
<1> QED BY <1>2, <1>3

LEMMA KeptByWritten ==
  ASSUME AuditTypeOK, Verify(log), Kept, tail = "clean",
         NEW e \in Events, Written(NextEntry(e))
  PROVE  Kept'
<1> DEFINE n == Len(log)
           x == NextEntry(e)
<1>1. /\ log \in Seq(Entries) /\ n \in Nat /\ DOMAIN log = 1 .. n
      /\ x.event = e /\ x \in Entries
  BY NextEntryTypes DEF AuditTypeOK
<1>2. /\ DOMAIN log' = 1 .. n + 1 /\ log'[n + 1] = x
      /\ \A k \in 1 .. n : log'[k] = log[k]
  BY <1>1 DEF Written
<1>3. \A head \in heads : \A k \in DOMAIN head :
        k \in 1 .. n /\ log[k].event = head[k][2]
  BY <1>1 DEF Kept, Stays, Committed
<1>4. /\ DOMAIN x.hash = 1 .. n + 1
      /\ \A k \in 1 .. n : x.hash[k][2] = log[k].event
      /\ x.hash[n + 1][2] = e
  BY <1>1, NextHash
<1> HIDE DEF x
<1>5. SUFFICES ASSUME NEW head \in heads', NEW k \in DOMAIN head
               PROVE  k \in 1 .. n + 1 /\ log'[k].event = head[k][2]
  BY <1>2 DEF Kept, Stays, Committed
<1>6. CASE head \in heads
  BY <1>1, <1>2, <1>3, <1>6
<1>7. CASE head = x.hash
  BY <1>1, <1>2, <1>4, <1>7
<1> QED BY <1>6, <1>7 DEF Written, x

LEMMA LogInvInit == Init => LogInv
BY SameProcesses DEF Init, AuditInit, SocketInit, LogInv, DraftsOwned, DraftsFit,
   Verify, Kept

LEMMA LogInvNext ==
  ASSUME Orderly, SocketTypeOK, AuditTypeOK, OwnInv, LogInv, [Next]_vars
  PROVE  LogInv'
<1> USE SameProcesses
<1>1. CASE UNCHANGED vars
  BY <1>1 DEF LogInv, DraftsOwned, DraftsFit, NextEntry, Kept, Stays, vars,
     socketVars, auditVars
<1>2. ASSUME NEW d \in Daemons,
             Start(d) \/ OpenStorage(d) \/ Migrate(d) \/ MigrateFails(d)
             \/ Ready(d) \/ End(d)
      PROVE  LogInv'
  <2>1. UNCHANGED auditVars
    BY <1>2 DEF Start, OpenStorage, Migrate, MigrateFails, Ready, End
  <2>2. ASSUME NEW e \in Daemons, at'[e] \notin {"serve", "unlink", "drain"},
               at[e] \in {"serve", "unlink", "drain"}
        PROVE  draft[e] = {}
    <3>1. e = d /\ Exit(d) /\ draft[d] = {}
      BY <1>2, <2>2 DEF Start, OpenStorage, Migrate, MigrateFails, Ready, End,
         Launch, Look, TryConnect, RemoveStale, Bind, Open, Serve, GiveUp, Stop,
         Unlink, Exit, Enter, SocketTypeOK, socketVars
    <3> QED BY <3>1
  <2>3. DraftsOwned'
    BY <2>1, <2>2 DEF LogInv, DraftsOwned, auditVars
  <2> QED BY <2>1, <2>3 DEF LogInv, DraftsFit, NextEntry, Kept, Stays, auditVars
<1>3. ASSUME NEW d \in Daemons, Record(d) PROVE LogInv'
  <2>1. at[d] \in {"serve", "unlink", "drain"} /\ UNCHANGED at
    BY <1>3 DEF Record, socketVars
  <2>2. ASSUME NEW e \in Daemons \ {d} PROVE draft[e] = {}
    BY <2>1, OwnersAreSole DEF LogInv, DraftsOwned, SoleOwner, Owning
  <2>3. CASE AppendRead(d)
    <3>1. PICK e \in Events : draft' = [draft EXCEPT ![d] = {NextEntry(e)}]
      BY <2>3 DEF AppendRead
    <3>2. /\ draft'[d] = {NextEntry(e)}
          /\ \A f \in Daemons \ {d} : draft'[f] = {}
      BY <3>1, <2>2 DEF AuditTypeOK
    <3>3. UNCHANGED <<log, edits, tail, heads>>
      BY <2>3 DEF AppendRead
    <3>4. NextEntry(e).event = e
      BY NextEntryTypes DEF AuditTypeOK
    <3>5. NextEntry(e)' = NextEntry(e)
      BY <3>3 DEF NextEntry
    <3>6. DraftsFit'
      BY <3>2, <3>3, <3>4 DEF DraftsFit, NextEntry
    <3> QED BY <2>1, <3>2, <3>3, <3>6 DEF LogInv, DraftsOwned, Kept, Stays
  <2>4. CASE AppendWrite(d) \/ AppendCut(d) \/ AppendLost(d)
    <3>1. \A f \in Daemons : draft'[f] = {}
      BY <2>2, <2>4 DEF AppendWrite, AppendCut, AppendLost, AuditTypeOK
    <3>2. UNCHANGED edits
      BY <2>4 DEF AppendWrite, AppendCut, AppendLost
    <3>3. ASSUME edits = 0 PROVE Verify(log')
      <4>1. CASE AppendLost(d)
        BY <3>3, <4>1 DEF LogInv, AppendLost
      <4>2. SUFFICES ASSUME AppendWrite(d) \/ AppendCut(d) PROVE Verify(log')
        BY <2>4, <4>1
      <4>3. PICK entry \in draft[d] :
              \/ log' = Append(log, entry)
              \/ log' = log
              \/ log' = SubSeq(log, 1, Len(log) - 1)
        BY <4>2 DEF AppendWrite, AppendCut, Written
      <4>4. Verify(log) /\ log \in Seq(Entries)
        BY <3>3 DEF LogInv, AuditTypeOK
      <4>5. entry.event \in Events /\ entry = NextEntry(entry.event)
        BY <3>3 DEF LogInv, DraftsFit
      <4>6. CASE log' = Append(log, entry)
        BY <4>4, <4>5, <4>6, VerifyAppend
      <4>7. CASE log' = SubSeq(log, 1, Len(log) - 1)
        <5>1. CASE log = <<>>
          <6>1. log' = <<>>
            BY <4>7, <5>1
          <6> QED BY <6>1 DEF Verify
        <5>2. CASE log # <<>>
          BY <4>4, <4>7, <5>2, VerifyPrefix
        <5> QED BY <5>1, <5>2
      <4> QED BY <4>3, <4>4, <4>6, <4>7
    <3>4. ASSUME edits = 0 PROVE Kept'
      <4>1. Verify(log) /\ Kept /\ log \in Seq(Entries)
        BY <3>4 DEF LogInv, AuditTypeOK
      <4>2. \A entry \in draft[d] :
              entry.event \in Events /\ entry = NextEntry(entry.event)
        BY <3>4 DEF LogInv, DraftsFit
      <4>3. CASE UNCHANGED <<log, heads>> /\ tail' \in {tail, "cut"}
        BY <4>1, <4>3 DEF Kept, Stays
      <4>4. CASE tail = "clean" /\ \E entry \in draft[d] : Written(entry)
        BY <4>1, <4>2, <4>4, KeptByWritten
      <4>5. CASE /\ tail = "open" /\ tail' = "cut" /\ heads' = heads
                 /\ log' = SubSeq(log, 1, Len(log) - 1)
        <5>1. SUFFICES ASSUME NEW head \in heads, NEW k \in DOMAIN head,
                              k < Len(head)
                       PROVE  k \in DOMAIN log' /\ log'[k].event = head[k][2]
          BY <4>5 DEF Kept, Stays, Committed
        <5>2. Len(head) \in DOMAIN head /\ head \in Seq(Nat \X Events)
          BY <5>1 DEF AuditTypeOK, Hashes
        <5>3. Len(head) \in 1 .. Len(log) /\ k \in 1 .. Len(log)
              /\ log[k].event = head[k][2]
          BY <4>1, <4>5, <5>1, <5>2 DEF Kept, Stays, Committed
        <5>4. k \in 1 .. Len(log) - 1 /\ Len(log) \in Nat
          BY <5>1, <5>2, <5>3
        <5>5. /\ DOMAIN log' = 1 .. Len(log) - 1
              /\ \A j \in 1 .. Len(log) - 1 : log'[j] = log[j]
          BY <4>1, <4>5, <5>4
        <5> QED BY <5>3, <5>4, <5>5
      <4> QED BY <2>4, <4>3, <4>4, <4>5
              DEF AppendWrite, AppendCut, AppendLost, AuditTypeOK
    <3> QED BY <3>1, <3>2, <3>3, <3>4
            DEF LogInv, DraftsOwned, DraftsFit, Verify, Kept
  <2> QED BY <1>3, <2>3, <2>4 DEF Record
<1>4. ASSUME NEW d \in Daemons, Crash(d) PROVE LogInv'
  <2>1. draft'[d] = {} /\ UNCHANGED <<log, edits, tail, heads>>
    BY <1>4 DEF Crash, AppendLost, AuditTypeOK
  <2>2. \A e \in Daemons \ {d} : draft'[e] = draft[e] /\ at'[e] = at[e]
    BY <1>4 DEF Crash, AppendLost, AuditTypeOK, Kill, Enter, SocketTypeOK
  <2> QED BY <2>1, <2>2 DEF LogInv, DraftsOwned, DraftsFit, NextEntry, Kept, Stays
<1>5. CASE Tamper
  <2>1. edits' # 0
    BY <1>5 DEF Tamper, EditByHand, AuditTypeOK
  <2>2. UNCHANGED <<draft, at>>
    BY <1>5 DEF Tamper, EditByHand, socketVars
  <2> QED BY <2>1, <2>2 DEF LogInv, DraftsOwned
<1> QED BY <1>1, <1>2, <1>3, <1>4, <1>5 DEF Next

(* While starts and stops are orderly there is one writer, so the file a
   daemon's entry was linked to is the file it is written to: daemons alone
   never break the chain, and lose no entry written in full but the last one of
   a file that is cut. *)
THEOREM ChainUnbroken ==
  ASSUME Orderly
  PROVE  Spec => []LogVerifies
<1>1. LogInv => LogVerifies
  BY DEF LogInv, LogVerifies, Kept
<1>2. TypeOK => SocketTypeOK /\ AuditTypeOK
  BY DEF TypeOK
<1>3. SocketTypeOK /\ AuditTypeOK /\ OwnInv /\ LogInv /\ [Next]_vars => LogInv'
  BY LogInvNext
<1> QED BY <1>1, <1>2, <1>3, HostTypes, SocketAlways, LogInvInit, PTL DEF Spec

-----------------------------------------------------------------------------
(* What a log that verifies is a record of *)

HashesRecorded == \A k \in DOMAIN log : log[k].hash \in heads

LEMMA HashesRecordedNext ==
  ASSUME AuditTypeOK, HashesRecorded, AuditStep
  PROVE  HashesRecorded'
<1>0. log \in Seq(Entries) /\ Len(log) \in Nat /\ DOMAIN log = 1 .. Len(log)
  BY DEF AuditTypeOK
<1>1. CASE UNCHANGED <<log, heads>>
  BY <1>1 DEF HashesRecorded
<1>2. ASSUME NEW entry \in Entries, Written(entry) PROVE HashesRecorded'
  <2>1. /\ DOMAIN log' = 1 .. Len(log) + 1
        /\ log'[Len(log) + 1] = entry
        /\ \A k \in 1 .. Len(log) : log'[k] = log[k]
    BY <1>0, <1>2 DEF Written
  <2> QED BY <1>0, <1>2, <2>1 DEF Written, HashesRecorded
<1>3. CASE log' = SubSeq(log, 1, Len(log) - 1) /\ heads' = heads
  <2>1. CASE log = <<>>
    BY <1>3, <2>1 DEF HashesRecorded
  <2>2. CASE log # <<>>
    <3>1. \A k \in DOMAIN log' : k \in DOMAIN log /\ log'[k] = log[k]
      BY <1>0, <1>3, <2>2
    <3> QED BY <1>3, <3>1 DEF HashesRecorded
  <2> QED BY <2>1, <2>2
<1>4. CASE EditByHand
  <2>1. heads' = heads
    BY <1>4 DEF EditByHand
  <2>2. ASSUME NEW k \in DOMAIN log, NEW e, log' = [log EXCEPT ![k].event = e]
        PROVE  HashesRecorded'
    <3>1. DOMAIN log' = DOMAIN log
      BY <2>2
    <3>2. \A j \in DOMAIN log : log[j] \in Entries
      BY <1>0
    <3>3. \A j \in DOMAIN log : log'[j].hash = log[j].hash
      BY <2>2, <3>2 DEF Entries
    <3> QED BY <2>1, <3>1, <3>3 DEF HashesRecorded
  <2>3. ASSUME NEW k \in DOMAIN log,
               log' = SubSeq(log, 1, k - 1) \o SubSeq(log, k + 1, Len(log))
        PROVE  HashesRecorded'
    <3>1. /\ SubSeq(log, 1, k - 1) \in Seq(Entries)
          /\ Len(SubSeq(log, 1, k - 1)) = k - 1
          /\ \A j \in 1 .. k - 1 : SubSeq(log, 1, k - 1)[j] = log[j]
      BY <1>0
    <3>2. /\ SubSeq(log, k + 1, Len(log)) \in Seq(Entries)
          /\ Len(SubSeq(log, k + 1, Len(log))) = Len(log) - k
          /\ \A j \in 1 .. Len(log) - k :
               SubSeq(log, k + 1, Len(log))[j] = log[k + j]
      BY <1>0
    <3>3. \A j \in DOMAIN log' : \E m \in DOMAIN log : log'[j] = log[m]
      <4> DEFINE a == SubSeq(log, 1, k - 1)
                 b == SubSeq(log, k + 1, Len(log))
      <4>1. ASSUME NEW j \in DOMAIN log'
            PROVE  \/ j \in 1 .. k - 1 /\ log'[j] = a[j]
                   \/ j - (k - 1) \in 1 .. Len(log) - k /\ log'[j] = b[j - (k - 1)]
        <5> HIDE DEF a, b
        <5>1. log' = a \o b /\ a \in Seq(Entries) /\ b \in Seq(Entries)
              /\ Len(a) = k - 1 /\ Len(b) = Len(log) - k
          BY <2>3, <3>1, <3>2 DEF a, b
        <5> QED BY <1>0, <4>1, <5>1
      <4>2. ASSUME NEW j \in DOMAIN log' PROVE \E m \in DOMAIN log : log'[j] = log[m]
        <5>1. CASE j \in 1 .. k - 1 /\ log'[j] = a[j]
          BY <1>0, <3>1, <5>1
        <5>2. CASE j - (k - 1) \in 1 .. Len(log) - k /\ log'[j] = b[j - (k - 1)]
          <6>1. k + (j - (k - 1)) \in DOMAIN log
            BY <1>0, <5>2
          <6> QED BY <3>2, <5>2, <6>1
        <5> QED BY <4>1, <4>2, <5>1, <5>2
      <4> QED BY <4>2
    <3> QED BY <2>1, <3>3 DEF HashesRecorded
  <2> QED BY <1>4, <2>2, <2>3 DEF EditByHand
<1> QED BY <1>1, <1>2, <1>3, <1>4, SameProcesses
    DEF AuditStep, auditVars, AppendRead, AppendWrite, AppendCut, AppendLost,
        AuditTypeOK

LEMMA VerifiedAreRecorded ==
  ASSUME AuditTypeOK, HashesRecorded
  PROVE  VerifiedIsRecorded
<1> SUFFICES ASSUME Verify(log), log # <<>>
             PROVE  \E head \in heads : EventsOf(log) = Committed(head)
  BY DEF VerifiedIsRecorded, Intact
<1>1. /\ log \in Seq(Entries) /\ Len(log) \in DOMAIN log
      /\ DOMAIN log = 1 .. Len(log)
  BY DEF AuditTypeOK
<1>2. log[Len(log)].hash = [j \in 1 .. Len(log) |-> <<j, log[j].event>>]
  BY <1>1, VerifiedHashes
<1>3. EventsOf(log) = Committed(log[Len(log)].hash)
  BY <1>1, <1>2 DEF EventsOf, Committed
<1> QED BY <1>1, <1>3 DEF HashesRecorded

(* A log that verifies holds a history a daemon wrote, in full and in order,
   whoever else edits the file or appends to it and wherever writes are cut. *)
THEOREM VerifiedLogIsRecorded == Spec => []VerifiedIsRecorded
<1>1. Init => HashesRecorded
  BY DEF Init, AuditInit, HashesRecorded
<1>2. TypeOK => AuditTypeOK
  BY DEF TypeOK
<1> QED BY <1>1, <1>2, HostTypes, StepsOfTheParts, HashesRecordedNext,
           VerifiedAreRecorded, PTL DEF Spec
=============================================================================
