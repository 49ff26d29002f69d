----------------------------- MODULE DaemonHost -----------------------------
(***************************************************************************)
(* Daemon processes on one socket path, with the database and the audit    *)
(* log beside it: who owns the path decides who migrates the one and       *)
(* appends to the other (main.rs main, run).                               *)
(***************************************************************************)
EXTENDS SocketOwnership, SchemaMigration, AuditLog

ASSUME SameProcesses == Processes = Daemons /\ Writers = Daemons

vars == <<socketVars, schemaVars, auditVars>>

Init == SocketInit /\ SchemaInit /\ AuditInit

(* Starting, as far as the socket goes. *)
Start(d) ==
  /\ Launch(d) \/ Look(d) \/ TryConnect(d) \/ RemoveStale(d) \/ Bind(d)
  /\ UNCHANGED <<schemaVars, auditVars>>

OpenStorage(d) ==
  /\ Open(d)
  /\ ReadVersion(d)
  /\ UNCHANGED auditVars

Migrate(d) ==
  /\ at[d] = "migrate"
  /\ Execute(d)
  /\ UNCHANGED <<socketVars, auditVars>>

MigrateFails(d) ==
  /\ Duplicate(d)
  /\ GiveUp(d)
  /\ Abandon(d)
  /\ UNCHANGED auditVars

Ready(d) ==
  /\ left[d] = <<>>
  /\ Serve(d)
  /\ UNCHANGED <<schemaVars, auditVars>>

(* A handler records an event; one still running at the end does so too.  An
   append that fails is dropped. *)
Record(d) ==
  /\ at[d] \in {"serve", "unlink", "drain"}
  /\ \/ AppendRead(d)
     \/ AppendWrite(d)
     \/ AppendCut(d)
     \/ draft[d] # {} /\ AppendLost(d)
  /\ UNCHANGED <<socketVars, schemaVars>>

End(d) ==
  /\ Stop(d) \/ Unlink(d) \/ (draft[d] = {} /\ Exit(d))
  /\ UNCHANGED <<schemaVars, auditVars>>

Crash(d) ==
  /\ Kill(d)
  /\ Abandon(d)
  /\ AppendLost(d)

Tamper == EditByHand /\ UNCHANGED <<socketVars, schemaVars>>

Next ==
  \/ \E d \in Daemons :
       \/ Start(d) \/ OpenStorage(d) \/ Migrate(d) \/ MigrateFails(d)
       \/ Ready(d) \/ Record(d) \/ End(d) \/ Crash(d)
  \/ Tamper

Spec == Init /\ [][Next]_vars

-----------------------------------------------------------------------------
(* Properties, with those of the parts *)

TypeOK == SocketTypeOK /\ SchemaTypeOK /\ AuditTypeOK

(* A daemon that serves has every column and no row left in the old form,
   whatever version it found and wherever an earlier migration was killed. *)
ServesCurrentSchema == \A d \in Daemons : at[d] = "serve" => Current
=============================================================================
