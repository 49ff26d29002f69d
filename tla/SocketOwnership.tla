--------------------------- MODULE SocketOwnership ---------------------------
(***************************************************************************)
(* Who owns the daemon's socket path: the start and the end of anclaved    *)
(* (main.rs main, listen.rs clear_stale_socket).                           *)
(*                                                                         *)
(* Every start looks at the path, tries to connect, removes a stale file   *)
(* and binds, one system call at a time and with nothing held in between;  *)
(* the end closes the listener and then removes whatever is at the path.   *)
(* The database and the audit log lie beside the socket, so whoever serves *)
(* there is also their writer (DaemonHost).                                *)
(***************************************************************************)

CONSTANTS
  Daemons,     \* processes started on the same socket path
  Nobody,      \* no file at the path
  Orderly      \* a start or a stop begins only when none is going on

ASSUME OwnersAssumption ==
  /\ Nobody \notin Daemons
  /\ Orderly \in BOOLEAN

VARIABLES
  path,        \* the daemon that bound the file at the path, alive or not
  at           \* at[d]: where process d is

socketVars == <<path, at>>

Starting == {"look", "connect", "remove", "bind", "open", "migrate"}
Ending == {"unlink", "drain"}
Steps == {"off", "serve"} \cup Starting \cup Ending

(* The listener is open from bind until run returns. *)
Listening(d) == at[d] \in {"open", "migrate", "serve"}
Settled == \A d \in Daemons : at[d] \notin Starting \cup Ending

Enter(d, step) == at' = [at EXCEPT ![d] = step]

SocketInit ==
  /\ path = Nobody
  /\ at = [d \in Daemons |-> "off"]

Launch(d) ==
  /\ at[d] = "off"
  /\ Orderly => Settled
  /\ Enter(d, "look")
  /\ UNCHANGED path

Look(d) ==
  /\ at[d] = "look"
  /\ Enter(d, IF path = Nobody THEN "bind" ELSE "connect")
  /\ UNCHANGED path

TryConnectMutant(d) ==          \* takes every file for a leftover
  /\ at[d] = "connect"
  /\ Enter(d, "remove")
  /\ UNCHANGED path

(* An answer is AddrInUse and ends the process; a refusal, or a path that has
   vanished, makes the file stale. *)
TryConnect(d) ==
  /\ at[d] = "connect"
  /\ IF path \in {e \in Daemons : Listening(e)} THEN Enter(d, "off")
     ELSE Enter(d, "remove")
  /\ UNCHANGED path

(* remove_file fails, and the process ends, when the path has vanished. *)
RemoveStale(d) ==
  /\ at[d] = "remove"
  /\ path' = Nobody
  /\ Enter(d, IF path = Nobody THEN "off" ELSE "bind")

(* bind refuses a path that exists. *)
Bind(d) ==
  /\ at[d] = "bind"
  /\ IF path = Nobody THEN path' = d /\ Enter(d, "open")
     ELSE Enter(d, "off") /\ UNCHANGED path

Open(d) ==
  /\ at[d] = "open"
  /\ Enter(d, "migrate")
  /\ UNCHANGED path

(* Storage::open answered: serve, or end with the socket file left behind. *)
Serve(d) ==
  /\ at[d] = "migrate"
  /\ Enter(d, "serve")
  /\ UNCHANGED path

GiveUp(d) ==
  /\ at[d] = "migrate"
  /\ Enter(d, "off")
  /\ UNCHANGED path

(* run returns: a signal, a Shutdown request, or an error of its own. *)
Stop(d) ==
  /\ at[d] = "serve"
  /\ Orderly => Settled
  /\ Enter(d, "unlink")
  /\ UNCHANGED path

Unlink(d) ==
  /\ at[d] = "unlink"
  /\ path' = Nobody
  /\ Enter(d, "drain")

(* Handlers that were running finish before the process is gone. *)
Exit(d) ==
  /\ at[d] = "drain"
  /\ Enter(d, "off")
  /\ UNCHANGED path

(* A crash, or a start that fails for a reason of its own. *)
Kill(d) ==
  /\ at[d] # "off"
  /\ Enter(d, "off")
  /\ UNCHANGED path

-----------------------------------------------------------------------------
(* Properties *)

SocketTypeOK ==
  /\ path \in Daemons \cup {Nobody}
  /\ at \in [Daemons -> Steps]

(* A serving daemon is the one clients reach: neither a second start nor the
   end of another daemon takes the path away from under it. *)
Reachable == \A d \in Daemons : at[d] = "serve" => path = d

(* At most one daemon has the database and the log open, through every crash,
   stale file and second start. *)
Owning(d) == at[d] \in {"open", "migrate", "serve", "unlink", "drain"}
SoleOwner == \A d, e \in Daemons : Owning(d) /\ Owning(e) => d = e
=============================================================================
