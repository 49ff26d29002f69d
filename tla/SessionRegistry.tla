--------------------------- MODULE SessionRegistry ---------------------------
(***************************************************************************)
(* What a client of the daemon may rely on about the list of sessions,     *)
(* without threads, multiplexer windows, workspaces or the poller.         *)
(*                                                                         *)
(*   - an id is handed out once, in increasing order, across restarts;     *)
(*   - a session appears in the list once, as "creating", under a name no  *)
(*     other row carries (rows already deleted keep their name);           *)
(*   - it may then change state freely, but a deleted session never comes  *)
(*     back to the list;                                                   *)
(*   - only a session whose create is still unanswered may vanish without  *)
(*     a delete: one the client was told about stays.                      *)
(*                                                                         *)
(* SessionLifecycle implements this specification.                         *)
(***************************************************************************)
EXTENDS Naturals

CONSTANTS
  MaxSessions,  \* ids are 0 .. MaxSessions-1; bounds the model
  Names,        \* session names clients ask for
  NoName        \* the name of a row that does not exist

VARIABLES
  next,         \* the next id to hand out
  book,         \* book[i]: the state and the name of session i
  pending       \* ids whose create request has not been answered yet

bookVars == <<next, book, pending>>

BookIds == 0 .. MaxSessions - 1
LaterStates == {"starting", "running", "exited", "unreachable"}
ShownStates == LaterStates \cup {"creating"}
Shown(i) == book[i].state \in ShownStates
Blank == [state |-> "absent", name |-> NoName]

BookInit ==
  /\ next = 0
  /\ book = [i \in BookIds |-> Blank]
  /\ pending = {}

Allocate ==
  /\ next < MaxSessions
  /\ next' = next + 1
  /\ \/ pending' = pending \cup {next}
     \/ pending' = pending          \* the id is burned at once
  /\ UNCHANGED book

Appear(i) ==
  /\ i \in pending
  /\ book[i] = Blank
  /\ \E n \in Names :
       /\ \A j \in BookIds : book[j].name # n
       /\ book' = [book EXCEPT ![i] = [state |-> "creating", name |-> n]]
  /\ UNCHANGED <<next, pending>>

ChangeState(i) ==
  /\ Shown(i)
  /\ \E s \in LaterStates : book' = [book EXCEPT ![i].state = s]
  /\ pending' \in {pending, pending \ {i}}
  /\ UNCHANGED next

Delete(i) ==
  /\ Shown(i)
  /\ book' = [book EXCEPT ![i].state = "deleted"]
  /\ UNCHANGED <<next, pending>>

Withdraw(i) ==
  /\ i \in pending
  /\ book' = [book EXCEPT ![i] = Blank]
  /\ pending' = pending \ {i}
  /\ UNCHANGED next

Answer(i) ==
  /\ i \in pending
  /\ pending' = pending \ {i}
  /\ UNCHANGED <<next, book>>

Forget ==       \* the daemon stops: no create will be answered any more
  /\ pending' = {}
  /\ UNCHANGED <<next, book>>

BookNext ==
  \/ Allocate
  \/ Forget
  \/ \E i \in BookIds :
       Appear(i) \/ ChangeState(i) \/ Delete(i) \/ Withdraw(i) \/ Answer(i)

BookSpec == BookInit /\ [][BookNext]_bookVars
=============================================================================
