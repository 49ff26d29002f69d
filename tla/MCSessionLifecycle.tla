------------------------- MODULE MCSessionLifecycle -------------------------
(* SessionLifecycle for TLC, with requests for one session that do not overlap.
   No step tells one client, or one name, from another, and a daemon dies with
   one session created at most: what it leaves of one no other touches. *)
EXTENDS SessionLifecycle, TLC

Interchangeable == Permutations(Threads) \cup Permutations(Names)

Within == crashes > 0 => nextId <= 1

MCSpec == Init /\ [][Next /\ Apart' /\ Within']_vars
=============================================================================
