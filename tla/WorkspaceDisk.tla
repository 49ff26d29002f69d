---------------------------- MODULE WorkspaceDisk ----------------------------
(***************************************************************************)
(* Workspaces on disk (crates/workspace): a directory per workspace whose  *)
(* members are Git worktrees on branches of their own or links to what the *)
(* user keeps elsewhere.  Git is external: `worktree add -b` refuses a     *)
(* branch that exists and a path it still has an entry for, `remove` drops *)
(* entry and checkout, `prune` drops the entries without a checkout, and   *)
(* none of them deletes a branch.                                          *)
(***************************************************************************)
EXTENDS Naturals, Sequences, FiniteSets

CONSTANTS
  Repositories, \* Git repositories
  Directories,  \* other directories a session may be given
  Attached      \* the branch of a member that keeps its own checkout

VARIABLES
  sources,   \* the repositories and directories that exist
  branches,  \* branches[r]: branches of repository r
  entries,   \* entries[r]: paths its worktree entries name
  wrappers,  \* workspace directories
  members    \* what is in them: [path, kind, source]

diskVars == <<sources, branches, entries, wrappers, members>>

(* A path is a workspace's id and a name; a name is a base and its suffixes, so
   the second "api" is api-2, which another repository may be called. *)
MemberNames(list) ==
  [k \in DOMAIN list |->
     LET same == Cardinality({j \in 1 .. k : list[j].base = list[k].base})
     IN IF same = 1 THEN list[k].base ELSE Append(list[k].base, same)]
Path(spec, k) == <<spec.id, MemberNames(spec.members)[k]>>
Worktrees(spec) ==
  {k \in DOMAIN spec.members : spec.members[k].branch # Attached}

Occupied(path) == \E m \in members : m.path = path
Under(id) == {m \in members : m.path[1] = id}

DiskInit ==
  /\ sources = Repositories \cup Directories
  /\ branches = [r \in Repositories |-> {}]
  /\ entries = [r \in Repositories |-> {}]
  /\ wrappers = {}
  /\ members = {}

(* create: the directory, which may be there already. *)
MakeWrapper(spec) ==
  /\ wrappers' = wrappers \cup {spec.id}
  /\ UNCHANGED <<sources, branches, entries, members>>

PrunedMutant(r) == entries[r]      \* create_worktree without `worktree prune`

Pruned(r) == {e \in entries[r] : Occupied(e)}

(* inspect: git finds a repository there. *)
Inspected(source) == source \in sources \cap Repositories

(* prepare_member: the k-th, or why it cannot be prepared. *)
Obstacle(spec, k) ==
  LET m == spec.members[k] IN
  IF m.source \notin sources THEN "no source"
  ELSE IF m.branch # Attached /\ ~Inspected(m.source) THEN "no repository"
  ELSE IF Occupied(Path(spec, k)) THEN "occupied"
  ELSE IF m.branch = Attached THEN "none"
  ELSE IF m.branch \in branches[m.source] THEN "branch exists"
  ELSE IF Path(spec, k) \in Pruned(m.source) THEN "entry exists"
  ELSE "none"

PrepareMember(spec, k) ==
  LET m == spec.members[k] IN
  /\ members' = members \cup
       {[path |-> Path(spec, k), source |-> m.source,
         kind |-> IF m.branch = Attached THEN "link" ELSE "worktree"]}
  /\ IF m.branch = Attached THEN UNCHANGED <<branches, entries>>
     ELSE /\ branches' = [branches EXCEPT ![m.source] = @ \cup {m.branch}]
          /\ entries' = [entries EXCEPT ![m.source] =
                           Pruned(m.source) \cup {Path(spec, k)}]
  /\ UNCHANGED <<sources, wrappers>>

(* remove_dir_all: a link goes, not what it leads to. *)
Removed(gone) == members' = members \ gone /\ UNCHANGED sources

(* cleanup, when git has the entries `known`: the worktrees are removed through
   git, then the directory with what is left. *)
Cleanup(spec, known) ==
  LET mine(r) == {Path(spec, k) : k \in {j \in Worktrees(spec) :
                                            spec.members[j].source = r}}
      held == {m.path : m \in members}
      here == spec.id \in wrappers
  IN /\ entries' = [r \in Repositories |->
                      IF here /\ Inspected(r)
                      THEN known[r] \ (mine(r) \cap held) ELSE known[r]]
     /\ Removed(IF here THEN Under(spec.id) ELSE {})
     /\ wrappers' = wrappers \ {spec.id}
     /\ UNCHANGED branches

(* A member that cannot be prepared undoes the whole workspace; git has pruned
   the repository's entries if the member came as far as its worktree. *)
PrepareFails(spec, k) ==
  LET m == spec.members[k]
      asked == m.branch # Attached /\ Inspected(m.source)
  IN Cleanup(spec, IF asked /\ ~Occupied(Path(spec, k))
                   THEN [entries EXCEPT ![m.source] = Pruned(m.source)]
                   ELSE entries)

(* cleanup_path of what create returned: the one member, or the directory.
   Git is not told. *)
CleanupPath(spec) ==
  /\ IF Len(spec.members) = 1
     THEN /\ Removed({m \in Under(spec.id) :
                        /\ m.path = Path(spec, 1)
                        /\ m.kind = "link" => m.source \in sources})
          /\ UNCHANGED wrappers
     ELSE Removed(Under(spec.id)) /\ wrappers' = wrappers \ {spec.id}
  /\ UNCHANGED <<branches, entries>>

(* The user moves a source away, or puts it back. *)
Move(x) ==
  /\ sources' = IF x \in sources THEN sources \ {x} ELSE sources \cup {x}
  /\ UNCHANGED <<branches, entries, wrappers, members>>
=============================================================================
