--------------------------- MODULE SecurityProfile ---------------------------
(***************************************************************************)
(* What a session's agent may reach (crates/security): the profiles of the *)
(* security file, the check that refuses to load a promise the host cannot *)
(* keep, and the environment built for an agent.  Values only; the state   *)
(* is SessionLaunch's.  Persistence is left out: no code reads it.         *)
(***************************************************************************)
CONSTANTS
  ProfileNames, \* names a file may define
  Missing       \* stands for a profile the file does not define

ASSUME ProfileAssumption ==
  "default" \in ProfileNames /\ Missing \notin ProfileNames

Runtimes == {"podman", "apple-container", "docker"}  \* those with a backend

Profiles ==
  [sandbox : {"host", "container", "micro_vm"},
   runtime : Runtimes \cup {"unnamed", "firecracker"},
   image : BOOLEAN,                        \* whether one is named
   filesystem : {"host", "workspace", "workspace_read_only"},
   network : {"full", "none", "allowlist", "proxy_only"},
   credentials : {"ambient", "none", "files"},
   approval : {"agent", "anclave"}]

Host == [sandbox |-> "host", runtime |-> "unnamed", image |-> FALSE,
         filesystem |-> "host", network |-> "full", credentials |-> "ambient",
         approval |-> "agent"]
Untrusted == [sandbox |-> "container", runtime |-> "unnamed", image |-> TRUE,
              filesystem |-> "workspace", network |-> "none",
              credentials |-> "none", approval |-> "anclave"]

Contained(p) == p.sandbox # "host"

(* Credentials are not in the list: the environment is built, so they are
   withheld on the host as well. *)
Validates(p) ==
  IF Contained(p) THEN p.image ELSE p.network = "full" /\ p.filesystem = "host"

Caveats(p) ==
  (IF Contained(p) THEN {}
   ELSE {"host"} \cup
        (IF p.credentials = "ambient" THEN {} ELSE {"files on disk"}))
  \cup (IF p.approval = "agent" THEN {"agent approves"} ELSE {})

(* What a client is shown of profile p of name n. *)
Posture(n, p) ==
  [profile |-> n, contained |-> Contained(p), caveats |-> Caveats(p),
   summary |-> <<p.sandbox, p.network, p.credentials, p.approval>>]
Unresolved(n) == [Posture(n, Host) EXCEPT !.caveats = {"host"}]

(* A file: the name of its default profile and the profiles it defines. *)
SecurityFiles ==
  [default : ProfileNames, profiles : [ProfileNames -> Profiles \cup {Missing}]]
Parses(file) ==
  /\ file.profiles[file.default] # Missing
  /\ \A n \in ProfileNames :
       file.profiles[n] # Missing => Validates(file.profiles[n])

-----------------------------------------------------------------------------
(* environment.rs.  One variable stands for each class of names; the last is
   the session's identity, which the daemon itself may have inherited. *)
Variables == {"TERM", "PATH", "EDITOR", "GITHUB_TOKEN", "ANCLAVE_SESSION"}
Portable == {"TERM"}
HostEssential == {"PATH"}
Credential == {"GITHUB_TOKEN"}

Kept(p) ==
  IF p.credentials = "ambient" THEN Variables
  ELSE (Portable \cup (IF Contained(p) THEN {} ELSE HostEssential)) \ Credential

(* Identity last, so that nothing inherited shadows it. *)
BuildEnvironment(p, id) ==
  [v \in Kept(p) \cup {"ANCLAVE_SESSION"} |->
     IF v = "ANCLAVE_SESSION" THEN id ELSE "inherited"]
=============================================================================
