--------------------------- MODULE MCSessionLaunch ---------------------------
(* An instance of SessionLaunch for TLC.  Each behaviour has a theme: every
   profile on every host; the life of a session while files and tools change and
   containers linger; workspaces and what requests leave of them. *)
EXTENDS SessionLaunch, TLC

VARIABLE theme

mcVars == <<vars, theme>>

NoAgents == [a \in Agents |-> "undefined"]
Defining(p) ==
  [agents |-> NoAgents,
   security |-> [default |-> "default",
                 profiles |-> ("default" :> Host) @@
                              [n \in ProfileNames |-> p]]]

NoNetwork == [Untrusted EXCEPT !.filesystem = "workspace_read_only"]
Pinned == [Untrusted EXCEPT !.network = "full", !.runtime = "docker"]
Withheld == [Host EXCEPT !.credentials = "none"]
ByDefault ==
  [default |-> "strict", profiles |-> [n \in ProfileNames |-> NoNetwork]]
Plain == Defining(Missing)
LifeFiles ==
  {Defining(NoNetwork), Defining(Pinned), Plain,
   [Defining(Withheld) EXCEPT !.agents = [a \in Agents |-> "resumes"]],
   [Defining(Host) EXCEPT !.agents = [a \in Agents |-> "blank"]],
   [agents |-> [a \in Agents |-> "fresh"], security |-> ByDefault]}
MCFiles ==
  {Defining(p) : p \in {q \in Profiles : q.approval = "agent"}} \cup LifeFiles

Has(platform, tools) == [platform |-> platform, installed |-> tools]
MCHosts ==
  {Has("linux", {}), Has("linux", {"podman", "docker"}),
   Has("linux", {"docker"}), Has("linux", {"firecracker", "podman"}),
   Has("macos", {"apple-container"}),
   Has("windows", {"wsl2"}), Has("other", {})}

Member(source, base, branch) ==
  [source |-> source, base |-> base, branch |-> branch]
Notes == [id |-> "notes", members |-> <<Member("docs", <<"docs">>, Attached)>>]
Work(list) == [id |-> "work", members |-> list]
MCWorkspaces ==
  {Notes, Work(<<Member("api", <<"api">>, "b1")>>),
   Work(<<Member("api", <<"api">>, "b2"),
          Member("api", <<"api">>, Attached)>>)}

Within ==
  /\ CASE theme = "policy" ->
            /\ UNCHANGED <<world, sources>> /\ Up'
            /\ containers \subseteq containers' /\ turns' < 2
       [] theme = "life" -> UNCHANGED sources
       [] theme = "disk" -> UNCHANGED world /\ containers' = {}
  /\ \A s \in Sessions : rows'[s] # Nothing =>
       /\ theme = "policy" => s = "s1" /\ rows'[s].agent = "default"
       /\ theme = "life" => s = "s1"
       /\ theme = "disk" =>
            /\ rows'[s].agent = "default" /\ rows'[s].name = "default"
            /\ rows'[s].spec # NoWorkspace
            /\ rows'[s].state = "running" => windows'[s] # Nothing
       /\ theme # "disk" => rows'[s].spec \in {NoWorkspace, Notes}
  /\ used' \in {{}, {"s1"}, {"s1", "s2"}, Sessions}   \* ids are counted up
  /\ theme # "disk" => used' \subseteq {"s1"}

MCNext == Next /\ UNCHANGED theme /\ Within

MCInit ==
  /\ Init /\ theme \in {"policy", "life", "disk"}
  /\ theme = "policy" => file \notin LifeFiles
  /\ theme = "life" => file \in LifeFiles /\ host.platform = "linux"
  /\ theme = "disk" => file = Plain /\ host = Has("linux", {})

MCSpec == MCInit /\ [][MCNext]_mcVars
=============================================================================
