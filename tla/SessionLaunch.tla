---------------------------- MODULE SessionLaunch ----------------------------
(***************************************************************************)
(* How an agent comes to run (runtime.rs create, launch_under, restart,    *)
(* delete with main.rs): the daemon reads its agents and security files    *)
(* and probes the host once, and every launch resolves a profile, a        *)
(* workspace and a sandbox.  Files, tools and sources change meanwhile, a  *)
(* daemon dies anywhere, and a container may outlive the window it was     *)
(* started in.  Requests come one at a time and storage answers them: what *)
(* interleaving them and failing statements do is SessionLifecycle's       *)
(* subject, the approval of a delete ApprovalGate's.                       *)
(***************************************************************************)
EXTENDS SandboxRuntime, WorkspaceDisk

CONSTANTS
  Sessions,    \* session ids; none is used twice
  Agents,      \* agent names besides the built-in "default"
  Files,       \* configurations the files may hold: [security, agents]
  Edits,       \* those they are edited to
  Hosts,       \* what a host may offer: [platform, installed]
  Workspaces,  \* what clients ask for: [id, members]
  NoWorkspace, \* the session asks for none
  Nothing,     \* no row, no window, no container, no configuration
  MaxTurns     \* bound on launches

Rows == [state : {"starting", "running", "exited"}, name : ProfileNames,
         agent : Agents \cup {"default"}, spec : Workspaces \cup {NoWorkspace}]

ASSUME LaunchAssumption ==
  /\ Edits \subseteq Files
  /\ \A f \in Files :
       /\ f.security \in SecurityFiles
       /\ f.agents \in [Agents -> {"undefined", "blank", "fresh", "resumes"}]
  /\ \A w \in Workspaces :   \* none but those with members touch the disk
       /\ Len(w.members) \in Nat \ {0}
       /\ DOMAIN w.members = 1 .. Len(w.members)
  /\ Nothing \notin Rows
  /\ MaxTurns \in Nat

VARIABLES
  file,       \* the two files on disk
  host,       \* what the host offers
  config,     \* what the daemon read; Nothing: no daemon
  detected,   \* the runtime it found when it started
  rows,       \* rows[s]: [state, name, agent, spec]
  used,       \* ids handed out
  request,    \* the create or delete under way: [pc, s, spec, profile, member]
  windows,    \* windows[s]: what the agent in it may reach, the command, and
              \* the configuration and profile name it was launched from
  containers, \* containers running: [id, name, turn]
  refusal,    \* why the last workspace was refused
  turns       \* launches so far

world == <<file, host>>
vars == <<world, config, detected, rows, used, request, windows, containers,
          refusal, turns, diskVars>>

Idle == [pc |-> "idle", s |-> Nothing, spec |-> NoWorkspace, profile |-> Host,
         member |-> 0]

Init ==
  /\ file \in Files /\ host \in Hosts
  /\ config = Nothing /\ detected = "none"
  /\ rows = [s \in Sessions |-> Nothing] /\ used = {}
  /\ request = Idle
  /\ windows = [s \in Sessions |-> Nothing] /\ containers = {}
  /\ refusal = "none" /\ turns = 0
  /\ DiskInit

Up == config # Nothing
Free == Up /\ request.pc = "idle"
Turn == turns < MaxTurns /\ turns' = turns + 1

-----------------------------------------------------------------------------
(* agent.rs *)

LoadsAgents(agents) == \A a \in Agents : agents[a] # "blank"
Known(a) == a # "default" => config.agents[a] # "undefined"
Command(a, again) ==
  IF a # "default" /\ again /\ config.agents[a] = "resumes" THEN "resume"
  ELSE "launch"

-----------------------------------------------------------------------------
(* The daemon's life *)

(* run: a file that cannot be honored stops the daemon before it serves.
   recover_sessions believes the windows. *)
Start ==
  /\ ~Up /\ Parses(file.security) /\ LoadsAgents(file.agents)
  /\ config' = file
  /\ detected' = Recommend(host)
  /\ rows' = [s \in Sessions |->
               IF rows[s] = Nothing THEN Nothing
               ELSE [rows[s] EXCEPT !.state = IF windows[s] = Nothing
                                              THEN "exited" ELSE "running"]]
  /\ UNCHANGED <<world, used, request, windows, containers, refusal, turns,
                 diskVars>>

Stop ==
  /\ Up
  /\ config' = Nothing /\ request' = Idle
  /\ UNCHANGED <<world, detected, rows, used, windows, containers, refusal,
                 turns, diskVars>>

(* reconcile_states *)
Poll ==
  /\ Up
  /\ \E s \in Sessions : rows[s] # Nothing /\ rows[s].state = "running"
                         /\ windows[s] = Nothing
  /\ rows' = [s \in Sessions |->
               IF rows[s] # Nothing /\ rows[s].state = "running"
                  /\ windows[s] = Nothing
               THEN [rows[s] EXCEPT !.state = "exited"] ELSE rows[s]]
  /\ UNCHANGED <<world, config, detected, used, request, windows, containers,
                 refusal, turns, diskVars>>

-----------------------------------------------------------------------------
(* Launching *)

(* posture: the profile of that name, Missing if it is unknown. *)
Resolve(requested) ==
  config.security.profiles[IF requested = Missing THEN config.security.default
                           ELSE requested]

(* launch_under: `there`, whether the session has a workspace and it exists.
   On the host an ambient agent inherits the environment as it is; any other is
   started through env -i. *)
LaunchUnder(p, s, there) ==
  LET r == ForProfile(p, detected)
      handle == IF r = Refused THEN Refused ELSE Prepare(r, p, there)
  IN IF ~Contained(p)
     THEN [runtime |-> "host", network |-> "full", files |-> "host",
           environment |-> IF p.credentials = "ambient"
                           THEN [v \in Variables |-> "inherited"]
                           ELSE BuildEnvironment(p, s)]
     ELSE IF handle = Refused THEN Refused
     ELSE Wrap(r, handle, BuildEnvironment(p, s))

(* The window, and the container its command runs, when `left` are running.
   While the name is taken the runtime refuses, the command ends, and the window
   with it. *)
Open(s, reach, command, left) ==
  LET contained == reach.runtime # "host"
      name == ContainerName(s, turns)
      taken == contained /\ \E c \in left : c.name = name
  IN /\ windows' = [windows EXCEPT ![s] =
                      IF taken THEN Nothing
                      ELSE [reach |-> reach, command |-> command,
                            config |-> config, name |-> rows[s].name]]
     /\ containers' = IF taken \/ ~contained THEN left
                      ELSE left \cup {[id |-> s, name |-> name, turn |-> turns]}

(* Killing a window hangs up its terminal; whether the container ends with it is
   the runtime's affair.  Nothing calls Sandbox::destroy. *)
Left(s) == {containers, {c \in containers : c.id # s}}

-----------------------------------------------------------------------------
(* create *)

CreateBegin(s, requested, agent, spec) ==
  /\ Free /\ s \notin used
  /\ used' = used \cup {s}
  /\ IF Known(agent) /\ Resolve(requested) # Missing
     THEN /\ rows' = [rows EXCEPT ![s] =
                        [state |-> "starting", agent |-> agent, spec |-> spec,
                         name |-> IF requested = Missing
                                  THEN config.security.default ELSE requested]]
          /\ request' =
               [pc |-> IF spec = NoWorkspace THEN "launch" ELSE "members",
                s |-> s, spec |-> spec, profile |-> Resolve(requested),
                member |-> 1]
          /\ IF spec = NoWorkspace THEN UNCHANGED diskVars
             ELSE MakeWrapper(spec)
     ELSE UNCHANGED <<rows, request, diskVars>>
  /\ UNCHANGED <<world, config, detected, windows, containers, refusal, turns>>

Serving(pc) == Up /\ request.pc = pc
RollbackCreate ==
  /\ rows' = [rows EXCEPT ![request.s] = Nothing]
  /\ request' = Idle
  /\ UNCHANGED <<world, config, detected, used, windows, containers, turns>>

Prepare1 ==
  LET spec == request.spec IN
  /\ Serving("members")
  /\ Obstacle(spec, request.member) = "none"
  /\ PrepareMember(spec, request.member)
  /\ request' = IF request.member = Len(spec.members)
                THEN [request EXCEPT !.pc = "launch"]
                ELSE [request EXCEPT !.member = @ + 1]
  /\ UNCHANGED <<world, config, detected, rows, used, windows, containers,
                 refusal, turns>>

Prepare1Fails ==
  LET spec == request.spec IN
  /\ Serving("members")
  /\ refusal' = Obstacle(spec, request.member)
  /\ PrepareFails(spec, request.member)
  /\ RollbackCreate

(* What create passes on is the path of its workspace, which exists. *)
Launch ==
  LET s == request.s
      reach == LaunchUnder(request.profile, s, request.spec # NoWorkspace)
  IN /\ Serving("launch") /\ Turn
     /\ reach # Refused
     /\ Open(s, reach, Command(rows[s].agent, FALSE), containers)
     /\ rows' = [rows EXCEPT ![s].state = "running"]
     /\ request' = Idle
     /\ UNCHANGED <<world, config, detected, used, refusal, diskVars>>

LaunchFailsMutant ==               \* rolls the row back and nothing else
  /\ Serving("launch")
  /\ RollbackCreate
  /\ UNCHANGED <<refusal, diskVars>>

(* Refused by the sandbox, or by the backend. *)
LaunchFails ==
  /\ Serving("launch")
  /\ IF request.spec = NoWorkspace THEN UNCHANGED diskVars
     ELSE CleanupPath(request.spec)
  /\ RollbackCreate
  /\ UNCHANGED refusal

-----------------------------------------------------------------------------
(* restart, delete *)

(* Under profile p, in the directory of the workspace.  A refusal comes before
   the kill and leaves the agent alone. *)
RestartUnder(s, p) ==
  LET spec == rows[s].spec
      there == spec # NoWorkspace /\ spec.id \in wrappers
      reach == LaunchUnder(p, s, there)
  IN /\ Free /\ rows[s] # Nothing /\ Known(rows[s].agent) /\ Turn
     /\ p # Missing
     /\ reach # Refused
     /\ \E left \in Left(s) : Open(s, reach, Command(rows[s].agent, TRUE), left)
     /\ rows' = [rows EXCEPT ![s].state = "running"]
     /\ UNCHANGED <<world, config, detected, used, request, refusal, diskVars>>

RestartMutant(s) == RestartUnder(s, Resolve(Missing))    \* today's default

(* The stored profile, as the configuration has it now. *)
Restart(s) == RestartUnder(s, Resolve(rows[s].name))

(* The row goes first; a daemon that dies before the rest leaves it undone. *)
DeleteBegin(s) ==
  /\ Free /\ rows[s] # Nothing
  /\ rows' = [rows EXCEPT ![s] = Nothing]
  /\ request' = [Idle EXCEPT !.pc = "delete", !.s = s, !.spec = rows[s].spec]
  /\ UNCHANGED <<world, config, detected, used, windows, containers, refusal,
                 turns, diskVars>>

DeleteEnd ==
  /\ Serving("delete")
  /\ IF request.spec = NoWorkspace THEN UNCHANGED diskVars
     ELSE Cleanup(request.spec, entries)
  /\ windows' = [windows EXCEPT ![request.s] = Nothing]
  /\ containers' \in Left(request.s)
  /\ request' = Idle
  /\ UNCHANGED <<world, config, detected, rows, used, refusal, turns>>

-----------------------------------------------------------------------------
(* Everything else *)

Elsewhere == UNCHANGED <<config, detected, rows, used, request, refusal, turns>>

EditFile ==
  /\ \E f \in Edits \ {file} : file' = f
  /\ Elsewhere /\ UNCHANGED <<host, windows, containers, diskVars>>

Install ==
  /\ \E h \in Hosts \ {host} : h.platform = host.platform /\ host' = h
  /\ Elsewhere /\ UNCHANGED <<file, windows, containers, diskVars>>

AgentExits(s) ==
  /\ windows[s] # Nothing
  /\ windows' = [windows EXCEPT ![s] = Nothing]
  /\ containers' \in Left(s)
  /\ Elsewhere /\ UNCHANGED <<world, diskVars>>

ContainerEnds(c) ==
  /\ windows[c.id] # Nothing => windows[c.id].reach.runtime = "host"
  /\ containers' = containers \ {c}
  /\ Elsewhere /\ UNCHANGED <<world, windows, diskVars>>

MoveSource(x) ==
  /\ Move(x)
  /\ Elsewhere /\ UNCHANGED <<world, windows, containers>>

Requests ==
  \/ \E s \in Sessions :
       \/ \E n \in ProfileNames \cup {Missing}, a \in Agents \cup {"default"},
             w \in Workspaces \cup {NoWorkspace} : CreateBegin(s, n, a, w)
       \/ Restart(s)
       \/ DeleteBegin(s)
  \/ Prepare1 \/ Prepare1Fails \/ Launch \/ LaunchFails \/ DeleteEnd

Next ==
  \/ Requests
  \/ Start \/ Stop \/ Poll
  \/ EditFile \/ Install
  \/ \E s \in Sessions : AgentExits(s)
  \/ \E c \in containers : ContainerEnds(c)
  \/ \E x \in Repositories \cup Directories : MoveSource(x)

Spec == Init /\ [][Next]_vars

-----------------------------------------------------------------------------
(* Properties *)

(* The profile session s is stored under, as it was at its agent's launch. *)
Declared(s) == windows[s].config.security.profiles[windows[s].name]

(* What profile p asks of what an agent reaches. *)
Honors(reach, p) ==
  /\ Contained(p) <=> reach.runtime # "host"
  /\ Contained(p) /\ p.runtime # "unnamed" => reach.runtime = p.runtime
  /\ p.network # "full" => p.network = "none" /\ reach.network = "none"
  /\ p.filesystem # "host" => reach.files = p.filesystem
  /\ p.credentials # "ambient" =>
       /\ DOMAIN reach.environment \cap Credential = {}
       /\ Contained(p) => DOMAIN reach.environment \subseteq
                             Portable \cup {"ANCLAVE_SESSION"}

(* Whatever the profile, the host and the order of create, edits, daemon and
   session restarts: an agent runs under what its session's profile declared at
   its launch, or it does not run.  Nothing is weakened to fit the host.
   A micro_vm is honored here by any runtime, as in the code. *)
LaunchHonorsProfile ==
  \A s \in Sessions : windows[s] # Nothing =>
    /\ rows[s] # Nothing => windows[s].name = rows[s].name
    /\ Honors(windows[s].reach, Declared(s))

(* What a read of the session answers. *)
Reported(s) ==
  LET p == Resolve(rows[s].name)
  IN IF p = Missing THEN Unresolved(rows[s].name) ELSE Posture(rows[s].name, p)

(* The posture read of a session with an agent is the agent's, though no row
   stores it: unless the file has redefined the profile since the launch. *)
PostureTrue ==
  \A s \in Sessions :
    (/\ Up /\ rows[s] # Nothing /\ windows[s] # Nothing
     /\ Declared(s) = Resolve(rows[s].name)) =>
      LET reach == windows[s].reach IN
      /\ Reported(s).contained <=> reach.runtime # "host"
      /\ "host" \in Reported(s).caveats <=> reach.files = "host"
      /\ Reported(s).summary[2] = reach.network

(* Two containers never work in one session's workspace: a container that
   outlives its window keeps the next one from starting. *)
OneContainer == \A c, d \in containers : c.id = d.id => c = d

(* A create is never refused for what an earlier one left in git: not for the
   entry of a worktree that went without git being told. *)
NoStaleEntry == refusal # "entry exists"

(* A member belongs to whoever asked for one at its path: a session that is
   listed, or the request at work. *)
Wanted(spec, m) ==
  spec # NoWorkspace /\ \E k \in DOMAIN spec.members : Path(spec, k) = m.path
Owned(m) ==
  \/ \E s \in Sessions : rows[s] # Nothing /\ Wanted(rows[s].spec, m)
  \/ Wanted(request.spec, m)

(* No checkout and no link is left to nobody, whichever member or step of a
   create fails, wherever the daemon dies in it and whoever shares the directory:
   but by a daemon that dies in a delete after the row, and, of one member, the
   link whose source had moved away when its launch failed. *)
MembersOwned ==
  [][\A m \in members' : (m \in members => Owned(m)) =>
       \/ Owned(m)'
       \/ request.pc = "delete" /\ ~Up'
       \/ m.kind = "link" /\ m.source \notin sources]_vars
=============================================================================
