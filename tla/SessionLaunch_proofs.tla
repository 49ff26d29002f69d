------------------------ MODULE SessionLaunch_proofs ------------------------
(***************************************************************************)
(* Proofs about SessionLaunch for any profiles, files, hosts, sessions,    *)
(* workspaces and order of requests, edits, stops and starts.              *)
(*                                                                         *)
(* The argument: whatever LaunchUnder does not refuse honors the profile   *)
(* it was given (LaunchHonors), every launch is given the profile its row  *)
(* names in the configuration of that moment (LaunchInv), and no step      *)
(* changes the name in a row, or what a window was launched with.          *)
(***************************************************************************)
EXTENDS SessionLaunch, TLAPS

-----------------------------------------------------------------------------
(* What a profile that loads makes of a launch. *)

LEMMA EnvironmentBuilt ==
  ASSUME NEW p \in Profiles, NEW id, p.credentials # "ambient"
  PROVE  /\ DOMAIN BuildEnvironment(p, id) \cap Credential = {}
         /\ Contained(p) => DOMAIN BuildEnvironment(p, id) \subseteq
                               Portable \cup {"ANCLAVE_SESSION"}
BY DEF BuildEnvironment, Kept, Credential, Portable, HostEssential

(* What an agent reaches under profile p, which PostureTrue asks as well. *)
Faithful(reach, p) ==
  /\ Honors(reach, p)
  /\ reach.network = p.network
  /\ reach.files = "host" <=> ~Contained(p)

LEMMA LaunchHonors ==
  ASSUME NEW p \in Profiles, Validates(p), NEW s, NEW there \in BOOLEAN,
         LaunchUnder(p, s, there) # Refused
  PROVE  Faithful(LaunchUnder(p, s, there), p)
<1> DEFINE reach == LaunchUnder(p, s, there)
           r == ForProfile(p, detected)
           handle == IF r = Refused THEN Refused ELSE Prepare(r, p, there)
<1>1. CASE ~Contained(p)
  <2>1. reach = [runtime |-> "host", network |-> "full", files |-> "host",
                 environment |-> IF p.credentials = "ambient"
                                 THEN [v \in Variables |-> "inherited"]
                                 ELSE BuildEnvironment(p, s)]
    BY <1>1 DEF LaunchUnder
  <2>2. p.network = "full" /\ p.filesystem = "host"
    BY <1>1 DEF Validates
  <2>3. p.credentials # "ambient" =>
          DOMAIN reach.environment \cap Credential = {}
    BY <2>1, EnvironmentBuilt
  <2> QED BY <1>1, <2>1, <2>2, <2>3 DEF Faithful, Honors
<1>2. CASE Contained(p)
  <2>1. handle # Refused /\ reach = Wrap(r, handle, BuildEnvironment(p, s))
    BY <1>2 DEF LaunchUnder
  <2>2. /\ r # Refused
        /\ CanHonor(r, p.network)
        /\ handle = [network |-> p.network,
                     writable |-> p.filesystem # "workspace_read_only"]
    BY <2>1 DEF Prepare
  <2>3. /\ r \in Runtimes
        /\ p.runtime # "unnamed" => r = p.runtime
    BY <1>2, <2>2 DEF ForProfile
  <2>4. /\ p.network = "full" \/ p.network = "none"
        /\ p.network = "none" => NetworkIsolation(r)
    BY <2>2 DEF CanHonor
  <2>5. /\ reach.runtime = r
        /\ reach.network = p.network
        /\ reach.files = IF p.filesystem # "workspace_read_only"
                         THEN "workspace" ELSE "workspace_read_only"
        /\ reach.environment = BuildEnvironment(p, s)
    <3> DEFINE e == BuildEnvironment(p, s)
    <3> HIDE DEF r, handle, e
    <3>1. Wrap(r, handle, e) =
            [runtime |-> r,
             network |-> IF p.network = "none" /\ NetworkIsolation(r)
                         THEN "none" ELSE "full",
             files |-> IF p.filesystem # "workspace_read_only"
                       THEN "workspace" ELSE "workspace_read_only",
             environment |-> e]
      BY <2>2 DEF Wrap
    <3>2. reach = Wrap(r, handle, e)
      BY <2>1 DEF e
    <3> HIDE DEF reach
    <3>3. /\ reach.runtime = r
          /\ reach.network = p.network
          /\ reach.files = IF p.filesystem # "workspace_read_only"
                           THEN "workspace" ELSE "workspace_read_only"
          /\ reach.environment = e
      BY <2>4, <3>1, <3>2
    <3> QED BY <3>3 DEF e
  <2>6. p.filesystem # "host" => reach.files = p.filesystem
    BY <2>5 DEF Profiles
  <2>7. r # "host" /\ reach.files # "host"
    BY <2>3, <2>5 DEF Runtimes
  <2>8. p.credentials # "ambient" =>
          /\ DOMAIN reach.environment \cap Credential = {}
          /\ DOMAIN reach.environment \subseteq Portable \cup {"ANCLAVE_SESSION"}
    BY <1>2, <2>5, EnvironmentBuilt
  <2> QED BY <1>2, <2>3, <2>4, <2>5, <2>6, <2>7, <2>8 DEF Faithful, Honors
<1> QED BY <1>1, <1>2

-----------------------------------------------------------------------------
(* The invariant. *)

RequestRecords ==
  [pc : {"idle", "members", "launch", "delete"}, s : Sessions \cup {Nothing},
   spec : Workspaces \cup {NoWorkspace}, profile : Profiles \cup {Missing},
   member : Nat]

LaunchType ==
  /\ file \in Files
  /\ Up => config \in Files /\ Parses(config.security)
  /\ rows \in [Sessions -> Rows \cup {Nothing}]
  /\ windows = [s \in Sessions |-> windows[s]]
  /\ request \in RequestRecords

(* A create under way works for a session that has a row and no window, under
   the profile the row names; between its steps the daemon reads no file. *)
RequestInv ==
  request.pc # "idle" =>
    /\ Up
    /\ request.s \in Sessions
    /\ request.pc # "delete" =>
         /\ rows[request.s] # Nothing
         /\ rows[request.s].spec = request.spec
         /\ windows[request.s] = Nothing
         /\ request.profile = Resolve(rows[request.s].name)
         /\ request.profile # Missing

Covered(s) ==
  windows[s] # Nothing =>
    /\ rows[s] # Nothing => windows[s].name = rows[s].name
    /\ Declared(s) \in Profiles \ {Missing}
    /\ Faithful(windows[s].reach, Declared(s))

LaunchInv ==
  /\ LaunchType
  /\ RequestInv
  /\ \A s \in Sessions : rows[s] # Nothing \/ windows[s] # Nothing => s \in used
  /\ \A s \in Sessions : Covered(s)

(* A profile a daemon resolves by name is one that loaded. *)
LEMMA Resolved ==
  ASSUME LaunchType, Up, NEW n \in ProfileNames, Resolve(n) # Missing
  PROVE  /\ Resolve(n) = config.security.profiles[n]
         /\ Resolve(n) \in Profiles \ {Missing}
         /\ Validates(Resolve(n))
<1>1. config.security \in SecurityFiles /\ Parses(config.security)
  BY LaunchAssumption DEF LaunchType
<1>2. Resolve(n) = config.security.profiles[n]
  BY ProfileAssumption DEF Resolve
<1>3. config.security.profiles[n] \in Profiles \cup {Missing}
  BY <1>1 DEF SecurityFiles
<1> QED BY <1>1, <1>2, <1>3 DEF Parses

(* The default profile is one of those names. *)
LEMMA DefaultNamed ==
  ASSUME LaunchType, Up
  PROVE  /\ config.security.default \in ProfileNames
         /\ Resolve(Missing) = Resolve(config.security.default)
<1>1. config.security \in SecurityFiles
  BY LaunchAssumption DEF LaunchType
<1> QED BY <1>1, ProfileAssumption DEF SecurityFiles, Resolve

(* A step that leaves the window of a session alone, or takes it away, and keeps
   the name in its row, keeps it covered. *)
LEMMA StaysCovered ==
  ASSUME NEW s \in Sessions, Covered(s),
         windows'[s] \in {windows[s], Nothing},
         windows'[s] # Nothing /\ rows'[s] # Nothing =>
           rows[s] # Nothing /\ rows'[s].name = rows[s].name
  PROVE  Covered(s)'
BY DEF Covered, Declared

(* A launch under the profile its row names covers its session. *)
LEMMA OpenCovers ==
  ASSUME LaunchType, Up, NEW s \in Sessions, rows[s] # Nothing,
         NEW there \in BOOLEAN, NEW command, NEW left,
         Resolve(rows[s].name) # Missing,
         LaunchUnder(Resolve(rows[s].name), s, there) # Refused,
         Open(s, LaunchUnder(Resolve(rows[s].name), s, there), command, left),
         rows' = [rows EXCEPT ![s].state = "running"]
  PROVE  /\ rows' \in [Sessions -> Rows \cup {Nothing}]
         /\ \A x \in Sessions : rows'[x] # Nothing <=> rows[x] # Nothing
         /\ windows' = [x \in Sessions |-> windows'[x]]
         /\ \A x \in Sessions \ {s} :
              rows'[x] = rows[x] /\ windows'[x] = windows[x]
         /\ Covered(s)'
<1> DEFINE p == Resolve(rows[s].name)
           reach == LaunchUnder(p, s, there)
<1>1. rows[s] \in Rows
  BY DEF LaunchType
<1>2. /\ p = config.security.profiles[rows[s].name]
      /\ p \in Profiles \ {Missing}
      /\ Validates(p)
  BY <1>1, Resolved DEF Rows
<1>3. Faithful(reach, p)
  BY <1>2, LaunchHonors
<1>4. rows'[s] \in Rows /\ rows'[s].name = rows[s].name
  BY <1>1 DEF Rows, LaunchType
<1>5. rows' \in [Sessions -> Rows \cup {Nothing}] /\ rows'[s] # Nothing
  BY <1>4, LaunchAssumption DEF LaunchType
<1>6. \A x \in Sessions \ {s} : rows'[x] = rows[x]
  BY DEF LaunchType
<1> HIDE DEF p, reach
<1>7. Open(s, reach, command, left)
  BY DEF p, reach
<1>8. /\ windows' = [x \in Sessions |-> windows'[x]]
      /\ \A x \in Sessions \ {s} : windows'[x] = windows[x]
      /\ windows'[s] # Nothing =>
           /\ windows'[s].reach = reach /\ windows'[s].config = config
           /\ windows'[s].name = rows[s].name
  BY <1>7 DEF Open, LaunchType
<1>9. Covered(s)'
  BY <1>2, <1>3, <1>4, <1>5, <1>8 DEF Covered, Declared
<1> QED BY <1>5, <1>6, <1>8, <1>9

-----------------------------------------------------------------------------
(* LaunchInv is inductive. *)

LEMMA InitLaunch == Init => LaunchInv
BY DEF Init, LaunchInv, LaunchType, RequestInv, Covered, Up, Idle,
       RequestRecords, Host, Profiles

LEMMA DaemonSteps ==
  ASSUME LaunchInv, Start \/ Stop \/ Poll
  PROVE  LaunchInv'
<1>1. CASE Start
  <2>1. request.pc = "idle" /\ request' = request
    BY <1>1 DEF Start, LaunchInv, RequestInv
  <2>2. LaunchType'
    <3>1. rows' \in [Sessions -> Rows \cup {Nothing}]
      BY <1>1 DEF Start, LaunchInv, LaunchType, Rows
    <3> QED BY <1>1, <3>1 DEF Start, LaunchInv, LaunchType, Up, world
  <2>3. \A x \in Sessions :
          (rows'[x] # Nothing <=> rows[x] # Nothing)
          /\ (rows[x] # Nothing => rows'[x].name = rows[x].name)
    BY <1>1, LaunchAssumption DEF Start, LaunchInv, LaunchType, Rows
  <2>4. ASSUME NEW x \in Sessions PROVE Covered(x)'
    BY <1>1, <2>3, StaysCovered DEF Start, LaunchInv
  <2> QED BY <1>1, <2>1, <2>2, <2>3, <2>4 DEF Start, LaunchInv, RequestInv
<1>2. CASE Stop
  <2>1. LaunchType'
    BY <1>2 DEF Stop, LaunchInv, LaunchType, Up, world, Idle, RequestRecords,
                Host, Profiles
  <2>2. ASSUME NEW x \in Sessions PROVE Covered(x)'
    BY <1>2, StaysCovered DEF Stop, LaunchInv
  <2> QED BY <1>2, <2>1, <2>2 DEF Stop, LaunchInv, RequestInv, Idle
<1>3. CASE Poll
  <2>1. LaunchType'
    <3>1. rows' \in [Sessions -> Rows \cup {Nothing}]
      BY <1>3 DEF Poll, LaunchInv, LaunchType, Rows
    <3> QED BY <1>3, <3>1 DEF Poll, LaunchInv, LaunchType, Up, world
  <2>2. \A x \in Sessions :
          (rows'[x] # Nothing <=> rows[x] # Nothing)
          /\ (rows[x] # Nothing => rows'[x].name = rows[x].name)
    BY <1>3, LaunchAssumption DEF Poll, LaunchInv, LaunchType, Rows
  <2>3. ASSUME NEW x \in Sessions PROVE Covered(x)'
    BY <1>3, <2>2, StaysCovered DEF Poll, LaunchInv
  <2>4. RequestInv'
    BY <1>3, <2>2 DEF Poll, LaunchInv, RequestInv, Up, Resolve
  <2> QED BY <1>3, <2>1, <2>2, <2>3, <2>4 DEF Poll, LaunchInv
<1> QED BY <1>1, <1>2, <1>3

(* A create whose profile or agent is unknown only uses an id up. *)
LEMMA CreateBeginStep ==
  ASSUME LaunchInv, NEW s \in Sessions, NEW n \in ProfileNames \cup {Missing},
         NEW a \in Agents \cup {"default"},
         NEW w \in Workspaces \cup {NoWorkspace}, CreateBegin(s, n, a, w)
  PROVE  LaunchInv'
<1>0. /\ Up /\ Up' /\ request.pc = "idle" /\ s \notin used
      /\ rows[s] = Nothing /\ windows[s] = Nothing
      /\ config' = config /\ windows' = windows /\ file' = file
      /\ used' = used \cup {s}
  BY DEF CreateBegin, Free, Up, world, LaunchInv, Covered
<1>1. CASE ~(Known(a) /\ Resolve(n) # Missing)
  <2>1. rows' = rows /\ request' = request
    BY <1>1 DEF CreateBegin
  <2>2. ASSUME NEW x \in Sessions PROVE Covered(x)'
    BY <1>0, <2>1, StaysCovered DEF LaunchInv
  <2> QED BY <1>0, <2>1, <2>2 DEF LaunchInv, LaunchType, RequestInv, Up
<1>2. CASE Known(a) /\ Resolve(n) # Missing
  <2> DEFINE name == IF n = Missing THEN config.security.default ELSE n
             row == [state |-> "starting", agent |-> a, spec |-> w, name |-> name]
  <2>1. /\ rows' = [rows EXCEPT ![s] = row]
        /\ request' = [pc |-> IF w = NoWorkspace THEN "launch" ELSE "members",
                       s |-> s, spec |-> w, profile |-> Resolve(n), member |-> 1]
    BY <1>2 DEF CreateBegin
  <2>2. name \in ProfileNames /\ Resolve(n) = Resolve(name)
    BY <1>0, DefaultNamed DEF LaunchInv
  <2>3. Resolve(n) \in Profiles
    BY <1>0, <1>2, <2>2, Resolved DEF LaunchInv
  <2> HIDE DEF name
  <2>4. row \in Rows /\ row # Nothing
    BY <2>2, LaunchAssumption DEF Rows
  <2>5. LaunchType'
    BY <1>0, <2>1, <2>3, <2>4 DEF LaunchInv, LaunchType, RequestRecords, Up
  <2>6. rows'[s] = row /\ row.name = name
    BY <2>1 DEF LaunchInv, LaunchType
  <2>7. Resolve(name)' = Resolve(name)
    BY <1>0 DEF Resolve, name
  <2>8. RequestInv'
    BY <1>0, <1>2, <2>1, <2>2, <2>4, <2>6, <2>7 DEF RequestInv, Resolve
  <2>9. \A x \in Sessions \ {s} : rows'[x] = rows[x]
    BY <2>1 DEF LaunchInv, LaunchType
  <2>10. ASSUME NEW x \in Sessions PROVE Covered(x)'
    BY <1>0, <2>9, StaysCovered DEF LaunchInv, Covered
  <2> QED BY <1>0, <2>5, <2>8, <2>9, <2>10 DEF LaunchInv
<1> QED BY <1>1, <1>2

LEMMA CreateSteps ==
  ASSUME LaunchInv, Prepare1 \/ Prepare1Fails \/ LaunchFails
  PROVE  LaunchInv'
<1>1. CASE Prepare1
  <2>1. /\ rows' = rows /\ windows' = windows /\ config' = config
        /\ file' = file /\ used' = used /\ request.pc = "members"
    BY <1>1 DEF Prepare1, world, Serving
  <2>2. /\ request' \in RequestRecords
        /\ request'.s = request.s /\ request'.profile = request.profile
        /\ request'.spec = request.spec /\ request'.pc \in {"members", "launch"}
    BY <2>1, <1>1 DEF Prepare1, LaunchInv, LaunchType, RequestRecords
  <2>3. LaunchType' /\ RequestInv'
    BY <2>1, <2>2 DEF LaunchInv, LaunchType, RequestInv, Up, Resolve
  <2>4. ASSUME NEW x \in Sessions PROVE Covered(x)'
    BY <2>1, StaysCovered DEF LaunchInv
  <2> QED BY <2>1, <2>3, <2>4 DEF LaunchInv
<1>2. CASE Prepare1Fails \/ LaunchFails
  <2>1. /\ Up /\ request.pc \in {"members", "launch"} /\ RollbackCreate
    BY <1>2 DEF Prepare1Fails, LaunchFails, Serving
  <2>2. /\ rows' = [rows EXCEPT ![request.s] = Nothing]
        /\ windows' = windows /\ config' = config /\ file' = file
        /\ used' = used /\ request' = Idle
        /\ request.s \in Sessions /\ windows[request.s] = Nothing
    BY <2>1 DEF RollbackCreate, world, LaunchInv, RequestInv
  <2>3. LaunchType'
    BY <2>2 DEF LaunchInv, LaunchType, Up, Idle, RequestRecords, Host, Profiles
  <2>4. rows'[request.s] = Nothing
        /\ \A x \in Sessions \ {request.s} : rows'[x] = rows[x]
    BY <2>2 DEF LaunchInv, LaunchType
  <2>5. ASSUME NEW x \in Sessions PROVE Covered(x)'
    BY <2>2, <2>4, StaysCovered DEF LaunchInv
  <2> QED BY <2>2, <2>3, <2>4, <2>5 DEF LaunchInv, RequestInv, Idle
<1> QED BY <1>1, <1>2

LEMMA LaunchStep == ASSUME LaunchInv, Launch PROVE LaunchInv'
<1>s. PICK s \in Sessions : s = request.s
  BY DEF Launch, Serving, LaunchInv, RequestInv
<1> DEFINE there == request.spec # NoWorkspace
           p == Resolve(rows[s].name)
<1>1. /\ Up /\ rows[s] # Nothing
      /\ p # Missing /\ request.profile = p
  BY <1>s DEF Launch, Serving, LaunchInv, RequestInv
<1>2. /\ LaunchUnder(p, s, there) # Refused
      /\ Open(s, LaunchUnder(p, s, there), Command(rows[s].agent, FALSE),
              containers)
      /\ rows' = [rows EXCEPT ![s].state = "running"]
      /\ request' = Idle /\ config' = config /\ file' = file /\ used' = used
  BY <1>s, <1>1 DEF Launch, world
<1>3. /\ rows' \in [Sessions -> Rows \cup {Nothing}]
      /\ \A x \in Sessions : rows'[x] # Nothing <=> rows[x] # Nothing
      /\ windows' = [x \in Sessions |-> windows'[x]]
      /\ \A x \in Sessions \ {s} :
           rows'[x] = rows[x] /\ windows'[x] = windows[x]
      /\ Covered(s)'
  <2>1. there \in BOOLEAN /\ LaunchType
    BY DEF LaunchInv
  <2> HIDE DEF there
  <2> QED BY <1>1, <1>2, <2>1, OpenCovers
<1>4. LaunchType'
  BY <1>2, <1>3 DEF LaunchInv, LaunchType, Up, Idle, RequestRecords, Host,
                    Profiles
<1>5. ASSUME NEW x \in Sessions PROVE Covered(x)'
  BY <1>3, StaysCovered DEF LaunchInv
<1> QED BY <1>1, <1>2, <1>3, <1>4, <1>5 DEF LaunchInv, RequestInv, Idle

LEMMA RestartStep ==
  ASSUME LaunchInv, NEW s \in Sessions, Restart(s)
  PROVE  LaunchInv'
<1> DEFINE there == rows[s].spec # NoWorkspace /\ rows[s].spec.id \in wrappers
           p == Resolve(rows[s].name)
<1>1. PICK left \in Left(s) :
        Open(s, LaunchUnder(p, s, there), Command(rows[s].agent, TRUE), left)
  BY DEF Restart, RestartUnder
<1>2. /\ Up /\ request.pc = "idle" /\ rows[s] # Nothing
      /\ p # Missing /\ LaunchUnder(p, s, there) # Refused
      /\ rows' = [rows EXCEPT ![s].state = "running"]
      /\ request' = request /\ config' = config /\ file' = file /\ used' = used
  BY DEF Restart, RestartUnder, Free, world
<1>3. /\ rows' \in [Sessions -> Rows \cup {Nothing}]
      /\ \A x \in Sessions : rows'[x] # Nothing <=> rows[x] # Nothing
      /\ windows' = [x \in Sessions |-> windows'[x]]
      /\ \A x \in Sessions \ {s} :
           rows'[x] = rows[x] /\ windows'[x] = windows[x]
      /\ Covered(s)'
  <2>1. there \in BOOLEAN /\ LaunchType
    BY DEF LaunchInv
  <2> HIDE DEF there
  <2> QED BY <1>1, <1>2, <2>1, OpenCovers
<1>4. LaunchType'
  BY <1>2, <1>3 DEF LaunchInv, LaunchType, Up
<1>5. ASSUME NEW x \in Sessions PROVE Covered(x)'
  BY <1>3, StaysCovered DEF LaunchInv
<1> QED BY <1>2, <1>3, <1>4, <1>5 DEF LaunchInv, RequestInv

LEMMA DeleteSteps ==
  ASSUME LaunchInv, DeleteEnd \/ \E s \in Sessions : DeleteBegin(s)
  PROVE  LaunchInv'
<1>1. ASSUME NEW s \in Sessions, DeleteBegin(s) PROVE LaunchInv'
  <2>1. /\ Up /\ rows' = [rows EXCEPT ![s] = Nothing]
        /\ request' = [Idle EXCEPT !.pc = "delete", !.s = s, !.spec = rows[s].spec]
        /\ windows' = windows /\ config' = config /\ file' = file /\ used' = used
        /\ rows[s] # Nothing
    BY <1>1 DEF DeleteBegin, Free, world
  <2>2. request' \in RequestRecords /\ request'.pc = "delete" /\ request'.s = s
    BY <2>1 DEF LaunchInv, LaunchType, Rows, Idle, RequestRecords, Host, Profiles
  <2>3. LaunchType'
    BY <2>1, <2>2 DEF LaunchInv, LaunchType, Up
  <2>4. /\ rows'[s] = Nothing
        /\ \A x \in Sessions \ {s} : rows'[x] = rows[x]
    BY <2>1 DEF LaunchInv, LaunchType
  <2>5. ASSUME NEW x \in Sessions PROVE Covered(x)'
    BY <2>1, <2>4, StaysCovered DEF LaunchInv
  <2>6. RequestInv'
    BY <2>1, <2>2 DEF RequestInv, Up
  <2> QED BY <2>1, <2>3, <2>4, <2>5, <2>6 DEF LaunchInv
<1>2. CASE DeleteEnd
  <2>1. /\ windows' = [windows EXCEPT ![request.s] = Nothing]
        /\ request' = Idle
        /\ rows' = rows /\ config' = config /\ file' = file /\ used' = used
        /\ request.s \in Sessions
    BY <1>2 DEF DeleteEnd, Serving, world, LaunchInv, RequestInv
  <2>2. LaunchType'
    BY <2>1 DEF LaunchInv, LaunchType, Up, Idle, RequestRecords, Host, Profiles
  <2>3. \A x \in Sessions : windows'[x] \in {windows[x], Nothing}
    BY <2>1 DEF LaunchInv, LaunchType
  <2>4. ASSUME NEW x \in Sessions PROVE Covered(x)'
    BY <2>1, <2>3, StaysCovered DEF LaunchInv
  <2> QED BY <2>1, <2>2, <2>3, <2>4 DEF LaunchInv, RequestInv, Idle
<1> QED BY <1>1, <1>2

(* What goes on outside the daemon. *)
LEMMA OtherSteps ==
  ASSUME LaunchInv, EditFile \/ Install \/ (\E s \in Sessions : AgentExits(s))
                    \/ (\E c \in containers : ContainerEnds(c))
                    \/ (\E x \in Repositories \cup Directories : MoveSource(x))
  PROVE  LaunchInv'
<1>1. /\ rows' = rows /\ used' = used /\ config' = config
      /\ request' = request
  BY DEF EditFile, Install, AgentExits, ContainerEnds, MoveSource, Elsewhere
<1>2. file' \in Files
  BY LaunchAssumption DEF EditFile, Install, AgentExits, ContainerEnds,
                          MoveSource, world, LaunchInv, LaunchType
<1>3. /\ windows' = [x \in Sessions |-> windows'[x]]
      /\ \A x \in Sessions : windows'[x] \in {windows[x], Nothing}
  BY DEF EditFile, Install, AgentExits, ContainerEnds, MoveSource, LaunchInv,
         LaunchType
<1>4. LaunchType' /\ RequestInv'
  BY <1>1, <1>2, <1>3 DEF LaunchInv, LaunchType, RequestInv, Up, Resolve
<1>5. ASSUME NEW x \in Sessions PROVE Covered(x)'
  BY <1>1, <1>3, StaysCovered DEF LaunchInv
<1> QED BY <1>1, <1>3, <1>4, <1>5 DEF LaunchInv

LEMMA StutterLaunch == ASSUME LaunchInv, UNCHANGED vars PROVE LaunchInv'
BY DEF vars, world, LaunchInv, LaunchType, RequestInv, Covered, Declared, Up,
       Resolve

THEOREM LaunchInvariant == Spec => []LaunchInv
<1>1. ASSUME LaunchInv, [Next]_vars PROVE LaunchInv'
  BY <1>1, DaemonSteps, CreateBeginStep, CreateSteps, LaunchStep, RestartStep,
     DeleteSteps, OtherSteps, StutterLaunch DEF Next, Requests
<1> QED BY InitLaunch, <1>1, PTL DEF Spec

(* Whatever profiles a file defines, whatever the host offers and however files,
   tools, daemon and sessions change: the agent of a session runs under what the
   profile of the session declared when it was launched (launch_under). *)
THEOREM LaunchesHonorProfiles == Spec => []LaunchHonorsProfile
<1>1. LaunchInv => LaunchHonorsProfile
  BY DEF LaunchInv, Covered, Faithful, LaunchHonorsProfile
<1> QED BY LaunchInvariant, <1>1, PTL

(* The posture a client reads of a session with an agent is the agent's, unless
   the file has redefined the profile since (with_posture, posture_for). *)
THEOREM PosturesAreTrue == Spec => []PostureTrue
<1>1. ASSUME LaunchInv PROVE PostureTrue
  <2> SUFFICES ASSUME NEW s \in Sessions, Up, rows[s] # Nothing,
                      windows[s] # Nothing, Declared(s) = Resolve(rows[s].name)
               PROVE  LET reach == windows[s].reach IN
                      /\ Reported(s).contained <=> reach.runtime # "host"
                      /\ "host" \in Reported(s).caveats <=> reach.files = "host"
                      /\ Reported(s).summary[2] = reach.network
    BY DEF PostureTrue
  <2> DEFINE p == Declared(s)
  <2>1. p \in Profiles \ {Missing} /\ Faithful(windows[s].reach, p)
    BY <1>1 DEF LaunchInv, Covered
  <2>2. Reported(s) = Posture(rows[s].name, p)
    BY <2>1 DEF Reported
  <2> HIDE DEF p
  <2>3. /\ Reported(s).contained = Contained(p)
        /\ Reported(s).caveats = Caveats(p)
        /\ Reported(s).summary[2] = p.network
    BY <2>2 DEF Posture
  <2>4. "host" \in Caveats(p) <=> ~Contained(p)
    BY DEF Caveats
  <2> QED BY <2>1, <2>3, <2>4 DEF Faithful, Honors
<1> QED BY LaunchInvariant, <1>1, PTL

-----------------------------------------------------------------------------
(* Containers, git's entries and the members of workspaces. *)

ContainerInv ==
  /\ \A c \in containers : c.name = c.id
  /\ OneContainer

LEMMA LeftInv ==
  ASSUME ContainerInv, NEW s, NEW left \in Left(s)
  PROVE  /\ left \subseteq containers
         /\ \A c \in left : c.name = c.id
         /\ \A c, d \in left : c.id = d.id => c = d
BY DEF ContainerInv, OneContainer, Left

LEMMA OpenContainers ==
  ASSUME ContainerInv, NEW s, NEW reach, NEW command, NEW left \in Left(s),
         Open(s, reach, command, left)
  PROVE  ContainerInv'
<1> DEFINE new == [id |-> s, name |-> s, turn |-> turns]
           taken == \E c \in left : c.name = s
<1>1. containers' = IF (reach.runtime # "host" /\ taken) \/ reach.runtime = "host"
                    THEN left ELSE left \cup {new}
  BY DEF Open, ContainerName
<1>2. new.id = s /\ new.name = s
  OBVIOUS
<1> HIDE DEF new
<1>3. /\ \A c \in left : c.name = c.id
      /\ \A c, d \in left : c.id = d.id => c = d
  BY LeftInv
<1>4. CASE containers' = left
  BY <1>3, <1>4 DEF ContainerInv, OneContainer
<1>5. CASE containers' = left \cup {new} /\ ~taken
  <2>1. \A c \in left : c.id # s
    BY <1>3, <1>5
  <2> QED BY <1>2, <1>3, <1>5, <2>1 DEF ContainerInv, OneContainer
<1> QED BY <1>1, <1>4, <1>5

(* No two containers ever work for one session, whether or not a container ends
   with its window and whatever is launched next to it (oci.rs prepare, wrap). *)
THEOREM OneContainerEach == Spec => []OneContainer
<1>1. Init => ContainerInv
  BY DEF Init, ContainerInv, OneContainer
<1>2. ASSUME ContainerInv, [Next]_vars PROVE ContainerInv'
  <2>1. CASE Launch
    <3>1. containers \in Left(request.s)
      BY DEF Left
    <3>2. Open(request.s, LaunchUnder(request.profile, request.s,
                                      request.spec # NoWorkspace),
               Command(rows[request.s].agent, FALSE), containers)
      BY <2>1 DEF Launch
    <3> QED BY <1>2, <3>1, <3>2, OpenContainers
  <2>2. ASSUME NEW s \in Sessions, Restart(s) PROVE ContainerInv'
    <3>1. PICK left \in Left(s) :
            \E reach : Open(s, reach, Command(rows[s].agent, TRUE), left)
      BY <2>2 DEF Restart, RestartUnder
    <3>2. PICK reach : Open(s, reach, Command(rows[s].agent, TRUE), left)
      BY <3>1
    <3> QED BY <1>2, <3>2, OpenContainers
  <2>3. ASSUME NEW s \in Sessions, containers' \in Left(s) PROVE ContainerInv'
    BY <1>2, <2>3, LeftInv DEF ContainerInv, OneContainer
  <2>4. ASSUME NEW s \in Sessions, AgentExits(s) PROVE ContainerInv'
    BY <2>3, <2>4 DEF AgentExits
  <2>d. CASE DeleteEnd
    <3>1. PICK left \in Left(request.s) : containers' = left
      BY <2>d DEF DeleteEnd
    <3> QED BY <1>2, <3>1, LeftInv DEF ContainerInv, OneContainer
  <2>5. ASSUME NEW c \in containers, ContainerEnds(c) PROVE ContainerInv'
    BY <1>2, <2>5 DEF ContainerEnds, ContainerInv, OneContainer
  <2>6. CASE containers' = containers
    BY <1>2, <2>6 DEF ContainerInv, OneContainer
  <2>7. ASSUME NEW s \in Sessions, NEW n \in ProfileNames \cup {Missing},
               NEW a \in Agents \cup {"default"},
               NEW w \in Workspaces \cup {NoWorkspace}, CreateBegin(s, n, a, w)
        PROVE  containers' = containers
    BY <2>7 DEF CreateBegin
  <2>8. Prepare1 \/ Prepare1Fails \/ LaunchFails
          \/ (\E s \in Sessions : DeleteBegin(s)) => containers' = containers
    BY DEF Prepare1, Prepare1Fails, LaunchFails, RollbackCreate, DeleteBegin
  <2>9. Start \/ Stop \/ Poll \/ EditFile \/ Install => containers' = containers
    BY DEF Start, Stop, Poll, EditFile, Install
  <2>10. (\E x \in Repositories \cup Directories : MoveSource(x))
           => containers' = containers
    BY DEF MoveSource
  <2>11. UNCHANGED vars => containers' = containers
    BY DEF vars
  <2> QED BY <1>2, <2>1, <2>2, <2>4, <2>d, <2>5, <2>6, <2>7, <2>8, <2>9, <2>10, <2>11
          DEF Next, Requests
<1>3. ContainerInv => OneContainer
  BY DEF ContainerInv
<1> QED BY <1>1, <1>2, <1>3, PTL DEF Spec

(* No create is refused for an entry git keeps of a worktree that went, however
   it went (create_worktree prunes first). *)
THEOREM NoEntryIsStale == Spec => []NoStaleEntry
<1>1. Init => NoStaleEntry
  BY DEF Init, NoStaleEntry
<1>2. ASSUME NoStaleEntry, [Next]_vars PROVE NoStaleEntry'
  <2>1. ASSUME NEW spec, NEW k PROVE Obstacle(spec, k) # "entry exists"
    BY DEF Obstacle, Pruned
  <2>2. Prepare1Fails => NoStaleEntry'
    BY <2>1 DEF Prepare1Fails, NoStaleEntry
  <2>3. CASE refusal' = refusal
    BY <1>2, <2>3 DEF NoStaleEntry
  <2>4. Requests => Prepare1Fails \/ refusal' = refusal
    BY DEF Requests, CreateBegin, Restart, RestartUnder, DeleteBegin, DeleteEnd,
           Prepare1, Launch, LaunchFails
  <2> QED BY <1>2, <2>2, <2>3, <2>4
          DEF Next, vars, Start, Stop, Poll, EditFile, Install, AgentExits,
              ContainerEnds, MoveSource, Elsewhere
<1> QED BY <1>1, <1>2, PTL DEF Spec

-----------------------------------------------------------------------------
(* What creates and deletes leave of members. *)

(* A member is in a workspace directory, and the one of the create at work is
   there; without a request nobody is at work. *)
MembersInv ==
  /\ \A m \in members : m.path[1] \in wrappers
  /\ request.pc = "idle" => request.spec = NoWorkspace
  /\ request.pc = "members" =>
       /\ request.spec \in Workspaces \ {NoWorkspace}
       /\ request.spec.id \in wrappers
       /\ request.member \in DOMAIN request.spec.members

(* What one step leaves to nobody: MembersOwned, of a step. *)
NoneAbandoned ==
  \A m \in members' : (m \in members => Owned(m)) =>
    \/ Owned(m)'
    \/ request.pc = "delete" /\ ~Up'
    \/ m.kind = "link" /\ m.source \notin sources

LEMMA WantedHere ==
  ASSUME NEW spec, NEW m, Wanted(spec, m)
  PROVE  spec # NoWorkspace /\ m.path[1] = spec.id
BY DEF Wanted, Path

(* A step that makes no member, and takes no workspace from its row and from its
   request unless the one gives it to the other, leaves no member to nobody. *)
LEMMA StillOwned ==
  ASSUME members' \subseteq members,
         \A s \in Sessions : rows[s] # Nothing =>
           \/ rows'[s] # Nothing /\ rows'[s].spec = rows[s].spec
           \/ request'.spec = rows[s].spec,
         \/ request'.spec = request.spec
         \/ request.spec = NoWorkspace
         \/ \E s \in Sessions :
              rows'[s] # Nothing /\ rows'[s].spec = request.spec
  PROVE  NoneAbandoned
<1> SUFFICES ASSUME NEW m \in members, Owned(m) PROVE Owned(m)'
  BY DEF NoneAbandoned
<1>1. CASE Wanted(request.spec, m)
  <2>1. ASSUME NEW spec, Wanted(spec, m), request'.spec = spec PROVE Owned(m)'
    BY <2>1 DEF Owned
  <2>2. ASSUME NEW s \in Sessions, rows'[s] # Nothing, Wanted(rows'[s].spec, m)
        PROVE  Owned(m)'
    BY <2>2 DEF Owned
  <2> QED BY <1>1, <2>1, <2>2, WantedHere
<1>2. ASSUME NEW s \in Sessions, rows[s] # Nothing, Wanted(rows[s].spec, m)
      PROVE  Owned(m)'
  BY <1>2 DEF Owned
<1> QED BY <1>1, <1>2 DEF Owned

(* What Cleanup leaves is in other directories. *)
LEMMA CleanedUp ==
  ASSUME MembersInv, NEW spec, NEW known, Cleanup(spec, known)
  PROVE  /\ members' \subseteq members
         /\ \A m \in members' : m.path[1] \in wrappers' /\ m.path[1] # spec.id
BY DEF Cleanup, Removed, Under, MembersInv

(* A create that fails gives up its row: what another session asked for is still
   that session's. *)
LEMMA OthersKeep ==
  ASSUME LaunchInv, RollbackCreate, request.pc \in {"members", "launch"},
         NEW m, Owned(m), ~Wanted(request.spec, m)
  PROVE  Owned(m)'
<1>1. PICK s \in Sessions : rows[s] # Nothing /\ Wanted(rows[s].spec, m)
  BY DEF Owned
<1>2. s # request.s /\ rows'[s] = rows[s]
  BY <1>1 DEF LaunchInv, LaunchType, RequestInv, RollbackCreate
<1> QED BY <1>1, <1>2 DEF Owned

LEMMA CreateMembers ==
  ASSUME LaunchInv, MembersInv,
         \/ Prepare1 \/ Prepare1Fails \/ Launch \/ LaunchFails
         \/ \E s \in Sessions, n \in ProfileNames \cup {Missing},
              a \in Agents \cup {"default"}, w \in Workspaces \cup {NoWorkspace} :
              CreateBegin(s, n, a, w)
  PROVE  MembersInv' /\ NoneAbandoned
<1> DEFINE spec == request.spec
<1>1. ASSUME NEW s \in Sessions, NEW n, NEW a,
             NEW w \in Workspaces \cup {NoWorkspace}, CreateBegin(s, n, a, w)
      PROVE  MembersInv' /\ NoneAbandoned
  <2>1. /\ members' = members /\ spec = NoWorkspace
        /\ \A x \in Sessions : rows[x] # Nothing => rows'[x] = rows[x]
    BY <1>1 DEF CreateBegin, Free, LaunchInv, LaunchType, MembersInv, MakeWrapper,
                diskVars
  <2>2. NoneAbandoned
    BY <2>1, StillOwned
  <2>3. wrappers \subseteq wrappers'
    BY <1>1 DEF CreateBegin, MakeWrapper, diskVars
  <2>4. \/ request' = request /\ request.pc = "idle"
        \/ request'.pc = "launch"
        \/ /\ request'.pc = "members" /\ request'.spec = w /\ w # NoWorkspace
           /\ request'.member = 1 /\ w.id \in wrappers'
    BY <1>1 DEF CreateBegin, Free, MakeWrapper
  <2> QED BY <2>1, <2>2, <2>3, <2>4, LaunchAssumption DEF MembersInv
<1>2. CASE Prepare1
  <2>n. PICK new : new = [path |-> Path(spec, request.member),
                          source |-> spec.members[request.member].source,
                          kind |-> IF spec.members[request.member].branch = Attached
                                   THEN "link" ELSE "worktree"]
    OBVIOUS
  <2>1. /\ request.pc = "members"
        /\ members' = members \cup {new} /\ wrappers' = wrappers /\ rows' = rows
        /\ request'.spec = spec
        /\ \/ request'.pc = "launch"
           \/ /\ request'.pc = "members" /\ request.member # Len(spec.members)
              /\ request'.member = request.member + 1
    BY <1>2, <2>n DEF Prepare1, PrepareMember, Serving, LaunchInv, LaunchType,
                      RequestRecords
  <2>2. /\ spec \in Workspaces \ {NoWorkspace} /\ spec.id \in wrappers
        /\ request.member \in DOMAIN spec.members
    BY <2>1 DEF MembersInv
  <2>3. new.path[1] = spec.id /\ Wanted(spec, new)
    BY <2>2, <2>n DEF Path, Wanted
  <2>4. request'.pc = "members" => request'.member \in DOMAIN spec.members
    BY <2>1, <2>2, LaunchAssumption
  <2>5. MembersInv'
    BY <2>1, <2>2, <2>3, <2>4 DEF MembersInv
  <2>6. \A m : Owned(m) => Owned(m)'
    BY <2>1 DEF Owned
  <2>7. Owned(new)'
    BY <2>1, <2>3 DEF Owned
  <2> QED BY <2>1, <2>5, <2>6, <2>7 DEF NoneAbandoned
<1>3. CASE Prepare1Fails
  <2>1. request.pc = "members" /\ RollbackCreate /\ request' = Idle
    BY <1>3 DEF Prepare1Fails, Serving, RollbackCreate
  <2>2. /\ members' \subseteq members
        /\ \A m \in members' : m.path[1] \in wrappers' /\ m.path[1] # spec.id
    BY <1>3, CleanedUp DEF Prepare1Fails, PrepareFails
  <2>3. MembersInv'
    BY <2>1, <2>2 DEF MembersInv, Idle
  <2> QED BY <2>1, <2>2, <2>3, WantedHere, OthersKeep DEF NoneAbandoned
<1>4. CASE Launch
  <2>1. /\ members' = members /\ wrappers' = wrappers /\ request' = Idle
        /\ request.s \in Sessions /\ rows[request.s] \in Rows
        /\ rows[request.s].spec = spec
        /\ rows' = [rows EXCEPT ![request.s].state = "running"]
    BY <1>4 DEF Launch, Serving, diskVars, LaunchInv, LaunchType, RequestInv
  <2>2. /\ \A x \in Sessions : rows[x] # Nothing =>
             rows'[x] # Nothing /\ rows'[x].spec = rows[x].spec
        /\ rows'[request.s] # Nothing /\ rows'[request.s].spec = spec
    BY <2>1, LaunchAssumption DEF LaunchInv, LaunchType, Rows
  <2> QED BY <2>1, <2>2, StillOwned DEF MembersInv, Idle
<1>5. CASE LaunchFails
  <2>1. request.pc = "launch" /\ RollbackCreate /\ request' = Idle
    BY <1>5 DEF LaunchFails, Serving, RollbackCreate
  <2>2. CASE spec = NoWorkspace
    <3>1. members' = members /\ wrappers' = wrappers
      BY <1>5, <2>2 DEF LaunchFails, diskVars
    <3>2. \A m : Owned(m) => Owned(m)'
      BY <2>1, <2>2, OthersKeep DEF Wanted
    <3> QED BY <2>1, <3>1, <3>2 DEF NoneAbandoned, MembersInv, Idle
  <2>3. CASE spec # NoWorkspace
    <3>1. CleanupPath(spec)
      BY <1>5, <2>3 DEF LaunchFails
    <3>2. MembersInv' /\ members' \subseteq members
      BY <2>1, <3>1 DEF CleanupPath, Removed, Under, MembersInv, Idle
    <3>3. ASSUME NEW m \in members', Wanted(spec, m)
          PROVE  m.kind = "link" /\ m.source \notin sources
      <4>1. m \in Under(spec.id)
        BY <3>2, <3>3, WantedHere DEF Under
      <4>2. Len(spec.members) = 1
        BY <3>1, <3>3, <4>1 DEF CleanupPath, Removed
      <4>3. spec \in Workspaces
        BY <2>3 DEF LaunchInv, LaunchType, RequestRecords
      <4>4. DOMAIN spec.members = 1 .. 1
        BY <4>2, <4>3, LaunchAssumption
      <4>5. m.path = Path(spec, 1)
        BY <3>3, <4>4 DEF Wanted
      <4> QED BY <3>1, <4>1, <4>2, <4>5 DEF CleanupPath, Removed
    <3> QED BY <2>1, <3>2, <3>3, OthersKeep DEF NoneAbandoned
  <2> QED BY <2>2, <2>3
<1> QED BY <1>1, <1>2, <1>3, <1>4, <1>5

LEMMA SessionMembers ==
  ASSUME LaunchInv, MembersInv,
         DeleteEnd \/ \E s \in Sessions : DeleteBegin(s) \/ Restart(s)
  PROVE  MembersInv' /\ NoneAbandoned
<1>1. ASSUME NEW s \in Sessions, DeleteBegin(s)
      PROVE  MembersInv' /\ NoneAbandoned
  <2>1. /\ members' = members /\ wrappers' = wrappers
        /\ request.spec = NoWorkspace
        /\ request'.spec = rows[s].spec /\ request'.pc = "delete"
        /\ \A x \in Sessions \ {s} : rows'[x] = rows[x]
    BY <1>1 DEF DeleteBegin, Free, diskVars, Idle, MembersInv, LaunchInv,
                LaunchType
  <2> QED BY <2>1, StillOwned DEF MembersInv
<1>2. CASE DeleteEnd
  <2>1. request' = Idle /\ rows' = rows
    BY <1>2 DEF DeleteEnd
  <2>2. CASE request.spec = NoWorkspace
    <3>1. members' = members /\ wrappers' = wrappers
      BY <1>2, <2>2 DEF DeleteEnd, diskVars
    <3> QED BY <2>1, <2>2, <3>1, StillOwned DEF MembersInv, Idle
  <2>3. CASE request.spec # NoWorkspace
    <3>1. /\ members' \subseteq members
          /\ \A m \in members' : /\ m.path[1] \in wrappers'
                                /\ m.path[1] # request.spec.id
      BY <1>2, <2>3, CleanedUp DEF DeleteEnd
    <3>2. \A m \in members' : Owned(m) => Owned(m)'
      BY <2>1, <3>1, WantedHere DEF Owned
    <3> QED BY <2>1, <3>1, <3>2 DEF MembersInv, NoneAbandoned, Idle
  <2> QED BY <2>2, <2>3
<1>3. ASSUME NEW s \in Sessions, Restart(s)
      PROVE  MembersInv' /\ NoneAbandoned
  <2>1. /\ members' = members /\ wrappers' = wrappers /\ request' = request
        /\ rows' = [rows EXCEPT ![s].state = "running"]
    BY <1>3 DEF Restart, RestartUnder, diskVars
  <2>2. \A x \in Sessions : rows[x] # Nothing =>
          rows'[x] # Nothing /\ rows'[x].spec = rows[x].spec
    BY <2>1, LaunchAssumption DEF LaunchInv, LaunchType, Rows
  <2> QED BY <2>1, <2>2, StillOwned DEF MembersInv
<1> QED BY <1>1, <1>2, <1>3

LEMMA OtherMembers ==
  ASSUME LaunchInv, MembersInv,
         \/ Start \/ Stop \/ Poll \/ EditFile \/ Install \/ UNCHANGED vars
         \/ \E s \in Sessions : AgentExits(s)
         \/ \E c \in containers : ContainerEnds(c)
         \/ \E x \in Repositories \cup Directories : MoveSource(x)
  PROVE  MembersInv' /\ NoneAbandoned
<1>1. members' = members /\ wrappers' = wrappers
  BY DEF Start, Stop, Poll, EditFile, Install, AgentExits, ContainerEnds,
         MoveSource, Move, vars, diskVars
<1>2. \A x \in Sessions : rows[x] # Nothing =>
        rows'[x] # Nothing /\ rows'[x].spec = rows[x].spec
  <2>1. CASE Start \/ Poll
    BY <2>1, LaunchAssumption DEF Start, Poll, LaunchInv, LaunchType, Rows
  <2>2. CASE ~(Start \/ Poll)
    BY <2>2 DEF Stop, EditFile, Install, AgentExits, ContainerEnds, MoveSource,
                Elsewhere, vars
  <2> QED BY <2>1, <2>2
<1>3. CASE Stop
  <2>1. request' = Idle /\ ~Up' /\ rows' = rows
    BY <1>3 DEF Stop, Up
  <2>2. MembersInv'
    BY <1>1, <2>1 DEF MembersInv, Idle
  <2>3. CASE request.pc = "delete"
    BY <2>1, <2>2, <2>3 DEF NoneAbandoned
  <2>4. CASE request.pc = "idle"
    BY <1>1, <1>2, <2>2, <2>4, StillOwned DEF MembersInv
  <2>5. CASE request.pc \in {"members", "launch"}
    <3>1. /\ request.s \in Sessions /\ rows'[request.s] # Nothing
          /\ rows'[request.s].spec = request.spec
      BY <2>1, <2>5 DEF LaunchInv, RequestInv
    <3> QED BY <1>1, <1>2, <2>2, <3>1, StillOwned
  <2> QED BY <2>3, <2>4, <2>5 DEF LaunchInv, LaunchType, RequestRecords
<1>4. CASE ~Stop
  <2>1. request' = request
    BY <1>4 DEF Start, Poll, EditFile, Install, AgentExits, ContainerEnds,
                MoveSource, Elsewhere, vars
  <2> QED BY <1>1, <1>2, <2>1, StillOwned DEF MembersInv
<1> QED BY <1>3, <1>4

(* Whatever workspaces are asked for and wherever a create fails or a daemon
   dies, no member is left that neither a listed session nor the request at work
   asked for: but for what MembersOwned excepts (manager.rs create, cleanup and
   cleanup_path, with rollback_create and delete). *)
THEOREM NoMemberIsAbandoned == Spec => MembersOwned
<1>1. Init => MembersInv
  BY DEF Init, DiskInit, MembersInv, Idle
<1>2. ASSUME LaunchInv, MembersInv, [Next]_vars
      PROVE  MembersInv' /\ NoneAbandoned
  BY <1>2, CreateMembers, SessionMembers, OtherMembers DEF Next, Requests
<1>3. MembersOwned <=> [][NoneAbandoned]_vars
  BY PTL DEF MembersOwned, NoneAbandoned
<1> QED BY <1>1, <1>2, <1>3, LaunchInvariant, PTL DEF Spec
=============================================================================
