SPECIFICATION MCSpec
CONSTANTS
  ProfileNames = {"default", "strict"}
  Missing = Missing
  Refused = Refused
  Repositories = {"api"}
  Directories = {"docs"}
  Attached = Attached
  Sessions = {"s1", "s2", "s3"}
  Agents = {"claude"}
  Files <- MCFiles
  Edits <- LifeFiles
  Hosts <- MCHosts
  Workspaces <- MCWorkspaces
  NoWorkspace = NoWorkspace
  Nothing = Nothing
  MaxTurns = 2
INVARIANTS
  LaunchHonorsProfile
  PostureTrue
  OneContainer
  NoStaleEntry
PROPERTIES
  MembersOwned
CHECK_DEADLOCK FALSE
