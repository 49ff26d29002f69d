---------------------------- MODULE SandboxRuntime ----------------------------
(***************************************************************************)
(* Sandboxes (crates/security: sandbox.rs, runtime.rs, oci.rs and the three *)
(* OCI backends): which runtime a host offers, which one a profile gets,    *)
(* what it refuses, and the container its command line starts.              *)
(***************************************************************************)
EXTENDS SecurityProfile, Sequences

CONSTANT Refused  \* no sandbox honors the profile

Catalog(platform) ==
  CASE platform = "macos" ->
         <<"apple-container", "podman", "docker", "sandbox-exec">>
    [] platform = "linux" -> <<"firecracker", "podman", "docker", "bubblewrap">>
    [] platform = "windows" -> <<"hyperv-container", "windows-sandbox", "wsl2">>
    [] OTHER -> <<>>

(* The first of the catalog whose probe succeeds. *)
Recommend(host) ==
  LET found ==
        SelectSeq(Catalog(host.platform), LAMBDA r : r \in host.installed)
  IN IF found = <<>> THEN "none" ELSE Head(found)

Isolation(r) ==
  IF r \in {"sandbox-exec", "podman", "docker", "bubblewrap"} THEN "kernel"
  ELSE "machine"
NetworkIsolation(r) == r # "apple-container"

ForProfileMutant(p, detected) ==     \* the named runtime is only a preference
  IF detected \in Runtimes THEN detected ELSE p.runtime

ForProfile(p, detected) ==
  LET chosen == IF p.runtime = "unnamed" THEN detected ELSE p.runtime
  IN IF ~Contained(p) THEN "host"
     ELSE IF chosen \in Runtimes THEN chosen ELSE Refused

CanHonorMutant(r, network) == network \in {"full", "none"}

CanHonor(r, network) ==
  network = "full" \/ (network = "none" /\ NetworkIsolation(r))

(* prepare: what the runtime cannot enforce is refused, not dropped. *)
Prepare(r, p, present) ==
  IF CanHonor(r, p.network) /\ p.image /\ present
  THEN [network |-> p.network,
        writable |-> p.filesystem # "workspace_read_only"]
  ELSE Refused

ContainerNameMutant(id, turn) == <<id, turn>>   \* a name of its own per launch

(* Deterministic: the runtime refuses to run a second container of that name. *)
ContainerName(id, turn) == id

(* wrap, and what the runtime makes of the command line: the agent sees the
   environment given, the workspace and a network unless told otherwise. *)
Wrap(r, handle, environment) ==
  [runtime |-> r,
   network |-> IF handle.network = "none" /\ NetworkIsolation(r)
               THEN "none" ELSE "full",
   files |-> IF handle.writable THEN "workspace" ELSE "workspace_read_only",
   environment |-> environment]
=============================================================================
