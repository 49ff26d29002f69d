# anclave: a TLA+ verification project

anclave is a daemon (`anclaved`) that keeps coding agents alive in the windows of a tmux server, remembers
them in SQLite, gives each its own git worktrees, decides how far each is trusted, and shows them to clients (a CLI
and a terminal UI) over a Unix socket. This directory holds TLA+ models of its parts, the TLC configurations that check
them and the TLAPS proofs about them. Paths below are relative to `src/`.

To check a run of section 3: `tlc -config SessionSafety.cfg MCSessionLifecycle.tla`, with the module the table names; to
check the proofs: `tlapm SessionLifecycle_proofs.tla`, and the other `*_proofs` modules.
`PROJECT.json` lists every run, the source lines every definition stands for, the hazards and the theorems.

Contents: 1 the parts of anclave; 2 the modules and how they correspond to the code; 3 the runs, their bounds, the
fairness, where the properties stop, the findings; 4 the proofs; 5 what was met beside the findings; 6 what is not modelled.

## 1. Inventory

| part | state | operations | interacts with | what is hard | correct when | module |
|---|---|---|---|---|---|---|
| session runtime, `crates/daemon/src/runtime.rs` | `last_live`; handles to everything below | create, restart, delete, poll, reconcile, recover, capture, input | all of the daemon | handlers run in parallel, with no lock across two of their calls | rows, windows, terminals and workspaces agree once requests have ended | SessionLifecycle, SessionScreens, SessionLaunch |
| session storage, `storage.rs` | `sessions`, `schema_meta` in SQLite | list, get, insert, update, set state, tombstone, remove, next id, migrate | runtime | survives crashes; migration is several statements | ids and names unique, deletion final, migration restartable | SessionLifecycle, SchemaMigration |
| tmux backend, `backend.rs` | none of its own: the tmux server's windows | create, adopt, restart, kill, resize, input, capture, list | runtime, agents | windows and agents outlive the daemon; names resolve by prefix | a call reaches the window of its session and no other | TmuxBackend, SessionLifecycle |
| approval broker, `crates/security/src/approval.rs` | pending, decided, history, next id, four mutexes | request, decide, expire, decision | delete, clients, poller | deciders race each other and the expiry; memory is lost in a restart | a destruction happens only under an answer given for it | ApprovalGate |
| workspace manager, `crates/workspace/src/` | directories, git worktrees and branches | create, cleanup, cleanup_path | create, delete | partial failure among the members | all or nothing, and only what is its own | WorkspaceDisk |
| terminal store, `daemon/src/terminal.rs`, `crates/terminal` | screen and last capture per session | insert, remove, resize, apply_capture | runtime, poller | poller and capture requests race | a Running session has a screen; a change is announced | TerminalStore |
| daemon process, `main.rs`, `listen.rs` | the socket file | start, serve, poll every 100 ms, shut down | everything | two starts race; crash leaves the file | one daemon owns the socket and the database | DaemonHost, SocketOwnership |
| event bus, `events.rs`, `main.rs` | broadcast buffer of 128 | publish, subscribe, forward | handlers, clients | a slow client lags; `select!` cancels a read in the middle of a frame | the client's view converges | EventStream |
| framing and client, `crates/protocol`, `crates/cli/src/lib.rs` | partial frames, buffered events | read, write, request, next_event | daemon, TUI | cancellation, reordering of events and responses | a response answers its request | EventStream, ClientView |
| audit log, `crates/audit` | one file of chained entries | append, verify | runtime | truncated tail, two writers, failed append | history is a chain, tampering shows | AuditLog |
| security policy, `crates/security` | profiles, the runtime found at start | validate, posture, build environment, pick and prepare a sandbox, wrap | create, restart | combinations of profiles and hosts, files edited under running agents | no agent runs under less than its profile asks | SecurityProfile, SandboxRuntime |
| credentials, `credentials.rs` | grants | request, revoke, materialize | none yet | expiry and revocation | a withdrawn grant is not materialized | none |
| plugin host, `crates/plugin` | trust store, loaded plugins | load, reload, trust, revoke, render | TUI, CLI | content changes after trust; the store is rewritten without a lock | only trusted content is granted what it declares | PluginTrust |
| migration import, `daemon/src/migration.rs` | files of another tool | inspect, preview, apply | runtime | source changes after the preview | what was previewed is what lands | MigrationImport |
| terminal UI, `crates/tui` | session list, selection, backoff | apply events, draw, connect, retry | client | stale list, lost connection | shows what the daemon has | ClientView, TuiHost |
| remote tunnel, `crates/cli/src/remote.rs` | an ssh child | open, close | CLI | timeouts | no tunnel left behind | none |

## 2. What is modelled

### SessionRegistry (abstract)

What a client may rely on about the list of sessions: ids are handed out once and in order, a session appears once and
under a name no other row has, it changes state freely, a deleted one never comes back, and only a session whose create
is unanswered may vanish without a delete. No threads, tmux, workspaces or crashes.

### SessionLifecycle

The storage rows, tmux windows, terminal entries and workspaces of every session, and everything that moves them.

| variable | code |
|---|---|
| `rows`, `nextId` | the `sessions` table (state, name, workspace) and `schema_meta.next_session_id` |
| `windows` | how many tmux windows carry the session's id as their name: tmux does not refuse a second one |
| `terminals` | the keys of `TerminalStore` |
| `dirs` | workspaces whose checkout is on disk |
| `h[t]` | where the request handler of connection `t` is: `pc` names the call it makes next |
| `poll`, `lastLive` | the poller between its calls, and `Runtime::last_live` |
| `daemon`, `todo`, `found`, `crashes` | up, recovering or down; what `recover_sessions` has still to do, and its last answer from `adopt`; a bound |
| `fresh` | history only: windows opened since the poller's last snapshot |

One action is one storage statement (under one acquisition of its mutex), one tmux call, or one step on the file system
or in memory; between two of them anything else may move, which is what the code allows: a handler runs on its own
task, takes the storage mutex per statement and holds nothing while it calls tmux. `Create`, `Restart` and `Delete` are
the handlers with every early return and rollback; `Poll` is `poll_backend` with `reconcile_states`; `Crash`, `Start` and
`Recover` are a killed daemon and `recover_sessions`; `AgentExit` is an agent ending, which closes its window.
`Shutdown` lets running handlers finish and then stops, so it is a crash at a moment with no handler busy.

Abstractions: a workspace is one element (its id and members together), so a second create of the same one finds its
destination taken; the approval gate is in ApprovalGate; `Detached` is never written by the code and is left out;
`Unreachable` is modelled. A window is addressed by an exact name here; what tmux makes of a name that is gone is
SessionScreens' subject.

`Faults` names the calls that may fail: `storage`, statements whose error the handler answers; `unheeded`, statements
whose error the code drops (the rollback of a create, the state a restart writes, the poller's and recovery's);
`misread`, a read whose error is taken for "no such row" (delete's first, whose `.ok().flatten()` then skips the
workspace); `backend`, tmux.

### SessionScreens, over TmuxBackend and TerminalStore

The requests that reach a pane (input, resize, capture, attach), those that open and close a window, the poller that
copies panes to terminals, and recovery. TmuxBackend has `LocalTmuxBackend` as tmux processes over windows; TerminalStore
the daemon's store of screens, one operator per acquisition of its mutex.

| variable | code |
|---|---|
| `windows[i]` | the tmux window `session-i`: what its pane shows and its size |
| `typed` | history: chunks of input that reached a window, with the session they were for |
| `terminals[i]` | the entry of `TerminalStore`: the screen, the capture it was built from, cursor state, size |
| `call[c]` | where the request of connection `c` is, and what it has captured or seen |
| `poll` | where `poll_backend` is in its list of ids |
| `listed`, `used` | ids of listed sessions, ids ever handed out (a client may send any of these) |
| `answer`, `opened`, `muddled`, `draws`, `crashes` | what an input was answered; history; bounds |

`Target` is how tmux resolves `session:name` without `=`: that window, else the one whose name begins with the name. Ids 1
and 10 show what comes of it. `Probe` and `Open` are has-session and new-session or new-window, two processes: what they
disagree about makes `OpenFails`. A text is whatever a pane shows together with whose pane it is, so that a screen which
crossed can be told. The chunks of one input are the processes `send_input` splits it into. Requests that open or close
the window of *one* session do not overlap here, since what that does is SessionLifecycle's subject. With `Failures` every tmux
process run for a request may fail, those whose answer the code drops included (`Fit`, the kills of a restart and a delete). A
request is `Halfway` between the window's size and the terminal's; `muddled` holds the sessions whose size was set out of
turn or not as asked, until a launch or resize that no other overlaps settles it (`Settled`).

### SessionLaunch, over SecurityProfile, SandboxRuntime and WorkspaceDisk

How an agent comes to run. The daemon reads its agents and security files and probes the host once, at start; every
create and restart resolves a profile, makes or finds the workspace, picks a sandbox and opens a window, while files are
edited, runtimes come and go, containers outlive windows and the daemon is stopped anywhere.

| variable | code |
|---|---|
| `file`, `config` | the two files on disk, and what the daemon read of them (`Nothing`: no daemon) |
| `host`, `detected` | platform and runtimes installed; the runtime `detect_sandbox_runtime` found |
| `rows`, `used` | per session its state, profile name, agent and workspace; ids are not used twice |
| `request` | the create or delete under way: its session and workspace, and the member it prepares, its launch, or what a delete has left to do |
| `windows[s]` | what the agent in the window reaches (runtime, network, files, environment), its command, and (history) the configuration and the profile name it was launched from |
| `containers` | containers running, by name |
| `sources`, `branches`, `entries`, `wrappers`, `members` | WorkspaceDisk: what exists of the user's, the branches and worktree entries of git, workspace directories and what is in them |
| `refusal`, `turns` | why the last workspace was refused; a bound |

SecurityProfile has profiles as records of their settings, `Validates`, `Posture`, and the environment over one variable
of each class the code tells apart (portable, host essential, editor, credential, the session's identity). SandboxRuntime has the
catalog of each platform, what a runtime can isolate, and what `wrap` makes the runtime do: the words of the command line
are abstracted to what the agent then reaches. Git is external in WorkspaceDisk: which branches and paths `worktree add`
refuses, what `prune` and `remove` drop. A delete is two steps, the row (`DeleteBegin`) and what follows it (`DeleteEnd`), since a
daemon may die in between. Storage answers here, and requests come one at a time; failing statements and overlapping
requests are SessionLifecycle's.

### MigrationImport

An import of another tool's files: the report, the undo record, the agents file and the preferences, each a write, with the source
edited in between and the daemon dying after any. Agents, sessions and preferences are names with what the report asks
about them (a blank command, a secured session, an unsafe key).

### ApprovalGate

`ApprovalBroker` and the delete that asks it. `pending`, `decided`, `history` and `nextId` are the four mutex-protected
fields, `subject` the session an approval is for, `h[c]` the delete of client `c` between two lock acquisitions.
`Decide` is an answer given to a prompt somebody was shown (`prompts`); prompts outlive a daemon restart because the
people who saw them do. `Expire` is a tick of the poller. `consent` records which sessions a person meant to destroy.
The gate speaks of a session and its own workspace, so an approval is identified by its session.

`policy[s]` is what the security file the daemon loaded says of the profile session `s` is stored under: it asks for
approval, leaves it to the agent, or is not there any more. Each daemon loads the file anew, so `Restart` picks it anew. Two
ways lead around the gate, and both are in the model. A profile that is gone reads as the default one
(`.ok().cloned().unwrap_or_default()`, `Approval`), which asks for nothing. And `known` is false when delete's first read
failed: then the code skips both the gate and the cleanup, and the row goes all the same.

### DaemonHost, with SocketOwnership, SchemaMigration and AuditLog

Daemon processes started, stopped and killed on one socket path, with the database and the audit log beside it. The
three parts are modules of their own; DaemonHost composes them: who has the path migrates the database and appends to
the log.

| variable | code |
|---|---|
| `path` | the process that bound the socket file at the path, alive or not; `Nobody` when there is no file |
| `at[d]` | where `main` of process `d` is: `look`, `connect`, `remove` (`clear_stale_socket`), `bind`, `open` and `migrate` (`Storage::open`), `serve` (`run`), `unlink` (`remove_file`), `drain` (handlers still running) |
| `columns`, `version`, `folded` | the columns of the `sessions` table, `schema_version`, and whether the rows of version 2 have had their workspace folded into the new column |
| `left[d]` | the statements `migrate` has still to run in process `d`: the plan is made from the version read first |
| `log`, `tail` | the entries of the audit file and how the file ends: whole, without its last newline, or in the middle of a line |
| `draft[d]` | the entry `append` has linked to the end of the file and not written yet |
| `edits`, `heads` | bound on edits by hand; history: the hash of every entry a daemon wrote |

One action is one system call, one SQL statement (none is in a transaction) or one of the two halves of `append`
(`read_all`, then the write). `Crash` takes a process away at any of them. A hash is a sequence that determines all it
was computed from, that is, a hash function without collisions; nobody recomputes hashes when editing by hand.

MCAuditLoss adds to DaemonHost a record of what a running daemon failed to append (`missed`), for the run about it.

`Orderly` is an assumption about whoever starts and stops daemons: no start or stop begins while another is going on.
With it (run DaemonHost) killed processes, stale files and starts beside a serving daemon are all there; without it (run
SocketStolen) two starts or a start and an end interleave.

### ClientView, over EventStream

EventStream is one client's connection: the bus, the task that serves the connection, the socket and the client library.
ClientView adds the daemon's rows with the events about them, and the UI that keeps a list from both.

| variable | code |
|---|---|
| `task`, `out` | where `handle_client` is: `select`, `half` a frame read, `busy` or `create` in a handler, `head` and `body` of a frame being written, `closed`; and the request it works on or the frame it writes |
| `subscribed`, `queue`, `lagged` | its receiver on the broadcast channel, what that has not taken yet, and (history) whether some of it was overwritten |
| `up`, `down` | the socket, in parts: the length of a frame, then its payload |
| `torn` | directions whose reader lost the length of a frame when it was cancelled |
| `call`, `half`, `pending` | where the client is in `request` or `next_event`, whether it has read a length, and `Client::pending_events` |
| `rows`, `stage`, `polled` | the state of each session in storage, how far its create is, and whom the poller will mark |
| `say` | events whose row is written and which are not published yet |
| `doing`, `shown` | what the UI is at: connecting (`version`, `subscribe`, `list`), `idle`, draining events, a request; and the lines of its list that show each session |
| `unannounced`, `turns` | history: sessions whose last change the connection was not told; a bound |

A handler runs inside the connection's task (`handle_envelope` is called without an await), so nothing is forwarded
while a create is under way. A write is never cancelled; a read is, on the daemon's side when an event or a shutdown
wins `select!` (`ForwardEvent`, `Stop`), on the client's when the millisecond around `next_event` is over (`Timeout`).
A reader that lost a length takes text for the next one: the four bytes are a number beyond `MAX_FRAME_BYTES`, so the
read fails (`ReadTorn`, `Broken`) and the connection ends. Requests of the UI that change no list (input, attach,
resize, capture) are all like `resize`, whose error alone is ignored, or `capture`, which is made in the middle of a drain.
Other clients are in `Daemon`: creates, restarts and deletes they ask for.

### TuiHost and PluginTrust

TuiHost is the UI as its user drives it: `list`, `selected` (a line number), `screen` (what is in the pane), `attached`
(`screen_session`, whose screen is followed and who gets the keys), `mode`, `overlay` and `connected`. Events may be about
any session and say anything of it: what a connection really delivers is EventStream's subject.

PluginTrust has the trust file (`store`), the commands that rewrite it (`command[k]`: what each has read and where it is),
the entries the UI read when it started (`trust`), its plugins with what they were granted and whether they ask for
something, which they may whatever they were granted (`Render`), and the files being edited. A digest tells contents apart;
contents that declare a capability are `Capable`.

MCClientHost composes ClientView, TuiHost and PluginTrust for TLC. They share no modelled state, so each behaviour has one of
them as its theme.

### Themes

An instance with everything at once is too large, so four MC modules (MCSessionScreens, MCSessionLaunch, MCClientHost,
and MCDaemonHost, whose themes are DaemonHost and ApprovalGate, which share no modelled state) choose a theme in the initial state
and keep each behaviour within it. A theme restricts which requests come and what
varies; it never splits or drops a step of a request it admits. The theorems have no themes.

### Definitions named `...Mutant`

Each is a bug that the definition after it could plausibly have had (a dropped guard, a stale read, a missing reset).
No action uses them; PROJECT.json pairs every property with the mutant that breaks it.

## 3. Runs

| run | instance | shows |
|---|---|---|
| SessionSafety (MCSessionLifecycle) | 2 clients, 2 sessions, 2 names, 1 workspace, requests for one session one at a time (`Apart`), a crash while one session exists at most, statements that fail unheard | `OneWindow`, `NoOrphanWindow`, `NoOrphanDir`, `CreatorsDistinct` |
| SessionRecovery (SessionLifecycle) | 2 clients, 1 session, 1 workspace, 2 crashes, storage, misread and tmux faults, any requests at once, fairness | `TypeOK`, `NoAbandonedCreate`, `RunningHasTerminal`, `LongLivedNotReportedDead`, `DeletedIsFinal`, `RegistrySpec`, `ObservedDeathReported` |
| SessionStuckRunning (SessionLifecycle) | 1 client, 1 session, fairness | violation of `DeadIsReported` |
| SessionWorkspaceTaken (SessionLifecycle) | 1 client, 2 sessions, 1 workspace | violation of `WorkspaceKept` |
| SessionScreens (MCSessionScreens) | sessions 1 and 10, 2 clients of which one types, 2 texts, 2 sizes, 2 chunks, 1 restart, failing tmux, fair poller; themes: typing, sizes, one screen, neighbours | `InputWhole`, `OwnWindow`, `TerminalHadWindow`, `SizesAgree`, `ScreenCatchesUp` |
| SessionLaunch (MCSessionLaunch) | 3 session ids, 7 hosts, 2 launches; themes: each of the profiles on each host; one session while files and tools change; three workspaces | `LaunchHonorsProfile`, `PostureTrue`, `OneContainer`, `NoStaleEntry`, `MembersOwned` |
| DaemonHost (MCDaemonHost) | the host: 2 processes, orderly, 2 events, 3 entries, 2 edits, a database of any version; the gate: 2 clients, 2 sessions, 2 approvals, 1 restart that may lose a profile, fairness | `TypeOK`, `Reachable`, `SoleOwner`, `ServesCurrentSchema`, `LogVerifies`, `VerifiedIsRecorded`; `GateTypeOK`, `DestroyIsGranted`, `DecisionFinal`, `PromptsEnd` |
| AuditLossHidden (MCAuditLoss) | 1 process, 2 events, 2 entries, no edit | violation of `LossShows` |
| ApprovalConfused (ApprovalGate) | the gate alone, any policies, no fairness | violation of `DestroyNeedsConsent` |
| SocketStolen (DaemonHost) | 2 processes, starts and stops in any order | violation of `Reachable` |
| ClientHost (MCClientHost) | the list: 1 session, 2 events buffered, 2 parts on the socket, 1 turn, fairness; the keys: 3 sessions; the plugins: 2 files, 2 commands, 1 edit | `TypeOK`, `NoRowTwice`, `AnswersMatch`, `ViewIsRow`, `RequestEnds`, `KeysGoToScreen`, `SelectionFollows`, `GrantIsApproved` |
| MigrationUnreviewed (MCMigrationImport) | 1 agent, 1 session, 2 preferences, no edit | violation of `ReviewedIsWritten` |

**Bounds.** Two clients are enough for every race between two handlers, and the poller is a third party in each; the
handlers touch one session each, so two sessions show every interference between sessions (names, ids, a shared
workspace). One crash reaches every half-done handler; two reach a crash during recovery. `MaxWindows` = 2 distinguishes
none, one and an ambiguous name, which is all the code's calls can tell apart. `MaxApprovals` = 2 gives each session a
prompt, or one session two. The id bounds (`MaxSessions`, `MaxApprovals`) stop creates and requests, not the code:
the gate's theme is therefore run without the deadlock check, since a system with every id used and every delete done has
nothing left to do. Its first daemon's file asks for approval everywhere and the next one's still does or has lost the
profile: to the gate a profile that asks for nothing is like a lost one, and the proofs have all three. In DaemonHost a process
can be started again for ever, so two of them give every sequence of owners;
three entries and two edits are enough to remove or change an entry in the middle, at the end and twice over, with more
appended after it; `MaxEntries` stops appending to a longer file. Symmetry (clients, names) is used in SessionSafety only, which
checks no liveness. Its daemon dies while one session
exists at most: what a crash leaves of a session no other session's steps touch.
In ClientHost the lines of different sessions never meet, so one session is enough; a buffer of two is overrun by a
create alone (three events), and a socket of two parts fills up in the middle of a second frame. `MaxTurns` counts what
could go on for ever: one key, resize, reconnection, restart, change of a screen or end of the daemon, on top of the
connection, one create and one delete by whoever, and any number of polls, drains and lost connections.

In SessionScreens two sessions of which one's name begins the other's are the smallest case of a name that reaches a
neighbour; two chunks have a between, two clients overlap, and two draws let a capture grow stale and a newer one be
overtaken. `Parts`, `MaxDraws` and `MaxCrashes` stop inputs, agents and crashes, not the code. In SessionLaunch the profiles
are all that a file can define but for the approval setting, the hosts cover each platform, a runtime without the
network isolation and runtimes without a backend; two turns give a launch and a relaunch. The workspaces are one link, one
worktree, and two members of one source of which one is a worktree; the last two have one id, so that two sessions share
a directory, and a third session follows them. Ids are used in order, as the counter hands them out. In ClientHost's plugins a
second file shows what must not reach it from the first; two commands overlap or follow each other. A render touches
its own plugin only and starts nothing, so one plugin at a time has asked or failed, with no command at work (`OneRendered`); the theorem has no such bound.

**Where the properties hold.** `OneWindow`, `NoOrphanWindow` and `NoOrphanDir` are checked and proved of `ApartSpec`: two
requests of which one is no create are never at work on one session. They need it: two concurrent restarts
open two windows, and a delete between a restart's kill and its create leaves a window behind. Creates may overlap with
anything; that they work on ids of their own is the code's doing (`CreatorsDistinct`). `OneWindow` and
`NoOrphanWindow` need a tmux that obeys, and `NoOrphanDir` reads and writes that do not fail (`storage`, `misread`: a delete
whose first read fails removes the row and never learns of the workspace); unheard failures of the others do no harm.
The orphan properties are about a host nothing has crashed on: a crash after the tombstone leaves window and workspace
behind. No line of the repository promises otherwise, so these are recorded here and under the hazards, not as findings.
`LongLivedNotReportedDead` excepts windows opened since the poller's snapshot: those the code can report dead.
`RunningHasTerminal` and `NoAbandonedCreate` need the statements whose errors are dropped to succeed (`unheeded`): a rollback
or a recovery that fails unheard leaves what they rule out. They hold with every error the code answers.
`OwnWindow` excepts names of which one begins the other. `SizesAgree` excepts a session from the moment two calls are halfway
with its size at once, one for another session hits its window, the `resize-window` of its launch fails (`backend.rs:402`
drops that, and a new window has the size of the tmux session), or the daemon is started again after a resize (recovery shows
every session at the default size), and until the next launch or resize that tmux obeys and no other overlaps.
`DestroyIsGranted` is about sessions whose profile the loaded file still has, and lets the row alone go by a delete that could
not read it; within these limits no stale, borrowed or lapsed approval destroys anything.
`MembersOwned` excepts a daemon that dies in a delete after the row, whose members nobody lists any more, and the one link of
a create whose source had moved away when its launch failed: `cleanup_path` asks `exists`, which follows the link
(`manager.rs:176`). It also needs storage that answers: when the last update of a create fails, the code keeps the
workspace of a row it removes (`runtime.rs:577-582`); that failure is in SessionLifecycle.
`PostureTrue` excepts a profile redefined since the launch; `GrantIsApproved` a UI that read the store after two commands
overlapped. Each exception is reachable in the model, and section 5 says what the code does there.

**Fairness.** The poller ticks every 100 ms and recovery runs before the first client is served, so both are weakly
fair; a handler that has begun has no step that waits, so each busy handler is weakly fair. Nothing makes a client send
a request, an agent exit, the daemon crash or be started again.
In SessionScreens the poller alone is fair, since it ticks whatever happens; `ScreenCatchesUp` follows from that and from
agents that do not draw for ever.
In ClientHost the connection's task, the handlers and the publishing of what is written are fair, and so is a UI in the
middle of a request; no key is ever pressed for it, and `RequestEnds` says that it is not stuck all the same. In MCDaemonHost's
gate every deadline passes and the poller
expires what is due; nobody has to answer.

**What `LogVerifies` and `ServesCurrentSchema` do not say.** Two limits of the code were met and are promised nowhere (a third
is finding 6):

- A migration killed between two statements leaves a database that no later start opens: the plan starts over and the
  first `ALTER TABLE` finds its column there (`MigrateFails`). What serves is complete, but nothing serves any more.
- A line cut short makes the whole log unreadable, and with it every append (`tail = "cut"`), and a line without its
  newline swallows the next one. Of what the *file* holds the damage is to the last entry at most, as
  `crates/audit/src/lib.rs:145-147` has it: that is the second half of `LogVerifies` (`Stays`). That `verify` then answers with an
  error and not with a shorter history is what the crate's own test wants (`lib.rs:352`); that `append` fails from then on, with
  every later event lost, nobody says.

`VerifiedIsRecorded` is as much as a chain can give: removing entries from the end leaves a shorter history that verifies.

**What `ViewIsRow` excepts.** The list is the daemon's once everything published has arrived, except:

- after a lag: the receiver's `Lagged` is passed over (`main.rs:233`) and the client is not told to list again;
- after a restart, a delete and the rollback of a create, which publish nothing. A session restarted from the command
  line, as the UI itself advises for an exited one (`tui/src/main.rs:799`), stays Exited in its list, and the UI refuses
  to attach to it (795) until it connects again;
- when the poller marks a session between the last write of its create and the event of that write
  (`runtime.rs:577-584`): Running is then the last thing published about a session whose row is Exited.

`AnswersMatch` also says that the branch of `next_event` that discards a response (`cli/src/lib.rs:95`) is never taken by
the UI: requests are not cut short, only `next_event` is.

### Findings

1. **A session can stay Running after its agent died** (SessionStuckRunning). `reconcile_states` returns early when the
   live set is the one of the previous poll (`runtime.rs:227`). A session created and dead between two polls leaves the set
   unchanged, so its row is never compared. `README.md:122`: "a session whose agent dies is reported exited, without
   restarting the daemon". `ObservedDeathReported` is the part that does hold: a death after the poller saw the
   window alive, or found by a recovery, is reported.
2. **A failed create removes another session's workspace** (SessionWorkspaceTaken). `WorkspaceManager::create` runs
   `cleanup(spec)` when a member fails (`manager.rs:109`); when it failed because the workspace exists, what goes is the
   workspace of the session that owns it.
3. **After a daemon restart an approval id names another prompt** (ApprovalConfused). Ids start at 1 in each process
   (`approval.rs:139`), so `approve approval-1`, meant for a prompt shown before the restart, approves whatever has that
   id now. Within one process `DestroyIsGranted` and `DecisionFinal` hold and are proved.

4. **A serving daemon can lose its socket** (SocketStolen). Between the probe and `remove_file` in `clear_stale_socket`,
   and between the end of `run` and `remove_file` in `main` (`main.rs:50`), another process can bind the path; its socket
   is then the one removed. The comment at `listen.rs:71` describes exactly this as what the probe prevents.
5. **An import writes what its report does not mark** (MigrationUnreviewed). `apply` keeps every agent and preference whose
   name is among the names to import, of whatever kind (`migration.rs:301`): an agent the report skips or has already is
   written when a session of that name is importable. `migration.rs:289`: "Only the items the report marked `Import` are
   written, so what was reviewed is exactly what lands."
6. **A lost audit event leaves no gap** (AuditLossHidden). `Runtime::record` drops the error of `append` (`runtime.rs:91`), and the
   next entry takes its number and its link from the file, so the log verifies as if nothing had been lost.
   `runtime.rs:86-88`: "The failure is visible in the log's own sequence, which will show the gap on the next verify."

## 4. Proofs

All theorems are for every number of clients, sessions, names, workspaces and processes, any bounds and any set of
faults; the only assumptions are `SizesAssumption`, `SentinelAssumption`, `ApprovalsAssumption`, `OwnersAssumption`,
`AuditAssumption`, `SameProcesses`, `StreamAssumption`, `ViewAssumption`, `WindowsAssumption`, `ScreensAssumption`,
`ProfileAssumption`, `LaunchAssumption` and `SessionsAssumption`, which say what kind of value each constant is and that a constant standing
for nothing is no such value.

`SessionLifecycle_proofs`:

- `TypeCorrect`: `TypeOK` is inductive; one lemma per helper, one case per action.
- `CreatorsAreDistinct`: not inductive as it stands, since two creators could share an id if the counter handed one out
  again. The invariant is `IdInv`: ids at or above the counter have a blank row (`FutureIdsFree`), every creator's id is
  below it (`CreatorsBelow`), creators are distinct, and a creator about to insert has a blank row (`InsertTargetsFree`).
- `DeletedStaysDeleted`: the action property, from `IdInv`: the only step that could overwrite a tombstone is an
  insert, and its target is blank.
- `CreatesAreNotAbandoned`, unless errors go unheard: from `CreatesGoOn`, which says where a row in the middle of a
  create is followed up: by its creator, by the recovery under way, which still has its id to do, or by the next one.
- `RunningSessionsHaveTerminals`, likewise: from `TerminalsGiven`, which gives each handler about to write Running its
  terminal, each session recovery has matched its window's, and says who brings a Running row without one.
- `LongLivedSessionsNotReportedDead`, whatever fails: from `VictimsGone`. What the poller is about to find missing, or has
  found and not marked yet, has no window, or one opened since the snapshot (`fresh`).
- `SessionsHaveOneWindow`, of `ApartSpec` and a tmux that obeys: from `WindowInv`. An id not handed out has no window, nor
  has the session of a handler before it opens one or after it closed it.
- `NoWindowIsOrphaned`, from `WindowsOwned`: until a daemon dies a window belongs to a listed session or to a delete on its way to
  the kill. `NoDirIsOrphaned`, from `DirInv`: likewise for a workspace, of which creators and deletes hold
  the one they build or remove.
- `LifecycleImplementsRegistry`: the refinement. Each handler step is a step of `SessionRegistry` or a stutter; the
  mapping sends `rows` to `book` without workspaces, and the ids of busy create handlers to `pending`.

`ApprovalGate_proofs`, from the invariant `GateInv` (used ids have been handed out; an id about to be inserted is known
to one handler; a handler names approvals of its own session; past the gate a known gated delete holds an approved one;
nothing is pending and decided at once):

- `ApprovalTypes`, `DecisionsAreFinal`, `DestroysAreGranted`. A restart may change every policy: it also ends every handler,
  so none is past the gate by the word of the file before.

`SessionScreens_proofs`, over `ScreensType`, which is inductive, and a lemma that tells the steps that set a size from all
others (`HandlerQuiet`):

- `SessionsKeepApart`: `OwnWindow`, from `OwnInv`: what a request or the poller has captured for a session is of that session or
  of one its name begins, at the moment it is applied as well, and every typed chunk resolved that way.
- `TerminalsAreBacked`: `TerminalHadWindow`, from `HadInv`: windows and launches past `Open` are among the opened.
- `InputsArriveWhole`: `InputWhole`, from `InputInv`. The parts that came of a typist's input are its first ones, in the order
  they were cut (`InOrder`); how many is told by the answer, or by the part its handler is at (`Progress`). No client but a
  typist sends.
- `TerminalsFitWindows`: `SizesAgree`, from `SizeInv`: of an unmuddled session at most one request is between setting the
  window's size and the terminal's, and the window then has the size the request will give the terminal; with none there,
  the two agree.

`SessionLaunch_proofs`, from `LaunchInv`:

- `LaunchesHonorProfiles`: `LaunchHonors` proves of `LaunchUnder`, as a function, that whatever it does not refuse honors
  its profile, on any host and for any profile that validates; `LaunchInv` adds that every launch is given the profile its
  row names in the configuration of that moment, that a configuration in use parsed, and that rows keep their names.
- `PosturesAreTrue`: from the same invariant and the posture's definition.
- `OneContainerEach`: a container that is left keeps its session's name taken, and there is one name for each session.
- `NoEntryIsStale`: the path a member wants is free when its entries are pruned, so no entry of it survives.
- `NoMemberIsAbandoned`: the action property, from `MembersInv` beside `LaunchInv`: a member is in a workspace directory, that
  of a create at work is there, and nobody is at work without a request. A step keeps every workspace with its row or
  hands it to the request (`StillOwned`), or is a cleanup, after which the directory has nothing left (`CleanedUp`); what
  another session asked for is still that session's (`OthersKeep`).

`TuiHost_proofs`: `KeysReachThePane`, from "while keys go to the pane, what is in it is what is followed"; `SelectionIsFollowed`,
an action property, from `ListInv`: the selection is a line of the list or the first, and what the lines' ids say after each
step (`LinesStay`, `Follows`).

`PluginTrust_proofs`: `GrantsAreApproved`, about what is granted and not about what is asked, from `TrustInv`: every entry, in the
file or in a command, was approved for its path;
while no two commands overlap it is also what was decided last, for a lone command writes back what nobody changed since it
read it; and the UI grants by the entries it read when it started.

`DaemonHost_proofs`:

- `HostTypes`: `TypeOK` is inductive; a lemma for each part, over what any step of the host does to its variables.
- `ServedIsReachable` and `OwnerIsSole`, both assuming `Orderly`: from `OwnInv`, which says that at most one process is
  between two of its resting places, that a process past `bind` has the path, and that one past the probe is alone.
  Without `Orderly` both are false.
- `SchemaIsCurrent`, in any order of starts: from `SchemaInv`. What the version says is there is there; what a migrating
  process lacks is ahead in its plan (`Promised`), and the version is the last statement of it. Columns only grow, so no
  other process can spoil a promise.
- `ChainUnbroken`, assuming `Orderly`: from `OwnInv` and `LogInv`. Only the owner of the path has a draft, so the draft
  still fits the file it was linked to, and appending it or losing the last line keeps a chain (`VerifyAppend`,
  `VerifyPrefix`), and what was ever written stays but for a last line cut short.

- `VerifiedLogIsRecorded`, in any order of starts: what a hash chain proves. By the least counterexample, in a log that
  verifies each entry's hash is of the whole history before it (`VerifiedHashes`), and whatever hash is in the file was
  recorded with that history (`HashesRecordedNext`).

`ClientView_proofs`, each from the ones before it:

- `ViewTypes` and `OneRowEach`, from `ViewInv`: every frame on the socket or being written is an event or an answer, and
  an answer has one line at most for each session, whenever it was made. An event changes the line it finds or adds
  the first (`ApplyLists`); the form adds a line only where there is none (`Push`).
- `ResponsesMatchRequests`: `AnswersMatch`, from `AnswerInv`. While the client's reader is in step, what the library call is at
  says where its one request is: on the socket, with the handler, being answered, or answered, with every other
  frame an event (`OneRequest`); once it is out of step it has read no part of a frame (`WholeFrames`).
- `ListIsDaemons`: `ViewIsRow`, from `RowInv`. `Reached` is what the list will show of a session once everything on its way has
  arrived: the lines shown, or those of the listing the UI is about to get, with the events kept, on the
  socket, being written and in the buffer applied in that order. What that is of a queue depends on its newest event about the session
  and on whether one introduces it (`Lead`), so an event moves from one place to the next without changing
  it (`Ways`). `UpToDate` says that it is the row, but for a session with an event still to publish or unannounced; it
  needs that nothing is sent before the subscription (`BeforeSubscribe`), that lengths and payloads alternate
  (`InStep`), and that a create answers with a session that had run (`CreatedHere`).

**Least counterexamples.** The library's induction theorems cannot be used here, so where a fact about every length of a
log or queue was needed (`VerifiedHashes`, `NewestIs`) it comes from a well-founded order on finite sets: a set of numbers has a
least element (`Least`), a bounded one a greatest (`Greatest`).

**Model-checked only:** liveness (`ObservedDeathReported`, `PromptsEnd`, `RequestEnds`, `ScreenCatchesUp`), since the prover does
not reason about fairness. Every other property of a passing run is the statement of a theorem.

## 5. Met while modelling

What follows is reachable in the models and either contradicts no line of the repository or only a passing one; none is counted
as a finding.

Security and launching:

- A `micro_vm` profile runs in any runtime detected, a shared-kernel container included (`LaunchHonorsProfile` asks only
  for a container).
- `runtime.rs:610` says every launch goes through a `Sandbox`; an uncontained one bypasses `HostSandbox`. `Sandbox::destroy` is
  called by nothing, so a container that outlives its window stays and makes the next launch of that session end at once.
- The answer to a restart and the `SessionStateChanged` event carry the stored, unresolved posture (`contained: false`); the list and
  get resolve it (`with_posture`). After the file was edited and the daemon restarted they answer for the new definition,
  whatever the running agent was launched under.
- Caveats: an empty list reads as "enforces everything", but `credentials = "files"` and `persistence` are enforced by nothing
  and carry none. A contained profile with ambient credentials is given host essentials such as `PATH`. `MemberAccess::ReadOnly` is acted on
  by nothing.
- A host with firecracker or bubblewrap first in its catalog is recommended a runtime without a backend: an unpinned contained
  profile is refused although podman is installed.
- A session whose stored profile is no longer in the security file is deleted with its workspace without an approval, whatever the
  profile asked when it was launched: the gate takes the default profile for it (`runtime.rs:770-775`). A restart
  of it is refused instead.
- Two members named `api` and one named `api-2` collide (`manager.rs:35`). A create whose launch fails leaves the branch it
  made, and for one member the workspace directory, so that a retry under the same branch name is refused.

Sessions and screens:

- An input, kill or resize for a session-1 whose window is gone reaches session-10, by prefix. Recovery adopts a dead
  session-1 through session-10 the same way and calls it running; the first poll repairs the row.
- A `resize-window` that fails after `new-window` is dropped (`backend.rs:402`): the agent draws for the size of the tmux session
  and is shown at the default one until somebody resizes it.
- A session marked Unreachable by recovery is not looked at again until the next recovery (`runtime.rs:166`).
- In Terminal mode keys to a session that is gone are answered with an error nobody reads, and a resize goes to the selected
  session rather than to the attached one.

Plugins and import:

- Of two `plugin trust` or `revoke` commands that overlap one is lost. A revoke takes effect at the next start of the UI: a reload does
  not read the trust file again. 
- `crates/plugin/src/lib.rs:123-124` says that only a plugin granted `commands` ever has any, since "an ungranted plugin has no function
  to produce them with". It needs none: `call_render` drains `__commands` from the context without asking what was granted
  (`lib.rs:500-511`), and the context is a plain table the plugin may write (`Render`). Nothing reads the commands yet, so no
  run is about it; `GrantIsApproved` says what was granted, not what is asked.
- An import may land agent names that `AgentId` refuses, and an agent with a blank command (finding 5) keeps the next daemon
  from starting. A second import overwrites the first one's agents file, and the undo record holds the sessions there were, where
  `migration.rs:12` says that it records what changed.

## 6. Not modelled

- Credentials: no code outside its tests uses the broker or its files, so the system has no behaviour to model. (A grant
  revoked before its expiry is still materialised, `credentials.rs:180`.)
- The ssh tunnel of the command line: one child process, ended when its guard is dropped; `process::exit` in `main` skips that.
- The Lua interpreter, its budget and the tree a plugin returns: a render that fails in any way is one step.
- `FakeBackend` (tests only), `forget_session` (called by nothing), the limit on connections, approval events.
- Drawing and editing in the UI, argument parsing, the layout of command lines, JSON and TOML encoding, and the agents.
- The architecture tests: nothing runs.
- Compositions: SessionLifecycle, SessionScreens and SessionLaunch are three views of one runtime, each exact about its
  own state (rows and window counts; panes and terminals; profiles, workspaces and containers) and coarse about the others'. One
  module with all of it is beyond TLC, so an interaction of all three (two clients restarting one contained session while a
  third resizes it) is in none.
