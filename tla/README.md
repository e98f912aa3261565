# Verification of the k_cockpit control plane

TLA+ models of k_cockpit, the Go control plane that manages KVM hosts through an agent on each
host, with TLC configurations that check them and TLAPS proofs about them. Every definition is a
translation of the code under `src/`; `PROJECT.json` maps each one to its lines. Paths below are
relative to `src/internal`.

## The system

| part | code | state it keeps | operations |
|---|---|---|---|
| task queue | `service/ops/task` | tables `task`, `task_stage`; one scheduling goroutine; one goroutine per claimed task | Enqueue, dispatch/claim/run/finish, stage reports, Cancel, Cleanup, recoverStale, sweepUnknown, Stop |
| agent hub | `agent/hub` | registry of connections, calls in flight, stream bridges | Execute, Channel (attach, receive, detach), OpenStream, StreamData |
| node agent | `nodeagent` | session with the control plane, operations under way, watchdogs, files of its identity | session loop, dispatch, executors, enroll |
| templates | `service/compute/template`, clones, reinstalling and independent disks of `service/compute/vm` | tables of templates and machines, image files and their backing chain | prepare, clone, delete (cascade, promote), rebase, flatten, promote, reinstall, purge the backup, make independent |
| nodes | `service/node`, `repository/node` | table `node` | enrolment token, register, maintenance, remove, derived status |
| schedules | `service/ops/schedule` | table `vm_schedule` | Create, SetEnabled, Delete, tick, fire |
| quota enforcement | `service/ops/quotaenforce` | table of limits and their status | Evaluate, Set, Delete, ResetUsage, executor |
| machines | `service/compute/vm` | tables of machines, snapshots, migrations, settings | create, power, delete, recycle bin, lock, adopt, edit, snapshots, migration, consoles |
| network | `service/network/*` | tables of mirrors, bridges, firewalls, security groups, public addresses; rules and timers on the node | Enable/Confirm/Disable/Reconcile, apply and rollback, preview and confirm, bind and migrate |
| storage | `service/storage/*` | pools, files, upload sessions, chunks | upload, assemble, commit, delete |
| realtime bus | `service/ops/realtime` | subscriptions and their buffers | Subscribe, Publish, Close |
| accounts, settings, audit, mail, monitoring | `service/platform`, `service/ops` | their tables | one-row updates behind checks; sampling and reports |
| web frontend | `web/` | browser state | reads and calls the API |

HTTP handlers call services; a service changes its tables and enqueues a task; the queue claims it,
its executor calls `Hub.Execute`, the hub sends the operation on the agent's connection, and the
answer comes back the same way. Some services skip the queue and call the node at once. Everything
runs in one process that owns the database (instance lock), so a crash loses all goroutines and keeps
the tables and the nodes.

### What must be right, and what is hard about it

- **Task queue.** One resource is worked on by one task at a time; a task runs at most once; no more
  than `MaxConcurrent` run; every accepted task ends, and its stages with it; a verdict stands. Hard:
  the tables are written by the dispatcher, the goroutines of tasks, requests and the recovery after a
  crash, each with single statements between which the others go on, and several updates go by the row's
  identifier alone (`finish`, `Cancel`).
- **Enqueue with an idempotency key.** A retried request finds the task in flight; a retry after a
  failure gets a new one. Hard: insert, find, clear and insert again are four statements.
- **Agent hub.** A call returns, and what it says is true; a node is reached over its newest
  connection. Hard: two locks, a one-place channel for each call, two connections of one node
  at once, contexts that end, results that come late.
- **Console streams.** A session's slot is released once, on every way out; a console ends when either
  side ends; nothing is left in the registry. Hard: six goroutines in two processes, a stream that
  arrives over a different RPC than its answer, channels that are closed under their writers.
- **Schedules.** An occurrence is carried out once or not at all, none is made up for, a due one is
  taken. Hard: scans, edits and deaths between the optimistic update and the enqueue.
- **Machines.** A row stands for the domain its own request made; a deletion that a user asked for and did not force
  spares a running guest; what the row shows converges to what the node has. Hard: checks against the node
  happen when a request is accepted, their effect when its task runs; the collector writes what it saw earlier.
- **Disks.** A machine boots from files that hold all its guest wrote. Hard: a move is several commands between which power, guest and
  two definitions change, and a task acts on what its request saw.
- **Snapshots.** A snapshot shown as ready can be restored. Hard: requests are accepted from a row about
  which other tasks wait.
- **Migration.** The row leads to the machine, and it runs on one node. Hard: three operations on two nodes,
  of which any answer may be lost; requests that read the node before it changed.
- **Templates.** A disk that the table calls full hangs on no template, and a template that is offered has its file. Hard: deleting
  looks at rows, the backing chain is on the node; merging, reinstalling and removing are several steps, of which one may be late; parent and
  child have different locks.
- **Mirrors and uplinks.** What nobody confirmed is undone. Hard: timers on the node, files, a restarting
  agent and overlapping handlers that share them, each a command at a time.
- **Firewalls.** The emergency rollback leaves the node reachable. Hard: two layers hang on one chain, one
  behind the queue and one not, every apply is several commands that overlap with others, and some of their failures are passed over.
- **Security groups.** What is shipped is what the operator saw. Hard: the rules are read by several queries
  in the preview and again in the confirmation.
- **Public addresses.** A free address leads nowhere. Hard: the node and the tables change in two steps, and reloads,
  the platform's repair and queued changes work from bindings and rows that were read earlier.
- **Quota enforcement.** A month's excess shuts the machines down once. Hard: the status is written first,
  then a task is enqueued, while requests write the same row.
- **Uploads.** A chunk marked as received is stored, and a file is made of the chunks that were checked. Hard: parallel
  requests read and write one bitmap and share the temporary file of a chunk, while another assembles the file.
- **Enrolment.** A token admits one agent, and an agent starts only from a state directory that fits together. Hard:
  find-then-update, lost answers, a state directory written file by file.

`PROJECT.json` lists the hazards at their lines, with the properties that watch them.

## Modules

| module | models | instance and run |
|---|---|---|
| `ResourceLock` | abstract: a task waits, holds its resource alone, releases it for good | implemented by `TaskQueue` (property `LockSpec`, theorem `ImplementsLock`) |
| `TaskQueue` | `service/ops/task`: dispatch, execution, stages, cancel, cleanup, recovery, sweep, shutdown | `MCTaskQueue`: `queue_faults`, `queue_restart`, `queue_x_stop` |
| `TaskEnqueue` | `Queue.Enqueue` with an idempotency key | `MCTaskEnqueue`: `enqueue_resources` |
| `Migration` | `service/compute/vm/migrate*.go` with the node operations of both sides | `MCTaskEnqueue`: `enqueue_resources` |
| `AgentHub` | `agent/hub` calls and connections with the agent's session (`nodeagent/daemon.go`) | `MCAgentHub`: `hub` |
| `ConsoleStream` | browser socket, session slots, `OpenStream`, `StreamData`, the agent's end | `MCConsoleStream`: `console`, `console_x_panic` |
| `Schedule` | `service/ops/schedule` | `MCSchedule`: `schedules_quotas` |
| `QuotaEnforce` | `service/ops/quotaenforce` | `MCSchedule`: `schedules_quotas` |
| `VMLifecycle` | requests and executors that make, start, stop, lock, delete, restore, purge and adopt machines of one name; `ops/monitor/collector.go` | `MCVMLifecycle`: `machines`; itself: `machines_x_lock` |
| `Disks` | `service/compute/vm/disks.go`, `edit.go`; `vm.disk.change`, `vm.config.update` and power on the node | `MCVMLifecycle`: `machines` |
| `Snapshots` | `service/compute/vm/snapshot*.go` | `MCTaskEnqueue`: `enqueue_resources` |
| `Templates` | `service/compute/template`; clone, independent, reinstall and purge of `service/compute/vm`; the image files of the node | `MCTaskEnqueue`: `enqueue_resources`; itself: `templates_x_cascade` |
| `PublicIP` | `service/network/publicip` and its iptables rules | `MCWatchdog`: `network_enrol` |
| `Uploads` | uploads in chunks of `service/storage/userstorage` | `MCTaskEnqueue`: `enqueue_resources` |
| `Watchdog` | `service/network/portmirror` and the uplinks of `service/network/bridge`, with the node's watchdogs | `MCWatchdog`: `network_enrol` |
| `Firewalls` | `service/network/firewall`, `service/network/hostfirewall`, their chains on the node | `MCWatchdog`: `network_enrol` |
| `SecurityGroups` | `service/network/securitygroup` | `MCWatchdog`: `network_enrol` |
| `NodeEnroll` | `service/node`, the enrol gateway, `nodeagent/state.go` and the enroll command | `MCWatchdog`: `network_enrol` |
| `TaskQueueProofs`, `TaskEnqueueProofs`, `AgentHubProofs`, `ConsoleStreamProofs`, `ScheduleProofs`, `WatchdogProofs`, `NetworkProofs`, `VMLifecycleProofs` | theorems about the module of the name and about the others of its `MC` module (see *Proofs*) | |

Modules of components that share no state share a run: the `MC` module instantiates the others, and its
variable `part`, chosen in the initial state, says whose next-state relation a behaviour follows; the
variables of the others keep their initial values. The state space of such a run is the sum of those of its
parts, and a property of one part is about its own behaviours only.

Modules whose executors go through the queue do not contain `TaskQueue`: they take what `ResourceLock`
promises, that the tasks of one resource run one at a time, in the order of their rows (`tasks`,
a sequence whose head is the one that runs).

Mutants (`…_Mutant` and a few with names of their own) stand just before the definition they deform.
They are plausible bugs; each property of a passing run is violated under one of them.

### How state and actions correspond to the code

**TaskQueue.** `status`, `cancelReq` and `openStage` are columns of `task` and `task_stage`. `dpc`,
`batch`, `cur`, `slots` and `locked` are the local variables of the goroutine that `Queue.Start` runs;
`run` and `outcome` those of the goroutine of each task; `handler` those of a `Cancel` request. `life`
is the process. `node` holds the operations that nodes carry out. Each database statement is one
action: `recoverStale` is `RecoverOne` then `RecoverStages`, the sweep is `SweepStages` and
`SweepFinish`, `dispatch` is `CountRunning`, `SelectPending`, then `Visit` and `Claim` for
each row, a request is `CancelRead` then `CancelWrite`, and a task's end is `CheckCancel`,
`CloseStage` and `Finish`. A claim is conditional (`WHERE status = pending`), the updates of
`Cancel` and `finish` are not, which the model keeps. `Crash` loses all goroutines and keeps tables and
nodes; `Shutdown` is `stopBackground`, which cancels the context of the tasks before `Stop` waits.
`unknownGrace` is `Age`, an action that may happen to an unknown row at any time, also while the node still
works for it: two minutes are less than the node's operations may take. `NodeExclusive` excuses exactly those
(`OutlivesGrace`). `started`, `lives`, `losses` and `faults` count for properties and bounds.

**TaskEnqueue.** One statement, one action; `req` is the program counter of a request, `keyed` the
rows the unique index knows under the key (at most one: that is the index). The queue's work
on the task is reduced to `Settle` and `Delete`.

**AgentHub.** `reg` is `Hub.conns` for one node, `pending`, `outbox`, `closed` the fields of a `conn`,
`done` the one-place channel of a call (`CloseAnswer` puts the same failure into it that the node could have sent), `hmu` and `cmu` the holders of the two locks. A
critical section is one action unless it sends on a channel while it holds a lock: `closeAll` is
`CloseStart`/`CloseSend`/`CloseEnd`, `attach` is `AttachLock`/`AttachClose`/`AttachSet`. `up` are results on
their way; gRPC keeps the order of messages, but each operation's goroutine sends its own result, so
results are a set. `Dial` replaces a session before or after the control plane notices the end of the
last one.

**ConsoleStream.** `perVM`, `byID` are the session registry, `registered`, `waiters`, `bridge`,
`toAgent`, `fromAgent` the hub's stream registry and channels, `writer`, `reader`, `pump` the goroutines
that copy bytes, `rpc` the StreamData RPC, `agent` the agent's handling of the request. `WriteCheck` and
`WriteSend` are `isClosed` and the `select` after it. A send on a closed channel sets `panicked`.

**Schedule.** `now` counts steps, an occurrence of a recurring schedule is due every `Period`. Weekly
schedules recur as daily ones do. `todo` is what a `tick` read, `scan` where `fire` is. `SetEnabled`
computes (`EditStart`), then writes (`EditWrite`). `last_result` and `last_task_id` are display data.
Two scanners stand for the case the code's optimistic update is written for ("two ticks, or several
instances"); on PostgreSQL the instance lock normally leaves one.

**QuotaEnforce.** `row` is the quota of one user, node and dimension, `used` the sum of the month's statistics,
`job` the loop and the handlers with the row they read. `Evaluate`'s read, its decision, `reset`,
`clearEnforcement`, `markLimited` and the enqueue are steps of their own; an update that goes by the row's identifier hits nothing
when the row was deleted and made anew. `node` is what the executor left on the node.

**VMLifecycle.** `row`, `domain` and `disk` are the machine's row, libvirt's domain and the disk file of one
name; each remembers the request that made it, which is how a row can be seen to stand for another's
domain. The `…Steps` sequences list the round trips of a request in the code's order, one action each.
`ops` are operations that the node has got: their effect and the lost answer are different steps.
What a schedule starts or deletes has one step (`ScheduleSteps`): it is enqueued with no lock, probe or check before it, and
remembered as `unchecked`. The collector's scan (`scan`) and its write are two actions. Two variables are history: `overlap`, two requests to bring the
machine into being overlapped, and `stray`, the node did something to the name for a machine whose row was gone.

**Disks.** `conf` and `live` are libvirt's two definitions of one machine, `exists` the files in the pools' directories, `mirror` a blockcopy
under way. A request and its probe are one step (`Request`), since its task waits afterwards anyway; the node's operation is `Begin`
(everything up to its first change), then `Apply`, or `BlockCopy`, `Pivot`, `MoveFile`, `Dump` and `Define`, one command each.
All writes of the guest to a disk are one bit of each file, `fresh`: does it hold every one of them? `LoseAnswer` ends a task while the node
goes on with it, so that the next task can overlap it. `torn` remembers the five outcomes the code leaves to a human, which `BootsLatest` excludes
and names; they are among the remarks below.

**Snapshots.** `status`, `current` are columns of `vm_snapshot`, `held` what libvirt has; the requests are sequences of
round trips as above, and a task's step covers its node operation and the updates after it, with an alternative for a refusal, a
lost answer and a cancel. `NewestFirst` is the order `DeleteAllSnapshots` sorts by, as the set of the sequences (there is one) that have it, which is a
form that can be reasoned about.

**Templates.** `row` and `machine` are the columns of the two tables that the chain of images depends on, `image` and `disk` the files, each as
the file it is backed by (zero: none); `Readable` is what qemu can open. A request is the sequence of its queries (`CheckClones`,
`CheckChildren`, `PromoteChildren`, or `ReadParent`, `ReadChildren`), then `Enqueue`; a task is the sequence of the files it touches
(`OnNode`), a step each, then what the executor writes (`Finish`). `Lose` fails a task while the node goes on (`Late`). Checks of power and
snapshots only refuse, which `Refuse` does at any step, also when the node works late; `Undo` is the cleanup of a step that fails. `defined` are libvirt's domains: reinstalling
removes the old definition before it writes the new one, and when that fails it puts the old disk back (`PutBack`; `torn` remembers the machine). Clones lock their node,
everything else the machine or template it is about (`Lock`). Of two clones of one name the second fails at its row. A template keeps its name and is made once: what happens to a
name that is used again is among the remarks below. Making a machine is `VMLifecycle`'s; here it is one step.

**Migration.** `domain`, `disk`, `staged`, `memory` are each node's files and domain, `record` the migration rows,
`late` operations that reach a node after their task has failed. The source stages, the target takes
over, the row is committed, the source is cleaned up, each with its message and its answer. `Relay` is external: nothing in the
repository carries the staged files between nodes.

**Watchdog.** `Kind` selects the mirror or the uplink, which order attaching and arming differently. `row` is the
table's, `attached` the node's: how many rows OVS has of the mirror's name, since looking for it and creating it are two commands (`look`,
`attach`), and two rows of one name are found, and detached, by nobody (`Found`). `confirm` and `saved` are the files in the agent's directory, `timers` its
goroutines, which look for the confirm file (`Fire`), detach (`detaching`, `Undo`) and remove the file with the deadline (`forgetting`, `Done`) in steps of
their own. Handlers on the node (`ops`) advance one command at a time and overlap. `Stop`
loses timers and handlers and keeps files; `Start` arms again what `rearmMirrorWatchdogs` finds on disk. `kept`, `robbed` and `torn` are history: what somebody
confirmed, whose deadline another handler or timer removed, and what a restart or a failed detach then left to itself; `Guarded` names them. Of the commands of
`detachMirror`, one for each bridge, only that of the mirror's own bridge does something, and is the step. An uplink has one master.

**Firewalls.** `enabled`, `deny`, `version`, `rules` and `applied` are the two layers' tables, `made` and `chain` the layers' chains on the
node, `hooked` how many jumps INPUT has to each, `drops` its default. The apply and rollback handlers are sequences of iptables commands (`make` is -N, `flush` -F,
`fill` the rules, `unhook` one -D, `hook` one -I, `policy` and `accept` -P, `remove` -X), so that overlapping applies can leave two jumps. A command that fails ends an apply where the code
looks (`Abort`), and is passed over everywhere else and in the whole of a rollback (`CommandFails`). `opening`, `twice` and `opened` are history: rollbacks that no apply
meets, layers that had two jumps, and that such a rollback has ended. The node's firewall calls the
node at once, the host's enqueues a task.

**SecurityGroups.** `effective` is what a request has read so far (groups, then rules, then version), `clock` the
`updated_at` the version is made of. `previews` remembers what was shown.

**PublicIP.** `pooled` is the row of the address (an address that is deleted and entered again has a new one), `bound` and `binding` what the
tables say of it, `dnat` the list of DNAT rules of the address in their order, `route` its route. Check and act of a request are two steps. `tasks` are the queues by resource,
one for each row and one for the platform's repairs, with the state of each task: `Dispatch` sends the oldest, `Work` is the node's effect, `Finish` the
transaction (`bindTx`, `unbindTx`) after its answer. `ReloadRules` and `Repair` carry the binding that they read when they were accepted. The commands of one
operation are one step, at its end; what depends on the order of the commands of two that overlap is excused as `stale`, which also remembers that a reload or a repair worked
from a binding that was released, and that a row was removed while it was bound or being changed. `Overlook` is a command that fails without anybody looking. IPv4 only: the
rules of IPv6 are the same with another command.

**Uploads.** `session` is a user's row with its bitmap, `chunkStore` the control plane's files, `file` and `owner` the node's
file and the row. Storing a chunk is `OpenTemp` (the temporary file, one for each chunk, is emptied), `WriteTemp` and `Rename`; `into` says
where the file that a request has open lies by now, since another request may have renamed it, and `spoiled` remembers the chunks that were written so, or whose good bytes a rejected
chunk replaced. Marking it in the bitmap that the request loaded (`MarkReceived`) comes after; completing is
`Assemble`, `Commit` on the node, `CreateRow`, `SetStatus` and `DiscardChunks`.

**NodeEnroll.** `node` are the rows, `enroll` the command on each host, `disk` the state directory with the agent each of
its files belongs to. `FindByEnrollToken`, the update in `Register`, the `Answer` and the files of `SaveEnrollment` are separate steps. A file
that was written is taken as durable, although the code does not sync it: a host that stops is a process that stops, not a loss of power. `ca.pem` is left out.

## Runs

| run | question | bounds |
|---|---|---|
| `queue_faults` | do the tables implement the exclusive lock, at most once, within the slots, through a crash, a graceful stop, a failed write and a lost answer? | four tasks: two on one machine, one on another, one without lock; two slots; two lives; one failed write, one lost answer. Two tasks make a conflict, the third the second slot, the fourth competes without a lock |
| `queue_restart` | is everything settled once and for all, with its stages, over restarts? | two tasks on one machine, two slots (only the lock keeps them apart), three lives (one may end during recovery), one cancelling request, cleanup of one of the rows |
| `queue_x_stop` | finding | two tasks |
| `enqueue_resources` | one intent, one task in flight, fresh answers; the row of a machine that is moved always leads to it, and it runs once; ready snapshots are held; full disks hang on no template, offered templates have their file; marked chunks are stored, files are made of good chunks | four requests: one fails and is retried by three at once, the smallest number where a key is cleared while another holds it anew. Two nodes, two moves (there and back), two handlers, four requests, two faults. Two handlers, four requests, three snapshots, a limit of two, two faults. A template, one derived from it and a linked clone of that to begin with, a third template and a second machine to be made, three requests of one handler, one fault (two handlers at once take too long beside the others). Two users, two chunks, two handlers, four requests, one fault. Snapshots were checked by hand with five requests as well |
| `hub` | true answers, no forgotten waiter, a registry that a connection leaves only by its own end, calls that return | two calls, two connections, an outbox of one place (full after one message) |
| `console` | slots, registry, ends | one console that streams, one request for the one slot, channels of one place |
| `console_x_panic` | finding | one session |
| `schedules_quotas` | once, never made up for, off is off, due is taken; a user over his quota is shut down once | one schedule of either kind, two scanners, three steps of time with an occurrence in each, threshold of one step (one late occurrence is carried out and the next late one is not), one death, two edits. One quota with limits zero and two, use in steps of two up to four, two handlers beside the loop, two months, two requests, one fault |
| `machines` | a row stands for its own machine, a deletion that a user asked for spares the running, the row converges; what a machine boots from holds what its guest wrote | two handlers, four requests to create, start, delete with the disk kept or by force, purge, restore, lock and adopt, of which starts and deletions also come from schedules, one lost answer: create, delete and create again with a purge or a restore beside it need four. A system disk and a data disk, two pools, four requests, one lost answer, one failed command: start, migrate and two that meet it (five requests were checked by hand) |
| `machines_x_lock` | finding | the same, with clones |
| `templates_x_cascade` | finding | one request, two machines, three templates |
| `network_enrol` | mirrors are guarded, rollbacks open, what was seen is shipped, free addresses lead nowhere, agents start whole and are admitted once | one mirror, two handlers, three requests, two faults (two restarts, or one and a lost answer or failed command): two enablings that overlap and a third request are what the excuses of `Guarded` take; two firewalls, three requests (two applies that overlap, and a rollback), one fault; two groups, two operators, three edits; one address, two machines, three modes, three requests, reloads, repairs or new entries, one fault: a binding that outlives its row takes a bind, a deletion and a new entry, and with three every excuse of `FreeLeadsNowhere` shows (four were checked by hand); two hosts, two tokens, three enrolments, one loss. Handlers are interchangeable, and so are the objects of each part (symmetry), which name no member of these sets |

The bounds are the smallest at which every mutant of the run shows and every action happens, raised as far as
five minutes allow. Deadlock is checked in the three runs of the queue, whose specification says where it may stop; the
other systems end when their bounds are used up, and what should not get stuck there is stated as
liveness.

**Fairness.** Weak fairness of goroutines that can run, of tickers, of handlers under way and of the
transport's keepalive, because Go runs every runnable goroutine and the code starts its
tickers unconditionally. In `TaskQueue` also of nodes that end what they started (their commands
have timeouts) and of the service manager that restarts the process; in `VMLifecycle` only of the
collector's ticker, `Look` and `Sync`. Nothing is fair that a
user, a failure or a peer decides: enqueues, cancels, crashes, lost answers, closed
browsers, edits, the passing of time in `Schedule`. Each handler or goroutine has its own fairness
condition; alternatives of one goroutine share one. The other modules state safety only.

## Findings

- `queue_x_stop`: the shutdown cancels the context of the tasks that `Stop` promises to wait for;
  their final update fails, and rows stay `running` (recovered as unknown at the next start).
- `console_x_panic`: `Write` checks `isClosed`, then sends; `close` closes the channel between.
- `machines_x_lock`: `Purge` never calls `ensureNotLocked`, which `lock.go` asks of every entry that deletes: a
  machine that was locked in the recycle bin is purged with its disk.
- `templates_x_cascade`: `deleteBlockers` asks for linked clones of the template itself; the strategy cascade then removes the files of all its
  descendants, so that a linked clone of a descendant loses the file below it, which the API promises no strategy does.

Seen while modelling, without a run of its own. Where a property excludes one of these, its comment says so.

Task queue and enqueue:

- `Cancel` reads a pending row and writes `canceled` by identifier after the dispatcher claimed it. The
  executor works on, but its row holds no lock any more, so the next task of the resource starts beside it.
  `ExclusiveUnlessCanceled` shows that this is the only way.
- A node that is cut off while it works lets its task end as `failed`, with the resource free.
  `NodeExclusive` therefore excludes lost answers (`losses`).
- The grace period of two minutes is shorter than many operations of nodes: after a crash the sweep records a task as failed, and frees its
  resource, while the node still works for it. `NodeExclusive` excuses these operations and no others.
- `Enqueue` reports an internal error when the conflicting key disappears before it is looked up (`queue.go:255`).

Agent hub and consoles:

- `closeAll` answers the calls that wait with `Success: false`, and `Execute` returns that without an error (`hub.go:155-158`, `227-228`). The
  contract of `Execute` (`agent/agent.go:246-253`) says that a result that cannot be determined is an error, and that `Success: false` means the operation failed; so a
  task is recorded as failed while the node may still carry it out, or has succeeded. `AnswersTruthful` excuses the calls of a closed connection, and only their failures.
- `Execute` can track its call on a connection that was closed and emptied after the lookup; nobody
  answers, so the call ends only with its context, and executors have contexts without a deadline.
- `closeAll` blocks with `c.mu` held when a pending call gave up (its context ended) with its answer
  unread in `done`: `untrack` waits for `c.mu`, the channel is full, and under `attach` the
  hub's lock is held too. `ServedCallReturns` therefore excludes ended contexts.
- `attach` of an older connection that is delayed past its successor's replaces the successor.
- The three-second dial context is also the context of `StreamData` and is canceled as soon as the answer is
  queued (`daemon.go:226`), which ends the console.
- A VNC server that closes is not propagated (`pumpVNC` waits in `Recv`); switching a console off
  releases its slots but leaves its streams (`console.go:584`); a failed upgrade leaves its stream open; a
  stream whose RPC never arrives leaves `pipeConsole` waiting. `ServedConsoleEnds` is about streams whose RPC did arrive.
- The agent's receive loop waits for its outbox (`daemon.go:198`), so a pump that died on a message it could not
  marshal would stop it; the control plane never sends such a one.

Schedules and quotas:

- `SetEnabled` may write a next time that has passed meanwhile, so one occurrence can be
  carried out twice; `FiredOnce` and `NotMadeUp` exclude these edits (`stale`).
- A one-shot schedule switched off and on before its date never runs (`service.go:252-255`).
- The status of a quota may be ok while the node still throttles: the enqueue or the task failed, and `Evaluate`
  skips a status that is as wanted, so that the comments that promise a retry at the next evaluation do not hold. One iptables
  chain per user is shared by three dimensions, and `ips` is never sent.

Machines:

- Migrating a disk under a running guest writes the live definition over the one for the next boot, and so drops what was deferred to it: a
  hot addition, or a disk whose attaching fell back to the next boot, of which the comment says it is there after a restart
  (`ex_vm_edit.go:519`). The model reaches this in three requests.
- To `vmRunning` a paused guest does not run: its disk is moved by its file under an open qemu, and what it writes once resumed is lost. A
  definition that cannot be written after the pivot leaves one that names the old file; a pivot that fails leaves its copy, so that later migrations
  refuse, and in the users' directory the copy would be attached as the disk. A lost answer lets a start open a file that is still being moved.
- The idempotency key of an attach has no file and the web interface names no device (`DiskTab.tsx:520`): a second attach is answered with
  the task of the first while that is in flight. The key of a migration has no pool. `BootsLatest` says nothing of this.
- A migration leaves the row of the user's file as it is, so that a disk that was moved and detached cannot be attached again; `loadAttachable` does
  not ask whether the file is in use by another machine. `vmConfigUpdate` reports success for keys it skipped, and the executor writes them to the row.
- A start or a deletion goes to the node by name. One whose check precedes a purge, and whose task is enqueued or runs after
  it, acts on the next machine of the name: a start held in its request, a purge, a creation, a deletion that passed its checks, then the start and
  the deletion kill a machine that runs. It takes five requests (checked by hand with creations, starts, deletions and
  purges only); `SparesTheRunning` excludes it as `stray`.
- A deletion that a schedule carries out (`ops/schedule/scheduler.go:318-335`) is enqueued without a probe, without a look for active tasks and without
  `ensureNotLocked`: it takes a running guest down, and a locked machine. `SparesTheRunning` is about the deletions that a user asked for.
- An offline migration of a disk whose `DumpXML` fails after the file was moved returns without moving it back (`ex_vm_edit.go:685-688`): the definition names a
  file that is there no longer.
- A plain delete removes the disk, although `docs/03-api/API.md:406` and `CHANGELOG.md:543` say that only a purge does.
- `delete all` can take the current snapshot, which `model/snapshot.go:90-92` excludes for deletions.
- A migration accepted while power tasks wait lets a start that waits behind it run on the old node; a canceled
  or recovered task leaves its migration record pending or running for ever; the count of running migrations and the
  insert are two statements.
- Quotas of compute count rows that are there: creations that were accepted and have not run, and concurrent ones,
  exceed the quota together.

Templates:

- Deleting with `promote` moves the rows of the children and rebases no image: a child whose image was rebased onto the deleted one can no longer
  be read, although the comment of `promoteChildren` says it no longer depends. `promote_delete` looks for no linked clones.
- Tasks of parent and child have different keys: a child can be rebased onto a parent that `promote_delete` is removing. A clone's row is
  written after the node's work, so that a deletion that looks in between misses it; `deleteBlockers` ignores rows with `present` false.
- A template deleted twice, with one of its name made in between, loses the new file; two preparations of one name both pass the `Stat`. The
  clone path of `vmCreate` writes over a disk that is there.
- The backup of a reinstalled clone still hangs on its template while the row says full; a late reinstall can write over it. Adopted domains are
  marked full without a look (`adopt.go:124`); they are not in the model.
- A failed update after the files were removed is only logged: the template stays on offer without its file.

Network:

- A mirror: old timers are not canceled and fire into a later enabling; `Confirm` after a detach succeeds;
  `Confirm` races `Reconcile`; the platform repair makes a mirror again without a watchdog. A late timer or a late `Confirm` removes the file with the
  deadline that a newer enabling wrote: after a restart of the agent nothing is armed for it. Two enablings that overlap make two rows of one
  name (`ex_net_security.go:791-807`, `853-856`), which neither the watchdog nor `Disable` can detach. A detach of the watchdog that fails is not tried again. A restart between attaching
  and arming leaves the mirror to itself. `Guarded` names all four.
- An uplink loses its timer when the agent restarts, since nothing is on disk: `Guarded` fails for
  `Kind = "uplink"`, and no comment promises it there. Attaching again removes the confirm file of the first.
- Firewalls: applies of one layer that overlap leave two jumps to its chain in INPUT, of which a rollback removes one (`ex_net_security.go:262-264`, `293`): the
  layer goes on filtering what reaches it, if the chain is filled again. A rollback passes over every command that fails, opening the default included, and reports success, although
  its comment says that it must not fail (`ex_net_security.go:286`). `RollbackOpens` excuses both. A rule created after an apply took its rules is marked applied (`hostfirewall/executor.go:54-61`);
  the version moves after the insert, so an apply can ship what was not approved; applying the node's
  firewall again flushes its chain while the policy drops; a rollback unhooks before it accepts, and only
  updates the row of its own layer; `hostFirewallApply` ignores `default_action`.
- Security groups: the control plane sends the directions `ingress` and `egress` (`model/security_group.go:11-12`), the
  node knows `in` and `out` (`ex_net_security.go:110-125`), so every rule is skipped and the chain only drops, while the task
  succeeds with nothing applied. `DeleteGroup` counts attachments and then deletes, so an attachment in between leaves a deleted group attached.
- Public addresses: a NAT migration leaves the old machine's DNAT rule first in the list (`executor.go:48`); two
  `Bind`s both find no active binding. A reload and the platform's repair (`platformcheck/service.go:261-286`, under the lock of another resource) bind again what
  they read: an address that was released meanwhile leads to a machine once more. `Unbind` overlooks commands that fail and reports success. `Delete` checks and acts in two steps, so that a binding
  may be under way, and one that waits behind a deletion leaves rules for an address that is entered again as free. `FreeLeadsNowhere` excludes these (`stale`, `faults`).

Storage and enrolment:

- Two requests that upload one chunk at a time write to one temporary file (`chunkstore.go:78-90`), while each digest is of the bytes in
  memory: what is marked as good can be the other request's bytes, or a mixture, although the comment at `chunkstore.go:54-60` says that no broken chunk can
  come out of this. `MadeOfGood` excuses these chunks (`spoiled`).
- The path of a user's file has no user in it: another user's commit writes over the first file on the node before the
  unique row refuses it. Chunks are discarded when the node's digest differs, although a comment says they
  are kept, while the bitmap stays complete: the session is stuck. The digest of the whole is compared with nothing the client
  sent; sessions are never deleted, so a path that expired cannot be uploaded again; parallel chunks lose each other's bits
  (a repetition heals it); `DeleteFile` leaves the file on the node.
- Two overlapping registrations with one token both succeed, and the later one keeps the row; a lost answer leaves
  a spent token, and the agent's retry is refused; a registration on a row that was removed meanwhile updates
  nothing and still hands out a certificate; enrolling again over a directory and being cut short mixes the old key with the
  new certificate. `AdmittedOnce` and `StartsWhole` exclude exactly these.
- The realtime bus drops events of slow readers, on purpose.

## Proofs

All theorems hold for every value of the constants that satisfies the named assumption of the module, without
bounds on crashes, errors or requests. tlapm checks them from nothing.

`TaskQueueProofs` (`TaskQueueAssumption`: finite sets of tasks identified by naturals, a lock for each):

- `TypeCorrect` from `Typed`: the type invariant and what local variables mean (`LocalsOK`: the
  dispatcher's `cur` is a task where it is used, an outcome is terminal).
- `ResourcesLocked` from `LockInv`. `LockExclusive` alone is not inductive: the claim happens a statement
  later than the test of the lock. `ClaimSafe` adds that what the dispatcher established about
  `cur` still holds, because (lemma `OnlyClaimGrants`) no other action makes a row a holder.
- `ExecutedOnce` from `OnceInv`: a row that can still be claimed was never claimed. Recovery moves
  running rows to unknown, never back to pending, which is what this needs.
- `SlotBound` from `SlotInv`: running rows plus free slots the dispatcher counts on stay within
  `MaxConcurrent`; others only make rows stop running between its count and its claims.
- `ImplementsLock`: `Spec => Grant!Spec`, absent and pending mapped to waiting, running and unknown
  to holding. Every step is a step of one row (lemma `RowChange`) or a stutter; the grant
  uses `LockInv`.
- `VerdictsStand`, an action property, from `VerdictInv`: whoever is about to write a row by
  identifier alone finds no success or failure there (`RunRows`, `SweepRows`, `HandlerRows`, `LifeOK`).
- `ExecutorsExclusive` from `RunRows` and `LockExclusive`.
- `StagesClosed`, for `MaxFaults = 0`: a task that is settled, or about to be, has no open stage; a failed write
  of a stage would leave one, and the code only logs it.
- `NodesExclusive`: an operation on a node belongs to a row that still holds its
  resource, or that the sweep has recorded as failed after its grace period, unless an answer was lost or a cancel came too early; so two operations on
  one resource would be two holders, or one of them outlived the grace.

`TaskEnqueueProofs` (`EnqueueAssumption`: identifiers are naturals other than zero): `IntentOnce` and `AnswersFresh` from one
invariant. The index gives `OneKey`; a task in flight never loses its key because a request clears only keys of rows
it read as terminal and terminal rows stay so (`ReadSettled`); between its two insertions a request finds the key only
on its own find or on a younger row (`KeyYounger`), which is why the winner's task is a fresh answer.

`AgentHubProofs` (`HubAssumption`):

- `HubTypes` from `Typed`: types, and that a call past its lookup has a connection (`Located`).
- `AnswersAreTruthful` from `Truth`: a message is in one place at a time — outbox, on its way, under way at the node —
  and belongs to the call's own connection (`Placed`); a result exists only where the node is done, or, if it is a failure, where the connection was closed (`Earned`); nothing that was answered "not
  delivered" was ever placed (`Fresh`).
- `WaitersAreKnown` from `Memory`: a call that waits is pending on the connection it tracked, or its answer lies in its
  channel, also while `closeAll` walks over the calls (`Tracked`, `Remembered`, `Closing`). Which of the pending calls it takes next is a `CHOOSE`
  of the smallest; that there is one is lemma `LeastOf`, from well-foundedness.
- `RegistryIsServed` (the registry never keeps a connection whose goroutine is over) and the action property `RemovalIsOwn` from the types and the places of the connections' goroutines.

`ConsoleStreamProofs` (`ConsoleAssumption`): `ConsoleTypes`; `SlotsCounted` and `SlotsFreed` from `SlotInv`, where the counter is the
cardinality of the sessions that hold a slot and each of them is in `byID`; `ConsolesReached`: what is opened was dialled.

`ScheduleProofs` (`ScheduleAssumption`): `DueTimeFiresOnce` and `MissedStaysMissed` from `IInv`. `FiredOnce` is far from inductive: a
claim and its enqueue are two steps, so that claims in flight count as fired (`Apart`), and the next time of a
row is later than the clock of every claim and every firing before it (`Ahead`). `OffIsNotClaimed` is an action property from the
same invariant.

`WatchdogProofs` (`WatchdogAssumption`): `WatchdogTypes`; `MirrorGuarded`, for `Kind = "mirror"` and one port, from `Watched`
(what is found and excused by nothing has a handler that will arm, a timer, or while the agent is down its file) and `ConfirmsThis` (the confirm file is of the present
enabling, or about to be removed by it). What a handler has still to do is one of the suffixes of its commands (`Todos`), and what it saw when it looked may have
changed since: lemma `StillWatched` says that it does not matter, as long as whoever finds one row leaves it with a timer.

`NetworkProofs` is about the other parts of `MCWatchdog`; of their constants it needs that the bounds are numbers (`PartsAssumption`):

- `RollbackIsTheWayOut`. `RollbackOpens` speaks of the moment a rollback has ended; `Settled` says of the whole time from its acceptance that no apply is
  under way, and `OnItsWay` how far the node is in taking the two chains from INPUT: behind its `unhook` a layer has no jump, or had two (`Free`), because nothing but an apply
adds one. That a late command of the rollback is still the one that was accepted
  needs the numbers (`Numbered`): the model counts requests, so that two rollbacks are told apart.
- `AppliedWasSeen`. A version names rows by identifier and time. `Distinct`: every write takes a time of its own, so that a row is told by these two; `Dated`:
  each preview came of rows that had been written by then, and a row with the key of one of them is that one. So equal versions are equal rules, although both
  requests read with three queries.
- `FreeAddressIsClear`. `InLine`: only the oldest task of a queue was sent; `OneWaits`: while no answer was lost, what the node has is a reload or what the oldest task of
  its queue waits for (`AtHead`). `RulesFit`: without a binding the node has nothing, but where a transaction that binds is still to come, nor where one that unbinds is (`Awaits`): the
  node's effect comes first, and until then a reload or a repair that adds the rules again is `stale`. `StatusFits` joins the status of the address, which the property is about, to the binding.
- `DirectoryStartsWhole` from `Fitting`: between two files of `SaveEnrollment` the directory either has no
  `agent.json` yet or is one that was enrolled into before (`halfway`), and what is written so far is of the agent that is being saved.
- `TokenAdmitsOnce` from `Unspent` and `Admitted`: a row that still has its token has no agent, so that only an overlapping
  registration can take a row from an agent that got its answer; from the answer to the last file the agent stays known to some row.

`ScheduleProofs`, second part (`QuotaParameters`: the loop is none of the handlers, and starting values are numbers): `LimitShutsDownOnce` from
`Covered`. The loop carries a row it read long ago; what it may still do with it (`Judges`, `Edge`) is counted as a shutdown in hand, and an empty `limited_at`
pays for one more only if the loop is not judging that very row (`Shared`).

`TaskEnqueueProofs`, second part (`PartAssumptions`: bounds are numbers, the machine's first node is one of the nodes, a machine is not
called by a template's number):

- `RowNamesTheMachine` and `MachineRunsOnce` from `MovesInv`: unless an operation outlived its task or a task ran astray (`Excused`, which never ends), the
  first task says what holds on both nodes (`UnderWay`: stopped at the source before the target begins, complete there before the commit), and the others wait.
  `RunsOnce` alone is not inductive because the guest runs at the target before the row says so (`Taken`).
- `OfferedIsHeld` from `SnapsInv`: what is offered, and also what a request or a task is going to restore, is held, or its deletion is in doubt, or the head
  task is deleting it (`OfferedAccounted`); nobody but its own request knows a row that has no task yet (`OwnOnly`, `NobodysYet`).
- `FullIsAlone` and `OfferedHasFile` from `TemplatesInv`. A machine that is full, or that the head task is making so, is `Firm`: its disk hangs on nothing, and
  while a reinstallation may come back late, neither does the disk that is set aside (`StaysAlone`); at most one step of rebuilding is on its way (`OneRebuild`). A template
  is `Pardoned` (deleted, in doubt, under removal) or has its file, and a copy under way is the only one of its name (`CopyIsNew`). The first attempt failed
  for a good reason: the model had let a clone overwrite a row of its name and had left out that reinstalling may lose the definition; both were corrected from the code
  (`uniq_vm_node_name`, `vmReinstall`), with `defined` and `torn`.
- `MarkIsStored` and `FileIsMadeOfGood` from `UploadsInv`: a chunk is `Sound` when it is stored as it was sent, or was spoilt by a rejected one written over it or by two
  requests that wrote it at a time; a request that writes alone (`WritesAlone`) renames what it wrote; the bitmap of the
  row, the one each request has loaded, what it assembles and what it carries are sound all along (`RowSound`, `AllCarry`), which is why parallel requests that
  lose each other's bits never add a wrong one.

`VMLifecycleProofs` (`LifecycleAssumption`), all three from one invariant whose parts are:

- `Typed`, which says of every request what it has still to do at the step where it is (`Place`);
- `Numbered`: a request, then its task and the node's operation carry one number, and no two at a time; an operation whose
  task is still there has a running task. `Ordered`: of two tasks of one resource the later one is pending;
- `Known`: a machine that has had a row is not being brought into being again, so that a row that appears
  is never that of a machine some request or task is already about;
- `Births`: if no two creations or adoptions overlapped, there is one at a time, there is no row meanwhile, and the domain it made is
  the one its row will stand for. `RowsStandForOwn` is one line of it; that line alone is not inductive, since the row
  is written long after the domain is made;
- `Undisturbed`: behind the check of a deletion there is no earlier start, and the machine does not run, until the node has
  deleted. It is why `CheckedDeletionSpares` holds although the check is several steps old. The proof found the case of `stray`: the invariant
  could not be kept through a start that outlived its row. Of a deletion that a schedule asked for (`unchecked`) it says nothing.

Most requests' steps are instances of one relation, `Advance`; removals from the queue share the lemmas `Drop…`.

`VMLifecycleProofs`, second part (`DisksParameters`: a directory to attach from is one of the pools, names differ, bounds are numbers): `OffBootsLatest` from
`DisksInv`. `BootsLatest` speaks of a machine at rest. In between, either the run is `torn` or the node is at one operation, and

- a definition `Holds` a disk if it names a file with all that was written, agrees with the running guest's definition, and no stale copy lies where disks
  are attached from. The one for the next boot holds every disk but the one that is `Moving`, the one that the guest runs with holds all, and so does the one that
  is about to be written back (`Written`);
- a file in that directory holds all, or its disk is moving (`HomeHolds`); a mirror exists only for a block copy that runs (`Mirrored`);
- `Move` says what a migration has done by each of its commands, whether or not the guest, which the node asked about once, still runs.

The proof has a lemma for each command; an operation that ends is covered by `DoneSafe`, one that has not begun to copy by `CalmSafe`.

Every safety invariant and every action property of the passing runs is a theorem. Only model-checked: liveness (`EventuallySettled`,
`ServedCallReturns`, `ClosedForgotten`, `ServedConsoleEnds`, `DueIsTaken`, `ProjectionConverges`), which is out of the prover's reach. The theorems are about each module's own
`Spec` (instances `M`, `S`, `T`, `U`, `Q`, `D`, `F`, `G`, `P`, `N` of the `MC` modules); that a run chooses one of its parts is a matter of TLC's.

TLC checked `TemplatesInv` and `DisksInv` before they were proved, on the bounds of the run and beyond them: with three faults, and with three pools and five requests.

## Plan

1. *(done)* the task queue, its lock and proofs; enqueue; hub; consoles; schedules.
2. *(done)* machines, disks, snapshots, templates, migration; mirrors, uplinks, firewalls, security groups, public addresses; quota
   enforcement; uploads; enrolment; the proofs of hub, consoles, schedules, mirrors, enrolment, machines and the rest of the queue.
3. *(done)* theorems: disks, snapshots, templates, migration, uploads, quotas, firewalls, security groups, public addresses; with them every safety property of the
   passing runs is proved.
4. Modules: interfaces and definitions edited by hand, copies of templates between nodes, storage pools.

## Not modelled, and why

Executors on the node build libvirt, OVS, iptables and file commands: where a protocol depends on
them, their commands are steps of the modules above; what else they do to a host is outside of the control plane's
state. HTTP handlers parse, authorize and call one service. Interfaces, optical drives,
tags and guest access change one row behind checks and enqueue one task, which the queue's model covers;
imports are chains of files on nodes, each step one task. Switches, access lists, storage pools and packet
captures are tables that are pushed to a node one row at a time. Compute quotas sum tables and compare, without a lock that a
property could be about. Accounts, sessions and settings are one-row updates behind the checks of one request.
Monitoring, reports, search, logs and mail compute and append. The realtime bus is one mutex around a map with
sends that do not block. The database is taken as linearizable single statements; where the code has a transaction
(`bindTx`, `unbindTx`, the commit of a migration), the model has one action. The web frontend only calls the API.
`PROJECT.json` lists every component with its reason.
