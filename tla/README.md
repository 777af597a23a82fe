# TLA+ models of pi-agent-orchestrator

This directory holds the formal models kept beside the extension's source
(`src/` of the repository): TLA+ modules, the TLC configurations that check them
on small instances, and machine-checked proofs of the properties that matter
most.  `PROJECT.json` lists the components, runs, mutants, findings, hazards and
theorems, and maps every definition to the lines it models.

## The system

The extension lets one pi session run subagents.  It is one Node.js process:
handlers run to completion, and everything hard happens between two `await`s,
between a timer and the callback it races with, and at shutdown.

| Part | State it keeps | Operations | Talks to |
|---|---|---|---|
| `AgentManager` (agent-manager.ts) | records, FIFO queue, `runningBackground`, `completionGates`, session usage | spawn, drainQueue, startAgent, finalizeAgent, abort, resume, cleanup, clearCompleted, abortAll, dispose, setMaxConcurrent | agent runner, worktrees (awaits), `onComplete` callback, hooks |
| `BatchOrchestrator` | current batch, debounce timer, partial mark, batch counter | addToBatch, markBatchPartial, flush, finalizeBatch | group join, swarm join, hub |
| `GroupJoinManager` | groups, agent-to-group index, timers | registerGroup, onAgentComplete, onTimeout, deliver | hub, through a callback of index.ts |
| `SwarmCoordinator` | swarms, waves, quorum, delivery rate, timers | createSwarm, addAgentToSwarm, onAgentComplete, onTimeout | hub, through a callback of index.ts |
| `NotificationHub` | held messages by key | schedule, cancel, sendIndividual | the conversation (`pi.sendMessage`) |
| `get_subagent_result` | active waiters per record, `resultConsumed` | read, wait, cancelled wait | manager's promises, hub |
| `Agent` tool, orchestration dispatch | none of its own | single spawn, crew and swarm fan-out, cancellation of a failed fan-out | manager, batch |
| `SubagentScheduler` | timers, in-flight marks, last fire times, generation | start, stop, addJob, updateJob, removeJob, executeJob | store, manager |
| `ScheduleStore` | cache of jobs, file, lock directory | add, update, remove, load, save | the file system, other processes |
| `HookRegistry` | handlers by event | register, unregister, dispatch | handlers (awaited, with timeout) |
| Agent runner (agent-runner.ts, agent-runner-validator.ts) | per run: budgets used, abort cause, fallbacks and revisions left; shared: the circuit breaker of model failures | runAgent, its event subscriber, abort forwarding, adversarial validation, resumeAgent | model sessions (awaited prompts), hooks, validators |
| Agent types (agent-types.ts, agent-registry.ts) | the registry of types, replaced on reload | getConfig with a parent's restrictions, reload | manager (at the start of an agent), runner (tools and prompt) |
| Worktrees (worktree.ts) | directories and branches of the repository | createWorktree, cleanupWorktree | git commands (awaited, with timeouts) |
| Settings (settings.ts, ui/settings-*.ts) | global and project file; values in the components they configure; captured limits | load, apply, menu entries, save, notices | the file system, other processes, the user's editor |
| Dashboard (ui/agent-dashboard.ts) | cursor, marks, views, cached list, dirty flag, timers | poll, render, keys | manager's records, the host's renderer |
| RPC handlers | rate-limit windows, subscriptions | ping, spawn, stop, usage | manager |
| Others | prompts, skills, logs, telemetry, widgets | | |

Behaviours that are hard to test: a startup that awaits `git worktree` while the
queue, the slot count and the agent's status move on; abort before, during and
after a run; completion before the batch it belongs to is finalised; group and
swarm timers between two completions; a message replaced while it is held; a
wait cancelled as the agent ends; shutdown in the middle of all this; an abort
between two prompts of a run; a blocked text whose revision fails; git commands
that fail after they have worked; a type reloaded or a parent removed while its
child waits; a handler that unregisters during its own dispatch; a change under an
overlay that must still reach the list; two processes saving one settings file.

What each part promises:

* manager: the slot counter is exact, the queue loses nobody and is FIFO, no slot
  stays free while somebody waits, every promise settles, who awaited it finds the
  record final, every background run is reported once, a stop is kept;
* batch, joins, hub, retrieval: a finished result is announced or read, not
  forgotten; announced at most once; never after it has been read;
* scheduler and store: changes of several callers and processes are not lost, a
  job never overlaps itself, a stopped scheduler arms no timer;
* runner: every run ends, within its budgets; no text the end hook rejected is
  returned; a failure does not pass for silence; the first cause of an abort stays;
* types: an agent has no tool its parent's type or its own denials withhold, and its
  prompt speaks only of tools it has;
* worktrees: changes are in a directory or on a branch, and the report says where;
* hooks: handlers are asked by priority, each once, but for the changes made
  meanwhile; settings: what was chosen comes back, what the menu does not know stays;
* dashboard: what is drawn from the cache is current, every change is drawn;
* RPC: no more calls than the limit per window; budgets: no spawn above a limit.

## The modules

| Module | Models | How |
|---|---|---|
| `AgentManager` | agent-manager.ts; the session handlers of index.ts | one action per code section between two awaits; `pc` names the await an agent is suspended in |
| `MCAgentManager` | | spawn kinds and symmetry for TLC |
| `AgentManagerProofs` | | the inductive invariant and its proof |
| `GroupJoin`, `SwarmJoin` | one group, one swarm, as a value and the functions its methods compute | used by `Delivery` for the groups and swarms by batch number |
| `Delivery` | batch-orchestrator.ts, notification-hub.ts, tools/get-result.ts, the fan-out of tools/agent.ts, onComplete and the delivery callbacks of index.ts | composes the two joins with batch, hub and waiters; one action per callback |
| `MCDelivery`, `DeliveryProofs` | | symmetry for TLC; lemmas on the desk, the invariant and its proof |
| `JobOps` | the mutations of schedule-store.ts | what each does to a table of jobs, and when it is refused |
| `JobTable` | what the store promises | an atomic table, generic in its operations; used by `INSTANCE` only |
| `ScheduleStore` | schedule-store.ts | several processes, one cache each, the lock directory, load, change, save, crash; implements `JobTable` |
| `MCScheduleStore` | | calls, saved jobs for TLC |
| `ScheduleStoreProofs` | | lock, limit, types and the refinement |
| `Scheduler` | schedule.ts; the start in index.ts | one action per code section between two awaits, over the file, the cache of the bound store and the lock |
| `MCScheduler` | | symmetry for TLC |
| `SchedulerProofs` | | the inductive invariant and its proof |
| `AgentRunner` | runAgent and its validators | a record per run; one action per await of the code and per event of the session; the breaker is shared |
| `MCAgentRunner`, `AgentRunnerProofs` | | kinds of runs for TLC; the invariant per run and its proof |
| `AgentTools` | getConfig, the registry, and runAgent's choice of tools and prompt blocks | the session of an agent as a function of registry and records at its start |
| `MCAgentTools`, second part of `AgentRunnerProofs` | | nine configurations for TLC; lemmas on the operators |
| `Worktree` | worktree.ts | one action per git command, failing before or after its effect |
| `MCWorktree`, `WorktreeProofs` | | two ids with one branch name for TLC; the invariant by command and its proof |
| `Hooks` | hooks.ts | the live list of one event, and dispatches iterating over it |
| `MCHooks`, first part of `LiveListProofs` | | four handlers for TLC; what a dispatch misses and repeats, counted |
| `AgentDashboard` | ui/agent-dashboard.ts | timers, renders and keys over a cached list |
| `MCAgentDashboard`, second part of `LiveListProofs` | | the agents for TLC; the cache between the last refresh and now |
| `Settings` | settings.ts, settings-schema.ts, settings-snapshot.ts, the start and the listener of index.ts | two files, several processes, a save in its three steps |
| `MCSettings`, `SettingsProofs` | | hand-written files for TLC; the invariant and its proof |

### AgentManager

`status`, `inMap`, `queue`, `runningBackground`, `maxConcurrent`, `gate`,
`spawnedAgents` are the fields of the same meaning in the class; `pc` is the
position of `startAgent`/`runAgentWithWorktree`/`finalizeAgent` for the agent,
`completions` counts calls of `onComplete`; `counted` and `strays` are history, the
agents accepted since the last reset of `spawnedAgents` and the refunds for agents
accepted before it (`Refund`).  Four spawn actions are the four ways
`spawn` goes on (queued, worktree setup, running, already aborted); `Setup...`
are the continuations after `createWorktree`, `RunEnds...`/`CleanupDone` those
after the run and after `cleanupWorktree`.  `drainQueue` is the operator
`DrainQueue`: it states which prefix of the queue the loop consumes.

Decisions: `onStart` (index.ts 248-255) only repaints and does not throw; the
promise of a run resolves in the step that ends `finalizeAgent`; an agent has a
session from its first running state on (`resume` needs one); an abort of the
parent's signal is `abort(id)`, and a queued member of a fan-out whose signal is
aborted already is aborted at once; the host calls nothing after `dispose`;
the clean-up age is any subset of the removable records; `resume` is bounded by
`MaxResumes`.  Budgets per task and per level, turn counts and thresholds are
left out (see Plan).  What a run does between its start and its end is
`AgentRunner`'s, what a worktree does is `Worktree`'s, what tools it starts with
`AgentTools`'; here they are outcomes.

### Delivery

`run` is what this part sees of an agent: live, ended (terminal record, run not
over: `abort` of a running agent), reported (`onComplete` called).  `desk` bundles
the groups, the swarms and the held messages because one callback changes several
of them; `Post`, `GroupHandles`, `SwarmHandles`, `Route` and `Finalize` are
functions from desk to desk and follow the call graph.  `finalizeBatch` replays the
members that have completed: into a group one after the other in one callback, so
`GroupHandles` takes the set of them; into a swarm while it is being filled, so
`WithSwarm` goes through the batch in order.  `refused` and `overtaken` record the two
ways a result leaves the desk unsent.

Left out: retries of group delivery (the callback schedules before it could
fail), disposal of swarms five seconds after the end, quorum and batch
strategies and progressive delivery (never configured by the extension), swarms
made from the dashboard, resumed agents, shutdown, removal of records, the text
of messages.  Mode "group" and mode "smart" are treated alike by the code and by
the model.  Timers are not ordered against each other except that a swarm's timer
(many seconds) fires only when its last message has been sent (200 ms) and its
rate window (1 s) has passed.

### ScheduleStore

`file` and `exists` are the backing file, `lock` the owner token in the lock
directory, `cache` is `this.jobs` by process, `pc` the await a mutation is
suspended in: `locking` (retrying mkdir), `loading` (lock held, file not read),
`saving` (cache changed, file not), `releasing` (to rmdir).  The steps between
those that another process or caller can notice are one action: `ensureBackingFile`
and the read, `fn()` and the writing of the temporary file.  With `IoFaults` any
file operation may fail: mkdir, the owner token, the backing file, the read
(after which `load` goes on with no jobs), the write, rmdir.  `Crash` may come
anywhere and leaves the lock directory behind.

A job is its name and whether it is enabled; a file whose text does not validate
is a read that fails; `MAX_STORE_BYTES` is `MaxReadable` jobs.  Only a job's id
and name are told apart by refusals, so a patch of other fields is one operation.
`MCScheduleStore` leaves it out, being a rename that cannot be refused.

### Scheduler

`timers` is the keys of `this.jobs` and `this.intervals`, `orphans` the timers whose
handle was overwritten by another `set` for the same id, `run` the executions
(`marking`, `failing`, `agent`, `ending`, `retrying`: the await each is at), `call`
the calls of start, addJob, updateJob and removeJob, `past` the one-shots whose time
has come.  `generation` and `inflight` are the class's, `store` is the bound store.

Every start opens a store of its own (`Start`, `Reads`, `Binds`: `session_start` awaits
`ScheduleStore.create` between its test of `isActive` and `start`), and a call or an
execution goes on with the store it began with.  Of a store there is what a scheduler
in one process can see: `file`, `cache` (of the bound store: what `list`, `get` and
`executeJob` read) and `saving`, the one mutation that has the lock.  `Mutates` is
`load` and `fn()`, after which the cache shows the change; `Saved` is `save`.  A call
that throws (`Throws`) got no lock or no backing file, or failed in `save`, before or
after the rename: then the change stays in the cache.  A load that fails (`Reading`)
goes on with no jobs.  `faults` counts these.  Other processes are in `ScheduleStore`
only.  `lastFireAt` is not a variable: a tick it refuses changes nothing, and it
refuses the second of two timers for the same moment.  `start` arms all jobs up to the
first past one-shot in a step: the awaits in between are of calls that have nothing to
wait for.  One session file is modelled: a switch to another session's file starts
from other jobs but from no other state of the scheduler.  Cron and interval jobs are
jobs that tick again and again; one-shots are due once.

`astray` is history and no guard reads it.  It holds the jobs `EnabledIsArmed` does not
speak of: those a throwing call or a one-shot's failed run has left alone, those that
are on disk and that a failed or an early read has hidden from the cache, and those
changed through a store that was no longer the bound one.  Arming a job takes it out,
and so does `stop`, after which the next start sees to all jobs anew.

What joins `Scheduler` and `AgentManager`: an execution that awaits its first update
over a shutdown calls `spawn` on a disposed manager, which `AgentManager` (the host
calls nothing after `dispose`) does not contain; the cause is the divergence about
`executeJob` below.

### AgentRunner

`run[r]` holds what a call of `runAgent` keeps in its closure and in its session;
`at` is the await it is in: `loading`, `startHook`, `creating`, `prompt`, `switching`
(the backoff and setModel before a fallback), `fallback`, `endHook`, `revision`,
`validating`, `healing`.  A prompt ends in one of `Ends`: it resolves, with or without
text and with or without an error in its last message, or rejects.  The subscriber's
steps (`TurnEnds`, `ToolStarts`, `MessageEnds`, `QuotaTrips`) happen during prompts
only, and only while the run is not aborted (`Listens`).  The duration and the turn
budget set their flag before they call `session.abort()` (`Cut`); the token and the tool
quota call it first (`CutLate`), and until it has returned (`cutting`, `AbortReturns`) the
subscriber still listens.  `Finished`, `Ended`,
`LoopOver`, `TryNext` are the code's sequence after a prompt, each a function from run
to run, named for where it leads.  `breaker` is `globalCircuitBreaker`; the runs not
modelled one by one appear as `OthersPrompt`.

Decisions: durations and tokens are two flags that may be set at any time during a
prompt; hooks answer or time out (an answer like any other); the validators'
nested runs are one await whose verdict is free, but for the nesting limit
(`ValidatorVerdicts`).  Left out: steering messages, compaction, tool timing,
message text, `resumeAgent` other than for validation.

### AgentTools

`registry` is the map of types, `record` what the manager remembers of an agent,
`session` what it was started with.  `GetConfig` is getConfig with
`applyParentRestrictions`, the read-only floor and the context-mode tools; `Session`
is runAgent from the tool list to `setActiveTools` and the choice of prompt blocks.
Spawn, start, removal and reload interleave freely, which is where the parent's
restrictions can change under a queued child.  Skills are restricted as extensions
are and are not modelled beside them; disallowed tools are names.  An extension's tool
that the type's list does not name is bounded twice in `RestrictionsHold`: by the
permission of the agent's own type (`OwnExts`; none when it is isolated) and by its
parent's.

### Worktree

`pc` names the git command awaited; `edits` are the agents with uncommitted changes,
`saved` those whose changes cleanup has committed, `own` those that committed
themselves; `dir`, `branches`, `exists` are the repository.  Each command's action
chooses whether it answers with success and whether it had its effect: a timeout may
come after the work was done.  `Vanish` removes a directory (the temporary directory
is not the extension's), `Crash` ends the process.

### Hooks

`list` is the array the registry keeps for one event, shared with every dispatch
that iterates over it by index; `Answer` is one iteration of `runHandlers`.  Handlers
of other events do not meet: one event is enough.  A handler that throws or is too
slow answers "allow".

### AgentDashboard

`dirty`, `cache`, `hash`, `cursor`, `marks` and the flags in `views` are the class's
fields; `asked` says that the host was asked to render, `coalescing` that the 16 ms
timer runs.  Keys are actions named for what they do; what a key means depends on the
views, as in `handleInput`.  Of the manager there is what changes the list: `Starts`,
`Ends`, `Stops`, `Removed`, and `Resumes` with `ResumeEnds`, which set an ended record
running again and overwrite whatever status it has when they return; `runs` and
`pending` say what has still to return.  `loose` is history for the properties and no
guard reads it: the records resumed since the last refresh that found something
changed.  Left out: layout, scrolling, the pages and the order of the top view's table,
themes.

### Settings

A file is `Absent`, `Empty` (just truncated), `Malformed`, or four kinds of keys, one
for each way a setting goes through a save: always in the snapshot (`maxConcurrent`),
missing when unlimited and with a deprecated alias (`limit`, `alias`), 0 for
unlimited (`defaultMaxTurns`), in the file only (`subagentModel`).  `Apply` is a menu
entry up to the read and the merge, `Truncate` and `Write` the two halves of
`writeFileSync`, which another process or an editor can come between; a process may
end anywhere.  `captured` is index.ts' `capturedLimits`.  `author`, `handModel`,
`disturbed` and `unsaved` are history for the properties, and no guard reads them.

## The runs

| Run | Instance | Question and answer |
|---|---|---|
| agent_lifecycle | 3 background agents (plain, worktree, bypass), limit 1, may be set to 0 or 2, session limit 2 | the session's limit, slots, queue, promises, final records, reports and FIFO order hold in every interleaving |
| agent_liveness | 2 agents of seven spawn kinds, 1 resume, fair awaits | the queue drains, promises settle, a stop is kept |
| delivery | 3 agents, 1 batch; singles, groups, swarms, failing dispatch | nothing is forgotten, no double announcement, held results have a timer |
| delivery_waits | 2 agents, 2 batches, 2 waiters on one agent, fair timers | a returned result is silent, a cancelled wait hands it back, results arrive |
| schedule_store | 2 processes, one mutation each at a time, 1 saved job, limit 2, crashes and failing file operations | the lock excludes, limit and names hold on disk, the file changes like one table, calls return |
| scheduler | an interval job and a one-shot, 2 executions, a session start and a caller, 2 starts, 1 stop, 1 fault of the store | jobs do not overlap within a generation, stop empties the tables, jobs listed as enabled stay armed but for those astray |
| agent_run | 1 run of four kinds, 3 models, every budget 1, breaker threshold 2, other runs | no blocked text is returned, no failure is silent, the cause of an abort stays once `aborted` is set, the run ends |
| agent_tools | 2 agents, 2 types, nine configurations, reloads and removals | tools stay within the parent's type and the own denials, extension tools within both permissions, the prompt agrees with them |
| worktree | 2 agents with one branch name, every git command failing, crashes | changes are in a directory or on a branch, the report says where |
| hooks | 4 handlers, two of one priority, 1 dispatch, 8 changes | order and completeness of a dispatch, up to the changes made during it |
| dashboard | 2 agents, one ended before and one queued, which may be resumed once, 1 removal, 2 keys, fair timers and renders | the cached list is current, every change is drawn, but for the status of a record resumed since the last change noticed |
| settings | 2 processes, 4 changes by menu or by hand, failing and torn saves | choices come back at the next start, file-only keys stay, notices are true |

Bounds.

* Manager.  Two agents contend for one slot and a third one is needed to overtake in
  the queue; a limit of two shows a freed slot starting two.  With a session limit of two
  the third agent needs a refund after a failed startup or a switch of the session, and
  a startup that outlives the switch refunds to the wrong one.  (461 832 states)
* Delivery.  A group or swarm needs three members to have a partial delivery, a rest
  and an early reader; two waiters show the first, the last and the overlapping
  cancellation; two batches show members of different batches side by side.
  `RateLimit` 1 makes the rate limit bite with the second completion.  Three agents with
  waiters and two batches exceed four million states, so the two delivery runs share
  the space.
* Store and scheduler.  Two processes with a mutation each are the smallest contention
  for the lock; the limit of 2 with three ids makes a stale cache matter for limit and
  name.  With `MaxReadable` 2 no file of the instance is too large: loads fail through
  `IoFaults`.  Two starts with a stop between them are two generations and two stores:
  with two executions one of the old generation meets one of the new, and a call goes on
  with the first store while the second is bound; the caller puts an update or a removal
  between the steps of start.  One fault is one failed read or one call that throws; that
  more of them, or two starts at once, do not matter rests on the proof, which bounds
  neither.  (2 184 544 states)
* agent_run.  Runs share nothing but the breaker, which `OthersPrompt` moves in every
  way other runs could: one run in detail is enough.  Threshold 2 gives the breaker a
  failure that does not open it and one that does; budgets of 1 reach soft limit, grace
  turn and hard limit; three models give two fallbacks, so that the last one is not the
  first; one revision and one validation round are each used up and refused.  The kinds
  are a free and a pinned model, with hooks, with validators, with both, and a nested
  run at the limit.  (213 590 states)
* agent_tools.  A parent, a child and a type changed between them are two agents and
  two types.  The configurations are the embedded types and what files can add: a
  disabled type, memory with and without writing, wildcards, named context-mode and
  extension tools, an empty list.  (1 017 700 states)
* worktree.  Agents meet only in the names of branches: two with one name are the
  collision, one stamp gives the second name, and a third attempt is a refused one.
* hooks.  Dispatches do not see each other; four handlers with two of one priority have
  a place in front of, beside and behind the one being asked, and eight changes are
  enough for one to leave and come back twice.
* dashboard.  One record ended, one queued that starts, ends and is resumed: every order
  of the list; two keys enter a view and leave it, or act in the list.  More keys,
  resumes and removals rest on the proof, which bounds none of them. (838 000 states)
* settings.  Two processes are a torn read; four changes are a choice, a hand edit, a
  second choice and one of the other process; `Ceiling` 2 with 0, 2 and 3 in the menu has
  unlimited, the bound itself, other than every default, and a value above it.  One
  session limit stands for both, which go through a save alike.

`CHECK_DEADLOCK FALSE` is set because a session in which everything has ended
really stops.

Fairness.  `AgentManager`: git commands run with timeouts and a run is bounded by
turn limits or ends on its abort signal, so what is awaited comes back; nothing is
assumed of callers.  `Delivery`: timers fire, a settled promise resumes its
waiters, the run of a stopped agent ends; a live agent is not assumed to end, and
nobody is assumed to read or to cancel.  `ScheduleStore`: file operations return
and the retries of mkdir end (they are counted in `acquireDirLock`); a crash is
always possible and never required.  `Scheduler` has no liveness property: its
state space is too large for TLC's liveness check, so `EnabledIsArmed` says what is
in place for a job to fire, not that it does.  `AgentRunner`: every await settles
(hooks have a timeout of five seconds) and the host ends every prompt; nothing makes a
caller abort, a quota run out or the breaker recover.  `AgentDashboard`: its timers fire
and the host renders when it was asked to; no key is required.  `AgentTools`,
`Worktree`, `Hooks` and `Settings` have safety and action properties only and assume
nothing.

Every property of a passing run has a mutant: an operator beside the code's one
with a plausible bug (limit off by one, slot not counted, a stop overwritten by a late outcome,
newest first, timer not started, undefined dropped before the merge ...), under which
TLC finds the property violated.

## Where code and text differ

The models have the steps that lead to these; the properties of the passing runs are
stated up to them, so each exception in a property points at one.

Of the modelled parts:

1. *Concurrency limit* (agent-manager.ts:423): agents that need a worktree pass the
   limit test before they take a slot, so several run above `maxConcurrent`.
   `OvershootOnlyBySetup` shows that this and `bypassQueue` are the only ways.
2. *Dropped promise* (agent-manager.ts:879): a stopped agent's record may be removed
   while its run winds down; its promise never settles (`PromiseSettles` counts a
   removed record's gate as closed).
3. *Refused completion*: swarm members that finished before their batch are replayed
   while the swarm is being filled; a swarm complete for the moment closes and refuses
   the next one (`desk.refused` in `NothingForgotten`).
4. *Announced twice* (batch-orchestrator.ts:226): `completedAt` is set by `abort` before
   the run has ended, so `finalizeBatch` and `onComplete` both announce the agent
   (`lingered` in `AnnouncedOnce`).
5. *Stale lock*: `acquireDirLock` gives up after `LOCK_STALE_MS` and never removes a
   foreign lock directory; docs/troubleshooting.md:95 speaks of a stale recovery
   interval trigger.
6. *Fires after it was disabled* (schedule.ts:353): `executeJob` tests `enabled` before
   its first await only, and uses the context read before it after a stop.
7. *Unlinked unread*: `deleteFileIfEmpty` (which only tests call) unlinks a file after a
   load that failed, where its comment promises a reload that confirms it is empty
   (`MayForget` in `IsOneTable`).
8. *Abort between prompts* (agent-runner.ts:560, "cancellation must propagate"): an abort
   while runAgent loads, asks a hook or backs off calls `session.abort()` on an idle
   session; the next prompt is sent, with the quotas muted by `aborted`.
9. *End hook told "completed"* (agent-runner.ts:1145-1153): after a model failure that
   was thrown, or fallbacks that end without text, the end hook hears "completed" and
   the run fails all the same.
10. *Validators never run*: validation starts its runs with `levelLimit: 0`
    (agent-runner-validator.ts:155), and runAgent refuses any level `>=` the limit
    (line 638): every verdict is a failure.  The manager's own test is `>` (line 357).
11. *Commits lost* (worktree.ts:146): an agent that commits its own work has an empty
    status; the worktree is removed without a branch, against "If changes exist, a branch
    is created" (worktree.ts:6).  `ChangesAreKept` is about uncommitted changes.
12. *Preserved path unsaid* (agent-manager.ts:701-707): when cleanup keeps the directory
    because no branch could be made, the result does not mention it.
13. *Hooks skipped* (hooks.ts:213-216, "to all registered handlers", "in priority
    order"): the live array is iterated by index, so changes during a dispatch skip,
    repeat or reorder handlers, as far as `OrderIsKept` and `MissesAreRemovals` say.
14. *Restrictions of the type*: a child is restricted by its parent's type as the
    registry has it when the child starts, not by what the parent was given, and not at
    all when the parent's record is gone.  Memory tools added for a child are taken
    away again under a read-only parent, though the prompt says memory is writable.
15. *Dashboard*: a record that is resumed, drawn as running and ended again between two
    polls leaves the hash of `refreshAgents` (agent-dashboard.ts:313) as it was, and the
    cached line says "running" until a key is typed or another record changes (`loose` in
    `CacheIsCurrent` and `ChangeIsDrawn`); marks that a `kill` clears are not repainted
    when it finds the hash unchanged.  `kill` in the top view acts on the cursor of the
    list, which is not shown (line 701); the schedules view stays flagged when the
    scheduler stops (line 555); a tree opened over `/perf` gets its keys swallowed.
16. *Session limit*: `resetSessionUsage` during a startup whose failure then lowers the
    counter (agent-manager.ts:434) leaves it one too low, negative if it was zero, and
    the new session takes one agent more than its limit: `strays` in `SessionLimitHolds`
    counts exactly these.
17. *Settings*: the menu takes session limits and turns above the ceilings of
    `sanitize`, which the next start drops; "unlimited" for a limit the global file sets
    leaves no trace and is undone at the next start; the first save of a process whose
    files give no default of turns announces a change from "unlimited" that did not
    happen; a save that reads a file another process has truncated loses the keys only
    the file has, against settings.ts:446-451; the last of two writers wins.
18. *Scheduler and failing store* (schedule-store.ts:222): when `save` fails after
    `fn()`, `list` shows the change all the same: a job that was to be enabled is listed as
    enabled and has no timer, one that was to be disabled keeps its timer, one that was
    to be removed has lost its timer (schedule.ts:216) and, if the write failed, is back
    after the next load.  A load that fails hides the jobs of the file, and their timers
    tick in vain, until a mutation writes that over them.
19. *Two stores* (index.ts:438): a call that has begun before a stop and ends after the
    next start changes the file through the earlier store, which the bound one does not
    hear of before its next load; `start` in a session whose test of `isActive` came
    before another's `start` binds over it, and timers it overwrites in the tables
    (schedule.ts:287) tick on after `stop`.  (All these are `astray` and `orphans`.)
20. *Cause of an abort* (agent-runner.ts:920-922, 974-976): the token and the tool quota
    call `session.abort()` before they set `aborted`, though the comment at 899-902 says
    that the call may emit synchronously and that the flags guard re-entry: an event
    it emits may find another quota and replace the cause (`Replaces` in
    `AbortCauseIsKept`), and may count turns and steer.

Of parts that are not modelled: `taskBudget` counts direct children where types.ts:246
says "recursively"; `totalSpawned` is never lowered (agent-manager.ts:362); turns of resumed
runs and of validators are not counted, and `lastTurnCounts` is cleared so that earlier
turns count again; the pin of `subagentModel` is read from the agent's worktree
(agent-runner.ts:752), where the settings file may not exist; `waitForAll` spins on a
record resumed without a promise (989); a group delivery that throws is retried without
the group's later members (group-join.ts:265); a foreground crew is aggregated and
routed through its group (tools/agent.ts:376); agents in a group join a swarm when the
dashboard asks (output-handler.ts:251); shutdown disposes the hub before the batch is
flushed (index.ts:508); `runCount` is read before an update and written in it
(schedule.ts:387); the RPC limiter's window is fixed, not sliding, and forgets its oldest
callers at a thousand.

## What is proved

`AgentManagerProofs`, for every finite set of agents, every set of spawn kinds,
every limit, session limit and number of resumes:

* `TypeCorrect`, and the safety invariants of the agent_lifecycle run:
  `SlotsAccounted`, `QueueIsExact`, `NoSlotIdles`, `OpenGatesAreServed`,
  `ReportsAreExact`, `LimitIsKept`.

None of them is inductive alone.  `IInv` adds `SetupStatus` (an agent in startup
is queued, running or stopped, never final), `QueuedHasNotRun`, `ResumingRan` and
`Reports` (reports by position) to the first six.  The counter argument is about
`Holders`, the set of agents that own a slot: each action adds or removes a known
set of agents, `drainQueue` adds exactly `Started`, and the cardinality lemmas
carry this over to the number.  `NoIdleSlot` follows from the stopping condition
of `drainQueue` and from spawn's test, and needs `SlotAccounting` for nothing but
the type.  `LimitIsKept` adds `CountedAreBorn` (an agent once counted is never spawned
again, so that spawning adds one to both sides) and splits the steps by what they do
to the counter: raise it, refund, reset it, leave it alone.

* The action properties of the two manager runs: `StopsAreKept`, `QueueIsFifo`,
  `OnlySetupOvershoots`.  `SInv` adds to `IInv` that an agent not spawned
  has neither status nor promise and that only a worktree suspends a startup.
  `EveryStepMoves` says of every action what it may do to the gate and the status of any
  agent, and the first follows.  For the order, every entry `drainQueue` consumes
  stands before every one it keeps (`DrainIsInOrder`), and no other action starts a
  waiting agent.  For the limit, the last entry it takes found the counter below the
  limit, so that it ends no higher than the limit (`SlotsGrowByOne`), and a spawn above it
  is a bypass or a return from a worktree.

* `AwaitedIsFinal`, for `SettledIsFinal`: `RecordFits` says of every agent that its record
  is final once its run is over (`Past`) or its promise settled, and that a startup finds
  it queued, running or stopped; as a stopped one is abandoned, no startup makes a
  record live whose promise has settled.

Assumptions: the named ASSUMEs of `AgentManager` only.

`DeliveryProofs`, for every finite set of agents, every choice of join modes and all
numbers of batches and waiters and rate limits:

* `DeliveryTypes`, `NothingIsForgotten`, `AnnouncedAtMostOnce`, `HeldResultsHaveTimer`,
  `AnswersStayQuiet`: types and every safety property of the two delivery runs.

Its first part is about functions from desk to desk.  Each is shown to keep `DeskOK`
(types, unique keys, no swarm about a stranger, a timer wherever results are held, no
group or swarm for a batch to come), to lose no result (`Covered` only grows) and to put
what it is given in one place more (`TakesIn`).  The loop of `finalizeBatch` over the
swarm's members is a recursive function of the position in the batch; that it exists
and keeps these facts is shown with the least counterexample
(`SetInduction`, from `WFMin`), as the induction theorems cannot be used here.  The
second part is `IInv`: `Spawned` (nobody is on the desk before being spawned, so that a
new place is the first), `Quiet` (what a call has returned stays consumed: the waiters
left know it), `Single` (outside the exceptions a result is in one place, and in none once
it is announced), `Remembered` (`NothingForgotten` with its exceptions as places).
`AnnouncedOnce` fails to be inductive without the last clause of `Single`: a message
sent while a group still held the result would be a second announcement in waiting.
Assumptions: `AgentsAssumption`, `ModesAssumption`, `BoundsAssumption`.

`ScheduleStoreProofs`, for all processes, calls, homes of calls, wanted mutations,
saved tables and limits, with and without failing files:

* `StoreTypes`, `LockExcludes`, `LimitAndNamesKept`: types and the invariants of
  schedule_store.
* `CacheFollows`, an action property: what a process shows of the jobs changes to what is
  on disk, to nothing after a failed load, or to what a call that holds the lock is about
  to write.
* `StoreIsOneTable`: `Spec => IsOneTable`, the refinement.  The invariant it rests on
  says what a call in `saving` is about to write: the result of its own mutation
  applied to what is in the file now (or to nothing, after a failed load), which
  holds from `Mutate` on only because the lock excludes every other `Save`.

`SchedulerProofs`, for all jobs, executions, starters and callers and all numbers of
starts, stops and faults:

* `SchedulerTypes`, `RunsDoNotOverlap`, `StopDisarms`, `EnabledStaysArmed`: types and
  the invariants of the scheduler run.  `IInv` has three more parts.  `Marks` adds to
  `NoOverlap` that no run is of a generation to come (`NoFutureRun`, or a stop would not
  outdate every run) and that an executed one-shot has had its time (`RunIsDue`).
  `Stored` ties the mutation under way to the cache of its store (`CacheIsSaved`) and to
  whoever awaits it (`SaverWaits`), says that it enables only what it was asked to
  (`SaveKeepsOff`) and that a store being opened is nobody else's yet (`OpeningIsOwn`).
  `Attended` strengthens `EnabledIsArmed` to the jobs of the file, which the next load
  brings back into the cache: each is covered already, and one the cache lacks is
  astray or the target of the mutation under way.  Calls that end by arming go
  through lemmas about `ArmAll`, the calls of the store through lemmas about `Mutates`,
  `Saved` and `Throws`.  Assumptions: `IdsAssumption`, `BoundAssumption`.

`AgentRunnerProofs`, for any number of runs, all kinds of runs, finite sets of models
and all budgets:

* `BudgetsHold`, `GateIsKept`, `FailuresAreReported`, `CauseIsKept`.  The runs share
  only the breaker, so `IInv` is `RunOK` of every run: its types with the budgets left
  (`Core`), a condition for each place that counts something (a fallback left while
  switching, an attempt left while revising), and what has to survive until the
  result: `FailureKnown` when the end hook is asked, `Gated` and `Reported` after it.
  The operators the steps are made of (`Finished`, `Ended`, `LoopOver`, `TryNext`,
  `Heard`) each have a lemma that they keep `RunOK` and the cause of an abort.
  Assumptions: `ModelsAssumption`, `BoundsAssumption`, `RunKindsAssumption`.

`WorktreeProofs`, for any agents, names, old branches and stamps:

* `ChangesKept`, `ReportsAreTrue`.  `Progress` says for each awaited command where the
  agent's changes are and what cleanup has noted.  Agents share the branches only, and
  a branch that exists is never moved, which is what keeps one agent's step from
  disturbing the other's `Progress`.

The second part of `AgentRunnerProofs`, about `AgentTools`, for all configurations, tools
and extensions:

* `ParentRestricts`, `PromptIsTrue`, with `TypesHold`.  Both are action properties of the
  start of an agent: the lemmas bound what `GetConfig` returns by what the parent has,
  and what `Active` adds to it.  Assumptions: `ToolsAssumption`, `ConfigsAssumption`.

`LiveListProofs`, for any handlers, priorities and dispatches of `Hooks`, and any agents
and numbers of keys of `AgentDashboard`:

* `HandlersInOrder`, `MissesCounted`.  A dispatch and the list it iterates over are
  related by `Goes`: the repeats so far and the handlers asked that stand in front of the
  index again are together at most as many as were registered; those there all the while
  that are neither asked nor in front are at most as many as were unregistered; and up to
  one registration no handler asked comes after one in front.  Inserting or
  removing one element moves at most one handler across the index
  (`AfterInsert`, `AfterRemove`), which is what each count needs.
* `CacheStaysCurrent`.  A record that is not resumed only goes on from status to status
  (`Rank`), so snapshots of the same records are ordered but for the loose ones
  (`NoLater`), and a record with a resume to come is loose (`PendingIsLoose`).
  `BoardInv` says that the cached list, whenever it would be reused, lies between the
  snapshot of the last refresh and the records as they are; when those two agree, so
  does the cache, but for the loose records.  It has no assumption about when the
  manager moves: a key, a timer and a render may each come before the refresh that
  notices.  Assumptions: `PriorityAssumption`, `AgentsAssumption`.

`SettingsProofs`, for any processes, limits, models, ceilings and contents of files:

* `ChoicesReturn`, `FileOnlyKept`, `NoticesAreTrue`.  `IInv` adds to the last that a
  file about to be written, and one that was and is untouched, agrees with the memory
  of its process (`MergedAgrees`, `AuthorAgrees`), and that while nothing disturbs the
  one save in progress it carries the model last written by hand (`ModelKept`).  The
  lemmas say what `Sanitize`, `Load`, `Applied` and `Merged` return; `AgreedIsRestored`
  puts them together.  Assumptions: the three of `Settings`.

Every safety and action property of the runs is stated by a theorem.  The six liveness
properties, `QueueDrains`, `PromiseSettles`, `ResultArrives`, `CallsReturn`, `RunSettles` and
`ChangeIsDrawn`, are checked by TLC only: liveness under fairness is out of the
prover's reach.

## Plan

Done: the manager, delivery, store, scheduler, runner, types, worktrees, hooks,
dashboard and settings, with the proofs above.  Next, in this order:

1. Abstract specifications: a slot pool implemented by `AgentManager`, a result
   mailbox implemented by `Delivery`.
2. Budgets of the session and of tasks with their warnings, in `AgentManager`: they
   need history of who was counted, and the proofs follow.  No production caller sets a
   task budget, and none but validation a level limit, so this comes late.
3. The text of a handoff (`parseHandoff` after `coerceLegacyArtifact`) as operators
   against a reference definition; the history of dispatch decisions.

## Not modelled

* Cross-extension RPC: synchronous handlers that forward to modelled operations; its
  rate limiter is a counter per window, and what can be said of it restates its test.
* Handoff, orchestration dispatch, prompts, skills, memory, model names, usage and
  spend: pure functions over text and numbers that keep no state between calls.
* Public API, commands, the conversation viewer, the widgets, the blueprint and key
  parsing: views and menus over other components' state, or tables of key codes.
* Logs, telemetry, debug captures: written and not read back.
* In modelled components: parsing and validation of schedules and the time of their
  next run; compaction, steering and resumption outside validation in the runner;
  quorum and batch strategies of swarms, which the extension never configures; layout
  and paging of the dashboard; files of agent types.

About half of the implementation's lines are of the kinds in the first four points, and
in the modelled components the map leaves out text and layout; that is why the lines it
names are a small share of the whole.  `PROJECT.json` gives the reason for each
component.
