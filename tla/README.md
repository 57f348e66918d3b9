# HappyClaw: a verification project in TLA+

HappyClaw (`src/`) is a self-hosted agent platform: people talk to agents from
the Web or from messengers, and the host runs one agent process (a *runner*, in
Docker or on the host) per conversation.  This directory holds TLA+ models of
its core logic, the TLC configurations that check them, and TLAPS proofs.
Paths below are relative to the repository's `src/` directory unless they start
with `container/` or `docs/`; the queue's file is `src/group-queue.ts`.

Contents: [inventory](#inventory) · [plan](#plan) ·
[GroupQueue](#module-groupqueue) · [ChannelReliability](#module-channelreliability) ·
[DeliveryCursor](#module-deliverycursor) · [UsageLimitWait](#module-usagelimitwait) ·
[Automations](#module-automations) · [runs](#runs) ·
[what the runs found](#what-the-runs-found) ·
[proofs](#proofs) · [not modelled](#abstractions-and-what-is-not-modelled)

## Inventory

One Node.js process is the control plane (`docs/RUNTIME-ARCHITECTURE.md`).  It
is one JavaScript thread: the code between two `await`s is atomic, and
everything that can go wrong between actors goes wrong at an `await`, a timer, a
callback, a process exit or a crash.  Runners are separate processes that share
only files (IPC directories) and their output stream with the host.

| Component | State it keeps | Operations | What makes it correct |
|---|---|---|---|
| **Runner scheduler** `group-queue.ts` | per lane: runner, queue, retry, query, owed deliveries; waiting lanes; counters; gates | enqueue, run, retry, pipe, stop, restart, retire, reclaim, pause/resume/discard, hold/release, block, shut down | one runner per session, limits kept, gates hold, no lost or stranded work, retries end when told |
| **Workspace mutation** `agent-profile-runtime.ts` | a pause token | pause, stop, commit, stop again, resume in `finally` | no runner of the old configuration survives, no work is lost |
| **Capability mutation** `capability-runtime-mutation.ts`, `capability-lock.ts` | keyed locks; safety blocks | commit under locks, repair | uncertain commits stay fail-closed, locks cannot deadlock |
| **Deletion, worktree release** `routes/groups.ts`, `routes/agents.ts`, `session-worktree.ts` | rows, directories | pause/hold, stop, delete, discard | nothing runs in what was deleted |
| **Stuck-runner recovery** `stuck-runner-recovery.ts` | none (a candidate) | probe, revalidate, restart | no healthy runner is restarted on a stale candidate |
| **Conversation host** `index.ts` | next-pull and committed cursors, active turns | message loop, start and recovery of lanes | each stored message is answered once or replayed |
| **Delivery cursors** `delivery-cursor.ts`, `router-cursor-persistence.ts` | cursors, deferred completions, dirty set | advance, defer, flush, persist | a committed cursor never passes an uncovered message |
| **IPC delivery** `ipc-delivery-recovery.ts`, `ipc-send-dedup.ts`, `container/agent-runner/src/ipc-delivery.ts`, `.../ipc-input-claims.ts` | input files, claims, receipts | publish, claim, register, acknowledge, recover | a delivery is consumed once, also across runner crashes |
| **Run correlation** `run-stream-fence.ts`, `steering-transition.ts` | active run, turn owners; pending steers | start/finish/observe, mark/resolve | late output of an old run is not shown as the new one's |
| **Channel reliability** `channel-reliability-store.ts`, `channel-outbox-delivery.ts`, `channel-reliability-recovery.ts`, `channel-turn-runtime.ts` | leased rows: inbox, turn runs, outbox | enqueue, claim, renew, complete, fail, reconcile | fencing: only the lease holder reports; a physical send is never repeated when its outcome is unknown |
| **Provider pool** `provider-pool.ts` | health, quarantine, session counts | select, report, acquire, release | a quarantined account is not chosen, counts do not drift |
| **Usage-limit waits** `usage-limit-wait.ts`, `runtime-state-store.ts` | one wait row and timer per lane | reserve, arm, resume, end, re-arm | a wait ends once, bounded rounds |
| **Automations** `automation-scheduler.ts`, `automation-service.ts`, `automation-store.ts`, `automation-run-ledger.ts` | schedule and next fire, runs, the input each run sends | tick, fire, prepare, inject, settle, run now, cancel, edit, pause, resume, delete, rebuild, recover | one live run per automation, each slot claimed once, no schedule stalls, every run ends |
| **Team work items** `work-item-service.ts` and siblings | items, replies | route, accept, reply, settle | a reply is delivered once |
| **Workspace memory** `memory-store.ts` | items, revisions | create, update, forget | compare-and-set on revisions |
| Launchers, connectors, Web, accounts, database, Codex gateway, front end | | | I/O, formatting, table look-ups: listed in `PROJECT.json`, not modelled |

How they interact: channels and the Web store messages in SQLite and call
`enqueueTask` on the lane of the session, or `sendMessage` when a warm runner
can take the input.  The queue runs the host's task (`processAgentConversation`),
which launches the runner, reads the input the cursors say is pending, and
reports query ends, acknowledgements and its outcome back to the queue.  Agent
profile, capability, worktree and deletion code gate lanes, stop their runners,
change rows and files, and open the gates again.  Replies leave through the
outbox.

The hard parts, each at its line, are the *hazards* of `PROJECT.json`.

## Plan

Ordered by what the rest depends on and by how much could go wrong there.

| | Module | State |
|---|---|---|
| 1 | **GroupQueue**, the scheduler with all its gates: everything else calls it; it implements the abstract **RunnerPool** | checked; all its safety properties and the refinement proved |
| 2 | **ChannelReliability**, a channel turn with its outbox, implementing the abstract **DeliveryLedger** | checked; types, the refinement and three invariants proved |
| 3 | **DeliveryCursor**, the two cursors of a lane and everything that moves them | checked; types and both promises of the cursors proved |
| 4 | **UsageLimitWait**, waiting out a usage limit | checked; all its safety properties proved |
| 5 | **Automations**, a schedule with its runs and their inputs in a lane | checked; all its safety properties proved |
| 6 | the runner's side of IPC delivery (publish, claim by rename, register), composed with DeliveryCursor | open |
| 7 | CapabilityMutation with its keyed locks; stuck-runner revalidation; run correlation | open |
| 8 | provider pool, team work items, the notices of automations | open |

Each module is one action per operation, parameterised by CONSTANTS with named
assumptions, invariants as conjunctions of named parts and no RECURSIVE
operator, so that it can be proved about.

How the modules meet: GroupQueue has all lanes and no messages (a lane owes
deliveries or not); DeliveryCursor and UsageLimitWait have the messages of one
lane and see the scheduler as "a task of the lane is queued" and "the runner
exits"; ChannelReliability has one input, from the attempt that answers it to the
cursor that consumes it; Automations has one automation and, of the lane, where the
input of each run stands.  They are checked apart: together they are out of TLC's
reach.

## Module GroupQueue

`GroupQueue.tla` models class `GroupQueue` (`src/group-queue.ts`).

**State.** A *lane* is the runtime JID of a session.  `groups[l]` is its
`GroupState`; the other variables carry the names of the class's fields.

| Variable or field | Code |
|---|---|
| `active`, `activeTask`, `pendingTasks`, `stopRequested`, `restarting`, `retryCount`, `retryTask`, `drainSentinelWritten` | the fields of these names |
| `registered` | `groupFolder` and `agentId` are set (`registerProcess`) |
| `finishing` | `task.fn()` resolved `false` and `runTask` awaits `scheduleRetry`; its `finally` is still to come |
| `queuedRetry` | the task of `queuedRetry` |
| `query` | `inFlight`/`idle`/`unsettled` (idle after a continuation) from `queryInFlight`, `idleSince`, `idleFromContinuation`; `reserved` while the next query is only reserved |
| `closing` | `closing` |
| `ipcOwed` | `pendingIpcDeliveries` is not empty |
| `waitingGroups`, `activeContainerCount`, `heldLanes`, `shuttingDown` | the fields |
| `mutationPauseTokens`, `runtimeSafetyBlocks`, `terminalDiscards` | `mutationPauseTokens` with `mutationPauseCounts`, `runtimeSafetyBlocks`, `terminalDiscardMutationKeys` |
| `preserveStops`, `queryEndDeferrals` | `mutationPreserveStopJids`, the keys of `queryEndStopDeferrals` |
| `agenda` | the calls the running segment still has to make |

**Steps.** An action is one synchronous segment of the code.  A segment that ends
in loops (`drainWaiting`, the resume loops) or nested calls (`drainGroup`, the
reclaim, the delivery recovery, the end of a restart) is the action plus the
entries it leaves in `agenda`; every other action requires an empty agenda
(`Quiet`), so the loops run to completion as they do in JavaScript, and each turn
is an action that re-reads the state, as each turn of the loop does.  `stopGroup`
and `restartGroup` have awaits and are split there: their start
(`StopGroup`, `PreservingStop`, `DeferredStop`, `RestartGroup`), the runner's exit
(`RunnerExits`, the `finally` of `runTask`), and their return
(`PreservingStopReturns`, `RestartReturns`, `RestartTimesOut`).  `runTask` is split
in its start (`RunTask`), the task's outcome (`TaskSucceeds`, `TaskThrows`,
`TaskFails`) and, after the await of a failed attempt's retry bookkeeping, its
exit (`FailedRunnerExits`).

**What callers promise.** These are guards and assumptions, not checked here:

- a preserving stop is made under the caller's own token or hold, and the gate is
  released, or its held lane discarded, after the stops returned (`GateOwned`, `StopsReturned`): the `finally`
  of `quiesceWorkspaceRunnersAroundCommit` (`agent-profile-runtime.ts:169-246`)
  and `releaseSessionWorktree` (`routes/agents.ts:514-553`);
- `DiscardGroups` runs when the deleted workspaces' runners are gone
  (`routes/groups.ts`: stop, then discard);
- a held lane is the only JID its session's work is enqueued under
  (`HeldAssumption`; `runtimeJidOfSession`, `index.ts`);
- lanes of one key share their workspace and their execution mode
  (`LaneAssumption`).

**Constants** besides the sets of lanes, workspaces, users, tasks, tokens and
block sources: the resolvers the host installs (`KeyOf`, `WorkspaceOf`, `OwnerOf`,
`HostLane`, `UserLimit`), which do not change during a behaviour; and which lanes
the environment pipes to, stops, holds, restarts and so on, so that each
configuration pays only for the behaviour it is about.

`RunnerPool.tla` is what the scheduler promises the rest of the host: a runner begins one
task on a lane without a gate, while no other runner serves its conversation and the
pool and the owner have room; it serves that task until it ends; gates touch no runner;
and a lane is removed for good, gated and without a runner.  There are no queues,
timers, stops or restarts in it.  `ServesAsPool` is the refinement: a lane's task is its
`activeTask`, it is gated while `Paused`, removed when `Discarded`.

`MCGroupQueue.tla` gives the instances.  `MCGroupQueueFair.tla` adds a bound on the
requests and the fairness.

## Module ChannelReliability

`ChannelReliability.tla` follows one input of an external channel: the durable rows
of `channel-reliability-store.ts`, the attempt of `channel-turn-runtime.ts`, the
deliveries of `channel-outbox-delivery.ts`, the provider, and the recovery passes
of `channel-reliability-recovery.ts`.

| Variable | Code |
|---|---|
| `turn` | the `turn_runs` row: status, fencing token, lease (granted, still live), attempts, the kind of its `error`: none, of an attempt that failed, asking for a word to the user, other |
| `row`, `card`, `reply` | the `channel_outbox` rows, the `streaming_cards` row, the stored assistant message |
| `cursor` | the lane's committed cursor is past the input |
| `run` | the attempt in memory: its phase, the claim it was granted, what it knows of card, receipt, stop |
| `call`, `wire` | `deliverChannelOutboxItem` in flight, and its first and replayed request at the provider |
| `pass`, `host` | the recovery pass and whether the host is down, recovering or up |
| `shown`, `sentBy`, `told` | history: what the user saw, of which attempt, and what the user was told |

A row survives `Crash`; `run`, `call` and `pass` do not.  Time is the two actions
that let a lease lapse.  A holder's write carries the token and the lease in its
WHERE clause, so the guard of the action is that clause (`Holds`, `RowHeld`).  The
provider takes a request, accepts or refuses it, and answers or does not, each a
step of its own: the answer may come after the caller gave up, replayed or died.

The error of a turn outlives the attempt that left it: a claim keeps it, a resume from
the user clears it, and the fence of an expired lease writes its own only where there is
none (`COALESCE`, store 1751).  A start reads it to decide whether the user gets a notice.

`DeliveryLedger.tla` is the promise the outbox makes of each output: an attempt is
recorded before it can be seen, it is seen at most once, the record is true, and an
unknown outcome ends in doubt.  `KeepsPromise` is the refinement, with the ledger
read off the row's status.

Assumed of callers and the outside: retry policy `fail` (the only one used), notices
land, a provider either collapses replays (`Replays`) or is never sent one.

## Module DeliveryCursor

`DeliveryCursor.tla` has the messages of one lane, the next-pull cursor (`pull`) and
the committed cursor, and everything that moves them (`index.ts`,
`delivery-cursor.ts`, the delivery part of `group-queue.ts`, the agent
conversation of `web.ts`).

| Variable | Code |
|---|---|
| `status` | `delivery_status` of each message row; `plain` and `released` rows are visible to readers |
| `pull`, `committed`, `deferred` | `lastAgentTimestamp`, `lastCommittedCursor`, `DeferredOutOfBandCursorLedger` |
| `handling` | Web inputs whose handler awaits the command expander |
| `turn`, `wake`, `retry` | the cold turn of `processAgentConversation`, its queued task, the snapshot of an armed retry |
| `runner`, `query`, `claim` | the lane's runner, its active or reserved query, the follow-up batch being prepared |
| `deliveries` | `pendingIpcDeliveries`, each with the messages it covers and whether it is acknowledged |
| `settled`, `overtaken` | history: answered or ended by the user; hidden by the queue while something behind it was taken |

Every path is an action: arrivals from the Web (which await in between) and from
channels, the cold read with its command replies, acknowledgements in any order,
the follow-up queue with its reservation, its preparation and its refusals, idle
and failing runners, stops, crash, restart and recovery.  A command is answered
without the agent and completes *out of band*: its cursor is deferred until what
lies before it commits.

Simplifications: one follow-up batch is prepared at a time; a batch read is any
prefix and a claimed batch any part of the queue (the rules on reply routes and on
reordering are left out); deliveries with the same cursor commit the wider first; a
stop is one step; the give-up after `MAX_RETRIES` is not reached.  Cursor moves by
the owner gate, a billing denial, a withdrawal or a session reset are left out.  Two
orders of events are switched on by `Allowed`: `early`, that a task runs between
restart and the rewinding of the cursors, and `cross`, that a command is answered
over an input no runner has accepted yet.  The passing run and the theorems leave
them out; a configuration for each shows what they do.

## Module UsageLimitWait

`UsageLimitWait.tla` models `usage-limit-wait.ts` with its callers: a lane whose
connection hits its limit reserves a wait, parks its inputs in the durable queue and
resumes after the reset.

| Variable | Code |
|---|---|
| `wait` | the `usage_limit_waits` row; `left` is the time to `resume_at` |
| `timer` | the entry of `timers`: its delay, cut at `MAX_TIMER_DELAY_MS`, and the wait its callback holds |
| `status`, `committed` | the rows and the cursor, as in DeliveryCursor with one cursor |
| `batch`, `piped`, `handling`, `runner`, `wake` | what the cold turn runs, what the warm runner got, the runner, the lane's task |
| `inARow`, `held`, `stranded` | history: waits since the lane last came through; what had arrived when it was parked; rows left in the queue of a lane that does not wait |

The reservation (`HitLimit`, `reserveUsageLimitWait`) and the parking (`Park`) are two
steps, as the code awaits between them; the runner is then on its way out but still
up (`dying`), and what arrives meanwhile is queued behind it.  A wait ends by its
timer, by input somebody attends to (`ReadNewInput`), by "send now", by a cancel
of the last row, by `/break`, by a stop of the lane, or at a restart that finds it
over.  Inputs of automations join it.

Left out: a cancel or a break of the last queued row between reservation and
parking (the guards say so; see below), and a stop while other input is pending.

## Module Automations

`Automations.tla` has one automation, its rows of `automation_runs` and the input each
run sends to a session lane: the scheduler (`automation-scheduler.ts`), what users and
agents do to it (`automation-service.ts`), and how a turn settles the run it answers
(`automation-run-ledger.ts`, `index.ts`).  Automations share nothing but lanes.

| Variable | Code |
|---|---|
| `auto` | the `automations` row: schedule (`kind`, `runAt`), `endAt`, `status`, the reason that matters (`onceDone`, `suspended`), `next` is `nextFireAt` |
| `runs` | the `automation_runs` rows: status, trigger, `slot` is `scheduledFor`, `linked` says that `sessionJid` and `inputMessageId` are recorded |
| `input` | each run's input: `waiting` in the lane, `parked` for a usage-limit reset, `executing`, `settled` (outcome reported, cursor not committed), `committed` (the other way round), `gone` |
| `task` | the await of `executeSteps` or `executeScript`: the check, the session, the injection, the script |
| `rebuild`, `deleting`, `resetting` | the workspace rebuild, the deletion and the session reset between their two segments |
| `session`, `phase`, `now` | the bound session exists; the scheduler is booted, running, stopping or down; the clock |

An action is the segment between two awaits.  `Fire` is one transaction: it re-reads
the row, looks for a live run, and claims the slot.  A run is then prepared in
`CheckDone`, `OpenDone` and `RecordInput`, each of which reads the row again, so that
a cancel, an edit, a lost session or a stop may come in between.  `Settle` is
`finishRun`, which moves the schedule on: an interval counts from the end of its run, a
once is done, and a once parked behind a manual run comes back.  `Start` recovers what
a crash or a shutdown left.

A run ends as `done`, which stands for success, failure and interruption: they differ
in the notices only.  Time is counted in ticks, and `NextSlot` is any strictly later,
monotone slot function (its assumption), which is what the cron library gives.  The
lane is reduced to one input per run: what else is in it, and which runner takes it, is
DeliveryCursor's and UsageLimitWait's.  A kind `manual` never fires by itself.

Left out: notices and the failure streak, validation and permissions, the archiving of
the session of a `fresh` run, the deletion of a whole workspace, the migration of
legacy tasks, the trimming of old rows, an edit of session mode, target or check (they
are constants).  A reset after a restart takes it that the lane of a run that survived
is remembered; it matters only where resets are allowed.

## Runs

Every configuration turns deadlock checking off: the system may stop, when all
lanes are idle and the bounded environment has nothing left to ask.

| Run (`.cfg`) | Instance | Checks |
|---|---|---|
| `capacity` (`MCGroupQueueCapacity`) | 3 container lanes, 2 users, 2 slots, user 1 limited to 1 runner; warm-up tasks, piped input, retired and reclaimed runners, a restarting lane | `CapacityRespected`, `NoWorkStranded`, `ClosingRunnerTakesNoQuery` |
| `stops` (`MCGroupQueueStops`) | 2 JIDs of one host-mode session; stop, restart, interrupt, retire, failing tasks, force-kill timeouts, shutdown | `OneRunnerPerKey`, `RetryIsExclusive`, `QueuedLanesWait`, `ShutdownStartsNothing` |
| `mutation` (`MCGroupQueueMutation`) | 2 workspaces, 1 slot; 2 overlapping tokens, a hold, any of which may delete; failing tasks, piped input, force-kill timeouts | `TypeOK`, `NoDeliveryStranded`, `DeletedWorkspaceIsDead`, `GatedLaneStartsNothing`, `ServesAsPool` |
| `fair` (`MCGroupQueueFair`) | 2 workspaces, 1 slot, all gates, a restart, retries, deferred stops; at most 4 requests | `NoWorkStranded`, `QueuedTaskLeavesByStarting`, `QueuedWorkEventuallyRuns`, `DeliveriesSettle` |
| `channel` (`MCChannel`) | a final reply and an aside, a provider that collapses replays; a crash, a lapsed lease, a dead runner or an aside that outlives its attempt | `TypeOK`, `CompletedTurnIsSettled`, `KeepsPromise`, `ClosedTurnsStay` |
| `channel_fair` (`MCChannelFair`) | one reply, all three modes, 2 of: crash, lapse, death, stop, card failure, waiting for the user | `AnsweredOrTold`, `InputSettles` |
| `cursor` (`MCCursor`) | 4 messages, 2 of them commands, 3 failures, stops or crashes | `TypeOK`, `CommittedIsSettled`, `NothingForgotten`, `MessagesSettle` |
| `usage_wait` (`MCUsageLimitWait`) | 3 inputs, one of an automation; resets within and beyond the longest wait; 2 waits in a row; 2 faults | `TypeOK`, `TimerFitsWait`, `WaitingLaneRests`, `BudgetHolds`, `OnlyNewInputEndsWait`, `InputsSettle` |
| `automation` (`MCAutomations`) | cron and once, with and without an end; a checked agent bound to a session, and a script; two user operations of any kind, a crash or shutdown | `TypeOK`, `OneLiveRun`, `SlotsAreClaimedOnce`, `ScheduleNeverStalls`, `EndedRunsStayEnded` |
| `automation_fair` (`MCAutomationsFair`) | cron, interval and once, without an end; a manual run, a lost session, a rebuild or a withdrawal, a retry or usage-limit wait, a crash or shutdown | `LiveRunsAreServed`, `RunsEnd`, `OnceIsServed` |
| `stop_strands`, `automation_missed` | the smallest instance that shows it | one property each, violated ([below](#what-the-runs-found)) |

The other configurations, `MCGroupQueueHostStrands`, `MCChannelForgotten`, `MCChannelSpeaks`, `MCCursorStartup`,
`MCCursorRetry`, `MCAutomationsOnceDone`, `MCAutomationsParked`, `MCAutomationsReset` and
`MCAutomationsRebuild`, are counterexamples to run by hand
(`tlc -config MCCursorStartup.cfg MCDeliveryCursor`): each checks one property, which
TLC finds violated within seconds.

What the properties say, from the ones a test would hardly reach:

- `NoWorkStranded`: between two segments, a lane with queued work has a reason to
  wait (a gate, its key's runner, no capacity).  It holds under mutations,
  holds, blocks, retries, restarts and reclaim, and fails after an ordinary stop and for
  users with both host and container lanes.
- `QueuedTaskLeavesByStarting`: where nobody stops or deletes, a queued task
  leaves the queue only into a runner; parking never overwrites the queue.
- `NoDeliveryStranded`: deliveries a stopped runner owed outlive it only under the
  gate whose end replays them.
- `RetryIsExclusive`, `DeletedWorkspaceIsDead`, `GatedLaneStartsNothing`,
  `ClosingRunnerTakesNoQuery`, `OneRunnerPerKey`, `CapacityRespected`,
  `QueuedLanesWait`, `ShutdownStartsNothing`: see the comments above them.
- `ServesAsPool`: whatever goes on with queues, retries, replays, restarts and stops,
  the host sees a pool of runners; in particular no task is swapped under a runner, and
  a lane without a runner has no task left over for the next one.
- `KeepsPromise`: the whole delivery machinery, crashes and late answers included,
  is one of the abstract ledger.  `AnsweredOrTold`: nothing is consumed unseen and
  untold, except a retry that was lost (`RetryLost`, finding 3).
- `CommittedIsSettled`, `NothingForgotten`: the committed cursor never steps over
  what nobody settled, and what lies behind the next-pull cursor has a runner whose
  exit rewinds it.
- `TimerFitsWait`, `OnlyNewInputEndsWait`, `BudgetHolds`: the timer in memory follows
  the durable wait; what a lane already had cannot end its wait; restarts and early
  ends do not reset the count.
- `OneLiveRun`, `SlotsAreClaimedOnce`: the tick, the user and the recovery start runs,
  edits and resumes move the next fire back and forth, and still no slot is claimed
  twice and no two runs of an automation overlap.
- `ScheduleNeverStalls`, `OnceIsServed`: intervals and parked onces have no next fire
  while a run is live; whoever ends the run restores it.
- `LiveRunsAreServed`, `RunsEnd`: a live run is prepared, or its input is in its lane; one
  that nothing settles would block every later fire.

**Bounds.** Two lanes are the least with competition for a slot; the third lane of
`capacity` is needed for the per-user limit to differ from the pool's (two lanes
of one user, one of another), and for a choice between idle runners.  Two JIDs
suffice for the shared serialization key, because every operation looks up *the*
runner of the key.  Two tokens suffice for nested mutations: what matters is
whether another token still pauses the workspace.  `MaxHolds = 1` leaves out
nested holds in TLC (the proofs have any number).  `MaxRetries = 1` stands for
the code's 5: a first retry and the give-up that resets the count are both reached.
One ordinary task per lane besides the recovery and restart tasks: duplicates are
refused by id, so a second id only lengthens the queues.  `MaxRequests = 4` in
`fair` lets a runner, a competitor, a gate or a restart and a piped message meet;
without a bound liveness is false, because an endless supply of one lane's own
work starves the others (`drainGroup` serves its own lane first).

`channel` has static and proactive replies, and two outputs, the least with a sibling;
every phase of a delivery is one step, so more outputs only repeat (with two faults,
four million states, it holds, too).  `channel_fair` has all three kinds of reply.  Its
two faults are the least for an attempt that fails and a retry that crashes, and for a
crash during the recovery of a crash; with one output there is nothing else the user
could have seen.
In `cursor` four messages give a command before, between
and after inputs, and a batch of two with one left over; three faults stay below the
code's `MAX_RETRIES`.  In `usage_wait` time is a few ticks: a reset of 1 is waited
out, one of 3 is beyond `MaxWait`, a delay of 1 makes a timer fire too early and be
armed again, and two waits reach the budget.  In the runs of `automation` a cron slot
comes every tick and the clock stops at 2: a fire, the next slot while the first run is
live, and an end time that lies at the last tick.  Two rows hold a run and
the skip, the miss or the manual run behind it; with two operations the second meets
what the first one left.  All three schedules with three rows (seven million states)
hold, too.  The run
`usage_wait` with four inputs and one fault (a million states) holds, too.

**Fairness** (`FairSpec`): weak fairness of the steps the host and its runners take
by themselves.  The agenda runs because JavaScript runs a segment to its end.
Retry timers fire.  A process that was started registers; a query ends; a runner
that serves no query exits, because of its idle timeout, a close request or a
kill; a failed attempt's `finally` runs; stops and restarts return, because every
wait in them has a timeout and the kill is assumed to work (`MayTimeOut = FALSE`).
Gates are opened because callers release them in `finally` blocks.  No fairness is
assumed of requests.

In `ChannelReliability` the attempt, the deliveries, the lapse of a turn's lease and
the recovery passes are weakly fair: they are code that runs and timers that fire.
The user answers a card that waits (`ResumeFromUser`): without an answer the turn waits by
design.  `PassClaims` is strongly fair: the periodic pass finds a row due again and
again while the delivery of another row may disable it in between.  `DeliveryCursor`
has weak fairness of what the host and its runners do by themselves (`Progress`), every
query being answered in the end or its runner exiting.  `UsageLimitWait` adds that time
passes (`Tick`).  `Automations` has weak fairness of the clock and the tick, of the steps
of a run (checks and scripts have time limits, `automation-scheduler.ts:687-702`), of
the lane (`Take`, `TurnStep`: a runner exits in the end, a parked input's reset comes, a
retry has a limit), of deletions, rebuilds and resets under way, and of restarts.  Crashes, stops, failures and arrivals are never required.

## What the runs found

In each of these TLC violates the property of a configuration; the trace is the
argument.  The first two are runs of `PROJECT.json`.

1. `MCGroupQueueStopStrands` (run `stop_strands`).  `runTask`'s `finally` (3118-3126)
   drains when no stop was requested, or when the lane is paused, and otherwise not at
   all.  After an ordinary stop, work queued while the runner was torn down, and other
   lanes waiting for its slot, stay queued until an unrelated event drains.  The comment
   in `drainWaiting` (3279-3280) relies on the opposite.
2. `MCAutomationsMissed` (run `automation_missed`).  A cron run is live at the crash and
   the next slot passes while the service is down.  `recover` first settles the run, and
   `finishRun` (`automation-scheduler.ts:850`) counts the next fire from now: the slot is
   never recorded as missed, which `README.md:227` promises.
3. `MCChannelForgotten`.  An attempt fails and leaves its error
   in the turn (`retryChannelTurnRun`, `channel-reliability-store.ts:1671`), the next
   claim keeps it (1556-1563), and the host crashes.  The fence means to write "manual
   reconciliation required" (1745) but keeps the old error (1751).  The next start finds
   a closed turn that asks for nothing (`channel-turn-runtime.ts:141-149`), and
   `index.ts:11512-11525` consumes the input: no answer, and not the notice that is to
   tell "the user why automatic replay stopped" (3870-3874).  `AnsweredOrTold` and its
   theorem `ConsumedIsAnswered` except exactly this.
4. `MCGroupQueueHostStrands`.  The user's limit counts all runners of
   the owner, host ones included (`index.ts:16135-16140`), and does not bind host lanes.
   When a container lane of a user over the limit exits, `drainGroup` asks
   `hasCapacityFor` (3235) before it looks whether the lane has work, puts the lane in
   `waitingGroups` and returns: another user's lane that waits for the pool's slot is not
   visited, though "nothing pending for this group; check if other groups are waiting for
   a slot" (3261) describes exactly this exit.
5. `MCChannelSpeaks`.  An aside still under way when its attempt ends is neither
   delivered nor uncertain when the settlement looks (`index.ts:14374`): the turn is
   retried, and a second attempt answers next to the first one's output.
6. `MCCursorStartup`.  At startup the durable follow-up queue starts the lane's task
   (`index.ts:18912`) before recovery rewinds the next-pull cursor (19257-19258): the
   turn commits over a message the dead runner had accepted and not answered.
7. `MCCursorRetry`.  A command's reply in a cold turn moves next-pull past an earlier
   agent input of its batch (`index.ts:10897`); when the attempt fails, the retry reads
   behind that input.
8. `MCAutomationsOnceDone`.  A once is moved to a later time while it runs.  The end of
   the run (`automation-scheduler.ts:846`) completes it as done, and the new time is
   forgotten.
9. `MCAutomationsParked`.  `docs/API.md:147` says that a run whose input waits for a
   usage-limit reset stays `queued`; its turn has already made it `running`
   (`index.ts:10998`), and parking the input (13208) does not put it back.
10. `MCAutomationsReset`.  A run fires into the session while a reset awaits the stop of
   the runner (`commands.ts:139`).  The cursor then passes its input (166): the run stays
   live until the next restart, and every later fire is skipped as an overlap.
   `automation_fair` and the theorem `RunsAreServed` leave resets out because of it.
11. `MCAutomationsRebuild`.  A rebuild cancels a running once, which completes it, and
    then pauses it by the status read before (`automation-service.ts:683`).  It ends
    paused for the rebuild, whose end cannot resume it, as its time has passed.

Seen while modelling, and left to the reader of the code: no run is kept for them,
and the properties exempt them where they must.

- In the queue: a quiesce whose force-kill times out resumes while the runner is
  still up, and the late exit is then an ordinary stop's (finding 1).  A mutation
  that is under way at shutdown starts its parked task during the shutdown, as
  `drainWaiting` (3265) does not ask `shuttingDown`; without mutations `stops` shows
  that nothing starts.  A warm-up runner asks for no reclaim when it registers, so
  work that queued in between waits for its idle timeout.
- In the channel: a turn that waits for its user and whose card was closed before a
  crash is orphaned (`WaitOrphaned`); a reply left `sending` by a restart within its
  lease waits for the next restart (`ReplyLapsed`; `index.ts:19233`); a turn failed
  before a crash and its notice after it leaves the user without either.
- In the cursors: receipts behind a cold command are not eligible until the runner
  exits, and are then replayed; a cold commit does not flush deferred replies
  (`index.ts:12340`); a row the queue hid while a later one was taken, and which is
  then released to the cold reader, lies behind the cursor (`overtaken`); rows in the
  queue of a runner that exits wait for the next run, a promotion or a restart.
- In the usage-limit wait: when the resumed input fails for good, rows parked with it
  but not in its batch stay in the queue of a lane that no longer waits (`stranded`).
  Input, or "send now", that arrives while the runner of the failed turn is still up
  waits for the timer, where the notice promises an immediate retry
  (`usage-limit-wait.ts:132`).  A crash between reservation and parking ends the wait
  early and may forget its count; a cancel or `/break` of the last queued row in that
  moment leaves the failed input unread until the next one comes.

## Proofs

`GroupQueueProofs.tla`, `GroupQueueWorkProofs.tla` and `GroupQueueLaneProofs.tla` prove,
for every value of the constants that satisfies the named assumptions of `GroupQueue` (finite lanes, limits that are naturals, task
constants in `Task`, one JID per held session), and so for any number of lanes,
tokens, holders, retries and requests:

| Theorem | Statement | Argument |
|---|---|---|
| `TypeCorrect` | `Spec => []TypeOK` | one lemma per action; sequences need that appending, removing and concatenating agenda entries stays in `Seq` |
| `OneRunner` | `Spec => []OneRunnerPerKey` | inductive over `TypeOK` |
| `GatesHold` | `Spec => GatedLaneStartsNothing` | every start passes `RunTask`, which re-tests the gates; the action that starts a runner changes no gate |
| `Capacity` | `Spec => []CapacityRespected` | inductive over `TypeOK` |
| `RetryExclusive` | `Spec => []RetryIsExclusive` | part of `WorkInv` |
| `DeletedDead` | `Spec => []DeletedWorkspaceIsDead` | part of `WorkInv` |
| `WorkRemembered` | `Spec => []QueuedLanesWait` | `WaitInv` |
| `DeliveriesKept` | `Spec => []NoDeliveryStranded` | `OwedInv` |
| `ClosingTakesNoQuery` | `Spec => ClosingRunnerTakesNoQuery` | the kinds of lane step |
| `QueuedTaskStarts` | `StoppedLane = {}`, no deletion and no shutdown give `Spec => QueuedTaskLeavesByStarting` | the kinds of lane step, with `WorkInv` |
| `ShutdownIsFinal` | `Spec /\ NoStopWhileDown => ShutdownStartsNothing` | `DownIsEmpty` |
| `NothingStranded` | `StoppedLane = {}`, no force-kill timeout and `SeparateOwners` give `Spec /\ NoStopWhileDown => []NoWorkStranded` | `StrandInv`, with all of the above |
| `ImplementsPool` | `Spec => ServesAsPool` | `StepShape`, the kinds of lane step, and that exactly the runners have a task |

The proofs of `OneRunner`, `GatesHold` and `Capacity` share one idea.  Almost every action leaves the set of
running lanes alone; the others add one lane or remove one.  `StepShape` states it:
a step keeps the runners (`SameRunners`), starts one runner on a lane that had a
free slot, no gate and no runner of its key (`Starts`), or ends one (`Exits`).  The
action cases are done once for this lemma, and each invariant is then preserved by
three short cases.  For the counter the cases need the cardinality of the running
container lanes after adding or removing one, from the library's facts on finite
sets.  `OneRunnerPerKey` alone is not inductive without typing; with `TypeOK`, and
with what `Starts` says about the moment of starting, it is.

`RetryExclusive` and `DeletedDead` rest on one inductive invariant, `WorkInv` of
`GroupQueueWorkProofs.tla`: for each lane, an armed timer is live (`RetryLive`),
only a runner has a running task (`TaskRuns`), and the lane of a deleted workspace
is dead (`Dead`).  `RetryLive` is inductive by itself: every operation that ends
the attempts clears the timer in the same segment, and one is armed only after
`CanScheduleRetry`.  `Dead` is not: a preserving stop parks `activeTask`, so a dead
lane stays empty only because a lane without a runner has no `activeTask` left over,
which is `TaskRuns`.  The queue can then not refill, because every admission asks
`Refuses` and everything else starts from a queue that is not empty
(`QueuedIsAlive`).  The invariant speaks of one lane at a time (`LaneInv`), so each
action needs only what it does to the lanes it writes (`OneLaneWork`,
`AllLanesWork`).

`GroupQueueLaneProofs.tla` is about what a step does to one lane's queue and runner.
`StepLanes` goes through the actions once and sorts what each does to each lane into
eight kinds (`LaneStep`): the queue stays (`Keeps`), an admitted task joins it (`Joins`),
a runner begins or ends (`Begins`, `Ends`), a stop, deletion or shutdown drops the queue
(`Drops`), a preserving stop puts a task back (`Parks`), an idle lane is forgotten
(`Forgets`), or a stop takes the fired retry out (`Unqueues`).  `AgendaFollows` and
`RequestOpens` do the same for the calls a segment leaves in the agenda (`Follows`,
`Opens`), and `GateGoes` says what takes the last gate off a lane.  The theorems are then
proved from these kinds and not from the actions:

- `WaitInv`: a lane with queued work is in `waitingGroups`, or will be drained when its
  runner exits, by a call of the agenda, or when its restart returns.
  `QueuedLanesWait` alone is not inductive: a *stopped* runner's exit drains nothing, so
  its lane has to wait already (`Minded`), and during a shutdown a drain starts nothing
  and does not wait either, so a queue holds at most the one task a preserving stop put
  back, behind a lane that waits (`Down`).
- `OwedInv`: what a lane without a runner owes is owed under a gate of a caller, or its
  replay is a call of the agenda that comes before any call that could start a runner
  (`RecoverFirst`); and a preserving stop lasts no longer than the gate it was made under
  (`GateInv`), which is what `RunnerExits` relies on when it keeps the receipts.
- `DownIsEmpty`: while the host shuts down nothing is queued.  `NoStopWhileDown` says
  that no mutation stops a runner then: such a stop puts a task back, and the end of the
  gate starts it (see above).  It says nothing when nobody shuts down.
- `StrandInv`: a lane with work is behind a gate, a call that offers it a slot is due,
  or a crowd leaves no room for it: its key's runner, the pool or its user's limit
  (`Placed`).  The invariant is not `NoWorkStranded` itself, because after an exit, and
  while a lane restarts, the slot is free but *claimed* by the lane that left it
  (`Claimed`), which will be drained and takes the slot or offers it to all.  So a crowd
  consists of runners and of lanes that claim a slot, and it has to be one that could
  run at the same time (`Legal`): claimants may share a key or exceed a user's limit,
  and those do not count twice.  When somebody starts, a claimant of the crowd may lose
  its place; `CrowdKept` shows that a crowd of the same lanes is left all the same, by
  swapping the claimant for the one that started, of its key (`KeySwap`), its user
  (`UserSwap`) or the pool (`SwapCount`).  A runner that exits keeps its place as a
  claimant (`SlotsStay`), and a drain that ends gives its claim up only after the slot is
  taken, or offered to everybody (`DrainPlaces`).
- `StopInv`, `DrainInv`: a stopped runner that has not left is behind a gate, so that its
  exit offers the slot to all; a drain is of one lane and its segment's first call.

The hypotheses of `NothingStranded` are the cases in which the code strands work:
ordinary stops and mixed owners (findings 1 and 4), and stops that time out (below
finding 1).  `SeparateOwners` has two parts: no user has both host and container lanes
(finding 4 is about one who has), and the lanes of one conversation have one owner, which
is so because the limit counts a lane for the creator of its workspace
(`index.ts:16122-16140`), and the lanes of one conversation are in one workspace (a
legacy messenger row without `created_by` would be an exception: a drain that finds its
key taken offers its user's place to nobody).
Restarts, gates, deletions, retries, replays and reclaims are all included.

`ImplementsPool` says once more, and in one formula, what `OneRunner`, `GatesHold`,
`Capacity` and `DeletedDead` say apart, and adds what they leave out: a step begins or
ends at most one runner, never both; a runner keeps its task; lanes are removed under
their own gate; and everything else the queue does is invisible.  A step that keeps the
set of runners keeps every task (`SameTask`), a start finds `Starts` (no gate, no runner
of the key, room by the counter, which `CapacityRespected` identifies with the runners),
and an exit leaves no task behind (`TaskRuns`).  That every runner has a task is the
small invariant `ServedInv`.

The channel's proofs hold for every set of outputs, every kind of reply and provider,
and any number of faults:

| Theorem | Statement | Argument |
|---|---|---|
| `ChannelTypeCorrect` | `Spec => []TypeOK` | one lemma per action |
| `OutboxKeepsPromise` | `Spec => KeepsPromise` | `PromiseInv`: an unsent row has no request and nothing shown (`UnsentIsQuiet`), a delivery in flight and its row agree (`CallMatchesRow`), what is shown was accepted, and a refusal means nothing is (`SeenIsAccepted`); each action is then a step of the ledger or a stutter |
| `ClosedForGood` | `Spec => ClosedTurnsStay` | only a turn under way is leased (`LeaseInv`), and every write to a turn asks for the lease or an open turn |
| `CompletedSettled` | `Spec => []CompletedTurnIsSettled` | `CompletedInv`: no row of a completed turn is claimed again |
| `ConsumedIsAnswered` | `Spec => []AnsweredOrTold` | `SeenInv`: what the attempt believes was delivered was shown; an open turn carries at most the error of a failed attempt (`OpenReason`), so an interrupted one asks for a word, is a lost retry or has a card the user sees |

The cursors' proofs hold for any number of messages and faults.  `CommittedSettled` and
`NoneForgotten` assume `InOrder`, that neither `early` nor `cross` is allowed; the
configurations `MCCursorStartup` and `MCCursorRetry` show that they need it.

| Theorem | Statement | Argument |
|---|---|---|
| `CursorTypeCorrect` | `Spec => []TypeOK` | a nonempty bounded set has a maximum (`MaxIs`, by well-founded induction), so the cursors stay in range |
| `CommittedSettled` | `InOrder` gives `Spec => []CommittedIsSettled` | `CursorInv`: `RowsHold`, `HiddenHold`, `TurnHolds`, `PullHolds`.  A flush commits deferred replies only (`FlushIs`); among the deliveries at or behind a message one comes first (`FirstThrough`), so what a series of receipts commits is covered or settled |
| `NoneForgotten` | `InOrder` gives `Spec => []NothingForgotten` | `PullHolds`: between the two cursors everything unsettled is in the cold turn or in front of a delivery not yet committed |

The waits' proofs hold for any number of inputs, ticks, waits and faults, from `WaitInv`:

| Theorem | Statement | Argument |
|---|---|---|
| `WaitTypes` | `Spec => []TypeOK` | the bounds of `MayWait` |
| `TimersFit` | `Spec => []TimerFitsWait` | `TimerHolds`, which adds that no timer is armed before the parking |
| `WaitingLanesRest` | `Spec => []WaitingLaneRests` | `LaneRests`: behind a runner that goes nothing is open, because parking took everything and what arrives is queued |
| `BudgetIsKept` | `Spec => []BudgetHolds` | `CountHolds`: the row has counted every wait in a row, and a lane that waits has something queued, so that its timer never forgets the count |
| `OnlyNewInputEndsWaits` | `Spec => OnlyNewInputEndsWait` | `HeldIsParked`: what had arrived when the lane was parked is not open while it waits |

The automations' proofs hold for any schedule function, any number of rows, operations,
retries and crashes, resets included:

| Theorem | Statement | Argument |
|---|---|---|
| `Types` | `Spec => []TypeOK` | part of `Good` |
| `OneRunAtATime` | `Spec => []OneLiveRun` | part of `Good`; a row becomes live in `Fire` and `RunNow` only, which ask for no other |
| `ClaimsAreUnique` | `Spec => []SlotsAreClaimedOnce` | part of `Good` |
| `SchedulesGoOn` | `Spec => []ScheduleNeverStalls` | part of `Good` |
| `RunsAreServed` | `"reset" \notin Allowed` gives `Spec => []LiveRunsAreServed` | `LaneInv`: an unused row has neither input nor task, an input whose outcome is reported belongs to an ended run, and a run records an input the lane still has; then whatever takes an input out of its lane ends the run |
| `EndsAreFinal` | `Spec => EndedRunsStayEnded` | whatever writes a status asks for a live or free row (`Kept`), or deletes it |

`Good` is one inductive invariant (`Invariance`): `Typed`, `OneLive`, `Distinct`, `Behind`
and, of an active automation, `AheadRecurring`, `AheadOnce` and `Armed`.  No two claims
are equal because a claim does not lie ahead of the clock (`Behind`) and the next fire
of a cron or an interval lies ahead of every claim (`AheadRecurring`): whoever puts the
schedule back counts from now, `NextSlot` is later than its argument and monotone, and
an interval adds a positive number.  A once is armed for its own time only, and a claim
of that time belongs to a run that is still live (`AheadOnce`), which keeps it from
being claimed again because `Fire` asks for no live run.  The end of that run completes
the once, so the parts hold only together.

Only model-checked: the liveness properties
(`QueuedWorkEventuallyRuns`, `DeliveriesSettle`,
`InputSettles`, `MessagesSettle`, `InputsSettle`, `RunsEnd`, `OnceIsServed`), which are out of the prover's
reach (fairness, ENABLED).

## Abstractions and what is not modelled

In `GroupQueue`:

- Waiting order: `drainWaiting` visits the waiting lanes in insertion order, the
  model in any order.  Which idle runner idled longest is any of those that the
  reclaim may choose.
- Piped input always carries a durable receipt; `ipcOwed` says whether some are
  unacknowledged.  Leftover input files (`recoverUnconsumedIpc`) and the markers
  of recently stopped lanes, which only tell such leftovers from a crash, are left
  out, and so are failures of file operations.
- A delivery recovery and a restart are enqueued as tasks of the runner's own lane;
  a workspace-wide stop or restart is the per-lane one on each of its sessions.
- Deferred interrupts, the exit callback of a deferred stop, usage-limit waits, the
  retry snapshot of messages, status getters and broadcasts change nothing the
  properties see.
- The IPC directory's existence is `registered`; the resolvers do not change.

In `ChannelReliability`: the inbox before the turn exists, upload-then-send (unused),
a capacity-rejected Feishu row that its replacement pages supersede
(`markFeishuCapacityReplacementDelivered`, failed to cancelled), the recall of an output, the clean-up of stale `retry_wait` rows, several processes over
one database, the texts of notices and cards.  In `DeliveryCursor`,
`UsageLimitWait` and `Automations`: see their sections.

The components without a module are listed in `PROJECT.json` with the reason.  Most of
the repository's volume is connectors, routes, settings, the Web client and database
queries: formatting, I/O and synchronous transactions, with no order of events for a
model checker to try.  With core logic, and not modelled: the runner's side of IPC
delivery, capability mutation with its keyed locks, the revalidation of stuck runners,
run correlation, the provider pool and team work items.
