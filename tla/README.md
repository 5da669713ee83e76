# Verification of subfleet

subfleet dispatches work to Codex and Claude lanes (one lane per subscription
account), keeps a ledger of the runs, tells the dispatching session when a run
ends, watches the capacity of every lane, and drives a review gate in which two
agents of different families must approve the same revision before a pull
request is merged. It is a set of short-lived processes (a Python CLI, two bash
runners, launchd jobs and Claude hooks) that share nothing but files under a
state directory, so its hard behaviours are those of processes that read, lose
the lock, act and write while others do the same, and that may be killed
between any two steps.

This directory holds the TLA+ model of that system: modules that model its
components, TLC configurations that check them on small instances, and proofs
that TLAPS checks for every instance.

## 1. Inventory of the system

| Component | Source | State it keeps | Operations |
|---|---|---|---|
| Agreement gate | `subfleet/consensus.py` | `gate.json` (status, rounds, lease, action), `certificate.json`, per gate directory, under `.lock` | `gate pr`, `gate plan`, `gate continue`: review rounds, agreement, merge, recovery |
| Run ledger | `subfleet/run_ledger.py`, `subfleet/cli.py` (`_record-run`, `runs`, `wait`, `kill`) | `runs/<id>/meta.json` and artifacts, under `runs/.lock` | start, adopt, update, finish, record event, prune, reap, kill, wait, list, in-flight counts |
| Notices | `subfleet/notify.py`, `cli._notify_finished`, `cli.cmd_session_hook` | `pending/<session>.jsonl`, session registry (read) | on finish: push or park; hooks surface; mark surfaced; prune |
| Delegation | `subfleet/delegate.py` | none of its own; writes ledger entries | choose family, lane and model; launch attached or detached; fall back once; wait |
| Codex runner | `bin/subfleet-codex` | scratch files, worktree salvage refs | adopt or start, run, retry on limit, finish |
| Claude runner | `bin/subfleet-claude` | the same, usage ledger | adopt or start, run, re-pick a lane on limit or dead auth, finish |
| Reset policy | `subfleet/reset_policy.py`, `cli.cmd_reset_codex` | `reset-policy-state.json` under a policy lock | evaluate, redeem one gifted reset credit, remember, record |
| Restart nudges | `subfleet/tickle.py` | `tickle/<session>.json`, sweep state, revive records | decide, deliver, sweep, auto-revive, retire |
| Keepalive | `subfleet/keepalive.py`, `bin/subfleet-keepalive` | `keepalive-state.json` under a lock | ping idle Claude lanes, record dead tokens |
| Watchdog | `subfleet/watchdog.py`, `bin/subfleet-watch` | `alerts.json`, history, snapshot | snapshot, heal, evaluate conditions, alert on transitions |
| Capacity | `subfleet/capacity.py` | live cache, usage ledger, lane cooldowns under a lock | probe, estimate, gate lanes, extend and clear cooldowns |
| Capacity expiry | `subfleet/capacity_expiry.py` | none (pure over history) | burn rates and projections |
| Fable reserve | `subfleet/reserve.py` | reading cache, heal marker | verdict per account, filter lanes, heal a login |
| Codex account probes | `subfleet/codex.py` | rollout scan cache | read auth, probe quota, list and consume credits, refresh |
| Claude account probes | `subfleet/claude.py` | raw probe file (read) | identity, probe quota, pick the freshest source, rank lanes |
| Snapshot | `subfleet/snapshot.py` | none | verdict per home, fleet roll-up, dispatch order |
| Handoff | `subfleet/handoff.py` | none | bounded, scrubbed brief of a transcript; dispatch it |
| Codex resume | `subfleet/resume_codex.py` | a ledger entry | resume a thread on the home that owns it |
| Hooks | `subfleet/hooks.py`, `bin/subfleet-hook` | `~/.claude/settings.json` | install, uninstall, status; block attached runners |
| Lanes, login, paths, util, render | `subfleet/{lanes,login,paths,util,render}.py` | none, or files written atomically | recognition of lane sessions, login ritual, paths, atomic writes, formatting |
| Command line | `subfleet/cli.py` | none | argument parsing and dispatch |
| Guard | `bin/subfleet-guard`, `bin/subfleet-guard-hook` | preflight cache | pattern rules over one shell command |
| Sidebar mirror | `bin/subfleet-mirror` | per-account index files, sidecar | three-way flag and title sync, revive, prune |
| Status line, login watch, shims | `bin/subfleet-statusline`, `bin/subfleet-login-watch`, `bin/codex`, `bin/carpool` | breadcrumbs | rendering, polling |
| Menu bar app | `app/SubfleetApp.swift` | none | display of the snapshot |

### How the parts interact

`subfleet run` (delegation) picks a lane from capacity, reserve and snapshot,
pre-creates a ledger entry, and starts a runner, detached in a session of its
own or attached. The runner adopts the entry (or creates one), runs the
provider CLI, may re-pick a lane, and in its EXIT trap finishes the entry,
which writes a notice for the dispatching session. `subfleet wait` polls the
ledger. The gate launches its peer through delegation and waits for it the same
way. The watchdog runs every few minutes from launchd: it probes every account,
may redeem a reset credit, and alerts. The hooks surface parked notices at the
next prompt and schedule restart nudges. All communication is through files:
JSON documents replaced atomically, append-only JSONL, and `flock`.

### What is hard

* Sections that hold a lock are short; every decision of more than one step
  (a gate's review or merge, a reap, a redemption, a nudge) reads under a lock,
  acts without it (GitHub, a provider, a socket) and writes back later.
* Every process may be killed between two steps: runners by the operator or by
  a closing desktop app, the gate by its caller, launchd jobs by sleep.
* External effects (a merge, a consumed credit, a push into a session's inbox)
  are not undone by a crash and may have happened although the call failed.
* Liveness of others is inferred from pids.

### What makes each component correct

* *Gate*: only attested revisions are reviewed; the gate acts only on a
  standing approval; one dispatcher at a time; nothing decided is rewritten; a
  completed merge landed what was agreed; invocations return, but for one whose
  own peer was killed.
* *Run ledger*: a finished entry keeps its outcome whatever runs later; an
  entry is never lost before it is finished; the in-flight count is exact about
  living runners; a waiter always learns the end of its run.
* *Notices*: each finished run is told to its session at least once; until it
  is told, or lost in a way the module names, somebody still has it.
* *Reset policy*: at most one credit per interval, never for a lane that does
  not need it, also across a crash between the consumption and its record.
* *Delegation and runners*: at most one fallback; the entry a runner writes is
  its own; an entry pre-created for a runner that died is closed.
* *Nudges*: an interruption earns one nudge, unless forced, and one revive; a session has one
  detached continuation at most; a restart is not lost.
* *Capacity*: a refusal keeps its lane out until its reset; the gates that judge
  a lane agree; no lane is lost for good.
* *Dispatch*: the work is never moved down a tier; pins hold; a lane that refused
  is not asked again; every dispatch ends.
* *Watchdog*: alerts and heals keep their spacing; an all-clear answers an alert;
  a dead login is alerted again and again, an expired token healed.

The hazards these stem from are listed, each at its line, under `hazards` in
`PROJECT.json`.

## 2. Plan

| # | Module | Models | State |
|---|---|---|---|
| 1 | `Gate` | the agreement gate, its peers and GitHub | done: checked and proved |
| 1a | `Agreement` | what the gate promises, abstractly | done: checked as a property of `Gate`, refinement proved |
| 1b | `GateInvariant`, `GateProofs` | inductive invariant and theorems | done |
| 2 | `RunLedger`, `RunLedgerProofs` | ledger entries, front doors, runners, reapers, waiters, pruning | done: checked and proved |
| 2a | `RunBook` | what the run ledger promises, abstractly | done: checked as a property of `RunLedger`, refinement proved |
| 3 | `Notices`, `NoticesProofs` | completion notices: push, park, surface, prune; waiters that suppress them | done: checked and proved |
| 4 | `ResetPolicy`, `ResetPolicyProofs` | redemption under the policy lock, stale snapshots, crash after consumption, the operator's resets | done: checked and proved |
| 5 | `Nudges`, `NudgesProofs` | one restart, one nudge; musters, sweeps, retirement and the revive pass over one record per session | done: checked and proved |
| 6 | `Lanes`, `Capacity`, `CapacityProofs` | what makes a lane dispatchable, and the files that decide it | done: checked and proved |
| 7 | `Dispatch` (extends `Lanes`), `DispatchProofs` | `subfleet run` from the request to the provider: tier, lane, Fable reserve, fallback, promotion, the runners' own re-picks | done: checked and proved |
| 8 | `Watch`, `WatchProofs` | the watchdog's heals, alerts and all-clears over its two files | done: checked and proved |

Each module stands for itself: what crosses from one to the other is a file, and
each module has the writers of its files as actions of its own. `Dispatch`
extends `Lanes`, the gates that `Capacity` feeds. The eight `MC` modules give
the constants their values.

Every safety property that a run checks is also a theorem. What would come
next: `Dispatch` composed with `RunLedger` (runs in flight as ledger entries),
and the sidebar mirror's three-way merge.

## 3. The gate

### State and actions

`Gate.tla` models every operation of `consensus.py` that changes state. Each
element of `Procs` is one invocation of `subfleet gate pr`, `gate plan` or
`gate continue`; an operator's repeated `continue` is another element. An
invocation reserves at most one round and at most one merge, so its name also
serves as its pid, its lease token and the attempt id of its round and action.

| Variable | Code |
|---|---|
| `gate` | `gate.json`: status, rounds, lease, action |
| `certificate` | the revision named by `certificate.json` |
| `artifact`, `requests` | the plan, or the pull request as `_gh_pr` reports it, and the merge requests GitHub has taken and not decided |
| `peer` | the run each invocation launched, as the ledger and the operating system show it |
| `pc`, `expect`, `seen`, `snap`, `result` | program counter and locals: the attested revision, the captured one, the copy of `gate.json` it works from, what it has learnt and not yet saved |

A section that holds the file lock is one action; every read of the artifact,
the queue or the peer's run is an action of its own, since the code makes it
outside the lock. Actions follow the functions: `NewGate` (`_new_gate`);
`Continue`, `Reconcile`, `ReconcileQueue`, `SaveReconciled`, `MainApproves`,
`Supersede` (`_continue_gate`, `_reconcile_action`); `CaptureForReview`,
`Reserve`, `LaunchPeer`, `SpawnDetached`, `Collect`, `FinishReview`
(`_review_round`, `delegate.launch_detached`, `delegate.wait_for`);
`CompleteAgreement`; `ReserveMerge` to `SaveAction` (`_perform_merge`).
`Refuse` is every `GateError`; `Stop` kills an invocation anywhere. `Push`,
`BaseMoves`, `CloseOrReopen`, `MergedByOthers`, `DecideRequest` and
`QueueDecides` are the author, the base branch, other people and GitHub; they
are external and interleave freely.

Two reductions are made. Contents are abstract: a revision is a head with a
base, a verdict one of three values, and every reason for an error is one
`error`. And a dead invocation's pid is not reused.

### Abstract specification

`Agreement.tla` says what the gate is for: revisions are attested by a main
agent, consent is given to one of them, consent may be withdrawn, and the
outcome is decided once, on the consented revision, for a merge only when it
has landed. `Gate` implements it under the refinement mapping at its end:
attested revisions are those of the rounds, consent is the latest round's
revision if it was approved, the outcome is that of a completed gate.

### Runs

| Run | Checks | Instance |
|---|---|---|
| `GateMerge` | `RoundsAttested`, `AgreementStands`, `OneDispatcher`, `OneReview`, `CompletedMergeLanded`, `HistoryKept`, `AgreementSpec` (the refinement), `EveryInvocationReturns` | merge gate, 2 invocations, 2 heads, 2 bases, detached launch, fair |
| `GatePlan` | `CompletedCertified` | plan gate, 3 invocations, 3 rounds, attached launch |
| `GateUnknown` | `UnknownNeverRetried`, violated | see the findings |

Bounds. Two invocations are an owner and a recoverer; two heads distinguish
"approved before the push" from "approved after", and the second base matters
to what the merge landed. What needs a third invocation, a late writer whose
snapshot predates both others, is in the plan gate and, for the merge gate, in
the proofs, which hold for any number. The rounds are bounded by the number of
invocations, since each reserves one. `TypeOK` has no run: it is a theorem.

Fairness. `FairSpec` assumes weak fairness of each invocation's own steps and of
its peer's runner: they are processes the operating system schedules, and every
call they make has a timeout, but the wait for the peer (`wait_for_runs`). A
runner ends or is killed; nothing is assumed of which, of `Stop`, of GitHub, or
of people.

### Findings

* `GateUnknown`: an invocation whose decision to merge predates another's merge
  attempt dispatches again over a `queue_unknown` action it never looked at,
  although unknown is documented never to permit a retry.

Observations without a run. A gate whose detached peer is killed before its
finish record (`RunnerKilled`) never returns: the runner is its own child, it
waits without a timeout and does not reap it, so the pid answers for ever
(run_ledger.py:820-829, delegate.py:1186). That `Zombie` is the one exception of
`EveryInvocationReturns`; while it lasts, `continue` refuses, since the round
looks under review to everybody, and only a kill of the waiting gate ends it. A
stale reservation may replace the approval that a
blocked merge would be retried with (consensus.py:1488); after that every
`continue` is refused. A merge gate recovered by `continue` after a crash between
agreement and certificate completes without a certificate, which is why
`CompletedCertified` is checked for plans. And with a synchronous launch the
runner ledgers itself after it is started, so that if the gate dies in between,
`continue` starts a second peer; `OneReview` is therefore checked with a
detached launch.

### Proofs

`GateProofs` proves, for every set of invocations, heads and bases, either kind
of gate and any round limit, `Invariance` (`Spec => []IInv`) and from it
`TypeCorrect`, `Attestation`, `StandingAgreement`, `LandedRevision`,
`ApprovedRequests`, `SingleDispatcher`, and the action properties `History` and
`Completion`. The only assumption is `GateAssumption` (the model values are
distinct, a plan has no merge, `MaxRounds` is positive). It ends with
`Implements`: `Spec => AgreementSpec`. Two more properties are true of some gates
only and are proved of those: `SingleReview` (`OneReview`) of gates that launch
their peers detached, `Certification` (`CompletedCertified`) of gates that end
with the agreement, as every plan gate does.

None of those properties is inductive. The reason is the snapshots: whether a
late write is harmless depends on what its writer still knows about
`gate.json`. `IInv` (`GateInvariant.tla`) therefore has, besides `TypeOK`, a
part about the shared state, `GateOK`, and a part `Known(p)` about each
invocation, which says what it may rely on at each program counter while others
write: `LocalOK` (its locals are defined where they are read), `ReviewerAlone`
(if the lease is still its own, the last round is its own and undecided),
`SnapshotOK` (its snapshot is an earlier state of the gate, so its decided
rounds are a prefix of the present ones), `MergeKnown` (between `ReserveMerge`
and `SaveAction` the gate is as it left it unless somebody else took the action
over), `RecoveryOfDead` (it only recovers what a dead invocation left) and
`ActorOwnsRounds`. The proof has one lemma per action and, below it, one step
for each conjunct that action can disturb; steps that leave `gate` alone share
one lemma. `TypeOK` and `IInv` were checked with TLC before they were proved.

The two conditional theorems add an invariant each. `ReviewInv`: a peer that is
in the ledger reviews the round that is now under review, and its invocation
publishes a verdict only when that peer is over. It stands because recovery
waits for a peer as long as the ledger shows it, and because a detached launch
writes the entry before it starts the process; with a synchronous launch it is
false. `CertifiedInv`: a gate that only authorizes its agent never has an
action on its way (`NoMerges`, of the gate and of every snapshot), so the one
write that completes it is the one that follows the certificate.

Model-checked only: `EveryInvocationReturns` (liveness), the violations.

## 4. The run ledger

### State and actions

`RunLedger.tla` models `run_ledger.py` with the processes that use it.

| Variable | Code |
|---|---|
| `entry` | `runs/<id>/meta.json`: absent, bare (a directory without `meta.json`), running (no `finished_at`) or finished, whether it has a `pid`, its `rc`, the `orphaned` mark |
| `front` | where the front door of each run is in `delegate.launch_detached` and `wait_for` |
| `runner`, `code` | the runner's process and the exit code its EXIT trap is about to record |
| `reaper` | what each `subfleet runs reap` has read, probed and still has to write |
| `waiter` | what each `subfleet wait` has seen and answered |

Each section under `runs/.lock` is one action: `StartDetached`, `StartDirect`
(`start_run`, by the front door or by a synchronous runner), `RecordEvent`,
`RecordPid` (`update_run`), `Adopt`, `RecordFinish`, `LaunchFails` and
`ReapFinish` (all `finish_run`), `ReapStamp`. Recording includes the prune that
ends the locked section in the code (`Record`, `Pruned`). Reads without the lock
are actions of their own: `CheckOutput`, `ReapRead`, `ReapCheck`, `Poll`. Front
doors, runners and reapers may die anywhere (`CrashInStart`, `FrontDies`,
`RunnerKilled`, `ReaperDies`); `ProviderEnds` also stands for `subfleet kill`,
whose signal runs the EXIT trap. A dead child stays a zombie that answers
`kill(pid, 0)` while its front door lives (`Zombie`), as `--attach` leaves it.

Abstracted: an id is the number of its allocation, since ids begin with the time
of allocation (two ids of one second are ordered by their tails); a prune
removes its victims at once under the lock, although a poll could see a
half-removed directory, which it reads as missing just the same; grace periods
are two looks instead of seconds; pids are not reused; the ledger's own writes
do not fail; a run's size does not change; `--timeout` is not modelled.

### Abstract specification

`RunBook.tla` says what a ledger of runs is for, whoever writes it. A run whose
runner lives is on record as running. Its runner closes it with `ok` or `failed`
as the last thing it does; somebody else closes it only when the runner is over
(`reaped`) or was never started (`unlaunched`). A record that is closed keeps
its outcome; the only thing that may still happen to it is to be forgotten, by
retention and as part of any step, while one that is running is not forgotten.
`RunLedger` implements it under `Life` and `OnRecord` at its end. The promise has one
blemish, which is the code's (run_ledger.py:864, see the observations): whoever
was closing a run that has been forgotten meanwhile may bring it back as a ghost
(`Haunt`), which only somebody who had already set out to close it can close
again.

### Runs

| Run | Checks | Instance |
|---|---|---|
| `LedgerRetention` | `LiveRunsKept`, `OutcomeTrue`, `RetentionHolds`, `OutputRefused`, `RunBookSpec` (the refinement) | 3 runs, one larger than the byte limit, room for 1, one reaper |
| `LedgerWaiters` | `AnswerTrue`, `WaiterReturns` | 2 runs, room for 1, one reaper, a waiter, fair |

Bounds. Three runs give a victim, a run that triggers the prune and a bystander;
the limits are chosen so that in `LedgerRetention` the count and the bytes are
each exceeded alone. One reaper shows the race of its finish record with the
runner's own; with a second one nothing new may be written, since a finish
record is only ever added to a running entry. Room for one run makes the prune
hit a run that somebody still waits for. The theorems hold for any number of
runs, reapers and waiters.

Fairness. A runner eventually takes a step: it ends by itself or is killed. A
waiter, or an attached front door, polls again. Nothing is assumed of reapers or
of front doors that have not reached their wait.

### Observations

`subfleet run --attach`, and with it the gate's wait for its peer, never returns
if the runner is killed before its finish record (run_ledger.py:823): the
waiting process is the runner's parent, does not reap it, and takes the zombie
for a living runner, although `_pid_running` knows that "an unreaped child still
answers kill(pid, 0)". While it hangs, `runs reap` and other waiters see a living
runner too.

The orphaned mark is written in a second locked section (run_ledger.py:863); if
the entry was pruned in between (by the reaper's own finish record, if it is the
oldest), the mark recreates it as a running entry without a pid, which is never
reaped, pruned or finished (unless a second reaper had looked at it before). Whoever waits for such a run never returns: it is
the one exception `WaiterReturns` makes.

A run that finishes between the reaper's read and its probe is marked orphaned beside
its own exit code. A run that somebody waits for may be finished and pruned
before the next poll, and is then reported as an unknown id. The check of an
`-o` path precedes the entry that claims it, and an entry without a pid is not
live, so two dispatches that start together may both pass; `OutputRefused` says
what remains true, that a path which a live runner owns is refused.

### Proofs

`RunLedgerProofs` proves, for any number of runs, reapers and waiters and any
sizes and limits, `Invariance` (`Spec => []IInv`) and from it `TypeCorrect`,
`LiveKept`, `TrueOutcome`, `TrueAnswer`, the action properties `FinalOutcome`,
`Refused` and `Retention` (`RetentionHolds`), and the refinement `KeepsBook`; the only assumption is `RunLedgerAssumption`. `LiveRunsKept` is not inductive
because it says nothing of the time before the launch: `HistoryOK` adds that an
unallocated id has left no trace, that a created entry is running and waits for
its runner, that only a runner's entry has a pid, and that the entry of a runner
at work has one (which is what `OutputRefused` needs). `OutcomeTrue` needs that a
reaper which found a runner dead is still right when it writes (`ReaperOK`), and
`AnswerTrue` that an answer cannot become false later (`WaiterOK`); both follow
from `Forward`, what every step leaves of the past: runners only go forward, and
a dead one's code does not change. The lemmas `RecordFacts` and `FinishFacts`
say what a record and its prune can do to an entry, so that no step needs to
know which victims the limits choose. There is one lemma for each action or
pair of similar actions, and `RunStep` for those about one run alone.

`Retention` is about the victims themselves. A prune removes the oldest
prunable entries one by one, and each is judged by what the older ones leave, so
the oldest one that is kept (`PrunedEnough`) witnesses that what remains is
within the limits, provided that fewer runs are never over them when more are
not (`OverGrows`). For the bytes, a sum defined by recursion, that is shown of
the least number of runs for which it could fail: `SumsUpTo` that the sums
exist, `SumsGrow` that they are monotone. `RecordedPrunes` says that only a
write that prunes starts or finishes a run.

`KeepsBook` (`RunBookSpec`) is the refinement: the initial states map to those of
the book, and every step maps to a step of the book or leaves it as it is. Most
actions are about one run, and what they prune among the others is what the
book calls forgotten (`Stays`). Which action of the book a write is depends on
what its writer still knows: `IInv` says that a reaper that writes a finish
record is right about the runner's death, and a further invariant, `ClosedInv`,
that whoever is about to write the orphaned mark has closed the run, so that
the mark falls on a closed record or on a forgotten one and never turns a
running run into a ghost.

Proved and not repeated by a run: `TypeOK`, `OutcomeFinal`.
Model-checked only: `WaiterReturns` (liveness).

## 5. The notices

### State and actions

`Notices.tla` models `notify.py` with the processes that call it: the notifier
that follows a runner's finish record, the front door that waits inline, the
session with its inbox, and the hook processes that show parked notices. One
session is modelled; two share neither a file nor an inbox.

| Variable | Code |
|---|---|
| `session`, `inbox` | whether a process of the session is up, and the notices its inbox socket took that it has not read |
| `rows` | the run's row in `pending/<session>.jsonl`: none, parked, surfaced |
| `notifier`, `sent` | how far `_notify_finished` is for the run, and whether its push was accepted |
| `waiter` | the front door in `delegate.wait_for` (the entry's `attached_pid`) |
| `noted` | the `notify` field of the ledger entry |
| `hook` | each `session-hook` process: which event, the list it read, and whether anybody still hears its output |
| `fate` | history: what became of the report of the run |

Each step of the notifier that reads or writes something shared is an action, in
the code's order: `Load`, then `LeaveToWaiter` or `Push`, `Append`, `SetNotify`;
it may die before each (`NotifierDies`). The hook is `SessionStarts` or
`UserPrompt`, then `HookReads` (`pending_notices`), `HookMarks`
(`mark_surfaced`), `HookPrints`, and may die between them, so a hook of a dead
process may overlap the hook of the next. `WaiterReports` and `WaiterDies` are
the front door, `SessionDies` takes hooks and front doors with it, and
`PruneNotices` is `prune_notices`, which only the tests call so far.

Abstracted: the module is not composed with `RunLedger`; that an entry may have
been pruned is the choice `Load` and `SetNotify` have to fail. The bytes of a
push reach the inbox whole or not at all. An `OSError` of the append, which the
code ignores, is the choice `Append` has to write nothing.

### Runs

| Run | Checks | Instance |
|---|---|---|
| `NoticesTold` | `NoneForgotten`, `NoticeKept`, `EveryRunTold` | 2 runs, one attached, 2 hooks, 1 kill, fair |

Bounds. Two runs put one notice into the list a hook has read and let the other
arrive behind it; two hooks let the hook of a dead process overlap that of the
next start. `MaxKills` bounds the deaths of the session, of hooks and of
notifiers together. The theorems hold for any number of each.

Fairness. A notifier, a hook and a waiter go on unless they are killed; the
session comes back, reads its inbox and is prompted again. `EveryRunTold` is
true only of a session that is used again, which is what the code promises.
`Lost` names the ways in which a report may be lost all the same, and
`EveryRunTold` says that there is no other. No property forbids the losses that
`Lost` lists: the code has them (below).

### Observations

A start hook is documented to show also "notices that were pushed while the
previous process of this session was dying" (bin/subfleet-hook:11), and asks for
them, but a pushed notice is marked surfaced as it is appended (notify.py:640),
so that option never adds one: what the inbox of a dying process took is lost.
A report left to a front door that dies before it
reports is told by nobody; a front door that reports and exits before the
notifier looks leads to a second report by a notice; two overlapping hooks may
show one notice twice; a run finished by a reaper is never notified, since only
the runner's own record starts a notifier.

### Proofs

`NoticesProofs` proves, for any runs, hooks and number of kills, `Invariance`
(`Spec => []IInv`) and from it `TypeCorrect`, `NothingForgotten`
(`NoneForgotten`) and the action property `Kept` (`NoticeKept`), from
`NoticesAssumption` alone. `NoneForgotten` is the safety half of `EveryRunTold`:
without it a report could be lost in a step that `Lost` does not name. To be
inductive it needs that a push which was accepted left the report in the inbox
until it has a fate, so that the surfaced row of a pushed notice is accounted
for, and that a row is written only by the append. Model-checked only:
`EveryRunTold` (liveness).

## 6. The reset policy

### State and actions

`ResetPolicy.tla` models `reset_policy.py` and its callers: dispatches that find
no lane (`cmd_pick`; `reset codex --policy` behaves like one that triggers more
rarely), watchdog cycles, and operators (`reset codex <lane|all>`).

| Variable | Code |
|---|---|
| `headroom`, `credits` | the lanes and their credits as the server has them |
| `lock`, `last` | the policy lock and `last_redeemed_at` in `reset-policy.json` |
| `pc`, `lane`, `verdict`, `current`, `todo`, `taken` | each process: its place, the lane it works on, what the evaluator makes of its rows, the time it goes by, the lanes left to an operator, when its snapshot was generated |
| `spent`, `memory`, `known` | history: when the policy made it use a credit, whether that use is on record, what was on record of the others at that moment |

A process takes its `Snapshot`, enters `run` (`Enter`), waits for the lock and
evaluates (`Evaluate`), and then, holding the lock, lists (`SelectCredit`),
posts (`Consume`, whose answer may be lost although the credit is gone),
remembers (`Remember`) and records (`Record`). An operator probes, consumes,
takes the time and remembers lane by lane, and takes the lock for the last of
these only. Any process may die between two steps. The server, the use of the
lanes and the clock are external.

Abstracted: the part of `evaluate` that depends on the rows alone is computed
when they are taken; which lanes the watchdog finds dispatchable is any choice
among those not limited (`rank_for_dispatch` leaves out more of them: unprobed,
refused, duplicate or short-window lanes); the order among candidates is a choice, except that lanes
of the desktop app come last; the clock does not go back; the poll for
propagation, the patched row, and the cleared cooldown change nothing by which
another process judges.

### Runs

| Run | Checks | Instance |
|---|---|---|
| `ResetInterval` | `IntervalKept`, `EveryProcessEnds` | 1 lane with 3 credits, a dispatch, a watchdog cycle, an operator, interval 2, clock to 3, fair |

Bounds. What can go wrong lies between processes and in time, not between
lanes: one lane that is exhausted again after each reset lets every process use
a credit. Three credits are one for each process; the clock is long enough for
an interval to be cut short, to be kept exactly, and to pass.

Fairness. Every process goes on unless it is killed; the lock is released by the
end of its holder, whichever way it ends.

### Observations

`IntervalKept` names what the interval does not cover, although the README of
the repository says that the record "prevents another redemption inside
`min_interval_min`": a credit consumed by a process that was then killed, or
whose answer was lost (it is reported as `consume-failed` and not remembered),
and a redemption whose time an operator's record overwrote with an older one,
since `record_redemption` takes the time before it waits for the lock.
`EvidenceFresh` holds of the watchdog, which judges by the time of its snapshot;
a dispatch judges by the time of its call and may reset a lane again on a cached
snapshot that is older than the interval.

### Proofs

`ResetPolicyProofs` proves, for any lanes, processes, credits and interval
(zero included), `Invariance` (`Spec => []IInv`) and from it `TypeCorrect`,
`Spacing` (`IntervalKept`) and `Freshness` (`EvidenceFresh`); the only assumption
is `ResetPolicyAssumption`. The properties speak of the moment of a use, so the
invariant carries what makes that use sound from the evaluation on: a process
between its evaluation and its record holds the lock, so `last` is still what it
was judged by, and `last` covers every use that is on record. `TypeOK` and
`EvidenceFresh` are proved and not repeated by the run. Model-checked only: `EveryProcessEnds` (liveness).

## 7. The nudges

### State and actions

`Nudges.tla` models `tickle.py` with its commands in `cli.py` and its hook: what
continues a Claude session whose turn was cut off by a restart or a limit.

| Variable | Code |
|---|---|
| `transcript`, `turnAt`, `up`, `owed`, `inbox` | the session: its main-chain entries, its process, the stub that the app has still to write after a restart, and the pushes not yet read |
| `record` | `tickles/<session>.json`: the key last nudged and when, the retirement, the key last revived |
| `slot` | a hook with the worker it spawns, or an operator's command |
| `lock`, `pass`, `live` | `revive.lock`, the revive passes, the detached revives |
| `nudged` .. `erased` | history |

`State`, `Key` and `Refusal` are `turn_state`, `dedupe_key` and `decide`. A hook
judges and spawns (`Restart`, `Compact`, `SaveNote`), the worker wakes, judges
the fresh transcript and pushes or skips (`WakeAndPush`, `WakeAndSkip`,
`SaveRecord`); `Sweep`, `Ask`, `Muster` and `Retire` are the commands. A pass examines,
probes, refreshes its census, launches and records (`StartPass` .. `EndPass`).
Every save writes the record as it was loaded, so what was saved between is
lost; each process may die between two steps. An operator's nudge is a `Sweep`
(`tickle --all`, of live interrupted sessions) or an `Ask` (`tickle <session>`,
of any, without the wait and the quiet); with `--force` either becomes a slot of mode
`forced`, whose `Verdict` only asks that the session be interrupted.

Abstracted: an entry is its kind and its place; which lane and model a revive
gets, and whether any lane serves, is a choice; wording, history lines and the
switch `SUBFLEET_TICKLE=off` are left out. The app, the user and the inbox are
external.

### Runs

| Run | Checks | Instance |
|---|---|---|
| `NudgesOnce` | `TypeOK`, `NudgedOnce`, `RevivedOnce`, `OneRevive`, `RestartSettled`, `RetiredStays` | 1 session, 2 slots, 2 passes, 3 entries, clock to 2, 3 commands or deaths, symmetric |

Bounds. Sessions share nothing but the cap of the batch, so one is enough for
all but that. Two slots and two passes let each save land inside another's, and
three operations are a restart, a second actor and a death. Every threshold is
one unit, so that the clock passes each of them.

Safety only: nothing in the code makes a nudge happen (an app that does not
restart a session, an inbox that takes no push), so no fairness is assumed.
`RestartSettled` says what can be said without it: once the actors are done, a
push was tried or there was a reason.

### Observations

`raced` and `erased` name what the invariants exclude, and each happens: two
workers on one session nudge it twice (`tickle.py` saves without a lock), a
process that dies between the push and the save leaves no record of it, and
`deliver`, which writes a record of its own, drops the retirement and the
revived key of the record it replaces. `--force` passes the key and the
cooldown: an operator who forces a nudge before the first is read sends a second
of one key with nothing raced. `NudgedOnce` does not count the forced nudge, and
does count one that is not forced and follows it. A
push that the inbox did not take still consumes the interruption point. A
session restarted after it read the nudge and before it answered counts as
nudged, although the docstring says that every restart earns one. The prompt of
a revive is a new entry, so a revive that meets a limit itself is revived at
every pass. `clear_lane_cache`, which the docstring of `probe_lane` expects to
be called for each pass, is never called.

### Proofs

`NudgesProofs` proves, for any sessions, slots, passes, thresholds and bounds,
`Invariance` (`Spec => []IInv`) and from it `TypeCorrect`, `OneNudgePerKey`
(`NudgedOnce`), `OneRevivePerKey` (`RevivedOnce`), `BatchCapped` (`OneRevive`),
`RestartsAnswered` (`RestartSettled`) and `RetirementHolds` (`RetiredStays`): all
that the run checks. The assumptions are those of `NudgesAssumption`: the bounds
are numbers, there are finitely many sessions, no pass is called "none" and a
transcript has room for two entries.

Everything rests on the key: `KeyGrows` shows that no entry appended to a
transcript ever takes the key back, whichever of its three sources it comes
from. So a record that holds the last key nudged and differs from the key of now
lies before it. `IInv` then says who may know what: no record or copy of one
names an entry that is yet to come (`Keyed`); unless something raced, no loaded
copy runs ahead of the record, one slot at most has decided to nudge and what it
will save covers the last nudge, and the record or the pass about to write it
covers the last revive (`Unraced`); a pass holds the lock from its start, so its
census is still true when it launches (`Locked`, `Batched`); rows that were
retired when a pass began are not among its rows unless the retirement was
dropped (`RetiredOK`); a key on record was tried (`Trying`), which is why a
worker that answers "called" leaves its restart settled (`Restarted`).

## 8. Capacity

### State and actions

`Lanes.tla` holds the pure part: a row of the capacity report and what is read
from it, which is the gate of `subfleet run` (`DispatchableFor`), the state that
reports print (`ModelState`), the gate of `subfleet pick claude` (`PickKeeps`)
and the orders by which the best lane is chosen. `Capacity.tla` adds the files
behind a row.

| Variable | Code |
|---|---|
| `cooldown` | `cooldowns.json`, per lane and scope (a model, or the account) |
| `uses`, `limits` | the usage ledger: runs, and hard limits with the tokens used then |
| `errors`, `redeemed` | the last usage limit in a home's rollouts; its last reset by a credit |
| `enrolled`, `secrets`, `login` | the roster, the keychain, the desktop login |
| `endpoint`, `cache` | what the usage endpoints answer, and the cache of it |
| `rests` | history: until when each scope was refused |

Runs are recorded by `RunServed`, `RunLimited`, `RunUnauthorized` and
`HomeLimited`; `Redeem`, `Enroll`, `SignIn` and `DropSecret` are a redemption
and the operator; `Collect` fills the cache; `Report` is the report of any
reader. A read-modify-write under the cooldown lock is one action.

Abstracted: a percentage is a number of parts of `Full`, a run uses one unit of
a window, providers' answers are members of small sets.

### Runs

| Run | Checks | Instance |
|---|---|---|
| `CapacityGates` | `LimitStands`, `GatesAgree`, `NeverLockedOut` | 1 lane, 1 home, 2 models, clock to 4, 2 operations, 4 parts of a hundred percent |

Bounds. Rows of two lanes are computed apart (only the order compares them), so
one of each family is enough; two models tell a scope from the account. Two
operations are a refusal and what may undo it; four time units pass the reset,
the fallback, the cache's life and the weekly window. `GatesAgree` is a
comparison of three gates that two modules compute, over every reachable row.

### Observations

`Stands` takes a reset that has passed for one that was never known, so a limit
holds for an hour after its run even when its reset was earlier. A run on a dead
token that ends after its lane was enrolled again cools the new token's lane for
thirty days. The newest usage error of a home decides alone: one without a clock
hides an older one with a clock. The availability of a secret is cached, so a
lane enrolled again stays `secret-missing` until the cache expires, which is why
`NeverLockedOut` speaks of the cached secrets.

### Proofs

`CapacityProofs` proves, for any lanes, homes, models, windows, thresholds,
answers of the providers and bounds, `Invariance` (`Spec => []CapacityInv`) and
from it `TypeCorrect`, `RefusalsStand` (`LimitStands`), `OneGate` (`GatesAgree`)
and `LanesReopen` (`NeverLockedOut`): all that the run checks, and `TypeOK`, which
has no run.

The assumptions are `LanesAssumption` and `CapacityAssumption`: percentages are
numbers or unknown, the five-hour window is no longer than the weekly one, no
model is called "*", no lane (an e-mail address) is a home (a path), the limits
of older releases are finitely many, and nothing rests a lane longer than a dead
token does. The last is what bounds the dates on file: the code rests a dead
token's lane for thirty days, falls back to an hour when a reset is unknown, and
the providers' resets are those of windows of at most a week.

Why a refusal stands is not visible in any one file. A new token clears all the
cooldowns of its lane, so what keeps a model refused is then the ledger alone.
`CapacityInv` says what backs each refusal (`LaneSound`): one of a model has a
recorded limit that lasts as long (`Backed`); one of the account, a limit or the
account's cooldown; and, for the other direction, no cooldown outlasts what was
refused. A home has its cooldown (`HomeSound`). A limit is never deleted and the
greatest of the resets that stand is what a row reads (`HardLimitIs`), which
makes refusals stand; when they are over, the same facts leave no cooldown and
no limit behind (`ForgottenRests`), no tokens in either window
(`ForgottenTokens`), so that every ratio is nothing or unknown whatever size was
learned (`RatioIs`), which makes lanes reopen.

The gates are compared by what a row is (`RowIs`): a lane that may be picked is
enrolled, rests from nothing and shows its own score, and one that shows as
exhausted has too little left. Each gate takes the worst of some percentages,
and the worst of them is enough exactly if each is (`WorstIs`), unknown ones
left out. `GreatestInt` and `LeastNat` supply the maximum of a finite set and
the minimum of a set of naturals, which the library's `Max` and `Min` only
choose.

## 9. Dispatch

### State and actions

`Dispatch.tla` extends `Lanes` with `delegate.py` from the classified request to
the provider, and the runners' own re-picks (`bin/subfleet-claude`,
`bin/subfleet-codex`).

| Variable | Code |
|---|---|
| `fleet` | what probes, reserve readings and just-in-time probes say |
| `cooldown`, `rested` | the cooldowns of lanes and homes that have not passed |
| `door` | each `subfleet run`: request, model, snapshot, lanes tried, attempts, result |
| `run` | the run it started last: lane, model, attempt, lanes excluded, return code |

A door takes its snapshot and its model (`Start`), then diverts to keep a lane
for Fable (`Divert`), refuses (`Refuse`) or launches (`LaunchCodex`,
`LaunchClaude`). The run is served, retried, broken off, refused for its limit
or for its token; a runner that may, re-picks. A synchronous door judges the
return code (`CodexReturned`, `ClaudeReturned`): another lane, a model further
up, or the end. `Expire` and `Elsewhere` let cooldowns pass and come.

Abstracted: no reset credit is applicable (`ResetPolicy` has them), lane tokens
are fetched, the wait of `--attach`, a failed detached launch and the guard of
output paths belong to `RunLedger`, a capacity report that fails is left out, a
probe's answer stands still during a dispatch. A preflight that refuses a
re-picked home is one of the runner's failures.

### Runs

| Run | Checks | Instance |
|---|---|---|
| `DispatchRoutes` | `RefusedOnce`, `PinsKept`, `NeverDownTier`, `EveryDispatchEnds` | 1 door, 2 lanes, 2 homes, 18 requests, 6 fleets, 3 attempts, 2 retries, 1 limit met elsewhere, fair |
| `DispatchBlind` | `BlindAlone` is violated | the same fleets, 2 doors, 2 requests |

Bounds. The requests cover each tier and class, each kind of pin, an exclusion,
attached and detached; the fleets are one where all is open, dark lanes with
every home limited, dark lanes with one or both probed full, a lane without Fable beside
an exhausted one, and every lane withheld for Fable. Doors meet only in the cooldowns and in the runs in flight: `Elsewhere`
stands for the others in the first run, the second has two. `MaxAttempts` and
`MaxRetries` are the code's.

Fairness. A door goes on; a provider answers each attempt, since nothing in the
code limits its time.

### Finding

`BlindAlone`: `_blind_lane_filter` promises that a lane of unknown capacity is
"allowed only while it carries no other run" (`delegate.py:492`). Two doors that
took their snapshots before either launched both see it idle and both launch on
it: the count of runs in flight is part of the snapshot.

### Observations

`subfleet-codex` has no exit code for a limit, so the promotion of
`delegate.py:1244-1247` (and README:620) happens only if the CLI itself exits 4.
The reserve and the blind filter are the door's; a runner that re-picks has
neither, and lanes excluded by the request are open to it. The exclusions are
also left out of the lanes that `remaining_lanes` counts and of
`select_semantic_model`, so a request that excludes the only lane left is
refused instead of promoted; a dead token on the last lane ends with 3 without
promotion either. "Exact -m pins never fall back" (README:617), while the
reserve moves a pinned Opus to Fable on a lane (README:559-562): `PinsKept`
states what holds.

### Proofs

`DispatchProofs` proves, for any lanes, homes, doors, requests, fleets and
limits, `Invariance` (`Spec => []IInv`) and from it `TypeCorrect`,
`ModelsOnlyRise` (`NeverDownTier`), `RefusedNotAskedAgain` (`RefusedOnce`) and
`PinsAreKept` (`PinsKept`). The assumptions are those of `LanesAssumption` and
`DispatchAssumption`: the models are Opus and Fable, lanes, homes and doors are
finitely many and told apart by `Order`, requests and fleets are records of the
shapes named there. `TypeOK` has no run. `EveryDispatchEnds` is only model-checked: it needs fairness.

Two arguments carry it. First, `First` really chooses: `Least` finds in a finite
set a member below which an order has none (by the well-foundedness of the
library), `BeforeOrders` shows that keys of one length are ordered and, when
their last part differs, totally so, and `ClaudeFirst`, `PickFirst` and
`HomeFirst` that the three keys of the code are such keys, whatever readings are
unknown. So a chosen lane is one of the candidates, and is none of those left
out. Second, `IInv` holds of one door and its run at a time (`Sound`), since
doors share nothing but cooldowns: a door that decides has all refusals among
the lanes it tried, and none when its lane is pinned; a door that waits has
tried the lane of its run, which may not re-pick; a run whose door has gone has
every refusal among its own exclusions (`Remembered`). Pins bind the family of
the door's model (`Binds`), which is what keeps a pinned lane's run from a
Codex home and a pinned home's from a lane. That models only rise rests on
`Climbs`: each chain a request may follow climbs from the model it asks for, and
elastic work asks for no more than Opus (`ElasticFacts`).

## 10. The watchdog

### State and actions

`Watch.tla` models `watchdog.py`: one cycle after another probes every home,
heals those whose token expired with one `codex exec`, judges the alert
conditions, tells the operator and saves.

| Variable | Code |
|---|---|
| `login`, `marks`, `expiring` | the world: per home its tokens, plan and the stamp of `auth.json`; homes of the desktop app and homes whose sessions met a revoked refresh token; the projection |
| `probes` | `refresh-probes.json` |
| `alerts` | `alerts.json` |
| `cycle` | the cycle under way: what it read, tried and sent |
| `heard`, `early`, `misled`, `unsaved`, `execs`, `dug` | history |

`Begin` is the snapshot, `SkipHome`, `Exec` and `SaveProbes` the heal, `Tell*`
the alerts and all-clears with a transport that may lose them, `SaveAlerts` the
end; `Die` kills the cycle in between, so that what it did is not on record. Of
such a cycle the history keeps what the operator read; an alert or an exec whose
record is lost is not held against the next cycle.

Times are ages, capped at the interval they are compared with, and the age of a
row that is no longer active, which only the strict kind consults, is kept for
that kind. The clock stands still while a cycle runs, and the app, the error
logs and the projection are read once, at its start. Abstracted: a home's
verdict is one of six (limits, HTTP errors and resets left aside), the
conditions are those of homes (no credentials, revoked, suspect, free plan,
refresh token revoked in a session's log, app signed into its account), of the
fleet without a healthy home and of expiring capacity; a cycle's messages all
arrive, or none, or all but one. Left out: the conditions of Claude accounts and
lanes, of the mirror, of low capacity, of idle resets and of two homes bound to
one account, which use the same record by the same rule and name no home whose
all-clear they could silence; two cycles at one time (a manual `subfleet watch`
beside launchd's; neither file has a lock); and dry runs.

### Runs

| Run | Checks | Instance |
|---|---|---|
| `WatchTells` | `TypeOK`, `AlertsSpaced`, `AllClearsAnswer`, `HealsSpaced`, `ExpiredHealed`, `DeadTold` | 1 home, every interval 1, 2 changes of the world, 1 fault, fair |

Bounds. Homes meet in two places, the offline test and the silence about a home
that is still bad, and with one home "offline" is that home's network error,
which drops the conditions at every other cycle: the worst case for spacing. Two
changes let a login die and come back; ages cap at one, so that a second cycle
may come too soon or in time. The larger intervals and more homes are the
business of the proofs below.

Fairness. launchd starts cycles again and time passes between them; the endpoint
and the transport do not fail for ever. Without the last two no watchdog could
tell anything.

### Observations

An offline cycle drops every condition of homes, so the operator reads
"recovered" and, a cycle later, the alert again, before `REALERT_HOURS` and for
conditions told once as well, although the docstring (15-19) and the README of
the repository say otherwise: `AlertsSpaced` speaks of a condition that cycles
keep finding. A home whose first probe after the heal says "free plan" is saved
as `revoked` (`watchdog.py:167`); when its token expires again it is reported
revoked and not healed until its login changes: hence `~free` in
`ExpiredHealed`. The shadow of the desktop app suppresses the all-clear of a
healed home for good. An all-clear whose notification failed is lost. One home
without `auth.json` keeps an offline machine from looking offline, and the fleet
is then reported empty. A cycle that dies between an all-clear and
`alerts.json` makes the next one send it again, although the docstring (17-18)
promises one: `AllClearsAnswer` allows one such message for each such death and
no other.

The time written for every attempt of a heal is the one taken at its start
(`watchdog.py:122`, 176-178), while each exec may take 300 s. With several homes
the last one's exec may begin many minutes after the time on file, and the next
cycle's exec of the same home, if its turn comes first, follows it by less than
`REFRESH_PROBE_SPACING_MIN`. The clock that stands still during a cycle cannot
show it: `HealsSpaced`, and the theorem on it, speak of the starts of the heals.

### Proofs

`WatchProofs` proves, for any homes, spacing and intervals and any number of
faults and changes of the world, `Invariance` (`Spec => []IInv`) and from it
`TypeCorrect`, `AlertSpacing` (`AlertsSpaced`), `ClearingAnswers`
(`AllClearsAnswer`) and `HealSpacing` (`HealsSpaced`). `WatchAssumption` is that
the bounds are numbers, that no interval is longer than a day's and that homes
start with tokens of the model.

The properties speak of what the operator heard and of what was executed, the
code of what two files say, so the invariant ties the one to the other: a
version of `alerts.json`, saved or about to be, `Remembers` each last alert, is
no younger than it and knows whether it stands; a row of `refresh-probes.json`
`Knows` the last exec of its home and the stamp at which it was refused. For the
all-clears the invariant `Covered` keeps accounts: an active row whose alert the
operator has read a clearing of is a wrong all-clear to come (`Debt`), and what
was sent wrongly and what is to come never exceed the cycles that died before
they saved. The latch compares stamps, so stamps have to grow: `StampsPaid`
bounds them by the changes made, an expired token's refresh counted in advance.

Model-checked only: `ExpiredHealed` and `DeadTold` (liveness).

## 11. What is not modelled, and why

* **Account probes** (`codex.py`, `claude.py`, `login.py`): network, keychain and
  browser I/O. What they answer is an input of `Capacity`, `ResetPolicy` and
  `Watch`; what decides on their answers is modelled there.
* **Keepalive**: one pass at a time under its own lock for as long as it pings;
  what it leaves is a dead token's cooldown, which `Capacity` has as
  `RunUnauthorized`.
* **Capacity expiry** and **Fable reserve** compute over numbers that no other
  process changes: the projection is an input of `Watch`, the verdict of the
  reserve is `ReserveState` in `Dispatch`; the arithmetic of burn rates, the
  cache of readings and the heal of a login are left out.
* **Handoff** and **Codex resume** read a transcript or a thread's owner and then
  dispatch: what follows is `Dispatch` and `RunLedger`.
* **Sidebar mirror**: a three-way merge over the desktop app's private files,
  whose other writer is not in this repository.
* **Guard**: stateless pattern rules over one shell command; its verdict is a
  choice where a runner asks for it.
* **Snapshot's** verdicts are in `Lanes` and `Watch` as far as they decide
  something; the order it prints is not.
* **render, status line, login watch, shims, menu bar app**: display.
* **paths, util**: their atomic replacement is why a write is one step everywhere.
