# Taktus: a verification project

Taktus runs business processes. A process version becomes a *run* of steps; runner processes
claim runs from a queue in PostgreSQL and execute them step by step through workers, models and
connectors; persons confirm steps, decide, take steps over and stop adapters; events and deadlines
start further runs; every fact is recorded in a tamper-evident ledger that projections, reports
and live streams are read from.

This directory holds TLA+ models of the parts where processes, persons and transactions meet,
the TLC runs that check them on small instances, and theorems about them checked by TLAPS. Paths
below are relative to the repository's root; `PROJECT.json` names the lines every definition
models.

    tlasany M.tla                       parse a module
    tlc -config X.cfg MC.tla            check a run (PROJECT.json lists module and cfg of each)
    tlapm MProofs.tla                   check the proofs of a module

## 1. Inventory

### The parts, their state, their operations

| part | state | operations | modelled by |
|---|---|---|---|
| job queue (`ports/queue.py`, `adapters/driven/postgres/queue.py`, migrations 0064, 0092) | one row per job: claimant, attempts, deferrals, lease, hold, take-over asked, unit | enqueue, claim a batch, extend, fence, release, defer, complete, ask / withdraw / pass a take-over | `JobQueue`, `ClaimEpochs` |
| runner (`components/run/application/service/runner.py`) | the entries of the jobs it executes; per entry whether its claim is lost and whether it asked a stop | claim round, execute, heartbeat, dispose of the job, shut down | `RunExecution` |
| engine's step loop (`.../execute_run.py`, `domain/model/run.py`) | the run's document; per process what it notes of a run (stop asked, parked, waits for capacity) | resume, recover, admit, start, every end of a step, heal, halt, escalate, finish; confirm, perform and decline by a person | `RunExecution`, `RunLifecycle` |
| engine's hand-over of assignments (ADR-0038) | the assignment in the step's record, the worker's own record | record, hand over, adopt, attach again, follow | `AssignmentHandover`, `CodingWorker` |
| take-over of a step (ADR-0128) | the ask on the job, the hold, what a process noted of it | ask, hear, pass, refuse, hand back, lapse | `AssignmentHandover`; the queue's side in `JobQueue` |
| coding worker (`workers/claudecode/worker.py`) | assignments in memory, checkpoints on disk | accept, stop, work, restart | `CodingWorker` |
| adapter stops (ADR-0138, `stops.py`, `domain/model/stop.py`) | stops, what a confirmer has read, the runs inside an adapter | request, confirm in three transactions, lift | `AdapterStops`, `TenantRuns` |
| open-work cap (ADR-0132, `domain/service/open_work.py`) | runs in flight, outcomes open outside | count, count again, pass, wait | `OpenWorkCap`, `TenantRuns` |
| leadership (`composition/leadership.py`) | the advisory lock of a session, who believes to lead | try, step down, lose the session | `Leadership` |
| intake and outbox (ADR-0035, ADR-0048) | events, deliveries, outbox entries | receive, keep, read a batch, publish, complete | `IntakeOutbox` |
| reactions to events, runs under derived identifiers | per leader a round; runs, jobs | find, check, complete, start, publish | `EventReactions`, `DerivedRuns` |
| deadlines (ADR-0133) | the record of each, its entries in the case's chain | start, meet, take the lead's and the limit's action | `DeadlineKeeping`, `DerivedRuns` |
| decision (ADR-0042, ADR-0161) | requests, register, rules from precedent; the run that waits for them | raise, answer, confirm, reject, propose, adopt, retire; hand over, apply, resume | `DecisionRequests`, `AnchoredRun` |
| ledger (`components/ledger`, `ledger_store.py`, `projection_store.py`, migration 0091) | entries, each with a reading position and a place in a chain; the sequence; the marks of open writers; kept projections and the verification's checkpoint | record, anchor, stable head, project, rebuild, verify | `LedgerPositions`, `LedgerReaders`, `LedgerChains` |
| live stream (`composition/live.py`, `reporting/.../live.py`) | per stream its place in the ledger and what waits to be sent | open with a snapshot, poll, read a page, hand over | `LedgerReaders` |
| time triggers, relay, triage, identity links, commands | rows of their own | fire, relay, sort, use a code once | not modelled |
| governance, process validation, catalog, knowledge, accounting, value, reporting's views | registers, or nothing but projections | pure functions over stored values | not modelled: sequential |
| adapters to models, connectors, clusters, stores; command line, REST, composition, conformance, contracts, web, connectors, other workers | none that two actors share | I/O, parsing, wiring | not modelled: their answers are the outcomes a step may come to |

### How the parts interact

* A *command*, an *event* or a *deadline* creates a run and, in the same transaction, a job. A
  *runner* claims the job; the claim is a lease, a new attempt, and the fence of everything the
  engine writes under it.
* The engine reads the run's document once per execution and writes it back whole, one
  transaction per boundary, each of which calls the queue's `fence`. The same transaction
  appends to the *ledger*.
* A *heartbeat* task beside every execution renews the lease and tells the engine of a lost
  claim, of a take-over and of a stopped adapter through sets the process keeps by run.
* A *worker* is a process of its own: an assignment is recorded, then posted under its
  identifier, then followed event by event, by this execution or a later one.
* A *person* answers, decides or resumes in another process, under no claim: the command writes
  the document and enqueues the job that hands the run to a runner, or executes it itself.
* An instance that *leads* reads the outbox and the deadlines and starts runs under identifiers
  derived from what starts them. It learns that it leads no more between two rounds, never within
  one.
* *Projections*, the *verification* and the *streams* read the ledger up to a stable head and
  keep the place they read to.

### What is hard

The list, with the line each bites at and the properties aimed at it, is `hazards` in
`PROJECT.json`. In groups:

* **Two executions of one run.** A lease ends under a live runner; the same runner claims its
  own lapsed job again; two answers make two jobs; an operator resumes inline. Only the fence
  keeps the writes of one from the other's.
* **State beside the document.** What a process notes of a run is kept per run, not per
  execution, and outlives a refused write or a relinquished execution.
* **The job against the run.** Deferring, releasing and completing must match how the run
  halted; attempts, deferrals and take-overs must add up, or a run is left running for nobody.
* **Crashes between two transactions.** A step in flight, a halted run whose job is still
  there, an answer without its halt, an assignment recorded but not handed over, a run started
  and its deadline not taken.
* **Requests the worker may or may not have received.** A POST that broke, one that arrives
  after its sender lost the run, a worker that restarted and knows nothing.
* **Checked in one transaction, written in another.** Stops, caps, deadlines, the status of a
  request, the existence of a run: each may be stale when it is used.
* **Two leaders.** An election is not a fence; what two instances do in the same round must come
  to the same.
* **Commit order.** A reading position is taken without waiting and may commit after a higher
  one; whoever keeps a place in the ledger must not pass it.
* **What is read again later.** Anchors, checkpoints and projections are compared with a ledger
  that has grown, or that somebody altered.

### What makes each part correct

* queue: at most one claim of a job passes the fence; a lost claim stays lost; attempts stay
  within the limit and the last one is told; a hold is kept; a unit's limit is kept.
* runner and engine: no write of an execution overwrites another's; one execution commits to a
  run; what is done stays done; the stored run follows its lifecycle; a run that is not settled
  has a job; every run settles.
* hand-over: nothing is counted twice or, of a step that succeeded, not at all; what works for a
  step is what its record names; a person who holds a step works alone; at most one unit of work
  is lost.
* stops and cap: a confirmed stop is quiet; an unconfirmed one comes to be confirmed; the runs
  that started stay within the cap.
* events and deadlines: nothing kept is lost; a run is created beside no runner that executes it;
  the record of a deadline and the ledger tell one story, once; every moment that came is taken.
* decisions: what takes effect was confirmed by the person who decides, or follows from a rule a
  person accepted; the act is performed only as decided; nobody is asked again what they decided.
* ledger: nothing commits at or below a head somebody was sent on from; what is kept is the fold
  of exactly the entries up to its place; what a caller receives misses nothing; an unaltered
  ledger verifies from every checkpoint; an altered one is found where an anchor covers it.
* stream: everything up to its place was sent; everything committed is sent in the end.

## 2. Plan

| | module | state |
|---|---|---|
| A | `JobQueue`, abstract `ClaimEpochs` | written, proved |
| B | `RunExecution`, abstract `RunLifecycle` | written, proved for a run nobody answers |
| D, E | `CodingWorker`, `AssignmentHandover` with the take-over of a step | written, proved |
| F, H | `AdapterStops`, `OpenWorkCap`, composed in `TenantRuns` | written, proved |
| I | `Leadership`, `IntakeOutbox`, `DerivedRuns`, composed in `EventReactions` | written, proved |
| J | `DeadlineKeeping` on `Leadership` and `DerivedRuns` | written, proved |
| K | `DecisionRequests`, composed with the run that asks in `AnchoredRun` | written, proved |
| G | `LedgerPositions`, `LedgerReaders` on top of it, `LedgerChains` | written, proved |

What is left: of `RunExecution`, what survives of each theorem when persons answer. An untimed queue that
`RunExecution` uses and `JobQueue` implements, and *stopped* as one atomic switch that
`TenantRuns` implements, are abstract specifications still worth stating.

Abstract and detailed specifications are related in three places: `JobQueue` implements
`ClaimEpochs`, the stored run of `RunExecution` implements `RunLifecycle`, and the sessions of
`LedgerReaders` implement `LedgerPositions`.

## 3. Modules and the code

### JobQueue

One action per statement of `PostgresQueue` and one per use of `claim_jobs`. `row` is the table
`job`; a job not yet enqueued and a job completed keep their attempts in it. `issued` is the
history of claims, `working` the claims whose claimant has not finished, `written` the attempt
that last wrote under the fence. Time is `now`, leases and holds are compared with it as `_due`
does, the boundary instants included. A claim may skip any set of due rows, which is what
`FOR UPDATE SKIP LOCKED` allows while a fenced transaction holds one; the units' shares and
limits are `Place`, `Ranked`, `First`. A stale claimant may call every operation that names it.
`Names` compares the claimant alone, as release, defer and complete do; `Passes` compares the
attempt too, as the fence does.

`ClaimEpochs` is what the queue promises: per job an epoch that rises, and writes that land only
under the current one. `ImplementsEpochs` maps the epoch to the row's attempts.

### RunExecution

One run, its jobs, and the processes around it. An action is one transaction together with the
code after it up to the next await, or one wake of the heartbeat:

* `Claim`, `Dispose`, `Release`, `Leave`, `ShutDown`, `Restart`, `Crash` are the runner;
  `Disposition` is its decision table. `Entries` is its dictionary by job, in which a later
  claim of the same job replaces the earlier entry.
* `Beat` and `Relinquish` are the heartbeat's refused renewal and, after an await, what it does
  about it; `StopHeld` is its look at the stops of adapters.
* `Read`, `Begin`, `Launch`, then `Await` ... `RaiseAtLast`, `After`, `Exhausted` are the engine.
  `exec[c].run` is the document an execution holds. Every write goes through `Write`, which is
  `_commit` with its fence: landed, the copy becomes the stored document; refused, the execution
  ends with the claim lost and `flags` keeps what was noted before.
* `ReadRun`, `Confirm`, `Perform`, `Decline`, `HaltDeclined` are a person in a process of their
  own. The check of an answer and its write are two transactions, as in `confirm`.

`May[s]` says what executing a step may come to: succeed, fail, raise, park, wait for capacity,
be refused, be stopped with its adapter or its worker, wait for a person. The rules that choose
among these (budgets, limits, governance, capacity) are data here, and so is the method of a
step: planned, model, connector and worker steps differ in what they may come to.

Abstractions: leases, delays and ceilings have no times, they end whenever they may; healing is
a count; an answer names one step; the queue's row has what the runner depends on, and the rest
of it is `JobQueue`'s. Not in this module: decisions and anchors (`AnchoredRun`), take-overs
(`AssignmentHandover`), caps, stops and an operator's resume (`TenantRuns`), steps performed aside
of an escalation, messages, moves between models and unit budgets.

`RunLifecycle` is the run as its model describes it (`_RUN_TRANSITIONS`, `_STEP_TRANSITIONS`):
one step moves at a time, only when its dependencies are done, and what succeeded stays.

### CodingWorker, AssignmentHandover

One worker step of a run, and the worker it is handed to. `CodingWorker` is what the adapter
meets: an assignment per identifier with the events it has emitted, the checkpoints on disk, a
capacity, and a restart that forgets the first and keeps the second. A unit of work emits its
artifact (unless the checkpoint brought it along), its consumption and its boundary.

`AssignmentHandover` is the engine around it, an execution per claim. `Assign` commits the
identifier before `Post` sends it, `Post` may be taken, rejected, refused, answered *exists* or
*full*, or break with the worker having taken it or not, and `Answered` is what each leads to.
`BeginStep` asks about an assignment that is still open before anything new is minted. `ReadEvent`
folds one event and commits at a boundary and at the end. The take-over is `AskTakeover`, `Hear`
(the heartbeat), then `TakenOver` or `RefuseTakeover`; `HandBack`, `HoldEnds` and
`TakeoverLapsed` are its ends. A runner whose lease lapsed is not told: its requests still reach
the worker, its commits are refused (`Commit`). `Troubles` are of seven kinds, each named and
bounded. `late` collects what the worker takes for a runner that had lost the run: it is history,
guards nothing, and marks what the properties except. The estimate, the budget, the trace and the
messages are left out.

### AdapterStops, OpenWorkCap, TenantRuns

The runs of a tenant between the cap on open work and the stops of adapters. A transaction that
records an entry of the tenant holds the tenant's chain to its commit, and what it reads after the
entry is what every other such transaction committed: each is one action. A confirmation is not:
`FindStanding`, `ReadHalted` and `Confirm` are the three transactions of `stops.py`, by two
confirmers. `ReadInFlight`, `ReadOutside`, `Decide` are the count of the cap, with the count made
again under the claim where it changed. `BeginStep`, `Admit`, `Start`, `Check`, `HandOver`,
`Recheck` are the places at which a step looks at the stops of its adapter, and `Beat` is the
heartbeat that does so while a worker works. `Lose` is an execution that dies, `Resume` a person
who executes the run in the command's own process, without claim and heartbeat. One execution of a
run at a time: what a runner that lost its claim does is in the two modules above.

### Leadership, IntakeOutbox, DerivedRuns, EventReactions, DeadlineKeeping

`Leadership` is the advisory lock: the session may end under an instance, which learns of it
before its next round. `DerivedRuns` creates a run under an identifier derived from what starts
it: the look and the write are two steps, the write of a run replaces, only its job is refused
where there is one. `IntakeOutbox` keeps an event and writes its entry in one transaction, behind
a look that another delivery may have passed too.

`EventReactions` is a round of the automation role: `Begin` reads a batch, then per entry `Find`,
`Check` per process, `ReadEvent`, `MakeCommand`, `LookForRun`/`Start` or `Refuse` per process,
`PublishEntry`. `Fail` leaves the entry for the next round. `room` is the platform's answer to a
condition; one start under a condition is made per round. `Activate` registers a version, after
which what was received before starts nothing of the process.

`DeadlineKeeping` is the engine's transactions on a case and the tick of the scheduler. Both write
the entry first, which takes the claim on the case's chain to the end of the transaction, and read
the deadline under it; a start is made before it is taken, in transactions of its own. `record`
is the row of a deadline, `book` its entries. The arithmetic of working time is a moment that
comes (`Comes`), a lead's never after its limit's.

### DecisionRequests, AnchoredRun

`DecisionRequests` is a request from its raise to its effect: `Answers`/`Answered`, `Confirms`/
`TakesEffect`, `Rejects`, each of which checks the request in one transaction and writes it whole
in another; then the same command's look at precedents (`Looks`, `Settles`, `Proposes`,
`RaisesProposal`, `StoresRule`), and the retirement of a rule. `AnchoredRun` is the run that asks:
a request per anchor and round, the document written whole by the execution of a job, by the
command of a decider (`HandsOver`, `Applies`, `Enqueues`) and by a person who resumes. The
`step.decided` commits that one command makes for the anchors of one step write the same document
and are one action, and performing the act is one commit, whose inside is `RunExecution` and
`AssignmentHandover`. No lease lapses under a live execution here; a person resumes only a run
that halted or is left waiting. How an answer is read is `Readings`: an answer that could not be
read is in the model, and not among the run's readings.

### LedgerPositions

A transaction that records reads the sequence's last value, takes its mark with it, and then its
positions (`ledger_allocate`); `head` is two statements, `ReadNewest`, then `TakeSnapshot` and
`ReadMarks` for a statement that sees the entries of its own snapshot and the lock table as it is
when read. `Publish` and `Release` are the two instants of a commit: entries become visible, then
locks are let go. An entry is its position. `passed` is the highest head a reader was sent on
from; it is history and guards nothing.

### LedgerReaders

`LedgerPositions` with the readers that keep a place. A kept value is the set of entries folded
into it, so that an entry missed and an entry folded twice would both show. `project`, `rebuilt`
and `verify` share their shape (read what is kept, ask the head, fold, store, go beyond), and
differ where the code does: in what they do when what is kept lies beyond the head, in when they
store, and in whether the store replaces. `Store` waits for the claim only when it replaces.
A reader's transaction may record as well. The stream's `Poll`, `ReadPage`, `HandOver` are
`LiveHub._read`; `Open`, `HeadRead`, `ShowState` are `Records.state` with its two transactions.
Not modelled: several streams sharing one reader, and the signal that only hastens a poll.

### LedgerChains

Recording, anchoring and verifying with the chains: a chain's claim is waited for and held to the
end of the transaction, the position is taken under it, the entry carries its chain, its place
and the hash before it. A hash is the content it is taken over, and a tree's root the set of its
leaves, so two are equal only if what they stand for is: collisions are left out, and so is the
tree's arithmetic. The head is any committed position below everything still to commit, which is
what `LedgerPositions` shows of the real one. `Findings` is `verify` with `Walk`: predecessors
seeded, places, hashes, anchors compared with the heads they cover. Entries written before
ADR-0164 have another rule and are not modelled.

## 4. Runs

| run | instance | properties | states |
|---|---|---|---|
| `queue` | a job under two runners and one take-over, and a second job of the unit `sales`, limited to one live claim; lease 1, hold 3, clock to 4, five claims, two attempts | `OneClaimPasses`, `LastAttemptTold`, `UnitLimitHeld`, `FenceNeverReopens`, `ImplementsEpochs`, `HoldKept` | 882,000 |
| `run_settles` | a step a person answers that may fail, raise and be healed, then one that parks, is refused or raises; two runners, two jobs | `OneRunnerCommits`, `FollowsLifecycle`, `SettlesInTheEnd` | 55,701 |
| `run_recovers` | waits for capacity and a parked check through an adapter that may be stopped, one trouble, three attempts | `NoLostUpdate`, `NeverWithoutJob`, `SettlesInTheEnd` | 187,000 |
| `handover` | two runners, three claims, one take-over, two troubles of seven kinds, one unit of work before the closing one, a worker of two places | `CountedOnce`, `NothingUncounted`, `WorkIsNamed`, `PersonWorksAlone`, `KeptUnlessBegunAgain`, `AtMostOneUnitLost` | 1,315,082 |
| `stops` | a worker's run and a connector's of one process, cap 1, one stop of either adapter, two confirmers, one resume, one lost execution | `StartedWithinCap`, `QuietWhenConfirmed`, `FollowedIsAsked`, `ComesToHold` | 705,650 |
| `reactions` | one event delivered twice, two instances, two processes of which one has a condition and is not runnable, one trouble | `NothingLost`, `NeverUnderItsRunner`, `EveryEntryPublished` | 548,406 |
| `deadlines` | a deadline from stage 2 to stage 3 of four that starts a run at its lead time and reminds at its limit; two instances, three troubles | `RecordIsBook`, `StartedRunExists`, `EveryMomentTaken` | 181,000 |
| `decisions` | two anchors, two deciders of whom one holds both roles, one decision makes a precedent, two rounds, three answers, one process that ends anywhere | `EffectIsConfirmed`, `PerformedAsDecided`, `AskedAgainWhenDeclined`, `DecisionsAreTakenUp` | 506,087 |
| `decision_lost` | the same with one round and no crash | `DecisionNeverLost`, violated: section 6 | 6,000 |
| `ledger_kept` | two writers, two sessions that keep a projection and the checkpoint, two positions | `StoredIsFold`, `NothingCommitsBelow`, `ReturnedIsComplete` | 5,070,000 |
| `ledger_stream` | two writers and a stream that reads one entry at a time | `NothingMissed`, `EventuallySent` | small |
| `ledger_chains` | two sessions, two runs' chains and the tenant's, four positions | `IntactVerifies`, `RemovalFound`, `RewriteFound` | 389,166 |

**Bounds, and why they are enough.** Two runners reach every pair the fence has to keep apart:
another runner, and the same runner twice. `queue` needs a clock of four for a hold that outlives
a lease and is waited out, and five claims for a take-over between others; `MCBounds` cuts the
second job's half short (clock to 3, two attempts, no take-over, one claimant), where only the
unit's limit is at stake. In `run_settles` and `run_recovers` `MaxClaims` is never reached, since
an end is claimed; two steps in order are one that is done and one in flight; fewer troubles than
attempts, for which see section 5. In `handover` three claims are a claim, its successor and the
successor's, and two for the take-over beside them; two troubles put one recovery inside another,
so that every pair of kinds is reached; two lives of an identifier are a worker that forgot it and
is posted it again. In `stops` two runs race for one place under the cap and the stop meets a
worker's step and a connector's; two confirmers confirm over each other. Two instances in
`reactions` and `deadlines` are a leader and one that still believes it leads; two created runs are
the second one the derived identifier is to prevent. In `decisions` two rounds are a decline and
what is asked after it, three jobs the submission and one for each decision. In the ledger two
positions are an entry that commits late and one that overtook it, and `TakeElsewhere` lets gaps
appear; four positions on three chains are two entries of a run, an anchor over them, and one
more. `CHECK_DEADLOCK FALSE` is set everywhere: a run ends, and bounded claims, positions and
troubles run out.

The type invariants, `AttemptsWithinLimit` and `DoneStaysDone` are proved (section 7) and have no
run of their own.

Each property has a mutant in `PROJECT.json`: a change of one mapped definition, such as a fence
that compares the claimant only or a mark that is not taken, under which TLC reports the property
violated. Operators with a suffix, such as `LookForProcess_TakesFirst` beside `LookForProcess`, are these changes and
are used nowhere else.

## 5. Fairness

`RunExecution`'s `Fairness` asks that a process's tasks are scheduled: an execution goes on, its
runner disposes of the job, runners claim while they have a place, a lease nobody renews runs out,
a process told to stop is started again. It asks nothing of persons, of crashes, or of a step that
raises or waits: the bounds on those are the code's own (the attempts of a job, the ceiling of a
wait, the healing plan), and `SettlesInTheEnd` counts a run that is with a person as settled.
`run_recovers` allows fewer crashes than attempts, and that is needed: a process that dies during
a job's last attempt leaves the run running and a job nobody claims, which is a hazard of its own.

`LedgerReaders`' `Fairness` asks that an open transaction ends (the server ends one that idles:
`idle_in_transaction_session_timeout`, `persistence.py`), that a replica with a stream polls and
reads, and that its reads do not fail for ever (`_follow` tries again after every failure).
Strong fairness is asked of `Poll` alone, since it is enabled only in a transaction that is open.

`TenantRuns` asks that a run's execution goes on and its job is claimed, that the heartbeat of a
claim comes round, that a worker asked to stop ends within the step's ceiling, that one whose run
is executed by a command ends by the worker's own ceiling (no heartbeat tells it anything), and
that the scheduler's ticks confirm. Nothing is asked of persons. `ComesToHold` excepts a run that
is `Stranded` (section 6, stops and cap, 5).

`EventReactions` asks that instances try to lead and that whoever leads goes on with its round,
that runners take what they find, and, strongly, that a condition finds room again and again: that
is an assumption on the environment, since a platform that is full for ever starts nothing.

`DeadlineKeeping` asks weak fairness of elections, ticks and the engine's transactions, and strong
fairness of `Enter`, which waits for the claim on the case's chain: PostgreSQL grants a lock to
the longest waiter, so a transaction that waits is not overtaken for ever.

`AnchoredRun` asks that jobs are claimed and executed and that a command a person gave goes on;
nothing of what persons do, and nothing of processes that die. `DecisionsAreTakenUp` therefore
excepts the decisions that found the run not waiting, or whose command died (`missed`): findings
in section 6.

## 6. What the checks found

### With a run

**A decision that is lost** (`decision_lost`). `decide` hands a confirmed decision to the run only
where the run waits (`execute_run.py:1526`). Confirmed after its step was anchored and before the
run's execution comes to its end (the other steps run on meanwhile), it finds the run running;
the execution then ends the run as waiting without looking at the decisions again, no job names
it, and confirming again is refused. Only a resume by hand (`run_command.py`) applies it.
`execute_run.py:1518`: *a decision that took effect is never lost*.

### Met while modelling

These were seen as counterexamples of stronger properties, or read while a handler was
translated. The properties above except them by name (`late`, `again`, `Stranded`, `missed`)
or bound them out by an instance that is said; they have no standing run.

*Queue, runner and engine*
1. Two answers enqueue two jobs (`execute_run.py:1296`), and two decisions decided at once do too
   (`:1536`): the fence compares the claim of a job, so the executions of both pass it, and the act
   of a step may be performed twice. `runner.py:19`: *two runners never both commit to one run*.
2. The check of an answer and its write are two transactions (`:1257`): of two persons who read
   the same waiting run the second sets back what the first answered.
3. Complete, release and defer name the claimant, not the attempt (`runner.py:469`): with a second
   place, a runner disposes of the job its newer claim executes, and the run has no job.
   `NeverWithoutJob` is proved for one place.
4. A renewal in flight while the job is given back is refused and notes a stop nobody asked for
   (`runner.py:366`), which halts the run's next execution in that process.
5. A parked note stays after a refused commit (`execute_run.py:5745`).
6. A rejection writes its answer and the run's halt in two transactions (`:1314`): a crash between
   them leaves a run that waits for no step; and where another execution was claimed meanwhile, the
   halt lands under a step in flight.
7. An exception outside a step at a job's last attempt (`:966`), and a process that dies during it
   (migration 0092:49), leave the run running with a job nobody claims.

*Hand-over*
1. A step that stopped with a checkpoint and was rejected when it was resumed begins from nothing
   (`execute_run.py:6011`); ADR-0005: *at most one step of work is lost*. `AtMostOneUnitLost`
   speaks of steps never begun again.
2. A step begun again after it failed keeps the failed attempt's artifacts, those read since its
   last boundary too, and the artifacts of the new attempt are skipped, since the record holds
   their names (`:6479`): the step succeeds with the failed attempt's change. It is the same where
   the assignment a failed step left open is adopted. Hence `again` in `KeptUnlessBegunAgain`.
3. A worker without room makes `_full` close the assignment (`:6307`), where ADR-0038 leaves it
   open: a request of a cut-off runner that arrives later is taken beside the new one, and two are
   at work. Hence `late` in `WorkIsNamed`.
4. A request of a cut-off runner that reaches a restarted worker under an identifier still open
   makes reports of another life; what the first reported is not counted. Hence `IsLate` in
   `NothingUncounted`.
5. A take-over asked and not heard before the run ends is deleted with the job (ADR-0128).
6. An error a lost runner meets stops the assignment its successor handed over, and the run halts
   for a stop nobody asked for.
7. Such a late request begins at a checkpoint of the same lineage and writes its boundaries again
   (`worker.py:369`): the files of a checkpoint the record names are then another attempt's, and
   the step's checkpoint may fall back when that attempt is adopted. Hence `late` in
   `KeptUnlessBegunAgain` and `AtMostOneUnitLost`.

*Stops and cap*
1. Stops are read before the estimate and the admission (`:6006`), so a step may be handed to a
   worker once after its stop was confirmed. It is asked to stop at once: `FollowedIsAsked`.
2. A confirmation between the commit that stops a step and the one that halts its run misses the
   run it is to name (`stops.py:223`).
3. Readings outside that are old, or runs in flight that changed and changed back, let a run pass
   while outside and in flight exceed the cap (`:3816`); the runs that started stay within it.
4. A crash between the commit of a halt for a stop and the completion of the job lets the next
   claim resume the run without a person (`:2588`).
5. A run resumed by a command has no heartbeat; a command that dies inside a step leaves the run
   running with no job, and a stop of its adapter is never confirmed (`resume_command.py:210`).
6. A run that escalated leaves the count, and runs uncounted once it is resumed.

*Events and deadlines*
1. Two leaders, or a delivery that arrives twice and overwrites a completed event
   (`receive_intake.py:216`), complete one event into two commands; ADR-0048 says twice is nothing.
   Redelivery may also write two entries to the outbox.
2. A creator that found no run and stalls until the first run's job was completed replaces the run
   and inserts its job again; bounded by `idle_in_transaction_session_timeout`.
3. Fifty waiting entries under a condition hold back the unconditional ones behind them.
4. A version registered while a reaction waits passes the event over; a start of a sender found
   unplaced on completion is dropped.
5. A deadline met between its start and its take leaves a run its record does not name; a process
   deactivated in between makes the start `refused` though the run exists
   (`composition/deadlines.py:131`); an unexpected exception of one action keeps all later ones of
   the tenant from being taken in that tick (`:102`).
6. A deadline that starts at both moments keeps one `started_run`. `StartedRunExists` is about the
   entries.

*Decisions*
1. A stale answer reopens a request that took effect and lets its register entry be replaced
   (`answer_request.py`; *a new answer replaces the one before, as long as nothing was confirmed*).
2. A rule stays proposed after a crash or a stale store and blocks new proposals of its kind; its
   option may differ from the text a person accepted, where decisions of the kind passed during a
   stall; a stale store puts an adopted rule back.

*Ledger*
1. A writer that has read the sequence's last value and not yet taken its mark does so after others
   took positions above it, committed, and a verification stored its checkpoint at them (migration
   0091:245): the stable head falls back below what is kept. Nothing kept is wrong
   (`StoredIsFold`), but the next verification answers that the chain *ends before its checkpoint*
   for a ledger nobody altered. `Alarm` of `LedgerReaders`, which is that answer, fires in
   `ledger_kept`, where nothing alters the ledger.
2. The marks are read from the lock table of the whole server (0091:265): a writer of another
   database with the same key bounds the head.

## 7. Proofs

TLAPS proves the following for every value of the constants that satisfies the named assumptions
of each module; TLC evaluates these on every run. Each proof module has an inductive invariant,
a lemma per action that it is preserved, and theorems that follow from it.

**JobQueueProofs.** `TypeCorrect`, `OneWriterPerJob`, `LostStaysLost`, `LastIsTold`,
`NoneBeyondLimit`, `PersonsKeepHold`, `NoUnitBeyondLimit`, `EpochsImplemented`. A job never
enqueued has no claims, every claim handed out has an attempt at most the row's, and two claims of
a job differ in it; passing the fence pins claimant and attempt to the row, so two claims that
pass are one. Every step keeps a row's claimant and attempt, frees it, or raises the attempt
(`StepOfJob`): a lost claim stays lost, and the epoch of `ClaimEpochs` is the row's attempts. The
unit's limit is a count: live claims grow only by a claim that counted them (`RunnersClaimCounts`).

**RunExecutionProofs.** `TypeCorrect` for any number of persons and jobs. For a run nobody answers
(`Persons = {}`): `NothingOverwritten`, `DoneIsKept`, `ImplementsLifecycle`, `OneStepAtATime`,
`OneCommits`; and with one place per runner `NeverLeft`. The invariant is
`IInv == TypeInv /\ OneJob /\ Issued /\ Current /\ Calm(run)`. `NoLostUpdate` alone is not
inductive: an execution that holds the document but may not write now might write later. `Current`
speaks of the execution under the latest attempt whether or not it passes the fence, and says
where the document stands at each place of the loop; `Issued` says that no claim is ahead of the
row, so a new claim is the latest. Every action of the engine is shown to be a write the lifecycle
allows or no write, and the invariant and the refinement follow from that. `PlaceInv` adds that a
runner's entry for a job is its latest claim and that an unsettled run's job is there. Both
restrictions are boundaries of the code, findings 1, 2 and 3 of section 6: with answers there are
two jobs, and `OneJob`, on which the fence's promise about a *run* rests, is false; with two
places `NeverWithoutJob` is.

**LedgerProofs.** Of the positions `TypeCorrect` and `StableHeadIsFinal`: nothing lies above
the sequence; who appended an entry holds a mark below it; what is still to commit lies above
every place passed and above the head another open transaction was given. The step that matters
is `ReadMarks`: an open entry at or below the head answered would belong to a session whose mark
lies below it, and that mark would have bounded the head. On top of it `ReadersTypeCorrect`,
`KeptIsFold`, `StreamsMissNothing`, `CallersGetAll`, and that the readers' sessions implement the
positions' (`ReadersAreSessions`, `ReadersPassNothing`): a head given is final, so what was folded
up to it stays exact, and pages leave no gap.
Of the chains `ChainsInvHolds`: the entries, committed or open, form chains without gap
or fork, linked by hash, with anchors that cover the heads below them; a session's open entries
lie on chains it has the claim of, claims exclude each other, and open entries lie above what an
anchor covers. `ChainsTypeCorrect`, `IntactVerifiesHolds` (whatever the checkpoint, walking an
unaltered ledger finds nothing), `RemovalFoundHolds` (a removed entry is missed by the entry that
follows it or by the first anchor that covers it), `RewriteFoundHolds` (a chain rewritten from an
altered entry on differs in every hash from there, by a least place at which it would not, and so
from the head an anchor covers). The rewriting is a recursive function; that it exists is proved
from the least place it would not be defined at.

**TenantRunsProofs.** `TenantTypeCorrect`, `NeverBeyondCap`, `ConfirmedIsQuiet`,
`ConfirmedIsAsked`. The invariant: who started or passed is in flight and their number is within
the cap; where the document stands at each place of an execution; nobody is inside an adapter
whose stop is confirmed, but a worker's step between its admission and its second look, which is
not yet followed; a confirmer that has named runs looks at a stop that was requested.

**EventReactionsProofs.** `ReactionsTypeCorrect`, `NothingKeptIsLost`, `CreatedBesideNoRunner`.
Runs, refusals, events and deliveries only grow (`Grows`), so what a round once found stays found.
Where a round stands, every process the event starts is still to be looked at, to be started,
holds the entry back, or is covered; an entry is so published only when all are. A creation lands
only where the run has no job.

**DeadlineKeepingProofs.** `DeadlinesTypeCorrect`, `LedgerTellsTheRecord`, `StartRecordedExists`. A
record and its entries change only under the claim on the case's chain, so what was read is still
the record when it is written; a round that comes to enter a start has found or made its run.

**AssignmentHandoverProofs.** `TypeCorrect`, `CountsOnce`, `CountsAll`, `NamesWork`, `WorksAlone`,
`KeepsProduced`, `LosesAtMostOne`. The invariant of the first five is
`HandInv == Formed /\ Accounted(doc, assignment, late) /\ Settled(doc) /\ Standings`.
`Formed` is the types, that every assignment's events are its own and in order, that
a record names minted identifiers, and that a claim is kept for a person whose ask is pending.
`Accounted` ties what a document counts to what the worker has emitted: of the open assignment
every report up to the event the record holds, of every other all of them, but for lives begun for
a runner that had lost the run. `Standings` is what the one execution that passes the fence knows:
at each place but `follow` it has the stored document, at `follow` its own differs in what it has
read since its last boundary and is accounted for by itself, before a post the open assignment is
at rest with nothing counted. Others disturb it in three ways only, the worker goes on, forgets,
or takes an assignment for a runner that lost the run (`Meanwhile`), and each keeps `Accounted`.

The last two rest on `HandInv /\ KeptInv`. `KeptInv` says of the worker (`Traces`) that the units
of an assignment are those of the checkpoint it began from and then, in order, those whose
artifacts are among its events, so that an artifact lies before a boundary just when its unit is
not past it; of the record (`Sealed`) that, unless its step was begun again, it holds the artifacts
its checkpoint brings along and those it has read of its open assignment (`Follows`), in the end
all of them, and that what is stored holds nothing past the checkpoint (`Blank`); and of the
execution that passes the fence (`Carryings`) that what it asks the worker to continue from is
the record's checkpoint. `Sealed` and `Carryings` are claimed only while no runner that lost the
run has set the worker to work (`late`), and for records whose `again` is empty: both exceptions
are the code's (section 6). `KeptInv` alone is not enough, since that an artifact read is new rests
on the order of the events in `Formed` and on the places in `Standings`.
`LosesAtMostOne` is an action property: each action is shown to keep `KeptInv` and to go on
from the boundary (`CarriedOn`).

**AnchoredRunProofs.** `AnchoredRunTypeCorrect`, `EffectsAreConfirmed`, `PerformedOnlyAsDecided`,
`AskedAgainOnlyWhenDeclined`. What was shown to a person, the effects and the requests only grow;
documents that are held or stored say only what the requests of their round say.

**Only model-checked.** Liveness (`SettlesInTheEnd`, `ComesToHold`, `EveryEntryPublished`,
`EveryMomentTaken`, `DecisionsAreTakenUp`, `EventuallySent`) is out of the prover's reach. Every
other property a passing run checks is stated by a theorem, for the run engine under the two
restrictions named above. The trace of the violated property is TLC's.


## 8. Not modelled, and why

Persons' messages that the heartbeat reads (ADR-0156), time triggers, the relay, triage, the
arithmetic of working time, due dates, requests no anchor raised, a declined step the process acts
on itself (ADR-0088), moves between models, unit budgets, and a stop of the whole tenant have
state that actors share and are left for later; none touches a transaction modelled here in
another way than those modelled. Entries of the ledger older than ADR-0164 have another chain
rule.

Left out for good are parts with no state that two actors share: validation of process versions,
rules over one step's values, renderings, statistics, wire formats, wiring, and the adapters'
I/O, whose answers reach the models as outcomes. They are most of the implementation's lines,
which is why the share of lines modelled is small. Data that no property tells apart is abstracted
everywhere: identifiers are model values, payloads, methods and texts are left out.
