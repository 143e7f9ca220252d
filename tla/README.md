# Dev-Ville: TLA+ models, model checks and proofs

TLA+ modules that model the parts of this repository that keep state others rely
on, TLC configurations that check them on small instances, and TLAPS proofs of
the properties that matter most. The code is the reference: each definition is
translated from the lines `PROJECT.json` names under `map`.

    tlc -workers 2 -config RCPSolo.cfg MCRCP.tla     # a run (see "Runs")
    tlapm RCP_proofs.tla                             # the proofs of a module

## 1. Inventory

The repository is a flat collection of Python programs around an event ledger.
They share code, not processes; each keeps its own files.

| Component (code) | State it keeps | Operations | Interacts with | Hard behaviour |
|---|---|---|---|---|
| **Remediation control plane** `rcp/*.py`, `rcp_cli.py` | SQLite queue: `cases`, `transitions`, `leases`, `artifacts`; worker directories | scan/ingest, run queue, run case, approve, recover, publish | Chronos ledger, GitHub, filesystem | kills between two stores, lost GitHub answers, lease expiry, two commands at once |
| **TRACE-0 / Chronos** `trace0_chronos.py`, `rcp/chronos_adapter.py` | JSONL hash chain and its in-memory copy per process | load, observe, observe once, verify, restore | RCP, empire bridge, heartbeat, VRC, roles export | stale memory, torn lines, two writers |
| **MoneyFarm** `moneyfarm_economic_organ.py` | SQLite: strategies, runs, receipts, decisions | register, start/close/abort run, record/verify receipt, evaluate | event sink, verifiers | checks outside the transaction they guard, several connections |
| **Empire control plane and bridge** `empire_control_plane.py`, `empire_chronos_bridge.py` | manifest JSON, sidecar receipts, Chronos | assess, remediate, record, assert consistency | Chronos | kill between manifest, receipt and ledger; stale gaps |
| **Victor regenerative continuity** `victor_regenerative_continuity.py` | lifecycle state, recovery shards on disk | cryptobiosis, encode, decode, recover, reactivate | Chronos snapshots | two recovery sets mixed, partial writes |
| **Lead and consent ledger** `lead_ledger.py`, `lead_api.py` | SQLite: contacts, consent receipts, audit chain; rate windows; admin tokens | ingest, notify, login, logout | HTTP server threads, e-mail | retries, merges, notification after commit |
| **Role runtime** `devville_roles.py` | SQLite: tickets, evidence, dependencies, executions, event chain | attach, test, package, close, audit | workspace files | replaced evidence, files changed under the gate |
| **Heartbeat and launch gate** `victor_heartbeat_v0*.py`, `victor_launch_gate_v0*.py` | Chronos events, world model, sandbox files | run, replay, cycle | Chronos, sandbox | kill between execution and completion |
| **Company and tickets** `agents.py`, `company.py`, `verified_company.py`, `verification_boundary.py` | projects, tickets, agents in memory | work cycle, review, evidence gates | agents | assignment order, stuck tickets |
| **Machine labor vehicle** `victor_machine_labor.py`, `victor_vehicle.py`, organs | task graph over tickets | plan, dispatch, verify | company | dependency gating, matching by title |
| **Victor adapter** `victor_adapter.py` | run directory, receipt | run job | company | expiry during work, existing directory |
| **Topology, choice, learning kernels** | predictions, outcomes, weights | route, predict, resolve, learn | each other | double resolution |
| **Drivers, GUI, sync checkers** | none of their own | call the above in sequence | | none |

What makes each correct:

* **RCP**: no work without a bounded repair and a lease, above the autonomy
  ceiling a human one; nothing on GitHub without a verified, receipted plan; the
  queue follows its state machine and agrees with the ledger and with GitHub
  after any kill; one recorded publication per case; work in flight settles.
* **Chronos**: the file is always loadable, an acknowledged event is never
  silently missing, a semantic event is recorded once.
* **MoneyFarm**: the cost ceiling of a run holds; a receipt is settled once, for
  good, and announced as it was settled; a strategy is culled only on a recorded
  losing decision. That a closed run has nothing pending is what the code means to
  ensure and does not (see "Disagreements").
* **Empire bridge**: after a kill a run starts only if manifest, sidecar and
  ledger agree. **VRC**: effects are blocked outside ACTIVE; recovery returns a
  capsule that was written, or fails. **Lead ledger**: one receipt and at most
  one notification per idempotency key; a contact keeps what
  consent was given with.
  **Roles**: evidence counts only while everything before it does; a release is
  what a passing test of the same handoffs had as inputs.
  **Heartbeat**: a write follows its durable authorisation, and a completed
  heartbeat is never executed again; what the ledger explains of it is one run.
* **Company, vehicle, driver**: a task leaves `open` only behind finished
  prerequisites, along any history of loads, continues and stale workers; an
  outcome is counted once; a project that keeps running is built, unless a tester's
  older failure hides another one's pass.

`PROJECT.json` lists every component with its status and every hazard at its line.

## 2. What is modelled

### Modules

| Module | Models | State and code |
|---|---|---|
| `Chronos` | `trace0_chronos.py`, `observe_once` | `lines` the JSONL file, `mem` each process's `_events`, `pend` the event between `_events.append` and `handle.write`, `acked` receipts returned, `failed` events whose write raised |
| `KeyedLedger` | what users of the ledger rely on | `recorded` keys in the file, `known` keys in a process's memory, `insync` processes whose memory is the file, `intact` the file loads |
| `RCP` | `engine.py`, `store.py`, `policy.py`, `repair.py`, `verifier.py`, `github_client.py` | the tables (`caseState`, `moves`, `lease`, `planned`, `verification`, `receipted`, `draftPr`), worker directories (`work`), GitHub (`head`, `branch`, `pulls`, `pullOpen`), and `proc`: the locals of each running command with a program counter |
| `CaseLifecycle` | the state machine drawn in `RCP.md` | abstract: one stage at a time |
| `RemediationPromise` | authority, proof, publication | abstract: what RCP promises of a case |
| `MCRCP` | instances for TLC | values of the function constants, the symmetry of processes, and `OneRunsOn`, the state constraint of the runs with two processes |
| `RCP_proofs` | theorems about `RCP` | |
| `MoneyFarm` | `moneyfarm_economic_organ.py`, `victor_economic_company.py` | the tables `strategy`, `run`, `receipt`, `decisions`; `announced` what reached the event sink; `proc` and `totals` the locals of each connection |
| `MCMoneyFarm` | instances for TLC | the two ratios of the policy, the symmetry, and its own `OneRunsOn` |
| `MoneyFarm_proofs` | theorems about `MoneyFarm` | |
| `TopologyKernel` | `victor_mission_compiler.py`, `victor_capability_registry.py`, `victor_choice_kernel.py`, the learning rates of `victor_learning.py` | pure: directives, plans, feasibility, the chosen route |
| `Vehicle` | `company.py`, `agents.py`, `verified_company.py`, `verification_boundary.py`, `victor_machine_labor.py`, `victor_vehicle.py`, the organs | operators on a vehicle record: tickets, copies of tasks and who holds them, each beta tester's last report, receipts of verification |
| `VictorDriver` | `victor_driver.py`, `victor_topological_driver.py`, `victor_sovereign_driver.py`, `victor_outcome_resolver.py` | `vehicle`, `mission`, `predictions`, `learned`, the snapshot `file`, and how the `ledger` relates to it |
| `RegenerativeContinuity`, `MCRegenerative` | `victor_regenerative_continuity.py` | `state`, the capsules `sealed`, the shards in `files` and still `unwritten`, `world` the effects that happened |
| `EmpireTopology` | `empire_control_plane.py`: assessment and remediation | pure: a manifest, its gaps, the corrected manifest |
| `Empire`, `MCEmpire` | `SelfCorrectingEmpire.run`, `empire_chronos_bridge.py` | `manifest`, `ledger` (head, sidecar, soundness) and `run` the step of each runner |
| `Roles`, `MCRoles` | `devville_roles.py` | `files` the workspace, `reports` the execution each report file tells of, `archive` the packed release, `executions` the reports ever written, the tables `rows` (of executions) and `evidence`, `job` the step of each worker |
| `Heartbeat`, `MCHeartbeat` | `victor_heartbeat_v0.py`, `victor_launch_gate_v0.py`, `victor_world_model.py` | `log` the ledger, `files` the sandbox, `run` the run under way, `world` the typed nodes of the world model |
| `Lead`, `MCLead` | `lead_ledger.py`, `lead_api.py` | the tables `contacts` and `receipts`, `request` the step of each server thread, `client` what each client posts and was answered |
| `Continuity_proofs` | theorems about `Chronos` (with its refinement of `KeyedLedger`) and `RegenerativeContinuity`: what survives a crash | |
| `VictorDriver_proofs` | theorems about `VictorDriver` and, under it, the operators of `Vehicle` | |
| `Heartbeat_proofs`, `Lead_proofs`, `Empire_proofs`, `Roles_proofs` | theorems about these four | |

`RCP` extends `KeyedLedger`; `Chronos` implements `KeyedLedger` (run
`ChronosFaults`), so the ledger is modelled in full once and used in its small
form where it is composed. `RCP` instantiates the two abstract specifications.
`VictorDriver` is built on `Vehicle`, which is built on `TopologyKernel`; `Empire`
is built on `EmpireTopology`.

### RCP, action by action

A command is a process that opens the store and the ledger (`Start`), takes one
command (`Scan`, `RunQueue`, `RunCase`, `RecoverInflight`), and ends (`Exit`) or
is killed anywhere (`Crash`). `run_case` is a program counter over its `if
case.state == ...` blocks; `ContinueAt` says which block comes next, for the
state in the local variable, so a resumed case skips the blocks it has passed.
`_transition` is five steps: the engine reads the case (`GetCase`), appends the
event (`ObserveMove`), the store reads and checks (`CheckMove`), commits
(`UpdateMove`), and reads back (`ReloadCase`). Between any two of them another
process may act. `Deny`/`SaveLease` are `PolicyGate.issue`, `ResumeCase` the
check of a persisted lease. `BuildPlan`, `StartMaterialize`, `FinishMaterialize`
and `MaterializeCollides` are `_ensure_plan`; between the last two another engine
may remove the directory. `Verify`, `ObserveProof`, `SaveReceipt` are the proof
and its receipt. `StartPublish`, `LookBranch`, `CreateBranch`, `LookPulls`,
`OpenPull`, `RecordPull` are `publish_plan`: a request may fail without effect
(`GitHubFails`) or take effect and lose its answer (`answered = FALSE`).
`HandleException` is the handler that fails the case. The world ticks, pushes to
the default branch, and closes pull requests.

### MoneyFarm, action by action

A process is one connection to the store: a company (`OpenCompany`, which adopts
the one open run and refuses if there are more) or an organ alone (`OpenOrgan`).
`MoneyFarmStore.execute`, `fetchone` and `fetchall` each commit by themselves, so
each call of the organ is one action per statement: `start_revenue_run` and
`start_run` are `StartRevenueRun`, `ReadStrategy`, `CountOpenRuns`, `InsertRun`;
`abort_run` is `AbortRun`, `UpdateAborted`; `close_run` is `CloseRun`,
`CountPending`, `UpdateClosed`, and when a company closes its own run the
evaluation of the strategy follows; `verify_receipt` is `VerifyReceipt` (read,
ask the verifier), `SettleReceipt` (the conditional update), `AnnounceVerdict`;
`evaluate_strategy` is `ReadEvaluated`, `ListClosedRuns`, one `SumRun` per closed
run, `InsertDecision`, `CullStrategy`. `record_receipt` is one `BEGIN IMMEDIATE`
transaction and one action. `Stop` ends a process anywhere. `reported = FALSE`
is a sink that raises: the row is written and the caller does not get to its
next line.

### Company, vehicle and driver, action by action

There is one process with one owner, and every command of the driver is one
step: the difficulty is the long sequence of legal calls. `Vehicle` is the
company with the two layers above it, as operators from a vehicle to the next:
`StartFromPlan`, `ContinueProject` and `WorkCycle`, which is the agents' work
(`CompleteTasks`), a review by each of the two supervisors (`Review`, by the
evidence the kind of ticket asks for), the QA task that the vehicle completes on
the receipts of the code tickets (`MaterializeQA`) and the assignment of idle
tasks. An artifact whose verification lets an exception out (`Raises`) ends the
cycle in the middle. `VictorDriver` calls them: `StartProject` (or `RejectRoute`,
when no plan is feasible), `Heartbeat`, `PausedHeartbeat`, `ExhaustRun` (the end
of `run`), `Continue`, `Pause`, `Unpause`, `Save`, `Load`, `RefuseLoad`. `Kill` may
leave the snapshot after any of the rewrites `save_project` makes of it. Copies of
a task stay with agents when the project is continued, loaded or replaced (`held`,
`stale`), as the dictionaries in their queues do; a copy is a pair of a task and a
worker, handed to the first idle one of the roster. Each beta tester who ends a test
keeps a report of his own (`BetaReports`), and the review asks for
`LatestBetaReport`: the newest of the first tester who has one.

### Regenerative continuity, action by action

`EnterCryptobiosis` seals the history in a capsule and cuts it in two halves and
their XOR; `WriteShard` writes them one file at a time, `Damage` loses, flips or
miswrites one, `Kill` replaces the process by one with no history that has only
the files. `Recover` is `recover`: group the valid shards by set, insist on one
set with a quorum, decode, compare with the bytes and the genome; otherwise
`FailRecovery` halts. `Reactivate` opens the gate `EffectsAllowed` again. The gate is
a guard of the only action with an effect, so no property speaks of the gate itself,
only of the history behind it. The coding is computed on the bits, so that decoding
undoes encoding is checked, not assumed.

### Empire, action by action

`StartRun` opens the ledger and asserts consistency, `LoadAndCorrect` reads the
manifest once more and applies every remediation of one assessment,
`WriteManifest`, `WriteSidecar` and `AppendEvent` are the three files in the order
the code writes them. `Kill` ends a run between any two; `EditManifest` and
`LoseSidecar` are the owner; `HumanRecovery` is what a refused run asks for.

### Roles, action by action

`BEGIN IMMEDIATE` locks the tables (`Unlocked`) and no file, so each read of a
report file is an action. `CheckAttach` asks that the earlier roles are valid now
and that the report is, `CommitAttach` reads the file again for its hash and inserts
the row. `test_run` is `StartTest` (the output does not exist; the inputs),
`GateTest` (the handoffs), `RunCommand`, `WriteReport` (which replaces whatever is at
the output by then) and `RecordTest` (the row, in a transaction of its own).
`package` is `StartPackage`, before the transaction; `CheckHandoffs` and
`CheckReport`, the two reads of the QA report in `evidence_state`; `BindInputs`, the
third and unchecked one; `PackInputs`, `WriteArchive`, which compares the inputs once
more, `WriteRelease`, which records the release also when they differ, and
`CommitPackage`. `Abandon` is a kill or a refusal: what was written stays. In between
other workers do the same, and `EditFile`, `EditReport` and `RemoveArchive` change
the workspace.

### Heartbeat, action by action

`Begin` starts a heartbeat that is not completed (a completed one is answered from
the ledger); `Think` is one cognitive stage and its event, `Decide` the second ORCH
pass over the verdicts of the truth gate or, behind the launch gate, of the Truth
Compiler; then `Block`, or `Authorize`, `Execute`, `Verify`, `Complete`. `Refuse` is
what happens instead at every submission of a heartbeat whose selected candidate can
never be carried out: `compile` raises for a write over the byte ceiling, before the
lease is recorded, and `execute` for a target outside the sandbox or on a directory,
after it. `Interrupted` is a kill or an expired lease at any stage, `ForeignWrite`
somebody else in the sandbox. `Explained` is what `RecoveryExplainer` picks: the
stages of a completing run and `blocked`.

### Leads, action by action

`Post` puts a form into a free thread; `Conflict`, `Replay` and `Capture` are the
outcomes of `ingest`, one `BEGIN IMMEDIATE` transaction; `Notify` and `Answer` follow
it outside. `Refuse`, `GiveUpWaiting` and `Kill` are the refusals without an answer
from the ledger, the client's timeout and the server's death; a client posts again
until it is answered.

### Abstractions

* A lease is its expiry and its issuer, a case its risk, its repair and its
  base. Signatures, hashes and paths always agree: nothing here edits a record.
  Two leases issued by one issuer in one tick are the same lease.
* The repair plan is a function of the case, so there is one branch per case.
* In `RCP` the SQLite commits and the Chronos appends succeed; the failures of
  the append are in `Chronos`. A kill can hit before and after each of them.
* `Scan` reads the head it scans and finds the cases of that head. In a scan an
  exception ends the program, because nothing catches it.
* GitHub refuses a second ref of one name and a second open pull request of one
  branch. Nobody deletes or pushes to the publication branch.
* MoneyFarm: all strategies have one policy, and a verifier may give any answer.
  A receipt is its normalized `(source, external_id)`, which the unique index
  makes a key. The Dev-Ville project that a run starts, the score of a decision
  and the metrics in the events are left out, and of the events only those of
  verdicts are kept. A decision keeps its action, its number of runs and whether
  they lost money. Averages and ratios are compared as integers, by
  multiplication; the code divides floats. SQLite never reports `database is locked`.
* Chronos: SHA-256 is injective; a completed write survives (the code does not
  call `fsync`, so a power cut is outside the model).

* Driver: a directive is the kind of software it asks for; a project has one
  ticket per task type; scores are ranks; progress is finished or not; steering,
  feedback, morale and the generated text change no ticket and are left out. Of two
  copies handed out between two cycles the second goes to the next worker; the code
  puts it behind the first in the queue of the same one, where it ends later. Copies
  left from a replaced project end only while a project of their title is current.
* VRC: canonical bytes are a short bit string that differs per capsule and stands
  for its digest.
* Empire: a manifest is each node's status and its readiness receipts; replacing
  a file is one step.
* Roles: a file is its version, a hash is what it is a hash of. The gates of the
  four roles from deployment on refuse whatever is attached, and `close` needs
  them, so those calls change nothing. Files that are read once, each against a hash
  of its own (documents, inputs), are read at one moment; where `attach` only gates on
  a report its two reads of it are one. Every package writes the default archive.
* Heartbeat: one process owns the ledger (`Chronos` shows what two do to it); a
  candidate is what the gates read of it, and its target; what is unwritable stays
  so. Malformed candidates, which raise before ORCH_2, and the scratch file
  `.victor.tmp` are left out.
* Lead: a payload hash is the form; rate limits, authentication and a busy
  database are one nondeterministic refusal that does not reach the ledger.

## 3. Runs

| Run | Instance | What it shows |
|---|---|---|
| `ChronosFaults` | 2 processes, 3 keys, 4 events, kills anywhere, 2 write errors of any kind | whoever opens the ledger sees every acknowledged event and none twice, a damaged file refuses to open, and up to the damage `Chronos` implements `KeyedLedger` |
| `RCPSolo` | 1 command at a time, 1 case, lease of 2 ticks in 3, 2 kills, 1 outage, 1 push; fair | ledger, queue and GitHub agree after every recovery; one recorded pull request; work in flight settles; a ready case is published in time |
| `RCPGate` | 3 cases: without a recipe, above the ceiling with an unknown base, without a bounded repair | authority before work, receipt before publication, refused cases stay refused |
| `RCPDuo` | 2 overlapping processes, any number of commands, 1 case above the ceiling | the inductive invariant, the witnessed states and the promise under real interleavings |
| `MoneyFarmShared` | 2 connections, 1 strategy, 2 runs, 2 receipts of 2 cents, ceiling 3, 2 samples to decide | the ceiling, the single verdict, final receipts and recorded culls, whatever two connections do at once and wherever they are killed |
| `VictorDriving` | an API service and a mobile application, pools of 2 workers, artifacts good, failing or stuck, 2 missions, 2 troubles (kill, save, load, pause, rejection, early continue); fair | tasks leave `open` only behind finished prerequisites; outcomes count once; a project that keeps running is built unless a tester is overruled |
| `VRC` | capsules of 1, 2 and 3 bits, 1 of another Victor, 2 effects, 2 damages, 1 kill | whoever acts carries a sealed history; a newest set that survives is recovered or everything halts |
| `Empire` | a chain of 3 nodes and 2 that need each other, 2 runners, 1 kill, 1 edit; fair | undisturbed runs chain in the ledger; repeated runs leave nothing to correct on the chain, whatever the cycle does |
| `Roles` | 2 of the documents, QA and release; 1 source of 2 versions, 2 report paths, 2 workers, 4 rows of evidence, 3 reports, 1 edit | a release was let through by a passing test of the same handoffs and holds the inputs of the report it was bound to; replacing a handoff invalidates what follows |
| `Heartbeat` | one plain and one gated heartbeat on the same file, 3 and 4 candidates, 2 of them impossible to carry out, 1 rerun, 2 troubles; fair | the world model can always be rebuilt; writes are authorised and not repeated after completion; explanations are one run but for an earlier block; what is not refused for good settles |
| `Lead` | 3 clients with 5 forms over 2 addresses and 1 number, 4 keys of which one is used twice, 2 threads, 2 troubles; fair | contacts keep consent; an ok is a receipt; one notification; every client is answered |
| `RCPTerminal` | 2 overlapping commands on 1 case | the disagreement below: expected to fail |

**Bounds.** Counters that only grow (time, heads, kills, outages, events, starts,
switches) are bounded in the guards of the actions. One lease period plus one
tick reaches a lease that expires at every step of a run and after it. Two kills
reach a kill during the recovery of a kill. One push is enough for a moved base,
one outage for a lost answer followed by its retry. `RCPDuo` and `RCPTerminal`
carry the state constraint `OneRunsOn`: at any time one of the two processes is
not running, or stands between the check and the update of a transition, between
the two halves of a write to the worker directory, at the exception handler, or
before the branch is created. These are the places where a decision is stale or
an effect half done, so every race in the code is reached, while the product of
two arbitrary positions is not. One case is enough for the properties of a single
case, because cases meet only in the order of the queue, which `RCPGate` covers
with three.

In `MoneyFarmShared` two receipts of 2 under a ceiling of 3 make the second cost
receipt of a run the one that must be refused, and accepted once the first is
rejected; two runs are what a decision on two samples needs, and let two losing
runs be closed, evaluated and culled while the other connection settles or
evaluates. Its `OneRunsOn` keeps one connection between calls or at a point where
it is about to write on what it has read (close, settle, announce, decide,
cull). Nothing bounds the number of calls: ids run out, and the tables are finite.

In `VictorDriving` a second mission can replace, duplicate or follow the first, and
two troubles are a save and a load, a kill inside a save and the load of what it
left, or two continues that give one task to two workers (its 337,516 states include
testers who disagree). In `VRC` odd sizes are padded
and the even one is not; two damages break a quorum or spoil one that a kill left
incomplete. In `Empire` a chain of three lets a demotion undo the reason for a
promotion found in the same assessment, next to a cycle of two that never comes to
rest; a kill and an edit (of the middle node) leave any two of the three files apart,
from one manifest at the start. In `Roles` four rows are two documents, a test and
then a replacement or a release, and three reports are two tests and a package, the
second test replacing the first one's report between two reads of it. The two workers
are interchangeable, hence the symmetry. In `Heartbeat` two troubles cut a run and its
retry short, or let a foreign write hit the verification of a retry; one rerun lets a
blocked heartbeat complete, or a refused one be refused again. `Heartbeat` has 585,064
distinct states, `Empire` 611,807, `ChronosFaults` 740,814 and `Roles` 5,755,578 up to
the symmetry. In `Lead` the five forms hold a merge from each side, a conflict of keys
and conflicts of contacts, in every order the clients and threads allow.

**Fairness.** `RCPSolo`: a started command keeps running until it ends or is killed
(`WF RunStep`), and the operator keeps recovering: commands are started again
(`WF Start`) and, often enough, the command is `recover --publish` (`SF
RecoverInflight`). `RCP.md:158` prescribes `recover` after every interruption; that it
is given `--publish` often enough is an assumption about the operator. Without the strong fairness the operator could scan for ever. Kills and outages
are bounded, so they cannot starve a run.

`VictorDriving`: cycles are run again and again, and often enough somebody, if anybody
can, finishes what he holds and all evidence of the cycle is good (`SF GoodCycle`):
efforts are finite and a task that failed is done again. Nothing asks two workers to
finish together. The owner continues a project nobody makes progress on
(`SF ContinueStalled`), which is what `continue_project` is for. Without the second a project loaded from a snapshot,
whose tasks no agent holds, never moves. `BuildCompletes` is about a project that
keeps running and whose finished code tickets have their receipts: a snapshot cut
off before its machine labor section brings back done tickets without receipts,
and the testing task then waits for ever. `Overruled` is its other way out (see
"Disagreements"). `Empire`: a run that started goes on (`WF
RunStep`), runs with remediation are started again (`SF StartRun(p, TRUE)`: other
runs and inconsistencies keep disabling it), and somebody recovers what they
refuse (`SF HumanRecovery`). `Heartbeat`: `WF Proceed`, and an unanswered heartbeat is
submitted again (`SF Resubmit`); only one for which ORCH_2 chose what can never be
carried out is not expected to settle, and such a one must not keep the others from
it. `Lead`: a thread with a request serves it (`WF
Serve`), and a client without an answer posts again (`SF`, because another client
may take the free thread). The troubles are bounded in all of them.

**Deadlock.** Commands end and bounded counters run out, so the configurations of
`RCP`, `Chronos`, `VictorDriver`, `RegenerativeContinuity`, `Heartbeat`, `Lead` and
`Roles` (whose report paths and bounds run out) may stop; deadlock is not checked
there. It is checked for `MoneyFarm` and `Empire`, where a connection or a run can
always be started.

### Disagreements between code and documents

One is kept as a run:

* `RCPTerminal`: `store.transition` checks the state outside the transaction that
  updates it, so FAILED can be overwritten by a command that checked before.
  `RCP.md:133` calls it terminal.

The others are in the models, and the properties are stated around them:

* Two processes on one ledger each append after the history they loaded; the
  second append repeats a sequence number and the file never loads again.
  "Immutable, causally linked" (`trace0_chronos.py:3`) holds for one writer. In
  `ChronosFaults` this is a damaged file, which refuses to open.
* An event whose write raised stays in its process's memory
  (`trace0_chronos.py:100`), and a retry of its key there gets its receipt from memory
  (`chronos_adapter.py:56`); the file may never have it. `RCP.md:153` says that Chronos
  persists canonical receipts. `OpenSeesAcknowledged` therefore leaves out the events
  in `failed`; were they counted, it would be violated in `ChronosFaults`.
* A publication retried after the branch was created does not compare the
  default branch with the case base again. `RCP.md:178` says it fails closed.
  `BranchRootedAtCaseBase` states what does hold.
* A PR_READY case needs its old lease to verify, and nothing issues a new one.
  `RCP.md:133` says it can be published later; `ReadyPublishedInTime` says until when.
* `close_run` counts pending receipts in one statement and closes in the next, so a
  receipt recorded in between by another connection is pending in a closed run.
  `MONEYFARM_FUSION.md:43` says pending receipts block closure.
* `evaluate_strategy` sums the closed runs one statement at a time, so a decision may
  rest on totals no moment had. `CullsAreDecided` is about the decision on record, not
  about its numbers.
* `package` reads the QA report a third time, unchecked (`devville_roles.py:326`). A
  second test with the same `--output`, which is looked for only at its start, can
  replace it after the gate, so that the release is bound to the inputs of a test that
  failed. `ROLE_RUNTIME.md:4` says "packages tested input bytes". A release whose
  inputs changed while they were packed is recorded all the same, as not passed
  (`devville_roles.py:345`). `PackagedAsTested` names both reports.
* `_latest_beta_report` (`victor_machine_labor.py:178`) returns the newest report of the
  first tester in the roster who has one, not the latest. Two continues while a tester
  is at work give his task to a second one; if the first has failed the build and
  his copy is gone, the second one's passes are overruled and the task is reset for
  ever. `BuildCompletes` excludes this state (`Overruled`); without it TLC finds the
  loop.
* A manifest whose nodes depend on each other is accepted; the cycle is only reported
  (`empire_control_plane.py:199`). One node of it ready and one blocked, both with
  evidence, each run promotes the one and demotes the other for ever. `Converges`
  is about the nodes on no cycle and above none (`Grounded`).
* A heartbeat whose selected write is too large or cannot be placed raises at every
  submission and is neither completed nor blocked, and its ledger may say
  `heartbeat.authorized` each time. `HeartbeatSettles` leaves it out.
* `RecoveryExplainer` picks `heartbeat.blocked` as well, so what it says of a heartbeat
  that was blocked first and completed later lists the blocked event of the earlier
  run among its event ids; and of a blocked heartbeat it shows the authorization and
  the verification of an earlier run that was cut short, so that it may read
  `blocked` with a verified outcome. `ExplanationCoherent` states the first and is
  about completed heartbeats only.
* A directive without a route replaces the mission and leaves an earlier project
  in place; heartbeats go on building it, and its completion completes the
  rejected mission (`victor_topological_driver.py:63`). `VICTOR_TOPOLOGY.md` says that
  Victor fails closed on such a request.
* `SelfCorrectingEmpire.run` reads the manifest again after `assert_consistent`
  compared it; an edit in between is recorded as the run's starting point, which
  the comment at `empire_chronos_bridge.py:136` excludes. `RunsChain` is about runs
  nobody disturbed.

## 4. Proofs

Every safety property and every action property that a run checks is a theorem
for all values of the constants; the two refinements of `RCP` and that of
`Chronos` are too. Each proof rests on the assumption about the constants that the
component's module states (`RCPAssumption`, `MoneyAssumption`, ...), which TLC
evaluates on every run of it, and on nothing else, except where `Alone` is named.

**RCP, any number of processes.** `RCP_proofs` proves for every set of cases and
processes, every risk, repair and ceiling, and every value of the bounds:

* `TypeCorrect`: `Spec => []TypeOK`.
* `SafetyInvariant`, `AuthorityHolds`, `ReceiptHolds`: `RCPInv`, `AutonomyCeiling`,
  `ReceiptBeforePublish`.
* `ImplementsPromise`: `Spec => KeepsPromise`, refinement of `RemediationPromise`.
* `StatesAreWitnessed`, `BranchIsRooted`: `StatesWitnessed`, `BranchRootedAtCaseBase`.

`AutonomyCeiling` and `ReceiptBeforePublish` speak
of the stored state only and are not inductive: a process may be about to store
RECEIPTED without anything in the store saying why it may. `RCPInv` adds
`ProcSound`, which says what a process holds for its case at each program
counter: a lease once it is past the gate, a plan once it is past `_ensure_plan`,
the recorded proof event at `saveReceipt`, and all of it when it publishes; and,
for a process inside `_transition`, the same for the state it is moving to and
for the block it returns to. It also says that a process's memory of the ledger
is part of the file, so that an event it does not record again is there. All these
facts are monotone (leases, plans, events and receipts are never removed), so no
step of another process can falsify them: this is why the property survives the
unprotected check in `store.transition`. The lemma `StepSound` states it once.
`WitnessInv` adds in the same way that a process past `ObserveMove` moves to a
state some event of the ledger names, and that one between the comparison of the
head and the creation of the branch holds a base that compared equal.

**RCP, one process at a time.** `MovesAreWitnessed`, `PublishedIsSettled`,
`ImplementsLifecycle`, `TerminalIsFinalAlone` and `NoSecondPull` assume
`Alone == \A p, q \in Procs : p = q`, for any number of cases, kills and outages. The
assumption is needed: the run `RCPTerminal` violates `TerminalIsFinal` with two
processes, and on its instance without `OneRunsOn` TLC finds a violation of each of the
other four too, because what a process read of its case need not be so when it acts.
For one process `SoloInv` says that it is: inside `_transition`
the state moved from is the stored one, its event is recorded, the local `seen` is the
stored state, and nothing is recorded as published before the
publication is under way.

`MoneyFarm_proofs` proves for any connections, strategies, runs, receipts and
policy (assumption `MoneyAssumption`):

* `MoneySafe`: `Spec => []MoneyInv`, the inductive invariant.
* `OneVerdictHolds`: `Spec => []OneVerdict`.
* `SettledFinalHolds`: `Spec => SettledFinal`, an action property.
* `CullsAreDecidedHolds`: `Spec => []CullsAreDecided`.
* `BudgetHeldHolds`: `Spec => []BudgetHeld`.

None of the first three is inductive by itself: they depend on what a process between
two statements may rely on. `Standing` says it: whoever is about to announce holds the
verdict that is stored and has not been announced, and whoever is about to cull
has its decision on record. `OneAnnouncer` says that no two processes are about
to announce one receipt; it holds because the conditional update has one winner,
and with it the announcement of one process cannot falsify the standing of
another. `GrowStep` states once why all steps except settling and announcing
preserve it: rows are added and never taken away. For `BudgetHeld` the money of a
set of receipts is the number of its cents, `Cardinality(Cents(keys))`, so that the
steps of the sum are facts about finite sets: recording adds the cents of one
receipt (`RecordOwes`), settling adds none (`SettleOwes`), and every other step leaves
the receipts alone.

`Lead_proofs` proves for any clients, threads, forms and number of troubles
`LeadSafe` (`Spec => []LeadInv`), `ConsentHolds` and `AnswersHold`. That an ok is a receipt
and that the owner is told once are not inductive: between the commit and the
answer only the thread knows. `ServedHasReceipt` says that a thread past its
transaction holds a form with a receipt, and `OneNotifier` that at most one thread
stands before the notification of a key, which nobody has sent. It holds because
a recorded key is replayed, and a replay goes straight to the answer.

`Empire_proofs` proves for any graph, runners, kills and edits `EmpireSafe`
(`Spec => []EmpireInv`), `EmpireTypesHold` and `RunsChainHolds`. `RunsChain` is about a run
that has read the manifest; `Chained` adds the run that has only checked it, whose
starting point is the manifest on disk. A run of another process cannot falsify
it, because whatever that run writes takes the first one out of `alone`.

`Continuity_proofs` is about what comes back after a crash.

*Chronos*, for any processes, keys, events and write errors: `OncePerLedger`
(`SemanticOnce`), `OpeningSeesAll` (`OpenSeesAcknowledged`) and `KeyedLedgerImplemented`
(`ImplementsKeyedLedger`). `ChronosInv` says that an event's identity, which is its hash
and includes its parent's, stands for one event and for everything before it
(`HistoriesAgree`): two histories that hold the same identity agree up to it. A
loadable file is therefore the history of whoever holds its last event, no
induction over the length of the chain is needed, and a file in which two writers
interleaved is not loadable from there on. `PendingApart` keeps the event whose line
is being written out of the other histories. A receipt may also come from memory (`Reobserve`):
every event a process holds is in the file, has failed, or is still pending, and
nothing is handed out while it is pending. The refinement is proved one action at a
time: `Open`, `Observe`, `Reobserve`, `Close`, `Persist` and `PersistFails` each map
to a step of `KeyedLedger` or a stutter, with `intact` the file loads and `insync` the
memory is the file.

*Regenerative continuity*, for any capsules of any length and any damage: `VRCTyped`
(`VRCTypeOK`), `ResumesSealedHolds` (`ResumesSealed`) and `NewestComesBack`
(`NewestOrHalted`). For `ResumesSealed` only `HistoriesOK` is needed besides, because
`Recover` takes the history of a set it has compared bit for bit and with the
genome. That the comparison does not refuse too much is `NewestOrHalted`: `SetSurvives`
shows that any two of the two halves and their XOR rebuild the bits of a capsule,
padding cut off. `VRCSound` adds that the shards on disk are records,
finitely many, and that the newest capsule is this Victor's own.

`Heartbeat_proofs` proves for any heartbeats, candidates, files, reruns and troubles
`EffectsFollowAuthorization` (`EffectsAuthorizedOnce`), `ExplanationsCohere`
(`ExplanationCoherent`) and `WorldAlwaysRebuilds` (`WorldRebuilds`). The first two come from
`HeartbeatInv`. `RunSound` says that the run under way has told every stage it has
passed: the last event of each is its own, with its number and, from `orch2` on,
its candidate. It is not enough that the events are there, since runs that were cut short
left some too. `CompletedTold` says the same of a completed heartbeat; no
later run can disturb it because `Prior` stops one from beginning. `RunsNumbered` says
that no event has a higher number than the runs begun and that a blocked event of the
heartbeat under way is of an earlier run, since a block ends its run; so is one of a
heartbeat that is completed. For the world
`SoundWorld` says that a node has the type its kind of identity may have, so that two
upserts of one node never conflict whatever was repeated in between.

`VictorDriver_proofs` proves for any plans, routes, pools and missions `DriverTyped`
(`DriverTypeOK`), `PhaseLaw` (`DependencyGate`) and `OutcomesCounted`
(`OutcomesCountOnce`), from `DriverInv`. `GateHeld` is the dependency gate of the vehicle
and of the snapshot, since a load brings back what was saved; each operator
of `Vehicle` (assignment, completion of copies, review, QA, continue) has a lemma that
it keeps a gated project gated, for stale copies and any number of workers too. `MemoryCounts` and `SnapshotCounts` say
that the calibration counts only predictions that have an outcome or have lost it to an
older snapshot, each once, and that what was learned is what the predictions came
to: in memory, and in the file up to the section a kill let the rewrites reach.

`Roles_proofs` proves for any list of documents, any files, workers and number of
edits `RolesSafe` (`Spec => []RolesInv`), `RolesTypesHold`, `PackagedAsTestedHolds` and
`ReplacingInvalidatesHolds`. `RolesInv` adds to the table types that the rows of a role
have a last one (`HasLast`), which gives `Latest` its meaning, that one transaction is
open at a time (`OneTransaction`), what a worker has learned so far (`JobSound`), and that
each release that was written was let through by a passed test of its handoffs and holds
inputs of the report it was bound to (`ReleasesTested`). The tables grow only at the end and a
report that was written never changes, so what the holder of the lock has learned of
them stays true. The files it read may not be what they were, and for that reason
`PassedFor` and `BoundTo` speak of two reports. The
lemma `StageOrder` derives from the assumption that roles are distinct that the
predecessors of a role are a prefix of the stages.

**Only model-checked.** Liveness under fairness, which is outside the prover's
reach: `InFlightSettles`, `ReadyPublishedInTime`, `BuildCompletes`, `Converges`,
`HeartbeatSettles`, `ClientsAnswered`. No theorem speaks of them or of `ENABLED`.

## 5. Plan

Done, in this order: the ledger, the remediation control plane and the keyed
ledger between them; MoneyFarm; the company, vehicle and driver with the kernels;
regenerative continuity; the Empire bridge; the role runtime; the heartbeat and
launch gate; the leads. Every safety property of every run is proved.

Next:

1. Proofs: lemmas about the operators of `TopologyKernel` (the plan a route is
   chosen from), and the safety halves of the liveness properties, such as what a
   case in flight can still do once its lease has expired.
2. Abstract specifications: an atomic commit of manifest, sidecar and ledger that
   `Empire` implements up to a kill, and an exactly-once consent register for `Lead`.
3. Admin sessions and rate windows of `lead_api.py`; `lease.key` in the RCP policy gate.

### Not modelled

* **RCP estate scanner and truth adapter**: pure functions from files and API
  listings to findings. Their results are the constants of `RCP` (cases, risk,
  repair, priority).
* **Victor adapter**: one process, one fresh directory per job, a receipt written
  last. Nothing reads the directory again, so there is no later step to get wrong.
* **GUI and command lines**: presentation, and calls of the operations modelled.
* **Empire sync checkers**: validators of JSON files and Git refs that keep nothing.
* **Parts of modelled components**: HMAC signatures and the creation of
  `lease.key`; `restore` of Chronos (VRC models its result); admin sessions, CORS and
  field validation of the lead service; creation, audit and export of role tickets,
  which start or read a ticket; the identity proof of the sovereign driver, checked
  once at start; what agents and organs write, which is a choice of the model.
