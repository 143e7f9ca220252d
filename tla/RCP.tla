--------------------------------- MODULE RCP ---------------------------------
(***************************************************************************)
(* The remediation control plane, rcp/engine.py with the parts it drives:  *)
(* the SQLite queue (rcp/store.py), the lease issuer (rcp/policy.py), the  *)
(* worker and the verifier (rcp/repair.py, rcp/verifier.py), the GitHub    *)
(* publisher (rcp/github_client.py) and the Chronos adapter (KeyedLedger). *)
(*                                                                         *)
(* A process is one run of rcp_cli.py on a shared state directory.  One    *)
(* action is one durable effect or one read that the code later relies on: *)
(* a SQLite transaction, a Chronos append, a GitHub request, a filesystem  *)
(* step; a process can be killed, and others can act, between any two.     *)
(*                                                                         *)
(* Abstractions.  A case keeps what the gate looks at: its risk rank and   *)
(* whether a bounded repair exists (Repair).  A lease keeps its expiry and *)
(* its issuer; signatures, paths and SHA bindings always agree because     *)
(* nothing here forges or edits a record.  The repair plan is a function   *)
(* of the case (its id is a hash of its content), so there is one branch   *)
(* name per case.  Commits are numbered by the head they were read at.     *)
(***************************************************************************)
EXTENDS Naturals, FiniteSets, KeyedLedger

CONSTANTS
    Cases,        \* remediation cases (one per finding and head SHA)
    Risk,         \* rank of the case's RiskTier, 0..3
    Repair,       \* "none", "unbounded", "unsupported" or "supported"
    Priority,     \* queue priority
    CaseBase,     \* default-branch head the case was found at
    Unpinned,     \* cases whose base_sha is "UNKNOWN"
    AutoMax,      \* rank of auto_max_risk
    LeaseTerm,    \* lease_minutes, in ticks
    QueueCap,     \* max_auto_cases_per_run
    PublishModes, \* values --publish / publish_draft_pr take
    MaxTime,      \* bound: ticks
    MaxHead,      \* bound: pushes to the default branch
    MaxCrashes,   \* bound: killed processes
    MaxOutages    \* bound: GitHub requests that fail or lose their answer

ASSUME RCPAssumption ==
    /\ IsFiniteSet(Cases) /\ Cases # {}
    /\ Risk \in [Cases -> 0..3]
    /\ Repair \in [Cases -> {"none", "unbounded", "unsupported", "supported"}]
    /\ Priority \in [Cases -> Nat]
    /\ CaseBase \in [Cases -> Nat]
    /\ Unpinned \subseteq Cases
    /\ AutoMax \in 0..3
    /\ LeaseTerm \in Nat \ {0}
    /\ QueueCap \in Nat \ {0}
    /\ PublishModes \subseteq BOOLEAN
    /\ {MaxTime, MaxHead, MaxCrashes, MaxOutages} \subseteq Nat

VARIABLES
    caseState,    \* cases.state; "ABSENT" before the row exists
    moves,        \* the rows of the transitions table
    lease,        \* latest_lease of each case
    planned,      \* cases with a repair_plan artifact
    verification, \* latest verification artifact: "none", "passed", "failed"
    receipted,    \* cases with a chronos_receipt artifact
    draftPr,      \* cases with a draft_pr artifact: the base_sha it records
    work,         \* worker directory: "none", "partial", "full"
    head,         \* head of the default branch on GitHub
    branch,       \* publication branch on GitHub: the commit's parent
    pulls,        \* pull requests opened for the branch so far
    pullOpen,     \* the branch has an open pull request
    now,          \* clock
    crashes, outages,
    proc          \* the local state of each process

storeVars == <<caseState, moves, lease, planned, verification, receipted,
               draftPr>>
githubVars == <<head, branch, pulls, pullOpen>>
faultVars == <<crashes, outages>>
vars == <<storeVars, githubVars, faultVars, ledgerVars, work, now, proc>>

-----------------------------------------------------------------------------
(* Constants of the program.                                               *)
InFlight == {"AUTHORIZED", "CLAIMED", "PATCHING", "VERIFYING", "PROVEN",
             "RECEIPTED", "PR_READY"}
Terminal == {"BLOCKED", "FAILED", "DRAFT_PR"}
CaseStates == InFlight \union Terminal
                \union {"DISCOVERED", "TRIAGED", "AWAITING_APPROVAL"}

(* _ALLOWED_TRANSITIONS.                                                   *)
Allowed(from) ==
    CASE from = "DISCOVERED"        -> {"TRIAGED", "BLOCKED", "FAILED"}
      [] from = "TRIAGED"           -> {"AUTHORIZED", "AWAITING_APPROVAL",
                                        "BLOCKED", "FAILED"}
      [] from = "AWAITING_APPROVAL" -> {"AUTHORIZED", "BLOCKED", "FAILED"}
      [] from = "AUTHORIZED"        -> {"CLAIMED", "BLOCKED", "FAILED"}
      [] from = "CLAIMED"           -> {"PATCHING", "FAILED"}
      [] from = "PATCHING"          -> {"VERIFYING", "FAILED"}
      [] from = "VERIFYING"         -> {"PROVEN", "FAILED"}
      [] from = "PROVEN"            -> {"RECEIPTED", "FAILED"}
      [] from = "RECEIPTED"         -> {"PR_READY", "FAILED"}
      [] from = "PR_READY"          -> {"DRAFT_PR", "FAILED"}
      [] OTHER                      -> {}

NoLease == [expires |-> 0, human |-> FALSE]
NoCommit == MaxHead + 1
Leases == [expires : Nat, human : BOOLEAN]

(* Semantic keys of Chronos events: case transitions and proofs.           *)
MoveKey(c, from, to) ==
    [case |-> c, from |-> from, to |-> to, lease |-> NoLease]
ProofKey(c, l) ==
    [case |-> c, from |-> "verification", to |-> "PROVEN", lease |-> l]

DefaultCase == CHOOSE c \in Cases : TRUE
Idle(pc, todo, publish) ==
    [pc |-> pc, case |-> DefaultCase, mode |-> "run", seen |-> "ABSENT",
     from |-> "ABSENT", to |-> "ABSENT", ret |-> "done", human |-> FALSE,
     publish |-> publish, lease |-> NoLease, base |-> NoCommit,
     todo |-> todo]

Init ==
    /\ LedgerInit
    /\ caseState = [c \in Cases |-> "ABSENT"]
    /\ moves = {}
    /\ lease = [c \in Cases |-> NoLease]
    /\ planned = {}
    /\ verification = [c \in Cases |-> "none"]
    /\ receipted = {}
    /\ draftPr = [c \in Cases |-> NoCommit]
    /\ work = [c \in Cases |-> "none"]
    /\ head = 0
    /\ branch = [c \in Cases |-> NoCommit]
    /\ pulls = [c \in Cases |-> 0]
    /\ pullOpen = {}
    /\ now = 0
    /\ crashes = 0
    /\ outages = 0
    /\ proc = [p \in Procs |-> Idle("off", {}, FALSE)]

-----------------------------------------------------------------------------
(* Where run_case continues when the local case.state is st: each of its   *)
(* "if case.state == ..." blocks that does not apply is passed over.       *)
AtPublish(st, publish) ==
    IF st = "PR_READY" /\ publish THEN "publish" ELSE "done"
AtReady(st, publish) ==
    IF st = "RECEIPTED" THEN "markReady" ELSE AtPublish(st, publish)
AtReceiptSkipped(st, publish) ==          \* mutant: ready without a receipt
    IF st \in {"PROVEN", "RECEIPTED"} THEN "markReady" ELSE AtPublish(st, publish)
AtReceipt(st, publish) ==
    IF st = "PROVEN" THEN "receipt" ELSE AtReady(st, publish)
AtPatch(st) == IF st = "CLAIMED" THEN "patch" ELSE "plan"
AtClaim(st) == IF st = "AUTHORIZED" THEN "claim" ELSE AtPatch(st)

ContinueAt(ret, st, publish) ==
    CASE ret = "claim"   -> AtClaim(st)
      [] ret = "patch"   -> AtPatch(st)
      [] ret = "plan"    -> "plan"
      [] ret = "verify"  -> "verify"
      [] ret = "receipt" -> AtReceipt(st, publish)
      [] ret = "ready"   -> AtReady(st, publish)
      [] ret = "publish" -> AtPublish(st, publish)
      [] ret = "done"    -> "done"

(* One case is done with; the command goes on with the next one or ends.   *)
Finished(r) ==
    IF r.todo = {} THEN Idle("exit", {}, FALSE)
    ELSE IF r.mode = "scan" THEN Idle("findings", r.todo, FALSE)
    ELSE Idle("next", r.todo, r.publish)

(* engine._transition(case, to), then go on at ret.                        *)
Begin(r, to, ret) == [r EXCEPT !.pc = "get", !.to = to, !.ret = ret]

GoTo(r, pc) ==
    CASE pc = "done"      -> Finished(r)
      [] pc = "claim"     -> Begin(r, "CLAIMED", "patch")
      [] pc = "patch"     -> Begin(r, "PATCHING", "plan")
      [] pc = "markReady" -> Begin(r, "PR_READY", "publish")
      [] OTHER            -> [r EXCEPT !.pc = pc]

(* It returned a case in state st.                                         *)
Returned(r, st) ==
    GoTo([r EXCEPT !.seen = st, !.from = "ABSENT", !.to = "ABSENT",
                   !.ret = "done"],
         ContinueAt(r.ret, st, r.publish))

(* An exception: run_case's handler, or the end of the run if the handler  *)
(* itself was running; in a scan nothing catches it and the program ends.  *)
Raised(r) ==
    CASE r.mode = "handle" -> Finished(r)
      [] r.mode = "scan" -> Idle("exit", {}, FALSE)
      [] OTHER -> [r EXCEPT !.pc = "except", !.ret = "done", !.base = NoCommit]

(* PolicyGate.verify: current >= expires is expired.  A missing lease is   *)
(* NoLease, which never verifies.                                          *)
LeaseValid(l) == now < l.expires

Set(p, r) == proc' = [proc EXCEPT ![p] = r]

-----------------------------------------------------------------------------
(* Processes.                                                              *)

(* RemediationEngine(config): the Chronos file must load.                  *)
Start(p) ==
    /\ proc[p].pc = "off"
    /\ OpenLedger(p)
    /\ Set(p, Idle("ready", {}, FALSE))
    /\ UNCHANGED <<storeVars, githubVars, faultVars, work, now>>

(* The command is done, or a scan raised: the program ends.                *)
Exit(p) ==
    /\ proc[p].pc = "exit"
    /\ CloseLedger(p)
    /\ Set(p, Idle("off", {}, FALSE))
    /\ UNCHANGED <<storeVars, githubVars, faultVars, work, now>>

(* The process is killed between two steps.                                *)
Crash(p) ==
    /\ proc[p].pc \notin {"off", "ready", "exit"}
    /\ crashes < MaxCrashes
    /\ crashes' = crashes + 1
    /\ CloseLedger(p)
    /\ Set(p, Idle("off", {}, FALSE))
    /\ UNCHANGED <<storeVars, githubVars, outages, work, now>>

-----------------------------------------------------------------------------
(* _transition, in the order engine and store do it.                       *)

(* engine: case = store.get_case(...); nothing to do if it is there.       *)
GetCase(p) ==
    LET r == proc[p] IN
    /\ r.pc = "get"
    /\ IF caseState[r.case] = r.to
       THEN Set(p, Returned(r, r.to))
       ELSE Set(p, [r EXCEPT !.pc = "observe", !.from = caseState[r.case]])
    /\ UNCHANGED <<storeVars, githubVars, faultVars, ledgerVars, work, now>>

ObserveMoveSkipped(p) ==                  \* mutant: the store moves alone
    /\ proc[p].pc = "observe"
    /\ Set(p, [proc[p] EXCEPT !.pc = "check"])
    /\ UNCHANGED <<storeVars, githubVars, faultVars, ledgerVars, work, now>>

(* engine: chronos.observe_once, before the store moves.                   *)
ObserveMove(p) ==
    LET r == proc[p] IN
    /\ r.pc = "observe"
    /\ ObserveOnce(p, MoveKey(r.case, r.from, r.to))
    /\ Set(p, [r EXCEPT !.pc = "check"])
    /\ UNCHANGED <<storeVars, githubVars, faultVars, work, now>>

(* store.transition: its own get_case and the _ALLOWED_TRANSITIONS check,  *)
(* outside any SQL transaction.                                            *)
CheckMove(p) ==
    LET r == proc[p]
        st == caseState[r.case] IN
    /\ r.pc = "check"
    /\ Set(p, IF st = r.to THEN Returned(r, st)
              ELSE IF r.to \in Allowed(st)
                   THEN [r EXCEPT !.pc = "update", !.from = st]
                   ELSE Raised(r))
    /\ UNCHANGED <<storeVars, githubVars, faultVars, ledgerVars, work, now>>

(* store.transition: UPDATE cases and INSERT INTO transitions, one commit. *)
UpdateMove(p) ==
    LET r == proc[p] IN
    /\ r.pc = "update"
    /\ caseState' = [caseState EXCEPT ![r.case] = r.to]
    /\ moves' = moves \union {MoveKey(r.case, r.from, r.to)}
    /\ Set(p, [r EXCEPT !.pc = "reload"])
    /\ UNCHANGED <<lease, planned, verification, receipted, draftPr,
                   githubVars, faultVars, ledgerVars, work, now>>

(* store.transition: return get_case(...).                                 *)
ReloadCase(p) ==
    LET r == proc[p] IN
    /\ r.pc = "reload"
    /\ Set(p, Returned(r, caseState[r.case]))
    /\ UNCHANGED <<storeVars, githubVars, faultVars, ledgerVars, work, now>>

-----------------------------------------------------------------------------
(* scan: the findings of the head it reads, one after the other.           *)
Scan(p) ==
    LET found == {c \in Cases : CaseBase[c] = head} IN
    /\ proc[p].pc = "ready"
    /\ found # {}
    /\ Set(p, Idle("findings", found, FALSE))
    /\ UNCHANGED <<storeVars, githubVars, faultVars, ledgerVars, work, now>>

(* ingest_repositories: is_new is decided by a get_case of its own.        *)
IngestLook(p) ==
    /\ proc[p].pc = "findings"
    /\ \E c \in proc[p].todo :
          Set(p, [Idle("upsert", proc[p].todo \ {c}, FALSE) EXCEPT
                    !.case = c, !.mode = "scan", !.seen = caseState[c]])
    /\ UNCHANGED <<storeVars, githubVars, faultVars, ledgerVars, work, now>>

UpsertResets(st) == "DISCOVERED"                  \* mutant: INSERT OR REPLACE
(* upsert_case: a row that is there keeps its state.                       *)
Upserted(st) == IF st = "ABSENT" THEN "DISCOVERED" ELSE st

UpsertCase(p) ==
    LET r == proc[p] IN
    /\ r.pc = "upsert"
    /\ caseState' = [caseState EXCEPT ![r.case] = Upserted(@)]
    /\ Set(p, IF r.seen = "ABSENT" THEN Begin(r, "TRIAGED", "done")
              ELSE Finished(r))
    /\ UNCHANGED <<moves, lease, planned, verification, receipted, draftPr,
                   githubVars, faultVars, ledgerVars, work, now>>

-----------------------------------------------------------------------------
(* Commands that run cases.                                                *)

Candidates ==
    {c \in Cases : /\ caseState[c] = "TRIAGED"
                   /\ Repair[c] # "none"
                   /\ Risk[c] <= AutoMax}

(* run_queue: the cap highest-priority candidates.                         *)
RunQueue(p, publish) ==
    /\ proc[p].pc = "ready"
    /\ \E S \in SUBSET Candidates :
          /\ S # {}
          /\ Cardinality(S) = QueueCap
                \/ (S = Candidates /\ Cardinality(S) < QueueCap)
          /\ \A c \in S, d \in Candidates \ S : Priority[c] >= Priority[d]
          /\ Set(p, Idle("next", S, publish))
    /\ UNCHANGED <<storeVars, githubVars, faultVars, ledgerVars, work, now>>

(* recover_inflight.                                                       *)
RecoverInflight(p, publish) ==
    LET S == {c \in Cases : caseState[c] \in InFlight} IN
    /\ proc[p].pc = "ready"
    /\ S # {}
    /\ Set(p, Idle("next", S, publish))
    /\ UNCHANGED <<storeVars, githubVars, faultVars, ledgerVars, work, now>>

(* run_case: read the case; a terminal one is only reported.               *)
StartRun(p, c, human, publish) ==
    LET st == caseState[c]
        r == [Idle("ready", proc[p].todo \ {c}, publish) EXCEPT
                !.case = c, !.seen = st, !.human = human]
    IN  Set(p, IF st \in Terminal THEN Finished(r)
               ELSE IF st \in {"TRIAGED", "AWAITING_APPROVAL"}
                    THEN [r EXCEPT !.pc = "authorise"]
                    ELSE [r EXCEPT !.pc = "resume"])

(* The next case of run_queue or recover_inflight.                         *)
RunNext(p) ==
    /\ proc[p].pc = "next"
    /\ \E c \in proc[p].todo :
          /\ \A d \in proc[p].todo : Priority[c] >= Priority[d]
          /\ StartRun(p, c, FALSE, proc[p].publish)
    /\ UNCHANGED <<storeVars, githubVars, faultVars, ledgerVars, work, now>>

(* run-case, and approve (human): any existing case, in any state.         *)
RunCase(p, c, human, publish) ==
    /\ proc[p].pc = "ready"
    /\ caseState[c] # "ABSENT"
    /\ StartRun(p, c, human, publish)
    /\ UNCHANGED <<storeVars, githubVars, faultVars, ledgerVars, work, now>>

(* PolicyGate.issue refuses: no bounded repair, or above the ceiling       *)
(* without a human.                                                        *)
IssueDeniedLoosely(c, human) ==                   \* mutant: no ceiling
    Repair[c] \in {"none", "unbounded"}
IssueDeniedUnscoped(c, human) ==                  \* mutant: no scope needed
    ~human /\ Risk[c] > AutoMax
IssueDenied(c, human) ==
    \/ Repair[c] \in {"none", "unbounded"}
    \/ ~human /\ Risk[c] > AutoMax

Deny(p) ==
    LET r == proc[p] IN
    /\ r.pc = "authorise"
    /\ IssueDenied(r.case, r.human)
    /\ Set(p, IF /\ r.seen = "TRIAGED"
                 /\ Repair[r.case] # "none"
                 /\ Risk[r.case] > AutoMax
              THEN Begin(r, "AWAITING_APPROVAL", "done")
              ELSE Finished(r))
    /\ UNCHANGED <<storeVars, githubVars, faultVars, ledgerVars, work, now>>

(* The lease is saved before the case becomes AUTHORIZED.                  *)
SaveLease(p) ==
    LET r == proc[p]
        l == [expires |-> now + LeaseTerm, human |-> r.human] IN
    /\ r.pc = "authorise"
    /\ ~IssueDenied(r.case, r.human)
    /\ lease' = [lease EXCEPT ![r.case] = l]
    /\ Set(p, Begin([r EXCEPT !.lease = l], "AUTHORIZED", "claim"))
    /\ UNCHANGED <<caseState, moves, planned, verification, receipted, draftPr,
                   githubVars, faultVars, ledgerVars, work, now>>

(* A case found in flight goes on under its persisted lease, if that still *)
(* verifies.                                                               *)
ResumeCase(p) ==
    LET r == proc[p]
        l == lease[r.case] IN
    /\ r.pc = "resume"
    /\ Set(p, IF LeaseValid(l)
              THEN GoTo([r EXCEPT !.lease = l], AtClaim(r.seen))
              ELSE Raised(r))
    /\ UNCHANGED <<storeVars, githubVars, faultVars, ledgerVars, work, now>>

-----------------------------------------------------------------------------
(* _ensure_plan: a saved plan, or build_plan and save it; then materialize *)
(* (rmtree, mkdir, write) in the worker directory of the case.             *)
BuildPlan(p) ==
    LET r == proc[p]
        built == LeaseValid(r.lease) /\ Repair[r.case] = "supported" IN
    /\ r.pc = "plan"
    /\ r.case \notin planned
    /\ planned' = IF built THEN planned \union {r.case} ELSE planned
    /\ Set(p, IF built THEN [r EXCEPT !.pc = "materialize"] ELSE Raised(r))
    /\ UNCHANGED <<caseState, moves, lease, verification, receipted, draftPr,
                   githubVars, faultVars, ledgerVars, work, now>>

StartMaterialize(p) ==
    LET r == proc[p] IN
    /\ \/ r.pc = "materialize"
       \/ r.pc = "plan" /\ r.case \in planned
    /\ IF LeaseValid(r.lease)
       THEN /\ work' = [work EXCEPT ![r.case] = "partial"]
            /\ Set(p, [r EXCEPT !.pc = "writing"])
       ELSE /\ Set(p, Raised(r))
            /\ UNCHANGED work
    /\ UNCHANGED <<storeVars, githubVars, faultVars, ledgerVars, now>>

(* Another process is between its rmtree and its last write of the same    *)
(* directory.                                                              *)
Contended(p) ==
    \E q \in Procs \ {p} :
        proc[q].pc = "writing" /\ proc[q].case = proc[p].case

FinishMaterialize(p) ==
    LET r == proc[p] IN
    /\ r.pc = "writing"
    /\ IF LeaseValid(r.lease)
       THEN /\ \E w \in IF Contended(p) THEN {"full", "partial"} ELSE {"full"} :
                    work' = [work EXCEPT ![r.case] = w]
            /\ Set(p, IF r.seen = "PATCHING"
                      THEN Begin(r, "VERIFYING", "verify")
                      ELSE [r EXCEPT !.pc = "verify"])
       ELSE /\ Set(p, Raised(r))
            /\ UNCHANGED work
    /\ UNCHANGED <<storeVars, githubVars, faultVars, ledgerVars, now>>

(* rmtree, mkdir(exist_ok=False), write_text or the verifier's read_text    *)
(* fails in the collision.                                                 *)
MaterializeCollides(p) ==
    LET r == proc[p] IN
    /\ \/ r.pc \in {"materialize", "writing", "verify"}
       \/ r.pc = "plan" /\ r.case \in planned
    /\ Contended(p)
    /\ Set(p, Raised(r))
    /\ UNCHANGED <<storeVars, githubVars, faultVars, ledgerVars, work, now>>

-----------------------------------------------------------------------------
(* IndependentVerifier.verify: the lease and the worker's bytes.           *)
VerificationPasses(r) == LeaseValid(r.lease) /\ work[r.case] = "full"

Verify(p) ==
    LET r == proc[p]
        passed == VerificationPasses(r) IN
    /\ r.pc = "verify"
    /\ IF r.seen = "VERIFYING"
       THEN /\ verification' = [verification EXCEPT ![r.case] =
                                    IF passed THEN "passed" ELSE "failed"]
            /\ Set(p, IF passed THEN Begin(r, "PROVEN", "receipt")
                      ELSE Begin(r, "FAILED", "done"))
       ELSE /\ Set(p, IF passed
                      THEN GoTo(r, AtReceipt(r.seen, r.publish))
                      ELSE Raised(r))
            /\ UNCHANGED verification
    /\ UNCHANGED <<caseState, moves, lease, planned, receipted, draftPr,
                   githubVars, faultVars, ledgerVars, work, now>>

ObserveProofSkipped(p) ==                 \* mutant: no proof event
    /\ proc[p].pc = "receipt"
    /\ Set(p, [proc[p] EXCEPT !.pc = "saveReceipt"])
    /\ UNCHANGED <<storeVars, githubVars, faultVars, ledgerVars, work, now>>

(* PROVEN: the Chronos proof event, then its receipt artifact.             *)
ObserveProof(p) ==
    LET r == proc[p] IN
    /\ r.pc = "receipt"
    /\ ObserveOnce(p, ProofKey(r.case, r.lease))
    /\ Set(p, [r EXCEPT !.pc = "saveReceipt"])
    /\ UNCHANGED <<storeVars, githubVars, faultVars, work, now>>

SaveReceiptSkipped(p) ==                  \* mutant: no receipt artifact
    /\ proc[p].pc = "saveReceipt"
    /\ Set(p, Begin(proc[p], "RECEIPTED", "ready"))
    /\ UNCHANGED <<storeVars, githubVars, faultVars, ledgerVars, work, now>>

SaveReceipt(p) ==
    LET r == proc[p] IN
    /\ r.pc = "saveReceipt"
    /\ receipted' = receipted \union {r.case}
    /\ Set(p, Begin(r, "RECEIPTED", "ready"))
    /\ UNCHANGED <<caseState, moves, lease, planned, verification, draftPr,
                   githubVars, faultVars, ledgerVars, work, now>>

-----------------------------------------------------------------------------
(* publish_plan.  A failed request is a GitHubError: the run ends and the  *)
(* case stays PR_READY.  GitHub refuses (422) a ref that exists and a      *)
(* second open pull request for one branch.                                *)

StartPublishAnew(p) ==              \* mutant: a draft_pr is not looked up
    /\ proc[p].pc = "publish"
    /\ Set(p, [proc[p] EXCEPT !.pc = "ref", !.base = head])
    /\ UNCHANGED <<storeVars, githubVars, faultVars, ledgerVars, work, now>>

(* A persisted draft_pr artifact is enough; otherwise read the default     *)
(* branch head.                                                            *)
StartPublish(p) ==
    LET r == proc[p] IN
    /\ r.pc = "publish"
    /\ Set(p, IF draftPr[r.case] # NoCommit
              THEN Begin(r, "DRAFT_PR", "done")
              ELSE [r EXCEPT !.pc = "ref", !.base = head])
    /\ UNCHANGED <<storeVars, githubVars, faultVars, ledgerVars, work, now>>

(* "base SHA moved": asked only when the branch does not exist yet.        *)
BaseNeverMoves(r) == FALSE                        \* mutant: no drift check
BaseMoved(r) == r.case \notin Unpinned /\ r.base # CaseBase[r.case]

LookBranchStrict(p) ==           \* mutant: an existing branch is an error
    LET r == proc[p] IN
    /\ r.pc = "ref"
    /\ Set(p, IF branch[r.case] # NoCommit \/ BaseMoved(r) THEN Finished(r)
              ELSE [r EXCEPT !.pc = "commit"])
    /\ UNCHANGED <<storeVars, githubVars, faultVars, ledgerVars, work, now>>

LookBranch(p) ==
    LET r == proc[p] IN
    /\ r.pc = "ref"
    /\ Set(p, IF branch[r.case] # NoCommit THEN [r EXCEPT !.pc = "pulls"]
              ELSE IF BaseMoved(r) THEN Finished(r)
              ELSE [r EXCEPT !.pc = "commit"])
    /\ UNCHANGED <<storeVars, githubVars, faultVars, ledgerVars, work, now>>

(* Blob, tree and commit are invisible until POST git/refs.                *)
CreateBranch(p, answered) ==
    LET r == proc[p] IN
    /\ r.pc = "commit"
    /\ answered \/ outages < MaxOutages
    /\ branch' = [branch EXCEPT ![r.case] = IF @ = NoCommit THEN r.base ELSE @]
    /\ Set(p, IF answered /\ branch[r.case] = NoCommit
              THEN [r EXCEPT !.pc = "open"] ELSE Finished(r))
    /\ outages' = IF answered THEN outages ELSE outages + 1
    /\ UNCHANGED <<storeVars, head, pulls, pullOpen, crashes, ledgerVars,
                   work, now>>

(* The branch exists and matches the plan: look for its open pull request. *)
LookPulls(p) ==
    LET r == proc[p] IN
    /\ r.pc = "pulls"
    /\ Set(p, [r EXCEPT !.pc = IF r.case \in pullOpen THEN "record"
                               ELSE "open"])
    /\ UNCHANGED <<storeVars, githubVars, faultVars, ledgerVars, work, now>>

(* POST pulls.                                                             *)
OpenPull(p, answered) ==
    LET r == proc[p]
        opened == r.case \notin pullOpen IN
    /\ r.pc = "open"
    /\ answered \/ outages < MaxOutages
    /\ pulls' = [pulls EXCEPT ![r.case] = IF opened THEN @ + 1 ELSE @]
    /\ pullOpen' = pullOpen \union {r.case}
    /\ Set(p, IF answered /\ opened THEN [r EXCEPT !.pc = "record"]
              ELSE Finished(r))
    /\ outages' = IF answered THEN outages ELSE outages + 1
    /\ UNCHANGED <<storeVars, head, branch, crashes, ledgerVars, work, now>>

(* No token, or a request that fails without effect.                       *)
GitHubFails(p) ==
    LET r == proc[p] IN
    /\ r.pc \in {"publish", "ref", "commit", "pulls", "open"}
    /\ outages < MaxOutages
    /\ outages' = outages + 1
    /\ Set(p, Finished(r))
    /\ UNCHANGED <<storeVars, githubVars, crashes, ledgerVars, work, now>>

(* The draft_pr artifact, with the head read at the start of publish_plan. *)
RecordPull(p) ==
    LET r == proc[p] IN
    /\ r.pc = "record"
    /\ draftPr' = [draftPr EXCEPT ![r.case] = r.base]
    /\ Set(p, Begin(r, "DRAFT_PR", "done"))
    /\ UNCHANGED <<caseState, moves, lease, planned, verification, receipted,
                   githubVars, faultVars, ledgerVars, work, now>>

(* run_case's except clause: these states are left alone, any other        *)
(* becomes FAILED.                                                         *)
SpareTerminal == Terminal                  \* mutant: PR_READY is failed
SpareInFlight == Terminal \union InFlight  \* mutant: nothing in flight fails
LeftAlone == Terminal \union {"PR_READY"}

HandleException(p) ==
    LET r == proc[p] IN
    /\ r.pc = "except"
    /\ Set(p, IF caseState[r.case] \in LeftAlone
              THEN Finished(r)
              ELSE Begin([r EXCEPT !.mode = "handle"], "FAILED", "done"))
    /\ UNCHANGED <<storeVars, githubVars, faultVars, ledgerVars, work, now>>

-----------------------------------------------------------------------------
(* The world around the processes.                                         *)
Tick ==
    /\ now < MaxTime
    /\ now' = now + 1
    /\ UNCHANGED <<storeVars, githubVars, faultVars, ledgerVars, work, proc>>

Push ==
    /\ head < MaxHead
    /\ head' = head + 1
    /\ UNCHANGED <<storeVars, branch, pulls, pullOpen, faultVars, ledgerVars,
                   work, now, proc>>

(* A reviewer closes or merges the draft pull request.                     *)
ClosePull(c) ==
    /\ c \in pullOpen
    /\ pullOpen' = pullOpen \ {c}
    /\ UNCHANGED <<storeVars, head, branch, pulls, faultVars, ledgerVars, work,
                   now, proc>>

(* The steps a process takes by itself once it runs a command.             *)
Transition(p) == \/ GetCase(p) \/ ObserveMove(p) \/ CheckMove(p)
                 \/ UpdateMove(p) \/ ReloadCase(p)
RunStep(p) ==
    \/ Transition(p)
    \/ IngestLook(p) \/ UpsertCase(p) \/ RunNext(p) \/ Exit(p)
    \/ Deny(p) \/ SaveLease(p) \/ ResumeCase(p)
    \/ BuildPlan(p) \/ StartMaterialize(p) \/ FinishMaterialize(p)
    \/ MaterializeCollides(p) \/ Verify(p) \/ ObserveProof(p) \/ SaveReceipt(p)
    \/ StartPublish(p) \/ LookBranch(p) \/ LookPulls(p) \/ RecordPull(p)
    \/ \E answered \in BOOLEAN : CreateBranch(p, answered) \/ OpenPull(p, answered)
    \/ GitHubFails(p)
    \/ HandleException(p)

Command(p) ==
    \/ Scan(p)
    \/ \E publish \in PublishModes : RunQueue(p, publish) \/ RecoverInflight(p, publish)
    \/ \E c \in Cases, human \in BOOLEAN, publish \in PublishModes :
          RunCase(p, c, human, publish)

World == Tick \/ Push \/ (\E c \in Cases : ClosePull(c))

Next ==
    \/ \E p \in Procs : Start(p) \/ Crash(p) \/ Command(p) \/ RunStep(p)
    \/ World

Spec == Init /\ [][Next]_vars

(* Started work goes on until it ends or is killed, and the operator keeps *)
(* running "recover --publish", as RCP.md tells him to do after every      *)
(* interruption: started processes exit and new ones start, and a waiting  *)
(* one is eventually given the recovery command.                           *)
Fairness ==
    \A p \in Procs :
        /\ WF_vars(RunStep(p))
        /\ WF_vars(Start(p))
        /\ SF_vars(RecoverInflight(p, TRUE))

FairSpec == Spec /\ Fairness

-----------------------------------------------------------------------------
Pcs == {"off", "ready", "next", "findings", "exit", "upsert", "get",
        "observe", "check", "update", "reload", "authorise", "resume", "plan", "materialize", "writing",
        "verify", "receipt", "saveReceipt", "publish", "ref", "commit",
        "pulls", "open", "record", "except"}
Rets == {"claim", "patch", "plan", "verify", "receipt", "ready", "publish",
         "done"}
ProcRecord ==
    [pc : Pcs, case : Cases, mode : {"run", "scan", "handle"},
     seen : CaseStates \union {"ABSENT"}, from : CaseStates \union {"ABSENT"},
     to : CaseStates \union {"ABSENT"}, ret : Rets, human : BOOLEAN,
     publish : BOOLEAN, lease : Leases, base : Nat, todo : SUBSET Cases]
EventKeys ==
    [case : Cases, from : CaseStates \union {"ABSENT", "verification"},
     to : CaseStates \union {"ABSENT"}, lease : Leases]

StoreTypeOK ==
    /\ caseState \in [Cases -> CaseStates \union {"ABSENT"}]
    /\ moves \subseteq EventKeys
    /\ lease \in [Cases -> Leases]
    /\ planned \subseteq Cases
    /\ verification \in [Cases -> {"none", "passed", "failed"}]
    /\ receipted \subseteq Cases
    /\ draftPr \in [Cases -> Nat]
GitHubTypeOK ==
    /\ head \in Nat
    /\ branch \in [Cases -> Nat]
    /\ pulls \in [Cases -> Nat]
    /\ pullOpen \subseteq Cases

(* Every variable holds a value the program can hold; what the event file  *)
(* and the processes' copies of it contain are keys engine.py builds.      *)
TypeOK ==
    /\ LedgerTypeOK(EventKeys)
    /\ StoreTypeOK
    /\ GitHubTypeOK
    /\ work \in [Cases -> {"none", "partial", "full"}]
    /\ {now, crashes, outages} \subseteq Nat
    /\ proc \in [Procs -> ProcRecord]

-----------------------------------------------------------------------------
(* Safety that any number of concurrent processes keep.                    *)

Leased(c) == lease[c] # NoLease
OnGitHub(c) == branch[c] # NoCommit \/ pulls[c] > 0
Announced == {"RECEIPTED", "PR_READY", "DRAFT_PR"}
Witnessed(c) == \E k \in recorded : k.case = c /\ k.from = "verification"
Receipted(c) == c \in planned \intersect receipted /\ Witnessed(c)

(* policy.py:30: autonomous authorization stops at the ceiling.  Whatever  *)
(* commands race, crash and resume, a case that is in flight or has        *)
(* reached GitHub has a bounded repair and a lease, and above the ceiling  *)
(* that lease was issued to a human.                                       *)
AutonomyCeiling ==
    \A c \in Cases :
        caseState[c] \in InFlight \union {"DRAFT_PR"} \/ OnGitHub(c)
            => /\ Leased(c)
               /\ Repair[c] \notin {"none", "unbounded"}
               /\ Risk[c] > AutoMax => lease[c].human

(* RCP.md:12-28: the branch, the pull request and the states that announce *)
(* them come after the plan, the recorded Chronos proof and its receipt.   *)
ReceiptBeforePublish ==
    \A c \in Cases :
        OnGitHub(c) \/ caseState[c] \in Announced => Receipted(c)

(* engine.py:46: Chronos is written before the store, so the ledger has an *)
(* event for every state a case is ever stored in.                         *)
StatesWitnessed ==
    \A c \in Cases :
        caseState[c] \notin {"ABSENT", "DISCOVERED"}
            => \E k \in recorded : k.case = c /\ k.to = caseState[c]

(* The commit that reaches GitHub is a child of the commit the repair was  *)
(* planned and verified against.                                           *)
BranchRootedAtCaseBase ==
    \A c \in Cases \ Unpinned : branch[c] \in {NoCommit, CaseBase[c]}

(* What RCP promises of one case, as a specification of its own.           *)
Promise == INSTANCE RemediationPromise WITH
    authority <- [c \in Cases |-> IF ~Leased(c) THEN "none"
                                  ELSE IF lease[c].human THEN "human" ELSE "auto"],
    proven    <- receipted,
    published <- {c \in Cases : OnGitHub(c)}
KeepsPromise == Promise!Spec

(* The inductive invariant behind AutonomyCeiling, ReceiptBeforePublish    *)
(* and KeepsPromise: what a process can rely on, at each point of          *)
(* run_case, about the case it works on.                                   *)
TransitionPcs == {"get", "observe", "check", "update", "reload"}
PublishPcs == {"publish", "ref", "commit", "pulls", "open", "record"}
PlannedPcs == {"materialize", "writing", "verify", "receipt", "saveReceipt"}
                \union PublishPcs

Moving(r, tos, rets) ==
    r.pc \in TransitionPcs /\ (r.to \in tos \/ r.ret \in rets)

ProcSound(r) ==
    /\ \/ r.pc \in PlannedPcs \union {"plan"}
       \/ Moving(r, InFlight \union {"DRAFT_PR"}, Rets \ {"done"})
       => Leased(r.case)
    /\ \/ r.pc \in PlannedPcs
       \/ Moving(r, {}, {"verify", "receipt", "ready", "publish"})
       => r.case \in planned
    /\ r.pc = "saveReceipt" => Witnessed(r.case)
    /\ \/ r.pc \in PublishPcs
       \/ Moving(r, Announced, {"ready", "publish"})
       \/ r.seen \in Announced
       => Receipted(r.case)

CaseSound(c) ==
    /\ Leased(c) => /\ Repair[c] \notin {"none", "unbounded"}
                    /\ Risk[c] > AutoMax => lease[c].human
    /\ caseState[c] \in InFlight \union {"DRAFT_PR"} \/ OnGitHub(c) => Leased(c)
    /\ caseState[c] \in Announced \/ OnGitHub(c) => Receipted(c)

RCPInv ==
    /\ TypeOK
    /\ \A p \in Procs : ProcSound(proc[p]) /\ known[p] \subseteq recorded
    /\ \A c \in Cases : CaseSound(c)

-----------------------------------------------------------------------------
(* Safety of one process at a time.                                        *)

(* Every row of the transitions table has its own Chronos event, also      *)
(* after a crash between the two.                                          *)
MovesWitnessed == moves \subseteq recorded

(* RCP.md:109-133: a case goes one stage forward at a time or fails, and   *)
(* never leaves a terminal state.                                          *)
Lifecycle == INSTANCE CaseLifecycle
FollowsLifecycle == Lifecycle!Spec

(* What GitHub shows is never the repair of a case the queue calls failed, *)
(* although crashes, lost answers and expired leases hit in between.       *)
PublishedNeverFailed ==
    \A c \in Cases : OnGitHub(c) => caseState[c] \in {"PR_READY", "DRAFT_PR"}

(* Once a publication is recorded no further pull request is opened, even  *)
(* after a reviewer closed the first.                                      *)
NoPullAfterRecord ==
    [][\A c \in Cases : pulls'[c] > pulls[c] => draftPr[c] = NoCommit]_vars

(* RCP.md:133: "BLOCKED and FAILED are terminal" (two processes).          *)
TerminalIsFinal ==
    [][\A c \in Cases :
          caseState[c] \in {"BLOCKED", "FAILED"} => UNCHANGED caseState[c]]_vars

-----------------------------------------------------------------------------
(* Liveness, under Fairness.                                               *)

(* A case that was authorized does not stay in flight: it becomes ready,   *)
(* published or failed, whatever is killed and whenever its lease expires. *)
InFlightSettles ==
    \A c \in Cases :
        caseState[c] \in InFlight
            ~> caseState[c] \in {"PR_READY", "DRAFT_PR", "FAILED"}

(* A ready case is published, unless its lease expires or the default      *)
(* branch moves first.                                                     *)
ReadyPublishedInTime ==
    \A c \in Cases :
        caseState[c] = "PR_READY"
            ~> \/ caseState[c] = "DRAFT_PR"
               \/ ~LeaseValid(lease[c])
               \/ head # CaseBase[c]
=============================================================================
