----------------------------- MODULE RCP_proofs -----------------------------
(***************************************************************************)
(* Proofs about RCP for any number of processes and cases, and any value   *)
(* of the other constants.                                                 *)
(***************************************************************************)
EXTENDS RCP, Sequences, TLAPS

-----------------------------------------------------------------------------
(* The operators on process records return process records.                *)

LEMMA NoLeaseType == NoLease \in Leases
BY DEF NoLease, Leases

LEMMA NoCommitType == NoCommit \in Nat
BY RCPAssumption DEF RCPAssumption, NoCommit

LEMMA IdleType ==
    ASSUME NEW pc \in Pcs, NEW todo \in SUBSET Cases, NEW publish \in BOOLEAN
    PROVE  /\ Idle(pc, todo, publish) \in ProcRecord
           /\ Idle(pc, todo, publish).pc = pc
           /\ Idle(pc, todo, publish).ret = "done"
           /\ Idle(pc, todo, publish).seen = "ABSENT"
           /\ Idle(pc, todo, publish).to = "ABSENT"
           /\ Idle(pc, todo, publish).case = DefaultCase
<1>1. DefaultCase \in Cases
    BY RCPAssumption DEF RCPAssumption, DefaultCase
<1>2. QED
    BY <1>1, NoLeaseType, NoCommitType DEF Idle, ProcRecord, Rets

LEMMA BeginType ==
    ASSUME NEW r \in ProcRecord, NEW to \in CaseStates \union {"ABSENT"},
           NEW ret \in Rets
    PROVE  Begin(r, to, ret) \in ProcRecord
BY DEF Begin, ProcRecord, Pcs

LEMMA FinishedType ==
    ASSUME NEW r \in ProcRecord
    PROVE  Finished(r) \in ProcRecord
<1>1. r.todo \in SUBSET Cases /\ r.publish \in BOOLEAN
    BY DEF ProcRecord
<1>2. {"exit", "findings", "next"} \subseteq Pcs
    BY DEF Pcs
<1>3. QED
    BY <1>1, <1>2, IdleType DEF Finished

LEMMA RaisedType ==
    ASSUME NEW r \in ProcRecord
    PROVE  Raised(r) \in ProcRecord
<1>1. "exit" \in Pcs /\ "except" \in Pcs
    BY DEF Pcs
<1>2. Idle("exit", {}, FALSE) \in ProcRecord
    BY <1>1, IdleType
<1>3. [r EXCEPT !.pc = "except", !.ret = "done", !.base = NoCommit] \in ProcRecord
    BY <1>1, NoCommitType DEF ProcRecord, Rets
<1>4. QED
    BY <1>2, <1>3, FinishedType DEF Raised

(* Where run_case can go on.                                               *)
Places == {"claim", "patch", "plan", "verify", "receipt", "markReady",
           "publish", "done"}

LEMMA ContinueAtPlaces ==
    ASSUME NEW st, NEW publish, NEW ret \in Rets
    PROVE  ContinueAt(ret, st, publish) \in Places
BY DEF ContinueAt, AtClaim, AtPatch, AtReceipt, AtReady, AtPublish, Places, Rets

LEMMA GoToType ==
    ASSUME NEW r \in ProcRecord, NEW pc \in Places
    PROVE  GoTo(r, pc) \in ProcRecord
<1>1. CASE pc = "done"
    BY <1>1, FinishedType DEF GoTo
<1>2. CASE pc \in {"claim", "patch", "markReady"}
    <2>1. \A to \in {"CLAIMED", "PATCHING", "PR_READY"} :
            \A ret \in Rets : Begin(r, to, ret) \in ProcRecord
        BY BeginType DEF CaseStates, InFlight
    <2>2. QED
        BY <1>2, <2>1 DEF GoTo, Rets
<1>3. CASE pc \in {"plan", "verify", "receipt", "publish"}
    <2>1. [r EXCEPT !.pc = pc] \in ProcRecord
        BY <1>3 DEF ProcRecord, Pcs
    <2>2. QED
        BY <1>3, <2>1 DEF GoTo
<1>4. QED
    BY <1>1, <1>2, <1>3 DEF Places

LEMMA ReturnedType ==
    ASSUME NEW r \in ProcRecord, NEW st \in CaseStates \union {"ABSENT"}
    PROVE  Returned(r, st) \in ProcRecord
<1>1. r.ret \in Rets
    BY DEF ProcRecord
<1>2. [r EXCEPT !.seen = st, !.from = "ABSENT", !.to = "ABSENT",
                !.ret = "done"] \in ProcRecord
    BY DEF ProcRecord, Rets
<1>3. QED
    BY <1>1, <1>2, ContinueAtPlaces, GoToType DEF Returned

-----------------------------------------------------------------------------
(* Steps that change one process, or the ledger and one process.           *)

LEMMA SetType ==
    ASSUME TypeOK, NEW p \in Procs, NEW r \in ProcRecord, Set(p, r)
    PROVE  proc' \in [Procs -> ProcRecord]
BY DEF TypeOK, Set

LEMMA ProcStepType ==
    ASSUME TypeOK, NEW p \in Procs, NEW r \in ProcRecord, Set(p, r),
           UNCHANGED <<storeVars, githubVars, faultVars, ledgerVars, work, now>>
    PROVE  TypeOK'
<1>1. proc' \in [Procs -> ProcRecord]
    BY SetType
<1>2. QED
    BY <1>1 DEF TypeOK, StoreTypeOK, GitHubTypeOK, LedgerTypeOK, storeVars,
                githubVars, faultVars, ledgerVars

LEMMA LedgerStepType ==
    ASSUME NEW Keys, LedgerTypeOK(Keys), NEW p \in Procs,
           \/ OpenLedger(p)
           \/ CloseLedger(p)
           \/ \E k \in Keys : ObserveOnce(p, k)
    PROVE  LedgerTypeOK(Keys)'
<1>1. CASE OpenLedger(p)
    BY <1>1 DEF OpenLedger, LedgerTypeOK
<1>2. CASE CloseLedger(p)
    BY <1>2 DEF CloseLedger, LedgerTypeOK
<1>3. CASE \E k \in Keys : ObserveOnce(p, k)
    BY <1>3 DEF ObserveOnce, AppendKey, LedgerTypeOK, ledgerVars
<1>4. QED
    BY <1>1, <1>2, <1>3

-----------------------------------------------------------------------------
(* Type correctness.                                                       *)

LEMMA InitType == Init => TypeOK
<1> SUFFICES ASSUME Init PROVE TypeOK
    OBVIOUS
<1>1. LedgerTypeOK(EventKeys)
    BY DEF Init, LedgerInit, LedgerTypeOK
<1>2. Idle("off", {}, FALSE) \in ProcRecord
    <2>1. "off" \in Pcs
        BY DEF Pcs
    <2>2. QED
        BY <2>1, IdleType
<1>3. StoreTypeOK
    BY NoLeaseType, NoCommitType DEF Init, StoreTypeOK
<1>4. GitHubTypeOK
    BY NoCommitType DEF Init, GitHubTypeOK
<1>5. proc \in [Procs -> ProcRecord]
    BY <1>2 DEF Init
<1>6. /\ work \in [Cases -> {"none", "partial", "full"}]
      /\ {now, crashes, outages} \subseteq Nat
    BY DEF Init
<1>7. QED
    BY <1>1, <1>3, <1>4, <1>5, <1>6 DEF TypeOK

LEMMA IdleTypes ==
    /\ Idle("off", {}, FALSE) \in ProcRecord
    /\ Idle("ready", {}, FALSE) \in ProcRecord
    /\ \A todo \in SUBSET Cases : /\ Idle("findings", todo, FALSE) \in ProcRecord
                                 /\ Idle("upsert", todo, FALSE) \in ProcRecord
<1>1. {"off", "ready", "findings", "upsert"} \subseteq Pcs
    BY DEF Pcs
<1>2. QED
    BY <1>1, IdleType

LEMMA ProcTypes ==
    ASSUME TypeOK, NEW p \in Procs
    PROVE  /\ proc[p] \in ProcRecord
           /\ proc[p].case \in Cases
           /\ proc[p].todo \subseteq Cases
           /\ proc[p].to \in CaseStates \union {"ABSENT"}
           /\ proc[p].from \in CaseStates \union {"ABSENT"}
           /\ proc[p].seen \in CaseStates \union {"ABSENT"}
           /\ proc[p].lease \in Leases
           /\ proc[p].base \in Nat
           /\ proc[p].publish \in BOOLEAN
           /\ proc[p].human \in BOOLEAN
           /\ proc[p].ret \in Rets
           /\ caseState[proc[p].case] \in CaseStates \union {"ABSENT"}
           /\ lease[proc[p].case] \in Leases
<1>1. proc[p] \in ProcRecord
    BY DEF TypeOK
<1>2. QED
    BY <1>1 DEF ProcRecord, TypeOK, StoreTypeOK

LEMMA PcType ==
    ASSUME NEW r \in ProcRecord, NEW pc \in Pcs
    PROVE  [r EXCEPT !.pc = pc] \in ProcRecord
BY DEF ProcRecord

(* The states of the cases that the engine asks for.                       *)
LEMMA MoveTypes ==
    /\ {"TRIAGED", "AWAITING_APPROVAL", "AUTHORIZED", "VERIFYING", "PROVEN",
        "RECEIPTED", "DRAFT_PR", "FAILED", "DISCOVERED"} \subseteq CaseStates
    /\ {"done", "claim", "verify", "receipt", "ready"} \subseteq Rets
BY DEF CaseStates, InFlight, Terminal, Rets

LEMMA StartRunType ==
    ASSUME TypeOK, NEW p \in Procs, NEW c \in Cases, NEW human \in BOOLEAN,
           NEW publish \in BOOLEAN, StartRun(p, c, human, publish),
           UNCHANGED <<storeVars, githubVars, faultVars, ledgerVars, work, now>>
    PROVE  TypeOK'
<1> DEFINE r == [Idle("ready", proc[p].todo \ {c}, publish) EXCEPT
                   !.case = c, !.seen = caseState[c], !.human = human]
<1>1. r \in ProcRecord
    <2>1. "ready" \in Pcs /\ proc[p].todo \ {c} \in SUBSET Cases
        BY ProcTypes DEF Pcs
    <2>2. Idle("ready", proc[p].todo \ {c}, publish) \in ProcRecord
        BY <2>1, IdleType
    <2>3. caseState[c] \in CaseStates \union {"ABSENT"}
        BY DEF TypeOK, StoreTypeOK
    <2>4. QED
        BY <2>2, <2>3 DEF ProcRecord
<1>2. /\ Finished(r) \in ProcRecord
      /\ [r EXCEPT !.pc = "authorise"] \in ProcRecord
      /\ [r EXCEPT !.pc = "resume"] \in ProcRecord
    BY <1>1, FinishedType, PcType DEF Pcs
<1>3. PICK q \in ProcRecord : Set(p, q)
    BY <1>2 DEF StartRun
<1>4. QED
    BY <1>3, ProcStepType

LEMMA PublishType == PublishModes \subseteq BOOLEAN
BY RCPAssumption DEF RCPAssumption

LEMMA TypeStep == TypeOK /\ [Next]_vars => TypeOK'
<1> SUFFICES ASSUME TypeOK, [Next]_vars PROVE TypeOK'
    OBVIOUS
<1> USE DEF Pcs
<1>1. ASSUME NEW p \in Procs, Start(p) PROVE TypeOK'
    <2>1. LedgerTypeOK(EventKeys)'
        BY <1>1, LedgerStepType DEF Start, TypeOK
    <2>2. proc' \in [Procs -> ProcRecord]
        BY <1>1, IdleTypes, ProcTypes, SetType DEF Start
    <2>3. QED
        BY <1>1, <2>1, <2>2 DEF Start, TypeOK, StoreTypeOK, GitHubTypeOK,
                               storeVars, githubVars, faultVars
<1>2. ASSUME NEW p \in Procs, Exit(p) PROVE TypeOK'
    <2>1. LedgerTypeOK(EventKeys)'
        BY <1>2, LedgerStepType DEF Exit, TypeOK
    <2>2. proc' \in [Procs -> ProcRecord]
        BY <1>2, IdleTypes, ProcTypes, SetType DEF Exit
    <2>3. QED
        BY <1>2, <2>1, <2>2 DEF Exit, TypeOK, StoreTypeOK, GitHubTypeOK,
                               storeVars, githubVars, faultVars
<1>3. ASSUME NEW p \in Procs, Crash(p) PROVE TypeOK'
    <2>1. LedgerTypeOK(EventKeys)'
        BY <1>3, LedgerStepType DEF Crash, TypeOK
    <2>2. proc' \in [Procs -> ProcRecord]
        BY <1>3, IdleTypes, ProcTypes, SetType DEF Crash
    <2>3. QED
        BY <1>3, <2>1, <2>2 DEF Crash, TypeOK, StoreTypeOK, GitHubTypeOK,
                               storeVars, githubVars, faultVars
<1>4. ASSUME NEW p \in Procs, GetCase(p) PROVE TypeOK'
    <2>1. /\ Returned(proc[p], proc[p].to) \in ProcRecord
          /\ [proc[p] EXCEPT !.pc = "observe", !.from = caseState[proc[p].case]]
                \in ProcRecord
        <3>1. Returned(proc[p], proc[p].to) \in ProcRecord
            BY ProcTypes, ReturnedType
        <3>2. QED
            BY <3>1, ProcTypes DEF ProcRecord
    <2>2. PICK r \in ProcRecord : Set(p, r)
        BY <1>4, <2>1 DEF GetCase
    <2>3. QED
        BY <1>4, <2>2, ProcStepType DEF GetCase
<1>5. ASSUME NEW p \in Procs, ObserveMove(p) PROVE TypeOK'
    <2>1. MoveKey(proc[p].case, proc[p].from, proc[p].to) \in EventKeys
        BY ProcTypes, NoLeaseType DEF MoveKey, EventKeys
    <2>2. LedgerTypeOK(EventKeys)'
        BY <1>5, <2>1, LedgerStepType DEF ObserveMove, TypeOK
    <2>3. proc' \in [Procs -> ProcRecord]
        BY <1>5, ProcTypes, PcType, SetType DEF ObserveMove
    <2>4. QED
        BY <1>5, <2>2, <2>3 DEF ObserveMove, TypeOK, StoreTypeOK, GitHubTypeOK,
                               storeVars, githubVars, faultVars
<1>6. ASSUME NEW p \in Procs, CheckMove(p) PROVE TypeOK'
    <2>1. /\ Returned(proc[p], caseState[proc[p].case]) \in ProcRecord
          /\ Raised(proc[p]) \in ProcRecord
          /\ [proc[p] EXCEPT !.pc = "update", !.from = caseState[proc[p].case]]
                \in ProcRecord
        <3>1. Returned(proc[p], caseState[proc[p].case]) \in ProcRecord
            BY ProcTypes, ReturnedType
        <3>2. Raised(proc[p]) \in ProcRecord
            BY ProcTypes, RaisedType
        <3>3. QED
            BY <3>1, <3>2, ProcTypes DEF ProcRecord
    <2>2. PICK r \in ProcRecord : Set(p, r)
        BY <1>6, <2>1 DEF CheckMove
    <2>3. QED
        BY <1>6, <2>2, ProcStepType DEF CheckMove
<1>7. ASSUME NEW p \in Procs, UpdateMove(p) PROVE TypeOK'
    <2>1. proc' \in [Procs -> ProcRecord]
        BY <1>7, ProcTypes, PcType, SetType DEF UpdateMove
    <2>2. MoveKey(proc[p].case, proc[p].from, proc[p].to) \in EventKeys
        BY ProcTypes, NoLeaseType DEF MoveKey, EventKeys
    <2>3. /\ caseState' \in [Cases -> CaseStates \union {"ABSENT"}]
          /\ moves' \subseteq EventKeys
        BY <1>7, <2>2, ProcTypes DEF UpdateMove, TypeOK, StoreTypeOK
    <2>4. QED
        BY <1>7, <2>1, <2>3 DEF UpdateMove, TypeOK, StoreTypeOK, GitHubTypeOK,
           LedgerTypeOK, githubVars, faultVars, ledgerVars
<1>8. ASSUME NEW p \in Procs, ReloadCase(p) PROVE TypeOK'
    <2>1. PICK r \in ProcRecord : Set(p, r)
        BY <1>8, ProcTypes, ReturnedType DEF ReloadCase
    <2>2. QED
        BY <1>8, <2>1, ProcStepType DEF ReloadCase
<1>9. ASSUME NEW p \in Procs, Scan(p) PROVE TypeOK'
    <2>1. {c \in Cases : CaseBase[c] = head} \in SUBSET Cases
        OBVIOUS
    <2>2. PICK r \in ProcRecord : Set(p, r)
        BY <1>9, <2>1, IdleTypes DEF Scan
    <2>3. QED
        BY <1>9, <2>2, ProcStepType DEF Scan
<1>10. ASSUME NEW p \in Procs, IngestLook(p) PROVE TypeOK'
    <2>1. PICK c \in proc[p].todo :
              Set(p, [Idle("upsert", proc[p].todo \ {c}, FALSE) EXCEPT
                        !.case = c, !.mode = "scan", !.seen = caseState[c]])
        BY <1>10 DEF IngestLook
    <2>2. c \in Cases /\ proc[p].todo \ {c} \in SUBSET Cases
        BY ProcTypes
    <2>3. Idle("upsert", proc[p].todo \ {c}, FALSE) \in ProcRecord
        BY <2>2, IdleTypes
    <2>4. [Idle("upsert", proc[p].todo \ {c}, FALSE) EXCEPT
             !.case = c, !.mode = "scan", !.seen = caseState[c]] \in ProcRecord
        BY <2>2, <2>3 DEF ProcRecord, TypeOK, StoreTypeOK
    <2>5. QED
        BY <1>10, <2>1, <2>4, ProcStepType DEF IngestLook
<1>11. ASSUME NEW p \in Procs, UpsertCase(p) PROVE TypeOK'
    <2>1. /\ Begin(proc[p], "TRIAGED", "done") \in ProcRecord
          /\ Finished(proc[p]) \in ProcRecord
        BY ProcTypes, MoveTypes, BeginType, FinishedType
    <2>2. proc' \in [Procs -> ProcRecord]
        BY <1>11, <2>1, SetType DEF UpsertCase
    <2>3. caseState' \in [Cases -> CaseStates \union {"ABSENT"}]
        BY <1>11, MoveTypes DEF UpsertCase, Upserted, TypeOK, StoreTypeOK
    <2>4. QED
        BY <1>11, <2>2, <2>3 DEF UpsertCase, TypeOK, StoreTypeOK, GitHubTypeOK,
           LedgerTypeOK, githubVars, faultVars, ledgerVars
<1>12. ASSUME NEW p \in Procs, NEW publish \in BOOLEAN, RunQueue(p, publish) PROVE TypeOK'
    <2>1. PICK S \in SUBSET Cases : Set(p, Idle("next", S, publish))
        BY <1>12 DEF RunQueue, Candidates
    <2>2. Idle("next", S, publish) \in ProcRecord
        BY <2>1, IdleType
    <2>3. QED
        BY <1>12, <2>1, <2>2, ProcStepType DEF RunQueue
<1>13. ASSUME NEW p \in Procs, NEW publish \in BOOLEAN, RecoverInflight(p, publish) PROVE TypeOK'
    <2>1. PICK S \in SUBSET Cases : Set(p, Idle("next", S, publish))
        BY <1>13 DEF RecoverInflight
    <2>2. Idle("next", S, publish) \in ProcRecord
        BY <2>1, IdleType
    <2>3. QED
        BY <1>13, <2>1, <2>2, ProcStepType DEF RecoverInflight
<1>14. ASSUME NEW p \in Procs, RunNext(p) PROVE TypeOK'
    <2>1. PICK c \in proc[p].todo : StartRun(p, c, FALSE, proc[p].publish)
        BY <1>14 DEF RunNext
    <2>2. c \in Cases
        BY ProcTypes
    <2>3. QED
        BY <1>14, <2>1, <2>2, ProcTypes, StartRunType DEF RunNext
<1>15. ASSUME NEW p \in Procs, NEW c \in Cases, NEW human \in BOOLEAN, NEW publish \in BOOLEAN,
             RunCase(p, c, human, publish) PROVE TypeOK'
    BY <1>15, StartRunType DEF RunCase
<1>16. ASSUME NEW p \in Procs, Deny(p) PROVE TypeOK'
    <2>1. PICK r \in ProcRecord : Set(p, r)
        BY <1>16, ProcTypes, MoveTypes, BeginType, FinishedType DEF Deny
    <2>2. QED
        BY <1>16, <2>1, ProcStepType DEF Deny
<1>17. ASSUME NEW p \in Procs, SaveLease(p) PROVE TypeOK'
    <2> DEFINE l == [expires |-> now + LeaseTerm, human |-> proc[p].human]
    <2>1. l \in Leases
        BY ProcTypes, RCPAssumption DEF Leases, TypeOK, RCPAssumption
    <2>2. [proc[p] EXCEPT !.lease = l] \in ProcRecord
        BY <2>1, ProcTypes DEF ProcRecord
    <2>3. Begin([proc[p] EXCEPT !.lease = l], "AUTHORIZED", "claim") \in ProcRecord
        BY <2>2, MoveTypes, BeginType
    <2>4. proc' \in [Procs -> ProcRecord]
        BY <1>17, <2>3, SetType DEF SaveLease
    <2>5. lease' \in [Cases -> Leases]
        BY <1>17, <2>1 DEF SaveLease, TypeOK, StoreTypeOK
    <2>6. QED
        BY <1>17, <2>4, <2>5 DEF SaveLease, TypeOK, StoreTypeOK, GitHubTypeOK,
           LedgerTypeOK, githubVars, faultVars, ledgerVars
<1>18. ASSUME NEW p \in Procs, ResumeCase(p) PROVE TypeOK'
    <2>1. [proc[p] EXCEPT !.lease = lease[proc[p].case]] \in ProcRecord
        BY ProcTypes DEF ProcRecord
    <2>2. AtClaim(proc[p].seen) \in Places
        BY DEF AtClaim, AtPatch, Places
    <2>3. PICK r \in ProcRecord : Set(p, r)
        BY <1>18, <2>1, <2>2, ProcTypes, GoToType, RaisedType DEF ResumeCase
    <2>4. QED
        BY <1>18, <2>3, ProcStepType DEF ResumeCase
<1>19. ASSUME NEW p \in Procs, BuildPlan(p) PROVE TypeOK'
    <2>1. proc' \in [Procs -> ProcRecord]
        BY <1>19, ProcTypes, PcType, RaisedType, SetType DEF BuildPlan
    <2>2. planned' \subseteq Cases
        BY <1>19, ProcTypes DEF BuildPlan, TypeOK, StoreTypeOK
    <2>3. QED
        BY <1>19, <2>1, <2>2 DEF BuildPlan, TypeOK, StoreTypeOK, GitHubTypeOK, LedgerTypeOK,
           storeVars, githubVars, faultVars, ledgerVars
<1>20. ASSUME NEW p \in Procs, StartMaterialize(p) PROVE TypeOK'
    <2>1. proc' \in [Procs -> ProcRecord]
        BY <1>20, ProcTypes, PcType, RaisedType, SetType DEF StartMaterialize
    <2>2. work' \in [Cases -> {"none", "partial", "full"}]
        BY <1>20, ProcTypes DEF StartMaterialize, TypeOK
    <2>3. QED
        BY <1>20, <2>1, <2>2 DEF StartMaterialize, TypeOK, StoreTypeOK, GitHubTypeOK, LedgerTypeOK,
           storeVars, githubVars, faultVars, ledgerVars
<1>21. ASSUME NEW p \in Procs, FinishMaterialize(p) PROVE TypeOK'
    <2>1. /\ Begin(proc[p], "VERIFYING", "verify") \in ProcRecord
          /\ [proc[p] EXCEPT !.pc = "verify"] \in ProcRecord
          /\ Raised(proc[p]) \in ProcRecord
        BY ProcTypes, MoveTypes, BeginType, PcType, RaisedType
    <2>2. proc' \in [Procs -> ProcRecord]
        BY <1>21, <2>1, SetType DEF FinishMaterialize
    <2>3. work' \in [Cases -> {"none", "partial", "full"}]
        BY <1>21, ProcTypes DEF FinishMaterialize, TypeOK
    <2>4. QED
        BY <1>21, <2>2, <2>3 DEF FinishMaterialize, TypeOK, StoreTypeOK, GitHubTypeOK, LedgerTypeOK,
           storeVars, githubVars, faultVars, ledgerVars
<1>22. ASSUME NEW p \in Procs, MaterializeCollides(p) PROVE TypeOK'
    <2>1. PICK r \in ProcRecord : Set(p, r)
        BY <1>22, ProcTypes, RaisedType DEF MaterializeCollides
    <2>2. QED
        BY <1>22, <2>1, ProcStepType DEF MaterializeCollides
<1>23. ASSUME NEW p \in Procs, Verify(p) PROVE TypeOK'
    <2>1. AtReceipt(proc[p].seen, proc[p].publish) \in Places
        BY DEF AtReceipt, AtReady, AtPublish, Places
    <2>2. /\ Begin(proc[p], "PROVEN", "receipt") \in ProcRecord
          /\ Begin(proc[p], "FAILED", "done") \in ProcRecord
          /\ GoTo(proc[p], AtReceipt(proc[p].seen, proc[p].publish)) \in ProcRecord
          /\ Raised(proc[p]) \in ProcRecord
        BY <2>1, ProcTypes, MoveTypes, BeginType, GoToType, RaisedType
    <2>3. proc' \in [Procs -> ProcRecord]
        BY <1>23, <2>2, SetType DEF Verify
    <2>4. verification' \in [Cases -> {"none", "passed", "failed"}]
        BY <1>23, ProcTypes DEF Verify, TypeOK, StoreTypeOK
    <2>5. QED
        BY <1>23, <2>3, <2>4 DEF Verify, TypeOK, StoreTypeOK, GitHubTypeOK, LedgerTypeOK,
           storeVars, githubVars, faultVars, ledgerVars
<1>24. ASSUME NEW p \in Procs, ObserveProof(p) PROVE TypeOK'
    <2>1. ProofKey(proc[p].case, proc[p].lease) \in EventKeys
        BY ProcTypes, MoveTypes DEF ProofKey, EventKeys
    <2>2. LedgerTypeOK(EventKeys)'
        BY <1>24, <2>1, LedgerStepType DEF ObserveProof, TypeOK
    <2>3. proc' \in [Procs -> ProcRecord]
        BY <1>24, ProcTypes, PcType, SetType DEF ObserveProof
    <2>4. QED
        BY <1>24, <2>2, <2>3 DEF ObserveProof, TypeOK, StoreTypeOK, GitHubTypeOK,
                               storeVars, githubVars, faultVars
<1>25. ASSUME NEW p \in Procs, SaveReceipt(p) PROVE TypeOK'
    <2>1. proc' \in [Procs -> ProcRecord]
        BY <1>25, ProcTypes, MoveTypes, BeginType, SetType DEF SaveReceipt
    <2>2. receipted' \subseteq Cases
        BY <1>25, ProcTypes DEF SaveReceipt, TypeOK, StoreTypeOK
    <2>3. QED
        BY <1>25, <2>1, <2>2 DEF SaveReceipt, TypeOK, StoreTypeOK, GitHubTypeOK, LedgerTypeOK,
           storeVars, githubVars, faultVars, ledgerVars
<1>26. ASSUME NEW p \in Procs, StartPublish(p) PROVE TypeOK'
    <2>1. /\ Begin(proc[p], "DRAFT_PR", "done") \in ProcRecord
          /\ [proc[p] EXCEPT !.pc = "ref", !.base = head] \in ProcRecord
        <3>1. Begin(proc[p], "DRAFT_PR", "done") \in ProcRecord
            BY ProcTypes, MoveTypes, BeginType
        <3>2. QED
            BY <3>1, ProcTypes DEF ProcRecord, TypeOK, GitHubTypeOK
    <2>2. PICK r \in ProcRecord : Set(p, r)
        BY <1>26, <2>1 DEF StartPublish
    <2>3. QED
        BY <1>26, <2>2, ProcStepType DEF StartPublish
<1>27. ASSUME NEW p \in Procs, LookBranch(p) PROVE TypeOK'
    <2>1. PICK r \in ProcRecord : Set(p, r)
        BY <1>27, ProcTypes, PcType, FinishedType DEF LookBranch
    <2>2. QED
        BY <1>27, <2>1, ProcStepType DEF LookBranch
<1>28. ASSUME NEW p \in Procs, LookPulls(p) PROVE TypeOK'
    <2>1. PICK r \in ProcRecord : Set(p, r)
        BY <1>28, ProcTypes, PcType DEF LookPulls
    <2>2. QED
        BY <1>28, <2>1, ProcStepType DEF LookPulls
<1>29. ASSUME NEW p \in Procs, RecordPull(p) PROVE TypeOK'
    <2>1. proc' \in [Procs -> ProcRecord]
        BY <1>29, ProcTypes, MoveTypes, BeginType, SetType DEF RecordPull
    <2>2. draftPr' \in [Cases -> Nat]
        BY <1>29, ProcTypes DEF RecordPull, TypeOK, StoreTypeOK
    <2>3. QED
        BY <1>29, <2>1, <2>2 DEF RecordPull, TypeOK, StoreTypeOK, GitHubTypeOK, LedgerTypeOK,
           storeVars, githubVars, faultVars, ledgerVars
<1>30. ASSUME NEW p \in Procs, NEW answered \in BOOLEAN, CreateBranch(p, answered) PROVE TypeOK'
    <2>1. proc' \in [Procs -> ProcRecord]
        BY <1>30, ProcTypes, PcType, FinishedType, SetType DEF CreateBranch
    <2>2. branch' \in [Cases -> Nat] /\ outages' \in Nat
        BY <1>30, ProcTypes DEF CreateBranch, TypeOK, GitHubTypeOK
    <2>3. QED
        BY <1>30, <2>1, <2>2 DEF CreateBranch, TypeOK, StoreTypeOK, GitHubTypeOK, LedgerTypeOK,
           storeVars, githubVars, faultVars, ledgerVars
<1>31. ASSUME NEW p \in Procs, NEW answered \in BOOLEAN, OpenPull(p, answered) PROVE TypeOK'
    <2>1. proc' \in [Procs -> ProcRecord]
        BY <1>31, ProcTypes, PcType, FinishedType, SetType DEF OpenPull
    <2>2. /\ pulls' \in [Cases -> Nat]
          /\ pullOpen' \subseteq Cases
          /\ outages' \in Nat
        BY <1>31, ProcTypes DEF OpenPull, TypeOK, GitHubTypeOK
    <2>3. QED
        BY <1>31, <2>1, <2>2 DEF OpenPull, TypeOK, StoreTypeOK, GitHubTypeOK, LedgerTypeOK,
           storeVars, githubVars, faultVars, ledgerVars
<1>32. ASSUME NEW p \in Procs, GitHubFails(p) PROVE TypeOK'
    <2>1. proc' \in [Procs -> ProcRecord]
        BY <1>32, ProcTypes, FinishedType, SetType DEF GitHubFails
    <2>2. outages' \in Nat
        BY <1>32 DEF GitHubFails, TypeOK
    <2>3. QED
        BY <1>32, <2>1, <2>2 DEF GitHubFails, TypeOK, StoreTypeOK, GitHubTypeOK, LedgerTypeOK,
           storeVars, githubVars, faultVars, ledgerVars
<1>33. ASSUME NEW p \in Procs, HandleException(p) PROVE TypeOK'
    <2>1. [proc[p] EXCEPT !.mode = "handle"] \in ProcRecord
        BY ProcTypes DEF ProcRecord
    <2>2. PICK r \in ProcRecord : Set(p, r)
        BY <1>33, <2>1, ProcTypes, MoveTypes, FinishedType, BeginType
           DEF HandleException
    <2>3. QED
        BY <1>33, <2>2, ProcStepType DEF HandleException
<1>34. ASSUME World PROVE TypeOK'
    BY <1>34 DEF World, Tick, Push, ClosePull, TypeOK, StoreTypeOK, GitHubTypeOK,
       LedgerTypeOK, storeVars, faultVars, githubVars, ledgerVars
<1>35. ASSUME UNCHANGED vars PROVE TypeOK'
    BY <1>35 DEF vars, TypeOK, StoreTypeOK, GitHubTypeOK, LedgerTypeOK, storeVars,
       faultVars, githubVars, ledgerVars
<1>36. QED
    BY PublishType, <1>1, <1>2, <1>3, <1>4, <1>5, <1>6, <1>7, <1>8,
       <1>9, <1>10, <1>11, <1>12, <1>13, <1>14, <1>15, <1>16, <1>17,
       <1>18, <1>19, <1>20, <1>21, <1>22, <1>23, <1>24, <1>25, <1>26,
       <1>27, <1>28, <1>29, <1>30, <1>31, <1>32, <1>33, <1>34, <1>35
       DEF Next, RunStep, Transition, Command

(* Every variable of RCP always holds a value of its kind.                 *)
THEOREM TypeCorrect == Spec => []TypeOK
BY InitType, TypeStep, PTL DEF Spec

-----------------------------------------------------------------------------
(* RCPInv is an inductive invariant of RCP, for any number of processes;   *)
(* AutonomyCeiling, ReceiptBeforePublish and KeepsPromise follow from it.  *)

(* A process that is between cases or commands, or waits to authorise,     *)
(* resume or handle, asks nothing of the case beyond what it has seen.     *)
LEMMA QuietSound ==
    ASSUME NEW r \in ProcRecord,
           r.pc \in {"off", "ready", "next", "findings", "exit", "upsert",
                     "authorise", "resume", "except"},
           r.seen \in Announced => Receipted(r.case)
    PROVE  ProcSound(r)
BY DEF ProcSound, Moving, TransitionPcs, PublishPcs, PlannedPcs

LEMMA IdleFields ==
    ASSUME NEW pc, NEW todo, NEW publish
    PROVE  /\ Idle(pc, todo, publish).pc = pc
           /\ Idle(pc, todo, publish).seen = "ABSENT"
BY DEF Idle

LEMMA IdleSound ==
    ASSUME NEW pc \in {"off", "ready", "next", "findings", "exit"},
           NEW todo \in SUBSET Cases, NEW publish \in BOOLEAN
    PROVE  /\ Idle(pc, todo, publish) \in ProcRecord
           /\ ProcSound(Idle(pc, todo, publish))
<1>1. pc \in Pcs
    BY DEF Pcs
<1>2. Idle(pc, todo, publish).seen \notin Announced
    BY IdleFields DEF Announced
<1>3. QED
    BY <1>1, <1>2, IdleFields, IdleType, QuietSound

LEMMA FinishedSound ==
    ASSUME NEW r \in ProcRecord
    PROVE  ProcSound(Finished(r))
<1>1. r.todo \in SUBSET Cases /\ r.publish \in BOOLEAN
    BY DEF ProcRecord
<1>2. QED
    BY <1>1, IdleSound DEF Finished

(* A process that gets values of the right types keeps its type.           *)
LEMMA EditFrom ==
    ASSUME NEW r \in ProcRecord, NEW pc \in Pcs,
           NEW st \in CaseStates \union {"ABSENT"}
    PROVE  [r EXCEPT !.pc = pc, !.from = st] \in ProcRecord
BY DEF ProcRecord

LEMMA EditBase ==
    ASSUME NEW r \in ProcRecord, NEW pc \in Pcs, NEW base \in Nat
    PROVE  [r EXCEPT !.pc = pc, !.base = base] \in ProcRecord
BY DEF ProcRecord

LEMMA EditExcept ==
    ASSUME NEW r \in ProcRecord, NEW pc \in Pcs, NEW base \in Nat
    PROVE  [r EXCEPT !.pc = pc, !.ret = "done", !.base = base] \in ProcRecord
BY DEF ProcRecord, Rets

LEMMA EditFinding ==
    ASSUME NEW r \in ProcRecord, NEW c \in Cases,
           NEW st \in CaseStates \union {"ABSENT"}
    PROVE  [r EXCEPT !.case = c, !.mode = "scan", !.seen = st] \in ProcRecord
BY DEF ProcRecord

LEMMA RaisedSound ==
    ASSUME NEW r \in ProcRecord, ProcSound(r)
    PROVE  ProcSound(Raised(r))
<1>1. ProcSound(Finished(r))
    BY FinishedSound
<1>6. ProcSound(Idle("exit", {}, FALSE))
    <2>1. {} \in SUBSET Cases /\ FALSE \in BOOLEAN
        OBVIOUS
    <2>2. QED
        BY <2>1, IdleSound
<1> DEFINE q == [r EXCEPT !.pc = "except", !.ret = "done", !.base = NoCommit]
<1>2. q \in ProcRecord /\ q.pc = "except" /\ q.seen = r.seen /\ q.case = r.case
    <2>1. "except" \in Pcs /\ NoCommit \in Nat
        BY NoCommitType DEF Pcs
    <2>2. q \in ProcRecord
        BY <2>1, EditExcept
    <2>3. q.pc = "except" /\ q.seen = r.seen /\ q.case = r.case
        BY DEF ProcRecord
    <2>4. QED
        BY <2>2, <2>3
<1> HIDE DEF q
<1>3. r.seen \in Announced => Receipted(r.case)
    BY DEF ProcSound
<1>4. ProcSound(q)
    BY <1>2, <1>3, QuietSound
<1>5. QED
    BY <1>1, <1>4, <1>6 DEF q, Raised

LEMMA BeginSound ==
    ASSUME NEW r \in ProcRecord, r.seen \in Announced => Receipted(r.case),
           NEW to \in CaseStates, NEW ret \in Rets,
           to \in InFlight \union {"DRAFT_PR"} \/ ret # "done" => Leased(r.case),
           ret \in {"verify", "receipt", "ready", "publish"} => r.case \in planned,
           to \in Announced \/ ret \in {"ready", "publish"} => Receipted(r.case)
    PROVE  ProcSound(Begin(r, to, ret))
<1> DEFINE q == Begin(r, to, ret)
<1>1. /\ q.pc = "get" /\ q.to = to /\ q.ret = ret
      /\ q.seen = r.seen /\ q.case = r.case
    BY DEF Begin, ProcRecord
<1>2. "get" \in TransitionPcs /\ "get" \notin PlannedPcs \union {"plan", "saveReceipt"}
    BY DEF TransitionPcs, PlannedPcs, PublishPcs
<1>3. QED
    BY <1>1, <1>2 DEF ProcSound, Moving, PlannedPcs

LEMMA GoToSound ==
    ASSUME NEW r \in ProcRecord, r.seen \in Announced => Receipted(r.case),
           NEW pc \in Places, pc # "done" => Leased(r.case),
           pc \in {"verify", "receipt", "publish", "markReady"} => r.case \in planned,
           pc \in {"publish", "markReady"} => Receipted(r.case)
    PROVE  ProcSound(GoTo(r, pc))
<1>1. CASE pc = "done"
    BY <1>1, FinishedSound DEF GoTo
<1>2. CASE pc \in {"claim", "patch"}
    <2>1. /\ ProcSound(Begin(r, "CLAIMED", "patch"))
          /\ ProcSound(Begin(r, "PATCHING", "plan"))
        BY <1>2, BeginSound DEF CaseStates, InFlight, Rets, Announced
    <2>2. QED
        BY <1>2, <2>1 DEF GoTo
<1>3. CASE pc = "markReady"
    <2>1. ProcSound(Begin(r, "PR_READY", "publish"))
        BY <1>3, BeginSound DEF CaseStates, InFlight, Rets
    <2>2. QED
        BY <1>3, <2>1 DEF GoTo
<1>4. CASE pc \in {"plan", "verify", "receipt", "publish"}
    <2> DEFINE q == [r EXCEPT !.pc = pc]
    <2>1. q.pc = pc /\ q.seen = r.seen /\ q.case = r.case
        BY DEF ProcRecord
    <2>2. pc \notin TransitionPcs
        BY <1>4 DEF TransitionPcs
    <2>3. ProcSound(q)
        BY <1>4, <2>1, <2>2 DEF ProcSound, Moving, PlannedPcs, PublishPcs
    <2>4. QED
        BY <1>4, <2>3 DEF GoTo
<1>5. QED
    BY <1>1, <1>2, <1>3, <1>4 DEF Places

LEMMA ReturnedSound ==
    ASSUME NEW r \in ProcRecord, ProcSound(r), r.pc \in TransitionPcs,
           NEW st \in CaseStates \union {"ABSENT"},
           st \in Announced => Receipted(r.case)
    PROVE  ProcSound(Returned(r, st))
<1> DEFINE q == [r EXCEPT !.seen = st, !.from = "ABSENT", !.to = "ABSENT",
                          !.ret = "done"]
           pc == ContinueAt(r.ret, st, r.publish)
<1>1. r.ret \in Rets
    BY DEF ProcRecord
<1>2. q \in ProcRecord /\ q.seen = st /\ q.case = r.case
    BY DEF ProcRecord, Rets
<1>3. pc \in Places
    BY <1>1, ContinueAtPlaces
<1>4. pc # "done" => Leased(r.case)
    BY <1>1 DEF ContinueAt, ProcSound, Moving
<1>5. ASSUME pc \in {"verify", "receipt", "publish", "markReady"}
      PROVE  r.case \in planned
    <2>1. r.ret \in {"verify", "receipt", "ready", "publish"}
        BY <1>1, <1>5 DEF ContinueAt, AtClaim, AtPatch, Rets
    <2>2. QED
        BY <2>1 DEF ProcSound, Moving
<1>6. ASSUME pc \in {"publish", "markReady"}
      PROVE  Receipted(r.case)
    <2>1. r.ret \in {"ready", "publish"} \/ st \in Announced
        BY <1>1, <1>6 DEF ContinueAt, AtClaim, AtPatch, AtReceipt, AtReady,
                          AtPublish, Rets, Announced
    <2>2. QED
        BY <2>1 DEF ProcSound, Moving
<1>7. ProcSound(GoTo(q, pc))
    BY <1>2, <1>3, <1>4, <1>5, <1>6, GoToSound
<1>8. QED
    BY <1>7 DEF Returned

-----------------------------------------------------------------------------
(* Steps.                                                                  *)

(* What the invariant speaks of, besides the processes.                    *)
soundVars == <<caseState, lease, planned, receipted, branch, pulls, recorded,
               known>>

LEMMA StepSound ==
    ASSUME RCPInv, TypeOK', NEW p \in Procs, NEW r \in ProcRecord, Set(p, r),
           planned \subseteq planned', receipted \subseteq receipted',
           recorded \subseteq recorded',
           \A c \in Cases : Leased(c) => Leased(c)',
           \A q \in Procs : known'[q] \subseteq recorded',
           ProcSound(r)',
           \A c \in Cases : CaseSound(c)'
    PROVE  RCPInv'
<1>1. ASSUME NEW q \in Procs PROVE ProcSound(proc[q])'
    <2>1. CASE q = p
        <3>1. proc'[q] = r
            BY <2>1 DEF Set, RCPInv, TypeOK
        <3>2. QED
            BY <3>1
    <2>2. CASE q # p
        <3>1. proc'[q] = proc[q]
            BY <2>2 DEF Set, RCPInv, TypeOK
        <3>2. ProcSound(proc[q]) /\ proc[q].case \in Cases
            BY ProcTypes DEF RCPInv
        <3>3. QED
            BY <3>1, <3>2 DEF ProcSound, Receipted, Witnessed
    <2>3. QED
        BY <2>1, <2>2
<1>2. QED
    BY <1>1 DEF RCPInv

LEMMA ProcOnlySound ==
    ASSUME RCPInv, TypeOK', NEW p \in Procs, NEW r \in ProcRecord, Set(p, r),
           UNCHANGED soundVars, ProcSound(r)
    PROVE  RCPInv'
<1>1. ProcSound(r)'
    BY DEF soundVars, ProcSound, Leased, Receipted, Witnessed
<1>2. ASSUME NEW c \in Cases PROVE CaseSound(c)'
    <2>1. CaseSound(c)
        BY DEF RCPInv
    <2>2. QED
        BY <2>1 DEF soundVars, CaseSound, Leased, Receipted, Witnessed, OnGitHub
<1>3. QED
    BY <1>1, <1>2, StepSound DEF soundVars, RCPInv, Leased

(* A step of the ledger only adds what it records.                         *)
LEMMA LedgerSound ==
    ASSUME RCPInv, TypeOK', NEW p \in Procs, NEW r \in ProcRecord, Set(p, r),
           recorded \subseteq recorded',
           \A q \in Procs : known'[q] \subseteq recorded',
           UNCHANGED storeVars, UNCHANGED githubVars,
           ProcSound(r)'
    PROVE  RCPInv'
<1>1. ASSUME NEW c \in Cases PROVE CaseSound(c)'
    <2>1. CaseSound(c)
        BY DEF RCPInv
    <2>2. QED
        BY <2>1 DEF storeVars, githubVars, CaseSound, Leased, Receipted,
                    Witnessed, OnGitHub
<1>2. QED
    BY <1>1, StepSound DEF storeVars, Leased

LEMMA LedgerFacts ==
    ASSUME TypeOK, NEW p \in Procs, \A q \in Procs : known[q] \subseteq recorded
    PROVE  /\ OpenLedger(p) \/ CloseLedger(p)
                => /\ recorded \subseteq recorded'
                   /\ \A q \in Procs : known'[q] \subseteq recorded'
           /\ \A k \in EventKeys :
                 ObserveOnce(p, k) => /\ recorded \subseteq recorded'
                                      /\ k \in recorded'
                                      /\ \A q \in Procs : known'[q] \subseteq recorded'
BY DEF TypeOK, LedgerTypeOK, OpenLedger, CloseLedger, ObserveOnce, AppendKey,
       ledgerVars

(* What the invariant says of one process and of the case it works on.     *)
LEMMA OfProc ==
    ASSUME RCPInv, NEW p \in Procs
    PROVE  /\ TypeOK
           /\ ProcSound(proc[p])
           /\ CaseSound(proc[p].case)
           /\ caseState[proc[p].case] \in Announced => Receipted(proc[p].case)
           /\ proc[p].seen \in Announced => Receipted(proc[p].case)
BY ProcTypes DEF RCPInv, CaseSound, ProcSound

(* What ProcSound says at each pc.                                         *)
LEMMA AtPc ==
    ASSUME NEW r \in ProcRecord, ProcSound(r)
    PROVE  /\ r.pc \in {"plan", "materialize", "writing", "verify", "receipt",
                       "saveReceipt", "publish", "ref", "commit", "pulls",
                       "open", "record"} => Leased(r.case)
           /\ r.pc \in {"materialize", "writing", "verify", "receipt",
                       "saveReceipt", "publish", "ref", "commit", "pulls",
                       "open", "record"} => r.case \in planned
           /\ r.pc = "saveReceipt" => Witnessed(r.case)
           /\ r.pc \in {"publish", "ref", "commit", "pulls", "open", "record"}
                 => Receipted(r.case)
BY DEF ProcSound, PlannedPcs, PublishPcs

(* A process that moves on to another pc of the same run.                  *)
LEMMA AdvanceSound ==
    ASSUME NEW r \in ProcRecord, NEW pc \in Pcs \ TransitionPcs,
           r.seen \in Announced => Receipted(r.case),
           pc \in PlannedPcs \union {"plan"} => Leased(r.case),
           pc \in PlannedPcs => r.case \in planned,
           pc = "saveReceipt" => Witnessed(r.case),
           pc \in PublishPcs => Receipted(r.case)
    PROVE  /\ [r EXCEPT !.pc = pc] \in ProcRecord
           /\ ProcSound([r EXCEPT !.pc = pc])
<1> DEFINE q == [r EXCEPT !.pc = pc]
<1>1. q.pc = pc /\ q.seen = r.seen /\ q.case = r.case
    BY DEF ProcRecord
<1>2. ProcSound(q)
    BY <1>1 DEF ProcSound, Moving
<1>3. QED
    BY <1>2, PcType

(* A step within _transition, or one that only fills in other fields.      *)
LEMMA StaySound ==
    ASSUME NEW r \in ProcRecord, NEW q \in ProcRecord, ProcSound(r),
           r.pc \in TransitionPcs, q.pc \in TransitionPcs,
           q.case = r.case, q.to = r.to, q.ret = r.ret, q.seen = r.seen
    PROVE  ProcSound(q)
<1>1. \A pc \in TransitionPcs : pc \notin PlannedPcs \union {"plan", "saveReceipt"}
    BY DEF TransitionPcs, PlannedPcs, PublishPcs
<1>2. QED
    BY <1>1 DEF ProcSound, Moving, PlannedPcs

LEMMA StartRunSound ==
    ASSUME RCPInv, TypeOK', NEW p \in Procs, NEW c \in Cases,
           NEW human \in BOOLEAN, NEW publish \in BOOLEAN,
           StartRun(p, c, human, publish), UNCHANGED soundVars
    PROVE  RCPInv'
<1> DEFINE r == [Idle("ready", proc[p].todo \ {c}, publish) EXCEPT
                   !.case = c, !.seen = caseState[c], !.human = human]
<1>1. /\ r \in ProcRecord /\ r.case = c /\ r.seen = caseState[c]
    <2>1. TypeOK
        BY DEF RCPInv
    <2>2. "ready" \in Pcs /\ proc[p].todo \ {c} \in SUBSET Cases
        BY <2>1, ProcTypes DEF Pcs
    <2>3. Idle("ready", proc[p].todo \ {c}, publish) \in ProcRecord
        BY <2>2, IdleType
    <2>4. caseState[c] \in CaseStates \union {"ABSENT"}
        BY <2>1 DEF TypeOK, StoreTypeOK
    <2>5. QED
        BY <2>3, <2>4 DEF ProcRecord
<1>2. r.seen \in Announced => Receipted(r.case)
    BY <1>1 DEF RCPInv, CaseSound
<1>3. /\ ProcSound(Finished(r)) /\ Finished(r) \in ProcRecord
      /\ \A pc \in {"authorise", "resume"} :
            [r EXCEPT !.pc = pc] \in ProcRecord /\ ProcSound([r EXCEPT !.pc = pc])
    <2>1. ASSUME NEW pc \in {"authorise", "resume"}
          PROVE  [r EXCEPT !.pc = pc] \in ProcRecord /\ ProcSound([r EXCEPT !.pc = pc])
        <3>1. /\ pc \in Pcs \ TransitionPcs
              /\ pc \notin PlannedPcs \union PublishPcs \union {"plan", "saveReceipt"}
            BY DEF Pcs, TransitionPcs, PlannedPcs, PublishPcs
        <3>2. QED
            BY <1>1, <1>2, <3>1, AdvanceSound
    <2>2. QED
        BY <1>1, <2>1, FinishedSound, FinishedType
<1>4. PICK q \in ProcRecord : Set(p, q) /\ ProcSound(q)
    BY <1>3 DEF StartRun
<1>5. QED
    BY <1>4, ProcOnlySound

(* RCPInv holds at first ...                                               *)
LEMMA InitSound == Init => RCPInv
<1> SUFFICES ASSUME Init PROVE RCPInv
    OBVIOUS
<1>1. TypeOK
    BY InitType
<1>2. ProcSound(Idle("off", {}, FALSE))
    BY IdleSound
<1>3. ASSUME NEW c \in Cases PROVE CaseSound(c)
    BY DEF Init, CaseSound, Leased, OnGitHub, InFlight, Announced
<1>4. ASSUME NEW p \in Procs PROVE ProcSound(proc[p]) /\ known[p] \subseteq recorded
    BY <1>2 DEF Init, LedgerInit
<1>5. QED
    BY <1>1, <1>3, <1>4 DEF RCPInv

(* ... and every step keeps it.                                            *)
LEMMA SoundStep == RCPInv /\ [Next]_vars => RCPInv'
<1> SUFFICES ASSUME RCPInv, [Next]_vars PROVE RCPInv'
    OBVIOUS
<1> USE DEF soundVars
<1>1. TypeOK /\ TypeOK'
    BY TypeStep DEF RCPInv
<1>2. \A q \in Procs : known[q] \subseteq recorded
    BY DEF RCPInv
<1>3. ASSUME NEW p \in Procs, Start(p) PROVE RCPInv'
    <2> DEFINE r == Idle("ready", {}, FALSE)
    <2>1. r \in ProcRecord /\ r.pc = "ready" /\ r.seen = "ABSENT"
        <3>1. r.pc = "ready" /\ r.seen = "ABSENT"
            BY DEF Idle
        <3>2. QED
            BY <3>1, IdleTypes
    <2>2. ProcSound(r)'
        BY <2>1 DEF ProcSound, Moving, Announced, TransitionPcs, PublishPcs, PlannedPcs
    <2>3. /\ recorded \subseteq recorded'
          /\ \A q \in Procs : known'[q] \subseteq recorded'
        BY <1>1, <1>2, <1>3, LedgerFacts DEF Start
    <2>4. Set(p, r) /\ UNCHANGED storeVars /\ UNCHANGED githubVars
        BY <1>3 DEF Start, githubVars
    <2>5. QED
        BY <1>1, <2>1, <2>2, <2>3, <2>4, LedgerSound
<1>4. ASSUME NEW p \in Procs, Exit(p) PROVE RCPInv'
    <2> DEFINE r == Idle("off", {}, FALSE)
    <2>1. r \in ProcRecord /\ r.pc = "off" /\ r.seen = "ABSENT"
        <3>1. r.pc = "off" /\ r.seen = "ABSENT"
            BY DEF Idle
        <3>2. QED
            BY <3>1, IdleTypes
    <2>2. ProcSound(r)'
        BY <2>1 DEF ProcSound, Moving, Announced, TransitionPcs, PublishPcs, PlannedPcs
    <2>3. /\ recorded \subseteq recorded'
          /\ \A q \in Procs : known'[q] \subseteq recorded'
        BY <1>1, <1>2, <1>4, LedgerFacts DEF Exit
    <2>4. Set(p, r) /\ UNCHANGED storeVars /\ UNCHANGED githubVars
        BY <1>4 DEF Exit, githubVars
    <2>5. QED
        BY <1>1, <2>1, <2>2, <2>3, <2>4, LedgerSound
<1>5. ASSUME NEW p \in Procs, Crash(p) PROVE RCPInv'
    <2> DEFINE r == Idle("off", {}, FALSE)
    <2>1. r \in ProcRecord /\ r.pc = "off" /\ r.seen = "ABSENT"
        <3>1. r.pc = "off" /\ r.seen = "ABSENT"
            BY DEF Idle
        <3>2. QED
            BY <3>1, IdleTypes
    <2>2. ProcSound(r)'
        BY <2>1 DEF ProcSound, Moving, Announced, TransitionPcs, PublishPcs, PlannedPcs
    <2>3. /\ recorded \subseteq recorded'
          /\ \A q \in Procs : known'[q] \subseteq recorded'
        BY <1>1, <1>2, <1>5, LedgerFacts DEF Crash
    <2>4. Set(p, r) /\ UNCHANGED storeVars /\ UNCHANGED githubVars
        BY <1>5 DEF Crash, githubVars
    <2>5. QED
        BY <1>1, <2>1, <2>2, <2>3, <2>4, LedgerSound
<1>6. ASSUME NEW p \in Procs, GetCase(p) PROVE RCPInv'
    <2>1. proc[p] \in ProcRecord /\ ProcSound(proc[p])
        BY <1>1, ProcTypes, OfProc
    <2>2. /\ proc[p].pc = "get"
          /\ proc[p].pc \in TransitionPcs /\ "observe" \in TransitionPcs
        BY <1>6 DEF GetCase, TransitionPcs
    <2>3. CASE caseState[proc[p].case] = proc[p].to
        <3>1. ProcSound(Returned(proc[p], proc[p].to))
            BY <1>1, <2>1, <2>2, <2>3, ProcTypes, OfProc, ReturnedSound
        <3>2. Returned(proc[p], proc[p].to) \in ProcRecord
            BY <1>1, <2>1, ProcTypes, ReturnedType
        <3>3. QED
            BY <1>1, <1>6, <2>3, <3>1, <3>2, ProcOnlySound DEF GetCase, storeVars, githubVars, ledgerVars
    <2>4. CASE caseState[proc[p].case] # proc[p].to
        <3> DEFINE q == [proc[p] EXCEPT !.pc = "observe",
                                        !.from = caseState[proc[p].case]]
        <3>1. /\ q \in ProcRecord /\ q.pc = "observe" /\ q.case = proc[p].case
              /\ q.to = proc[p].to /\ q.ret = proc[p].ret /\ q.seen = proc[p].seen
            <4>1. "observe" \in Pcs /\ caseState[proc[p].case] \in CaseStates \union {"ABSENT"}
                BY <1>1, ProcTypes DEF Pcs, TypeOK, StoreTypeOK
            <4>2. q \in ProcRecord
                BY <2>1, <4>1, EditFrom
            <4>3. /\ q.pc = "observe" /\ q.case = proc[p].case /\ q.to = proc[p].to
                  /\ q.ret = proc[p].ret /\ q.seen = proc[p].seen
                BY <2>1 DEF ProcRecord
            <4>4. QED
                BY <4>2, <4>3
        <3> HIDE DEF q
        <3>2. ProcSound(q)
            BY <2>1, <2>2, <3>1, StaySound
        <3>3. QED
            BY <1>1, <1>6, <2>4, <3>1, <3>2, ProcOnlySound DEF q, GetCase, storeVars, githubVars, ledgerVars
    <2>5. QED
        BY <2>3, <2>4
<1>7. ASSUME NEW p \in Procs, CheckMove(p) PROVE RCPInv'
    <2>1. proc[p] \in ProcRecord /\ ProcSound(proc[p])
        BY <1>1, ProcTypes, OfProc
    <2>2. /\ proc[p].pc = "check"
          /\ proc[p].pc \in TransitionPcs /\ "update" \in TransitionPcs
        BY <1>7 DEF CheckMove, TransitionPcs
    <2>3. /\ ProcSound(Returned(proc[p], caseState[proc[p].case]))
          /\ Returned(proc[p], caseState[proc[p].case]) \in ProcRecord
        BY <1>1, <2>1, <2>2, ProcTypes, OfProc, ReturnedSound, ReturnedType
    <2>4. ProcSound(Raised(proc[p])) /\ Raised(proc[p]) \in ProcRecord
        BY <2>1, RaisedSound, RaisedType
    <2> DEFINE u == [proc[p] EXCEPT !.pc = "update",
                                    !.from = caseState[proc[p].case]]
    <2>5. /\ u \in ProcRecord /\ u.pc = "update" /\ u.case = proc[p].case
          /\ u.to = proc[p].to /\ u.ret = proc[p].ret /\ u.seen = proc[p].seen
        <3>1. "update" \in Pcs /\ caseState[proc[p].case] \in CaseStates \union {"ABSENT"}
            BY <1>1, ProcTypes DEF Pcs, TypeOK, StoreTypeOK
        <3>2. u \in ProcRecord
            BY <2>1, <3>1, EditFrom
        <3>3. /\ u.pc = "update" /\ u.case = proc[p].case /\ u.to = proc[p].to
              /\ u.ret = proc[p].ret /\ u.seen = proc[p].seen
            BY <2>1 DEF ProcRecord
        <3>4. QED
            BY <3>2, <3>3
    <2> HIDE DEF u
    <2>6. ProcSound(u)
        BY <2>1, <2>2, <2>5, StaySound
    <2>8. PICK q \in ProcRecord : Set(p, q) /\ ProcSound(q)
        BY <1>7, <2>3, <2>4, <2>5, <2>6 DEF u, CheckMove
    <2>9. QED
        BY <1>1, <1>7, <2>8, ProcOnlySound DEF CheckMove, storeVars, githubVars, ledgerVars
<1>8. ASSUME NEW p \in Procs, ReloadCase(p) PROVE RCPInv'
    <2>1. proc[p] \in ProcRecord /\ ProcSound(proc[p])
        BY <1>1, ProcTypes, OfProc
    <2>2. proc[p].pc \in TransitionPcs
        BY <1>8 DEF ReloadCase, TransitionPcs
    <2>3. /\ ProcSound(Returned(proc[p], caseState[proc[p].case]))
          /\ Returned(proc[p], caseState[proc[p].case]) \in ProcRecord
        BY <1>1, <2>1, <2>2, ProcTypes, OfProc, ReturnedSound, ReturnedType
    <2>8. PICK q \in ProcRecord : Set(p, q) /\ ProcSound(q)
        BY <1>8, <2>3 DEF ReloadCase
    <2>9. QED
        BY <1>1, <1>8, <2>8, ProcOnlySound DEF ReloadCase, storeVars, githubVars, ledgerVars
<1>9. ASSUME NEW p \in Procs, ObserveMove(p) PROVE RCPInv'
    <2>1. proc[p] \in ProcRecord /\ ProcSound(proc[p])
        BY <1>1, ProcTypes, OfProc
    <2> DEFINE k == MoveKey(proc[p].case, proc[p].from, proc[p].to)
               q == [proc[p] EXCEPT !.pc = "check"]
    <2>2. k \in EventKeys
        BY <1>1, ProcTypes, NoLeaseType DEF MoveKey, EventKeys
    <2>3. /\ recorded \subseteq recorded'
          /\ \A x \in Procs : known'[x] \subseteq recorded'
        BY <1>1, <1>2, <1>9, <2>2, LedgerFacts DEF ObserveMove
    <2>4. /\ q \in ProcRecord /\ q.pc = "check" /\ q.case = proc[p].case
          /\ q.to = proc[p].to /\ q.ret = proc[p].ret /\ q.seen = proc[p].seen
        BY <1>1, ProcTypes DEF ProcRecord, Pcs
    <2>5. ProcSound(q)
        <3>1. proc[p].pc \in TransitionPcs /\ q.pc \in TransitionPcs
            BY <1>9, <2>4 DEF ObserveMove, TransitionPcs
        <3>2. QED
            BY <2>1, <2>4, <3>1, StaySound
    <2>6. Set(p, q) /\ UNCHANGED storeVars /\ UNCHANGED githubVars
        BY <1>9 DEF ObserveMove, githubVars
    <2>7. PICK x \in ProcRecord : x = q
        BY <2>4
    <2>8. ProcSound(x)'
        BY <2>3, <2>5, <2>6, <2>7 DEF ProcSound, Leased, Receipted, Witnessed, storeVars
    <2>9. QED
        BY <1>1, <2>3, <2>6, <2>7, <2>8, LedgerSound
<1>10. ASSUME NEW p \in Procs, ObserveProof(p) PROVE RCPInv'
    <2>1. proc[p] \in ProcRecord /\ ProcSound(proc[p])
        BY <1>1, ProcTypes, OfProc
    <2> DEFINE k == ProofKey(proc[p].case, proc[p].lease)
               q == [proc[p] EXCEPT !.pc = "saveReceipt"]
    <2>2. k \in EventKeys /\ k.case = proc[p].case /\ k.from = "verification"
        BY <1>1, ProcTypes, MoveTypes DEF ProofKey, EventKeys
    <2>3. /\ recorded \subseteq recorded' /\ k \in recorded'
          /\ \A x \in Procs : known'[x] \subseteq recorded'
        BY <1>1, <1>2, <1>10, <2>2, LedgerFacts DEF ObserveProof
    <2>4. /\ q \in ProcRecord /\ q.pc = "saveReceipt" /\ q.case = proc[p].case
          /\ q.seen = proc[p].seen
        BY <1>1, ProcTypes DEF ProcRecord, Pcs
    <2>5. /\ Leased(q.case) /\ q.case \in planned
          /\ q.seen \in Announced => Receipted(q.case)
        BY <1>1, <2>1, <2>4, <1>10, AtPc, OfProc DEF ObserveProof
    <2>6. Set(p, q) /\ UNCHANGED storeVars /\ UNCHANGED githubVars
        BY <1>10 DEF ObserveProof, githubVars
    <2>7. PICK x \in ProcRecord : x = q
        BY <2>4
    <2>8. ProcSound(x)'
        <3>1. Leased(x.case)' /\ x.case \in planned'
            BY <2>5, <2>6, <2>7 DEF Leased, storeVars
        <3>2. Witnessed(x.case)'
            BY <2>2, <2>3, <2>4, <2>7 DEF Witnessed
        <3>3. (x.seen \in Announced => Receipted(x.case))'
            BY <2>3, <2>5, <2>6, <2>7 DEF Receipted, Witnessed, storeVars
        <3>4. x.pc = "saveReceipt"
            BY <2>4, <2>7
        <3>5. QED
            BY <3>1, <3>2, <3>3, <3>4
               DEF ProcSound, Moving, TransitionPcs, PublishPcs
    <2>9. QED
        BY <1>1, <2>3, <2>6, <2>7, <2>8, LedgerSound
<1>11. ASSUME NEW p \in Procs, UpdateMove(p) PROVE RCPInv'
    <2>1. proc[p] \in ProcRecord /\ ProcSound(proc[p])
        BY <1>1, ProcTypes, OfProc
    <2> DEFINE c == proc[p].case
               q == [proc[p] EXCEPT !.pc = "reload"]
    <2>2. /\ proc[p].pc \in TransitionPcs /\ "reload" \in TransitionPcs
          /\ c \in Cases
        BY <1>1, <1>11, ProcTypes DEF UpdateMove, TransitionPcs
    <2>3. /\ q \in ProcRecord /\ q.pc = "reload" /\ q.case = proc[p].case
          /\ q.to = proc[p].to /\ q.ret = proc[p].ret /\ q.seen = proc[p].seen
        BY <1>1, ProcTypes DEF ProcRecord, Pcs
    <2>4. ProcSound(q)
        <3>1. q.pc \in TransitionPcs /\ q.case = proc[p].case
            BY <2>2, <2>3
        <3>2. QED
            BY <2>1, <2>2, <2>3, <3>1, StaySound
    <2>5. /\ proc[p].to \in InFlight \union {"DRAFT_PR"} => Leased(c)
          /\ proc[p].to \in Announced => Receipted(c)
        BY <2>1, <2>2 DEF ProcSound, Moving
    <2>6. ASSUME NEW d \in Cases PROVE CaseSound(d)'
        <3>1. CaseSound(d)
            BY DEF RCPInv
        <3>2. caseState'[d] = IF d = c THEN proc[p].to ELSE caseState[d]
            BY <1>1, <1>11 DEF UpdateMove, TypeOK, StoreTypeOK
        <3>3. UNCHANGED <<lease, planned, receipted, branch, pulls, recorded>>
            BY <1>11 DEF UpdateMove, githubVars, ledgerVars
        <3>4. QED
            BY <2>5, <3>1, <3>2, <3>3
               DEF CaseSound, Leased, Receipted, Witnessed, OnGitHub
    <2>7. PICK x \in ProcRecord : x = q
        BY <2>3
    <2>8. UNCHANGED <<lease, planned, receipted, recorded, known>> /\ Set(p, x)
        BY <1>11, <2>7 DEF UpdateMove, ledgerVars
    <2>9. ProcSound(x)'
        BY <2>4, <2>7, <2>8 DEF ProcSound, Leased, Receipted, Witnessed
    <2>10. QED
        BY <1>1, <1>2, <2>6, <2>8, <2>9, StepSound DEF Leased
<1>12. ASSUME NEW p \in Procs, UpsertCase(p) PROVE RCPInv'
    <2>1. proc[p] \in ProcRecord /\ ProcSound(proc[p])
        BY <1>1, ProcTypes, OfProc
    <2> DEFINE c == proc[p].case
    <2>2. c \in Cases
        BY <1>1, ProcTypes
    <2>3. PICK x \in ProcRecord : Set(p, x) /\ ProcSound(x)
        <3>1. /\ ProcSound(Finished(proc[p])) /\ Finished(proc[p]) \in ProcRecord
            BY <2>1, FinishedSound, FinishedType
        <3>2. /\ ProcSound(Begin(proc[p], "TRIAGED", "done"))
              /\ Begin(proc[p], "TRIAGED", "done") \in ProcRecord
            <4>1. "TRIAGED" \notin InFlight \union {"DRAFT_PR"} \union Announced
                BY DEF InFlight, Announced
            <4>2. QED
                BY <1>1, <2>1, <4>1, OfProc, MoveTypes, BeginSound, BeginType
        <3>3. QED
            BY <1>12, <3>1, <3>2 DEF UpsertCase
    <2>4. UNCHANGED <<lease, planned, receipted, branch, pulls, recorded, known>>
        BY <1>12 DEF UpsertCase, githubVars, ledgerVars
    <2>5. ASSUME NEW d \in Cases PROVE CaseSound(d)'
        <3>1. CaseSound(d)
            BY DEF RCPInv
        <3>2. caseState'[d] = caseState[d] \/ caseState'[d] = "DISCOVERED"
            BY <1>1, <1>12 DEF UpsertCase, Upserted, TypeOK, StoreTypeOK
        <3>3. "DISCOVERED" \notin InFlight \union {"DRAFT_PR"} \union Announced
            BY DEF InFlight, Announced
        <3>4. QED
            BY <2>4, <3>1, <3>2, <3>3
               DEF CaseSound, Leased, Receipted, Witnessed, OnGitHub
    <2>6. ProcSound(x)'
        BY <2>3, <2>4 DEF ProcSound, Leased, Receipted, Witnessed
    <2>7. QED
        BY <1>1, <1>2, <2>3, <2>4, <2>5, <2>6, StepSound DEF Leased
<1>13. ASSUME NEW p \in Procs, SaveLease(p) PROVE RCPInv'
    <2>1. proc[p] \in ProcRecord /\ ProcSound(proc[p])
        BY <1>1, ProcTypes, OfProc
    <2> DEFINE c == proc[p].case
               l == [expires |-> now + LeaseTerm, human |-> proc[p].human]
               r == [proc[p] EXCEPT !.lease = l]
    <2>2. /\ c \in Cases
          /\ l \in Leases /\ l # NoLease /\ l.human = proc[p].human
        <3>1. now + LeaseTerm \in Nat /\ now + LeaseTerm # 0
            BY <1>1, RCPAssumption DEF RCPAssumption, TypeOK
        <3>2. QED
            BY <1>1, <3>1, ProcTypes DEF Leases, NoLease
    <2>3. /\ r \in ProcRecord /\ r.case = c /\ r.seen = proc[p].seen
        BY <1>1, <2>2, ProcTypes DEF ProcRecord
    <2>4. /\ lease' = [lease EXCEPT ![c] = l]
          /\ lease'[c] = l
          /\ \A d \in Cases \ {c} : lease'[d] = lease[d]
          /\ UNCHANGED <<caseState, planned, receipted, branch, pulls, recorded, known>>
        BY <1>1, <2>2, <1>13 DEF SaveLease, githubVars, ledgerVars, TypeOK, StoreTypeOK
    <2>5. PICK x \in ProcRecord : x = Begin(r, "AUTHORIZED", "claim")
        BY <2>3, MoveTypes, BeginType
    <2>6. /\ x.pc = "get" /\ x.to = "AUTHORIZED" /\ x.ret = "claim"
          /\ x.case = c /\ x.seen = proc[p].seen
        BY <2>3, <2>5 DEF Begin, ProcRecord
    <2>7. ProcSound(x)'
        <3>1. Leased(x.case)'
            BY <2>2, <2>4, <2>6 DEF Leased
        <3>2. (x.seen \in Announced => Receipted(x.case))'
            BY <1>1, <2>4, <2>6, OfProc DEF Receipted, Witnessed
        <3>3. QED
            BY <2>6, <3>1, <3>2 DEF ProcSound, Moving, Announced, TransitionPcs,
                                    PlannedPcs, PublishPcs
    <2>8. ASSUME NEW d \in Cases PROVE CaseSound(d)'
        <3>1. CaseSound(d)
            BY DEF RCPInv
        <3>2. CASE d # c
            BY <2>4, <3>1, <3>2 DEF CaseSound, Leased, Receipted, Witnessed, OnGitHub
        <3>3. CASE d = c
            <4>1. /\ Repair[c] \notin {"none", "unbounded"}
                  /\ Risk[c] > AutoMax => l.human
                BY <2>2, <1>13 DEF SaveLease, IssueDenied
            <4>2. Leased(d)'
                BY <2>2, <2>4, <3>3 DEF Leased
            <4>3. QED
                BY <2>4, <3>1, <3>3, <4>1, <4>2
                   DEF CaseSound, Receipted, Witnessed, OnGitHub
        <3>4. QED
            BY <3>2, <3>3
    <2>9. \A d \in Cases : Leased(d) => Leased(d)'
        BY <2>2, <2>4 DEF Leased
    <2>10. Set(p, x)
        BY <2>5, <1>13 DEF SaveLease
    <2>11. QED
        BY <1>1, <1>2, <2>4, <2>7, <2>8, <2>9, <2>10, StepSound
<1>14. ASSUME NEW p \in Procs, Scan(p) PROVE RCPInv'
    <2>1. PICK S \in SUBSET Cases : Set(p, Idle("findings", S, FALSE))
        BY <1>14 DEF Scan
    <2>2. /\ Idle("findings", S, FALSE) \in ProcRecord
          /\ ProcSound(Idle("findings", S, FALSE))
        BY <2>1, IdleSound
    <2>3. QED
        BY <1>1, <1>14, <2>1, <2>2, ProcOnlySound DEF Scan, storeVars, githubVars, ledgerVars
<1>15. ASSUME NEW p \in Procs, NEW publish \in BOOLEAN, RunQueue(p, publish) PROVE RCPInv'
    <2>1. PICK S \in SUBSET Cases : Set(p, Idle("next", S, publish))
        BY <1>15 DEF RunQueue, Candidates
    <2>2. /\ Idle("next", S, publish) \in ProcRecord
          /\ ProcSound(Idle("next", S, publish))
        BY <2>1, IdleSound
    <2>3. QED
        BY <1>1, <1>15, <2>1, <2>2, ProcOnlySound DEF RunQueue, storeVars, githubVars, ledgerVars
<1>16. ASSUME NEW p \in Procs, NEW publish \in BOOLEAN, RecoverInflight(p, publish) PROVE RCPInv'
    <2>1. PICK S \in SUBSET Cases : Set(p, Idle("next", S, publish))
        BY <1>16 DEF RecoverInflight
    <2>2. /\ Idle("next", S, publish) \in ProcRecord
          /\ ProcSound(Idle("next", S, publish))
        BY <2>1, IdleSound
    <2>3. QED
        BY <1>1, <1>16, <2>1, <2>2, ProcOnlySound DEF RecoverInflight, storeVars, githubVars, ledgerVars
<1>17. ASSUME NEW p \in Procs, IngestLook(p) PROVE RCPInv'
    <2>1. PICK c \in proc[p].todo :
              Set(p, [Idle("upsert", proc[p].todo \ {c}, FALSE) EXCEPT
                        !.case = c, !.mode = "scan", !.seen = caseState[c]])
        BY <1>17 DEF IngestLook
    <2> DEFINE q == [Idle("upsert", proc[p].todo \ {c}, FALSE) EXCEPT
                       !.case = c, !.mode = "scan", !.seen = caseState[c]]
    <2>2. c \in Cases /\ proc[p].todo \ {c} \in SUBSET Cases
        BY <1>1, ProcTypes
    <2>3. /\ Idle("upsert", proc[p].todo \ {c}, FALSE) \in ProcRecord
          /\ Idle("upsert", proc[p].todo \ {c}, FALSE).pc = "upsert"
        BY <2>2, IdleTypes, IdleFields
    <2>4. q \in ProcRecord /\ q.pc = "upsert" /\ q.case = c /\ q.seen = caseState[c]
        <3>1. caseState[c] \in CaseStates \union {"ABSENT"}
            BY <1>1, <2>2 DEF TypeOK, StoreTypeOK
        <3>2. q \in ProcRecord
            BY <2>2, <2>3, <3>1, EditFinding
        <3>3. q.pc = "upsert" /\ q.case = c /\ q.seen = caseState[c]
            BY <2>3 DEF ProcRecord
        <3>4. QED
            BY <3>2, <3>3
    <2> HIDE DEF q
    <2>5. q.seen \in Announced => Receipted(q.case)
        BY <2>2, <2>4 DEF RCPInv, CaseSound
    <2>6. ProcSound(q)
        BY <2>4, <2>5, QuietSound
    <2>7. QED
        BY <1>1, <1>17, <2>1, <2>4, <2>6, ProcOnlySound DEF q, IngestLook, storeVars, githubVars, ledgerVars
<1>18. ASSUME NEW p \in Procs, RunNext(p) PROVE RCPInv'
    <2>1. PICK c \in proc[p].todo : StartRun(p, c, FALSE, proc[p].publish)
        BY <1>18 DEF RunNext
    <2>2. c \in Cases /\ proc[p].publish \in BOOLEAN
        BY <1>1, ProcTypes
    <2>3. QED
        BY <1>1, <1>18, <2>1, <2>2, StartRunSound DEF RunNext, storeVars, githubVars, ledgerVars
<1>19. ASSUME NEW p \in Procs, NEW c \in Cases, NEW human \in BOOLEAN, NEW publish \in BOOLEAN,
             RunCase(p, c, human, publish) PROVE RCPInv'
    BY <1>1, <1>19, StartRunSound DEF RunCase, storeVars, githubVars, ledgerVars
<1>20. ASSUME NEW p \in Procs, Deny(p) PROVE RCPInv'
    <2>1. proc[p] \in ProcRecord /\ ProcSound(proc[p])
        BY <1>1, ProcTypes, OfProc
    <2>2. "AWAITING_APPROVAL" \notin InFlight \union {"DRAFT_PR"} \union Announced
        BY DEF InFlight, Announced
    <2>3. /\ ProcSound(Begin(proc[p], "AWAITING_APPROVAL", "done"))
          /\ Begin(proc[p], "AWAITING_APPROVAL", "done") \in ProcRecord
        BY <1>1, <2>1, <2>2, OfProc, MoveTypes, BeginSound, BeginType
    <2>4. ProcSound(Finished(proc[p])) /\ Finished(proc[p]) \in ProcRecord
        BY <2>1, FinishedSound, FinishedType
    <2>8. PICK q \in ProcRecord : Set(p, q) /\ ProcSound(q)
        BY <1>20, <2>3, <2>4 DEF Deny
    <2>9. QED
        BY <1>1, <1>20, <2>8, ProcOnlySound DEF Deny, storeVars, githubVars, ledgerVars
<1>21. ASSUME NEW p \in Procs, ResumeCase(p) PROVE RCPInv'
    <2>1. proc[p] \in ProcRecord /\ ProcSound(proc[p])
        BY <1>1, ProcTypes, OfProc
    <2> DEFINE l == lease[proc[p].case]
               q == [proc[p] EXCEPT !.lease = l]
    <2>2. q \in ProcRecord /\ q.case = proc[p].case /\ q.seen = proc[p].seen
        BY <1>1, ProcTypes DEF ProcRecord
    <2>3. LeaseValid(l) => Leased(q.case)
        BY <1>1, <2>2, ProcTypes DEF LeaseValid, Leased, NoLease, TypeOK, Leases
    <2>4. LeaseValid(l) => /\ GoTo(q, AtClaim(proc[p].seen)) \in ProcRecord
                           /\ ProcSound(GoTo(q, AtClaim(proc[p].seen)))
        <3>1. AtClaim(proc[p].seen) \in {"claim", "patch", "plan"}
            BY DEF AtClaim, AtPatch
        <3>2. QED
            BY <1>1, <2>2, <2>3, <3>1, OfProc, GoToSound, GoToType DEF Places
    <2>5. ProcSound(Raised(proc[p])) /\ Raised(proc[p]) \in ProcRecord
        BY <2>1, RaisedSound, RaisedType
    <2>8. PICK y \in ProcRecord : Set(p, y) /\ ProcSound(y)
        BY <1>21, <2>4, <2>5 DEF ResumeCase
    <2>9. QED
        BY <1>1, <1>21, <2>8, ProcOnlySound DEF ResumeCase, storeVars, githubVars, ledgerVars
<1>22. ASSUME NEW p \in Procs, BuildPlan(p) PROVE RCPInv'
    <2>1. proc[p] \in ProcRecord /\ ProcSound(proc[p])
        BY <1>1, ProcTypes, OfProc
    <2>2. CASE LeaseValid(proc[p].lease) /\ Repair[proc[p].case] = "supported"
        <3> DEFINE q == [proc[p] EXCEPT !.pc = "materialize"]
        <3>1. /\ q \in ProcRecord /\ q.pc = "materialize"
              /\ q.case = proc[p].case /\ q.seen = proc[p].seen
            BY <1>1, ProcTypes DEF ProcRecord, Pcs
        <3>2. PICK x \in ProcRecord : x = q
            BY <3>1
        <3>3. /\ Set(p, x) /\ planned' = planned \union {proc[p].case}
              /\ UNCHANGED <<caseState, lease, receipted, branch, pulls, recorded,
                            known>>
            BY <2>2, <3>2, <1>22 DEF BuildPlan, githubVars, ledgerVars
        <3>4. ProcSound(x)'
            <4>1. Leased(x.case)'
                BY <1>1, <2>1, <3>1, <3>2, <3>3, <1>22, AtPc DEF BuildPlan, Leased
            <4>2. (x.seen \in Announced => Receipted(x.case))'
                BY <1>1, <3>1, <3>2, <3>3, OfProc DEF Receipted, Witnessed
            <4>3. QED
                BY <3>1, <3>2, <3>3, <4>1, <4>2
                   DEF ProcSound, Moving, TransitionPcs, PublishPcs
        <3>5. ASSUME NEW c \in Cases PROVE CaseSound(c)'
            <4>1. CaseSound(c)
                BY DEF RCPInv
            <4>2. QED
                BY <3>3, <4>1 DEF CaseSound, Leased, Receipted, Witnessed, OnGitHub
        <3>6. QED
            BY <1>1, <1>2, <3>3, <3>4, <3>5, StepSound DEF Leased
    <2>3. CASE ~(LeaseValid(proc[p].lease) /\ Repair[proc[p].case] = "supported")
        <3>1. ProcSound(Raised(proc[p])) /\ Raised(proc[p]) \in ProcRecord
            BY <2>1, RaisedSound, RaisedType
        <3>2. QED
            BY <1>1, <2>3, <3>1, <1>22, ProcOnlySound DEF BuildPlan, githubVars, ledgerVars
    <2>4. QED
        BY <2>2, <2>3
<1>23. ASSUME NEW p \in Procs, StartMaterialize(p) PROVE RCPInv'
    <2>1. proc[p] \in ProcRecord /\ ProcSound(proc[p])
        BY <1>1, ProcTypes, OfProc
    <2>2. /\ Leased(proc[p].case) /\ proc[p].case \in planned
          /\ proc[p].seen \in Announced => Receipted(proc[p].case)
        BY <1>1, <2>1, <1>23, AtPc, OfProc DEF StartMaterialize
    <2>3. /\ [proc[p] EXCEPT !.pc = "writing"] \in ProcRecord
          /\ ProcSound([proc[p] EXCEPT !.pc = "writing"])
        <3>1. "writing" \in Pcs \ TransitionPcs /\ "writing" \notin PublishPcs \union {"saveReceipt"}
            BY DEF Pcs, TransitionPcs, PublishPcs
        <3>2. QED
            BY <2>1, <2>2, <3>1, AdvanceSound
    <2>4. ProcSound(Raised(proc[p])) /\ Raised(proc[p]) \in ProcRecord
        BY <2>1, RaisedSound, RaisedType
    <2>8. PICK q \in ProcRecord : Set(p, q) /\ ProcSound(q)
        BY <1>23, <2>3, <2>4 DEF StartMaterialize
    <2>9. QED
        BY <1>1, <1>23, <2>8, ProcOnlySound DEF StartMaterialize, storeVars, githubVars, ledgerVars
<1>24. ASSUME NEW p \in Procs, FinishMaterialize(p) PROVE RCPInv'
    <2>1. proc[p] \in ProcRecord /\ ProcSound(proc[p])
        BY <1>1, ProcTypes, OfProc
    <2>2. /\ Leased(proc[p].case) /\ proc[p].case \in planned
          /\ proc[p].seen \in Announced => Receipted(proc[p].case)
        BY <1>1, <2>1, <1>24, AtPc, OfProc DEF FinishMaterialize
    <2>3. /\ [proc[p] EXCEPT !.pc = "verify"] \in ProcRecord
          /\ ProcSound([proc[p] EXCEPT !.pc = "verify"])
        <3>1. "verify" \in Pcs \ TransitionPcs /\ "verify" \notin PublishPcs \union {"saveReceipt"}
            BY DEF Pcs, TransitionPcs, PublishPcs
        <3>2. QED
            BY <2>1, <2>2, <3>1, AdvanceSound
    <2>4. ProcSound(Raised(proc[p])) /\ Raised(proc[p]) \in ProcRecord
        BY <2>1, RaisedSound, RaisedType
    <2>5. /\ Begin(proc[p], "VERIFYING", "verify") \in ProcRecord
          /\ ProcSound(Begin(proc[p], "VERIFYING", "verify"))
        BY <2>1, <2>2, MoveTypes, BeginType, BeginSound DEF Announced
    <2>8. PICK q \in ProcRecord : Set(p, q) /\ ProcSound(q)
        BY <1>24, <2>3, <2>4, <2>5 DEF FinishMaterialize
    <2>9. QED
        BY <1>1, <1>24, <2>8, ProcOnlySound DEF FinishMaterialize, storeVars, githubVars, ledgerVars
<1>25. ASSUME NEW p \in Procs, MaterializeCollides(p) PROVE RCPInv'
    <2>1. proc[p] \in ProcRecord /\ ProcSound(proc[p])
        BY <1>1, ProcTypes, OfProc
    <2>2. ProcSound(Raised(proc[p])) /\ Raised(proc[p]) \in ProcRecord
        BY <2>1, RaisedSound, RaisedType
    <2>8. PICK q \in ProcRecord : Set(p, q) /\ ProcSound(q)
        BY <1>25, <2>2 DEF MaterializeCollides
    <2>9. QED
        BY <1>1, <1>25, <2>8, ProcOnlySound DEF MaterializeCollides, storeVars, githubVars, ledgerVars
<1>26. ASSUME NEW p \in Procs, Verify(p) PROVE RCPInv'
    <2>1. proc[p] \in ProcRecord /\ ProcSound(proc[p])
        BY <1>1, ProcTypes, OfProc
    <2>2. /\ Leased(proc[p].case) /\ proc[p].case \in planned
          /\ proc[p].seen \in Announced => Receipted(proc[p].case)
        BY <1>1, <2>1, <1>26, AtPc, OfProc DEF Verify
    <2>3. ProcSound(Raised(proc[p])) /\ Raised(proc[p]) \in ProcRecord
        BY <2>1, RaisedSound, RaisedType
    <2>4. /\ Begin(proc[p], "PROVEN", "receipt") \in ProcRecord
          /\ ProcSound(Begin(proc[p], "PROVEN", "receipt"))
          /\ Begin(proc[p], "FAILED", "done") \in ProcRecord
          /\ ProcSound(Begin(proc[p], "FAILED", "done"))
        BY <2>1, <2>2, MoveTypes, BeginType, BeginSound DEF Announced, InFlight
    <2> DEFINE pc == AtReceipt(proc[p].seen, proc[p].publish)
    <2>5. /\ GoTo(proc[p], pc) \in ProcRecord
          /\ ProcSound(GoTo(proc[p], pc))
        <3>1. /\ pc \in Places
              /\ pc \in {"publish", "markReady"} => proc[p].seen \in Announced
            BY DEF AtReceipt, AtReady, AtPublish, Places, Announced
        <3>2. QED
            BY <2>1, <2>2, <3>1, GoToType, GoToSound
    <2>8. PICK q \in ProcRecord : Set(p, q) /\ ProcSound(q)
        BY <1>26, <2>3, <2>4, <2>5 DEF Verify
    <2>9. QED
        BY <1>1, <1>26, <2>8, ProcOnlySound DEF Verify, storeVars, githubVars, ledgerVars
<1>27. ASSUME NEW p \in Procs, SaveReceipt(p) PROVE RCPInv'
    <2>1. proc[p] \in ProcRecord /\ ProcSound(proc[p])
        BY <1>1, ProcTypes, OfProc
    <2>2. /\ Leased(proc[p].case) /\ proc[p].case \in planned
          /\ proc[p].seen \in Announced => Receipted(proc[p].case)
        BY <1>1, <2>1, <1>27, AtPc, OfProc DEF SaveReceipt
    <2> DEFINE c == proc[p].case
    <2>3. Witnessed(c) /\ c \in Cases
        BY <1>1, <2>1, <1>27, AtPc, ProcTypes DEF SaveReceipt
    <2>4. PICK x \in ProcRecord : x = Begin(proc[p], "RECEIPTED", "ready")
        BY <2>1, MoveTypes, BeginType
    <2>5. /\ x.pc = "get" /\ x.to = "RECEIPTED" /\ x.ret = "ready"
          /\ x.case = c /\ x.seen = proc[p].seen
        BY <2>1, <2>4 DEF Begin, ProcRecord
    <2>6. /\ Set(p, x) /\ receipted' = receipted \union {c}
          /\ UNCHANGED <<caseState, lease, planned, branch, pulls, recorded, known>>
        BY <2>4, <1>27 DEF SaveReceipt, githubVars, ledgerVars
    <2>7. ProcSound(x)'
        <3>1. /\ Leased(x.case)' /\ x.case \in planned'
              /\ Receipted(x.case)'
            BY <2>2, <2>3, <2>5, <2>6 DEF Leased, Receipted, Witnessed
        <3>2. QED
            BY <2>5, <3>1 DEF ProcSound, Moving
    <2>8. ASSUME NEW d \in Cases PROVE CaseSound(d)'
        <3>1. CaseSound(d)
            BY DEF RCPInv
        <3>2. QED
            BY <2>6, <3>1 DEF CaseSound, Leased, Receipted, Witnessed, OnGitHub
    <2>9. QED
        BY <1>1, <1>2, <2>6, <2>7, <2>8, StepSound DEF Leased
<1>28. ASSUME NEW p \in Procs, StartPublish(p) PROVE RCPInv'
    <2>1. proc[p] \in ProcRecord /\ ProcSound(proc[p])
        BY <1>1, ProcTypes, OfProc
    <2>2. Leased(proc[p].case) /\ proc[p].case \in planned /\ Receipted(proc[p].case)
        BY <2>1, <1>28, AtPc DEF StartPublish
    <2>3. \A pc \in PublishPcs : /\ [proc[p] EXCEPT !.pc = pc] \in ProcRecord
                                 /\ ProcSound([proc[p] EXCEPT !.pc = pc])
        <3>1. PublishPcs \subseteq Pcs \ TransitionPcs /\ "saveReceipt" \notin PublishPcs
            BY DEF Pcs, TransitionPcs, PublishPcs
        <3>2. QED
            BY <2>1, <2>2, <3>1, AdvanceSound
    <2>4. Finished(proc[p]) \in ProcRecord /\ ProcSound(Finished(proc[p]))
        BY <2>1, FinishedType, FinishedSound
    <2>5. /\ Begin(proc[p], "DRAFT_PR", "done") \in ProcRecord
          /\ ProcSound(Begin(proc[p], "DRAFT_PR", "done"))
        BY <2>1, <2>2, MoveTypes, BeginType, BeginSound
    <2> DEFINE q == [proc[p] EXCEPT !.pc = "ref", !.base = head]
    <2>6. /\ q \in ProcRecord /\ q.pc = "ref"
          /\ q.case = proc[p].case /\ q.seen = proc[p].seen
        <3>1. head \in Nat
            BY <1>1 DEF TypeOK, GitHubTypeOK
        <3>2. QED
            <4>1. "ref" \in Pcs
                BY DEF Pcs
            <4>2. q \in ProcRecord
                BY <2>1, <3>1, <4>1, EditBase
            <4>3. q.pc = "ref" /\ q.case = proc[p].case /\ q.seen = proc[p].seen
                BY <2>1 DEF ProcRecord
            <4>4. QED
                BY <4>2, <4>3
    <2> HIDE DEF q
    <2>7. ProcSound(q)
        BY <2>2, <2>6 DEF ProcSound, Moving, TransitionPcs
    <2>8. PICK y \in ProcRecord : Set(p, y) /\ ProcSound(y)
        BY <1>28, <2>5, <2>6, <2>7 DEF q, StartPublish
    <2>9. QED
        BY <1>1, <1>28, <2>8, ProcOnlySound DEF StartPublish, storeVars, githubVars, ledgerVars
<1>29. ASSUME NEW p \in Procs, LookBranch(p) PROVE RCPInv'
    <2>1. proc[p] \in ProcRecord /\ ProcSound(proc[p])
        BY <1>1, ProcTypes, OfProc
    <2>2. Leased(proc[p].case) /\ proc[p].case \in planned /\ Receipted(proc[p].case)
        BY <2>1, <1>29, AtPc DEF LookBranch
    <2>3. \A pc \in PublishPcs : /\ [proc[p] EXCEPT !.pc = pc] \in ProcRecord
                                 /\ ProcSound([proc[p] EXCEPT !.pc = pc])
        <3>1. PublishPcs \subseteq Pcs \ TransitionPcs /\ "saveReceipt" \notin PublishPcs
            BY DEF Pcs, TransitionPcs, PublishPcs
        <3>2. QED
            BY <2>1, <2>2, <3>1, AdvanceSound
    <2>4. Finished(proc[p]) \in ProcRecord /\ ProcSound(Finished(proc[p]))
        BY <2>1, FinishedType, FinishedSound
    <2>8. PICK q \in ProcRecord : Set(p, q) /\ ProcSound(q)
        BY <1>29, <2>3, <2>4 DEF LookBranch, PublishPcs
    <2>9. QED
        BY <1>1, <1>29, <2>8, ProcOnlySound DEF LookBranch, storeVars, githubVars, ledgerVars
<1>30. ASSUME NEW p \in Procs, LookPulls(p) PROVE RCPInv'
    <2>1. proc[p] \in ProcRecord /\ ProcSound(proc[p])
        BY <1>1, ProcTypes, OfProc
    <2>2. Leased(proc[p].case) /\ proc[p].case \in planned /\ Receipted(proc[p].case)
        BY <2>1, <1>30, AtPc DEF LookPulls
    <2>3. \A pc \in PublishPcs : /\ [proc[p] EXCEPT !.pc = pc] \in ProcRecord
                                 /\ ProcSound([proc[p] EXCEPT !.pc = pc])
        <3>1. PublishPcs \subseteq Pcs \ TransitionPcs /\ "saveReceipt" \notin PublishPcs
            BY DEF Pcs, TransitionPcs, PublishPcs
        <3>2. QED
            BY <2>1, <2>2, <3>1, AdvanceSound
    <2>4. Finished(proc[p]) \in ProcRecord /\ ProcSound(Finished(proc[p]))
        BY <2>1, FinishedType, FinishedSound
    <2>8. PICK q \in ProcRecord : Set(p, q) /\ ProcSound(q)
        BY <1>30, <2>3, <2>4 DEF LookPulls, PublishPcs
    <2>9. QED
        BY <1>1, <1>30, <2>8, ProcOnlySound DEF LookPulls, storeVars, githubVars, ledgerVars
<1>31. ASSUME NEW p \in Procs, RecordPull(p) PROVE RCPInv'
    <2>1. proc[p] \in ProcRecord /\ ProcSound(proc[p])
        BY <1>1, ProcTypes, OfProc
    <2>2. Leased(proc[p].case) /\ proc[p].case \in planned /\ Receipted(proc[p].case)
        BY <2>1, <1>31, AtPc DEF RecordPull
    <2>3. \A pc \in PublishPcs : /\ [proc[p] EXCEPT !.pc = pc] \in ProcRecord
                                 /\ ProcSound([proc[p] EXCEPT !.pc = pc])
        <3>1. PublishPcs \subseteq Pcs \ TransitionPcs /\ "saveReceipt" \notin PublishPcs
            BY DEF Pcs, TransitionPcs, PublishPcs
        <3>2. QED
            BY <2>1, <2>2, <3>1, AdvanceSound
    <2>4. Finished(proc[p]) \in ProcRecord /\ ProcSound(Finished(proc[p]))
        BY <2>1, FinishedType, FinishedSound
    <2>5. /\ Begin(proc[p], "DRAFT_PR", "done") \in ProcRecord
          /\ ProcSound(Begin(proc[p], "DRAFT_PR", "done"))
        BY <2>1, <2>2, MoveTypes, BeginType, BeginSound
    <2>8. PICK q \in ProcRecord : Set(p, q) /\ ProcSound(q)
        BY <1>31, <2>5 DEF RecordPull
    <2>9. QED
        BY <1>1, <1>31, <2>8, ProcOnlySound DEF RecordPull, storeVars, githubVars, ledgerVars
<1>32. ASSUME NEW p \in Procs, GitHubFails(p) PROVE RCPInv'
    <2>1. proc[p] \in ProcRecord /\ ProcSound(proc[p])
        BY <1>1, ProcTypes, OfProc
    <2>2. Finished(proc[p]) \in ProcRecord /\ ProcSound(Finished(proc[p]))
        BY <2>1, FinishedType, FinishedSound
    <2>8. PICK q \in ProcRecord : Set(p, q) /\ ProcSound(q)
        BY <1>32, <2>2 DEF GitHubFails
    <2>9. QED
        BY <1>1, <1>32, <2>8, ProcOnlySound DEF GitHubFails, storeVars, githubVars, ledgerVars
<1>33. ASSUME NEW p \in Procs, NEW answered \in BOOLEAN, CreateBranch(p, answered) PROVE RCPInv'
    <2>1. proc[p] \in ProcRecord /\ ProcSound(proc[p])
        BY <1>1, ProcTypes, OfProc
    <2>2. Leased(proc[p].case) /\ proc[p].case \in planned /\ Receipted(proc[p].case)
        BY <2>1, <1>33, AtPc DEF CreateBranch
    <2>3. \A pc \in PublishPcs : /\ [proc[p] EXCEPT !.pc = pc] \in ProcRecord
                                 /\ ProcSound([proc[p] EXCEPT !.pc = pc])
        <3>1. PublishPcs \subseteq Pcs \ TransitionPcs /\ "saveReceipt" \notin PublishPcs
            BY DEF Pcs, TransitionPcs, PublishPcs
        <3>2. QED
            BY <2>1, <2>2, <3>1, AdvanceSound
    <2>4. Finished(proc[p]) \in ProcRecord /\ ProcSound(Finished(proc[p]))
        BY <2>1, FinishedType, FinishedSound
    <2>5. PICK x \in ProcRecord : Set(p, x) /\ ProcSound(x)
        BY <1>33, <2>3, <2>4 DEF CreateBranch, PublishPcs
    <2>6. /\ UNCHANGED <<caseState, lease, planned, receipted, recorded, known>>
          /\ \A d \in Cases \ {proc[p].case} : branch'[d] = branch[d] /\ pulls'[d] = pulls[d]
        BY <1>1, <1>33 DEF CreateBranch, storeVars, ledgerVars, TypeOK, GitHubTypeOK
    <2>7. ProcSound(x)'
        BY <2>5, <2>6 DEF ProcSound, Leased, Receipted, Witnessed
    <2>8. ASSUME NEW d \in Cases PROVE CaseSound(d)'
        <3>1. CaseSound(d)
            BY DEF RCPInv
        <3>2. QED
            BY <2>2, <2>6, <3>1 DEF CaseSound, Leased, Receipted, Witnessed, OnGitHub
    <2>9. QED
        BY <1>1, <1>2, <2>5, <2>6, <2>7, <2>8, StepSound DEF Leased
<1>34. ASSUME NEW p \in Procs, NEW answered \in BOOLEAN, OpenPull(p, answered) PROVE RCPInv'
    <2>1. proc[p] \in ProcRecord /\ ProcSound(proc[p])
        BY <1>1, ProcTypes, OfProc
    <2>2. Leased(proc[p].case) /\ proc[p].case \in planned /\ Receipted(proc[p].case)
        BY <2>1, <1>34, AtPc DEF OpenPull
    <2>3. \A pc \in PublishPcs : /\ [proc[p] EXCEPT !.pc = pc] \in ProcRecord
                                 /\ ProcSound([proc[p] EXCEPT !.pc = pc])
        <3>1. PublishPcs \subseteq Pcs \ TransitionPcs /\ "saveReceipt" \notin PublishPcs
            BY DEF Pcs, TransitionPcs, PublishPcs
        <3>2. QED
            BY <2>1, <2>2, <3>1, AdvanceSound
    <2>4. Finished(proc[p]) \in ProcRecord /\ ProcSound(Finished(proc[p]))
        BY <2>1, FinishedType, FinishedSound
    <2>5. PICK x \in ProcRecord : Set(p, x) /\ ProcSound(x)
        BY <1>34, <2>3, <2>4 DEF OpenPull, PublishPcs
    <2>6. /\ UNCHANGED <<caseState, lease, planned, receipted, recorded, known>>
          /\ \A d \in Cases \ {proc[p].case} : branch'[d] = branch[d] /\ pulls'[d] = pulls[d]
        BY <1>1, <1>34 DEF OpenPull, storeVars, ledgerVars, TypeOK, GitHubTypeOK
    <2>7. ProcSound(x)'
        BY <2>5, <2>6 DEF ProcSound, Leased, Receipted, Witnessed
    <2>8. ASSUME NEW d \in Cases PROVE CaseSound(d)'
        <3>1. CaseSound(d)
            BY DEF RCPInv
        <3>2. QED
            BY <2>2, <2>6, <3>1 DEF CaseSound, Leased, Receipted, Witnessed, OnGitHub
    <2>9. QED
        BY <1>1, <1>2, <2>5, <2>6, <2>7, <2>8, StepSound DEF Leased
<1>35. ASSUME NEW p \in Procs, HandleException(p) PROVE RCPInv'
    <2>1. proc[p] \in ProcRecord /\ ProcSound(proc[p])
        BY <1>1, ProcTypes, OfProc
    <2> DEFINE r == [proc[p] EXCEPT !.mode = "handle"]
    <2>2. r \in ProcRecord /\ r.case = proc[p].case /\ r.seen = proc[p].seen
        BY <1>1, ProcTypes DEF ProcRecord
    <2>3. "FAILED" \notin InFlight \union {"DRAFT_PR"} \union Announced
        BY DEF InFlight, Announced
    <2>4. /\ ProcSound(Begin(r, "FAILED", "done"))
          /\ Begin(r, "FAILED", "done") \in ProcRecord
        BY <1>1, <2>2, <2>3, OfProc, MoveTypes, BeginSound, BeginType
    <2>5. ProcSound(Finished(proc[p])) /\ Finished(proc[p]) \in ProcRecord
        BY <2>1, FinishedSound, FinishedType
    <2>8. PICK q \in ProcRecord : Set(p, q) /\ ProcSound(q)
        BY <1>35, <2>4, <2>5 DEF HandleException
    <2>9. QED
        BY <1>1, <1>35, <2>8, ProcOnlySound DEF HandleException, storeVars, githubVars, ledgerVars
<1>36. ASSUME World \/ UNCHANGED vars PROVE RCPInv'
    <2>1. UNCHANGED <<soundVars, proc>>
        BY <1>36 DEF World, Tick, Push, ClosePull, vars, storeVars, githubVars,
                   ledgerVars
    <2>2. \A p \in Procs : ProcSound(proc[p])'
        BY <2>1 DEF RCPInv, ProcSound, Leased, Receipted, Witnessed
    <2>3. \A c \in Cases : CaseSound(c)'
        BY <2>1 DEF RCPInv, CaseSound, Leased, Receipted, Witnessed, OnGitHub
    <2>4. QED
        BY <1>1, <2>1, <2>2, <2>3 DEF RCPInv
<1>37. QED
    BY PublishType, <1>3, <1>4, <1>5, <1>6, <1>7, <1>8, <1>9, <1>10,
       <1>11, <1>12, <1>13, <1>14, <1>15, <1>16, <1>17, <1>18, <1>19,
       <1>20, <1>21, <1>22, <1>23, <1>24, <1>25, <1>26, <1>27, <1>28,
       <1>29, <1>30, <1>31, <1>32, <1>33, <1>34, <1>35, <1>36
       DEF Next, RunStep, Transition, Command

(* What every process has to know holds, in any number of processes.       *)
THEOREM SafetyInvariant == Spec => []RCPInv
BY InitSound, SoundStep, PTL DEF Spec

(* Nothing above the ceiling is carried out, or reaches GitHub, without a  *)
(* human's lease, whatever commands race (policy.py:30, engine.py:168-184). *)
THEOREM AuthorityHolds == Spec => []AutonomyCeiling
<1>1. RCPInv => AutonomyCeiling
    BY DEF RCPInv, CaseSound, AutonomyCeiling
<1>2. QED
    BY <1>1, SafetyInvariant, PTL

(* Nothing is announced or published without a plan, a recorded proof and  *)
(* its receipt (RCP.md:12-28, engine.py:222-251).                          *)
THEOREM ReceiptHolds == Spec => []ReceiptBeforePublish
<1>1. RCPInv => ReceiptBeforePublish
    BY DEF RCPInv, CaseSound, ReceiptBeforePublish
<1>2. QED
    BY <1>1, SafetyInvariant, PTL

-----------------------------------------------------------------------------
(* RCP implements RemediationPromise.                                      *)

authorityBar == [c \in Cases |-> IF ~Leased(c) THEN "none"
                                 ELSE IF lease[c].human THEN "human" ELSE "auto"]
publishedBar == {c \in Cases : OnGitHub(c)}

LEMMA PromiseInit == Init => Promise!Init
<1> SUFFICES ASSUME Init PROVE Promise!Init
    OBVIOUS
<1>1. \A c \in Cases : ~Leased(c) /\ ~OnGitHub(c)
    BY DEF Init, Leased, OnGitHub
<1>2. QED
    BY <1>1 DEF Init, Promise!Init

LEMMA PromiseStep == RCPInv /\ RCPInv' /\ [Next]_vars => [Promise!Next]_(Promise!vars)
<1> SUFFICES ASSUME RCPInv, RCPInv', [Next]_vars
             PROVE  [Promise!Next]_(Promise!vars)
    OBVIOUS
<1>1. TypeOK
    BY DEF RCPInv
<1>2. ASSUME UNCHANGED <<lease, receipted, branch, pulls>>
      PROVE  UNCHANGED Promise!vars
    BY <1>2 DEF Promise!vars, Leased, OnGitHub
<1>3. ASSUME NEW p \in Procs, SaveLease(p)
      PROVE  Promise!Next
    <2>1. PICK c \in Cases : c = proc[p].case
        BY <1>1, ProcTypes
    <2> DEFINE l == [expires |-> now + LeaseTerm, human |-> proc[p].human]
    <2>2. PICK who \in {"auto", "human"} : who = IF l.human THEN "human" ELSE "auto"
        OBVIOUS
    <2>3. /\ l # NoLease /\ l.human \in BOOLEAN
          /\ Repair[c] \notin {"none", "unbounded"}
          /\ l.human \/ Risk[c] <= AutoMax
        <3>1. now + LeaseTerm # 0
            BY <1>1, RCPAssumption DEF RCPAssumption, TypeOK
        <3>2. Risk[c] \in Nat /\ AutoMax \in Nat
            BY RCPAssumption DEF RCPAssumption
        <3>3. QED
            BY <1>1, <1>3, <2>1, <3>1, <3>2, ProcTypes DEF SaveLease, IssueDenied, NoLease
    <2>4. lease' = [lease EXCEPT ![c] = l] /\ lease \in [Cases -> Leases]
          /\ UNCHANGED <<receipted, branch, pulls>>
        BY <1>1, <1>3, <2>1 DEF SaveLease, githubVars, TypeOK, StoreTypeOK
    <2>5. authorityBar' = [authorityBar EXCEPT ![c] = who]
        BY <2>2, <2>3, <2>4 DEF authorityBar, Leased
    <2>6. publishedBar' = publishedBar
        BY <2>4 DEF publishedBar, OnGitHub
    <2>7. Promise!Authorize(c, who)
        BY <2>2, <2>3, <2>4, <2>5, <2>6
           DEF Promise!Authorize, authorityBar, publishedBar
    <2>8. QED
        BY <2>7 DEF Promise!Next
<1>4. ASSUME NEW p \in Procs, SaveReceipt(p)
      PROVE  Promise!Next
    <2>1. PICK c \in Cases : c = proc[p].case
        BY <1>1, ProcTypes
    <2>2. Leased(c)
        BY <1>1, <1>4, <2>1, ProcTypes, OfProc, AtPc DEF SaveReceipt
    <2>3. receipted' = receipted \union {c} /\ UNCHANGED <<lease, branch, pulls>>
        BY <1>4, <2>1 DEF SaveReceipt, githubVars
    <2>4. authorityBar' = authorityBar /\ publishedBar' = publishedBar
        BY <2>3 DEF authorityBar, publishedBar, Leased, OnGitHub
    <2>5. Promise!Prove(c)
        BY <2>2, <2>3, <2>4 DEF Promise!Prove, authorityBar, publishedBar
    <2>6. QED
        BY <2>5 DEF Promise!Next
<1>5. ASSUME NEW p \in Procs, NEW answered \in BOOLEAN,
             CreateBranch(p, answered) \/ OpenPull(p, answered)
      PROVE  Promise!Next \/ UNCHANGED Promise!vars
    <2>1. PICK c \in Cases : c = proc[p].case
        BY <1>1, ProcTypes
    <2>2. c \in receipted
        BY <1>1, <1>5, <2>1, ProcTypes, OfProc, AtPc
           DEF CreateBranch, OpenPull, Receipted
    <2>3. /\ UNCHANGED <<lease, receipted>>
          /\ \A d \in Cases \ {c} : OnGitHub(d)' <=> OnGitHub(d)
          /\ OnGitHub(c) => OnGitHub(c)'
        <3>1. \A d \in Cases \ {c} : branch'[d] = branch[d] /\ pulls'[d] = pulls[d]
            BY <1>1, <1>5, <2>1 DEF CreateBranch, OpenPull, TypeOK, GitHubTypeOK
        <3>2. branch[c] # NoCommit => branch'[c] # NoCommit
            BY <1>1, <1>5, <2>1 DEF CreateBranch, OpenPull, TypeOK, GitHubTypeOK
        <3>3. pulls[c] > 0 => pulls'[c] > 0
            BY <1>1, <1>5, <2>1 DEF CreateBranch, OpenPull, TypeOK, GitHubTypeOK
        <3>4. UNCHANGED <<lease, receipted>>
            BY <1>5 DEF CreateBranch, OpenPull, storeVars
        <3>5. QED
            BY <3>1, <3>2, <3>3, <3>4 DEF OnGitHub, NoCommit
    <2>4. authorityBar' = authorityBar
        BY <2>3 DEF authorityBar, Leased
    <2>5. publishedBar' = publishedBar \/ publishedBar' = publishedBar \union {c}
        BY <2>3 DEF publishedBar
    <2>6. CASE publishedBar' = publishedBar
        BY <2>3, <2>4, <2>6 DEF Promise!vars, authorityBar, publishedBar
    <2>7. CASE publishedBar' = publishedBar \union {c}
        <3>1. Promise!Publish(c)
            BY <2>2, <2>3, <2>4, <2>7 DEF Promise!Publish, authorityBar, publishedBar
        <3>2. QED
            BY <3>1 DEF Promise!Next
    <2>8. QED
        BY <2>5, <2>6, <2>7
<1>6. ASSUME NEW p \in Procs,
             Start(p) \/ Crash(p) \/ Command(p) \/ RunStep(p),
             ~SaveLease(p), ~SaveReceipt(p),
             \A answered \in BOOLEAN : ~CreateBranch(p, answered) /\ ~OpenPull(p, answered)
      PROVE  UNCHANGED <<lease, receipted, branch, pulls>>
    <2> USE DEF storeVars, githubVars
    <2>1. Start(p) \/ Crash(p) \/ Exit(p) => UNCHANGED <<lease, receipted, branch, pulls>>
        BY DEF Start, Crash, Exit
    <2>2. Command(p) => UNCHANGED <<lease, receipted, branch, pulls>>
        BY DEF Command, Scan, RunQueue, RecoverInflight, RunCase
    <2>3. Transition(p) => UNCHANGED <<lease, receipted, branch, pulls>>
        BY DEF Transition, GetCase, ObserveMove, CheckMove, UpdateMove, ReloadCase
    <2>4. \/ IngestLook(p) \/ UpsertCase(p) \/ RunNext(p) \/ Deny(p)
          \/ ResumeCase(p) \/ HandleException(p)
          => UNCHANGED <<lease, receipted, branch, pulls>>
        BY DEF IngestLook, UpsertCase, RunNext, Deny, ResumeCase, HandleException
    <2>5. \/ BuildPlan(p) \/ StartMaterialize(p) \/ FinishMaterialize(p)
          \/ MaterializeCollides(p) \/ Verify(p) \/ ObserveProof(p)
          => UNCHANGED <<lease, receipted, branch, pulls>>
        BY DEF BuildPlan, StartMaterialize, FinishMaterialize,
               MaterializeCollides, Verify, ObserveProof
    <2>6. \/ StartPublish(p) \/ LookBranch(p) \/ LookPulls(p) \/ RecordPull(p)
          \/ GitHubFails(p)
          => UNCHANGED <<lease, receipted, branch, pulls>>
        BY DEF StartPublish, LookBranch, LookPulls, RecordPull, GitHubFails
    <2>7. QED
        BY <1>6, <2>1, <2>2, <2>3, <2>4, <2>5, <2>6 DEF RunStep
<1>7. ASSUME World \/ UNCHANGED vars
      PROVE  UNCHANGED <<lease, receipted, branch, pulls>>
    BY <1>7 DEF World, Tick, Push, ClosePull, vars, storeVars, githubVars
<1>8. QED
    BY <1>2, <1>3, <1>4, <1>5, <1>6, <1>7 DEF Next

(* The control plane keeps its promise of every case: no proof without     *)
(* authority, nothing on GitHub without proof, and authority above the     *)
(* ceiling from a human only.                                              *)
THEOREM ImplementsPromise == Spec => KeepsPromise
BY PromiseInit, PromiseStep, SafetyInvariant, PTL
   DEF Spec, KeepsPromise, Promise!Spec

-----------------------------------------------------------------------------
(* How processes move: one at a time, and to the points of _transition     *)
(* where the store is about to change by one action only.                  *)

LEMMA FinishedPc ==
    ASSUME NEW r
    PROVE  Finished(r).pc \in {"exit", "findings", "next"}
BY DEF Finished, Idle

LEMMA RaisedPc ==
    ASSUME NEW r \in ProcRecord
    PROVE  Raised(r).pc \in {"exit", "findings", "next", "except"}
<1>1. [r EXCEPT !.pc = "except", !.ret = "done", !.base = NoCommit].pc = "except"
    BY DEF ProcRecord
<1>2. Idle("exit", {}, FALSE).pc = "exit"
    BY IdleFields
<1>3. QED
    BY <1>1, <1>2, FinishedPc DEF Raised

LEMMA BeginFields ==
    ASSUME NEW r \in ProcRecord, NEW to, NEW ret
    PROVE  /\ Begin(r, to, ret).pc = "get"
           /\ Begin(r, to, ret).to = to
           /\ Begin(r, to, ret).case = r.case
BY DEF Begin, ProcRecord

LEMMA GoToPc ==
    ASSUME NEW r \in ProcRecord, NEW pc \in Places
    PROVE  \/ GoTo(r, pc).pc \in {"exit", "findings", "next", "get"}
           \/ /\ pc \in {"plan", "verify", "receipt", "publish"}
              /\ GoTo(r, pc) = [r EXCEPT !.pc = pc]
              /\ GoTo(r, pc).pc = pc
<1>1. CASE pc = "done"
    BY <1>1, FinishedPc DEF GoTo
<1>2. CASE pc \in {"claim", "patch", "markReady"}
    BY <1>2, BeginFields DEF GoTo
<1>3. CASE pc \in {"plan", "verify", "receipt", "publish"}
    BY <1>3 DEF GoTo, ProcRecord
<1>4. QED
    BY <1>1, <1>2, <1>3 DEF Places

LEMMA ReturnedPc ==
    ASSUME NEW r \in ProcRecord, NEW st \in CaseStates \union {"ABSENT"}
    PROVE  Returned(r, st).pc \in {"exit", "findings", "next", "get", "plan",
                                   "verify", "receipt", "publish"}
<1>1. r.ret \in Rets
    BY DEF ProcRecord
<1>2. [r EXCEPT !.seen = st, !.from = "ABSENT", !.to = "ABSENT",
                !.ret = "done"] \in ProcRecord
    BY DEF ProcRecord, Rets
<1>3. QED
    BY <1>1, <1>2, ContinueAtPlaces, GoToPc DEF Returned

(* The points that are reached by one action of the process only.          *)
KeyPcs == {"observe", "check", "update", "commit"}

(* The next record of a process that runs one step.                        *)
LEMMA OneMoves ==
    ASSUME TypeOK, NEW p \in Procs, NEW r, Set(p, r)
    PROVE  proc'[p] = r /\ \A q \in Procs \ {p} : proc'[q] = proc[q]
BY DEF Set, TypeOK

LEMMA Arrival ==
    ASSUME TypeOK, NEW p \in Procs,
           Start(p) \/ Crash(p) \/ Command(p) \/ RunStep(p)
    PROVE  /\ \A q \in Procs \ {p} : proc'[q] = proc[q]
           /\ \/ proc'[p].pc \notin KeyPcs
              \/ GetCase(p) \/ ObserveMove(p) \/ CheckMove(p) \/ LookBranch(p)
<1> DEFINE Quietly == \E r : Set(p, r) /\ r.pc \notin KeyPcs
<1> DEFINE r == proc[p]
<1>1. r \in ProcRecord
    BY ProcTypes
<1>2. /\ Finished(r).pc \notin KeyPcs
      /\ Raised(r).pc \notin KeyPcs
      /\ \A st \in CaseStates \union {"ABSENT"} : Returned(r, st).pc \notin KeyPcs
      /\ \A to, ret : Begin(r, to, ret).pc \notin KeyPcs
    BY <1>1, FinishedPc, RaisedPc, ReturnedPc, BeginFields DEF KeyPcs
<1>3. \A pc, todo, publish : pc \notin KeyPcs => Idle(pc, todo, publish).pc \notin KeyPcs
    BY IdleFields
<1>4. \A pc : [r EXCEPT !.pc = pc].pc = pc
    BY <1>1 DEF ProcRecord
<1>5. Start(p) \/ Crash(p) \/ Exit(p) => Quietly
    BY <1>3 DEF Start, Crash, Exit, KeyPcs
<1>6. \A c \in Cases, human \in BOOLEAN, publish \in BOOLEAN : StartRun(p, c, human, publish) => Quietly
    <2> TAKE c \in Cases, human \in BOOLEAN, publish \in BOOLEAN
    <2> DEFINE q == [Idle("ready", r.todo \ {c}, publish) EXCEPT
                       !.case = c, !.seen = caseState[c], !.human = human]
    <2>1. Finished(q).pc \notin KeyPcs
        BY FinishedPc DEF KeyPcs
    <2>2. \A pc : [q EXCEPT !.pc = pc].pc = pc
        BY DEF Idle
    <2>3. QED
        BY <2>1, <2>2 DEF StartRun, KeyPcs
<1>7. Command(p) => Quietly
    <2>1. Scan(p) => Quietly
        BY <1>3 DEF Scan, KeyPcs
    <2>2. \A publish : RunQueue(p, publish) \/ RecoverInflight(p, publish) => Quietly
        BY <1>3 DEF RunQueue, RecoverInflight, KeyPcs
    <2>3. \A c \in Cases, human \in BOOLEAN, publish \in PublishModes : RunCase(p, c, human, publish) => Quietly
        BY <1>6, PublishType DEF RunCase
    <2>4. QED
        BY <2>1, <2>2, <2>3 DEF Command
<1>8. RunNext(p) => Quietly
    BY <1>6, ProcTypes DEF RunNext
<1>9. UpdateMove(p) \/ ReloadCase(p) => Quietly
    BY <1>2, <1>4, ProcTypes DEF UpdateMove, ReloadCase, KeyPcs
<1>10. IngestLook(p) \/ UpsertCase(p) => Quietly
    <2>1. IngestLook(p) => Quietly
        <3>1. \A c : [Idle("upsert", r.todo \ {c}, FALSE) EXCEPT
                    !.case = c, !.mode = "scan", !.seen = caseState[c]].pc = "upsert"
            BY DEF Idle
        <3>2. QED
            BY <3>1 DEF IngestLook, KeyPcs
    <2>2. UpsertCase(p) => Quietly
        BY <1>2 DEF UpsertCase
    <2>3. QED
        BY <2>1, <2>2
<1>11. Deny(p) \/ SaveLease(p) => Quietly
    <2>1. Deny(p) => Quietly
        BY <1>2 DEF Deny
    <2>2. SaveLease(p) => Quietly
        <3>1. \A l, to, ret : Begin([r EXCEPT !.lease = l], to, ret).pc = "get"
            BY <1>1 DEF Begin, ProcRecord
        <3>2. QED
            BY <3>1 DEF SaveLease, KeyPcs
    <2>3. QED
        BY <2>1, <2>2
<1>12. ResumeCase(p) => Quietly
    <2> DEFINE q == [r EXCEPT !.lease = lease[r.case]]
    <2>1. q \in ProcRecord
        BY <1>1, ProcTypes DEF ProcRecord
    <2>2. AtClaim(r.seen) \in Places
        BY DEF AtClaim, AtPatch, Places
    <2>3. GoTo(q, AtClaim(r.seen)).pc \notin KeyPcs
        BY <2>1, <2>2, GoToPc DEF KeyPcs
    <2>4. QED
        BY <1>2, <2>3 DEF ResumeCase
<1>13. BuildPlan(p) \/ StartMaterialize(p) \/ FinishMaterialize(p) \/ MaterializeCollides(p) => Quietly
    BY <1>2, <1>4 DEF BuildPlan, StartMaterialize, FinishMaterialize,
                      MaterializeCollides, KeyPcs
<1>14. Verify(p) => Quietly
    <2>1. AtReceipt(r.seen, r.publish) \in Places
        BY DEF AtReceipt, AtReady, AtPublish, Places
    <2>2. GoTo(r, AtReceipt(r.seen, r.publish)).pc \notin KeyPcs
        BY <1>1, <2>1, GoToPc DEF KeyPcs
    <2>3. QED
        BY <1>2, <2>2 DEF Verify
<1>15. ObserveProof(p) \/ SaveReceipt(p) \/ StartPublish(p) \/ RecordPull(p) => Quietly
    <2>1. \A base : [r EXCEPT !.pc = "ref", !.base = base].pc = "ref"
        BY <1>1 DEF ProcRecord
    <2>2. QED
        BY <1>2, <1>4, <2>1 DEF ObserveProof, SaveReceipt, StartPublish, RecordPull, KeyPcs
<1>16. LookPulls(p) \/ GitHubFails(p) => Quietly
    <2>1. [r EXCEPT !.pc = IF r.case \in pullOpen THEN "record" ELSE "open"].pc \notin KeyPcs
        BY <1>4 DEF KeyPcs
    <2>2. QED
        BY <1>2, <2>1 DEF LookPulls, GitHubFails
<1>17. \A answered : CreateBranch(p, answered) \/ OpenPull(p, answered) => Quietly
    BY <1>2, <1>4 DEF CreateBranch, OpenPull, KeyPcs
<1>18. HandleException(p) => Quietly
    <2>1. \A to, ret : Begin([r EXCEPT !.mode = "handle"], to, ret).pc = "get"
        BY <1>1 DEF Begin, ProcRecord
    <2>2. QED
        BY <1>2, <2>1 DEF HandleException, KeyPcs
<1>19. Quietly \/ GetCase(p) \/ ObserveMove(p) \/ CheckMove(p) \/ LookBranch(p)
    BY <1>5, <1>7, <1>8, <1>9, <1>10, <1>11, <1>12, <1>13, <1>14, <1>15, <1>16,
       <1>17, <1>18 DEF RunStep, Transition
<1>20. Quietly => proc'[p].pc \notin KeyPcs /\ \A q \in Procs \ {p} : proc'[q] = proc[q]
    BY OneMoves
<1>21. GetCase(p) \/ ObserveMove(p) \/ CheckMove(p) \/ LookBranch(p) =>
          \A q \in Procs \ {p} : proc'[q] = proc[q]
    BY OneMoves DEF GetCase, ObserveMove, CheckMove, LookBranch
<1>22. QED
    BY <1>19, <1>20, <1>21

(* Which steps change what the invariants below speak of.                  *)
LEMMA Changes ==
    ASSUME NEW p \in Procs,
           Start(p) \/ Crash(p) \/ Command(p) \/ RunStep(p)
    PROVE  /\ UNCHANGED caseState \/ UpdateMove(p) \/ UpsertCase(p)
           /\ UNCHANGED moves \/ UpdateMove(p)
           /\ \/ UNCHANGED <<branch, pulls>>
              \/ \E answered \in BOOLEAN : CreateBranch(p, answered)
              \/ \E answered \in BOOLEAN : OpenPull(p, answered)
           /\ UNCHANGED draftPr \/ RecordPull(p)
           /\ \/ UNCHANGED ledgerVars
              \/ OpenLedger(p) \/ CloseLedger(p)
              \/ ObserveMove(p) \/ ObserveProof(p)
<1> USE DEF storeVars, githubVars
<1>1. CASE Start(p) \/ Crash(p) \/ Exit(p)
    BY <1>1 DEF Start, Crash, Exit
<1>2. CASE Command(p)
    BY <1>2 DEF Command, Scan, RunQueue, RecoverInflight, RunCase
<1>3. CASE Transition(p)
    BY <1>3 DEF Transition, GetCase, ObserveMove, CheckMove, UpdateMove, ReloadCase
<1>4. CASE \/ IngestLook(p) \/ UpsertCase(p) \/ RunNext(p) \/ Deny(p) \/ SaveLease(p)
           \/ ResumeCase(p) \/ HandleException(p)
    BY <1>4 DEF IngestLook, UpsertCase, RunNext, Deny, SaveLease, ResumeCase,
                HandleException
<1>5. CASE \/ BuildPlan(p) \/ StartMaterialize(p) \/ FinishMaterialize(p)
           \/ MaterializeCollides(p) \/ Verify(p) \/ ObserveProof(p) \/ SaveReceipt(p)
    BY <1>5 DEF BuildPlan, StartMaterialize, FinishMaterialize,
                MaterializeCollides, Verify, ObserveProof, SaveReceipt
<1>6. CASE StartPublish(p) \/ LookBranch(p) \/ LookPulls(p) \/ RecordPull(p)
           \/ GitHubFails(p)
    BY <1>6 DEF StartPublish, LookBranch, LookPulls, RecordPull, GitHubFails
<1>7. CASE \E answered \in BOOLEAN : CreateBranch(p, answered) \/ OpenPull(p, answered)
    BY <1>7 DEF CreateBranch, OpenPull
<1>8. QED
    BY <1>1, <1>2, <1>3, <1>4, <1>5, <1>6, <1>7 DEF RunStep

LEMMA WorldChanges ==
    ASSUME World \/ UNCHANGED vars
    PROVE  UNCHANGED <<proc, storeVars, branch, pulls, ledgerVars>>
BY DEF World, Tick, Push, ClosePull, vars, storeVars, githubVars

(* The ledger only grows, and no process knows more than it holds.         *)
LEMMA LedgerGrows ==
    ASSUME TypeOK, \A q \in Procs : known[q] \subseteq recorded,
           NEW p \in Procs, Start(p) \/ Crash(p) \/ Command(p) \/ RunStep(p)
    PROVE  /\ recorded \subseteq recorded'
           /\ \A q \in Procs : known'[q] \subseteq recorded'
<1>1. MoveKey(proc[p].case, proc[p].from, proc[p].to) \in EventKeys
    BY ProcTypes, NoLeaseType DEF MoveKey, EventKeys
<1>2. ProofKey(proc[p].case, proc[p].lease) \in EventKeys
    BY ProcTypes, MoveTypes DEF ProofKey, EventKeys
<1>3. CASE UNCHANGED ledgerVars
    BY <1>3 DEF ledgerVars
<1>4. CASE OpenLedger(p) \/ CloseLedger(p)
    BY <1>4, LedgerFacts
<1>5. CASE ObserveMove(p)
    BY <1>1, <1>5, LedgerFacts DEF ObserveMove
<1>6. CASE ObserveProof(p)
    BY <1>2, <1>6, LedgerFacts DEF ObserveProof
<1>7. QED
    BY <1>3, <1>4, <1>5, <1>6, Changes

-----------------------------------------------------------------------------
(* StatesWitnessed and BranchRootedAtCaseBase, for any number of processes. *)

(* The events include one that takes the case to the state.                *)
Asked(events, c, st) == \E k \in events : k.case = c /\ k.to = st

(* Between observe_once and the UPDATE a process holds a state the ledger  *)
(* has an event for, though another process may meanwhile have moved the   *)
(* case; between the look at the branch and its creation it holds a base   *)
(* that has not moved.                                                     *)
WitnessInv ==
    /\ TypeOK
    /\ StatesWitnessed
    /\ BranchRootedAtCaseBase
    /\ \A p \in Procs :
          /\ known[p] \subseteq recorded
          /\ proc[p].pc \in {"check", "update"} => Asked(recorded, proc[p].case, proc[p].to)
          /\ proc[p].pc = "commit" => ~BaseMoved(proc[p])

LEMMA WitnessInit == Init => WitnessInv
<1> SUFFICES ASSUME Init PROVE WitnessInv
    OBVIOUS
<1>1. TypeOK
    BY InitType
<1>2. StatesWitnessed /\ BranchRootedAtCaseBase
    BY DEF Init, StatesWitnessed, BranchRootedAtCaseBase
<1>3. ASSUME NEW p \in Procs PROVE proc[p].pc = "off" /\ known[p] = {}
    BY IdleFields DEF Init, LedgerInit
<1>4. QED
    BY <1>1, <1>2, <1>3 DEF WitnessInv

(* A case keeps its state, is first stored, or takes the state that an     *)
(* update moves it to.                                                     *)
LEMMA CaseMoves ==
    ASSUME TypeOK, NEW p \in Procs, NEW c \in Cases,
           Start(p) \/ Crash(p) \/ Command(p) \/ RunStep(p)
    PROVE  \/ caseState'[c] = caseState[c]
           \/ UpsertCase(p) /\ caseState[c] = "ABSENT" /\ caseState'[c] = "DISCOVERED"
           \/ UpdateMove(p) /\ c = proc[p].case /\ caseState'[c] = proc[p].to
<1>1. CASE UpdateMove(p)
    BY <1>1 DEF UpdateMove, TypeOK, StoreTypeOK
<1>2. CASE UpsertCase(p)
    BY <1>2 DEF UpsertCase, Upserted, TypeOK, StoreTypeOK
<1>3. QED
    BY <1>1, <1>2, Changes

LEMMA WitnessStep == WitnessInv /\ [Next]_vars => WitnessInv'
<1> SUFFICES ASSUME WitnessInv, [Next]_vars PROVE WitnessInv'
    OBVIOUS
<1>1. /\ TypeOK /\ TypeOK' /\ StatesWitnessed /\ BranchRootedAtCaseBase
      /\ \A p \in Procs :
            /\ known[p] \subseteq recorded
            /\ proc[p].pc \in {"check", "update"} => Asked(recorded, proc[p].case, proc[p].to)
            /\ proc[p].pc = "commit" => ~BaseMoved(proc[p])
    BY TypeStep DEF WitnessInv
<1>2. ASSUME World \/ UNCHANGED vars PROVE WitnessInv'
    BY <1>1, <1>2, WorldChanges
       DEF WitnessInv, StatesWitnessed, BranchRootedAtCaseBase, Asked, BaseMoved,
           NoCommit, storeVars, ledgerVars
<1>3. ASSUME NEW p \in Procs, Start(p) \/ Crash(p) \/ Command(p) \/ RunStep(p)
      PROVE  WitnessInv'
    <2>1. /\ recorded \subseteq recorded'
          /\ \A q \in Procs : known'[q] \subseteq recorded'
        BY <1>1, <1>3, LedgerGrows
    <2>2. \A c, st : Asked(recorded, c, st) => Asked(recorded', c, st)
        BY <2>1 DEF Asked
    <2>3. StatesWitnessed'
        <3> SUFFICES ASSUME NEW c \in Cases, caseState'[c] \notin {"ABSENT", "DISCOVERED"}
                     PROVE  Asked(recorded', c, caseState'[c])
            BY DEF StatesWitnessed, Asked
        <3>1. CASE caseState'[c] = caseState[c]
            <4>1. Asked(recorded, c, caseState[c])
                BY <1>1, <3>1 DEF StatesWitnessed, Asked
            <4>2. QED
                BY <2>1, <3>1, <4>1 DEF Asked
        <3>2. CASE UpdateMove(p) /\ c = proc[p].case /\ caseState'[c] = proc[p].to
            <4>1. Asked(recorded, c, proc[p].to)
                BY <1>1, <3>2 DEF UpdateMove
            <4>2. QED
                BY <2>1, <3>2, <4>1 DEF Asked
        <3>3. QED
            BY <1>1, <1>3, <3>1, <3>2, CaseMoves
    <2>4. BranchRootedAtCaseBase'
        <3> SUFFICES ASSUME NEW c \in Cases \ Unpinned, branch'[c] # branch[c]
                     PROVE  branch'[c] = CaseBase[c]
            BY <1>1 DEF BranchRootedAtCaseBase, NoCommit
        <3>1. PICK answered \in BOOLEAN : CreateBranch(p, answered)
            BY <1>3, Changes DEF OpenPull
        <3>2. c = proc[p].case /\ branch'[c] = proc[p].base /\ proc[p].pc = "commit"
            BY <1>1, <3>1 DEF CreateBranch, TypeOK, GitHubTypeOK
        <3>3. QED
            BY <1>1, <3>2 DEF BaseMoved
    <2>5. ASSUME NEW q \in Procs
          PROVE  /\ proc'[q].pc \in {"check", "update"}
                        => Asked(recorded', proc'[q].case, proc'[q].to)
                 /\ proc'[q].pc = "commit" => ~BaseMoved(proc'[q])
        <3>1. CASE proc'[q] = proc[q]
            BY <1>1, <2>1, <3>1 DEF Asked
        <3>2. CASE proc'[q].pc \notin KeyPcs
            BY <3>2 DEF KeyPcs
        <3>3. CASE q = p /\ GetCase(p)
            <4> DEFINE o == [proc[p] EXCEPT !.pc = "observe",
                                            !.from = caseState[proc[p].case]]
            <4>4. o.pc = "observe"
                BY <1>1, ProcTypes DEF ProcRecord
            <4>5. Set(p, Returned(proc[p], proc[p].to)) \/ Set(p, o)
                BY <3>3 DEF GetCase
            <4> HIDE DEF o
            <4>1. \/ proc'[p].pc = "observe"
                  \/ proc'[p] = Returned(proc[p], proc[p].to)
                BY <1>1, <4>4, <4>5, OneMoves
            <4>2. proc'[p].pc \notin {"check", "update", "commit"}
                BY <1>1, <4>1, ReturnedPc, ProcTypes
            <4>3. QED
                BY <3>3, <4>2
        <3>4. CASE q = p /\ ObserveMove(p)
            <4> DEFINE k == MoveKey(proc[p].case, proc[p].from, proc[p].to)
            <4>1. /\ proc'[p].pc = "check" /\ proc'[p].case = proc[p].case
                  /\ proc'[p].to = proc[p].to
                BY <1>1, <3>4, OneMoves, ProcTypes DEF ObserveMove, ProcRecord
            <4>2. k \in EventKeys
                BY <1>1, ProcTypes, NoLeaseType DEF MoveKey, EventKeys
            <4>3. k \in recorded'
                BY <1>1, <3>4, <4>2, LedgerFacts DEF ObserveMove
            <4>4. k.case = proc[p].case /\ k.to = proc[p].to
                BY DEF MoveKey
            <4>5. QED
                BY <3>4, <4>1, <4>3, <4>4 DEF Asked
        <3>5. CASE q = p /\ CheckMove(p)
            <4> DEFINE u == [proc[p] EXCEPT !.pc = "update",
                                            !.from = caseState[proc[p].case]]
            <4>5. u.pc = "update" /\ u.case = proc[p].case /\ u.to = proc[p].to
                BY <1>1, ProcTypes DEF ProcRecord
            <4>6. \/ Set(p, u)
                  \/ Set(p, Returned(proc[p], caseState[proc[p].case]))
                  \/ Set(p, Raised(proc[p]))
                BY <3>5 DEF CheckMove
            <4> HIDE DEF u
            <4>1. \/ /\ proc'[p].pc = "update" /\ proc'[p].case = proc[p].case
                     /\ proc'[p].to = proc[p].to
                  \/ proc'[p] = Returned(proc[p], caseState[proc[p].case])
                  \/ proc'[p] = Raised(proc[p])
                BY <1>1, <4>5, <4>6, OneMoves
            <4>2. proc[p].pc = "check"
                BY <3>5 DEF CheckMove
            <4>3. Asked(recorded, proc[p].case, proc[p].to)
                BY <1>1, <4>2
            <4>4. QED
                BY <1>1, <2>1, <3>5, <4>1, <4>3, ReturnedPc, RaisedPc, ProcTypes DEF Asked
        <3>6. CASE q = p /\ LookBranch(p)
            <4>1. \/ proc'[p].pc = "pulls"
                  \/ proc'[p] = Finished(proc[p])
                  \/ /\ proc'[p].pc = "commit" /\ proc'[p].case = proc[p].case
                     /\ proc'[p].base = proc[p].base /\ ~BaseMoved(proc[p])
                BY <1>1, <3>6, OneMoves, ProcTypes DEF LookBranch, ProcRecord
            <4>2. QED
                BY <1>1, <3>6, <4>1, FinishedPc DEF BaseMoved
        <3>7. QED
            BY <1>1, <1>3, <3>1, <3>2, <3>3, <3>4, <3>5, <3>6, Arrival
    <2>6. QED
        BY <1>1, <2>1, <2>3, <2>4, <2>5 DEF WitnessInv, Asked, BaseMoved
<1>4. QED
    BY <1>2, <1>3 DEF Next

LEMMA WitnessHolds == Spec => []WitnessInv
BY WitnessInit, WitnessStep, PTL DEF Spec

(* Chronos has an event for every state the store ever holds of a case,    *)
(* whatever processes race and wherever they are killed (engine.py:46).    *)
THEOREM StatesAreWitnessed == Spec => []StatesWitnessed
<1>1. WitnessInv => StatesWitnessed
    BY DEF WitnessInv
<1>2. QED
    BY <1>1, WitnessHolds, PTL

(* A branch on GitHub starts at the commit its case was found at, though   *)
(* the check of the head and the creation are two requests.                *)
THEOREM BranchIsRooted == Spec => []BranchRootedAtCaseBase
<1>1. WitnessInv => BranchRootedAtCaseBase
    BY DEF WitnessInv
<1>2. QED
    BY <1>1, WitnessHolds, PTL

-----------------------------------------------------------------------------
(* One process at a time, which is how RCP.md has its operator work: what  *)
(* a process saw of its case stays true until it acts on it.               *)

Alone == \A p, q \in Procs : p = q

(* Where run_case relies on the state it last read, where publish_plan has *)
(* found no recorded pull request, and the states of a published case.     *)
SeenPcs == {"resume", "plan"} \union PlannedPcs
UnrecordedPcs == {"ref", "commit", "pulls", "open"}
Settled == {"PR_READY", "DRAFT_PR"}

ProcSolo(r) ==
    /\ r.pc \in {"observe", "check", "update"} => r.from = caseState[r.case]
    /\ r.pc \in {"check", "update"} => MoveKey(r.case, r.from, r.to) \in recorded
    /\ r.pc = "update" => r.to \in Allowed(r.from)
    /\ r.pc \in TransitionPcs => r.to # "BLOCKED"
    /\ r.pc \in TransitionPcs \ {"reload"} /\ r.to = "FAILED"
          => caseState[r.case] \notin Settled
    /\ r.pc \in SeenPcs => r.seen = caseState[r.case]
    /\ r.pc \in PublishPcs => r.seen = "PR_READY"
    /\ r.pc \in UnrecordedPcs => draftPr[r.case] = NoCommit

(* The inductive invariant of a process that runs alone.                   *)
SoloInv ==
    /\ TypeOK
    /\ \A p \in Procs : ProcSolo(proc[p]) /\ known[p] \subseteq recorded
    /\ MovesWitnessed
    /\ PublishedNeverFailed

SoloPcs == TransitionPcs \union SeenPcs

LEMMA SoloPlaces ==
    /\ TransitionPcs \intersect SeenPcs = {}
    /\ PublishPcs \subseteq SeenPcs /\ UnrecordedPcs \subseteq PublishPcs
    /\ {"off", "ready", "next", "findings", "exit", "upsert", "authorise",
        "except"} \intersect SoloPcs = {}
    /\ {"get", "observe", "check", "update", "reload"} \subseteq TransitionPcs
BY DEF TransitionPcs, SeenPcs, PlannedPcs, PublishPcs, UnrecordedPcs, SoloPcs

LEMMA SoloQuiet ==
    ASSUME NEW r, r.pc \notin SoloPcs
    PROVE  ProcSolo(r)
BY SoloPlaces DEF ProcSolo, SoloPcs

LEMMA SoloBegin ==
    ASSUME NEW r \in ProcRecord, NEW to, NEW ret, to # "BLOCKED",
           to = "FAILED" => caseState[r.case] \notin Settled
    PROVE  ProcSolo(Begin(r, to, ret))
<1>1. "get" \in TransitionPcs /\ "get" \notin SeenPcs
    BY SoloPlaces
<1>2. QED
    BY <1>1, BeginFields, SoloPlaces DEF ProcSolo

LEMMA SoloOnward ==
    ASSUME NEW q, q.pc \in SeenPcs, q.seen = caseState[q.case],
           q.pc \in PublishPcs => q.seen = "PR_READY",
           q.pc \in UnrecordedPcs => draftPr[q.case] = NoCommit
    PROVE  ProcSolo(q)
BY SoloPlaces DEF ProcSolo

LEMMA SoloFinished ==
    ASSUME NEW r
    PROVE  ProcSolo(Finished(r))
<1>1. Finished(r).pc \notin SoloPcs
    BY FinishedPc, SoloPlaces
<1>2. QED
    BY <1>1, SoloQuiet

LEMMA SoloRaised ==
    ASSUME NEW r \in ProcRecord
    PROVE  ProcSolo(Raised(r))
<1>1. Raised(r).pc \notin SoloPcs
    BY RaisedPc, SoloPlaces
<1>2. QED
    BY <1>1, SoloQuiet

LEMMA SoloGoTo ==
    ASSUME NEW r \in ProcRecord, NEW pc \in Places,
           pc \in {"plan", "verify", "receipt", "publish"}
              => r.seen = caseState[r.case],
           pc = "publish" => r.seen = "PR_READY"
    PROVE  ProcSolo(GoTo(r, pc))
<1>1. CASE pc = "done"
    BY <1>1, SoloFinished DEF GoTo
<1>2. CASE pc \in {"claim", "patch", "markReady"}
    <2>1. \A to \in {"CLAIMED", "PATCHING", "PR_READY"} : \A ret :
              ProcSolo(Begin(r, to, ret))
        BY SoloBegin
    <2>2. QED
        BY <1>2, <2>1 DEF GoTo
<1>3. CASE pc \in {"plan", "verify", "receipt", "publish"}
    <2> DEFINE q == [r EXCEPT !.pc = pc]
    <2>1. q.pc = pc /\ q.seen = r.seen /\ q.case = r.case
        BY DEF ProcRecord
    <2>2. pc \in SeenPcs /\ pc \notin UnrecordedPcs /\ (pc \in PublishPcs => pc = "publish")
        BY <1>3 DEF SeenPcs, UnrecordedPcs, PlannedPcs, PublishPcs
    <2>3. ProcSolo(q)
        BY <1>3, <2>1, <2>2, SoloOnward
    <2>4. QED
        BY <1>3, <2>3 DEF GoTo
<1>4. QED
    BY <1>1, <1>2, <1>3 DEF Places

LEMMA SoloReturned ==
    ASSUME NEW r \in ProcRecord, NEW st \in CaseStates \union {"ABSENT"},
           st = caseState[r.case]
    PROVE  ProcSolo(Returned(r, st))
<1> DEFINE q == [r EXCEPT !.seen = st, !.from = "ABSENT", !.to = "ABSENT",
                          !.ret = "done"]
           pc == ContinueAt(r.ret, st, r.publish)
<1>1. r.ret \in Rets
    BY DEF ProcRecord
<1>2. q \in ProcRecord /\ q.seen = st /\ q.case = r.case
    BY DEF ProcRecord, Rets
<1>3. pc \in Places /\ (pc = "publish" => st = "PR_READY")
    <2>1. pc = "publish" => st = "PR_READY"
        BY <1>1 DEF ContinueAt, AtClaim, AtPatch, AtReceipt, AtReady, AtPublish, Rets
    <2>2. QED
        BY <1>1, <2>1, ContinueAtPlaces
<1>4. ProcSolo(GoTo(q, pc))
    BY <1>2, <1>3, SoloGoTo
<1>5. QED
    BY <1>4 DEF Returned

LEMMA SoloStartRun ==
    ASSUME TypeOK, NEW p \in Procs, NEW c \in Cases, NEW human \in BOOLEAN,
           NEW publish \in BOOLEAN, StartRun(p, c, human, publish)
    PROVE  \E q : Set(p, q) /\ ProcSolo(q)
<1> DEFINE r == [Idle("ready", proc[p].todo \ {c}, publish) EXCEPT
                   !.case = c, !.seen = caseState[c], !.human = human]
<1>1. ProcSolo(Finished(r))
    BY SoloFinished
<1>2. ProcSolo([r EXCEPT !.pc = "authorise"])
    <2>1. [r EXCEPT !.pc = "authorise"].pc = "authorise"
        BY DEF Idle
    <2>2. QED
        BY <2>1, SoloPlaces, SoloQuiet
<1>3. ProcSolo([r EXCEPT !.pc = "resume"])
    <2> DEFINE q == [r EXCEPT !.pc = "resume"]
    <2>1. q.pc = "resume" /\ q.seen = caseState[c] /\ q.case = c
        BY DEF Idle
    <2>2. "resume" \in SeenPcs /\ "resume" \notin PublishPcs \union UnrecordedPcs
        BY DEF SeenPcs, PublishPcs, UnrecordedPcs
    <2> HIDE DEF q
    <2>3. ProcSolo(q)
        BY <2>1, <2>2, SoloOnward
    <2>4. QED
        BY <2>3 DEF q
<1>4. QED
    BY <1>1, <1>2, <1>3 DEF StartRun

(* Every step that leaves the states of the cases alone leads its process  *)
(* to a point where what it relies on is true.                             *)
LEMMA SoloSteps ==
    ASSUME TypeOK, NEW p \in Procs, ProcSolo(proc[p]),
           Start(p) \/ Crash(p) \/ Command(p) \/ RunStep(p),
           ~UpdateMove(p), ~UpsertCase(p), ~ObserveMove(p), ~RecordPull(p)
    PROVE  \E q : Set(p, q) /\ ProcSolo(q)
<1> DEFINE r == proc[p]
           Solo == \E q : Set(p, q) /\ ProcSolo(q)
<1>1. /\ r \in ProcRecord /\ ProcSolo(Finished(r)) /\ ProcSolo(Raised(r))
      /\ r.case \in Cases /\ caseState[r.case] \in CaseStates \union {"ABSENT"}
    BY ProcTypes, SoloFinished, SoloRaised
<1>2. \A pc, todo, publish : pc \notin SoloPcs => ProcSolo(Idle(pc, todo, publish))
    BY IdleFields, SoloQuiet
<1>3. ASSUME NEW pc, r.seen = caseState[r.case], pc \in SeenPcs,
             pc \in PublishPcs => r.seen = "PR_READY",
             pc \in UnrecordedPcs => draftPr[r.case] = NoCommit
      PROVE  ProcSolo([r EXCEPT !.pc = pc])
    <2> DEFINE q == [r EXCEPT !.pc = pc]
    <2>1. q.pc = pc /\ q.seen = r.seen /\ q.case = r.case
        BY <1>1 DEF ProcRecord
    <2> HIDE DEF q
    <2>2. ProcSolo(q)
        BY <1>3, <2>1, SoloOnward
    <2>3. QED
        BY <2>2 DEF q
<1>4. /\ r.pc \in SeenPcs => r.seen = caseState[r.case]
      /\ r.pc \in PublishPcs => r.seen = "PR_READY"
      /\ r.pc \in UnrecordedPcs => draftPr[r.case] = NoCommit
    BY DEF ProcSolo
<1>5. Start(p) \/ Crash(p) \/ Exit(p) => Solo
    BY <1>2, SoloPlaces DEF Start, Crash, Exit
<1>6. Command(p) => Solo
    <2>1. Scan(p) => Solo
        BY <1>2, SoloPlaces DEF Scan
    <2>2. \A publish : RunQueue(p, publish) \/ RecoverInflight(p, publish) => Solo
        BY <1>2, SoloPlaces DEF RunQueue, RecoverInflight
    <2>3. \A c \in Cases, human \in BOOLEAN, publish \in PublishModes :
              RunCase(p, c, human, publish) => Solo
        BY SoloStartRun, PublishType DEF RunCase
    <2>4. QED
        BY <2>1, <2>2, <2>3 DEF Command
<1>7. RunNext(p) => Solo
    BY SoloStartRun, ProcTypes DEF RunNext
<1>8. GetCase(p) => Solo
    <2> SUFFICES ASSUME GetCase(p) PROVE Solo
        OBVIOUS
    <2>1. CASE caseState[r.case] = r.to
        <3>1. ProcSolo(Returned(r, r.to))
            BY <1>1, <2>1, SoloReturned
        <3>2. QED
            BY <2>1, <3>1 DEF GetCase
    <2>2. CASE caseState[r.case] # r.to
        <3> DEFINE o == [r EXCEPT !.pc = "observe", !.from = caseState[r.case]]
        <3>1. /\ o.pc = "observe" /\ o.case = r.case /\ o.to = r.to
              /\ o.from = caseState[r.case]
            BY <1>1 DEF ProcRecord
        <3>2. Set(p, o)
            BY <2>2 DEF GetCase
        <3> HIDE DEF o
        <3>3. r.pc = "get"
            BY DEF GetCase
        <3>4. ProcSolo(o)
            BY <3>1, <3>3, SoloPlaces DEF ProcSolo
        <3>5. QED
            BY <3>2, <3>4
    <2>3. QED
        BY <2>1, <2>2
<1>9. CheckMove(p) => Solo
    <2> SUFFICES ASSUME CheckMove(p) PROVE Solo
        OBVIOUS
    <2>1. ProcSolo(Returned(r, caseState[r.case]))
        BY <1>1, SoloReturned
    <2> DEFINE u == [r EXCEPT !.pc = "update", !.from = caseState[r.case]]
    <2>2. /\ u.pc = "update" /\ u.case = r.case /\ u.to = r.to
          /\ u.from = caseState[r.case]
        BY <1>1 DEF ProcRecord
    <2>3. r.pc = "check"
        BY DEF CheckMove
    <2>4. \/ Set(p, Returned(r, caseState[r.case]))
          \/ Set(p, Raised(r))
          \/ Set(p, u) /\ r.to \in Allowed(caseState[r.case])
        BY DEF CheckMove
    <2> HIDE DEF u
    <2>5. r.to \in Allowed(caseState[r.case]) => ProcSolo(u)
        BY <2>2, <2>3, SoloPlaces DEF ProcSolo
    <2>6. QED
        BY <1>1, <2>1, <2>4, <2>5
<1>10. ReloadCase(p) => Solo
    BY <1>1, SoloReturned DEF ReloadCase
<1>11. IngestLook(p) => Solo
    <2>1. \A c : ProcSolo([Idle("upsert", r.todo \ {c}, FALSE) EXCEPT
                !.case = c, !.mode = "scan", !.seen = caseState[c]])
        <3> TAKE c
        <3>1. [Idle("upsert", r.todo \ {c}, FALSE) EXCEPT
                !.case = c, !.mode = "scan", !.seen = caseState[c]].pc = "upsert"
            BY DEF Idle
        <3>2. QED
            BY <3>1, SoloPlaces, SoloQuiet
    <2>2. QED
        BY <2>1 DEF IngestLook
<1>12. Deny(p) => Solo
    BY <1>1, SoloBegin DEF Deny
<1>13. SaveLease(p) => Solo
    <2> SUFFICES ASSUME SaveLease(p) PROVE Solo
        OBVIOUS
    <2> DEFINE q == [r EXCEPT !.lease = [expires |-> now + LeaseTerm, human |-> r.human]]
    <2>1. Begin(q, "AUTHORIZED", "claim").pc = "get" /\ Begin(q, "AUTHORIZED", "claim").to = "AUTHORIZED"
        BY <1>1 DEF Begin, ProcRecord
    <2>2. ProcSolo(Begin(q, "AUTHORIZED", "claim"))
        BY <2>1, SoloPlaces DEF ProcSolo
    <2>3. QED
        BY <2>2 DEF SaveLease
<1>14. ResumeCase(p) => Solo
    <2> SUFFICES ASSUME ResumeCase(p) PROVE Solo
        OBVIOUS
    <2> DEFINE q == [r EXCEPT !.lease = lease[r.case]]
    <2>1. q \in ProcRecord /\ q.seen = r.seen /\ q.case = r.case
        BY <1>1, ProcTypes DEF ProcRecord
    <2>2. AtClaim(r.seen) \in Places /\ AtClaim(r.seen) # "publish"
        BY DEF AtClaim, AtPatch, Places
    <2>3. r.seen = caseState[r.case]
        BY <1>4 DEF ResumeCase, SeenPcs
    <2>4. ProcSolo(GoTo(q, AtClaim(r.seen)))
        BY <2>1, <2>2, <2>3, SoloGoTo
    <2>5. QED
        BY <1>1, <2>4 DEF ResumeCase
<1>15. BuildPlan(p) \/ StartMaterialize(p) \/ FinishMaterialize(p)
         \/ MaterializeCollides(p) \/ ObserveProof(p) => Solo
    <2> SUFFICES ASSUME \/ BuildPlan(p) \/ StartMaterialize(p)
                        \/ FinishMaterialize(p) \/ MaterializeCollides(p)
                        \/ ObserveProof(p)
                 PROVE  Solo
        OBVIOUS
    <2>1. r.pc \in {"plan", "materialize", "writing", "verify", "receipt"}
        BY DEF BuildPlan, StartMaterialize, FinishMaterialize, MaterializeCollides,
               ObserveProof
    <2>2. /\ r.pc \in SeenPcs
          /\ {"materialize", "writing", "verify", "saveReceipt"} \subseteq SeenPcs
          /\ {"materialize", "writing", "verify", "saveReceipt"} \intersect PublishPcs = {}
          /\ UnrecordedPcs \subseteq PublishPcs
        BY <2>1 DEF SeenPcs, PlannedPcs, PublishPcs, UnrecordedPcs
    <2>3. \A pc \in {"materialize", "writing", "verify", "saveReceipt"} :
              ProcSolo([r EXCEPT !.pc = pc])
        BY <1>3, <1>4, <2>2
    <2>4. ProcSolo(Begin(r, "VERIFYING", "verify"))
        BY <1>1, SoloBegin
    <2>5. QED
        BY <1>1, <2>3, <2>4 DEF BuildPlan, StartMaterialize, FinishMaterialize,
           MaterializeCollides, ObserveProof
<1>16. Verify(p) => Solo
    <2> SUFFICES ASSUME Verify(p) PROVE Solo
        OBVIOUS
    <2> DEFINE pc == AtReceipt(r.seen, r.publish)
    <2>1. r.seen = caseState[r.case]
        BY <1>4 DEF Verify, SeenPcs, PlannedPcs
    <2>2. pc \in Places /\ (pc = "publish" => r.seen = "PR_READY")
        BY DEF AtReceipt, AtReady, AtPublish, Places
    <2>3. ProcSolo(GoTo(r, pc))
        BY <1>1, <2>1, <2>2, SoloGoTo
    <2>4. ProcSolo(Begin(r, "PROVEN", "receipt"))
        BY <1>1, SoloBegin
    <2>5. r.seen = "VERIFYING" => ProcSolo(Begin(r, "FAILED", "done"))
        BY <1>1, <2>1, SoloBegin DEF Settled
    <2>6. QED
        BY <1>1, <2>3, <2>4, <2>5 DEF Verify
<1>17. SaveReceipt(p) => Solo
    BY <1>1, SoloBegin DEF SaveReceipt
<1>18. StartPublish(p) => Solo
    <2> SUFFICES ASSUME StartPublish(p) PROVE Solo
        OBVIOUS
    <2>1. ProcSolo(Begin(r, "DRAFT_PR", "done"))
        BY <1>1, SoloBegin
    <2> DEFINE q == [r EXCEPT !.pc = "ref", !.base = head]
    <2>2. q.pc = "ref" /\ q.seen = r.seen /\ q.case = r.case
        BY <1>1 DEF ProcRecord
    <2>3. r.seen = caseState[r.case] /\ r.seen = "PR_READY"
        BY <1>4, SoloPlaces DEF StartPublish, PublishPcs
    <2>4. Set(p, Begin(r, "DRAFT_PR", "done")) \/ (Set(p, q) /\ draftPr[r.case] = NoCommit)
        BY DEF StartPublish
    <2>5. "ref" \in SeenPcs
        BY DEF SeenPcs, PlannedPcs, PublishPcs
    <2> HIDE DEF q
    <2>6. draftPr[r.case] = NoCommit => ProcSolo(q)
        BY <2>2, <2>3, <2>5, SoloOnward
    <2>7. QED
        BY <2>1, <2>4, <2>6
<1>19. ASSUME \/ LookBranch(p) \/ LookPulls(p) \/ GitHubFails(p)
              \/ \E answered \in BOOLEAN : CreateBranch(p, answered) \/ OpenPull(p, answered)
       PROVE  Solo
    <2>1. r.pc \in PublishPcs
        BY <1>19 DEF LookBranch, LookPulls, GitHubFails, CreateBranch, OpenPull, PublishPcs
    <2>2. r.pc \in UnrecordedPcs \/ GitHubFails(p)
        BY <1>19 DEF LookBranch, LookPulls, CreateBranch, OpenPull, UnrecordedPcs
    <2>3. {"pulls", "commit", "open", "record"} \subseteq PublishPcs
        BY DEF PublishPcs
    <2>4. ~GitHubFails(p) => \A pc \in {"pulls", "commit", "open", "record"} :
                                 ProcSolo([r EXCEPT !.pc = pc])
        BY <1>3, <1>4, <2>1, <2>2, <2>3, SoloPlaces
    <2>5. QED
        BY <1>1, <1>19, <2>4 DEF LookBranch, LookPulls, GitHubFails, CreateBranch, OpenPull
<1>20. HandleException(p) => Solo
    <2> SUFFICES ASSUME HandleException(p) PROVE Solo
        OBVIOUS
    <2> DEFINE q == [r EXCEPT !.mode = "handle"]
    <2>1. q \in ProcRecord /\ q.case = r.case
        BY <1>1 DEF ProcRecord
    <2>2. caseState[r.case] \notin LeftAlone => ProcSolo(Begin(q, "FAILED", "done"))
        BY <2>1, SoloBegin DEF Settled, LeftAlone, Terminal
    <2>3. QED
        BY <1>1, <2>2 DEF HandleException
<1>21. QED
    BY <1>5, <1>6, <1>7, <1>8, <1>9, <1>10, <1>11, <1>12, <1>13, <1>14, <1>15,
       <1>16, <1>17, <1>18, <1>19, <1>20 DEF RunStep, Transition

(* So it is after every step, also those that write to the store: only     *)
(* the process itself does.                                                *)
LEMMA SoloProc ==
    ASSUME TypeOK, NEW p \in Procs, ProcSolo(proc[p]),
           \A q \in Procs : known[q] \subseteq recorded,
           Start(p) \/ Crash(p) \/ Command(p) \/ RunStep(p)
    PROVE  ProcSolo(proc[p])'
<1> DEFINE r == proc[p]
<1>1. r \in ProcRecord
    BY ProcTypes
<1>2. recorded \subseteq recorded'
    BY LedgerGrows
<1>3. CASE UpdateMove(p)
    <2>1. /\ proc'[p].pc = "reload" /\ proc'[p].to = r.to
        BY <1>1, <1>3, OneMoves DEF UpdateMove, ProcRecord
    <2>2. r.to # "BLOCKED"
        BY <1>3, SoloPlaces DEF UpdateMove, ProcSolo
    <2>3. QED
        BY <2>1, <2>2, SoloPlaces DEF ProcSolo
<1>4. CASE UpsertCase(p)
    <2>1. CASE proc'[p] = Finished(r)
        <3>1. proc'[p].pc \notin SoloPcs
            BY <2>1, FinishedPc, SoloPlaces
        <3>2. QED
            BY <3>1, SoloPlaces DEF ProcSolo, SoloPcs
    <2>2. CASE proc'[p] = Begin(r, "TRIAGED", "done")
        <3>1. proc'[p].pc = "get" /\ proc'[p].to = "TRIAGED"
            BY <1>1, <2>2, BeginFields
        <3>2. QED
            BY <3>1, SoloPlaces DEF ProcSolo
    <2>3. QED
        BY <1>4, <2>1, <2>2, OneMoves DEF UpsertCase
<1>5. CASE ObserveMove(p)
    <2> DEFINE k == MoveKey(r.case, r.from, r.to)
    <2>1. /\ proc'[p].pc = "check" /\ proc'[p].case = r.case
          /\ proc'[p].from = r.from /\ proc'[p].to = r.to
        BY <1>1, <1>5, OneMoves DEF ObserveMove, ProcRecord
    <2>2. k \in recorded'
        <3>1. k \in EventKeys
            BY ProcTypes, NoLeaseType DEF MoveKey, EventKeys
        <3>2. QED
            BY <1>5, <3>1, LedgerFacts DEF ObserveMove
    <2>3. r.pc = "observe" /\ UNCHANGED caseState
        BY <1>5 DEF ObserveMove, storeVars
    <2>4. QED
        BY <2>1, <2>2, <2>3, SoloPlaces DEF ProcSolo
<1>6. CASE RecordPull(p)
    <2>1. proc'[p].pc = "get" /\ proc'[p].to = "DRAFT_PR"
        BY <1>1, <1>6, OneMoves, BeginFields DEF RecordPull
    <2>2. QED
        BY <2>1, SoloPlaces DEF ProcSolo
<1>7. CASE ~UpdateMove(p) /\ ~UpsertCase(p) /\ ~ObserveMove(p) /\ ~RecordPull(p)
    <2>1. PICK q : Set(p, q) /\ ProcSolo(q)
        BY <1>7, SoloSteps
    <2>2. proc'[p] = q
        BY <2>1, OneMoves
    <2>3. UNCHANGED <<caseState, draftPr>>
        BY <1>7, Changes
    <2>4. QED
        BY <1>2, <2>1, <2>2, <2>3 DEF ProcSolo
<1>8. QED
    BY <1>3, <1>4, <1>5, <1>6, <1>7

LEMMA SoloInit == Init => SoloInv
<1> SUFFICES ASSUME Init PROVE SoloInv
    OBVIOUS
<1>1. TypeOK
    BY InitType
<1>2. MovesWitnessed /\ PublishedNeverFailed
    BY DEF Init, LedgerInit, MovesWitnessed, PublishedNeverFailed, OnGitHub
<1>3. ASSUME NEW p \in Procs PROVE ProcSolo(proc[p]) /\ known[p] = {}
    <2>1. proc[p].pc = "off" /\ known[p] = {}
        BY IdleFields DEF Init, LedgerInit
    <2>2. QED
        BY <2>1, SoloPlaces, SoloQuiet
<1>4. QED
    BY <1>1, <1>2, <1>3 DEF SoloInv

(* An update takes a case one stage further, to a human or to FAILED, and  *)
(* the ledger has that very event.                                         *)
LEMMA SoloUpdate ==
    ASSUME TypeOK, NEW p \in Procs, ProcSolo(proc[p]), UpdateMove(p)
    PROVE  /\ proc[p].from = caseState[proc[p].case]
           /\ proc[p].to \in Allowed(proc[p].from) \ {"BLOCKED"}
           /\ proc[p].to = "FAILED" => proc[p].from \notin Settled
           /\ moves' = moves \union {MoveKey(proc[p].case, proc[p].from, proc[p].to)}
           /\ MoveKey(proc[p].case, proc[p].from, proc[p].to) \in recorded
<1>1. proc[p].pc = "update"
    BY DEF UpdateMove
<1>2. QED
    BY <1>1, SoloPlaces DEF UpdateMove, ProcSolo

LEMMA SoloStep == Alone /\ SoloInv /\ [Next]_vars => SoloInv'
<1> SUFFICES ASSUME Alone, SoloInv, [Next]_vars PROVE SoloInv'
    OBVIOUS
<1>1. /\ TypeOK /\ TypeOK' /\ MovesWitnessed /\ PublishedNeverFailed
      /\ \A p \in Procs : ProcSolo(proc[p]) /\ known[p] \subseteq recorded
    BY TypeStep DEF SoloInv
<1>2. ASSUME World \/ UNCHANGED vars PROVE SoloInv'
    BY <1>1, <1>2, WorldChanges
       DEF SoloInv, ProcSolo, MovesWitnessed, PublishedNeverFailed, OnGitHub,
           NoCommit, storeVars, ledgerVars
<1>3. ASSUME NEW p \in Procs, Start(p) \/ Crash(p) \/ Command(p) \/ RunStep(p)
      PROVE  SoloInv'
    <2>1. /\ recorded \subseteq recorded'
          /\ \A q \in Procs : known'[q] \subseteq recorded'
        BY <1>1, <1>3, LedgerGrows
    <2>2. ASSUME NEW q \in Procs PROVE ProcSolo(proc[q])'
        <3>1. q = p
            BY DEF Alone
        <3>2. QED
            BY <1>1, <1>3, <3>1, SoloProc
    <2>3. MovesWitnessed'
        <3>1. CASE UNCHANGED moves
            BY <1>1, <2>1, <3>1 DEF MovesWitnessed
        <3>2. CASE UpdateMove(p)
            BY <1>1, <2>1, <3>2, SoloUpdate DEF MovesWitnessed
        <3>3. QED
            BY <1>3, <3>1, <3>2, Changes
    <2>4. PublishedNeverFailed'
        <3> SUFFICES ASSUME NEW c \in Cases, OnGitHub(c)'
                     PROVE  caseState'[c] \in Settled
            BY DEF PublishedNeverFailed, Settled
        <3>1. caseState[c] \in Settled
            <4>1. CASE OnGitHub(c)
                BY <1>1, <4>1 DEF PublishedNeverFailed, Settled
            <4>2. CASE ~OnGitHub(c)
                <5>1. PICK answered \in BOOLEAN : \/ CreateBranch(p, answered)
                                                  \/ OpenPull(p, answered)
                    BY <1>3, <4>2, Changes DEF OnGitHub, NoCommit
                <5>2. c = proc[p].case /\ proc[p].pc \in {"commit", "open"}
                    BY <1>1, <4>2, <5>1
                       DEF CreateBranch, OpenPull, OnGitHub, NoCommit, TypeOK, GitHubTypeOK
                <5>3. proc[p].pc \in PublishPcs
                    BY <5>2 DEF PublishPcs
                <5>4. QED
                    BY <1>1, <5>2, <5>3, SoloPlaces DEF ProcSolo, Settled
            <4>3. QED
                BY <4>1, <4>2
        <3>2. CASE UpdateMove(p) /\ c = proc[p].case /\ caseState'[c] = proc[p].to
            <4>1. /\ proc[p].to \in Allowed(caseState[c]) \ {"BLOCKED"}
                  /\ proc[p].to # "FAILED"
                BY <1>1, <3>1, <3>2, SoloUpdate
            <4>2. QED
                BY <3>1, <3>2, <4>1 DEF Allowed, Settled
        <3>3. QED
            BY <1>1, <1>3, <3>1, <3>2, CaseMoves DEF Settled
    <2>5. QED
        BY <1>1, <2>1, <2>2, <2>3, <2>4 DEF SoloInv
<1>4. QED
    BY <1>2, <1>3 DEF Next

LEMMA SoloHolds == Alone => (Spec => []SoloInv)
<1> SUFFICES ASSUME Alone PROVE Spec => []SoloInv
    OBVIOUS
<1>1. SoloInv /\ [Next]_vars => SoloInv'
    BY SoloStep
<1>2. QED
    BY SoloInit, <1>1, PTL DEF Spec

(* When one process runs at a time, every row of the transitions table has *)
(* its own Chronos event, also after kills between the two.                *)
THEOREM MovesAreWitnessed == Alone => (Spec => []MovesWitnessed)
<1> SUFFICES ASSUME Alone PROVE Spec => []MovesWitnessed
    OBVIOUS
<1>1. SoloInv => MovesWitnessed
    BY DEF SoloInv
<1>2. QED
    BY <1>1, SoloHolds, PTL

(* When one process runs at a time, the queue never calls failed a case    *)
(* whose repair GitHub shows.                                              *)
THEOREM PublishedIsSettled == Alone => (Spec => []PublishedNeverFailed)
<1> SUFFICES ASSUME Alone PROVE Spec => []PublishedNeverFailed
    OBVIOUS
<1>1. SoloInv => PublishedNeverFailed
    BY DEF SoloInv
<1>2. QED
    BY <1>1, SoloHolds, PTL

(* The states _ALLOWED_TRANSITIONS names are those of the drawn lifecycle. *)
LEMMA AllowedIsLifecycle ==
    ASSUME NEW c \in Cases, NEW to \in Allowed(caseState[c]) \ {"BLOCKED"},
           caseState' = [caseState EXCEPT ![c] = to]
    PROVE  Lifecycle!Next
<1>1. CASE to = "FAILED"
    <2>1. Lifecycle!Fail(c)
        BY <1>1 DEF Allowed, Lifecycle!Fail, Lifecycle!Move
    <2>2. QED
        BY <2>1 DEF Lifecycle!Next
<1>2. CASE to = "AWAITING_APPROVAL"
    <2>1. Lifecycle!AskHuman(c)
        BY <1>2 DEF Allowed, Lifecycle!AskHuman, Lifecycle!Move
    <2>2. QED
        BY <2>1 DEF Lifecycle!Next
<1>3. CASE caseState[c] = "AWAITING_APPROVAL" /\ to = "AUTHORIZED"
    <2>1. Lifecycle!Approve(c)
        BY <1>3 DEF Lifecycle!Approve, Lifecycle!Move
    <2>2. QED
        BY <2>1 DEF Lifecycle!Next
<1>4. CASE /\ to \notin {"FAILED", "AWAITING_APPROVAL"}
           /\ caseState[c] # "AWAITING_APPROVAL"
    <2>1. PICK i \in 1..10 : /\ caseState[c] = Lifecycle!Stages[i]
                            /\ to = Lifecycle!Stages[i + 1]
        BY <1>4 DEF Allowed, Lifecycle!Stages
    <2>2. i \in 1..Len(Lifecycle!Stages) - 1
        <3>1. Len(Lifecycle!Stages) = 11
            BY DEF Lifecycle!Stages
        <3>2. QED
            BY <3>1
    <2>3. Lifecycle!Advance(c)
        <3>1. Lifecycle!Move(c, Lifecycle!Stages[i + 1])
            BY <2>1 DEF Lifecycle!Move
        <3>2. QED
            BY <2>1, <2>2, <3>1 DEF Lifecycle!Advance
    <2>4. QED
        BY <2>3 DEF Lifecycle!Next
<1>5. QED
    BY <1>1, <1>2, <1>3, <1>4 DEF Allowed

LEMMA LifecycleStep ==
    Alone /\ SoloInv /\ [Next]_vars => [Lifecycle!Next]_caseState
<1> SUFFICES ASSUME Alone, SoloInv, [Next]_vars, ~UNCHANGED caseState
             PROVE  Lifecycle!Next
    OBVIOUS
<1>1. TypeOK /\ \A p \in Procs : ProcSolo(proc[p])
    BY DEF SoloInv
<1>2. PICK p \in Procs : UpdateMove(p) \/ UpsertCase(p)
    BY Changes, WorldChanges DEF Next, storeVars
<1>3. PICK c \in Cases : c = proc[p].case
    BY <1>1, ProcTypes
<1>4. CASE UpdateMove(p)
    <2>1. proc[p].to \in Allowed(caseState[c]) \ {"BLOCKED"}
        BY <1>1, <1>3, <1>4, SoloUpdate
    <2>2. caseState' = [caseState EXCEPT ![c] = proc[p].to]
        BY <1>3, <1>4 DEF UpdateMove
    <2>3. QED
        BY <2>1, <2>2, AllowedIsLifecycle
<1>5. CASE UpsertCase(p)
    <2>1. caseState' = [caseState EXCEPT ![c] = Upserted(caseState[c])]
        BY <1>3, <1>5 DEF UpsertCase
    <2>2. caseState[c] = "ABSENT" /\ caseState' = [caseState EXCEPT ![c] = "DISCOVERED"]
        BY <1>1, <2>1 DEF Upserted, TypeOK, StoreTypeOK
    <2>3. /\ 1 \in 1..Len(Lifecycle!Stages) - 1
          /\ Lifecycle!Stages[1] = "ABSENT" /\ Lifecycle!Stages[1 + 1] = "DISCOVERED"
        BY DEF Lifecycle!Stages
    <2>4. Lifecycle!Advance(c)
        BY <2>2, <2>3 DEF Lifecycle!Advance, Lifecycle!Move
    <2>5. QED
        BY <2>4 DEF Lifecycle!Next
<1>6. QED
    BY <1>2, <1>4, <1>5

(* When one process runs at a time, the queue implements the lifecycle     *)
(* RCP.md draws: one stage forward at a time or FAILED, and no way out of  *)
(* BLOCKED, FAILED and DRAFT_PR.                                           *)
THEOREM ImplementsLifecycle == Alone => (Spec => FollowsLifecycle)
<1> SUFFICES ASSUME Alone PROVE Spec => FollowsLifecycle
    OBVIOUS
<1>1. Init => Lifecycle!Init
    BY DEF Init, Lifecycle!Init
<1>2. SoloInv /\ [Next]_vars => [Lifecycle!Next]_caseState
    BY LifecycleStep
<1>3. QED
    BY <1>1, <1>2, SoloHolds, PTL DEF Spec, FollowsLifecycle, Lifecycle!Spec

(* What the run Terminal refutes for two processes holds for one: FAILED   *)
(* and BLOCKED are never left.                                             *)
THEOREM TerminalIsFinalAlone == Alone => (Spec => TerminalIsFinal)
<1> SUFFICES ASSUME Alone PROVE Spec => TerminalIsFinal
    OBVIOUS
<1>1. ASSUME SoloInv, [Next]_vars, NEW c \in Cases,
             caseState[c] \in {"BLOCKED", "FAILED"}
      PROVE  UNCHANGED caseState[c]
    <2>1. TypeOK /\ \A p \in Procs : ProcSolo(proc[p])
        BY <1>1 DEF SoloInv
    <2>2. CASE World \/ UNCHANGED vars
        BY <2>2, WorldChanges DEF storeVars
    <2>3. ASSUME NEW p \in Procs, Start(p) \/ Crash(p) \/ Command(p) \/ RunStep(p),
                 caseState'[c] # caseState[c]
          PROVE  FALSE
        <3>1. UpdateMove(p) /\ c = proc[p].case
            BY <1>1, <2>1, <2>3, CaseMoves
        <3>2. proc[p].to \in Allowed(caseState[c])
            BY <2>1, <3>1, SoloUpdate
        <3>3. QED
            BY <1>1, <3>2 DEF Allowed
    <2>4. QED
        BY <1>1, <2>2, <2>3 DEF Next
<1>2. SoloInv /\ [Next]_vars =>
          [\A c \in Cases : caseState[c] \in {"BLOCKED", "FAILED"}
                                => UNCHANGED caseState[c]]_vars
    BY <1>1
<1>3. QED
    BY <1>2, SoloHolds, PTL DEF Spec, TerminalIsFinal

(* When one process runs at a time, no pull request is opened once one is  *)
(* recorded, also after a reviewer closed it.                              *)
THEOREM NoSecondPull == Alone => (Spec => NoPullAfterRecord)
<1> SUFFICES ASSUME Alone PROVE Spec => NoPullAfterRecord
    OBVIOUS
<1>1. ASSUME SoloInv, [Next]_vars, NEW c \in Cases, pulls'[c] > pulls[c]
      PROVE  draftPr[c] = NoCommit
    <2>1. TypeOK /\ \A p \in Procs : ProcSolo(proc[p])
        BY <1>1 DEF SoloInv
    <2>2. pulls[c] \in Nat
        BY <2>1 DEF TypeOK, GitHubTypeOK
    <2>3. pulls' # pulls
        BY <1>1, <2>2
    <2>4. PICK p \in Procs, answered \in BOOLEAN : OpenPull(p, answered)
        BY <1>1, <2>3, Changes, WorldChanges DEF Next, CreateBranch
    <2>5. c = proc[p].case /\ proc[p].pc = "open"
        BY <1>1, <2>1, <2>2, <2>4 DEF OpenPull, TypeOK, GitHubTypeOK
    <2>6. QED
        BY <2>1, <2>5 DEF ProcSolo, UnrecordedPcs
<1>2. SoloInv /\ [Next]_vars =>
          [\A c \in Cases : pulls'[c] > pulls[c] => draftPr[c] = NoCommit]_vars
    BY <1>1
<1>3. QED
    BY <1>2, SoloHolds, PTL DEF Spec, NoPullAfterRecord
=============================================================================
