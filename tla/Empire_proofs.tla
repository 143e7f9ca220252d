---------------------------- MODULE Empire_proofs ----------------------------
(***************************************************************************)
(* Theorems about Empire for any graph of nodes, any number of runs at     *)
(* once, kills and edits: what the runs write is a manifest, and a run     *)
(* that is left alone follows on the one before it.                        *)
(***************************************************************************)
EXTENDS Empire, TLAPS

RunState == [pc : {"idle", "checked", "read", "written", "sealed"}, apply : BOOLEAN,
             event : Events \union {Genesis}, fresh : BOOLEAN, alone : BOOLEAN]

EmpireRows ==
    /\ ledger \in [head : Events \union {Genesis}, sidecar : BOOLEAN, sound : BOOLEAN]
    /\ run \in [Runners -> RunState]
    /\ kills \in Nat /\ edits \in Nat

(* What a run that was left alone started from is what the ledger knows:   *)
(* the manifest until it has read it, the state it read afterwards.        *)
Started(p) == IF run[p].pc = "checked" THEN manifest ELSE run[p].event[1]

Chained ==
    \A p \in Runners :
        run[p].pc # "idle" /\ run[p].alone /\ ledger.head # Genesis
            => ledger.head[2] = Started(p)

EmpireInv == EmpireTypeOK /\ EmpireRows /\ Chained

-----------------------------------------------------------------------------
(* The remediations write statuses a manifest may have.                    *)
LEMMA CorrectedIsManifest ==
    ASSUME NEW m \in Manifests
    PROVE  Corrected(m) \in Manifests
<1> DEFINE fixes == Fixable(m)
<1>1. \A g \in fixes : g[1] \in {"false_readiness", "verified_promotion_pending"}
    BY DEF Fixable, Remedy
<1>2. \A k \in {"false_readiness", "verified_promotion_pending"} : Remedy[k] \in Status
    BY DEF Remedy, Status
<1>3. ASSUME NEW n \in Nodes, \E g \in fixes : g[2] = n
      PROVE  Remedy[(CHOOSE g \in fixes : g[2] = n)[1]] \in Status
    <2>1. (CHOOSE g \in fixes : g[2] = n) \in fixes
        BY <1>3
    <2>2. QED
        BY <1>1, <1>2, <2>1
<1>4. \A n \in Nodes : m.status[n] \in Status
    BY DEF Manifests
<1> DEFINE s == [n \in Nodes |-> IF \E g \in fixes : g[2] = n
                                 THEN Remedy[(CHOOSE g \in fixes : g[2] = n)[1]]
                                 ELSE m.status[n]]
<1>5. s \in [Nodes -> Status]
    BY <1>3, <1>4
<1> HIDE DEF s
<1>6. [m EXCEPT !.status = s] \in Manifests
    BY <1>5 DEF Manifests
<1>7. Corrected(m) = [m EXCEPT !.status = s]
    BY DEF Corrected, s
<1>8. QED
    BY <1>6, <1>7

LEMMA EventFields ==
    ASSUME NEW e \in Events, NEW m \in Manifests
    PROVE  /\ e[1] \in Manifests /\ e[2] \in Manifests
           /\ [e EXCEPT ![2] = m] \in Events
           /\ [e EXCEPT ![2] = m][1] = e[1]
BY DEF Events

(* What touching a file leaves of the other runs.                          *)
LEMMA DisturbedRuns ==
    ASSUME EmpireRows, NEW p \in Runners, NEW append \in BOOLEAN, NEW q \in Runners
    PROVE  /\ Disturbed(p, append)[q] \in RunState
           /\ Disturbed(p, append)[q].pc = run[q].pc
           /\ Disturbed(p, append)[q].event = run[q].event
           /\ q = p => Disturbed(p, append)[q] = run[p]
           /\ q # p => ~Disturbed(p, append)[q].alone
BY DEF EmpireRows, RunState, Disturbed

-----------------------------------------------------------------------------
LEMMA EmpireStep ==
    ASSUME EmpireInv, [Next]_vars
    PROVE  EmpireInv'
<1> USE EmpireAssumption DEF EmpireInv
<1>1. ASSUME NEW p \in Runners, NEW apply \in BOOLEAN, StartRun(p, apply)
      PROVE  EmpireInv'
    <2> DEFINE r == [NoRun EXCEPT !.pc = "checked", !.apply = apply,
                                  !.fresh = TRUE, !.alone = TRUE]
    <2>1. r \in RunState /\ r.pc = "checked"
        BY DEF NoRun, RunState
    <2>2. run' = [run EXCEPT ![p] = r] /\ UNCHANGED <<manifest, ledger, kills, edits>>
        BY <1>1 DEF StartRun
    <2>3. EmpireRows'
        BY <2>1, <2>2 DEF EmpireRows
    <2>4. EmpireTypeOK'
        BY <2>1, <2>2 DEF EmpireTypeOK, EmpireRows
    <2>5. ledger.head # Genesis => ledger.head[2] = manifest
        BY <1>1 DEF StartRun, Consistent
    <2>6. Chained'
        BY <2>1, <2>2, <2>5 DEF Chained, Started, EmpireRows
    <2>7. QED
        BY <2>3, <2>4, <2>6
<1>2. ASSUME NEW p \in Runners, LoadAndCorrect(p) PROVE EmpireInv'
    <2> DEFINE after == IF run[p].apply THEN Corrected(manifest) ELSE manifest
               pc == IF after = manifest THEN "written" ELSE "read"
               r == [run[p] EXCEPT !.event = <<manifest, after>>, !.pc = pc]
    <2>1. after \in Manifests
        BY CorrectedIsManifest DEF EmpireTypeOK
    <2>2. <<manifest, after>> \in Events /\ <<manifest, after>>[1] = manifest
        BY <2>1 DEF Events, EmpireTypeOK
    <2>3. run' = [run EXCEPT ![p] = r] /\ UNCHANGED <<manifest, ledger, kills, edits>>
        BY <1>2 DEF LoadAndCorrect
    <2> HIDE DEF after
    <2>4. /\ r \in RunState /\ r.event = <<manifest, after>>
          /\ r.pc \in {"read", "written"} /\ r.alone = run[p].alone
        BY <2>2 DEF EmpireRows, RunState
    <2> HIDE DEF r
    <2>5. EmpireRows'
        BY <2>3, <2>4 DEF EmpireRows
    <2>6. EmpireTypeOK'
        BY <2>2, <2>3, <2>4 DEF EmpireTypeOK, EmpireRows
    <2>7. Chained'
        BY <1>2, <2>2, <2>3, <2>4 DEF Chained, Started, EmpireRows, LoadAndCorrect
    <2>8. QED
        BY <2>5, <2>6, <2>7
<1>3. ASSUME NEW p \in Runners, WriteManifest(p) PROVE EmpireInv'
    <2> DEFINE d == Disturbed(p, FALSE)
    <2>1. \A q \in Runners : /\ d[q] \in RunState /\ d[q].pc = run[q].pc
                             /\ d[q].event = run[q].event
                             /\ q = p => d[q] = run[p]
                             /\ q # p => ~d[q].alone
        BY DisturbedRuns
    <2>2. d = [q \in Runners |-> d[q]]
        BY DEF Disturbed
    <2>3. run' = [d EXCEPT ![p].pc = "written"] /\ UNCHANGED <<ledger, kills, edits>>
        BY <1>3 DEF WriteManifest
    <2>4. manifest' \in Manifests
        BY <1>3, EventFields DEF WriteManifest, EmpireTypeOK
    <2> HIDE DEF d
    <2>5. \A q \in Runners : /\ run'[q] \in RunState
                             /\ run'[q].event = run[q].event
                             /\ q = p => run'[q].pc = "written"
                             /\ q # p => run'[q].pc = run[q].pc /\ ~run'[q].alone
                             /\ run'[p].alone = run[p].alone
        BY <2>1, <2>2, <2>3 DEF RunState
    <2>6. run' \in [Runners -> RunState]
        BY <2>2, <2>3, <2>5
    <2>7. EmpireRows'
        BY <2>3, <2>6 DEF EmpireRows
    <2>8. EmpireTypeOK'
        BY <1>3, <2>3, <2>4, <2>5 DEF EmpireTypeOK, WriteManifest, EmpireRows
    <2>9. Chained'
        BY <1>3, <2>3, <2>5 DEF Chained, Started, WriteManifest
    <2>10. QED
        BY <2>7, <2>8, <2>9
<1>4. ASSUME NEW p \in Runners, WriteSidecar(p) PROVE EmpireInv'
    <2> DEFINE r == [run[p] EXCEPT !.event = [run[p].event EXCEPT ![2] = manifest],
                                   !.pc = "sealed"]
    <2>1. run[p].event \in Events /\ manifest \in Manifests
        BY <1>4 DEF WriteSidecar, EmpireTypeOK
    <2>2. /\ r \in RunState /\ r.event \in Events /\ r.event[1] = run[p].event[1]
          /\ r.pc = "sealed" /\ r.alone = run[p].alone
        BY <2>1, EventFields DEF EmpireRows, RunState
    <2>3. run' = [run EXCEPT ![p] = r] /\ UNCHANGED <<manifest, ledger, kills, edits>>
        BY <1>4 DEF WriteSidecar, EmpireRows, RunState
    <2> HIDE DEF r
    <2>4. EmpireRows'
        BY <2>2, <2>3 DEF EmpireRows
    <2>5. EmpireTypeOK'
        BY <2>2, <2>3 DEF EmpireTypeOK, EmpireRows
    <2>6. Chained'
        BY <1>4, <2>2, <2>3 DEF Chained, Started, EmpireRows, WriteSidecar
    <2>7. QED
        BY <2>4, <2>5, <2>6
<1>5. ASSUME NEW p \in Runners, AppendEvent(p) PROVE EmpireInv'
    <2> DEFINE d == Disturbed(p, TRUE)
    <2>1. \A q \in Runners : /\ d[q] \in RunState /\ d[q].pc = run[q].pc
                             /\ d[q].event = run[q].event
                             /\ q # p => ~d[q].alone
        BY DisturbedRuns
    <2>2. d = [q \in Runners |-> d[q]]
        BY DEF Disturbed
    <2>3. NoRun \in RunState /\ NoRun.pc = "idle"
        BY DEF NoRun, RunState
    <2>4. run' = [d EXCEPT ![p] = NoRun] /\ UNCHANGED <<manifest, kills, edits>>
        BY <1>5 DEF AppendEvent
    <2> HIDE DEF d
    <2>5. \A q \in Runners : /\ run'[q] \in RunState
                             /\ q = p => run'[q].pc = "idle"
                             /\ q # p => /\ run'[q].pc = run[q].pc /\ ~run'[q].alone
                                         /\ run'[q].event = run[q].event
        BY <2>1, <2>2, <2>3, <2>4
    <2>6. run' \in [Runners -> RunState]
        BY <2>2, <2>4, <2>5
    <2>7. /\ ledger' \in [head : Events \union {Genesis}, sidecar : BOOLEAN, sound : BOOLEAN]
          /\ ledger'.head \in Events
        BY <1>5 DEF AppendEvent, EmpireTypeOK, EmpireRows, RunState
    <2>8. EmpireRows'
        BY <2>4, <2>6, <2>7 DEF EmpireRows
    <2>9. EmpireTypeOK'
        BY <2>4, <2>5, <2>7 DEF EmpireTypeOK
    <2>10. Chained'
        BY <2>5 DEF Chained
    <2>11. QED
        BY <2>8, <2>9, <2>10
<1>6. ASSUME NEW p \in Runners, Kill(p) PROVE EmpireInv'
    <2>1. NoRun \in RunState /\ NoRun.pc = "idle"
        BY DEF NoRun, RunState
    <2>2. EmpireRows'
        BY <1>6, <2>1 DEF EmpireRows, Kill
    <2>3. EmpireTypeOK'
        BY <1>6, <2>1 DEF EmpireTypeOK, EmpireRows, Kill
    <2>4. Chained'
        BY <1>6, <2>1 DEF Chained, Started, EmpireRows, Kill
    <2>5. QED
        BY <2>2, <2>3, <2>4
<1>7. CASE EditManifest
    <2>1. manifest' \in Manifests
        <3>1. ASSUME NEW n \in Nodes, NEW s \in Status
              PROVE  [manifest EXCEPT !.status[n] = s] \in Manifests
            BY DEF EmpireTypeOK, Manifests
        <3>2. ASSUME NEW n \in Nodes
              PROVE  [manifest EXCEPT !.evidence = (@ \ {n}) \union ({n} \ @)] \in Manifests
            BY DEF EmpireTypeOK, Manifests
        <3>3. QED
            BY <1>7, <3>1, <3>2 DEF EditManifest
    <2>2. \A q \in Runners : /\ run'[q] \in RunState /\ run'[q].pc = run[q].pc
                             /\ run'[q].event = run[q].event /\ ~run'[q].alone
        BY <1>7 DEF EditManifest, EmpireRows, RunState
    <2>3. run' \in [Runners -> RunState]
        BY <1>7, <2>2 DEF EditManifest
    <2>4. EmpireRows'
        BY <1>7, <2>3 DEF EmpireRows, EditManifest
    <2>5. EmpireTypeOK'
        BY <1>7, <2>1, <2>2 DEF EmpireTypeOK, EmpireRows, EditManifest
    <2>6. Chained'
        BY <2>2 DEF Chained
    <2>7. QED
        BY <2>4, <2>5, <2>6
<1>8. CASE LoseSidecar
    <2>1. /\ ledger' \in [head : Events \union {Genesis}, sidecar : BOOLEAN, sound : BOOLEAN]
          /\ ledger'.head = ledger.head
        BY <1>8 DEF LoseSidecar, EmpireRows
    <2>2. EmpireRows'
        BY <1>8, <2>1 DEF EmpireRows, LoseSidecar
    <2>3. EmpireTypeOK'
        BY <1>8, <2>1 DEF EmpireTypeOK, EmpireRows, LoseSidecar
    <2>4. Chained'
        BY <1>8, <2>1 DEF Chained, Started, LoseSidecar
    <2>5. QED
        BY <2>2, <2>3, <2>4
<1>9. CASE HumanRecovery
    <2>1. EmpireRows'
        BY <1>9 DEF EmpireRows, HumanRecovery
    <2>2. EmpireTypeOK'
        BY <1>9 DEF EmpireTypeOK, EmpireRows, HumanRecovery
    <2>3. Chained'
        BY <1>9 DEF Chained, HumanRecovery
    <2>4. QED
        BY <2>1, <2>2, <2>3
<1>10. CASE UNCHANGED vars
    BY <1>10 DEF vars, EmpireTypeOK, EmpireRows, Chained, Started
<1>11. QED
    BY <1>1, <1>2, <1>3, <1>4, <1>5, <1>6, <1>7, <1>8, <1>9, <1>10 DEF Next, RunStep

LEMMA EmpireInit ==
    ASSUME Init
    PROVE  EmpireInv
<1>1. NoRun \in RunState /\ NoRun.pc = "idle"
    BY DEF NoRun, RunState
<1>2. EmpireRows
    BY <1>1 DEF Init, EmpireRows
<1>3. EmpireTypeOK
    BY <1>1, EmpireAssumption DEF Init, EmpireTypeOK
<1>4. Chained
    BY <1>1 DEF Init, Chained
<1>5. QED
    BY <1>2, <1>3, <1>4 DEF EmpireInv

(* The inductive invariant.                                                *)
THEOREM EmpireSafe == Spec => []EmpireInv
<1>1. EmpireInv /\ [Next]_vars => EmpireInv'
    BY EmpireStep
<1>2. QED
    BY <1>1, EmpireInit, PTL DEF Spec

(* No run writes a manifest the loader refuses, for any graph of nodes     *)
(* (empire_control_plane.py, _demote_blocked and _promote_ready).          *)
THEOREM EmpireTypesHold == Spec => []EmpireTypeOK
<1>1. EmpireInv => EmpireTypeOK
    BY DEF EmpireInv
<1>2. QED
    BY <1>1, EmpireSafe, PTL

(* A run left alone builds on what the run before it recorded              *)
(* (empire_chronos_bridge.py, assert_consistent before control.run).       *)
THEOREM RunsChainHolds == Spec => []RunsChain
<1>1. EmpireInv => RunsChain
    BY DEF EmpireInv, Chained, Started, RunsChain
<1>2. QED
    BY <1>1, EmpireSafe, PTL
=============================================================================
