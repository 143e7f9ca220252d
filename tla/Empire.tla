------------------------------- MODULE Empire -------------------------------
(***************************************************************************)
(* ChronosBackedEmpire.run: a run reconciles the manifest and the last     *)
(* sidecar receipt with the head of the dedicated Chronos ledger, lets     *)
(* SelfCorrectingEmpire correct the manifest, and records the run.  The    *)
(* manifest, the sidecar and the ledger are three files: a run can be      *)
(* killed between any two of them, runs can overlap and the owner can edit *)
(* a file at any time.                                                     *)
(*                                                                         *)
(* Abstractions.  A hash of a manifest is the manifest.  The ledger is its *)
(* last event, whether that event's sidecar is still there and whether the *)
(* chain verifies.  A file is replaced in one step (_atomic_write_json     *)
(* uses one temporary name per file; two runs in it at once are not        *)
(* modelled).  `alone` is a history variable: what the properties are      *)
(* stated with, never read by the code.                                    *)
(***************************************************************************)
EXTENDS EmpireTopology

CONSTANTS
    Manifest0,  \* manifests the first run may find
    Runners,    \* processes that run the control plane
    Edited,     \* bound: nodes the owner edits
    MaxKills,   \* bound: runs killed
    MaxEdits    \* bound: edits the owner makes

ASSUME EmpireAssumption ==
    Manifest0 \subseteq Manifests /\ Edited \subseteq Nodes /\ MaxKills \in Nat /\ MaxEdits \in Nat

VARIABLES
    manifest,   \* empire_manifest.json
    ledger,     \* the Chronos ledger: last event, its sidecar, chain verifies
    run,        \* the run of each process
    kills, edits

vars == <<manifest, ledger, run, kills, edits>>

Genesis == <<>>
Events == Manifests \X Manifests  \* before and after
NoRun == [pc |-> "idle", apply |-> FALSE, event |-> Genesis, fresh |-> FALSE, alone |-> FALSE]

(* What every manifest, run and ledger looks like; in particular no run    *)
(* writes a manifest EmpireNode.from_mapping would refuse to load.         *)
EmpireTypeOK ==
    /\ manifest \in Manifests
    /\ (ledger.head = Genesis \/ ledger.head \in Events)
    /\ ledger.sidecar \in BOOLEAN /\ ledger.sound \in BOOLEAN
    /\ \A p \in Runners :
        /\ run[p].pc \in {"idle", "checked", "read", "written", "sealed"}
        /\ run[p].pc \in {"read", "written", "sealed"} => run[p].event \in Events
    /\ kills <= MaxKills /\ edits <= MaxEdits

Init ==
    /\ manifest \in Manifest0
    /\ ledger = [head |-> Genesis, sidecar |-> FALSE, sound |-> TRUE]
    /\ run = [p \in Runners |-> NoRun]
    /\ kills = 0 /\ edits = 0

ConsistentSidecar ==
    ledger.sound /\ (ledger.head # Genesis => ledger.sidecar)

(* assert_consistent.                                                      *)
Consistent ==
    /\ ledger.sound
    /\ ledger.head # Genesis => ledger.head[2] = manifest /\ ledger.sidecar

(* A file changed under the runs of the others.                            *)
Disturbed(p, append) ==
    [q \in Runners |->
        IF q = p THEN run[q]
        ELSE [run[q] EXCEPT !.alone = FALSE, !.fresh = @ /\ ~append]]

(* run: the ledger is opened, and everything must agree with its head.     *)
StartRun(p, apply) ==
    /\ run[p].pc = "idle"
    /\ Consistent
    /\ run' = [run EXCEPT ![p] = [NoRun EXCEPT
            !.pc = "checked", !.apply = apply, !.fresh = TRUE, !.alone = TRUE]]
    /\ UNCHANGED <<manifest, ledger, kills, edits>>

(* SelfCorrectingEmpire.run loads the manifest again and corrects its copy.*)
LoadAndCorrect(p) ==
    /\ run[p].pc = "checked"
    /\ LET after == IF run[p].apply THEN Corrected(manifest) ELSE manifest
       IN  run' = [run EXCEPT
                ![p].event = <<manifest, after>>,
                ![p].pc = IF after = manifest THEN "written" ELSE "read"]
    /\ UNCHANGED <<manifest, ledger, kills, edits>>

WriteManifest(p) ==
    /\ run[p].pc = "read"
    /\ manifest' = run[p].event[2]
    /\ run' = [Disturbed(p, FALSE) EXCEPT ![p].pc = "written"]
    /\ UNCHANGED <<ledger, kills, edits>>

(* The manifest is read once more: that is what the receipt says of it.    *)
WriteSidecar(p) ==
    /\ run[p].pc = "written"
    /\ run' = [run EXCEPT ![p].event[2] = manifest, ![p].pc = "sealed"]
    /\ UNCHANGED <<manifest, ledger, kills, edits>>

(* observe: the event follows the head this process knows.  The checks     *)
(* that come after the append only report.                                 *)
AppendEvent(p) ==
    /\ run[p].pc = "sealed"
    /\ ledger' = [head |-> run[p].event, sidecar |-> TRUE,
                  sound |-> ledger.sound /\ run[p].fresh]
    /\ run' = [Disturbed(p, TRUE) EXCEPT ![p] = NoRun]
    /\ UNCHANGED <<manifest, kills, edits>>

Kill(p) ==
    /\ run[p].pc # "idle" /\ kills < MaxKills
    /\ run' = [run EXCEPT ![p] = NoRun]
    /\ kills' = kills + 1
    /\ UNCHANGED <<manifest, ledger, edits>>

(* The owner: a status, a readiness receipt, a lost sidecar.               *)
EditManifest ==
    /\ edits < MaxEdits
    /\ \/ \E n \in Edited, s \in Status : manifest' = [manifest EXCEPT !.status[n] = s]
       \/ \E n \in Edited : manifest' = [manifest EXCEPT !.evidence =
                                            (@ \ {n}) \union ({n} \ @)]
    /\ run' = [p \in Runners |-> [run[p] EXCEPT !.alone = FALSE]]
    /\ edits' = edits + 1
    /\ UNCHANGED <<ledger, kills>>

LoseSidecar ==
    /\ edits < MaxEdits /\ ledger.sidecar
    /\ ledger' = [ledger EXCEPT !.sidecar = FALSE]
    /\ edits' = edits + 1
    /\ UNCHANGED <<manifest, run, kills>>

(* The explicit recovery every refusal asks for: the ledger is set aside   *)
(* and the state as it is becomes the new genesis.                         *)
HumanRecovery ==
    /\ ~Consistent /\ \A p \in Runners : run[p].pc = "idle"
    /\ ledger' = [head |-> Genesis, sidecar |-> FALSE, sound |-> TRUE]
    /\ UNCHANGED <<manifest, run, kills, edits>>

RunStep(p) ==
    LoadAndCorrect(p) \/ WriteManifest(p) \/ WriteSidecar(p) \/ AppendEvent(p)

Next ==
    \/ \E p \in Runners :
        \/ \E apply \in BOOLEAN : StartRun(p, apply)
        \/ RunStep(p)
        \/ Kill(p)
    \/ EditManifest \/ LoseSidecar \/ HumanRecovery

(* A run that started goes on; the control plane is run with remediations  *)
(* again and again; somebody recovers what the runs refuse.                *)
Fairness ==
    /\ \A p \in Runners : WF_vars(RunStep(p)) /\ SF_vars(StartRun(p, TRUE))
    /\ SF_vars(HumanRecovery)

Spec == Init /\ [][Next]_vars /\ Fairness
-----------------------------------------------------------------------------
(* A run during which nobody else touched the files records the state the  *)
(* run before it recorded: whatever was killed, edited or lost between the *)
(* two runs, the second never builds on a manifest the ledger does not     *)
(* know (empire_chronos_bridge.py, assert_consistent before control.run).  *)
RunsChain ==
    \A p \in Runners :
        run[p].pc # "idle" /\ run[p].pc # "checked" /\ run[p].alone /\ ledger.head # Genesis
            => ledger.head[2] = run[p].event[1]

(* Neither on a dependency cycle nor above one.                            *)
Grounded ==
    {n \in Nodes : \A d \in Nodes : d = n \/ DependsOn[n, d] => ~DependsOn[d, d]}

(* Once kills and edits end, the runs correct each node that is on no      *)
(* dependency cycle and above none until nothing is left of it that they   *)
(* can correct, although each run corrects all gaps from one assessment, a *)
(* demotion can undo the reason for a promotion applied with it, and the   *)
(* nodes of a cycle may be promoted and demoted for ever                   *)
(* (empire_control_plane.py, the loop over gaps_before).                   *)
Converges ==
    \A n \in Grounded : <>[](\A gap \in Fixable(manifest) : gap[2] # n)
=============================================================================
