----------------------------- MODULE Heartbeat ------------------------------
(***************************************************************************)
(* VictorHeartbeatV0.run and VictorLaunchGateV0.run: one heartbeat after   *)
(* another goes from perception to a canonical outcome, every stage an     *)
(* event of the Chronos ledger, with one bounded write in between.  The    *)
(* process can be killed at any point and the heartbeat submitted again.   *)
(*                                                                         *)
(* Abstractions.  A heartbeat is its identity (the hash of its inputs); a  *)
(* candidate is what the two ORCH passes and the truth gates read of it,   *)
(* and its target: nothing, what the interrogation calls unsafe, a file, a *)
(* write over the byte ceiling, or a place that stays unwritable (a        *)
(* directory, a link out of the sandbox).                                  *)
(* The world model is synchronised after each append, and a restart, which *)
(* rebuilds it from the same events in the same order, finds it unchanged. *)
(* One process owns the ledger (Chronos.tla shows what two do to it).  `n` *)
(* numbers the runs and `effects` lists the writes: history, never read by *)
(* the code.                                                               *)
(***************************************************************************)
EXTENDS Integers, Sequences, SequencesExt, FiniteSets

CONSTANTS
    Heartbeats,
    Gated,       \* those the launch gate runs, with the Truth Compiler
    Considered,  \* candidates of each heartbeat
    Candidate,   \* record of each candidate
    Contradicted,\* heartbeats whose observation holds a contradiction
    Files,       \* files of the sandbox
    MaxReruns,   \* bound: blocked and refused heartbeats submitted again
    MaxTroubles  \* bound: kills, expired leases and foreign writes

ASSUME HeartbeatAssumption ==
    /\ Gated \subseteq Heartbeats /\ Contradicted \subseteq Heartbeats
    /\ DOMAIN Considered = Heartbeats
    /\ MaxReruns \in Nat /\ MaxTroubles \in Nat

VARIABLES
    log,      \* the events of the ledger
    world,    \* the world model they make
    files,    \* who wrote each file of the sandbox last
    run,      \* the run under way
    runs, reruns, effects, troubles

vars == <<log, world, files, run, runs, reruns, effects, troubles>>

Cognition == <<"perception", "interpretation", "mapping", "future_field", "orch1",
               "deep_interrogation", "orch2">>
Pipeline == Cognition \o <<"authorized", "execution_verified", "completed">>
Explained == ToSet(Pipeline) \union {"blocked"}
NoRun == [pc |-> "idle"]
-----------------------------------------------------------------------------
(* TruthGate.compile, and what the Truth Compiler may answer: verified at  *)
(* most what the same evidence supports, unknown when it fails.            *)
Unsafe(c) == Candidate[c].target = "unsafe"

TruthGate(h, c) ==
    CASE Unsafe(c) \/ Candidate[c].evidence = "missing" -> "UNKNOWN"
      [] h \in Contradicted                             -> "PARTIAL"
      [] Candidate[c].evidence = "present"              -> "SUPPORTED"
      [] Candidate[c].target = "noop"                   -> "PARTIAL"
      [] OTHER                                          -> "UNKNOWN"

Verdicts(h, c) ==
    IF h \in Gated THEN {"UNKNOWN"} \union ({TruthGate(h, c)} \intersect {"SUPPORTED"})
    ELSE {TruthGate(h, c)}

(* ORCH_2: the best of the candidates that survive.                        *)
Accepted(h, truth) ==
    {c \in Considered[h] : truth[c] # "UNKNOWN" /\ ~Unsafe(c) /\ ~Candidate[c].risky}

Adjusted(h, truth, c) ==
    Candidate[c].score - (IF truth[c] = "PARTIAL" THEN 2 ELSE 0)

Rulings(h) ==
    {truth \in [Considered[h] -> {"SUPPORTED", "PARTIAL", "UNKNOWN"}] :
        \A c \in DOMAIN truth : truth[c] \in Verdicts(h, c)}

Selected(h, truth) ==
    IF Accepted(h, truth) = {} THEN "none"
    ELSE CHOOSE c \in Accepted(h, truth) : \A d \in Accepted(h, truth) :
            Adjusted(h, truth, d) <= Adjusted(h, truth, c)
-----------------------------------------------------------------------------
(* The world model: typed nodes, and whether applying an event raised.     *)
Typed(kind, name, type) == [id |-> <<kind, name>>, type |-> type]

UpsertStrictly(w, new) ==
    [nodes   |-> w.nodes \union {m \in new : \A n \in w.nodes : n.id # m.id},
     refused |-> w.refused \/ \E n \in w.nodes, m \in new : n.id = m.id /\ n.type # m.type]

(* _upsert_node of each of the new nodes: an entity may get a type, a type *)
(* never another type.                                                     *)
Upsert(w, new) ==
    LET untyped == {n \in w.nodes : n.type = "entity"}
        typed == w.nodes \ untyped
    IN  [nodes   |-> typed \union {m \in new : \A n \in typed : n.id # m.id}
                          \union {n \in untyped : \A m \in new : n.id # m.id},
         refused |-> w.refused \/ \E n \in typed, m \in new :
                        n.id = m.id /\ m.type \notin {n.type, "entity"}]

(* _add_edge between the nodes of `ends`, which must exist.                *)
AddEdges(w, ends) ==
    [w EXCEPT !.refused = @ \/ \E m \in ends : \A n \in w.nodes : n.id # m.id]

(* The graph mutations heartbeat.mapping and heartbeat.completed carry.    *)
Mutations(e) ==
    CASE e.stage = "mapping"   -> {Typed("entity", e.hb, "heartbeat"),
                                   Typed("variable", "observed", "variable")}
      [] e.stage = "completed" -> {Typed("candidate", e.cand, "candidate"),
                                   Typed("lease", e.hb, "capability_lease"),
                                   Typed("outcome", e.hb, "outcome")}
      [] OTHER                 -> {}

Subject(e) == Typed("entity", e.hb, "entity")

(* apply_informatron, in sync and in rebuild: the actor, the entity and    *)
(* the event, then the mutations, whose edges join what they upsert to the *)
(* heartbeat.                                                              *)
ApplyInformatron(w, e) ==
    LET observed == Upsert(w, {Typed("actor", "victor", "actor"), Subject(e)})
    IN  AddEdges(Upsert(observed, Mutations(e)), Mutations(e) \union {Subject(e)})

EmptyWorld == [nodes |-> {}, refused |-> FALSE]
-----------------------------------------------------------------------------
Init ==
    /\ log = <<>> /\ world = EmptyWorld
    /\ files = [f \in Files |-> "nobody"]
    /\ run = NoRun /\ runs = 0 /\ reruns = 0
    /\ effects = <<>> /\ troubles = 0

Rows(h, stage) == {i \in DOMAIN log : log[i].hb = h /\ log[i].stage = stage}

NeverPrior(h) == FALSE
Prior(h) == Rows(h, "completed") # {}

Event(stage) == [hb |-> run.hb, stage |-> stage, n |-> run.n, cand |-> run.cand, ok |-> run.ok]

(* _observe: TRACE-0 appends the event; the world follows.                 *)
Record(event) ==
    /\ log' = Append(log, event)
    /\ world' = ApplyInformatron(world, event)

Observe(stage) == Record(Event(stage))

(* What TaskCompiler or the adapter refuses, however often it is tried.    *)
Refused(c) == c # "none" /\ Candidate[c].target \in {"oversize", "unwritable"}
ChoseRefused(h) == \E i \in Rows(h, "orch2") : Refused(log[i].cand)

(* run: a completed heartbeat is answered from the ledger.                 *)
Begin(h) ==
    /\ run = NoRun /\ ~Prior(h)
    /\ IF Rows(h, "blocked") = {} /\ ~ChoseRefused(h) THEN UNCHANGED reruns
       ELSE reruns < MaxReruns /\ reruns' = reruns + 1
    /\ run' = [pc |-> Cognition[1], hb |-> h, n |-> runs + 1, cand |-> "none", ok |-> FALSE]
    /\ runs' = runs + 1
    /\ UNCHANGED <<log, world, files, effects, troubles>>

(* Perception to the interrogation of the candidates.                      *)
Think ==
    /\ \E i \in 1 .. Len(Cognition) - 1 :
        run.pc = Cognition[i] /\ run' = [run EXCEPT !.pc = Cognition[i + 1]]
    /\ Observe(run.pc)
    /\ UNCHANGED <<files, runs, reruns, effects, troubles>>

(* ORCH_2 decides on the verdicts of this run.                             *)
Decide ==
    /\ run.pc = "orch2"
    /\ \E truth \in Rulings(run.hb) :
        LET c == Selected(run.hb, truth)
        IN  /\ run' = [run EXCEPT !.cand = c, !.pc = IF c = "none" THEN "blocked" ELSE "authorized"]
            /\ Record([Event("orch2") EXCEPT !.cand = c])
    /\ UNCHANGED <<files, runs, reruns, effects, troubles>>

Block ==
    /\ run.pc = "blocked" /\ Observe("blocked") /\ run' = NoRun
    /\ UNCHANGED <<files, runs, reruns, effects, troubles>>

Target == Candidate[run.cand].target

(* The lease is compiled and recorded before anything is done with it.     *)
Authorize ==
    /\ run.pc = "authorized" /\ Target # "oversize"
    /\ Observe("authorized") /\ run' = [run EXCEPT !.pc = "execute"]
    /\ UNCHANGED <<files, runs, reruns, effects, troubles>>

Execute ==
    /\ run.pc = "execute" /\ Target # "unwritable"
    /\ IF Target = "noop" THEN UNCHANGED <<files, effects>>
       ELSE /\ files' = [files EXCEPT ![Target] = run.cand]
            /\ effects' = Append(effects, [hb |-> run.hb, cand |-> run.cand, at |-> Len(log)])
    /\ run' = [run EXCEPT !.pc = "verify"]
    /\ UNCHANGED <<log, world, runs, reruns, troubles>>

(* compile raises before its lease is recorded, or execute after: the      *)
(* caller gets the exception and the ledger nothing more.                  *)
Refuse ==
    /\ \/ run.pc = "authorized" /\ Target = "oversize"
       \/ run.pc = "execute" /\ Target = "unwritable"
    /\ run' = NoRun
    /\ UNCHANGED <<log, world, files, runs, reruns, effects, troubles>>

(* IndependentVerifier: the file holds what was asked for.  The verdict is *)
(* recorded either way; a bad one ends the run.                            *)
Verified == Target = "noop" \/ files[Target] = run.cand

VerifyUntilGood ==
    /\ run.pc = "verify" /\ Verified
    /\ Record([Event("execution_verified") EXCEPT !.ok = TRUE])
    /\ run' = [run EXCEPT !.pc = "completed", !.ok = TRUE]
    /\ UNCHANGED <<files, runs, reruns, effects, troubles>>

VerifyUnheeded ==
    /\ run.pc = "verify"
    /\ Record([Event("execution_verified") EXCEPT !.ok = Verified])
    /\ run' = [run EXCEPT !.pc = "completed", !.ok = TRUE]
    /\ UNCHANGED <<files, runs, reruns, effects, troubles>>

Verify ==
    /\ run.pc = "verify"
    /\ Record([Event("execution_verified") EXCEPT !.ok = Verified])
    /\ run' = IF Verified THEN [run EXCEPT !.pc = "completed", !.ok = TRUE] ELSE NoRun
    /\ UNCHANGED <<files, runs, reruns, effects, troubles>>

Complete ==
    /\ run.pc = "completed" /\ Observe("completed") /\ run' = NoRun
    /\ UNCHANGED <<files, runs, reruns, effects, troubles>>

(* The process is killed, or the lease expired before the adapter saw it.  *)
Interrupted ==
    /\ run # NoRun /\ troubles < MaxTroubles
    /\ run' = NoRun /\ troubles' = troubles + 1
    /\ UNCHANGED <<log, world, files, runs, reruns, effects>>

ForeignWrite ==
    /\ troubles < MaxTroubles
    /\ \E f \in Files : files' = [files EXCEPT ![f] = "foreign"]
    /\ troubles' = troubles + 1
    /\ UNCHANGED <<log, world, run, runs, reruns, effects>>

Proceed == Think \/ Decide \/ Block \/ Authorize \/ Execute \/ Refuse \/ Verify \/ Complete

Next == (\E h \in Heartbeats : Begin(h)) \/ Proceed \/ Interrupted \/ ForeignWrite

(* A run that began goes on; a heartbeat without an answer is submitted    *)
(* again.                                                                  *)
Answered(h) == Prior(h) \/ Rows(h, "blocked") # {}
Resubmit(h) == Begin(h) /\ ~Answered(h)

Fairness == WF_vars(Proceed) /\ \A h \in Heartbeats : SF_vars(Resubmit(h))

Spec == Init /\ [][Next]_vars /\ Fairness
-----------------------------------------------------------------------------
(* Every prefix of the ledger a restart can find is one the world model    *)
(* can be rebuilt from: runs cut short and repeated never upsert a node    *)
(* under another type (victor_world_model.py, rebuild in the constructor   *)
(* of the heartbeat).                                                      *)
WorldRebuilds == ~world.refused

(* A write happens right after its authorization became durable, and never *)
(* for a heartbeat that is already completed, whatever was killed and      *)
(* submitted again (VICTOR_HEARTBEAT_V0.md, the restart invariant).        *)
EffectsAuthorizedOnce ==
    \A i \in DOMAIN effects :
        LET done == effects[i]
        IN  /\ log[done.at].stage = "authorized"
            /\ log[done.at].hb = done.hb /\ log[done.at].cand = done.cand
            /\ \A j \in 1 .. done.at : ~(log[j].hb = done.hb /\ log[j].stage = "completed")

(* explain keeps the last event of each stage, and of the two ways to end  *)
(* a run it tells of the completion first.                                 *)
Row(h, stage) == CHOOSE i \in Rows(h, stage) : \A j \in Rows(h, stage) : j <= i
Ending(h) == IF Prior(h) THEN "completed" ELSE "blocked"

(* What RecoveryExplainer says of a completed heartbeat is one run: every  *)
(* stage it picks is the completing run's, the candidate chosen is the one *)
(* authorized and executed, and its verification succeeded, although the   *)
(* ledger also holds the stages of runs that were cut short.  Only where a *)
(* run of the heartbeat was blocked does it also name that event, which is *)
(* of an earlier run than all the others.                                  *)
ExplanationCoherent ==
    \A h \in Heartbeats : Prior(h) =>
        LET last == log[Row(h, Ending(h))]
            picked == {s \in Explained : Rows(h, s) # {}}
        IN  /\ ToSet(Pipeline) \subseteq picked
            /\ \A s \in picked \ {"blocked"} : log[Row(h, s)].n = last.n
            /\ "blocked" \in picked => log[Row(h, "blocked")].n < last.n
            /\ \A s \in {"orch2", "authorized", "execution_verified"} :
                log[Row(h, s)].cand = last.cand
            /\ log[Row(h, "execution_verified")].ok

(* Every heartbeat is completed or blocked in the end, unless ORCH_2 has   *)
(* chosen for it what compile or the adapter refuses however often it is   *)
(* submitted; also when runs of it are killed, its lease expires, its file *)
(* is overwritten or another heartbeat raises (victor_heartbeat_v0.py, run,*)
(* and victor_launch_gate_v0.py, run).  Answers and choices stay in the    *)
(* ledger, so one moment serves for all of them.                           *)
HeartbeatSettles == <>(\A h \in Heartbeats : Answered(h) \/ ChoseRefused(h))
=============================================================================
