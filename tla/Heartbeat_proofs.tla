-------------------------- MODULE Heartbeat_proofs ---------------------------
(***************************************************************************)
(* Theorems about Heartbeat for any heartbeats, candidates, files, reruns, *)
(* kills and foreign writes: every effect follows on its authorization,    *)
(* what the ledger tells of a completed heartbeat is one run, and the      *)
(* world model takes every event of it.                                    *)
(***************************************************************************)
EXTENDS Heartbeat, SequenceTheorems, TLAPS

Truths == {"SUPPORTED", "PARTIAL", "UNKNOWN"}
Choosable == {"none"} \union
    UNION {{Selected(h, t) : t \in [Considered[h] -> Truths]} : h \in Heartbeats}
RunPcs == {"perception", "interpretation", "mapping", "future_field", "orch1",
           "deep_interrogation", "orch2", "blocked", "authorized", "execute",
           "verify", "completed"}
StageNames == {"perception", "interpretation", "mapping", "future_field", "orch1",
               "deep_interrogation", "orch2", "blocked", "authorized",
               "execution_verified", "completed"}
RunRecord == [pc : RunPcs, hb : Heartbeats, n : Nat, cand : Choosable, ok : BOOLEAN]
EventRecord ==
    [hb : Heartbeats, stage : StageNames, n : Nat, cand : Choosable, ok : BOOLEAN]
EffectRecord == [hb : Heartbeats, cand : Choosable, at : Nat]

HeartbeatTypeOK ==
    /\ log \in Seq(EventRecord)
    /\ effects \in Seq(EffectRecord)
    /\ run \in RunRecord \union {NoRun}
    /\ runs \in Nat

(* Event i is the last of its stage for the heartbeat.                     *)
LastRow(events, h, s, i) ==
    /\ i \in DOMAIN events /\ events[i].hb = h /\ events[i].stage = s
    /\ \A j \in DOMAIN events : events[j].hb = h /\ events[j].stage = s => j <= i

(* The last events of the first stages of the pipeline are those of run n, *)
(* for the one candidate from ORCH_2 on, and the verification was good.    *)
Told(events, h, upto, n, cand) ==
    \A k \in 1..upto : \E i \in DOMAIN events :
        /\ LastRow(events, h, Pipeline[k], i)
        /\ events[i].n = n
        /\ k >= 7 => events[i].cand = cand
        /\ k = 9 => events[i].ok

(* How many stages of the pipeline a run has recorded when it gets to pc.  *)
Passed(pc) ==
    CASE pc = "perception"                -> 0
      [] pc = "interpretation"            -> 1
      [] pc = "mapping"                   -> 2
      [] pc = "future_field"              -> 3
      [] pc = "orch1"                     -> 4
      [] pc = "deep_interrogation"        -> 5
      [] pc = "orch2"                     -> 6
      [] pc \in {"authorized", "blocked"} -> 7
      [] pc \in {"execute", "verify"}     -> 8
      [] pc = "completed"                 -> 9

(* The run under way: its heartbeat is not completed, the ledger tells its *)
(* stages so far, and right before the effect comes the authorization.     *)
RunSound ==
    run # NoRun =>
        /\ ~Prior(run.hb)
        /\ Told(log, run.hb, Passed(run.pc), run.n, run.cand)
        /\ run.pc = "execute" =>
              /\ Len(log) > 0
              /\ log[Len(log)].stage = "authorized"
              /\ log[Len(log)].hb = run.hb /\ log[Len(log)].cand = run.cand

EffectsRecorded == \A i \in DOMAIN effects : effects[i].at \in DOMAIN log

CompletedTold ==
    \A h \in Heartbeats : Prior(h) =>
        \E i \in DOMAIN log : Told(log, h, 10, log[i].n, log[i].cand)

HeartbeatInv ==
    /\ HeartbeatTypeOK
    /\ RunSound
    /\ EffectsRecorded
    /\ EffectsAuthorizedOnce
    /\ CompletedTold

-----------------------------------------------------------------------------
(* The pipeline, stage by stage.                                           *)
LEMMA PipelineStages ==
    /\ Pipeline \in Seq(StageNames) /\ Len(Pipeline) = 10
    /\ Pipeline[1] = "perception" /\ Pipeline[2] = "interpretation"
    /\ Pipeline[3] = "mapping" /\ Pipeline[4] = "future_field"
    /\ Pipeline[5] = "orch1" /\ Pipeline[6] = "deep_interrogation"
    /\ Pipeline[7] = "orch2" /\ Pipeline[8] = "authorized"
    /\ Pipeline[9] = "execution_verified" /\ Pipeline[10] = "completed"
<1> DEFINE a == Cognition
           b == <<"authorized", "execution_verified", "completed">>
<1>1. a \in Seq(StageNames) /\ Len(a) = 7
    BY DEF Cognition, StageNames
<1>2. b \in Seq(StageNames) /\ Len(b) = 3
    BY DEF StageNames
<1>3. /\ a[1] = "perception" /\ a[2] = "interpretation" /\ a[3] = "mapping"
      /\ a[4] = "future_field" /\ a[5] = "orch1" /\ a[6] = "deep_interrogation"
      /\ a[7] = "orch2"
    BY DEF Cognition
<1>4. b[1] = "authorized" /\ b[2] = "execution_verified" /\ b[3] = "completed"
    OBVIOUS
<1> HIDE DEF a, b
<1>5. /\ a \o b \in Seq(StageNames) /\ Len(a \o b) = 10
      /\ \A k \in 1..7 : (a \o b)[k] = a[k]
      /\ \A k \in 8..10 : (a \o b)[k] = b[k - 7]
    <2>1. /\ a \o b \in Seq(StageNames) /\ Len(a \o b) = Len(a) + Len(b)
          /\ \A i \in 1..(Len(a) + Len(b)) :
                (a \o b)[i] = IF i <= Len(a) THEN a[i] ELSE b[i - Len(a)]
        BY <1>1, <1>2, ConcatProperties
    <2>2. QED
        BY <1>1, <1>2, <2>1
<1>6. QED
    BY <1>3, <1>4, <1>5 DEF Pipeline, a, b

LEMMA StagesDiffer ==
    /\ \A j, k \in 1..10 : j # k => Pipeline[j] # Pipeline[k]
    /\ \A k \in 1..10 : Pipeline[k] # "blocked"
    /\ \A k \in 1..9 : Pipeline[k] # "completed"
BY PipelineStages

(* What an append does to the last events.                                 *)
LEMMA LastRowStays ==
    ASSUME NEW L \in Seq(EventRecord), NEW e \in EventRecord, NEW h, NEW s, NEW i,
           LastRow(L, h, s, i), ~(e.hb = h /\ e.stage = s)
    PROVE  LastRow(Append(L, e), h, s, i) /\ Append(L, e)[i] = L[i]
<1>1. /\ \A j \in DOMAIN L : Append(L, e)[j] = L[j]
      /\ DOMAIN Append(L, e) = DOMAIN L \union {Len(L) + 1}
      /\ Append(L, e)[Len(L) + 1] = e
    OBVIOUS
<1>2. QED
    BY <1>1 DEF LastRow

LEMMA LastRowIsNew ==
    ASSUME NEW L \in Seq(EventRecord), NEW e \in EventRecord
    PROVE  /\ LastRow(Append(L, e), e.hb, e.stage, Len(L) + 1)
           /\ Append(L, e)[Len(L) + 1] = e
BY DEF LastRow

LEMMA ToldStays ==
    ASSUME NEW L \in Seq(EventRecord), NEW e \in EventRecord, NEW h,
           NEW upto \in 0..10, NEW n, NEW cand, Told(L, h, upto, n, cand),
           \A k \in 1..upto : ~(e.hb = h /\ e.stage = Pipeline[k])
    PROVE  Told(Append(L, e), h, upto, n, cand)
<1> SUFFICES ASSUME NEW k \in 1..upto
             PROVE  \E i \in DOMAIN Append(L, e) :
                        /\ LastRow(Append(L, e), h, Pipeline[k], i)
                        /\ Append(L, e)[i].n = n
                        /\ k >= 7 => Append(L, e)[i].cand = cand
                        /\ k = 9 => Append(L, e)[i].ok
    BY DEF Told
<1>1. PICK i \in DOMAIN L : /\ LastRow(L, h, Pipeline[k], i)
                            /\ L[i].n = n
                            /\ k >= 7 => L[i].cand = cand
                            /\ k = 9 => L[i].ok
    BY DEF Told
<1>2. LastRow(Append(L, e), h, Pipeline[k], i) /\ Append(L, e)[i] = L[i]
    BY <1>1, LastRowStays
<1>3. i \in DOMAIN Append(L, e)
    BY <1>2 DEF LastRow
<1>4. QED
    BY <1>1, <1>2, <1>3

(* A run that records its next stage has told one stage more.              *)
LEMMA ToldMore ==
    ASSUME NEW L \in Seq(EventRecord), NEW e \in EventRecord, NEW k \in 1..10,
           NEW cand, Told(L, e.hb, k - 1, e.n, cand), e.stage = Pipeline[k],
           k >= 8 => e.cand = cand, k = 9 => e.ok
    PROVE  Told(Append(L, e), e.hb, k, e.n, e.cand)
<1>1. Told(Append(L, e), e.hb, k - 1, e.n, cand)
    <2>1. \A j \in 1..(k - 1) : e.stage # Pipeline[j]
        BY StagesDiffer
    <2>2. k - 1 \in 0..10
        OBVIOUS
    <2>3. QED
        BY <2>1, <2>2, ToldStays
<1>2. /\ LastRow(Append(L, e), e.hb, Pipeline[k], Len(L) + 1)
      /\ Append(L, e)[Len(L) + 1] = e
    BY LastRowIsNew
<1>3. Len(L) + 1 \in DOMAIN Append(L, e)
    BY <1>2 DEF LastRow
<1>4. ASSUME NEW j \in 1..k
      PROVE  \E i \in DOMAIN Append(L, e) :
                 /\ LastRow(Append(L, e), e.hb, Pipeline[j], i)
                 /\ Append(L, e)[i].n = e.n
                 /\ j >= 7 => Append(L, e)[i].cand = e.cand
                 /\ j = 9 => Append(L, e)[i].ok
    <2>1. CASE j = k
        BY <1>2, <1>3, <2>1
    <2>2. CASE j # k
        <3>1. j \in 1..(k - 1)
            BY <2>2
        <3>2. PICK i \in DOMAIN Append(L, e) :
                  /\ LastRow(Append(L, e), e.hb, Pipeline[j], i)
                  /\ Append(L, e)[i].n = e.n
                  /\ j >= 7 => Append(L, e)[i].cand = cand
                  /\ j = 9 => Append(L, e)[i].ok
            BY <1>1, <3>1 DEF Told
        <3>3. j >= 7 => cand = e.cand
            BY <3>1
        <3>4. QED
            BY <3>2, <3>3
    <2>3. QED
        BY <2>1, <2>2
<1>5. QED
    BY <1>4 DEF Told

-----------------------------------------------------------------------------
(* What an append does to the events of a heartbeat.                       *)
LEMMA RowsAppend ==
    ASSUME HeartbeatTypeOK, NEW e \in EventRecord, log' = Append(log, e)
    PROVE  \A h, s : /\ Rows(h, s) \subseteq Rows(h, s)'
                     /\ ~(e.hb = h /\ e.stage = s) => Rows(h, s)' = Rows(h, s)
<1>1. /\ \A j \in DOMAIN log : log'[j] = log[j]
      /\ DOMAIN log' = DOMAIN log \union {Len(log) + 1}
      /\ log'[Len(log) + 1] = e
    BY DEF HeartbeatTypeOK
<1>2. QED
    BY <1>1 DEF Rows

(* The parts of the invariant that speak of what is past survive any       *)
(* event but the completion of the heartbeat itself.                       *)
LEMMA PastStays ==
    ASSUME HeartbeatInv, NEW e \in EventRecord, log' = Append(log, e),
           UNCHANGED effects, ~Prior(e.hb), e.stage # "completed"
    PROVE  /\ EffectsRecorded' /\ EffectsAuthorizedOnce' /\ CompletedTold'
           /\ \A h : Prior(h)' <=> Prior(h)
<1>1. /\ \A j \in DOMAIN log : log'[j] = log[j]
      /\ DOMAIN log \subseteq DOMAIN log' /\ DOMAIN log = 1..Len(log)
    BY DEF HeartbeatInv, HeartbeatTypeOK
<1>2. \A h : Prior(h)' <=> Prior(h)
    BY RowsAppend DEF Prior, HeartbeatInv
<1>3. EffectsRecorded'
    BY <1>1 DEF EffectsRecorded, HeartbeatInv
<1>4. EffectsAuthorizedOnce'
    <2> SUFFICES ASSUME NEW i \in DOMAIN effects
                 PROVE  LET done == effects[i]
                        IN  /\ log'[done.at].stage = "authorized"
                            /\ log'[done.at].hb = done.hb /\ log'[done.at].cand = done.cand
                            /\ \A j \in 1 .. done.at :
                                  ~(log'[j].hb = done.hb /\ log'[j].stage = "completed")
        BY DEF EffectsAuthorizedOnce
    <2>1. effects[i].at \in 1..Len(log)
        BY <1>1 DEF HeartbeatInv, EffectsRecorded
    <2>2. \A j \in 1..effects[i].at : j \in DOMAIN log
        BY <1>1, <2>1
    <2>3. QED
        BY <1>1, <2>1, <2>2 DEF HeartbeatInv, EffectsAuthorizedOnce
<1>5. CompletedTold'
    <2> SUFFICES ASSUME NEW h \in Heartbeats, Prior(h)
                 PROVE  \E i \in DOMAIN log' : Told(log', h, 10, log'[i].n, log'[i].cand)
        BY <1>2 DEF CompletedTold
    <2>1. PICK i \in DOMAIN log : Told(log, h, 10, log[i].n, log[i].cand)
        BY DEF HeartbeatInv, CompletedTold
    <2>2. e.hb # h
        OBVIOUS
    <2>3. Told(log', h, 10, log[i].n, log[i].cand)
        BY <2>1, <2>2, ToldStays DEF HeartbeatInv, HeartbeatTypeOK
    <2>4. QED
        BY <1>1, <2>1, <2>3
<1>6. QED
    BY <1>2, <1>3, <1>4, <1>5

(* What a run writes is an event, and what it becomes a run.               *)
LEMMA RunFields ==
    ASSUME HeartbeatInv, run # NoRun
    PROVE  /\ run \in RunRecord
           /\ run.pc \in RunPcs /\ run.hb \in Heartbeats /\ run.n \in Nat
           /\ run.cand \in Choosable /\ run.ok \in BOOLEAN
           /\ ~Prior(run.hb)
           /\ Told(log, run.hb, Passed(run.pc), run.n, run.cand)
BY DEF HeartbeatInv, HeartbeatTypeOK, RunRecord, RunSound

LEMMA EventFields ==
    ASSUME HeartbeatInv, run # NoRun, NEW s \in StageNames
    PROVE  /\ Event(s) \in EventRecord
           /\ Event(s).hb = run.hb /\ Event(s).stage = s /\ Event(s).n = run.n
           /\ Event(s).cand = run.cand /\ Event(s).ok = run.ok
BY RunFields DEF Event, EventRecord

(* A run that appends an event and goes on.                                *)
LEMMA GoesOn ==
    ASSUME HeartbeatInv, run # NoRun, NEW e \in EventRecord, e.hb = run.hb,
           e.stage # "completed", log' = Append(log, e),
           run' \in RunRecord, run'.hb = run.hb, UNCHANGED <<runs, effects>>,
           Told(log', run.hb, Passed(run'.pc), run'.n, run'.cand),
           run'.pc = "execute" => e.stage = "authorized" /\ e.cand = run'.cand
    PROVE  HeartbeatInv'
<1>1. /\ EffectsRecorded' /\ EffectsAuthorizedOnce' /\ CompletedTold'
      /\ \A h : Prior(h)' <=> Prior(h)
    BY RunFields, PastStays
<1>2. log' \in Seq(EventRecord) /\ Len(log') = Len(log) + 1 /\ log'[Len(log')] = e
    BY DEF HeartbeatInv, HeartbeatTypeOK
<1>3. HeartbeatTypeOK'
    BY <1>2 DEF HeartbeatInv, HeartbeatTypeOK
<1>4. RunSound'
    <2>1. \A i \in DOMAIN log' : ~(log'[i].hb = run.hb /\ log'[i].stage = "completed")
        BY <1>1, RunFields DEF Prior, Rows
    <2>2. ~Prior(run.hb)'
        BY <2>1 DEF Prior, Rows
    <2>3. Len(log') > 0
        BY <1>2 DEF HeartbeatInv, HeartbeatTypeOK
    <2>4. QED
        BY <1>2, <2>2, <2>3 DEF RunSound
<1>5. QED
    BY <1>1, <1>3, <1>4 DEF HeartbeatInv

(* A run that appends an event and is over, the heartbeat not completed.   *)
LEMMA GivesUp ==
    ASSUME HeartbeatInv, run # NoRun, NEW e \in EventRecord, e.hb = run.hb,
           e.stage # "completed", log' = Append(log, e), run' = NoRun,
           UNCHANGED <<runs, effects>>
    PROVE  HeartbeatInv'
<1>1. EffectsRecorded' /\ EffectsAuthorizedOnce' /\ CompletedTold'
    BY RunFields, PastStays
<1>2. HeartbeatTypeOK'
    BY DEF HeartbeatInv, HeartbeatTypeOK
<1>3. QED
    BY <1>1, <1>2 DEF HeartbeatInv, RunSound

-----------------------------------------------------------------------------
LEMMA HeartbeatInit == Init => HeartbeatInv
BY DEF Init, HeartbeatInv, HeartbeatTypeOK, RunSound, EffectsRecorded,
       EffectsAuthorizedOnce, CompletedTold, Prior, Rows

LEMMA BeginStep ==
    ASSUME HeartbeatInv, NEW h \in Heartbeats, Begin(h)
    PROVE  HeartbeatInv'
<1>1. /\ UNCHANGED <<log, effects>> /\ ~Prior(h) /\ runs \in Nat
      /\ run' = [pc |-> "perception", hb |-> h, n |-> runs + 1, cand |-> "none", ok |-> FALSE]
      /\ runs' = runs + 1
    BY DEF Begin, Cognition, HeartbeatInv, HeartbeatTypeOK
<1>2. run' \in RunRecord /\ run'.hb = h /\ run'.pc = "perception"
    BY <1>1 DEF RunRecord, RunPcs, Choosable
<1>3. HeartbeatTypeOK'
    BY <1>1, <1>2 DEF HeartbeatInv, HeartbeatTypeOK
<1>4. RunSound'
    <2>1. ~Prior(run.hb)'
        BY <1>1, <1>2 DEF Prior, Rows
    <2>2. Told(log', run'.hb, Passed(run'.pc), run'.n, run'.cand)
        BY <1>2 DEF Told, Passed
    <2>3. QED
        BY <1>2, <2>1, <2>2 DEF RunSound
<1>5. EffectsRecorded' /\ EffectsAuthorizedOnce' /\ CompletedTold'
    BY <1>1 DEF HeartbeatInv, EffectsRecorded, EffectsAuthorizedOnce, CompletedTold,
                Prior, Rows
<1>6. QED
    BY <1>3, <1>4, <1>5 DEF HeartbeatInv

LEMMA ThinkStep ==
    ASSUME HeartbeatInv, Think
    PROVE  HeartbeatInv'
<1>1. PICK i \in 1..6 : run.pc = Cognition[i] /\ run' = [run EXCEPT !.pc = Cognition[i + 1]]
    BY DEF Think, Cognition
<1>2. /\ Cognition[i] = Pipeline[i] /\ Cognition[i] \in RunPcs \intersect StageNames
      /\ Cognition[i + 1] \in RunPcs \ {"execute"} /\ Cognition[i] # "completed"
      /\ Passed(Cognition[i]) = i - 1 /\ Passed(Cognition[i + 1]) = i
    BY PipelineStages DEF Cognition, RunPcs, StageNames, Passed
<1>3. run # NoRun
    BY <1>1, <1>2 DEF RunPcs, NoRun
<1> DEFINE e == Event(run.pc)
<1>4. /\ e \in EventRecord /\ e.hb = run.hb /\ e.stage = Pipeline[i] /\ e.n = run.n
      /\ e.cand = run.cand /\ e.stage # "completed"
    BY <1>1, <1>2, <1>3, EventFields
<1>5. log' = Append(log, e) /\ UNCHANGED <<runs, effects>>
    BY DEF Think, Observe, Record
<1>6. /\ run' \in RunRecord /\ run'.hb = run.hb /\ run'.n = run.n
      /\ run'.cand = run.cand /\ run'.pc = Cognition[i + 1]
    BY <1>1, <1>2, <1>3, RunFields DEF RunRecord
<1> HIDE DEF e
<1>7. Told(log', run.hb, i, run.n, run.cand)
    <2>1. Told(log, e.hb, i - 1, e.n, run.cand)
        BY <1>1, <1>2, <1>3, <1>4, RunFields
    <2>2. log \in Seq(EventRecord)
        BY DEF HeartbeatInv, HeartbeatTypeOK
    <2>3. i \in 1..10 /\ (i = 9 => e.ok)
        OBVIOUS
    <2>4. Told(Append(log, e), e.hb, i, e.n, e.cand)
        BY <1>4, <2>1, <2>2, <2>3, ToldMore
    <2>5. QED
        BY <1>4, <1>5, <2>4
<1>8. Told(log', run.hb, Passed(run'.pc), run'.n, run'.cand)
    BY <1>2, <1>6, <1>7
<1>9. QED
    BY <1>2, <1>3, <1>4, <1>5, <1>6, <1>8, GoesOn

LEMMA DecideStep ==
    ASSUME HeartbeatInv, Decide
    PROVE  HeartbeatInv'
<1>1. run.pc = "orch2" /\ run # NoRun
    BY DEF Decide, NoRun
<1>2. PICK truth \in [Considered[run.hb] -> Truths] :
        LET c == Selected(run.hb, truth)
        IN  /\ run' = [run EXCEPT !.cand = c, !.pc = IF c = "none" THEN "blocked" ELSE "authorized"]
            /\ log' = Append(log, [Event("orch2") EXCEPT !.cand = c])
    BY DEF Decide, Record, Rulings, Truths
<1> DEFINE c == Selected(run.hb, truth)
           e == [Event("orch2") EXCEPT !.cand = c]
<1>3. c \in Choosable
    BY <1>1, RunFields DEF Choosable
<1>4. /\ run' = [run EXCEPT !.cand = c, !.pc = IF c = "none" THEN "blocked" ELSE "authorized"]
      /\ log' = Append(log, e) /\ UNCHANGED <<runs, effects>>
    BY <1>2 DEF Decide
<1> HIDE DEF c
<1>5. /\ e \in EventRecord /\ e.hb = run.hb /\ e.stage = "orch2" /\ e.n = run.n /\ e.cand = c
    BY <1>1, <1>3, EventFields DEF EventRecord, StageNames
<1>6. /\ run' \in RunRecord /\ run'.hb = run.hb /\ run'.n = run.n /\ run'.cand = c
      /\ run'.pc \in {"blocked", "authorized"}
    BY <1>1, <1>3, <1>4, RunFields DEF RunRecord, RunPcs
<1> HIDE DEF e
<1>7. Told(log', run.hb, 7, run.n, c)
    <2>1. Told(log, e.hb, 7 - 1, e.n, run.cand)
        BY <1>1, <1>5, RunFields DEF Passed
    <2>2. log \in Seq(EventRecord) /\ e.stage = Pipeline[7]
        BY <1>5, PipelineStages DEF HeartbeatInv, HeartbeatTypeOK
    <2>3. Told(Append(log, e), e.hb, 7, e.n, e.cand)
        BY <1>5, <2>1, <2>2, ToldMore
    <2>4. QED
        BY <1>4, <1>5, <2>3
<1>8. Told(log', run.hb, Passed(run'.pc), run'.n, run'.cand)
    BY <1>6, <1>7 DEF Passed
<1>9. QED
    BY <1>1, <1>4, <1>5, <1>6, <1>8, GoesOn

LEMMA BlockStep ==
    ASSUME HeartbeatInv, Block
    PROVE  HeartbeatInv'
<1>1. run # NoRun /\ log' = Append(log, Event("blocked")) /\ run' = NoRun
      /\ UNCHANGED <<runs, effects>>
    BY DEF Block, Observe, Record, NoRun
<1>2. Event("blocked") \in EventRecord /\ Event("blocked").hb = run.hb
      /\ Event("blocked").stage = "blocked"
    BY <1>1, EventFields DEF StageNames
<1>3. QED
    BY <1>1, <1>2, GivesUp

LEMMA AuthorizeStep ==
    ASSUME HeartbeatInv, Authorize
    PROVE  HeartbeatInv'
<1> DEFINE e == Event("authorized")
<1>1. /\ run.pc = "authorized" /\ run # NoRun /\ run' = [run EXCEPT !.pc = "execute"]
      /\ log' = Append(log, e) /\ UNCHANGED <<runs, effects>>
    BY DEF Authorize, Observe, Record, NoRun
<1>2. /\ e \in EventRecord /\ e.hb = run.hb /\ e.stage = "authorized" /\ e.n = run.n
      /\ e.cand = run.cand
    BY <1>1, EventFields DEF StageNames
<1>3. /\ run' \in RunRecord /\ run'.hb = run.hb /\ run'.n = run.n
      /\ run'.cand = run.cand /\ run'.pc = "execute"
    BY <1>1, RunFields DEF RunRecord, RunPcs
<1> HIDE DEF e
<1>4. Told(log', run.hb, 8, run.n, run.cand)
    <2>1. Told(log, e.hb, 8 - 1, e.n, run.cand)
        BY <1>1, <1>2, RunFields DEF Passed
    <2>2. log \in Seq(EventRecord) /\ e.stage = Pipeline[8]
        BY <1>2, PipelineStages DEF HeartbeatInv, HeartbeatTypeOK
    <2>3. Told(Append(log, e), e.hb, 8, e.n, e.cand)
        BY <1>2, <2>1, <2>2, ToldMore
    <2>4. QED
        BY <1>1, <1>2, <2>3
<1>5. Told(log', run.hb, Passed(run'.pc), run'.n, run'.cand)
    BY <1>3, <1>4 DEF Passed
<1>6. QED
    BY <1>1, <1>2, <1>3, <1>5, GoesOn

(* The write: its authorization is the last event, and the heartbeat has   *)
(* not been completed.                                                     *)
LEMMA ExecuteStep ==
    ASSUME HeartbeatInv, Execute
    PROVE  HeartbeatInv'
<1>1. /\ run.pc = "execute" /\ run # NoRun /\ run' = [run EXCEPT !.pc = "verify"]
      /\ UNCHANGED <<log, runs>>
    BY DEF Execute, NoRun
<1>2. /\ run' \in RunRecord /\ run'.hb = run.hb /\ run'.n = run.n
      /\ run'.cand = run.cand /\ run'.pc = "verify"
    BY <1>1, RunFields DEF RunRecord, RunPcs
<1>3. RunSound'
    <2>1. ~Prior(run.hb)'
        BY <1>1, <1>2, RunFields DEF Prior, Rows
    <2>2. Told(log', run'.hb, Passed(run'.pc), run'.n, run'.cand)
        BY <1>1, <1>2, RunFields DEF Passed
    <2>3. QED
        BY <1>2, <2>1, <2>2 DEF RunSound
<1>4. CompletedTold'
    BY <1>1 DEF HeartbeatInv, CompletedTold, Prior, Rows
<1> DEFINE done == [hb |-> run.hb, cand |-> run.cand, at |-> Len(log)]
<1>5. /\ done \in EffectRecord /\ done.at = Len(log) /\ Len(log) \in DOMAIN log
      /\ log[Len(log)].stage = "authorized"
      /\ log[Len(log)].hb = done.hb /\ log[Len(log)].cand = done.cand
    BY <1>1, RunFields DEF EffectRecord, HeartbeatInv, HeartbeatTypeOK, RunSound
<1>6. \A j \in 1..Len(log) : ~(log[j].hb = done.hb /\ log[j].stage = "completed")
    BY <1>1, RunFields DEF HeartbeatInv, HeartbeatTypeOK, Prior, Rows
<1>7. effects' = effects \/ effects' = Append(effects, done)
    BY DEF Execute
<1> HIDE DEF done
<1>8. CASE effects' = effects
    BY <1>1, <1>2, <1>3, <1>4, <1>8
        DEF HeartbeatInv, HeartbeatTypeOK, EffectsRecorded, EffectsAuthorizedOnce
<1>9. CASE effects' = Append(effects, done)
    <2>1. effects \in Seq(EffectRecord)
        BY DEF HeartbeatInv, HeartbeatTypeOK
    <2>2. /\ effects' \in Seq(EffectRecord)
          /\ \A i \in DOMAIN effects' : (i \in DOMAIN effects /\ effects'[i] = effects[i])
                                        \/ effects'[i] = done
        BY <1>5, <1>9, <2>1
    <2>3. HeartbeatTypeOK'
        BY <1>1, <1>2, <2>2 DEF HeartbeatInv, HeartbeatTypeOK
    <2>4. EffectsRecorded'
        BY <1>1, <1>5, <2>2 DEF HeartbeatInv, EffectsRecorded
    <2>5. EffectsAuthorizedOnce'
        <3> SUFFICES ASSUME NEW i \in DOMAIN effects'
                     PROVE  LET one == effects'[i]
                            IN  /\ log[one.at].stage = "authorized"
                                /\ log[one.at].hb = one.hb /\ log[one.at].cand = one.cand
                                /\ \A j \in 1 .. one.at :
                                      ~(log[j].hb = one.hb /\ log[j].stage = "completed")
            BY <1>1 DEF EffectsAuthorizedOnce
        <3>1. CASE effects'[i] = done
            BY <1>5, <1>6, <3>1
        <3>2. CASE i \in DOMAIN effects /\ effects'[i] = effects[i]
            BY <3>2 DEF HeartbeatInv, EffectsAuthorizedOnce
        <3>3. QED
            BY <2>2, <3>1, <3>2
    <2>6. QED
        BY <1>3, <1>4, <2>3, <2>4, <2>5 DEF HeartbeatInv
<1>10. QED
    BY <1>7, <1>8, <1>9

LEMMA VerifyStep ==
    ASSUME HeartbeatInv, Verify
    PROVE  HeartbeatInv'
<1> DEFINE e == [Event("execution_verified") EXCEPT !.ok = Verified]
<1>1. run.pc = "verify" /\ run # NoRun /\ log' = Append(log, e) /\ UNCHANGED <<runs, effects>>
    BY DEF Verify, Record, NoRun
<1>2. /\ e \in EventRecord /\ e.hb = run.hb /\ e.stage = "execution_verified"
      /\ e.n = run.n /\ e.cand = run.cand /\ e.ok = Verified
    <2>1. Verified \in BOOLEAN
        BY DEF Verified
    <2>2. QED
        BY <1>1, <2>1, EventFields DEF EventRecord, StageNames
<1> HIDE DEF e
<1>3. CASE Verified
    <2>1. run' = [run EXCEPT !.pc = "completed", !.ok = TRUE]
        BY <1>3 DEF Verify
    <2>2. /\ run' \in RunRecord /\ run'.hb = run.hb /\ run'.n = run.n
          /\ run'.cand = run.cand /\ run'.pc = "completed"
        BY <1>1, <2>1, RunFields DEF RunRecord, RunPcs
    <2>3. Told(log, e.hb, 9 - 1, e.n, run.cand)
        BY <1>1, <1>2, RunFields DEF Passed
    <2>4. log \in Seq(EventRecord) /\ e.stage = Pipeline[9] /\ e.ok
        BY <1>2, <1>3, PipelineStages DEF HeartbeatInv, HeartbeatTypeOK
    <2>5. Told(Append(log, e), e.hb, 9, e.n, e.cand)
        BY <1>2, <2>3, <2>4, ToldMore
    <2>6. Told(log', run.hb, Passed(run'.pc), run'.n, run'.cand)
        BY <1>1, <1>2, <2>2, <2>5 DEF Passed
    <2>7. QED
        BY <1>1, <1>2, <2>2, <2>6, GoesOn
<1>4. CASE ~Verified
    <2>1. run' = NoRun
        BY <1>4 DEF Verify
    <2>2. QED
        BY <1>1, <1>2, <2>1, GivesUp
<1>5. QED
    BY <1>3, <1>4

(* The completion: the heartbeat's ten stages are this run's.              *)
LEMMA CompleteStep ==
    ASSUME HeartbeatInv, Complete
    PROVE  HeartbeatInv'
<1> DEFINE e == Event("completed")
           last == Len(log) + 1
<1>1. /\ run.pc = "completed" /\ run # NoRun /\ run' = NoRun
      /\ log' = Append(log, e) /\ UNCHANGED <<runs, effects>>
    BY DEF Complete, Observe, Record, NoRun
<1>2. /\ e \in EventRecord /\ e.hb = run.hb /\ e.stage = "completed"
      /\ e.n = run.n /\ e.cand = run.cand
    BY <1>1, EventFields DEF StageNames
<1>3. log \in Seq(EventRecord)
    BY DEF HeartbeatInv, HeartbeatTypeOK
<1> HIDE DEF e
<1>4. /\ log' \in Seq(EventRecord) /\ last \in DOMAIN log' /\ log'[last] = e
      /\ DOMAIN log = 1..Len(log) /\ DOMAIN log \subseteq DOMAIN log'
      /\ \A j \in DOMAIN log : log'[j] = log[j]
    BY <1>1, <1>2, <1>3
<1> HIDE DEF last
<1>5. HeartbeatTypeOK' /\ RunSound'
    BY <1>1, <1>4 DEF HeartbeatInv, HeartbeatTypeOK, RunSound
<1>6. EffectsRecorded'
    BY <1>1, <1>4 DEF HeartbeatInv, EffectsRecorded
<1>7. EffectsAuthorizedOnce'
    <2> SUFFICES ASSUME NEW i \in DOMAIN effects
                 PROVE  LET done == effects[i]
                        IN  /\ log'[done.at].stage = "authorized"
                            /\ log'[done.at].hb = done.hb /\ log'[done.at].cand = done.cand
                            /\ \A j \in 1 .. done.at :
                                  ~(log'[j].hb = done.hb /\ log'[j].stage = "completed")
        BY <1>1 DEF EffectsAuthorizedOnce
    <2>1. effects[i].at \in 1..Len(log)
        BY <1>4 DEF HeartbeatInv, EffectsRecorded
    <2>2. \A j \in 1..effects[i].at : j \in DOMAIN log
        BY <1>3, <1>4, <2>1
    <2>3. QED
        BY <1>4, <2>1, <2>2 DEF HeartbeatInv, EffectsAuthorizedOnce
<1>8. CompletedTold'
    <2> SUFFICES ASSUME NEW h \in Heartbeats, Prior(h)'
                 PROVE  \E i \in DOMAIN log' : Told(log', h, 10, log'[i].n, log'[i].cand)
        BY DEF CompletedTold
    <2>1. CASE h = e.hb
        <3>1. Told(log, e.hb, 10 - 1, e.n, run.cand)
            BY <1>1, <1>2, RunFields DEF Passed
        <3>2. Told(log', e.hb, 10, e.n, e.cand)
            BY <1>1, <1>2, <1>3, <3>1, PipelineStages, ToldMore
        <3>3. QED
            BY <1>4, <2>1, <3>2
    <2>2. CASE h # e.hb
        <3>1. Prior(h)
            BY <1>1, <1>2, <2>2, RowsAppend DEF Prior, HeartbeatInv
        <3>2. PICK i \in DOMAIN log : Told(log, h, 10, log[i].n, log[i].cand)
            BY <3>1 DEF HeartbeatInv, CompletedTold
        <3>3. Told(log', h, 10, log[i].n, log[i].cand)
            BY <1>1, <1>2, <1>3, <2>2, <3>2, ToldStays
        <3>4. QED
            BY <1>4, <3>2, <3>3
    <2>3. QED
        BY <2>1, <2>2
<1>9. QED
    BY <1>5, <1>6, <1>7, <1>8 DEF HeartbeatInv

LEMMA HeartbeatStep == HeartbeatInv /\ [Next]_vars => HeartbeatInv'
<1> SUFFICES ASSUME HeartbeatInv, [Next]_vars
             PROVE  HeartbeatInv'
    OBVIOUS
<1>1. CASE \E h \in Heartbeats : Begin(h)
    BY <1>1, BeginStep
<1>2. CASE Proceed /\ ~Refuse
    BY <1>2, ThinkStep, DecideStep, BlockStep, AuthorizeStep, ExecuteStep, VerifyStep,
       CompleteStep DEF Proceed
<1>3. ASSUME UNCHANGED <<log, effects, runs>>, run' = NoRun \/ run' = run
      PROVE  HeartbeatInv'
    BY <1>3 DEF HeartbeatInv, HeartbeatTypeOK, RunSound, EffectsRecorded,
                EffectsAuthorizedOnce, CompletedTold, Prior, Rows
<1>4. CASE Interrupted \/ Refuse
    BY <1>3, <1>4 DEF Interrupted, Refuse
<1>5. CASE ForeignWrite
    BY <1>3, <1>5 DEF ForeignWrite
<1>6. CASE UNCHANGED vars
    BY <1>3, <1>6 DEF vars
<1>7. QED
    BY <1>1, <1>2, <1>4, <1>5, <1>6 DEF Next

LEMMA HeartbeatHolds == Spec => []HeartbeatInv
BY HeartbeatInit, HeartbeatStep, PTL DEF Spec

-----------------------------------------------------------------------------
(* Runs are numbered as they begin, and a run that was blocked is earlier  *)
(* than the one under way and than the one that completed the heartbeat.   *)
RunsNumbered ==
    /\ \A i \in DOMAIN log : log[i].n <= runs
    /\ run # NoRun => /\ run.n <= runs
                      /\ \A i \in Rows(run.hb, "blocked") : log[i].n < run.n
    /\ \A h \in Heartbeats : \A i \in Rows(h, "completed"), j \in Rows(h, "blocked") :
          log[j].n < log[i].n
    /\ \A h \in Heartbeats : Rows(h, "blocked") # {} =>
          \E i \in DOMAIN log : LastRow(log, h, "blocked", i)

LEMMA LogNumbers ==
    ASSUME HeartbeatTypeOK
    PROVE  /\ runs \in Nat
           /\ \A j \in DOMAIN log : log[j].n \in Nat
<1>1. \A j \in DOMAIN log : log[j] \in EventRecord
    BY DEF HeartbeatTypeOK
<1>2. QED
    BY <1>1 DEF HeartbeatTypeOK, EventRecord

LEMMA NumberedInit == Init => RunsNumbered
BY DEF Init, RunsNumbered, Rows

(* A run that appends an event and goes on, or is over.                    *)
LEMMA NumberedAppend ==
    ASSUME HeartbeatInv, RunsNumbered, run # NoRun, NEW e \in EventRecord,
           e.hb = run.hb, e.n = run.n, log' = Append(log, e), UNCHANGED runs,
           run' # NoRun => run'.hb = run.hb /\ run'.n = run.n /\ e.stage # "blocked"
    PROVE  RunsNumbered'
<1>1. /\ \A j \in DOMAIN log : log'[j] = log[j]
      /\ DOMAIN log' = DOMAIN log \union {Len(log) + 1}
      /\ log'[Len(log) + 1] = e
      /\ runs \in Nat /\ run.n \in Nat
      /\ \A j \in DOMAIN log : log[j].n \in Nat
    BY RunFields, LogNumbers DEF HeartbeatInv, HeartbeatTypeOK
<1>2. \A i \in DOMAIN log' : log'[i].n <= runs'
    BY <1>1 DEF RunsNumbered
<1>3. run' # NoRun =>
          /\ run'.n <= runs'
          /\ \A i \in DOMAIN log' :
                log'[i].hb = run'.hb /\ log'[i].stage = "blocked" => log'[i].n < run'.n
    <2> SUFFICES ASSUME run' # NoRun
                 PROVE  /\ run'.n <= runs'
                        /\ \A i \in DOMAIN log' :
                              log'[i].hb = run'.hb /\ log'[i].stage = "blocked"
                                => log'[i].n < run'.n
        OBVIOUS
    <2>1. run'.hb = run.hb /\ run'.n = run.n /\ e.stage # "blocked" /\ run.n <= runs
        BY DEF RunsNumbered
    <2>2. \A i \in DOMAIN log :
              log[i].hb = run.hb /\ log[i].stage = "blocked" => log[i].n < run.n
        BY DEF RunsNumbered, Rows
    <2>3. QED
        BY <1>1, <2>1, <2>2
<1>4. ASSUME NEW h \in Heartbeats, NEW i \in Rows(h, "completed")',
             NEW j \in Rows(h, "blocked")'
      PROVE  log'[j].n < log'[i].n
    <2>1. CASE i \in DOMAIN log /\ j \in DOMAIN log
        BY <1>1, <1>4, <2>1 DEF RunsNumbered, Rows
    <2>2. CASE i = Len(log) + 1 /\ j \in DOMAIN log
        BY <1>1, <1>4, <2>2 DEF RunsNumbered, Rows
    <2>3. CASE i \in DOMAIN log /\ j = Len(log) + 1
        <3>1. i \in Rows(run.hb, "completed")
            BY <1>1, <1>4, <2>3 DEF Rows
        <3>2. QED
            BY <3>1, RunFields DEF Prior
    <2>4. CASE i = Len(log) + 1 /\ j = Len(log) + 1
        BY <1>1, <1>4, <2>4 DEF Rows
    <2>5. QED
        BY <1>1, <1>4, <2>1, <2>2, <2>3, <2>4 DEF Rows
<1>5. ASSUME NEW h \in Heartbeats, Rows(h, "blocked")' # {}
      PROVE  \E i \in DOMAIN log' : LastRow(log', h, "blocked", i)
    <2>1. log \in Seq(EventRecord)
        BY DEF HeartbeatInv, HeartbeatTypeOK
    <2>2. CASE e.hb = h /\ e.stage = "blocked"
        BY <1>1, <2>1, <2>2, LastRowIsNew
    <2>3. CASE ~(e.hb = h /\ e.stage = "blocked")
        <3>1. Rows(h, "blocked") # {}
            BY <1>1, <1>5, <2>3 DEF Rows
        <3>2. PICK i \in DOMAIN log : LastRow(log, h, "blocked", i)
            BY <3>1 DEF RunsNumbered
        <3>3. QED
            BY <1>1, <2>1, <2>3, <3>2, LastRowStays
    <2>4. QED
        BY <2>2, <2>3
<1>6. (run # NoRun => /\ run.n <= runs
                      /\ \A i \in Rows(run.hb, "blocked") : log[i].n < run.n)'
    BY <1>3 DEF Rows
<1>7. QED
    BY <1>2, <1>4, <1>5, <1>6 DEF RunsNumbered

LEMMA NumberedStep == HeartbeatInv /\ RunsNumbered /\ [Next]_vars => RunsNumbered'
<1> SUFFICES ASSUME HeartbeatInv, RunsNumbered, [Next]_vars
             PROVE  RunsNumbered'
    OBVIOUS
<1>1. ASSUME NEW h \in Heartbeats, Begin(h)
      PROVE  RunsNumbered'
    <2>1. /\ UNCHANGED log /\ runs' = runs + 1 /\ run'.n = runs + 1 /\ run'.hb = h
          /\ runs \in Nat /\ \A i \in DOMAIN log : log[i].n \in Nat /\ log[i].n <= runs
        BY <1>1, LogNumbers DEF Begin, HeartbeatInv, RunsNumbered
    <2>2. QED
        BY <2>1 DEF RunsNumbered, Rows
<1>2. ASSUME NEW s \in StageNames, run # NoRun, Observe(s), UNCHANGED runs,
             run' # NoRun => run'.hb = run.hb /\ run'.n = run.n /\ s # "blocked"
      PROVE  RunsNumbered'
    <2> DEFINE e == Event(s)
    <2>1. /\ e \in EventRecord /\ e.hb = run.hb /\ e.n = run.n /\ e.stage = s
          /\ log' = Append(log, e)
        BY <1>2, EventFields DEF Observe, Record
    <2> HIDE DEF e
    <2>2. QED
        BY <1>2, <2>1, NumberedAppend
<1>3. CASE Think
    <2>1. PICK i \in 1..6 : run.pc = Cognition[i] /\ run' = [run EXCEPT !.pc = Cognition[i + 1]]
        BY <1>3 DEF Think, Cognition
    <2>2. run.pc \in StageNames \ {"blocked"} /\ run # NoRun
        BY <2>1 DEF Cognition, StageNames, NoRun
    <2>3. run'.hb = run.hb /\ run'.n = run.n
        BY <2>1, <2>2, RunFields DEF RunRecord
    <2>4. QED
        BY <1>2, <1>3, <2>2, <2>3 DEF Think
<1>4. CASE Decide
    <2>1. run # NoRun /\ UNCHANGED runs
        BY <1>4 DEF Decide, NoRun
    <2>2. PICK truth \in Rulings(run.hb) :
            LET c == Selected(run.hb, truth)
            IN  /\ run' = [run EXCEPT !.cand = c, !.pc = IF c = "none" THEN "blocked" ELSE "authorized"]
                /\ Record([Event("orch2") EXCEPT !.cand = c])
        BY <1>4 DEF Decide
    <2> DEFINE c == Selected(run.hb, truth)
               e == [Event("orch2") EXCEPT !.cand = c]
    <2>3. c \in Choosable
        BY <2>1, RunFields DEF Choosable, Rulings, Truths
    <2>4. run' = [run EXCEPT !.cand = c, !.pc = IF c = "none" THEN "blocked" ELSE "authorized"]
          /\ log' = Append(log, e)
        BY <2>2 DEF Record
    <2> HIDE DEF c
    <2>5. e \in EventRecord /\ e.hb = run.hb /\ e.n = run.n /\ e.stage = "orch2"
        BY <2>1, <2>3, EventFields DEF EventRecord, StageNames
    <2>6. run'.hb = run.hb /\ run'.n = run.n
        BY <2>1, <2>4, RunFields DEF RunRecord
    <2> HIDE DEF e
    <2>7. QED
        BY <2>1, <2>4, <2>5, <2>6, NumberedAppend
<1>5. CASE Block
    BY <1>2, <1>5 DEF Block, StageNames, NoRun
<1>6. CASE Authorize
    <2>1. run # NoRun /\ run' = [run EXCEPT !.pc = "execute"]
        BY <1>6 DEF Authorize, NoRun
    <2>2. run'.hb = run.hb /\ run'.n = run.n
        BY <2>1, RunFields DEF RunRecord
    <2>3. QED
        BY <1>2, <1>6, <2>1, <2>2 DEF Authorize, StageNames
<1>7. CASE Verify
    <2> DEFINE e == [Event("execution_verified") EXCEPT !.ok = Verified]
    <2>1. run # NoRun /\ UNCHANGED runs /\ log' = Append(log, e)
        BY <1>7 DEF Verify, Record, NoRun
    <2>2. e \in EventRecord /\ e.hb = run.hb /\ e.n = run.n /\ e.stage = "execution_verified"
        <3>1. Verified \in BOOLEAN
            BY DEF Verified
        <3>2. QED
            BY <2>1, <3>1, EventFields DEF EventRecord, StageNames
    <2> HIDE DEF e
    <2>3. run' = NoRun \/ run' = [run EXCEPT !.pc = "completed", !.ok = TRUE]
        BY <1>7 DEF Verify
    <2>4. run' # NoRun => run'.hb = run.hb /\ run'.n = run.n
        BY <2>1, <2>3, RunFields DEF RunRecord
    <2>5. QED
        BY <2>1, <2>2, <2>4, NumberedAppend
<1>8. CASE Complete
    BY <1>2, <1>8 DEF Complete, StageNames, NoRun
<1>9. CASE Execute
    <2>1. run # NoRun /\ run' = [run EXCEPT !.pc = "verify"] /\ UNCHANGED <<log, runs>>
        BY <1>9 DEF Execute, NoRun
    <2>2. run'.hb = run.hb /\ run'.n = run.n
        BY <2>1, RunFields DEF RunRecord
    <2>3. QED
        BY <2>1, <2>2 DEF RunsNumbered, Rows
<1>10. CASE Refuse \/ Interrupted \/ ForeignWrite \/ UNCHANGED vars
    <2>1. UNCHANGED <<log, runs>> /\ (run' = NoRun \/ run' = run)
        BY <1>10 DEF Refuse, Interrupted, ForeignWrite, vars
    <2>2. QED
        BY <2>1 DEF RunsNumbered, Rows
<1>11. QED
    BY <1>1, <1>3, <1>4, <1>5, <1>6, <1>7, <1>8, <1>9, <1>10 DEF Next, Proceed

LEMMA NumberedHolds == Spec => []RunsNumbered
BY NumberedInit, NumberedStep, HeartbeatHolds, PTL DEF Spec

-----------------------------------------------------------------------------
(* A write comes right after its authorization became durable, and none    *)
(* for a heartbeat whose completion the ledger holds, whatever is killed   *)
(* and submitted again (VictorHeartbeatV0.run).                            *)
THEOREM EffectsFollowAuthorization == Spec => []EffectsAuthorizedOnce
<1>1. HeartbeatInv => EffectsAuthorizedOnce
    BY DEF HeartbeatInv
<1>2. QED
    BY <1>1, HeartbeatHolds, PTL

(* The last event of a stage is unique.                                    *)
LEMMA RowIsLast ==
    ASSUME HeartbeatTypeOK, NEW h, NEW s, NEW i, LastRow(log, h, s, i)
    PROVE  Rows(h, s) # {} /\ Row(h, s) = i
<1>1. /\ i \in Rows(h, s) /\ \A j \in Rows(h, s) : j <= i /\ j \in Nat /\ i \in Nat
    BY DEF HeartbeatTypeOK, LastRow, Rows
<1>2. \A k \in Rows(h, s) : (\A j \in Rows(h, s) : j <= k) => k = i
    BY <1>1
<1>3. QED
    BY <1>1, <1>2 DEF Row

LEMMA ToldIsCoherent == HeartbeatInv /\ RunsNumbered => ExplanationCoherent
<1> SUFFICES ASSUME HeartbeatInv, RunsNumbered, NEW h \in Heartbeats, Prior(h)
             PROVE  LET last == log[Row(h, "completed")]
                    IN  /\ \A s \in ToSet(Pipeline) :
                            Rows(h, s) # {} /\ log[Row(h, s)].n = last.n
                        /\ Rows(h, "blocked") # {} => log[Row(h, "blocked")].n < last.n
                        /\ \A s \in {"orch2", "authorized", "execution_verified"} :
                            log[Row(h, s)].cand = last.cand
                        /\ log[Row(h, "execution_verified")].ok
    BY DEF ExplanationCoherent, Ending, Explained
<1>1. PICK i \in DOMAIN log : Told(log, h, 10, log[i].n, log[i].cand)
    BY DEF HeartbeatInv, CompletedTold
<1>2. \A k \in 1..10 : /\ Rows(h, Pipeline[k]) # {}
                       /\ log[Row(h, Pipeline[k])].n = log[i].n
                       /\ k >= 7 => log[Row(h, Pipeline[k])].cand = log[i].cand
                       /\ k = 9 => log[Row(h, Pipeline[k])].ok
    <2> SUFFICES ASSUME NEW k \in 1..10
                 PROVE  /\ Rows(h, Pipeline[k]) # {}
                        /\ log[Row(h, Pipeline[k])].n = log[i].n
                        /\ k >= 7 => log[Row(h, Pipeline[k])].cand = log[i].cand
                        /\ k = 9 => log[Row(h, Pipeline[k])].ok
        OBVIOUS
    <2>1. PICK j \in DOMAIN log : /\ LastRow(log, h, Pipeline[k], j)
                                  /\ log[j].n = log[i].n
                                  /\ k >= 7 => log[j].cand = log[i].cand
                                  /\ k = 9 => log[j].ok
        BY <1>1 DEF Told
    <2>2. Rows(h, Pipeline[k]) # {} /\ Row(h, Pipeline[k]) = j
        BY <2>1, RowIsLast DEF HeartbeatInv
    <2>3. QED
        BY <2>1, <2>2
<1>3. /\ log[Row(h, "completed")].n = log[i].n
      /\ log[Row(h, "completed")].cand = log[i].cand
      /\ log[Row(h, "orch2")].cand = log[i].cand
      /\ log[Row(h, "authorized")].cand = log[i].cand
      /\ log[Row(h, "execution_verified")].cand = log[i].cand
      /\ log[Row(h, "execution_verified")].ok
    BY <1>2, PipelineStages
<1>4. \A s \in ToSet(Pipeline) : Rows(h, s) # {} /\ log[Row(h, s)].n = log[i].n
    BY <1>2, PipelineStages DEF ToSet
<1>5. Rows(h, "blocked") # {} =>
          log[Row(h, "blocked")].n < log[Row(h, "completed")].n
    <2> SUFFICES ASSUME Rows(h, "blocked") # {}
                 PROVE  log[Row(h, "blocked")].n < log[Row(h, "completed")].n
        OBVIOUS
    <2>1. PICK j : LastRow(log, h, "blocked", j)
        BY DEF RunsNumbered
    <2>2. PICK k : LastRow(log, h, "completed", k)
        BY <1>1, PipelineStages DEF Told
    <2>3. Row(h, "blocked") = j /\ Row(h, "completed") = k
        BY <2>1, <2>2, RowIsLast DEF HeartbeatInv
    <2>4. j \in Rows(h, "blocked") /\ k \in Rows(h, "completed")
        BY <2>1, <2>2 DEF LastRow, Rows
    <2>5. QED
        BY <2>3, <2>4 DEF RunsNumbered
<1>6. QED
    BY <1>3, <1>4, <1>5

(* What the explainer picks of a completed heartbeat is one run from its   *)
(* perception to its completion, with one candidate and a verification     *)
(* that succeeded; the one event of another run is that of an earlier run  *)
(* that was blocked (RecoveryExplainer.explain, STAGES).                   *)
THEOREM ExplanationsCohere == Spec => []ExplanationCoherent
BY HeartbeatHolds, NumberedHolds, ToldIsCoherent, PTL

-----------------------------------------------------------------------------
(* A node has the type of its kind; an entity may have become a heartbeat. *)
Fits(n) ==
    IF n.id[1] = "entity" THEN n.type \in {"entity", "heartbeat"}
    ELSE n.type = IF n.id[1] = "lease" THEN "capability_lease" ELSE n.id[1]

SoundWorld(w) == ~w.refused /\ \A n \in w.nodes : Fits(n)

(* Nodes that fit never conflict, and are all there afterwards.            *)
LEMMA UpsertFits ==
    ASSUME NEW w, SoundWorld(w), NEW new, \A m \in new : Fits(m)
    PROVE  /\ SoundWorld(Upsert(w, new))
           /\ \A m \in new \union w.nodes : \E n \in Upsert(w, new).nodes : n.id = m.id
<1> DEFINE untyped == {n \in w.nodes : n.type = "entity"}
           typed == w.nodes \ untyped
           after == typed \union {m \in new : \A n \in typed : n.id # m.id}
                          \union {n \in untyped : \A m \in new : n.id # m.id}
           clash == \E n \in typed, m \in new :
                        n.id = m.id /\ m.type \notin {n.type, "entity"}
<1>1. Upsert(w, new).nodes = after /\ Upsert(w, new).refused = (w.refused \/ clash)
    BY DEF Upsert
<1>2. ~clash
    BY DEF SoundWorld, Fits
<1>3. \A n \in after : Fits(n)
    BY DEF SoundWorld
<1>4. \A m \in new \union w.nodes : \E n \in after : n.id = m.id
    OBVIOUS
<1>5. QED
    BY <1>1, <1>2, <1>3, <1>4 DEF SoundWorld

(* Every mutation upserts nodes that fit.                                  *)
LEMMA MutationsFit ==
    ASSUME NEW e
    PROVE  /\ \A m \in Mutations(e) : Fits(m)
           /\ Fits(Subject(e)) /\ Fits(Typed("actor", "victor", "actor"))
BY DEF Mutations, Subject, Typed, Fits

(* Whatever event is applied, it is not refused: its edges join nodes it   *)
(* has just upserted.                                                      *)
LEMMA EventsApply ==
    ASSUME NEW w, SoundWorld(w), NEW e
    PROVE  SoundWorld(ApplyInformatron(w, e))
<1> DEFINE first == {Typed("actor", "victor", "actor"), Subject(e)}
           observed == Upsert(w, first)
           mutated == Upsert(observed, Mutations(e))
           ends == Mutations(e) \union {Subject(e)}
<1>1. SoundWorld(observed) /\ \E n \in observed.nodes : n.id = Subject(e).id
    <2>1. \A m \in first : Fits(m)
        BY MutationsFit
    <2> HIDE DEF first
    <2>2. SoundWorld(observed) /\ \A m \in first \union w.nodes : \E n \in observed.nodes : n.id = m.id
        BY <2>1, UpsertFits
    <2>3. QED
        BY <2>2 DEF first
<1> HIDE DEF observed
<1>2. /\ SoundWorld(mutated)
      /\ \A m \in Mutations(e) \union observed.nodes : \E n \in mutated.nodes : n.id = m.id
    BY <1>1, MutationsFit, UpsertFits
<1>3. \A m \in ends : \E n \in mutated.nodes : n.id = m.id
    BY <1>1, <1>2
<1>4. ApplyInformatron(w, e) = AddEdges(mutated, ends)
    BY DEF ApplyInformatron, observed
<1>5. mutated = [nodes |-> mutated.nodes, refused |-> mutated.refused]
    BY DEF Upsert
<1> HIDE DEF mutated, ends
<1>6. /\ AddEdges(mutated, ends).nodes = mutated.nodes
      /\ AddEdges(mutated, ends).refused
            = (mutated.refused \/ \E m \in ends : \A n \in mutated.nodes : n.id # m.id)
    BY <1>5 DEF AddEdges
<1>7. QED
    BY <1>2, <1>3, <1>4, <1>6 DEF SoundWorld

LEMMA WorldStep ==
    ASSUME SoundWorld(world), [Next]_vars
    PROVE  SoundWorld(world)'
<1>1. ASSUME NEW e, Record(e)
      PROVE  SoundWorld(world)'
    BY <1>1, EventsApply DEF Record
<1>2. CASE Think
    BY <1>1, <1>2 DEF Think, Observe
<1>3. CASE Decide
    BY <1>1, <1>3 DEF Decide
<1>4. CASE Block
    BY <1>1, <1>4 DEF Block, Observe
<1>5. CASE Authorize
    BY <1>1, <1>5 DEF Authorize, Observe
<1>6. CASE Verify
    BY <1>1, <1>6 DEF Verify
<1>7. CASE Complete
    BY <1>1, <1>7 DEF Complete, Observe
<1>8. CASE Execute \/ Interrupted \/ ForeignWrite \/ (\E h \in Heartbeats : Begin(h))
           \/ Refuse \/ UNCHANGED vars
    BY <1>8 DEF Execute, Refuse, Interrupted, ForeignWrite, Begin, vars, SoundWorld, Fits
<1>9. QED
    BY <1>2, <1>3, <1>4, <1>5, <1>6, <1>7, <1>8 DEF Next, Proceed

(* No ledger this code can leave behind stops a restart: the world model   *)
(* takes every event, in the order the events were appended                *)
(* (VictorWorldModel.rebuild, sync).                                       *)
THEOREM WorldAlwaysRebuilds == Spec => []WorldRebuilds
<1>1. Init => SoundWorld(world)
    BY DEF Init, EmptyWorld, SoundWorld
<1>2. SoundWorld(world) => WorldRebuilds
    BY DEF SoundWorld, WorldRebuilds
<1>3. QED
    BY <1>1, <1>2, WorldStep, PTL DEF Spec
=============================================================================
