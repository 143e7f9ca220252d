--------------------------- MODULE MoneyFarm_proofs ---------------------------
(***************************************************************************)
(* Theorems about MoneyFarm for any number of connections, runs, receipts  *)
(* and strategies: no run commits more than its ceiling, a receipt has one *)
(* verdict and keeps it, and a cull is on record.  A sum of money is a     *)
(* number of cents, so that what a step adds to it is what it adds to a    *)
(* finite set.                                                             *)
(***************************************************************************)
EXTENDS MoneyFarm, FiniteSetTheorems, TLAPS

TotalsOK ==
    /\ totals = [p \in Procs |-> totals[p]]
    /\ \A p \in Procs : totals[p].samples \in Nat

(* What a process relies on, by where it stands.                           *)
StrategyPcs == {"strategy", "parallel", "insert", "evaluate", "list", "sum", "cull"}
RunPcs == {"abort", "pending", "close"}
ReceiptPcs == {"settle", "announce"}

Decided(s) == \E d \in decisions : d.strategy = s /\ LosingDecision(d)

Standing(r) ==
    /\ r.pc \in StrategyPcs => r.subject \in Strategies
    /\ r.pc \in RunPcs => r.subject \in Runs /\ run[r.subject] # NoRun
    /\ r.pc \in ReceiptPcs
         => r.subject \in Receipts /\ receipt[r.subject] # NoReceipt /\ r.seen \in Settled
    /\ r.pc = "announce"
         => announced[r.subject] = <<>> /\ receipt[r.subject].status = r.seen
    /\ r.pc = "cull" => Decided(r.subject)

(* Only one process is ever about to announce a receipt.                   *)
OneAnnouncer ==
    \A p, q \in Procs :
        p # q /\ proc[p].pc = "announce" /\ proc[q].pc = "announce"
            => proc[p].subject # proc[q].subject

AnnouncedSettled ==
    \A k \in Receipts :
        announced[k] # <<>>
            => announced[k] = <<receipt[k].status>> /\ receipt[k].status \in Settled

MoneyInv ==
    /\ TablesTypeOK
    /\ TotalsOK
    /\ \A p \in Procs : Standing(proc[p])
    /\ OneAnnouncer
    /\ AnnouncedSettled
    /\ CullsAreDecided

-----------------------------------------------------------------------------
LEMMA IdleType ==
    ASSUME NEW current \in Runs \union {None}
    PROVE  /\ Idle(current) \in ProcRow
           /\ Idle(current).pc = "idle"
           /\ Off \in ProcRow
           /\ Off.pc = "off"
<1>1. Idle(current) \in ProcRow /\ Idle(None) \in ProcRow
    BY DEF Idle, ProcRow, Pcs
<1>2. Idle(current).pc = "idle" /\ Off.pc = "off"
    BY DEF Idle, Off
<1>3. Off \in ProcRow
    BY <1>1 DEF Off, ProcRow, Pcs
<1>4. QED
    BY <1>1, <1>2, <1>3

LEMMA ProcType ==
    ASSUME TablesTypeOK, NEW p \in Procs
    PROVE  /\ proc[p] \in ProcRow
           /\ proc[p].current \in Runs \union {None}
           /\ proc[p].seen \in Settled \union {None, "active", "culled"}
           /\ proc[p].todo \in SUBSET Runs
BY DEF TablesTypeOK, ProcRow

(* A process outside its calls relies on nothing.                          *)
LEMMA QuietStands ==
    ASSUME NEW r \in ProcRow, r.pc \in {"idle", "off"}
    PROVE  Standing(r)
BY DEF Standing, StrategyPcs, RunPcs, ReceiptPcs

(* A step of one process that leaves the tables alone and does not take it *)
(* to an announcement.                                                     *)
LEMMA LocalStep ==
    ASSUME MoneyInv, NEW p \in Procs, NEW r \in ProcRow, Set(p, r),
           UNCHANGED <<tables, announced>>, TotalsOK',
           Standing(r), r.pc # "announce"
    PROVE  MoneyInv'
<1>1. TablesTypeOK'
    BY DEF MoneyInv, TablesTypeOK, Set, tables
<1>2. \A q \in Procs : proc'[q] = IF q = p THEN r ELSE proc[q]
    BY DEF MoneyInv, TablesTypeOK, Set
<1>3. \A q \in Procs : Standing(proc[q])'
    BY <1>2 DEF MoneyInv, Standing, Decided, LosingDecision, tables
<1>4. OneAnnouncer'
    BY <1>2 DEF MoneyInv, OneAnnouncer
<1>5. AnnouncedSettled' /\ CullsAreDecided'
    BY DEF MoneyInv, AnnouncedSettled, CullsAreDecided, LosingDecision, tables
<1>6. QED
    BY <1>1, <1>3, <1>4, <1>5 DEF MoneyInv

LEMMA TotalsKept ==
    ASSUME MoneyInv, UNCHANGED totals PROVE TotalsOK'
BY DEF MoneyInv, TotalsOK

LEMMA TotalsReset ==
    ASSUME MoneyInv, NEW p \in Procs, totals' = [totals EXCEPT ![p] = NoTotals]
    PROVE  TotalsOK'
<1>1. NoTotals.samples \in Nat
    BY DEF NoTotals
<1>2. \A q \in Procs : totals'[q] = IF q = p THEN NoTotals ELSE totals[q]
    BY DEF MoneyInv, TotalsOK
<1>3. totals' = [q \in Procs |-> totals'[q]]
    BY DEF MoneyInv, TotalsOK
<1>4. QED
    BY <1>1, <1>2, <1>3 DEF MoneyInv, TotalsOK

(* Back to idle, or off.                                                   *)
LEMMA QuietStep ==
    ASSUME MoneyInv, NEW p \in Procs, NEW r \in ProcRow, Set(p, r),
           r.pc \in {"idle", "off"},
           UNCHANGED <<tables, announced>>, TotalsOK'
    PROVE  MoneyInv'
<1>1. Standing(r) /\ r.pc # "announce"
    BY QuietStands
<1>2. QED
    BY <1>1, LocalStep

LEMMA ReturnStep ==
    ASSUME MoneyInv, NEW p \in Procs, Return(p),
           UNCHANGED <<tables, announced>>, TotalsOK'
    PROVE  MoneyInv'
<1>1. proc[p].current \in Runs \union {None}
    BY ProcType DEF MoneyInv
<1>2. QED
    BY <1>1, IdleType, QuietStep DEF Return

(* Entering a call, or going on in it, about a subject of the right kind.  *)
LEMMA GoOnStep ==
    ASSUME MoneyInv, NEW p \in Procs, NEW r \in ProcRow, Set(p, r),
           UNCHANGED <<tables, announced, totals>>,
           \/ r.pc \in StrategyPcs \ {"cull"} /\ r.subject \in Strategies
           \/ r.pc \in RunPcs /\ r.subject \in Runs /\ run[r.subject] # NoRun
           \/ r.pc = "settle" /\ r.subject \in Receipts /\ receipt[r.subject] # NoReceipt
              /\ r.seen \in Settled
    PROVE  MoneyInv'
<1>1. Standing(r) /\ r.pc # "announce"
    BY DEF Standing, StrategyPcs, RunPcs, ReceiptPcs
<1>2. QED
    BY <1>1, LocalStep, TotalsKept

(* The edits a process makes to its locals keep their types.               *)
LEMMA EditPc ==
    ASSUME NEW r \in ProcRow, NEW pc \in Pcs
    PROVE  [r EXCEPT !.pc = pc] \in ProcRow
BY DEF ProcRow

LEMMA EditSubject ==
    ASSUME NEW r \in ProcRow, NEW pc \in Pcs,
           NEW s \in Runs \union Receipts \union Strategies
    PROVE  [r EXCEPT !.pc = pc, !.subject = s] \in ProcRow
BY DEF ProcRow

LEMMA EditVerdict ==
    ASSUME NEW r \in ProcRow, NEW pc \in Pcs, NEW k \in Receipts,
           NEW verdict \in Settled
    PROVE  [r EXCEPT !.pc = pc, !.subject = k, !.seen = verdict] \in ProcRow
BY DEF ProcRow

LEMMA EditSeen ==
    ASSUME NEW r \in ProcRow, NEW pc \in Pcs,
           NEW st \in {None, "active", "culled"}
    PROVE  [r EXCEPT !.pc = pc, !.seen = st] \in ProcRow
BY DEF ProcRow

LEMMA EditTodo ==
    ASSUME NEW r \in ProcRow, NEW pc \in Pcs, NEW todo \in SUBSET Runs
    PROVE  [r EXCEPT !.pc = pc, !.todo = todo] \in ProcRow
BY DEF ProcRow

LEMMA EditTodoOnly ==
    ASSUME NEW r \in ProcRow, NEW todo \in SUBSET Runs
    PROVE  [r EXCEPT !.todo = todo] \in ProcRow
BY DEF ProcRow

LEMMA OpenIsRun ==
    ASSUME NEW r \in Runs, run[r].status = "open"
    PROVE  run[r] # NoRun
BY DEF NoRun, None

LEMMA PcsType ==
    /\ StrategyPcs \subseteq Pcs
    /\ RunPcs \subseteq Pcs
    /\ ReceiptPcs \subseteq Pcs
BY DEF StrategyPcs, RunPcs, ReceiptPcs, Pcs

LEMMA Subject ==
    ASSUME MoneyInv, NEW p \in Procs
    PROVE  /\ proc[p] \in ProcRow
           /\ proc[p].pc \in StrategyPcs => proc[p].subject \in Strategies
           /\ proc[p].pc \in RunPcs
                => proc[p].subject \in Runs /\ run[proc[p].subject] # NoRun
           /\ proc[p].pc \in ReceiptPcs
                => /\ proc[p].subject \in Receipts
                   /\ receipt[proc[p].subject] # NoReceipt
                   /\ proc[p].seen \in Settled
BY ProcType DEF MoneyInv, Standing

-----------------------------------------------------------------------------
(* Processes, and the calls that read.                                     *)
LEMMA ProcessSteps ==
    ASSUME MoneyInv, NEW p \in Procs,
           OpenCompany(p) \/ OpenOrgan(p) \/ Stop(p)
    PROVE  MoneyInv'
<1>1. CASE OpenCompany(p)
    <2>1. PICK r \in Runs \union {None} : Set(p, Idle(r))
        BY <1>1 DEF OpenCompany, OpenRuns
    <2>2. TotalsOK'
        BY <1>1, TotalsKept DEF OpenCompany
    <2>3. QED
        BY <1>1, <2>1, <2>2, IdleType, QuietStep DEF OpenCompany
<1>2. CASE OpenOrgan(p)
    <2>1. TotalsOK'
        BY <1>2, TotalsKept DEF OpenOrgan
    <2>2. QED
        BY <1>2, <2>1, IdleType, QuietStep DEF OpenOrgan
<1>3. CASE Stop(p)
    <2>1. TotalsOK'
        BY <1>3, TotalsReset DEF Stop
    <2>2. Off \in ProcRow /\ Off.pc \in {"idle", "off"}
        BY IdleType
    <2>3. QED
        BY <1>3, <2>1, <2>2, QuietStep DEF Stop
<1>4. QED
    BY <1>1, <1>2, <1>3

LEMMA StartSteps ==
    ASSUME MoneyInv, NEW p \in Procs,
           \/ \E s \in Strategies : StartRevenueRun(p, s) \/ EvaluateStrategy(p, s)
           \/ ReadStrategy(p) \/ CountOpenRuns(p)
    PROVE  MoneyInv'
<1> USE PcsType
<1>1. ASSUME NEW s \in Strategies, StartRevenueRun(p, s) PROVE MoneyInv'
    <2>1. Idle(proc[p].current) \in ProcRow
        BY IdleType, ProcType DEF MoneyInv
    <2>2. "strategy" \in Pcs /\ "strategy" \in StrategyPcs \ {"cull"}
        BY DEF Pcs, StrategyPcs
    <2> DEFINE r == [Idle(proc[p].current) EXCEPT !.pc = "strategy", !.subject = s]
    <2>3. r \in ProcRow /\ r.pc = "strategy" /\ r.subject = s
        <3>1. r \in ProcRow
            BY <2>1, <2>2, EditSubject
        <3>2. r.pc = "strategy" /\ r.subject = s
            BY <2>1, <2>2 DEF ProcRow
        <3>3. QED
            BY <3>1, <3>2
    <2>4. Set(p, r) /\ UNCHANGED <<tables, announced, totals>>
        BY <1>1 DEF StartRevenueRun
    <2>5. PICK y \in ProcRow : Set(p, y) /\ y.pc = "strategy" /\ y.subject = s
        BY <2>3, <2>4
    <2>6. QED
        BY <2>2, <2>5, <2>4, GoOnStep
<1>2. ASSUME NEW s \in Strategies, EvaluateStrategy(p, s) PROVE MoneyInv'
    <2>1. "evaluate" \in Pcs /\ "evaluate" \in StrategyPcs \ {"cull"}
        BY DEF Pcs, StrategyPcs
    <2> DEFINE r == [proc[p] EXCEPT !.pc = "evaluate", !.subject = s]
    <2>2. r \in ProcRow /\ r.pc = "evaluate" /\ r.subject = s
        <3>1. r \in ProcRow
            BY <2>1, Subject, EditSubject
        <3>2. r.pc = "evaluate" /\ r.subject = s
            BY <2>1, Subject DEF ProcRow
        <3>3. QED
            BY <3>1, <3>2
    <2>3. Set(p, r) /\ UNCHANGED <<tables, announced, totals>>
        BY <1>2 DEF EvaluateStrategy
    <2>4. PICK y \in ProcRow : Set(p, y) /\ y.pc = "evaluate" /\ y.subject = s
        BY <2>2, <2>3
    <2>5. QED
        BY <2>1, <2>4, <2>3, GoOnStep
<1>3. CASE ReadStrategy(p)
    <2>1. proc[p] \in ProcRow /\ proc[p].subject \in Strategies
        BY <1>3, Subject DEF ReadStrategy, At, StrategyPcs
    <2>2. "parallel" \in Pcs /\ "parallel" \in StrategyPcs \ {"cull"}
        BY DEF Pcs, StrategyPcs
    <2>3. CASE Set(p, [proc[p] EXCEPT !.pc = "parallel"])
        <3> DEFINE q == [proc[p] EXCEPT !.pc = "parallel"]
        <3>1. q \in ProcRow
            BY <2>1, <2>2, EditPc
        <3>2. q.pc = "parallel" /\ q.subject = proc[p].subject
            BY <2>1, <2>2 DEF ProcRow
        <3>3. PICK y \in ProcRow :
                  Set(p, y) /\ y.pc = "parallel" /\ y.subject = proc[p].subject
            BY <2>3, <3>1, <3>2
        <3>4. UNCHANGED <<tables, announced, totals>>
            BY <1>3 DEF ReadStrategy
        <3>5. QED
            BY <2>1, <2>2, <3>3, <3>4, GoOnStep
    <2>4. CASE Return(p)
        BY <1>3, <2>4, ReturnStep, TotalsKept DEF ReadStrategy
    <2>5. QED
        BY <1>3, <2>3, <2>4 DEF ReadStrategy
<1>4. CASE CountOpenRuns(p)
    <2>1. proc[p] \in ProcRow /\ proc[p].subject \in Strategies
        BY <1>4, Subject DEF CountOpenRuns, At, StrategyPcs
    <2>2. "insert" \in Pcs /\ "insert" \in StrategyPcs \ {"cull"}
        BY DEF Pcs, StrategyPcs
    <2>3. CASE Set(p, [proc[p] EXCEPT !.pc = "insert"])
        <3> DEFINE q == [proc[p] EXCEPT !.pc = "insert"]
        <3>1. q \in ProcRow
            BY <2>1, <2>2, EditPc
        <3>2. q.pc = "insert" /\ q.subject = proc[p].subject
            BY <2>1, <2>2 DEF ProcRow
        <3>3. PICK y \in ProcRow :
                  Set(p, y) /\ y.pc = "insert" /\ y.subject = proc[p].subject
            BY <2>3, <3>1, <3>2
        <3>4. UNCHANGED <<tables, announced, totals>>
            BY <1>4 DEF CountOpenRuns
        <3>5. QED
            BY <2>1, <2>2, <3>3, <3>4, GoOnStep
    <2>4. CASE Return(p)
        BY <1>4, <2>4, ReturnStep, TotalsKept DEF CountOpenRuns
    <2>5. QED
        BY <1>4, <2>3, <2>4 DEF CountOpenRuns
<1>5. QED
    BY <1>1, <1>2, <1>3, <1>4

-----------------------------------------------------------------------------
(* Calls that end a run, up to their update, and the verifier.             *)
LEMMA EndReads ==
    ASSUME MoneyInv, NEW p \in Procs,
           (\E r \in Runs : AbortRun(p, r) \/ CloseRun(p, r)) \/ CountPending(p)
    PROVE  MoneyInv'
<1>1. ASSUME NEW r \in Runs, AbortRun(p, r) PROVE MoneyInv'
    <2>1. run[r] # NoRun
        BY <1>1, OpenIsRun DEF AbortRun
    <2>2. "abort" \in Pcs /\ "abort" \in RunPcs
        BY DEF Pcs, RunPcs
    <2> DEFINE q == [proc[p] EXCEPT !.pc = "abort", !.subject = r]
    <2>3. q \in ProcRow /\ q.pc = "abort" /\ q.subject = r
        <3>1. q \in ProcRow
            BY <2>2, Subject, EditSubject
        <3>2. q.pc = "abort" /\ q.subject = r
            BY <2>2, Subject DEF ProcRow
        <3>3. QED
            BY <3>1, <3>2
    <2>4. Set(p, q) /\ UNCHANGED <<tables, announced, totals>>
        BY <1>1 DEF AbortRun
    <2>5. PICK y \in ProcRow : Set(p, y) /\ y.pc = "abort" /\ y.subject = r
        BY <2>3, <2>4
    <2>6. QED
        BY <2>1, <2>2, <2>5, <2>4, GoOnStep
<1>2. ASSUME NEW r \in Runs, CloseRun(p, r) PROVE MoneyInv'
    <2>1. run[r] # NoRun
        BY <1>2, OpenIsRun DEF CloseRun
    <2>2. "pending" \in Pcs /\ "pending" \in RunPcs
        BY DEF Pcs, RunPcs
    <2> DEFINE q == [proc[p] EXCEPT !.pc = "pending", !.subject = r]
    <2>3. q \in ProcRow /\ q.pc = "pending" /\ q.subject = r
        <3>1. q \in ProcRow
            BY <2>2, Subject, EditSubject
        <3>2. q.pc = "pending" /\ q.subject = r
            BY <2>2, Subject DEF ProcRow
        <3>3. QED
            BY <3>1, <3>2
    <2>4. Set(p, q) /\ UNCHANGED <<tables, announced, totals>>
        BY <1>2 DEF CloseRun
    <2>5. PICK y \in ProcRow : Set(p, y) /\ y.pc = "pending" /\ y.subject = r
        BY <2>3, <2>4
    <2>6. QED
        BY <2>1, <2>2, <2>5, <2>4, GoOnStep
<1>3. CASE CountPending(p)
    <2>1. /\ proc[p] \in ProcRow /\ proc[p].subject \in Runs
          /\ run[proc[p].subject] # NoRun
        BY <1>3, Subject DEF CountPending, At, RunPcs
    <2>2. "close" \in Pcs /\ "close" \in RunPcs
        BY DEF Pcs, RunPcs
    <2>3. CASE Set(p, [proc[p] EXCEPT !.pc = "close"])
        <3> DEFINE q == [proc[p] EXCEPT !.pc = "close"]
        <3>1. q \in ProcRow
            BY <2>1, <2>2, EditPc
        <3>2. q.pc = "close" /\ q.subject = proc[p].subject
            BY <2>1, <2>2 DEF ProcRow
        <3>3. PICK y \in ProcRow :
                  Set(p, y) /\ y.pc = "close" /\ y.subject = proc[p].subject
            BY <2>3, <3>1, <3>2
        <3>4. UNCHANGED <<tables, announced, totals>>
            BY <1>3 DEF CountPending
        <3>5. QED
            BY <2>1, <2>2, <3>3, <3>4, GoOnStep
    <2>4. CASE Return(p)
        BY <1>3, <2>4, ReturnStep, TotalsKept DEF CountPending
    <2>5. QED
        BY <1>3, <2>3, <2>4 DEF CountPending
<1>4. QED
    BY <1>1, <1>2, <1>3

LEMMA VerifierStep ==
    ASSUME MoneyInv, NEW p \in Procs, NEW k \in Receipts, NEW verdict \in Settled,
           VerifyReceipt(p, k, verdict)
    PROVE  MoneyInv'
<1>1. receipt[k] # NoReceipt
    BY DEF VerifyReceipt, NoReceipt, None
<1>2. "settle" \in Pcs
    BY DEF Pcs
<1> DEFINE q == [proc[p] EXCEPT !.pc = "settle", !.subject = k, !.seen = verdict]
<1>3. q \in ProcRow /\ q.pc = "settle" /\ q.subject = k /\ q.seen = verdict
    <2>1. q \in ProcRow
        BY <1>2, Subject, EditVerdict
    <2>2. q.pc = "settle" /\ q.subject = k /\ q.seen = verdict
        BY <1>2, Subject DEF ProcRow
    <2>3. QED
        BY <2>1, <2>2
<1>4. Set(p, q) /\ UNCHANGED <<tables, announced, totals>>
    BY DEF VerifyReceipt
<1>5. PICK y \in ProcRow : Set(p, y) /\ y.pc = "settle" /\ y.subject = k /\ y.seen = verdict
    BY <1>3, <1>4
<1>6. QED
    BY <1>1, <1>5, <1>4, GoOnStep

(* The reads of an evaluation.                                             *)
LEMMA EvaluationReads ==
    ASSUME MoneyInv, NEW p \in Procs,
           ReadEvaluated(p) \/ ListClosedRuns(p) \/ \E r \in Runs : SumRun(p, r)
    PROVE  MoneyInv'
<1>1. CASE ReadEvaluated(p)
    <2>1. proc[p] \in ProcRow /\ proc[p].subject \in Strategies
        BY <1>1, Subject DEF ReadEvaluated, At, StrategyPcs
    <2>2. strategy[proc[p].subject] \in {None, "active", "culled"}
        BY <2>1 DEF MoneyInv, TablesTypeOK
    <2>3. "list" \in Pcs /\ "list" \in StrategyPcs \ {"cull"}
        BY DEF Pcs, StrategyPcs
    <2> DEFINE q == [proc[p] EXCEPT !.pc = "list", !.seen = strategy[proc[p].subject]]
    <2>4. q \in ProcRow /\ q.pc = "list" /\ q.subject = proc[p].subject
        <3>1. q \in ProcRow
            BY <2>1, <2>2, <2>3, EditSeen
        <3>2. q.pc = "list" /\ q.subject = proc[p].subject
            BY <2>1, <2>2, <2>3 DEF ProcRow
        <3>3. QED
            BY <3>1, <3>2
    <2>5. Set(p, q) /\ UNCHANGED <<tables, announced, totals>>
        BY <1>1 DEF ReadEvaluated
    <2>6. PICK y \in ProcRow : Set(p, y) /\ y.pc = "list" /\ y.subject = proc[p].subject
        BY <2>4, <2>5
    <2>7. QED
        BY <2>1, <2>3, <2>6, <2>5, GoOnStep
<1>2. CASE ListClosedRuns(p)
    <2>1. proc[p] \in ProcRow /\ proc[p].subject \in Strategies
        BY <1>2, Subject DEF ListClosedRuns, At, StrategyPcs
    <2>2. RunsOf(proc[p].subject, "closed") \in SUBSET Runs
        BY DEF RunsOf
    <2>3. "sum" \in Pcs /\ "sum" \in StrategyPcs \ {"cull"}
        BY DEF Pcs, StrategyPcs
    <2> DEFINE q == [proc[p] EXCEPT !.pc = "sum",
                                    !.todo = RunsOf(proc[p].subject, "closed")]
    <2>4. q \in ProcRow /\ q.pc = "sum" /\ q.subject = proc[p].subject
        <3>1. q \in ProcRow
            BY <2>1, <2>2, <2>3, EditTodo
        <3>2. q.pc = "sum" /\ q.subject = proc[p].subject
            BY <2>1, <2>2, <2>3 DEF ProcRow
        <3>3. QED
            BY <3>1, <3>2
    <2>5. Set(p, q) /\ UNCHANGED <<tables, announced, totals>>
        BY <1>2 DEF ListClosedRuns
    <2>6. PICK y \in ProcRow : Set(p, y) /\ y.pc = "sum" /\ y.subject = proc[p].subject
        BY <2>4, <2>5
    <2>7. QED
        BY <2>1, <2>3, <2>6, <2>5, GoOnStep
<1>3. ASSUME NEW r \in Runs, SumRun(p, r) PROVE MoneyInv'
    <2>1. proc[p] \in ProcRow /\ proc[p].subject \in Strategies /\ proc[p].pc = "sum"
        BY <1>3, Subject DEF SumRun, At, StrategyPcs
    <2>2. proc[p].todo \ {r} \in SUBSET Runs /\ "sum" \in Pcs
        BY ProcType DEF MoneyInv, Pcs
    <2> DEFINE q == [proc[p] EXCEPT !.todo = proc[p].todo \ {r}]
    <2>3. q \in ProcRow /\ q.pc = "sum" /\ q.subject = proc[p].subject
        <3>1. q \in ProcRow
            BY <2>1, <2>2, EditTodo
        <3>2. q.pc = "sum" /\ q.subject = proc[p].subject
            BY <2>1, <2>2 DEF ProcRow
        <3>3. QED
            BY <3>1, <3>2
    <2>4. Set(p, q) /\ UNCHANGED <<tables, announced>>
        BY <1>3 DEF SumRun
    <2>5. PICK revenue, cost, wins :
              totals' = [totals EXCEPT ![p] =
                  [samples |-> totals[p].samples + 1, revenue |-> revenue,
                   cost |-> cost, wins |-> wins]]
        BY <1>3 DEF SumRun, MoneyInv, TotalsOK
    <2>6. TotalsOK'
        <3>1. \A a \in Procs : totals'[a].samples =
                  IF a = p THEN totals[p].samples + 1 ELSE totals[a].samples
            BY <2>5 DEF MoneyInv, TotalsOK
        <3>2. totals' = [a \in Procs |-> totals'[a]]
            BY <2>5 DEF MoneyInv, TotalsOK
        <3>3. QED
            BY <3>1, <3>2 DEF MoneyInv, TotalsOK
    <2>7. Standing(q) /\ q.pc # "announce"
        BY <2>1, <2>3 DEF Standing, StrategyPcs, RunPcs, ReceiptPcs
    <2>8. PICK y \in ProcRow : Set(p, y) /\ y.pc = "sum" /\ y.subject = proc[p].subject /\ Standing(y)
        BY <2>3, <2>4, <2>7
    <2>9. QED
        BY <2>8, <2>4, <2>6, <2>7, LocalStep
<1>4. QED
    BY <1>1, <1>2, <1>3

-----------------------------------------------------------------------------
(* Steps that write a table.  Rows are added or, for runs, change status;  *)
(* a receipt stays as it is and nothing is announced.                      *)
LEMMA GrowStep ==
    ASSUME MoneyInv, NEW p \in Procs, NEW r \in ProcRow, Set(p, r),
           TablesTypeOK', TotalsOK', CullsAreDecided', announced' = announced,
           \A x \in Runs : run[x] # NoRun => run'[x] # NoRun,
           \A k \in Receipts : receipt[k] # NoReceipt => receipt'[k] = receipt[k],
           decisions \subseteq decisions',
           Standing(r)', r.pc # "announce"
    PROVE  MoneyInv'
<1>1. \A q \in Procs : proc'[q] = IF q = p THEN r ELSE proc[q]
    BY DEF MoneyInv, TablesTypeOK, Set
<1>2. ASSUME NEW q \in Procs, q # p PROVE Standing(proc[q])'
    <2>1. Standing(proc[q]) /\ proc'[q] = proc[q]
        BY <1>1, <1>2 DEF MoneyInv
    <2> DEFINE x == proc[q].subject
    <2>2. proc[q].pc \in RunPcs => x \in Runs /\ run'[x] # NoRun
        BY <2>1 DEF Standing
    <2>3. proc[q].pc \in ReceiptPcs
             => /\ x \in Receipts /\ receipt'[x] = receipt[x]
                /\ receipt'[x] # NoReceipt /\ proc[q].seen \in Settled
        BY <2>1 DEF Standing
    <2>4. proc[q].pc = "announce"
             => announced'[x] = <<>> /\ receipt'[x].status = proc[q].seen
        BY <2>1, <2>3 DEF Standing, ReceiptPcs
    <2>5. proc[q].pc = "cull"
             => \E d \in decisions' : d.strategy = x /\ LosingDecision(d)
        BY <2>1 DEF Standing, Decided
    <2>6. proc[q].pc \in StrategyPcs => x \in Strategies
        BY <2>1 DEF Standing
    <2>7. QED
        BY <2>1, <2>2, <2>3, <2>4, <2>5, <2>6 DEF Standing, Decided, LosingDecision
<1>3. \A q \in Procs : Standing(proc[q])'
    BY <1>1, <1>2
<1>4. OneAnnouncer'
    BY <1>1 DEF MoneyInv, OneAnnouncer
<1>5. AnnouncedSettled'
    <2>1. \A k \in Receipts : receipt[k].status \in Settled => receipt[k] # NoReceipt
        BY DEF Settled, NoReceipt, None
    <2>2. QED
        BY <2>1 DEF MoneyInv, AnnouncedSettled
<1>6. QED
    BY <1>3, <1>4, <1>5 DEF MoneyInv

LEMMA QuietLater ==
    ASSUME NEW r \in ProcRow, r.pc \in {"idle", "off"}
    PROVE  Standing(r)' /\ r.pc # "announce"
BY DEF Standing, StrategyPcs, RunPcs, ReceiptPcs

LEMMA Same ==
    ASSUME MoneyInv, NEW p \in Procs, UNCHANGED proc PROVE Set(p, proc[p])
BY DEF MoneyInv, TablesTypeOK, Set

LEMMA RegisterStep ==
    ASSUME MoneyInv, NEW p \in Procs, NEW s \in Strategies, RegisterStrategy(p, s)
    PROVE  MoneyInv'
<1>1. TablesTypeOK'
    BY DEF MoneyInv, TablesTypeOK, RegisterStrategy
<1>2. CullsAreDecided'
    BY DEF MoneyInv, TablesTypeOK, RegisterStrategy, CullsAreDecided, LosingDecision
<1>3. proc[p] \in ProcRow /\ Set(p, proc[p]) /\ proc[p].pc = "idle"
    BY Subject, Same DEF RegisterStrategy, At
<1>4. PICK r \in ProcRow : Set(p, r) /\ r.pc = "idle"
    BY <1>3
<1>5. Standing(r)' /\ r.pc # "announce"
    BY <1>4, QuietLater
<1>6. QED
    BY <1>1, <1>2, <1>4, <1>5, TotalsKept, GrowStep DEF RegisterStrategy

LEMMA RecordStep ==
    ASSUME MoneyInv, NEW p \in Procs, NEW k \in Receipts, NEW r \in Runs,
           NEW kind \in Kinds, NEW amount \in Amounts,
           RecordReceipt(p, k, r, kind, amount)
    PROVE  MoneyInv'
<1>1. TablesTypeOK'
    <2>1. receipt' \in [Receipts -> ReceiptRow]
        BY DEF MoneyInv, TablesTypeOK, RecordReceipt, ReceiptRow
    <2>2. QED
        BY <2>1 DEF MoneyInv, TablesTypeOK, RecordReceipt
<1>2. CullsAreDecided'
    BY DEF MoneyInv, RecordReceipt, CullsAreDecided, LosingDecision
<1>3. proc[p] \in ProcRow /\ Set(p, proc[p]) /\ proc[p].pc = "idle"
    BY Subject, Same DEF RecordReceipt, At
<1>4. PICK q \in ProcRow : Set(p, q) /\ q.pc = "idle"
    BY <1>3
<1>5. Standing(q)' /\ q.pc # "announce"
    BY <1>4, QuietLater
<1>6. \A x \in Receipts : receipt[x] # NoReceipt => receipt'[x] = receipt[x]
    BY DEF MoneyInv, TablesTypeOK, RecordReceipt
<1>7. QED
    BY <1>1, <1>2, <1>4, <1>5, <1>6, TotalsKept, GrowStep DEF RecordReceipt

(* The status of a run changes: it stays a run.                            *)
LEMMA Ends ==
    ASSUME MoneyInv, NEW r \in Runs, NEW status \in {"closed", "aborted"},
           run[r] # NoRun, run' = [run EXCEPT ![r].status = status]
    PROVE  /\ run' \in [Runs -> RunRow]
           /\ \A x \in Runs : run[x] # NoRun => run'[x] # NoRun
<1>1. run \in [Runs -> RunRow]
    BY DEF MoneyInv, TablesTypeOK
<1>2. run[r] \in [status : {"open", "closed", "aborted"}, strategy : Strategies]
    BY <1>1 DEF RunRow
<1> DEFINE row == [run[r] EXCEPT !.status = status]
<1>3. row \in [status : {"open", "closed", "aborted"}, strategy : Strategies]
    BY <1>2
<1>4. row # NoRun
    <2>1. row.status = status
        BY <1>2
    <2>2. QED
        BY <2>1 DEF NoRun, None
<1>5. row \in RunRow
    BY <1>3 DEF RunRow
<1>6. run' = [run EXCEPT ![r] = row]
    OBVIOUS
<1> HIDE DEF row
<1>7. QED
    BY <1>1, <1>4, <1>5, <1>6

LEMMA RunTables ==
    ASSUME MoneyInv, NEW p \in Procs, NEW r \in ProcRow, Set(p, r),
           run' \in [Runs -> RunRow],
           UNCHANGED <<strategy, receipt, decisions, announced>>
    PROVE  TablesTypeOK' /\ CullsAreDecided'
<1>1. TablesTypeOK'
    BY DEF MoneyInv, TablesTypeOK, Set
<1>2. CullsAreDecided'
    BY DEF MoneyInv, CullsAreDecided, LosingDecision
<1>3. QED
    BY <1>1, <1>2

(* A call about runs that writes the runs table and goes on with r.        *)
LEMMA RunStep ==
    ASSUME MoneyInv, NEW p \in Procs, NEW r \in ProcRow, Set(p, r),
           run' \in [Runs -> RunRow],
           \A x \in Runs : run[x] # NoRun => run'[x] # NoRun,
           UNCHANGED <<strategy, receipt, decisions, announced, totals>>,
           r.pc = "idle" \/ (r.pc = "evaluate" /\ r.subject \in Strategies)
    PROVE  MoneyInv'
<1>1. Standing(r)' /\ r.pc # "announce"
    BY DEF Standing, StrategyPcs, RunPcs, ReceiptPcs
<1>2. QED
    BY <1>1, RunTables, TotalsKept, GrowStep

LEMMA IdleRow ==
    ASSUME NEW p \in Procs, NEW current \in Runs \union {None},
           Set(p, Idle(current))
    PROVE  \E y \in ProcRow : Set(p, y) /\ y.pc = "idle"
BY IdleType

LEMMA InsertRunStep ==
    ASSUME MoneyInv, NEW p \in Procs, NEW r \in Runs, NEW reported \in BOOLEAN,
           InsertRun(p, r, reported)
    PROVE  MoneyInv'
<1>1. proc[p].subject \in Strategies
    BY Subject DEF InsertRun, At, StrategyPcs
<1> DEFINE row == [status |-> "open", strategy |-> proc[p].subject]
           current == IF reported THEN r ELSE proc[p].current
<1>2. row \in RunRow /\ row # NoRun
    BY <1>1 DEF RunRow, NoRun, None
<1>3. run' = [run EXCEPT ![r] = row] /\ run \in [Runs -> RunRow]
    BY DEF InsertRun, MoneyInv, TablesTypeOK
<1>4. current \in Runs \union {None}
    BY ProcType DEF MoneyInv
<1>5. PICK y \in ProcRow : Set(p, y) /\ y.pc = "idle"
    BY <1>4, IdleRow DEF InsertRun
<1> HIDE DEF row, current
<1>6. /\ run' \in [Runs -> RunRow]
      /\ \A x \in Runs : run[x] # NoRun => run'[x] # NoRun
    BY <1>2, <1>3
<1>7. UNCHANGED <<strategy, receipt, decisions, announced, totals>>
    BY DEF InsertRun
<1>8. QED
    BY <1>5, <1>6, <1>7, RunStep

LEMMA UpdateSteps ==
    ASSUME MoneyInv, NEW p \in Procs, NEW reported \in BOOLEAN,
           UpdateAborted(p, reported) \/ UpdateClosed(p, reported)
    PROVE  MoneyInv'
<1> DEFINE r == proc[p].subject
<1>1. r \in Runs /\ run[r] # NoRun
    BY Subject DEF UpdateAborted, UpdateClosed, At, RunPcs
<1>2. proc[p].current \in Runs \union {None}
    BY ProcType DEF MoneyInv
<1>3. run[r].strategy \in Strategies
    BY <1>1 DEF MoneyInv, TablesTypeOK, RunRow
<1>4. PICK status \in {"closed", "aborted"} :
          run' = [run EXCEPT ![r].status = status]
    BY DEF UpdateAborted, UpdateClosed
<1>5. /\ run' \in [Runs -> RunRow]
      /\ \A x \in Runs : run[x] # NoRun => run'[x] # NoRun
    BY <1>1, <1>4, Ends
<1>6. PICK y \in ProcRow :
          /\ Set(p, y)
          /\ y.pc = "idle" \/ (y.pc = "evaluate" /\ y.subject \in Strategies)
    <2>1. CASE UpdateAborted(p, reported)
        <3> DEFINE current == IF reported /\ r = proc[p].current THEN None
                              ELSE proc[p].current
        <3>1. current \in Runs \union {None} /\ Set(p, Idle(current))
            BY <1>2, <2>1 DEF UpdateAborted
        <3> HIDE DEF current
        <3>2. \E y \in ProcRow : Set(p, y) /\ y.pc = "idle"
            BY <3>1, IdleRow
        <3>3. QED
            BY <3>2
    <2>2. CASE UpdateClosed(p, reported) /\ Return(p)
        <3>1. \E y \in ProcRow : Set(p, y) /\ y.pc = "idle"
            BY <1>2, <2>2, IdleRow DEF Return
        <3>2. QED
            BY <3>1
    <2> DEFINE y == [Idle(None) EXCEPT !.pc = "evaluate", !.subject = run[r].strategy]
    <2>3. CASE Set(p, y)
        <3>1. Idle(None) \in ProcRow /\ "evaluate" \in Pcs
            BY IdleType DEF Pcs
        <3>2. y \in ProcRow
            BY <1>3, <3>1, EditSubject
        <3>3. y.pc = "evaluate" /\ y.subject = run[r].strategy
            BY <3>1 DEF ProcRow
        <3>4. QED
            BY <1>3, <2>3, <3>2, <3>3
    <2>4. QED
        BY <2>1, <2>2, <2>3 DEF UpdateClosed
<1>7. UNCHANGED <<strategy, receipt, decisions, announced, totals>>
    BY DEF UpdateAborted, UpdateClosed
<1>8. QED
    BY <1>5, <1>6, <1>7, RunStep

-----------------------------------------------------------------------------
(* A new CULL is decided on enough runs and a loss.                        *)
LEMMA CullIsLosing ==
    ASSUME NEW status, NEW t, t.samples \in Nat, status # "culled",
           Decision(status, t) = "CULL"
    PROVE  t.samples >= MinSamples /\ t.revenue < t.cost
<1>1. ~(t.samples < MinSamples) /\ t.revenue < t.cost
    BY DEF Decision
<1>2. QED
    BY <1>1, MoneyAssumption

LEMMA DecisionStep ==
    ASSUME MoneyInv, NEW p \in Procs, InsertDecision(p)
    PROVE  MoneyInv'
<1> DEFINE t == totals[p]
           action == Decision(proc[p].seen, t)
           d == [strategy |-> proc[p].subject, action |-> action,
                 samples |-> t.samples, loss |-> t.revenue < t.cost]
<1>1. proc[p] \in ProcRow /\ proc[p].subject \in Strategies
    BY Subject DEF InsertDecision, At, StrategyPcs
<1>2. decisions' = decisions \union {d}
    BY DEF InsertDecision
<1>3. action = "CULL" /\ proc[p].seen # "culled"
         => d.strategy = proc[p].subject /\ LosingDecision(d)
    BY CullIsLosing DEF MoneyInv, TotalsOK, LosingDecision
<1> HIDE DEF d, action, t
<1>4. UNCHANGED <<strategy, run, receipt, announced>>
    BY DEF InsertDecision
<1>5. TotalsOK'
    BY TotalsReset DEF InsertDecision
<1>6. PICK y \in ProcRow :
          /\ Set(p, y)
          /\ \/ y.pc = "idle"
             \/ /\ y.pc = "cull" /\ y.subject = proc[p].subject
                /\ LosingDecision(d) /\ d.strategy = proc[p].subject
    <2>1. CASE Return(p)
        <3>1. proc[p].current \in Runs \union {None}
            BY ProcType DEF MoneyInv
        <3>2. \E y \in ProcRow : Set(p, y) /\ y.pc = "idle"
            BY <2>1, <3>1, IdleRow DEF Return
        <3>3. QED
            BY <3>2
    <2> DEFINE y == [proc[p] EXCEPT !.pc = "cull"]
    <2>2. CASE Set(p, y) /\ action = "CULL" /\ proc[p].seen # "culled"
        <3>1. "cull" \in Pcs
            BY DEF Pcs
        <3>2. y \in ProcRow
            BY <1>1, <3>1, EditPc
        <3>3. y.pc = "cull" /\ y.subject = proc[p].subject
            BY <1>1, <3>1 DEF ProcRow
        <3>4. QED
            BY <1>3, <2>2, <3>2, <3>3
    <2>3. QED
        BY <2>1, <2>2 DEF InsertDecision, t, action
<1>7. Standing(y)' /\ y.pc # "announce"
    <2>1. CASE y.pc = "idle"
        BY <2>1, QuietLater
    <2>2. CASE y.pc = "cull" /\ y.subject = proc[p].subject
               /\ LosingDecision(d) /\ d.strategy = proc[p].subject
        <3>1. d \in decisions'
            BY <1>2
        <3>2. \E x \in decisions' : x.strategy = y.subject /\ LosingDecision(x)
            BY <2>2, <3>1
        <3>3. QED
            BY <1>1, <2>2, <3>2
            DEF Standing, StrategyPcs, RunPcs, ReceiptPcs, Decided, LosingDecision
    <2>3. QED
        BY <1>6, <2>1, <2>2
<1>8. TablesTypeOK'
    BY <1>4, <1>6 DEF MoneyInv, TablesTypeOK, Set
<1>9. CullsAreDecided'
    BY <1>2, <1>4 DEF MoneyInv, CullsAreDecided, LosingDecision
<1>10. QED
    BY <1>2, <1>4, <1>5, <1>6, <1>7, <1>8, <1>9, GrowStep

LEMMA CullStep ==
    ASSUME MoneyInv, NEW p \in Procs, CullStrategy(p)
    PROVE  MoneyInv'
<1> DEFINE s == proc[p].subject
<1>1. s \in Strategies /\ Decided(s)
    <2>1. proc[p].pc = "cull" /\ Standing(proc[p])
        BY DEF CullStrategy, At, MoneyInv
    <2>2. QED
        BY <2>1 DEF Standing, StrategyPcs
<1>2. /\ strategy' = [strategy EXCEPT ![s] = "culled"]
      /\ UNCHANGED <<run, receipt, decisions, announced, totals>>
    BY DEF CullStrategy
<1>3. proc[p].current \in Runs \union {None}
    BY ProcType DEF MoneyInv
<1>4. PICK y \in ProcRow : Set(p, y) /\ y.pc = "idle"
    BY <1>3, IdleRow DEF CullStrategy, Return
<1>5. Standing(y)' /\ y.pc # "announce"
    BY <1>4, QuietLater
<1>6. TablesTypeOK'
    BY <1>1, <1>2, <1>4 DEF MoneyInv, TablesTypeOK, Set
<1>7. CullsAreDecided'
    BY <1>1, <1>2 DEF MoneyInv, TablesTypeOK, CullsAreDecided, Decided, LosingDecision
<1>8. QED
    BY <1>2, <1>4, <1>5, <1>6, <1>7, TotalsKept, GrowStep

-----------------------------------------------------------------------------
(* The compare-and-set on a pending receipt: the loser returns, the winner *)
(* goes to announce, alone, a receipt nobody has announced.                *)
LEMMA SettleStep ==
    ASSUME MoneyInv, NEW p \in Procs, SettleReceipt(p)
    PROVE  MoneyInv'
<1> DEFINE k == proc[p].subject
           verdict == proc[p].seen
           y == [proc[p] EXCEPT !.pc = "announce"]
<1>1. /\ proc[p] \in ProcRow /\ k \in Receipts
      /\ receipt[k] # NoReceipt /\ verdict \in Settled
    BY Subject DEF SettleReceipt, At, ReceiptPcs
<1>2. CASE Return(p) /\ UNCHANGED receipt
    <2>1. UNCHANGED <<tables, announced>> /\ TotalsOK'
        BY <1>2, TotalsKept DEF SettleReceipt, tables
    <2>2. QED
        BY <1>2, <2>1, ReturnStep
<1>3. CASE /\ receipt[k].status = "pending" /\ Set(p, y)
           /\ receipt' = [receipt EXCEPT ![k].status = verdict]
    <2>1. y \in ProcRow /\ y.pc = "announce" /\ y.subject = k /\ y.seen = verdict
        <3>1. "announce" \in Pcs
            BY DEF Pcs
        <3>2. y \in ProcRow
            BY <1>1, <3>1, EditPc
        <3>3. y.pc = "announce" /\ y.subject = k /\ y.seen = verdict
            BY <1>1 DEF ProcRow
        <3>4. QED
            BY <3>2, <3>3
    <2>2. PICK z \in ProcRow :
              /\ Set(p, z)
              /\ z.pc = "announce" /\ z.subject = k /\ z.seen = verdict
        BY <1>3, <2>1
    <2> DEFINE row == [receipt[k] EXCEPT !.status = verdict]
    <2>3. row \in ReceiptRow /\ row.status = verdict /\ row # NoReceipt
        <3>1. receipt[k] \in [run : Runs, kind : Kinds, amount : Amounts,
                              status : {"pending"} \union Settled]
            BY <1>1 DEF MoneyInv, TablesTypeOK, ReceiptRow
        <3>2. row \in ReceiptRow /\ row.status = verdict
            BY <1>1, <3>1 DEF ReceiptRow
        <3>3. verdict # NoReceipt.status
            BY <1>1 DEF NoReceipt, Settled, None
        <3>4. QED
            BY <3>2, <3>3
    <2>4. receipt \in [Receipts -> ReceiptRow] /\ receipt' = [receipt EXCEPT ![k] = row]
        BY <1>3 DEF MoneyInv, TablesTypeOK
    <2> HIDE DEF row, y
    <2>5. /\ \A x \in Receipts : receipt'[x] = IF x = k THEN row ELSE receipt[x]
          /\ receipt' \in [Receipts -> ReceiptRow]
        BY <1>1, <2>3, <2>4
    <2>6. UNCHANGED <<strategy, run, decisions, announced, totals>>
        BY DEF SettleReceipt
    <2>7. announced[k] = <<>>
        BY <1>1, <1>3 DEF MoneyInv, AnnouncedSettled, Settled
    <2>8. \A q \in Procs : proc'[q] = IF q = p THEN z ELSE proc[q]
        BY <2>2 DEF MoneyInv, TablesTypeOK, Set
    <2>9. \A q \in Procs : proc[q].pc = "announce" => proc[q].subject # k
        BY <1>3 DEF MoneyInv, Standing, ReceiptPcs, Settled
    <2>10. Standing(proc[p])'
        BY <1>1, <2>2, <2>3, <2>5, <2>6, <2>7, <2>8
        DEF Standing, StrategyPcs, RunPcs, ReceiptPcs
    <2>11. ASSUME NEW q \in Procs, q # p PROVE Standing(proc[q])'
        <3>1. Standing(proc[q]) /\ proc'[q] = proc[q]
            BY <2>8, <2>11 DEF MoneyInv
        <3> DEFINE x == proc[q].subject
        <3>2. proc[q].pc \in ReceiptPcs
                 => x \in Receipts /\ receipt'[x] # NoReceipt /\ proc[q].seen \in Settled
            BY <2>3, <2>5, <3>1 DEF Standing
        <3>3. proc[q].pc = "announce"
                 => announced'[x] = <<>> /\ receipt'[x].status = proc[q].seen
            BY <2>5, <2>6, <2>9, <3>1 DEF Standing, ReceiptPcs
        <3>4. QED
            BY <2>6, <3>1, <3>2, <3>3 DEF Standing, Decided, LosingDecision
    <2>12. TablesTypeOK'
        BY <2>2, <2>5, <2>6 DEF MoneyInv, TablesTypeOK, Set
    <2>13. OneAnnouncer'
        BY <2>2, <2>8, <2>9 DEF MoneyInv, OneAnnouncer
    <2>14. AnnouncedSettled'
        BY <2>5, <2>6, <2>7 DEF MoneyInv, AnnouncedSettled
    <2>15. CullsAreDecided'
        BY <2>6 DEF MoneyInv, CullsAreDecided, LosingDecision
    <2>16. \A q \in Procs : Standing(proc[q])'
        BY <2>10, <2>11
    <2>17. QED
        BY <2>6, <2>12, <2>13, <2>14, <2>15, <2>16, TotalsKept DEF MoneyInv
<1>4. QED
    BY <1>2, <1>3 DEF SettleReceipt

LEMMA AnnounceStep ==
    ASSUME MoneyInv, NEW p \in Procs, NEW reported \in BOOLEAN,
           AnnounceVerdict(p, reported)
    PROVE  MoneyInv'
<1> DEFINE k == proc[p].subject
<1>1. /\ k \in Receipts /\ receipt[k].status = proc[p].seen
      /\ proc[p].seen \in Settled /\ announced[k] = <<>>
    BY DEF MoneyInv, Standing, AnnounceVerdict, At, ReceiptPcs
<1>2. UNCHANGED <<strategy, run, receipt, decisions, totals>>
    BY DEF AnnounceVerdict, tables
<1>3. /\ announced \in [Receipts -> Seq(Settled)]
      /\ \/ announced' = announced
         \/ announced' = [announced EXCEPT ![k] = <<proc[p].seen>>]
    <2>1. announced \in [Receipts -> Seq(Settled)]
        BY DEF MoneyInv, TablesTypeOK
    <2>2. announced' = [announced EXCEPT ![k] =
              IF reported THEN Append(announced[k], proc[p].seen) ELSE announced[k]]
        BY <1>1, <2>1 DEF AnnounceVerdict
    <2>3. Append(announced[k], proc[p].seen) = <<proc[p].seen>>
        <3>1. Append(<<>>, proc[p].seen) = <<proc[p].seen>>
            OBVIOUS
        <3>2. QED
            BY <1>1, <3>1
    <2>4. CASE reported
        BY <2>1, <2>2, <2>3, <2>4
    <2>5. CASE ~reported
        BY <1>1, <2>1, <2>2, <2>5
    <2>6. QED
        BY <2>4, <2>5
<1>4. /\ announced' \in [Receipts -> Seq(Settled)]
      /\ \A x \in Receipts : x # k => announced'[x] = announced[x]
      /\ announced'[k] \in {<<>>, <<proc[p].seen>>}
    <2>1. <<proc[p].seen>> \in Seq(Settled)
        BY <1>1
    <2>2. QED
        BY <1>1, <1>3, <2>1
<1>5. PICK y \in ProcRow : Set(p, y) /\ y.pc = "idle"
    <2>1. proc[p].current \in Runs \union {None}
        BY ProcType DEF MoneyInv
    <2>2. QED
        BY <2>1, IdleRow DEF AnnounceVerdict, Return
<1>6. \A q \in Procs : proc'[q] = IF q = p THEN y ELSE proc[q]
    BY <1>5 DEF MoneyInv, TablesTypeOK, Set
<1>7. Standing(proc[p])'
    BY <1>5, <1>6 DEF Standing, StrategyPcs, RunPcs, ReceiptPcs
<1>8. ASSUME NEW q \in Procs, q # p PROVE Standing(proc[q])'
    <2>1. Standing(proc[q]) /\ proc'[q] = proc[q]
        BY <1>6, <1>8 DEF MoneyInv
    <2>2. proc[q].pc = "announce" => proc[q].subject # k
        BY <1>8 DEF MoneyInv, OneAnnouncer, AnnounceVerdict, At
    <2>3. proc[q].pc = "announce" => announced'[proc[q].subject] = <<>>
        BY <1>4, <2>1, <2>2 DEF Standing, ReceiptPcs
    <2>4. QED
        BY <1>2, <2>1, <2>3 DEF Standing, Decided, LosingDecision
<1>9. TablesTypeOK'
    BY <1>2, <1>4, <1>5 DEF MoneyInv, TablesTypeOK, Set
<1>10. OneAnnouncer'
    BY <1>5, <1>6 DEF MoneyInv, OneAnnouncer
<1>11. AnnouncedSettled'
    BY <1>1, <1>2, <1>4 DEF MoneyInv, AnnouncedSettled
<1>12. CullsAreDecided'
    BY <1>2 DEF MoneyInv, CullsAreDecided, LosingDecision
<1>13. \A q \in Procs : Standing(proc[q])'
    BY <1>7, <1>8
<1>14. QED
    BY <1>2, <1>9, <1>10, <1>11, <1>12, <1>13, TotalsKept DEF MoneyInv

-----------------------------------------------------------------------------
LEMMA MoneyInit ==
    ASSUME Init PROVE MoneyInv
<1>1. TablesTypeOK
    <2>1. Off \in ProcRow
        BY IdleType
    <2>2. NoRun \in RunRow /\ NoReceipt \in ReceiptRow /\ <<>> \in Seq(Settled)
        BY DEF RunRow, ReceiptRow
    <2>3. QED
        BY <2>1, <2>2 DEF Init, TablesTypeOK
<1>2. TotalsOK
    BY DEF Init, TotalsOK, NoTotals
<1>3. \A p \in Procs : Off \in ProcRow /\ Off.pc = "off" /\ proc[p] = Off
    BY IdleType DEF Init
<1>4. \A p \in Procs : Standing(proc[p])
    BY <1>3, QuietStands
<1>5. OneAnnouncer
    BY <1>3 DEF OneAnnouncer
<1>6. AnnouncedSettled /\ CullsAreDecided
    BY DEF Init, AnnouncedSettled, CullsAreDecided, None
<1>7. QED
    BY <1>1, <1>2, <1>4, <1>5, <1>6 DEF MoneyInv

LEMMA MoneyStep ==
    ASSUME MoneyInv, [Next]_vars PROVE MoneyInv'
<1>1. CASE UNCHANGED vars
    BY <1>1 DEF vars, tables, MoneyInv, TablesTypeOK, TotalsOK, Standing,
                Decided, LosingDecision, OneAnnouncer, AnnouncedSettled,
                CullsAreDecided
<1>2. CASE Next
    <2>1. PICK p \in Procs :
              \/ OpenCompany(p) \/ OpenOrgan(p) \/ Stop(p)
              \/ StartStep(p) \/ EndStep(p) \/ ReceiptStep(p) \/ EvaluateStep(p)
        BY <1>2 DEF Next
    <2>2. CASE OpenCompany(p) \/ OpenOrgan(p) \/ Stop(p)
        BY <2>2, ProcessSteps
    <2>3. CASE StartStep(p)
        BY <2>3, RegisterStep, StartSteps, InsertRunStep DEF StartStep
    <2>4. CASE EndStep(p)
        BY <2>4, EndReads, UpdateSteps DEF EndStep
    <2>5. CASE ReceiptStep(p)
        BY <2>5, RecordStep, VerifierStep, SettleStep, AnnounceStep DEF ReceiptStep
    <2>6. CASE EvaluateStep(p)
        BY <2>6, StartSteps, EvaluationReads, DecisionStep, CullStep DEF EvaluateStep
    <2>7. QED
        BY <2>1, <2>2, <2>3, <2>4, <2>5, <2>6
<1>3. QED
    BY <1>1, <1>2

(* However many connections race, the tables keep their types, every       *)
(* process in a call stands where its reads put it, and what was announced *)
(* was settled.                                                            *)
THEOREM MoneySafe == Spec => []MoneyInv
<1>1. Init => MoneyInv
    BY MoneyInit
<1>2. MoneyInv /\ [Next]_vars => MoneyInv'
    BY MoneyStep
<1>3. QED
    BY <1>1, <1>2, PTL DEF Spec

(* A verdict is announced at most once and is the stored one, for any      *)
(* number of racing verifiers that may disagree.                           *)
THEOREM OneVerdictHolds == Spec => []OneVerdict
<1>1. MoneyInv => OneVerdict
    BY DEF MoneyInv, AnnouncedSettled, OneVerdict
<1>2. QED
    BY <1>1, MoneySafe, PTL

(* A culled strategy has a losing decision on enough closed runs on        *)
(* record, for any overlap of evaluations and any kill between them.       *)
THEOREM CullsAreDecidedHolds == Spec => []CullsAreDecided
<1>1. MoneyInv => CullsAreDecided
    BY DEF MoneyInv
<1>2. QED
    BY <1>1, MoneySafe, PTL

(* The two statements that write the receipts.                             *)
LEMMA ReceiptWriters ==
    ASSUME MoneyInv, [Next]_vars
    PROVE  \/ UNCHANGED receipt
           \/ \E p \in Procs, k \in Receipts, r \in Runs, kind \in Kinds, amount \in Amounts :
                 RecordReceipt(p, k, r, kind, amount)
           \/ \E p \in Procs : SettleReceipt(p)
<1>1. CASE UNCHANGED vars
    BY <1>1 DEF vars, tables
<1>2. CASE Next
    <2>1. PICK p \in Procs :
              \/ OpenCompany(p) \/ OpenOrgan(p) \/ Stop(p)
              \/ StartStep(p) \/ EndStep(p) \/ ReceiptStep(p) \/ EvaluateStep(p)
        BY <1>2 DEF Next
    <2>2. CASE OpenCompany(p) \/ OpenOrgan(p) \/ Stop(p)
        BY <2>2 DEF OpenCompany, OpenOrgan, Stop, tables
    <2>3. CASE StartStep(p)
        BY <2>3 DEF StartStep, RegisterStrategy, StartRevenueRun,
                    ReadStrategy, CountOpenRuns, InsertRun, tables
    <2>4. CASE EndStep(p)
        BY <2>4 DEF EndStep, AbortRun, CloseRun, CountPending,
                    UpdateAborted, UpdateClosed, tables
    <2>5. CASE ReceiptStep(p)
        BY <2>5 DEF ReceiptStep, VerifyReceipt, AnnounceVerdict, tables
    <2>6. CASE EvaluateStep(p)
        BY <2>6 DEF EvaluateStep, EvaluateStrategy, ReadEvaluated,
                    ListClosedRuns, SumRun, InsertDecision, CullStrategy, tables
    <2>7. QED
        BY <2>1, <2>2, <2>3, <2>4, <2>5, <2>6
<1>3. QED
    BY <1>1, <1>2

(* Only record_receipt, which needs a new key, and the compare-and-set,    *)
(* which needs a pending one, write a receipt: no settled one changes.     *)
THEOREM SettledFinalHolds == Spec => SettledFinal
<1> DEFINE Final == \A k \in Receipts :
                        receipt[k].status \in Settled => receipt'[k] = receipt[k]
<1>1. ASSUME MoneyInv, [Next]_vars PROVE [Final]_receipt
    <2>1. CASE UNCHANGED receipt
        BY <2>1
    <2>2. ASSUME NEW p \in Procs, NEW k \in Receipts, NEW r \in Runs,
                 NEW kind \in Kinds, NEW amount \in Amounts,
                 RecordReceipt(p, k, r, kind, amount)
          PROVE  Final
        <3>1. NoReceipt.status \notin Settled
            BY DEF NoReceipt, Settled, None
        <3>2. receipt[k] = NoReceipt
            BY <2>2 DEF RecordReceipt
        <3>3. \A x \in Receipts : x # k => receipt'[x] = receipt[x]
            BY <1>1, <2>2 DEF RecordReceipt, MoneyInv, TablesTypeOK
        <3>4. QED
            BY <3>1, <3>2, <3>3
    <2>3. ASSUME NEW p \in Procs, SettleReceipt(p) PROVE UNCHANGED receipt \/ Final
        <3> DEFINE k == proc[p].subject
        <3>1. CASE receipt[k].status = "pending"
            <4>1. \A x \in Receipts : x # k => receipt'[x] = receipt[x]
                BY <1>1, <2>3, <3>1 DEF SettleReceipt, MoneyInv, TablesTypeOK
            <4>2. receipt[k].status \notin Settled
                BY <3>1 DEF Settled
            <4>3. QED
                BY <4>1, <4>2
        <3>2. CASE receipt[k].status # "pending"
            BY <2>3, <3>2 DEF SettleReceipt
        <3>3. QED
            BY <3>1, <3>2
    <2>4. \/ UNCHANGED receipt
          \/ \E p \in Procs, k \in Receipts, r \in Runs, kind \in Kinds, amount \in Amounts :
                RecordReceipt(p, k, r, kind, amount)
          \/ \E p \in Procs : SettleReceipt(p)
        BY <1>1, ReceiptWriters
    <2>5. QED
        BY <2>2, <2>3, <2>4
<1>2. QED
    BY <1>1, MoneySafe, PTL DEF Spec, SettledFinal

-----------------------------------------------------------------------------
(* Money, cent by cent.                                                    *)
Coins(k, amount) == {k} \X (1..amount)

LEMMA CoinsCounted ==
    ASSUME NEW k, NEW amount \in Nat
    PROVE  IsFiniteSet(Coins(k, amount)) /\ Cardinality(Coins(k, amount)) = amount
<1>1. IsFiniteSet({k}) /\ Cardinality({k}) = 1
    BY FS_Singleton
<1>2. IsFiniteSet(1..amount) /\ Cardinality(1..amount) = amount
    <2>1. 1 \in Int /\ amount \in Int
        OBVIOUS
    <2>2. IsFiniteSet(1..amount) /\ Cardinality(1..amount) = IF 1 > amount THEN 0 ELSE amount - 1 + 1
        BY <2>1, FS_Interval, Zenon
    <2>3. QED
        BY <2>2
<1>3. IsFiniteSet({k} \X (1..amount))
      /\ Cardinality({k} \X (1..amount)) = Cardinality({k}) * Cardinality(1..amount)
    BY <1>1, <1>2, FS_Product
<1>4. QED
    BY <1>1, <1>2, <1>3 DEF Coins

LEMMA TogetherAtMost ==
    ASSUME NEW S, NEW T, IsFiniteSet(S), IsFiniteSet(T)
    PROVE  Cardinality(S \union T) <= Cardinality(S) + Cardinality(T)
<1>1. Cardinality(S \union T) = Cardinality(S) + Cardinality(T) - Cardinality(S \intersect T)
    BY FS_Union
<1>2. Cardinality(S) \in Nat /\ Cardinality(T) \in Nat
    BY FS_CardinalityType
<1>3. Cardinality(S \intersect T) \in Nat
    <2>1. IsFiniteSet(S \intersect T)
        BY FS_Subset
    <2>2. QED
        BY <2>1, FS_CardinalityType
<1>4. QED
    BY <1>1, <1>2, <1>3

LEMMA CentsFinite ==
    ASSUME TablesTypeOK, NEW keys \in SUBSET Receipts
    PROVE  IsFiniteSet(Cents(keys))
<1> DEFINE sets == {{k} \X (1..receipt[k].amount) : k \in keys}
           f == [k \in keys |-> {k} \X (1..receipt[k].amount)]
<1>1. IsFiniteSet(keys)
    BY FS_Subset, MoneyAssumption
<1>2. f \in Surjection(keys, sets)
    BY DEF Surjection
<1>3. IsFiniteSet(sets)
    BY <1>1, <1>2, FS_Surjection
<1>4. ASSUME NEW k \in Receipts PROVE receipt[k].amount \in Nat
    <2>1. receipt[k] \in ReceiptRow
        BY DEF TablesTypeOK
    <2>2. CASE receipt[k] = NoReceipt
        BY <2>2 DEF NoReceipt
    <2>3. CASE receipt[k] # NoReceipt
        BY <2>1, <2>3, MoneyAssumption DEF ReceiptRow
    <2>4. QED
        BY <2>2, <2>3
<1>5. \A S \in sets : IsFiniteSet(S)
    BY <1>4, CoinsCounted DEF Coins
<1> HIDE DEF sets
<1>6. IsFiniteSet(UNION sets)
    BY <1>3, <1>5, FS_UNION
<1>7. QED
    BY <1>6 DEF sets, Cents

(* What a run owes or may come to owe.                                     *)
Owed(r) == {k \in Receipts : /\ receipt[k].run = r
                             /\ receipt[k].kind = "cost"
                             /\ receipt[k].status # "rejected"}

LEMMA OwedIsCommitted ==
    ASSUME TablesTypeOK, NEW r
    PROVE  Owed(r) = OfKind(ReceiptsOf(r, "pending") \union ReceiptsOf(r, "verified"), "cost")
<1>1. \A k \in Receipts : receipt[k].kind = "cost" =>
            receipt[k].status \in {"pending", "verified", "rejected"}
    BY DEF TablesTypeOK, ReceiptRow, NoReceipt, None, Settled
<1>2. QED
    BY <1>1 DEF Owed, OfKind, ReceiptsOf

(* A run that owes no more cents than before owes no more money.           *)
LEMMA OwesNoMore ==
    ASSUME TablesTypeOK, NEW r, Money(Owed(r)) <= MaxBudget,
           TablesTypeOK', Cents(Owed(r))' \subseteq Cents(Owed(r))
    PROVE  Money(Owed(r))' <= MaxBudget
<1>1. IsFiniteSet(Cents(Owed(r)))
    BY CentsFinite DEF Owed
<1>2. /\ Cardinality(Cents(Owed(r))') <= Cardinality(Cents(Owed(r)))
      /\ Cardinality(Cents(Owed(r))') \in Nat /\ Cardinality(Cents(Owed(r))) \in Nat
    BY <1>1, FS_Subset, FS_CardinalityType
<1>3. QED
    BY <1>2, MoneyAssumption DEF Money

LEMMA RecordOwes ==
    ASSUME MoneyInv, MoneyInv', BudgetHeld, NEW p \in Procs, NEW k \in Receipts, NEW r \in Runs,
           NEW kind \in Kinds, NEW amount \in Amounts, RecordReceipt(p, k, r, kind, amount)
    PROVE  BudgetHeld'
<1> SUFFICES ASSUME NEW q \in Runs
             PROVE  Money(Owed(q))' <= MaxBudget
    BY DEF BudgetHeld, Owed
<1>1. TablesTypeOK /\ TablesTypeOK' /\ Money(Owed(q)) <= MaxBudget
    BY DEF MoneyInv, BudgetHeld, Owed
<1> DEFINE row == [run |-> r, kind |-> kind, amount |-> amount, status |-> "pending"]
<1>2. /\ receipt[k] = NoReceipt /\ receipt'[k] = row
      /\ \A x \in Receipts : x # k => receipt'[x] = receipt[x]
      /\ kind = "cost" => Money(Owed(r)) + amount <= MaxBudget
    BY <1>1, OwedIsCommitted DEF RecordReceipt, TablesTypeOK, CommittedCost
<1>3. k \notin Owed(q)
    BY <1>2 DEF Owed, NoReceipt, None
<1>4. CASE kind = "cost" /\ q = r
    <2>1. Owed(q)' = Owed(q) \union {k}
        BY <1>2, <1>3, <1>4 DEF Owed
    <2>2. Cents(Owed(q))' = Cents(Owed(q)) \union Coins(k, amount)
        BY <1>2, <1>3, <2>1 DEF Cents, Coins, Owed
    <2>3. IsFiniteSet(Cents(Owed(q))) /\ IsFiniteSet(Coins(k, amount)) /\ amount \in Nat
          /\ Cardinality(Coins(k, amount)) = amount
        BY <1>1, CentsFinite, CoinsCounted, MoneyAssumption DEF Owed
    <2>4. Cardinality(Cents(Owed(q))') <= Cardinality(Cents(Owed(q))) + amount
        BY <2>2, <2>3, TogetherAtMost
    <2>5. Cardinality(Cents(Owed(q))) \in Nat /\ Cardinality(Cents(Owed(q))') \in Nat
        BY <1>1, <2>2, <2>3, FS_CardinalityType, FS_Union
    <2>6. Money(Owed(q)) = Cardinality(Cents(Owed(q)))
          /\ Money(Owed(q))' = Cardinality(Cents(Owed(q))')
        BY DEF Money
    <2>7. QED
        BY <1>2, <1>4, <2>3, <2>4, <2>5, <2>6, MoneyAssumption
<1>5. CASE ~(kind = "cost" /\ q = r)
    <2>1. Owed(q)' = Owed(q)
        BY <1>2, <1>3, <1>5 DEF Owed
    <2>2. Cents(Owed(q))' = Cents(Owed(q))
        BY <1>2, <1>3, <2>1 DEF Cents, Owed
    <2>3. QED
        BY <1>1, <2>2, OwesNoMore
<1>6. QED
    BY <1>4, <1>5

LEMMA SettleOwes ==
    ASSUME MoneyInv, MoneyInv', BudgetHeld, NEW p \in Procs, SettleReceipt(p)
    PROVE  BudgetHeld'
<1> DEFINE k == proc[p].subject
<1> SUFFICES ASSUME NEW q \in Runs
             PROVE  Money(Owed(q))' <= MaxBudget
    BY DEF BudgetHeld, Owed
<1>1. TablesTypeOK /\ TablesTypeOK' /\ Money(Owed(q)) <= MaxBudget
    BY DEF MoneyInv, BudgetHeld, Owed
<1>2. k \in Receipts /\ receipt[k] # NoReceipt /\ proc[p].seen \in Settled
    BY Subject DEF SettleReceipt, At, ReceiptPcs
<1>3. \A x \in Receipts :
        /\ receipt'[x].run = receipt[x].run /\ receipt'[x].kind = receipt[x].kind
        /\ receipt'[x].amount = receipt[x].amount
        /\ receipt[x].status = "rejected" => receipt'[x].status = "rejected"
    <2>1. CASE UNCHANGED receipt
        BY <2>1
    <2>2. CASE receipt[k].status = "pending"
        <3>1. receipt' = [receipt EXCEPT ![k].status = proc[p].seen]
            BY <2>2 DEF SettleReceipt
        <3>2. receipt[k] \in [run : Runs, kind : Kinds, amount : Amounts,
                              status : {"pending"} \union Settled]
            BY <1>1, <1>2 DEF TablesTypeOK, ReceiptRow
        <3>3. receipt'[k] = [receipt[k] EXCEPT !.status = proc[p].seen]
              /\ \A x \in Receipts : x # k => receipt'[x] = receipt[x]
            BY <1>1, <1>2, <3>1 DEF TablesTypeOK
        <3>4. /\ receipt'[k].run = receipt[k].run /\ receipt'[k].kind = receipt[k].kind
              /\ receipt'[k].amount = receipt[k].amount
            BY <3>2, <3>3
        <3>5. QED
            BY <2>2, <3>3, <3>4
    <2>3. QED
        BY <2>1, <2>2 DEF SettleReceipt
<1>4. Owed(q)' \subseteq Owed(q)
    BY <1>3 DEF Owed
<1>5. Cents(Owed(q))' \subseteq Cents(Owed(q))
    BY <1>3, <1>4 DEF Cents, Owed
<1>6. QED
    BY <1>1, <1>5, OwesNoMore

(* Whoever records and settles receipts at once, what a run owes or may    *)
(* come to owe stays within its ceiling: record_receipt sums and inserts   *)
(* in one BEGIN IMMEDIATE transaction.                                     *)
THEOREM BudgetHeldHolds == Spec => []BudgetHeld
<1>1. Init => BudgetHeld
    <2> SUFFICES ASSUME Init, NEW r \in Runs
                 PROVE  Money(Owed(r)) <= MaxBudget
        BY DEF BudgetHeld, Owed
    <2>1. Owed(r) = {}
        BY DEF Init, Owed, NoReceipt, None
    <2>2. Cents({}) = {}
        BY DEF Cents
    <2>3. Money(Owed(r)) = 0
        BY <2>1, <2>2, FS_EmptySet DEF Money
    <2>4. QED
        BY <2>3, MoneyAssumption
<1>2. MoneyInv /\ MoneyInv' /\ BudgetHeld /\ [Next]_vars => BudgetHeld'
    <2> SUFFICES ASSUME MoneyInv, MoneyInv', BudgetHeld, [Next]_vars
                 PROVE  BudgetHeld'
        OBVIOUS
    <2>1. CASE UNCHANGED receipt
        BY <2>1 DEF BudgetHeld, Money, Cents
    <2>2. QED
        BY <2>1, ReceiptWriters, RecordOwes, SettleOwes
<1>3. QED
    BY <1>1, <1>2, MoneySafe, PTL DEF Spec

=============================================================================
