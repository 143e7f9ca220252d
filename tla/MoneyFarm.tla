------------------------------ MODULE MoneyFarm ------------------------------
(***************************************************************************)
(* The receipt-backed economic organ (moneyfarm_economic_organ.py) and the *)
(* company that drives it (victor_economic_company.py).                    *)
(*                                                                         *)
(* A process is one company, or one tool that opened the organ alone, on   *)
(* the shared SQLite file.  MoneyFarmStore commits every statement by      *)
(* itself, so one action is one statement, together with the local         *)
(* computation up to the next; only record_receipt is one transaction of   *)
(* several.  A process can be killed between any two actions, and the      *)
(* event sink can raise after any of the statements it reports.            *)
(*                                                                         *)
(* Abstractions.  All strategies have one policy.  A receipt is known by   *)
(* its normalized (source, external_id), which the database keeps unique;  *)
(* its evidence always hashes to evidence_hash.  The verdict of a verifier *)
(* is any answer.  A decision keeps its action, the number of closed runs  *)
(* and whether they lost money; its score is left out.                     *)
(***************************************************************************)
EXTENDS Integers, Sequences, FiniteSets

CONSTANTS
    Procs,        \* connections to the store
    Strategies,   \* ids register_strategy may draw
    Runs,         \* ids start_run may draw
    Receipts,     \* provider keys: (source, external_id)
    Amounts,      \* amount_cents of a receipt
    MinSamples, MaxParallel, MaxBudget,       \* policy of a strategy
    ScaleAverage, ScaleRoi, ScaleWinRate      \* the last two: <<p, q>> for p/q

ASSUME MoneyAssumption ==
    /\ IsFiniteSet(Runs) /\ IsFiniteSet(Receipts)
    /\ Amounts \subseteq Nat
    /\ {MinSamples, MaxParallel} \subseteq Nat \ {0}
    /\ MaxBudget \in Nat
    /\ ScaleAverage \in Int
    /\ {ScaleRoi, ScaleWinRate} \subseteq Nat \X (Nat \ {0})

None == "none"
Kinds == {"revenue", "cost"}
Settled == {"verified", "rejected"}
Actions == {"HOLD", "KEEP", "SCALE", "CULL"}

VARIABLES
    strategy,     \* strategies.status; None before the row exists
    run,          \* runs: status and strategy
    receipt,      \* receipts: run, kind, amount and status
    decisions,    \* rows of the decisions table
    announced,    \* per receipt: the verdict events that reached the sink
    proc,         \* the local state of each process
    totals        \* ... and the sums of the evaluation it makes

tables == <<strategy, run, receipt, decisions>>
vars == <<tables, announced, proc, totals>>

NoRun == [status |-> None, strategy |-> None]
NoReceipt == [run |-> None, kind |-> None, amount |-> 0, status |-> None]
NoTotals == [samples |-> 0, revenue |-> 0, cost |-> 0, wins |-> 0]

(* current: current_economic_run_id.  subject: the run, receipt or         *)
(* strategy the call is about; seen: what it has read of it.               *)
Idle(current) ==
    [pc |-> "idle", current |-> current, subject |-> None, seen |-> None,
     todo |-> {}]
Off == [Idle(None) EXCEPT !.pc = "off"]

Set(p, r) == proc' = [proc EXCEPT ![p] = r]
Return(p) == Set(p, Idle(proc[p].current))
At(p, pc) == proc[p].pc = pc

RunsOf(s, status) ==
    {r \in Runs : run[r].strategy = s /\ run[r].status = status}
OpenRuns == {r \in Runs : run[r].status = "open"}
ReceiptsOf(r, status) ==
    {k \in Receipts : receipt[k].run = r /\ receipt[k].status = status}

(* SUM(amount_cents), counted: a receipt has as many cents as its amount.  *)
Cents(keys) == UNION {{k} \X (1..receipt[k].amount) : k \in keys}
Money(keys) == Cardinality(Cents(keys))
OfKind(keys, kind) == {k \in keys : receipt[k].kind = kind}

Init ==
    /\ strategy = [s \in Strategies |-> None]
    /\ run = [r \in Runs |-> NoRun]
    /\ receipt = [k \in Receipts |-> NoReceipt]
    /\ decisions = {}
    /\ announced = [k \in Receipts |-> <<>>]
    /\ proc = [p \in Procs |-> Off]
    /\ totals = [p \in Procs |-> NoTotals]

-----------------------------------------------------------------------------
(* Processes.                                                              *)

(* VictorEconomicCompany(): adopt the open run; refuse if there are more.  *)
OpenCompany(p) ==
    /\ At(p, "off")
    /\ Cardinality(OpenRuns) <= 1
    /\ \E r \in OpenRuns \union {None} :
          /\ r = None => OpenRuns = {}
          /\ Set(p, Idle(r))
    /\ UNCHANGED <<tables, announced, totals>>

(* MoneyFarmEconomicOrgan() alone, for the reconciliation of several runs. *)
OpenOrgan(p) ==
    /\ At(p, "off")
    /\ Set(p, Idle(None))
    /\ UNCHANGED <<tables, announced, totals>>

(* The program ends or is killed.                                          *)
Stop(p) ==
    /\ ~At(p, "off")
    /\ Set(p, Off)
    /\ totals' = [totals EXCEPT ![p] = NoTotals]
    /\ UNCHANGED <<tables, announced>>

-----------------------------------------------------------------------------
(* Strategies and runs.                                                    *)

RegisterStrategy(p, s) ==
    /\ At(p, "idle")
    /\ strategy[s] = None
    /\ strategy' = [strategy EXCEPT ![s] = "active"]
    /\ UNCHANGED <<run, receipt, decisions, announced, totals, proc>>

(* start_revenue_run: the company's own run must have ended.               *)
StartRevenueRun(p, s) ==
    LET current == proc[p].current IN
    /\ At(p, "idle")
    /\ strategy[s] # None
    /\ current # None => run[current].status # "open"
    /\ Set(p, [Idle(current) EXCEPT !.pc = "strategy", !.subject = s])
    /\ UNCHANGED <<tables, announced, totals>>

(* start_run: the strategy must be active, ...                             *)
ReadStrategy(p) ==
    /\ At(p, "strategy")
    /\ IF strategy[proc[p].subject] = "active"
       THEN Set(p, [proc[p] EXCEPT !.pc = "parallel"]) ELSE Return(p)
    /\ UNCHANGED <<tables, announced, totals>>

(* ... with fewer than max_parallel open runs, ...                         *)
CountOpenRuns(p) ==
    /\ At(p, "parallel")
    /\ IF Cardinality(RunsOf(proc[p].subject, "open")) < MaxParallel
       THEN Set(p, [proc[p] EXCEPT !.pc = "insert"]) ELSE Return(p)
    /\ UNCHANGED <<tables, announced, totals>>

(* ... and then gets one more.  If the sink raises, the run is there but   *)
(* the company does not know it.                                           *)
InsertRun(p, r, reported) ==
    /\ At(p, "insert")
    /\ run[r] = NoRun
    /\ run' = [run EXCEPT ![r] = [status |-> "open",
                                  strategy |-> proc[p].subject]]
    /\ Set(p, Idle(IF reported THEN r ELSE proc[p].current))
    /\ UNCHANGED <<strategy, receipt, decisions, announced, totals>>

(* abort_run reads the status and then updates it unconditionally.         *)
AbortRun(p, r) ==
    /\ At(p, "idle")
    /\ run[r].status = "open"
    /\ Set(p, [proc[p] EXCEPT !.pc = "abort", !.subject = r])
    /\ UNCHANGED <<tables, announced, totals>>

UpdateAborted(p, reported) ==
    LET r == proc[p].subject IN
    /\ At(p, "abort")
    /\ run' = [run EXCEPT ![r].status = "aborted"]
    /\ Set(p, Idle(IF reported /\ r = proc[p].current THEN None
                   ELSE proc[p].current))
    /\ UNCHANGED <<strategy, receipt, decisions, announced, totals>>

(* close_run: read the status, count the pending receipts, update.         *)
CloseRun(p, r) ==
    /\ At(p, "idle")
    /\ run[r].status = "open"
    /\ Set(p, [proc[p] EXCEPT !.pc = "pending", !.subject = r])
    /\ UNCHANGED <<tables, announced, totals>>

CountPending(p) ==
    /\ At(p, "pending")
    /\ IF ReceiptsOf(proc[p].subject, "pending") = {}
       THEN Set(p, [proc[p] EXCEPT !.pc = "close"]) ELSE Return(p)
    /\ UNCHANGED <<tables, announced, totals>>

(* close_revenue_run forgets its run and evaluates the strategy.           *)
UpdateClosed(p, reported) ==
    LET r == proc[p].subject IN
    /\ At(p, "close")
    /\ run' = [run EXCEPT ![r].status = "closed"]
    /\ IF reported /\ r = proc[p].current
       THEN Set(p, [Idle(None) EXCEPT !.pc = "evaluate",
                                      !.subject = run[r].strategy])
       ELSE Return(p)
    /\ UNCHANGED <<strategy, receipt, decisions, announced, totals>>

-----------------------------------------------------------------------------
(* Receipts.                                                               *)

CommittedVerified(r) ==                  \* mutant: pending cost is not counted
    Money(OfKind(ReceiptsOf(r, "verified"), "cost"))

CommittedCost(r) ==
    Money(OfKind(ReceiptsOf(r, "pending") \union ReceiptsOf(r, "verified"),
                 "cost"))

(* record_receipt: one BEGIN IMMEDIATE transaction.                        *)
RecordReceipt(p, k, r, kind, amount) ==
    /\ At(p, "idle")
    /\ run[r].status = "open"
    /\ kind = "cost" => CommittedCost(r) + amount <= MaxBudget
    /\ receipt[k] = NoReceipt
    /\ receipt' = [receipt EXCEPT ![k] = [run |-> r, kind |-> kind,
                                          amount |-> amount,
                                          status |-> "pending"]]
    /\ UNCHANGED <<strategy, run, decisions, announced, totals, proc>>

(* verify_receipt reads the receipt and asks the verifier of its source.   *)
VerifyReceipt(p, k, verdict) ==
    /\ At(p, "idle")
    /\ receipt[k].status = "pending"
    /\ Set(p, [proc[p] EXCEPT !.pc = "settle", !.subject = k,
                              !.seen = verdict])
    /\ UNCHANGED <<tables, announced, totals>>

SettleAnyway(p) ==            \* mutant: UPDATE without AND status='pending'
    LET k == proc[p].subject IN
    /\ At(p, "settle")
    /\ receipt' = [receipt EXCEPT ![k].status = proc[p].seen]
    /\ Set(p, [proc[p] EXCEPT !.pc = "announce"])
    /\ UNCHANGED <<strategy, run, decisions, announced, totals>>

SettleUnnoticed(p) ==         \* mutant: rowcount is not looked at
    LET k == proc[p].subject IN
    /\ At(p, "settle")
    /\ receipt' = [receipt EXCEPT ![k].status =
                        IF @ = "pending" THEN proc[p].seen ELSE @]
    /\ Set(p, [proc[p] EXCEPT !.pc = "announce"])
    /\ UNCHANGED <<strategy, run, decisions, announced, totals>>

(* UPDATE ... WHERE status='pending'; only the winner goes on.             *)
SettleReceipt(p) ==
    LET k == proc[p].subject IN
    /\ At(p, "settle")
    /\ IF receipt[k].status = "pending"
       THEN /\ receipt' = [receipt EXCEPT ![k].status = proc[p].seen]
            /\ Set(p, [proc[p] EXCEPT !.pc = "announce"])
       ELSE /\ Return(p)
            /\ UNCHANGED receipt
    /\ UNCHANGED <<strategy, run, decisions, announced, totals>>

AnnounceVerdict(p, reported) ==
    LET k == proc[p].subject IN
    /\ At(p, "announce")
    /\ announced' = [announced EXCEPT ![k] =
                        IF reported THEN Append(@, proc[p].seen) ELSE @]
    /\ Return(p)
    /\ UNCHANGED <<tables, totals>>

-----------------------------------------------------------------------------
(* evaluate_strategy.                                                      *)

EvaluateStrategy(p, s) ==
    /\ At(p, "idle")
    /\ strategy[s] # None
    /\ Set(p, [proc[p] EXCEPT !.pc = "evaluate", !.subject = s])
    /\ UNCHANGED <<tables, announced, totals>>

ReadEvaluated(p) ==
    /\ At(p, "evaluate")
    /\ Set(p, [proc[p] EXCEPT !.pc = "list", !.seen = strategy[proc[p].subject]])
    /\ UNCHANGED <<tables, announced, totals>>

ListClosedRuns(p) ==
    /\ At(p, "list")
    /\ Set(p, [proc[p] EXCEPT !.pc = "sum",
                              !.todo = RunsOf(proc[p].subject, "closed")])
    /\ UNCHANGED <<tables, announced, totals>>

(* run_metrics of one closed run: verified receipts only.                  *)
SumRun(p, r) ==
    LET money == ReceiptsOf(r, "verified")
        revenue == Money(OfKind(money, "revenue"))
        cost == Money(OfKind(money, "cost")) IN
    /\ At(p, "sum")
    /\ r \in proc[p].todo
    /\ Set(p, [proc[p] EXCEPT !.todo = @ \ {r}])
    /\ totals' = [totals EXCEPT ![p] =
            [samples |-> @.samples + 1,
             revenue |-> @.revenue + revenue,
             cost    |-> @.cost + cost,
             wins    |-> IF revenue > cost THEN @.wins + 1 ELSE @.wins]]
    /\ UNCHANGED <<tables, announced>>

Scales(t) ==
    /\ t.revenue - t.cost >= ScaleAverage * t.samples
    /\ t.wins * ScaleWinRate[2] >= ScaleWinRate[1] * t.samples
    /\ t.cost > 0
         => (t.revenue - t.cost) * ScaleRoi[2] >= ScaleRoi[1] * t.cost

DecisionUnsampled(status, t) ==                \* mutant: no minimum of samples
    IF status = "culled" THEN "CULL"
    ELSE IF t.samples > 0 /\ Scales(t) THEN "SCALE"
    ELSE IF t.revenue < t.cost THEN "CULL"
    ELSE "KEEP"

Decision(status, t) ==
    IF status = "culled" THEN "CULL"
    ELSE IF t.samples < MinSamples THEN "HOLD"
    ELSE IF Scales(t) THEN "SCALE"
    ELSE IF t.revenue < t.cost THEN "CULL"
    ELSE "KEEP"

InsertDecision(p) ==
    LET t == totals[p]
        action == Decision(proc[p].seen, t) IN
    /\ At(p, "sum")
    /\ proc[p].todo = {}
    /\ decisions' = decisions \union
          {[strategy |-> proc[p].subject, action |-> action,
            samples |-> t.samples, loss |-> t.revenue < t.cost]}
    /\ IF action = "CULL" /\ proc[p].seen # "culled"
       THEN Set(p, [proc[p] EXCEPT !.pc = "cull"]) ELSE Return(p)
    /\ totals' = [totals EXCEPT ![p] = NoTotals]
    /\ UNCHANGED <<strategy, run, receipt, announced>>

CullStrategy(p) ==
    /\ At(p, "cull")
    /\ strategy' = [strategy EXCEPT ![proc[p].subject] = "culled"]
    /\ Return(p)
    /\ UNCHANGED <<run, receipt, decisions, announced, totals>>

-----------------------------------------------------------------------------
StartStep(p) ==
    \/ \E s \in Strategies : RegisterStrategy(p, s) \/ StartRevenueRun(p, s)
    \/ ReadStrategy(p) \/ CountOpenRuns(p)
    \/ \E r \in Runs, reported \in BOOLEAN : InsertRun(p, r, reported)

EndStep(p) ==
    \/ \E r \in Runs : AbortRun(p, r) \/ CloseRun(p, r)
    \/ CountPending(p)
    \/ \E reported \in BOOLEAN :
          UpdateAborted(p, reported) \/ UpdateClosed(p, reported)

ReceiptStep(p) ==
    \/ \E k \in Receipts, r \in Runs, kind \in Kinds, amount \in Amounts :
          RecordReceipt(p, k, r, kind, amount)
    \/ \E k \in Receipts, verdict \in Settled : VerifyReceipt(p, k, verdict)
    \/ SettleReceipt(p)
    \/ \E reported \in BOOLEAN : AnnounceVerdict(p, reported)

EvaluateStep(p) ==
    \/ \E s \in Strategies : EvaluateStrategy(p, s)
    \/ ReadEvaluated(p) \/ ListClosedRuns(p)
    \/ \E r \in Runs : SumRun(p, r)
    \/ InsertDecision(p) \/ CullStrategy(p)

Next ==
    \E p \in Procs :
        \/ OpenCompany(p) \/ OpenOrgan(p) \/ Stop(p)
        \/ StartStep(p) \/ EndStep(p) \/ ReceiptStep(p) \/ EvaluateStep(p)

Spec == Init /\ [][Next]_vars

-----------------------------------------------------------------------------
Pcs == {"off", "idle", "strategy", "parallel", "insert", "abort", "pending",
        "close", "settle", "announce", "evaluate", "list", "sum", "cull"}
RunRow ==
    [status : {"open", "closed", "aborted"}, strategy : Strategies]
        \union {NoRun}
ReceiptRow ==
    [run : Runs, kind : Kinds, amount : Amounts,
     status : {"pending"} \union Settled]
        \union {NoReceipt}
ProcRow ==
    [pc : Pcs, current : Runs \union {None},
     subject : Runs \union Receipts \union Strategies \union {None},
     seen : Settled \union {None, "active", "culled"}, todo : SUBSET Runs]

TablesTypeOK ==
    /\ strategy \in [Strategies -> {None, "active", "culled"}]
    /\ run \in [Runs -> RunRow]
    /\ receipt \in [Receipts -> ReceiptRow]
    /\ announced \in [Receipts -> Seq(Settled)]
    /\ proc \in [Procs -> ProcRow]

(* However many connections record and settle receipts at once, the cost   *)
(* that is or may become verified never exceeds the ceiling of the run     *)
(* (moneyfarm_economic_organ.py:338).                                      *)
BudgetHeld ==
    \A r \in Runs :
        Money({k \in Receipts : /\ receipt[k].run = r
                               /\ receipt[k].kind = "cost"
                               /\ receipt[k].status # "rejected"}) <= MaxBudget

(* A receipt's verdict is announced at most once, and what is announced is *)
(* what is stored (moneyfarm_economic_organ.py:479: never a second,        *)
(* contradictory event), although verifiers race and may disagree.         *)
OneVerdict ==
    \A k \in Receipts : announced[k] \in {<<>>, <<receipt[k].status>>}

(* A settled receipt never changes, whoever read it while it was pending.  *)
SettledFinal ==
    [][\A k \in Receipts :
          receipt[k].status \in Settled => receipt'[k] = receipt[k]]_receipt

(* A strategy is culled only on record: the store holds a decision that    *)
(* says so, on enough closed runs and a verified loss, whatever evaluations *)
(* overlap and wherever they are killed.                                   *)
LosingDecision(d) ==
    d.action = "CULL" /\ d.samples >= MinSamples /\ d.loss
CullsAreDecided ==
    \A s \in Strategies :
        strategy[s] = "culled"
            => \E d \in decisions : d.strategy = s /\ LosingDecision(d)
=============================================================================
