----------------------------- MODULE Roles_proofs -----------------------------
(***************************************************************************)
(* Theorems about Roles for any documents, files, workers and edits: what  *)
(* rows look like, what a recorded release holds, and what a replaced      *)
(* handoff invalidates.                                                    *)
(***************************************************************************)
EXTENDS Roles, TLAPS

Row == [role : Roles, path : Paths \union Roles, hash : Versions \union Nat, preds : SUBSET Nat]
Test == [role : {QA}, inputs : Snapshots, preds : SUBSET Nat, passed : BOOLEAN]
Candidate == [role : {Release}, inputs : Snapshots, preds : SUBSET Nat, passed : BOOLEAN,
              outputs : Snapshots \union {<<>>}, checked : Nat, bound : Nat]

Attaching == [pc : {"attaching"}, role : Roles, path : Paths \union Roles, preds : SUBSET Nat]
Starting == [pc : {"starting", "packaging"}, path : Paths, inputs : Snapshots]
Testing == [pc : {"testing"}, path : Paths, inputs : Snapshots, preds : SUBSET Nat]
Tested == [pc : {"tested"}, path : Paths, inputs : Snapshots, preds : SUBSET Nat, passed : BOOLEAN]
Writing == [pc : {"reported", "released"}, id : Nat]
Checking == [pc : {"checking"}, path : Paths, inputs : Snapshots, preds : SUBSET Nat, qa : Paths]
Binding == [pc : {"binding"}, path : Paths, inputs : Snapshots, preds : SUBSET Nat, qa : Paths,
            checked : Nat]
Archiving == [pc : {"archiving", "packed"}, path : Paths, inputs : Snapshots, preds : SUBSET Nat,
              checked : Nat, bound : Nat]
Archived == [pc : {"archived"}, path : Paths, inputs : Snapshots, preds : SUBSET Nat,
             checked : Nat, bound : Nat, passed : BOOLEAN]
Job == {NoJob} \union Attaching \union Starting \union Testing \union Tested \union Writing
       \union Checking \union Binding \union Archiving \union Archived

Tables ==
    /\ evidence \in Seq(Row) /\ executions \in Seq(Test \union Candidate)
    /\ job \in [Workers -> Job]
    /\ archive \in Snapshots \union {<<>>} /\ edits \in Nat

(* The rows of a role have a last one.                                     *)
LastOf(r, i) ==
    /\ i \in DOMAIN evidence /\ evidence[i].role = r
    /\ \A j \in DOMAIN evidence : evidence[j].role = r => j <= i

HasLast ==
    \A r \in Roles : (\E i \in DOMAIN evidence : evidence[i].role = r) => \E i : LastOf(r, i)

(* One of the rows in `preds` is the handoff of QA, made after the others. *)
NamesQA(preds) ==
    /\ preds \subseteq DOMAIN evidence
    /\ \E i \in preds : evidence[i].role = QA /\ evidence[i].preds = preds \ {i}

(* Execution c is a passing test of the handoffs in `preds`.               *)
PassedFor(preds, c) ==
    /\ preds \subseteq DOMAIN evidence /\ c \in rows
    /\ executions[c].role = QA /\ executions[c].passed
    /\ \E i \in preds : /\ evidence[i].role = QA /\ evidence[i].preds = preds \ {i}
                        /\ executions[c].preds = preds \ {i}

BoundTo(inputs, c) ==
    /\ c \in DOMAIN executions
    /\ \A f \in DOMAIN inputs :
          f \in DOMAIN executions[c].inputs /\ executions[c].inputs[f] = inputs[f]

(* What a worker has learned stays true while it holds the lock.           *)
JobSound(j) ==
    /\ j.pc = "attaching" =>
          /\ j.preds \subseteq DOMAIN evidence
          /\ {evidence[k].role : k \in j.preds} = Before(j.role)
          /\ j.role \in Reporters => j.path \in Paths
    /\ j.pc = "checking" => NamesQA(j.preds) /\ j.preds = LatestOf(Before(Release))
    /\ j.pc \in {"binding", "archiving", "packed", "archived"} => PassedFor(j.preds, j.checked)
    /\ j.pc \in {"archiving", "packed", "archived"} => BoundTo(j.inputs, j.bound)
    /\ j.pc \in {"reported", "released"} => j.id \in DOMAIN executions

OneTransaction ==
    \A v, w \in Workers : job[v].pc \in InTransaction /\ job[w].pc \in InTransaction => v = w

ReleasesTested ==
    \A k \in DOMAIN executions :
        executions[k].role = Release =>
            /\ PassedFor(executions[k].preds, executions[k].checked)
            /\ BoundTo(executions[k].inputs, executions[k].bound)

RolesInv ==
    /\ RolesTypeOK
    /\ Tables
    /\ HasLast
    /\ OneTransaction
    /\ \A w \in Workers : JobSound(job[w])
    /\ ReleasesTested

-----------------------------------------------------------------------------
(* The order of the stages.                                                *)
LEMMA StageOrder ==
    /\ \A r \in Roles : Before(r) \subseteq Roles \ {r}
    /\ Before(Release) = Before(QA) \union {QA}
    /\ QA \in Roles /\ Release \in Roles /\ QA # Release
<1> DEFINE n == Len(Documents)
           At(r) == CHOOSE k \in DOMAIN Stages : Stages[k] = r
<1>1. /\ Documents \in Seq(STRING) /\ n \in Nat
      /\ \A i \in 1 .. n : Documents[i] \notin {QA, Release}
    BY RolesAssumption DEF QA, Release
<1> DEFINE Names == STRING \union {QA, Release}
<1>2. Stages \in Seq(Names) /\ Len(Stages) = n + 2
    <2>1. Documents \in Seq(Names)
        BY <1>1
    <2>2. QED
        BY <1>1, <2>1 DEF Stages
<1>3. /\ \A i \in 1 .. n : Stages[i] = Documents[i] /\ Stages[i] \notin {QA, Release}
      /\ Stages[n + 1] = QA /\ Stages[n + 2] = Release
    BY <1>1 DEF Stages
<1>4. QA # Release
    BY DEF QA, Release
<1>5. \A i, j \in DOMAIN Stages : Stages[i] = Stages[j] => i = j
    BY <1>1, <1>2, <1>3, <1>4, RolesAssumption
<1>6. Roles = {Stages[i] : i \in DOMAIN Stages}
    BY <1>2 DEF Roles, ToSet
<1>7. ASSUME NEW i \in DOMAIN Stages PROVE At(Stages[i]) = i
    BY <1>5
<1>8. ASSUME NEW i \in DOMAIN Stages PROVE Before(Stages[i]) = {Stages[k] : k \in 1 .. i - 1}
    BY <1>7 DEF Before
<1>9. ASSUME NEW r \in Roles PROVE Before(r) \subseteq Roles \ {r}
    <2>1. PICK i \in DOMAIN Stages : r = Stages[i]
        BY <1>6
    <2>2. Before(r) = {Stages[k] : k \in 1 .. i - 1}
        BY <1>8, <2>1
    <2>3. \A k \in 1 .. i - 1 : k \in DOMAIN Stages /\ Stages[k] # Stages[i]
        BY <1>2, <1>5
    <2>4. QED
        BY <1>6, <2>1, <2>2, <2>3
<1>10. n + 1 \in DOMAIN Stages /\ n + 2 \in DOMAIN Stages
    BY <1>1, <1>2
<1>11. /\ Before(QA) = {Stages[k] : k \in 1 .. n}
       /\ Before(Release) = {Stages[k] : k \in 1 .. n + 1}
    <2>1. (n + 1) - 1 = n /\ (n + 2) - 1 = n + 1
        BY <1>1
    <2>2. QED
        BY <1>3, <1>8, <1>10, <2>1
<1>12. Before(Release) = Before(QA) \union {QA}
    <2>1. 1 .. n + 1 = (1 .. n) \union {n + 1}
        BY <1>1
    <2>2. QED
        BY <1>3, <1>11, <2>1
<1>13. QED
    BY <1>3, <1>4, <1>6, <1>9, <1>10, <1>12

(* What Latest returns.                                                    *)
LEMMA LatestRow ==
    ASSUME Tables, HasLast, NEW r \in Roles
    PROVE  /\ Latest(r) \in Nat
           /\ Latest(r) = 0 => ~\E i \in DOMAIN evidence : evidence[i].role = r
           /\ Latest(r) # 0 => LastOf(r, Latest(r))
<1> DEFINE ids == {i \in DOMAIN evidence : evidence[i].role = r}
<1>1. \A i \in DOMAIN evidence : i \in Nat /\ i # 0
    BY DEF Tables
<1>2. CASE ids = {}
    BY <1>2 DEF Latest
<1>3. CASE ids # {}
    <2>1. PICK i \in ids : \A j \in ids : j <= i
        BY <1>3 DEF HasLast, LastOf
    <2>2. Latest(r) = CHOOSE k \in ids : \A j \in ids : j <= k
        BY <1>3 DEF Latest
    <2>3. Latest(r) \in ids /\ \A j \in ids : j <= Latest(r)
        BY <2>1, <2>2
    <2>4. QED
        BY <1>1, <2>3 DEF LastOf
<1>4. QED
    BY <1>2, <1>3

(* Evidence that is attached becomes the latest of its role, and of no     *)
(* other.                                                                  *)
LEMMA Attached ==
    ASSUME Tables, HasLast, NEW r \in Roles, NEW e \in Row, e.role = r,
           evidence' = Append(evidence, e)
    PROVE  /\ Latest(r)' = Len(evidence) + 1
           /\ \A q \in Roles \ {r} : Latest(q)' = Latest(q)
           /\ HasLast'
           /\ \A i \in DOMAIN evidence : i \in DOMAIN evidence' /\ evidence'[i] = evidence[i]
           /\ DOMAIN evidence' = DOMAIN evidence \union {Len(evidence) + 1}
           /\ evidence'[Len(evidence) + 1] = e
<1> DEFINE n == Len(evidence)
           ids(q) == {i \in DOMAIN evidence : evidence[i].role = q}
           new(q) == {i \in DOMAIN evidence' : evidence'[i].role = q}
<1>1. n \in Nat /\ DOMAIN evidence = 1 .. n
    BY DEF Tables
<1>2. /\ DOMAIN evidence' = DOMAIN evidence \union {n + 1} /\ evidence'[n + 1] = e
      /\ \A i \in DOMAIN evidence : evidence'[i] = evidence[i]
    BY <1>1 DEF Tables
<1>3. \A q : q # r => new(q) = ids(q)
    BY <1>2
<1>4. new(r) = ids(r) \union {n + 1}
    BY <1>2
<1>5. \A i \in new(r) : i <= n + 1
    BY <1>1, <1>4
<1>6. Latest(r)' = n + 1
    <2>1. Latest(r)' = CHOOSE i \in new(r) : \A j \in new(r) : j <= i
        BY <1>4 DEF Latest
    <2>2. \A i \in new(r) : (\A j \in new(r) : j <= i) => i = n + 1
        BY <1>1, <1>4, <1>5
    <2>3. n + 1 \in new(r)
        BY <1>4
    <2>4. QED
        BY <1>5, <2>1, <2>2, <2>3
<1>7. ASSUME NEW q \in Roles \ {r} PROVE Latest(q)' = Latest(q)
    <2>1. Latest(q)' = IF new(q) = {} THEN 0 ELSE CHOOSE i \in new(q) : \A j \in new(q) : j <= i
        BY DEF Latest
    <2>2. Latest(q) = IF ids(q) = {} THEN 0 ELSE CHOOSE i \in ids(q) : \A j \in ids(q) : j <= i
        BY DEF Latest
    <2>3. new(q) = ids(q)
        BY <1>3
    <2> HIDE DEF new, ids
    <2>4. QED
        BY <2>1, <2>2, <2>3
<1>8. HasLast'
    <2>1. ASSUME NEW q \in Roles, \E i \in DOMAIN evidence' : evidence'[i].role = q
          PROVE  \E i : LastOf(q, i)'
        <3>1. CASE q = r
            BY <1>4, <1>5, <3>1 DEF LastOf
        <3>2. CASE q # r
            <4>1. PICK i : LastOf(q, i)
                BY <1>3, <2>1, <3>2 DEF HasLast
            <4>2. LastOf(q, i)'
                BY <1>3, <3>2, <4>1 DEF LastOf
            <4>3. QED
                BY <4>2
        <3>3. QED
            BY <3>1, <3>2
    <2>2. QED
        BY <2>1 DEF HasLast
<1>9. QED
    BY <1>1, <1>2, <1>6, <1>7, <1>8

(* Who may attach: every earlier role has a latest row, and it counts.     *)
LEMMA BeforeValid ==
    ASSUME Tables, HasLast, NEW r \in Roles, Before(r) \subseteq Valid
    PROVE  /\ \A q \in Before(r) : Bound(q) /\ LastOf(q, Latest(q))
           /\ LatestOf(Before(r)) \subseteq DOMAIN evidence
           /\ {evidence[j].role : j \in LatestOf(Before(r))} = Before(r)
<1>1. ASSUME NEW q \in Before(r) PROVE Bound(q) /\ LastOf(q, Latest(q))
    <2>1. Bound(q) /\ q \in Roles
        BY StageOrder DEF Valid
    <2>2. QED
        BY <2>1, LatestRow DEF Bound
<1>2. QED
    BY <1>1 DEF LatestOf, LastOf

LEMMA LatestAreNumbers ==
    ASSUME Tables, HasLast, NEW r \in Roles
    PROVE  LatestOf(Before(r)) \subseteq Nat
BY StageOrder, LatestRow DEF LatestOf

LEMMA SnapshotTaken ==
    ASSUME RolesTypeOK, NEW S \in Bundles
    PROVE  Restrict(files, S) \in Snapshots
<1>1. S \subseteq Files
    BY RolesAssumption DEF Files
<1>2. Restrict(files, S) \in [S -> Versions]
    BY <1>1 DEF Restrict, RolesTypeOK
<1>3. QED
    BY <1>2 DEF Snapshots

(* The jobs by their place in the code.                                    *)
LEMMA JobShapes ==
    ASSUME NEW j \in Job
    PROVE  /\ j.pc = "attaching" => j \in Attaching
           /\ j.pc \in {"starting", "packaging"} => j \in Starting
           /\ j.pc = "testing" => j \in Testing
           /\ j.pc \in {"reported", "released"} => j \in Writing
           /\ j.pc = "checking" => j \in Checking
           /\ j.pc = "binding" => j \in Binding
           /\ j.pc = "tested" => j \in Tested
           /\ j.pc \in {"archiving", "packed"} => j \in Archiving
           /\ j.pc = "archived" => j \in Archived
           /\ j.pc = "idle" => j = NoJob
BY DEF Job, NoJob, Attaching, Starting, Testing, Tested, Writing, Checking, Binding, Archiving,
       Archived

(* The tables only grow.                                                   *)
Grows ==
    /\ \A i \in DOMAIN evidence : i \in DOMAIN evidence' /\ evidence'[i] = evidence[i]
    /\ \A k \in DOMAIN executions : k \in DOMAIN executions' /\ executions'[k] = executions[k]
    /\ rows \subseteq rows'

LEMMA PassedKept ==
    ASSUME RolesTypeOK, Grows, NEW preds, NEW c, PassedFor(preds, c)
    PROVE  PassedFor(preds, c)'
<1>1. c \in DOMAIN executions
    BY DEF PassedFor, RolesTypeOK
<1>2. QED
    BY <1>1 DEF PassedFor, Grows

LEMMA BoundKept ==
    ASSUME Grows, NEW inputs, NEW c, BoundTo(inputs, c)
    PROVE  BoundTo(inputs, c)'
BY DEF BoundTo, Grows

LEMMA ReleasesKept ==
    ASSUME RolesTypeOK, ReleasesTested, Grows, UNCHANGED executions
    PROVE  ReleasesTested'
<1>1. ASSUME NEW k \in DOMAIN executions, executions[k].role = Release
      PROVE  /\ PassedFor(executions[k].preds, executions[k].checked)'
             /\ BoundTo(executions[k].inputs, executions[k].bound)'
    <2>1. /\ PassedFor(executions[k].preds, executions[k].checked)
          /\ BoundTo(executions[k].inputs, executions[k].bound)
        BY <1>1 DEF ReleasesTested
    <2> DEFINE p == executions[k].preds
               c == executions[k].checked
               n == executions[k].inputs
               b == executions[k].bound
    <2>2. PassedFor(p, c)' /\ BoundTo(n, b)'
        <3>1. UNCHANGED <<p, c, n, b>>
            OBVIOUS
        <3>2. QED
            BY <2>1, <3>1 DEF PassedFor, BoundTo, Grows, RolesTypeOK
    <2>3. QED
        BY <2>2
<1>2. QED
    BY <1>1 DEF ReleasesTested

LEMMA SoundKept ==
    ASSUME RolesTypeOK, Grows, NEW j, JobSound(j), j.pc = "checking" => UNCHANGED evidence
    PROVE  JobSound(j)'
<1>1. ASSUME j.pc = "attaching"
      PROVE  /\ j.preds \subseteq DOMAIN evidence'
             /\ {evidence'[k].role : k \in j.preds} = Before(j.role)
             /\ j.role \in Reporters => j.path \in Paths
    <2>1. /\ j.preds \subseteq DOMAIN evidence
          /\ {evidence[k].role : k \in j.preds} = Before(j.role)
          /\ j.role \in Reporters => j.path \in Paths
        BY <1>1 DEF JobSound
    <2>2. \A k \in j.preds : k \in DOMAIN evidence' /\ evidence'[k] = evidence[k]
        BY <2>1 DEF Grows
    <2>3. {evidence'[k].role : k \in j.preds} = {evidence[k].role : k \in j.preds}
        BY <2>2
    <2>4. QED
        BY <2>1, <2>2, <2>3
<1>2. ASSUME j.pc = "checking"
      PROVE  NamesQA(j.preds)' /\ j.preds = LatestOf(Before(Release))'
    <2>1. NamesQA(j.preds) /\ j.preds = LatestOf(Before(Release)) /\ UNCHANGED evidence
        BY <1>2 DEF JobSound
    <2>2. LatestOf(Before(Release))' = LatestOf(Before(Release))
        BY <2>1 DEF LatestOf, Latest
    <2>3. QED
        BY <2>1, <2>2 DEF NamesQA
<1>3. ASSUME j.pc \in {"binding", "archiving", "packed", "archived"}
      PROVE  PassedFor(j.preds, j.checked)'
    BY <1>3, PassedKept DEF JobSound
<1>4. ASSUME j.pc \in {"archiving", "packed", "archived"}
      PROVE  BoundTo(j.inputs, j.bound)'
    BY <1>4, BoundKept DEF JobSound
<1>5. ASSUME j.pc \in {"reported", "released"}
      PROVE  j.id \in DOMAIN executions'
    BY <1>5 DEF JobSound, Grows
<1>6. QED
    BY <1>1, <1>2, <1>3, <1>4, <1>5 DEF JobSound

(* What a step of a worker must keep.                                      *)
LEMMA WorkerStep ==
    ASSUME RolesInv, Grows, NEW w \in Workers, NEW j \in Job, job' = [job EXCEPT ![w] = j],
           JobSound(j)',
           j.pc \in InTransaction => job[w].pc \in InTransaction \/ Unlocked,
           evidence' = evidence \/ job[w].pc \in InTransaction,
           RolesTypeOK', HasLast', ReleasesTested',
           evidence' \in Seq(Row), executions' \in Seq(Test \union Candidate),
           archive' \in Snapshots \union {<<>>}, edits' \in Nat
    PROVE  RolesInv'
<1>1. job'[w] = j /\ \A v \in Workers \ {w} : job'[v] = job[v]
    BY DEF RolesInv, Tables
<1>2. Tables'
    BY DEF RolesInv, Tables
<1>3. OneTransaction'
    <2> SUFFICES ASSUME NEW u \in Workers, NEW v \in Workers, u # v,
                        job'[u].pc \in InTransaction, job'[v].pc \in InTransaction
                 PROVE  FALSE
        BY DEF OneTransaction, InTransaction
    <2>1. CASE u = w
        <3>1. job[v].pc \in InTransaction /\ (job[w].pc \in InTransaction \/ Unlocked)
            BY <1>1, <2>1
        <3>2. QED
            BY <2>1, <3>1 DEF RolesInv, OneTransaction, Unlocked
    <2>2. CASE v = w
        <3>1. job[u].pc \in InTransaction /\ (job[w].pc \in InTransaction \/ Unlocked)
            BY <1>1, <2>2
        <3>2. QED
            BY <2>2, <3>1 DEF RolesInv, OneTransaction, Unlocked
    <2>3. CASE u # w /\ v # w
        BY <1>1, <2>3 DEF RolesInv, OneTransaction
    <2>4. QED
        BY <2>1, <2>2, <2>3
<1>4. ASSUME NEW v \in Workers PROVE JobSound(job[v])'
    <2>1. CASE v = w
        BY <1>1, <2>1 DEF JobSound
    <2>2. CASE v # w
        <3>1. PICK k : k = job[v]
            OBVIOUS
        <3>2. JobSound(k)
            BY <3>1 DEF RolesInv
        <3>3. k.pc = "checking" => UNCHANGED evidence
            <4>1. "checking" \in InTransaction
                BY DEF InTransaction
            <4>2. QED
                BY <2>2, <3>1, <4>1 DEF RolesInv, OneTransaction
        <3>4. JobSound(k)'
            BY <3>2, <3>3, SoundKept DEF RolesInv
        <3>5. job'[v] = k
            BY <1>1, <2>2, <3>1
        <3>6. QED
            BY <3>4, <3>5 DEF JobSound
    <2>3. QED
        BY <2>1, <2>2
<1>5. QED
    BY <1>2, <1>3, <1>4 DEF RolesInv

(* Files, reports and rows may change; evidence rows do not.               *)
LEMMA TypesKept ==
    ASSUME RolesTypeOK, UNCHANGED evidence,
           \A k \in DOMAIN executions : k \in DOMAIN executions',
           files' \in [Files -> Versions], reports' \in [Paths -> {0} \union DOMAIN executions'],
           rows' \subseteq DOMAIN executions',
           \A k \in DOMAIN executions' : executions'[k].inputs \in Snapshots
    PROVE  RolesTypeOK'
<1>1. ASSUME NEW i \in DOMAIN evidence'
      PROVE  /\ evidence'[i].role \in Roles /\ evidence'[i].preds \subseteq 1 .. i - 1
             /\ {evidence'[j].role : j \in evidence'[i].preds} = Before(evidence'[i].role)
             /\ evidence'[i].role \in Reporters =>
                    evidence'[i].path \in Paths /\ evidence'[i].hash \in DOMAIN executions'
    BY DEF RolesTypeOK
<1>2. QED
    BY <1>1 DEF RolesTypeOK

LEMMA LastKept == ASSUME HasLast, UNCHANGED evidence PROVE HasLast'
BY DEF HasLast, LastOf

(* A step of a worker that changes its job and nothing in the tables.      *)
LEMMA QuietStep ==
    ASSUME RolesInv, NEW w \in Workers, NEW j \in Job, job' = [job EXCEPT ![w] = j],
           JobSound(j), j.pc \in InTransaction => job[w].pc \in InTransaction \/ Unlocked,
           archive' \in Snapshots \union {<<>>},
           UNCHANGED <<files, reports, executions, rows, evidence, edits>>
    PROVE  RolesInv'
<1>1. Grows
    BY DEF Grows
<1>2. JobSound(j)'
    BY <1>1, SoundKept DEF RolesInv
<1>3. RolesTypeOK'
    BY TypesKept DEF RolesInv, RolesTypeOK
<1>4. HasLast' /\ ReleasesTested'
    BY <1>1, LastKept, ReleasesKept DEF RolesInv
<1>5. evidence' \in Seq(Row) /\ executions' \in Seq(Test \union Candidate) /\ edits' \in Nat
    BY DEF RolesInv, Tables
<1>6. QED
    BY <1>1, <1>2, <1>3, <1>4, <1>5, WorkerStep

-----------------------------------------------------------------------------
LEMMA CheckAttachStep ==
    ASSUME RolesInv, NEW w \in Workers, NEW r \in Roles,
           NEW path \in IF r \in Reporters THEN Paths ELSE {r}, CheckAttach(w, r, path)
    PROVE  RolesInv'
<1> DEFINE j == [pc |-> "attaching", role |-> r, path |-> path, preds |-> LatestOf(Before(r))]
<1>1. /\ Unlocked /\ Before(r) \subseteq Valid /\ job' = [job EXCEPT ![w] = j]
      /\ UNCHANGED <<files, reports, archive, executions, rows, evidence, edits>>
    BY DEF CheckAttach
<1>2. /\ LatestOf(Before(r)) \subseteq DOMAIN evidence
      /\ {evidence[i].role : i \in LatestOf(Before(r))} = Before(r)
      /\ LatestOf(Before(r)) \subseteq Nat
    BY <1>1, BeforeValid, LatestAreNumbers DEF RolesInv
<1>3. j \in Job
    BY <1>2 DEF Job, Attaching
<1>4. JobSound(j)
    BY <1>2 DEF JobSound
<1>5. archive' \in Snapshots \union {<<>>}
    BY <1>1 DEF RolesInv, Tables
<1> HIDE DEF j
<1>6. QED
    BY <1>1, <1>3, <1>4, <1>5, QuietStep

LEMMA CommitAttachStep ==
    ASSUME RolesInv, NEW w \in Workers, CommitAttach(w)
    PROVE  RolesInv'
<1> DEFINE j == job[w]
           h == IF j.role \in Reporters THEN reports[j.path] ELSE files[j.role]
           e == [role |-> j.role, path |-> j.path, hash |-> h, preds |-> j.preds]
           n == Len(evidence)
<1>1. /\ j.pc = "attaching" /\ (j.role \in Reporters => h # 0) /\ evidence' = Append(evidence, e)
      /\ job' = [job EXCEPT ![w] = NoJob]
      /\ UNCHANGED <<files, reports, archive, executions, rows, edits>>
    BY DEF CommitAttach
<1>2. j \in Attaching
    BY <1>1, JobShapes DEF RolesInv, Tables
<1>3. /\ j.preds \subseteq DOMAIN evidence
      /\ {evidence[k].role : k \in j.preds} = Before(j.role)
      /\ j.role \in Reporters => j.path \in Paths
    BY <1>1 DEF RolesInv, JobSound
<1>4. /\ j.role \in Reporters => h \in DOMAIN executions
      /\ h \in Versions \union Nat
    <2>1. CASE j.role \in Reporters
        BY <1>1, <1>3, <2>1 DEF RolesInv, RolesTypeOK, Tables
    <2>2. CASE j.role \notin Reporters
        <3>1. j.role \in Files
            BY <1>2, <2>2, RolesAssumption DEF Attaching, Roles, Stages, Files, ToSet, Reporters
        <3>2. QED
            BY <2>2, <3>1 DEF RolesInv, RolesTypeOK
    <2>3. QED
        BY <2>1, <2>2
<1>5. e \in Row /\ e.role = j.role /\ e.role \in Roles /\ e.preds = j.preds /\ e.path = j.path /\ e.hash = h
    BY <1>2, <1>4 DEF Row, Attaching
<1> HIDE DEF e, h
<1>6. /\ DOMAIN evidence' = DOMAIN evidence \union {n + 1} /\ evidence'[n + 1] = e
      /\ \A i \in DOMAIN evidence : i \in DOMAIN evidence' /\ evidence'[i] = evidence[i]
      /\ HasLast'
    BY <1>1, <1>5, Attached DEF RolesInv
<1>7. n \in Nat /\ DOMAIN evidence = 1 .. n /\ evidence' \in Seq(Row)
    BY <1>1, <1>5 DEF RolesInv, Tables
<1>8. ASSUME NEW i \in DOMAIN evidence'
      PROVE  /\ evidence'[i].role \in Roles /\ evidence'[i].preds \subseteq 1 .. i - 1
             /\ {evidence'[k].role : k \in evidence'[i].preds} = Before(evidence'[i].role)
             /\ evidence'[i].role \in Reporters =>
                    evidence'[i].path \in Paths /\ evidence'[i].hash \in DOMAIN executions
    <2>1. CASE i \in DOMAIN evidence
        <3>1. /\ evidence[i].role \in Roles /\ evidence[i].preds \subseteq 1 .. i - 1
              /\ {evidence[k].role : k \in evidence[i].preds} = Before(evidence[i].role)
              /\ evidence[i].role \in Reporters =>
                    evidence[i].path \in Paths /\ evidence[i].hash \in DOMAIN executions
            BY <2>1 DEF RolesInv, RolesTypeOK
        <3>2. \A k \in evidence[i].preds : k \in DOMAIN evidence
            BY <1>7, <2>1, <3>1
        <3>3. {evidence'[k].role : k \in evidence[i].preds} = {evidence[k].role : k \in evidence[i].preds}
            BY <1>6, <3>2
        <3>4. evidence'[i] = evidence[i]
            BY <1>6, <2>1
        <3>5. QED
            BY <3>1, <3>3, <3>4
    <2>2. CASE i = n + 1
        <3>1. {evidence'[k].role : k \in j.preds} = {evidence[k].role : k \in j.preds}
            BY <1>3, <1>6
        <3>2. j.preds \subseteq 1 .. (n + 1) - 1
            BY <1>3, <1>7
        <3>3. QED
            BY <1>3, <1>4, <1>5, <1>6, <2>2, <3>1, <3>2
    <2>3. QED
        BY <1>6, <2>1, <2>2
<1>9. RolesTypeOK'
    BY <1>1, <1>8 DEF RolesInv, RolesTypeOK
<1>10. Grows
    BY <1>1, <1>6 DEF Grows
<1>11. ReleasesTested'
    BY <1>1, <1>10, ReleasesKept DEF RolesInv
<1>12. NoJob \in Job /\ JobSound(NoJob)' /\ NoJob.pc \notin InTransaction /\ job[w].pc \in InTransaction
    BY <1>1 DEF Job, NoJob, JobSound, InTransaction
<1>13. executions' \in Seq(Test \union Candidate) /\ archive' \in Snapshots \union {<<>>} /\ edits' \in Nat
    BY <1>1 DEF RolesInv, Tables
<1>14. QED
    BY <1>1, <1>6, <1>7, <1>9, <1>10, <1>11, <1>12, <1>13, WorkerStep

LEMMA StartStep ==
    ASSUME RolesInv, NEW w \in Workers, StartTest(w) \/ StartPackage(w)
    PROVE  RolesInv'
<1>1. PICK S \in Bundles, path \in Paths, pc \in {"starting", "packaging"} :
        job' = [job EXCEPT ![w] = [pc |-> pc, path |-> path, inputs |-> Restrict(files, S)]]
    BY DEF StartTest, StartPackage
<1>2. UNCHANGED <<files, reports, archive, executions, rows, evidence, edits>>
    BY DEF StartTest, StartPackage
<1> DEFINE j == [pc |-> pc, path |-> path, inputs |-> Restrict(files, S)]
<1>3. j \in Job
    BY SnapshotTaken DEF Job, Starting, RolesInv
<1>4. JobSound(j) /\ j.pc \notin InTransaction
    BY DEF JobSound, InTransaction
<1>5. archive' \in Snapshots \union {<<>>}
    BY <1>2 DEF RolesInv, Tables
<1> HIDE DEF j
<1>6. QED
    BY <1>1, <1>2, <1>3, <1>4, <1>5, QuietStep DEF j

LEMMA GateTestStep ==
    ASSUME RolesInv, NEW w \in Workers, GateTest(w)
    PROVE  RolesInv'
<1> DEFINE j == [pc |-> "testing", path |-> job[w].path, inputs |-> job[w].inputs,
                 preds |-> LatestOf(Before(QA))]
<1>1. /\ job[w].pc = "starting" /\ job' = [job EXCEPT ![w] = j]
      /\ UNCHANGED <<files, reports, archive, executions, rows, evidence, edits>>
    BY DEF GateTest
<1>2. job[w] \in Starting
    BY <1>1, JobShapes DEF RolesInv, Tables
<1>3. LatestOf(Before(QA)) \subseteq Nat
    BY LatestAreNumbers, StageOrder DEF RolesInv
<1>4. j \in Job
    BY <1>2, <1>3 DEF Job, Testing, Starting
<1>5. JobSound(j) /\ j.pc \notin InTransaction
    BY DEF JobSound, InTransaction
<1>6. archive' \in Snapshots \union {<<>>}
    BY <1>1 DEF RolesInv, Tables
<1> HIDE DEF j
<1>7. QED
    BY <1>1, <1>4, <1>5, <1>6, QuietStep

(* A report is written: the executions grow by one.                        *)
LEMMA WrittenStep ==
    ASSUME RolesInv, NEW w \in Workers, NEW x \in Test \union Candidate, NEW path \in Paths,
           NEW pc \in {"reported", "released"},
           executions' = Append(executions, x),
           reports' = [reports EXCEPT ![path] = Len(executions) + 1],
           job' = [job EXCEPT ![w] = [pc |-> pc, id |-> Len(executions) + 1]],
           pc = "released" => job[w].pc \in InTransaction,
           UNCHANGED <<files, archive, rows, evidence, edits>>,
           x.role = Release => PassedFor(x.preds, x.checked) /\ BoundTo(x.inputs, x.bound)
    PROVE  RolesInv'
<1>0. PICK n : n = Len(executions)
    OBVIOUS
<1> DEFINE j == [pc |-> pc, id |-> n + 1]
<1>1. /\ executions' \in Seq(Test \union Candidate) /\ n \in Nat
      /\ DOMAIN executions' = DOMAIN executions \union {n + 1} /\ executions'[n + 1] = x
      /\ \A k \in DOMAIN executions : k \in DOMAIN executions' /\ executions'[k] = executions[k]
    BY <1>0 DEF RolesInv, Tables
<1>2. Grows
    BY <1>1 DEF Grows
<1>3. j \in Job
    BY <1>1 DEF Job, Writing
<1>4. JobSound(j)' /\ (j.pc \in InTransaction => job[w].pc \in InTransaction)
    BY <1>1 DEF JobSound, InTransaction
<1>5. RolesTypeOK'
    <2>1. \A k \in DOMAIN executions' : executions'[k].inputs \in Snapshots
        BY <1>1 DEF RolesInv, RolesTypeOK, Test, Candidate
    <2>2. reports' \in [Paths -> {0} \union DOMAIN executions'] /\ rows' \subseteq DOMAIN executions'
        BY <1>0, <1>1 DEF RolesInv, RolesTypeOK
    <2>3. files' \in [Files -> Versions]
        BY DEF RolesInv, RolesTypeOK
    <2>4. QED
        BY <1>1, <2>1, <2>2, <2>3, TypesKept DEF RolesInv
<1>6. ReleasesTested'
    <2>1. ASSUME NEW k \in DOMAIN executions', executions'[k].role = Release
          PROVE  \E y : /\ y = executions'[k]
                        /\ PassedFor(y.preds, y.checked) /\ BoundTo(y.inputs, y.bound)
        <3>1. CASE k = n + 1
            BY <1>1, <2>1, <3>1
        <3>2. CASE k \in DOMAIN executions
            BY <1>1, <2>1, <3>2 DEF RolesInv, ReleasesTested
        <3>3. QED
            BY <1>1, <3>1, <3>2
    <2>2. ASSUME NEW k \in DOMAIN executions', executions'[k].role = Release
          PROVE  /\ PassedFor(executions[k].preds, executions[k].checked)'
                 /\ BoundTo(executions[k].inputs, executions[k].bound)'
        <3>1. PICK y : /\ y = executions'[k]
                       /\ PassedFor(y.preds, y.checked) /\ BoundTo(y.inputs, y.bound)
            BY <2>1, <2>2
        <3>2. PassedFor(y.preds, y.checked)' /\ BoundTo(y.inputs, y.bound)'
            BY <1>2, <3>1, PassedKept, BoundKept DEF RolesInv
        <3>3. QED
            BY <3>1, <3>2 DEF PassedFor, BoundTo
    <2>3. QED
        BY <2>2 DEF ReleasesTested
<1>7. HasLast' /\ evidence' \in Seq(Row) /\ archive' \in Snapshots \union {<<>>} /\ edits' \in Nat
    BY LastKept DEF RolesInv, Tables
<1>8. job' = [job EXCEPT ![w] = j]
    BY <1>0
<1> HIDE DEF j
<1>9. QED
    BY <1>0, <1>1, <1>2, <1>3, <1>4, <1>5, <1>6, <1>7, <1>8, WorkerStep

LEMMA RunCommandStep ==
    ASSUME RolesInv, NEW w \in Workers, RunCommand(w)
    PROVE  RolesInv'
<1>1. PICK ok \in BOOLEAN :
        job' = [job EXCEPT ![w] = [pc |-> "tested", path |-> job[w].path, inputs |-> job[w].inputs,
                preds |-> job[w].preds, passed |-> ok /\ Unchanged(job[w].inputs)]]
    BY DEF RunCommand
<1>2. /\ job[w].pc = "testing"
      /\ UNCHANGED <<files, reports, archive, executions, rows, evidence, edits>>
    BY DEF RunCommand
<1> DEFINE passed == ok /\ Unchanged(job[w].inputs)
           j == [pc |-> "tested", path |-> job[w].path, inputs |-> job[w].inputs,
                 preds |-> job[w].preds, passed |-> passed]
<1>3. job[w] \in Testing
    BY <1>2, JobShapes DEF RolesInv, Tables
<1>4. passed \in BOOLEAN
    BY DEF Unchanged
<1>5. job' = [job EXCEPT ![w] = j]
    BY <1>1
<1> HIDE DEF passed
<1>6. j \in Job /\ JobSound(j) /\ j.pc \notin InTransaction
    BY <1>3, <1>4 DEF Job, Testing, Tested, JobSound, InTransaction
<1>7. archive' \in Snapshots \union {<<>>}
    BY <1>2 DEF RolesInv, Tables
<1> HIDE DEF j
<1>8. QED
    BY <1>2, <1>5, <1>6, <1>7, QuietStep

LEMMA WriteReportStep ==
    ASSUME RolesInv, NEW w \in Workers, WriteReport(w)
    PROVE  RolesInv'
<1> DEFINE x == [role |-> QA, inputs |-> job[w].inputs, preds |-> job[w].preds,
                 passed |-> job[w].passed]
<1>1. /\ job[w].pc = "tested" /\ executions' = Append(executions, x)
      /\ reports' = [reports EXCEPT ![job[w].path] = Len(executions) + 1]
      /\ job' = [job EXCEPT ![w] = [pc |-> "reported", id |-> Len(executions) + 1]]
      /\ UNCHANGED <<files, archive, rows, evidence, edits>>
    BY DEF WriteReport
<1>2. job[w] \in Tested
    BY <1>1, JobShapes DEF RolesInv, Tables
<1>3. x \in Test /\ x.role # Release
    BY <1>2, StageOrder DEF Test, Tested
<1>4. job[w].path \in Paths
    BY <1>2 DEF Tested
<1> HIDE DEF x
<1>5. QED
    BY <1>1, <1>3, <1>4, WrittenStep

(* A row is inserted for a report that is there.                           *)
LEMMA RowStep ==
    ASSUME RolesInv, NEW w \in Workers, RecordTest(w) \/ CommitPackage(w)
    PROVE  RolesInv'
<1>1. /\ rows' = rows \union {job[w].id} /\ job' = [job EXCEPT ![w] = NoJob]
      /\ job[w].pc \in {"reported", "released"}
      /\ UNCHANGED <<files, reports, archive, executions, evidence, edits>>
    BY DEF RecordTest, CommitPackage
<1>2. job[w].id \in DOMAIN executions
    BY <1>1 DEF RolesInv, JobSound
<1>3. Grows
    BY <1>1 DEF Grows
<1>4. RolesTypeOK'
    BY <1>1, <1>2, TypesKept DEF RolesInv, RolesTypeOK
<1>5. HasLast' /\ ReleasesTested'
    BY <1>1, <1>3, LastKept, ReleasesKept DEF RolesInv
<1>6. NoJob \in Job /\ JobSound(NoJob)' /\ NoJob.pc \notin InTransaction
    BY DEF Job, NoJob, JobSound, InTransaction
<1>7. /\ evidence' \in Seq(Row) /\ executions' \in Seq(Test \union Candidate)
      /\ archive' \in Snapshots \union {<<>>} /\ edits' \in Nat
    BY <1>1 DEF RolesInv, Tables
<1>8. QED
    BY <1>1, <1>3, <1>4, <1>5, <1>6, <1>7, WorkerStep

-----------------------------------------------------------------------------
(* package: the handoff of QA names the handoffs before it.                *)
LEMMA CheckHandoffsStep ==
    ASSUME RolesInv, NEW w \in Workers, CheckHandoffs(w)
    PROVE  RolesInv'
<1> DEFINE i == Latest(QA)
           j == [pc |-> "checking", path |-> job[w].path, inputs |-> job[w].inputs,
                 preds |-> LatestOf(Before(Release)), qa |-> evidence[i].path]
<1>1. /\ job[w].pc = "packaging" /\ Unlocked /\ Before(QA) \subseteq Valid /\ Bound(QA)
      /\ job' = [job EXCEPT ![w] = j]
      /\ UNCHANGED <<files, reports, archive, executions, rows, evidence, edits>>
    BY DEF CheckHandoffs
<1>2. job[w] \in Starting
    BY <1>1, JobShapes DEF RolesInv, Tables
<1>3. LastOf(QA, i) /\ evidence[i].preds = LatestOf(Before(QA))
    BY <1>1, LatestRow, StageOrder DEF RolesInv, Bound
<1>4. evidence[i].path \in Paths
    BY <1>3 DEF LastOf, RolesInv, RolesTypeOK, Reporters
<1>5. /\ LatestOf(Before(QA)) \subseteq DOMAIN evidence
      /\ \A k \in LatestOf(Before(QA)) : evidence[k].role # QA
    BY <1>1, BeforeValid, StageOrder DEF RolesInv, LatestOf, LastOf
<1>6. LatestOf(Before(Release)) = LatestOf(Before(QA)) \union {i}
    BY StageOrder DEF LatestOf
<1>7. NamesQA(LatestOf(Before(Release)))
    BY <1>3, <1>5, <1>6 DEF NamesQA, LastOf
<1>8. j \in Job
    BY <1>2, <1>4, LatestAreNumbers, StageOrder DEF RolesInv, Job, Checking, Starting
<1>9. JobSound(j)
    BY <1>7 DEF JobSound
<1>10. archive' \in Snapshots \union {<<>>}
    BY <1>1 DEF RolesInv, Tables
<1> HIDE DEF j
<1>11. QED
    BY <1>1, <1>8, <1>9, <1>10, QuietStep

(* The report that is checked passed for the handoffs the lock has kept.   *)
LEMMA CheckReportStep ==
    ASSUME RolesInv, NEW w \in Workers, CheckReport(w)
    PROVE  RolesInv'
<1> DEFINE c == reports[job[w].qa]
           j == [pc |-> "binding", path |-> job[w].path, inputs |-> job[w].inputs,
                 preds |-> job[w].preds, qa |-> job[w].qa, checked |-> c]
<1>1. /\ job[w].pc = "checking" /\ ExecutionValid(QA, c) /\ job' = [job EXCEPT ![w] = j]
      /\ UNCHANGED <<files, reports, archive, executions, rows, evidence, edits>>
    BY DEF CheckReport
<1>2. job[w] \in Checking
    BY <1>1, JobShapes DEF RolesInv, Tables
<1>3. NamesQA(job[w].preds) /\ job[w].preds = LatestOf(Before(Release))
    BY <1>1 DEF RolesInv, JobSound
<1>4. PICK i \in job[w].preds : evidence[i].role = QA /\ evidence[i].preds = job[w].preds \ {i}
    BY <1>3 DEF NamesQA
<1>5. executions[c].preds = LatestOf(Before(QA))
    BY <1>1 DEF ExecutionValid
<1>6. LatestOf(Before(QA)) = job[w].preds \ {i}
    <2>1. job[w].preds = LatestOf(Before(QA)) \union {Latest(QA)}
        BY <1>3, StageOrder DEF LatestOf
    <2>2. job[w].preds \subseteq DOMAIN evidence /\ DOMAIN evidence \subseteq Nat \ {0}
        BY <1>3 DEF NamesQA, RolesInv, Tables
    <2>3. \A q \in Before(Release) : Latest(q) # 0 /\ LastOf(q, Latest(q))
        <3>1. \A q \in Before(Release) : Latest(q) \in job[w].preds /\ q \in Roles
            BY <1>3, StageOrder DEF LatestOf
        <3>2. QED
            BY <2>2, <3>1, LatestRow DEF RolesInv
    <2>4. \A k \in LatestOf(Before(QA)) : evidence[k].role # QA
        BY <2>3, StageOrder DEF LatestOf, LastOf
    <2>5. evidence[Latest(QA)].role = QA
        BY <2>3, StageOrder DEF LastOf
    <2>6. QED
        BY <1>4, <2>1, <2>4, <2>5
<1>7. PassedFor(job[w].preds, c)
    BY <1>1, <1>3, <1>4, <1>5, <1>6 DEF PassedFor, NamesQA, ExecutionValid
<1>8. c \in Nat
    BY <1>2 DEF RolesInv, RolesTypeOK, Tables, Checking
<1>9. j \in Job
    BY <1>2, <1>8 DEF Job, Checking, Binding
<1>10. JobSound(j) /\ job[w].pc \in InTransaction
    BY <1>1, <1>7 DEF JobSound, InTransaction
<1>11. archive' \in Snapshots \union {<<>>}
    BY <1>1 DEF RolesInv, Tables
<1> HIDE DEF j
<1>12. QED
    BY <1>1, <1>9, <1>10, <1>11, QuietStep

LEMMA BindInputsStep ==
    ASSUME RolesInv, NEW w \in Workers, BindInputs(w)
    PROVE  RolesInv'
<1> DEFINE b == reports[job[w].qa]
           j == [pc |-> "archiving", path |-> job[w].path, inputs |-> job[w].inputs,
                 preds |-> job[w].preds, checked |-> job[w].checked, bound |-> b]
<1>1. /\ job[w].pc = "binding" /\ b # 0 /\ job' = [job EXCEPT ![w] = j]
      /\ \A f \in DOMAIN job[w].inputs :
            f \in DOMAIN executions[b].inputs /\ executions[b].inputs[f] = job[w].inputs[f]
      /\ UNCHANGED <<files, reports, archive, executions, rows, evidence, edits>>
    BY DEF BindInputs
<1>2. job[w] \in Binding
    BY <1>1, JobShapes DEF RolesInv, Tables
<1>3. b \in DOMAIN executions /\ b \in Nat
    BY <1>1, <1>2 DEF RolesInv, RolesTypeOK, Tables, Binding
<1>4. PassedFor(job[w].preds, job[w].checked)
    BY <1>1 DEF RolesInv, JobSound
<1>5. BoundTo(job[w].inputs, b)
    BY <1>1, <1>3 DEF BoundTo
<1>6. j \in Job
    BY <1>2, <1>3 DEF Job, Binding, Archiving
<1>7. JobSound(j) /\ job[w].pc \in InTransaction
    BY <1>1, <1>4, <1>5 DEF JobSound, InTransaction
<1>8. archive' \in Snapshots \union {<<>>}
    BY <1>1 DEF RolesInv, Tables
<1> HIDE DEF j
<1>9. QED
    BY <1>1, <1>6, <1>7, <1>8, QuietStep

LEMMA PackInputsStep ==
    ASSUME RolesInv, NEW w \in Workers, PackInputs(w)
    PROVE  RolesInv'
<1> DEFINE j == [job[w] EXCEPT !.pc = "packed"]
<1>1. /\ job[w].pc = "archiving" /\ job' = [job EXCEPT ![w] = j]
      /\ UNCHANGED <<files, reports, archive, executions, rows, evidence, edits>>
    BY DEF PackInputs
<1>2. job[w] \in Archiving
    BY <1>1, JobShapes DEF RolesInv, Tables
<1>3. j \in Archiving /\ j.pc = "packed" /\ j.preds = job[w].preds /\ j.inputs = job[w].inputs
      /\ j.checked = job[w].checked /\ j.bound = job[w].bound
    BY <1>2 DEF Archiving
<1>4. PassedFor(job[w].preds, job[w].checked) /\ BoundTo(job[w].inputs, job[w].bound)
    BY <1>1 DEF RolesInv, JobSound
<1>5. archive' \in Snapshots \union {<<>>}
    BY <1>1 DEF RolesInv, Tables
<1> HIDE DEF j
<1>6. j \in Job /\ JobSound(j) /\ job[w].pc \in InTransaction
    BY <1>1, <1>3, <1>4 DEF Job, JobSound, InTransaction
<1>7. QED
    BY <1>1, <1>5, <1>6, QuietStep

LEMMA WriteArchiveStep ==
    ASSUME RolesInv, NEW w \in Workers, WriteArchive(w)
    PROVE  RolesInv'
<1> DEFINE passed == Unchanged(job[w].inputs)
           j == [pc |-> "archived", path |-> job[w].path, inputs |-> job[w].inputs,
                 preds |-> job[w].preds, checked |-> job[w].checked, bound |-> job[w].bound,
                 passed |-> passed]
<1>1. /\ job[w].pc = "packed" /\ archive' = job[w].inputs /\ job' = [job EXCEPT ![w] = j]
      /\ UNCHANGED <<files, reports, executions, rows, evidence, edits>>
    BY DEF WriteArchive
<1>2. job[w] \in Archiving
    BY <1>1, JobShapes DEF RolesInv, Tables
<1>3. passed \in BOOLEAN
    BY DEF Unchanged
<1> HIDE DEF passed
<1>4. j \in Archived /\ j.pc = "archived" /\ j.preds = job[w].preds /\ j.inputs = job[w].inputs
      /\ j.checked = job[w].checked /\ j.bound = job[w].bound
    BY <1>2, <1>3 DEF Archiving, Archived
<1>5. PassedFor(job[w].preds, job[w].checked) /\ BoundTo(job[w].inputs, job[w].bound)
    BY <1>1 DEF RolesInv, JobSound
<1>6. archive' \in Snapshots \union {<<>>}
    BY <1>1, <1>2 DEF Archiving
<1> HIDE DEF j
<1>7. j \in Job /\ JobSound(j) /\ job[w].pc \in InTransaction
    BY <1>1, <1>4, <1>5 DEF Job, JobSound, InTransaction
<1>8. QED
    BY <1>1, <1>6, <1>7, QuietStep

LEMMA WriteReleaseStep ==
    ASSUME RolesInv, NEW w \in Workers, WriteRelease(w)
    PROVE  RolesInv'
<1> DEFINE x == [role |-> Release, inputs |-> job[w].inputs, preds |-> job[w].preds,
                 passed |-> job[w].passed, outputs |-> archive,
                 checked |-> job[w].checked, bound |-> job[w].bound]
<1>1. /\ job[w].pc = "archived" /\ executions' = Append(executions, x)
      /\ reports' = [reports EXCEPT ![job[w].path] = Len(executions) + 1]
      /\ job' = [job EXCEPT ![w] = [pc |-> "released", id |-> Len(executions) + 1]]
      /\ UNCHANGED <<files, archive, rows, evidence, edits>>
    BY DEF WriteRelease
<1>2. job[w] \in Archived
    BY <1>1, JobShapes DEF RolesInv, Tables
<1>3. x \in Candidate /\ x.preds = job[w].preds /\ x.inputs = job[w].inputs
      /\ x.checked = job[w].checked /\ x.bound = job[w].bound
    BY <1>2 DEF RolesInv, Tables, Candidate, Archived
<1>4. PassedFor(job[w].preds, job[w].checked) /\ BoundTo(job[w].inputs, job[w].bound)
    BY <1>1 DEF RolesInv, JobSound
<1>5. job[w].path \in Paths /\ job[w].pc \in InTransaction
    BY <1>1, <1>2 DEF Archived, InTransaction
<1> HIDE DEF x
<1>6. QED
    BY <1>1, <1>3, <1>4, <1>5, WrittenStep

(* Whatever others do to the workspace, the tables are as they were.       *)
LEMMA EditStep ==
    ASSUME RolesInv, EditFile \/ EditReport \/ RemoveArchive
    PROVE  RolesInv'
<1>1. UNCHANGED <<executions, rows, evidence, job>>
    BY DEF EditFile, EditReport, RemoveArchive
<1>2. /\ files' \in [Files -> Versions] /\ reports' \in [Paths -> {0} \union DOMAIN executions]
      /\ archive' \in Snapshots \union {<<>>} /\ edits' \in Nat
    BY DEF EditFile, EditReport, RemoveArchive, RolesInv, RolesTypeOK, Tables
<1>3. Grows
    BY <1>1 DEF Grows
<1>4. RolesTypeOK'
    BY <1>1, <1>2, TypesKept DEF RolesInv, RolesTypeOK
<1>5. Tables' /\ HasLast' /\ ReleasesTested' /\ OneTransaction'
    BY <1>1, <1>2, <1>3, LastKept, ReleasesKept DEF RolesInv, Tables, OneTransaction
<1>6. ASSUME NEW v \in Workers PROVE JobSound(job[v])'
    <2>1. PICK k : k = job[v]
        OBVIOUS
    <2>2. JobSound(k)'
        BY <1>1, <1>3, <2>1, SoundKept DEF RolesInv
    <2>3. QED
        BY <1>1, <2>1, <2>2 DEF JobSound
<1>7. QED
    BY <1>4, <1>5, <1>6 DEF RolesInv

LEMMA AbandonStep ==
    ASSUME RolesInv, NEW w \in Workers, Abandon(w)
    PROVE  RolesInv'
<1>1. NoJob \in Job /\ JobSound(NoJob) /\ NoJob.pc \notin InTransaction
    BY DEF Job, NoJob, JobSound, InTransaction
<1>2. archive' \in Snapshots \union {<<>>}
    BY DEF Abandon, RolesInv, Tables
<1>3. QED
    BY <1>1, <1>2, QuietStep DEF Abandon

LEMMA RolesStep ==
    ASSUME RolesInv, [Next]_vars
    PROVE  RolesInv'
<1>1. CASE Next
    BY <1>1, CheckAttachStep, CommitAttachStep, StartStep, GateTestStep, RunCommandStep, WriteReportStep,
       RowStep, PackInputsStep,
       CheckHandoffsStep, CheckReportStep, BindInputsStep, WriteArchiveStep, WriteReleaseStep,
       AbandonStep, EditStep
    DEF Next
<1>2. CASE UNCHANGED vars
    <2>1. UNCHANGED <<files, reports, archive, executions, rows, evidence, job, edits>>
        BY <1>2 DEF vars
    <2>2. Grows
        BY <2>1 DEF Grows
    <2>3. RolesTypeOK' /\ Tables' /\ HasLast' /\ ReleasesTested' /\ OneTransaction'
        BY <2>1, <2>2, TypesKept, LastKept, ReleasesKept
        DEF RolesInv, RolesTypeOK, Tables, OneTransaction
    <2>4. ASSUME NEW v \in Workers PROVE JobSound(job[v])'
        <3>1. PICK k : k = job[v]
            OBVIOUS
        <3>2. JobSound(k)'
            BY <2>1, <2>2, <3>1, SoundKept DEF RolesInv
        <3>3. QED
            BY <2>1, <3>1, <3>2 DEF JobSound
    <2>5. QED
        BY <2>3, <2>4 DEF RolesInv
<1>3. QED
    BY <1>1, <1>2

LEMMA RolesInit ==
    ASSUME Init
    PROVE  RolesInv
<1>1. /\ files \in [Files -> Versions] /\ reports = [path \in Paths |-> 0] /\ archive = <<>>
      /\ evidence = <<>> /\ executions = <<>> /\ rows = {}
      /\ job = [w \in Workers |-> NoJob] /\ edits = 0
    BY RolesAssumption DEF Init
<1>2. NoJob \in Job /\ NoJob.pc = "idle"
    BY DEF NoJob, Job
<1>3. RolesTypeOK
    BY <1>1 DEF RolesTypeOK
<1>4. Tables
    BY <1>1, <1>2 DEF Tables
<1>5. HasLast /\ ReleasesTested
    BY <1>1 DEF HasLast, ReleasesTested
<1>6. OneTransaction /\ \A w \in Workers : JobSound(job[w])
    BY <1>1, <1>2 DEF OneTransaction, InTransaction, JobSound
<1>7. QED
    BY <1>3, <1>4, <1>5, <1>6 DEF RolesInv

(* The inductive invariant: what a packaging worker has found out about    *)
(* the handoffs and the QA report stays true while it holds the lock,      *)
(* although the files it read do not stay.                                 *)
THEOREM RolesSafe == Spec => []RolesInv
<1>1. RolesInv /\ [Next]_vars => RolesInv'
    BY RolesStep
<1>2. QED
    BY <1>1, RolesInit, PTL DEF Spec

(* Every row of evidence names one earlier row for each earlier role       *)
(* (devville_roles.py, attach).                                            *)
THEOREM RolesTypesHold == Spec => []RolesTypeOK
<1>1. RolesInv => RolesTypeOK
    BY DEF RolesInv
<1>2. QED
    BY <1>1, RolesSafe, PTL

(* The QA report a recorded release was let through with passed for the    *)
(* handoffs of the release, and the release is bound to the report that    *)
(* was read after it: that same one, unless the file was replaced between  *)
(* the two reads (devville_roles.py, evidence_state and package).          *)
THEOREM PackagedAsTestedHolds == Spec => []PackagedAsTested
<1>1. ASSUME RolesInv, NEW x \in rows, executions[x].role = Release
      PROVE  /\ PassedFor(executions[x].preds, executions[x].checked)
             /\ BoundTo(executions[x].inputs, executions[x].bound)
    BY <1>1 DEF RolesInv, RolesTypeOK, ReleasesTested
<1>2. ASSUME RolesInv, NEW x \in rows, executions[x].role = Release
      PROVE  LET qa == executions[executions[x].checked]
                 bound == executions[executions[x].bound]
             IN  /\ executions[x].checked \in rows /\ qa.role = QA /\ qa.passed
                 /\ \E i \in executions[x].preds :
                     /\ evidence[i].role = QA
                     /\ qa.preds = executions[x].preds \ {i} /\ evidence[i].preds = qa.preds
                 /\ \A f \in DOMAIN executions[x].inputs :
                     f \in DOMAIN bound.inputs /\ bound.inputs[f] = executions[x].inputs[f]
    <2>1. PassedFor(executions[x].preds, executions[x].checked)
        BY <1>1, <1>2
    <2>2. BoundTo(executions[x].inputs, executions[x].bound)
        BY <1>1, <1>2
    <2>3. QED
        BY <2>1, <2>2 DEF PassedFor, BoundTo
<1>3. RolesInv => PackagedAsTested
    BY <1>2 DEF PackagedAsTested
<1>4. QED
    BY <1>3, RolesSafe, PTL

(* A replaced handoff invalidates every later role (devville_roles.py,     *)
(* evidence_state).                                                        *)
THEOREM ReplacingInvalidatesHolds == Spec => ReplacingInvalidates
<1> DEFINE Invalidates == \A r \in Roles : Latest(r)' # Latest(r) =>
                \A q \in Roles : r \in Before(q) => q \notin Valid'
<1>1. ASSUME RolesInv, [Next]_vars PROVE Invalidates
    <2>1. CASE UNCHANGED evidence
        BY <2>1 DEF Latest
    <2>2. ASSUME NEW w \in Workers, CommitAttach(w) PROVE Invalidates
        <3> DEFINE n == Len(evidence)
        <3>1. PICK s \in Roles : s = job[w].role
            <4>1. job[w] \in Attaching
                BY <1>1, <2>2, JobShapes DEF CommitAttach, RolesInv, Tables
            <4>2. QED
                BY <4>1 DEF Attaching
        <3>2. PICK e : evidence' = Append(evidence, e) /\ e.role = s
            BY <2>2, <3>1 DEF CommitAttach
        <3>3. e \in Row
            <4>1. n + 1 \in DOMAIN evidence' /\ evidence'[n + 1] = e
                BY <1>1, <3>2 DEF RolesInv, Tables
            <4>2. evidence' \in Seq(Row)
                BY <1>1, RolesStep DEF RolesInv, Tables
            <4>3. QED
                BY <4>1, <4>2
        <3>4. /\ Latest(s)' = n + 1 /\ \A q \in Roles \ {s} : Latest(q)' = Latest(q)
              /\ \A i \in DOMAIN evidence : evidence'[i] = evidence[i]
            BY <1>1, <3>2, <3>3, Attached DEF RolesInv
        <3>5. ASSUME NEW q \in Roles, s \in Before(q), q \in Valid' PROVE FALSE
            <4>1. q # s /\ Latest(q)' = Latest(q)
                BY <3>3, <3>4, <3>5, StageOrder
            <4>2. Latest(q)' # 0 /\ evidence'[Latest(q)'].preds = LatestOf(Before(q))'
                BY <3>5 DEF Valid, Bound
            <4>3. n + 1 \in evidence'[Latest(q)'].preds
                BY <3>4, <3>5, <4>2 DEF LatestOf
            <4>4. Latest(q) \in DOMAIN evidence
                BY <1>1, <4>1, <4>2, LatestRow DEF LastOf, RolesInv
            <4>5. n + 1 \in evidence[Latest(q)].preds
                BY <3>4, <4>1, <4>3, <4>4
            <4>6. evidence[Latest(q)].preds \subseteq 1 .. Latest(q) - 1
                BY <1>1, <4>4 DEF RolesInv, RolesTypeOK
            <4>7. n \in Nat /\ Latest(q) \in 1 .. n
                BY <1>1, <4>4 DEF RolesInv, Tables
            <4>8. QED
                BY <4>5, <4>6, <4>7
        <3>6. QED
            BY <3>4, <3>5
    <2>3. UNCHANGED evidence \/ \E w \in Workers : CommitAttach(w)
        BY <1>1 DEF Next, vars, CheckAttach, StartTest, GateTest, RunCommand, WriteReport, RecordTest,
                    StartPackage, CheckHandoffs, CheckReport, BindInputs, PackInputs, WriteArchive,
                    WriteRelease, CommitPackage, Abandon, EditFile, EditReport, RemoveArchive
    <2>4. QED
        BY <2>1, <2>2, <2>3
<1>2. QED
    BY <1>1, RolesSafe, PTL DEF Spec, ReplacingInvalidates
=============================================================================
