------------------------------- MODULE Roles --------------------------------
(***************************************************************************)
(* The role runtime: evidence attached role by role to one ticket, tests   *)
(* run and releases packaged by workers over a workspace that anybody can  *)
(* change in between.  BEGIN IMMEDIATE locks the tables and no file, so    *)
(* every read of a report file is an action of its own.                    *)
(*                                                                         *)
(* Abstractions.  A file is its version and a hash is what it is a hash    *)
(* of; a report file is the execution it tells of, an archive what it was  *)
(* packed from.  A document's path is its role.  Files that are each read  *)
(* once, against a hash of their own (documents, inputs), are read at one  *)
(* moment.  Where evidence_state only gates (attach) its two reads of a    *)
(* report are one; where package relies on the report they are two.  Every *)
(* package writes the default archive.  The gates of the last four roles   *)
(* refuse whatever is attached (no deployment verifier is implemented), so *)
(* those roles and `close`, which needs them all, change nothing.  The     *)
(* event chain of a ticket grows in the transactions below.                *)
(***************************************************************************)
EXTENDS Naturals, Sequences, SequencesExt, FiniteSets, Functions

CONSTANTS
    Documents,      \* the roles that hand off a document, in stage order
    Sources,        \* source files
    Bundles,        \* sets of them a test or a package is given
    Versions,       \* contents of a file
    Paths,          \* files a report may be written to
    Workers,        \* processes that attach, test and package
    MaxEvidence,    \* bound: evidence attached
    MaxExecutions,  \* bound: reports written
    MaxEdits        \* bound: changes of the workspace

ASSUME RolesAssumption ==
    /\ Documents \in Seq(STRING)
    /\ \A i \in DOMAIN Documents : Documents[i] \notin {"qa-engineer", "release-manager"}
    /\ \A i, j \in DOMAIN Documents : Documents[i] = Documents[j] => i = j
    /\ Bundles \subseteq (SUBSET Sources) \ {{}} /\ Versions # {}
    /\ MaxEvidence \in Nat /\ MaxExecutions \in Nat /\ MaxEdits \in Nat

QA == "qa-engineer"
Release == "release-manager"
Reporters == {QA, Release}
Stages == Documents \o <<QA, Release>>
Roles == ToSet(Stages)
Files == ToSet(Documents) \union Sources

VARIABLES
    files,      \* version of each file of the workspace
    reports,    \* per path: the execution the report there tells of, or 0
    archive,    \* what the archive was packed from, or <<>>
    executions, \* the reports ever written, by execution id
    rows,       \* those of them with a row in the table
    evidence,   \* the table: role, path, hash and predecessors of each row
    job,        \* what each worker is doing
    edits

vars == <<files, reports, archive, executions, rows, evidence, job, edits>>

Snapshots == UNION {[S -> Versions] : S \in Bundles}
NoJob == [pc |-> "idle"]

(* A transaction is under way: the others wait for the lock.               *)
InTransaction == {"attaching", "checking", "binding", "archiving", "packed", "archived", "released"}
Unlocked == \A w \in Workers : job[w].pc \notin InTransaction

(* The predecessors of a role; the latest evidence of each.                *)
Before(r) == {Stages[i] : i \in 1 .. (CHOOSE k \in DOMAIN Stages : Stages[k] = r) - 1}
Latest(r) == LET ids == {i \in DOMAIN evidence : evidence[i].role = r}
             IN  IF ids = {} THEN 0 ELSE CHOOSE i \in ids : \A j \in ids : j <= i
LatestOf(S) == {Latest(r) : r \in S}

(* Every row of evidence names one earlier row for each earlier role, and  *)
(* every row of the two tables a report that was written.                  *)
RolesTypeOK ==
    /\ files \in [Files -> Versions]
    /\ reports \in [Paths -> {0} \union DOMAIN executions] /\ rows \subseteq DOMAIN executions
    /\ \A i \in DOMAIN evidence :
        LET e == evidence[i]
        IN  /\ e.role \in Roles /\ e.preds \subseteq 1 .. i - 1
            /\ {evidence[j].role : j \in e.preds} = Before(e.role)
            /\ e.role \in Reporters => e.path \in Paths /\ e.hash \in DOMAIN executions
    /\ \A i \in DOMAIN executions : executions[i].inputs \in Snapshots

Init ==
    /\ files \in [Files -> {CHOOSE v \in Versions : TRUE}]
    /\ reports = [path \in Paths |-> 0] /\ archive = <<>>
    /\ executions = <<>> /\ rows = {} /\ evidence = <<>>
    /\ job = [w \in Workers |-> NoJob]
    /\ edits = 0

(* verify_snapshot.                                                        *)
Unchanged(snapshot) == \A f \in DOMAIN snapshot : files[f] = snapshot[f]

ExecutionValidOnce(r, x) ==
    /\ x \in rows
    /\ executions[x].role = r /\ executions[x].passed
    /\ Unchanged(executions[x].inputs)
    /\ r = Release => archive = executions[x].outputs

(* execution_valid: the report equals its row, it was made for the handoffs*)
(* as they are now, it passed, and its inputs (and the archive) are still  *)
(* what they were.                                                         *)
ExecutionValid(r, x) ==
    /\ x \in rows
    /\ executions[x].role = r /\ executions[x].passed
    /\ executions[x].preds = LatestOf(Before(r))
    /\ Unchanged(executions[x].inputs)
    /\ r = Release => archive = executions[x].outputs

HashMatches(e) == IF e.role \in Reporters THEN reports[e.path] = e.hash ELSE files[e.role] = e.hash

BoundLoosely(r) ==
    /\ Latest(r) # 0
    /\ \A q \in Before(r) : Latest(q) # 0
    /\ HashMatches(evidence[Latest(r)])

(* The latest evidence of a role names the latest evidence of the earlier  *)
(* roles, and its file has the recorded hash.                              *)
Bound(r) ==
    /\ Latest(r) # 0
    /\ evidence[Latest(r)].preds = LatestOf(Before(r))
    /\ HashMatches(evidence[Latest(r)])

(* evidence_state: the roles whose latest evidence counts.                 *)
Valid == {r \in Roles : \A q \in Before(r) \union {r} :
            Bound(q) /\ (q \in Reporters => ExecutionValid(q, evidence[Latest(q)].hash))}

CheckAnyOrder(w, r, path) ==
    /\ job[w] = NoJob /\ Unlocked /\ Len(evidence) < MaxEvidence
    /\ r \in Reporters => ExecutionValid(r, reports[path])
    /\ job' = [job EXCEPT ![w] =
            [pc |-> "attaching", role |-> r, path |-> path, preds |-> LatestOf(Before(r))]]
    /\ UNCHANGED <<files, reports, archive, executions, rows, evidence, edits>>

(* attach: the earlier roles count, and so does the report in the file...  *)
CheckAttach(w, r, path) ==
    /\ job[w] = NoJob /\ Unlocked /\ Len(evidence) < MaxEvidence
    /\ Before(r) \subseteq Valid
    /\ r \in Reporters => ExecutionValid(r, reports[path])
    /\ job' = [job EXCEPT ![w] =
            [pc |-> "attaching", role |-> r, path |-> path, preds |-> LatestOf(Before(r))]]
    /\ UNCHANGED <<files, reports, archive, executions, rows, evidence, edits>>

(* ... then the file is read again for its hash, and the row inserted.     *)
CommitAttach(w) ==
    /\ job[w].pc = "attaching"
    /\ LET r == job[w].role
           h == IF r \in Reporters THEN reports[job[w].path] ELSE files[r]
       IN  /\ r \in Reporters => h # 0
           /\ evidence' = Append(evidence,
                [role |-> r, path |-> job[w].path, hash |-> h, preds |-> job[w].preds])
    /\ job' = [job EXCEPT ![w] = NoJob]
    /\ UNCHANGED <<files, reports, archive, executions, rows, edits>>

(* test_run: the output does not exist and the inputs are read...          *)
StartTest(w) ==
    /\ job[w] = NoJob
    /\ \E S \in Bundles, path \in Paths :
        /\ reports[path] = 0
        /\ job' = [job EXCEPT ![w] =
                [pc |-> "starting", path |-> path, inputs |-> Restrict(files, S)]]
    /\ UNCHANGED <<files, reports, archive, executions, rows, evidence, edits>>

(* ... then the handoffs, in no transaction...                             *)
GateTest(w) ==
    /\ job[w].pc = "starting"
    /\ Before(QA) \subseteq Valid
    /\ job' = [job EXCEPT ![w] =
            [pc |-> "testing", path |-> @.path, inputs |-> @.inputs, preds |-> LatestOf(Before(QA))]]
    /\ UNCHANGED <<files, reports, archive, executions, rows, evidence, edits>>

(* ... the command runs and the inputs are compared...                     *)
RunCommand(w) ==
    /\ job[w].pc = "testing"
    /\ \E ok \in BOOLEAN :
        job' = [job EXCEPT ![w] = [pc |-> "tested", path |-> @.path, inputs |-> @.inputs,
                preds |-> @.preds, passed |-> ok /\ Unchanged(@.inputs)]]
    /\ UNCHANGED <<files, reports, archive, executions, rows, evidence, edits>>

(* ... and the report replaces whatever the output has become by then; its *)
(* row is not there yet.                                                   *)
WriteReport(w) ==
    /\ job[w].pc = "tested" /\ Len(executions) < MaxExecutions
    /\ executions' = Append(executions, [role |-> QA, inputs |-> job[w].inputs,
            preds |-> job[w].preds, passed |-> job[w].passed])
    /\ reports' = [reports EXCEPT ![job[w].path] = Len(executions) + 1]
    /\ job' = [job EXCEPT ![w] = [pc |-> "reported", id |-> Len(executions) + 1]]
    /\ UNCHANGED <<files, archive, rows, evidence, edits>>

(* The row follows in a transaction of its own.                            *)
RecordTest(w) ==
    /\ job[w].pc = "reported" /\ Unlocked
    /\ rows' = rows \union {job[w].id}
    /\ job' = [job EXCEPT ![w] = NoJob]
    /\ UNCHANGED <<files, reports, archive, executions, evidence, edits>>

(* package: outputs and inputs are looked at before the transaction.       *)
StartPackage(w) ==
    /\ job[w] = NoJob
    /\ archive = <<>>
    /\ \E S \in Bundles, path \in Paths :
        /\ reports[path] = 0
        /\ job' = [job EXCEPT ![w] =
                [pc |-> "packaging", path |-> path, inputs |-> Restrict(files, S)]]
    /\ UNCHANGED <<files, reports, archive, executions, rows, evidence, edits>>

(* evidence_state: the handoffs count and the QA report has its hash...    *)
CheckHandoffs(w) ==
    /\ job[w].pc = "packaging" /\ Unlocked
    /\ Before(QA) \subseteq Valid
    /\ Bound(QA)
    /\ job' = [job EXCEPT ![w] = [pc |-> "checking", path |-> @.path, inputs |-> @.inputs,
            preds |-> LatestOf(Before(Release)), qa |-> evidence[Latest(QA)].path]]
    /\ UNCHANGED <<files, reports, archive, executions, rows, evidence, edits>>

(* ... the file is read again and is a valid execution...                  *)
CheckReport(w) ==
    /\ job[w].pc = "checking"
    /\ ExecutionValid(QA, reports[job[w].qa])
    /\ job' = [job EXCEPT ![w] = [pc |-> "binding", path |-> @.path, inputs |-> @.inputs,
            preds |-> @.preds, qa |-> @.qa, checked |-> reports[@.qa]]]
    /\ UNCHANGED <<files, reports, archive, executions, rows, evidence, edits>>

(* ... and package reads it a third time, checking nothing, for the inputs *)
(* that every packaged file must be bound to.                              *)
BindInputs(w) ==
    /\ job[w].pc = "binding"
    /\ LET x == reports[job[w].qa]
       IN  /\ x # 0
           /\ \A f \in DOMAIN job[w].inputs :
                f \in DOMAIN executions[x].inputs /\ executions[x].inputs[f] = job[w].inputs[f]
           /\ job' = [job EXCEPT ![w] = [pc |-> "archiving", path |-> @.path, inputs |-> @.inputs,
                    preds |-> @.preds, checked |-> @.checked, bound |-> x]]
    /\ UNCHANGED <<files, reports, archive, executions, rows, evidence, edits>>

(* The files are packed if they are what they were before the transaction..*)
PackInputs(w) ==
    /\ job[w].pc = "archiving"
    /\ Unchanged(job[w].inputs)
    /\ job' = [job EXCEPT ![w].pc = "packed"]
    /\ UNCHANGED <<files, reports, archive, executions, rows, evidence, edits>>

(* ... the archive is put in place, and the files are compared once more.  *)
WriteArchive(w) ==
    /\ job[w].pc = "packed"
    /\ archive' = job[w].inputs
    /\ job' = [job EXCEPT ![w] = [pc |-> "archived", path |-> @.path, inputs |-> @.inputs,
            preds |-> @.preds, checked |-> @.checked, bound |-> @.bound,
            passed |-> Unchanged(@.inputs)]]
    /\ UNCHANGED <<files, reports, executions, rows, evidence, edits>>

(* The report is written, also when an input has changed.  (`checked` and  *)
(* `bound` are history: the QA reports validated and bound to.)            *)
WriteRelease(w) ==
    /\ job[w].pc = "archived" /\ archive # <<>> /\ Len(executions) < MaxExecutions
    /\ executions' = Append(executions,
            [role |-> Release, inputs |-> job[w].inputs, preds |-> job[w].preds,
             passed |-> job[w].passed, outputs |-> archive,
             checked |-> job[w].checked, bound |-> job[w].bound])
    /\ reports' = [reports EXCEPT ![job[w].path] = Len(executions) + 1]
    /\ job' = [job EXCEPT ![w] = [pc |-> "released", id |-> Len(executions) + 1]]
    /\ UNCHANGED <<files, archive, rows, evidence, edits>>

(* The row is inserted and the transaction ends.                           *)
CommitPackage(w) ==
    /\ job[w].pc = "released"
    /\ rows' = rows \union {job[w].id}
    /\ job' = [job EXCEPT ![w] = NoJob]
    /\ UNCHANGED <<files, reports, archive, executions, evidence, edits>>

(* A worker is killed or refused: its transaction is rolled back, files it *)
(* has written stay.                                                       *)
Abandon(w) ==
    /\ job[w] # NoJob
    /\ job' = [job EXCEPT ![w] = NoJob]
    /\ UNCHANGED <<files, reports, archive, executions, rows, evidence, edits>>

EditFile ==
    /\ edits < MaxEdits
    /\ \E f \in Files, v \in Versions : files[f] # v /\ files' = [files EXCEPT ![f] = v]
    /\ edits' = edits + 1
    /\ UNCHANGED <<reports, archive, executions, rows, evidence, job>>

(* Somebody removes a report, or puts another one in its place.            *)
EditReport ==
    /\ edits < MaxEdits
    /\ \E path \in Paths, x \in {0} \union DOMAIN executions :
        reports[path] # x /\ reports' = [reports EXCEPT ![path] = x]
    /\ edits' = edits + 1
    /\ UNCHANGED <<files, archive, executions, rows, evidence, job>>

RemoveArchive ==
    /\ edits < MaxEdits
    /\ archive # <<>> /\ archive' = <<>>
    /\ edits' = edits + 1
    /\ UNCHANGED <<files, reports, executions, rows, evidence, job>>

Next ==
    \/ \E w \in Workers :
        \/ \E r \in Roles : \E path \in IF r \in Reporters THEN Paths ELSE {r} :
                CheckAttach(w, r, path)
        \/ CommitAttach(w)
        \/ StartTest(w) \/ GateTest(w) \/ RunCommand(w) \/ WriteReport(w) \/ RecordTest(w)
        \/ StartPackage(w) \/ CheckHandoffs(w) \/ CheckReport(w) \/ BindInputs(w)
        \/ PackInputs(w) \/ WriteArchive(w) \/ WriteRelease(w) \/ CommitPackage(w)
        \/ Abandon(w)
    \/ EditFile \/ EditReport \/ RemoveArchive

Spec == Init /\ [][Next]_vars
-----------------------------------------------------------------------------
(* What a recorded release is worth, whatever is edited, attached again or *)
(* run meanwhile: the QA report it was let through with passed, for the    *)
(* very handoffs the release was packaged for and its QA evidence names;   *)
(* and its bytes are inputs of the report it was bound to, so of that      *)
(* passing test unless the report file was replaced in the middle of       *)
(* package (devville_roles.py, evidence_state and package: the file is not *)
(* locked and not checked again).                                          *)
PackagedAsTested ==
    \A x \in rows :
        executions[x].role = Release =>
            LET qa == executions[executions[x].checked]
                bound == executions[executions[x].bound]
            IN  /\ executions[x].checked \in rows /\ qa.role = QA /\ qa.passed
                /\ \E i \in executions[x].preds :
                    /\ evidence[i].role = QA
                    /\ qa.preds = executions[x].preds \ {i} /\ evidence[i].preds = qa.preds
                /\ \A f \in DOMAIN executions[x].inputs :
                    f \in DOMAIN bound.inputs /\ bound.inputs[f] = executions[x].inputs[f]

(* Replacing a handoff invalidates every later one: right after evidence   *)
(* of a role is attached no later role counts (devville_roles.py,          *)
(* evidence_state).                                                        *)
ReplacingInvalidates ==
    [][\A r \in Roles : Latest(r)' # Latest(r) =>
            \A q \in Roles : r \in Before(q) => q \notin Valid']_vars
=============================================================================
