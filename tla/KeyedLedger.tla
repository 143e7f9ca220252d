----------------------------- MODULE KeyedLedger -----------------------------
(***************************************************************************)
(* What the TRACE-0 / Chronos ledger gives the components built on it:     *)
(* RCPChronos.observe_once records a semantic event key at most once per   *)
(* engine.  Every process keeps the history it loaded when it started      *)
(* (known) and never reads the file again, so a process is "in sync" only  *)
(* until somebody else appends: an append by a process that is not in sync *)
(* carries a stale sequence and parent hash and leaves a file that no      *)
(* process can load any more.  The Chronos module implements this one.     *)
(***************************************************************************)
CONSTANT Procs

VARIABLES
    recorded,   \* the event keys on the lines of the JSONL file
    intact,     \* the file as it stands would load
    open,       \* the processes that hold a loaded ledger
    known,      \* per process: the keys in its in-memory history
    insync      \* the processes whose in-memory history is the file's

ledgerVars == <<recorded, intact, open, known, insync>>

LedgerInit ==
    /\ recorded = {}
    /\ intact = TRUE
    /\ open = {}
    /\ known = [p \in Procs |-> {}]
    /\ insync = {}

(* ChronosLedger(path): load and verify the file, or refuse to start.      *)
OpenLedger(p) ==
    /\ p \notin open
    /\ intact
    /\ open' = open \union {p}
    /\ known' = [known EXCEPT ![p] = recorded]
    /\ insync' = insync \union {p}
    /\ UNCHANGED <<recorded, intact>>

CloseLedgerKept(p) ==                     \* mutant: the memory is kept
    /\ p \in open
    /\ open' = open \ {p}
    /\ UNCHANGED <<recorded, intact, known, insync>>

(* The process exits or is killed: its memory is gone, the file stays.     *)
CloseLedger(p) ==
    /\ p \in open
    /\ open' = open \ {p}
    /\ known' = [known EXCEPT ![p] = {}]
    /\ insync' = insync \ {p}
    /\ UNCHANGED <<recorded, intact>>

(* An event whose key the process has not seen is appended and written.    *)
AppendKey(p, k) ==
    /\ p \in open
    /\ k \notin known[p]
    /\ recorded' = recorded \union {k}
    /\ known' = [known EXCEPT ![p] = @ \union {k}]
    /\ intact' = (intact /\ p \in insync)
    /\ insync' = insync \intersect {p}
    /\ UNCHANGED open

(* observe_once: a key in the process's own history is not recorded again. *)
ObserveOnce(p, k) ==
    \/ AppendKey(p, k)
    \/ /\ p \in open
       /\ k \in known[p]
       /\ UNCHANGED ledgerVars

(* The event entered the in-memory history but its line was not written.   *)
LoseKey(p, k) ==
    /\ p \in open
    /\ k \notin known[p]
    /\ known' = [known EXCEPT ![p] = @ \union {k}]
    /\ insync' = insync \ {p}
    /\ UNCHANGED <<recorded, intact, open>>

LedgerNext(Keys) ==
    \E p \in Procs :
        \/ OpenLedger(p)
        \/ CloseLedger(p)
        \/ \E k \in Keys : ObserveOnce(p, k) \/ LoseKey(p, k)

LedgerTypeOK(Keys) ==
    /\ recorded \subseteq Keys
    /\ intact \in BOOLEAN
    /\ open \subseteq Procs
    /\ known \in [Procs -> SUBSET Keys]
    /\ insync \subseteq open
=============================================================================
