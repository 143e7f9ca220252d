------------------------------- MODULE Chronos -------------------------------
(***************************************************************************)
(* trace0_chronos.py under the RCP adapter rcp/chronos_adapter.py: a       *)
(* hash-chained event list kept in memory by each process and appended,    *)
(* line by line, to one JSONL file.                                        *)
(*                                                                         *)
(* Abstractions.  SHA-256 is injective here: the hash of an event is the   *)
(* event's own identity, a fresh number (timestamps make every event       *)
(* distinct).  An event keeps its sequence, its parent's hash and its      *)
(* semantic key (the rcp_event_key, with the action and the entity).  The  *)
(* receipt is a function of the event and the chain below it and is not    *)
(* kept apart.  A process is killed between any two steps; the operating   *)
(* system survives, so a completed write() is not lost (the code never     *)
(* calls fsync: the loss of written lines in a power cut is not modelled). *)
(***************************************************************************)
EXTENDS Naturals, Sequences

CONSTANTS
    Procs,        \* processes that open the same ledger file
    Keys,         \* semantic event keys
    MaxEvents,    \* bound: events ever built
    MaxErrors,    \* bound: write errors
    WriteErrors   \* what a failed write may leave behind

ASSUME ChronosAssumption ==
    /\ MaxEvents \in Nat
    /\ MaxErrors \in Nat
    /\ WriteErrors \subseteq {"nothing", "partial", "unterminated"}

VARIABLES
    lines,        \* the lines of the JSONL file
    terminated,   \* the last line ends with its newline
    mem,          \* ChronosLedger._events of each process
    open,         \* processes holding a ledger
    pend,         \* the event in memory whose line is being written
    minted,       \* events built so far: the next identity
    acked,        \* identities whose receipt was returned to the caller
    failed,       \* history: identities whose own write raised
    errors        \* write errors so far

vars == <<lines, terminated, mem, open, pend, minted, acked, failed, errors>>

NoEvent == [sequence |-> 0, parent |-> 0, id |-> 0]
(* A line json.loads rejects: it fits nowhere in a chain and has no key.   *)
Torn == [sequence |-> 0, parent |-> 0, id |-> 0, key |-> "torn"]

(* last_event_hash; 0 stands for None.                                     *)
LastEventHash(log) == IF log = <<>> THEN 0 ELSE log[Len(log)].id

(* The two checks of _append.                                              *)
Appendable(log, event) ==
    /\ event.sequence = Len(log) + 1
    /\ event.parent = LastEventHash(log)

LoadAnything(file) == TRUE                        \* mutant: no verification

(* _load_jsonl: every line is parsed and appended to the ones above it.    *)
LoadableLines(file) ==
    \A i \in DOMAIN file : Appendable(SubSeq(file, 1, i - 1), file[i])

ForgetHistory(file) == <<>>                       \* mutant: file not loaded

LoadedHistory(file) == file

NeverObserved(log, key) == FALSE                  \* mutant: no deduplication

(* The scan of observe_once over the in-memory history.                    *)
Observed(log, key) == \E i \in DOMAIN log : log[i].key = key

(* Trace0Observer.observe: the event extends the history this process has. *)
BuildEvent(log, key) ==
    [sequence |-> Len(log) + 1, parent |-> LastEventHash(log),
     id |-> minted + 1, key |-> key]

(* A write to a file whose last line lacks its newline lands on that line. *)
WriteLine(event) ==
    IF terminated THEN Append(lines, event)
    ELSE [lines EXCEPT ![Len(lines)] = Torn]

Init ==
    /\ lines = <<>>
    /\ terminated = TRUE
    /\ mem = [p \in Procs |-> <<>>]
    /\ open = {}
    /\ pend = [p \in Procs |-> NoEvent]
    /\ minted = 0
    /\ acked = {}
    /\ failed = {}
    /\ errors = 0

(* ChronosLedger.__init__: load the file; a bad file raises and the        *)
(* process does not start.                                                 *)
Open(p) ==
    /\ p \notin open
    /\ LoadableLines(lines)
    /\ open' = open \union {p}
    /\ mem' = [mem EXCEPT ![p] = LoadedHistory(lines)]
    /\ UNCHANGED <<lines, terminated, pend, minted, acked, failed, errors>>

(* observe_once with a new key: _append extends the memory first.          *)
Observe(p, key) ==
    /\ p \in open
    /\ pend[p] = NoEvent
    /\ ~Observed(mem[p], key)
    /\ minted < MaxEvents
    /\ LET event == BuildEvent(mem[p], key)
       IN  /\ Appendable(mem[p], event)
           /\ mem' = [mem EXCEPT ![p] = Append(@, event)]
           /\ pend' = [pend EXCEPT ![p] = event]
    /\ minted' = minted + 1
    /\ UNCHANGED <<lines, terminated, open, acked, failed, errors>>

(* ... and then writes the line; the receipt goes back to the caller.      *)
Persist(p) ==
    /\ pend[p] # NoEvent
    /\ lines' = WriteLine(pend[p])
    /\ terminated' = TRUE
    /\ acked' = acked \union {pend[p].id}
    /\ pend' = [pend EXCEPT ![p] = NoEvent]
    /\ UNCHANGED <<mem, open, minted, failed, errors>>

(* The write raises (disk full): the process keeps the event in memory and *)
(* the file has nothing of the line, a part of it, or all but its newline. *)
PersistFails(p, outcome) ==
    /\ pend[p] # NoEvent
    /\ errors < MaxErrors
    /\ errors' = errors + 1
    /\ \/ /\ outcome = "nothing"
          /\ UNCHANGED <<lines, terminated>>
       \/ /\ outcome = "partial"
          /\ lines' = WriteLine(Torn)
          /\ terminated' = FALSE
       \/ /\ outcome = "unterminated"
          /\ lines' = WriteLine(pend[p])
          /\ terminated' = FALSE
    /\ failed' = failed \union {pend[p].id}
    /\ pend' = [pend EXCEPT ![p] = NoEvent]
    /\ UNCHANGED <<mem, open, minted, acked>>

(* observe_once with a key this process has in memory: the caller gets the *)
(* receipt of the event found there, written or not.                       *)
Reobserve(p, key) ==
    /\ p \in open
    /\ pend[p] = NoEvent
    /\ \E i \in DOMAIN mem[p] :
          /\ mem[p][i].key = key
          /\ acked' = acked \union {mem[p][i].id}
    /\ UNCHANGED <<lines, terminated, mem, open, pend, minted, failed, errors>>

(* The process ends, or is killed before its pending line is written.      *)
Close(p) ==
    /\ p \in open
    /\ open' = open \ {p}
    /\ mem' = [mem EXCEPT ![p] = <<>>]
    /\ pend' = [pend EXCEPT ![p] = NoEvent]
    /\ UNCHANGED <<lines, terminated, minted, acked, failed, errors>>

Next ==
    \E p \in Procs :
        \/ Open(p)
        \/ \E key \in Keys : Observe(p, key) \/ Reobserve(p, key)
        \/ Persist(p)
        \/ \E outcome \in WriteErrors : PersistFails(p, outcome)
        \/ Close(p)

Spec == Init /\ [][Next]_vars

-----------------------------------------------------------------------------
(* A file that still loads holds no semantic event twice, whatever kills,  *)
(* restarts, failed writes and other writers it went through: that is what *)
(* observe_once is for (RCP.md:161).                                       *)
SemanticOnce ==
    LoadableLines(lines) =>
        \A i, j \in DOMAIN lines : i # j => lines[i].key # lines[j].key

(* Opening fails closed: a process that gets a ledger sees every event     *)
(* whose receipt was ever returned to any caller, by the write or by a     *)
(* later observe_once that found it in memory, except an event whose own   *)
(* write raised (its process keeps it, and hands its receipt out on a      *)
(* retry); whatever other writers did to the file in between.              *)
OpenSeesAcknowledged ==
    [][\A p \in open' \ open :
            acked \ failed \subseteq {mem'[p][i].id : i \in DOMAIN mem'[p]}]_vars

(* Refinement: the file is the set of its keys, a process's history the    *)
(* keys it has finished writing or failed to write.                        *)
SettledHistory(p) ==
    IF pend[p] = NoEvent THEN mem[p] ELSE SubSeq(mem[p], 1, Len(mem[p]) - 1)
KeysOf(log) == {log[i].key : i \in {j \in DOMAIN log : log[j] # Torn}}

Keyed == INSTANCE KeyedLedger WITH
    recorded <- KeysOf(lines),
    intact   <- LoadableLines(lines),
    open     <- open,
    known    <- [p \in Procs |-> KeysOf(SettledHistory(p))],
    insync   <- {p \in open : SettledHistory(p) = lines}

(* No write error has left a part of a line in the file.                   *)
Undamaged == terminated /\ \A i \in DOMAIN lines : lines[i] # Torn

(* The concrete ledger behaves as KeyedLedger says, for any number of      *)
(* processes, up to a write error that leaves something on the file.       *)
ImplementsKeyedLedger ==
    Keyed!LedgerInit
    /\ [][Undamaged' => Keyed!LedgerNext(Keys)]_(Keyed!ledgerVars)
=============================================================================
