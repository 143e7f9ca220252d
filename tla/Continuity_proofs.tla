-------------------------- MODULE Continuity_proofs --------------------------
(***************************************************************************)
(* Theorems about the two modules that say what survives a crash, Chronos  *)
(* and RegenerativeContinuity, for any processes, keys, write errors,      *)
(* capsules, damage and kills: a ledger file that loads tells every event  *)
(* once and every event a caller was told of, and a Victor that acts       *)
(* carries a history it has sealed.                                        *)
(***************************************************************************)
EXTENDS Chronos, RegenerativeContinuity, FiniteSetTheorems, SequenceTheorems, TLAPS

-----------------------------------------------------------------------------
(* Regenerative continuity.                                                *)
HistoriesOK ==
    /\ ledger \in Seq(Nat) /\ world \in Seq(Nat)
    /\ \A b \in DOMAIN sealed : sealed[b].history \in Seq(Nat)
    /\ used \in [damage : Nat, kills : Nat]

VRCInv == HistoriesOK /\ ResumesSealed

(* A history goes on from itself, and still does when an effect is added.  *)
LEMMA ExtendsItself ==
    ASSUME NEW h \in Seq(Nat)
    PROVE  Extends(h, h)
BY DEF Extends

LEMMA ExtendsLonger ==
    ASSUME NEW long \in Seq(Nat), NEW short \in Seq(Nat), NEW e \in Nat, Extends(long, short)
    PROVE  Extends(Append(long, e), short)
<1>1. Len(short) <= Len(Append(long, e))
    BY DEF Extends
<1>2. SubSeq(Append(long, e), 1, Len(short)) = SubSeq(long, 1, Len(short))
    BY DEF Extends
<1>3. QED
    BY <1>1, <1>2 DEF Extends

LEMMA VRCStep ==
    ASSUME VRCInv, [VRCNext]_vrcVars
    PROVE  VRCInv'
<1> USE DEF VRCInv
<1>1. CASE Effect
    <2>1. Len(world) + 1 \in Nat
        BY DEF HistoriesOK
    <2>2. /\ world' = Append(world, Len(world) + 1)
          /\ ledger' = Append(ledger, Len(world) + 1)
          /\ UNCHANGED <<state, sealed, newest, used>>
        BY <1>1 DEF Effect
    <2>3. HistoriesOK'
        BY <2>1, <2>2 DEF HistoriesOK
    <2>4. ResumesSealed'
        BY <1>1, <2>1, <2>2, ExtendsLonger DEF ResumesSealed, HistoriesOK, Effect, EffectsAllowed
    <2>5. QED
        BY <2>3, <2>4
<1>2. CASE EnterCryptobiosis
    <2>1. state' = "CRYPTOBIOSIS"
        BY <1>2 DEF EnterCryptobiosis
    <2>2. PICK b \in Payloads \ DOMAIN sealed :
              sealed' = [c \in DOMAIN sealed \union {b} |->
                  IF c = b THEN [history |-> ledger, own |-> TRUE] ELSE sealed[c]]
        BY <1>2 DEF EnterCryptobiosis
    <2>3. HistoriesOK'
        <3>1. UNCHANGED <<ledger, world, used>> /\ ledger \in Seq(Nat)
            BY <1>2 DEF EnterCryptobiosis, HistoriesOK
        <3>2. ASSUME NEW c \in DOMAIN sealed' PROVE sealed'[c].history \in Seq(Nat)
            BY <2>2, <3>1 DEF HistoriesOK
        <3>3. QED
            BY <3>1, <3>2 DEF HistoriesOK
    <2>4. QED
        BY <2>1, <2>3 DEF ResumesSealed
<1>3. CASE FailCryptobiosis \/ MarkDegraded \/ FailRecovery
    BY <1>3 DEF FailCryptobiosis, MarkDegraded, FailRecovery, HistoriesOK, ResumesSealed
<1>4. CASE WriteShard \/ Damage
    <2>1. UNCHANGED <<state, ledger, sealed, newest, world>>
        BY <1>4 DEF WriteShard, Damage
    <2>2. used' = used \/ used' = [used EXCEPT !.damage = @ + 1]
        BY <1>4 DEF WriteShard, Damage
    <2>3. used' \in [damage : Nat, kills : Nat] /\ used'.kills = used.kills
        BY <2>2 DEF HistoriesOK
    <2>4. QED
        BY <2>1, <2>3 DEF HistoriesOK, ResumesSealed
<1>5. CASE Recover
    <2>1. PICK b \in DOMAIN sealed : Recoverable(b) /\ ledger' = sealed[b].history
        BY <1>5 DEF Recover
    <2>2. sealed[b].own
        BY <2>1 DEF Recoverable, OwnGenome
    <2>3. UNCHANGED <<sealed, world, used>>
        BY <1>5 DEF Recover
    <2>4. Extends(ledger', sealed[b].history)
        BY <2>1, ExtendsItself DEF HistoriesOK
    <2>5. HistoriesOK'
        BY <2>1, <2>3 DEF HistoriesOK
    <2>6. QED
        BY <2>2, <2>3, <2>4, <2>5 DEF ResumesSealed
<1>6. CASE Reactivate
    <2>1. state = "RECOVERED" /\ UNCHANGED <<ledger, sealed, newest, world, used>>
        BY <1>6 DEF Reactivate
    <2>2. QED
        BY <2>1 DEF HistoriesOK, ResumesSealed
<1>7. CASE Kill
    <2>1. state' = "CRYPTOBIOSIS" /\ ledger' = <<>> /\ UNCHANGED <<sealed, world>>
        BY <1>7 DEF Kill
    <2>2. used' \in [damage : Nat, kills : Nat]
        BY <1>7 DEF Kill, HistoriesOK
    <2>3. QED
        BY <2>1, <2>2 DEF HistoriesOK, ResumesSealed
<1>8. CASE UNCHANGED vrcVars
    <2>1. UNCHANGED <<state, ledger, sealed, newest, world, used>>
        BY <1>8 DEF vrcVars
    <2>2. QED
        BY <2>1 DEF HistoriesOK, ResumesSealed
<1>9. QED
    BY <1>1, <1>2, <1>3, <1>4, <1>5, <1>6, <1>7, <1>8 DEF VRCNext

(* Whatever is sealed, lost, damaged, mixed, recovered or killed, external *)
(* effects follow on a history this Victor has sealed                      *)
(* (victor_regenerative_continuity.py, recover and reactivate).            *)
THEOREM ResumesSealedHolds == VRCSpec => []ResumesSealed
<1>1. VRCInit => VRCInv
    <2>1. SUFFICES ASSUME VRCInit PROVE VRCInv
        OBVIOUS
    <2>2. \A b \in DOMAIN sealed : sealed[b].history = <<>>
        BY <2>1 DEF VRCInit
    <2>3. HistoriesOK
        <3>1. ledger = <<>> /\ world = <<>> /\ used = [damage |-> 0, kills |-> 0]
            BY <2>1 DEF VRCInit
        <3>2. <<>> \in Seq(Nat) /\ [damage |-> 0, kills |-> 0] \in [damage : Nat, kills : Nat]
            OBVIOUS
        <3>3. \A b \in DOMAIN sealed : sealed[b].history \in Seq(Nat)
            BY <2>2, <3>2
        <3>4. QED
            BY <3>1, <3>2, <3>3 DEF HistoriesOK
    <2>4. ResumesSealed
        BY <2>1 DEF VRCInit, ResumesSealed
    <2>5. QED
        BY <2>3, <2>4 DEF VRCInv
<1>2. VRCInv /\ [VRCNext]_vrcVars => VRCInv'
    BY VRCStep
<1>3. VRCInv => ResumesSealed
    BY DEF VRCInv
<1>4. QED
    BY <1>1, <1>2, <1>3, PTL DEF VRCSpec

-----------------------------------------------------------------------------
(* The Chronos ledger.                                                     *)
EventType == [sequence : Nat, parent : Nat, id : Nat, key : Keys \union {Torn.key}]

(* Every event has its place and names the one before it.                  *)
Chained(log) ==
    \A i \in DOMAIN log :
        /\ log[i].sequence = i
        /\ log[i].parent = IF i = 1 THEN 0 ELSE log[i - 1].id

(* An identity stands for one event and all that came before it.           *)
Agree(a, b) ==
    \A i \in DOMAIN a, j \in DOMAIN b :
        a[i].id = b[j].id => i = j /\ \A k \in 1..i : a[k] = b[k]

KeysOnce(log) == \A i, j \in DOMAIN log : i # j => log[i].key # log[j].key

ChronosTypeOK ==
    /\ lines \in Seq(EventType) /\ terminated \in BOOLEAN
    /\ mem \in [Procs -> Seq(EventType)] /\ open \subseteq Procs
    /\ pend \in [Procs -> EventType \union {NoEvent}] /\ minted \in Nat

IdsIn(log) == {log[i].id : i \in DOMAIN log}

(* What a process has in memory it has loaded or built.                    *)
MemorySound ==
    \A p \in Procs :
        /\ Chained(mem[p]) /\ KeysOnce(mem[p])
        /\ \A i \in DOMAIN mem[p] : mem[p][i].id \in 1..minted /\ mem[p][i].key \in Keys
        /\ p \notin open => mem[p] = <<>> /\ pend[p] = NoEvent
        /\ pend[p] # NoEvent => mem[p] # <<>> /\ pend[p] = mem[p][Len(mem[p])]

(* The event that is being written is nowhere else.                        *)
PendingApart ==
    \A p \in Procs : pend[p] # NoEvent =>
        /\ \A i \in DOMAIN lines : lines[i].id # pend[p].id
        /\ \A q \in Procs \ {p} : \A i \in DOMAIN mem[q] : mem[q][i].id # pend[p].id

HistoriesAgree == \A p, q \in Procs : Agree(mem[p], mem[q])

(* What a process may hand a receipt out of is in the file, or its write   *)
(* has failed, or is still under way.                                      *)
Written(p) ==
    \A i \in DOMAIN mem[p] :
        mem[p][i].id \in IdsIn(lines) \union failed \/ (pend[p] # NoEvent /\ mem[p][i] = pend[p])

(* A file that loads is such a history too, and has what was acknowledged. *)
FileSound ==
    Chained(lines) =>
        /\ KeysOnce(lines) /\ Agree(lines, lines)
        /\ \A p \in Procs : Agree(lines, mem[p]) /\ Agree(mem[p], lines) /\ Written(p)
        /\ acked \subseteq IdsIn(lines) \union failed

LinesMinted ==
    /\ \A i \in DOMAIN lines : 
          lines[i] = Torn \/ (lines[i].id \in 1..minted /\ lines[i].key \in Keys)
    /\ ~terminated => lines # <<>>

ChronosInv ==
    /\ ChronosTypeOK
    /\ MemorySound
    /\ PendingApart
    /\ HistoriesAgree
    /\ FileSound
    /\ LinesMinted

-----------------------------------------------------------------------------
LEMMA SequenceGrows ==
    ASSUME NEW S, NEW s \in Seq(S), NEW e \in S
    PROVE  /\ Append(s, e) \in Seq(S) /\ DOMAIN s = 1..Len(s) /\ Len(s) \in Nat
           /\ Len(Append(s, e)) = Len(s) + 1
           /\ DOMAIN Append(s, e) = DOMAIN s \union {Len(s) + 1}
           /\ Len(s) + 1 \notin DOMAIN s
           /\ Append(s, e)[Len(s) + 1] = e
           /\ \A i \in DOMAIN s : Append(s, e)[i] = s[i]
OBVIOUS

LEMMA ChainShape ==
    ASSUME NEW f \in Seq(EventType)
    PROVE  LoadableLines(f) <=> Chained(f)
<1>1. ASSUME NEW i \in DOMAIN f
      PROVE  Appendable(SubSeq(f, 1, i - 1), f[i]) <=>
                /\ f[i].sequence = i
                /\ f[i].parent = IF i = 1 THEN 0 ELSE f[i - 1].id
    <2> DEFINE prefix == SubSeq(f, 1, i - 1)
    <2>1. /\ i \in Nat /\ i >= 1 /\ Len(prefix) = i - 1
          /\ i # 1 => prefix[i - 1] = f[i - 1]
        OBVIOUS
    <2>2. (prefix = <<>>) <=> (i = 1)
        BY <2>1
    <2>3. LastEventHash(prefix) = IF i = 1 THEN 0 ELSE f[i - 1].id
        BY <2>1, <2>2 DEF LastEventHash
    <2> HIDE DEF prefix
    <2>4. Appendable(prefix, f[i]) <=>
                /\ f[i].sequence = i
                /\ f[i].parent = IF i = 1 THEN 0 ELSE f[i - 1].id
        BY <2>1, <2>3 DEF Appendable
    <2>5. QED
        BY <2>4 DEF prefix
<1>2. QED
    BY <1>1 DEF LoadableLines, Chained

LEMMA ChainGrows ==
    ASSUME NEW f \in Seq(EventType), NEW e \in EventType
    PROVE  Chained(Append(f, e)) <=> Chained(f) /\ Appendable(f, e)
<1> DEFINE g == Append(f, e)
<1>1. /\ DOMAIN f = 1..Len(f) /\ Len(f) \in Nat /\ DOMAIN g = 1..(Len(f) + 1)
      /\ g[Len(f) + 1] = e /\ \A i \in 1..Len(f) : g[i] = f[i]
    BY SequenceGrows
<1>2. Appendable(f, e) <=> /\ e.sequence = Len(f) + 1
                           /\ e.parent = IF Len(f) = 0 THEN 0 ELSE f[Len(f)].id
    BY DEF Appendable, LastEventHash
<1> HIDE DEF g
<1>3. ASSUME Chained(g) PROVE Chained(f) /\ Appendable(f, e)
    <2>1. ASSUME NEW i \in 1..Len(f)
          PROVE  f[i].sequence = i /\ f[i].parent = IF i = 1 THEN 0 ELSE f[i - 1].id
        <3>1. i \in DOMAIN g /\ (i # 1 => i - 1 \in 1..Len(f))
            BY <1>1
        <3>2. QED
            BY <1>1, <1>3, <3>1 DEF Chained
    <2>2. Len(f) + 1 \in DOMAIN g /\ (Len(f) # 0 => Len(f) \in 1..Len(f))
        BY <1>1
    <2>3. /\ e.sequence = Len(f) + 1
          /\ e.parent = IF Len(f) + 1 = 1 THEN 0 ELSE g[Len(f) + 1 - 1].id
        BY <1>1, <1>3, <2>2 DEF Chained
    <2>4. Appendable(f, e)
        BY <1>1, <1>2, <2>2, <2>3
    <2>5. QED
        BY <1>1, <2>1, <2>4 DEF Chained
<1>4. ASSUME Chained(f), Appendable(f, e) PROVE Chained(g)
    <2>1. ASSUME NEW i \in DOMAIN g
          PROVE  g[i].sequence = i /\ g[i].parent = IF i = 1 THEN 0 ELSE g[i - 1].id
        <3>1. CASE i = Len(f) + 1
            BY <1>1, <1>2, <1>4, <3>1
        <3>2. CASE i \in 1..Len(f)
            <4>1. i # 1 => i - 1 \in 1..Len(f)
                BY <1>1, <3>2
            <4>2. f[i].sequence = i /\ f[i].parent = IF i = 1 THEN 0 ELSE f[i - 1].id
                BY <1>1, <1>4, <3>2 DEF Chained
            <4>3. QED
                BY <1>1, <3>2, <4>1, <4>2
        <3>3. QED
            BY <1>1, <3>1, <3>2
    <2>2. QED
        BY <2>1 DEF Chained
<1>5. QED
    BY <1>3, <1>4 DEF g

LEMMA NoTornChain ==
    ASSUME NEW f \in Seq(EventType), NEW i \in DOMAIN f, f[i] = Torn
    PROVE  ~Chained(f)
<1>1. i \in Nat /\ i >= 1
    OBVIOUS
<1>2. Torn.sequence = 0
    BY DEF Torn
<1>3. QED
    BY <1>1, <1>2 DEF Chained

LEMMA PendingEvent ==
    ASSUME ChronosInv, NEW p \in Procs, pend[p] # NoEvent
    PROVE  /\ pend[p] \in EventType /\ pend[p].id \in 1..minted /\ pend[p].key \in Keys
           /\ mem[p] \in Seq(EventType) /\ Len(mem[p]) \in DOMAIN mem[p]
           /\ pend[p] = mem[p][Len(mem[p])] /\ p \in open
<1>1. mem[p] \in Seq(EventType) /\ mem[p] # <<>> /\ pend[p] = mem[p][Len(mem[p])] /\ p \in open
    BY DEF ChronosInv, ChronosTypeOK, MemorySound
<1>2. Len(mem[p]) \in DOMAIN mem[p]
    BY <1>1
<1>3. QED
    BY <1>1, <1>2 DEF ChronosInv, ChronosTypeOK, MemorySound

(* A file that would load with the pending line is the writer's history:   *)
(* the line names its parent, and the parent all that came before.         *)
LEMMA FileContinues ==
    ASSUME ChronosInv, NEW p \in Procs, pend[p] # NoEvent,
           Chained(Append(lines, pend[p]))
    PROVE  Chained(lines) /\ Append(lines, pend[p]) = mem[p]
<1> DEFINE e == pend[p]
           n == Len(mem[p])
<1>1. lines \in Seq(EventType) /\ mem[p] \in Seq(EventType) /\ e \in EventType
      /\ n \in DOMAIN mem[p] /\ e = mem[p][n]
    BY PendingEvent DEF ChronosInv, ChronosTypeOK
<1>0a. DOMAIN mem[p] = 1..n /\ n \in Nat
    BY <1>1
<1> HIDE DEF n
<1>2. Chained(lines) /\ Appendable(lines, e)
    BY <1>1, ChainGrows
<1>3. e.sequence = n /\ e.parent = IF n = 1 THEN 0 ELSE mem[p][n - 1].id
    <2>1. Chained(mem[p])
        BY DEF ChronosInv, MemorySound
    <2>2. QED
        BY <1>1, <2>1 DEF Chained
<1>4. n \in Nat /\ n >= 1 /\ Len(lines) = n - 1
    <2>1. e.sequence = Len(lines) + 1
        BY <1>2 DEF Appendable
    <2>2. QED
        BY <1>0a, <1>1, <1>3, <2>1
<1>5. \A k \in 1..(n - 1) : lines[k] = mem[p][k]
    <2>1. CASE n = 1
        BY <2>1
    <2>2. CASE n > 1
        <3>1. lines # <<>> /\ n - 1 \in DOMAIN lines /\ n - 1 \in DOMAIN mem[p]
            <4>1. n - 1 \in 1..Len(lines) /\ n - 1 \in 1..n
                BY <1>4, <2>2
            <4>2. DOMAIN lines = 1..Len(lines) /\ DOMAIN mem[p] = 1..n
                BY <1>0a, <1>1
            <4>3. lines = <<>> => Len(lines) = 0
                OBVIOUS
            <4>4. QED
                BY <1>4, <2>2, <4>1, <4>2, <4>3
        <3>2. lines[n - 1].id = mem[p][n - 1].id
            <4>1. e.parent = lines[Len(lines)].id
                BY <1>2, <3>1 DEF Appendable, LastEventHash
            <4>2. n # 1 /\ Len(lines) = n - 1
                BY <1>4, <2>2
            <4>3. QED
                BY <1>3, <4>1, <4>2
        <3>3. Agree(lines, mem[p])
            BY <1>2 DEF ChronosInv, FileSound
        <3>4. QED
            BY <3>1, <3>2, <3>3 DEF Agree
    <2>3. QED
        BY <1>4, <2>1, <2>2
<1> HIDE DEF e
<1>6. /\ Append(lines, e) \in Seq(EventType) /\ Len(Append(lines, e)) = n
      /\ Append(lines, e)[n] = e /\ \A k \in 1..(n - 1) : Append(lines, e)[k] = lines[k]
    BY <1>1, <1>4, SequenceGrows
<1>7. \A k \in 1..n : Append(lines, e)[k] = mem[p][k]
    BY <1>1, <1>4, <1>5, <1>6
<1>8. Append(lines, e) = mem[p]
    BY <1>1, <1>6, <1>7, SeqEqual DEF n
<1>9. QED
    BY <1>2, <1>8 DEF e

(* What a write makes of the file.                                         *)
LEMMA WholeLine ==
    ASSUME ChronosInv, NEW p \in Procs, pend[p] # NoEvent, lines' = WriteLine(pend[p])
    PROVE  /\ lines' \in Seq(EventType) /\ lines' # <<>>
           /\ \A i \in DOMAIN lines' :
                \/ lines'[i] = Torn
                \/ lines'[i] = pend[p]
                \/ i \in DOMAIN lines /\ lines'[i] = lines[i]
           /\ Chained(lines') =>
                terminated /\ lines' = Append(lines, pend[p])
                /\ Chained(lines) /\ lines' = mem[p]
<1>1. lines \in Seq(EventType) /\ pend[p] \in EventType
    BY PendingEvent DEF ChronosInv, ChronosTypeOK
<1>2. Torn \in EventType
    BY DEF Torn, EventType
<1>3. CASE terminated
    <2>1. lines' = Append(lines, pend[p])
        BY <1>3 DEF WriteLine
    <2>2. QED
        BY <1>1, <1>3, <2>1, SequenceGrows, FileContinues
<1>4. CASE ~terminated
    <2>1. lines' = [lines EXCEPT ![Len(lines)] = Torn] /\ lines # <<>>
        BY <1>4 DEF WriteLine, ChronosInv, LinesMinted
    <2>2. /\ lines' \in Seq(EventType) /\ Len(lines) \in DOMAIN lines' /\ lines' # <<>>
          /\ lines'[Len(lines)] = Torn /\ DOMAIN lines' = DOMAIN lines
          /\ \A i \in DOMAIN lines : i # Len(lines) => lines'[i] = lines[i]
        BY <1>1, <1>2, <2>1
    <2>3. QED
        BY <2>2, NoTornChain
<1>5. QED
    BY <1>3, <1>4

LEMMA TornLine ==
    ASSUME ChronosInv, lines' = WriteLine(Torn)
    PROVE  /\ lines' \in Seq(EventType) /\ lines' # <<>> /\ ~Chained(lines')
           /\ \E i \in DOMAIN lines' : lines'[i] = Torn
           /\ \A i \in DOMAIN lines' :
                lines'[i] = Torn \/ (i \in DOMAIN lines /\ lines'[i] = lines[i])
<1>1. lines \in Seq(EventType) /\ Torn \in EventType
    BY DEF ChronosInv, ChronosTypeOK, Torn, EventType
<1>2. CASE terminated
    <2>1. lines' = Append(lines, Torn)
        BY <1>2 DEF WriteLine
    <2>2. /\ lines' \in Seq(EventType) /\ Len(lines) + 1 \in DOMAIN lines'
          /\ lines'[Len(lines) + 1] = Torn /\ lines' # <<>>
          /\ \A i \in DOMAIN lines' :
                lines'[i] = Torn \/ (i \in DOMAIN lines /\ lines'[i] = lines[i])
        BY <1>1, <2>1, SequenceGrows
    <2>3. QED
        BY <2>2, NoTornChain
<1>3. CASE ~terminated
    <2>1. lines' = [lines EXCEPT ![Len(lines)] = Torn] /\ lines # <<>>
        BY <1>3 DEF WriteLine, ChronosInv, LinesMinted
    <2>2. /\ lines' \in Seq(EventType) /\ Len(lines) \in DOMAIN lines' /\ lines' # <<>>
          /\ lines'[Len(lines)] = Torn /\ DOMAIN lines' = DOMAIN lines
          /\ \A i \in DOMAIN lines : i # Len(lines) => lines'[i] = lines[i]
        BY <1>1, <2>1
    <2>3. QED
        BY <2>2, NoTornChain
<1>4. QED
    BY <1>2, <1>3

-----------------------------------------------------------------------------
LEMMA ChronosParts ==
    ASSUME ChronosInv
    PROVE  /\ lines \in Seq(EventType) /\ terminated \in BOOLEAN
           /\ mem \in [Procs -> Seq(EventType)] /\ open \subseteq Procs
           /\ pend \in [Procs -> EventType \union {NoEvent}] /\ minted \in Nat
           /\ MemorySound /\ PendingApart /\ HistoriesAgree /\ FileSound /\ LinesMinted
BY DEF ChronosInv, ChronosTypeOK

LEMMA ChronosInit == Init => ChronosInv
BY DEF Init, ChronosInv, ChronosTypeOK, MemorySound, PendingApart, HistoriesAgree,
       FileSound, LinesMinted, Chained, Agree, KeysOnce, Written

LEMMA OpenStep ==
    ASSUME ChronosInv, NEW p \in Procs, Open(p)
    PROVE  ChronosInv'
<1>1. /\ p \notin open /\ Chained(lines) /\ open' = open \union {p}
      /\ mem' = [mem EXCEPT ![p] = lines]
      /\ UNCHANGED <<lines, terminated, pend, minted, acked, failed>>
    BY ChronosParts, ChainShape DEF Open, LoadedHistory
<1>2. pend[p] = NoEvent /\ mem'[p] = lines /\ \A q \in Procs : q # p => mem'[q] = mem[q]
    BY <1>1, ChronosParts DEF MemorySound
<1>3. ChronosTypeOK' /\ LinesMinted'
    BY <1>1, ChronosParts DEF ChronosTypeOK, LinesMinted
<1>4. \A i \in DOMAIN lines : lines[i].id \in 1..minted /\ lines[i].key \in Keys
    BY <1>1, ChronosParts, NoTornChain DEF LinesMinted
<1>5. KeysOnce(lines) /\ Agree(lines, lines)
      /\ \A q \in Procs : Agree(lines, mem[q]) /\ Agree(mem[q], lines)
    BY <1>1, ChronosParts DEF FileSound
<1>6. MemorySound'
    <2> SUFFICES ASSUME NEW q \in Procs
                 PROVE  /\ Chained(mem'[q]) /\ KeysOnce(mem'[q])
                        /\ \A i \in DOMAIN mem'[q] :
                              mem'[q][i].id \in 1..minted /\ mem'[q][i].key \in Keys
                        /\ q \notin open' => mem'[q] = <<>> /\ pend[q] = NoEvent
                        /\ pend[q] # NoEvent =>
                              mem'[q] # <<>> /\ pend[q] = mem'[q][Len(mem'[q])]
        BY <1>1 DEF MemorySound
    <2>1. CASE q = p
        BY <1>1, <1>2, <1>4, <1>5, <2>1
    <2>2. CASE q # p
        BY <1>1, <1>2, <2>2, ChronosParts DEF MemorySound
    <2>3. QED
        BY <2>1, <2>2
<1>7. PendingApart'
    <2> SUFFICES ASSUME NEW q \in Procs, pend[q] # NoEvent
                 PROVE  /\ \A i \in DOMAIN lines : lines[i].id # pend[q].id
                        /\ \A r \in Procs \ {q} : \A i \in DOMAIN mem'[r] :
                              mem'[r][i].id # pend[q].id
        BY <1>1 DEF PendingApart
    <2>1. \A i \in DOMAIN lines : lines[i].id # pend[q].id
        BY ChronosParts DEF PendingApart
    <2>2. ASSUME NEW r \in Procs \ {q}
          PROVE  \A i \in DOMAIN mem'[r] : mem'[r][i].id # pend[q].id
        <3>1. \A i \in DOMAIN mem[r] : mem[r][i].id # pend[q].id
            BY <2>2, ChronosParts DEF PendingApart
        <3>2. mem'[r] = lines \/ mem'[r] = mem[r]
            BY <1>2, <2>2
        <3>3. QED
            BY <2>1, <3>1, <3>2
    <2>3. QED
        BY <2>1, <2>2
<1>8. HistoriesAgree'
    BY <1>2, <1>5, ChronosParts DEF HistoriesAgree
<1>9. FileSound'
    <2>1. \A q \in Procs : Agree(lines, mem'[q]) /\ Agree(mem'[q], lines)
        BY <1>2, <1>5
    <2>2. \A q \in Procs : Written(q)'
        BY <1>1, <1>2, ChronosParts DEF FileSound, Written, IdsIn
    <2>3. acked' \subseteq IdsIn(lines') \union failed'
        BY <1>1, ChronosParts DEF FileSound
    <2>4. QED
        BY <1>1, <1>5, <2>1, <2>2, <2>3 DEF FileSound
<1>10. QED
    BY <1>3, <1>6, <1>7, <1>8, <1>9 DEF ChronosInv

(* A fresh event at the end of a history: the others know nothing of it.   *)
LEMMA AgreeLonger ==
    ASSUME NEW a \in Seq(EventType), NEW b \in Seq(EventType), NEW e \in EventType,
           Agree(a, b), \A j \in DOMAIN b : b[j].id # e.id
    PROVE  Agree(Append(a, e), b) /\ (Agree(b, a) => Agree(b, Append(a, e)))
<1> DEFINE g == Append(a, e)
<1>1. /\ DOMAIN a = 1..Len(a) /\ Len(a) \in Nat /\ DOMAIN g = 1..(Len(a) + 1)
      /\ g[Len(a) + 1] = e /\ \A i \in 1..Len(a) : g[i] = a[i]
    BY SequenceGrows
<1> HIDE DEF g
<1>2. ASSUME NEW i \in DOMAIN g, NEW j \in DOMAIN b, g[i].id = b[j].id
      PROVE  i \in DOMAIN a /\ a[i].id = b[j].id
    BY <1>1, <1>2
<1>3. ASSUME NEW i \in DOMAIN a
      PROVE  \A k \in 1..i : g[k] = a[k]
    BY <1>1
<1>4. Agree(g, b)
    BY <1>2, <1>3 DEF Agree
<1>5. ASSUME Agree(b, a) PROVE Agree(b, g)
    BY <1>2, <1>3, <1>5 DEF Agree
<1>6. QED
    BY <1>4, <1>5 DEF g

LEMMA AgreeItself ==
    ASSUME NEW a \in Seq(EventType), NEW e \in EventType,
           Agree(a, a), \A j \in DOMAIN a : a[j].id # e.id
    PROVE  Agree(Append(a, e), Append(a, e))
<1> DEFINE g == Append(a, e)
<1>1. /\ DOMAIN a = 1..Len(a) /\ Len(a) \in Nat /\ DOMAIN g = 1..(Len(a) + 1)
      /\ g[Len(a) + 1] = e /\ \A i \in 1..Len(a) : g[i] = a[i]
    BY SequenceGrows
<1> HIDE DEF g
<1>2. ASSUME NEW i \in DOMAIN g, NEW j \in DOMAIN g, g[i].id = g[j].id
      PROVE  i = j
    <2>1. CASE i \in DOMAIN a /\ j \in DOMAIN a
        BY <1>1, <1>2, <2>1 DEF Agree
    <2>2. CASE i = Len(a) + 1 \/ j = Len(a) + 1
        BY <1>1, <1>2, <2>2
    <2>3. QED
        BY <1>1, <2>1, <2>2
<1>3. QED
    BY <1>2 DEF Agree, g

LEMMA ObserveStep ==
    ASSUME ChronosInv, NEW p \in Procs, NEW key \in Keys, Observe(p, key)
    PROVE  ChronosInv'
<1> DEFINE e == BuildEvent(mem[p], key)
<1>1. /\ p \in open /\ pend[p] = NoEvent /\ ~Observed(mem[p], key)
      /\ Appendable(mem[p], e)
      /\ mem' = [mem EXCEPT ![p] = Append(mem[p], e)]
      /\ pend' = [pend EXCEPT ![p] = e] /\ minted' = minted + 1
      /\ UNCHANGED <<lines, terminated, open, acked, failed>>
    BY ChronosParts DEF Observe
<1>2. mem[p] \in Seq(EventType) /\ minted \in Nat
    BY ChronosParts
<1>3. e \in EventType /\ e.id = minted + 1 /\ e.key = key /\ e # NoEvent
    <2>1. LastEventHash(mem[p]) \in Nat
        <3>1. mem[p] # <<>> => mem[p][Len(mem[p])] \in EventType
            BY <1>2
        <3>2. QED
            BY <3>1 DEF LastEventHash, EventType
    <2>2. Len(mem[p]) + 1 \in Nat
        BY <1>2
    <2>3. QED
        BY <1>2, <2>1, <2>2 DEF BuildEvent, EventType, NoEvent
<1> HIDE DEF e
<1>4. /\ mem'[p] = Append(mem[p], e) /\ \A q \in Procs : q # p => mem'[q] = mem[q]
      /\ pend'[p] = e /\ \A q \in Procs : q # p => pend'[q] = pend[q]
    BY <1>1, ChronosParts
<1>5. /\ mem'[p] \in Seq(EventType) /\ DOMAIN mem'[p] = DOMAIN mem[p] \union {Len(mem[p]) + 1}
      /\ mem'[p][Len(mem[p]) + 1] = e /\ Len(mem'[p]) = Len(mem[p]) + 1
      /\ Len(mem[p]) + 1 \notin DOMAIN mem[p] /\ mem'[p] # <<>>
      /\ \A i \in DOMAIN mem[p] : mem'[p][i] = mem[p][i]
    BY <1>2, <1>3, <1>4, SequenceGrows
<1>6. ChronosTypeOK'
    BY <1>1, <1>2, <1>3, <1>5, ChronosParts DEF ChronosTypeOK
<1>7. \A q \in Procs : \A i \in DOMAIN mem[q] :
            mem[q][i].id \in 1..minted /\ mem[q][i].id # e.id /\ mem[q][i].key \in Keys
    BY <1>2, <1>3, ChronosParts DEF MemorySound
<1>8. \A i \in DOMAIN lines : lines[i].id \in Nat /\ lines[i].id # e.id
    <2>1. \A i \in DOMAIN lines : lines[i].id \in 0..minted
        BY <1>2, ChronosParts DEF LinesMinted, Torn
    <2>2. QED
        BY <1>2, <1>3, <2>1
<1>9. MemorySound'
    <2> SUFFICES ASSUME NEW q \in Procs
                 PROVE  /\ Chained(mem'[q]) /\ KeysOnce(mem'[q])
                        /\ \A i \in DOMAIN mem'[q] :
                              mem'[q][i].id \in 1..minted' /\ mem'[q][i].key \in Keys
                        /\ q \notin open => mem'[q] = <<>> /\ pend'[q] = NoEvent
                        /\ pend'[q] # NoEvent =>
                              mem'[q] # <<>> /\ pend'[q] = mem'[q][Len(mem'[q])]
        BY <1>1 DEF MemorySound
    <2>1. CASE q = p
        <3>1. Chained(mem[p]) /\ KeysOnce(mem[p])
            BY ChronosParts DEF MemorySound
        <3>2. Chained(mem'[p])
            BY <1>1, <1>2, <1>3, <1>4, <3>1, ChainGrows
        <3>3. \A i \in DOMAIN mem[p] : mem[p][i].key # key
            BY <1>1 DEF Observed
        <3>4. KeysOnce(mem'[p])
            BY <1>3, <1>5, <3>1, <3>3 DEF KeysOnce
        <3>5. \A i \in DOMAIN mem'[p] :
                mem'[p][i].id \in 1..minted' /\ mem'[p][i].key \in Keys
            BY <1>1, <1>2, <1>3, <1>5, <1>7
        <3>6. QED
            BY <1>1, <1>4, <1>5, <2>1, <3>2, <3>4, <3>5
    <2>2. CASE q # p
        BY <1>1, <1>2, <1>4, <2>2, ChronosParts DEF MemorySound
    <2>3. QED
        BY <2>1, <2>2
<1>10. PendingApart'
    <2> SUFFICES ASSUME NEW q \in Procs, pend'[q] # NoEvent
                 PROVE  /\ \A i \in DOMAIN lines : lines[i].id # pend'[q].id
                        /\ \A r \in Procs \ {q} : \A i \in DOMAIN mem'[r] :
                              mem'[r][i].id # pend'[q].id
        BY <1>1 DEF PendingApart
    <2>1. CASE q = p
        BY <1>4, <1>7, <1>8, <2>1
    <2>2. CASE q # p
        <3>1. pend'[q] = pend[q] /\ pend[q].id \in 1..minted
            BY <1>4, <2>2, PendingEvent
        <3>2. /\ \A i \in DOMAIN lines : lines[i].id # pend[q].id
              /\ \A r \in Procs \ {q} : \A i \in DOMAIN mem[r] : mem[r][i].id # pend[q].id
            BY <3>1, ChronosParts DEF PendingApart
        <3>3. e.id # pend[q].id
            BY <1>2, <1>3, <3>1
        <3>4. \A i \in DOMAIN mem'[p] : mem'[p][i].id # pend[q].id
            BY <1>5, <2>2, <3>2, <3>3
        <3>5. QED
            BY <1>4, <3>1, <3>2, <3>4
    <2>3. QED
        BY <2>1, <2>2
<1>11. \A q \in Procs : Agree(mem[p], mem[q]) /\ Agree(mem[q], mem[p])
    BY ChronosParts DEF HistoriesAgree
<1>12. HistoriesAgree'
    <2> SUFFICES ASSUME NEW q \in Procs, NEW r \in Procs
                 PROVE  Agree(mem'[q], mem'[r])
        BY DEF HistoriesAgree
    <2>1. CASE q = p /\ r = p
        BY <1>2, <1>3, <1>4, <1>7, <1>11, <2>1, AgreeItself
    <2>2. CASE q = p /\ r # p
        <3>1. mem[r] \in Seq(EventType) /\ mem'[r] = mem[r]
            BY <1>4, <2>2, ChronosParts
        <3>2. QED
            BY <1>2, <1>3, <1>4, <1>7, <1>11, <2>2, <3>1, AgreeLonger
    <2>3. CASE q # p /\ r = p
        <3>1. mem[q] \in Seq(EventType) /\ mem'[q] = mem[q]
            BY <1>4, <2>3, ChronosParts
        <3>2. QED
            BY <1>2, <1>3, <1>4, <1>7, <1>11, <2>3, <3>1, AgreeLonger
    <2>4. CASE q # p /\ r # p
        BY <1>4, <2>4, ChronosParts DEF HistoriesAgree
    <2>5. QED
        BY <2>1, <2>2, <2>3, <2>4
<1>13. FileSound'
    <2> SUFFICES ASSUME Chained(lines)
                 PROVE  /\ KeysOnce(lines) /\ Agree(lines, lines)
                        /\ \A q \in Procs :
                              Agree(lines, mem'[q]) /\ Agree(mem'[q], lines) /\ Written(q)'
                        /\ acked \subseteq IdsIn(lines) \union failed
        BY <1>1 DEF FileSound, IdsIn
    <2>1. /\ KeysOnce(lines) /\ Agree(lines, lines)
          /\ \A q \in Procs : Agree(lines, mem[q]) /\ Agree(mem[q], lines) /\ Written(q)
          /\ acked \subseteq IdsIn(lines) \union failed
        BY ChronosParts DEF FileSound
    <2>2. Agree(lines, mem'[p]) /\ Agree(mem'[p], lines)
        BY <1>2, <1>3, <1>4, <1>8, <2>1, ChronosParts, AgreeLonger
    <2>3. ASSUME NEW q \in Procs PROVE Written(q)'
        <3>1. CASE q # p
            BY <1>1, <1>4, <2>1, <3>1 DEF Written, IdsIn
        <3>2. CASE q = p
            <4>1. \A i \in DOMAIN mem[p] : mem[p][i].id \in IdsIn(lines) \union failed
                BY <1>1, <2>1 DEF Written
            <4>2. QED
                BY <1>1, <1>3, <1>4, <1>5, <3>2, <4>1 DEF Written, IdsIn
        <3>3. QED
            BY <3>1, <3>2
    <2>4. QED
        BY <1>4, <2>1, <2>2, <2>3
<1>14. LinesMinted'
    BY <1>1, <1>2, ChronosParts DEF LinesMinted
<1>15. QED
    BY <1>6, <1>9, <1>10, <1>12, <1>13, <1>14 DEF ChronosInv

(* A write is over: the file has torn lines, the event or what it had, and *)
(* if it still loads it is what it was or the writer's history.            *)
LEMMA WriteOver ==
    ASSUME ChronosInv, NEW p \in Procs, pend[p] # NoEvent,
           pend' = [pend EXCEPT ![p] = NoEvent], UNCHANGED <<mem, open, minted>>,
           lines' \in Seq(EventType), terminated' \in BOOLEAN, terminated' \/ lines' # <<>>,
           \A i \in DOMAIN lines' :
                \/ lines'[i] = Torn
                \/ lines'[i] = pend[p]
                \/ i \in DOMAIN lines /\ lines'[i] = lines[i],
           Chained(lines') => Chained(lines) /\ (lines' = lines \/ lines' = mem[p]),
           failed \subseteq failed',
           Chained(lines') => /\ IdsIn(lines) \subseteq IdsIn(lines')
                             /\ pend[p].id \in IdsIn(lines') \union failed',
           acked' \subseteq acked \union {pend[p].id}
    PROVE  ChronosInv'
<1>1. pend'[p] = NoEvent /\ \A q \in Procs : q # p => pend'[q] = pend[q]
    BY ChronosParts
<1>2. ChronosTypeOK'
    BY ChronosParts DEF ChronosTypeOK
<1>3. MemorySound'
    BY <1>1, ChronosParts DEF MemorySound
<1>4. PendingApart'
    <2> SUFFICES ASSUME NEW q \in Procs, pend'[q] # NoEvent
                 PROVE  /\ \A i \in DOMAIN lines' : lines'[i].id # pend'[q].id
                        /\ \A r \in Procs \ {q} : \A i \in DOMAIN mem[r] :
                              mem[r][i].id # pend'[q].id
        BY DEF PendingApart
    <2>1. q # p /\ pend'[q] = pend[q]
        BY <1>1
    <2>2. /\ \A i \in DOMAIN lines : lines[i].id # pend[q].id
          /\ \A r \in Procs \ {q} : \A i \in DOMAIN mem[r] : mem[r][i].id # pend[q].id
        BY <2>1, ChronosParts DEF PendingApart
    <2>3. pend[q].id # 0
        <3>1. pend[q].id \in 1..minted
            BY <2>1, PendingEvent
        <3>2. QED
            BY <3>1, ChronosParts
    <2>4. pend[p].id # pend[q].id
        BY <2>1, <2>2, PendingEvent
    <2>5. Torn.id = 0
        BY DEF Torn
    <2>6. QED
        BY <2>1, <2>2, <2>3, <2>4, <2>5
<1>5. HistoriesAgree'
    BY ChronosParts DEF HistoriesAgree
<1>6. FileSound'
    <2> SUFFICES ASSUME Chained(lines')
                 PROVE  /\ KeysOnce(lines') /\ Agree(lines', lines')
                        /\ \A q \in Procs :
                              Agree(lines', mem[q]) /\ Agree(mem[q], lines') /\ Written(q)'
                        /\ acked' \subseteq IdsIn(lines') \union failed'
        BY DEF FileSound, IdsIn
    <2>1. /\ KeysOnce(lines) /\ Agree(lines, lines)
          /\ \A q \in Procs : Agree(lines, mem[q]) /\ Agree(mem[q], lines) /\ Written(q)
          /\ acked \subseteq IdsIn(lines) \union failed
        BY ChronosParts DEF FileSound
    <2>2. KeysOnce(mem[p]) /\ \A q \in Procs : Agree(mem[p], mem[q]) /\ Agree(mem[q], mem[p])
        BY ChronosParts DEF MemorySound, HistoriesAgree
    <2>3. KeysOnce(lines') /\ Agree(lines', lines')
          /\ \A q \in Procs : Agree(lines', mem[q]) /\ Agree(mem[q], lines')
        BY <2>1, <2>2
    <2>4. acked' \subseteq IdsIn(lines') \union failed'
        BY <2>1
    <2>5. ASSUME NEW q \in Procs PROVE Written(q)'
        <3>1. ASSUME NEW i \in DOMAIN mem[q]
              PROVE  \/ mem[q][i].id \in IdsIn(lines') \union failed'
                     \/ pend'[q] # NoEvent /\ mem[q][i] = pend'[q]
            <4>1. CASE mem[q][i].id \in IdsIn(lines) \union failed
                BY <4>1
            <4>2. CASE pend[q] # NoEvent /\ mem[q][i] = pend[q]
                BY <1>1, <4>2
            <4>3. QED
                BY <2>1, <4>1, <4>2 DEF Written
        <3>2. QED
            BY <3>1 DEF Written, IdsIn
    <2>6. QED
        BY <2>3, <2>4, <2>5
<1>7. LinesMinted'
    BY PendingEvent, ChronosParts DEF LinesMinted
<1>8. QED
    BY <1>2, <1>3, <1>4, <1>5, <1>6, <1>7 DEF ChronosInv

(* A line that fits on the file leaves the others where they were.         *)
LEMMA LineAdded ==
    ASSUME ChronosInv, NEW p \in Procs, pend[p] # NoEvent, lines' = WriteLine(pend[p]), Chained(lines')
    PROVE  IdsIn(lines) \union {pend[p].id} \subseteq IdsIn(lines')
<1>1. lines' = Append(lines, pend[p])
    BY WholeLine
<1>2. /\ DOMAIN lines' = DOMAIN lines \union {Len(lines) + 1}
      /\ lines'[Len(lines) + 1] = pend[p]
      /\ \A i \in DOMAIN lines : lines'[i] = lines[i]
    BY <1>1, ChronosParts, PendingEvent, SequenceGrows
<1>3. \A i \in DOMAIN lines : lines[i].id \in {lines'[j].id : j \in DOMAIN lines'}
    BY <1>2
<1>4. QED
    BY <1>2, <1>3 DEF IdsIn

LEMMA PersistStep ==
    ASSUME ChronosInv, NEW p \in Procs, Persist(p)
    PROVE  ChronosInv'
<1>1. /\ pend[p] # NoEvent /\ lines' = WriteLine(pend[p]) /\ terminated' = TRUE
      /\ acked' = acked \union {pend[p].id} /\ pend' = [pend EXCEPT ![p] = NoEvent]
      /\ UNCHANGED <<mem, open, minted, failed>>
    BY DEF Persist
<1>2. QED
    BY <1>1, WholeLine, LineAdded, WriteOver

LEMMA PersistFailsStep ==
    ASSUME ChronosInv, NEW p \in Procs, NEW outcome, PersistFails(p, outcome)
    PROVE  ChronosInv'
<1>1. /\ pend[p] # NoEvent /\ pend' = [pend EXCEPT ![p] = NoEvent]
      /\ failed' = failed \union {pend[p].id} /\ UNCHANGED <<mem, open, minted, acked>>
    BY DEF PersistFails
<1>2. CASE UNCHANGED <<lines, terminated>>
    <2>1. IdsIn(lines) \subseteq IdsIn(lines')
        BY <1>2 DEF IdsIn
    <2>2. lines \in Seq(EventType) /\ terminated \in BOOLEAN /\ (terminated \/ lines # <<>>)
        BY ChronosParts DEF LinesMinted
    <2>3. QED
        BY <1>1, <1>2, <2>1, <2>2, WriteOver
<1>3. CASE lines' = WriteLine(Torn) /\ terminated' = FALSE
    <2>1. /\ lines' \in Seq(EventType) /\ lines' # <<>> /\ ~Chained(lines')
          /\ \A i \in DOMAIN lines' :
                lines'[i] = Torn \/ (i \in DOMAIN lines /\ lines'[i] = lines[i])
        BY <1>3, TornLine
    <2>2. QED
        BY <1>1, <1>3, <2>1, WriteOver
<1>4. CASE lines' = WriteLine(pend[p]) /\ terminated' = FALSE
    BY <1>1, <1>4, WholeLine, LineAdded, WriteOver
<1>5. QED
    BY <1>2, <1>3, <1>4 DEF PersistFails

LEMMA CloseStep ==
    ASSUME ChronosInv, NEW p \in Procs, Close(p)
    PROVE  ChronosInv'
<1>1. /\ open' = open \ {p} /\ mem' = [mem EXCEPT ![p] = <<>>]
      /\ pend' = [pend EXCEPT ![p] = NoEvent]
      /\ UNCHANGED <<lines, terminated, minted, acked, failed>>
    BY DEF Close
<1>2. /\ mem'[p] = <<>> /\ pend'[p] = NoEvent
      /\ \A q \in Procs : q # p => mem'[q] = mem[q] /\ pend'[q] = pend[q]
    BY <1>1, ChronosParts
<1>3. ChronosTypeOK' /\ LinesMinted'
    BY <1>1, ChronosParts DEF ChronosTypeOK, LinesMinted
<1>4. MemorySound'
    BY <1>1, <1>2, ChronosParts DEF MemorySound, Chained, KeysOnce
<1>5. PendingApart'
    BY <1>1, <1>2, ChronosParts DEF PendingApart
<1>6. \A s : Agree(<<>>, s) /\ Agree(s, <<>>)
    BY DEF Agree
<1>7. HistoriesAgree'
    BY <1>2, <1>6, ChronosParts DEF HistoriesAgree
<1>8. FileSound'
    <2>1. Chained(lines) => \A q \in Procs : Agree(lines, mem'[q]) /\ Agree(mem'[q], lines)
        BY <1>2, <1>6, ChronosParts DEF FileSound
    <2>2. Chained(lines) => \A q \in Procs : Written(q)'
        BY <1>1, <1>2, ChronosParts DEF FileSound, Written, IdsIn
    <2>3. QED
        BY <1>1, <2>1, <2>2, ChronosParts DEF FileSound, IdsIn
<1>9. QED
    BY <1>3, <1>4, <1>5, <1>7, <1>8 DEF ChronosInv

LEMMA ReobserveStep ==
    ASSUME ChronosInv, NEW p \in Procs, NEW key, Reobserve(p, key)
    PROVE  ChronosInv'
<1>1. /\ pend[p] = NoEvent
      /\ UNCHANGED <<lines, terminated, mem, open, pend, minted, failed>>
    BY DEF Reobserve
<1>2. PICK i \in DOMAIN mem[p] : acked' = acked \union {mem[p][i].id}
    BY DEF Reobserve
<1>3. FileSound'
    <2>1. ASSUME Chained(lines) PROVE acked' \subseteq IdsIn(lines) \union failed
        BY <1>1, <1>2, <2>1, ChronosParts DEF FileSound, Written
    <2>2. QED
        BY <1>1, <2>1, ChronosParts DEF FileSound, Written, IdsIn
<1>4. QED
    BY <1>1, <1>3, ChronosParts
       DEF ChronosInv, ChronosTypeOK, MemorySound, PendingApart, HistoriesAgree, LinesMinted

LEMMA ChronosStep == ChronosInv /\ [Next]_vars => ChronosInv'
<1> SUFFICES ASSUME ChronosInv, [Next]_vars
             PROVE  ChronosInv'
    OBVIOUS
<1>1. CASE Next
    BY <1>1, OpenStep, ObserveStep, ReobserveStep, PersistStep, PersistFailsStep, CloseStep DEF Next
<1>2. CASE UNCHANGED vars
    BY <1>2 DEF vars, ChronosInv, ChronosTypeOK, MemorySound, PendingApart, HistoriesAgree,
                FileSound, LinesMinted, Written, IdsIn
<1>3. QED
    BY <1>1, <1>2

LEMMA ChronosHolds == Spec => []ChronosInv
BY ChronosInit, ChronosStep, PTL DEF Spec

-----------------------------------------------------------------------------
(* A ledger file that loads tells no event twice, whoever wrote it, failed *)
(* to write it or was killed over it (RCPChronos.observe_once).            *)
THEOREM OncePerLedger == Spec => []SemanticOnce
<1>1. ChronosInv => SemanticOnce
    BY ChronosParts, ChainShape DEF SemanticOnce, FileSound, KeysOnce
<1>2. QED
    BY <1>1, ChronosHolds, PTL

(* Who opens the ledger finds every event whose receipt anybody was given, *)
(* when it was written or when it was asked for again, unless the write of *)
(* that event raised; or cannot open it (ChronosLedger.__init__,           *)
(* RCPChronos.observe_once).                                               *)
THEOREM OpeningSeesAll == Spec => OpenSeesAcknowledged
<1>1. ChronosInv /\ [Next]_vars =>
        [\A p \in open' \ open :
            acked \ failed \subseteq {mem'[p][i].id : i \in DOMAIN mem'[p]}]_vars
    <2> SUFFICES ASSUME ChronosInv, Next, NEW p \in open' \ open
                 PROVE  acked \ failed \subseteq {mem'[p][i].id : i \in DOMAIN mem'[p]}
        OBVIOUS
    <2>1. p \in Procs /\ Open(p)
        BY DEF Next, Open, Observe, Reobserve, Persist, PersistFails, Close
    <2>2. mem'[p] = lines /\ Chained(lines)
        BY <2>1, ChronosParts, ChainShape DEF Open, LoadedHistory
    <2>3. QED
        BY <2>2, ChronosParts DEF FileSound, IdsIn
<1>2. QED
    BY <1>1, ChronosHolds, PTL DEF Spec, OpenSeesAcknowledged

-----------------------------------------------------------------------------
(* The refinement.  The event that is being written is the last of its     *)
(* process's history, and everything before it is settled.                 *)
LEMMA SettledParts ==
    ASSUME ChronosInv, NEW p \in Procs
    PROVE  /\ SettledHistory(p) \in Seq(EventType)
           /\ pend[p] = NoEvent => SettledHistory(p) = mem[p]
           /\ pend[p] # NoEvent => mem[p] = Append(SettledHistory(p), pend[p])
           /\ \A i \in DOMAIN SettledHistory(p) : i \in DOMAIN mem[p] /\ SettledHistory(p)[i] = mem[p][i]
<1>1. mem[p] \in Seq(EventType)
    BY ChronosParts
<1>2. CASE pend[p] = NoEvent
    BY <1>1, <1>2 DEF SettledHistory
<1>3. CASE pend[p] # NoEvent
    <2> DEFINE n == Len(mem[p])
               s == SubSeq(mem[p], 1, n - 1)
    <2>1. pend[p] \in EventType /\ n \in DOMAIN mem[p] /\ pend[p] = mem[p][n]
        BY <1>3, PendingEvent
    <2>2. /\ s \in Seq(EventType) /\ Len(s) = n - 1 /\ n \in Nat /\ n >= 1
          /\ DOMAIN mem[p] = 1..n /\ DOMAIN s = 1..(n - 1)
          /\ \A i \in 1..(n - 1) : s[i] = mem[p][i]
        BY <1>1, <2>1
    <2>3. SettledHistory(p) = s
        BY <1>3 DEF SettledHistory
    <2>0. n = Len(mem[p])
        OBVIOUS
    <2> HIDE DEF s, n
    <2>4. /\ Append(s, pend[p]) \in Seq(EventType) /\ Len(Append(s, pend[p])) = n
          /\ Append(s, pend[p])[n] = pend[p]
          /\ \A i \in 1..(n - 1) : Append(s, pend[p])[i] = s[i]
        BY <2>1, <2>2, SequenceGrows
    <2>5. \A i \in 1..n : Append(s, pend[p])[i] = mem[p][i]
        BY <2>1, <2>2, <2>4
    <2>6. mem[p] = Append(s, pend[p])
        BY <1>1, <2>0, <2>4, <2>5, SeqEqual
    <2>7. QED
        BY <1>3, <2>2, <2>3, <2>6
<1>4. QED
    BY <1>2, <1>3

LEMMA KeysOfLonger ==
    ASSUME NEW s \in Seq(EventType), NEW e \in EventType, e # Torn
    PROVE  KeysOf(Append(s, e)) = KeysOf(s) \union {e.key}
<1> DEFINE g == Append(s, e)
<1>1. /\ DOMAIN g = DOMAIN s \union {Len(s) + 1} /\ Len(s) + 1 \notin DOMAIN s
      /\ g[Len(s) + 1] = e /\ \A i \in DOMAIN s : g[i] = s[i]
    BY SequenceGrows
<1> HIDE DEF g
<1>2. KeysOf(g) = KeysOf(s) \union {e.key}
    BY <1>1 DEF KeysOf
<1>3. QED
    BY <1>2 DEF g

LEMMA EventNotTorn ==
    ASSUME ChronosInv, NEW p \in Procs, pend[p] # NoEvent
    PROVE  pend[p] # Torn
<1>1. pend[p].id \in 1..minted /\ minted \in Nat
    BY PendingEvent, ChronosParts
<1>2. Torn.id = 0
    BY DEF Torn
<1>3. QED
    BY <1>1, <1>2

(* What the abstract step sees: the settled histories after it.            *)
LEMMA OpenIsOpenLedger ==
    ASSUME ChronosInv, NEW p \in Procs, Open(p)
    PROVE  Keyed!OpenLedger(p)
<1>1. /\ p \notin open /\ LoadableLines(lines) /\ open' = open \union {p}
      /\ mem' = [mem EXCEPT ![p] = lines]
      /\ UNCHANGED <<lines, terminated, pend, minted, acked>>
    BY DEF Open, LoadedHistory
<1>2. pend[p] = NoEvent
    BY <1>1, ChronosParts DEF MemorySound
<1>3. SettledHistory(p)' = lines /\ \A q \in Procs : q # p => SettledHistory(q)' = SettledHistory(q)
    BY <1>1, <1>2, ChronosParts DEF SettledHistory
<1>4. [q \in Procs |-> KeysOf(SettledHistory(q)')] =
        [[q \in Procs |-> KeysOf(SettledHistory(q))] EXCEPT ![p] = KeysOf(lines)]
    BY <1>3
<1>5. {q \in open' : SettledHistory(q)' = lines'} =
        {q \in open : SettledHistory(q) = lines} \union {p}
    BY <1>1, <1>3, ChronosParts
<1>6. QED
    BY <1>1, <1>4, <1>5 DEF Keyed!OpenLedger

LEMMA ObserveIsUnseen ==
    ASSUME ChronosInv, NEW p \in Procs, NEW key \in Keys, Observe(p, key)
    PROVE  UNCHANGED Keyed!ledgerVars
<1> DEFINE e == BuildEvent(mem[p], key)
           n == Len(mem[p])
<1>1. /\ pend[p] = NoEvent /\ mem' = [mem EXCEPT ![p] = Append(mem[p], e)]
      /\ pend' = [pend EXCEPT ![p] = e] /\ UNCHANGED <<lines, open>>
      /\ e.id = minted + 1 /\ NoEvent.id = 0 /\ minted \in Nat
    BY ChronosParts DEF Observe, BuildEvent, NoEvent
<1> HIDE DEF e
<1>2. /\ e # NoEvent /\ pend'[p] = e /\ mem'[p] = Append(mem[p], e)
      /\ \A q \in Procs : q # p => mem'[q] = mem[q] /\ pend'[q] = pend[q]
    BY <1>1, ChronosParts
<1>3. mem[p] \in Seq(EventType)
    BY ChronosParts
<1>4. SubSeq(Append(mem[p], e), 1, Len(Append(mem[p], e)) - 1) = mem[p]
    BY <1>3
<1>5. SettledHistory(p)' = mem[p] /\ SettledHistory(p) = mem[p]
    BY <1>1, <1>2, <1>4 DEF SettledHistory
<1>6. \A q \in Procs : SettledHistory(q)' = SettledHistory(q)
    BY <1>2, <1>5 DEF SettledHistory
<1>7. [q \in Procs |-> KeysOf(SettledHistory(q)')] = [q \in Procs |-> KeysOf(SettledHistory(q))]
    BY <1>6
<1>8. {q \in open' : SettledHistory(q)' = lines'} = {q \in open : SettledHistory(q) = lines}
    BY <1>1, <1>6, ChronosParts
<1>9. QED
    BY <1>1, <1>7, <1>8 DEF Keyed!ledgerVars

LEMMA CloseIsCloseLedger ==
    ASSUME ChronosInv, NEW p \in Procs, Close(p)
    PROVE  Keyed!CloseLedger(p)
<1>1. /\ p \in open /\ open' = open \ {p} /\ mem' = [mem EXCEPT ![p] = <<>>]
      /\ pend' = [pend EXCEPT ![p] = NoEvent] /\ UNCHANGED lines
    BY DEF Close
<1>2. SettledHistory(p)' = <<>> /\ \A q \in Procs : q # p => SettledHistory(q)' = SettledHistory(q)
    BY <1>1, ChronosParts DEF SettledHistory
<1>3. KeysOf(<<>>) = {}
    BY DEF KeysOf
<1>4. [q \in Procs |-> KeysOf(SettledHistory(q)')] =
        [[q \in Procs |-> KeysOf(SettledHistory(q))] EXCEPT ![p] = {}]
    BY <1>2, <1>3
<1>5. {q \in open' : SettledHistory(q)' = lines'} =
        {q \in open : SettledHistory(q) = lines} \ {p}
    BY <1>1, <1>2, ChronosParts
<1>6. QED
    BY <1>1, <1>4, <1>5 DEF Keyed!CloseLedger

(* The write ended, one way or the other: the event is settled, and its    *)
(* key is one its process had not.                                         *)
LEMMA WriteSettles ==
    ASSUME ChronosInv, NEW p \in Procs, pend[p] # NoEvent,
           pend' = [pend EXCEPT ![p] = NoEvent], UNCHANGED <<mem, open>>
    PROVE  /\ SettledHistory(p)' = mem[p] /\ mem[p] = Append(SettledHistory(p), pend[p])
           /\ \A q \in Procs : q # p => SettledHistory(q)' = SettledHistory(q)
           /\ p \in open /\ pend[p].key \notin KeysOf(SettledHistory(p))
           /\ [q \in Procs |-> KeysOf(SettledHistory(q)')] =
                [[q \in Procs |-> KeysOf(SettledHistory(q))]
                    EXCEPT ![p] = @ \union {pend[p].key}]
<1> DEFINE s == SettledHistory(p)
           e == pend[p]
<1>1. s \in Seq(EventType) /\ e \in EventType /\ e # Torn /\ p \in open
      /\ mem[p] = Append(s, e) /\ mem[p] \in Seq(EventType)
    BY SettledParts, PendingEvent, EventNotTorn
<1>2. pend'[p] = NoEvent /\ \A q \in Procs : q # p => pend'[q] = pend[q]
    BY ChronosParts
<1>3. SettledHistory(p)' = mem[p] /\ \A q \in Procs : q # p => SettledHistory(q)' = SettledHistory(q)
    BY <1>2 DEF SettledHistory
<1> HIDE DEF s, e
<1>4. /\ DOMAIN mem[p] = DOMAIN s \union {Len(s) + 1} /\ Len(s) + 1 \notin DOMAIN s
      /\ mem[p][Len(s) + 1] = e /\ \A i \in DOMAIN s : mem[p][i] = s[i]
    BY <1>1, SequenceGrows
<1>5. e.key \notin KeysOf(s)
    <2>1. KeysOnce(mem[p])
        BY ChronosParts DEF MemorySound
    <2>2. \A i \in DOMAIN s : s[i].key # e.key
        BY <1>4, <2>1 DEF KeysOnce
    <2>3. QED
        BY <2>2 DEF KeysOf
<1>6. KeysOf(SettledHistory(p)') = KeysOf(s) \union {e.key}
    BY <1>1, <1>3, KeysOfLonger
<1>7. [q \in Procs |-> KeysOf(SettledHistory(q)')] =
        [[q \in Procs |-> KeysOf(SettledHistory(q))] EXCEPT ![p] = @ \union {e.key}]
    BY <1>3, <1>6 DEF s
<1>8. QED
    BY <1>1, <1>3, <1>5, <1>7 DEF s, e

LEMMA PersistIsAppendKey ==
    ASSUME ChronosInv, NEW p \in Procs, Persist(p), Undamaged'
    PROVE  Keyed!AppendKey(p, pend[p].key)
<1> DEFINE s == SettledHistory(p)
           e == pend[p]
<1>1. /\ pend[p] # NoEvent /\ lines' = WriteLine(e)
      /\ pend' = [pend EXCEPT ![p] = NoEvent] /\ UNCHANGED <<mem, open>>
    BY DEF Persist
<1>2. lines \in Seq(EventType) /\ e \in EventType /\ e # Torn
      /\ s \in Seq(EventType) /\ mem[p] \in Seq(EventType)
    BY <1>1, ChronosParts, PendingEvent, EventNotTorn, SettledParts
<1>3. terminated
    <2> SUFFICES ASSUME ~terminated
                 PROVE  FALSE
        OBVIOUS
    <2>1. lines' = [lines EXCEPT ![Len(lines)] = Torn] /\ lines # <<>>
        BY <1>1, ChronosParts DEF WriteLine, LinesMinted
    <2>2. Len(lines) \in DOMAIN lines' /\ lines'[Len(lines)] = Torn
        BY <1>2, <2>1
    <2>3. QED
        BY <2>2 DEF Undamaged
<1>4. lines' = Append(lines, e)
    BY <1>1, <1>3 DEF WriteLine
<1>5. /\ SettledHistory(p)' = mem[p] /\ mem[p] = Append(s, e)
      /\ \A q \in Procs : q # p => SettledHistory(q)' = SettledHistory(q)
      /\ p \in open /\ e.key \notin KeysOf(s)
      /\ [q \in Procs |-> KeysOf(SettledHistory(q)')] =
            [[q \in Procs |-> KeysOf(SettledHistory(q))] EXCEPT ![p] = @ \union {e.key}]
    BY <1>1, WriteSettles
<1>6. KeysOf(lines') = KeysOf(lines) \union {e.key}
    BY <1>2, <1>4, KeysOfLonger
<1>7. s = lines <=> lines' = mem[p]
    BY <1>2, <1>4, <1>5, AppendInjective
<1> HIDE DEF s, e
<1>8. LoadableLines(lines') <=> LoadableLines(lines) /\ s = lines
    <2>1. lines' \in Seq(EventType)
        BY <1>2, <1>4, SequenceGrows
    <2>2. ASSUME Chained(lines') PROVE Chained(lines) /\ s = lines
        BY <1>1, <1>4, <1>7, <2>2, WholeLine DEF e
    <2>3. ASSUME Chained(lines), s = lines PROVE Chained(lines')
        BY <1>7, <2>3, ChronosParts DEF MemorySound
    <2>4. QED
        BY <1>2, <2>1, <2>2, <2>3, ChainShape
<1>9. \A q \in Procs : q # p => SettledHistory(q)' # lines'
    <2> SUFFICES ASSUME NEW q \in Procs, q # p, SettledHistory(q) = lines'
                 PROVE  FALSE
        BY <1>5
    <2>1. Len(lines) + 1 \in DOMAIN lines' /\ lines'[Len(lines) + 1] = e
        BY <1>2, <1>4, SequenceGrows
    <2>2. Len(lines) + 1 \in DOMAIN mem[q] /\ mem[q][Len(lines) + 1] = e
        BY <2>1, SettledParts
    <2>3. QED
        BY <1>1, <2>2, ChronosParts DEF PendingApart, e
<1>10. {q \in open' : SettledHistory(q)' = lines'} =
        {q \in open : SettledHistory(q) = lines} \intersect {p}
    BY <1>1, <1>5, <1>7, <1>9, ChronosParts DEF s
<1>11. LoadableLines(lines') =
            (LoadableLines(lines) /\ p \in {q \in open : SettledHistory(q) = lines})
    BY <1>5, <1>8 DEF LoadableLines, s
<1>12. QED
    BY <1>1, <1>5, <1>6, <1>10, <1>11 DEF Keyed!AppendKey, s, e

LEMMA PersistFailsIsLoseKey ==
    ASSUME ChronosInv, NEW p \in Procs, NEW outcome, PersistFails(p, outcome), Undamaged'
    PROVE  Keyed!LoseKey(p, pend[p].key)
<1> DEFINE s == SettledHistory(p)
           e == pend[p]
<1>1. /\ pend[p] # NoEvent /\ UNCHANGED lines
      /\ pend' = [pend EXCEPT ![p] = NoEvent] /\ UNCHANGED <<mem, open>>
    BY DEF PersistFails, Undamaged
<1>2. s \in Seq(EventType) /\ e \in EventType
    BY <1>1, PendingEvent, SettledParts
<1>3. /\ SettledHistory(p)' = mem[p] /\ mem[p] = Append(s, e)
      /\ \A q \in Procs : q # p => SettledHistory(q)' = SettledHistory(q)
      /\ p \in open /\ e.key \notin KeysOf(s)
      /\ [q \in Procs |-> KeysOf(SettledHistory(q)')] =
            [[q \in Procs |-> KeysOf(SettledHistory(q))] EXCEPT ![p] = @ \union {e.key}]
    BY <1>1, WriteSettles
<1>4. mem[p] # lines
    <2>1. Len(s) + 1 \in DOMAIN mem[p] /\ mem[p][Len(s) + 1] = e
        BY <1>2, <1>3, SequenceGrows
    <2>2. QED
        BY <1>1, <2>1, ChronosParts DEF PendingApart
<1> HIDE DEF s, e
<1>5. {q \in open' : SettledHistory(q)' = lines'} =
        {q \in open : SettledHistory(q) = lines} \ {p}
    BY <1>1, <1>3, <1>4, ChronosParts
<1>6. QED
    BY <1>1, <1>3, <1>5 DEF Keyed!LoseKey, s, e

(* The JSONL chain with its in-memory histories is the keyed ledger the    *)
(* engine relies on, for any number of processes, until a write error      *)
(* leaves a part of a line behind (RCPChronos over trace0_chronos.py).     *)
THEOREM KeyedLedgerImplemented == Spec => ImplementsKeyedLedger
<1>1. Init => Keyed!LedgerInit
    <2> SUFFICES ASSUME Init
                 PROVE  Keyed!LedgerInit
        OBVIOUS
    <2>1. /\ lines = <<>> /\ mem = [p \in Procs |-> <<>>] /\ open = {}
          /\ pend = [p \in Procs |-> NoEvent]
        BY DEF Init
    <2>2. \A p \in Procs : SettledHistory(p) = <<>>
        BY <2>1 DEF SettledHistory
    <2>3. KeysOf(<<>>) = {} /\ LoadableLines(<<>>)
        BY DEF KeysOf, LoadableLines
    <2>4. [p \in Procs |-> KeysOf(SettledHistory(p))] = [p \in Procs |-> {}]
        BY <2>2, <2>3
    <2>5. QED
        BY <2>1, <2>3, <2>4 DEF Keyed!LedgerInit
<1>2. ChronosInv /\ [Next]_vars =>
        [Undamaged' => Keyed!LedgerNext(Keys)]_(Keyed!ledgerVars)
    <2> SUFFICES ASSUME ChronosInv, [Next]_vars
                 PROVE  [Undamaged' => Keyed!LedgerNext(Keys)]_(Keyed!ledgerVars)
        OBVIOUS
    <2>1. CASE UNCHANGED vars
        BY <2>1 DEF vars, Keyed!ledgerVars, SettledHistory
    <2>2. ASSUME NEW p \in Procs, Open(p)
          PROVE  Keyed!LedgerNext(Keys)
        BY <2>2, OpenIsOpenLedger DEF Keyed!LedgerNext
    <2>3. ASSUME NEW p \in Procs, NEW key \in Keys, Observe(p, key)
          PROVE  UNCHANGED Keyed!ledgerVars
        BY <2>3, ObserveIsUnseen
    <2>4. ASSUME NEW p \in Procs, Persist(p), Undamaged'
          PROVE  Keyed!LedgerNext(Keys)
        <3>1. pend[p].key \in Keys
            BY <2>4, PendingEvent DEF Persist
        <3>2. QED
            BY <2>4, <3>1, PersistIsAppendKey DEF Keyed!LedgerNext, Keyed!ObserveOnce
    <2>5. ASSUME NEW p \in Procs, NEW outcome, PersistFails(p, outcome), Undamaged'
          PROVE  Keyed!LedgerNext(Keys)
        <3>1. pend[p].key \in Keys
            BY <2>5, PendingEvent DEF PersistFails
        <3>2. QED
            BY <2>5, <3>1, PersistFailsIsLoseKey DEF Keyed!LedgerNext
    <2>6. ASSUME NEW p \in Procs, Close(p)
          PROVE  Keyed!LedgerNext(Keys)
        BY <2>6, CloseIsCloseLedger DEF Keyed!LedgerNext
    <2>7. ASSUME NEW p \in Procs, NEW key \in Keys, Reobserve(p, key)
          PROVE  UNCHANGED Keyed!ledgerVars
        BY <2>7 DEF Reobserve, Keyed!ledgerVars, SettledHistory
    <2>8. QED
        BY <2>1, <2>2, <2>3, <2>4, <2>5, <2>6, <2>7 DEF Next
<1>3. QED
    BY <1>1, <1>2, ChronosHolds, PTL DEF Spec, ImplementsKeyedLedger

-----------------------------------------------------------------------------
(* Regenerative continuity: the shards.                                    *)
Bits == Seq({0, 1})
Capsules == {b \in Bits : Len(b) > 0}
ShardType == [set : DOMAIN sealed, index : 0..2, raw : Bits, valid : BOOLEAN]

LEMMA CapsuleBytes == Payloads \union Foreign \subseteq Capsules
BY VRCAssumption DEF Capsules, Bits

LEMMA XorOfBits ==
    ASSUME NEW a \in Bits, NEW b \in Bits, Len(a) = Len(b)
    PROVE  Xor(a, b) \in Bits /\ Len(Xor(a, b)) = Len(a)
           /\ Xor(b, Xor(a, b)) = a /\ Xor(a, Xor(a, b)) = b
<1> DEFINE x == Xor(a, b)
           n == Len(a)
<1>1. n \in Nat /\ DOMAIN a = 1..n /\ DOMAIN b = 1..n
    BY DEF Bits
<1>2. \A i \in 1..n : a[i] \in {0, 1} /\ b[i] \in {0, 1}
    BY <1>1 DEF Bits
<1>3. x = [i \in 1..n |-> (a[i] + b[i]) % 2]
    BY <1>1 DEF Xor
<1> HIDE DEF n, x
<1>4. \A i \in 1..n : x[i] \in {0, 1} /\ (b[i] + x[i]) % 2 = a[i] /\ (a[i] + x[i]) % 2 = b[i]
    BY <1>2, <1>3
<1>5. x \in Bits /\ Len(x) = n
    BY <1>1, <1>3, <1>4 DEF Bits
<1>6. Xor(b, x) = [i \in 1..n |-> a[i]] /\ Xor(a, x) = [i \in 1..n |-> b[i]]
    BY <1>1, <1>4 DEF Xor
<1>7. a = [i \in 1..n |-> a[i]] /\ b = [i \in 1..n |-> b[i]]
    BY <1>1 DEF Bits
<1>8. QED
    BY <1>5, <1>6, <1>7 DEF x, n

(* Both halves of a capsule have the same size, and together give it back. *)
LEMMA Halves ==
    ASSUME NEW b \in Capsules
    PROVE  /\ Half(b, 0) \in Bits /\ Half(b, 1) \in Bits
           /\ Len(Half(b, 0)) = HalfSize(b) /\ Len(Half(b, 1)) = HalfSize(b)
           /\ HalfSize(b) \in Nat /\ 2 * HalfSize(b) >= Len(b) /\ Len(b) > 0
           /\ SubSeq(Half(b, 0) \o Half(b, 1), 1, Len(b)) = b
<1> DEFINE h == HalfSize(b)
           pad == [i \in 1..(2 * h - Len(b)) |-> 0]
           whole == b \o pad
<1>1. b \in Bits /\ Len(b) \in Nat /\ Len(b) > 0
    BY DEF Capsules, Bits
<1>2. h \in Nat /\ 2 * h >= Len(b) /\ h >= 1
    BY <1>1 DEF HalfSize
<1> HIDE DEF h
<1>3. pad \in Bits /\ Len(pad) = 2 * h - Len(b)
    BY <1>1, <1>2 DEF Bits
<1> HIDE DEF pad
<1>4. /\ whole \in Bits /\ Len(whole) = 2 * h
      /\ SubSeq(whole, 1, Len(b)) = b
    <2>0. /\ whole \in Bits /\ Len(whole) = Len(b) + Len(pad)
          /\ \A i \in 1..Len(b) + Len(pad) :
                whole[i] = IF i <= Len(b) THEN b[i] ELSE pad[i - Len(b)]
        BY <1>1, <1>3, ConcatProperties DEF Bits
    <2> HIDE DEF whole
    <2>1. \A i \in 1..Len(b) : whole[i] = b[i]
        BY <1>1, <1>2, <1>3, <2>0
    <2>2. Len(whole) = 2 * h
        BY <1>1, <1>2, <1>3, <2>0
    <2>3. SubSeq(whole, 1, Len(b)) \in Bits /\ Len(SubSeq(whole, 1, Len(b))) = Len(b)
          /\ \A i \in 1..Len(b) : SubSeq(whole, 1, Len(b))[i] = whole[i]
        BY <1>1, <1>2, <2>0, <2>2 DEF Bits
    <2>4. SubSeq(whole, 1, Len(b)) = b
        BY <1>1, <2>1, <2>3, SeqEqual DEF Bits
    <2>5. QED
        BY <2>0, <2>2, <2>4
<1>5. Padded(b) = whole
    BY DEF Padded, whole, pad, h
<1> HIDE DEF whole
<1>6. Half(b, 0) = SubSeq(whole, 1, h) /\ Half(b, 1) = SubSeq(whole, h + 1, 2 * h)
    <2>1. 0 * h + 1 = 1 /\ (0 + 1) * h = h /\ 1 * h + 1 = h + 1 /\ (1 + 1) * h = 2 * h
        BY <1>2
    <2>2. QED
        BY <1>5, <2>1 DEF Half, h
<1>7. /\ SubSeq(whole, 1, h) \in Bits /\ Len(SubSeq(whole, 1, h)) = h
      /\ SubSeq(whole, h + 1, 2 * h) \in Bits /\ Len(SubSeq(whole, h + 1, 2 * h)) = h
    BY <1>2, <1>4 DEF Bits
<1>8. SubSeq(whole, 1, h) \o SubSeq(whole, h + 1, 2 * h) = SubSeq(whole, 1, 2 * h)
    BY <1>2, <1>4, ConcatAdjacentSubSeq DEF Bits
<1>9. SubSeq(whole, 1, 2 * h) = whole
    BY <1>4 DEF Bits
<1>10. QED
    BY <1>1, <1>2, <1>4, <1>6, <1>7, <1>8, <1>9 DEF h

LEMMA ShardBytes ==
    ASSUME NEW b \in Capsules, NEW index \in 0..2
    PROVE  Raw(b, index) \in Bits /\ Len(Raw(b, index)) \in Nat /\ 2 * Len(Raw(b, index)) >= Len(b)
<1>1. index \in {0, 1, 2}
    OBVIOUS
<1>2. /\ Half(b, 0) \in Bits /\ Half(b, 1) \in Bits
      /\ Len(Half(b, 0)) = HalfSize(b) /\ Len(Half(b, 1)) = HalfSize(b)
      /\ HalfSize(b) \in Nat /\ 2 * HalfSize(b) >= Len(b)
    BY Halves
<1>3. Raw(b, index) \in Bits /\ Len(Raw(b, index)) = HalfSize(b)
    BY <1>1, <1>2, XorOfBits DEF Raw
<1>4. QED
    BY <1>2, <1>3

LEMMA TwoElements ==
    ASSUME NEW S, IsFiniteSet(S)
    PROVE  Cardinality(S) >= 2 <=> \E x, y \in S : x # y
<1>1. Cardinality(S) \in Nat
    BY FS_CardinalityType
<1>2. ASSUME Cardinality(S) >= 2 PROVE \E x, y \in S : x # y
    <2>1. PICK x : x \in S
        BY <1>2, FS_EmptySet
    <2>2. S # {x}
        BY <1>2, FS_Singleton
    <2>3. QED
        BY <2>1, <2>2
<1>3. ASSUME NEW x \in S, NEW y \in S, x # y PROVE Cardinality(S) >= 2
    <2>1. Cardinality(S) # 0 /\ Cardinality(S) # 1
        BY <1>3, FS_EmptySet, FS_Singleton
    <2>2. QED
        BY <1>1, <2>1
<1>4. QED
    BY <1>2, <1>3

(* The disk holds finitely many whole shards, and the newest capsule is of *)
(* this Victor.                                                            *)
VRCSound ==
    /\ VRCTypeOK
    /\ files \union unwritten \subseteq ShardType
    /\ IsFiniteSet(files) /\ IsFiniteSet(DOMAIN sealed)
    /\ newest # Nothing => newest \in DOMAIN sealed /\ sealed[newest].own

LEMMA ShardsOf ==
    ASSUME NEW b \in Capsules
    PROVE  /\ IsFiniteSet(Shards(b))
           /\ \A s \in Shards(b) :
                /\ s \in [set : {b}, index : 0..2, raw : Bits, valid : BOOLEAN]
                /\ s.raw = Raw(b, s.index) /\ 2 * Len(s.raw) >= Len(b)
<1>1. Shards(b) = {} \union {Shard(b, 0)} \union {Shard(b, 1)} \union {Shard(b, 2)}
    <2>1. 0..2 = {0, 1, 2}
        OBVIOUS
    <2>2. QED
        BY <2>1 DEF Shards
<1>2. IsFiniteSet(Shards(b))
    <2>1. \A S, x : IsFiniteSet(S) => IsFiniteSet(S \union {x})
        BY FS_AddElement
    <2>2. IsFiniteSet({} \union {Shard(b, 0)})
        BY <2>1, FS_EmptySet
    <2>3. IsFiniteSet({} \union {Shard(b, 0)} \union {Shard(b, 1)})
        BY <2>1, <2>2
    <2>4. QED
        BY <1>1, <2>1, <2>3
<1>3. ASSUME NEW s \in Shards(b)
      PROVE  /\ s \in [set : {b}, index : 0..2, raw : Bits, valid : BOOLEAN]
             /\ s.raw = Raw(b, s.index) /\ 2 * Len(s.raw) >= Len(b)
    <2>1. PICK index \in 0..2 : s = Shard(b, index)
        BY DEF Shards
    <2>2. Raw(b, index) \in Bits /\ 2 * Len(Raw(b, index)) >= Len(b)
        BY ShardBytes
    <2>3. QED
        BY <2>1, <2>2 DEF Shard
<1>4. QED
    BY <1>2, <1>3

LEMMA VRCTypes ==
    ASSUME VRCSound
    PROVE  /\ state \in States /\ ledger \in Histories /\ world \in Histories
           /\ DOMAIN sealed \subseteq Capsules /\ DOMAIN sealed \subseteq Payloads \union Foreign
           /\ \A b \in DOMAIN sealed : sealed[b].history \in Histories /\ sealed[b].own \in BOOLEAN
           /\ newest = Nothing \/ newest \in DOMAIN sealed
           /\ \A s \in files \union unwritten : s \in ShardType /\ 2 * Len(s.raw) >= Len(s.set)
           /\ IsFiniteSet(files) /\ IsFiniteSet(DOMAIN sealed)
           /\ newest # Nothing => newest \in DOMAIN sealed /\ sealed[newest].own
BY CapsuleBytes DEF VRCSound, VRCTypeOK

(* The same said of the next state: what a step has to show.               *)
LEMMA SoundFrom ==
    ASSUME state \in States, ledger \in Histories, world \in Histories,
           DOMAIN sealed \subseteq Payloads \union Foreign,
           \A b \in DOMAIN sealed : sealed[b].history \in Histories /\ sealed[b].own \in BOOLEAN,
           \A s \in files \union unwritten : s \in ShardType /\ 2 * Len(s.raw) >= Len(s.set),
           IsFiniteSet(files), IsFiniteSet(DOMAIN sealed),
           newest # Nothing => newest \in DOMAIN sealed /\ sealed[newest].own
    PROVE  VRCSound
BY DEF VRCSound, VRCTypeOK, ShardType, Bits

LEMMA VRCSoundInit == VRCInit => VRCSound
<1> SUFFICES ASSUME VRCInit
             PROVE  VRCSound
    OBVIOUS
<1>1. PICK others \in SUBSET Foreign :
        /\ sealed = [b \in others |-> [history |-> <<>>, own |-> FALSE]]
        /\ files = UNION {Shards(b) : b \in others}
    BY DEF VRCInit
<1>2. state = "ACTIVE" /\ ledger = <<>> /\ newest = Nothing /\ unwritten = {} /\ world = <<>>
    BY DEF VRCInit
<1>3. <<>> \in Histories /\ "ACTIVE" \in States
    BY DEF Histories, States
<1>4. IsFiniteSet(others) /\ DOMAIN sealed = others
    BY <1>1, FS_Subset, VRCAssumption
<1>5. \A b \in others : b \in Capsules
    BY CapsuleBytes
<1>6. IsFiniteSet(files)
    <2> DEFINE sets == {Shards(b) : b \in others}
               f == [b \in others |-> Shards(b)]
    <2>1. f \in Surjection(others, sets)
        BY DEF Surjection
    <2>2. IsFiniteSet(sets)
        BY <1>4, <2>1, FS_Surjection
    <2>3. \A S \in sets : IsFiniteSet(S)
        BY <1>5, ShardsOf
    <2> HIDE DEF sets
    <2>4. IsFiniteSet(UNION sets)
        BY <2>2, <2>3, FS_UNION
    <2>5. QED
        BY <1>1, <2>4 DEF sets
<1>7. \A s \in files : s \in ShardType /\ 2 * Len(s.raw) >= Len(s.set)
    <2> SUFFICES ASSUME NEW s \in files
                 PROVE  s \in ShardType /\ 2 * Len(s.raw) >= Len(s.set)
        OBVIOUS
    <2>1. PICK b \in others : s \in Shards(b)
        BY <1>1
    <2>2. s \in [set : {b}, index : 0..2, raw : Bits, valid : BOOLEAN]
          /\ 2 * Len(s.raw) >= Len(b)
        BY <1>5, <2>1, ShardsOf
    <2>3. QED
        BY <1>4, <2>2 DEF ShardType
<1>8. \A b \in DOMAIN sealed : sealed[b].history \in Histories /\ sealed[b].own \in BOOLEAN
    BY <1>1, <1>3
<1>9. QED
    BY <1>2, <1>3, <1>4, <1>6, <1>7, <1>8, SoundFrom

LEMMA VRCSoundStep == VRCSound /\ [VRCNext]_vrcVars => VRCSound'
<1>0. (/\ state \in States /\ ledger \in Histories /\ world \in Histories
       /\ DOMAIN sealed \subseteq Payloads \union Foreign
       /\ \A b \in DOMAIN sealed : sealed[b].history \in Histories /\ sealed[b].own \in BOOLEAN
       /\ \A s \in files \union unwritten : s \in ShardType /\ 2 * Len(s.raw) >= Len(s.set)
       /\ IsFiniteSet(files) /\ IsFiniteSet(DOMAIN sealed)
       /\ newest # Nothing => newest \in DOMAIN sealed /\ sealed[newest].own)' => VRCSound'
    BY SoundFrom, PTL
<1> SUFFICES ASSUME VRCSound, [VRCNext]_vrcVars
             PROVE  VRCSound'
    OBVIOUS
<1>t. {"ACTIVE", "CRYPTOBIOSIS", "RECOVERED", "DEGRADED", "HALTED"} = States /\ <<>> \in Histories
    BY DEF States, Histories
<1>1. CASE Effect
    <2>1. /\ UNCHANGED <<state, sealed, newest, unwritten, files>> /\ Len(world) < MaxEffects
          /\ world' = Append(world, Len(world) + 1) /\ ledger' = Append(ledger, Len(world) + 1)
        BY <1>1 DEF Effect
    <2>2. Len(world) + 1 \in 1..MaxEffects
        BY <2>1, VRCTypes, VRCAssumption DEF Histories
    <2>3. world' \in Histories /\ ledger' \in Histories
        BY <2>1, <2>2, VRCTypes DEF Histories
    <2>4. QED
        BY <1>0, <2>1, <2>3, VRCTypes DEF ShardType
<1>2. CASE EnterCryptobiosis
    <2>1. /\ state' = "CRYPTOBIOSIS" /\ UNCHANGED <<ledger, files, world>>
        BY <1>2 DEF EnterCryptobiosis
    <2>2. PICK b \in Payloads \ DOMAIN sealed :
            /\ sealed' = [c \in DOMAIN sealed \union {b} |->
                    IF c = b THEN [history |-> ledger, own |-> TRUE] ELSE sealed[c]]
            /\ newest' = b /\ unwritten' = Shards(b)
        BY <1>2 DEF EnterCryptobiosis
    <2>3. DOMAIN sealed' = DOMAIN sealed \union {b} /\ b \in Capsules
        BY <2>2, CapsuleBytes
    <2>4. \A s \in (files \union unwritten)' : s \in ShardType' /\ 2 * Len(s.raw) >= Len(s.set)
        <3>1. \A s \in files : s \in ShardType' /\ 2 * Len(s.raw) >= Len(s.set)
            BY <2>3, VRCTypes DEF ShardType
        <3>2. ASSUME NEW s \in Shards(b) PROVE s \in ShardType' /\ 2 * Len(s.raw) >= Len(s.set)
            <4>1. s \in [set : {b}, index : 0..2, raw : Bits, valid : BOOLEAN]
                  /\ 2 * Len(s.raw) >= Len(b)
                BY <2>3, ShardsOf
            <4>2. QED
                BY <2>3, <4>1 DEF ShardType
        <3>3. QED
            BY <2>1, <2>2, <3>1, <3>2
    <2>5. IsFiniteSet(DOMAIN sealed')
        BY <2>3, VRCTypes, FS_AddElement
    <2>6. \A c \in DOMAIN sealed' : sealed'[c].history \in Histories /\ sealed'[c].own \in BOOLEAN
        BY <2>2, <2>3, VRCTypes
    <2>7. newest' \in DOMAIN sealed' /\ sealed'[newest'].own
        BY <2>2
    <2>8. QED
        BY <1>0, <1>t, <2>1, <2>2, <2>3, <2>4, <2>5, <2>6, <2>7, VRCTypes
<1>3. CASE FailCryptobiosis \/ MarkDegraded \/ FailRecovery \/ Reactivate
    <2>1. state' \in States /\ UNCHANGED <<ledger, sealed, newest, unwritten, files, world>>
        BY <1>3, <1>t DEF FailCryptobiosis, MarkDegraded, FailRecovery, Reactivate
    <2>2. QED
        BY <1>0, <2>1, VRCTypes DEF ShardType
<1>4. CASE WriteShard
    <2>1. UNCHANGED <<state, ledger, sealed, newest, world>>
        BY <1>4 DEF WriteShard
    <2>2. PICK s \in unwritten : unwritten' = unwritten \ {s} /\ files' = files \union {s}
        BY <1>4 DEF WriteShard
    <2>3. IsFiniteSet(files') /\ (files \union unwritten)' \subseteq files \union unwritten
        BY <2>2, VRCTypes, FS_AddElement
    <2>4. QED
        BY <1>0, <2>1, <2>3, VRCTypes DEF ShardType
<1>5. CASE Recover
    <2>1. PICK b \in DOMAIN sealed : ledger' = sealed[b].history
        BY <1>5 DEF Recover
    <2>2. state' \in States /\ UNCHANGED <<sealed, newest, unwritten, files, world>>
        BY <1>5, <1>t DEF Recover
    <2>3. QED
        BY <1>0, <2>1, <2>2, VRCTypes DEF ShardType
<1>6. CASE Kill
    <2>1. state' \in States /\ ledger' = <<>> /\ unwritten' = {} /\ UNCHANGED <<sealed, newest, files, world>>
        BY <1>6, <1>t DEF Kill
    <2>2. QED
        BY <1>0, <1>t, <2>1, VRCTypes DEF ShardType
<1>7. CASE Damage
    <2>1. UNCHANGED <<state, ledger, sealed, newest, unwritten, world>>
        BY <1>7 DEF Damage
    <2>2. PICK s \in files :
            files' \in {files \ {s}, (files \ {s}) \union {[s EXCEPT !.valid = FALSE]},
                        (files \ {s}) \union {[s EXCEPT !.raw[1] = 1 - @]},
                        files \union {[s EXCEPT !.raw[1] = 1 - @]}}
        BY <1>7 DEF Damage
    <2>3. s \in ShardType /\ 2 * Len(s.raw) >= Len(s.set) /\ s.set \in Capsules
        BY VRCTypes DEF ShardType
    <2>4. /\ [s EXCEPT !.valid = FALSE] \in ShardType
          /\ [s EXCEPT !.valid = FALSE].set = s.set /\ [s EXCEPT !.valid = FALSE].raw = s.raw
        BY <2>3 DEF ShardType
    <2>5. /\ [s EXCEPT !.raw[1] = 1 - @] \in ShardType
          /\ [s EXCEPT !.raw[1] = 1 - @].set = s.set
          /\ Len([s EXCEPT !.raw[1] = 1 - @].raw) = Len(s.raw)
        <3> DEFINE r == s.raw
                   r1 == [r EXCEPT ![1] = 1 - @]
        <3>1. [s EXCEPT !.raw[1] = 1 - @] = [s EXCEPT !.raw = r1]
            BY <2>3 DEF ShardType
        <3>2. r \in Bits /\ Len(r) \in Nat /\ Len(r) >= 1
            BY <2>3 DEF ShardType, Capsules, Bits
        <3> HIDE DEF r
        <3>3. r1 \in Bits /\ Len(r1) = Len(r)
            BY <3>2 DEF Bits
        <3> HIDE DEF r1
        <3>4. QED
            BY <2>3, <3>1, <3>3 DEF ShardType, r
    <2>6. \A t \in files' : t \in ShardType /\ 2 * Len(t.raw) >= Len(t.set)
        BY <2>2, <2>3, <2>4, <2>5, VRCTypes
    <2>7. IsFiniteSet(files')
        <3>1. IsFiniteSet(files) /\ IsFiniteSet(files \ {s})
            BY VRCTypes, FS_Subset
        <3>2. \A x : IsFiniteSet(files \union {x}) /\ IsFiniteSet((files \ {s}) \union {x})
            BY <3>1, FS_AddElement
        <3>3. QED
            BY <2>2, <3>1, <3>2
    <2>8. QED
        BY <1>0, <2>1, <2>6, <2>7, VRCTypes DEF ShardType
<1>8. CASE UNCHANGED vrcVars
    <2>1. UNCHANGED <<state, ledger, sealed, newest, unwritten, files, world>>
        BY <1>8 DEF vrcVars
    <2>2. QED
        BY <1>0, <2>1, VRCTypes DEF ShardType
<1>9. QED
    BY <1>1, <1>2, <1>3, <1>4, <1>5, <1>6, <1>7, <1>8 DEF VRCNext

LEMMA VRCSoundHolds == VRCSpec => []VRCSound
BY VRCSoundInit, VRCSoundStep, PTL DEF VRCSpec

(* Whatever is lost, damaged or written over, every shard on the disk is   *)
(* large enough for its half of the capsule it names, and every history is *)
(* a list of effects (victor_regenerative_continuity.py).                  *)
THEOREM VRCTyped == VRCSpec => []VRCTypeOK
<1>1. VRCSound => VRCTypeOK
    BY DEF VRCSound
<1>2. QED
    BY <1>1, VRCSoundHolds, PTL

-----------------------------------------------------------------------------
LEMMA IndexSets == \A T : T \subseteq 0..2 => IsFiniteSet(T)
<1>1. IsFiniteSet(0..2)
    <2>1. 0 \in Int /\ 2 \in Int
        OBVIOUS
    <2>2. QED
        BY <2>1, FS_Interval, Zenon
<1>2. QED
    BY <1>1, FS_Subset

(* Two valid shards of a set, as they were written, are enough.            *)
LEMMA SetSurvives ==
    ASSUME VRCSound, NEW b \in DOMAIN sealed,
           Cardinality(Shards(b) \intersect files) >= 2, ValidShards(b) \subseteq Shards(b)
    PROVE  Reconstructible(b) /\ Joined(b) = b
<1> DEFINE has == {s.index : s \in ValidShards(b)}
<1>1. b \in Capsules
    BY VRCTypes
<1>2. \A s \in ValidShards(b) : s.index \in 0..2 /\ s.raw = Raw(b, s.index)
    BY <1>1, ShardsOf
<1>3. ~Conflicted(b)
    BY <1>2 DEF Conflicted
<1>4. PICK s \in Shards(b) \intersect files, t \in Shards(b) \intersect files : s # t
    <2>1. IsFiniteSet(Shards(b) \intersect files)
        BY VRCTypes, FS_Subset
    <2>2. QED
        BY <2>1, TwoElements
<1>5. s \in ValidShards(b) /\ t \in ValidShards(b) /\ s.index # t.index
    <2>1. PICK i \in 0..2 : s = Shard(b, i)
        BY <1>4 DEF Shards
    <2>2. PICK j \in 0..2 : t = Shard(b, j)
        BY <1>4 DEF Shards
    <2>3. /\ s.set = b /\ s.valid /\ s.index = i
          /\ t.set = b /\ t.valid /\ t.index = j
        BY <2>1, <2>2 DEF Shard
    <2>4. i # j
        BY <1>4, <2>1, <2>2
    <2>5. QED
        BY <1>4, <2>3, <2>4 DEF ValidShards
<1>6. has \subseteq 0..2 /\ s.index \in has /\ t.index \in has
    BY <1>2, <1>5
<1>7. Cardinality(has) >= 2
    <2> HIDE DEF has
    <2>1. IsFiniteSet(has)
        BY <1>6, IndexSets
    <2>2. QED
        BY <1>5, <1>6, <2>1, TwoElements
<1>8. Reconstructible(b)
    BY <1>3, <1>7 DEF Reconstructible
<1> DEFINE at(index) == (CHOOSE r \in ValidShards(b) : r.index = index).raw
           first == IF 0 \in has THEN at(0) ELSE Xor(at(1), at(2))
           second == IF 1 \in has THEN at(1) ELSE Xor(at(0), at(2))
<1>9. \A index \in has : at(index) = Raw(b, index)
    <2> SUFFICES ASSUME NEW index \in has
                 PROVE  at(index) = Raw(b, index)
        OBVIOUS
    <2>1. \E r \in ValidShards(b) : r.index = index
        OBVIOUS
    <2>2. QED
        BY <1>2, <2>1
<1>10. Joined(b) = SubSeq(first \o second, 1, Len(b))
    BY DEF Joined
<1>11. (0 \in has /\ 1 \in has) \/ (0 \in has /\ 2 \in has) \/ (1 \in has /\ 2 \in has)
    BY <1>5, <1>6
<1>12. /\ Raw(b, 0) = Half(b, 0) /\ Raw(b, 1) = Half(b, 1)
       /\ Raw(b, 2) = Xor(Half(b, 0), Half(b, 1))
    BY DEF Raw
<1>13. /\ Xor(Raw(b, 1), Raw(b, 2)) = Half(b, 0)
       /\ Xor(Raw(b, 0), Raw(b, 2)) = Half(b, 1)
    BY <1>1, <1>12, Halves, XorOfBits
<1> HIDE DEF has
<1>0. /\ 0 \in has => at(0) = Raw(b, 0)
      /\ 1 \in has => at(1) = Raw(b, 1)
      /\ 2 \in has => at(2) = Raw(b, 2)
    BY <1>9
<1> HIDE DEF at
<1>14. first = Half(b, 0) /\ second = Half(b, 1)
    BY <1>0, <1>11, <1>12, <1>13
<1> HIDE DEF first, second
<1>15. Joined(b) = b
    BY <1>1, <1>10, <1>14, Halves
<1>16. QED
    BY <1>8, <1>15

(* While two shards of the newest capsule are as they were written, and    *)
(* none is written over, a recovery brings its history back or stops, and  *)
(* stops only because another set has two shards on the disk as well       *)
(* (decode_capsule_shards: exactly one quorum).                            *)
THEOREM NewestComesBack == VRCSpec => NewestOrHalted
<1>1. VRCSound =>
        (NewestSurvives =>
            /\ Recover => ledger' = sealed[newest].history
            /\ FailRecovery => \E b \in DOMAIN sealed \ {newest} :
                                    Cardinality({s \in files : s.set = b}) >= 2)
    <2> SUFFICES ASSUME VRCSound, NewestSurvives
                 PROVE  /\ Recover => ledger' = sealed[newest].history
                        /\ FailRecovery => \E b \in DOMAIN sealed \ {newest} :
                                    Cardinality({s \in files : s.set = b}) >= 2
        OBVIOUS
    <2>1. newest \in DOMAIN sealed /\ sealed[newest].own
        BY VRCTypes DEF NewestSurvives
    <2>2. newest \in Candidates /\ Joined(newest) = newest
        BY <2>1, SetSurvives DEF NewestSurvives, Candidates
    <2>3. IsFiniteSet(Candidates)
        BY VRCTypes, FS_Subset DEF Candidates
    <2>4. OneQuorum <=> Candidates = {newest}
        BY <2>2, <2>3, FS_Singleton DEF OneQuorum
    <2>5. ASSUME Recover PROVE ledger' = sealed[newest].history
        BY <2>4, <2>5 DEF Recover, Recoverable
    <2>6. ASSUME FailRecovery
          PROVE  \E b \in DOMAIN sealed \ {newest} : Cardinality({s \in files : s.set = b}) >= 2
        <3>1. ~Recoverable(newest)
            BY <2>1, <2>6 DEF FailRecovery
        <3>2. PICK b \in Candidates : b # newest
            BY <2>1, <2>2, <2>4, <3>1 DEF Recoverable, OwnGenome
        <3>3. b \in DOMAIN sealed /\ Cardinality({s.index : s \in ValidShards(b)}) >= 2
            BY DEF Candidates, Reconstructible
        <3>4. IsFiniteSet(ValidShards(b)) /\ IsFiniteSet({s \in files : s.set = b})
            BY VRCTypes, FS_Subset DEF ValidShards
        <3>5. IsFiniteSet({s.index : s \in ValidShards(b)})
            <4>1. \A s \in ValidShards(b) : s.index \in 0..2
                BY VRCTypes DEF ValidShards, ShardType
            <4>2. {s.index : s \in ValidShards(b)} \subseteq 0..2
                BY <4>1
            <4>3. QED
                BY <4>2, IndexSets
        <3>6. \E s, t \in ValidShards(b) : s.index # t.index
            BY <3>3, <3>5, TwoElements
        <3>7. \E s, t \in {s \in files : s.set = b} : s # t
            BY <3>6 DEF ValidShards
        <3>8. Cardinality({s \in files : s.set = b}) >= 2
            BY <3>4, <3>7, TwoElements
        <3>9. QED
            BY <3>2, <3>3, <3>8
    <2>7. QED
        BY <2>5, <2>6
<1>2. QED
    BY <1>1, VRCSoundHolds, PTL DEF VRCSpec, NewestOrHalted
=============================================================================
