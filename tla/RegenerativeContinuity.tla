----------------------- MODULE RegenerativeContinuity -----------------------
(***************************************************************************)
(* Victor regenerative continuity (VRC): the lifecycle gate over external  *)
(* effects, recovery capsules cut into two data shards and one XOR parity  *)
(* shard, the files they are written to one by one, and the recovery of a  *)
(* fresh process from whatever files are left.                             *)
(*                                                                         *)
(* Abstractions.  The canonical bytes of a capsule are a short bit string, *)
(* different for every capsule, and stand for its digest too: a recovery   *)
(* set is named by them.  A history is the sequence of the external        *)
(* effects it records.  RECONSTRUCTING and VERIFYING are left within one   *)
(* call of recover and are not states between steps.                       *)
(***************************************************************************)
EXTENDS Naturals, Sequences, FiniteSets

CONSTANTS
    Payloads,    \* bytes a capsule may have
    Foreign,     \* bytes of a capsule of another Victor, or of none
    MaxEffects,  \* bound: external effects
    MaxDamage,   \* bound: shards lost, corrupted or miswritten
    MaxKills     \* bound: kills of the process

ASSUME VRCAssumption ==
    /\ \A b \in Payloads \union Foreign : b \in Seq({0, 1}) /\ Len(b) > 0
    /\ Payloads \intersect Foreign = {} /\ IsFiniteSet(Foreign)
    /\ {MaxEffects, MaxDamage, MaxKills} \subseteq Nat

VARIABLES
    state,     \* ResilienceState of the process
    ledger,    \* the Chronos history of the process
    sealed,    \* by its bytes: the history and the genome of each capsule
    newest,    \* the bytes of the last capsule sealed; <<>> before
    unwritten, \* shards write_recovery_set_atomic has still to write
    files,     \* recovery shards on disk
    world,     \* external effects that happened, in order
    used       \* how much of the bounds was used

vrcVars == <<state, ledger, sealed, newest, unwritten, files, world, used>>

States == {"ACTIVE", "CRYPTOBIOSIS", "RECOVERED", "DEGRADED", "HALTED"}
Nothing == <<>>

Xor(a, b) == [i \in DOMAIN a |-> (a[i] + b[i]) % 2]

(* encode_capsule_shards: the halves of the padded bytes and their parity. *)
HalfSizeDown(b) == Len(b) \div 2                   \* mutant: rounded down
HalfSize(b) == (Len(b) + 1) \div 2
Padded(b) == b \o [i \in 1..(2 * HalfSize(b) - Len(b)) |-> 0]
Half(b, k) == SubSeq(Padded(b), k * HalfSize(b) + 1, (k + 1) * HalfSize(b))
Raw(b, index) == IF index = 2 THEN Xor(Half(b, 0), Half(b, 1)) ELSE Half(b, index)
Shard(b, index) == [set |-> b, index |-> index, raw |-> Raw(b, index), valid |-> TRUE]
Shards(b) == {Shard(b, index) : index \in 0..2}

(* _valid_shard_groups: shards whose own digest is right, by set; two that *)
(* disagree on one index spoil the set.                                    *)
ValidShards(b) == {s \in files : s.set = b /\ s.valid}
Conflicted(b) ==
    \E s, t \in ValidShards(b) : s.index = t.index /\ s.raw # t.raw

(* _is_reconstructible.                                                    *)
Reconstructible(b) ==
    ~Conflicted(b) /\ Cardinality({s.index : s \in ValidShards(b)}) >= 2

Candidates == {b \in DOMAIN sealed : Reconstructible(b)}

(* The bytes of any two valid shards, cut to the original size.            *)
Joined(b) ==
    LET at(index) == (CHOOSE s \in ValidShards(b) : s.index = index).raw
        has == {s.index : s \in ValidShards(b)}
        first == IF 0 \in has THEN at(0) ELSE Xor(at(1), at(2))
        second == IF 1 \in has THEN at(1) ELSE Xor(at(0), at(2))
    IN  SubSeq(first \o second, 1, Len(b))

AnyQuorum == Candidates # {}                       \* mutant: not only one
OneQuorum == Cardinality(Candidates) = 1

AnyGenome(b) == TRUE                               \* mutant: not compared
OwnGenome(b) == sealed[b].own

(* decode_capsule_shards and verify_capsule against the own genome.        *)
Recoverable(b) ==
    /\ OneQuorum /\ b \in Candidates
    /\ Joined(b) = b
    /\ OwnGenome(b)

(* A process with no past, or one that replaces a dead one and waits for   *)
(* its recovery; the shards of another Victor may be around.               *)
VRCInit ==
    /\ state = "ACTIVE"
    /\ ledger = <<>>
    /\ newest = Nothing
    /\ unwritten = {}
    /\ \E others \in SUBSET Foreign :
        /\ sealed = [b \in others |-> [history |-> <<>>, own |-> FALSE]]
        /\ files = UNION {Shards(b) : b \in others}
    /\ world = <<>>
    /\ used = [damage |-> 0, kills |-> 0]

(* external_effects_allowed, then an effect and its event.                 *)
EffectsAllowed == state = "ACTIVE"

Effect ==
    /\ EffectsAllowed
    /\ Len(world) < MaxEffects
    /\ world' = Append(world, Len(world) + 1)
    /\ ledger' = Append(ledger, Len(world) + 1)
    /\ UNCHANGED <<state, sealed, newest, unwritten, files, used>>

(* enter_cryptobiosis with build_capsule and encode_capsule_shards, and    *)
(* the call of write_recovery_set_atomic.                                  *)
EnterCryptobiosis ==
    /\ state = "ACTIVE"
    /\ \E b \in Payloads \ DOMAIN sealed :
        /\ sealed' = [c \in DOMAIN sealed \union {b} |->
                IF c = b THEN [history |-> ledger, own |-> TRUE] ELSE sealed[c]]
        /\ newest' = b
        /\ unwritten' = Shards(b)
    /\ state' = "CRYPTOBIOSIS"
    /\ UNCHANGED <<ledger, files, world, used>>

(* enter_cryptobiosis cannot build or encode the capsule.                  *)
FailCryptobiosis ==
    /\ state = "ACTIVE"
    /\ state' = "HALTED"
    /\ UNCHANGED <<ledger, sealed, newest, unwritten, files, world, used>>

(* write_recovery_set_atomic: one shard, in order of index.                *)
WriteShard ==
    /\ unwritten # {}
    /\ \E s \in unwritten :
        /\ \A t \in unwritten : s.index <= t.index
        /\ unwritten' = unwritten \ {s}
        /\ files' = files \union {s}
    /\ UNCHANGED <<state, ledger, sealed, newest, world, used>>

(* mark_degraded from ACTIVE.                                              *)
MarkDegraded ==
    /\ state = "ACTIVE"
    /\ state' = "DEGRADED"
    /\ UNCHANGED <<ledger, sealed, newest, unwritten, files, world, used>>

MayRecover == state \in {"CRYPTOBIOSIS", "DEGRADED", "HALTED"} /\ unwritten = {}

(* recover over the shards on disk.                                        *)
Recover ==
    /\ MayRecover
    /\ \E b \in DOMAIN sealed :
        /\ Recoverable(b)
        /\ ledger' = sealed[b].history
    /\ state' = "RECOVERED"
    /\ UNCHANGED <<sealed, newest, unwritten, files, world, used>>

FailRecovery ==
    /\ MayRecover
    /\ ~\E b \in DOMAIN sealed : Recoverable(b)
    /\ state' = "HALTED"
    /\ UNCHANGED <<ledger, sealed, newest, unwritten, files, world, used>>

Reactivate ==
    /\ state = "RECOVERED"
    /\ state' = "ACTIVE"
    /\ UNCHANGED <<ledger, sealed, newest, unwritten, files, world, used>>

(* The process dies; a replacement is made to recover its continuity.      *)
Kill ==
    /\ used.kills < MaxKills
    /\ used' = [used EXCEPT !.kills = @ + 1]
    /\ state' = "CRYPTOBIOSIS"
    /\ ledger' = <<>>
    /\ unwritten' = {}
    /\ UNCHANGED <<sealed, newest, files, world>>

(* A shard is lost, damaged so that its digest shows it, or written again  *)
(* with other bytes and their digest, in its place or beside it.           *)
Damage ==
    /\ used.damage < MaxDamage
    /\ used' = [used EXCEPT !.damage = @ + 1]
    /\ \E s \in files :
        LET other == [s EXCEPT !.raw[1] = 1 - @]
        IN  files' \in {files \ {s}, (files \ {s}) \union {[s EXCEPT !.valid = FALSE]},
                        (files \ {s}) \union {other}, files \union {other}}
    /\ UNCHANGED <<state, ledger, sealed, newest, unwritten, world>>

VRCNext ==
    \/ Effect
    \/ EnterCryptobiosis
    \/ FailCryptobiosis
    \/ WriteShard
    \/ MarkDegraded
    \/ Recover
    \/ FailRecovery
    \/ Reactivate
    \/ Kill
    \/ Damage

VRCSpec == VRCInit /\ [][VRCNext]_vrcVars

-----------------------------------------------------------------------------
Histories == Seq(1..MaxEffects)

VRCTypeOK ==
    /\ state \in States
    /\ ledger \in Histories /\ world \in Histories
    /\ DOMAIN sealed \subseteq Payloads \union Foreign
    /\ \A b \in DOMAIN sealed : sealed[b].history \in Histories /\ sealed[b].own \in BOOLEAN
    /\ newest = Nothing \/ newest \in DOMAIN sealed
    /\ \A s \in files \union unwritten :
            /\ s.set \in DOMAIN sealed /\ s.index \in 0..2 /\ s.valid \in BOOLEAN
            /\ s.raw \in Seq({0, 1}) /\ 2 * Len(s.raw) >= Len(s.set)

Extends(long, short) ==
    Len(short) <= Len(long) /\ SubSeq(long, 1, Len(short)) = short

(* "External effects require active verified continuity": a process that   *)
(* acts, or is about to, carries the history of a capsule this Victor has  *)
(* sealed, bit for bit, and what it did since; whatever shards were lost,  *)
(* damaged, mixed with those of other sets or of another Victor.  Before   *)
(* its first recovery that is the history it began with.                   *)
ResumesSealed ==
    state \in {"ACTIVE", "RECOVERED"} =>
        \/ used.kills = 0 /\ newest = Nothing
        \/ \E b \in DOMAIN sealed : sealed[b].own /\ Extends(ledger, sealed[b].history)

(* The newest capsule survived: two of its shards are as they were written *)
(* and none of them was written over.                                      *)
NewestSurvives ==
    /\ newest # Nothing
    /\ Cardinality(Shards(newest) \intersect files) >= 2
    /\ ValidShards(newest) \subseteq Shards(newest)

(* "Unknown or ambiguous recovery fails closed", and one lost shard is     *)
(* tolerated: as long as the newest capsule survives, a recovery either    *)
(* brings back its history or stops, however many older sets, complete or  *)
(* torn, lie beside it; and it stops only for the sake of another set.     *)
NewestOrHalted ==
    [][NewestSurvives =>
        /\ Recover => ledger' = sealed[newest].history
        /\ FailRecovery => \E b \in DOMAIN sealed \ {newest} :
                                Cardinality({s \in files : s.set = b}) >= 2]_vrcVars
=============================================================================
