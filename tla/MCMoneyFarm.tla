----------------------------- MODULE MCMoneyFarm -----------------------------
(* Small instances of MoneyFarm for TLC.                                   *)
EXTENDS MoneyFarm, TLC

(* scale_min_roi = 0.25 and scale_min_win_rate = 0.60, the defaults.       *)
Quarter == <<1, 4>>
ThreeFifths == <<3, 5>>

(* At any time one of two processes is between calls, or stands where it   *)
(* is about to write on the strength of what it has read.                  *)
Standing == {"off", "idle", "close", "settle", "announce", "sum",
             "cull"}
OneRunsOn ==
    \A p, q \in Procs :
        p # q => proc[p].pc \in Standing \/ proc[q].pc \in Standing

(* Nothing tells two processes, runs or provider keys apart.               *)
Interchangeable ==
    Permutations(Procs) \union Permutations(Runs) \union Permutations(Receipts)
=============================================================================
