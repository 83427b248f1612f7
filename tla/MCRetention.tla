----------------------------- MODULE MCRetention -----------------------------
(* Policies in the runs of Retention; two hours make a day, four a month,    *)
(* and weeks do not begin with months.                                       *)
EXTENDS Retention

MCBucket(r, t) ==
  CASE r = "hourly" -> t
    [] r = "daily" -> t \div 2
    [] r = "weekly" -> (t + 1) \div 3
    [] r = "monthly" -> t \div 4
    [] r = "yearly" -> t \div 5

LOCAL Off == [within |-> None, last |-> None, keep |-> [r \in Rules |-> None]]
LOCAL Keep(p, r, n) == [p EXCEPT !.keep[r] = n]
NoRetention == [policy |-> [l \in Labels |-> Off], horizon |-> 0, steps |-> {}]
LOCAL For(p, q) == [policy |-> [l \in Labels |-> IF l = "a" THEN p ELSE q], horizon |-> 5, steps |-> {1, 2}]

MCRetentions ==
  {For(Keep(Keep([Off EXCEPT !.last = 1], "daily", 2), "monthly", 2), Off),
   For(Keep(Keep(Off, "weekly", 2), "yearly", 2), [Off EXCEPT !.within = Timespan(1, "h")]),
   For(Keep([Off EXCEPT !.last = 0], "hourly", 3), Keep(Off, "daily", 0)),
   For(Keep(Off, "daily", 1), [Off EXCEPT !.last = 1, !.within = Timespan(2, "q")])}
=============================================================================
