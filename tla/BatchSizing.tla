---------------------------- MODULE BatchSizing ----------------------------
(***************************************************************************)
(* How JsonRpcBatchProvider sizes its batches: adjustBatchSize counts the  *)
(* successes and failures reported to it and, at the end of each interval, *)
(* moves the size by one according to the success rate.  The operators     *)
(* work on a record of the three fields the function changes.              *)
(***************************************************************************)
EXTENDS Integers

CONSTANTS
  Interval,         \* batchSizeAdjustmentInterval (10 in the code)
  GrowthLimit       \* the size from which batches no longer grow (10)

ASSUME SizeAssumption ==
  /\ Interval \in Nat \ {0}
  /\ GrowthLimit \in Nat \ {0}

Counts(size, good, bad) == [size |-> size, good |-> good, bad |-> bad]

Shrunk(size) == IF size > 1 THEN size - 1 ELSE size
Grown(size)  == IF size < GrowthLimit THEN size + 1 ELSE size

(* The end of an interval: below a success rate of 0.9 the size shrinks,   *)
(* above 0.95 it grows, and the counters start again.                      *)
EndInterval(c) ==
  LET total == c.good + c.bad
      size == IF 10 * c.good < 9 * total THEN Shrunk(c.size)
              ELSE IF 20 * c.good > 19 * total THEN Grown(c.size)
              ELSE c.size
  IN  IF total % Interval = 0 THEN Counts(size, 0, 0) ELSE c

AdjustBatchSize(c, success) ==
  EndInterval(IF success THEN [c EXCEPT !.good = @ + 1]
                         ELSE [c EXCEPT !.bad = @ + 1])

(* n calls of adjustBatchSize(false) in a row, in closed form: the first   *)
(* interval ends with the successes counted so far, each later one holds   *)
(* failures only and shrinks the size by one, down to 1.                   *)
FailTimes(c, n) ==
  LET left  == Interval - (c.good + c.bad)      \* to the end of this interval
      first == EndInterval([c EXCEPT !.bad = @ + left])
      more  == (n - left) \div Interval         \* further whole intervals
      size  == IF first.size - more > 1 THEN first.size - more ELSE 1
  IN  IF n < left THEN [c EXCEPT !.bad = @ + n]
      ELSE Counts(size, 0, (n - left) % Interval)
=============================================================================
