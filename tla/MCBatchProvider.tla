--------------------------- MODULE MCBatchProvider ---------------------------
(***************************************************************************)
(* Instances of BatchProvider for TLC.                                     *)
(***************************************************************************)
EXTENDS BatchProvider

CONSTANTS c1, c2, c3, c4

MCCalls == {c1, c2, c3}
MCChainIdCalls == {c1}
MCTwoChainIdCalls == {c1, c2}
MCFourCalls == {c1, c2, c3, c4}

-----------------------------------------------------------------------------
(* FailTimes against its reference, n calls of adjustBatchSize(false) made *)
(* one by one, with the interval and the limit of the code: the two agree, *)
(* and the size stays usable, from every state of the counters.            *)
Code == INSTANCE BatchSizing WITH Interval <- 10, GrowthLimit <- 10

MaxStart == 12
MaxRun   == 25

RepeatedFailure[n \in 0..MaxRun, c \in [size : 1..MaxStart, good : 0..9, bad : 0..9]] ==
  IF n = 0 THEN c
  ELSE Code!AdjustBatchSize(RepeatedFailure[n - 1, c], FALSE)

ASSUME FailTimesIsRepeatedFailure ==
  \A size \in 1..MaxStart, good, bad \in 0..9 :
    good + bad < 10 =>
      \A n \in 0..MaxRun :
        LET c == Code!Counts(size, good, bad) IN
        /\ Code!FailTimes(c, n) = RepeatedFailure[n, c]
        /\ Code!FailTimes(c, n).size \in 1..size
=============================================================================
