--------------------------- MODULE FetchDataProofs ---------------------------
(***************************************************************************)
(* Proofs about FetchData, for every attempt limit and every connection.   *)
(***************************************************************************)
EXTENDS FetchData, TLAPS

FetchInv == TypeOK /\ TimerGuardsCaller

LEMMA EndsDiffer ==
  /\ Timeout # Open
  /\ \A e \in Ends : e # Open /\ e.kind \in {"success", "error"}
<1>1. /\ Success.kind = "success" /\ Open.kind = "open" /\ Timeout.kind = "timeout"
      /\ \A m : Error(m).kind = "error"
      /\ \A r : BadResponse(r).kind = "error"
  BY DEF Success, Open, Timeout, Error, BadResponse
<1>2. \A e \in Ends : e.kind \in {"success", "error"}
  BY <1>1 DEF Ends
<1>3. QED
  BY <1>1, <1>2

(* The ways runningFetch ends: with the timer stopped, or with the timer   *)
(* left as it was.                                                         *)
LEMMA FinishStep ==
  ASSUME FetchInv, pc \in Waits, NEW e \in Ends, Finish(e),
         UNCHANGED conn, last' \in Responses \cup Failures \cup {Nothing},
         Cancel \/ UNCHANGED timer
  PROVE  FetchInv'
<1>1. pc' \in {"success", "error"} /\ e # Open
  BY EndsDiffer DEF Finish
<1>2. Settled'
  BY <1>1 DEF Settled, Waits
<1>3. outcome' # Open
  BY <1>1 DEF Finish
<1>4. timer' \in {"armed", "fired", "cancelled"}
  BY DEF FetchInv, TypeOK, Cancel
<1>5. outcome' \in {Open, Timeout} \cup Ends
  BY DEF Finish, FetchInv, TypeOK
<1>6. TypeOK'
  BY <1>1, <1>4, <1>5 DEF Finish, FetchInv, TypeOK
<1>7. QED
  BY <1>2, <1>3, <1>6 DEF FetchInv, TimerGuardsCaller

(* Going on to another await keeps the timer armed for the caller.         *)
LEMMA WaitStep ==
  ASSUME FetchInv, pc \in Waits, pc' \in Waits, UNCHANGED <<conn, timer, outcome>>,
         attempt' \in 0..(AttemptLimit - 1),
         last' \in Responses \cup Failures \cup {Nothing}
  PROVE  FetchInv'
BY DEF FetchInv, TypeOK, TimerGuardsCaller, Settled

LEMMA EndsContain ==
  /\ Success \in Ends /\ Error("missing response") \in Ends
  /\ Error("processing response") \in Ends /\ Error("failed response") \in Ends
  /\ Error("callback") \in Ends
  /\ \A r \in Responses : BadResponse(r) \in Ends
BY DEF Ends

LEMMA ContinueStep ==
  ASSUME FetchInv, pc \in Waits, Continue, UNCHANGED conn,
         last' \in Responses \cup Failures \cup {Nothing}
  PROVE  FetchInv'
<1>1. CASE attempt + 1 < AttemptLimit
  <2>1. attempt' \in 0..(AttemptLimit - 1)
    BY <1>1, FetchAssumption DEF Continue, FetchInv, TypeOK
  <2>2. pc' \in Waits /\ UNCHANGED <<timer, outcome>>
    BY <1>1 DEF Continue, Waits
  <2>3. QED
    BY <2>1, <2>2, WaitStep
<1>2. CASE ~(attempt + 1 < AttemptLimit)
  BY <1>2, EndsContain, FinishStep DEF Continue
<1>3. QED
  BY <1>1, <1>2

LEMMA MissingStep ==
  ASSUME FetchInv, pc \in Waits, NEW h \in BOOLEAN, MissingResponse(h),
         UNCHANGED conn, last' \in Responses \cup Failures \cup {Nothing}
  PROVE  FetchInv'
BY EndsContain, FinishStep DEF MissingResponse

LEMMA GoOnStep ==
  ASSUME FetchInv, pc \in Waits, NEW wait \in Waits, GoOn(wait),
         UNCHANGED conn, last' \in Responses \cup Failures \cup {Nothing}
  PROVE  FetchInv'
<1>1. attempt' \in 0..(AttemptLimit - 1)
  BY DEF GoOn, FetchInv, TypeOK
<1>2. QED
  BY <1>1, WaitStep DEF GoOn

LEMMA JudgeStep ==
  ASSUME FetchInv, pc \in Waits, NEW r \in Responses, Judge(r),
         UNCHANGED conn, last' \in Responses \cup Failures \cup {Nothing}
  PROVE  FetchInv'
<1>1. CASE GoOn("processFunc")
  BY <1>1, GoOnStep DEF Waits
<1>2. CASE Cancel /\ Finish(BadResponse(r))
  BY <1>2, EndsContain, FinishStep
<1>3. QED
  BY <1>1, <1>2 DEF Judge

LEMMA FetchStepInv == FetchInv /\ [Next]_vars => FetchInv'
<1> SUFFICES ASSUME FetchInv, [Next]_vars PROVE FetchInv'
  OBVIOUS
<1> DEFINE Gets == Responses \cup Failures \cup {Nothing}
<1>0. last \in Gets
  BY DEF FetchInv, TypeOK
<1>1. ASSUME NEW r \in Responses, GetResponse(r) PROVE FetchInv'
  <2>1. pc \in Waits /\ last' \in Gets /\ UNCHANGED conn
    BY <1>1 DEF GetResponse, Waits
  <2>2. QED
    BY <1>1, <2>1, ContinueStep, JudgeStep DEF GetResponse
<1>2. CASE GetThrottled
  <2>1. pc \in Waits /\ last' \in Gets /\ UNCHANGED conn
    BY <1>2 DEF GetThrottled, Waits, Responses
  <2>2. \/ MissingResponse(TRUE)
        \/ GoOn("throttleCallback")
        \/ GoOn("staller")
    BY <1>2 DEF GetThrottled
  <2>3. QED
    BY <2>1, <2>2, MissingStep, GoOnStep DEF Waits
<1>3. ASSUME NEW f \in Failures, GetFails(f) PROVE FetchInv'
  <2>1. pc \in Waits /\ last' \in Gets /\ UNCHANGED conn
    BY <1>3 DEF GetFails, Waits
  <2>2. MissingResponse(TRUE) \/ MissingResponse(FALSE)
    BY <1>3 DEF GetFails, MissingResponse
  <2>3. QED
    BY <2>1, <2>2, MissingStep
<1>4. ASSUME NEW answer \in Answers, ThrottleCallback(answer) PROVE FetchInv'
  <2>1. pc \in Waits /\ UNCHANGED <<conn, last>>
    BY <1>4 DEF ThrottleCallback, Waits
  <2>2. GoOn("staller") \/ Judge("throttled") \/ MissingResponse(FALSE)
    BY <1>4 DEF ThrottleCallback, Answers
  <2>3. "throttled" \in Responses /\ "staller" \in Waits
    BY DEF Responses, Waits
  <2>4. QED
    BY <1>0, <2>1, <2>2, <2>3, GoOnStep, JudgeStep, MissingStep
<1>5. CASE StallerEnds
  <2>1. pc \in Waits /\ UNCHANGED <<conn, last>>
    BY <1>5 DEF StallerEnds, Waits
  <2>2. QED
    BY <1>0, <1>5, <2>1, ContinueStep DEF StallerEnds
<1>6. CASE ProcessSucceeds
  <2>1. pc \in Waits /\ UNCHANGED <<conn, last>>
    BY <1>6 DEF ProcessSucceeds, Waits
  <2>2. QED
    BY <1>0, <1>6, <2>1, EndsContain, FinishStep DEF ProcessSucceeds
<1>7. ASSUME NEW again \in BOOLEAN, ProcessFails(again) PROVE FetchInv'
  <2>1. pc \in Waits /\ UNCHANGED <<conn, last>>
    BY <1>7 DEF ProcessFails, Waits
  <2>2. \/ GoOn("retryCallback")
        \/ GoOn("staller")
        \/ Cancel /\ Finish(Error("processing response"))
    BY <1>7 DEF ProcessFails
  <2>3. "retryCallback" \in Waits /\ "staller" \in Waits
    BY DEF Waits
  <2>4. QED
    BY <1>0, <2>1, <2>2, <2>3, GoOnStep, EndsContain, FinishStep
<1>8. ASSUME NEW answer \in Answers, RetryCallback(answer) PROVE FetchInv'
  <2>1. pc \in Waits /\ UNCHANGED <<conn, last>>
    BY <1>8 DEF RetryCallback, Waits
  <2>2. \/ GoOn("staller")
        \/ Cancel /\ Finish(Error("processing response"))
        \/ Finish(Error("callback")) /\ UNCHANGED timer
    BY <1>8 DEF RetryCallback, Answers
  <2>3. "staller" \in Waits
    BY DEF Waits
  <2>4. QED
    BY <1>0, <2>1, <2>2, <2>3, GoOnStep, EndsContain, FinishStep
<1>9. CASE TimeoutFires
  <2>1. outcome' # Open
    BY <1>9, EndsDiffer DEF TimeoutFires
  <2>2. QED
    BY <1>9, <2>1 DEF TimeoutFires, FetchInv, TypeOK, TimerGuardsCaller, Settled
<1>10. CASE UNCHANGED vars
  BY <1>10 DEF vars, FetchInv, TypeOK, TimerGuardsCaller, Settled
<1>11. QED
  BY <1>1, <1>2, <1>3, <1>4, <1>5, <1>6, <1>7, <1>8, <1>9, <1>10
  DEF Next, FetchStep

(* The number of attempts stays below the limit.                           *)
THEOREM FetchTypeCorrect == Spec => []TypeOK
<1>1. Init => FetchInv
  BY FetchAssumption DEF Init, FetchInv, TypeOK, TimerGuardsCaller, Settled, Waits
<1>2. Spec => []FetchInv
  BY <1>1, FetchStepInv, PTL DEF Spec
<1>3. QED
  BY <1>2 DEF FetchInv

(* A caller that still waits is always covered by the armed timeout.       *)
THEOREM CallerIsCovered == Spec => []TimerGuardsCaller
<1>1. Init => FetchInv
  BY FetchAssumption DEF Init, FetchInv, TypeOK, TimerGuardsCaller, Settled, Waits
<1>2. Spec => []FetchInv
  BY <1>1, FetchStepInv, PTL DEF Spec
<1>3. QED
  BY <1>2 DEF FetchInv

-----------------------------------------------------------------------------
(* The timer that outlives the fetch.  While the fetch is under way and    *)
(* the timer armed, the caller waits; so an end that leaves the timer      *)
(* armed is what the caller gets.                                          *)
LeftoverEnds == {Error("missing response"), Error("failed response"), Error("callback")}

LeftoverInv ==
  /\ LeftoverTimerIsExplained
  /\ timer = "armed" /\ ~Settled => outcome = Open

LEMMA EndStep ==
  ASSUME LeftoverInv, pc \in Waits, NEW e \in Ends, Finish(e),
         Cancel \/ (UNCHANGED timer /\ e \in LeftoverEnds)
  PROVE  LeftoverInv'
<1>1. pc' \notin Waits
  BY EndsDiffer DEF Finish, Waits
<1>2. timer' = "armed" => timer = "armed" /\ e \in LeftoverEnds
  BY DEF Cancel
<1>3. timer' = "armed" => outcome' = e
  BY <1>2 DEF LeftoverInv, Settled, Finish
<1>4. QED
  BY <1>1, <1>2, <1>3 DEF LeftoverInv, LeftoverTimerIsExplained, LeftoverEnds, Settled

LEMMA CancelledEnd ==
  ASSUME LeftoverInv, pc \in Waits, NEW e \in Ends, Cancel /\ Finish(e)
  PROVE  LeftoverInv'
<1>1. Finish(e)
  OBVIOUS
<1>2. Cancel \/ (UNCHANGED timer /\ e \in LeftoverEnds)
  OBVIOUS
<1>3. QED
  BY <1>1, <1>2, EndStep

LEMMA PauseStep ==
  ASSUME LeftoverInv, pc \in Waits, pc' \in Waits, UNCHANGED <<timer, outcome>>
  PROVE  LeftoverInv'
  BY DEF LeftoverInv, LeftoverTimerIsExplained, Settled

LEMMA LeftoverContinue ==
  ASSUME LeftoverInv, pc \in Waits, Continue
  PROVE  LeftoverInv'
<1>1. CASE attempt + 1 < AttemptLimit
  BY <1>1, PauseStep DEF Continue, Waits
<1>2. CASE ~(attempt + 1 < AttemptLimit)
  BY <1>2, EndsContain, EndStep DEF Continue, LeftoverEnds
<1>3. QED
  BY <1>1, <1>2

LEMMA LeftoverMissing ==
  ASSUME LeftoverInv, pc \in Waits, NEW h \in BOOLEAN, MissingResponse(h)
  PROVE  LeftoverInv'
  BY EndsContain, EndStep DEF MissingResponse, LeftoverEnds

LEMMA LeftoverJudge ==
  ASSUME LeftoverInv, pc \in Waits, NEW r \in Responses, Judge(r)
  PROVE  LeftoverInv'
<1>1. CASE GoOn("processFunc")
  BY <1>1, PauseStep DEF GoOn, Waits
<1>2. CASE Cancel /\ Finish(BadResponse(r))
  BY <1>2, EndsContain, CancelledEnd
<1>3. QED
  BY <1>1, <1>2 DEF Judge

LEMMA LeftoverStep == LeftoverInv /\ [Next]_vars => LeftoverInv'
<1> SUFFICES ASSUME LeftoverInv, [Next]_vars PROVE LeftoverInv'
  OBVIOUS
<1>1. ASSUME NEW r \in Responses, GetResponse(r) PROVE LeftoverInv'
  <2>1. pc \in Waits
    BY <1>1 DEF GetResponse, Waits
  <2>2. QED
    BY <1>1, <2>1, LeftoverContinue, LeftoverJudge DEF GetResponse
<1>2. CASE GetThrottled
  <2>1. pc \in Waits
    BY <1>2 DEF GetThrottled, Waits
  <2>2. MissingResponse(TRUE) \/ GoOn("throttleCallback") \/ GoOn("staller")
    BY <1>2 DEF GetThrottled
  <2>3. QED
    BY <2>1, <2>2, LeftoverMissing, PauseStep DEF GoOn, Waits
<1>3. ASSUME NEW failure \in Failures, GetFails(failure) PROVE LeftoverInv'
  <2>1. pc \in Waits /\ MissingResponse(failure = "aborted")
    BY <1>3 DEF GetFails, Waits
  <2>2. (failure = "aborted") \in BOOLEAN
    OBVIOUS
  <2>3. QED
    BY <2>1, <2>2, LeftoverMissing
<1>4. ASSUME NEW answer \in Answers, ThrottleCallback(answer) PROVE LeftoverInv'
  <2>1. pc \in Waits
    BY <1>4 DEF ThrottleCallback, Waits
  <2>2. GoOn("staller") \/ Judge("throttled") \/ MissingResponse(FALSE)
    BY <1>4 DEF ThrottleCallback, Answers
  <2>3. "throttled" \in Responses
    BY DEF Responses
  <2>4. QED
    BY <2>1, <2>2, <2>3, LeftoverMissing, LeftoverJudge, PauseStep DEF GoOn, Waits
<1>5. CASE StallerEnds
  <2>1. pc \in Waits
    BY <1>5 DEF StallerEnds, Waits
  <2>2. QED
    BY <1>5, <2>1, LeftoverContinue DEF StallerEnds
<1>6. CASE ProcessSucceeds
  <2>1. pc \in Waits
    BY <1>6 DEF ProcessSucceeds, Waits
  <2>2. QED
    BY <1>6, <2>1, EndsContain, CancelledEnd DEF ProcessSucceeds
<1>7. ASSUME NEW again \in BOOLEAN, ProcessFails(again) PROVE LeftoverInv'
  <2>1. pc \in Waits
    BY <1>7 DEF ProcessFails, Waits
  <2>2. \/ GoOn("retryCallback") \/ GoOn("staller")
        \/ Cancel /\ Finish(Error("processing response"))
    BY <1>7 DEF ProcessFails
  <2>3. QED
    BY <2>1, <2>2, EndsContain, CancelledEnd, PauseStep DEF GoOn, Waits
<1>8. ASSUME NEW answer \in Answers, RetryCallback(answer) PROVE LeftoverInv'
  <2>1. pc \in Waits
    BY <1>8 DEF RetryCallback, Waits
  <2>2. \/ GoOn("staller")
        \/ Cancel /\ Finish(Error("processing response"))
        \/ Finish(Error("callback")) /\ UNCHANGED timer
    BY <1>8 DEF RetryCallback, Answers
  <2>3. CASE GoOn("staller")
    BY <2>1, <2>3, PauseStep DEF GoOn, Waits
  <2>4. CASE Cancel /\ Finish(Error("processing response"))
    BY <2>1, <2>4, EndsContain, CancelledEnd
  <2>5. CASE Finish(Error("callback")) /\ UNCHANGED timer
    BY <2>1, <2>5, EndsContain, EndStep DEF LeftoverEnds
  <2>6. QED
    BY <2>2, <2>3, <2>4, <2>5
<1>9. CASE TimeoutFires
  BY <1>9 DEF TimeoutFires, LeftoverInv, LeftoverTimerIsExplained
<1>10. CASE UNCHANGED vars
  BY <1>10 DEF vars, LeftoverInv, LeftoverTimerIsExplained, Settled
<1>11. QED
  BY <1>1, <1>2, <1>3, <1>4, <1>5, <1>6, <1>7, <1>8, <1>9, <1>10
  DEF Next, FetchStep

(* A timer is left armed only by an error with a response, an exhausted    *)
(* loop or a rejected callback, the ends that do not cancel it.            *)
THEOREM LeftoverExplained == Spec => []LeftoverTimerIsExplained
<1>1. Init => LeftoverInv
  BY DEF Init, LeftoverInv, LeftoverTimerIsExplained, Settled, Waits
<1>2. Spec => []LeftoverInv
  BY <1>1, LeftoverStep, PTL DEF Spec
<1>3. LeftoverInv => LeftoverTimerIsExplained
  BY DEF LeftoverInv
<1>4. QED
  BY <1>2, <1>3, PTL
=============================================================================
