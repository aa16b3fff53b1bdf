------------------------------ MODULE FetchData ------------------------------
(***************************************************************************)
(* _fetchData (ethereum/ethers/web/index.ts): one HTTP exchange of a       *)
(* provider.  A loop of attempts, with back-off on 429, races a timeout;   *)
(* the caller gets whichever settles first, and the loop goes on after the *)
(* timeout has won.  The error the caller gets is then classified by       *)
(* EthereumApi.handleError and EthereumApiConnection.handleError.          *)
(*                                                                         *)
(* Each action is what the code does between two awaits.  Time is not      *)
(* modelled: the timeout may fire at any point while it is armed.          *)
(***************************************************************************)
EXTENDS Naturals

CONSTANTS
  AttemptLimit,   \* attemptLimit: connection.throttleLimit (5), else 12
  Connections     \* the settings of the connection the call may be made with

(* get: no body is sent; allow304: a conditional header is set; pass:      *)
(* errorPassThrough; callback: throttleCallback is set.                    *)
AllConnections ==
  [get : BOOLEAN, allow304 : BOOLEAN, pass : BOOLEAN, callback : BOOLEAN]

ASSUME FetchAssumption ==
  /\ AttemptLimit \in Nat \ {0}
  /\ Connections \subseteq AllConnections

VARIABLES
  conn,         \* the connection
  attempt,      \* the loop counter
  pc,           \* where runningFetch awaits, or how it ended
  last,         \* what getUrl gave in this attempt
  timer,        \* runningTimeout: "armed", "fired" or "cancelled"
  outcome       \* what Promise.race gave the caller

vars == <<conn, attempt, pc, last, timer, outcome>>

(* What getUrl may give: a response by its status, or a failure, either    *)
(* while the body was read ("aborted": the error carries the response) or  *)
(* before any response ("refused").                                        *)
Responses == {"ok", "notModified", "redirect", "throttled", "refusal"}
Failures  == {"aborted", "refused"}
Nothing   == "nothing"

(* How runningFetch or the race may end.  An error keeps the HTTP status   *)
(* only where the code puts it on the error.                               *)
Open    == [kind |-> "open"]
Success == [kind |-> "success"]
Timeout == [kind |-> "timeout"]
Error(message) == [kind |-> "error", message |-> message, status |-> Nothing]
BadResponse(response) ==
  [kind |-> "error", message |-> "bad response", status |-> response]

Ends == {Success, Error("missing response"), Error("processing response"),
         Error("failed response"), Error("callback")}
          \cup {BadResponse(r) : r \in Responses}

Waits == {"getUrl", "throttleCallback", "processFunc", "retryCallback", "staller"}

-----------------------------------------------------------------------------
Init ==
  /\ conn \in Connections
  /\ attempt = 0
  /\ pc = "getUrl"
  /\ last = Nothing
  /\ timer = "armed"
  /\ outcome = Open

(* runningTimeout.cancel                                                   *)
Cancel == timer' = IF timer = "armed" THEN "cancelled" ELSE timer

(* runningFetch settles; the race takes it unless the timeout was first.   *)
Finish(end) ==
  /\ pc' = end.kind
  /\ outcome' = IF outcome = Open THEN end ELSE outcome
  /\ UNCHANGED attempt

GoOn(wait) == pc' = wait /\ UNCHANGED <<attempt, timer, outcome>>

(* A mutant: one attempt too many.                                         *)
ContinueOnceMore ==
  IF attempt <= AttemptLimit
  THEN /\ attempt' = attempt + 1
       /\ pc' = "getUrl"
       /\ UNCHANGED <<timer, outcome>>
  ELSE Finish(Error("failed response")) /\ UNCHANGED timer

(* continue: the next attempt, or the end of the loop, which leaves the    *)
(* timer alone.                                                            *)
Continue ==
  IF attempt + 1 < AttemptLimit
  THEN /\ attempt' = attempt + 1
       /\ pc' = "getUrl"
       /\ UNCHANGED <<timer, outcome>>
  ELSE Finish(Error("failed response")) /\ UNCHANGED timer

(* The catch clause of getUrl: the timer is cancelled only when the error  *)
(* carries no response.                                                    *)
MissingResponse(hasResponse) ==
  /\ IF hasResponse THEN UNCHANGED timer ELSE Cancel
  /\ Finish(Error("missing response"))

(* After the redirect and throttle tests: a status that is not accepted    *)
(* ends the call, any other goes to processFunc.                           *)
Judge(response) ==
  IF \/ response = "ok"
     \/ response = "notModified" /\ conn.allow304
     \/ conn.pass
  THEN GoOn("processFunc")
  ELSE Cancel /\ Finish(BadResponse(response))

(* getUrl gives a response other than 429; a redirect is followed for GET, *)
(* when it leads to an absolute https location.                            *)
GetResponse(response) ==
  /\ pc = "getUrl"
  /\ last' = response
  /\ \/ response = "redirect" /\ conn.get /\ Continue
     \/ Judge(response)
  /\ UNCHANGED conn

(* A mutant: the timer is stopped before the back-off.                     *)
GetThrottledCancelling ==
  /\ pc = "getUrl"
  /\ last' = "throttled"
  /\ IF attempt = AttemptLimit - 1 THEN MissingResponse(TRUE)
     ELSE Cancel /\ pc' = "staller" /\ UNCHANGED <<attempt, outcome>>
  /\ UNCHANGED conn

(* getUrl gives a 429.  On the last attempt 'rate limited' is thrown with  *)
(* the response - into the catch clause of the same try.                   *)
GetThrottled ==
  /\ pc = "getUrl"
  /\ last' = "throttled"
  /\ IF attempt = AttemptLimit - 1 THEN MissingResponse(TRUE)
     ELSE IF conn.callback THEN GoOn("throttleCallback")
     ELSE GoOn("staller")
  /\ UNCHANGED conn

GetFails(failure) ==
  /\ pc = "getUrl"
  /\ last' = failure
  /\ MissingResponse(failure = "aborted")
  /\ UNCHANGED conn

(* throttleCallback says whether to try again, or rejects.                 *)
ThrottleCallback(answer) ==
  /\ pc = "throttleCallback"
  /\ CASE answer = "again" -> GoOn("staller")
       [] answer = "stop"  -> Judge("throttled")
       [] answer = "fails" -> MissingResponse(FALSE)
  /\ UNCHANGED <<conn, last>>

(* The stall is over.                                                      *)
StallerEnds ==
  /\ pc = "staller"
  /\ Continue
  /\ UNCHANGED <<conn, last>>

(* A mutant: a result does not stop the timer.                             *)
ProcessSucceedsWithoutCancel ==
  /\ pc = "processFunc"
  /\ Finish(Success)
  /\ UNCHANGED <<conn, last, timer>>

(* processFunc parses the body; its error may ask for a retry.             *)
ProcessSucceeds ==
  /\ pc = "processFunc"
  /\ Cancel
  /\ Finish(Success)
  /\ UNCHANGED <<conn, last>>

ProcessFails(throttleRetry) ==
  /\ pc = "processFunc"
  /\ IF throttleRetry
     THEN GoOn(IF conn.callback THEN "retryCallback" ELSE "staller")
     ELSE Cancel /\ Finish(Error("processing response"))
  /\ UNCHANGED <<conn, last>>

(* The same callback, outside the try: its rejection is the call's.        *)
RetryCallback(answer) ==
  /\ pc = "retryCallback"
  /\ CASE answer = "again" -> GoOn("staller")
       [] answer = "stop"  -> Cancel /\ Finish(Error("processing response"))
       [] answer = "fails" -> Finish(Error("callback")) /\ UNCHANGED timer
  /\ UNCHANGED <<conn, last>>

(* The timeout fires: the caller gets it unless the fetch settled before;  *)
(* runningFetch is not stopped.                                            *)
TimeoutFires ==
  /\ timer = "armed"
  /\ timer' = "fired"
  /\ outcome' = IF outcome = Open THEN Timeout ELSE outcome
  /\ UNCHANGED <<conn, attempt, pc, last>>

Answers == {"again", "stop", "fails"}

FetchStep ==
  \/ \E response \in Responses \ {"throttled"} : GetResponse(response)
  \/ GetThrottled
  \/ \E failure \in Failures : GetFails(failure)
  \/ \E answer \in Answers : ThrottleCallback(answer)
  \/ StallerEnds
  \/ ProcessSucceeds
  \/ \E throttleRetry \in BOOLEAN : ProcessFails(throttleRetry)
  \/ \E answer \in Answers : RetryCallback(answer)

Next == FetchStep \/ TimeoutFires

Spec == Init /\ [][Next]_vars

(* Only the timer is sure to make progress: the server may never answer    *)
(* and a stall (Retry-After) may outlast the timeout.                      *)
FairSpec == Spec /\ WF_vars(TimeoutFires)

-----------------------------------------------------------------------------
(* The error the caller gets, as the node sees it.                         *)

(* EthereumApi.handleError: a status of 429 makes it a rate limit.         *)
RateLimited(end) == end.kind = "error" /\ end.status = "throttled"

(* EthereumApiConnection.handleError, by the prefix of the message: none   *)
(* of this module's own messages has the prefix of another class.          *)
ErrorClass(end) == IF RateLimited(end) THEN "RateLimit" ELSE "Default"

-----------------------------------------------------------------------------
(* The properties.                                                         *)

Settled == pc \notin Waits

TypeOK ==
  /\ conn \in Connections
  /\ attempt \in 0..(AttemptLimit - 1)
  /\ pc \in Waits \cup {"success", "error"}
  /\ last \in Responses \cup Failures \cup {Nothing}
  /\ timer \in {"armed", "fired", "cancelled"}
  /\ outcome \in {Open, Timeout} \cup Ends

(* While the fetch is under way its timeout is never disarmed, so no stall *)
(* and no silent server can keep the caller waiting for ever; and while    *)
(* the caller waits, the fetch is under way and the timer armed.           *)
TimerGuardsCaller ==
  /\ timer = "cancelled" => Settled
  /\ outcome = Open => ~Settled /\ timer = "armed"

(* A timer that outlives the fetch (up to two minutes, keeping the process *)
(* and the request body alive) is left only by the paths on which the code *)
(* does not cancel: an error that carries a response, the exhausted loop,  *)
(* a rejected callback.                                                    *)
LeftoverTimerIsExplained ==
  timer = "armed" /\ Settled =>
    outcome \in {Error("missing response"), Error("failed response"),
                 Error("callback")}

(* Every exchange ends for its caller, even if the server never answers.   *)
CallerIsAnswered == <>(outcome # Open)

(* "If it's the last attempt we throw an error with the response" (the     *)
(* comment in the loop) and handleError's test of status 429: a call that  *)
(* failed because the server kept throttling it is reported as rate        *)
(* limited.                                                                *)
ThrottlingIsReported ==
  outcome.kind = "error" /\ last = "throttled" => ErrorClass(outcome) = "RateLimit"
=============================================================================
