---------------------------- MODULE BedrockClient ----------------------------
(***************************************************************************)
(* BedrockClient.invoke: one Converse call, tried again after a sleep when *)
(* Bedrock throttles it, in a Lambda whose timeout runs all the while.     *)
(* Time is in seconds.                                                     *)
(***************************************************************************)
EXTENDS Naturals

CONSTANTS
  CallTime,     \* the longest a Converse call takes to be answered or refused
  Timeout       \* what the Lambda's timeout leaves for the analysis

ASSUME TimeAssumption == CallTime \in Nat /\ Timeout \in Nat

VARIABLES
  attempt,      \* attempts of this invoke that were throttled
  elapsed       \* time since the analysis began

bedrockVars == <<attempt, elapsed>>

MaxRetries == 3

\* BASE_BACKOFF_SECONDS * 2 ** attempt, and the sum of the sleeps before it.
Backoff(tried) == <<1, 2, 4>>[tried + 1]
Slept(tried) == <<0, 1, 3, 7>>[tried + 1]

BedrockInit ==
  /\ attempt = 0
  /\ elapsed = 0

\* The call is over after at most CallTime, with a sleep after it.
Call(sleep) ==
  \E time \in 0 .. CallTime :
    /\ elapsed + time + sleep <= Timeout
    /\ elapsed' = elapsed + time + sleep

Answered ==
  /\ Call(0)
  /\ attempt' = 0

\* Mutant of Throttled: the attempt is not counted.
ThrottledUncounted ==
  /\ attempt + 1 < MaxRetries
  /\ Call(Backoff(attempt))
  /\ UNCHANGED attempt

\* ThrottlingException or ServiceUnavailableException, to be tried again.
Throttled ==
  /\ attempt + 1 < MaxRetries
  /\ Call(Backoff(attempt))
  /\ attempt' = attempt + 1

\* Any other error is raised at once; the last throttled attempt sleeps before
\* the error is raised.
Raised ==
  /\ \/ Call(0)
     \/ attempt + 1 = MaxRetries /\ Call(Backoff(attempt))
  /\ attempt' = 0

\* The call and its sleep may last beyond the Lambda's timeout.
OutOfTime == elapsed + CallTime + Backoff(attempt) > Timeout
=============================================================================
