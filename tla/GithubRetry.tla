----------------------------- MODULE GithubRetry -----------------------------
(***************************************************************************)
(* One request of PyGithub under its default retry policy, GithubRetry on  *)
(* top of urllib3's Retry, in a Lambda invocation that is cut off at its   *)
(* deadline.                                                               *)
(***************************************************************************)
EXTENDS Naturals

CONSTANTS
  Retries,      \* Retry.total: 10
  RequestTime,  \* the longest an attempt takes, in seconds: Consts.DEFAULT_TIMEOUT, 15, for
                \* connecting and again for the answer, after at most 1 of __deferRequest
  RateWait      \* DEFAULT_SECONDARY_RATE_WAIT: 60

ASSUME RetryAssumption == Retries \in Nat /\ RequestTime \in Nat /\ RateWait \in Nat

VARIABLES
  now,          \* time.time()
  deadline,     \* when Lambda cuts the invocation off
  left          \* total of the running request's Retry

retryVars == <<now, deadline, left>>

\* At most the given time passes, and the invocation is not cut off.
Within(time) ==
  /\ now' \in now .. now + time
  /\ now' < deadline

\* An answer below 400; the next request begins with a Retry of its own.
Answered ==
  /\ Within(RequestTime)
  /\ left' = Retries
  /\ UNCHANGED deadline

\* Mutant of TryAgain: the attempt is not counted.
TryAgainUncounted ==
  /\ left > 0
  /\ now' \in now .. deadline /\ now' < deadline
  /\ UNCHANGED <<deadline, left>>

\* Retry.increment after a status of 500 or more, a connection that broke or
\* timed out, or a 403 that names a time: Retry-After, of a secondary rate limit
\* too, or the primary limit's X-RateLimit-Reset.  The next attempt comes at once
\* (backoff_factor is 0) or when the header says, be it sooner than RateWait.
TryAgain ==
  /\ left > 0
  /\ left' = left - 1
  /\ now' \in now .. deadline /\ now' < deadline
  /\ UNCHANGED deadline

\* A 403 without Retry-After whose message is that of a secondary rate limit.
WaitForRate ==
  /\ left > 0
  /\ left' = left - 1
  /\ now' \in now + RateWait .. deadline /\ now' < deadline
  /\ UNCHANGED deadline

\* The last retry failed too, a status of 400 or more that is not retried, or
\* the deadline: the exception, or the end of the process, ends the invocation.
GiveUp ==
  /\ now' \in now .. deadline
  /\ UNCHANGED <<deadline, left>>
=============================================================================
