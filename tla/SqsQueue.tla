------------------------------ MODULE SqsQueue ------------------------------
(***************************************************************************)
(* One message on an SQS queue with a redrive policy, as Lambda's event    *)
(* source mapping sees it.  SQS itself is not part of the repository: what *)
(* is modelled is what lib/stacks/messaging-stack.ts configures (receive   *)
(* limit, dead-letter queue) and what the handlers rely on (a handler that *)
(* returns acknowledges its record, one that raises or is cut off does     *)
(* not).  Every queue's visibility timeout (300 s, learn queue 120 s) is   *)
(* longer than its function's own timeout, so a message in flight is not   *)
(* handed to a second invocation.                                          *)
(***************************************************************************)
EXTENDS Naturals

\* st: where the message is; rc: how many times it has been received.  limit is
\* the maxReceiveCount of the queue's redrive policy.
Delivery(limit) == [st : {"absent", "visible", "inflight", "deleted", "dead"},
                    rc : 0 .. limit]

Absent == [st |-> "absent", rc |-> 0]
Sent == [st |-> "visible", rc |-> 0]

Receive(d) == [st |-> "inflight", rc |-> d.rc + 1]

\* The handler returned: the event source mapping deletes the message.
Delete(d) == [st |-> "deleted", rc |-> d.rc]

\* Mutant of Release: a failed message is sent anew.
ReleaseSentAgain(d, limit) == Sent

\* The handler raised or was cut off: the message is visible again after the
\* visibility timeout, or goes to the dead-letter queue once it has been
\* received maxReceiveCount times.
Release(d, limit) ==
  [st |-> IF d.rc < limit THEN "visible" ELSE "dead", rc |-> d.rc]

Settled(d) == d.st \in {"absent", "deleted", "dead"}
=============================================================================
