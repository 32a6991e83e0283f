------------------------------- MODULE Backoff -------------------------------
(***************************************************************************)
(* contract/assembled_transaction.py: _with_exponential_backoff(), with    *)
(* which submit() polls getTransaction until the answer is no longer       *)
(* NOT_FOUND or submit_timeout has passed.  Time is counted in sixteenths  *)
(* of a second, so that the waits 1, 1.5, 2.25, 3.375, 5.0625 and 6        *)
(* seconds are whole numbers (a wait cut at the deadline is the last one). *)
(***************************************************************************)
EXTENDS Integers

CONSTANTS
  Timeouts,   \* the values of submit_timeout
  Latency,    \* the longest a request takes
  MaxTime     \* bound: when the network settles the transaction at the latest

ASSUME BackoffAssumption ==
  /\ Timeouts \subseteq Nat
  /\ Latency \in Nat
  /\ MaxTime \in Nat

Second == 16
Cap == 6 * Second

VARIABLES
  pc,        \* "asking", "deciding", "sleeping", "returned" or "raised"
  now,       \* time.time()
  timeout,   \* the argument of that name
  waitUntil, \* wait_until, or -1 before it is computed
  waitTime,  \* wait_time
  attempts,  \* how many times fn() was called
  asked,     \* when the last fn() was called
  answer,    \* is its answer other than NOT_FOUND?
  settled    \* when the network settled the transaction, or -1

vars == <<pc, now, timeout, waitUntil, waitTime, attempts, asked, answer, settled>>

-----------------------------------------------------------------------------
Init ==
  /\ pc = "asking" /\ now = 0 /\ asked = 0
  /\ timeout \in Timeouts
  /\ waitUntil = -1 /\ waitTime = Second
  /\ attempts = 0
  /\ answer = FALSE /\ settled = -1

Settle ==
  /\ settled = -1 /\ now <= MaxTime
  /\ settled' = now
  /\ UNCHANGED <<pc, now, timeout, waitUntil, waitTime, attempts, asked, answer>>

\* Mutant of Answer: the deadline counts back from now.
AnswerDeadlineBack ==
  /\ pc = "asking"
  /\ now' \in now .. now + Latency
  /\ attempts' = attempts + 1
  /\ answer' \in {settled # -1, settled # -1 /\ settled < asked}
  /\ waitUntil' = IF attempts = 0 THEN timeout - now' ELSE waitUntil
  /\ pc' = "deciding"
  /\ UNCHANGED <<timeout, waitTime, asked, settled>>

\* fn() returns; the server looked the transaction up some time before.
Answer ==
  /\ pc = "asking"
  /\ now' \in now .. now + Latency
  /\ attempts' = attempts + 1
  /\ answer' \in {settled # -1, settled # -1 /\ settled < asked}
  /\ waitUntil' = IF attempts = 0 THEN now' + timeout ELSE waitUntil
  /\ pc' = "deciding"
  /\ UNCHANGED <<timeout, waitTime, asked, settled>>

\* An exception of fn() passes through.
Raise ==
  /\ pc = "asking"
  /\ pc' = "raised"
  /\ UNCHANGED <<now, timeout, waitUntil, waitTime, attempts, asked, answer, settled>>

\* Mutant of Return: no last request at the deadline.
ReturnBeforeDeadline ==
  /\ pc = "deciding"
  /\ answer \/ now + waitTime >= waitUntil
  /\ pc' = "returned"
  /\ UNCHANGED <<now, timeout, waitUntil, waitTime, attempts, asked, answer, settled>>

\* Mutant of Return: neither branch is taken exactly at the deadline.
ReturnAfterDeadline ==
  /\ pc = "deciding"
  /\ answer \/ now > waitUntil
  /\ pc' = "returned"
  /\ UNCHANGED <<now, timeout, waitUntil, waitTime, attempts, asked, answer, settled>>

\* keep_waiting_if is false of the answer, or the time is up.
Return ==
  /\ pc = "deciding"
  /\ answer \/ now >= waitUntil
  /\ pc' = "returned"
  /\ UNCHANGED <<now, timeout, waitUntil, waitTime, attempts, asked, answer, settled>>

Sleep ==
  /\ pc = "deciding"
  /\ ~answer /\ now < waitUntil
  /\ pc' = "sleeping"
  /\ UNCHANGED <<now, timeout, waitUntil, waitTime, attempts, asked, answer, settled>>

\* Mutant of Backed: the waits shrink.
BackedOff(w) == (w * 2) \div 3

\* wait_time after one more attempt.
Backed(w) == IF (w * 3) \div 2 >= Cap THEN Cap ELSE (w * 3) \div 2

\* Mutant of NextWait: the wait is not cut at the deadline.
NextWaitUncut(t) == Backed(waitTime)

\* Mutant of NextWait: the wait after the deadline, not until it.
NextWaitPast(t) ==
  IF t + Backed(waitTime) > waitUntil THEN t - waitUntil ELSE Backed(waitTime)

\* The next wait_time, computed at time t, before the next request.
NextWait(t) ==
  IF t + Backed(waitTime) > waitUntil THEN waitUntil - t ELSE Backed(waitTime)

\* time.sleep(wait_time) returns, late by at most one unit, and fn() is called.
Wake ==
  /\ pc = "sleeping"
  /\ now' \in now + waitTime .. now + waitTime + 1
  /\ waitTime' = NextWait(now')
  /\ asked' = now'
  /\ pc' = "asking"
  /\ UNCHANGED <<timeout, waitUntil, attempts, answer, settled>>

Next == Settle \/ Answer \/ Raise \/ Return \/ Sleep \/ Wake

Spec == Init /\ [][Next]_vars

\* Requests are answered, sleeps end and the loop goes on.
FairSpec == Spec /\ WF_vars(Answer) /\ WF_vars(Return) /\ WF_vars(Sleep) /\ WF_vars(Wake)

-----------------------------------------------------------------------------
(* Properties *)

\* Every variable keeps its type.
TypeOK ==
  /\ pc \in {"asking", "deciding", "sleeping", "returned", "raised"}
  /\ now \in Nat /\ asked \in Nat /\ attempts \in Nat
  /\ timeout \in Timeouts
  /\ waitUntil \in Nat \cup {-1}
  /\ waitTime \in Int
  /\ answer \in BOOLEAN
  /\ settled \in Nat \cup {-1}

\* time.sleep() raises ValueError for a negative wait.
SleepsForward == pc = "sleeping" => waitTime > 0

\* submit() comes back when submit_timeout has passed, but for the requests
\* under way and for a first wait of a whole second.
EndsInTime ==
  pc = "returned" =>
    \/ now <= waitUntil + 2 * Latency + 1
    \/ timeout < Second /\ now <= waitUntil - timeout + Second + Latency + 1

\* TransactionStillPendingError is raised of a transaction that the network had
\* not settled before the deadline, but for the last request's latency.
NoEarlyGiveUp ==
  pc = "returned" /\ ~answer => settled = -1 \/ settled >= waitUntil - Latency

\* The server is asked at most once a second, except at the deadline.
AsksApart ==
  [][asked' # asked => asked' >= asked + Second \/ asked' >= waitUntil]_vars

\* The polling ends, with an answer, at the deadline or with an exception.
Ends == <>(pc \in {"returned", "raised"})

=============================================================================
