---------------------------- MODULE BackoffProofs ----------------------------
(***************************************************************************)
(* The safety properties of Backoff, for every timeout, latency and moment *)
(* at which the network settles the transaction.  They rest on one         *)
(* inductive invariant, whose parts relate the clock, the time of the last *)
(* request, the deadline and the next wait.                                *)
(***************************************************************************)
EXTENDS Backoff, TLAPS

\* Before the first answer nothing has moved.
Fresh ==
  attempts = 0 =>
    /\ pc \in {"asking", "raised"}
    /\ waitTime = Second /\ now = 0 /\ asked = 0

Started ==
  /\ pc \in {"deciding", "sleeping", "returned"} => attempts # 0
  /\ attempts # 0 => waitUntil \in Nat /\ waitUntil >= timeout

\* A request is answered within its latency.
Clock ==
  /\ asked <= now /\ settled <= now /\ now <= asked + Latency
  /\ pc = "asking" => now = asked

\* The first wait, which the deadline does not cut.
FirstWait ==
  /\ pc \in {"deciding", "sleeping", "returned"}
  /\ waitTime = Second /\ waitUntil = now + timeout

\* A wait is a whole second, or what was left at the last request.
Waits ==
  attempts # 0 =>
    /\ waitTime >= Second \/ waitTime = waitUntil - asked
    /\ FirstWait \/ asked + waitTime <= waitUntil

\* How late the last request may be.
Late ==
  attempts # 0 =>
    \/ asked <= waitUntil + Latency + 1
    \/ timeout < Second /\ asked <= waitUntil - timeout + Second + 1

\* What the last answer says of the network.
Missed ==
  pc \in {"deciding", "sleeping", "returned"} /\ ~answer =>
    settled = -1 \/ settled >= asked

Returned == pc = "returned" /\ ~answer => now >= waitUntil

IInv ==
  /\ TypeOK /\ Fresh /\ Started /\ Clock
  /\ Waits /\ Late /\ Missed /\ Returned /\ SleepsForward

-----------------------------------------------------------------------------
LEMMA BackedGrows ==
  ASSUME NEW w \in Int
  PROVE  /\ Backed(w) \in Int
         /\ w >= Second => Backed(w) >= Second
         /\ w > 0 => Backed(w) > 0
BY DEF Backed, Second, Cap

\* What NextWait() leaves: a second, or the time to the deadline.
LEMMA NextWaitCut ==
  ASSUME NEW t \in Nat, waitTime \in Int, waitUntil \in Int, waitTime > 0,
         waitTime >= Second \/ t >= waitUntil
  PROVE  /\ NextWait(t) \in Int
         /\ t + NextWait(t) <= waitUntil
         /\ NextWait(t) >= Second \/ NextWait(t) = waitUntil - t
<1> DEFINE b == Backed(waitTime)
<1>1. b \in Int /\ (waitTime >= Second => b >= Second) /\ b > 0
  BY BackedGrows
<1>2. NextWait(t) = IF t + b > waitUntil THEN waitUntil - t ELSE b
  BY DEF NextWait
<1> HIDE DEF b
<1> QED
  BY <1>1, <1>2

LEMMA InitIInv == Init => IInv
<1> SUFFICES ASSUME Init PROVE IInv
  OBVIOUS
<1>1. /\ pc = "asking" /\ now = 0 /\ asked = 0 /\ attempts = 0
      /\ timeout \in Timeouts /\ waitUntil = -1 /\ settled = -1
      /\ waitTime = Second /\ answer \in BOOLEAN
  BY DEF Init
<1>2. TypeOK
  BY <1>1 DEF TypeOK, Second
<1>3. Fresh /\ Started /\ Clock
  BY <1>1, BackoffAssumption DEF Fresh, Started, Clock
<1>4. Waits /\ Late /\ Missed /\ Returned /\ SleepsForward
  BY <1>1 DEF Waits, Late, Missed, Returned, SleepsForward
<1> QED
  BY <1>2, <1>3, <1>4 DEF IInv

LEMMA NextIInv == IInv /\ [Next]_vars => IInv'
<1> SUFFICES ASSUME IInv, [Next]_vars PROVE IInv'
  OBVIOUS
<1> USE BackoffAssumption
<1>a. /\ TypeOK /\ Fresh /\ Started /\ Clock
      /\ Waits /\ Late /\ Missed /\ Returned /\ SleepsForward
  BY DEF IInv
<1>b. /\ now \in Nat /\ asked \in Nat /\ attempts \in Nat /\ timeout \in Nat
      /\ waitUntil \in Int /\ waitTime \in Int /\ settled \in Int
  BY <1>a DEF TypeOK
<1>1. CASE Settle
  BY <1>1, <1>a, <1>b DEF Settle, IInv, TypeOK, Fresh, Started, Clock, FirstWait,
     Waits, Late, Missed, Returned, SleepsForward
<1>2. CASE Answer
  <2>1. /\ pc = "asking" /\ pc' = "deciding" /\ attempts' = attempts + 1
        /\ now' \in Nat /\ now <= now' /\ now' <= now + Latency
        /\ timeout' = timeout /\ waitTime' = waitTime
        /\ asked' = asked /\ settled' = settled
    BY <1>2, <1>b DEF Answer
  <2>i. /\ attempts = 0 => waitUntil' = now' + timeout
        /\ attempts # 0 => waitUntil' = waitUntil
    BY <1>2, Zenon DEF Answer
  <2>2. answer' \in BOOLEAN /\ (~answer' => settled = -1 \/ settled >= asked)
    <3>1. answer' = (settled # -1) \/ answer' = (settled # -1 /\ settled < asked)
      BY <1>2, Zenon DEF Answer
    <3>2. answer' \in BOOLEAN /\ (~answer' => settled = -1 \/ ~(settled < asked))
      BY <3>1, Zenon
    <3> QED
      BY <3>2, <1>b
  <2>w. waitUntil' \in Int /\ waitUntil' >= timeout
    BY <2>1, <2>i, <1>a, <1>b DEF Started
  <2>3. TypeOK'
    BY <2>1, <2>2, <2>w, <1>a, <1>b DEF TypeOK
  <2>f. Fresh' /\ Started'
    BY <2>1, <2>w, <1>b DEF Fresh, Started
  <2>4. Clock' /\ Missed' /\ Returned' /\ SleepsForward'
    BY <2>1, <2>2, <1>a, <1>b DEF Clock, Missed, Returned, SleepsForward
  <2>5. Waits' /\ Late'
    <3>1. CASE attempts = 0
      <4>1. asked' = 0 /\ waitTime' = Second /\ waitUntil' = now' + timeout'
        <5>1. asked = 0 /\ waitTime = Second
          BY <3>1, <1>a DEF Fresh
        <5>2. waitUntil' = now' + timeout'
          BY <3>1, <2>1, <2>i, <1>b
        <5> QED
          BY <5>1, <5>2, <2>1
      <4>2. FirstWait' /\ waitTime' >= Second
        BY <4>1, <2>1 DEF FirstWait, Second
      <4>3. asked' <= waitUntil' + Latency + 1
        <5>1. asked' <= waitUntil' /\ asked' \in Int
          BY <4>1, <2>w, <1>b
        <5>2. \A x, y \in Int : x <= y => x <= y + Latency + 1
          OBVIOUS
        <5> QED
          BY <5>1, <5>2, <2>w
      <4>4. Waits'
        BY <4>2 DEF Waits
      <4>5. Late'
        BY <4>3, Zenon DEF Late
      <4> QED
        BY <4>4, <4>5
    <3>2. CASE attempts # 0
      BY <3>2, <2>1, <2>i, <1>a, <1>b DEF Waits, Late, FirstWait
    <3> QED
      BY <3>1, <3>2
  <2> QED
    BY <2>3, <2>f, <2>4, <2>5 DEF IInv
<1>3. CASE Raise
  BY <1>3, <1>a, <1>b DEF Raise, IInv, TypeOK, Fresh, Started, Clock, FirstWait,
     Waits, Late, Missed, Returned, SleepsForward
<1>4. CASE Return
  BY <1>4, <1>a, <1>b DEF Return, IInv, TypeOK, Fresh, Started, Clock, FirstWait,
     Waits, Late, Missed, Returned, SleepsForward
<1>5. CASE Sleep
  <2>1. /\ pc = "deciding" /\ pc' = "sleeping" /\ now < waitUntil
        /\ UNCHANGED <<now, timeout, waitUntil, waitTime, attempts, asked, answer, settled>>
    BY <1>5 DEF Sleep
  <2>2. SleepsForward'
    BY <2>1, <1>a, <1>b DEF SleepsForward, Started, Waits, Clock, Second
  <2> QED
    BY <2>1, <2>2, <1>a, <1>b DEF IInv, TypeOK, Fresh, Started, Clock, FirstWait,
       Waits, Late, Missed, Returned
<1>6. CASE Wake
  <2>1. /\ pc = "sleeping" /\ pc' = "asking" /\ asked' = now'
        /\ now' \in Nat /\ now + waitTime <= now' /\ now' <= now + waitTime + 1
        /\ waitTime' = NextWait(now')
        /\ timeout' = timeout /\ waitUntil' = waitUntil /\ attempts' = attempts
        /\ answer' = answer /\ settled' = settled
    BY <1>6, <1>a, <1>b DEF Wake, SleepsForward
  <2>2. /\ attempts # 0 /\ waitUntil \in Nat /\ waitTime > 0 /\ now < now'
        /\ waitTime >= Second \/ now' >= waitUntil
    BY <2>1, <1>a, <1>b DEF Started, SleepsForward, Waits, Clock
  <2>3. /\ waitTime' \in Int /\ now' + waitTime' <= waitUntil
        /\ waitTime' >= Second \/ waitTime' = waitUntil - now'
    BY <2>1, <2>2, <1>b, NextWaitCut
  <2>t. TypeOK'
    BY <2>1, <2>2, <2>3, <1>a DEF TypeOK
  <2>4. Fresh' /\ Started'
    BY <2>1, <2>2, <2>3, <1>a DEF Fresh, Started
  <2>c. Clock'
    <3>1. \A x, y, z \in Int : x <= y /\ y < z => x <= z /\ z <= z + Latency
      OBVIOUS
    <3>2. now' \in Int /\ now \in Int /\ settled \in Int /\ settled <= now
      BY <2>1, <1>a, <1>b DEF Clock
    <3>3. settled <= now' /\ now' <= now' + Latency
      BY <3>1, <3>2, <2>2, Zenon
    <3>4. asked' <= now'
      BY <2>1
    <3> QED
      BY <3>3, <3>4, <2>1, Zenon DEF Clock
  <2>5. Waits' /\ Missed' /\ Returned' /\ SleepsForward'
    BY <2>1, <2>2, <2>3 DEF Waits, Missed, Returned, SleepsForward
  <2>6. Late'
    BY <2>1, <2>2, <1>a, <1>b DEF Late, Waits, FirstWait, Clock, Started, Second
  <2> QED
    BY <2>t, <2>4, <2>c, <2>5, <2>6 DEF IInv
<1>7. CASE UNCHANGED vars
  BY <1>7, <1>a DEF vars, IInv, TypeOK, Fresh, Started, Clock, FirstWait,
     Waits, Late, Missed, Returned, SleepsForward
<1> QED
  BY <1>1, <1>2, <1>3, <1>4, <1>5, <1>6, <1>7 DEF Next

LEMMA Invariance == Spec => []IInv
BY InitIInv, NextIInv, PTL DEF Spec

-----------------------------------------------------------------------------
\* The clock, the deadline and the waits of _with_exponential_backoff() are
\* integers, and the loop is at one of its places.
THEOREM TypeCorrect == Spec => []TypeOK
<1>1. IInv => TypeOK
  BY DEF IInv
<1> QED
  BY <1>1, Invariance, PTL

\* time.sleep() is never called with a negative wait, or none.
THEOREM NeverSleepsBackward == Spec => []SleepsForward
<1>1. IInv => SleepsForward
  BY DEF IInv
<1> QED
  BY <1>1, Invariance, PTL

\* submit() overstays its timeout by two latencies at most, or by the first wait.
THEOREM ComesBackInTime == Spec => []EndsInTime
<1>1. IInv => EndsInTime
  BY BackoffAssumption DEF IInv, TypeOK, Started, Clock, Late, EndsInTime, Second
<1> QED
  BY <1>1, Invariance, PTL

\* A transaction is called pending only if the network had not settled it a
\* latency before the deadline.
THEOREM GivesUpLate == Spec => []NoEarlyGiveUp
<1>1. IInv => NoEarlyGiveUp
  BY BackoffAssumption
     DEF IInv, TypeOK, Started, Clock, Missed, Returned, NoEarlyGiveUp
<1> QED
  BY <1>1, Invariance, PTL

\* Requests are a second apart, except at the deadline.
THEOREM AsksSeldom == Spec => AsksApart
<1>1. IInv /\ [Next]_vars =>
        [asked' # asked => asked' >= asked + Second \/ asked' >= waitUntil]_vars
  <2> SUFFICES ASSUME IInv, Next, asked' # asked
               PROVE  asked' >= asked + Second \/ asked' >= waitUntil
    OBVIOUS
  <2>1. /\ pc = "sleeping" /\ asked' = now'
        /\ now' \in now + waitTime .. now + waitTime + 1
    BY DEF Next, Settle, Answer, Raise, Return, Sleep, Wake
  <2> QED
    BY <2>1 DEF IInv, TypeOK, Started, Clock, Waits, Second
<1> QED
  BY <1>1, Invariance, PTL DEF Spec, AsksApart

-----------------------------------------------------------------------------
(* How long the loop goes on.  That it ends (Ends) needs fairness; that it *)
(* cannot go on for ever does not: every step uses up some of a number     *)
(* that is known when the call begins.                                     *)

\* Apart from the first request and the one at the deadline, every request
\* takes a second of the timeout.
RequestsBounded == attempts <= 1 \/ Second * (attempts - 2) < timeout

\* When the deadline was computed: at the first answer.
FirstAnswered == waitUntil - timeout

Paced ==
  /\ RequestsBounded
  /\ pc = "sleeping" => now < waitUntil
  /\ pc \in {"deciding", "sleeping"} =>
       now >= waitUntil \/ Second * (attempts - 1) <= now - FirstAnswered
  /\ pc = "asking" /\ attempts # 0 =>
       /\ Second * (attempts - 1) < timeout
       /\ asked >= waitUntil \/ Second * attempts <= asked - FirstAnswered

\* The arithmetic of a first answer, of a later one and of a wait.
LEMMA FirstAnswerAt == \A n, t \in Int : (n + t) - t = n /\ 16 * (1 - 1) <= n - n
  OBVIOUS

LEMMA AnswerAt ==
  ASSUME NEW n \in Int, NEW a \in Int, a <= n,
         NEW k \in Int, NEW w \in Int, NEW t \in Int,
         a >= w \/ 16 * k <= a - (w - t)
  PROVE  n >= w \/ 16 * ((k + 1) - 1) <= n - (w - t)
  OBVIOUS

LEMMA WaitOver ==
  ASSUME NEW n \in Int, NEW a \in Int, a <= n,
         NEW d \in Int, NEW m \in Int, n + d <= m,
         NEW k \in Int, NEW w \in Int, NEW t \in Int, n < w,
         d >= 16 \/ d = w - a, 16 * (k - 1) <= n - (w - t)
  PROVE  16 * (k - 1) < t /\ (m >= w \/ 16 * k <= m - (w - t))
  OBVIOUS

LEMMA InitPaced == Init => Paced
  BY DEF Init, Paced, RequestsBounded, FirstAnswered

LEMMA NextPaced == IInv /\ Paced /\ [Next]_vars => Paced'
<1> SUFFICES ASSUME IInv, Paced, [Next]_vars PROVE Paced'
  OBVIOUS
<1> USE BackoffAssumption DEF Second
<1>a. /\ TypeOK /\ Fresh /\ Started /\ Clock /\ Waits /\ SleepsForward
  BY DEF IInv
<1>b. /\ now \in Nat /\ asked \in Nat /\ attempts \in Nat /\ timeout \in Nat
      /\ waitUntil \in Int /\ waitTime \in Int
  BY <1>a DEF TypeOK
<1>1. CASE Settle \/ Raise \/ Return \/ UNCHANGED vars
  <2>1. /\ now' = now /\ asked' = asked /\ attempts' = attempts
        /\ timeout' = timeout /\ waitUntil' = waitUntil
        /\ pc' = pc \/ pc' \in {"raised", "returned"}
    BY <1>1 DEF Settle, Raise, Return, vars
  <2>2. RequestsBounded' /\ FirstAnswered' = FirstAnswered
    BY <2>1 DEF Paced, RequestsBounded, FirstAnswered
  <2> QED
    BY <2>1, <2>2, <1>b DEF Paced
<1>2. CASE Answer
  <2>1. /\ pc = "asking" /\ pc' = "deciding" /\ attempts' = attempts + 1
        /\ now' \in Nat /\ now <= now'
        /\ timeout' = timeout /\ asked' = asked
    BY <1>2, <1>b DEF Answer
  <2>2. /\ attempts = 0 => waitUntil' = now' + timeout
        /\ attempts # 0 => waitUntil' = waitUntil
    BY <1>2, Zenon DEF Answer
  <2>3. CASE attempts = 0
    <3>1. attempts' = 1 /\ waitUntil' = now' + timeout
      BY <2>1, <2>2, <2>3, <1>b
    <3>2. RequestsBounded'
      BY <3>1 DEF RequestsBounded
    <3>3. FirstAnswered' = now'
      <4>1. now' \in Int /\ timeout \in Int
        BY <2>1, <1>b
      <4>2. (now' + timeout) - timeout = now'
        BY <4>1, FirstAnswerAt, Zenon
      <4> QED
        BY <4>2, <3>1, <2>1 DEF FirstAnswered
    <3>4. Second * (attempts' - 1) <= now' - FirstAnswered'
      <4>1. now' \in Int /\ 0 \in Int
        BY <2>1
      <4>2. 16 * (1 - 1) <= now' - now'
        BY <4>1, FirstAnswerAt, Zenon
      <4> QED
        BY <4>2, <3>1, <3>3
    <3> QED
      BY <3>2, <3>4, <2>1 DEF Paced
  <2>4. CASE attempts # 0
    <3>1. /\ waitUntil' = waitUntil /\ asked <= now'
          /\ Second * (attempts - 1) < timeout
          /\ asked >= waitUntil \/ Second * attempts <= asked - (waitUntil - timeout)
      BY <2>1, <2>2, <2>4, <1>a, <1>b DEF Paced, Clock, FirstAnswered
    <3>2. RequestsBounded'
      BY <3>1, <2>1, <1>b DEF RequestsBounded
    <3>3. now' >= waitUntil \/ Second * (attempts' - 1) <= now' - (waitUntil - timeout)
      <4>1. now' \in Int /\ asked \in Int /\ attempts \in Int /\ timeout \in Int
        BY <2>1, <1>b
      <4>2. now' >= waitUntil \/ 16 * ((attempts + 1) - 1) <= now' - (waitUntil - timeout)
        BY <4>1, <3>1, <1>b, AnswerAt
      <4> QED
        BY <4>2, <2>1
    <3> QED
      BY <3>1, <3>2, <3>3, <2>1 DEF Paced, FirstAnswered
  <2> QED
    BY <2>3, <2>4
<1>3. CASE Sleep
  <2>1. /\ pc = "deciding" /\ pc' = "sleeping" /\ now < waitUntil
        /\ now' = now /\ attempts' = attempts
        /\ timeout' = timeout /\ waitUntil' = waitUntil
    BY <1>3 DEF Sleep
  <2>2. RequestsBounded' /\ FirstAnswered' = FirstAnswered
    BY <2>1 DEF Paced, RequestsBounded, FirstAnswered
  <2> QED
    BY <2>1, <2>2, <1>b DEF Paced
<1>4. CASE Wake
  <2>1. /\ pc = "sleeping" /\ pc' = "asking" /\ asked' = now'
        /\ now' \in Nat /\ now + waitTime <= now'
        /\ UNCHANGED <<timeout, waitUntil, attempts>>
    BY <1>4, <1>a, <1>b DEF Wake, SleepsForward
  <2>2. /\ attempts # 0 /\ now < waitUntil /\ asked <= now
        /\ waitTime >= Second \/ waitTime = waitUntil - asked
        /\ Second * (attempts - 1) <= now - (waitUntil - timeout)
    BY <2>1, <1>a, <1>b DEF Paced, Started, Waits, Clock, FirstAnswered
  <2>3. /\ Second * (attempts - 1) < timeout
        /\ now' >= waitUntil \/ Second * attempts <= now' - (waitUntil - timeout)
    <3>1. now' \in Int /\ now \in Int /\ asked \in Int /\ attempts \in Int /\ timeout \in Int
      BY <2>1, <1>b
    <3> QED
      BY <3>1, <2>1, <2>2, <1>b, WaitOver
  <2> QED
    BY <2>1, <2>3 DEF Paced, RequestsBounded, FirstAnswered
<1> QED
  BY <1>1, <1>2, <1>3, <1>4 DEF Next

\* submit() asks for the transaction no more often than submit_timeout has
\* seconds, and twice: at once and at the deadline.
THEOREM AsksBoundedly == Spec => []RequestsBounded
<1>1. Paced => RequestsBounded
  BY DEF Paced
<1> QED
  BY <1>1, Invariance, InitPaced, NextPaced, PTL DEF Spec

\* What is left of the call: three steps for every request it may still make,
\* and the rest of the round it is in.
Place ==
  CASE pc = "deciding" -> 3
    [] pc = "sleeping" -> 2
    [] pc = "asking" -> 1
    [] OTHER -> 0

Unsettled == IF settled = -1 THEN 1 ELSE 0

StepsLeft == 3 * (timeout + 2 - attempts) + Place + Unsettled

\* Every step, the network's one included, leaves less of the call than before.
EveryStepCounts == [][StepsLeft' < StepsLeft]_vars

LEMMA StepsCounted == IInv /\ Paced => StepsLeft \in Nat
<1> SUFFICES ASSUME IInv, Paced PROVE StepsLeft \in Nat
  OBVIOUS
<1>1. attempts \in Nat /\ timeout \in Nat
  BY BackoffAssumption DEF IInv, TypeOK
<1>2. Place \in Nat /\ Unsettled \in Nat
  BY DEF Place, Unsettled
<1>3. attempts <= timeout + 2
  BY <1>1 DEF Paced, RequestsBounded, Second
<1> QED
  BY <1>1, <1>2, <1>3 DEF StepsLeft

LEMMA StepsUsed == IInv /\ Next => StepsLeft' < StepsLeft
<1> SUFFICES ASSUME IInv, Next PROVE StepsLeft' < StepsLeft
  OBVIOUS
<1>a. attempts \in Int /\ timeout \in Int /\ settled \in Int /\ now \in Nat /\ Unsettled \in Int
  BY BackoffAssumption DEF IInv, TypeOK, Unsettled
<1>b. \A t, a, u, p, q \in Int : q < p => 3 * (t + 2 - a) + q + u < 3 * (t + 2 - a) + p + u
  OBVIOUS
<1>1. CASE Settle
  <2>1. settled = -1 /\ settled' = now
        /\ pc' = pc /\ attempts' = attempts /\ timeout' = timeout
    BY <1>1 DEF Settle
  <2>2. Unsettled = 1 /\ Unsettled' = 0 /\ Place' = Place /\ Place \in Int
    BY <2>1, <1>a DEF Unsettled, Place
  <2> QED
    BY <2>1, <2>2, <1>a DEF StepsLeft
<1>2. CASE Answer
  <2>1. /\ Place = 1 /\ Place' = 3 /\ attempts' = attempts + 1
        /\ timeout' = timeout /\ settled' = settled
    BY <1>2 DEF Answer, Place
  <2>2. Unsettled' = Unsettled
    BY <2>1 DEF Unsettled
  <2>3. \A t, a, u \in Int : 3 * (t + 2 - (a + 1)) + 3 + u < 3 * (t + 2 - a) + 1 + u
    OBVIOUS
  <2> QED
    BY <2>1, <2>2, <2>3, <1>a DEF StepsLeft
<1>3. CASE Raise \/ Return \/ Sleep \/ Wake
  <2>1. /\ attempts' = attempts /\ timeout' = timeout /\ settled' = settled
        /\ Place' < Place /\ Place' \in Int /\ Place \in Int
    BY <1>3 DEF Raise, Return, Sleep, Wake, Place
  <2>2. Unsettled' = Unsettled
    BY <2>1 DEF Unsettled
  <2> QED
    BY <2>1, <2>2, <1>a, <1>b DEF StepsLeft
<1> QED
  BY <1>1, <1>2, <1>3 DEF Next

\* The polling of submit() is never endless: from the start it has a number of
\* steps left, of which each one it takes uses up some.  With the fairness of
\* FairSpec, under which one of them is always taken, this is why it Ends.
THEOREM NeverEndless == Spec => [](StepsLeft \in Nat) /\ EveryStepCounts
<1>1. Spec => [](IInv /\ Paced)
  BY Invariance, InitPaced, NextPaced, PTL DEF Spec
<1>2. IInv /\ [Next]_vars => [StepsLeft' < StepsLeft]_vars
  BY StepsUsed
<1> QED
  BY <1>1, <1>2, StepsCounted, PTL DEF Spec, EveryStepCounts

=============================================================================
