-------------------------- MODULE EventStreamProofs --------------------------
(***************************************************************************)
(* The safety of EventStream for a collection of any length, any first     *)
(* cursor and any number of timeouts and reconnections.                    *)
(***************************************************************************)
EXTENDS EventStream, TLAPS

\* Before the first connection nothing has happened; after it the stream has a
\* place in the collection at which it last began.
Began ==
  /\ opened = -1 => conn = "closed" /\ from = -1 /\ delivered = <<>>
  /\ opened # -1 => opened \in Nat /\ from \in Nat /\ from <= Upto

\* No cursor is past the end of the collection.
Inside == Upto <= Len(log) /\ (cursor \in Nat => cursor <= Len(log))

\* An open connection has read up to the cursor of the next request.
Connected == conn # "closed" => read = Upto /\ read <= sent /\ sent <= Len(log)

IInv == TypeOK /\ Began /\ Inside /\ Connected /\ OnceInOrder

-----------------------------------------------------------------------------
LEMMA InitIInv == Init => IInv
<1> SUFFICES ASSUME Init PROVE IInv
  OBVIOUS
<1>l. log \in Seq({"json", "other"}) /\ Len(log) \in Nat /\ Len(log) <= 1
  <2>1. log = <<>> \/ log = <<"json">>
    BY DEF Init
  <2>2. <<>> \in Seq({"json", "other"}) /\ Len(<<>>) = 0
    OBVIOUS
  <2>3. <<"json">> \in Seq({"json", "other"}) /\ Len(<<"json">>) = 1
    <3>1. <<"json">> = Append(<<>>, "json")
      OBVIOUS
    <3> QED
      BY <3>1
  <2>4. CASE log = <<>>
    BY <2>4, <2>2
  <2>5. CASE log = <<"json">>
    BY <2>5, <2>3
  <2> QED
    BY <2>1, <2>4, <2>5
<1>1. /\ cursor \in Cursors /\ (cursor \in Nat => cursor <= Len(log))
      /\ conn = "closed" /\ sent = 0 /\ read = 0 /\ delivered = <<>>
      /\ outcome = "running" /\ opened = -1 /\ from = -1
  BY EventStreamAssumption DEF Init, Cursors
<1>2. Upto = -1
  BY <1>1 DEF Upto
<1>3. TypeOK
  BY <1>l, <1>1, EventStreamAssumption DEF TypeOK
<1>4. Began /\ Inside /\ Connected
  BY <1>l, <1>1, <1>2 DEF Began, Inside, Connected
<1>5. OnceInOrder
  BY <1>1, <1>2 DEF OnceInOrder, Yielded
<1> QED
  BY <1>3, <1>4, <1>5 DEF IInv

LEMMA NextIInv == IInv /\ [Next]_vars => IInv'
<1> SUFFICES ASSUME IInv, [Next]_vars PROVE IInv'
  OBVIOUS
<1>a. TypeOK /\ Began /\ Inside /\ Connected /\ OnceInOrder
  BY DEF IInv
<1>b. /\ log \in Seq({"json", "other"}) /\ Len(log) \in Nat /\ delivered \in Seq(Nat)
      /\ sent \in Nat /\ read \in Nat /\ opened \in Int /\ from \in Int /\ Upto \in Int
  BY <1>a DEF TypeOK, Upto
<1>1. CASE Produce
  <2>1. /\ Len(log) < MaxEvents /\ Len(log') = Len(log) + 1
        /\ log' \in Seq({"json", "other"})
        /\ \A e \in 1..Len(log) : log'[e] = log[e]
        /\ UNCHANGED <<cursor, conn, sent, read, delivered, outcome, opened, from>>
    BY <1>1, <1>b DEF Produce
  <2>2. Upto' = Upto /\ Yielded' = Yielded
    BY <2>1 DEF Upto, Yielded
  <2>3. TypeOK'
    BY <2>1, <1>a, <1>b, EventStreamAssumption DEF TypeOK
  <2>4. Began' /\ Inside' /\ Connected'
    BY <2>1, <2>2, <1>a, <1>b DEF Began, Inside, Connected
  <2>5. \A e \in from + 1 .. Upto : log'[e] = log[e]
    <3>1. from + 1 >= 1 \/ Upto = from
      BY <1>a, <1>b DEF Began, Upto
    <3> QED
      BY <3>1, <2>1, <1>a, <1>b DEF Inside
  <2>6. OnceInOrder'
    BY <2>1, <2>2, <2>5, <1>a DEF OnceInOrder
  <2> QED
    BY <2>3, <2>4, <2>6 DEF IInv
<1>2. CASE ServerSends
  <2>1. /\ conn # "closed" /\ sent < Len(log) /\ sent' = sent + 1
        /\ UNCHANGED <<log, cursor, conn, read, delivered, outcome, opened, from>>
    BY <1>2 DEF ServerSends
  <2>2. Upto' = Upto /\ Yielded' = Yielded
    BY <2>1 DEF Upto, Yielded
  <2> QED
    BY <2>1, <2>2, <1>a, <1>b DEF IInv, TypeOK, Began, Inside, Connected, OnceInOrder
<1>3. CASE Connect
  <2> DEFINE p == Position(cursor)
  <2>0. p \in Nat /\ p <= Len(log) /\ (cursor \in Nat => p = cursor)
    BY <1>a, <1>b, EventStreamAssumption DEF Position, TypeOK, Cursors, Inside
  <2> HIDE DEF p
  <2>1. /\ conn' = "open" /\ sent' = p /\ read' = p
        /\ UNCHANGED <<log, cursor, delivered, outcome>>
    BY <1>3 DEF Connect, p
  <2>2. opened' \in Nat /\ (opened # -1 => opened' = opened)
    BY <1>3, <2>0, <1>a DEF Connect, p, TypeOK
  <2>3. IF opened = -1 \/ cursor \notin Nat THEN from' = p ELSE from' = from
    BY <1>3 DEF Connect, p
  <2>4. Upto' = p /\ Yielded' = Yielded
    BY <2>0, <2>1, <2>2, <2>3 DEF Upto, Yielded
  <2>5. from' \in Nat /\ from' <= p
    BY <2>0, <2>3, <1>a DEF Began, Upto
  <2>6. TypeOK'
    BY <2>0, <2>1, <2>2, <2>5, <1>a DEF TypeOK
  <2>7. Began' /\ Inside' /\ Connected'
    BY <2>0, <2>1, <2>2, <2>4, <2>5, <1>a DEF Began, Inside, Connected
  <2>8. OnceInOrder'
    <3>1. CASE opened = -1 \/ cursor \notin Nat
      <4>1. Yielded = {}
        BY <3>1, <1>a, <1>b DEF OnceInOrder, Upto
      <4>2. from' = p
        BY <3>1, <2>3
      <4>3. {e \in from' + 1 .. Upto' : log'[e] = "json"} = {}
        BY <4>2, <2>4, <2>0
      <4> QED
        BY <4>1, <4>3, <2>1, <2>4, <1>a DEF OnceInOrder
    <3>2. CASE opened # -1 /\ cursor \in Nat
      BY <3>2, <2>0, <2>1, <2>3, <2>4, <1>a DEF OnceInOrder, Upto
    <3> QED
      BY <3>1, <3>2
  <2> QED
    BY <2>6, <2>7, <2>8 DEF IInv
<1>4. CASE ReceiveHello
  <2>1. /\ conn = "open" /\ conn' = "greeted"
        /\ UNCHANGED <<log, cursor, sent, read, delivered, outcome, opened, from>>
    BY <1>4 DEF ReceiveHello
  <2>2. Upto' = Upto /\ Yielded' = Yielded
    BY <2>1 DEF Upto, Yielded
  <2> QED
    BY <2>1, <2>2, <1>a, <1>b DEF IInv, TypeOK, Began, Inside, Connected, OnceInOrder
<1>5. CASE ReceiveEvent
  <2>1. /\ conn = "greeted" /\ read < sent /\ read' = read + 1 /\ cursor' = read + 1
        /\ UNCHANGED <<log, conn, sent, outcome, opened, from>>
    BY <1>5 DEF ReceiveEvent
  <2>2. /\ read = Upto /\ sent <= Len(log) /\ opened # -1 /\ from \in Nat /\ from <= read
        /\ read + 1 \in Nat
    BY <2>1, <1>a, <1>b DEF Connected, Began
  <2>3. Upto' = read + 1
    BY <2>1, <2>2 DEF Upto
  <2>4. Began' /\ Inside' /\ Connected'
    BY <2>1, <2>2, <2>3, <1>a, <1>b DEF Began, Inside, Connected
  <2>5. \A i \in 1..Len(delivered) : delivered[i] <= read
    BY <2>2, <1>a, <1>b DEF OnceInOrder, Yielded
  <2>6. CASE log[read + 1] = "json"
    <3>1. delivered' = Append(delivered, read + 1)
      BY <1>5, <2>6 DEF ReceiveEvent
    <3>2. /\ delivered' \in Seq(Nat) /\ Len(delivered') = Len(delivered) + 1
          /\ \A i \in 1..Len(delivered) : delivered'[i] = delivered[i]
          /\ delivered'[Len(delivered) + 1] = read + 1
      BY <3>1, <2>2, <1>b
    <3>3. TypeOK'
      BY <3>2, <2>1, <2>2, <1>a DEF TypeOK, Cursors
    <3>4. \A i, j \in 1..Len(delivered') : i < j => delivered'[i] < delivered'[j]
      <4> SUFFICES ASSUME NEW i \in 1..Len(delivered'), NEW j \in 1..Len(delivered'), i < j
                   PROVE  delivered'[i] < delivered'[j]
        OBVIOUS
      <4>0. i \in 1..Len(delivered) + 1 /\ j \in 1..Len(delivered) + 1
        BY <3>2
      <4>1. i \in 1..Len(delivered) /\ delivered'[i] = delivered[i]
        <5>1. i \in 1..Len(delivered)
          BY <4>0, <1>b
        <5> QED
          BY <5>1, <3>2
      <4>2. CASE j = Len(delivered) + 1
        BY <4>1, <4>2, <3>2, <2>2, <2>5, <1>b
      <4>3. CASE j # Len(delivered) + 1
          <5>1. j \in 1..Len(delivered)
            BY <4>0, <4>3, <1>b
          <5> QED
            BY <4>1, <5>1, <3>2, <1>a DEF OnceInOrder
      <4> QED
        BY <4>2, <4>3
    <3>5. Yielded' = Yielded \cup {read + 1}
      <4>1. 1..Len(delivered') = 1..Len(delivered) \cup {Len(delivered) + 1}
        BY <3>2, <1>b
      <4>2. Yielded' = {delivered'[i] : i \in 1..Len(delivered')}
        BY DEF Yielded
      <4>3. Yielded' = {delivered'[i] : i \in 1..Len(delivered)} \cup {read + 1}
        BY <4>1, <4>2, <3>2
      <4> QED
        BY <4>3, <3>2 DEF Yielded
    <3>6. Yielded' = {e \in from' + 1 .. Upto' : log'[e] = "json"}
      BY <3>5, <2>1, <2>2, <2>3, <2>6, <1>a, <1>b DEF OnceInOrder
    <3> QED
      BY <3>3, <3>4, <3>6, <2>4 DEF IInv, OnceInOrder
  <2>7. CASE log[read + 1] # "json"
    <3>1. delivered' = delivered
      BY <1>5, <2>7 DEF ReceiveEvent
    <3>2. TypeOK'
      BY <3>1, <2>1, <2>2, <1>a DEF TypeOK, Cursors
    <3>3. Yielded' = {e \in from' + 1 .. Upto' : log'[e] = "json"}
      BY <3>1, <2>1, <2>2, <2>3, <2>7, <1>a, <1>b DEF OnceInOrder, Yielded
    <3> QED
      BY <3>1, <3>2, <3>3, <2>4, <1>a DEF IInv, OnceInOrder
  <2> QED
    BY <2>6, <2>7
<1>6. CASE StreamEnds \/ Timeout
  <2>1. conn' = "closed" /\ UNCHANGED <<log, cursor, sent, read, delivered, outcome, opened, from>>
    BY <1>6 DEF StreamEnds, Timeout
  <2>2. Upto' = Upto /\ Yielded' = Yielded
    BY <2>1 DEF Upto, Yielded
  <2> QED
    BY <2>1, <2>2, <1>a, <1>b DEF IInv, TypeOK, Began, Inside, Connected, OnceInOrder
<1>7. CASE Failure
  <2>1. /\ conn' = "closed" /\ outcome' \in {"KeyError", "StreamClientError"}
        /\ UNCHANGED <<log, cursor, sent, read, delivered, opened, from>>
    BY <1>7 DEF Failure
  <2>2. Upto' = Upto /\ Yielded' = Yielded
    BY <2>1 DEF Upto, Yielded
  <2> QED
    BY <2>1, <2>2, <1>a, <1>b DEF IInv, TypeOK, Began, Inside, Connected, OnceInOrder
<1>8. CASE UNCHANGED vars
  <2>1. Upto' = Upto /\ Yielded' = Yielded
    BY <1>8 DEF vars, Upto, Yielded
  <2> QED
    BY <1>8, <2>1, <1>a DEF vars, IInv, TypeOK, Began, Inside, Connected, OnceInOrder
<1> QED
  BY <1>1, <1>2, <1>3, <1>4, <1>5, <1>6, <1>7, <1>8 DEF Next

LEMMA Invariance == Spec => []IInv
BY InitIInv, NextIInv, PTL DEF Spec

-----------------------------------------------------------------------------
\* The generator's cursor, connection and exceptions keep their types.
THEOREM TypeCorrect == Spec => []TypeOK
<1>1. IInv => TypeOK
  BY DEF IInv
<1> QED
  BY <1>1, Invariance, PTL

\* stream() yields the events with JSON data once each and in order, whatever
\* timeouts and reconnections come in between.
THEOREM DeliveredOnceInOrder == Spec => []OnceInOrder
<1>1. IInv => OnceInOrder
  BY DEF IInv
<1> QED
  BY <1>1, Invariance, PTL

-----------------------------------------------------------------------------
(* What a reconnection can lose, and what the error handler finds.          *)

\* No event before the first cursor, which is missing until an event came.
Placed ==
  /\ opened # -1 /\ cursor = NoCursor => from = 0
  /\ outcome = "KeyError" => cursor = NoCursor

LEMMA InitPlaced == Init => Placed
  BY DEF Init, Placed

LEMMA NextPlaced == IInv /\ Placed /\ [Next]_vars => Placed'
<1> SUFFICES ASSUME IInv, Placed, [Next]_vars PROVE Placed'
  OBVIOUS
<1>a. TypeOK /\ Began /\ Connected
  BY DEF IInv
<1>1. CASE Connect
  <2>1. cursor = NoCursor => cursor \notin Nat /\ Position(cursor) = 0
    BY EventStreamAssumption DEF Position
  <2> QED
    BY <1>1, <2>1 DEF Connect, Placed
<1>2. CASE ReceiveEvent
  <2>1. cursor' = read + 1 /\ outcome' = "running"
    BY <1>2 DEF ReceiveEvent
  <2>2. read + 1 \in Nat
    BY <1>a DEF TypeOK
  <2>3. cursor' # NoCursor
    BY <2>1, <2>2, EventStreamAssumption
  <2> QED
    BY <2>1, <2>3 DEF Placed
<1>3. CASE Failure
  BY <1>3 DEF Failure, Placed
<1>4. CASE Produce \/ ServerSends \/ ReceiveHello \/ StreamEnds \/ Timeout \/ UNCHANGED vars
  BY <1>4 DEF Produce, ServerSends, ReceiveHello, StreamEnds, Timeout, vars, Placed
<1> QED
  BY <1>1, <1>2, <1>3, <1>4 DEF Next

LEMMA PlacedAlways == Spec => [](IInv /\ Placed)
BY InitIInv, NextIInv, InitPlaced, NextPlaced, PTL DEF Spec

\* Without a position in the cursor nothing has been yielded.
LEMMA NothingYielded ==
  ASSUME IInv, cursor \notin Nat
  PROVE  delivered = <<>>
<1>1. /\ delivered \in Seq(Nat) /\ from \in Int
      /\ Yielded = {e \in from + 1 .. from : log[e] = "json"}
  BY DEF IInv, TypeOK, OnceInOrder, Upto
<1>2. Yielded = {}
  BY <1>1
<1>3. ~(1 \in 1..Len(delivered))
  BY <1>2 DEF Yielded
<1>4. Len(delivered) = 0
  BY <1>1, <1>3
<1> QED
  BY <1>1, <1>4

\* The stream begins anew, and leaves out the events up to there, only if its
\* caller asked for "now" and no event came before the timeout.
NowSkips == from' # from /\ from # -1 => from' > from /\ cursor = Now /\ delivered = <<>>

\* Reconnecting loses events in that case only, the handler of a timeout keeping
\* the caller's cursor: from any other cursor stream() goes on where it was.
THEOREM SkipsOnlyUnderNow == Spec => [][NowSkips]_vars
<1>1. IInv /\ Placed /\ [Next]_vars => [NowSkips]_vars
  <2> SUFFICES ASSUME IInv, Placed, Next, from' # from, from # -1
               PROVE  from' > from /\ cursor = Now /\ delivered = <<>>
    BY DEF NowSkips, vars
  <2>1. Connect
    BY DEF Next, Produce, ServerSends, ReceiveHello, ReceiveEvent, StreamEnds, Timeout, Failure
  <2>2. opened # -1
    BY DEF IInv, Began
  <2>3. cursor \notin Nat /\ from' = Position(cursor)
    BY <2>1, <2>2 DEF Connect
  <2>4. cursor # NoCursor
    BY <2>2, <2>3 DEF Placed, Position
  <2>5. cursor = Now
    BY <2>3, <2>4 DEF IInv, TypeOK, Cursors
  <2>6. from' = Len(log)
    BY <2>3, <2>5, EventStreamAssumption DEF Position
  <2>7. from \in Nat /\ from <= Len(log) /\ Len(log) \in Nat
    BY <2>2, <2>3 DEF IInv, TypeOK, Began, Inside, Upto
  <2>8. from' > from
    BY <2>6, <2>7
  <2> QED
    BY <2>3, <2>5, <2>8, NothingYielded
<1>2. QED
  BY <1>1, PlacedAlways, PTL DEF Spec

\* The error handler's own query_params["cursor"] raises KeyError only in a
\* stream() without a cursor that failed before it yielded anything.
KeyErrorAtFirst == outcome = "KeyError" => cursor = NoCursor /\ delivered = <<>>

THEOREM KeyErrorOnlyAtFirst == Spec => []KeyErrorAtFirst
<1>1. IInv /\ Placed => KeyErrorAtFirst
  <2>1. NoCursor \notin Nat
    BY EventStreamAssumption
  <2> QED
    BY <2>1, NothingYielded DEF Placed, KeyErrorAtFirst
<1>2. QED
  BY <1>1, PlacedAlways, PTL

\* Once the cursor is a position it stays one and never moves back: no timeout
\* and no reconnection asks the server for an event again.
Onward == cursor \in Nat => cursor' \in Nat /\ cursor' >= cursor

THEOREM CursorMovesOn == Spec => [][Onward]_vars
<1>1. IInv /\ [Next]_vars => [Onward]_vars
  <2> SUFFICES ASSUME IInv, Next, cursor \in Nat
               PROVE  cursor' \in Nat /\ cursor' >= cursor
    BY DEF Onward
  <2>1. CASE ReceiveEvent
    <3>1. conn # "closed" /\ cursor' = read + 1
      BY <2>1 DEF ReceiveEvent
    <3>2. read = cursor
      BY <3>1 DEF IInv, Connected, Began, Upto
    <3> QED
      BY <3>1, <3>2
  <2>2. CASE UNCHANGED cursor
    BY <2>2
  <2> QED
    BY <2>1, <2>2 DEF Next, Produce, ServerSends, Connect, ReceiveHello, StreamEnds, Timeout, Failure
<1>2. QED
  BY <1>1, Invariance, PTL DEF Spec

=============================================================================
