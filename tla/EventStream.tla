----------------------------- MODULE EventStream -----------------------------
(***************************************************************************)
(* client/requests_client.py and client/aiohttp_client.py: stream(), the   *)
(* generator that follows a Horizon collection with server-sent events and *)
(* opens the stream again, from the last event it saw, after a timeout.    *)
(* An event is its position in the collection.                             *)
(***************************************************************************)
EXTENDS Integers, Sequences

CONSTANTS
  MaxEvents,   \* bound: the length the collection grows to
  FirstCursors, \* the cursors stream() may be called with
  NoCursor, Now \* no cursor at all, and the cursor "now"

ASSUME EventStreamAssumption ==
  /\ MaxEvents \in Nat
  /\ NoCursor # Now /\ NoCursor \notin Int /\ Now \notin Int
  /\ FirstCursors \subseteq {NoCursor, Now} \cup Nat

VARIABLES
  log,       \* the collection; an event's data is JSON or something else
  cursor,    \* query_params["cursor"]: a position, Now, or NoCursor
  conn,      \* "closed", "open", or "greeted" once "hello" was received
  sent,      \* the last event sent on the connection
  read,      \* the last event received on it
  delivered, \* the events yielded, in order
  outcome,   \* "running", or the exception the generator ended with
  opened,    \* history: where the stream first began, or -1
  from       \* history: where it last began without a position in its cursor

vars == <<log, cursor, conn, sent, read, delivered, outcome, opened, from>>

Cursors == {NoCursor, Now} \cup Nat

\* Where the server begins, given the cursor of the request.
Position(cur) ==
  IF cur = NoCursor THEN 0 ELSE IF cur = Now THEN Len(log) ELSE cur

-----------------------------------------------------------------------------
Init ==
  /\ log \in {<<>>, <<"json">>}
  /\ cursor \in {cur \in FirstCursors : cur \in Nat => cur <= Len(log)}
  /\ conn = "closed" /\ sent = 0 /\ read = 0
  /\ delivered = <<>> /\ outcome = "running"
  /\ opened = -1 /\ from = -1

Produce ==
  /\ Len(log) < MaxEvents
  /\ \E data \in {"json", "other"} : log' = Append(log, data)
  /\ UNCHANGED <<cursor, conn, sent, read, delivered, outcome, opened, from>>

\* The server sends "hello", then the events after the cursor as they appear.
ServerSends ==
  /\ conn # "closed" /\ sent < Len(log)
  /\ sent' = sent + 1
  /\ UNCHANGED <<log, cursor, conn, read, delivered, outcome, opened, from>>

\* Mutant of Connect: each reconnection starts from the caller's cursor.
ConnectFromFirst ==
  /\ outcome = "running" /\ conn = "closed"
  /\ conn' = "open"
  /\ LET start == IF opened = -1 THEN Position(cursor) ELSE opened
     IN /\ sent' = start /\ read' = start
        /\ opened' = start
        /\ from' = IF opened = -1 \/ cursor \notin Nat THEN start ELSE from
  /\ UNCHANGED <<log, cursor, delivered, outcome>>

Connect ==
  /\ outcome = "running" /\ conn = "closed"
  /\ conn' = "open"
  /\ sent' = Position(cursor) /\ read' = Position(cursor)
  /\ opened' = IF opened = -1 THEN Position(cursor) ELSE opened
  /\ from' = IF opened = -1 \/ cursor \notin Nat THEN Position(cursor) ELSE from
  /\ UNCHANGED <<log, cursor, delivered, outcome>>

\* "hello" has no id and no data for the caller.
ReceiveHello ==
  /\ outcome = "running" /\ conn = "open"
  /\ conn' = "greeted"
  /\ UNCHANGED <<log, cursor, sent, read, delivered, outcome, opened, from>>

\* Mutant of ReceiveEvent: the cursor moves only when the data is JSON.
ReceiveEventJsonCursor ==
  /\ outcome = "running" /\ conn = "greeted" /\ read < sent
  /\ read' = read + 1
  /\ cursor' = IF log[read + 1] = "json" THEN read + 1 ELSE cursor
  /\ delivered' = IF log[read + 1] = "json" THEN Append(delivered, read + 1) ELSE delivered
  /\ UNCHANGED <<log, conn, sent, outcome, opened, from>>

\* Mutant of ReceiveEvent: data that is not JSON ends the generator.
ReceiveEventOnlyJson ==
  /\ outcome = "running" /\ conn = "greeted" /\ read < sent
  /\ read' = read + 1
  /\ cursor' = read + 1
  /\ IF log[read + 1] = "json"
     THEN delivered' = Append(delivered, read + 1) /\ UNCHANGED outcome
     ELSE outcome' = "JSONDecodeError" /\ UNCHANGED delivered
  /\ UNCHANGED <<log, conn, sent, opened, from>>

\* The cursor moves before the data is decoded and yielded.
ReceiveEvent ==
  /\ outcome = "running" /\ conn = "greeted" /\ read < sent
  /\ read' = read + 1
  /\ cursor' = read + 1
  /\ delivered' = IF log[read + 1] = "json" THEN Append(delivered, read + 1) ELSE delivered
  /\ UNCHANGED <<log, conn, sent, outcome, opened, from>>

\* The server says "byebye", which has no id either, and the stream ends.
StreamEnds ==
  /\ outcome = "running" /\ conn = "greeted" /\ read = sent
  /\ conn' = "closed"
  /\ UNCHANGED <<log, cursor, sent, read, delivered, outcome, opened, from>>

\* A timeout while connecting or reading; what was not read is lost.
Timeout ==
  /\ outcome = "running"
  /\ conn' = "closed"
  /\ UNCHANGED <<log, cursor, sent, read, delivered, outcome, opened, from>>

\* Any other transport error ends the generator.
Failure ==
  /\ outcome = "running"
  /\ outcome' = IF cursor = NoCursor THEN "KeyError" ELSE "StreamClientError"
  /\ conn' = "closed"
  /\ UNCHANGED <<log, cursor, sent, read, delivered, opened, from>>

Next ==
  \/ Produce \/ ServerSends
  \/ Connect \/ ReceiveHello \/ ReceiveEvent
  \/ StreamEnds \/ Timeout \/ Failure

Spec == Init /\ [][Next]_vars

\* The caller goes on iterating, and a server that is connected over and over
\* again sends what it has.
FairSpec ==
  /\ Spec
  /\ WF_vars(Connect) /\ WF_vars(ReceiveHello) /\ WF_vars(ReceiveEvent)
  /\ SF_vars(ServerSends)

-----------------------------------------------------------------------------
(* Properties *)

\* Every variable keeps its type.
TypeOK ==
  /\ log \in Seq({"json", "other"}) /\ Len(log) <= MaxEvents + 1
  /\ cursor \in Cursors
  /\ conn \in {"closed", "open", "greeted"}
  /\ sent \in Nat /\ read \in Nat
  /\ delivered \in Seq(Nat)
  /\ outcome \in {"running", "StreamClientError", "KeyError"}
  /\ opened \in Nat \cup {-1} /\ from \in Nat \cup {-1}

\* The position after which nothing was received yet.
Upto == IF cursor \in Nat /\ opened # -1 THEN cursor ELSE from

Yielded == {delivered[i] : i \in 1..Len(delivered)}

\* Over any number of timeouts and reconnections the caller gets the events
\* with JSON data since the stream began, each once and in order.
OnceInOrder ==
  /\ \A i, j \in 1..Len(delivered) : i < j => delivered[i] < delivered[j]
  /\ Yielded = {e \in from + 1 .. Upto : log[e] = "json"}

\* The connection is lost with something on its way.
Cut == conn' = "closed" /\ (conn = "open" \/ (conn = "greeted" /\ read < sent))

\* When timeouts at last spare what is on its way, every event with JSON data
\* that appears after the stream began is delivered, unless stream() raises.
EveryEventDelivered ==
  <>[][~Cut]_vars => \A e \in 1..MaxEvents :
    opened # -1 /\ opened < e /\ e <= Len(log) /\ log[e] = "json"
      ~> e \in Yielded \/ e <= from \/ outcome \in {"StreamClientError", "KeyError"}

=============================================================================
