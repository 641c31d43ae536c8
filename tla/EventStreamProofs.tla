------------------------- MODULE EventStreamProofs --------------------------
(***************************************************************************)
(* What a client sees of a run, for any number of events, reconnections and *)
(* faults and any limit of a read.                                          *)
(*                                                                          *)
(* That nothing is missed without a hole in the mirror is not inductive: an *)
(* event is missed when the cursor passes it, and the cursor moves to what  *)
(* was read earlier.  The invariant says of every batch that between the    *)
(* cursor and its members only holes are left out (NoGaps), which needs     *)
(* that the mirror's gaps are recorded when they come up (GapsAreHoles).    *)
(*                                                                          *)
(* That a client that gave up was offered the run's end counts connections: *)
(* each one that was closed rather than lost has brought ReadLimit more     *)
(* events or the last one (Served), because the rows were read after the    *)
(* status (Offered).                                                        *)
(***************************************************************************)
EXTENDS EventStream, TLAPS

\* Everything that can be read is committed.
Committed == mirror \cup publishing \cup batch \subseteq 1..last

Ahead == \A e \in batch : cursor < e

Behind == received \subseteq 1..cursor /\ cursor <= last

GapsAreHoles == Overtaken(mirror) \subseteq holes

NoGaps ==
    \A e \in batch : \A f \in Sequence :
        cursor < f /\ f < e => f \in batch \/ f \in holes

\* The Boolean part of TypeOK.
Flags == ended \in BOOLEAN /\ redis \in BOOLEAN /\ closing \in BOOLEAN

Inv ==
    /\ TypeOK /\ Committed /\ Ahead /\ Behind /\ GapsAreHoles /\ NoGaps
    /\ MissedOnlyByMirror

-----------------------------------------------------------------------------
\* The invariant holds when the run is created.
LEMMA InitInv == Init => Inv
<1> SUFFICES ASSUME Init PROVE Inv
  OBVIOUS
<1>1. TypeOK
  <2>1. Flags
    BY Zenon DEF Init, Flags
  <2>2. last \in Sequence /\ cancelled \in 0..MaxEvents /\ cursor \in 0..MaxEvents
        /\ reconnects \in 0..MaxReconnects /\ faults \in 0..MaxFaults
        /\ lastAtEnd \in 0..MaxEvents
    BY StreamAssumption DEF Init, Sequence
  <2> QED
    BY <2>1, <2>2 DEF Init, TypeOK, Flags
<1>2. Committed /\ Ahead /\ Behind /\ NoGaps /\ MissedOnlyByMirror
  BY DEF Init, Committed, Ahead, Behind, NoGaps, MissedOnlyByMirror
<1>3. GapsAreHoles
  BY DEF Init, GapsAreHoles, Overtaken
<1> QED
  BY <1>1, <1>2, <1>3 DEF Inv

\* A step of a writer, of the mirror or of Redis: what is read stays, the
\* mirror may change if its gaps are recorded.
LEMMA WriterStep ==
    ASSUME Inv, UNCHANGED <<batch, cursor, received>>,
           TypeOK', last <= last', holes \subseteq holes',
           mirror' \cup publishing' \subseteq 1..last',
           GapsAreHoles'
    PROVE  Inv'
<1>1. Committed' /\ Behind'
  BY DEF Inv, TypeOK, Sequence, Committed, Behind
<1>2. Ahead' /\ NoGaps' /\ MissedOnlyByMirror'
  BY DEF Inv, Ahead, NoGaps, MissedOnlyByMirror
<1> QED
  BY <1>1, <1>2 DEF Inv

\* A step of the subscription that delivers nothing: it may replace the batch.
LEMMA ReaderStep ==
    ASSUME Inv, UNCHANGED <<last, mirror, publishing, holes, cursor, received>>,
           TypeOK', batch' \subseteq 1..last, Ahead', NoGaps'
    PROVE  Inv'
<1>1. Committed' /\ Behind' /\ MissedOnlyByMirror'
  BY DEF Inv, Committed, Behind, MissedOnlyByMirror
<1>2. GapsAreHoles'
  BY DEF Inv, GapsAreHoles, Overtaken
<1> QED
  BY <1>1, <1>2 DEF Inv

\* Every step keeps the shape of the state.
LEMMA TypeStep == TypeOK /\ [Next]_vars => TypeOK'
<1> SUFFICES ASSUME TypeOK, [Next]_vars PROVE TypeOK'
  OBVIOUS
<1> USE StreamAssumption DEF TypeOK, Sequence
<1>1. CASE StepEvent
  <2>1. Flags'
    BY <1>1, Zenon DEF StepEvent, sub, Flags
  <2>2. last' \in Sequence /\ publishing' \subseteq Sequence
        /\ lastAtEnd' \in 0..MaxEvents
    BY <1>1 DEF StepEvent
  <2> QED
    BY <1>1, <2>1, <2>2 DEF StepEvent, sub, user, Flags
<1>2. CASE CancelRun
  BY <1>2 DEF CancelRun, sub, user
<1>3. ASSUME NEW e \in publishing, Publish(e) PROVE TypeOK'
  BY <1>3 DEF Publish, Mirror, Overtaken, server, sub, user
<1>4. ASSUME NEW e \in publishing, PublishFails(e) PROVE TypeOK'
  BY <1>4 DEF PublishFails, Fault, server, sub, user
<1>5. CASE RedisFails
  <2>1. Flags'
    BY <1>5, Zenon DEF RedisFails, server, sub, Flags
  <2>2. faults' \in 0..MaxFaults
    BY <1>5 DEF RedisFails, Fault
  <2> QED
    BY <1>5, <2>1, <2>2 DEF RedisFails, server, sub, user, Flags
<1>6. CASE RedisReturns
  BY <1>6 DEF RedisReturns, Mirror, Overtaken, server, sub, user
<1>7. CASE Disconnect
  BY <1>7 DEF Disconnect, Reconnect, Fault, server, cache
<1>8. CASE Connect \/ ReadStatus \/ LookAtMirror \/ LookAtTable
  BY <1>8 DEF Connect, ReadStatus, LookAtMirror, LookAtTable, server, cache, user
<1>9. CASE ReadTable
  BY <1>9 DEF ReadTable, server, cache, user
<1>10. CASE ReadMirror
  BY <1>10 DEF ReadMirror, server, cache, user
<1>11. CASE CloseStream
  BY <1>11 DEF CloseStream, Reconnect, server, cache
<1>12. ASSUME NEW e \in batch, Deliver(e) PROVE TypeOK'
  BY <1>12 DEF Deliver, server, cache
<1>13. CASE UNCHANGED vars
  BY <1>13 DEF vars
<1> QED
  BY <1>1, <1>2, <1>3, <1>4, <1>5, <1>6, <1>7, <1>8, <1>9, <1>10, <1>11,
     <1>12, <1>13 DEF Next, Subscription

\* Every step keeps the invariant.
LEMMA Inductive == Inv /\ [Next]_vars => Inv'
<1> SUFFICES ASSUME Inv, [Next]_vars PROVE Inv'
  OBVIOUS
<1>0. TypeOK /\ TypeOK'
  BY TypeStep DEF Inv
<1>1. CASE StepEvent
  <2>1. GapsAreHoles'
    BY <1>1 DEF StepEvent, GapsAreHoles, Overtaken, Inv
  <2> QED
    BY <1>0, <1>1, <2>1, WriterStep
    DEF StepEvent, sub, user, Inv, Committed, TypeOK, Sequence
<1>2. CASE CancelRun
  <2>1. GapsAreHoles'
    BY <1>2 DEF CancelRun, GapsAreHoles, Overtaken, Inv
  <2> QED
    BY <1>0, <1>2, <2>1, WriterStep
    DEF CancelRun, sub, user, Inv, Committed, TypeOK, Sequence
<1>3. ASSUME NEW e \in publishing, Publish(e) PROVE Inv'
  <2>1. GapsAreHoles' /\ holes \subseteq holes'
    BY <1>3 DEF Publish, Mirror, GapsAreHoles, Overtaken
  <2>2. mirror' \cup publishing' \subseteq 1..last'
    BY <1>3 DEF Publish, Mirror, server, Inv, Committed
  <2> QED
    BY <1>0, <1>3, <2>1, <2>2, WriterStep
    DEF Publish, server, sub, user, TypeOK, Sequence
<1>4. ASSUME NEW e \in publishing, PublishFails(e) PROVE Inv'
  <2>1. GapsAreHoles'
    BY <1>4 DEF PublishFails, GapsAreHoles, Overtaken, Inv
  <2> QED
    BY <1>0, <1>4, <2>1, WriterStep
    DEF PublishFails, server, sub, user, Inv, Committed, TypeOK, Sequence
<1>5. CASE RedisFails
  <2>1. GapsAreHoles'
    BY <1>5 DEF RedisFails, GapsAreHoles, Overtaken, Inv
  <2> QED
    BY <1>0, <1>5, <2>1, WriterStep
    DEF RedisFails, server, sub, user, Inv, Committed, TypeOK, Sequence
<1>6. CASE RedisReturns
  <2>1. GapsAreHoles' /\ holes \subseteq holes'
    BY <1>6 DEF RedisReturns, Mirror, GapsAreHoles, Overtaken
  <2>2. mirror' \cup publishing' \subseteq 1..last'
    BY <1>6 DEF RedisReturns, Mirror, server, Inv, Committed
  <2> QED
    BY <1>0, <1>6, <2>1, <2>2, WriterStep
    DEF RedisReturns, server, sub, user, TypeOK, Sequence
<1>7. CASE Disconnect \/ CloseStream
  <2>1. UNCHANGED <<last, mirror, publishing, holes, cursor, received>>
        /\ batch' = {}
    BY <1>7 DEF Disconnect, CloseStream, Reconnect, server, cache
  <2>2. Ahead' /\ NoGaps'
    BY <2>1 DEF Ahead, NoGaps
  <2> QED
    BY <1>0, <2>1, <2>2, ReaderStep
<1>8. CASE Connect \/ ReadStatus \/ LookAtMirror \/ LookAtTable \/ UNCHANGED vars
  <2>1. UNCHANGED <<last, mirror, publishing, holes, cursor, received, batch>>
    BY <1>8 DEF Connect, ReadStatus, LookAtMirror, LookAtTable, vars, server,
                cache, user
  <2>2. Ahead' /\ NoGaps' /\ batch' \subseteq 1..last
    BY <2>1 DEF Inv, Ahead, NoGaps, Committed
  <2> QED
    BY <1>0, <2>1, <2>2, ReaderStep
<1>9. CASE ReadTable
  <2>1. UNCHANGED <<last, mirror, publishing, holes, cursor, received>>
        /\ batch' = {e \in cursor + 1 .. last : e <= cursor + ReadLimit}
    BY <1>9 DEF ReadTable, server, cache, user
  <2>2. batch' \subseteq 1..last /\ Ahead'
    BY <1>0, <2>1 DEF Ahead, TypeOK, Sequence
  <2>3. NoGaps'
    BY <1>0, <2>1, StreamAssumption DEF NoGaps, TypeOK, Sequence
  <2> QED
    BY <1>0, <2>1, <2>2, <2>3, ReaderStep
<1>10. CASE ReadMirror
  <2>1. UNCHANGED <<last, mirror, publishing, holes, cursor, received>>
    BY <1>10 DEF ReadMirror, server, cache, user
  <2>2. CASE batch' = {}
    <3>1. Ahead' /\ NoGaps'
      BY <2>2 DEF Ahead, NoGaps
    <3> QED
      BY <1>0, <2>1, <2>2, <3>1, ReaderStep
  <2>3. ASSUME NEW n \in Sequence,
               batch' = {e \in mirror : e > cursor /\ e <= n}
        PROVE  Inv'
    <3>1. batch' \subseteq 1..last
      BY <2>3 DEF Inv, Committed
    <3>2. Ahead'
      BY <1>0, <2>1, <2>3 DEF Ahead, TypeOK, Sequence
    <3>3. NoGaps'
      BY <1>0, <2>1, <2>3
      DEF Inv, NoGaps, GapsAreHoles, Overtaken, TypeOK, Sequence
    <3> QED
      BY <1>0, <2>1, <3>1, <3>2, <3>3, ReaderStep
  <2> QED
    BY <1>10, <2>2, <2>3 DEF ReadMirror
<1>11. ASSUME NEW e \in batch, Deliver(e) PROVE Inv'
  <2>1. /\ UNCHANGED <<last, mirror, publishing, holes>>
        /\ batch' = batch \ {e} /\ cursor' = e /\ received' = received \cup {e}
        /\ \A f \in batch : e <= f
    BY <1>11 DEF Deliver, server, cache
  <2>2. e \in 1..last /\ cursor < e /\ e \in Nat
    BY <1>0, <1>11 DEF Inv, Ahead, Committed, TypeOK, Sequence
  <2>3. Committed' /\ GapsAreHoles'
    BY <2>1 DEF Inv, Committed, GapsAreHoles, Overtaken
  <2>4. Ahead'
    BY <1>0, <2>1, <2>2 DEF Ahead, TypeOK, Sequence
  <2>5. Behind'
    BY <1>0, <2>1, <2>2 DEF Inv, Behind, TypeOK, Sequence
  <2>6. NoGaps'
    BY <1>0, <2>1, <2>2 DEF Inv, NoGaps, TypeOK, Sequence
  <2>7. MissedOnlyByMirror'
    <3> SUFFICES ASSUME NEW f \in 1..e, f \notin received, f # e
                 PROVE  f \in holes
      BY <2>1 DEF MissedOnlyByMirror
    <3>1. CASE f <= cursor
      BY <1>0, <3>1 DEF Inv, MissedOnlyByMirror, TypeOK, Sequence
    <3>2. CASE cursor < f
      <4>1. f \in Int /\ f < e
        BY <2>2
      <4>2. e <= MaxEvents /\ 1 <= f
        BY <1>0, <1>11, <2>2 DEF TypeOK, Sequence
      <4>3. f \in Sequence
        BY <4>2, <4>1, <2>2, StreamAssumption DEF Sequence
      <4>4. f \notin batch
        BY <1>0, <2>1, <2>2, <4>1 DEF TypeOK, Sequence
      <4> QED
        BY <1>11, <3>2, <4>1, <4>3, <4>4 DEF Inv, NoGaps
    <3> QED
      BY <1>0, <3>1, <3>2 DEF TypeOK, Sequence
  <2> QED
    BY <1>0, <2>3, <2>4, <2>5, <2>6, <2>7 DEF Inv
<1> QED
  BY <1>1, <1>2, <1>3, <1>4, <1>5, <1>6, <1>7, <1>8, <1>9, <1>10, <1>11
  DEF Next, Subscription

-----------------------------------------------------------------------------
\* The invariant holds in every behaviour of the stream.
THEOREM Invariance == Spec => []Inv
<1> QED
  BY InitInv, Inductive, PTL DEF Spec

\* The state of table, mirror, subscription and client keeps its shape: no
\* cursor beyond the events, no reconnection beyond the limit.
THEOREM StreamTypes == Spec => []TypeOK
<1>1. Inv => TypeOK
  BY DEF Inv
<1> QED
  BY <1>1, Invariance, PTL

\* Whatever the mirror holds and however reads and commits interleave, the
\* client of subscribe sees only committed events.
THEOREM OnlyCommittedIsSeen == Spec => []NeverUncommitted
<1>1. Inv => NeverUncommitted
  BY DEF Inv, TypeOK, Sequence, Behind, NeverUncommitted
<1> QED
  BY <1>1, Invariance, PTL

\* The cursor of subscribe passes an event unseen only where the mirror had a
\* hole, however connections, Redis and publishers fail.
THEOREM NothingElseIsMissed == Spec => []MissedOnlyByMirror
<1>1. Inv => MissedOnlyByMirror
  BY DEF Inv
<1> QED
  BY <1>1, Invariance, PTL
-----------------------------------------------------------------------------
(***************************************************************************)
(* A client that gave up was offered the end of the run.                    *)
(***************************************************************************)
\* Connections that are over without a terminal event.
Over == IF client = "gaveUp" THEN reconnects + 1 ELSE reconnects

\* Connections that are over and were not lost, at least.
Closed == Over - faults

AfterEnd(e) == ended /\ lastAtEnd <= e

Told == closing => ended

Placed ==
    /\ lastAtEnd <= last
    /\ stream # "closed" => client = "following"
    /\ client = "gaveUp" => reconnects = MaxReconnects

\* No connection is closed before the run is over, and each that was has
\* brought the client a full read further or to the run's end.
Served ==
    /\ ~ended => Closed <= 0
    /\ AfterEnd(cursor) \/ ReadLimit * Closed <= cursor

\* Nor will be the one that reads the last rows.
Offered ==
    stream = "tableBatch" /\ closing =>
        \E e \in batch \cup {cursor} : AfterEnd(e) \/ ReadLimit * (Closed + 1) <= e

Progress == Told /\ Placed /\ Served /\ Offered

LEMMA MinusShrinks ==
    ASSUME NEW n \in Int, NEW f \in Int, NEW g \in Int, f <= g
    PROVE  n - f \in Int /\ n - g \in Int /\ n - g <= n - f
OBVIOUS

LEMMA ClosedIsInteger == TypeOK => Closed \in Int
BY StreamAssumption DEF TypeOK, Closed, Over

\* A product grows with its factor.
LEMMA TimesGrows ==
    ASSUME NEW L \in Nat, NEW m \in Int, NEW n \in Int, m <= n
    PROVE  L * m \in Int /\ L * n \in Int /\ L * m <= L * n
<1>1. PICK d \in Nat : n = m + d
  <2> WITNESS n - m \in Nat
  <2> QED OBVIOUS
<1>2. L * n = L * m + L * d
  BY <1>1
<1>3. L * d \in Nat
  OBVIOUS
<1>4. L * m \in Int
  OBVIOUS
<1> QED BY <1>2, <1>3, <1>4

LEMMA OneMore ==
    ASSUME NEW L \in Nat, NEW n \in Int
    PROVE  L * n \in Int /\ L * (n + 1) = L * n + L
OBVIOUS

\* A fault, or a step of a writer or of Redis, takes nothing from the client.
LEMMA OtherProgress ==
    ASSUME Inv, Inv', Progress, UNCHANGED <<client, reconnects, cursor, sub>>,
           faults <= faults', lastAtEnd' <= last',
           ended => ended' /\ lastAtEnd' = lastAtEnd
    PROVE  Progress'
<1>1. UNCHANGED <<stream, batch, closing>>
  BY DEF sub
<1>2. Over \in Int /\ Over' = Over /\ faults \in Int /\ faults' \in Int
  BY DEF Over, Inv, TypeOK
<1>3. Closed \in Int /\ Closed' \in Int /\ Closed' <= Closed
  <2>1. Closed = Over - faults /\ Closed' = Over - faults'
    BY <1>2 DEF Closed
  <2> QED BY <1>2, <2>1, MinusShrinks
<1>4. \A e : AfterEnd(e) => AfterEnd(e)'
  BY DEF AfterEnd
<1>5. Told' /\ Placed'
  BY <1>1 DEF Progress, Told, Placed
<1>6. Served'
  <2>1. ~ended' => Closed' <= 0
    BY <1>3 DEF Progress, Served
  <2>2. ReadLimit * Closed' <= ReadLimit * Closed
        /\ ReadLimit * Closed \in Int /\ ReadLimit * Closed' \in Int
    BY <1>3, TimesGrows, StreamAssumption
  <2>3. cursor \in Int /\ cursor' = cursor
    BY DEF Inv, TypeOK
  <2>4. AfterEnd(cursor)' \/ ReadLimit * Closed' <= cursor'
    BY <1>4, <2>2, <2>3 DEF Progress, Served, AfterEnd
  <2> QED BY <2>1, <2>4 DEF Served
<1>7. Offered'
  <2> SUFFICES ASSUME stream = "tableBatch", closing
               PROVE  \E e \in batch \cup {cursor} :
                        AfterEnd(e)' \/ ReadLimit * (Closed' + 1) <= e
    BY <1>1 DEF Offered, AfterEnd
  <2>1. PICK e \in batch \cup {cursor} : AfterEnd(e) \/ ReadLimit * (Closed + 1) <= e
    BY DEF Progress, Offered
  <2>2. e \in Int
    BY DEF Inv, TypeOK, Sequence
  <2>3. Closed + 1 \in Int /\ Closed' + 1 \in Int /\ Closed' + 1 <= Closed + 1
    <3> DEFINE m == Closed'
               n == Closed
    <3>1. m \in Int /\ n \in Int /\ m <= n
      BY <1>3
    <3> HIDE DEF m, n
    <3>2. m + 1 \in Int /\ n + 1 \in Int /\ m + 1 <= n + 1
      BY <3>1
    <3> QED BY <3>2 DEF m, n
  <2>4. ReadLimit * (Closed' + 1) <= ReadLimit * (Closed + 1)
        /\ ReadLimit * (Closed + 1) \in Int /\ ReadLimit * (Closed' + 1) \in Int
    BY <2>3, TimesGrows, StreamAssumption
  <2>5. AfterEnd(e)' \/ ReadLimit * (Closed' + 1) <= e
    BY <1>4, <2>1, <2>2, <2>4
  <2> QED BY <2>5
<1> QED BY <1>5, <1>6, <1>7 DEF Progress

\* A step of the subscription that neither delivers nor reads the table.
LEMMA MoveProgress ==
    ASSUME Inv, Progress, UNCHANGED <<server, user, faults>>,
           stream' # "tableBatch", client = "following",
           closing' \in {closing, ended}
    PROVE  Progress'
<1>1. UNCHANGED <<last, ended, lastAtEnd, cursor, client, reconnects, faults>>
  BY DEF server, user
<1>2. Told'
  BY <1>1 DEF Progress, Told
<1>3. Placed' /\ Served'
  BY <1>1 DEF Progress, Placed, Served, AfterEnd, Closed, Over
<1> QED BY <1>2, <1>3 DEF Progress, Offered

\* The connection that reads the rows after it learnt that the run is over is
\* to bring a full read or the end.
LEMMA ReadProgress ==
    ASSUME Inv, Progress, ReadTable
    PROVE  Progress'
<1>1. UNCHANGED <<last, ended, lastAtEnd, cursor, client, reconnects, faults, closing>>
  BY DEF ReadTable, server, user
<1>2. stream = "table" /\ batch' = {e \in cursor + 1 .. last : e <= cursor + ReadLimit}
  BY DEF ReadTable
<1>3. Told' /\ Placed' /\ Served'
  BY <1>1, <1>2 DEF Progress, Told, Placed, Served, AfterEnd, Closed, Over
<1>4. Closed \in Int /\ Closed' = Closed
  BY <1>1, ClosedIsInteger DEF Inv, Closed, Over
<1>5. Offered'
  <2> SUFFICES ASSUME closing
               PROVE  \E e \in batch' \cup {cursor} :
                        AfterEnd(e) \/ ReadLimit * (Closed + 1) <= e
    BY <1>1, <1>4 DEF Offered, AfterEnd
  <2>1. ended /\ lastAtEnd <= last
    BY DEF Progress, Told, Placed
  <2>2. cursor \in Int /\ last \in Int /\ ReadLimit \in Int /\ ReadLimit >= 1 /\ lastAtEnd \in Int
    BY StreamAssumption DEF Inv, TypeOK, Sequence
  <2>3. CASE AfterEnd(cursor)
    BY <2>3
  <2>4. CASE last <= cursor
    BY <2>1, <2>2, <2>4 DEF AfterEnd
  <2>5. CASE cursor < last /\ last <= cursor + ReadLimit
    <3>1. last \in batch'
      BY <1>2, <2>2, <2>5
    <3> QED BY <2>1, <3>1 DEF AfterEnd
  <2>6. CASE ~AfterEnd(cursor) /\ cursor + ReadLimit < last
    <3>1. cursor + ReadLimit \in batch'
      BY <1>2, <2>2, <2>6
    <3>2. ReadLimit * Closed <= cursor
      BY <2>6 DEF Progress, Served
    <3>3. ReadLimit * (Closed + 1) = ReadLimit * Closed + ReadLimit /\ ReadLimit * Closed \in Int
      BY <1>4, OneMore, StreamAssumption
    <3>4. ReadLimit * (Closed + 1) <= cursor + ReadLimit
      BY <2>2, <3>2, <3>3
    <3> QED BY <3>1, <3>4
  <2> QED BY <2>2, <2>3, <2>4, <2>5, <2>6
<1> QED BY <1>3, <1>5 DEF Progress

\* An event that is delivered was the cursor's next.
LEMMA DeliverProgress ==
    ASSUME Inv, Inv', Progress, NEW e \in batch, Deliver(e)
    PROVE  Progress'
<1>1. /\ UNCHANGED <<last, ended, lastAtEnd, reconnects, faults, closing>>
      /\ cursor' = e /\ batch' = batch \ {e}
      /\ stream' \in {"closed", stream}
      /\ \/ client' = client
         \/ client' = "done" /\ stream' = "closed"
  BY DEF Deliver, server
<1>2. client = "following" /\ client' # "gaveUp"
  BY <1>1 DEF Deliver, Progress, Placed
<1>3. Closed \in Int /\ Closed' = Closed
  BY <1>1, <1>2, ClosedIsInteger DEF Inv, Closed, Over
<1>4. cursor < e /\ e \in Int /\ cursor \in Int /\ lastAtEnd \in Int
  BY DEF Inv, Ahead, TypeOK, Sequence
<1>5. ReadLimit * Closed \in Int /\ ReadLimit * (Closed + 1) \in Int
  BY <1>3, StreamAssumption
<1>6. Told' /\ Placed'
  BY <1>1, <1>2 DEF Progress, Told, Placed
<1>7. Served'
  BY <1>1, <1>3, <1>4, <1>5 DEF Progress, Served, AfterEnd
<1>8. Offered'
  <2> SUFFICES ASSUME stream = "tableBatch", closing
               PROVE  \E f \in batch' \cup {e} :
                        AfterEnd(f) \/ ReadLimit * (Closed + 1) <= f
    BY <1>1, <1>3 DEF Offered, AfterEnd
  <2>1. PICK f \in batch \cup {cursor} : AfterEnd(f) \/ ReadLimit * (Closed + 1) <= f
    BY DEF Progress, Offered
  <2>2. CASE f = cursor
    <3>1. AfterEnd(e) \/ ReadLimit * (Closed + 1) <= e
      BY <1>4, <1>5, <2>1, <2>2 DEF AfterEnd
    <3> QED BY <3>1
  <2> QED BY <1>1, <2>1, <2>2
<1> QED BY <1>6, <1>7, <1>8 DEF Progress

\* A connection that is lost is a fault; one that is closed was served.
LEMMA OverProgress ==
    ASSUME Inv, Inv', Progress, Disconnect \/ CloseStream
    PROVE  Progress'
<1>1. /\ UNCHANGED <<last, ended, lastAtEnd, cursor, closing>>
      /\ stream' = "closed" /\ stream # "closed"
      /\ IF reconnects < MaxReconnects
         THEN reconnects' = reconnects + 1 /\ client' = client
         ELSE client' = "gaveUp" /\ reconnects' = reconnects
  BY DEF Disconnect, CloseStream, Reconnect, server
<1>2. client = "following"
  BY <1>1 DEF Progress, Placed
<1>3. Over' = Over + 1 /\ Over \in Int
  <2>1. reconnects \in Int /\ Over = reconnects
    BY <1>2 DEF Over, Inv, TypeOK
  <2>2. Over' = reconnects + 1
    BY <1>1, <1>2 DEF Over
  <2> QED BY <2>1, <2>2
<1>4. Told' /\ Placed'
  BY <1>1, <1>2, StreamAssumption DEF Progress, Told, Placed, Inv, TypeOK
<1>5. Served'
  <2>1. CASE Disconnect
    <3>1. faults' = faults + 1 /\ faults \in Int
      BY <2>1 DEF Disconnect, Fault, Inv, TypeOK
    <3>2. Closed' = Closed
      BY <1>3, <3>1 DEF Closed
    <3> QED BY <1>1, <3>2 DEF Progress, Served, AfterEnd
  <2>2. CASE CloseStream
    <3>1. stream = "tableBatch" /\ closing /\ batch = {} /\ faults' = faults
      BY <2>2 DEF CloseStream
    <3>2. Closed' = Closed + 1
      BY <1>3, <3>1 DEF Closed, Inv, TypeOK
    <3>3. AfterEnd(cursor) \/ ReadLimit * (Closed + 1) <= cursor
      BY <3>1 DEF Progress, Offered
    <3>4. ended
      BY <3>1 DEF Progress, Told
    <3> QED BY <1>1, <3>2, <3>3, <3>4 DEF Served, AfterEnd
  <2> QED BY <2>1, <2>2
<1> QED BY <1>1, <1>4, <1>5 DEF Progress, Offered

LEMMA InitProgress == Init => Progress
<1> SUFFICES ASSUME Init PROVE Progress
  OBVIOUS
<1>1. Closed = 0 /\ ReadLimit * 0 = 0
  BY StreamAssumption DEF Init, Closed, Over
<1> QED BY <1>1 DEF Init, Progress, Told, Placed, Served, Offered

LEMMA ProgressStep == Inv /\ Inv' /\ Progress /\ [Next]_vars => Progress'
<1> SUFFICES ASSUME Inv, Inv', Progress, [Next]_vars PROVE Progress'
  OBVIOUS
<1>1. last \in Int /\ faults \in Int /\ lastAtEnd \in Int /\ lastAtEnd <= last
  BY DEF Inv, TypeOK, Sequence, Progress, Placed
<1>2. CASE StepEvent
  <2>1. UNCHANGED <<client, reconnects, cursor, sub, faults>>
    BY <1>2 DEF StepEvent, user, sub
  <2>2. lastAtEnd' <= last'
    BY <1>1, <1>2 DEF StepEvent
  <2>3. ended => ended' /\ lastAtEnd' = lastAtEnd
    BY <1>2 DEF StepEvent
  <2> QED BY <1>1, <2>1, <2>2, <2>3, OtherProgress
<1>3. CASE CancelRun
  BY <1>1, <1>3, OtherProgress DEF CancelRun, user, sub
<1>4. ASSUME NEW e \in publishing, Publish(e) \/ PublishFails(e) PROVE Progress'
  <2>1. UNCHANGED <<server, sub, user>> /\ faults <= faults'
    BY <1>1, <1>4 DEF Publish, PublishFails, Fault
  <2> QED BY <1>1, <2>1, OtherProgress DEF server, user
<1>5. CASE RedisFails \/ RedisReturns
  <2>1. UNCHANGED <<server, sub, user>> /\ faults <= faults'
    BY <1>1, <1>5 DEF RedisFails, RedisReturns, Fault
  <2> QED BY <1>1, <2>1, OtherProgress DEF server, user
<1>6. CASE Connect \/ ReadStatus \/ LookAtMirror \/ ReadMirror \/ LookAtTable
  <2>1. UNCHANGED <<server, user, faults>> /\ stream' # "tableBatch"
        /\ closing' \in {closing, ended}
    BY <1>6 DEF Connect, ReadStatus, LookAtMirror, ReadMirror, LookAtTable
  <2>2. client = "following"
    BY <1>6 DEF Connect, ReadStatus, LookAtMirror, ReadMirror, LookAtTable, Progress, Placed
  <2> QED BY <2>1, <2>2, MoveProgress
<1>7. CASE UNCHANGED vars
  BY <1>1, <1>7, OtherProgress DEF vars, sub
<1> QED BY <1>2, <1>3, <1>4, <1>5, <1>6, <1>7, ReadProgress, DeliverProgress, OverProgress
        DEF Next, Subscription

\* However writers, Redis, the API and the connection fail, a client that
\* iter_run_events leaves with an error was offered the event that ended the
\* run, or ReadLimit events for each connection that was not lost.
THEOREM EndIsOffered == Spec => []NothingLeftBehind
<1>1. Inv /\ Progress => NothingLeftBehind
  <2> SUFFICES ASSUME Inv, Progress, client = "gaveUp"
               PROVE  cursor >= lastAtEnd \/ cursor >= ReadLimit * (MaxReconnects + 1 - faults)
    BY DEF NothingLeftBehind
  <2>1. Closed = MaxReconnects + 1 - faults
    <3>1. Over = MaxReconnects + 1
      BY DEF Progress, Placed, Over
    <3>2. MaxReconnects \in Int /\ faults \in Int
      BY StreamAssumption DEF Inv, TypeOK
    <3> QED BY <3>1, <3>2 DEF Closed
  <2>2. Closed \in Int /\ cursor \in Int /\ lastAtEnd \in Int
    BY ClosedIsInteger DEF Inv, TypeOK
  <2>3. ReadLimit * Closed \in Int
    BY <2>2, StreamAssumption
  <2> QED BY <2>1, <2>2, <2>3 DEF Progress, Served, AfterEnd
<1> QED BY <1>1, Invariance, InitProgress, ProgressStep, PTL DEF Spec

=============================================================================
