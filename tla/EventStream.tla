---------------------------- MODULE EventStream -----------------------------
(***************************************************************************)
(* The progress events of one run: the table run_events, its mirror in a    *)
(* Redis stream, the subscription of the API that reads both, and the       *)
(* client that follows it and reconnects.                                   *)
(*                                                                          *)
(* Events are their sequence numbers.  A transaction that writes an event   *)
(* holds the row of the run, so the table is 1..last; the event is          *)
(* published after the commit, by then without the lock, so publications    *)
(* overtake each other and can be lost.  Event 1, RUN_QUEUED, is written    *)
(* with the run and not published.  Only one event is terminal for the      *)
(* client, RUN_CANCELLED: no transaction writes one when a run succeeds or  *)
(* fails.                                                                   *)
(*                                                                          *)
(* A new connection starts at the client's cursor, and within a connection  *)
(* the subscription's cursor is the client's: there is one cursor.          *)
(***************************************************************************)
EXTENDS Integers, FiniteSets

CONSTANTS
    MaxEvents,      \* bound: events of the run
    ReadLimit,      \* rows of one look at the table
    MaxReconnects,  \* of the client
    MaxFaults       \* bound: losses of publications, streams, connections

ASSUME StreamAssumption ==
    /\ MaxEvents \in Nat \ {0} /\ ReadLimit \in Nat \ {0}
    /\ MaxReconnects \in Nat /\ MaxFaults \in Nat

VARIABLES
    last,           \* highest sequence of run_events
    ended,          \* the run is terminal
    cancelled,      \* the sequence of RUN_CANCELLED, or 0
    publishing,     \* committed events that are about to be published
    mirror,         \* the Redis stream
    redis,          \* the Redis server answers
    stream,         \* where the subscription is
    closing,        \* the run was terminal when its status was read
    batch,          \* what it has read and not yet sent
    cursor,         \* highest sequence the client has seen
    received,       \* the events the client has seen
    client,         \* the client goes on, is done, or gave up
    reconnects,
    faults,
    holes,          \* history: events that the mirror lacked while it had
                    \* a later one
    lastAtEnd       \* history: the event that ended the run, or 0

server == <<last, ended, cancelled, lastAtEnd>>
cache  == <<publishing, mirror, redis, holes>>
sub    == <<stream, batch, closing>>
user   == <<cursor, received, client, reconnects>>
vars == <<last, ended, cancelled, publishing, mirror, redis, stream, batch,
          closing, cursor, received, client, reconnects, faults, holes, lastAtEnd>>

Sequence == 1..MaxEvents

TypeOK ==
    /\ last \in Sequence /\ ended \in BOOLEAN /\ cancelled \in 0..MaxEvents
    /\ publishing \subseteq Sequence /\ mirror \subseteq Sequence
    /\ redis \in BOOLEAN
    /\ stream \in {"closed", "status", "table", "tableBatch", "mirror",
                   "mirrorBatch"}
    /\ batch \subseteq Sequence /\ closing \in BOOLEAN
    /\ cursor \in 0..MaxEvents /\ received \subseteq Sequence
    /\ client \in {"following", "done", "gaveUp"}
    /\ reconnects \in 0..MaxReconnects /\ faults \in 0..MaxFaults
    /\ holes \subseteq Sequence /\ lastAtEnd \in 0..MaxEvents

Init ==
    /\ last = 1 /\ ended = FALSE /\ cancelled = 0
    /\ publishing = {} /\ mirror = {} /\ redis = TRUE
    /\ stream = "closed" /\ batch = {} /\ closing = FALSE
    /\ cursor = 0 /\ received = {} /\ client = "following"
    /\ reconnects = 0 /\ faults = 0 /\ holes = {} /\ lastAtEnd = 0

Fault == faults < MaxFaults /\ faults' = faults + 1

-----------------------------------------------------------------------------
(***************************************************************************)
(* Writers: the transactions of the step store and the cancel request.      *)
(***************************************************************************)
\* _add_event in a transaction that may end the run.  Workers that finish
\* after its end still write STEP_CANCELLED.
StepEvent ==
    /\ last < MaxEvents
    /\ last' = last + 1
    /\ publishing' = publishing \cup {last + 1}
    /\ \/ UNCHANGED <<ended, lastAtEnd>>
       \/ ~ended /\ ended' = TRUE /\ lastAtEnd' = last + 1
    /\ UNCHANGED <<cancelled, mirror, redis, holes, sub, user, faults>>

CancelRun ==
    /\ ~ended /\ last < MaxEvents
    /\ last' = last + 1
    /\ cancelled' = last + 1
    /\ publishing' = publishing \cup {last + 1}
    /\ ended' = TRUE /\ lastAtEnd' = last + 1
    /\ UNCHANGED <<mirror, redis, holes, sub, user, faults>>

Overtaken(m) == {e \in Sequence : e \notin m /\ \E f \in m : f > e}
Mirror(m)    == mirror' = m /\ holes' = holes \cup Overtaken(m)

\* XADD refuses an id that is not above the newest one, and publish takes
\* that for a repetition.
Publish(e) ==
    /\ redis
    /\ Mirror(IF \A f \in mirror : f < e THEN mirror \cup {e} ELSE mirror)
    /\ publishing' = publishing \ {e}
    /\ UNCHANGED <<server, redis, sub, user, faults>>

\* Redis does not answer, or the publisher is lost.
PublishFails(e) ==
    /\ (~redis /\ UNCHANGED faults) \/ Fault
    /\ publishing' = publishing \ {e}
    /\ UNCHANGED <<server, mirror, redis, holes, sub, user>>

RedisFails ==
    /\ redis /\ Fault
    /\ redis' = FALSE
    /\ UNCHANGED <<server, publishing, mirror, holes, sub, user>>

\* Redis is back, with its stream or without.
RedisReturns ==
    /\ ~redis
    /\ redis' = TRUE
    /\ \E m \in {mirror, {}} : Mirror(m)
    /\ UNCHANGED <<server, publishing, sub, user, faults>>

-----------------------------------------------------------------------------
(***************************************************************************)
(* subscribe, and the client's iter_run_events.                             *)
(***************************************************************************)
Connect ==
    /\ stream = "closed" /\ client = "following"
    /\ stream' = "status"
    /\ UNCHANGED <<server, cache, batch, closing, user, faults>>

\* Mutant: the status of the run is forgotten.
ReadNoStatus ==
    /\ stream = "status"
    /\ stream' = "table" /\ closing' = FALSE
    /\ UNCHANGED <<server, cache, batch, user, faults>>

\* _database_events reads the row of the run and then, in a statement of its
\* own that sees later commits, the oldest rows after the cursor.
ReadStatus ==
    /\ stream = "status"
    /\ stream' = "table" /\ closing' = ended
    /\ UNCHANGED <<server, cache, batch, user, faults>>

\* Mutant: the newest rows are read.
ReadNewestRows ==
    /\ stream = "table"
    /\ batch' = {e \in cursor + 1 .. last : e > last - ReadLimit}
    /\ stream' = "tableBatch"
    /\ UNCHANGED <<server, cache, closing, user, faults>>

ReadTable ==
    /\ stream = "table"
    /\ batch' = {e \in cursor + 1 .. last : e <= cursor + ReadLimit}
    /\ stream' = "tableBatch"
    /\ UNCHANGED <<server, cache, closing, user, faults>>

\* Of the types that the client takes for terminal only RUN_CANCELLED is
\* ever written.
IsTerminal(e) == e = cancelled

\* The next event of the batch is sent and the client sees it.
Deliver(e) ==
    /\ e \in batch /\ \A f \in batch : e <= f
    /\ stream \in {"tableBatch", "mirrorBatch"}
    /\ batch' = batch \ {e}
    /\ cursor' = e
    /\ received' = received \cup {e}
    /\ IF IsTerminal(e) THEN client' = "done" /\ stream' = "closed"
       ELSE UNCHANGED <<client, stream>>
    /\ UNCHANGED <<server, cache, closing, reconnects, faults>>

\* The stream is over and the client has not seen a terminal event.
Reconnect ==
    /\ stream' = "closed" /\ batch' = {}
    /\ IF reconnects < MaxReconnects
       THEN reconnects' = reconnects + 1 /\ UNCHANGED client
       ELSE client' = "gaveUp" /\ UNCHANGED reconnects
    /\ UNCHANGED <<server, cache, closing, cursor, received>>

\* Mutant: the status is looked up after the rows were read.
CloseOnCurrentStatus ==
    /\ stream = "tableBatch" /\ batch = {} /\ ended
    /\ Reconnect
    /\ UNCHANGED faults

CloseStream ==
    /\ stream = "tableBatch" /\ batch = {} /\ closing
    /\ Reconnect
    /\ UNCHANGED faults

LookAtMirror ==
    /\ stream = "tableBatch" /\ batch = {} /\ ~closing
    /\ stream' = "mirror"
    /\ UNCHANGED <<server, cache, batch, closing, user, faults>>

\* XREAD after the cursor, up to a count; nothing is read when Redis fails
\* or the wait is over, and the table is read again.
ReadMirror ==
    /\ stream = "mirror"
    /\ \E n \in Sequence :
           batch' = IF redis THEN {e \in mirror : e > cursor /\ e <= n} ELSE {}
    /\ stream' = "mirrorBatch"
    /\ UNCHANGED <<server, cache, closing, user, faults>>

\* Mutant: the subscription stays with the mirror.
StayWithMirror ==
    /\ stream = "mirrorBatch" /\ batch = {}
    /\ stream' = IF redis THEN "mirror" ELSE "status"
    /\ UNCHANGED <<server, cache, batch, closing, user, faults>>

LookAtTable ==
    /\ stream = "mirrorBatch" /\ batch = {}
    /\ stream' = "status"
    /\ UNCHANGED <<server, cache, batch, closing, user, faults>>

\* The API process or the connection is lost.
Disconnect ==
    /\ stream # "closed" /\ Fault
    /\ Reconnect

-----------------------------------------------------------------------------
Subscription ==
    \/ Connect \/ ReadStatus \/ ReadTable \/ LookAtMirror \/ ReadMirror \/ LookAtTable
    \/ CloseStream \/ \E e \in batch : Deliver(e)

Next ==
    \/ StepEvent \/ CancelRun
    \/ \E e \in publishing : Publish(e) \/ PublishFails(e)
    \/ RedisFails \/ RedisReturns \/ Disconnect
    \/ Subscription

Spec == Init /\ [][Next]_vars

\* The API and the client go on.
FairSpec == Spec /\ WF_vars(Subscription)

-----------------------------------------------------------------------------
\* The client sees only events that were committed: none that a rollback took
\* back, none before its commit.
NeverUncommitted == received \subseteq 1..last

\* The client misses an event that precedes what it has seen only if the
\* mirror once lacked that event while it had a later one: a publication was
\* overtaken, or lost, or the stream was.
MissedOnlyByMirror == (1..cursor) \ received \subseteq holes

\* A client that is turned away because the run is over has been offered
\* everything up to the event that ended the run, as far as ReadLimit rows for
\* every connection that was not lost go.  The status is read before the rows:
\* read after them it would cut off the events in between.
NothingLeftBehind ==
    client = "gaveUp" =>
        \/ cursor >= lastAtEnd
        \/ cursor >= ReadLimit * (MaxReconnects + 1 - faults)

\* A stream of a run that is over comes to its end.
StreamEnds == ended ~> client # "following"

\* Every event of a running run reaches a client that goes on, unless the
\* mirror passed it over; Redis need not be there.
EventsArrive ==
    \A e \in Sequence :
        last >= e /\ ~ended
            ~> e \in received \/ e \in holes \/ client # "following" \/ ended

-----------------------------------------------------------------------------
\* The client follows a run to its end (design, 19): it is not left with an
\* error once the run is over.
ClientCompletes == ended ~> client = "done"
=============================================================================
