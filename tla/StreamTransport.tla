---------------------------- MODULE StreamTransport ----------------------------
(****************************************************************************)
(* POST /chat/stream and POST /chat/cancel: the response generator of each  *)
(* stream (api/routes/chat.py), the producer, queue, consumer loop, cancel  *)
(* watcher and detached drain of server/sse.py, the per-user stream slots   *)
(* (ConcurrencyLimiter) and the StreamCancelRegistry, for the streams of    *)
(* one user over several sessions.                                          *)
(*                                                                          *)
(* gen[s] is where the response generator of stream s is suspended, drain[s] *)
(* the background task a dropped connection leaves behind, and prod[s] the   *)
(* producer task with the run_session it iterates, abstracted to what        *)
(* TurnLifecycle shows of it: it waits for the session lock; between         *)
(* assistant turns it stores the user's, compacts and opens the next one;    *)
(* while one runs, a cancellation makes it clean that turn up.               *)
(****************************************************************************)
EXTENDS Integers, Sequences, FiniteSets

CONSTANTS
    Streams,    \* requests to /chat/stream
    Sessions,   \* conversations they name
    MaxActive,  \* CHAT_STREAM_MAX_PER_USER
    MaxIterations, \* MAX_TOOL_ITERATIONS
    MaxEvents,  \* bound: runtime events the streams produce
    MaxAborts,  \* bound: cancellations of response tasks by the framework
    MaxFaults,  \* bound: sources whose store calls fail and end them
    NoStream

ASSUME BoundsAssumption ==
    /\ MaxActive \in Nat \ {0} /\ MaxIterations \in Nat
    /\ MaxEvents \in Nat /\ MaxAborts \in Nat /\ MaxFaults \in Nat

ASSUME NoStreamAssumption == NoStream \notin Streams /\ IsFiniteSet(Streams)

VARIABLES
    sess,      \* the conversation each request names
    gen,       \* location of the response generator
    drain,     \* location of the drain task
    detached,  \* DetachHandoff.detached: the drain task owns the cleanup
    prod,      \* the producer task and the run_session under it
    queue,     \* asyncio.Queue between producer and consumer
    events,    \* history: events produced
    watcher,   \* _watch_cancel
    stopSet,   \* cancel_event.is_set()
    registry,  \* StreamCancelRegistry._events
    lock,      \* RuntimeStore.lock(session)
    turn,      \* the latest assistant turn row: none, running, settled, interrupted
    iter,      \* Turn.iterations
    active,    \* ConcurrencyLimiter._active[user]
    slot,      \* event_generator's slot_acquired
    freed,     \* history: releases of the limiter by the stream's cleanup
    client,    \* the LLM client of the stream
    conn,      \* the client is connected
    aborts,    \* history: cancellations of response tasks
    hits,      \* history: where cancellations struck the producer
    faults,    \* history: failed store calls of the source, see StoreFails
    draining   \* AppProcessState.draining

source  == <<prod, queue, lock, turn, iter, hits, faults>>
held    == <<active, slot, freed, client, registry>>
outside == <<sess, conn, draining>>
vars == <<gen, drain, detached, source, events, watcher, stopSet, held, aborts, outside>>

Generating == {"wait", "between", "run", "cleanup"}
Inside     == {"between", "run", "cleanup"}           \* holds the session lock

--------------------------------------------------------------------------------
Init ==
    /\ sess \in [Streams -> Sessions]
    /\ gen = [s \in Streams |-> "idle"]
    /\ drain = [s \in Streams |-> "none"]
    /\ detached = [s \in Streams |-> FALSE]
    /\ prod = [s \in Streams |-> "none"]
    /\ queue = [s \in Streams |-> <<>>]
    /\ events = 0
    /\ watcher = [s \in Streams |-> "none"]
    /\ stopSet = [s \in Streams |-> FALSE]
    /\ registry = [c \in Sessions |-> NoStream]
    /\ lock = [c \in Sessions |-> NoStream]
    /\ turn = [s \in Streams |-> "none"]
    /\ iter = [s \in Streams |-> 0]
    /\ active = 0
    /\ slot = [s \in Streams |-> FALSE]
    /\ freed = [s \in Streams |-> 0]
    /\ client = [s \in Streams |-> "none"]
    /\ conn = [s \in Streams |-> TRUE]
    /\ aborts = 0
    /\ hits = [s \in Streams |-> <<>>]
    /\ faults = [s \in Streams |-> 0]
    /\ draining = FALSE

Goto(s, l) == gen' = [gen EXCEPT ![s] = l]

--------------------------------------------------------------------------------
(* The route: slot, client, cancel event                                        *)

Acquire(s) ==
    /\ active < MaxActive
    /\ active' = active + 1
    /\ slot' = [slot EXCEPT ![s] = TRUE]

\* The limiter itself does not know who releases: a key at or below one is dropped.
ReleaseSlot(s) ==
    /\ active' = IF active > 1 THEN active - 1 ELSE 0
    /\ freed' = [freed EXCEPT ![s] = @ + 1]

\* The last line of release_resources.
GiveBack(s) ==
    \/ slot[s] /\ ReleaseSlot(s)
    \/ ~slot[s] /\ UNCHANGED <<active, freed>>

Request(s) ==
    /\ gen[s] = "idle"
    /\ \/ Acquire(s) /\ Goto(s, "prepare")
       \/ /\ active >= MaxActive          \* 429 as an error event, then done
          /\ Goto(s, "release")
          /\ UNCHANGED <<active, slot>>
    /\ UNCHANGED <<drain, detached, source, events, watcher, stopSet, freed, client, registry,
                   aborts, outside>>

\* StreamCancelRegistry.open, close and cancel.
Open(s) == registry' = [registry EXCEPT ![sess[s]] = s]
Close(s) == registry' = [c \in Sessions |-> IF registry[c] = s THEN NoStream ELSE registry[c]]
Cancel(c) == stopSet' = [stopSet EXCEPT ![registry[c]] = TRUE]

PrepareFails(s) ==
    /\ gen[s] = "prepare"
    /\ Goto(s, "release")
    /\ UNCHANGED <<drain, detached, source, events, watcher, stopSet, held, aborts, outside>>

\* The client is the caller's to close when prepare_chat returns.
PrepareChat(s) == gen[s] = "prepare" /\ client' = [client EXCEPT ![s] = "open"]

\* The cancel event is opened, replacing another stream's, and stream_sse_events
\* starts the producer and the watcher.
Prepared(s) ==
    /\ PrepareChat(s)
    /\ Open(s)
    /\ prod' = [prod EXCEPT ![s] = "wait"]
    /\ watcher' = [watcher EXCEPT ![s] = "wait"]
    /\ Goto(s, "loop")
    /\ UNCHANGED <<drain, detached, queue, lock, turn, iter, hits, faults, events, stopSet,
                   active, slot, freed, aborts, outside>>

--------------------------------------------------------------------------------
(* The producer and the source it iterates                                      *)

ProducerEndsMutant(s, items, row) ==   \* the session lock is kept
    /\ prod' = [prod EXCEPT ![s] = "done"]
    /\ queue' = [queue EXCEPT ![s] = @ \o items \o <<"DONE">>]
    /\ turn' = [turn EXCEPT ![s] = row]
    /\ UNCHANGED lock

\* The task ends; what it puts on the queue last, the exception it caught and the
\* sentinel, is put in the same step.
ProducerEnds(s, items, row) ==
    /\ prod' = [prod EXCEPT ![s] = "done"]
    /\ queue' = [queue EXCEPT ![s] = @ \o items \o <<"DONE">>]
    /\ turn' = [turn EXCEPT ![s] = row]
    /\ lock' = IF lock[sess[s]] = s THEN [lock EXCEPT ![sess[s]] = NoStream] ELSE lock

TakeSessionLock(s) ==
    /\ prod[s] = "wait" /\ lock[sess[s]] = NoStream
    /\ lock' = [lock EXCEPT ![sess[s]] = s]
    /\ prod' = [prod EXCEPT ![s] = "between"]
    /\ UNCHANGED <<gen, drain, detached, queue, turn, iter, hits, faults, events, watcher, stopSet,
                   held, aborts, outside>>

\* The awaited create_turn returns: from here on the finally block knows the turn.
OpenTurn(s) ==
    /\ prod[s] = "between" /\ iter[s] < MaxIterations
    /\ prod' = [prod EXCEPT ![s] = "run"]
    /\ turn' = [turn EXCEPT ![s] = "running"]
    /\ iter' = [iter EXCEPT ![s] = @ + 1]
    /\ UNCHANGED <<gen, drain, detached, queue, lock, hits, faults, events, watcher, stopSet, held,
                   aborts, outside>>

Produce(s) ==
    /\ prod[s] \in {"between", "run"} /\ events < MaxEvents
    /\ events' = events + 1
    /\ queue' = [queue EXCEPT ![s] = Append(@, "event")]
    /\ UNCHANGED <<gen, drain, detached, prod, lock, turn, iter, hits, faults, watcher, stopSet, held,
                   aborts, outside>>

\* The turn is completed, its tools still to run, or marked as an error.
SettleTurn(s) ==
    /\ prod[s] = "run" /\ turn[s] = "running"
    /\ turn' = [turn EXCEPT ![s] = "settled"]
    /\ UNCHANGED <<gen, drain, detached, prod, queue, lock, iter, hits, faults, events, watcher,
                   stopSet, held, aborts, outside>>

NextIteration(s) ==
    /\ prod[s] = "run" /\ turn[s] = "settled"
    /\ prod' = [prod EXCEPT ![s] = "between"]
    /\ UNCHANGED <<gen, drain, detached, queue, lock, turn, iter, hits, faults, events, watcher,
                   stopSet, held, aborts, outside>>

\* run_session returns, after a settled turn or the last iteration, or raises an
\* LLMError or another exception.
SourceEnds(s) ==
    /\ \/ prod[s] = "between"
       \/ prod[s] = "run" /\ turn[s] = "settled"
    /\ \E items \in {<<>>, <<"error">>} :
          /\ (prod[s] = "between" /\ items = <<>>) => iter[s] = MaxIterations
          /\ ProducerEnds(s, items, turn[s])
    /\ UNCHANGED <<gen, drain, detached, iter, hits, faults, events, watcher, stopSet, held, aborts,
                   outside>>

Interrupted(row) == IF row = "running" THEN "interrupted" ELSE row

\* cleanup_interrupted_assistant_turn is through; the exception goes on.
SourceCleanedUp(s) ==
    /\ prod[s] = "cleanup"
    /\ ProducerEnds(s, <<"error">>, Interrupted(turn[s]))
    /\ UNCHANGED <<gen, drain, detached, iter, hits, faults, events, watcher, stopSet, held, aborts,
                   outside>>

\* A store call fails, and so does the one that should mark the turn: the finally
\* block runs, or is over when the call was its own.
StoreFails(s) ==
    /\ prod[s] \in {"run", "cleanup"}
    /\ Cardinality({t \in Streams : faults[t] > 0} \cup {s}) <= MaxFaults
    /\ faults' = [faults EXCEPT ![s] = @ + 1]
    /\ \/ /\ prod[s] = "run"
          /\ prod' = [prod EXCEPT ![s] = "cleanup"]
          /\ UNCHANGED <<queue, lock, turn>>
       \/ prod[s] = "cleanup" /\ ProducerEnds(s, <<"error">>, turn[s])
    /\ UNCHANGED <<gen, drain, detached, iter, hits, events, watcher, stopSet, held, aborts, outside>>

CancelProducerMutant(s) ==    \* the source's finally block is skipped
    /\ prod[s] \in Generating
    /\ hits' = [hits EXCEPT ![s] = Append(@, prod[s])]
    /\ ProducerEnds(s, <<"error">>, turn[s])
    /\ UNCHANGED <<iter, faults>>

\* producer_task.cancel().  A source that waits for the lock or stands between two
\* assistant turns just ends: there is no turn it would clean up, although the
\* create_turn it awaits may have committed one.  Once it holds the turn its
\* finally block starts; inside that block it is cut short.
CancelProducer(s) ==
    /\ hits' = [hits EXCEPT ![s] = Append(@, prod[s])]
    /\ \/ prod[s] = "wait" /\ ProducerEnds(s, <<"error">>, turn[s])
       \/ /\ prod[s] = "between"
          /\ \E row \in {turn[s]} \cup (IF iter[s] < MaxIterations THEN {"running"} ELSE {}) :
                ProducerEnds(s, <<"error">>, row)
       \/ /\ prod[s] = "run"
          /\ prod' = [prod EXCEPT ![s] = "cleanup"]
          /\ UNCHANGED <<queue, lock, turn>>
       \/ /\ prod[s] = "cleanup"
          /\ \E row \in {turn[s], Interrupted(turn[s])} : ProducerEnds(s, <<"error">>, row)
    /\ UNCHANGED <<iter, faults>>

WatchFiresMutant(s) ==        \* the watcher dies with the connection
    /\ watcher[s] = "wait" /\ stopSet[s] /\ ~detached[s]
    /\ watcher' = [watcher EXCEPT ![s] = "off"]
    /\ CancelProducer(s) \/ (prod[s] = "done" /\ UNCHANGED source)
    /\ UNCHANGED <<gen, drain, detached, events, stopSet, held, aborts, outside>>

WatchFires(s) ==
    /\ watcher[s] = "wait" /\ stopSet[s]
    /\ watcher' = [watcher EXCEPT ![s] = "off"]
    /\ CancelProducer(s) \/ (prod[s] = "done" /\ UNCHANGED source)
    /\ UNCHANGED <<gen, drain, detached, events, stopSet, held, aborts, outside>>

--------------------------------------------------------------------------------
(* The consumer loop of stream_sse_events                                       *)

SeesDraining(s) ==
    /\ gen[s] = "loop" /\ draining
    /\ Goto(s, "finally")
    /\ UNCHANGED <<drain, detached, source, events, watcher, stopSet, held, aborts, outside>>

SeesDisconnect(s) ==
    /\ gen[s] = "loop" /\ ~conn[s]
    /\ Goto(s, "finally")
    /\ UNCHANGED <<drain, detached, source, events, watcher, stopSet, held, aborts, outside>>

TakeItem(s) ==
    /\ gen[s] = "loop" /\ queue[s] # <<>>
    /\ queue' = [queue EXCEPT ![s] = Tail(@)]
    /\ LET item == Head(queue[s]) IN
       \/ item = "event" /\ UNCHANGED gen
       \/ item # "event" /\ Goto(s, "finally")   \* the end, or an exception to report
    /\ UNCHANGED <<drain, detached, prod, lock, turn, iter, hits, faults, events, watcher, stopSet,
                   held, aborts, outside>>

HandsOverMutant(s) == FALSE   \* no finish-on-disconnect

\* The finally block: hand over to a drain task, or stop the producer.
HandsOver(s) == prod[s] # "done" /\ ~stopSet[s] /\ ~draining

\* release_resources, up to the await of close_client or to its end.
ReleaseResources(s) ==
    /\ Close(s)
    /\ \/ client[s] = "open" /\ Goto(s, "close") /\ UNCHANGED <<active, freed>>
       \/ client[s] # "open" /\ GiveBack(s) /\ Goto(s, "ended")

RouteFinallyMutant(s, handedOver) == ReleaseResources(s)   \* the handover is not looked at

\* The route's finally block: a drain task that took over owns the cleanup.
RouteFinally(s, handedOver) ==
    \/ handedOver /\ Goto(s, "ended") /\ UNCHANGED <<active, freed, registry>>
    \/ ~handedOver /\ ReleaseResources(s)

Finally(s) ==
    /\ gen[s] = "finally"
    /\ \/ /\ HandsOver(s)
          /\ detached' = [detached EXCEPT ![s] = TRUE]
          /\ drain' = [drain EXCEPT ![s] = "join"]
          /\ RouteFinally(s, TRUE)
          /\ UNCHANGED <<source, watcher>>
       \/ /\ ~HandsOver(s)
          /\ watcher' = [watcher EXCEPT ![s] = "off"]
          /\ CancelProducer(s) \/ (prod[s] = "done" /\ UNCHANGED source)
          /\ Goto(s, "join")
          /\ UNCHANGED <<detached, drain, active, freed, registry>>
    /\ UNCHANGED <<events, stopSet, slot, client, aborts, outside>>

\* await producer_task; the source is exhausted by then and aclose does nothing.
Join(s) ==
    /\ gen[s] = "join" /\ prod[s] = "done"
    /\ RouteFinally(s, FALSE)
    /\ UNCHANGED <<drain, detached, source, events, watcher, stopSet, slot, client, aborts, outside>>

\* A request that was refused or whose preparation failed or was cancelled.
Release(s) ==
    /\ gen[s] = "release"
    /\ RouteFinally(s, FALSE)
    /\ UNCHANGED <<drain, detached, source, events, watcher, stopSet, slot, client, aborts, outside>>

CloseClient(s) ==
    /\ gen[s] = "close"
    /\ client' = [client EXCEPT ![s] = "closed"]
    /\ GiveBack(s)
    /\ Goto(s, "ended")
    /\ UNCHANGED <<drain, detached, source, events, watcher, stopSet, slot, registry, aborts, outside>>

DrainJoinMutant(s) ==         \* the cancel event stays registered
    /\ drain[s] = "join" /\ prod[s] = "done"
    /\ watcher' = [watcher EXCEPT ![s] = "off"]
    /\ drain' = [drain EXCEPT ![s] = "close"]
    /\ UNCHANGED <<gen, detached, source, events, stopSet, held, aborts, outside>>

\* _drain: the turn is over; the watcher is cancelled and the route's cleanup runs,
\* up to the await of close_client.
DrainJoin(s) ==
    /\ drain[s] = "join" /\ prod[s] = "done"
    /\ watcher' = [watcher EXCEPT ![s] = "off"]
    /\ Close(s)
    /\ drain' = [drain EXCEPT ![s] = "close"]
    /\ UNCHANGED <<gen, detached, source, events, stopSet, active, slot, freed, client, aborts,
                   outside>>

DrainClose(s) ==
    /\ drain[s] = "close"
    /\ client' = [client EXCEPT ![s] = "closed"]
    /\ GiveBack(s)
    /\ drain' = [drain EXCEPT ![s] = "ended"]
    /\ UNCHANGED <<gen, detached, source, events, watcher, stopSet, slot, registry, aborts, outside>>

--------------------------------------------------------------------------------
(* The environment                                                              *)

Stop(c) ==
    /\ registry[c] # NoStream
    /\ Cancel(c)
    /\ UNCHANGED <<gen, drain, detached, source, events, watcher, held, aborts, outside>>

Disconnect(s) ==
    /\ gen[s] \notin {"idle", "ended"} /\ conn[s]
    /\ conn' = [conn EXCEPT ![s] = FALSE]
    /\ UNCHANGED <<gen, drain, detached, source, events, watcher, stopSet, held, aborts, sess, draining>>

\* The framework cancels the response task of a client that is gone, at
\* whichever await it is suspended, as often as it likes.
Abort(s) ==
    /\ ~conn[s] /\ ~detached[s] /\ aborts < MaxAborts
    /\ aborts' = aborts + 1
    /\ \/ /\ gen[s] = "prepare"
          /\ Goto(s, "release")
          /\ UNCHANGED source
       \/ /\ gen[s] = "loop"
          /\ Goto(s, "finally")
          /\ UNCHANGED source
       \/ /\ gen[s] = "join"              \* reaches the task that is awaited
          /\ CancelProducer(s)
          /\ UNCHANGED gen
       \/ /\ gen[s] = "close"             \* close_client is cut short
          /\ Goto(s, "ended")
          /\ UNCHANGED source
    /\ UNCHANGED <<drain, detached, events, watcher, stopSet, held, outside>>

Sigterm ==
    /\ ~draining
    /\ draining' = TRUE
    /\ UNCHANGED <<gen, drain, detached, source, events, watcher, stopSet, held, aborts, sess, conn>>

--------------------------------------------------------------------------------
Producer(s) ==
    \/ TakeSessionLock(s) \/ OpenTurn(s) \/ Produce(s) \/ SettleTurn(s) \/ NextIteration(s)
    \/ SourceEnds(s) \/ SourceCleanedUp(s)
Consumer(s) ==
    \/ Request(s) \/ PrepareFails(s) \/ Prepared(s)
    \/ SeesDraining(s) \/ SeesDisconnect(s) \/ TakeItem(s)
    \/ Finally(s) \/ Join(s) \/ Release(s) \/ CloseClient(s)
Drain(s) == DrainJoin(s) \/ DrainClose(s)

Next ==
    \/ \E s \in Streams : Consumer(s) \/ Drain(s) \/ Producer(s) \/ WatchFires(s)
                          \/ StoreFails(s) \/ Disconnect(s) \/ Abort(s)
    \/ \E c \in Sessions : Stop(c)
    \/ Sigterm

Spec == Init /\ [][Next]_vars

\* The event loop runs every ready task; requests, stops, disconnects, failures and
\* SIGTERM are up to others.  A source may hang: its provider neither answers nor
\* fails.  The lock it waits for and the cleanup of a cancelled one are its own.
TasksRun ==
    \A s \in Streams :
        /\ WF_vars(gen[s] # "idle" /\ Consumer(s)) /\ WF_vars(Drain(s))
        /\ WF_vars(WatchFires(s))
        /\ WF_vars(TakeSessionLock(s) \/ SourceCleanedUp(s))

FairSpec == Spec /\ TasksRun

\* No provider hangs: a source ends by itself (see TurnLifecycle).
SourcesEnd == \A s \in Streams : WF_vars(Producer(s))

--------------------------------------------------------------------------------
TypeOK ==
    /\ sess \in [Streams -> Sessions]
    /\ gen \in [Streams -> {"idle", "prepare", "loop", "finally", "join",
                            "release", "close", "ended"}]
    /\ drain \in [Streams -> {"none", "join", "close", "ended"}]
    /\ detached \in [Streams -> BOOLEAN]
    /\ prod \in [Streams -> {"none", "wait", "between", "run", "cleanup", "done"}]
    /\ queue \in [Streams -> Seq({"event", "error", "DONE"})]
    /\ events \in Nat
    /\ watcher \in [Streams -> {"none", "wait", "off"}]
    /\ stopSet \in [Streams -> BOOLEAN]
    /\ registry \in [Sessions -> Streams \cup {NoStream}]
    /\ lock \in [Sessions -> Streams \cup {NoStream}]
    /\ turn \in [Streams -> {"none", "running", "settled", "interrupted"}]
    /\ iter \in [Streams -> Nat]
    /\ active \in 0..MaxActive
    /\ slot \in [Streams -> BOOLEAN]
    /\ freed \in [Streams -> Nat]
    /\ client \in [Streams -> {"none", "open", "closed"}]
    /\ conn \in [Streams -> BOOLEAN]
    /\ aborts \in Nat
    /\ hits \in [Streams -> Seq(Generating)]
    /\ faults \in [Streams -> Nat]
    /\ draining \in BOOLEAN

Over(s) == gen[s] = "ended" /\ drain[s] \in {"none", "ended"}
Slots == {s \in Streams : slot[s] /\ freed[s] = 0}

\* The limiter counts the streams that took a slot and have not released it: none
\* is released twice, by the route and by the drain it handed over to, and none
\* that was never taken.
SlotsCounted == active = Cardinality(Slots)

\* A stream that is over has unregistered its cancel event and given its slot
\* back, unless the closing of its client was cut short.
EndedHoldsNothing ==
    \A s \in Streams : Over(s) =>
        registry[sess[s]] # s /\ (s \in Slots => client[s] = "open")

\* A dropped connection never interrupts a turn: only a Stop or a shutdown does,
\* or a failing store.
InterruptedOnRequest ==
    \A s \in Streams : turn[s] = "interrupted" => stopSet[s] \/ draining \/ faults[s] > 0

\* A producer that is done leaves its turn running only when it was cancelled before
\* the source knew of the turn it had created, or a second time in the cleanup of
\* the first, or the store failed.
SettledUnlessCutShort ==
    \A s \in Streams : prod[s] = "done" /\ turn[s] = "running" =>
        hits[s] \in {<<"between">>, <<"run", "cleanup">>} \/ faults[s] > 0

\* A Stop that reached a stream ends its generation, before or after a detach,
\* even if the source would never end by itself: no stopped stream goes on for good.
StopEndsGeneration == []<>(\A s \in Streams : stopSet[s] => prod[s] \notin Generating)

\* When no source hangs, every request, accepted or refused, is eventually over, its
\* resources released, whether its client stays, leaves or stops it.
EveryStreamEnds == SourcesEnd => []<>(\A s \in Streams : gen[s] = "idle" \/ Over(s))

--------------------------------------------------------------------------------
(* What the documentation says and the code does not keep (see the README).    *)

\* api/routes/chat.py:190: Stop ends the in-flight stream of the conversation: it
\* does not end a stream that waits for the session while another generates.
StopHitsTheGenerator ==
    \A s, g \in Streams :
        (sess[s] = sess[g] /\ stopSet[s] /\ prod[g] = "run") => stopSet[g] \/ prod[s] # "wait"

\* docs/transport.md:141: after a Stop the turn is marked interrupted. A turn that
\* runs when the Stop hits it may stay running all the same.
StopSettlesTurn ==
    \A s \in Streams :
        (stopSet[s] /\ ~draining /\ prod[s] = "done" /\ hits[s] # <<>> /\ hits[s][1] = "run")
            => turn[s] # "running"
================================================================================
