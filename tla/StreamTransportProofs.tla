------------------------- MODULE StreamTransportProofs -------------------------
(****************************************************************************)
(* What holds of the chat streams of one user for any number of streams,    *)
(* sessions, slots and cancellations: slots are counted exactly, one        *)
(* producer generates per session, a consumer never waits on a queue that   *)
(* nothing will fill, and a turn is interrupted or left running only for    *)
(* the reasons the code gives.                                              *)
(****************************************************************************)
EXTENDS StreamTransport, FiniteSetTheorems, SequenceTheorems, TLAPS

USE DEF vars, source, held, outside

\* The session lock is held by the producer that is inside the session.
LockInv ==
    \A c \in Sessions, s \in Streams :
        lock[c] = s <=> c = sess[s] /\ prod[s] \in Inside

\* What the producer of a stream has done to its turn, and why.
ProducerInv(s) ==
    /\ prod[s] \in {"none", "wait"} => turn[s] = "none"
    /\ prod[s] \in {"none", "wait", "between", "run"} => hits[s] = <<>>
    /\ prod[s] = "between" => turn[s] \in {"none", "settled"}
    /\ prod[s] = "run" => turn[s] \in {"running", "settled"}
    /\ prod[s] = "cleanup" =>
          faults[s] > 0 \/ (hits[s] = <<"run">> /\ (stopSet[s] \/ draining))
    /\ turn[s] = "interrupted" => stopSet[s] \/ draining \/ faults[s] > 0
    /\ prod[s] = "done" /\ turn[s] = "running" =>
          hits[s] \in {<<"between">>, <<"run", "cleanup">>} \/ faults[s] > 0

\* Where the generator and the drain of a stream stand, and what they then hold.
GeneratorInv(s) ==
    /\ gen[s] \in {"idle", "prepare"} => prod[s] = "none" /\ client[s] = "none"
    /\ gen[s] \in {"loop", "finally", "join"} => prod[s] # "none"
    /\ gen[s] \in {"loop", "finally", "join", "close"} => client[s] = "open"
    /\ gen[s] = "join" => prod[s] = "done" \/ stopSet[s] \/ draining
    /\ gen[s] \in {"release", "close", "ended"} /\ ~detached[s] => prod[s] \in {"none", "done"}
    /\ gen[s] = "idle" => ~slot[s]
    /\ ~detached[s] => drain[s] = "none" /\ (gen[s] # "ended" => freed[s] = 0)
    /\ detached[s] =>
          /\ gen[s] = "ended" /\ drain[s] # "none" /\ prod[s] # "none"
          /\ drain[s] # "join" => prod[s] = "done"
          /\ drain[s] # "ended" => client[s] = "open" /\ freed[s] = 0
    /\ Over(s) => (slot[s] /\ freed[s] = 0 => client[s] = "open")

\* A cancel event is registered under its stream's own session, until the cleanup.
RegistryInv ==
    \A c \in Sessions, s \in Streams :
        registry[c] = s =>
            c = sess[s] /\ (gen[s] \in {"loop", "finally", "join"} \/ drain[s] = "join")

\* The marker of the end is the last thing a producer queues, and it is there
\* for as long as the consumer may wait for it.
QueueInv(s) ==
    gen[s] = "loop" /\ prod[s] = "done" =>
        queue[s] # <<>> /\ queue[s][Len(queue[s])] = "DONE"

IInv ==
    /\ TypeOK /\ SlotsCounted /\ LockInv /\ RegistryInv
    /\ \A s \in Streams : ProducerInv(s) /\ GeneratorInv(s) /\ QueueInv(s)

--------------------------------------------------------------------------------
\* The invariant holds at the start.
LEMMA InitInv == Init => IInv
<1> SUFFICES ASSUME Init PROVE IInv
  OBVIOUS
<1> USE BoundsAssumption, NoStreamAssumption DEF Init
<1>1. TypeOK
  <2>1. /\ queue \in [Streams -> Seq({"event", "error", "DONE"})]
        /\ hits \in [Streams -> Seq(Generating)]
    OBVIOUS
  <2>2. active \in 0..MaxActive
    OBVIOUS
  <2> QED BY <2>1, <2>2 DEF TypeOK
<1>2. SlotsCounted
  <2>1. Slots = {}
    BY DEF Slots
  <2> QED BY <2>1, FS_EmptySet DEF SlotsCounted
<1>3. LockInv /\ RegistryInv
  BY DEF LockInv, RegistryInv, Inside
<1>4. \A s \in Streams : ProducerInv(s) /\ GeneratorInv(s) /\ QueueInv(s)
  BY DEF ProducerInv, GeneratorInv, QueueInv, Over
<1> QED BY <1>1, <1>2, <1>3, <1>4 DEF IInv

Item == {"event", "error", "DONE"}
Row == {"none", "running", "settled", "interrupted"}
ProdAt == {"none", "wait", "between", "run", "cleanup", "done"}
GenAt == {"idle", "prepare", "loop", "finally", "join", "release", "close", "ended"}

\* What the last step of a producer leaves behind.
LEMMA Ends ==
    ASSUME TypeOK, LockInv, NEW s \in Streams, NEW items \in {<<>>, <<"error">>}, NEW row \in Row,
           ProducerEnds(s, items, row), UNCHANGED sess
    PROVE  /\ prod' = [prod EXCEPT ![s] = "done"] /\ turn' = [turn EXCEPT ![s] = row]
           /\ queue' \in [Streams -> Seq(Item)]
           /\ queue'[s] # <<>> /\ queue'[s][Len(queue'[s])] = "DONE"
           /\ \A q \in Streams \ {s} : queue'[q] = queue[q]
           /\ prod' \in [Streams -> ProdAt] /\ turn' \in [Streams -> Row]
           /\ lock' \in [Sessions -> Streams \cup {NoStream}]
           /\ LockInv'
<1> USE DEF ProducerEnds
<1>0. items \in Seq(Item)
  <2>1. <<>> \in Seq(Item) /\ <<"error">> \in Seq(Item)
    BY DEF Item
  <2> QED BY <2>1
<1>1. queue' = [queue EXCEPT ![s] = (queue[s] \o items) \o <<"DONE">>]
  OBVIOUS
<1>2. queue[s] \o items \in Seq(Item)
  BY <1>0 DEF TypeOK, Item
<1>3. \A seq \in Seq(Item) : /\ seq \o <<"DONE">> \in Seq(Item) /\ seq \o <<"DONE">> # <<>>
                             /\ (seq \o <<"DONE">>)[Len(seq \o <<"DONE">>)] = "DONE"
  BY DEF Item
<1>4. queue \in [Streams -> Seq(Item)]
  BY DEF TypeOK, Item
<1>5. /\ queue' \in [Streams -> Seq(Item)]
      /\ queue'[s] # <<>> /\ queue'[s][Len(queue'[s])] = "DONE"
      /\ \A q \in Streams \ {s} : queue'[q] = queue[q]
  BY <1>1, <1>2, <1>3, <1>4
<1>6. lock' \in [Sessions -> Streams \cup {NoStream}]
  BY DEF TypeOK
<1>7. LockInv'
  BY NoStreamAssumption DEF TypeOK, LockInv, Inside
<1>8. prod' \in [Streams -> ProdAt] /\ turn' \in [Streams -> Row]
  BY DEF TypeOK, ProdAt, Row
<1> QED BY <1>5, <1>6, <1>7, <1>8

\* What a cancellation of the producer does, by what the producer is doing.
LEMMA Cancels ==
    ASSUME TypeOK, LockInv, NEW s \in Streams, CancelProducer(s), UNCHANGED sess
    PROVE  /\ prod[s] \in Generating
           /\ hits' = [hits EXCEPT ![s] = Append(hits[s], prod[s])] /\ UNCHANGED <<iter, faults>>
           /\ \A q \in Streams \ {s} : turn'[q] = turn[q] /\ queue'[q] = queue[q]
           /\ prod[s] \in {"wait", "run"} => turn'[s] = turn[s]
           /\ prod[s] = "between" => turn'[s] \in {turn[s], "running"}
           /\ prod[s] = "cleanup" => turn'[s] \in {turn[s], Interrupted(turn[s])}
           /\ \/ prod[s] = "run" /\ prod' = [prod EXCEPT ![s] = "cleanup"] /\ queue' = queue
              \/ /\ prod[s] # "run" /\ prod' = [prod EXCEPT ![s] = "done"]
                 /\ queue'[s] # <<>> /\ queue'[s][Len(queue'[s])] = "DONE"
           /\ queue' \in [Streams -> Seq(Item)]
           /\ prod' \in [Streams -> ProdAt] /\ turn' \in [Streams -> Row]
           /\ hits' \in [Streams -> Seq(Generating)]
           /\ lock' \in [Sessions -> Streams \cup {NoStream}]
           /\ LockInv'
<1>0. /\ hits' = [hits EXCEPT ![s] = Append(hits[s], prod[s])] /\ UNCHANGED <<iter, faults>>
      /\ prod[s] \in Generating
  BY DEF CancelProducer, Generating
<1>1. hits' \in [Streams -> Seq(Generating)]
  <2>1. Append(hits[s], prod[s]) \in Seq(Generating)
    BY <1>0 DEF TypeOK
  <2> QED BY <1>0, <2>1 DEF TypeOK
<1>2. CASE prod[s] = "run"
  <2>1. prod' = [prod EXCEPT ![s] = "cleanup"] /\ UNCHANGED <<queue, lock, turn>>
    BY <1>2 DEF CancelProducer
  <2>2. LockInv'
    BY <1>2, <2>1 DEF TypeOK, LockInv, Inside
  <2> QED BY <1>0, <1>1, <1>2, <2>1, <2>2 DEF TypeOK, Item, ProdAt, Row
<1>3. CASE prod[s] # "run"
  <2>1. PICK row \in Row :
           /\ ProducerEnds(s, <<"error">>, row)
           /\ prod[s] = "wait" => row = turn[s]
           /\ prod[s] = "between" => row \in {turn[s], "running"}
           /\ prod[s] = "cleanup" => row \in {turn[s], Interrupted(turn[s])}
    <3>1. turn[s] \in Row /\ "running" \in Row /\ Interrupted(turn[s]) \in Row
      BY DEF TypeOK, Row, Interrupted
    <3> QED BY <1>3, <3>1 DEF CancelProducer
  <2>2. turn' = [turn EXCEPT ![s] = row]
    BY <2>1 DEF ProducerEnds
  <2>3. turn'[s] = row /\ \A q \in Streams \ {s} : turn'[q] = turn[q]
    BY <2>2 DEF TypeOK
  <2>4. <<"error">> \in {<<>>, <<"error">>}
    OBVIOUS
  <2> QED BY <1>0, <1>1, <1>3, <2>1, <2>3, <2>4, Ends
<1> QED BY <1>2, <1>3

\* What the other steps of a producer that touch its lock do: the producer goes to
\* "to" and the row of its turn is "row".
SourceMoved(s, to, row) ==
    /\ prod[s] \in Inside /\ to \in {"cleanup", "done"}
    /\ UNCHANGED <<gen, drain, detached, iter, hits, events, watcher, stopSet, held, aborts, outside>>
    /\ faults' \in [Streams -> Nat] /\ \A q \in Streams : faults'[q] >= faults[q]
    /\ prod' = [prod EXCEPT ![s] = to] /\ prod' \in [Streams -> ProdAt]
    /\ turn' = [turn EXCEPT ![s] = row] /\ turn' \in [Streams -> Row]
    /\ queue' \in [Streams -> Seq(Item)] /\ \A q \in Streams \ {s} : queue'[q] = queue[q]
    /\ to = "done" => queue'[s] # <<>> /\ queue'[s][Len(queue'[s])] = "DONE"
    /\ lock' \in [Sessions -> Streams \cup {NoStream}] /\ LockInv'

\* A source that ends or raises leaves the row as it is; it runs no turn.
LEMMA SourceEndsMoves ==
    ASSUME TypeOK, LockInv, NEW s \in Streams, SourceEnds(s)
    PROVE  SourceMoved(s, "done", turn[s]) /\ (prod[s] = "between" \/ turn[s] = "settled")
<1>1. PICK items \in {<<>>, <<"error">>} : ProducerEnds(s, items, turn[s])
  BY DEF SourceEnds
<1>2. /\ prod[s] \in Inside /\ (prod[s] = "between" \/ turn[s] = "settled") /\ UNCHANGED faults
      /\ UNCHANGED <<gen, drain, detached, iter, hits, events, watcher, stopSet, held, aborts, outside>>
  BY DEF SourceEnds, Inside
<1>3. turn[s] \in Row /\ UNCHANGED sess
  BY <1>2 DEF TypeOK, Row
<1>4. faults' \in [Streams -> Nat] /\ \A q \in Streams : faults'[q] >= faults[q]
  BY <1>2 DEF TypeOK
<1>5. /\ prod' = [prod EXCEPT ![s] = "done"] /\ turn' = [turn EXCEPT ![s] = turn[s]]
      /\ queue' \in [Streams -> Seq(Item)]
      /\ queue'[s] # <<>> /\ queue'[s][Len(queue'[s])] = "DONE"
      /\ \A q \in Streams \ {s} : queue'[q] = queue[q]
      /\ prod' \in [Streams -> ProdAt] /\ turn' \in [Streams -> Row]
      /\ lock' \in [Sessions -> Streams \cup {NoStream}] /\ LockInv'
  BY <1>1, <1>3, Ends
<1> QED BY <1>2, <1>4, <1>5 DEF SourceMoved

\* A cleanup that is through marks the turn it found running.
LEMMA CleanupMoves ==
    ASSUME TypeOK, LockInv, NEW s \in Streams, SourceCleanedUp(s)
    PROVE  SourceMoved(s, "done", Interrupted(turn[s])) /\ prod[s] = "cleanup"
<1>1. ProducerEnds(s, <<"error">>, Interrupted(turn[s]))
  BY DEF SourceCleanedUp
<1>2. /\ prod[s] \in Inside /\ prod[s] = "cleanup" /\ UNCHANGED faults
      /\ UNCHANGED <<gen, drain, detached, iter, hits, events, watcher, stopSet, held, aborts, outside>>
  BY DEF SourceCleanedUp, Inside
<1>3. Interrupted(turn[s]) \in Row /\ UNCHANGED sess /\ <<"error">> \in {<<>>, <<"error">>}
  BY <1>2 DEF TypeOK, Row, Interrupted
<1>4. faults' \in [Streams -> Nat] /\ \A q \in Streams : faults'[q] >= faults[q]
  BY <1>2 DEF TypeOK
<1>5. /\ prod' = [prod EXCEPT ![s] = "done"] /\ turn' = [turn EXCEPT ![s] = Interrupted(turn[s])]
      /\ queue' \in [Streams -> Seq(Item)]
      /\ queue'[s] # <<>> /\ queue'[s][Len(queue'[s])] = "DONE"
      /\ \A q \in Streams \ {s} : queue'[q] = queue[q]
      /\ prod' \in [Streams -> ProdAt] /\ turn' \in [Streams -> Row]
      /\ lock' \in [Sessions -> Streams \cup {NoStream}] /\ LockInv'
  BY <1>1, <1>3, Ends
<1> QED BY <1>2, <1>4, <1>5 DEF SourceMoved

\* A failing store call starts the cleanup or ends it, and marks nothing.
LEMMA StoreFailsMoves ==
    ASSUME TypeOK, LockInv, NEW s \in Streams, StoreFails(s)
    PROVE  (\E to \in {"cleanup", "done"} : SourceMoved(s, to, turn[s])) /\ faults'[s] > 0
<1>1. /\ prod[s] \in {"run", "cleanup"} /\ faults' = [faults EXCEPT ![s] = faults[s] + 1]
      /\ UNCHANGED <<gen, drain, detached, iter, hits, events, watcher, stopSet, held, aborts, outside>>
  BY DEF StoreFails
<1>2. /\ faults' \in [Streams -> Nat] /\ faults'[s] > 0
      /\ \A q \in Streams : faults'[q] >= faults[q]
  BY <1>1 DEF TypeOK
<1>3. turn[s] \in Row /\ UNCHANGED sess /\ <<"error">> \in {<<>>, <<"error">>} /\ prod[s] \in Inside
  BY <1>1 DEF TypeOK, Row, Inside
<1>4. CASE prod[s] = "run"
  <2>1. prod' = [prod EXCEPT ![s] = "cleanup"] /\ UNCHANGED <<queue, lock, turn>>
    BY <1>4 DEF StoreFails
  <2>2. LockInv'
    BY <1>3, <1>4, <2>1 DEF TypeOK, LockInv, Inside
  <2>3. /\ turn' = [turn EXCEPT ![s] = turn[s]] /\ turn' \in [Streams -> Row]
        /\ prod' \in [Streams -> ProdAt] /\ queue' \in [Streams -> Seq(Item)]
        /\ lock' \in [Sessions -> Streams \cup {NoStream}]
    BY <2>1 DEF TypeOK, Row, ProdAt, Item
  <2>4. SourceMoved(s, "cleanup", turn[s])
    BY <1>1, <1>2, <1>3, <2>1, <2>2, <2>3 DEF SourceMoved
  <2> QED BY <1>2, <2>4
<1>5. CASE prod[s] = "cleanup"
  <2>1. ProducerEnds(s, <<"error">>, turn[s])
    BY <1>5 DEF StoreFails
  <2>2. /\ prod' = [prod EXCEPT ![s] = "done"] /\ turn' = [turn EXCEPT ![s] = turn[s]]
        /\ queue' \in [Streams -> Seq(Item)]
        /\ queue'[s] # <<>> /\ queue'[s][Len(queue'[s])] = "DONE"
        /\ \A q \in Streams \ {s} : queue'[q] = queue[q]
        /\ prod' \in [Streams -> ProdAt] /\ turn' \in [Streams -> Row]
        /\ lock' \in [Sessions -> Streams \cup {NoStream}] /\ LockInv'
    BY <1>3, <2>1, Ends
  <2>3. SourceMoved(s, "done", turn[s])
    BY <1>1, <1>2, <1>3, <2>2 DEF SourceMoved
  <2> QED BY <1>2, <2>3
<1> QED BY <1>1, <1>4, <1>5

\* The three together.
LEMMA SourceMoves ==
    ASSUME TypeOK, LockInv, NEW s \in Streams,
           SourceEnds(s) \/ SourceCleanedUp(s) \/ StoreFails(s)
    PROVE  \E to, row : SourceMoved(s, to, row)
BY SourceEndsMoves, CleanupMoves, StoreFailsMoves

\* A release of resources that goes to its end gives the slot back.
LEMMA ReleaseEnds ==
    ASSUME NEW s \in Streams, NEW h \in BOOLEAN, RouteFinally(s, h), TypeOK
    PROVE  /\ gen' \in [Streams -> GenAt] /\ registry' \in [Sessions -> Streams \cup {NoStream}]
           /\ \A q \in Streams \ {s} : gen'[q] = gen[q]
           /\ \/ h /\ gen'[s] = "ended" /\ UNCHANGED <<active, freed, registry>>
              \/ /\ ~h /\ registry' = [c \in Sessions |->
                                          IF registry[c] = s THEN NoStream ELSE registry[c]]
                 /\ \/ client[s] = "open" /\ gen'[s] = "close" /\ UNCHANGED <<active, freed>>
                    \/ client[s] # "open" /\ GiveBack(s) /\ gen'[s] = "ended"
<1>1. CASE h /\ Goto(s, "ended") /\ UNCHANGED <<active, freed, registry>>
  BY <1>1 DEF Goto, TypeOK, GenAt
<1>2. CASE ~h /\ ReleaseResources(s)
  <2>1. registry' = [c \in Sessions |-> IF registry[c] = s THEN NoStream ELSE registry[c]]
    BY <1>2 DEF ReleaseResources, Close
  <2>2. registry' \in [Sessions -> Streams \cup {NoStream}]
    BY <2>1 DEF TypeOK
  <2>3. CASE client[s] = "open" /\ Goto(s, "close") /\ UNCHANGED <<active, freed>>
    BY <1>2, <2>1, <2>2, <2>3 DEF Goto, TypeOK, GenAt
  <2>4. CASE client[s] # "open" /\ GiveBack(s) /\ Goto(s, "ended")
    <3>1. gen' \in [Streams -> GenAt] /\ gen'[s] = "ended" /\ \A q \in Streams \ {s} : gen'[q] = gen[q]
      BY <2>4 DEF Goto, TypeOK, GenAt
    <3> QED BY <1>2, <2>1, <2>2, <2>4, <3>1
  <2> QED BY <1>2, <2>3, <2>4 DEF ReleaseResources
<1> QED BY <1>1, <1>2 DEF RouteFinally

\* What a slot given back does to the counters.
LEMMA Released ==
    ASSUME TypeOK, SlotsCounted, NEW s \in Streams, freed[s] = 0, GiveBack(s), UNCHANGED slot
    PROVE  /\ SlotsCounted' /\ active' \in 0..MaxActive
           /\ freed' \in [Streams -> Nat] /\ (slot[s] => freed'[s] # 0)
           /\ \A q \in Streams \ {s} : freed'[q] = freed[q]
<1>1. IsFiniteSet(Slots) /\ Cardinality(Slots) \in Nat
  BY NoStreamAssumption, FS_Subset, FS_CardinalityType DEF Slots
<1>2. CASE slot[s]
  <2>1. ReleaseSlot(s)
    BY <1>2 DEF GiveBack
  <2>2. freed' = [freed EXCEPT ![s] = freed[s] + 1]
    BY <2>1 DEF ReleaseSlot
  <2>3. Slots' = Slots \ {s} /\ s \in Slots
    BY <1>2, <2>2 DEF Slots, TypeOK
  <2>4. Cardinality(Slots \ {s}) = Cardinality(Slots) - 1
    BY <1>1, <2>3, FS_RemoveElement
  <2>5. Cardinality(Slots) # 0
    BY <1>1, <2>3, FS_EmptySet
  <2>6. active' = active - 1 /\ active \in 1..MaxActive
    BY <1>1, <2>1, <2>5, BoundsAssumption DEF ReleaseSlot, SlotsCounted, TypeOK
  <2>7. freed' \in [Streams -> Nat] /\ freed'[s] = 1 /\ \A q \in Streams \ {s} : freed'[q] = freed[q]
    BY <2>2 DEF TypeOK
  <2>8. active' \in 0..MaxActive
    BY <2>6, BoundsAssumption
  <2> QED BY <1>1, <2>3, <2>4, <2>6, <2>7, <2>8 DEF SlotsCounted
<1>3. CASE ~slot[s]
  <2>1. UNCHANGED <<active, freed>>
    BY <1>3 DEF GiveBack
  <2> QED BY <1>3, <2>1 DEF SlotsCounted, Slots, TypeOK
<1> QED BY <1>2, <1>3

\* See Released.
LEMMA Acquired ==
    ASSUME TypeOK, SlotsCounted, NEW s \in Streams, ~slot[s], freed[s] = 0, Acquire(s),
           UNCHANGED freed
    PROVE  SlotsCounted'
<1>1. IsFiniteSet(Slots) /\ Cardinality(Slots) \in Nat
  BY NoStreamAssumption, FS_Subset, FS_CardinalityType DEF Slots
<1>2. Slots' = Slots \cup {s} /\ s \notin Slots
  BY DEF Acquire, Slots, TypeOK
<1>3. Cardinality(Slots \cup {s}) = Cardinality(Slots) + 1
  BY <1>1, <1>2, FS_AddElement
<1> QED BY <1>1, <1>2, <1>3 DEF SlotsCounted, Acquire

\* Every variable keeps its type.
LEMMA TypeStep ==
    ASSUME TypeOK, LockInv, SlotsCounted, \A q \in Streams : GeneratorInv(q), [Next]_vars
    PROVE  TypeOK'
<1> USE BoundsAssumption
<1>1. ASSUME NEW s \in Streams, Request(s) PROVE TypeOK'
  <2>1. /\ gen' \in [Streams -> GenAt] /\ slot' \in [Streams -> BOOLEAN]
    BY <1>1 DEF TypeOK, Request, Goto, Acquire, GenAt
  <2>2. active' \in 0..MaxActive
    BY <1>1 DEF TypeOK, Request, Acquire
  <2> QED BY <1>1, <2>1, <2>2 DEF TypeOK, Request, GenAt
<1>2. ASSUME NEW s \in Streams, PrepareFails(s) PROVE TypeOK'
  BY <1>2 DEF PrepareFails, TypeOK, Goto
<1>3. ASSUME NEW s \in Streams, Prepared(s) PROVE TypeOK'
  BY <1>3 DEF Prepared, TypeOK, PrepareChat, Open, Goto
<1>4. ASSUME NEW s \in Streams, SeesDraining(s) PROVE TypeOK'
  BY <1>4 DEF SeesDraining, TypeOK, Goto
<1>5. ASSUME NEW s \in Streams, SeesDisconnect(s) PROVE TypeOK'
  BY <1>5 DEF SeesDisconnect, TypeOK, Goto
<1>6. ASSUME NEW s \in Streams, TakeItem(s) PROVE TypeOK'
  <2>1. Tail(queue[s]) \in Seq(Item)
    BY <1>6 DEF TakeItem, TypeOK, Item
  <2>2. queue' = [queue EXCEPT ![s] = Tail(queue[s])]
    BY <1>6 DEF TakeItem
  <2>3. gen' \in [Streams -> GenAt]
    <3>1. CASE UNCHANGED gen
      BY <3>1 DEF TypeOK, GenAt
    <3>2. CASE Goto(s, "finally")
      BY <3>2 DEF Goto, TypeOK, GenAt
    <3> QED BY <1>6, <3>1, <3>2 DEF TakeItem
  <2>4. queue' \in [Streams -> Seq(Item)]
    BY <2>1, <2>2 DEF TypeOK, Item
  <2>5. UNCHANGED <<drain, detached, prod, lock, turn, iter, hits, faults, events, watcher, stopSet,
                    held, aborts, outside>>
    BY <1>6 DEF TakeItem
  <2> QED BY <2>3, <2>4, <2>5 DEF TypeOK, Item, GenAt
<1>7. ASSUME NEW s \in Streams, Finally(s) PROVE TypeOK'
  <2>1. CASE HandsOver(s) /\ RouteFinally(s, TRUE)
    <3>1. gen' \in [Streams -> GenAt] /\ UNCHANGED <<active, freed, registry>>
      BY <2>1 DEF RouteFinally, Goto, TypeOK, GenAt
    <3>2. drain' \in [Streams -> {"none", "join", "close", "ended"}] /\ detached' \in [Streams -> BOOLEAN]
      BY <1>7, <2>1 DEF TypeOK, Finally
    <3>3. UNCHANGED <<source, watcher>>
      BY <1>7, <2>1 DEF Finally
    <3>4. UNCHANGED <<events, stopSet, slot, client, aborts, outside>>
      BY <1>7 DEF Finally
    <3> QED BY <3>1, <3>2, <3>3, <3>4 DEF TypeOK, GenAt
  <2>2. CASE ~HandsOver(s)
    <3>1. /\ gen' \in [Streams -> GenAt] /\ watcher' \in [Streams -> {"none", "wait", "off"}]
          /\ UNCHANGED <<detached, drain, active, freed, registry>>
          /\ UNCHANGED <<events, stopSet, slot, client, aborts, outside>>
      BY <1>7, <2>2 DEF TypeOK, Finally, Goto, GenAt
    <3>2. CASE CancelProducer(s)
      <4>1. /\ prod' \in [Streams -> ProdAt] /\ turn' \in [Streams -> Row]
            /\ queue' \in [Streams -> Seq(Item)] /\ lock' \in [Sessions -> Streams \cup {NoStream}]
            /\ hits' \in [Streams -> Seq(Generating)] /\ UNCHANGED <<iter, faults>>
        BY <3>1, <3>2, Cancels
      <4> QED BY <3>1, <4>1 DEF TypeOK, Item, ProdAt, Row, GenAt
    <3>3. CASE UNCHANGED source
      BY <3>1, <3>3 DEF TypeOK, GenAt
    <3> QED BY <1>7, <2>2, <3>2, <3>3 DEF Finally
  <2> QED BY <1>7, <2>1, <2>2 DEF Finally
<1>8. ASSUME NEW s \in Streams, Join(s) PROVE TypeOK'
  <2>1. /\ gen' \in [Streams -> GenAt] /\ registry' \in [Sessions -> Streams \cup {NoStream}]
        /\ UNCHANGED <<active, freed>> \/ GiveBack(s)
    BY <1>8, ReleaseEnds DEF Join
  <2>2. freed[s] = 0
    BY <1>8 DEF Join, GeneratorInv
  <2>3. active' \in 0..MaxActive /\ freed' \in [Streams -> Nat]
    <3>1. CASE UNCHANGED <<active, freed>>
      BY <3>1 DEF TypeOK
    <3>2. CASE GiveBack(s)
      BY <1>8, <2>2, <3>2, Released DEF Join
    <3> QED BY <2>1, <3>1, <3>2
  <2> QED BY <1>8, <2>1, <2>3 DEF TypeOK, Join, GenAt
<1>9. ASSUME NEW s \in Streams, Release(s) PROVE TypeOK'
  <2>1. /\ gen' \in [Streams -> GenAt] /\ registry' \in [Sessions -> Streams \cup {NoStream}]
        /\ UNCHANGED <<active, freed>> \/ GiveBack(s)
    BY <1>9, ReleaseEnds DEF Release
  <2>2. freed[s] = 0
    BY <1>9 DEF Release, GeneratorInv
  <2>3. active' \in 0..MaxActive /\ freed' \in [Streams -> Nat]
    <3>1. CASE UNCHANGED <<active, freed>>
      BY <3>1 DEF TypeOK
    <3>2. CASE GiveBack(s)
      BY <1>9, <2>2, <3>2, Released DEF Release
    <3> QED BY <2>1, <3>1, <3>2
  <2> QED BY <1>9, <2>1, <2>3 DEF TypeOK, Release, GenAt
<1>10. ASSUME NEW s \in Streams, CloseClient(s) PROVE TypeOK'
  <2>1. freed[s] = 0
    BY <1>10 DEF CloseClient, GeneratorInv
  <2>2. active' \in 0..MaxActive /\ freed' \in [Streams -> Nat]
    BY <1>10, <2>1, Released DEF CloseClient
  <2>3. gen' \in [Streams -> GenAt] /\ client' \in [Streams -> {"none", "open", "closed"}]
    BY <1>10 DEF CloseClient, Goto, TypeOK, GenAt
  <2> QED BY <1>10, <2>2, <2>3 DEF TypeOK, CloseClient, GenAt
<1>11. ASSUME NEW s \in Streams, DrainJoin(s) PROVE TypeOK'
  BY <1>11 DEF DrainJoin, TypeOK, Close
<1>12. ASSUME NEW s \in Streams, DrainClose(s) PROVE TypeOK'
  <2>1. freed[s] = 0
    BY <1>12 DEF DrainClose, GeneratorInv
  <2>2. active' \in 0..MaxActive /\ freed' \in [Streams -> Nat]
    BY <1>12, <2>1, Released DEF DrainClose
  <2>3. /\ drain' \in [Streams -> {"none", "join", "close", "ended"}]
        /\ client' \in [Streams -> {"none", "open", "closed"}]
    BY <1>12 DEF DrainClose, TypeOK
  <2> QED BY <1>12, <2>2, <2>3 DEF TypeOK, DrainClose
<1>13. ASSUME NEW s \in Streams, TakeSessionLock(s) PROVE TypeOK'
  BY <1>13 DEF TakeSessionLock, TypeOK, Goto
<1>14. ASSUME NEW s \in Streams, OpenTurn(s) PROVE TypeOK'
  BY <1>14 DEF OpenTurn, TypeOK, Goto
<1>15. ASSUME NEW s \in Streams, Produce(s) PROVE TypeOK'
  <2>1. Append(queue[s], "event") \in Seq(Item)
    BY DEF TypeOK, Item
  <2>2. queue' = [queue EXCEPT ![s] = Append(queue[s], "event")]
    BY <1>15 DEF Produce
  <2>3. queue' \in [Streams -> Seq(Item)]
    BY <2>1, <2>2 DEF TypeOK, Item
  <2>4. events' \in Nat
    BY <1>15 DEF Produce, TypeOK
  <2>5. UNCHANGED <<gen, drain, detached, prod, lock, turn, iter, hits, faults, watcher, stopSet,
                    held, aborts, outside>>
    BY <1>15 DEF Produce
  <2> QED BY <2>3, <2>4, <2>5 DEF TypeOK, Item
<1>16. ASSUME NEW s \in Streams, SettleTurn(s) PROVE TypeOK'
  BY <1>16 DEF SettleTurn, TypeOK, Goto
<1>17. ASSUME NEW s \in Streams, NextIteration(s) PROVE TypeOK'
  BY <1>17 DEF NextIteration, TypeOK, Goto
<1>18. ASSUME NEW s \in Streams, NEW to, NEW row, SourceMoved(s, to, row) PROVE TypeOK'
  BY <1>18 DEF SourceMoved, TypeOK, Item, Row, ProdAt
<1>19. ASSUME NEW s \in Streams, SourceEnds(s) \/ SourceCleanedUp(s) \/ StoreFails(s) PROVE TypeOK'
  BY <1>18, <1>19, SourceMoves
<1>21. ASSUME NEW s \in Streams, WatchFires(s) PROVE TypeOK'
  <2>0. watcher' \in [Streams -> {"none", "wait", "off"}]
    BY <1>21 DEF TypeOK, WatchFires
  <2>1. CASE CancelProducer(s)
    <3>1. /\ prod' \in [Streams -> ProdAt] /\ turn' \in [Streams -> Row]
          /\ queue' \in [Streams -> Seq(Item)] /\ lock' \in [Sessions -> Streams \cup {NoStream}]
          /\ hits' \in [Streams -> Seq(Generating)] /\ UNCHANGED <<iter, faults>>
      BY <1>21, <2>1, Cancels DEF WatchFires
    <3> QED BY <1>21, <2>0, <3>1 DEF TypeOK, WatchFires, Item, ProdAt, Row
  <2>2. CASE UNCHANGED source
    BY <1>21, <2>0, <2>2 DEF TypeOK, WatchFires
  <2> QED BY <1>21, <2>1, <2>2 DEF WatchFires
<1>22. ASSUME NEW s \in Streams, Disconnect(s) PROVE TypeOK'
  BY <1>22 DEF Disconnect, TypeOK, Goto
<1>23. ASSUME NEW s \in Streams, Abort(s) PROVE TypeOK'
  <2>0. aborts' \in Nat
    BY <1>23 DEF TypeOK, Abort
  <2>1. CASE gen[s] = "join"
    <3>1. /\ prod' \in [Streams -> ProdAt] /\ turn' \in [Streams -> Row]
          /\ queue' \in [Streams -> Seq(Item)] /\ lock' \in [Sessions -> Streams \cup {NoStream}]
          /\ hits' \in [Streams -> Seq(Generating)] /\ UNCHANGED <<iter, faults>>
      BY <1>23, <2>1, Cancels DEF Abort
    <3>3. UNCHANGED <<gen, drain, detached, events, watcher, stopSet, held, outside>>
      BY <1>23, <2>1 DEF Abort
    <3> QED BY <2>0, <3>1, <3>3 DEF TypeOK, Item, ProdAt, Row
  <2>2. CASE gen[s] # "join"
    <3>1. gen' \in [Streams -> GenAt]
      <4>1. Goto(s, "release") \/ Goto(s, "finally") \/ Goto(s, "ended")
        BY <1>23, <2>2 DEF Abort
      <4> QED BY <4>1 DEF Goto, TypeOK, GenAt
    <3>2. UNCHANGED <<source, drain, detached, events, watcher, stopSet, held, outside>>
      BY <1>23, <2>2 DEF Abort
    <3> QED BY <2>0, <3>1, <3>2 DEF TypeOK, GenAt
  <2> QED BY <2>1, <2>2
<1>24. ASSUME NEW c \in Sessions, Stop(c) PROVE TypeOK'
  BY <1>24 DEF Stop, TypeOK, Cancel
<1>25. CASE Sigterm
  BY <1>25 DEF Sigterm, TypeOK
<1>26. CASE UNCHANGED vars
  BY <1>26 DEF TypeOK
<1> QED
  BY <1>1, <1>2, <1>3, <1>4, <1>5, <1>6, <1>7, <1>8, <1>9, <1>10,
     <1>11, <1>12, <1>13, <1>14, <1>15, <1>16, <1>17, <1>19,
     <1>21, <1>22, <1>23, <1>24, <1>25, <1>26
     DEF Next, Consumer, Drain, Producer

\* The counter is the number of slots held.
LEMMA SlotsStep ==
    ASSUME TypeOK, LockInv, SlotsCounted, \A q \in Streams : GeneratorInv(q), [Next]_vars
    PROVE  SlotsCounted'
<1>1. ASSUME NEW s \in Streams, Request(s) PROVE SlotsCounted'
  <2>1. freed[s] = 0 /\ ~slot[s] /\ UNCHANGED freed
    BY <1>1 DEF Request, GeneratorInv
  <2>2. CASE Acquire(s)
    BY <2>1, <2>2, Acquired
  <2>3. CASE UNCHANGED <<active, slot>>
    BY <2>1, <2>3 DEF SlotsCounted, Slots
  <2> QED BY <1>1, <2>2, <2>3 DEF Request
<1>2. ASSUME NEW s \in Streams, PrepareFails(s) PROVE SlotsCounted'
  BY <1>2 DEF PrepareFails, SlotsCounted, Slots
<1>3. ASSUME NEW s \in Streams, Prepared(s) PROVE SlotsCounted'
  BY <1>3 DEF Prepared, SlotsCounted, Slots
<1>4. ASSUME NEW s \in Streams, SeesDraining(s) PROVE SlotsCounted'
  BY <1>4 DEF SeesDraining, SlotsCounted, Slots
<1>5. ASSUME NEW s \in Streams, SeesDisconnect(s) PROVE SlotsCounted'
  BY <1>5 DEF SeesDisconnect, SlotsCounted, Slots
<1>6. ASSUME NEW s \in Streams, TakeItem(s) PROVE SlotsCounted'
  BY <1>6 DEF TakeItem, SlotsCounted, Slots
<1>7. ASSUME NEW s \in Streams, Finally(s) PROVE SlotsCounted'
  <2>1. UNCHANGED <<active, freed, slot>>
    BY <1>7 DEF Finally, RouteFinally
  <2> QED BY <2>1 DEF SlotsCounted, Slots
<1>8. ASSUME NEW s \in Streams, Join(s) PROVE SlotsCounted'
  <2>1. freed[s] = 0 /\ UNCHANGED slot
    BY <1>8 DEF Join, GeneratorInv
  <2>2. CASE GiveBack(s)
    BY <2>1, <2>2, Released
  <2>3. CASE UNCHANGED <<active, freed>>
    BY <2>1, <2>3 DEF SlotsCounted, Slots
  <2> QED BY <1>8, <2>2, <2>3, ReleaseEnds DEF Join
<1>9. ASSUME NEW s \in Streams, Release(s) PROVE SlotsCounted'
  <2>1. freed[s] = 0 /\ UNCHANGED slot
    BY <1>9 DEF Release, GeneratorInv
  <2>2. CASE GiveBack(s)
    BY <2>1, <2>2, Released
  <2>3. CASE UNCHANGED <<active, freed>>
    BY <2>1, <2>3 DEF SlotsCounted, Slots
  <2> QED BY <1>9, <2>2, <2>3, ReleaseEnds DEF Release
<1>10. ASSUME NEW s \in Streams, CloseClient(s) PROVE SlotsCounted'
  <2>1. freed[s] = 0
    BY <1>10 DEF CloseClient, GeneratorInv
  <2> QED BY <1>10, <2>1, Released DEF CloseClient
<1>11. ASSUME NEW s \in Streams, DrainJoin(s) PROVE SlotsCounted'
  BY <1>11 DEF DrainJoin, SlotsCounted, Slots
<1>12. ASSUME NEW s \in Streams, DrainClose(s) PROVE SlotsCounted'
  <2>1. freed[s] = 0
    BY <1>12 DEF DrainClose, GeneratorInv
  <2> QED BY <1>12, <2>1, Released DEF DrainClose
<1>13. ASSUME NEW s \in Streams, TakeSessionLock(s) PROVE SlotsCounted'
  BY <1>13 DEF TakeSessionLock, SlotsCounted, Slots
<1>14. ASSUME NEW s \in Streams, OpenTurn(s) PROVE SlotsCounted'
  BY <1>14 DEF OpenTurn, SlotsCounted, Slots
<1>15. ASSUME NEW s \in Streams, Produce(s) PROVE SlotsCounted'
  BY <1>15 DEF Produce, SlotsCounted, Slots
<1>16. ASSUME NEW s \in Streams, SettleTurn(s) PROVE SlotsCounted'
  BY <1>16 DEF SettleTurn, SlotsCounted, Slots
<1>17. ASSUME NEW s \in Streams, NextIteration(s) PROVE SlotsCounted'
  BY <1>17 DEF NextIteration, SlotsCounted, Slots
<1>18. ASSUME NEW s \in Streams, NEW to, NEW row, SourceMoved(s, to, row) PROVE SlotsCounted'
  BY <1>18 DEF SourceMoved, SlotsCounted, Slots
<1>19. ASSUME NEW s \in Streams, SourceEnds(s) \/ SourceCleanedUp(s) \/ StoreFails(s) PROVE SlotsCounted'
  BY <1>18, <1>19, SourceMoves
<1>21. ASSUME NEW s \in Streams, WatchFires(s) PROVE SlotsCounted'
  BY <1>21 DEF WatchFires, SlotsCounted, Slots
<1>22. ASSUME NEW s \in Streams, Disconnect(s) PROVE SlotsCounted'
  BY <1>22 DEF Disconnect, SlotsCounted, Slots
<1>23. ASSUME NEW s \in Streams, Abort(s) PROVE SlotsCounted'
  BY <1>23 DEF Abort, SlotsCounted, Slots
<1>24. ASSUME NEW c \in Sessions, Stop(c) PROVE SlotsCounted'
  BY <1>24 DEF Stop, SlotsCounted, Slots
<1>25. CASE Sigterm
  BY <1>25 DEF Sigterm, SlotsCounted, Slots
<1>26. CASE UNCHANGED vars
  BY <1>26 DEF SlotsCounted, Slots
<1> QED
  BY <1>1, <1>2, <1>3, <1>4, <1>5, <1>6, <1>7, <1>8, <1>9, <1>10,
     <1>11, <1>12, <1>13, <1>14, <1>15, <1>16, <1>17, <1>19,
     <1>21, <1>22, <1>23, <1>24, <1>25, <1>26
     DEF Next, Consumer, Drain, Producer

\* The session lock is held by one producer.
LEMMA LockStep ==
    ASSUME TypeOK, LockInv, \A q \in Streams : GeneratorInv(q), [Next]_vars
    PROVE  LockInv'
<1>1. ASSUME NEW s \in Streams, Request(s) PROVE LockInv'
  BY <1>1 DEF Request, LockInv
<1>2. ASSUME NEW s \in Streams, PrepareFails(s) PROVE LockInv'
  BY <1>2 DEF PrepareFails, LockInv
<1>3. ASSUME NEW s \in Streams, Prepared(s) PROVE LockInv'
  BY <1>3 DEF Prepared, PrepareChat, LockInv, GeneratorInv, TypeOK, Inside
<1>4. ASSUME NEW s \in Streams, SeesDraining(s) PROVE LockInv'
  BY <1>4 DEF SeesDraining, LockInv
<1>5. ASSUME NEW s \in Streams, SeesDisconnect(s) PROVE LockInv'
  BY <1>5 DEF SeesDisconnect, LockInv
<1>6. ASSUME NEW s \in Streams, TakeItem(s) PROVE LockInv'
  BY <1>6 DEF TakeItem, LockInv
<1>7. ASSUME NEW s \in Streams, Finally(s) PROVE LockInv'
  <2>1. CASE CancelProducer(s)
    BY <1>7, <2>1, Cancels DEF Finally
  <2>2. CASE UNCHANGED source
    BY <1>7, <2>2 DEF Finally, LockInv
  <2> QED BY <1>7, <2>1, <2>2 DEF Finally
<1>8. ASSUME NEW s \in Streams, Join(s) PROVE LockInv'
  BY <1>8 DEF Join, LockInv
<1>9. ASSUME NEW s \in Streams, Release(s) PROVE LockInv'
  BY <1>9 DEF Release, LockInv
<1>10. ASSUME NEW s \in Streams, CloseClient(s) PROVE LockInv'
  BY <1>10 DEF CloseClient, LockInv
<1>11. ASSUME NEW s \in Streams, DrainJoin(s) PROVE LockInv'
  BY <1>11 DEF DrainJoin, LockInv
<1>12. ASSUME NEW s \in Streams, DrainClose(s) PROVE LockInv'
  BY <1>12 DEF DrainClose, LockInv
<1>13. ASSUME NEW s \in Streams, TakeSessionLock(s) PROVE LockInv'
  BY <1>13, NoStreamAssumption DEF TakeSessionLock, LockInv, TypeOK, Inside
<1>14. ASSUME NEW s \in Streams, OpenTurn(s) PROVE LockInv'
  BY <1>14 DEF OpenTurn, LockInv, TypeOK, Inside
<1>15. ASSUME NEW s \in Streams, Produce(s) PROVE LockInv'
  BY <1>15 DEF Produce, LockInv
<1>16. ASSUME NEW s \in Streams, SettleTurn(s) PROVE LockInv'
  BY <1>16 DEF SettleTurn, LockInv
<1>17. ASSUME NEW s \in Streams, NextIteration(s) PROVE LockInv'
  BY <1>17 DEF NextIteration, LockInv, TypeOK, Inside
<1>18. ASSUME NEW s \in Streams, NEW to, NEW row, SourceMoved(s, to, row) PROVE LockInv'
  BY <1>18 DEF SourceMoved
<1>19. ASSUME NEW s \in Streams, SourceEnds(s) \/ SourceCleanedUp(s) \/ StoreFails(s) PROVE LockInv'
  BY <1>18, <1>19, SourceMoves
<1>21. ASSUME NEW s \in Streams, WatchFires(s) PROVE LockInv'
  <2>1. CASE CancelProducer(s)
    BY <1>21, <2>1, Cancels DEF WatchFires
  <2>2. CASE UNCHANGED source
    BY <1>21, <2>2 DEF WatchFires, LockInv
  <2> QED BY <1>21, <2>1, <2>2 DEF WatchFires
<1>22. ASSUME NEW s \in Streams, Disconnect(s) PROVE LockInv'
  BY <1>22 DEF Disconnect, LockInv
<1>23. ASSUME NEW s \in Streams, Abort(s) PROVE LockInv'
  <2>1. CASE CancelProducer(s)
    BY <1>23, <2>1, Cancels DEF Abort
  <2>2. CASE UNCHANGED source
    BY <1>23, <2>2 DEF Abort, LockInv
  <2> QED BY <1>23, <2>1, <2>2 DEF Abort
<1>24. ASSUME NEW c \in Sessions, Stop(c) PROVE LockInv'
  BY <1>24 DEF Stop, LockInv
<1>25. CASE Sigterm
  BY <1>25 DEF Sigterm, LockInv
<1>26. CASE UNCHANGED vars
  BY <1>26 DEF LockInv
<1> QED
  BY <1>1, <1>2, <1>3, <1>4, <1>5, <1>6, <1>7, <1>8, <1>9, <1>10,
     <1>11, <1>12, <1>13, <1>14, <1>15, <1>16, <1>17, <1>19,
     <1>21, <1>22, <1>23, <1>24, <1>25, <1>26
     DEF Next, Consumer, Drain, Producer

\* The registry names the stream that registered last.
LEMMA RegistryStep ==
    ASSUME TypeOK, LockInv, RegistryInv, \A q \in Streams : GeneratorInv(q), [Next]_vars
    PROVE  RegistryInv'
<1> USE NoStreamAssumption
<1>1. ASSUME NEW s \in Streams, Request(s) PROVE RegistryInv'
  <2>1. gen[s] = "idle" /\ UNCHANGED <<registry, sess, drain>>
    BY <1>1 DEF Request
  <2>2. \A q \in Streams \ {s} : gen'[q] = gen[q]
    BY <1>1 DEF Request, Goto, TypeOK
  <2> QED BY <2>1, <2>2 DEF RegistryInv
<1>2. ASSUME NEW s \in Streams, PrepareFails(s) PROVE RegistryInv'
  BY <1>2 DEF PrepareFails, Goto, RegistryInv, TypeOK
<1>3. ASSUME NEW s \in Streams, Prepared(s) PROVE RegistryInv'
  BY <1>3 DEF Prepared, PrepareChat, Open, Goto, RegistryInv, TypeOK
<1>4. ASSUME NEW s \in Streams, SeesDraining(s) PROVE RegistryInv'
  BY <1>4 DEF SeesDraining, Goto, RegistryInv, TypeOK
<1>5. ASSUME NEW s \in Streams, SeesDisconnect(s) PROVE RegistryInv'
  BY <1>5 DEF SeesDisconnect, Goto, RegistryInv, TypeOK
<1>6. ASSUME NEW s \in Streams, TakeItem(s) PROVE RegistryInv'
  BY <1>6 DEF TakeItem, Goto, RegistryInv, TypeOK
<1>7. ASSUME NEW s \in Streams, Finally(s) PROVE RegistryInv'
  <2>1. /\ gen[s] = "finally" /\ UNCHANGED <<registry, sess>>
        /\ \A q \in Streams \ {s} : gen'[q] = gen[q] /\ drain'[q] = drain[q]
    BY <1>7 DEF Finally, RouteFinally, Goto, TypeOK
  <2>2. gen'[s] = "join" \/ drain'[s] = "join"
    BY <1>7 DEF Finally, Goto, TypeOK
  <2> QED BY <2>1, <2>2 DEF RegistryInv
<1>8. ASSUME NEW s \in Streams, Join(s) PROVE RegistryInv'
  <2>1. /\ UNCHANGED <<drain, sess>> /\ \A q \in Streams \ {s} : gen'[q] = gen[q]
        /\ registry' = [c \in Sessions |-> IF registry[c] = s THEN NoStream ELSE registry[c]]
    BY <1>8, ReleaseEnds DEF Join
  <2> QED BY <2>1 DEF RegistryInv
<1>9. ASSUME NEW s \in Streams, Release(s) PROVE RegistryInv'
  <2>1. /\ UNCHANGED <<drain, sess>> /\ \A q \in Streams \ {s} : gen'[q] = gen[q]
        /\ registry' = [c \in Sessions |-> IF registry[c] = s THEN NoStream ELSE registry[c]]
    BY <1>9, ReleaseEnds DEF Release
  <2> QED BY <2>1 DEF RegistryInv
<1>10. ASSUME NEW s \in Streams, CloseClient(s) PROVE RegistryInv'
  BY <1>10 DEF CloseClient, Goto, RegistryInv, TypeOK
<1>11. ASSUME NEW s \in Streams, DrainJoin(s) PROVE RegistryInv'
  BY <1>11 DEF DrainJoin, Close, RegistryInv, TypeOK
<1>12. ASSUME NEW s \in Streams, DrainClose(s) PROVE RegistryInv'
  BY <1>12 DEF DrainClose, Goto, RegistryInv, TypeOK
<1>13. ASSUME NEW s \in Streams, TakeSessionLock(s) PROVE RegistryInv'
  BY <1>13 DEF TakeSessionLock, Goto, RegistryInv, TypeOK
<1>14. ASSUME NEW s \in Streams, OpenTurn(s) PROVE RegistryInv'
  BY <1>14 DEF OpenTurn, Goto, RegistryInv, TypeOK
<1>15. ASSUME NEW s \in Streams, Produce(s) PROVE RegistryInv'
  BY <1>15 DEF Produce, Goto, RegistryInv, TypeOK
<1>16. ASSUME NEW s \in Streams, SettleTurn(s) PROVE RegistryInv'
  BY <1>16 DEF SettleTurn, Goto, RegistryInv, TypeOK
<1>17. ASSUME NEW s \in Streams, NextIteration(s) PROVE RegistryInv'
  BY <1>17 DEF NextIteration, Goto, RegistryInv, TypeOK
<1>18. ASSUME NEW s \in Streams, NEW to, NEW row, SourceMoved(s, to, row) PROVE RegistryInv'
  BY <1>18 DEF SourceMoved, RegistryInv
<1>19. ASSUME NEW s \in Streams, SourceEnds(s) \/ SourceCleanedUp(s) \/ StoreFails(s) PROVE RegistryInv'
  BY <1>18, <1>19, SourceMoves
<1>21. ASSUME NEW s \in Streams, WatchFires(s) PROVE RegistryInv'
  BY <1>21 DEF WatchFires, Goto, RegistryInv, TypeOK
<1>22. ASSUME NEW s \in Streams, Disconnect(s) PROVE RegistryInv'
  BY <1>22 DEF Disconnect, Goto, RegistryInv, TypeOK
<1>23. ASSUME NEW s \in Streams, Abort(s) PROVE RegistryInv'
  BY <1>23 DEF Abort, Goto, RegistryInv, TypeOK
<1>24. ASSUME NEW c \in Sessions, Stop(c) PROVE RegistryInv'
  BY <1>24 DEF Stop, RegistryInv
<1>25. CASE Sigterm
  BY <1>25 DEF Sigterm, RegistryInv
<1>26. CASE UNCHANGED vars
  BY <1>26 DEF RegistryInv
<1> QED
  BY <1>1, <1>2, <1>3, <1>4, <1>5, <1>6, <1>7, <1>8, <1>9, <1>10,
     <1>11, <1>12, <1>13, <1>14, <1>15, <1>16, <1>17, <1>19,
     <1>21, <1>22, <1>23, <1>24, <1>25, <1>26
     DEF Next, Consumer, Drain, Producer

\* A strike in the cleanup comes second.
LEMMA TwoHits == Append(<<"run">>, "cleanup") = <<"run", "cleanup">>
<1> DEFINE one == <<"run">>  both == <<"run", "cleanup">>
<1>1. one \in Seq(Generating) /\ both \in Seq(Generating) /\ "cleanup" \in Generating
  BY DEF Generating
<1>2. Append(one, "cleanup") \in Seq(Generating) /\ Len(Append(one, "cleanup")) = 2
  BY <1>1
<1>3. Len(both) = 2 /\ both[1] = "run" /\ both[2] = "cleanup"
  OBVIOUS
<1>4. Append(one, "cleanup")[1] = "run" /\ Append(one, "cleanup")[2] = "cleanup"
  BY <1>1
<1>5. \A i \in 1 .. Len(both) : Append(one, "cleanup")[i] = both[i]
  BY <1>3, <1>4
<1> HIDE DEF one, both
<1>6. Append(one, "cleanup") = both
  BY <1>1, <1>2, <1>3, <1>5, SeqEqual
<1> QED BY <1>6 DEF one, both

\* What a cancellation leaves of a producer: see Cancels.
Struck(s) ==
    /\ hits' = [hits EXCEPT ![s] = Append(hits[s], prod[s])] /\ UNCHANGED faults
    /\ \A q \in Streams \ {s} : turn'[q] = turn[q]
    /\ prod[s] \in Generating
    /\ prod[s] \in {"wait", "run"} => turn'[s] = turn[s]
    /\ prod[s] = "between" => turn'[s] \in {turn[s], "running"}
    /\ prod[s] = "cleanup" => turn'[s] \in {turn[s], Interrupted(turn[s])}
    /\ \/ prod[s] = "run" /\ prod' = [prod EXCEPT ![s] = "cleanup"]
       \/ prod[s] # "run" /\ prod' = [prod EXCEPT ![s] = "done"]

\* The turn of a cancelled producer is accounted for by where it was struck.
LEMMA StruckInv ==
    ASSUME TypeOK, NEW s \in Streams, NEW q \in Streams, ProducerInv(q), Struck(s),
           UNCHANGED <<stopSet, draining>>, prod[s] = "run" => stopSet[s] \/ draining
    PROVE  ProducerInv(q)'
<1>1. CASE q # s
  <2>1. /\ prod'[q] = prod[q] /\ turn'[q] = turn[q] /\ hits'[q] = hits[q] /\ faults'[q] = faults[q]
        /\ UNCHANGED <<stopSet, draining>>
    BY <1>1 DEF Struck, TypeOK
  <2> QED BY <2>1 DEF ProducerInv
<1>2. CASE q = s
  <2>1. hits'[s] = Append(hits[s], prod[s]) /\ faults'[s] = faults[s] /\ UNCHANGED <<stopSet, draining>>
    BY DEF Struck, TypeOK
  <2>2. CASE prod[s] = "wait"
    <3>1. prod'[s] = "done" /\ turn'[s] = "none"
      BY <1>2, <2>2 DEF Struck, TypeOK, ProducerInv
    <3> QED BY <1>2, <3>1 DEF ProducerInv
  <2>3. CASE prod[s] = "between"
    <3>1. prod'[s] = "done" /\ turn'[s] # "interrupted"
      BY <1>2, <2>3 DEF Struck, TypeOK, ProducerInv
    <3>2. hits'[s] = <<"between">>
      <4>1. hits[s] = <<>>
        BY <1>2, <2>3 DEF ProducerInv
      <4> QED BY <2>1, <2>3, <4>1
    <3> QED BY <1>2, <3>1, <3>2 DEF ProducerInv
  <2>4. CASE prod[s] = "run"
    <3>1. prod'[s] = "cleanup" /\ turn'[s] \in {"running", "settled"}
      BY <1>2, <2>4 DEF Struck, TypeOK, ProducerInv
    <3>2. hits'[s] = <<"run">>
      <4>1. hits[s] = <<>>
        BY <1>2, <2>4 DEF ProducerInv
      <4> QED BY <2>1, <2>4, <4>1
    <3>3. stopSet'[s] \/ draining'
      BY <2>1, <2>4
    <3> QED BY <1>2, <3>1, <3>2, <3>3 DEF ProducerInv
  <2>5. CASE prod[s] = "cleanup"
    <3>1. prod'[s] = "done" /\ turn'[s] \in {turn[s], Interrupted(turn[s])}
      BY <2>5 DEF Struck, TypeOK
    <3>2. CASE faults[s] > 0
      BY <1>2, <2>1, <3>1, <3>2 DEF ProducerInv
    <3>3. CASE hits[s] = <<"run">> /\ (stopSet[s] \/ draining)
      <4>1. hits'[s] = <<"run", "cleanup">>
        <5>1. hits'[s] = Append(<<"run">>, "cleanup")
          BY <2>1, <2>5, <3>3
        <5> QED BY <5>1, TwoHits
      <4>2. stopSet'[s] \/ draining'
        BY <2>1, <3>3
      <4>3. prod'[s] = "done"
        BY <3>1
      <4> QED BY <1>2, <4>1, <4>2, <4>3 DEF ProducerInv
    <3> QED BY <1>2, <2>5, <3>2, <3>3 DEF ProducerInv
  <2> QED BY <2>2, <2>3, <2>4, <2>5 DEF Struck, Generating
<1> QED BY <1>1, <1>2

\* Where a producer stands, its turn says.
LEMMA ProducerStep ==
    ASSUME TypeOK, LockInv, \A q \in Streams : ProducerInv(q) /\ GeneratorInv(q), [Next]_vars
    PROVE  (\A q \in Streams : ProducerInv(q))'
<1>1. ASSUME NEW s \in Streams, Request(s) PROVE (\A q \in Streams : ProducerInv(q))'
  BY <1>1 DEF Request, ProducerInv
<1>2. ASSUME NEW s \in Streams, PrepareFails(s) PROVE (\A q \in Streams : ProducerInv(q))'
  BY <1>2 DEF PrepareFails, ProducerInv
<1>3. ASSUME NEW s \in Streams, Prepared(s) PROVE (\A q \in Streams : ProducerInv(q))'
  BY <1>3 DEF Prepared, PrepareChat, ProducerInv, GeneratorInv, TypeOK
<1>4. ASSUME NEW s \in Streams, SeesDraining(s) PROVE (\A q \in Streams : ProducerInv(q))'
  BY <1>4 DEF SeesDraining, ProducerInv
<1>5. ASSUME NEW s \in Streams, SeesDisconnect(s) PROVE (\A q \in Streams : ProducerInv(q))'
  BY <1>5 DEF SeesDisconnect, ProducerInv
<1>6. ASSUME NEW s \in Streams, TakeItem(s) PROVE (\A q \in Streams : ProducerInv(q))'
  BY <1>6 DEF TakeItem, ProducerInv
<1>7. ASSUME NEW s \in Streams, Finally(s) PROVE (\A q \in Streams : ProducerInv(q))'
  <2> SUFFICES ASSUME NEW q \in Streams PROVE ProducerInv(q)'
    OBVIOUS
  <2>0. UNCHANGED <<stopSet, draining>>
    BY <1>7 DEF Finally
  <2>1. CASE ~HandsOver(s) /\ CancelProducer(s)
    <3>1. prod[s] = "run" => stopSet[s] \/ draining
      BY <1>7, <2>1 DEF HandsOver
    <3>2. Struck(s)
      BY <1>7, <2>1, Cancels DEF Finally, Struck
    <3> QED BY <2>0, <3>1, <3>2, StruckInv
  <2>2. CASE UNCHANGED source
    BY <1>7, <2>0, <2>2 DEF ProducerInv
  <2> QED BY <1>7, <2>1, <2>2 DEF Finally
<1>8. ASSUME NEW s \in Streams, Join(s) PROVE (\A q \in Streams : ProducerInv(q))'
  BY <1>8 DEF Join, ProducerInv
<1>9. ASSUME NEW s \in Streams, Release(s) PROVE (\A q \in Streams : ProducerInv(q))'
  BY <1>9 DEF Release, ProducerInv
<1>10. ASSUME NEW s \in Streams, CloseClient(s) PROVE (\A q \in Streams : ProducerInv(q))'
  BY <1>10 DEF CloseClient, ProducerInv
<1>11. ASSUME NEW s \in Streams, DrainJoin(s) PROVE (\A q \in Streams : ProducerInv(q))'
  BY <1>11 DEF DrainJoin, ProducerInv
<1>12. ASSUME NEW s \in Streams, DrainClose(s) PROVE (\A q \in Streams : ProducerInv(q))'
  BY <1>12 DEF DrainClose, ProducerInv
<1>13. ASSUME NEW s \in Streams, TakeSessionLock(s) PROVE (\A q \in Streams : ProducerInv(q))'
  BY <1>13 DEF TakeSessionLock, ProducerInv, TypeOK
<1>14. ASSUME NEW s \in Streams, OpenTurn(s) PROVE (\A q \in Streams : ProducerInv(q))'
  BY <1>14 DEF OpenTurn, ProducerInv, TypeOK
<1>15. ASSUME NEW s \in Streams, Produce(s) PROVE (\A q \in Streams : ProducerInv(q))'
  BY <1>15 DEF Produce, ProducerInv
<1>16. ASSUME NEW s \in Streams, SettleTurn(s) PROVE (\A q \in Streams : ProducerInv(q))'
  BY <1>16 DEF SettleTurn, ProducerInv, TypeOK
<1>17. ASSUME NEW s \in Streams, NextIteration(s) PROVE (\A q \in Streams : ProducerInv(q))'
  BY <1>17 DEF NextIteration, ProducerInv, TypeOK
<1>17a. ASSUME NEW s \in Streams, NEW to, NEW row, SourceMoved(s, to, row),
               ProducerInv(s)'
       PROVE  (\A q \in Streams : ProducerInv(q))'
  <2> SUFFICES ASSUME NEW q \in Streams, q # s PROVE ProducerInv(q)'
    BY <1>17a
  <2>1. /\ prod'[q] = prod[q] /\ turn'[q] = turn[q] /\ UNCHANGED <<hits, stopSet, draining>>
        /\ faults'[q] >= faults[q] /\ faults[q] \in Nat /\ faults'[q] \in Nat
    BY <1>17a DEF SourceMoved, TypeOK
  <2> QED BY <2>1 DEF ProducerInv
<1>18. ASSUME NEW s \in Streams, SourceEnds(s) PROVE (\A q \in Streams : ProducerInv(q))'
  <2>1. SourceMoved(s, "done", turn[s]) /\ (prod[s] = "between" \/ turn[s] = "settled")
    BY <1>18, SourceEndsMoves
  <2>2. /\ prod'[s] = "done" /\ turn'[s] = turn[s] /\ UNCHANGED <<hits, stopSet, draining>>
        /\ faults'[s] >= faults[s] /\ faults[s] \in Nat /\ faults'[s] \in Nat
    BY <2>1 DEF SourceMoved, TypeOK
  <2>3. turn[s] # "running"
    BY <2>1 DEF ProducerInv
  <2>4. ProducerInv(s)'
    BY <2>2, <2>3 DEF ProducerInv
  <2> QED BY <1>17a, <2>1, <2>4
<1>19. ASSUME NEW s \in Streams, SourceCleanedUp(s) PROVE (\A q \in Streams : ProducerInv(q))'
  <2>1. SourceMoved(s, "done", Interrupted(turn[s])) /\ prod[s] = "cleanup"
    BY <1>19, CleanupMoves
  <2>2. /\ prod'[s] = "done" /\ turn'[s] = Interrupted(turn[s])
        /\ UNCHANGED <<hits, stopSet, draining>>
        /\ faults'[s] >= faults[s] /\ faults[s] \in Nat /\ faults'[s] \in Nat
    BY <2>1 DEF SourceMoved, TypeOK
  <2>3. turn'[s] # "running" /\ (faults[s] > 0 \/ stopSet[s] \/ draining)
    BY <2>1, <2>2 DEF ProducerInv, Interrupted
  <2>4. ProducerInv(s)'
    BY <2>2, <2>3 DEF ProducerInv
  <2> QED BY <1>17a, <2>1, <2>4
<1>20. ASSUME NEW s \in Streams, StoreFails(s) PROVE (\A q \in Streams : ProducerInv(q))'
  <2>1. PICK to \in {"cleanup", "done"} : SourceMoved(s, to, turn[s])
    BY <1>20, StoreFailsMoves
  <2>2. prod'[s] \in {"cleanup", "done"}
    BY <2>1 DEF SourceMoved, TypeOK
  <2>2a. faults'[s] > 0
    BY <1>20, StoreFailsMoves
  <2>3. ProducerInv(s)'
    BY <2>2, <2>2a DEF ProducerInv
  <2> QED BY <1>17a, <2>1, <2>3
<1>21. ASSUME NEW s \in Streams, WatchFires(s) PROVE (\A q \in Streams : ProducerInv(q))'
  <2> SUFFICES ASSUME NEW q \in Streams PROVE ProducerInv(q)'
    OBVIOUS
  <2>0. UNCHANGED <<stopSet, draining>>
    BY <1>21 DEF WatchFires
  <2>1. CASE CancelProducer(s)
    <3>1. prod[s] = "run" => stopSet[s] \/ draining
      BY <1>21, <2>1 DEF WatchFires
    <3>2. Struck(s)
      BY <1>21, <2>1, Cancels DEF WatchFires, Struck
    <3> QED BY <2>0, <3>1, <3>2, StruckInv
  <2>2. CASE UNCHANGED source
    BY <1>21, <2>0, <2>2 DEF ProducerInv
  <2> QED BY <1>21, <2>1, <2>2 DEF WatchFires
<1>22. ASSUME NEW s \in Streams, Disconnect(s) PROVE (\A q \in Streams : ProducerInv(q))'
  BY <1>22 DEF Disconnect, ProducerInv
<1>23. ASSUME NEW s \in Streams, Abort(s) PROVE (\A q \in Streams : ProducerInv(q))'
  <2> SUFFICES ASSUME NEW q \in Streams PROVE ProducerInv(q)'
    OBVIOUS
  <2>0. UNCHANGED <<stopSet, draining>>
    BY <1>23 DEF Abort
  <2>1. CASE CancelProducer(s) /\ gen[s] = "join"
    <3>1. prod[s] = "run" => stopSet[s] \/ draining
      BY <1>23, <2>1 DEF Abort, GeneratorInv
    <3>2. Struck(s)
      BY <1>23, <2>1, Cancels DEF Abort, Struck
    <3> QED BY <2>0, <3>1, <3>2, StruckInv
  <2>2. CASE UNCHANGED source
    BY <1>23, <2>0, <2>2 DEF ProducerInv
  <2> QED BY <1>23, <2>1, <2>2 DEF Abort
<1>24. ASSUME NEW c \in Sessions, Stop(c) PROVE (\A q \in Streams : ProducerInv(q))'
  BY <1>24 DEF Stop, Cancel, ProducerInv, TypeOK
<1>25. CASE Sigterm
  BY <1>25 DEF Sigterm, ProducerInv
<1>26. CASE UNCHANGED vars
  BY <1>26 DEF ProducerInv
<1> QED
  BY <1>1, <1>2, <1>3, <1>4, <1>5, <1>6, <1>7, <1>8, <1>9, <1>10,
     <1>11, <1>12, <1>13, <1>14, <1>15, <1>16, <1>17, <1>18, <1>19, <1>20,
     <1>21, <1>22, <1>23, <1>24, <1>25, <1>26
     DEF Next, Consumer, Drain, Producer

\* Where a generator stands, its producer and its slot say.
LEMMA GeneratorStep ==
    ASSUME TypeOK, LockInv, SlotsCounted, \A q \in Streams : GeneratorInv(q), [Next]_vars
    PROVE  (\A q \in Streams : GeneratorInv(q))'
<1>1. ASSUME NEW s \in Streams, Request(s) PROVE (\A q \in Streams : GeneratorInv(q))'
  <2>1. gen[s] = "idle" /\ UNCHANGED <<prod, client, stopSet, draining, detached, drain, freed>>
    BY <1>1 DEF Request
  <2>2. CASE Acquire(s) /\ Goto(s, "prepare")
    BY <2>1, <2>2 DEF Acquire, Goto, GeneratorInv, Over, TypeOK
  <2>3. CASE Goto(s, "release") /\ UNCHANGED slot
    BY <2>1, <2>3 DEF Goto, GeneratorInv, Over, TypeOK
  <2> QED BY <1>1, <2>2, <2>3 DEF Request
<1>2. ASSUME NEW s \in Streams, PrepareFails(s) PROVE (\A q \in Streams : GeneratorInv(q))'
  BY <1>2 DEF PrepareFails, Goto, GeneratorInv, Over, TypeOK
<1>3. ASSUME NEW s \in Streams, Prepared(s) PROVE (\A q \in Streams : GeneratorInv(q))'
  BY <1>3 DEF Prepared, PrepareChat, Goto, GeneratorInv, Over, TypeOK
<1>4. ASSUME NEW s \in Streams, SeesDraining(s) PROVE (\A q \in Streams : GeneratorInv(q))'
  BY <1>4 DEF SeesDraining, Goto, GeneratorInv, Over, TypeOK
<1>5. ASSUME NEW s \in Streams, SeesDisconnect(s) PROVE (\A q \in Streams : GeneratorInv(q))'
  BY <1>5 DEF SeesDisconnect, Goto, GeneratorInv, Over, TypeOK
<1>6. ASSUME NEW s \in Streams, TakeItem(s) PROVE (\A q \in Streams : GeneratorInv(q))'
  BY <1>6 DEF TakeItem, Goto, GeneratorInv, Over, TypeOK
<1>7. ASSUME NEW s \in Streams, Finally(s) PROVE (\A q \in Streams : GeneratorInv(q))'
  <2>1. gen[s] = "finally" /\ UNCHANGED <<client, slot, freed, stopSet, draining>>
    BY <1>7 DEF Finally, RouteFinally
  <2>2. CASE HandsOver(s)
    <3>1. /\ detached' = [detached EXCEPT ![s] = TRUE] /\ drain' = [drain EXCEPT ![s] = "join"]
          /\ gen' = [gen EXCEPT ![s] = "ended"] /\ UNCHANGED prod
      BY <1>7, <2>2 DEF Finally, RouteFinally, Goto
    <3> QED BY <2>1, <3>1 DEF GeneratorInv, Over, TypeOK
  <2>3. CASE ~HandsOver(s)
    <3>1. gen' = [gen EXCEPT ![s] = "join"] /\ UNCHANGED <<detached, drain>>
      BY <1>7, <2>3 DEF Finally, Goto
    <3>2. \/ prod' = prod
          \/ prod' = [prod EXCEPT ![s] = "cleanup"] /\ prod[s] # "done"
          \/ prod' = [prod EXCEPT ![s] = "done"]
      BY <1>7, <2>3, Cancels DEF Finally, Generating
    <3>3. prod[s] = "done" \/ stopSet[s] \/ draining
      BY <2>3 DEF HandsOver
    <3> QED BY <2>1, <3>1, <3>2, <3>3 DEF GeneratorInv, Over, TypeOK
  <2> QED BY <2>2, <2>3
<1>8. ASSUME NEW s \in Streams, Join(s) PROVE (\A q \in Streams : GeneratorInv(q))'
  <2>1. /\ gen[s] = "join" /\ UNCHANGED <<prod, client, slot, stopSet, draining, detached, drain>>
        /\ prod[s] \in {"none", "done"} /\ ~detached[s] /\ freed[s] = 0
    BY <1>8 DEF Join, GeneratorInv
  <2>2. \A q \in Streams \ {s} : gen'[q] = gen[q]
    BY <1>8, ReleaseEnds DEF Join
  <2>3. CASE client[s] = "open" /\ gen'[s] = "close" /\ UNCHANGED <<active, freed>>
    BY <2>1, <2>2, <2>3 DEF GeneratorInv, Over
  <2>4. CASE GiveBack(s) /\ gen'[s] = "ended"
    <3>1. (slot[s] => freed'[s] # 0) /\ \A q \in Streams \ {s} : freed'[q] = freed[q]
      BY <2>1, <2>4, Released
    <3> QED BY <2>1, <2>2, <2>4, <3>1 DEF GeneratorInv, Over
  <2> QED BY <1>8, <2>3, <2>4, ReleaseEnds DEF Join
<1>9. ASSUME NEW s \in Streams, Release(s) PROVE (\A q \in Streams : GeneratorInv(q))'
  <2>1. /\ gen[s] = "release" /\ UNCHANGED <<prod, client, slot, stopSet, draining, detached, drain>>
        /\ prod[s] \in {"none", "done"} /\ ~detached[s] /\ freed[s] = 0
    BY <1>9 DEF Release, GeneratorInv
  <2>2. \A q \in Streams \ {s} : gen'[q] = gen[q]
    BY <1>9, ReleaseEnds DEF Release
  <2>3. CASE client[s] = "open" /\ gen'[s] = "close" /\ UNCHANGED <<active, freed>>
    BY <2>1, <2>2, <2>3 DEF GeneratorInv, Over
  <2>4. CASE GiveBack(s) /\ gen'[s] = "ended"
    <3>1. (slot[s] => freed'[s] # 0) /\ \A q \in Streams \ {s} : freed'[q] = freed[q]
      BY <2>1, <2>4, Released
    <3> QED BY <2>1, <2>2, <2>4, <3>1 DEF GeneratorInv, Over
  <2> QED BY <1>9, <2>3, <2>4, ReleaseEnds DEF Release
<1>10. ASSUME NEW s \in Streams, CloseClient(s) PROVE (\A q \in Streams : GeneratorInv(q))'
  <2>1. /\ gen[s] = "close" /\ gen' = [gen EXCEPT ![s] = "ended"]
        /\ UNCHANGED <<prod, slot, stopSet, draining, detached, drain>>
        /\ client' = [client EXCEPT ![s] = "closed"]
    BY <1>10 DEF CloseClient, Goto
  <2>2. freed[s] = 0
    BY <2>1 DEF GeneratorInv
  <2>3. (slot[s] => freed'[s] # 0) /\ \A q \in Streams \ {s} : freed'[q] = freed[q]
    BY <1>10, <2>2, Released DEF CloseClient
  <2> QED BY <2>1, <2>3 DEF GeneratorInv, Over, TypeOK
<1>11. ASSUME NEW s \in Streams, DrainJoin(s) PROVE (\A q \in Streams : GeneratorInv(q))'
  BY <1>11 DEF DrainJoin, Goto, GeneratorInv, Over, TypeOK
<1>12. ASSUME NEW s \in Streams, DrainClose(s) PROVE (\A q \in Streams : GeneratorInv(q))'
  <2>1. /\ drain[s] = "close" /\ drain' = [drain EXCEPT ![s] = "ended"]
        /\ UNCHANGED <<gen, prod, slot, stopSet, draining, detached>>
        /\ client' = [client EXCEPT ![s] = "closed"]
    BY <1>12 DEF DrainClose
  <2>2. freed[s] = 0
    BY <2>1 DEF GeneratorInv
  <2>3. (slot[s] => freed'[s] # 0) /\ \A q \in Streams \ {s} : freed'[q] = freed[q]
    BY <1>12, <2>2, Released DEF DrainClose
  <2> QED BY <2>1, <2>3 DEF GeneratorInv, Over, TypeOK
<1>13. ASSUME NEW s \in Streams, TakeSessionLock(s) PROVE (\A q \in Streams : GeneratorInv(q))'
  BY <1>13 DEF TakeSessionLock, Goto, GeneratorInv, Over, TypeOK
<1>14. ASSUME NEW s \in Streams, OpenTurn(s) PROVE (\A q \in Streams : GeneratorInv(q))'
  BY <1>14 DEF OpenTurn, Goto, GeneratorInv, Over, TypeOK
<1>15. ASSUME NEW s \in Streams, Produce(s) PROVE (\A q \in Streams : GeneratorInv(q))'
  BY <1>15 DEF Produce, Goto, GeneratorInv, Over, TypeOK
<1>16. ASSUME NEW s \in Streams, SettleTurn(s) PROVE (\A q \in Streams : GeneratorInv(q))'
  BY <1>16 DEF SettleTurn, Goto, GeneratorInv, Over, TypeOK
<1>17. ASSUME NEW s \in Streams, NextIteration(s) PROVE (\A q \in Streams : GeneratorInv(q))'
  BY <1>17 DEF NextIteration, Goto, GeneratorInv, Over, TypeOK
<1>18. ASSUME NEW s \in Streams, NEW to, NEW row, SourceMoved(s, to, row) PROVE (\A q \in Streams : GeneratorInv(q))'
  <2>1. /\ prod[s] \in {"between", "run", "cleanup"} /\ to \in {"cleanup", "done"}
        /\ UNCHANGED <<gen, drain, detached, client, slot, freed, stopSet, draining>>
        /\ prod' = [prod EXCEPT ![s] = to]
    BY <1>18 DEF SourceMoved, Inside
  <2> QED BY <2>1 DEF GeneratorInv, Over, TypeOK
<1>19. ASSUME NEW s \in Streams, SourceEnds(s) \/ SourceCleanedUp(s) \/ StoreFails(s) PROVE (\A q \in Streams : GeneratorInv(q))'
  BY <1>18, <1>19, SourceMoves
<1>21. ASSUME NEW s \in Streams, WatchFires(s) PROVE (\A q \in Streams : GeneratorInv(q))'
  <2>1. \/ prod' = prod
        \/ /\ prod[s] # "none" /\ prod[s] # "done"
           /\ prod' = [prod EXCEPT ![s] = "cleanup"] \/ prod' = [prod EXCEPT ![s] = "done"]
    BY <1>21, Cancels DEF WatchFires, Generating
  <2>2. UNCHANGED <<gen, drain, detached, client, slot, freed, stopSet, draining>>
    BY <1>21 DEF WatchFires
  <2> QED BY <2>1, <2>2 DEF GeneratorInv, Over, TypeOK
<1>22. ASSUME NEW s \in Streams, Disconnect(s) PROVE (\A q \in Streams : GeneratorInv(q))'
  BY <1>22 DEF Disconnect, Goto, GeneratorInv, Over, TypeOK
<1>23. ASSUME NEW s \in Streams, Abort(s) PROVE (\A q \in Streams : GeneratorInv(q))'
  <2>0. UNCHANGED <<drain, detached, client, slot, freed, stopSet, draining>> /\ ~detached[s]
    BY <1>23 DEF Abort
  <2>1. CASE gen[s] = "join" /\ CancelProducer(s) /\ UNCHANGED gen
    <3>1. /\ prod[s] # "none" /\ prod[s] # "done"
          /\ prod' = [prod EXCEPT ![s] = "cleanup"] \/ prod' = [prod EXCEPT ![s] = "done"]
      BY <1>23, <2>1, Cancels DEF Abort, Generating
    <3> QED BY <2>0, <2>1, <3>1 DEF GeneratorInv, Over, TypeOK
  <2>2. CASE gen[s] # "join"
    <3>1. UNCHANGED prod
      BY <1>23, <2>2 DEF Abort
    <3>2. \/ gen[s] = "prepare" /\ gen' = [gen EXCEPT ![s] = "release"]
          \/ gen[s] = "loop" /\ gen' = [gen EXCEPT ![s] = "finally"]
          \/ gen[s] = "close" /\ gen' = [gen EXCEPT ![s] = "ended"]
      BY <1>23, <2>2 DEF Abort, Goto
    <3> QED BY <2>0, <3>1, <3>2 DEF GeneratorInv, Over, TypeOK
  <2> QED BY <1>23, <2>1, <2>2 DEF Abort
<1>24. ASSUME NEW c \in Sessions, Stop(c) PROVE (\A q \in Streams : GeneratorInv(q))'
  BY <1>24 DEF Stop, Cancel, GeneratorInv, Over, TypeOK
<1>25. CASE Sigterm
  BY <1>25 DEF Sigterm, GeneratorInv, Over
<1>26. CASE UNCHANGED vars
  BY <1>26 DEF GeneratorInv, Over
<1> QED
  BY <1>1, <1>2, <1>3, <1>4, <1>5, <1>6, <1>7, <1>8, <1>9, <1>10,
     <1>11, <1>12, <1>13, <1>14, <1>15, <1>16, <1>17, <1>19,
     <1>21, <1>22, <1>23, <1>24, <1>25, <1>26
     DEF Next, Consumer, Drain, Producer

\* Taking an item leaves the last one where it was.
LEMMA LastOfTail ==
    ASSUME NEW seq \in Seq(Item), seq # <<>>, Head(seq) # seq[Len(seq)]
    PROVE  Tail(seq) # <<>> /\ Tail(seq)[Len(Tail(seq))] = seq[Len(seq)]
<1>1. Len(seq) \in Nat /\ Len(seq) > 1
  OBVIOUS
<1>2. /\ Tail(seq) \in Seq(Item) /\ Len(Tail(seq)) = Len(seq) - 1
      /\ \A i \in 1 .. Len(Tail(seq)) : Tail(seq)[i] = seq[i + 1]
  BY HeadTailProperties
<1>3. Tail(seq)[Len(seq) - 1] = seq[(Len(seq) - 1) + 1]
  BY <1>1, <1>2
<1>4. Tail(seq) # <<>>
  <2>1. Len(<<>>) = 0
    OBVIOUS
  <2>2. Len(Tail(seq)) # 0
    BY <1>1, <1>2
  <2> QED BY <2>1, <2>2
<1> QED BY <1>1, <1>2, <1>3, <1>4

\* A consumer that waits will see the end.
LEMMA QueueStep ==
    ASSUME TypeOK, LockInv, \A q \in Streams : QueueInv(q), [Next]_vars
    PROVE  (\A q \in Streams : QueueInv(q))'
<1>1. ASSUME NEW s \in Streams, Request(s) PROVE (\A q \in Streams : QueueInv(q))'
  BY <1>1 DEF Request, Goto, QueueInv, TypeOK
<1>2. ASSUME NEW s \in Streams, PrepareFails(s) PROVE (\A q \in Streams : QueueInv(q))'
  BY <1>2 DEF PrepareFails, Goto, QueueInv, TypeOK
<1>3. ASSUME NEW s \in Streams, Prepared(s) PROVE (\A q \in Streams : QueueInv(q))'
  <2>1. prod' = [prod EXCEPT ![s] = "wait"] /\ UNCHANGED queue /\ \A z \in Streams \ {s} : gen'[z] = gen[z]
    BY <1>3 DEF Prepared, Goto, TypeOK
  <2> QED BY <2>1 DEF QueueInv, TypeOK
<1>4. ASSUME NEW s \in Streams, SeesDraining(s) PROVE (\A q \in Streams : QueueInv(q))'
  BY <1>4 DEF SeesDraining, Goto, QueueInv, TypeOK
<1>5. ASSUME NEW s \in Streams, SeesDisconnect(s) PROVE (\A q \in Streams : QueueInv(q))'
  BY <1>5 DEF SeesDisconnect, Goto, QueueInv, TypeOK
<1>6. ASSUME NEW s \in Streams, TakeItem(s) PROVE (\A q \in Streams : QueueInv(q))'
  <2> SUFFICES ASSUME NEW q \in Streams PROVE QueueInv(q)'
    OBVIOUS
  <2>1. gen[s] = "loop" /\ queue[s] # <<>> /\ queue' = [queue EXCEPT ![s] = Tail(queue[s])]
    BY <1>6 DEF TakeItem
  <2>2. queue[s] \in Seq(Item)
    BY DEF TypeOK, Item
  <2>3. UNCHANGED prod /\ \A z \in Streams \ {s} : gen'[z] = gen[z]
    BY <1>6 DEF TakeItem, Goto, TypeOK
  <2>4. CASE Head(queue[s]) = "event"
    <3>1. queue[s][Len(queue[s])] = "DONE" =>
             Tail(queue[s]) # <<>> /\ Tail(queue[s])[Len(Tail(queue[s]))] = "DONE"
      BY <2>1, <2>2, <2>4, LastOfTail
    <3>2. queue'[s] = Tail(queue[s]) /\ \A z \in Streams \ {s} : queue'[z] = queue[z]
      BY <2>1 DEF TypeOK
    <3> QED BY <2>1, <2>3, <3>1, <3>2 DEF QueueInv
  <2>5. CASE Head(queue[s]) # "event"
    <3>1. gen'[s] # "loop"
      BY <1>6, <2>5 DEF TakeItem, Goto, TypeOK
    <3>2. \A z \in Streams \ {s} : queue'[z] = queue[z]
      BY <2>1 DEF TypeOK
    <3> QED BY <2>3, <3>1, <3>2 DEF QueueInv
  <2> QED BY <2>4, <2>5
<1>7. ASSUME NEW s \in Streams, Finally(s) PROVE (\A q \in Streams : QueueInv(q))'
  <2>1. /\ gen'[s] # "loop" /\ \A z \in Streams \ {s} : gen'[z] = gen[z]
    BY <1>7 DEF Finally, RouteFinally, Goto, TypeOK
  <2>2. \A z \in Streams \ {s} : queue'[z] = queue[z] /\ prod'[z] = prod[z]
    <3>1. CASE CancelProducer(s)
      <4>1. /\ \A z \in Streams \ {s} : queue'[z] = queue[z]
            /\ prod' = [prod EXCEPT ![s] = "cleanup"] \/ prod' = [prod EXCEPT ![s] = "done"]
        BY <1>7, <3>1, Cancels DEF Finally
      <4> QED BY <4>1 DEF TypeOK
    <3>2. CASE UNCHANGED source
      BY <3>2
    <3> QED BY <1>7, <3>1, <3>2 DEF Finally
  <2> QED BY <2>1, <2>2 DEF QueueInv
<1>8. ASSUME NEW s \in Streams, Join(s) PROVE (\A q \in Streams : QueueInv(q))'
  <2>1. gen'[s] # "loop" /\ (\A z \in Streams \ {s} : gen'[z] = gen[z]) /\ UNCHANGED <<queue, prod>>
    BY <1>8, ReleaseEnds DEF Join
  <2> QED BY <2>1 DEF QueueInv
<1>9. ASSUME NEW s \in Streams, Release(s) PROVE (\A q \in Streams : QueueInv(q))'
  <2>1. gen'[s] # "loop" /\ (\A z \in Streams \ {s} : gen'[z] = gen[z]) /\ UNCHANGED <<queue, prod>>
    BY <1>9, ReleaseEnds DEF Release
  <2> QED BY <2>1 DEF QueueInv
<1>10. ASSUME NEW s \in Streams, CloseClient(s) PROVE (\A q \in Streams : QueueInv(q))'
  BY <1>10 DEF CloseClient, Goto, QueueInv, TypeOK
<1>11. ASSUME NEW s \in Streams, DrainJoin(s) PROVE (\A q \in Streams : QueueInv(q))'
  BY <1>11 DEF DrainJoin, Goto, QueueInv, TypeOK
<1>12. ASSUME NEW s \in Streams, DrainClose(s) PROVE (\A q \in Streams : QueueInv(q))'
  BY <1>12 DEF DrainClose, Goto, QueueInv, TypeOK
<1>13. ASSUME NEW s \in Streams, TakeSessionLock(s) PROVE (\A q \in Streams : QueueInv(q))'
  BY <1>13 DEF TakeSessionLock, Goto, QueueInv, TypeOK
<1>14. ASSUME NEW s \in Streams, OpenTurn(s) PROVE (\A q \in Streams : QueueInv(q))'
  BY <1>14 DEF OpenTurn, Goto, QueueInv, TypeOK
<1>15. ASSUME NEW s \in Streams, Produce(s) PROVE (\A q \in Streams : QueueInv(q))'
  <2>1. prod[s] # "done" /\ UNCHANGED <<prod, gen>> /\ \A z \in Streams \ {s} : queue'[z] = queue[z]
    BY <1>15 DEF Produce, TypeOK
  <2> QED BY <2>1 DEF QueueInv
<1>16. ASSUME NEW s \in Streams, SettleTurn(s) PROVE (\A q \in Streams : QueueInv(q))'
  BY <1>16 DEF SettleTurn, Goto, QueueInv, TypeOK
<1>17. ASSUME NEW s \in Streams, NextIteration(s) PROVE (\A q \in Streams : QueueInv(q))'
  BY <1>17 DEF NextIteration, Goto, QueueInv, TypeOK
<1>18. ASSUME NEW s \in Streams, NEW to, NEW row, SourceMoved(s, to, row) PROVE (\A q \in Streams : QueueInv(q))'
  <2>1. /\ UNCHANGED gen /\ \A z \in Streams \ {s} : queue'[z] = queue[z]
        /\ prod' = [prod EXCEPT ![s] = to]
        /\ to = "done" => queue'[s] # <<>> /\ queue'[s][Len(queue'[s])] = "DONE"
    BY <1>18 DEF SourceMoved
  <2>2. prod'[s] = to /\ \A z \in Streams \ {s} : prod'[z] = prod[z]
    BY <2>1 DEF TypeOK
  <2> QED BY <2>1, <2>2 DEF QueueInv
<1>19. ASSUME NEW s \in Streams, SourceEnds(s) \/ SourceCleanedUp(s) \/ StoreFails(s) PROVE (\A q \in Streams : QueueInv(q))'
  BY <1>18, <1>19, SourceMoves
<1>21. ASSUME NEW s \in Streams, WatchFires(s) PROVE (\A q \in Streams : QueueInv(q))'
  <2>1. CASE CancelProducer(s)
    <3>1. /\ UNCHANGED gen /\ \A z \in Streams \ {s} : queue'[z] = queue[z] /\ prod'[z] = prod[z]
          /\ prod'[s] = "done" => queue'[s] # <<>> /\ queue'[s][Len(queue'[s])] = "DONE"
      <4>1. /\ UNCHANGED gen /\ \A z \in Streams \ {s} : queue'[z] = queue[z]
            /\ \/ prod' = [prod EXCEPT ![s] = "cleanup"]
               \/ /\ prod' = [prod EXCEPT ![s] = "done"]
                  /\ queue'[s] # <<>> /\ queue'[s][Len(queue'[s])] = "DONE"
        BY <1>21, <2>1, Cancels DEF WatchFires
      <4> QED BY <4>1 DEF TypeOK
    <3> QED BY <3>1 DEF QueueInv
  <2>2. CASE UNCHANGED source
    BY <1>21, <2>2 DEF WatchFires, Goto, QueueInv, TypeOK
  <2> QED BY <1>21, <2>1, <2>2 DEF WatchFires
<1>22. ASSUME NEW s \in Streams, Disconnect(s) PROVE (\A q \in Streams : QueueInv(q))'
  BY <1>22 DEF Disconnect, Goto, QueueInv, TypeOK
<1>23. ASSUME NEW s \in Streams, Abort(s) PROVE (\A q \in Streams : QueueInv(q))'
  <2>1. CASE CancelProducer(s) /\ gen[s] = "join"
    <3>1. /\ UNCHANGED gen /\ \A z \in Streams \ {s} : queue'[z] = queue[z] /\ prod'[z] = prod[z]
          /\ prod'[s] = "done" => queue'[s] # <<>> /\ queue'[s][Len(queue'[s])] = "DONE"
      <4>1. /\ UNCHANGED gen /\ \A z \in Streams \ {s} : queue'[z] = queue[z]
            /\ \/ prod' = [prod EXCEPT ![s] = "cleanup"]
               \/ /\ prod' = [prod EXCEPT ![s] = "done"]
                  /\ queue'[s] # <<>> /\ queue'[s][Len(queue'[s])] = "DONE"
        BY <1>23, <2>1, Cancels DEF Abort
      <4> QED BY <4>1 DEF TypeOK
    <3> QED BY <3>1 DEF QueueInv
  <2>2. CASE UNCHANGED source
    BY <1>23, <2>2 DEF Abort, Goto, QueueInv, TypeOK
  <2> QED BY <1>23, <2>1, <2>2 DEF Abort
<1>24. ASSUME NEW c \in Sessions, Stop(c) PROVE (\A q \in Streams : QueueInv(q))'
  BY <1>24 DEF Stop, QueueInv
<1>25. CASE Sigterm
  BY <1>25 DEF Sigterm, QueueInv
<1>26. CASE UNCHANGED vars
  BY <1>26 DEF QueueInv
<1> QED
  BY <1>1, <1>2, <1>3, <1>4, <1>5, <1>6, <1>7, <1>8, <1>9, <1>10,
     <1>11, <1>12, <1>13, <1>14, <1>15, <1>16, <1>17, <1>19,
     <1>21, <1>22, <1>23, <1>24, <1>25, <1>26
     DEF Next, Consumer, Drain, Producer

\* Every step keeps the invariant.
LEMMA InvStep == IInv /\ [Next]_vars => IInv'
BY TypeStep, SlotsStep, LockStep, RegistryStep, ProducerStep, GeneratorStep, QueueStep DEF
   IInv

--------------------------------------------------------------------------------
(* Where each stream's generator and producer stand determines what the stream *)
(* holds and what its turn may look like (chat.py:88-170, sse.py:60-300).      *)
THEOREM InvariantHolds == Spec => []IInv
<1>1. IInv /\ [Next]_vars => IInv'
  BY InvStep
<1> QED BY InitInv, <1>1, PTL DEF Spec

(* Every reachable state is well typed: the counter of slots in use never      *)
(* leaves 0..MaxActive (rate_limit.py, ConcurrencyLimiter).                    *)
THEOREM TypeCorrect == Spec => []TypeOK
<1>1. IInv => TypeOK
  BY DEF IInv
<1> QED BY InvariantHolds, <1>1, PTL

(* The counter of the limiter is the number of streams that took a slot and    *)
(* have not released it: no release is done twice, by the route's finally      *)
(* block and by the drain it handed over to, nor by a stream that was refused  *)
(* its slot, although the limiter (rate_limit.py:91) checks neither.  That a   *)
(* slot comes back at all is NothingHeldAtTheEnd's, with its exception.        *)
THEOREM SlotsAreCounted == Spec => []SlotsCounted
<1>1. IInv => SlotsCounted
  BY DEF IInv
<1> QED BY InvariantHolds, <1>1, PTL

(* A stream that is over has unregistered its cancel event and given its slot  *)
(* back, unless the closing of its client was cut short.                       *)
THEOREM NothingHeldAtTheEnd == Spec => []EndedHoldsNothing
<1>1. IInv => EndedHoldsNothing
  BY DEF IInv, EndedHoldsNothing, GeneratorInv, RegistryInv, Over, Slots, TypeOK
<1> QED BY InvariantHolds, <1>1, PTL

(* A dropped connection never interrupts a turn: only a Stop or a shutdown     *)
(* does, or a failing store.                                                   *)
THEOREM OnlyRequestsInterrupt == Spec => []InterruptedOnRequest
<1>1. IInv => InterruptedOnRequest
  BY DEF IInv, ProducerInv, InterruptedOnRequest
<1> QED BY InvariantHolds, <1>1, PTL

(* A producer that is done leaves its turn running only when it was cancelled  *)
(* while it opened the turn (turn.py:233), where the finally block of          *)
(* run_session knows of no turn, or again in the cleanup of the first          *)
(* cancellation, or a store call failed.                                       *)
THEOREM TurnsAreSettled == Spec => []SettledUnlessCutShort
<1>1. IInv => SettledUnlessCutShort
  BY DEF IInv, ProducerInv, SettledUnlessCutShort
<1> QED BY InvariantHolds, <1>1, PTL

(* Two streams are never inside one session together, from the user turn to    *)
(* the cleanup.                                                                *)
OneProducer ==
    \A s, q \in Streams :
        /\ sess[s] = sess[q]
        /\ prod[s] \in Inside /\ prod[q] \in Inside
        => s = q

\* The session lock keeps the producers of a session apart (RuntimeStore.lock, store.py:69).
THEOREM OneProducerPerSession == Spec => []OneProducer
<1>1. IInv => OneProducer
  BY DEF IInv, LockInv, TypeOK, OneProducer
<1> QED BY InvariantHolds, <1>1, PTL

(* A consumer whose producer has ended finds the marker of the end at the back *)
(* of its queue: it never waits for an item that nothing will put there.       *)
EndIsQueued == \A s \in Streams : QueueInv(s)

\* A producer that is done has queued its sentinel behind every event, unless the consumer left.
THEOREM ConsumersSeeTheEnd == Spec => []EndIsQueued
<1>1. IInv => EndIsQueued
  BY DEF IInv, EndIsQueued
<1> QED BY InvariantHolds, <1>1, PTL

================================================================================
