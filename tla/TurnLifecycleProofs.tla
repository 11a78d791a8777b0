-------------------------- MODULE TurnLifecycleProofs --------------------------
(****************************************************************************)
(* Proofs about TurnLifecycle, for any set of runs, any inputs and any      *)
(* bounds: types, the lock and the abstract session first, then the         *)
(* inductive invariant IInv and the properties of the rows that follow from *)
(* it: what a session's transcript looks like under every interleaving of   *)
(* cancellations, failing store calls and restarts.                         *)
(****************************************************************************)
EXTENDS TurnLifecycle, TLAPS

USE DEF vars, local, rows, env

--------------------------------------------------------------------------------
(* The building blocks keep the variables they write typed.                     *)

LEMMA WriteType ==
    ASSUME TypeOK, NEW r \in Runs, Write(r)
    PROVE  /\ turn' \in [Turns -> TurnStatus]
           /\ saved' \in [Turns -> Nat]
           /\ tool' \in [Tools -> ToolStatus]
<1>1. /\ turn \in [Turns -> TurnStatus]
      /\ saved \in [Turns -> Nat]
      /\ tool \in [Tools -> ToolStatus]
      /\ buf[r] \in Nat
  BY DEF TypeOK
<1>2. ASSUME NEW t, NEW s \in TurnStatus
      PROVE  [turn EXCEPT ![t] = s] \in [Turns -> TurnStatus]
  BY <1>1
<1>3. [turn EXCEPT ![Cur(r)] = Interrupted(@)] \in [Turns -> TurnStatus]
  <2>1. \A s \in TurnStatus : Interrupted(s) \in TurnStatus
    BY DEF Interrupted, TurnStatus
  <2>2. CASE Cur(r) \in Turns
    BY <1>1, <2>1, <2>2
  <2>3. CASE Cur(r) \notin Turns
    BY <1>1, <2>3
  <2> QED BY <2>2, <2>3
<1>4. [saved EXCEPT ![Cur(r)] = @ + buf[r]] \in [Turns -> Nat]
  <2>1. CASE Cur(r) \in Turns
    BY <1>1, <2>1
  <2>2. CASE Cur(r) \notin Turns
    BY <1>1, <2>2
  <2> QED BY <2>1, <2>2
<1>5. ASSUME NEW x, NEW s \in ToolStatus
      PROVE  [tool EXCEPT ![x] = s] \in [Tools -> ToolStatus]
  BY <1>1
<1>6. {"running", "completed", "error"} \subseteq TurnStatus
  BY DEF TurnStatus
<1>7. {"pending", "interrupted"} \subseteq ToolStatus
  BY DEF ToolStatus
<1>8. turn' \in [Turns -> TurnStatus]
  BY <1>1, <1>2, <1>3, <1>6 DEF Write
<1>9. saved' \in [Turns -> Nat]
  BY <1>1, <1>4 DEF Write
<1>10. tool' \in [Tools -> ToolStatus]
  BY <1>1, <1>5, <1>7 DEF Write
<1> QED BY <1>8, <1>9, <1>10

LEMMA GotoType ==
    ASSUME TypeOK, NEW r \in Runs, NEW p \in Location, Goto(r, p)
    PROVE  pc' \in [Runs -> Location] /\ lock' \in Runs \cup {NoRun}
  BY DEF TypeOK, Goto

LEMMA EndType ==
    ASSUME TypeOK, NEW r \in Runs, NEW how \in Outcome, End(r, how)
    PROVE  /\ pc' \in [Runs -> Location]
           /\ lock' \in Runs \cup {NoRun}
           /\ outcome' \in [Runs -> Outcome]
  BY DEF TypeOK, End, Location

LEMMA RaiseType ==
    ASSUME TypeOK, NEW r \in Runs, NEW what \in Outcome, Raise(r, what)
    PROVE  /\ pc' \in [Runs -> Location]
           /\ lock' \in Runs \cup {NoRun}
           /\ outcome' \in [Runs -> Outcome]
  BY DEF TypeOK, Raise, Goto, Location, Holding, Handler

LEMMA NextIterationType ==
    ASSUME TypeOK, NEW r \in Runs, NextIteration(r)
    PROVE  /\ pc' \in [Runs -> Location]
           /\ lock' \in Runs \cup {NoRun}
           /\ outcome' \in [Runs -> Outcome]
           /\ iter' \in [Runs -> 0..MaxIterations]
<1>1. "compact" \in Location /\ "max_iterations" \in Outcome /\ "none" \in Outcome
  BY DEF Location, Holding, Outside, Outcome
<1>2. iter \in [Runs -> 0..MaxIterations] /\ outcome \in [Runs -> Outcome]
  BY DEF TypeOK
<1>3. CASE /\ iter[r] < MaxIterations
           /\ iter' = [iter EXCEPT ![r] = @ + 1]
           /\ outcome' = [outcome EXCEPT ![r] = "none"]
           /\ Goto(r, "compact")
  BY <1>1, <1>2, <1>3, GotoType, BoundsAssumption
<1>4. CASE End(r, "max_iterations") /\ UNCHANGED iter
  BY <1>1, <1>2, <1>4, EndType
<1> QED BY <1>3, <1>4 DEF NextIteration

LEMMA SweepType ==
    ASSUME TypeOK, NEW r \in Runs, NEW k \in Nat, SweepFrom(r, k)
    PROVE  /\ pc' \in [Runs -> Location]
           /\ lock' \in Runs \cup {NoRun}
           /\ outcome' \in [Runs -> Outcome]
           /\ sweep' \in [Runs -> Nat]
<1>1. "check_tool" \in Location
  BY DEF Location, Holding, Cleanup
<1>2. sweep \in [Runs -> Nat] /\ outcome \in [Runs -> Outcome]
  BY DEF TypeOK
<1>3. CASE sweep' = [sweep EXCEPT ![r] = k] /\ Goto(r, "check_tool") /\ UNCHANGED outcome
  BY <1>1, <1>2, <1>3, GotoType
<1>4. CASE End(r, outcome[r]) /\ UNCHANGED sweep
  BY <1>2, <1>4, EndType
<1> QED BY <1>3, <1>4 DEF SweepFrom

LEMMA AfterFlushType == \A p \in FlushPoints : AfterFlush(p) \in Location
  BY DEF FlushPoints, AfterFlush, Location, Holding, Outside, Body, Handler, Cleanup

LEMMA Locations ==
    /\ FlushPoints \subseteq Location
    /\ {"idle", "queued", "ended", "setup", "compact", "open", "user"} \subseteq Location
    /\ {"stream", "flush_text", "flush_call", "create_tool", "add_call"} \subseteq Location
    /\ {"flush_complete", "complete", "gather", "flush_error", "mark_error"} \subseteq Location
    /\ {"flush_cleanup", "interrupt_turn", "check_tool", "interrupt_tool"} \subseteq Location
  BY DEF FlushPoints, Location, Holding, Outside, Body, Handler, Cleanup

LEMMA Outcomes ==
    {"none", "turn_finished", "max_iterations", "runtime_error",
     "overflow", "loop", "raised", "cancelled", "dropped", "cut", "killed"} \subseteq Outcome
  BY DEF Outcome

--------------------------------------------------------------------------------
(* Every action keeps the types.                                                *)

LEMMA EnterType ==
    ASSUME TypeOK, NEW r \in Runs,
           Submit(r) \/ AcquireLock(r) \/ CreateUserTurn(r) \/ StartLoop(r) \/ Compact(r)
    PROVE  TypeOK'
<1>1. CASE Submit(r)
  BY <1>1, GotoType, Locations DEF TypeOK, Submit
<1>2. CASE AcquireLock(r)
  BY <1>2, Locations DEF TypeOK, AcquireLock
<1>3. CASE CreateUserTurn(r)
  BY <1>3, GotoType, Locations DEF TypeOK, CreateUserTurn
<1>4. CASE StartLoop(r)
  BY <1>4, NextIterationType DEF TypeOK, StartLoop
<1>5. CASE Compact(r)
  <2>1. forced' \in [Runs -> BOOLEAN]
    BY <1>5 DEF TypeOK, Compact
  <2>2. pc' \in [Runs -> Location] /\ lock' \in Runs \cup {NoRun}
    BY <1>5, GotoType, Locations DEF Compact
  <2> QED BY <1>5, <2>1, <2>2 DEF TypeOK, Compact
<1> QED BY <1>1, <1>2, <1>3, <1>4, <1>5

LEMMA StreamType ==
    ASSUME TypeOK, NEW r \in Runs,
           \/ OpenAssistantTurn(r) \/ TextDelta(r) \/ ToolUse(r) \/ StreamEnd(r)
           \/ ProviderError(r) \/ Flush(r) \/ CreateToolRun(r) \/ AddCallPart(r)
    PROVE  TypeOK'
<1>1. CASE OpenAssistantTurn(r)
  <2>1. /\ turn' \in [Turns -> TurnStatus]
        /\ saved' \in [Turns -> Nat]
        /\ tool' \in [Tools -> ToolStatus]
    BY <1>1, WriteType DEF OpenAssistantTurn
  <2>2. buf' \in [Runs -> Nat] /\ calls' \in [Runs -> Seq(Inputs)]
    <3>1. buf \in [Runs -> Nat] /\ calls \in [Runs -> Seq(Inputs)] /\ <<>> \in Seq(Inputs)
      BY DEF TypeOK
    <3> QED BY <1>1, <3>1 DEF OpenAssistantTurn
  <2>3. pc' \in [Runs -> Location] /\ lock' \in Runs \cup {NoRun}
    BY <1>1, GotoType, Locations DEF OpenAssistantTurn
  <2> QED BY <1>1, <2>1, <2>2, <2>3 DEF TypeOK, OpenAssistantTurn
<1>2. CASE TextDelta(r)
  <2>1. streamed' \in [Turns -> Nat]
    <3>1. CASE Cur(r) \in Turns
      BY <1>2, <3>1 DEF TypeOK, TextDelta
    <3>2. CASE Cur(r) \notin Turns
      BY <1>2, <3>2 DEF TypeOK, TextDelta
    <3> QED BY <3>1, <3>2
  <2>2. buf' \in [Runs -> Nat]
    BY <1>2 DEF TypeOK, TextDelta
  <2>3. pc' \in [Runs -> Location] /\ lock' \in Runs \cup {NoRun}
    <3>1. (IF buf[r] + 1 >= FlushSize THEN "flush_text" ELSE "stream") \in Location
      BY Locations
    <3> QED BY <1>2, <3>1, GotoType DEF TextDelta
  <2> QED BY <1>2, <2>1, <2>2, <2>3 DEF TypeOK, TextDelta
<1>3. CASE ToolUse(r)
  BY <1>3, GotoType, Locations DEF TypeOK, ToolUse
<1>4. CASE StreamEnd(r)
  BY <1>4, GotoType, Locations DEF TypeOK, StreamEnd
<1>5. CASE ProviderError(r)
  BY <1>5, RaiseType, Outcomes DEF TypeOK, ProviderError
<1>6. CASE Flush(r)
  BY <1>6, WriteType, GotoType, AfterFlushType DEF TypeOK, Flush
<1>7. CASE CreateToolRun(r)
  BY <1>7, WriteType, GotoType, Locations DEF TypeOK, CreateToolRun
<1>8. CASE AddCallPart(r)
  <2>1. calls' \in [Runs -> Seq(Inputs)]
    BY <1>8 DEF TypeOK, AddCallPart
  <2> QED BY <1>8, <2>1, GotoType, Locations DEF TypeOK, AddCallPart
<1> QED BY <1>1, <1>2, <1>3, <1>4, <1>5, <1>6, <1>7, <1>8

LEMMA FinishType ==
    ASSUME TypeOK, NEW r \in Runs,
           CompleteTurn(r) \/ GatherDone(r) \/ GatherRaise(r) \/ MarkError(r)
    PROVE  TypeOK'
<1>1. CASE CompleteTurn(r)
  <2>1. /\ turn' \in [Turns -> TurnStatus]
        /\ saved' \in [Turns -> Nat]
        /\ tool' \in [Tools -> ToolStatus]
    BY <1>1, WriteType DEF CompleteTurn
  <2>2. history' \in [Runs -> Seq(Inputs)]
    <3>1. history[r] \o calls[r] \in Seq(Inputs) /\ history \in [Runs -> Seq(Inputs)]
      BY DEF TypeOK
    <3>2. [history EXCEPT ![r] = history[r] \o calls[r]] \in [Runs -> Seq(Inputs)]
      BY <3>1
    <3> QED BY <1>1, <3>1, <3>2 DEF CompleteTurn
  <2>3. task' \in [Tools -> TaskLocation]
    BY <1>1 DEF TypeOK, CompleteTurn, TaskLocation
  <2>4. /\ pc' \in [Runs -> Location]
        /\ lock' \in Runs \cup {NoRun}
        /\ outcome' \in [Runs -> Outcome]
    <3>1. CASE Raise(r, "loop")
      BY <3>1, RaiseType, Outcomes
    <3>2. CASE Goto(r, "gather") /\ UNCHANGED outcome
      BY <3>2, GotoType, Locations DEF TypeOK
    <3>3. CASE End(r, "turn_finished")
      BY <3>3, EndType, Outcomes
    <3> QED BY <1>1, <3>1, <3>2, <3>3 DEF CompleteTurn
  <2> QED BY <1>1, <2>1, <2>2, <2>3, <2>4 DEF TypeOK, CompleteTurn
<1>2. CASE GatherDone(r)
  BY <1>2, NextIterationType DEF TypeOK, GatherDone
<1>3. CASE GatherRaise(r)
  BY <1>3, RaiseType, Outcomes DEF TypeOK, GatherRaise
<1>4. CASE MarkError(r)
  <2>1. /\ turn' \in [Turns -> TurnStatus]
        /\ saved' \in [Turns -> Nat]
        /\ tool' \in [Tools -> ToolStatus]
    BY <1>4, WriteType DEF MarkError
  <2>2. overflowUsed' \in [Runs -> BOOLEAN] /\ forced' \in [Runs -> BOOLEAN]
    BY <1>4 DEF TypeOK, MarkError, ArmOverflowRetry
  <2>3. /\ pc' \in [Runs -> Location]
        /\ lock' \in Runs \cup {NoRun}
        /\ outcome' \in [Runs -> Outcome]
        /\ iter' \in [Runs -> 0..MaxIterations]
    <3>1. CASE NextIteration(r)
      BY <3>1, NextIterationType
    <3>2. CASE (End(r, "runtime_error") \/ End(r, "raised")) /\ UNCHANGED iter
      BY <3>2, EndType, Outcomes DEF TypeOK
    <3> QED BY <1>4, <3>1, <3>2 DEF MarkError
  <2> QED BY <1>4, <2>1, <2>2, <2>3 DEF TypeOK, MarkError
<1> QED BY <1>1, <1>2, <1>3, <1>4

LEMMA CleanupType ==
    ASSUME TypeOK, NEW r \in Runs, InterruptTurn(r) \/ CheckTool(r) \/ InterruptTool(r)
    PROVE  TypeOK'
<1>0. sweep[r] + 1 \in Nat /\ 1 \in Nat
  BY DEF TypeOK
<1>1. CASE InterruptTurn(r)
  BY <1>0, <1>1, WriteType, SweepType DEF TypeOK, InterruptTurn
<1>2. CASE CheckTool(r)
  <2>1. CASE Goto(r, "interrupt_tool") /\ UNCHANGED <<sweep, outcome>>
    BY <1>2, <2>1, GotoType, Locations DEF TypeOK, CheckTool
  <2>2. CASE SweepFrom(r, sweep[r] + 1)
    BY <1>0, <1>2, <2>2, SweepType DEF TypeOK, CheckTool
  <2> QED BY <1>2, <2>1, <2>2 DEF CheckTool
<1>3. CASE InterruptTool(r)
  BY <1>0, <1>3, WriteType, SweepType DEF TypeOK, InterruptTool
<1> QED BY <1>1, <1>2, <1>3

(* The gather children.                                                         *)
LEMMA RecordedType ==
    ASSUME TypeOK, NEW x \in Tools
    PROVE  Recorded(x) \in ToolStatus
  BY DEF TypeOK, Recorded, ToolStatus, TaskLocation

LEMMA TaskType ==
    ASSUME TypeOK, NEW x \in Tools, TaskStep(x) \/ TaskFail(x)
    PROVE  TypeOK'
<1>1. CASE TaskStep(x)
  <2>1. tool' \in [Tools -> ToolStatus]
    BY <1>1, RecordedType DEF TypeOK, TaskStep
  <2>2. TaskNext(x) \subseteq TaskLocation
    BY <1>1 DEF TypeOK, TaskStep, TaskNext, TaskLocation, Live
  <2>3. task' \in [Tools -> TaskLocation]
    BY <1>1, <2>2 DEF TypeOK, TaskStep
  <2> QED BY <1>1, <2>1, <2>3 DEF TypeOK, TaskStep
<1>2. CASE TaskFail(x)
  <2>1. task' \in [Tools -> TaskLocation]
    BY <1>2 DEF TypeOK, TaskFail, TaskLocation
  <2>2. faults' \in Nat
    BY <1>2 DEF TypeOK, TaskFail
  <2> QED BY <1>2, <2>1, <2>2 DEF TypeOK, TaskFail
<1> QED BY <1>1, <1>2

LEMMA CancelChildrenType ==
    ASSUME TypeOK, NEW r \in Runs, CancelChildren(r)
    PROVE  tool' \in [Tools -> ToolStatus] /\ task' \in [Tools -> TaskLocation]
<1>1. PICK S \in SUBSET {x \in Called(r) : Live(x)} :
        /\ tool' = [x \in Tools |-> IF x \in S THEN Recorded(x) ELSE tool[x]]
        /\ task' = [x \in Tools |-> IF x \in Called(r) /\ Live(x) THEN "done" ELSE task[x]]
  BY DEF CancelChildren
<1>2. tool' \in [Tools -> ToolStatus]
  BY <1>1, RecordedType DEF TypeOK
<1>3. task' \in [Tools -> TaskLocation]
  BY <1>1 DEF TypeOK, TaskLocation
<1> QED BY <1>2, <1>3

(* Cancellations, failing store calls, process deaths.                          *)
LEMMA FaultType ==
    ASSUME TypeOK, NEW r \in Runs, Cancel(r) \/ StoreFail(r)
    PROVE  TypeOK'
<1>1. buf' \in [Runs -> Nat]
  <2>1. buf \in [Runs -> Nat]
    BY DEF TypeOK
  <2>2. buf' = [buf EXCEPT ![r] = IF pc[r] \in FlushPoints THEN 0 ELSE @]
    BY DEF Cancel, StoreFail
  <2> QED BY <2>1, <2>2
<1>2. /\ pc' \in [Runs -> Location]
      /\ lock' \in Runs \cup {NoRun}
      /\ outcome' \in [Runs -> Outcome]
  <2>1. CASE End(r, "dropped") \/ End(r, "cut") \/ End(r, "raised")
    BY <2>1, EndType, Outcomes
  <2>2. CASE Raise(r, "raised")
    BY <2>2, RaiseType, Outcomes
  <2>3. CASE /\ Goto(r, "flush_cleanup")
             /\ \E what \in {"cancelled", "raised"} : outcome' = [outcome EXCEPT ![r] = what]
    <3>1. outcome' \in [Runs -> Outcome]
      BY <2>3, Outcomes DEF TypeOK
    <3> QED BY <2>3, <3>1, GotoType, Locations
  <2> QED BY <2>1, <2>2, <2>3 DEF Cancel, StoreFail
<1>3. CASE Cancel(r)
  <2>1. cancels' \in [Runs -> Nat]
    BY <1>3 DEF TypeOK, Cancel
  <2>2. /\ turn' \in [Turns -> TurnStatus]
        /\ saved' \in [Turns -> Nat]
        /\ tool' \in [Tools -> ToolStatus]
        /\ task' \in [Tools -> TaskLocation]
    <3>1. CASE CancelChildren(r) /\ UNCHANGED <<turn, saved>>
      BY <3>1, CancelChildrenType DEF TypeOK
    <3>2. CASE Write(r) /\ UNCHANGED task
      BY <3>2, WriteType DEF TypeOK
    <3>3. CASE UNCHANGED rows /\ UNCHANGED task
      BY <3>3 DEF TypeOK
    <3> QED BY <1>3, <3>1, <3>2, <3>3 DEF Cancel
  <2> QED BY <1>1, <1>2, <1>3, <2>1, <2>2 DEF TypeOK, Cancel
<1>4. CASE StoreFail(r)
  <2>1. faults' \in Nat
    BY <1>4 DEF TypeOK, StoreFail
  <2> QED BY <1>1, <1>2, <1>4, <2>1 DEF TypeOK, StoreFail
<1> QED BY <1>3, <1>4

LEMMA ProcessType ==
    ASSUME TypeOK, Kill \/ Restart
    PROVE  TypeOK'
<1>1. CASE Kill
  <2>1. pc' \in [Runs -> Location]
    BY <1>1, Locations DEF Kill
  <2>2. outcome' \in [Runs -> Outcome]
    BY <1>1, Outcomes DEF TypeOK, Kill
  <2>3. task' \in [Tools -> TaskLocation]
    BY <1>1 DEF TypeOK, Kill, TaskLocation
  <2>4. kills' \in Nat
    BY <1>1 DEF TypeOK, Kill
  <2> QED BY <1>1, <2>1, <2>2, <2>3, <2>4 DEF TypeOK, Kill
<1>2. CASE Restart
  <2>1. tool' \in [Tools -> ToolStatus]
    BY <1>2 DEF TypeOK, Restart, ToolStatus
  <2>2. turn' \in [Turns -> TurnStatus]
    BY <1>2 DEF TypeOK, Restart, Interrupted, TurnStatus
  <2> QED BY <1>2, <2>1, <2>2 DEF TypeOK, Restart
<1> QED BY <1>1, <1>2

LEMMA InitType == Init => TypeOK
<1> SUFFICES ASSUME Init PROVE TypeOK
  OBVIOUS
<1>1. <<>> \in Seq(Inputs) /\ 0 \in 0..MaxIterations
  BY BoundsAssumption
<1> QED BY <1>1 DEF Init, TypeOK, Location, TaskLocation, TurnStatus, ToolStatus, Outcome

LEMMA NextType == TypeOK /\ [Next]_vars => TypeOK'
<1> SUFFICES ASSUME TypeOK, [Next]_vars PROVE TypeOK'
  OBVIOUS
<1>1. CASE UNCHANGED vars
  BY <1>1 DEF TypeOK
<1>2. ASSUME NEW r \in Runs, Submit(r) \/ Step(r) \/ Cancel(r) \/ StoreFail(r)
      PROVE  TypeOK'
  BY <1>2, EnterType, StreamType, FinishType, CleanupType, FaultType DEF Step
<1>3. ASSUME NEW x \in Tools, TaskStep(x) \/ TaskFail(x)
      PROVE  TypeOK'
  BY <1>3, TaskType
<1>4. CASE Kill \/ Restart
  BY <1>4, ProcessType
<1> QED BY <1>1, <1>2, <1>3, <1>4 DEF Next

\* The variables keep the types the code gives them; in particular a run is never
\* past MAX_TOOL_ITERATIONS (runtime.py: the for loop over range).
THEOREM TypeCorrect == Spec => []TypeOK
  BY InitType, NextType, PTL DEF Spec
--------------------------------------------------------------------------------
(* The session lock.                                                            *)

LEMMA MovesKeepLock ==
    ASSUME TypeOK, MutualExclusion, NEW r \in Runs, pc[r] \in Holding,
           NEW p \in Holding, Goto(r, p)
    PROVE  MutualExclusion'
  BY DEF TypeOK, MutualExclusion, Goto

LEMMA EndFreesLock ==
    ASSUME TypeOK, MutualExclusion, NEW r \in Runs, NEW how, End(r, how)
    PROVE  MutualExclusion'
<1>1. "ended" \notin Holding
  BY DEF Holding, Outside, Body, Handler, Cleanup
<1> QED BY <1>1, NoRunAssumption DEF TypeOK, MutualExclusion, End

LEMMA HoldingLocations ==
    /\ {"setup", "compact", "open", "user", "gather", "stream"} \subseteq Holding
    /\ {"add_call", "create_tool", "complete", "flush_error", "mark_error"} \subseteq Holding
    /\ Cleanup \subseteq Holding /\ FlushPoints \subseteq Holding
    /\ \A p \in FlushPoints : AfterFlush(p) \in Holding
    /\ {"idle", "queued", "ended"} \cap Holding = {}
  BY DEF FlushPoints, AfterFlush, Holding, Outside, Body, Handler, Cleanup

LEMMA RaiseKeepsLock ==
    ASSUME TypeOK, MutualExclusion, NEW r \in Runs, pc[r] \in Holding, NEW what, Raise(r, what)
    PROVE  MutualExclusion'
  BY MovesKeepLock, HoldingLocations DEF Raise

LEMMA NextIterationKeepsLock ==
    ASSUME TypeOK, MutualExclusion, NEW r \in Runs, pc[r] \in Holding, NextIteration(r)
    PROVE  MutualExclusion'
  BY MovesKeepLock, EndFreesLock, HoldingLocations DEF NextIteration

LEMMA SweepKeepsLock ==
    ASSUME TypeOK, MutualExclusion, NEW r \in Runs, pc[r] \in Holding, NEW k, SweepFrom(r, k)
    PROVE  MutualExclusion'
  BY MovesKeepLock, EndFreesLock, HoldingLocations DEF SweepFrom, Cleanup

LEMMA StepKeepsLock ==
    ASSUME TypeOK, MutualExclusion, NEW r \in Runs, Step(r)
    PROVE  MutualExclusion'
<1>1. CASE AcquireLock(r)
  <2>1. /\ lock = NoRun /\ lock' = r /\ pc' = [pc EXCEPT ![r] = "user"]
    BY <1>1 DEF AcquireLock
  <2> QED BY <2>1, HoldingLocations, NoRunAssumption DEF TypeOK, MutualExclusion
<1>2. CASE CreateUserTurn(r)
  BY <1>2, MovesKeepLock, HoldingLocations DEF CreateUserTurn
<1>3. CASE StartLoop(r)
  BY <1>3, NextIterationKeepsLock, HoldingLocations DEF StartLoop
<1>4. CASE Compact(r)
  BY <1>4, MovesKeepLock, HoldingLocations DEF Compact
<1>5. CASE OpenAssistantTurn(r)
  BY <1>5, MovesKeepLock, HoldingLocations DEF OpenAssistantTurn
<1>6. CASE TextDelta(r)
  <2>1. (IF buf[r] + 1 >= FlushSize THEN "flush_text" ELSE "stream") \in Holding
    BY HoldingLocations DEF FlushPoints
  <2> QED BY <1>6, <2>1, MovesKeepLock, HoldingLocations DEF TextDelta
<1>7. CASE ToolUse(r)
  BY <1>7, MovesKeepLock, HoldingLocations DEF ToolUse, FlushPoints
<1>8. CASE StreamEnd(r)
  BY <1>8, MovesKeepLock, HoldingLocations DEF StreamEnd, FlushPoints
<1>9. CASE ProviderError(r)
  BY <1>9, RaiseKeepsLock, HoldingLocations DEF ProviderError
<1>10. CASE Flush(r)
  BY <1>10, MovesKeepLock, HoldingLocations DEF Flush
<1>11. CASE CreateToolRun(r)
  BY <1>11, MovesKeepLock, HoldingLocations DEF CreateToolRun
<1>12. CASE AddCallPart(r)
  BY <1>12, MovesKeepLock, HoldingLocations DEF AddCallPart
<1>13. CASE CompleteTurn(r)
  <2>1. pc[r] \in Holding
    BY <1>13, HoldingLocations DEF CompleteTurn
  <2>2. \/ Raise(r, "loop") \/ Goto(r, "gather") \/ End(r, "turn_finished")
    BY <1>13 DEF CompleteTurn
  <2> QED BY <2>1, <2>2, MovesKeepLock, RaiseKeepsLock, EndFreesLock, HoldingLocations
<1>14. CASE GatherDone(r)
  BY <1>14, NextIterationKeepsLock, HoldingLocations DEF GatherDone
<1>15. CASE GatherRaise(r)
  BY <1>15, RaiseKeepsLock, HoldingLocations DEF GatherRaise
<1>16. CASE MarkError(r)
  <2>1. pc[r] \in Holding
    BY <1>16, HoldingLocations DEF MarkError
  <2>2. NextIteration(r) \/ End(r, "runtime_error") \/ End(r, "raised")
    BY <1>16 DEF MarkError
  <2> QED BY <2>1, <2>2, NextIterationKeepsLock, EndFreesLock
<1>17. CASE InterruptTurn(r)
  BY <1>17, SweepKeepsLock, HoldingLocations DEF InterruptTurn, Cleanup
<1>18. CASE CheckTool(r)
  BY <1>18, MovesKeepLock, SweepKeepsLock, HoldingLocations DEF CheckTool, Cleanup
<1>19. CASE InterruptTool(r)
  BY <1>19, SweepKeepsLock, HoldingLocations DEF InterruptTool, Cleanup
<1> QED BY <1>1, <1>2, <1>3, <1>4, <1>5, <1>6, <1>7, <1>8, <1>9, <1>10, <1>11, <1>12,
           <1>13, <1>14, <1>15, <1>16, <1>17, <1>18, <1>19 DEF Step

LEMMA FaultKeepsLock ==
    ASSUME TypeOK, MutualExclusion, NEW r \in Runs, Cancel(r) \/ StoreFail(r)
    PROVE  MutualExclusion'
<1>1. CASE End(r, "dropped") \/ End(r, "cut") \/ End(r, "raised")
  BY <1>1, EndFreesLock
<1>2. CASE pc[r] \in Body \cup Handler /\ (Goto(r, "flush_cleanup") \/ Goto(r, "flush_error"))
  BY <1>2, MovesKeepLock DEF Holding, Handler, Cleanup
<1> QED BY <1>1, <1>2 DEF Cancel, StoreFail, Raise

LEMMA NextKeepsLock == TypeOK /\ MutualExclusion /\ [Next]_vars => MutualExclusion'
<1> SUFFICES ASSUME TypeOK, MutualExclusion, [Next]_vars PROVE MutualExclusion'
  OBVIOUS
<1>1. CASE UNCHANGED vars
  BY <1>1 DEF MutualExclusion
<1>2. ASSUME NEW r \in Runs, Submit(r)
      PROVE  MutualExclusion'
  BY <1>2, HoldingLocations DEF TypeOK, MutualExclusion, Submit, Goto
<1>3. ASSUME NEW r \in Runs, Step(r) \/ Cancel(r) \/ StoreFail(r)
      PROVE  MutualExclusion'
  BY <1>3, StepKeepsLock, FaultKeepsLock
<1>4. ASSUME NEW x \in Tools, TaskStep(x) \/ TaskFail(x)
      PROVE  MutualExclusion'
  BY <1>4 DEF MutualExclusion, TaskStep, TaskFail
<1>5. CASE Kill
  BY <1>5, HoldingLocations, NoRunAssumption DEF TypeOK, MutualExclusion, Kill
<1>6. CASE Restart
  BY <1>6 DEF MutualExclusion, Restart
<1> QED BY <1>1, <1>2, <1>3, <1>4, <1>5, <1>6 DEF Next

\* No two messages of one session are ever inside run_session's lock together
\* (runtime.py: async with lock), whatever is cancelled, fails or dies.
THEOREM LockHeldByOneRun == Spec => []MutualExclusion
<1>1. Init => MutualExclusion
  BY HoldingLocations, NoRunAssumption DEF Init, MutualExclusion
<1>2. TypeOK /\ MutualExclusion /\ [Next]_vars => MutualExclusion'
  BY NextKeepsLock
<1> QED BY <1>1, <1>2, TypeCorrect, PTL DEF Spec
--------------------------------------------------------------------------------
(* run_session implements SessionSerial: each step of a run is a step of the    *)
(* abstract session or leaves it alone.                                         *)

LEMMA Phases ==
    /\ \A p \in Holding : Phase(p) = "active"
    /\ Phase("idle") = "idle" /\ Phase("queued") = "waiting" /\ Phase("ended") = "ended"
    /\ \A p \in Location : Phase(p) \in {"idle", "waiting", "active", "ended"}
  BY HoldingLocations DEF Phase, Location

LEMMA MoveIsStutter ==
    ASSUME TypeOK, NEW r \in Runs, pc[r] \in Holding, NEW p \in Holding, Goto(r, p)
    PROVE  UNCHANGED Serial!vars
<1>1. /\ pc \in [Runs -> Location] /\ lock' = lock
      /\ pc' = [pc EXCEPT ![r] = p]
  BY DEF TypeOK, Goto
<1>2. \A q \in Runs : Phase(pc'[q]) = Phase(pc[q])
  BY <1>1, Phases
<1> QED BY <1>1, <1>2 DEF Serial!vars

LEMMA EndIsFinish ==
    ASSUME TypeOK, MutualExclusion, NEW r \in Runs, pc[r] \in Holding, NEW how, End(r, how)
    PROVE  Serial!Finish(r)
<1>1. /\ pc \in [Runs -> Location] /\ lock = r
      /\ pc' = [pc EXCEPT ![r] = "ended"] /\ lock' = NoRun
  BY DEF TypeOK, MutualExclusion, End
<1>2. \A q \in Runs : Phase(pc'[q]) = IF q = r THEN "ended" ELSE Phase(pc[q])
  BY <1>1, Phases
<1> QED BY <1>1, <1>2, Phases DEF Serial!Finish

LEMMA LeavingIsFinish ==
    ASSUME TypeOK, MutualExclusion, NEW r \in Runs, pc[r] \in Holding,
           \/ \E p \in Holding : Goto(r, p)
           \/ \E how : End(r, how)
    PROVE  Serial!Finish(r) \/ UNCHANGED Serial!vars
  BY MoveIsStutter, EndIsFinish

LEMMA InsideMoves ==
    ASSUME TypeOK, NEW r \in Runs, Step(r), ~AcquireLock(r)
    PROVE  /\ pc[r] \in Holding
           /\ \/ \E p \in Holding : Goto(r, p)
              \/ \E how : End(r, how)
<1>0. ASSUME NEW k, SweepFrom(r, k)
      PROVE  (\E p \in Holding : Goto(r, p)) \/ (\E how : End(r, how))
  BY <1>0, HoldingLocations DEF SweepFrom, Cleanup
<1>1. CASE CreateUserTurn(r) \/ Compact(r) \/ OpenAssistantTurn(r)
  BY <1>1, HoldingLocations DEF CreateUserTurn, Compact, OpenAssistantTurn
<1>2. CASE StartLoop(r) \/ GatherDone(r)
  BY <1>2, HoldingLocations DEF StartLoop, GatherDone, NextIteration
<1>3. CASE TextDelta(r)
  <2>1. (IF buf[r] + 1 >= FlushSize THEN "flush_text" ELSE "stream") \in Holding
    BY HoldingLocations DEF FlushPoints
  <2> QED BY <1>3, <2>1, HoldingLocations DEF TextDelta
<1>4. CASE ToolUse(r) \/ StreamEnd(r)
  BY <1>4, HoldingLocations DEF ToolUse, StreamEnd, FlushPoints
<1>5. CASE ProviderError(r) \/ GatherRaise(r)
  BY <1>5, HoldingLocations DEF ProviderError, GatherRaise, Raise
<1>6. CASE Flush(r) \/ CreateToolRun(r) \/ AddCallPart(r)
  BY <1>6, HoldingLocations DEF Flush, CreateToolRun, AddCallPart
<1>7. CASE CompleteTurn(r)
  BY <1>7, HoldingLocations DEF CompleteTurn, Raise
<1>8. CASE MarkError(r)
  BY <1>8, HoldingLocations DEF MarkError, NextIteration
<1>9. CASE InterruptTurn(r) \/ InterruptTool(r)
  BY <1>0, <1>9, HoldingLocations DEF InterruptTurn, InterruptTool, Cleanup
<1>10. CASE CheckTool(r)
  BY <1>0, <1>10, HoldingLocations DEF CheckTool, Cleanup
<1> QED BY <1>1, <1>2, <1>3, <1>4, <1>5, <1>6, <1>7, <1>8, <1>9, <1>10 DEF Step

LEMMA StepRefines ==
    ASSUME TypeOK, MutualExclusion, [Next]_vars
    PROVE  [Serial!Next]_Serial!vars
<1>1. CASE UNCHANGED vars
  BY <1>1 DEF Serial!vars
<1>2. ASSUME NEW r \in Runs, Submit(r)
      PROVE  Serial!Post(r)
  <2>1. \A q \in Runs : Phase(pc'[q]) = IF q = r THEN "waiting" ELSE Phase(pc[q])
    BY <1>2, Phases DEF TypeOK, Submit, Goto
  <2> QED BY <1>2, <2>1, Phases DEF Submit, Goto, Serial!Post
<1>3. ASSUME NEW r \in Runs, AcquireLock(r)
      PROVE  Serial!Begin(r)
  <2>1. pc \in [Runs -> Location] /\ pc' = [pc EXCEPT ![r] = "user"] /\ pc[r] = "queued"
    BY <1>3 DEF TypeOK, AcquireLock
  <2>2. \A q \in Runs : Phase(pc'[q]) = IF q = r THEN "active" ELSE Phase(pc[q])
    BY <2>1, Phases, HoldingLocations
  <2> QED BY <1>3, <2>1, <2>2, Phases DEF AcquireLock, Serial!Begin
<1>4. ASSUME NEW r \in Runs, Step(r), ~AcquireLock(r)
      PROVE  Serial!Finish(r) \/ UNCHANGED Serial!vars
  BY <1>4, InsideMoves, LeavingIsFinish
<1>5. ASSUME NEW r \in Runs, Cancel(r) \/ StoreFail(r)
      PROVE  Serial!Finish(r) \/ Serial!Abandon(r) \/ UNCHANGED Serial!vars
  <2>1. CASE /\ pc[r] \in Holding
             /\ (\E p \in Holding : Goto(r, p)) \/ (\E how : End(r, how))
    BY <2>1, LeavingIsFinish
  <2>2. CASE pc[r] = "queued" /\ End(r, "dropped")
    <3>1. /\ pc \in [Runs -> Location] /\ lock' = lock
          /\ pc' = [pc EXCEPT ![r] = "ended"]
      BY <2>2, HoldingLocations DEF TypeOK, MutualExclusion, End
    <3>2. \A q \in Runs : Phase(pc'[q]) = IF q = r THEN "ended" ELSE Phase(pc[q])
      BY <3>1, Phases
    <3> QED BY <2>2, <3>1, <3>2, Phases DEF Serial!Abandon
  <2> QED BY <1>5, <2>1, <2>2, HoldingLocations
          DEF Cancel, StoreFail, Raise, Holding, Cleanup
<1>6. ASSUME NEW x \in Tools, TaskStep(x) \/ TaskFail(x)
      PROVE  UNCHANGED Serial!vars
  BY <1>6 DEF TaskStep, TaskFail, Serial!vars
<1>7. ASSUME Kill
      PROVE  Serial!Die
  <2>1. \A q \in Runs : Phase(pc'[q]) = IF Phase(pc[q]) = "idle" THEN "idle" ELSE "ended"
    <3>1. \A q \in Runs : Phase(pc[q]) = "idle" <=> pc[q] = "idle"
      BY Phases DEF TypeOK, Location
    <3> QED BY <1>7, <3>1, Phases DEF Kill
  <2> QED BY <1>7, <2>1 DEF Kill, Serial!Die
<1>8. ASSUME Restart
      PROVE  UNCHANGED Serial!vars
  BY <1>8 DEF Restart, Serial!vars
<1>9. ASSUME NEW r \in Runs,
             Serial!Post(r) \/ Serial!Begin(r) \/ Serial!Finish(r) \/ Serial!Abandon(r)
      PROVE  Serial!Next
  BY <1>9 DEF Serial!Next
<1>10. Serial!Die => Serial!Next
  BY DEF Serial!Next
<1>11. CASE Next
  <2>1. CASE \E r \in Runs : Submit(r) \/ Step(r) \/ Cancel(r) \/ StoreFail(r)
    BY <2>1, <1>2, <1>3, <1>4, <1>5, <1>9
  <2>2. CASE \E x \in Tools : TaskStep(x) \/ TaskFail(x)
    BY <2>2, <1>6
  <2>3. CASE Kill \/ Restart
    BY <2>3, <1>7, <1>8, <1>10
  <2> QED BY <1>11, <2>1, <2>2, <2>3 DEF Next
<1>12. Serial!Next \/ UNCHANGED Serial!vars
  BY <1>1, <1>11
<1> QED BY <1>12

\* The safety of ImplementsSerial: whatever run_session does to the session lock
\* is what a session that serves its messages one at a time may do.
THEOREM RefinesSerial == Spec => Serial!Spec
<1>1. Init => Serial!Init
  BY Phases DEF Init, Serial!Init
<1>2. TypeOK /\ MutualExclusion /\ [Next]_vars => [Serial!Next]_Serial!vars
  BY StepRefines
<1> QED BY <1>1, <1>2, TypeCorrect, LockHeldByOneRun, PTL DEF Spec, Serial!Spec

--------------------------------------------------------------------------------
(* A step of one run leaves the other runs' state alone.                        *)

\* The state RunInv(q) reads, but for faults and up.
Same(q) ==
    /\ pc'[q] = pc[q] /\ iter'[q] = iter[q] /\ overflowUsed'[q] = overflowUsed[q]
    /\ calls'[q] = calls[q] /\ sweep'[q] = sweep[q] /\ buf'[q] = buf[q]
    /\ outcome'[q] = outcome[q]
    /\ \A n \in 1..MaxIterations :
          /\ turn'[<<q, n>>] = turn[<<q, n>>]
          /\ saved'[<<q, n>>] = saved[<<q, n>>]
          /\ streamed'[<<q, n>>] = streamed[<<q, n>>]
          /\ \A k \in 1..MaxCalls :
                task'[<<q, n, k>>] = task[<<q, n, k>>] /\ tool'[<<q, n, k>>] = tool[<<q, n, k>>]

LEMMA Frame ==
    ASSUME faults \in Nat, NEW q \in Runs, RunInv(q), Same(q),
           up' = up, faults' = faults \/ faults' = faults + 1
    PROVE  RunInv(q)'
<1> USE DEF Same
<1>1. LoopInv(q)'
  BY DEF RunInv, LoopInv
<1>2. ASSUME NEW n \in 1..MaxIterations
      PROVE  TurnRowInv(q, n)' /\ RetryRowInv(q, n)' /\ TextRowInv(q, n)'
  <2>1. TurnRowInv(q, n)'
    BY DEF RunInv, TurnRowInv
  <2>2. RetryRowInv(q, n)'
    BY DEF RunInv, RetryRowInv
  <2>3. TextRowInv(q, n)'
    BY DEF RunInv, TextRowInv
  <2> QED BY <2>1, <2>2, <2>3
<1>3. ASSUME NEW n \in 1..MaxIterations, NEW k \in 1..MaxCalls
      PROVE  TaskRowInv(q, n, k)' /\ ToolRowInv(q, n, k)'
  <2>1. TaskRowInv(q, n, k)'
    <3>1. TaskRowInv(q, n, k)
      BY DEF RunInv
    <3>2. task'[<<q, n, k>>] = task[<<q, n, k>>]
      OBVIOUS
    <3>3. (faults' = 0 => faults = 0) /\ (faults > 0 => faults' > 0)
      OBVIOUS
    <3> HIDE DEF Same
    <3>4. /\ pc'[q] = pc[q] /\ iter'[q] = iter[q] /\ calls'[q] = calls[q]
          /\ outcome'[q] = outcome[q]
      BY DEF Same
    <3> QED BY <3>1, <3>2, <3>3, <3>4 DEF TaskRowInv, Live
  <2>2. ToolRowInv(q, n, k)'
    BY DEF RunInv, ToolRowInv, Unsettled
  <2> QED BY <2>1, <2>2
<1> QED BY <1>1, <1>2, <1>3 DEF RunInv

\* What the store call a run awaits commits, by location.
LEMMA WriteAt ==
    ASSUME NEW r \in Runs, Write(r)
    PROVE  /\ pc[r] = "open" => turn' = [turn EXCEPT ![Cur(r)] = "running"]
           /\ pc[r] = "complete" => turn' = [turn EXCEPT ![Cur(r)] = "completed"]
           /\ pc[r] = "mark_error" => turn' = [turn EXCEPT ![Cur(r)] = "error"]
           /\ pc[r] = "interrupt_turn" => turn' = [turn EXCEPT ![Cur(r)] = Interrupted(@)]
           /\ pc[r] \notin {"open", "complete", "mark_error", "interrupt_turn"} => turn' = turn
           /\ pc[r] \in FlushPoints => saved' = [saved EXCEPT ![Cur(r)] = @ + buf[r]]
           /\ pc[r] \notin FlushPoints => saved' = saved
           /\ pc[r] = "create_tool" =>
                 tool' = [tool EXCEPT ![Slot(r, Len(calls[r]) + 1)] = "pending"]
           /\ pc[r] = "interrupt_tool" =>
                 tool' = [tool EXCEPT ![Slot(r, sweep[r])] = "interrupted"]
           /\ pc[r] \notin {"create_tool", "interrupt_tool"} => tool' = tool
<1> USE DEF Write, FlushPoints
<1>1. /\ pc[r] = "open" => turn' = [turn EXCEPT ![Cur(r)] = "running"]
      /\ pc[r] = "complete" => turn' = [turn EXCEPT ![Cur(r)] = "completed"]
      /\ pc[r] = "mark_error" => turn' = [turn EXCEPT ![Cur(r)] = "error"]
  OBVIOUS
<1>2. /\ pc[r] = "interrupt_turn" => turn' = [turn EXCEPT ![Cur(r)] = Interrupted(@)]
      /\ pc[r] \notin {"open", "complete", "mark_error", "interrupt_turn"} => turn' = turn
  OBVIOUS
<1>3. pc[r] \in FlushPoints => saved' = [saved EXCEPT ![Cur(r)] = @ + buf[r]]
  OBVIOUS
<1>4. pc[r] \notin FlushPoints => saved' = saved
  OBVIOUS
<1>5. pc[r] = "create_tool" => tool' = [tool EXCEPT ![Slot(r, Len(calls[r]) + 1)] = "pending"]
  OBVIOUS
<1>6. pc[r] = "interrupt_tool" => tool' = [tool EXCEPT ![Slot(r, sweep[r])] = "interrupted"]
  OBVIOUS
<1>7. pc[r] \notin {"create_tool", "interrupt_tool"} => tool' = tool
  OBVIOUS
<1> QED BY <1>1, <1>2, <1>3, <1>4, <1>5, <1>6, <1>7

LEMMA TurnRow ==
    ASSUME TypeOK, NEW r \in Runs, NEW v, turn' = [turn EXCEPT ![Cur(r)] = v],
           NEW q \in Runs, NEW n \in 1..MaxIterations
    PROVE  turn'[<<q, n>>] = IF q = r /\ n = iter[r] THEN v ELSE turn[<<q, n>>]
<1>1. turn \in [Turns -> TurnStatus] /\ <<q, n>> \in Turns
  BY DEF TypeOK, Turns
<1>2. Cur(r) = <<q, n>> <=> q = r /\ n = iter[r]
  BY DEF Cur
<1> QED BY <1>1, <1>2

LEMMA SavedRow ==
    ASSUME TypeOK, NEW r \in Runs, NEW v, saved' = [saved EXCEPT ![Cur(r)] = v],
           NEW q \in Runs, NEW n \in 1..MaxIterations
    PROVE  saved'[<<q, n>>] = IF q = r /\ n = iter[r] THEN v ELSE saved[<<q, n>>]
<1>1. saved \in [Turns -> Nat] /\ <<q, n>> \in Turns
  BY DEF TypeOK, Turns
<1>2. Cur(r) = <<q, n>> <=> q = r /\ n = iter[r]
  BY DEF Cur
<1> QED BY <1>1, <1>2

LEMMA StreamedRow ==
    ASSUME TypeOK, NEW r \in Runs, NEW v, streamed' = [streamed EXCEPT ![Cur(r)] = v],
           NEW q \in Runs, NEW n \in 1..MaxIterations
    PROVE  streamed'[<<q, n>>] = IF q = r /\ n = iter[r] THEN v ELSE streamed[<<q, n>>]
<1>1. streamed \in [Turns -> Nat] /\ <<q, n>> \in Turns
  BY DEF TypeOK, Turns
<1>2. Cur(r) = <<q, n>> <=> q = r /\ n = iter[r]
  BY DEF Cur
<1> QED BY <1>1, <1>2

LEMMA ToolRow ==
    ASSUME TypeOK, NEW r \in Runs, NEW j, NEW v, tool' = [tool EXCEPT ![Slot(r, j)] = v],
           NEW q \in Runs, NEW n \in 1..MaxIterations, NEW k \in 1..MaxCalls
    PROVE  tool'[<<q, n, k>>] =
             IF q = r /\ n = iter[r] /\ k = j THEN v ELSE tool[<<q, n, k>>]
<1>1. tool \in [Tools -> ToolStatus] /\ <<q, n, k>> \in Tools
  BY DEF TypeOK, Tools
<1>2. Slot(r, j) = <<q, n, k>> <=> q = r /\ n = iter[r] /\ k = j
  BY DEF Slot
<1> QED BY <1>1, <1>2

\* Whatever it commits, it commits to the run's current iteration.
LEMMA WriteIsLocal ==
    ASSUME TypeOK, NEW r \in Runs, Write(r),
           NEW q \in Runs, NEW n \in 1..MaxIterations, q # r \/ n # iter[r]
    PROVE  /\ turn'[<<q, n>>] = turn[<<q, n>>]
           /\ saved'[<<q, n>>] = saved[<<q, n>>]
           /\ \A k \in 1..MaxCalls : tool'[<<q, n, k>>] = tool[<<q, n, k>>]
<1>1. turn'[<<q, n>>] = turn[<<q, n>>]
  <2>1. turn' = turn \/ \E v : turn' = [turn EXCEPT ![Cur(r)] = v]
    BY WriteAt
  <2> QED BY <2>1, TurnRow
<1>2. saved'[<<q, n>>] = saved[<<q, n>>]
  <2>1. saved' = saved \/ \E v : saved' = [saved EXCEPT ![Cur(r)] = v]
    BY WriteAt
  <2> QED BY <2>1, SavedRow
<1>3. ASSUME NEW k \in 1..MaxCalls
      PROVE  tool'[<<q, n, k>>] = tool[<<q, n, k>>]
  <2>0. tool \in [Tools -> ToolStatus] /\ <<q, n, k>> \in Tools
    BY DEF TypeOK, Tools
  <2>1. CASE pc[r] = "create_tool"
    <3>1. tool' = [tool EXCEPT ![Slot(r, Len(calls[r]) + 1)] = "pending"]
      BY <2>1, WriteAt
    <3> QED BY <3>1, <2>0 DEF Slot
  <2>2. CASE pc[r] = "interrupt_tool"
    <3>1. tool' = [tool EXCEPT ![Slot(r, sweep[r])] = "interrupted"]
      BY <2>2, WriteAt
    <3> QED BY <3>1, <2>0 DEF Slot
  <2>3. CASE pc[r] \notin {"create_tool", "interrupt_tool"}
    BY <2>3, WriteAt
  <2> QED BY <2>1, <2>2, <2>3
<1> QED BY <1>1, <1>2, <1>3
\* The parts of Same: what a run keeps in memory, its rows, its tasks.
SameLocal(q) ==
    /\ pc'[q] = pc[q] /\ iter'[q] = iter[q] /\ overflowUsed'[q] = overflowUsed[q]
    /\ calls'[q] = calls[q] /\ sweep'[q] = sweep[q] /\ buf'[q] = buf[q]
    /\ outcome'[q] = outcome[q]
SameRows(q) ==
    \A n \in 1..MaxIterations :
       /\ turn'[<<q, n>>] = turn[<<q, n>>]
       /\ saved'[<<q, n>>] = saved[<<q, n>>]
       /\ \A k \in 1..MaxCalls : tool'[<<q, n, k>>] = tool[<<q, n, k>>]
SameTasks(q) ==
    \A n \in 1..MaxIterations : \A k \in 1..MaxCalls : task'[<<q, n, k>>] = task[<<q, n, k>>]

LEMMA WriteSameRows ==
    ASSUME TypeOK, NEW r \in Runs, Write(r) \/ UNCHANGED rows, NEW q \in Runs, q # r
    PROVE  SameRows(q)
  BY WriteIsLocal DEF SameRows

LEMMA OthersLocal ==
    ASSUME TypeOK, NEW r \in Runs, Submit(r) \/ Step(r) \/ Cancel(r) \/ StoreFail(r),
           NEW q \in Runs, q # r
    PROVE  SameLocal(q)
<1> USE DEF SameLocal
<1>0. /\ pc \in [Runs -> Location] /\ iter \in [Runs -> 0..MaxIterations]
      /\ overflowUsed \in [Runs -> BOOLEAN] /\ calls \in [Runs -> Seq(Inputs)]
      /\ sweep \in [Runs -> Nat] /\ buf \in [Runs -> Nat] /\ outcome \in [Runs -> Outcome]
  BY DEF TypeOK
<1>1. CASE Submit(r) \/ AcquireLock(r) \/ CreateUserTurn(r) \/ Compact(r)
  BY <1>0, <1>1 DEF Submit, AcquireLock, CreateUserTurn, Compact, Goto
<1>2. CASE StartLoop(r) \/ GatherDone(r)
  BY <1>0, <1>2 DEF StartLoop, GatherDone, NextIteration, Goto, End
<1>3. CASE OpenAssistantTurn(r) \/ TextDelta(r) \/ ToolUse(r) \/ StreamEnd(r)
  BY <1>0, <1>3 DEF OpenAssistantTurn, TextDelta, ToolUse, StreamEnd, Goto
<1>4. CASE ProviderError(r) \/ GatherRaise(r)
  BY <1>0, <1>4 DEF ProviderError, GatherRaise, Raise, Goto
<1>5. CASE Flush(r) \/ CreateToolRun(r) \/ AddCallPart(r)
  BY <1>0, <1>5 DEF Flush, CreateToolRun, AddCallPart, Goto
<1>6. CASE CompleteTurn(r)
  BY <1>0, <1>6 DEF CompleteTurn, Raise, Goto, End
<1>7. CASE MarkError(r)
  BY <1>0, <1>7 DEF MarkError, ArmOverflowRetry, NextIteration, Goto, End
<1>8. CASE InterruptTurn(r) \/ CheckTool(r) \/ InterruptTool(r)
  BY <1>0, <1>8 DEF InterruptTurn, CheckTool, InterruptTool, SweepFrom, Goto, End
<1>9. CASE Cancel(r) \/ StoreFail(r)
  BY <1>0, <1>9 DEF Cancel, StoreFail, Raise, Goto, End
<1> QED BY <1>1, <1>2, <1>3, <1>4, <1>5, <1>6, <1>7, <1>8, <1>9 DEF Step

LEMMA OthersRows ==
    ASSUME TypeOK, NEW r \in Runs, Submit(r) \/ Step(r) \/ Cancel(r) \/ StoreFail(r),
           NEW q \in Runs, q # r
    PROVE  SameRows(q) /\ SameTasks(q)
<1>0. ASSUME NEW n, NEW k
      PROVE  <<q, n, k>> \notin Called(r)
  BY DEF Called, Slot
<1>1. CASE CompleteTurn(r)
  <2>1. Write(r)
    BY <1>1 DEF CompleteTurn
  <2>2. task' = task \/ task' = [x \in Tools |-> IF x \in Called(r) THEN "start" ELSE task[x]]
    BY <1>1 DEF CompleteTurn, Raise, Goto
  <2>3. SameTasks(q)
    BY <1>0, <2>2 DEF SameTasks, Tools
  <2> QED BY <2>1, <2>3, WriteSameRows
<1>2. CASE Cancel(r) /\ pc[r] = "gather"
  <2>1. CancelChildren(r) /\ UNCHANGED <<turn, saved>>
    BY <1>2 DEF Cancel
  <2>2. PICK S \in SUBSET {x \in Called(r) : Live(x)} :
        /\ tool' = [x \in Tools |-> IF x \in S THEN Recorded(x) ELSE tool[x]]
        /\ task' = [x \in Tools |-> IF x \in Called(r) /\ Live(x) THEN "done" ELSE task[x]]
    BY <2>1 DEF CancelChildren
  <2>3. ASSUME NEW n \in 1..MaxIterations, NEW k \in 1..MaxCalls
        PROVE  task'[<<q, n, k>>] = task[<<q, n, k>>] /\ tool'[<<q, n, k>>] = tool[<<q, n, k>>]
    <3>1. <<q, n, k>> \in Tools /\ <<q, n, k>> \notin Called(r) /\ <<q, n, k>> \notin S
      BY <1>0, <2>2 DEF Tools
    <3> QED BY <2>2, <3>1
  <2> QED BY <2>1, <2>3 DEF SameRows, SameTasks
<1>3. CASE Cancel(r) /\ pc[r] # "gather"
  BY <1>3, WriteSameRows DEF Cancel, SameTasks
<1>4. CASE UNCHANGED rows /\ UNCHANGED task
  BY <1>4, WriteSameRows DEF SameTasks
<1>5. CASE Write(r) /\ UNCHANGED task
  BY <1>5, WriteSameRows DEF SameTasks
<1>6. CASE Submit(r) \/ AcquireLock(r) \/ CreateUserTurn(r) \/ StartLoop(r) \/ Compact(r)
           \/ TextDelta(r) \/ ToolUse(r) \/ StreamEnd(r) \/ ProviderError(r)
  BY <1>4, <1>6 DEF Submit, AcquireLock, CreateUserTurn, StartLoop, Compact, TextDelta,
     ToolUse,
                    StreamEnd, ProviderError
<1>7. CASE AddCallPart(r) \/ GatherDone(r) \/ GatherRaise(r) \/ CheckTool(r) \/ StoreFail(r)
  BY <1>4, <1>7 DEF AddCallPart, GatherDone, GatherRaise, CheckTool, StoreFail
<1>8. CASE OpenAssistantTurn(r) \/ Flush(r) \/ CreateToolRun(r) \/ MarkError(r)
           \/ InterruptTurn(r) \/ InterruptTool(r)
  BY <1>5, <1>8 DEF OpenAssistantTurn, Flush, CreateToolRun, MarkError, InterruptTurn,
                    InterruptTool
<1> QED BY <1>1, <1>2, <1>3, <1>6, <1>7, <1>8 DEF Step

LEMMA OthersSame ==
    ASSUME TypeOK, NEW r \in Runs, Submit(r) \/ Step(r) \/ Cancel(r) \/ StoreFail(r),
           NEW q \in Runs, q # r
    PROVE  Same(q)
<1>1. ASSUME NEW n \in 1..MaxIterations
      PROVE  streamed'[<<q, n>>] = streamed[<<q, n>>]
  <2>1. streamed' = streamed \/ streamed' = [streamed EXCEPT ![Cur(r)] = @ + 1]
    BY DEF Submit, Step, Cancel, StoreFail, AcquireLock, CreateUserTurn, StartLoop, Compact,
           OpenAssistantTurn, TextDelta, ToolUse, StreamEnd, ProviderError, Flush, CreateToolRun,
           AddCallPart, CompleteTurn, GatherDone, GatherRaise, MarkError, InterruptTurn,
           CheckTool, InterruptTool
  <2> QED BY <2>1, StreamedRow
<1> QED BY <1>1, OthersLocal, OthersRows DEF Same, SameLocal, SameRows, SameTasks

LEMMA Environment ==
    ASSUME NEW r \in Runs, Submit(r) \/ Step(r) \/ Cancel(r) \/ StoreFail(r)
    PROVE  up' = up /\ (faults' = faults \/ faults' = faults + 1)
  BY DEF Submit, Step, Cancel, StoreFail, AcquireLock, CreateUserTurn, StartLoop, Compact,
         OpenAssistantTurn, TextDelta, ToolUse, StreamEnd, ProviderError, Flush, CreateToolRun,
         AddCallPart, CompleteTurn, GatherDone, GatherRaise, MarkError, InterruptTurn,
         CheckTool, InterruptTool

LEMMA OthersKeepInv ==
    ASSUME TypeOK, NEW r \in Runs, Submit(r) \/ Step(r) \/ Cancel(r) \/ StoreFail(r),
           NEW q \in Runs, q # r, RunInv(q)
    PROVE  RunInv(q)'
<1>1. faults \in Nat
  BY DEF TypeOK
<1> QED BY <1>1, OthersSame, Environment, Frame
--------------------------------------------------------------------------------
(* A step of a run keeps its own part.  First the steps that move the run       *)
(* without touching its rows.                                                   *)

\* Everything RunInv(r) reads but for the location, the outcome and the environment.
Kept(r) ==
    /\ iter'[r] = iter[r] /\ overflowUsed'[r] = overflowUsed[r]
    /\ calls'[r] = calls[r] /\ sweep'[r] = sweep[r] /\ buf'[r] = buf[r]
    /\ \A n \in 1..MaxIterations :
          /\ turn'[<<r, n>>] = turn[<<r, n>>]
          /\ saved'[<<r, n>>] = saved[<<r, n>>]
          /\ streamed'[<<r, n>>] = streamed[<<r, n>>]
          /\ \A k \in 1..MaxCalls :
                task'[<<r, n, k>>] = task[<<r, n, k>>] /\ tool'[<<r, n, k>>] = tool[<<r, n, k>>]

LEMMA QuietMove ==
    ASSUME NEW r \in Runs, RunInv(r), Kept(r), up' = up, faults' = faults,
           outcome'[r] = outcome[r], pc[r] = "idle" => up,
           pc'[r] = "flush_call" => Len(calls[r]) < MaxCalls,
           <<pc[r], pc'[r]>> \in {<<"idle", "queued">>, <<"queued", "user">>, <<"user", "setup">>,
                                <<"compact", "open">>, <<"stream", "flush_call">>,
                                <<"stream", "flush_complete">>}
    PROVE  RunInv(r)'
<1> USE DEF Kept, Streaming, Active, Body, Handler, Cleanup
<1>1. LoopInv(r)'
  BY DEF RunInv, LoopInv, Holding, Outside
<1>2. ASSUME NEW n \in 1..MaxIterations
      PROVE  TurnRowInv(r, n)' /\ RetryRowInv(r, n)' /\ TextRowInv(r, n)'
  <2>1. TurnRowInv(r, n)'
    BY DEF RunInv, LoopInv, TurnRowInv
  <2>2. RetryRowInv(r, n)'
    BY DEF RunInv, RetryRowInv
  <2>3. TextRowInv(r, n)'
    BY DEF RunInv, TextRowInv
  <2> QED BY <2>1, <2>2, <2>3
<1>3. ASSUME NEW n \in 1..MaxIterations, NEW k \in 1..MaxCalls
      PROVE  TaskRowInv(r, n, k)' /\ ToolRowInv(r, n, k)'
  <2>1. TaskRowInv(r, n, k)'
    BY DEF RunInv, TaskRowInv, Live
  <2>2. ToolRowInv(r, n, k)'
    BY DEF RunInv, ToolRowInv, Unsettled
  <2> QED BY <2>1, <2>2
<1> QED BY <1>1, <1>2, <1>3 DEF RunInv
\* The current iteration's rows after a write.
LEMMA OwnTurn ==
    ASSUME TypeOK, NEW r \in Runs, NEW v, turn' = [turn EXCEPT ![Cur(r)] = v]
    PROVE  \A n \in 1..MaxIterations :
             turn'[<<r, n>>] = IF n = iter[r] THEN v ELSE turn[<<r, n>>]
<1>1. turn \in [Turns -> TurnStatus]
  BY DEF TypeOK
<1>2. \A n \in 1..MaxIterations : <<r, n>> \in Turns /\ (Cur(r) = <<r, n>> <=> n = iter[r])
  BY DEF Turns, Cur
<1> QED BY <1>1, <1>2

LEMMA OwnSaved ==
    ASSUME TypeOK, NEW r \in Runs, saved' = [saved EXCEPT ![Cur(r)] = @ + buf[r]]
    PROVE  \A n \in 1..MaxIterations :
             saved'[<<r, n>>] = IF n = iter[r] THEN saved[<<r, n>>] + buf[r] ELSE saved[<<r, n>>]
<1>1. saved \in [Turns -> Nat]
  BY DEF TypeOK
<1>2. \A n \in 1..MaxIterations : <<r, n>> \in Turns /\ (Cur(r) = <<r, n>> <=> n = iter[r])
  BY DEF Turns, Cur
<1> QED BY <1>1, <1>2

LEMMA OwnStreamed ==
    ASSUME TypeOK, NEW r \in Runs, streamed' = [streamed EXCEPT ![Cur(r)] = @ + 1]
    PROVE  \A n \in 1..MaxIterations :
             streamed'[<<r, n>>] =
                   IF n = iter[r] THEN streamed[<<r, n>>] + 1 ELSE streamed[<<r, n>>]
<1>1. streamed \in [Turns -> Nat]
  BY DEF TypeOK
<1>2. \A n \in 1..MaxIterations : <<r, n>> \in Turns /\ (Cur(r) = <<r, n>> <=> n = iter[r])
  BY DEF Turns, Cur
<1> QED BY <1>1, <1>2

LEMMA OwnCreated ==
    ASSUME TypeOK, NEW r \in Runs,
           tool' = [tool EXCEPT ![Slot(r, Len(calls[r]) + 1)] = "pending"]
    PROVE  \A n \in 1..MaxIterations, k \in 1..MaxCalls :
             tool'[<<r, n, k>>] = IF n = iter[r] /\ k = Len(calls[r]) + 1
                                  THEN "pending" ELSE tool[<<r, n, k>>]
<1>1. tool \in [Tools -> ToolStatus]
  BY DEF TypeOK
<1>2. \A n \in 1..MaxIterations, k \in 1..MaxCalls :
        /\ <<r, n, k>> \in Tools
        /\ Slot(r, Len(calls[r]) + 1) = <<r, n, k>> <=> n = iter[r] /\ k = Len(calls[r]) + 1
  BY DEF Tools, Slot
<1> QED BY <1>1, <1>2

LEMMA OwnInterrupted ==
    ASSUME TypeOK, NEW r \in Runs, tool' = [tool EXCEPT ![Slot(r, sweep[r])] = "interrupted"]
    PROVE  \A n \in 1..MaxIterations, k \in 1..MaxCalls :
             tool'[<<r, n, k>>] = IF n = iter[r] /\ k = sweep[r]
                                  THEN "interrupted" ELSE tool[<<r, n, k>>]
<1>1. tool \in [Tools -> ToolStatus]
  BY DEF TypeOK
<1>2. \A n \in 1..MaxIterations, k \in 1..MaxCalls :
        /\ <<r, n, k>> \in Tools
        /\ Slot(r, sweep[r]) = <<r, n, k>> <=> n = iter[r] /\ k = sweep[r]
  BY DEF Tools, Slot
<1> QED BY <1>1, <1>2


LEMMA SubmitKeeps ==
    ASSUME TypeOK, NEW r \in Runs, RunInv(r), Submit(r)
    PROVE  RunInv(r)'
  BY QuietMove DEF TypeOK, Submit, Goto, Kept

LEMMA CreateUserTurnKeeps ==
    ASSUME TypeOK, NEW r \in Runs, RunInv(r), CreateUserTurn(r)
    PROVE  RunInv(r)'
  BY QuietMove DEF TypeOK, CreateUserTurn, Goto, Kept

LEMMA CompactKeeps ==
    ASSUME TypeOK, NEW r \in Runs, RunInv(r), Compact(r)
    PROVE  RunInv(r)'
  BY QuietMove DEF TypeOK, Compact, Goto, Kept

LEMMA ToolUseKeeps ==
    ASSUME TypeOK, NEW r \in Runs, RunInv(r), ToolUse(r)
    PROVE  RunInv(r)'
  BY QuietMove DEF TypeOK, ToolUse, Goto, Kept

LEMMA StreamEndKeeps ==
    ASSUME TypeOK, NEW r \in Runs, RunInv(r), StreamEnd(r)
    PROVE  RunInv(r)'
  BY QuietMove DEF TypeOK, StreamEnd, Goto, Kept

LEMMA AcquireLockKeeps ==
    ASSUME TypeOK, NEW r \in Runs, RunInv(r), AcquireLock(r)
    PROVE  RunInv(r)'
<1>1. pc[r] = "queued" /\ pc'[r] = "user" /\ Kept(r) /\ UNCHANGED <<outcome, up, faults>>
  BY DEF TypeOK, AcquireLock, Kept
<1> QED BY <1>1, QuietMove

LEMMA OpenAssistantTurnKeeps ==
    ASSUME TypeOK, NEW r \in Runs, RunInv(r), OpenAssistantTurn(r)
    PROVE  RunInv(r)'
<1> USE DEF Streaming, Active, Body, Handler, Cleanup
<1>1. /\ pc[r] = "open" /\ pc'[r] = "stream" /\ iter'[r] = iter[r] /\ outcome'[r] = outcome[r]
      /\ overflowUsed'[r] = overflowUsed[r] /\ calls'[r] = <<>> /\ Len(calls'[r]) = 0
      /\ buf'[r] = 0 /\ sweep'[r] = sweep[r] /\ up' = up /\ faults' = faults /\ task' = task
      /\ streamed' = streamed /\ saved' = saved /\ tool' = tool
  BY WriteAt DEF TypeOK, OpenAssistantTurn, Goto, FlushPoints
<1>2. turn' = [turn EXCEPT ![Cur(r)] = "running"]
  BY WriteAt DEF OpenAssistantTurn
<1>3. \A n \in 1..MaxIterations :
        turn'[<<r, n>>] = IF n = iter[r] THEN "running" ELSE turn[<<r, n>>]
  BY <1>2, OwnTurn
<1>4. iter[r] \in 0..MaxIterations
  BY DEF TypeOK
<1>7. LoopInv(r)'
  BY <1>1, <1>2, <1>3, <1>4, BoundsAssumption DEF RunInv, LoopInv, Holding, Outside
<1>8. ASSUME NEW n \in 1..MaxIterations
      PROVE  TurnRowInv(r, n)' /\ RetryRowInv(r, n)' /\ TextRowInv(r, n)'
  <2>1. TurnRowInv(r, n)'
    BY <1>1, <1>2, <1>3, <1>4 DEF RunInv, LoopInv, TurnRowInv
  <2>2. RetryRowInv(r, n)'
    BY <1>1, <1>2, <1>3, <1>4 DEF RunInv, TurnRowInv, RetryRowInv
  <2>3. TextRowInv(r, n)'
    BY <1>1, <1>2, <1>3, <1>4 DEF RunInv, TurnRowInv, TextRowInv
  <2> QED BY <2>1, <2>2, <2>3
<1>9. ASSUME NEW n \in 1..MaxIterations, NEW k \in 1..MaxCalls
      PROVE  TaskRowInv(r, n, k)' /\ ToolRowInv(r, n, k)'
  <2>1. TaskRowInv(r, n, k)'
    BY <1>1, <1>2, <1>3, <1>4 DEF RunInv, LoopInv, TaskRowInv, Live
  <2>2. ToolRowInv(r, n, k)'
    BY <1>1, <1>2, <1>3, <1>4 DEF RunInv, LoopInv, TurnRowInv, TaskRowInv, ToolRowInv,
       Unsettled, Live
  <2> QED BY <2>1, <2>2
<1> QED BY <1>7, <1>8, <1>9 DEF RunInv

LEMMA TextDeltaKeeps ==
    ASSUME TypeOK, NEW r \in Runs, RunInv(r), TextDelta(r)
    PROVE  RunInv(r)'
<1> USE DEF Streaming, Active, Body, Handler, Cleanup
<1>1. /\ pc[r] = "stream" /\ pc'[r] \in {"flush_text", "stream"} /\ iter'[r] = iter[r]
      /\ outcome'[r] = outcome[r] /\ overflowUsed'[r] = overflowUsed[r] /\ calls'[r] = calls[r]
      /\ buf'[r] = buf[r] + 1 /\ buf[r] \in Nat /\ sweep'[r] = sweep[r] /\ up' = up
      /\ faults' = faults /\ task' = task /\ turn' = turn /\ saved' = saved /\ tool' = tool
  BY DEF TypeOK, TextDelta, Goto
<1>2. streamed' = [streamed EXCEPT ![Cur(r)] = @ + 1]
  BY DEF TextDelta
<1>3. \A n \in 1..MaxIterations :
        streamed'[<<r, n>>] =
                   IF n = iter[r] THEN streamed[<<r, n>>] + 1 ELSE streamed[<<r, n>>]
  BY <1>2, OwnStreamed
<1>4. \A n \in 1..MaxIterations : saved[<<r, n>>] \in Nat /\ streamed[<<r, n>>] \in Nat
  BY DEF TypeOK, Turns
<1>7. LoopInv(r)'
  BY <1>1, <1>2, <1>3, <1>4, BoundsAssumption DEF RunInv, LoopInv, Holding, Outside
<1>8. ASSUME NEW n \in 1..MaxIterations
      PROVE  TurnRowInv(r, n)' /\ RetryRowInv(r, n)' /\ TextRowInv(r, n)'
  <2>1. TurnRowInv(r, n)'
    BY <1>1, <1>2, <1>3, <1>4 DEF RunInv, LoopInv, TurnRowInv
  <2>2. RetryRowInv(r, n)'
    BY <1>1, <1>2, <1>3, <1>4 DEF RunInv, TurnRowInv, RetryRowInv
  <2>3. TextRowInv(r, n)'
    BY <1>1, <1>2, <1>3, <1>4 DEF RunInv, TurnRowInv, TextRowInv
  <2> QED BY <2>1, <2>2, <2>3
<1>9. ASSUME NEW n \in 1..MaxIterations, NEW k \in 1..MaxCalls
      PROVE  TaskRowInv(r, n, k)' /\ ToolRowInv(r, n, k)'
  <2>1. TaskRowInv(r, n, k)'
    BY <1>1, <1>2, <1>3, <1>4 DEF RunInv, LoopInv, TaskRowInv, Live
  <2>2. ToolRowInv(r, n, k)'
    BY <1>1, <1>2, <1>3, <1>4 DEF RunInv, LoopInv, TurnRowInv, TaskRowInv, ToolRowInv,
       Unsettled, Live
  <2> QED BY <2>1, <2>2
<1> QED BY <1>7, <1>8, <1>9 DEF RunInv

LEMMA ProviderErrorKeeps ==
    ASSUME TypeOK, NEW r \in Runs, RunInv(r), ProviderError(r)
    PROVE  RunInv(r)'
<1> USE DEF Streaming, Active, Body, Handler, Cleanup
<1>1. /\ pc[r] = "stream" /\ pc'[r] = "flush_error" /\ iter'[r] = iter[r]
      /\ outcome'[r] \in {"overflow", "raised"} /\ overflowUsed'[r] = overflowUsed[r]
      /\ calls'[r] = calls[r] /\ buf'[r] = buf[r] /\ sweep'[r] = sweep[r] /\ up' = up
      /\ faults' = faults /\ task' = task /\ turn' = turn /\ saved' = saved /\ tool' = tool
      /\ streamed' = streamed
  BY DEF TypeOK, ProviderError, Raise, Goto
<1>2. \A n \in 1..MaxIterations :
        saved[<<r, n>>] \in Nat /\ streamed[<<r, n>>] \in Nat /\ buf[r] \in Nat
  BY DEF TypeOK, Turns
<1>7. LoopInv(r)'
  BY <1>1, <1>2, BoundsAssumption DEF RunInv, LoopInv, Holding, Outside
<1>8. ASSUME NEW n \in 1..MaxIterations
      PROVE  TurnRowInv(r, n)' /\ RetryRowInv(r, n)' /\ TextRowInv(r, n)'
  <2>1. TurnRowInv(r, n)'
    BY <1>1, <1>2 DEF RunInv, LoopInv, TurnRowInv
  <2>2. RetryRowInv(r, n)'
    BY <1>1, <1>2 DEF RunInv, TurnRowInv, RetryRowInv
  <2>3. TextRowInv(r, n)'
    BY <1>1, <1>2 DEF RunInv, TurnRowInv, TextRowInv
  <2> QED BY <2>1, <2>2, <2>3
<1>9. ASSUME NEW n \in 1..MaxIterations, NEW k \in 1..MaxCalls
      PROVE  TaskRowInv(r, n, k)' /\ ToolRowInv(r, n, k)'
  <2>1. TaskRowInv(r, n, k)'
    BY <1>1, <1>2 DEF RunInv, LoopInv, TaskRowInv, Live
  <2>2. ToolRowInv(r, n, k)'
    BY <1>1, <1>2 DEF RunInv, LoopInv, TurnRowInv, TaskRowInv, ToolRowInv, Unsettled, Live
  <2> QED BY <2>1, <2>2
<1> QED BY <1>7, <1>8, <1>9 DEF RunInv

LEMMA FlushKeeps ==
    ASSUME TypeOK, NEW r \in Runs, RunInv(r), Flush(r)
    PROVE  RunInv(r)'
<1> USE DEF Streaming, Active, Body, Handler, Cleanup
<1>1. /\ iter'[r] = iter[r] /\ outcome'[r] = outcome[r] /\ overflowUsed'[r] = overflowUsed[r]
      /\ calls'[r] = calls[r] /\ buf'[r] = 0 /\ buf[r] \in Nat /\ sweep'[r] = sweep[r]
      /\ up' = up /\ faults' = faults /\ task' = task /\ turn' = turn /\ tool' = tool
      /\ streamed' = streamed
  BY WriteAt DEF TypeOK, Flush, Goto, FlushPoints
<1>2. <<pc[r], pc'[r]>> \in {<<"flush_text", "stream">>, <<"flush_call", "create_tool">>,
                             <<"flush_complete", "complete">>, <<"flush_error", "mark_error">>,
                             <<"flush_cleanup", "interrupt_turn">>}
  BY DEF TypeOK, Flush, Goto, FlushPoints, AfterFlush
<1>3. saved' = [saved EXCEPT ![Cur(r)] = @ + buf[r]]
  BY WriteAt DEF Flush
<1>4. \A n \in 1..MaxIterations :
        saved'[<<r, n>>] = IF n = iter[r] THEN saved[<<r, n>>] + buf[r] ELSE saved[<<r, n>>]
  BY <1>3, OwnSaved
<1>5. \A n \in 1..MaxIterations : saved[<<r, n>>] \in Nat /\ streamed[<<r, n>>] \in Nat
  BY DEF TypeOK, Turns
<1>7. LoopInv(r)'
  BY <1>1, <1>2, <1>3, <1>4, <1>5, BoundsAssumption DEF RunInv, LoopInv, Holding, Outside
<1>8. ASSUME NEW n \in 1..MaxIterations
      PROVE  TurnRowInv(r, n)' /\ RetryRowInv(r, n)' /\ TextRowInv(r, n)'
  <2>1. TurnRowInv(r, n)'
    BY <1>1, <1>2, <1>3, <1>4, <1>5 DEF RunInv, LoopInv, TurnRowInv
  <2>2. RetryRowInv(r, n)'
    BY <1>1, <1>2, <1>3, <1>4, <1>5 DEF RunInv, TurnRowInv, RetryRowInv
  <2>3. TextRowInv(r, n)'
    BY <1>1, <1>2, <1>3, <1>4, <1>5 DEF RunInv, TurnRowInv, TextRowInv
  <2> QED BY <2>1, <2>2, <2>3
<1>9. ASSUME NEW n \in 1..MaxIterations, NEW k \in 1..MaxCalls
      PROVE  TaskRowInv(r, n, k)' /\ ToolRowInv(r, n, k)'
  <2>1. TaskRowInv(r, n, k)'
    BY <1>1, <1>2, <1>3, <1>4, <1>5 DEF RunInv, LoopInv, TaskRowInv, Live
  <2>2. ToolRowInv(r, n, k)'
    BY <1>1, <1>2, <1>3, <1>4, <1>5 DEF RunInv, LoopInv, TurnRowInv, TaskRowInv, ToolRowInv,
       Unsettled, Live
  <2> QED BY <2>1, <2>2
<1> QED BY <1>7, <1>8, <1>9 DEF RunInv

LEMMA CreateToolRunKeeps ==
    ASSUME TypeOK, NEW r \in Runs, RunInv(r), CreateToolRun(r)
    PROVE  RunInv(r)'
<1> USE DEF Streaming, Active, Body, Handler, Cleanup
<1>1. /\ pc[r] = "create_tool" /\ pc'[r] = "add_call" /\ iter'[r] = iter[r]
      /\ outcome'[r] = outcome[r] /\ overflowUsed'[r] = overflowUsed[r] /\ calls'[r] = calls[r]
      /\ buf'[r] = buf[r] /\ sweep'[r] = sweep[r] /\ up' = up /\ faults' = faults
      /\ task' = task /\ turn' = turn /\ saved' = saved /\ streamed' = streamed
  BY WriteAt DEF TypeOK, CreateToolRun, Goto, FlushPoints
<1>2. tool' = [tool EXCEPT ![Slot(r, Len(calls[r]) + 1)] = "pending"]
  BY WriteAt DEF CreateToolRun
<1>3. \A n \in 1..MaxIterations, k \in 1..MaxCalls :
        tool'[<<r, n, k>>] = IF n = iter[r] /\ k = Len(calls[r]) + 1
                             THEN "pending" ELSE tool[<<r, n, k>>]
  BY <1>2, OwnCreated
<1>4. Len(calls[r]) \in Nat
  BY DEF TypeOK
<1>7. LoopInv(r)'
  BY <1>1, <1>2, <1>3, <1>4, BoundsAssumption DEF RunInv, LoopInv, Holding, Outside
<1>8. ASSUME NEW n \in 1..MaxIterations
      PROVE  TurnRowInv(r, n)' /\ RetryRowInv(r, n)' /\ TextRowInv(r, n)'
  <2>1. TurnRowInv(r, n)'
    BY <1>1, <1>2, <1>3, <1>4 DEF RunInv, LoopInv, TurnRowInv
  <2>2. RetryRowInv(r, n)'
    BY <1>1, <1>2, <1>3, <1>4 DEF RunInv, TurnRowInv, RetryRowInv
  <2>3. TextRowInv(r, n)'
    BY <1>1, <1>2, <1>3, <1>4 DEF RunInv, TurnRowInv, TextRowInv
  <2> QED BY <2>1, <2>2, <2>3
<1>9. ASSUME NEW n \in 1..MaxIterations, NEW k \in 1..MaxCalls
      PROVE  TaskRowInv(r, n, k)' /\ ToolRowInv(r, n, k)'
  <2>1. TaskRowInv(r, n, k)'
    BY <1>1, <1>2, <1>3, <1>4 DEF RunInv, LoopInv, TaskRowInv, Live
  <2>2. ToolRowInv(r, n, k)'
    BY <1>1, <1>2, <1>3, <1>4 DEF RunInv, LoopInv, TurnRowInv, TaskRowInv, ToolRowInv,
       Unsettled, Live
  <2> QED BY <2>1, <2>2
<1> QED BY <1>7, <1>8, <1>9 DEF RunInv

LEMMA AddCallPartKeeps ==
    ASSUME TypeOK, NEW r \in Runs, RunInv(r), AddCallPart(r)
    PROVE  RunInv(r)'
<1> USE DEF Streaming, Active, Body, Handler, Cleanup
<1>1. /\ pc[r] = "add_call" /\ pc'[r] = "stream" /\ iter'[r] = iter[r]
      /\ outcome'[r] = outcome[r] /\ overflowUsed'[r] = overflowUsed[r]
      /\ buf'[r] = buf[r] /\ sweep'[r] = sweep[r] /\ up' = up /\ faults' = faults
      /\ task' = task /\ turn' = turn /\ saved' = saved /\ streamed' = streamed /\ tool' = tool
  BY DEF TypeOK, AddCallPart, Goto
<1>2. Len(calls'[r]) = Len(calls[r]) + 1 /\ Len(calls[r]) \in Nat
  BY DEF TypeOK, AddCallPart
<1>7. LoopInv(r)'
  BY <1>1, <1>2, BoundsAssumption DEF RunInv, LoopInv, Holding, Outside
<1>8. ASSUME NEW n \in 1..MaxIterations
      PROVE  TurnRowInv(r, n)' /\ RetryRowInv(r, n)' /\ TextRowInv(r, n)'
  <2>1. TurnRowInv(r, n)'
    BY <1>1, <1>2 DEF RunInv, LoopInv, TurnRowInv
  <2>2. RetryRowInv(r, n)'
    BY <1>1, <1>2 DEF RunInv, TurnRowInv, RetryRowInv
  <2>3. TextRowInv(r, n)'
    BY <1>1, <1>2 DEF RunInv, TurnRowInv, TextRowInv
  <2> QED BY <2>1, <2>2, <2>3
<1>9. ASSUME NEW n \in 1..MaxIterations, NEW k \in 1..MaxCalls
      PROVE  TaskRowInv(r, n, k)' /\ ToolRowInv(r, n, k)'
  <2>1. TaskRowInv(r, n, k)'
    BY <1>1, <1>2 DEF RunInv, LoopInv, TaskRowInv, Live
  <2>2. ToolRowInv(r, n, k)'
    BY <1>1, <1>2 DEF RunInv, LoopInv, TurnRowInv, TaskRowInv, ToolRowInv, Unsettled, Live
  <2> QED BY <2>1, <2>2
<1> QED BY <1>7, <1>8, <1>9 DEF RunInv
--------------------------------------------------------------------------------
(* Completion, the gather, the loop and the except branches.                    *)

LEMMA GatherRaiseKeeps ==
    ASSUME TypeOK, NEW r \in Runs, RunInv(r), GatherRaise(r)
    PROVE  RunInv(r)'
<1> USE DEF Streaming, Active, Body, Handler, Cleanup
<1>1. /\ pc[r] = "gather" /\ pc'[r] = "flush_error" /\ iter'[r] = iter[r]
      /\ outcome'[r] = "raised" /\ overflowUsed'[r] = overflowUsed[r]
      /\ calls'[r] = calls[r] /\ buf'[r] = buf[r] /\ sweep'[r] = sweep[r] /\ up' = up
      /\ faults' = faults /\ task' = task /\ turn' = turn /\ saved' = saved /\ tool' = tool
      /\ streamed' = streamed
  BY DEF TypeOK, GatherRaise, Raise, Goto
<1>2. \A n \in 1..MaxIterations :
        saved[<<r, n>>] \in Nat /\ streamed[<<r, n>>] \in Nat /\ buf[r] \in Nat
  BY DEF TypeOK, Turns
<1>3. faults > 0
  <2>1. PICK x \in Called(r) : task[x] = "failed"
    BY <1>1 DEF GatherRaise
  <2>2. PICK k \in 1..Len(calls[r]) : x = <<r, iter[r], k>>
    BY <2>1 DEF Called, Slot
  <2>3. iter[r] \in 1..MaxIterations
    BY <1>1 DEF TypeOK, RunInv, LoopInv
  <2>4. k \in 1..MaxCalls
    BY <2>2, BoundsAssumption DEF TypeOK, RunInv, LoopInv
  <2> QED BY <2>1, <2>2, <2>3, <2>4 DEF RunInv, TaskRowInv
<1>7. LoopInv(r)'
  BY <1>1, <1>2, <1>3, BoundsAssumption DEF RunInv, LoopInv, Holding, Outside
<1>8. ASSUME NEW n \in 1..MaxIterations
      PROVE  TurnRowInv(r, n)' /\ RetryRowInv(r, n)' /\ TextRowInv(r, n)'
  <2>1. TurnRowInv(r, n)'
    BY <1>1, <1>2, <1>3 DEF RunInv, LoopInv, TurnRowInv
  <2>2. RetryRowInv(r, n)'
    BY <1>1, <1>2, <1>3 DEF RunInv, TurnRowInv, RetryRowInv
  <2>3. TextRowInv(r, n)'
    BY <1>1, <1>2, <1>3 DEF RunInv, TurnRowInv, TextRowInv
  <2> QED BY <2>1, <2>2, <2>3
<1>9. ASSUME NEW n \in 1..MaxIterations, NEW k \in 1..MaxCalls
      PROVE  TaskRowInv(r, n, k)' /\ ToolRowInv(r, n, k)'
  <2>1. TaskRowInv(r, n, k)'
    BY <1>1, <1>2, <1>3 DEF RunInv, LoopInv, TaskRowInv, Live
  <2>2. ToolRowInv(r, n, k)'
    BY <1>1, <1>2, <1>3 DEF RunInv, LoopInv, TurnRowInv, TaskRowInv, ToolRowInv, Unsettled,
       Live
  <2> QED BY <2>1, <2>2
<1> QED BY <1>7, <1>8, <1>9 DEF RunInv

\* What a step of a run leaves alone when it moves the run without going on to
\* another iteration: the rows of the other iterations, the calls, the text sent.
Elsewhere(r) ==
    /\ iter'[r] = iter[r] /\ calls'[r] = calls[r] /\ (overflowUsed[r] => overflowUsed'[r])
    /\ up' = up /\ (faults' = faults \/ faults' = faults + 1)
    /\ \A n \in 1..MaxIterations :
          /\ streamed'[<<r, n>>] = streamed[<<r, n>>]
          /\ n # iter[r] =>
                /\ turn'[<<r, n>>] = turn[<<r, n>>] /\ saved'[<<r, n>>] = saved[<<r, n>>]
                /\ \A k \in 1..MaxCalls : /\ task'[<<r, n, k>>] = task[<<r, n, k>>]
                                          /\ tool'[<<r, n, k>>] = tool[<<r, n, k>>]

\* The text of a turn, whatever becomes of the run.
TextKept(r, n) ==
    /\ saved'[<<r, n>>] <= streamed[<<r, n>>]
    /\ turn'[<<r, n>>] = "completed" => saved'[<<r, n>>] = streamed[<<r, n>>]

\* A run ends: what has to hold of its current iteration.
LEMMA EndKeeps ==
    ASSUME TypeOK, NEW r \in Runs, RunInv(r), Elsewhere(r), pc'[r] = "ended",
           task' = task,
           \A n \in 1..MaxIterations, k \in 1..MaxCalls : Live(<<r, n, k>>) => faults' > 0,
           \A n \in 1..MaxIterations : n = iter[r] =>
              /\ TextKept(r, n)
              /\ turn'[<<r, n>>] = "running" => outcome'[r] \in {"dropped", "cut"}
    PROVE  RunInv(r)'
<1> USE DEF Elsewhere, Streaming, Active, Body, Handler, Cleanup
<1>1. iter[r] \in 0..MaxIterations /\ faults \in Nat
  BY DEF TypeOK
<1>2. LoopInv(r)'
  BY DEF RunInv, LoopInv, Holding, Outside
<1>3. ASSUME NEW n \in 1..MaxIterations
      PROVE  TurnRowInv(r, n)' /\ RetryRowInv(r, n)' /\ TextRowInv(r, n)'
  <2>0. TurnRowInv(r, n) /\ TextRowInv(r, n) /\ RetryRowInv(r, n)
    BY DEF RunInv
  <2>1. TurnRowInv(r, n)'
    BY <1>1, <2>0 DEF TurnRowInv
  <2>2. RetryRowInv(r, n)'
    BY <1>1, <2>0 DEF RetryRowInv
  <2>3. TextRowInv(r, n)'
    <3>1. CASE n = iter[r]
      BY <1>1, <3>1 DEF TextRowInv, TextKept
    <3>2. CASE n # iter[r]
      BY <1>1, <2>0, <3>2 DEF TextRowInv
    <3> QED BY <3>1, <3>2
  <2> QED BY <2>1, <2>2, <2>3
<1>4. ASSUME NEW n \in 1..MaxIterations, NEW k \in 1..MaxCalls
      PROVE  TaskRowInv(r, n, k)' /\ ToolRowInv(r, n, k)'
  <2>0. TurnRowInv(r, n) /\ TaskRowInv(r, n, k) /\ ToolRowInv(r, n, k)
    BY DEF RunInv
  <2>1. TaskRowInv(r, n, k)'
    BY <1>1, <2>0 DEF TaskRowInv, Live
  <2>2. ToolRowInv(r, n, k)'
    <3>1. CASE n = iter[r]
      BY <1>1, <3>1 DEF ToolRowInv
    <3>2. CASE n # iter[r]
      <4>1. /\ turn'[<<r, n>>] = turn[<<r, n>>] /\ tool'[<<r, n, k>>] = tool[<<r, n, k>>]
            /\ iter'[r] = iter[r] /\ pc'[r] = "ended" /\ up' = up
        BY <3>2
      <4>2. n > iter[r] \/ n < iter[r]
        BY <1>1, <3>2
      <4>3. n < iter[r] => turn[<<r, n>>] \in {"completed", "error"}
        BY <2>0 DEF TurnRowInv
      <4>4. Unsettled(tool[<<r, n, k>>]) => n < iter[r] /\ turn[<<r, n>>] = "error"
        BY <2>0, <4>2, <4>3 DEF ToolRowInv, Unsettled
      <4> HIDE DEF Elsewhere
      <4> QED BY <2>0, <3>2, <4>1, <4>4 DEF ToolRowInv
    <3> QED BY <3>1, <3>2
  <2> QED BY <2>1, <2>2
<1> QED BY <1>2, <1>3, <1>4 DEF RunInv

\* An exception or a cancellation reaches a handler or the finally block.
LEMMA UnwindKeeps ==
    ASSUME TypeOK, NEW r \in Runs, RunInv(r), Elsewhere(r),
           pc[r] \in Body \cup Handler, pc'[r] \in {"flush_error", "flush_cleanup"},
           pc'[r] = "flush_error" =>
              /\ outcome'[r] \in {"overflow", "loop", "raised"}
              /\ outcome'[r] = "overflow" =>
                    \A k \in 1..MaxCalls : task'[<<r, iter[r], k>>] = "none",
           pc'[r] = "flush_cleanup" =>
              outcome'[r] = "cancelled" \/ (outcome'[r] = "raised" /\ faults' > 0),
           buf'[r] \in Nat,
           \A n \in 1..MaxIterations : n = iter[r] =>
              /\ TextKept(r, n)
              /\ saved'[<<r, n>>] + buf'[r] <= streamed[<<r, n>>]
              /\ turn'[<<r, n>>] = "completed" => buf'[r] = 0
              /\ pc'[r] = "flush_error" => turn'[<<r, n>>] \in {"running", "completed"}
              /\ \A k \in 1..MaxCalls :
                    LET x == <<r, n, k>> IN
                    /\ (task'[x] = task[x] /\ (Live(x) => faults' > 0)) \/ task'[x] = "done"
    PROVE  RunInv(r)'
<1> USE DEF Elsewhere, Streaming, Active, Body, Handler, Cleanup
<1>1. iter[r] \in 1..MaxIterations /\ faults \in Nat /\ up
  BY DEF TypeOK, RunInv, LoopInv, Holding
<1>2. LoopInv(r)'
  BY <1>1 DEF RunInv, LoopInv, Holding, Outside
<1>3. ASSUME NEW n \in 1..MaxIterations
      PROVE  TurnRowInv(r, n)' /\ RetryRowInv(r, n)' /\ TextRowInv(r, n)'
  <2>0. TurnRowInv(r, n) /\ TextRowInv(r, n) /\ RetryRowInv(r, n)
    BY DEF RunInv
  <2>1. TurnRowInv(r, n)'
    BY <1>1, <2>0 DEF TurnRowInv
  <2>2. RetryRowInv(r, n)'
    BY <1>1, <2>0 DEF RetryRowInv
  <2>3. TextRowInv(r, n)'
    <3>1. CASE n = iter[r]
      BY <1>1, <3>1 DEF TextRowInv, TextKept
    <3>2. CASE n # iter[r]
      BY <1>1, <2>0, <3>2 DEF TextRowInv
    <3> QED BY <3>1, <3>2
  <2> QED BY <2>1, <2>2, <2>3
<1>4. ASSUME NEW n \in 1..MaxIterations, NEW k \in 1..MaxCalls
      PROVE  TaskRowInv(r, n, k)' /\ ToolRowInv(r, n, k)'
  <2>0. TaskRowInv(r, n, k) /\ ToolRowInv(r, n, k)
    BY DEF RunInv
  <2>1. TaskRowInv(r, n, k)'
    <3>1. CASE n = iter[r]
      <4>1. /\ iter'[r] = iter[r] /\ calls'[r] = calls[r] /\ up' = up
            /\ faults > 0 => faults' > 0
        BY <1>1
      <4>2. \/ task'[<<r, n, k>>] = task[<<r, n, k>>] /\ (Live(<<r, n, k>>) => faults' > 0)
            \/ task'[<<r, n, k>>] = "done"
        BY <3>1
      <4>3. pc'[r] = "flush_error" /\ outcome'[r] = "overflow" => task'[<<r, n, k>>] = "none"
        BY <3>1
      <4> HIDE DEF Elsewhere
      <4> QED BY <1>1, <2>0, <3>1, <4>1, <4>2, <4>3 DEF TaskRowInv, Live
    <3>2. CASE n # iter[r]
      <4>1. task'[<<r, n, k>>] = task[<<r, n, k>>]
        BY <3>2
      <4>3. iter'[r] = iter[r] /\ up' = up
        OBVIOUS
      <4>2. ~Live(<<r, n, k>>)
        BY <1>1, <2>0, <3>2 DEF TaskRowInv, Live
      <4>4. task[<<r, n, k>>] = "failed" => faults' > 0
        BY <1>1, <2>0 DEF TaskRowInv
      <4> HIDE DEF Elsewhere
      <4> QED BY <1>1, <2>0, <3>2, <4>1, <4>2, <4>3, <4>4 DEF TaskRowInv, Live
    <3> QED BY <3>1, <3>2
  <2>2. ToolRowInv(r, n, k)'
    BY <1>1, <2>0 DEF ToolRowInv
  <2> QED BY <2>1, <2>2
<1> QED BY <1>2, <1>3, <1>4 DEF RunInv

\* What the invariant says of the text, and of the children a run has left behind.
LEMMA RowsTyped ==
    ASSUME TypeOK, NEW r \in Runs
    PROVE  /\ iter[r] \in 0..MaxIterations /\ faults \in Nat /\ buf[r] \in Nat
           /\ Len(calls[r]) \in Nat
           /\ \A n \in 1..MaxIterations :
                saved[<<r, n>>] \in Nat /\ streamed[<<r, n>>] \in Nat
  BY DEF TypeOK, Turns

LEMMA NoChildren ==
    ASSUME TypeOK, NEW r \in Runs, RunInv(r), pc[r] # "gather",
           NEW n \in 1..MaxIterations, NEW k \in 1..MaxCalls
    PROVE  /\ Live(<<r, n, k>>) => faults > 0
           /\ pc[r] \in Streaming => task[<<r, n, k>>] = "none" \/ n # iter[r]
<1>1. TaskRowInv(r, n, k) /\ faults \in Nat
  BY DEF RunInv, TypeOK
<1> QED BY <1>1 DEF TaskRowInv

LEMMA CalledRows ==
    ASSUME TypeOK, NEW r \in Runs
    PROVE  \A n \in 1..MaxIterations, k \in 1..MaxCalls :
             /\ <<r, n, k>> \in Tools
             /\ <<r, n, k>> \in Called(r) <=> n = iter[r] /\ k <= Len(calls[r])
<1>1. Len(calls[r]) \in Nat
  BY DEF TypeOK
<1> QED BY <1>1 DEF Called, Slot, Tools

\* The turn is completed: its text is whole, its children not yet started.
LEMMA CompletedRow ==
    ASSUME TypeOK, NEW r \in Runs, RunInv(r), CompleteTurn(r)
    PROVE  /\ pc[r] = "complete" /\ iter[r] \in 1..MaxIterations /\ buf[r] = 0 /\ buf' = buf
           /\ calls' = calls /\ iter' = iter /\ overflowUsed' = overflowUsed /\ sweep' = sweep
           /\ saved' = saved /\ streamed' = streamed /\ tool' = tool
           /\ up' = up /\ faults' = faults
           /\ saved[<<r, iter[r]>>] = streamed[<<r, iter[r]>>]
           /\ \A n \in 1..MaxIterations :
                turn'[<<r, n>>] = IF n = iter[r] THEN "completed" ELSE turn[<<r, n>>]
           /\ \A k \in 1..MaxCalls :
                /\ task[<<r, iter[r], k>>] = "none"
                /\ k <= Len(calls[r]) => tool[<<r, iter[r], k>>] = "pending"
                /\ k > Len(calls[r]) => tool[<<r, iter[r], k>>] = "none"
<1>1. pc[r] = "complete" /\ pc[r] \in Streaming /\ pc[r] \in Active
  BY DEF CompleteTurn, Streaming, Active, Body
<1>2. iter[r] \in 1..MaxIterations /\ buf[r] \in Nat /\ Len(calls[r]) \in Nat
  BY <1>1, RowsTyped DEF RunInv, LoopInv
<1>3. /\ buf' = buf /\ calls' = calls /\ iter' = iter /\ overflowUsed' = overflowUsed
      /\ sweep' = sweep /\ streamed' = streamed /\ up' = up /\ faults' = faults
  BY DEF CompleteTurn
<1>4. saved' = saved /\ tool' = tool /\ turn' = [turn EXCEPT ![Cur(r)] = "completed"]
  BY <1>1, WriteAt DEF CompleteTurn, FlushPoints
<1>5. TextRowInv(r, iter[r])
  BY <1>2 DEF RunInv
<1>6. buf[r] = 0 /\ saved[<<r, iter[r]>>] = streamed[<<r, iter[r]>>]
  BY <1>1, <1>2, <1>5, RowsTyped DEF TextRowInv
<1>7. \A n \in 1..MaxIterations :
        turn'[<<r, n>>] = IF n = iter[r] THEN "completed" ELSE turn[<<r, n>>]
  BY <1>4, OwnTurn
<1>8. ASSUME NEW k \in 1..MaxCalls
      PROVE  /\ task[<<r, iter[r], k>>] = "none"
             /\ k <= Len(calls[r]) => tool[<<r, iter[r], k>>] = "pending"
             /\ k > Len(calls[r]) => tool[<<r, iter[r], k>>] = "none"
  <2>1. TaskRowInv(r, iter[r], k) /\ ToolRowInv(r, iter[r], k)
    BY <1>2 DEF RunInv
  <2>2. task[<<r, iter[r], k>>] = "none"
    BY <1>1, <2>1 DEF TaskRowInv
  <2>3. k <= Len(calls[r]) => tool[<<r, iter[r], k>>] = "pending"
    BY <1>1, <2>1 DEF ToolRowInv
  <2>4. k > Len(calls[r]) => tool[<<r, iter[r], k>>] = "none"
    BY <1>1, <1>2, <2>1 DEF ToolRowInv
  <2> QED BY <2>2, <2>3, <2>4
<1> QED BY <1>1, <1>2, <1>3, <1>4, <1>6, <1>7, <1>8

LEMMA CompleteThenRaise ==
    ASSUME TypeOK, NEW r \in Runs, RunInv(r), CompleteTurn(r), Raise(r, "loop"), UNCHANGED task
    PROVE  RunInv(r)'
<1>1. pc'[r] = "flush_error" /\ outcome'[r] = "loop"
  BY DEF TypeOK, Raise, Goto
<1>2. Elsewhere(r)
  BY CompletedRow DEF Elsewhere
<1>3. pc[r] \in Body \cup Handler
  BY CompletedRow DEF Body
<1>4. ASSUME NEW n \in 1..MaxIterations, n = iter[r]
      PROVE  /\ TextKept(r, n)
             /\ saved'[<<r, n>>] + buf'[r] <= streamed[<<r, n>>]
             /\ buf'[r] = 0 /\ turn'[<<r, n>>] = "completed"
             /\ \A k \in 1..MaxCalls : task[<<r, n, k>>] = "none"
  BY <1>4, CompletedRow, RowsTyped DEF TextKept
<1>5. ASSUME NEW n \in 1..MaxIterations, n = iter[r], NEW k \in 1..MaxCalls
      PROVE  ~Live(<<r, n, k>>) /\ task'[<<r, n, k>>] = task[<<r, n, k>>]
  BY <1>4, <1>5 DEF Live
<1>6. buf'[r] \in Nat
  <2>1. buf' = buf
    BY CompletedRow
  <2> QED BY <2>1, RowsTyped
<1> QED BY <1>1, <1>2, <1>3, <1>4, <1>5, <1>6, UnwindKeeps

LEMMA CompleteThenEnd ==
    ASSUME TypeOK, NEW r \in Runs, RunInv(r), CompleteTurn(r), calls[r] = <<>>,
           End(r, "turn_finished"), UNCHANGED task
    PROVE  RunInv(r)'
<1>1. pc'[r] = "ended" /\ Len(calls[r]) = 0
  BY DEF TypeOK, End
<1>2. Elsewhere(r)
  BY CompletedRow DEF Elsewhere
<1>3. ASSUME NEW n \in 1..MaxIterations, NEW k \in 1..MaxCalls, Live(<<r, n, k>>)
      PROVE  faults' > 0
  BY <1>3, CompletedRow, NoChildren
<1>4. ASSUME NEW n \in 1..MaxIterations, n = iter[r]
      PROVE  TextKept(r, n) /\ turn'[<<r, n>>] = "completed"
  BY <1>4, CompletedRow, RowsTyped DEF TextKept
<1> QED BY <1>1, <1>2, <1>3, <1>4, EndKeeps

LEMMA CompleteThenGather ==
    ASSUME TypeOK, NEW r \in Runs, RunInv(r), CompleteTurn(r),
           Goto(r, "gather"), UNCHANGED outcome,
           task' = [x \in Tools |-> IF x \in Called(r) THEN "start" ELSE task[x]]
    PROVE  RunInv(r)'
<1> USE DEF Streaming, Active, Body, Handler, Cleanup
<1>1. /\ pc[r] = "complete" /\ pc'[r] = "gather" /\ outcome'[r] = outcome[r]
      /\ iter'[r] = iter[r] /\ calls'[r] = calls[r] /\ overflowUsed'[r] = overflowUsed[r]
      /\ buf'[r] = 0 /\ buf[r] = 0 /\ up' = up /\ faults' = faults
  BY CompletedRow DEF TypeOK, Goto
<1>2. /\ saved' = saved /\ tool' = tool /\ streamed' = streamed
      /\ saved[<<r, iter[r]>>] = streamed[<<r, iter[r]>>]
      /\ \A n \in 1..MaxIterations :
            turn'[<<r, n>>] = IF n = iter[r] THEN "completed" ELSE turn[<<r, n>>]
  BY CompletedRow
<1>3. iter[r] \in 1..MaxIterations /\ Len(calls[r]) \in Nat
  BY CompletedRow, RowsTyped
<1>4. \A n \in 1..MaxIterations, k \in 1..MaxCalls :
        task'[<<r, n, k>>] = IF n = iter[r] /\ k <= Len(calls[r])
                             THEN "start" ELSE task[<<r, n, k>>]
  BY CalledRows
<1>5. LoopInv(r)'
  BY <1>1 DEF RunInv, LoopInv, Holding, Outside
<1>6. ASSUME NEW n \in 1..MaxIterations
      PROVE  TurnRowInv(r, n)' /\ RetryRowInv(r, n)' /\ TextRowInv(r, n)'
  <2>0. TurnRowInv(r, n) /\ RetryRowInv(r, n) /\ TextRowInv(r, n)
    BY DEF RunInv
  <2>1. TurnRowInv(r, n)'
    BY <1>1, <1>2, <2>0 DEF TurnRowInv
  <2>2. RetryRowInv(r, n)'
    BY <1>1, <1>2, <1>3, <2>0 DEF RetryRowInv
  <2>3. TextRowInv(r, n)'
    BY <1>1, <1>2, <1>3, <2>0, RowsTyped DEF TextRowInv
  <2> QED BY <2>1, <2>2, <2>3
<1>7. ASSUME NEW n \in 1..MaxIterations, NEW k \in 1..MaxCalls
      PROVE  TaskRowInv(r, n, k)' /\ ToolRowInv(r, n, k)'
  <2>0. TaskRowInv(r, n, k) /\ ToolRowInv(r, n, k) /\ up
    BY <1>1 DEF RunInv, LoopInv, Holding
  <2>1. CASE n # iter[r]
    <3>1. task'[<<r, n, k>>] = task[<<r, n, k>>] /\ turn'[<<r, n>>] = turn[<<r, n>>]
      BY <1>2, <1>4, <2>1
    <3>2. TaskRowInv(r, n, k)'
      BY <1>1, <2>0, <2>1, <3>1 DEF TaskRowInv, Live
    <3>3. ToolRowInv(r, n, k)'
      BY <1>1, <1>2, <2>0, <2>1, <3>1 DEF ToolRowInv
    <3> QED BY <3>2, <3>3
  <2>2. CASE n = iter[r]
    <3>0. task[<<r, n, k>>] = "none"
      BY <2>2, CompletedRow
    <3>1. task'[<<r, n, k>>] = IF k <= Len(calls[r]) THEN "start" ELSE "none"
      BY <1>4, <2>2, <3>0
    <3>2. k <= Len(calls[r]) => tool'[<<r, n, k>>] = "pending"
      BY <1>2, <2>2, CompletedRow
    <3>3. ~(k <= Len(calls[r])) => tool'[<<r, n, k>>] = "none"
      BY <1>2, <1>3, <2>2, CompletedRow
    <3>4. TaskRowInv(r, n, k)'
      BY <1>1, <1>3, <2>0, <2>2, <3>1 DEF TaskRowInv, Live
    <3>5. ToolRowInv(r, n, k)'
      BY <1>1, <1>3, <2>2, <3>1, <3>2, <3>3 DEF ToolRowInv
    <3> QED BY <3>4, <3>5
  <2> QED BY <2>1, <2>2
<1> QED BY <1>5, <1>6, <1>7 DEF RunInv

LEMMA CompleteTurnKeeps ==
    ASSUME TypeOK, NEW r \in Runs, RunInv(r), CompleteTurn(r)
    PROVE  RunInv(r)'
<1>1. CASE Raise(r, "loop") /\ UNCHANGED task
  BY <1>1, CompleteThenRaise
<1>2. CASE calls[r] = <<>> /\ End(r, "turn_finished") /\ UNCHANGED task
  BY <1>2, CompleteThenEnd
<1>3. CASE /\ Goto(r, "gather") /\ UNCHANGED outcome
           /\ task' = [x \in Tools |-> IF x \in Called(r) THEN "start" ELSE task[x]]
  BY <1>3, CompleteThenGather
<1> QED BY <1>1, <1>2, <1>3 DEF CompleteTurn

\* The loop goes on to its next iteration.
LEMMA AdvanceKeeps ==
    ASSUME TypeOK, NEW r \in Runs, RunInv(r), up, iter[r] < MaxIterations,
           pc'[r] = "compact", iter'[r] = iter[r] + 1, calls'[r] = calls[r],
           up' = up, faults' = faults, task' = task, saved' = saved, tool' = tool,
           streamed' = streamed, overflowUsed[r] => overflowUsed'[r],
           \A n \in 1..MaxIterations : n # iter[r] => turn'[<<r, n>>] = turn[<<r, n>>],
           \A n \in 1..MaxIterations : n = iter[r] =>
              /\ turn'[<<r, n>>] \in {"completed", "error"}
              /\ turn'[<<r, n>>] = "error" => overflowUsed'[r] /\ ~overflowUsed[r]
              /\ TextKept(r, n)
              /\ \A k \in 1..MaxCalls :
                    /\ ~Live(<<r, n, k>>)
                    /\ turn'[<<r, n>>] = "completed" =>
                          tool[<<r, n, k>>] \in {"none", "completed", "error"}
    PROVE  RunInv(r)'
<1> USE DEF Streaming, Active, Body, Handler, Cleanup
<1>1. iter[r] \in 0..MaxIterations
  BY DEF TypeOK
<1>2. LoopInv(r)'
  BY <1>1 DEF RunInv, LoopInv, Holding, Outside
<1>3. ASSUME NEW n \in 1..MaxIterations
      PROVE  TurnRowInv(r, n)' /\ RetryRowInv(r, n)' /\ TextRowInv(r, n)'
  <2>0. TurnRowInv(r, n) /\ RetryRowInv(r, n) /\ TextRowInv(r, n)
    BY DEF RunInv
  <2>1. TurnRowInv(r, n)'
    BY <1>1, <2>0 DEF TurnRowInv
  <2>2. RetryRowInv(r, n)'
    <3> SUFFICES ASSUME n < iter[r] + 1, turn'[<<r, n>>] = "error"
                 PROVE  /\ overflowUsed'[r]
                        /\ \A m \in 1..MaxIterations :
                             (m < iter[r] + 1 /\ turn'[<<r, m>>] = "error") => m = n
      BY DEF RetryRowInv
    <3>1. \A m \in 1..MaxIterations : RetryRowInv(r, m)
      BY DEF RunInv
    <3>2. CASE n = iter[r]
      <4>1. overflowUsed'[r] /\ ~overflowUsed[r]
        BY <3>2
      <4>2. ASSUME NEW m \in 1..MaxIterations, m < iter[r], turn'[<<r, m>>] = "error"
            PROVE  FALSE
        BY <1>1, <3>1, <4>1, <4>2 DEF RetryRowInv
      <4> QED BY <1>1, <3>2, <4>1, <4>2
    <3>3. CASE n < iter[r]
      <4>1. overflowUsed[r] /\ turn[<<r, n>>] = "error"
        BY <1>1, <2>0, <3>3 DEF RetryRowInv
      <4>2. ASSUME NEW m \in 1..MaxIterations, m < iter[r] + 1, turn'[<<r, m>>] = "error"
            PROVE  m = n
        <5>1. m # iter[r]
          BY <4>1, <4>2
        <5>2. m < iter[r] /\ turn[<<r, m>>] = "error"
          BY <1>1, <4>2, <5>1
        <5> QED BY <2>0, <3>3, <4>1, <5>2 DEF RetryRowInv
      <4> QED BY <4>1, <4>2
    <3> QED BY <1>1, <3>2, <3>3
  <2>3. TextRowInv(r, n)'
    BY <1>1, <2>0 DEF TextRowInv, TextKept
  <2> QED BY <2>1, <2>2, <2>3
<1>4. ASSUME NEW n \in 1..MaxIterations, NEW k \in 1..MaxCalls
      PROVE  TaskRowInv(r, n, k)' /\ ToolRowInv(r, n, k)'
  <2>0. TaskRowInv(r, n, k) /\ ToolRowInv(r, n, k)
    BY DEF RunInv
  <2>1. TaskRowInv(r, n, k)'
    <3>1. CASE n = iter[r]
      <4>1. ~Live(<<r, n, k>>)
        BY <3>1
      <4>2. task[<<r, n, k>>] = "failed" => faults > 0
        BY <2>0 DEF TaskRowInv
      <4> QED BY <1>1, <3>1, <4>1, <4>2 DEF TaskRowInv, Live
    <3>2. CASE n # iter[r]
      <4>1. n > iter[r] => task[<<r, n, k>>] = "none"
        BY <2>0 DEF TaskRowInv
      <4>2. ~Live(<<r, n, k>>)
        BY <1>1, <2>0, <3>2 DEF TaskRowInv, Live
      <4>3. task[<<r, n, k>>] = "failed" => faults > 0
        BY <2>0 DEF TaskRowInv
      <4> QED BY <1>1, <3>2, <4>1, <4>2, <4>3 DEF TaskRowInv, Live
    <3> QED BY <3>1, <3>2
  <2>2. ToolRowInv(r, n, k)'
    BY <1>1, <2>0 DEF ToolRowInv, Unsettled
  <2> QED BY <2>1, <2>2
<1> QED BY <1>2, <1>3, <1>4 DEF RunInv

\* The for loop is exhausted: NextIteration with iter[r] = MaxIterations.
LEMMA ExhaustedKeeps ==
    ASSUME TypeOK, NEW r \in Runs, RunInv(r), Elsewhere(r), pc'[r] = "ended",
           iter[r] \in 1..MaxIterations, task' = task, faults' = faults, tool' = tool,
           TextKept(r, iter[r]), turn'[<<r, iter[r]>>] \in {"completed", "error"},
           \A n \in 1..MaxIterations, k \in 1..MaxCalls : Live(<<r, n, k>>) => faults > 0
    PROVE  RunInv(r)'
<1>1. ASSUME NEW n \in 1..MaxIterations, n = iter[r]
      PROVE  TextKept(r, n) /\ turn'[<<r, n>>] # "running"
  BY <1>1
<1> QED BY <1>1, EndKeeps

LEMMA StartLoopKeeps ==
    ASSUME TypeOK, NEW r \in Runs, RunInv(r), StartLoop(r)
    PROVE  RunInv(r)'
<1>1. pc[r] = "setup" /\ iter[r] = 0 /\ up
  BY DEF StartLoop, RunInv, LoopInv, Holding, Outside
<1>2. iter[r] < MaxIterations
  BY <1>1, BoundsAssumption
<1>3. /\ pc'[r] = "compact" /\ iter'[r] = iter[r] + 1 /\ calls'[r] = calls[r]
      /\ up' = up /\ faults' = faults /\ task' = task /\ saved' = saved /\ tool' = tool
      /\ streamed' = streamed /\ overflowUsed' = overflowUsed /\ turn' = turn
  BY <1>1, <1>2 DEF TypeOK, StartLoop, NextIteration, Goto
<1> QED BY <1>1, <1>2, <1>3, AdvanceKeeps

\* All the children of the gather are done: their results are recorded.
LEMMA GatheredRows ==
    ASSUME TypeOK, NEW r \in Runs, RunInv(r), GatherDone(r)
    PROVE  /\ iter[r] \in 1..MaxIterations /\ turn[<<r, iter[r]>>] = "completed" /\ up
           /\ saved[<<r, iter[r]>>] = streamed[<<r, iter[r]>>]
           /\ \A k \in 1..MaxCalls :
                /\ ~Live(<<r, iter[r], k>>)
                /\ tool[<<r, iter[r], k>>] \in {"none", "completed", "error"}
<1>1. pc[r] = "gather" /\ pc[r] \in Active /\ pc[r] \in Holding
  BY DEF GatherDone, Active, Body, Holding
<1>2. iter[r] \in 1..MaxIterations /\ Len(calls[r]) \in Nat /\ up
  BY <1>1, RowsTyped DEF RunInv, LoopInv
<1>3. TurnRowInv(r, iter[r]) /\ TextRowInv(r, iter[r])
  BY <1>2 DEF RunInv
<1>4. turn[<<r, iter[r]>>] = "completed" /\ saved[<<r, iter[r]>>] = streamed[<<r, iter[r]>>]
  BY <1>1, <1>3 DEF TurnRowInv, TextRowInv
<1>5. ASSUME NEW k \in 1..MaxCalls
      PROVE  /\ ~Live(<<r, iter[r], k>>)
             /\ tool[<<r, iter[r], k>>] \in {"none", "completed", "error"}
  <2>1. TaskRowInv(r, iter[r], k) /\ ToolRowInv(r, iter[r], k)
    BY <1>2 DEF RunInv
  <2>2. CASE k <= Len(calls[r])
    <3>1. <<r, iter[r], k>> \in Called(r)
      BY <1>2, <2>2, CalledRows
    <3>2. task[<<r, iter[r], k>>] = "done"
      BY <3>1 DEF GatherDone
    <3> QED BY <1>1, <2>1, <3>2 DEF Live, ToolRowInv
  <2>3. CASE k > Len(calls[r])
    <3>1. task[<<r, iter[r], k>>] = "none"
      BY <1>1, <2>1, <2>3 DEF TaskRowInv
    <3> QED BY <1>1, <2>1, <3>1 DEF Live, ToolRowInv
  <2> QED BY <1>2, <2>2, <2>3
<1> QED BY <1>2, <1>4, <1>5

LEMMA GatherDoneKeeps ==
    ASSUME TypeOK, NEW r \in Runs, RunInv(r), GatherDone(r)
    PROVE  RunInv(r)'
<1>1. /\ calls' = calls /\ up' = up /\ faults' = faults /\ task' = task /\ saved' = saved
      /\ tool' = tool /\ streamed' = streamed /\ overflowUsed' = overflowUsed /\ turn' = turn
      /\ pc[r] = "gather"
  BY DEF GatherDone
<1>2. TextKept(r, iter[r])
  BY <1>1, GatheredRows, RowsTyped DEF TextKept
<1>3. CASE iter[r] < MaxIterations
  <2>1. pc'[r] = "compact" /\ iter'[r] = iter[r] + 1
    BY <1>3 DEF TypeOK, GatherDone, NextIteration, Goto
  <2> QED BY <1>1, <1>2, <1>3, <2>1, GatheredRows, AdvanceKeeps
<1>4. CASE iter[r] = MaxIterations
  <2>1. pc'[r] = "ended" /\ iter' = iter
    BY <1>4 DEF TypeOK, GatherDone, NextIteration, End
  <2>2. Elsewhere(r)
    BY <1>1, <2>1 DEF Elsewhere
  <2>3. ASSUME NEW n \in 1..MaxIterations, NEW k \in 1..MaxCalls, Live(<<r, n, k>>)
        PROVE  faults > 0
    <3>1. n # iter[r]
      BY <2>3, GatheredRows
    <3>2. TaskRowInv(r, n, k)
      BY DEF RunInv
    <3> QED BY <2>3, <3>1, <3>2, RowsTyped DEF TaskRowInv, Live
  <2>4. iter[r] \in 1..MaxIterations /\ turn'[<<r, iter[r]>>] = "completed"
    BY <1>1, GatheredRows
  <2> QED BY <1>1, <1>2, <2>1, <2>2, <2>3, <2>4, ExhaustedKeeps
<1> QED BY <1>3, <1>4 DEF GatherDone, NextIteration

\* The turn is marked error: its text is accounted for.
LEMMA MarkedRow ==
    ASSUME TypeOK, NEW r \in Runs, RunInv(r), MarkError(r)
    PROVE  /\ pc[r] = "mark_error" /\ iter[r] \in 1..MaxIterations /\ up
           /\ calls' = calls /\ saved' = saved /\ streamed' = streamed /\ tool' = tool
           /\ task' = task /\ up' = up /\ faults' = faults
           /\ turn'[<<r, iter[r]>>] = "error" /\ TextKept(r, iter[r])
           /\ \A n \in 1..MaxIterations :
                n # iter[r] => turn'[<<r, n>>] = turn[<<r, n>>]
           /\ outcome[r] = "overflow" => \A k \in 1..MaxCalls : ~Live(<<r, iter[r], k>>)
<1>1. pc[r] = "mark_error" /\ pc[r] \in Active /\ pc[r] \in Holding /\ pc[r] \in Handler
  BY DEF MarkError, Active, Handler, Holding
<1>2. iter[r] \in 1..MaxIterations /\ up
  BY <1>1, RowsTyped DEF RunInv, LoopInv
<1>3. /\ calls' = calls /\ saved' = saved /\ streamed' = streamed /\ tool' = tool
      /\ task' = task /\ up' = up /\ faults' = faults
  BY <1>1, WriteAt DEF MarkError, FlushPoints
<1>4. turn' = [turn EXCEPT ![Cur(r)] = "error"]
  BY <1>1, WriteAt DEF MarkError
<1>5. \A n \in 1..MaxIterations :
        turn'[<<r, n>>] = IF n = iter[r] THEN "error" ELSE turn[<<r, n>>]
  BY <1>4, OwnTurn
<1>6. TextKept(r, iter[r])
  <2>1. TextRowInv(r, iter[r])
    BY <1>2 DEF RunInv
  <2>2. saved[<<r, iter[r]>>] <= streamed[<<r, iter[r]>>]
    BY <2>1 DEF TextRowInv
  <2> QED BY <1>2, <1>3, <1>5, <2>2 DEF TextKept
<1>7. ASSUME outcome[r] = "overflow", NEW k \in 1..MaxCalls
      PROVE  ~Live(<<r, iter[r], k>>)
  <2>1. TaskRowInv(r, iter[r], k)
    BY <1>2 DEF RunInv
  <2> QED BY <1>1, <1>7, <2>1 DEF TaskRowInv, Live
<1> QED BY <1>1, <1>2, <1>3, <1>5, <1>6, <1>7

LEMMA MarkErrorKeeps ==
    ASSUME TypeOK, NEW r \in Runs, RunInv(r), MarkError(r)
    PROVE  RunInv(r)'
<1>1. CASE outcome[r] = "overflow" /\ ~overflowUsed[r] /\ iter[r] < MaxIterations
           /\ ArmOverflowRetry(r) /\ NextIteration(r)
  <2>1. pc'[r] = "compact" /\ iter'[r] = iter[r] + 1 /\ overflowUsed'[r] = TRUE
    BY <1>1 DEF TypeOK, NextIteration, ArmOverflowRetry, Goto
  <2> QED BY <1>1, <2>1, MarkedRow, AdvanceKeeps
<1>2. CASE pc'[r] = "ended" /\ iter' = iter
  <2>1. overflowUsed[r] => overflowUsed'[r]
    BY DEF TypeOK, MarkError, ArmOverflowRetry
  <2>2. Elsewhere(r)
    BY <1>2, <2>1, MarkedRow DEF Elsewhere
  <2>3. \A n \in 1..MaxIterations, k \in 1..MaxCalls : Live(<<r, n, k>>) => faults > 0
    BY MarkedRow, NoChildren
  <2> QED BY <1>2, <2>2, <2>3, MarkedRow, ExhaustedKeeps
<1> QED BY <1>1, <1>2, RowsTyped, MarkedRow DEF TypeOK, MarkError, NextIteration, End
--------------------------------------------------------------------------------
(* The finally block.                                                           *)

LEMMA SweepKeeps ==
    ASSUME TypeOK, NEW r \in Runs, RunInv(r), Elsewhere(r),
           pc[r] \in {"interrupt_turn", "check_tool", "interrupt_tool"},
           pc'[r] \in {"check_tool", "interrupt_tool"},
           faults' = faults, buf'[r] = buf[r], outcome'[r] = outcome[r],
           task' = task, saved' = saved,
           turn'[<<r, iter[r]>>] # "running",
           turn'[<<r, iter[r]>>] = "completed" => turn[<<r, iter[r]>>] = "completed",
           pc'[r] = "interrupt_tool" =>
              \A k \in 1..MaxCalls : k = sweep'[r] => Unsettled(tool'[<<r, iter[r], k>>])
    PROVE  RunInv(r)'
<1> USE DEF Elsewhere, Streaming, Active, Body, Handler, Cleanup
<1>1. iter[r] \in 1..MaxIterations /\ faults \in Nat /\ up
  BY RowsTyped DEF RunInv, LoopInv, Holding
<1>2. LoopInv(r)'
  BY DEF RunInv, LoopInv, Holding, Outside
<1>3. ASSUME NEW n \in 1..MaxIterations
      PROVE  TurnRowInv(r, n)' /\ RetryRowInv(r, n)' /\ TextRowInv(r, n)'
  <2>0. TurnRowInv(r, n) /\ TextRowInv(r, n) /\ RetryRowInv(r, n)
    BY DEF RunInv
  <2>1. TurnRowInv(r, n)'
    BY <1>1, <2>0 DEF TurnRowInv
  <2>2. RetryRowInv(r, n)'
    BY <1>1, <2>0 DEF RetryRowInv
  <2>3. TextRowInv(r, n)'
    BY <1>1, <2>0 DEF TextRowInv
  <2> QED BY <2>1, <2>2, <2>3
<1>4. ASSUME NEW n \in 1..MaxIterations, NEW k \in 1..MaxCalls
      PROVE  TaskRowInv(r, n, k)' /\ ToolRowInv(r, n, k)'
  <2>0. TaskRowInv(r, n, k) /\ ToolRowInv(r, n, k)
    BY DEF RunInv
  <2>1. TaskRowInv(r, n, k)'
    BY <1>1, <2>0 DEF TaskRowInv, Live
  <2>2. ToolRowInv(r, n, k)'
    BY <1>1, <2>0 DEF ToolRowInv
  <2> QED BY <2>1, <2>2
<1> QED BY <1>2, <1>3, <1>4 DEF RunInv

\* The sweep is over.
LEMMA SweptKeeps ==
    ASSUME TypeOK, NEW r \in Runs, RunInv(r), Elsewhere(r),
           pc[r] \in {"interrupt_turn", "check_tool", "interrupt_tool"}, pc'[r] = "ended",
           faults' = faults, outcome'[r] = outcome[r], task' = task, saved' = saved,
           turn'[<<r, iter[r]>>] # "running",
           turn'[<<r, iter[r]>>] = "completed" => turn[<<r, iter[r]>>] = "completed"
    PROVE  RunInv(r)'
<1>2. \A n \in 1..MaxIterations, k \in 1..MaxCalls : Live(<<r, n, k>>) => faults' > 0
  BY NoChildren
<1>3. ASSUME NEW n \in 1..MaxIterations, n = iter[r]
      PROVE  TextKept(r, n)
  <2>1. TextRowInv(r, n)
    BY DEF RunInv
  <2> QED BY <1>3, <2>1 DEF TextRowInv, TextKept
<1> QED BY <1>2, <1>3, EndKeeps

LEMMA InterruptTurnKeeps ==
    ASSUME TypeOK, NEW r \in Runs, RunInv(r), InterruptTurn(r)
    PROVE  RunInv(r)'
<1>1. /\ pc[r] = "interrupt_turn" /\ iter' = iter /\ overflowUsed' = overflowUsed
      /\ calls' = calls /\ buf' = buf /\ task' = task /\ streamed' = streamed
      /\ up' = up /\ faults' = faults /\ saved' = saved /\ tool' = tool
  BY WriteAt DEF InterruptTurn, FlushPoints
<1>2. turn' = [turn EXCEPT ![Cur(r)] = Interrupted(turn[Cur(r)])]
  BY <1>1, WriteAt DEF InterruptTurn
<1>3. \A n \in 1..MaxIterations :
        turn'[<<r, n>>] = IF n = iter[r] THEN Interrupted(turn[Cur(r)]) ELSE turn[<<r, n>>]
  BY <1>2, OwnTurn
<1>4. iter[r] \in 1..MaxIterations
  BY <1>1, RowsTyped DEF RunInv, LoopInv, Active, Cleanup
<1>5. turn'[<<r, iter[r]>>] = Interrupted(turn[<<r, iter[r]>>])
  BY <1>3, <1>4 DEF Cur
<1>6. /\ turn'[<<r, iter[r]>>] # "running"
      /\ turn'[<<r, iter[r]>>] = "completed" => turn[<<r, iter[r]>>] = "completed"
  BY <1>5 DEF Interrupted
<1>7. Elsewhere(r)
  BY <1>1, <1>3 DEF Elsewhere
<1>8. CASE pc'[r] = "check_tool" /\ outcome' = outcome
  BY <1>1, <1>6, <1>7, <1>8, SweepKeeps
<1>9. CASE pc'[r] = "ended" /\ outcome'[r] = outcome[r]
  BY <1>1, <1>6, <1>7, <1>9, SweptKeeps
<1> QED BY <1>8, <1>9 DEF TypeOK, InterruptTurn, SweepFrom, Goto, End

\* Where the sweep looks for a tool run to interrupt, the turn is not running.
LEMMA SweptTurn ==
    ASSUME TypeOK, NEW r \in Runs, RunInv(r), pc[r] \in {"check_tool", "interrupt_tool"}
    PROVE  iter[r] \in 1..MaxIterations /\ turn[<<r, iter[r]>>] # "running"
<1>1. iter[r] \in 1..MaxIterations
  BY RowsTyped DEF RunInv, LoopInv, Active, Cleanup
<1>2. TurnRowInv(r, iter[r])
  BY <1>1 DEF RunInv
<1> QED BY <1>1, <1>2 DEF TurnRowInv

LEMMA CheckToolKeeps ==
    ASSUME TypeOK, NEW r \in Runs, RunInv(r), CheckTool(r)
    PROVE  RunInv(r)'
<1>1. /\ pc[r] = "check_tool" /\ iter' = iter /\ overflowUsed' = overflowUsed
      /\ calls' = calls /\ buf' = buf /\ task' = task /\ streamed' = streamed
      /\ up' = up /\ faults' = faults /\ saved' = saved /\ tool' = tool /\ turn' = turn
  BY DEF CheckTool
<1>2. Elsewhere(r)
  BY <1>1 DEF Elsewhere
<1>3. turn'[<<r, iter[r]>>] # "running"
  BY <1>1, SweptTurn
<1>4. CASE pc'[r] = "check_tool" /\ outcome' = outcome
  BY <1>1, <1>2, <1>3, <1>4, SweepKeeps
<1>5. CASE pc'[r] = "ended" /\ outcome'[r] = outcome[r]
  BY <1>1, <1>2, <1>3, <1>5, SweptKeeps
<1>6. CASE /\ Unsettled(tool[Slot(r, sweep[r])]) /\ pc'[r] = "interrupt_tool"
           /\ outcome' = outcome /\ sweep' = sweep
  <2>1. \A k \in 1..MaxCalls : k = sweep'[r] => Unsettled(tool'[<<r, iter[r], k>>])
    BY <1>1, <1>6 DEF Slot
  <2> QED BY <1>1, <1>2, <1>3, <1>6, <2>1, SweepKeeps
<1> QED BY <1>4, <1>5, <1>6 DEF TypeOK, CheckTool, SweepFrom, Goto, End

LEMMA InterruptToolKeeps ==
    ASSUME TypeOK, NEW r \in Runs, RunInv(r), InterruptTool(r)
    PROVE  RunInv(r)'
<1>1. /\ pc[r] = "interrupt_tool" /\ iter' = iter /\ overflowUsed' = overflowUsed
      /\ calls' = calls /\ buf' = buf /\ task' = task /\ streamed' = streamed
      /\ up' = up /\ faults' = faults /\ saved' = saved /\ turn' = turn
  BY WriteAt DEF InterruptTool, FlushPoints
<1>2. tool' = [tool EXCEPT ![Slot(r, sweep[r])] = "interrupted"]
  BY <1>1, WriteAt DEF InterruptTool
<1>3. \A n \in 1..MaxIterations, k \in 1..MaxCalls :
        n # iter[r] => tool'[<<r, n, k>>] = tool[<<r, n, k>>]
  <2>1. \A n \in 1..MaxIterations, k \in 1..MaxCalls :
          tool'[<<r, n, k>>] = IF n = iter[r] /\ k = sweep[r]
                               THEN "interrupted" ELSE tool[<<r, n, k>>]
    BY <1>2, OwnInterrupted
  <2> QED BY <2>1
<1>4. Elsewhere(r)
  BY <1>1, <1>3 DEF Elsewhere
<1>5. turn'[<<r, iter[r]>>] # "running"
  BY <1>1, SweptTurn
<1>6. CASE pc'[r] = "check_tool" /\ outcome' = outcome
  BY <1>1, <1>4, <1>5, <1>6, SweepKeeps
<1>7. CASE pc'[r] = "ended" /\ outcome'[r] = outcome[r]
  BY <1>1, <1>4, <1>5, <1>7, SweptKeeps
<1> QED BY <1>6, <1>7 DEF TypeOK, InterruptTool, SweepFrom, Goto, End
--------------------------------------------------------------------------------
(* Cancellations and failing store calls.                                       *)

\* Wherever a run is stopped, and whether or not the transaction it awaited goes
\* through, the text of its turn is accounted for.
LEMMA StoppedText ==
    ASSUME TypeOK, NEW r \in Runs, RunInv(r), Write(r) \/ UNCHANGED rows,
           iter[r] \in 1..MaxIterations,
           buf'[r] = IF pc[r] \in FlushPoints THEN 0 ELSE buf[r],
           pc[r] \in {"compact", "open"} \cup Active
    PROVE  /\ TextKept(r, iter[r])
           /\ pc[r] \in Active =>
                 /\ saved'[<<r, iter[r]>>] + buf'[r] <= streamed[<<r, iter[r]>>]
                 /\ turn'[<<r, iter[r]>>] = "completed" => buf'[r] = 0
<1> DEFINE t == <<r, iter[r]>>
<1> USE DEF TextKept
<1>1. TextRowInv(r, iter[r]) /\ TurnRowInv(r, iter[r])
  BY DEF RunInv
<1>2. saved[t] \in Nat /\ streamed[t] \in Nat /\ buf[r] \in Nat
  BY RowsTyped
<1>3. /\ pc[r] \in Active => saved[t] + buf[r] <= streamed[t]
      /\ (pc[r] \in Active /\ turn[t] = "completed") => buf[r] = 0
      /\ saved[t] <= streamed[t] /\ (turn[t] = "completed" => saved[t] = streamed[t])
  BY <1>1 DEF TextRowInv
<1>4. CASE turn' = turn /\ saved' = saved
  BY <1>2, <1>3, <1>4
<1>5. CASE Write(r) /\ pc[r] = "open"
  <2>1. turn'[t] = "running" /\ saved' = saved
    BY <1>5, WriteAt, OwnTurn DEF FlushPoints
  <2> QED BY <1>2, <1>3, <1>5, <2>1 DEF Active, Body, Handler, Cleanup
<1>6. CASE Write(r) /\ pc[r] \in FlushPoints
  <2>1. turn' = turn
    BY <1>6, WriteAt DEF FlushPoints
  <2>2. saved' = [saved EXCEPT ![Cur(r)] = @ + buf[r]]
    BY <1>6, WriteAt
  <2>3. saved'[t] = saved[t] + buf[r]
    BY <2>2, OwnSaved
  <2>4. pc[r] \in Active
    BY <1>6 DEF FlushPoints, Active, Body, Handler, Cleanup
  <2> QED BY <1>2, <1>3, <1>6, <2>1, <2>3, <2>4
<1>7. CASE Write(r) /\ pc[r] = "complete"
  <2>1. saved' = saved /\ pc[r] \in Streaming /\ buf'[r] = buf[r]
    BY <1>7, WriteAt DEF FlushPoints, Streaming, Body
  <2>2. buf[r] = 0 /\ saved[t] + buf[r] = streamed[t]
    BY <1>1, <1>7, <2>1 DEF TextRowInv
  <2> QED BY <1>2, <2>1, <2>2
<1>8. CASE Write(r) /\ pc[r] = "mark_error"
  <2>1. saved' = saved /\ turn' = [turn EXCEPT ![Cur(r)] = "error"]
    BY <1>8, WriteAt DEF FlushPoints
  <2>2. \A n \in 1..MaxIterations :
          turn'[<<r, n>>] = IF n = iter[r] THEN "error" ELSE turn[<<r, n>>]
    BY <2>1, OwnTurn
  <2> QED BY <1>2, <1>3, <1>8, <2>1, <2>2 DEF FlushPoints
<1>9. CASE Write(r) /\ pc[r] = "interrupt_turn"
  <2>1. saved' = saved /\ turn' = [turn EXCEPT ![Cur(r)] = Interrupted(turn[Cur(r)])]
    BY <1>9, WriteAt DEF FlushPoints
  <2>2. \A n \in 1..MaxIterations :
          turn'[<<r, n>>] = IF n = iter[r] THEN Interrupted(turn[Cur(r)]) ELSE turn[<<r, n>>]
    BY <2>1, OwnTurn
  <2>3. turn'[t] = "completed" => turn[t] = "completed"
    BY <2>2 DEF Interrupted, Cur
  <2> QED BY <1>2, <1>3, <1>9, <2>1, <2>3 DEF FlushPoints
<1>10. CASE Write(r) /\ pc[r] \notin {"open", "complete", "mark_error", "interrupt_turn"}
            /\ pc[r] \notin FlushPoints
  BY <1>4, <1>10, WriteAt
<1> QED BY <1>4, <1>5, <1>6, <1>7, <1>8, <1>9, <1>10

LEMMA StoppedElsewhere ==
    ASSUME TypeOK, NEW r \in Runs, Write(r) \/ UNCHANGED rows, UNCHANGED task,
           iter' = iter, overflowUsed' = overflowUsed, calls' = calls, streamed' = streamed,
           up' = up, faults' = faults \/ faults' = faults + 1
    PROVE  Elsewhere(r)
<1>1. ASSUME NEW n \in 1..MaxIterations, n # iter[r]
      PROVE  /\ turn'[<<r, n>>] = turn[<<r, n>>] /\ saved'[<<r, n>>] = saved[<<r, n>>]
             /\ \A k \in 1..MaxCalls : tool'[<<r, n, k>>] = tool[<<r, n, k>>]
  BY <1>1, WriteIsLocal
<1> QED BY <1>1 DEF Elsewhere

\* A run stopped outside its try block or in the finally block just ends.
LEMMA StopEnds ==
    ASSUME TypeOK, NEW r \in Runs, RunInv(r), Elsewhere(r), Write(r) \/ UNCHANGED rows,
           pc[r] \in {"queued"} \cup Outside \cup Cleanup, pc'[r] = "ended", task' = task,
           buf'[r] = IF pc[r] \in FlushPoints THEN 0 ELSE buf[r],
           outcome'[r] \in {"dropped", "cut"} \/ (UNCHANGED rows /\ pc[r] \in Outside)
    PROVE  RunInv(r)'
<1>1. faults \in Nat /\ (faults' = faults \/ faults' = faults + 1)
  BY DEF TypeOK, Elsewhere
<1>2. ASSUME NEW n \in 1..MaxIterations, NEW k \in 1..MaxCalls, Live(<<r, n, k>>)
      PROVE  faults' > 0
  <2>1. pc[r] # "gather"
    BY DEF Outside, Cleanup
  <2>2. faults > 0
    BY <1>2, <2>1, NoChildren DEF Live
  <2> QED BY <1>1, <2>2
<1>3. ASSUME NEW n \in 1..MaxIterations, n = iter[r]
      PROVE  TextKept(r, n)
  <2>1. pc[r] \in {"compact", "open"} \cup Active
    BY <1>3 DEF RunInv, LoopInv, Outside, Active
  <2> QED BY <1>3, <2>1, StoppedText
<1>4. ASSUME NEW n \in 1..MaxIterations, n = iter[r], turn'[<<r, n>>] = "running"
      PROVE  outcome'[r] \in {"dropped", "cut"}
  <2>1. ASSUME UNCHANGED rows, pc[r] \in Outside
        PROVE  FALSE
    <3>1. TurnRowInv(r, n) /\ LoopInv(r)
      BY DEF RunInv
    <3> QED BY <1>4, <2>1, <3>1 DEF TurnRowInv, LoopInv, Outside, rows
  <2> QED BY <2>1
<1> QED BY <1>2, <1>3, <1>4, EndKeeps

\* A run stopped inside its try block or in a handler unwinds.
LEMMA StopUnwinds ==
    ASSUME TypeOK, NEW r \in Runs, RunInv(r), Elsewhere(r), Write(r) \/ UNCHANGED rows,
           pc[r] \in (Body \ {"gather"}) \cup Handler, task' = task,
           buf'[r] = IF pc[r] \in FlushPoints THEN 0 ELSE buf[r],
           \/ /\ pc'[r] = "flush_error" /\ UNCHANGED rows
              /\ outcome'[r] = "raised" /\ pc[r] \in Body \ {"gather"}
           \/ /\ pc'[r] = "flush_cleanup"
              /\ outcome'[r] = "cancelled" \/ (outcome'[r] = "raised" /\ faults' > 0)
    PROVE  RunInv(r)'
<1>1. pc[r] \in Active /\ iter[r] \in 1..MaxIterations
  BY RowsTyped DEF RunInv, LoopInv, Active
<1>2. faults \in Nat /\ (faults' = faults \/ faults' = faults + 1)
  BY DEF TypeOK, Elsewhere
<1>3. buf'[r] \in Nat
  BY RowsTyped
<1>4. ASSUME NEW k \in 1..MaxCalls, Live(<<r, iter[r], k>>)
      PROVE  faults' > 0
  <2>1. pc[r] # "gather"
    BY DEF Body, Handler
  <2>2. faults > 0
    BY <1>1, <1>4, <2>1, NoChildren DEF Live
  <2> QED BY <1>2, <2>2
<1>5. /\ TextKept(r, iter[r])
      /\ saved'[<<r, iter[r]>>] + buf'[r] <= streamed[<<r, iter[r]>>]
      /\ turn'[<<r, iter[r]>>] = "completed" => buf'[r] = 0
  BY <1>1, StoppedText
<1>6. pc'[r] = "flush_error" => turn'[<<r, iter[r]>>] = "running"
  <2>1. TurnRowInv(r, iter[r])
    BY <1>1 DEF RunInv
  <2> QED BY <2>1 DEF TurnRowInv, Streaming
<1>7. pc[r] \in Body \cup Handler /\ pc'[r] \in {"flush_error", "flush_cleanup"}
  OBVIOUS
<1> QED BY <1>3, <1>4, <1>5, <1>6, <1>7, UnwindKeeps

LEMMA StoreFailKeeps ==
    ASSUME TypeOK, NEW r \in Runs, RunInv(r), StoreFail(r)
    PROVE  RunInv(r)'
<1>1. /\ faults' = faults + 1 /\ faults \in Nat
      /\ buf'[r] = (IF pc[r] \in FlushPoints THEN 0 ELSE buf[r])
      /\ iter' = iter /\ overflowUsed' = overflowUsed /\ calls' = calls /\ streamed' = streamed
      /\ up' = up /\ UNCHANGED task /\ UNCHANGED rows
  BY DEF TypeOK, StoreFail
<1>2. Elsewhere(r)
  BY <1>1, StoppedElsewhere
<1>3. CASE pc[r] \in Body \ {"gather"} /\ pc'[r] = "flush_error" /\ outcome'[r] = "raised"
  BY <1>1, <1>2, <1>3, StopUnwinds
<1>4. CASE pc[r] \in Handler /\ pc'[r] = "flush_cleanup" /\ outcome'[r] = "raised"
  BY <1>1, <1>2, <1>4, StopUnwinds
<1>5. CASE /\ pc[r] \in Outside \cup Cleanup /\ pc'[r] = "ended"
           /\ pc[r] \in Outside \/ outcome'[r] = "cut"
  BY <1>1, <1>2, <1>5, StopEnds
<1> QED BY <1>3, <1>4, <1>5 DEF TypeOK, StoreFail, Raise, Goto, End

\* A cancelled gather: its children are done, whatever they last recorded.
LEMMA CancelGatherKeeps ==
    ASSUME TypeOK, NEW r \in Runs, RunInv(r), Cancel(r), pc[r] = "gather"
    PROVE  RunInv(r)'
<1>1. /\ turn' = turn /\ saved' = saved /\ iter' = iter /\ overflowUsed' = overflowUsed
      /\ calls' = calls /\ streamed' = streamed /\ up' = up /\ faults' = faults
  BY DEF Cancel
<1>2. pc'[r] = "flush_cleanup" /\ outcome'[r] = "cancelled" /\ buf'[r] = buf[r]
  BY DEF TypeOK, Cancel, Goto, Body, Handler, Outside, Cleanup, FlushPoints
<1>3. PICK S \in SUBSET {x \in Called(r) : Live(x)} :
        /\ tool' = [x \in Tools |-> IF x \in S THEN Recorded(x) ELSE tool[x]]
        /\ task' = [x \in Tools |-> IF x \in Called(r) /\ Live(x) THEN "done" ELSE task[x]]
  BY DEF Cancel, CancelChildren
<1>4. ASSUME NEW n \in 1..MaxIterations, n # iter[r], NEW k \in 1..MaxCalls
      PROVE  task'[<<r, n, k>>] = task[<<r, n, k>>] /\ tool'[<<r, n, k>>] = tool[<<r, n, k>>]
  <2>1. <<r, n, k>> \in Tools /\ <<r, n, k>> \notin Called(r)
    BY <1>4, CalledRows
  <2>2. <<r, n, k>> \notin S
    BY <1>3, <2>1
  <2> QED BY <1>3, <2>1, <2>2
<1>5. Elsewhere(r)
  BY <1>1, <1>4 DEF Elsewhere
<1>6. pc[r] \in Active /\ iter[r] \in 1..MaxIterations /\ buf[r] \in Nat
  BY RowsTyped DEF RunInv, LoopInv, Active, Body
<1>7. ASSUME NEW k \in 1..MaxCalls
      PROVE  \/ task'[<<r, iter[r], k>>] = "done"
             \/ task'[<<r, iter[r], k>>] = task[<<r, iter[r], k>>] /\ ~Live(<<r, iter[r], k>>)
  <2>1. TaskRowInv(r, iter[r], k) /\ <<r, iter[r], k>> \in Tools
    BY <1>6, CalledRows DEF RunInv
  <2>2. Live(<<r, iter[r], k>>) => <<r, iter[r], k>> \in Called(r)
    BY <1>6, <2>1, CalledRows DEF TaskRowInv
  <2> QED BY <1>3, <2>1, <2>2
<1>8. /\ TextKept(r, iter[r])
      /\ saved'[<<r, iter[r]>>] + buf'[r] <= streamed[<<r, iter[r]>>]
      /\ turn'[<<r, iter[r]>>] = "completed" => buf'[r] = 0
  <2>1. TextRowInv(r, iter[r])
    BY <1>6 DEF RunInv
  <2> QED BY <1>1, <1>2, <1>6, <2>1 DEF TextRowInv, TextKept
<1>9. pc[r] \in Body \cup Handler /\ buf'[r] \in Nat
  BY <1>2, <1>6 DEF Body
<1> QED BY <1>2, <1>5, <1>7, <1>8, <1>9, UnwindKeeps

LEMMA CancelKeeps ==
    ASSUME TypeOK, NEW r \in Runs, RunInv(r), Cancel(r)
    PROVE  RunInv(r)'
<1>1. CASE pc[r] = "gather"
  BY <1>1, CancelGatherKeeps
<1>2. CASE pc[r] # "gather"
  <2>1. /\ Write(r) \/ UNCHANGED rows
        /\ UNCHANGED task
        /\ buf'[r] = (IF pc[r] \in FlushPoints THEN 0 ELSE buf[r])
        /\ iter' = iter /\ overflowUsed' = overflowUsed /\ calls' = calls
        /\ streamed' = streamed /\ up' = up /\ faults' = faults
    BY <1>2 DEF TypeOK, Cancel
  <2>2. Elsewhere(r)
    BY <2>1, StoppedElsewhere
  <2>3. CASE /\ pc[r] \in (Body \ {"gather"}) \cup Handler
             /\ pc'[r] = "flush_cleanup" /\ outcome'[r] = "cancelled"
    BY <2>1, <2>2, <2>3, StopUnwinds
  <2>4. CASE /\ pc[r] \in {"queued"} \cup Outside \cup Cleanup
             /\ pc'[r] = "ended" /\ outcome'[r] \in {"dropped", "cut"}
    BY <2>1, <2>2, <2>4, StopEnds
  <2> QED BY <1>2, <2>3, <2>4 DEF TypeOK, Cancel, Goto, End
<1> QED BY <1>1, <1>2
--------------------------------------------------------------------------------
(* The gather children, process death and restart.                              *)

\* A step of one child: what it may record, given where it stands.
LEMMA TaskStepKeeps ==
    ASSUME TypeOK, NEW q \in Runs, RunInv(q), NEW x \in Tools, TaskStep(x)
    PROVE  RunInv(q)'
<1> USE DEF Streaming, Active, Body, Handler, Cleanup
<1>1. /\ pc' = pc /\ iter' = iter /\ overflowUsed' = overflowUsed /\ calls' = calls
      /\ sweep' = sweep /\ buf' = buf /\ outcome' = outcome /\ turn' = turn /\ saved' = saved
      /\ streamed' = streamed /\ up' = up /\ faults' = faults
  BY DEF TaskStep
<1>2. Live(x) /\ tool' = [tool EXCEPT ![x] = Recorded(x)]
  BY DEF TaskStep
<1>3. PICK p \in TaskNext(x) : task' = [task EXCEPT ![x] = p]
  BY DEF TaskStep
<1>4. ASSUME NEW n \in 1..MaxIterations, NEW k \in 1..MaxCalls
      PROVE  /\ tool'[<<q, n, k>>] = IF x = <<q, n, k>> THEN Recorded(x) ELSE tool[<<q, n, k>>]
             /\ task'[<<q, n, k>>] = IF x = <<q, n, k>> THEN p ELSE task[<<q, n, k>>]
             /\ <<q, n, k>> \in Tools
  BY <1>2, <1>3 DEF TypeOK, Tools
<1>5. LoopInv(q)'
  BY <1>1 DEF RunInv, LoopInv, Holding, Outside
<1>6. ASSUME NEW n \in 1..MaxIterations
      PROVE  TurnRowInv(q, n)' /\ RetryRowInv(q, n)' /\ TextRowInv(q, n)'
  <2>1. TurnRowInv(q, n)'
    BY <1>1 DEF RunInv, TurnRowInv
  <2>2. RetryRowInv(q, n)'
    BY <1>1 DEF RunInv, RetryRowInv
  <2>3. TextRowInv(q, n)'
    BY <1>1 DEF RunInv, TextRowInv
  <2> QED BY <2>1, <2>2, <2>3
<1>7. ASSUME NEW n \in 1..MaxIterations, NEW k \in 1..MaxCalls
      PROVE  TaskRowInv(q, n, k)' /\ ToolRowInv(q, n, k)'
  <2>0. TaskRowInv(q, n, k) /\ ToolRowInv(q, n, k) /\ LoopInv(q) /\ TurnRowInv(q, n)
    BY DEF RunInv
  <2>1. CASE x # <<q, n, k>>
    <3>1. task'[<<q, n, k>>] = task[<<q, n, k>>] /\ tool'[<<q, n, k>>] = tool[<<q, n, k>>]
      BY <1>4, <2>1
    <3>2. TaskRowInv(q, n, k)'
      BY <1>1, <2>0, <3>1 DEF TaskRowInv, Live
    <3>3. ToolRowInv(q, n, k)'
      BY <1>1, <2>0, <3>1 DEF ToolRowInv, Unsettled
    <3> QED BY <3>2, <3>3
  <2>2. CASE x = <<q, n, k>>
    <3>0. task[x] \in TaskLocation
      BY DEF TypeOK
    <3>1. /\ task[x] \in {"start", "status", "handler", "completed", "error", "result"}
          /\ task'[x] = p /\ p # "none" /\ p # "failed" /\ task[x] # "none"
          /\ tool'[x] = Recorded(x)
      BY <1>2, <1>3, <1>4, <2>2, <3>0 DEF Live, TaskNext, TaskLocation
    <3>2. /\ task[x] = "start" => p = "status" /\ tool'[x] = "running"
          /\ task[x] = "status" => p = "handler" /\ tool'[x] = tool[x]
          /\ task[x] = "handler" => p \in {"completed", "error"} /\ tool'[x] = tool[x]
          /\ task[x] = "completed" => p = "result" /\ tool'[x] = "completed"
          /\ task[x] = "error" => p = "result" /\ tool'[x] = "error"
          /\ task[x] = "result" => p = "done" /\ tool'[x] = tool[x]
      BY <1>3, <3>1 DEF TaskNext, Recorded
    <3>3. /\ n = iter[q] /\ k <= Len(calls[q]) /\ up
          /\ faults = 0 => pc[q] = "gather"
      BY <1>2, <2>0, <2>2, RowsTyped DEF TaskRowInv, Live
    <3>4. pc[q] \notin {"compact", "open"} \cup Streaming
          /\ ~(pc[q] \in Handler /\ outcome[q] = "overflow")
      BY <2>0, <2>2, <3>1, <3>3 DEF TaskRowInv
    <3>5. TaskRowInv(q, n, k)'
      BY <1>1, <2>0, <2>2, <3>1, <3>3, <3>4, RowsTyped DEF TaskRowInv, Live
    <3>6. /\ (n < iter[q] /\ turn[<<q, n>>] = "completed") => FALSE
          /\ n > iter[q] => FALSE
      BY <3>3, RowsTyped
    <3>7. faults = 0 \/ faults > 0
      BY DEF TypeOK
    <3>8. ASSUME pc[q] = "gather" PROVE ToolRowInv(q, n, k)'
      <4>1. /\ task[x] = "start" => tool[x] = "pending"
            /\ task[x] \in {"status", "handler", "completed", "error"} => tool[x] = "running"
            /\ task[x] = "result" => tool[x] \in {"completed", "error"}
        BY <2>0, <2>2, <3>3, <3>8 DEF ToolRowInv
      <4>2. /\ p = "start" => tool'[x] = "pending"
            /\ p \in {"status", "handler", "completed", "error"} => tool'[x] = "running"
            /\ p \in {"result", "done"} => tool'[x] \in {"completed", "error"}
        BY <3>1, <3>2, <4>1
      <4> QED BY <1>1, <2>2, <3>1, <3>3, <3>6, <3>8, <4>2 DEF ToolRowInv
    <3>9. ASSUME pc[q] # "gather" PROVE ToolRowInv(q, n, k)'
      BY <1>1, <2>2, <3>3, <3>4, <3>6, <3>7, <3>9 DEF ToolRowInv
    <3> QED BY <3>5, <3>8, <3>9
  <2> QED BY <2>1, <2>2
<1> QED BY <1>5, <1>6, <1>7 DEF RunInv

LEMMA TaskFailKeeps ==
    ASSUME TypeOK, NEW q \in Runs, RunInv(q), NEW x \in Tools, TaskFail(x)
    PROVE  RunInv(q)'
<1> USE DEF Streaming, Active, Body, Handler, Cleanup
<1>1. /\ pc' = pc /\ iter' = iter /\ overflowUsed' = overflowUsed /\ calls' = calls
      /\ sweep' = sweep /\ buf' = buf /\ outcome' = outcome /\ turn' = turn /\ saved' = saved
      /\ streamed' = streamed /\ up' = up /\ faults' = faults + 1 /\ faults \in Nat /\ tool' = tool
  BY DEF TypeOK, TaskFail
<1>2. Live(x) /\ task' = [task EXCEPT ![x] = "failed"]
  BY DEF TaskFail
<1>3. faults' > 0 /\ faults' # 0
  BY <1>1
<1>4. ASSUME NEW n \in 1..MaxIterations, NEW k \in 1..MaxCalls
      PROVE  task'[<<q, n, k>>] = IF x = <<q, n, k>> THEN "failed" ELSE task[<<q, n, k>>]
  BY <1>2 DEF TypeOK, Tools
<1>5. LoopInv(q)'
  BY <1>1, <1>3 DEF RunInv, LoopInv, Holding, Outside
<1>6. ASSUME NEW n \in 1..MaxIterations
      PROVE  TurnRowInv(q, n)' /\ RetryRowInv(q, n)' /\ TextRowInv(q, n)'
  <2>1. TurnRowInv(q, n)'
    BY <1>1, <1>3 DEF RunInv, TurnRowInv
  <2>2. RetryRowInv(q, n)'
    BY <1>1 DEF RunInv, RetryRowInv
  <2>3. TextRowInv(q, n)'
    BY <1>1 DEF RunInv, TextRowInv
  <2> QED BY <2>1, <2>2, <2>3
<1>7. ASSUME NEW n \in 1..MaxIterations, NEW k \in 1..MaxCalls
      PROVE  TaskRowInv(q, n, k)' /\ ToolRowInv(q, n, k)'
  <2>0. TaskRowInv(q, n, k) /\ ToolRowInv(q, n, k)
    BY DEF RunInv
  <2>1. CASE x # <<q, n, k>>
    <3>1. task'[<<q, n, k>>] = task[<<q, n, k>>]
      BY <1>4, <2>1
    <3>2. TaskRowInv(q, n, k)'
      BY <1>1, <1>3, <2>0, <3>1 DEF TaskRowInv, Live
    <3>3. ToolRowInv(q, n, k)'
      BY <1>1, <1>3, <2>0, <3>1 DEF ToolRowInv, Unsettled
    <3> QED BY <3>2, <3>3
  <2>2. CASE x = <<q, n, k>>
    <3>1. task'[<<q, n, k>>] = "failed" /\ task[<<q, n, k>>] # "none" /\ Live(<<q, n, k>>)
      BY <1>2, <1>4, <2>2 DEF Live
    <3>2. TaskRowInv(q, n, k)'
      BY <1>1, <1>3, <2>0, <3>1 DEF TaskRowInv, Live
    <3>3. ToolRowInv(q, n, k)'
      BY <1>1, <1>3, <2>0, <3>1 DEF ToolRowInv, Unsettled
    <3> QED BY <3>2, <3>3
  <2> QED BY <2>1, <2>2
<1> QED BY <1>5, <1>6, <1>7 DEF RunInv

LEMMA KillKeeps ==
    ASSUME TypeOK, NEW q \in Runs, RunInv(q), Kill
    PROVE  RunInv(q)'
<1> USE DEF Streaming, Active, Body, Handler, Cleanup
<1>1. /\ iter' = iter /\ overflowUsed' = overflowUsed /\ calls' = calls /\ sweep' = sweep
      /\ turn' = turn /\ saved' = saved /\ tool' = tool /\ streamed' = streamed
      /\ up' = FALSE /\ faults' = faults
  BY DEF Kill
<1>2. pc'[q] = "ended" \/ (pc[q] = "idle" /\ pc'[q] = "idle")
  BY DEF Kill
<1>3. ASSUME NEW n \in 1..MaxIterations, NEW k \in 1..MaxCalls
      PROVE  task'[<<q, n, k>>] = IF Live(<<q, n, k>>) THEN "done" ELSE task[<<q, n, k>>]
  BY DEF Kill, Tools
<1>4. LoopInv(q)'
  BY <1>1, <1>2 DEF RunInv, LoopInv, Holding, Outside
<1>5. ASSUME NEW n \in 1..MaxIterations
      PROVE  TurnRowInv(q, n)' /\ RetryRowInv(q, n)' /\ TextRowInv(q, n)'
  <2>1. TurnRowInv(q, n)'
    BY <1>1, <1>2 DEF RunInv, TurnRowInv
  <2>2. RetryRowInv(q, n)'
    BY <1>1 DEF RunInv, RetryRowInv
  <2>3. TextRowInv(q, n)'
    BY <1>1, <1>2 DEF RunInv, TextRowInv
  <2> QED BY <2>1, <2>2, <2>3
<1>6. ASSUME NEW n \in 1..MaxIterations, NEW k \in 1..MaxCalls
      PROVE  TaskRowInv(q, n, k)' /\ ToolRowInv(q, n, k)'
  <2>0. TaskRowInv(q, n, k) /\ ToolRowInv(q, n, k)
    BY DEF RunInv
  <2>1. TaskRowInv(q, n, k)'
    BY <1>1, <1>2, <1>3, <2>0 DEF TaskRowInv, Live
  <2>2. ToolRowInv(q, n, k)'
    BY <1>1, <1>2, <2>0 DEF ToolRowInv, Unsettled
  <2> QED BY <2>1, <2>2
<1> QED BY <1>4, <1>5, <1>6 DEF RunInv

LEMMA RestartKeeps ==
    ASSUME TypeOK, NEW q \in Runs, RunInv(q), Restart
    PROVE  RunInv(q)'
<1> USE DEF Streaming, Active, Body, Handler, Cleanup
<1>1. /\ pc' = pc /\ iter' = iter /\ overflowUsed' = overflowUsed /\ calls' = calls
      /\ sweep' = sweep /\ buf' = buf /\ outcome' = outcome /\ task' = task
      /\ saved' = saved /\ streamed' = streamed /\ up' = TRUE /\ faults' = faults /\ ~up
  BY DEF Restart
<1>2. pc[q] \in {"idle", "ended"}
  BY <1>1 DEF TypeOK, RunInv, LoopInv, Location
<1>3. ASSUME NEW n \in 1..MaxIterations
      PROVE  turn'[<<q, n>>] = Interrupted(turn[<<q, n>>])
  BY DEF Restart, Turns
<1>4. ASSUME NEW n \in 1..MaxIterations, NEW k \in 1..MaxCalls
      PROVE  tool'[<<q, n, k>>] = IF Unsettled(tool[<<q, n, k>>])
                                  THEN "interrupted" ELSE tool[<<q, n, k>>]
  BY DEF Restart, Tools
<1>5. LoopInv(q)'
  BY <1>1 DEF RunInv, LoopInv, Holding, Outside
<1>6. ASSUME NEW n \in 1..MaxIterations
      PROVE  TurnRowInv(q, n)' /\ RetryRowInv(q, n)' /\ TextRowInv(q, n)'
  <2>1. TurnRowInv(q, n)'
    BY <1>1, <1>2, <1>3 DEF RunInv, TurnRowInv, Interrupted
  <2>2. RetryRowInv(q, n)'
    <3>1. \A m \in 1..MaxIterations : turn'[<<q, m>>] = "error" => turn[<<q, m>>] = "error"
      BY <1>3 DEF Interrupted
    <3> QED BY <1>1, <3>1 DEF RunInv, RetryRowInv
  <2>3. TextRowInv(q, n)'
    BY <1>1, <1>2, <1>3 DEF RunInv, TextRowInv, Interrupted
  <2> QED BY <2>1, <2>2, <2>3
<1>7. ASSUME NEW n \in 1..MaxIterations, NEW k \in 1..MaxCalls
      PROVE  TaskRowInv(q, n, k)' /\ ToolRowInv(q, n, k)'
  <2>0. TaskRowInv(q, n, k) /\ ToolRowInv(q, n, k)
    BY DEF RunInv
  <2>1. TaskRowInv(q, n, k)'
    BY <1>1, <2>0 DEF TaskRowInv, Live
  <2>2. ToolRowInv(q, n, k)'
    <3>1. turn'[<<q, n>>] = "completed" => turn[<<q, n>>] = "completed"
      BY <1>3 DEF Interrupted
    <3>2. ~Unsettled(tool'[<<q, n, k>>])
      BY <1>4 DEF Unsettled
    <3>3. tool[<<q, n, k>>] \in {"none", "completed", "error"}
            => tool'[<<q, n, k>>] = tool[<<q, n, k>>]
      BY <1>4 DEF Unsettled
    <3> QED BY <1>1, <1>2, <2>0, <3>1, <3>2, <3>3 DEF ToolRowInv
  <2> QED BY <2>1, <2>2
<1> QED BY <1>5, <1>6, <1>7 DEF RunInv

LEMMA InitRunInv ==
    ASSUME Init, NEW q \in Runs
    PROVE  RunInv(q)
<1> USE DEF Streaming, Active, Body, Handler, Cleanup
<1>1. /\ pc[q] = "idle" /\ iter[q] = 0 /\ calls[q] = <<>> /\ faults = 0
      /\ Len(calls[q]) = 0 /\ MaxCalls \in Nat
  BY BoundsAssumption DEF Init
<1>2. LoopInv(q)
  BY <1>1 DEF LoopInv, Holding, Outside
<1>3. ASSUME NEW n \in 1..MaxIterations
      PROVE  TurnRowInv(q, n) /\ RetryRowInv(q, n) /\ TextRowInv(q, n)
  <2>1. turn[<<q, n>>] = "none" /\ saved[<<q, n>>] = 0 /\ streamed[<<q, n>>] = 0
    BY DEF Init, Turns
  <2>2. TurnRowInv(q, n)
    BY <1>1, <2>1 DEF TurnRowInv
  <2>3. RetryRowInv(q, n)
    BY <1>1, <2>1 DEF RetryRowInv
  <2>4. TextRowInv(q, n)
    BY <1>1, <2>1 DEF TextRowInv
  <2> QED BY <2>2, <2>3, <2>4
<1>4. ASSUME NEW n \in 1..MaxIterations, NEW k \in 1..MaxCalls
      PROVE  TaskRowInv(q, n, k) /\ ToolRowInv(q, n, k)
  <2>1. task[<<q, n, k>>] = "none" /\ tool[<<q, n, k>>] = "none"
    BY DEF Init, Tools
  <2>2. TaskRowInv(q, n, k)
    BY <1>1, <2>1 DEF TaskRowInv, Live
  <2>3. ToolRowInv(q, n, k)
    BY <1>1, <2>1 DEF ToolRowInv, Unsettled
  <2> QED BY <2>2, <2>3
<1> QED BY <1>2, <1>3, <1>4 DEF RunInv

--------------------------------------------------------------------------------
(* What a run leaves of its calls: the children's rows, the sweep, and the end. *)

LEMMA RowOf ==
    /\ \A t \in Turns : t[1] \in Runs /\ t[2] \in 1..MaxIterations /\ t = <<t[1], t[2]>>
    /\ \A x \in Tools : /\ x[1] \in Runs /\ x[2] \in 1..MaxIterations /\ x[3] \in 1..MaxCalls
                        /\ x = <<x[1], x[2], x[3]>>
  BY DEF Turns, Tools

LEMMA RunWrites ==
    ASSUME NEW r \in Runs, Submit(r) \/ Step(r) \/ Cancel(r) \/ StoreFail(r)
    PROVE  /\ Write(r) \/ turn' = turn
           /\ Write(r) \/ tool' = tool \/ (pc[r] = "gather" /\ CancelChildren(r))
           /\ faults' = 0 => faults = 0 \/ faults \notin Nat
<1>1. CASE Submit(r) \/ Step(r)
  BY <1>1 DEF Submit, Step, AcquireLock, CreateUserTurn, StartLoop, Compact,
         OpenAssistantTurn, TextDelta, ToolUse, StreamEnd, ProviderError, Flush, CreateToolRun,
         AddCallPart, CompleteTurn, GatherDone, GatherRaise, MarkError, InterruptTurn,
         CheckTool, InterruptTool
<1>2. CASE Cancel(r)
  BY <1>2 DEF Cancel
<1>3. CASE StoreFail(r)
  BY <1>3 DEF StoreFail
<1> QED BY <1>1, <1>2, <1>3

\* A row a store call changes is one of the run that awaits it, which holds the lock.
LEMMA WriteHolds ==
    ASSUME TypeOK, NEW r \in Runs, Write(r)
    PROVE  /\ \A t \in Turns : turn'[t] # turn[t] =>
                 t = <<r, iter[r]>> /\ pc[r] \in {"open", "complete", "mark_error", "interrupt_turn"}
           /\ \A x \in Tools : tool'[x] # tool[x] =>
                 \/ pc[r] = "create_tool" /\ x = <<r, iter[r], Len(calls[r]) + 1>>
                 \/ pc[r] = "interrupt_tool" /\ x = <<r, iter[r], sweep[r]>>
<1>1. ASSUME NEW t \in Turns, turn'[t] # turn[t]
      PROVE  t = <<r, iter[r]>> /\ pc[r] \in {"open", "complete", "mark_error", "interrupt_turn"}
  <2>1. pc[r] \in {"open", "complete", "mark_error", "interrupt_turn"}
    BY <1>1, WriteAt
  <2>2. \E v : turn' = [turn EXCEPT ![Cur(r)] = v]
    BY <2>1, WriteAt
  <2> QED BY <1>1, <2>1, <2>2 DEF TypeOK, Cur
<1>2. ASSUME NEW x \in Tools, tool'[x] # tool[x]
      PROVE  \/ pc[r] = "create_tool" /\ x = <<r, iter[r], Len(calls[r]) + 1>>
             \/ pc[r] = "interrupt_tool" /\ x = <<r, iter[r], sweep[r]>>
  <2>1. CASE pc[r] = "create_tool"
    <3>1. tool' = [tool EXCEPT ![Slot(r, Len(calls[r]) + 1)] = "pending"]
      BY <2>1, WriteAt
    <3> QED BY <1>2, <2>1, <3>1 DEF TypeOK, Slot
  <2>2. CASE pc[r] = "interrupt_tool"
    <3>1. tool' = [tool EXCEPT ![Slot(r, sweep[r])] = "interrupted"]
      BY <2>2, WriteAt
    <3> QED BY <1>2, <2>2, <3>1 DEF TypeOK, Slot
  <2>3. CASE pc[r] \notin {"create_tool", "interrupt_tool"}
    BY <1>2, <2>3, WriteAt
  <2> QED BY <2>1, <2>2, <2>3
<1> QED BY <1>1, <1>2

ChildRow(x) ==
    /\ task[x] \in {"start", "status", "handler", "completed", "error"} =>
          tool[x] \notin {"completed", "error"}
    /\ task[x] = "result" => tool[x] \in Settled
SweepRow(x) ==
    (pc[x[1]] \in {"check_tool", "interrupt_tool"} /\ x[2] = iter[x[1]] /\ x[3] < sweep[x[1]])
        => Answered(x)
EndRow(x) ==
    (pc[x[1]] = "ended" /\ up) =>
        \/ turn[<<x[1], x[2]>>] = "error" \/ outcome[x[1]] = "cut" \/ Answered(x)
        \/ x[2] = iter[x[1]] /\ x[3] > Len(calls[x[1]])

LEMMA LeftParts ==
    ASSUME NEW x PROVE LeftInv(x) <=> ChildRow(x) /\ SweepRow(x) /\ EndRow(x)
  BY DEF LeftInv, ChildRow, SweepRow, EndRow

RowKept(x) == task'[x] = task[x] /\ tool'[x] = tool[x]
ChildEffect(x) ==
    \/ task'[x] = task[x] /\ tool'[x] \in {tool[x], "interrupted"}
    \/ task[x] = "none" /\ task'[x] \in {"none", "start"} /\ tool'[x] = "pending"
    \/ task'[x] = "done"

LEMMA AnsweredKept ==
    ASSUME faults \in Nat, faults' = faults \/ faults' = faults + 1, NEW x, Answered(x), RowKept(x)
    PROVE  Answered(x)'
<1>1. faults > 0 => faults' > 0
  OBVIOUS
<1> QED BY <1>1 DEF Answered, Outlives, Live, RowKept

\* What a step of a run does to the row of one of its calls, and to its child.
LEMMA OwnChild ==
    ASSUME TypeOK, NEW r \in Runs, RunInv(r), NEW x \in Tools, x[1] = r,
           Submit(r) \/ Step(r) \/ Cancel(r) \/ StoreFail(r)
    PROVE  ChildEffect(x)
<1>0. x = <<r, x[2], x[3]>> /\ x[2] \in 1..MaxIterations /\ x[3] \in 1..MaxCalls
  BY RowOf
<1>r. x[2] \in 1..MaxIterations /\ x[3] \in 1..MaxCalls
  BY <1>0
<1>1. ASSUME Write(r) \/ tool' = tool, task' = task
      PROVE  ChildEffect(x)
  <2>1. CASE tool'[x] = tool[x]
    BY <1>1, <2>1 DEF ChildEffect
  <2>2. CASE tool'[x] # tool[x]
    <3>1. Write(r)
      BY <1>1, <2>2
    <3>2. \/ pc[r] = "create_tool" /\ x = <<r, iter[r], Len(calls[r]) + 1>>
          \/ pc[r] = "interrupt_tool" /\ x = <<r, iter[r], sweep[r]>>
      BY <2>2, <3>1, WriteHolds
    <3>3. CASE pc[r] = "create_tool"
      <4>1. x[2] = iter[r] /\ x[3] = Len(calls[r]) + 1
        BY <3>2, <3>3
      <4>2. task[x] = "none"
        BY <1>0, <3>3, <4>1, NoChildren DEF Streaming, Body
      <4>3. tool' = [tool EXCEPT ![Slot(r, Len(calls[r]) + 1)] = "pending"]
        BY <3>1, <3>3, WriteAt
      <4>4. tool'[<<r, x[2], x[3]>>] = "pending"
        <5>1. \A n \in 1..MaxIterations, k \in 1..MaxCalls :
                tool'[<<r, n, k>>] = IF n = iter[r] /\ k = Len(calls[r]) + 1
                                     THEN "pending" ELSE tool[<<r, n, k>>]
          BY <4>3, OwnCreated
        <5> QED BY <1>r, <4>1, <5>1
      <4> QED BY <1>0, <1>1, <4>2, <4>4 DEF ChildEffect
    <3>4. CASE pc[r] = "interrupt_tool"
      <4>1. x[2] = iter[r] /\ x[3] = sweep[r]
        BY <3>2, <3>4
      <4>2. tool' = [tool EXCEPT ![Slot(r, sweep[r])] = "interrupted"]
        BY <3>1, <3>4, WriteAt
      <4>3. tool'[<<r, x[2], x[3]>>] = "interrupted"
        <5>1. \A n \in 1..MaxIterations, k \in 1..MaxCalls :
                tool'[<<r, n, k>>] = IF n = iter[r] /\ k = sweep[r]
                                     THEN "interrupted" ELSE tool[<<r, n, k>>]
          BY <4>2, OwnInterrupted
        <5> QED BY <1>r, <4>1, <5>1
      <4> QED BY <1>0, <1>1, <4>3 DEF ChildEffect
    <3> QED BY <3>2, <3>3, <3>4
  <2> QED BY <2>1, <2>2
<1>2. CASE CompleteTurn(r)
  <2>1. tool'[x] = tool[x]
    BY <1>2, CompletedRow
  <2>2. CASE task' = task
    BY <2>1, <2>2 DEF ChildEffect
  <2>3. CASE task' = [y \in Tools |-> IF y \in Called(r) THEN "start" ELSE task[y]]
    <3>1. CASE x \in Called(r)
      <4>1. x[2] = iter[r] /\ x[3] <= Len(calls[r])
        BY <1>0, <3>1, CalledRows
      <4>2. task[x] = "none" /\ tool[x] = "pending"
        <5>1. /\ task[<<r, iter[r], x[3]>>] = "none"
              /\ tool[<<r, iter[r], x[3]>>] = "pending"
          BY <1>r, <1>2, <4>1, CompletedRow
        <5> QED BY <1>0, <4>1, <5>1
      <4> QED BY <2>1, <2>3, <3>1, <4>2 DEF ChildEffect
    <3>2. CASE x \notin Called(r)
      BY <2>1, <2>3, <3>2 DEF ChildEffect
    <3> QED BY <3>1, <3>2
  <2> QED BY <1>2, <2>2, <2>3 DEF CompleteTurn
<1>3. CASE CancelChildren(r)
  <2>1. PICK S \in SUBSET {y \in Called(r) : Live(y)} :
          /\ tool' = [y \in Tools |-> IF y \in S THEN Recorded(y) ELSE tool[y]]
          /\ task' = [y \in Tools |-> IF y \in Called(r) /\ Live(y) THEN "done" ELSE task[y]]
    BY <1>3 DEF CancelChildren
  <2>2. CASE x \in Called(r) /\ Live(x)
    BY <2>1, <2>2 DEF ChildEffect
  <2>3. CASE ~(x \in Called(r) /\ Live(x))
    BY <2>1, <2>3 DEF ChildEffect
  <2> QED BY <2>2, <2>3
<1>4. CASE (Submit(r) \/ Step(r)) /\ ~CompleteTurn(r)
  <2>1. task' = task
    BY <1>4 DEF Submit, Step, AcquireLock, CreateUserTurn, StartLoop, Compact,
         OpenAssistantTurn, TextDelta, ToolUse, StreamEnd, ProviderError, Flush, CreateToolRun,
         AddCallPart, GatherDone, GatherRaise, MarkError, InterruptTurn,
         CheckTool, InterruptTool
  <2>2. Write(r) \/ tool' = tool \/ CancelChildren(r)
    BY <1>4, RunWrites
  <2> QED BY <1>1, <1>3, <2>1, <2>2
<1>5. CASE Cancel(r)
  <2>1. CancelChildren(r) \/ ((Write(r) \/ tool' = tool) /\ task' = task)
    BY <1>5 DEF Cancel, rows
  <2> QED BY <1>1, <1>3, <2>1
<1>6. CASE StoreFail(r)
  <2>1. tool' = tool /\ task' = task
    BY <1>6 DEF StoreFail, rows
  <2> QED BY <1>1, <2>1
<1> QED BY <1>2, <1>4, <1>5, <1>6

LEMMA ChildRowFollows ==
    ASSUME NEW x, ChildRow(x), ChildEffect(x)
    PROVE  ChildRow(x)'
  BY DEF ChildRow, ChildEffect, Settled

\* Behind the loop every call is settled, unless its turn ended in error.
LEMMA EarlierRow ==
    ASSUME TypeOK, NEW r \in Runs, RunInv(r), NEW x \in Tools, x[1] = r, x[2] # iter[r]
    PROVE  turn[<<r, x[2]>>] = "error" \/ Answered(x)
<1>0. x = <<r, x[2], x[3]>> /\ x[2] \in 1..MaxIterations /\ x[3] \in 1..MaxCalls
  BY RowOf
<1>1. TurnRowInv(r, x[2]) /\ ToolRowInv(r, x[2], x[3]) /\ iter[r] \in 0..MaxIterations
  BY <1>0, RowsTyped DEF RunInv
<1>2. x[2] < iter[r] \/ x[2] > iter[r]
  BY <1>0, <1>1
<1>3. x[2] < iter[r] => turn[<<r, x[2]>>] \in {"completed", "error"}
  BY <1>1 DEF TurnRowInv
<1>4. tool[x] \in {"none", "completed", "error"} \/ turn[<<r, x[2]>>] = "error"
  BY <1>0, <1>1, <1>2, <1>3 DEF ToolRowInv
<1> QED BY <1>4 DEF Answered, Unsettled

\* A run that ends: what it has to know of the calls of its last iteration.
LEMMA EndRowFollows ==
    ASSUME TypeOK, NEW r \in Runs, RunInv(r), Elsewhere(r), NEW x \in Tools, x[1] = r,
           x[2] = iter[r] =>
              \/ turn'[<<r, x[2]>>] = "error" \/ outcome'[r] = "cut" \/ Answered(x)'
              \/ x[3] > Len(calls[r])
    PROVE  EndRow(x)'
<1>0. /\ x = <<r, x[2], x[3]>> /\ x[2] \in 1..MaxIterations /\ x[3] \in 1..MaxCalls
      /\ faults \in Nat
  BY RowOf, RowsTyped
<1>1. calls'[r] = calls[r] /\ iter'[r] = iter[r] /\ (faults' = faults \/ faults' = faults + 1)
  BY DEF Elsewhere
<1>2. CASE x[2] = iter[r]
  BY <1>1, <1>2 DEF EndRow
<1>3. CASE x[2] # iter[r]
  <2>1. turn[<<r, x[2]>>] = "error" \/ Answered(x)
    BY <1>3, EarlierRow
  <2>2. turn'[<<r, x[2]>>] = turn[<<r, x[2]>>] /\ RowKept(x)
    BY <1>0, <1>3 DEF Elsewhere, RowKept
  <2>3. turn'[<<r, x[2]>>] = "error" \/ Answered(x)'
    BY <1>0, <1>1, <2>1, <2>2, AnsweredKept
  <2> QED BY <2>3 DEF EndRow
<1> QED BY <1>2, <1>3

\* The sweep goes on past a call only when its row is settled or its child lives.
LEMMA Swept ==
    ASSUME TypeOK, NEW r \in Runs, NEW x \in Tools, x[1] = r, x[2] = iter[r], SweepRow(x),
           (CheckTool(r) /\ ~Unsettled(tool[Slot(r, sweep[r])])) \/ InterruptTool(r),
           x[3] < sweep[r] + 1
    PROVE  Answered(x)'
<1>0. /\ x = <<r, x[2], x[3]>> /\ x[2] \in 1..MaxIterations /\ x[3] \in 1..MaxCalls
      /\ faults \in Nat /\ sweep[r] \in Nat
  BY RowOf DEF TypeOK
<1>r. x[2] \in 1..MaxIterations /\ x[3] \in 1..MaxCalls /\ sweep[r] \in Nat
  BY <1>0
<1>1. /\ task' = task /\ faults' = faults /\ pc[r] \in {"check_tool", "interrupt_tool"}
  BY DEF CheckTool, InterruptTool
<1>2. CASE x[3] < sweep[r]
  <2>1. Answered(x)
    BY <1>1, <1>2 DEF SweepRow
  <2>2. CASE tool'[x] = tool[x]
    BY <1>0, <1>1, <2>1, <2>2, AnsweredKept DEF RowKept
  <2>3. CASE CheckTool(r)
    BY <2>2, <2>3 DEF CheckTool, rows
  <2>4. CASE InterruptTool(r)
    <3>1. tool' = [tool EXCEPT ![Slot(r, sweep[r])] = "interrupted"]
      BY <2>4, WriteAt DEF InterruptTool
    <3>2. tool'[<<r, x[2], x[3]>>] = tool[<<r, x[2], x[3]>>]
      <4>1. \A n \in 1..MaxIterations, k \in 1..MaxCalls :
              tool'[<<r, n, k>>] = IF n = iter[r] /\ k = sweep[r]
                                   THEN "interrupted" ELSE tool[<<r, n, k>>]
        BY <3>1, OwnInterrupted
      <4> QED BY <1>r, <1>2, <4>1
    <3> QED BY <1>0, <2>2, <3>2
  <2> QED BY <2>3, <2>4
<1>3. CASE x[3] = sweep[r]
  <2>0. x = Slot(r, sweep[r])
    BY <1>0, <1>3 DEF Slot
  <2>1. CASE CheckTool(r) /\ ~Unsettled(tool[Slot(r, sweep[r])])
    <3>1. tool' = tool
      BY <2>1 DEF CheckTool, rows
    <3> QED BY <2>0, <2>1, <3>1 DEF Answered, Unsettled
  <2>2. CASE InterruptTool(r)
    <3>1. tool' = [tool EXCEPT ![Slot(r, sweep[r])] = "interrupted"]
      BY <2>2, WriteAt DEF InterruptTool
    <3>2. tool'[<<r, x[2], x[3]>>] = "interrupted"
      <4>1. \A n \in 1..MaxIterations, k \in 1..MaxCalls :
              tool'[<<r, n, k>>] = IF n = iter[r] /\ k = sweep[r]
                                   THEN "interrupted" ELSE tool[<<r, n, k>>]
        BY <3>1, OwnInterrupted
      <4> QED BY <1>r, <1>3, <4>1
    <3> QED BY <1>0, <3>2 DEF Answered, Unsettled
  <2> QED BY <2>1, <2>2
<1> QED BY <1>0, <1>2, <1>3

LEMMA OwnSweep ==
    ASSUME TypeOK, NEW r \in Runs, RunInv(r), NEW x \in Tools, x[1] = r, SweepRow(x),
           Submit(r) \/ Step(r) \/ Cancel(r) \/ StoreFail(r)
    PROVE  SweepRow(x)'
<1>0. /\ x = <<r, x[2], x[3]>> /\ x[2] \in 1..MaxIterations /\ x[3] \in 1..MaxCalls
      /\ faults \in Nat /\ sweep \in [Runs -> Nat] /\ pc \in [Runs -> Location]
  BY RowOf DEF TypeOK
<1>1. CASE pc'[r] \notin {"check_tool", "interrupt_tool"}
  BY <1>1 DEF SweepRow
<1>2. CASE InterruptTurn(r)
  <2>1. sweep'[r] = 1 \/ pc'[r] = "ended"
    BY <1>0, <1>2 DEF InterruptTurn, SweepFrom, End
  <2> QED BY <1>0, <1>1, <2>1 DEF SweepRow
<1>3. CASE CheckTool(r) \/ InterruptTool(r)
  <2>1. iter' = iter /\ faults' = faults
    BY <1>3 DEF CheckTool, InterruptTool
  <2>2. CASE CheckTool(r) /\ Unsettled(tool[Slot(r, sweep[r])])
    <3>1. sweep' = sweep /\ pc[r] \in {"check_tool", "interrupt_tool"} /\ RowKept(x)
      BY <2>2 DEF CheckTool, rows, RowKept
    <3>2. Answered(x) => Answered(x)'
      BY <1>0, <2>1, <3>1, AnsweredKept
    <3> QED BY <2>1, <3>1, <3>2 DEF SweepRow
  <2>3. CASE (CheckTool(r) /\ ~Unsettled(tool[Slot(r, sweep[r])])) \/ InterruptTool(r)
    <3>1. sweep'[r] = sweep[r] + 1 \/ pc'[r] = "ended"
      BY <1>0, <2>3 DEF CheckTool, InterruptTool, SweepFrom, End
    <3>2. ASSUME x[2] = iter[r], x[3] < sweep[r] + 1
          PROVE  Answered(x)'
      BY <2>3, <3>2, Swept
    <3> QED BY <1>1, <2>1, <3>1, <3>2 DEF SweepRow
  <2> QED BY <1>3, <2>2, <2>3
<1>4. CASE (Submit(r) \/ Step(r)) /\ ~(InterruptTurn(r) \/ CheckTool(r) \/ InterruptTool(r))
  <2>1. pc'[r] \notin {"check_tool", "interrupt_tool"}
    <3>1. CASE Flush(r)
      BY <1>0, <3>1 DEF Flush, Goto, AfterFlush, FlushPoints
    <3>2. CASE ~Flush(r)
      BY <1>0, <1>4, <3>2 DEF Submit, Step, AcquireLock, CreateUserTurn, StartLoop, Compact,
         OpenAssistantTurn, TextDelta, ToolUse, StreamEnd, ProviderError, CreateToolRun,
         AddCallPart, CompleteTurn, GatherDone, GatherRaise, MarkError,
         NextIteration, Raise, Goto, End
    <3> QED BY <3>1, <3>2
  <2> QED BY <1>1, <2>1
<1>5. CASE Cancel(r) \/ StoreFail(r)
  <2>1. pc'[r] \in {"flush_cleanup", "flush_error", "ended"}
    BY <1>0, <1>5 DEF Cancel, StoreFail, Raise, Goto, End
  <2> QED BY <1>1, <2>1
<1> QED BY <1>2, <1>3, <1>4, <1>5

LEMMA SweepEnds ==
    ASSUME TypeOK, NEW r \in Runs, RunInv(r), NEW x \in Tools, x[1] = r, SweepRow(x),
           InterruptTurn(r) \/ CheckTool(r) \/ InterruptTool(r), pc'[r] = "ended"
    PROVE  EndRow(x)'
<1>0. /\ x = <<r, x[2], x[3]>> /\ x[2] \in 1..MaxIterations /\ x[3] \in 1..MaxCalls
      /\ faults \in Nat /\ sweep[r] \in Nat /\ pc \in [Runs -> Location] /\ Len(calls[r]) \in Nat
  BY RowOf, RowsTyped DEF TypeOK
<1>1. /\ pc[r] \in {"interrupt_turn", "check_tool", "interrupt_tool"}
      /\ iter' = iter /\ overflowUsed' = overflowUsed /\ calls' = calls /\ streamed' = streamed
      /\ up' = up /\ faults' = faults /\ UNCHANGED task /\ (Write(r) \/ UNCHANGED rows)
  BY DEF InterruptTurn, CheckTool, InterruptTool
<1>2. Elsewhere(r)
  BY <1>1, StoppedElsewhere
<1>3. ASSUME x[2] = iter[r]
      PROVE  Answered(x)' \/ x[3] > Len(calls[r])
  <2>1. CASE InterruptTurn(r)
    <3>1. 1 > Len(calls[r])
      BY <1>0, <2>1 DEF InterruptTurn, SweepFrom, Goto
    <3> QED BY <1>0, <3>1
  <2>2. CASE CheckTool(r) \/ InterruptTool(r)
    <3>1. CheckTool(r) => ~Unsettled(tool[Slot(r, sweep[r])])
      BY <1>0 DEF CheckTool, Goto
    <3>2. sweep[r] + 1 > Len(calls[r])
      BY <1>0, <2>2, <3>1 DEF CheckTool, InterruptTool, SweepFrom, Goto
    <3>3. x[3] < sweep[r] + 1 => Answered(x)'
      BY <1>3, <2>2, <3>1, Swept
    <3> QED BY <1>0, <3>2, <3>3
  <2> QED BY <2>1, <2>2
<1> QED BY <1>2, <1>3, EndRowFollows

LEMMA LoopEnds ==
    ASSUME TypeOK, NEW r \in Runs, RunInv(r), NEW x \in Tools, x[1] = r,
           CompleteTurn(r) \/ GatherDone(r) \/ MarkError(r), pc'[r] = "ended"
    PROVE  EndRow(x)'
<1>0. /\ x = <<r, x[2], x[3]>> /\ x[2] \in 1..MaxIterations /\ x[3] \in 1..MaxCalls
      /\ pc \in [Runs -> Location] /\ overflowUsed \in [Runs -> BOOLEAN]
      /\ iter \in [Runs -> 0..MaxIterations]
  BY RowOf DEF TypeOK
<1>1. CASE CompleteTurn(r)
  <2>1. Elsewhere(r)
    <3>1. task' = task
      BY <1>0, <1>1 DEF CompleteTurn, Goto
    <3>2. /\ calls' = calls /\ iter' = iter /\ overflowUsed' = overflowUsed
          /\ saved' = saved /\ streamed' = streamed /\ tool' = tool
          /\ up' = up /\ faults' = faults
      BY <1>1, CompletedRow
    <3>3. \A n \in 1..MaxIterations : n # iter[r] => turn'[<<r, n>>] = turn[<<r, n>>]
      BY <1>1, CompletedRow
    <3> QED BY <3>1, <3>2, <3>3 DEF Elsewhere
  <2>2. calls[r] = <<>>
    BY <1>0, <1>1 DEF CompleteTurn, Raise, Goto
  <2>3. x[3] > Len(calls[r])
    BY <1>0, <2>2
  <2> QED BY <2>1, <2>3, EndRowFollows
<1>2. CASE GatherDone(r)
  <2>1. iter' = iter
    BY <1>0, <1>2 DEF GatherDone, NextIteration, Goto
  <2>2. /\ calls' = calls /\ up' = up /\ faults' = faults /\ task' = task /\ saved' = saved
        /\ tool' = tool /\ streamed' = streamed /\ overflowUsed' = overflowUsed /\ turn' = turn
    BY <1>2 DEF GatherDone, rows
  <2>3. Elsewhere(r)
    BY <2>1, <2>2 DEF Elsewhere
  <2>4. x[2] = iter[r] => tool[<<r, x[2], x[3]>>] \in {"none", "completed", "error"}
    BY <1>0, <1>2, GatheredRows
  <2>5. x[2] = iter[r] => Answered(x)'
    BY <1>0, <2>2, <2>4 DEF Answered, Unsettled
  <2> QED BY <2>3, <2>5, EndRowFollows
<1>3. CASE MarkError(r)
  <2>1. iter' = iter
    BY <1>0, <1>3 DEF MarkError, NextIteration, Goto
  <2>2. overflowUsed[r] => overflowUsed'[r]
    BY <1>0, <1>3 DEF MarkError, ArmOverflowRetry
  <2>3. Elsewhere(r)
    BY <1>3, <2>1, <2>2, MarkedRow DEF Elsewhere
  <2>4. turn'[<<r, iter[r]>>] = "error"
    BY <1>3, MarkedRow
  <2> QED BY <2>3, <2>4, EndRowFollows
<1> QED BY <1>1, <1>2, <1>3

LEMMA StopRow ==
    ASSUME TypeOK, NEW r \in Runs, RunInv(r), NEW x \in Tools, x[1] = r,
           Cancel(r) \/ StoreFail(r), pc'[r] = "ended"
    PROVE  EndRow(x)'
<1>0. /\ x = <<r, x[2], x[3]>> /\ x[2] \in 1..MaxIterations /\ x[3] \in 1..MaxCalls
      /\ pc \in [Runs -> Location] /\ outcome \in [Runs -> Outcome] /\ faults \in Nat
  BY RowOf DEF TypeOK
<1>1. pc[r] \in {"queued"} \cup Outside \cup Cleanup
  BY <1>0 DEF Cancel, StoreFail, Raise, Goto
<1>2. pc[r] \in Cleanup => outcome'[r] = "cut"
  BY <1>0, <1>1 DEF Cancel, StoreFail, Raise, Goto, End, Outside, Cleanup, Body, Handler
<1>3. /\ iter' = iter /\ overflowUsed' = overflowUsed /\ calls' = calls /\ streamed' = streamed
      /\ up' = up /\ (faults' = faults \/ faults' = faults + 1)
      /\ Write(r) \/ UNCHANGED rows
      /\ UNCHANGED task
  BY <1>1 DEF Cancel, StoreFail, Outside, Cleanup
<1>4. Elsewhere(r)
  BY <1>3, StoppedElsewhere
<1>5. ASSUME x[2] = iter[r], pc[r] \notin Cleanup
      PROVE  Answered(x)'
  <2>1. LoopInv(r) /\ ToolRowInv(r, x[2], x[3])
    BY <1>0 DEF RunInv
  <2>2. pc[r] \in {"compact", "open"}
    BY <1>0, <1>1, <1>5, <2>1 DEF LoopInv, Outside
  <2>3. tool[x] = "none"
    BY <1>0, <1>5, <2>1, <2>2 DEF ToolRowInv
  <2>4. tool' = tool
    BY <1>3, <2>2, WriteAt DEF rows
  <2> QED BY <2>3, <2>4 DEF Answered, Unsettled
<1> QED BY <1>2, <1>4, <1>5, EndRowFollows

LEMMA OwnEnd ==
    ASSUME TypeOK, NEW r \in Runs, RunInv(r), NEW x \in Tools, x[1] = r, SweepRow(x),
           Submit(r) \/ Step(r) \/ Cancel(r) \/ StoreFail(r)
    PROVE  EndRow(x)'
<1>0. pc \in [Runs -> Location] /\ iter \in [Runs -> 0..MaxIterations]
  BY DEF TypeOK
<1>1. CASE pc'[r] # "ended"
  BY <1>1 DEF EndRow
<1>2. CASE Cancel(r) \/ StoreFail(r)
  BY <1>1, <1>2, StopRow
<1>3. CASE InterruptTurn(r) \/ CheckTool(r) \/ InterruptTool(r)
  BY <1>1, <1>3, SweepEnds
<1>4. CASE CompleteTurn(r) \/ GatherDone(r) \/ MarkError(r)
  BY <1>1, <1>4, LoopEnds
<1>5. CASE StartLoop(r)
  <2>1. iter[r] = 0 /\ MaxIterations # 0
    BY <1>5, BoundsAssumption DEF StartLoop, RunInv, LoopInv
  <2>2. pc'[r] # "ended"
    BY <1>0, <1>5, <2>1 DEF StartLoop, NextIteration, Goto
  <2> QED BY <1>1, <2>2
<1>6. CASE Flush(r)
  <2>1. pc'[r] # "ended"
    BY <1>0, <1>6 DEF Flush, Goto, AfterFlush, FlushPoints
  <2> QED BY <1>1, <2>1
<1>7. CASE \/ Submit(r) \/ AcquireLock(r) \/ CreateUserTurn(r) \/ Compact(r)
           \/ OpenAssistantTurn(r) \/ TextDelta(r) \/ ToolUse(r) \/ StreamEnd(r)
           \/ ProviderError(r) \/ CreateToolRun(r) \/ AddCallPart(r) \/ GatherRaise(r)
  <2>1. pc'[r] # "ended"
    BY <1>0, <1>7 DEF Submit, AcquireLock, CreateUserTurn, Compact, OpenAssistantTurn, TextDelta,
       ToolUse, StreamEnd, ProviderError, CreateToolRun, AddCallPart, GatherRaise, Raise, Goto
  <2> QED BY <1>1, <2>1
<1> QED BY <1>2, <1>3, <1>4, <1>5, <1>6, <1>7 DEF Step

\* The steps of a child, by what they leave.
LEMMA ChildStep ==
    ASSUME TypeOK, NEW x \in Tools, RunInv(x[1]), LeftInv(x), TaskStep(x)
    PROVE  LeftInv(x)'
<1>0. /\ x = <<x[1], x[2], x[3]>> /\ x[1] \in Runs /\ x[2] \in 1..MaxIterations
      /\ x[3] \in 1..MaxCalls /\ task \in [Tools -> TaskLocation] /\ tool \in [Tools -> ToolStatus]
      /\ faults \in Nat
  BY RowOf DEF TypeOK
<1>1. /\ pc' = pc /\ iter' = iter /\ calls' = calls /\ sweep' = sweep /\ outcome' = outcome
      /\ turn' = turn /\ up' = up /\ faults' = faults /\ Live(x)
  BY DEF TaskStep
<1>2. tool'[x] = Recorded(x) /\ task'[x] \in TaskNext(x)
  BY <1>0 DEF TaskStep
<1>3. /\ task[x] = "start" => task'[x] = "status" /\ tool'[x] = "running"
      /\ task[x] = "status" => task'[x] = "handler" /\ tool'[x] = tool[x]
      /\ task[x] = "handler" => task'[x] \in {"completed", "error"} /\ tool'[x] = tool[x]
      /\ task[x] \in {"completed", "error"} => task'[x] = "result" /\ tool'[x] = task[x]
      /\ task[x] = "result" => task'[x] = "done" /\ tool'[x] = tool[x]
  BY <1>2 DEF TaskNext, Recorded
<1>4. task[x] \in {"start", "status", "handler", "completed", "error", "result"}
  BY <1>0, <1>1 DEF Live, TaskLocation
<1>5. ChildRow(x)'
  <2>1. ChildRow(x)
    BY LeftParts
  <2> QED BY <1>3, <1>4, <2>1 DEF ChildRow, Settled
<1>6. ASSUME pc[x[1]] # "gather"
      PROVE  Answered(x)'
  <2>1. faults > 0
    BY <1>0, <1>1, <1>6, NoChildren
  <2>2. task[x] = "result" => tool'[x] \in Settled
    BY <1>3 DEF LeftInv
  <2>3. task[x] # "result" => task'[x] \notin {"none", "done", "failed"}
    BY <1>3, <1>4
  <2> QED BY <1>1, <2>1, <2>2, <2>3 DEF Answered, Outlives, Live, Settled, Unsettled
<1>7. SweepRow(x)' /\ EndRow(x)'
  BY <1>1, <1>6 DEF SweepRow, EndRow
<1> QED BY <1>5, <1>7, LeftParts DEF LeftInv, ChildRow, SweepRow, EndRow

LEMMA ChildFails ==
    ASSUME TypeOK, NEW x \in Tools, LeftInv(x), TaskFail(x)
    PROVE  LeftInv(x)'
<1>1. faults' > 0 /\ task'[x] = "failed"
  BY DEF TaskFail, TypeOK
<1>2. Answered(x)'
  BY <1>1 DEF Answered, Outlives
<1> QED BY <1>1, <1>2 DEF LeftInv

\* Everything LeftInv(x) reads stays, but that a store call may have failed.
LEMMA LeftFrame ==
    ASSUME faults \in Nat, faults' = faults \/ faults' = faults + 1, up' = up,
           NEW x \in Tools, LeftInv(x), RowKept(x),
           pc'[x[1]] = pc[x[1]], iter'[x[1]] = iter[x[1]], calls'[x[1]] = calls[x[1]],
           sweep'[x[1]] = sweep[x[1]], outcome'[x[1]] = outcome[x[1]],
           turn'[<<x[1], x[2]>>] = turn[<<x[1], x[2]>>]
    PROVE  LeftInv(x)'
<1>1. Answered(x) => Answered(x)'
  BY AnsweredKept
<1> QED BY <1>1 DEF LeftInv, RowKept

LEMMA OwnLeft ==
    ASSUME TypeOK, NEW r \in Runs, RunInv(r), NEW x \in Tools, x[1] = r, LeftInv(x),
           Submit(r) \/ Step(r) \/ Cancel(r) \/ StoreFail(r)
    PROVE  LeftInv(x)'
<1>1. ChildRow(x) /\ SweepRow(x)
  BY LeftParts
<1>2. ChildRow(x)'
  BY <1>1, OwnChild, ChildRowFollows
<1>3. SweepRow(x)'
  BY <1>1, OwnSweep
<1>4. EndRow(x)'
  BY <1>1, OwnEnd
<1> QED BY <1>2, <1>3, <1>4 DEF LeftInv, ChildRow, SweepRow, EndRow

LEMMA OthersLeft ==
    ASSUME TypeOK, NEW r \in Runs, NEW x \in Tools, x[1] # r, LeftInv(x),
           Submit(r) \/ Step(r) \/ Cancel(r) \/ StoreFail(r)
    PROVE  LeftInv(x)'
<1>0. /\ x = <<x[1], x[2], x[3]>> /\ x[1] \in Runs /\ x[2] \in 1..MaxIterations
      /\ x[3] \in 1..MaxCalls /\ faults \in Nat
  BY RowOf DEF TypeOK
<1>1. Same(x[1])
  BY <1>0, OthersSame
<1>2. RowKept(x) /\ turn'[<<x[1], x[2]>>] = turn[<<x[1], x[2]>>]
  BY <1>0, <1>1 DEF Same, RowKept
<1>3. up' = up /\ (faults' = faults \/ faults' = faults + 1)
  BY Environment
<1> QED BY <1>0, <1>1, <1>2, <1>3, LeftFrame DEF Same

LEMMA NextKeepsLeft ==
    ASSUME TypeOK, \A r \in Runs : RunInv(r), NEW x \in Tools, LeftInv(x), [Next]_vars
    PROVE  LeftInv(x)'
<1>0. /\ x[1] \in Runs /\ faults \in Nat
      /\ task \in [Tools -> TaskLocation] /\ tool \in [Tools -> ToolStatus]
  BY RowOf DEF TypeOK
<1>1. ASSUME NEW r \in Runs, Submit(r) \/ Step(r) \/ Cancel(r) \/ StoreFail(r)
      PROVE  LeftInv(x)'
  BY <1>1, OwnLeft, OthersLeft
<1>2. ASSUME NEW y \in Tools, TaskStep(y) \/ TaskFail(y)
      PROVE  LeftInv(x)'
  <2>1. CASE y = x
    BY <1>0, <1>2, <2>1, ChildStep, ChildFails
  <2>2. CASE y # x
    <3>1. RowKept(x)
      BY <1>0, <1>2, <2>2 DEF TaskStep, TaskFail, RowKept, rows
    <3>2. /\ pc' = pc /\ iter' = iter /\ calls' = calls /\ sweep' = sweep /\ outcome' = outcome
          /\ turn' = turn /\ up' = up /\ (faults' = faults \/ faults' = faults + 1)
      BY <1>2 DEF TaskStep, TaskFail, local, rows, env
    <3> QED BY <1>0, <3>1, <3>2, LeftFrame
  <2> QED BY <2>1, <2>2
<1>3. CASE Kill
  <2>1. /\ up' = FALSE /\ tool' = tool
        /\ task'[x] = IF Live(x) THEN "done" ELSE task[x]
        /\ pc'[x[1]] \in {"idle", "ended"}
    BY <1>0, <1>3 DEF Kill, rows
  <2> QED BY <1>0, <2>1 DEF LeftInv, Live
<1>4. CASE Restart
  <2>1. /\ task' = task /\ pc' = pc /\ ~up
        /\ tool'[x] = IF Unsettled(tool[x]) THEN "interrupted" ELSE tool[x]
    BY <1>0, <1>4 DEF Restart, local
  <2>2. ~Unsettled(tool'[x])
    BY <2>1 DEF Unsettled
  <2>3. Answered(x)'
    BY <2>2 DEF Answered, Unsettled
  <2> QED BY <2>1, <2>3 DEF LeftInv, Settled, Unsettled
<1>5. CASE UNCHANGED vars
  <2>1. /\ RowKept(x) /\ pc' = pc /\ iter' = iter /\ calls' = calls /\ sweep' = sweep
        /\ outcome' = outcome /\ turn' = turn /\ up' = up /\ faults' = faults
    BY <1>5 DEF vars, local, rows, env, RowKept
  <2> QED BY <1>0, <2>1, LeftFrame
<1> QED BY <1>1, <1>2, <1>3, <1>4, <1>5 DEF Next

LEMMA InitLeft ==
    ASSUME Init, NEW x \in Tools
    PROVE  LeftInv(x)
<1>1. task[x] = "none" /\ tool[x] = "none" /\ pc[x[1]] = "idle"
  BY RowOf DEF Init
<1> QED BY <1>1 DEF LeftInv

--------------------------------------------------------------------------------
(* The invariant is inductive.                                                  *)

LEMMA RunKeepsOwn ==
    ASSUME TypeOK, NEW r \in Runs, RunInv(r), Submit(r) \/ Step(r) \/ Cancel(r) \/ StoreFail(r)
    PROVE  RunInv(r)'
<1>1. CASE Submit(r) \/ AcquireLock(r) \/ CreateUserTurn(r) \/ StartLoop(r) \/ Compact(r)
           \/ OpenAssistantTurn(r)
  BY <1>1, SubmitKeeps, AcquireLockKeeps, CreateUserTurnKeeps, StartLoopKeeps, CompactKeeps,
     OpenAssistantTurnKeeps
<1>2. CASE TextDelta(r) \/ ToolUse(r) \/ StreamEnd(r) \/ ProviderError(r) \/ Flush(r)
           \/ CreateToolRun(r) \/ AddCallPart(r)
  BY <1>2, TextDeltaKeeps, ToolUseKeeps, StreamEndKeeps, ProviderErrorKeeps, FlushKeeps,
     CreateToolRunKeeps, AddCallPartKeeps
<1>3. CASE CompleteTurn(r) \/ GatherDone(r) \/ GatherRaise(r) \/ MarkError(r)
  BY <1>3, CompleteTurnKeeps, GatherDoneKeeps, GatherRaiseKeeps, MarkErrorKeeps
<1>4. CASE InterruptTurn(r) \/ CheckTool(r) \/ InterruptTool(r)
  BY <1>4, InterruptTurnKeeps, CheckToolKeeps, InterruptToolKeeps
<1>5. CASE Cancel(r) \/ StoreFail(r)
  BY <1>5, CancelKeeps, StoreFailKeeps
<1> QED BY <1>1, <1>2, <1>3, <1>4, <1>5 DEF Step

LEMMA NextKeepsRunInv ==
    ASSUME TypeOK, \A r \in Runs : RunInv(r), [Next]_vars, NEW q \in Runs
    PROVE  RunInv(q)'
<1>1. ASSUME NEW r \in Runs, Submit(r) \/ Step(r) \/ Cancel(r) \/ StoreFail(r)
      PROVE  RunInv(q)'
  BY <1>1, RunKeepsOwn, OthersKeepInv
<1>2. ASSUME NEW x \in Tools, TaskStep(x) \/ TaskFail(x)
      PROVE  RunInv(q)'
  BY <1>2, TaskStepKeeps, TaskFailKeeps
<1>3. CASE Kill \/ Restart
  BY <1>3, KillKeeps, RestartKeeps
<1>4. CASE UNCHANGED vars
  <2>1. Same(q) /\ up' = up /\ faults' = faults /\ faults \in Nat
    BY <1>4 DEF Same, TypeOK
  <2> QED BY <2>1, Frame
<1> QED BY <1>1, <1>2, <1>3, <1>4 DEF Next

\* The inductive invariant holds in every reachable state (every run's locals and
\* rows, for runtime.py:83-270 and turn.py with the store's transactions).
THEOREM InvariantHolds == Spec => []IInv
<1>1. Init => IInv
  <2>1. Init => MutualExclusion
    BY HoldingLocations, NoRunAssumption DEF Init, MutualExclusion
  <2> QED BY <2>1, InitType, InitRunInv, InitLeft DEF IInv
<1>2. IInv /\ [Next]_vars => IInv'
  BY NextType, NextKeepsLock, NextKeepsRunInv, NextKeepsLeft DEF IInv
<1> QED BY <1>1, <1>2, PTL DEF Spec
--------------------------------------------------------------------------------
(* What follows for the transcript.                                             *)

\* The transcript a later iteration is built from has no unanswered tool call in a
\* completed turn (turn.py:388, runtime.py:181-225).
THEOREM CallsAreAnswered == Spec => []CallsAnswered
<1>1. IInv => CallsAnswered
  <2> SUFFICES ASSUME IInv, NEW x \in Tools,
                      x[2] < iter[x[1]], turn[<<x[1], x[2]>>] = "completed"
               PROVE  tool[x] \in {"none", "completed", "error"}
    BY DEF CallsAnswered
  <2>1. ToolRowInv(x[1], x[2], x[3]) /\ x = <<x[1], x[2], x[3]>>
    BY RowOf DEF IInv, RunInv
  <2> QED BY <2>1 DEF ToolRowInv
<1> QED BY <1>1, InvariantHolds, PTL

\* A finished run leaves a tool run unsettled only in an errored turn, when it was
\* stopped while it recorded that call, when its cleanup was cut, or when the child has
\* outlived a failed sibling (turn.py:267-289, 345-368, 388-393).
THEOREM UnsettledToolsExplained == Spec => []UnsettledToolExplained
<1>1. IInv => UnsettledToolExplained
  <2> SUFFICES ASSUME IInv, NEW x \in Tools, Unsettled(tool[x]), up, pc[x[1]] = "ended"
               PROVE  \/ turn[<<x[1], x[2]>>] = "error"
                      \/ x[2] = iter[x[1]] /\ x[3] > Len(calls[x[1]])
                      \/ outcome[x[1]] = "cut"
                      \/ Outlives(x)
    BY DEF UnsettledToolExplained
  <2>1. LeftInv(x)
    BY DEF IInv
  <2> QED BY <2>1 DEF LeftInv, Answered
<1> QED BY <1>1, InvariantHolds, PTL

\* A completed turn holds all the text the client was sent for it, and no text is
\* ever written twice (turn.py:81-112, 251-344).
THEOREM TextIsWhole == Spec => [](CompletedTextSaved /\ TextNotDuplicated)
<1>1. IInv => CompletedTextSaved /\ TextNotDuplicated
  <2> SUFFICES ASSUME IInv, NEW t \in Turns
               PROVE  /\ turn[t] = "completed" => saved[t] = streamed[t]
                      /\ saved[t] <= streamed[t]
    BY DEF CompletedTextSaved, TextNotDuplicated
  <2>1. TextRowInv(t[1], t[2]) /\ t = <<t[1], t[2]>>
    BY RowOf DEF IInv, RunInv
  <2> QED BY <2>1 DEF TextRowInv
<1> QED BY <1>1, InvariantHolds, PTL

\* However often a provider overflows, a run is retried after at most one errored
\* turn (turn.py:185-205, runtime.py:226-244).
THEOREM RetriesOnce == Spec => []OneRetryPerRun
<1>1. IInv => OneRetryPerRun
  <2> SUFFICES ASSUME IInv, NEW t \in Turns, NEW u \in Turns,
                      t[1] = u[1], t[2] < u[2], u[2] < iter[t[1]],
                      turn[t] = "error", turn[u] = "error"
               PROVE  FALSE
    BY DEF OneRetryPerRun
  <2>1. /\ t = <<t[1], t[2]>> /\ u = <<t[1], u[2]>>
        /\ t[2] \in 1..MaxIterations /\ u[2] \in 1..MaxIterations /\ t[1] \in Runs
    BY RowOf
  <2>2. RetryRowInv(t[1], t[2]) /\ iter[t[1]] \in Nat
    BY <2>1 DEF IInv, RunInv, TypeOK
  <2>3. t[2] < iter[t[1]]
    BY <2>1, <2>2
  <2>4. u[2] = t[2]
    BY <2>1, <2>2, <2>3 DEF RetryRowInv
  <2> QED BY <2>1, <2>4
<1> QED BY <1>1, InvariantHolds, PTL

\* A turn row is left running only by the current iteration of a run that is under
\* way, was cancelled while the row was being created, or whose cleanup was cancelled
\* or could not write (turn.py:230-249, 345-360).
THEOREM RunningTurnsExplained == Spec => []RunningTurnExplained
<1>1. IInv => RunningTurnExplained
  <2> SUFFICES ASSUME IInv, NEW t \in Turns, turn[t] = "running", up
               PROVE  /\ t[2] = iter[t[1]]
                      /\ \/ pc[t[1]] \in Body \cup Handler \cup Cleanup
                         \/ outcome[t[1]] \in {"dropped", "cut"}
    BY DEF RunningTurnExplained
  <2>1. /\ TurnRowInv(t[1], t[2]) /\ t = <<t[1], t[2]>> /\ LoopInv(t[1])
        /\ iter[t[1]] \in Nat /\ t[2] \in 1..MaxIterations /\ pc[t[1]] \in Location
    BY RowOf DEF IInv, RunInv, TypeOK
  <2>2. t[2] = iter[t[1]]
    BY <2>1 DEF TurnRowInv
  <2>3. pc[t[1]] \notin {"idle", "queued", "user", "setup"}
    BY <2>1, <2>2 DEF LoopInv
  <2>4. pc[t[1]] \notin {"compact", "open"}
    BY <2>1, <2>2 DEF TurnRowInv
  <2>5. pc[t[1]] = "ended" => outcome[t[1]] \in {"dropped", "cut"}
    BY <2>1, <2>2 DEF TurnRowInv
  <2> QED BY <2>1, <2>2, <2>3, <2>4, <2>5 DEF Location, Holding, Outside
<1> QED BY <1>1, InvariantHolds, PTL
--------------------------------------------------------------------------------
(* What no step may do to a row.                                                *)

Forward(t) ==
    /\ turn[t] \in {"error", "interrupted"} => turn'[t] = turn[t]
    /\ turn[t] = "completed" /\ turn'[t] # turn[t] =>
          turn'[t] = "error" /\ pc[t[1]] = "mark_error" /\ t[2] = iter[t[1]]

LEMMA WriteForward ==
    ASSUME TypeOK, NEW r \in Runs, RunInv(r), Write(r), NEW t \in Turns
    PROVE  Forward(t)
<1>1. CASE turn'[t] = turn[t]
  BY <1>1 DEF Forward
<1>2. CASE turn'[t] # turn[t]
  <2>1. t = <<r, iter[r]>> /\ pc[r] \in {"open", "complete", "mark_error", "interrupt_turn"}
    BY <1>2, WriteHolds
  <2>2. iter[r] \in 1..MaxIterations
    BY <2>1, RowsTyped DEF RunInv, LoopInv, Active, Body, Handler, Cleanup
  <2>3. TurnRowInv(r, iter[r])
    BY <2>2 DEF RunInv
  <2>4. CASE pc[r] \in {"open", "complete"}
    <3>1. turn[t] \in {"none", "running"}
      BY <2>1, <2>3, <2>4 DEF TurnRowInv, Streaming, Body
    <3> QED BY <3>1 DEF Forward
  <2>5. CASE pc[r] = "mark_error"
    <3>1. turn[t] \in {"running", "completed"}
      BY <2>1, <2>3, <2>5 DEF TurnRowInv, Handler
    <3>2. turn' = [turn EXCEPT ![Cur(r)] = "error"]
      BY <2>5, WriteAt
    <3>3. turn'[t] = "error"
      BY <2>1, <3>2 DEF TypeOK, Cur
    <3> QED BY <2>1, <2>5, <3>1, <3>3 DEF Forward
  <2>6. CASE pc[r] = "interrupt_turn"
    <3>1. turn' = [turn EXCEPT ![Cur(r)] = Interrupted(turn[Cur(r)])]
      BY <2>6, WriteAt
    <3>2. turn'[t] = Interrupted(turn[t])
      BY <2>1, <3>1 DEF TypeOK, Cur
    <3> QED BY <3>2 DEF Forward, Interrupted
  <2> QED BY <2>1, <2>4, <2>5, <2>6
<1> QED BY <1>1, <1>2

\* An error or an interruption is final for a turn row, and a completed row changes
\* only to error, by its own run's mark_error, which the doom loop, the length stop and
\* a failing child bring about (runtime.py:226-266, turn.py:345-360, store.py:88-127).
THEOREM TurnRowsMoveForward == Spec => TurnRowsForward
<1>1. ASSUME IInv, [Next]_vars
      PROVE  [\A t \in Turns : Forward(t)]_vars
  <2> SUFFICES ASSUME NEW t \in Turns
               PROVE  Forward(t) \/ UNCHANGED vars
    OBVIOUS
  <2>1. ASSUME NEW r \in Runs, Submit(r) \/ Step(r) \/ Cancel(r) \/ StoreFail(r)
        PROVE  Forward(t)
    <3>1. Write(r) \/ turn' = turn
      BY <2>1, RunWrites
    <3>2. ASSUME turn' = turn PROVE Forward(t)
      BY <3>2 DEF Forward
    <3>3. TypeOK /\ RunInv(r)
      BY <1>1 DEF IInv
    <3> QED BY <3>1, <3>2, <3>3, WriteForward
  <2>2. ASSUME NEW x \in Tools, TaskStep(x) \/ TaskFail(x)
        PROVE  Forward(t)
    BY <2>2 DEF TaskStep, TaskFail, Forward
  <2>3. ASSUME Kill PROVE Forward(t)
    BY <2>3 DEF Kill, Forward
  <2>4. ASSUME Restart PROVE Forward(t)
    BY <2>4 DEF Restart, Forward, Interrupted
  <2> QED BY <1>1, <2>1, <2>2, <2>3, <2>4 DEF Next
<1>2. ASSUME [\A t \in Turns : Forward(t)]_vars
      PROVE  [\A t \in Turns :
                 /\ turn[t] \in {"error", "interrupted"} => turn'[t] = turn[t]
                 /\ turn[t] = "completed" /\ turn'[t] # turn[t] =>
                       turn'[t] = "error" /\ pc[t[1]] = "mark_error" /\ t[2] = iter[t[1]]]_vars
  BY <1>2 DEF Forward
<1> QED BY <1>1, <1>2, InvariantHolds, PTL DEF Spec, TurnRowsForward

Final(x) ==
    tool[x] \in Settled /\ tool'[x] # tool[x] =>
        /\ faults > 0
        /\ \/ tool[x] = "interrupted" /\ Live(x)
           \/ tool'[x] = "interrupted" /\ pc[x[1]] = "interrupt_tool"

\* While no store call has failed, only the children of a gather are alive.
LEMMA LiveChild ==
    ASSUME IInv, NEW x \in Tools, Live(x), faults = 0
    PROVE  pc[x[1]] = "gather" /\ lock = x[1]
<1>1. /\ TypeOK /\ TaskRowInv(x[1], x[2], x[3])
      /\ x = <<x[1], x[2], x[3]>> /\ x[1] \in Runs /\ x[2] \in 1..MaxIterations
  BY RowOf DEF IInv, RunInv
<1>2. pc[x[1]] = "gather"
  BY <1>1 DEF TaskRowInv
<1>3. lock = x[1]
  BY <1>1, <1>2 DEF IInv, MutualExclusion, Holding, Body
<1> QED BY <1>2, <1>3

\* A live child finds its row settled only where the cleanup has been before it, and
\* that takes a failed store call.
LEMMA LateChild ==
    ASSUME IInv, NEW x \in Tools, Live(x), tool[x] \in Settled, Recorded(x) # tool[x]
    PROVE  faults > 0 /\ tool[x] = "interrupted"
<1>0. /\ x = <<x[1], x[2], x[3]>> /\ x[1] \in Runs /\ x[2] \in 1..MaxIterations
      /\ x[3] \in 1..MaxCalls
  BY RowOf
<1>a. TypeOK /\ RunInv(x[1]) /\ LeftInv(x)
  BY <1>0 DEF IInv
<1>b. TaskRowInv(x[1], x[2], x[3]) /\ ToolRowInv(x[1], x[2], x[3])
  BY <1>0, <1>a DEF RunInv
<1>c. task[x] \in TaskLocation /\ faults \in Nat /\ iter[x[1]] \in 0..MaxIterations
  BY <1>0, <1>a DEF TypeOK
<1>1. /\ TypeOK /\ TaskRowInv(x[1], x[2], x[3]) /\ ToolRowInv(x[1], x[2], x[3]) /\ LeftInv(x)
      /\ x = <<x[1], x[2], x[3]>> /\ x[1] \in Runs /\ x[2] \in 1..MaxIterations
      /\ task[x] \in TaskLocation /\ faults \in Nat /\ iter[x[1]] \in Nat
  BY <1>0, <1>a, <1>b, <1>c
<1>2. task[x] \in {"start", "completed", "error"}
  BY DEF Recorded
<1>3. tool[x] = "interrupted"
  BY <1>1, <1>2 DEF LeftInv, Settled
<1>4. ASSUME faults = 0 PROVE FALSE
  <2>1. pc[x[1]] = "gather"
    BY <1>4, LiveChild
  <2>2. ~(x[2] < iter[x[1]])
    BY <1>1 DEF TaskRowInv
  <2>3. ~(x[2] > iter[x[1]])
    BY <1>1 DEF TaskRowInv, Live
  <2>4. x[2] = iter[x[1]]
    BY <1>1, <2>2, <2>3
  <2>5. tool[x] \in {"pending", "running"}
    BY <1>1, <1>2, <2>1, <2>4 DEF ToolRowInv
  <2> QED BY <1>3, <2>5
<1> QED BY <1>1, <1>3, <1>4

LEMMA WriteFinal ==
    ASSUME IInv, NEW r \in Runs, Write(r), NEW x \in Tools
    PROVE  Final(x)
<1>1. TypeOK /\ RunInv(r) /\ faults \in Nat
  BY DEF IInv, TypeOK
<1> SUFFICES ASSUME tool'[x] # tool[x], tool[x] \in Settled
             PROVE  faults > 0 /\ tool'[x] = "interrupted" /\ pc[x[1]] = "interrupt_tool"
  BY DEF Final
<1>2. \/ pc[r] = "create_tool" /\ x = <<r, iter[r], Len(calls[r]) + 1>>
      \/ pc[r] = "interrupt_tool" /\ x = <<r, iter[r], sweep[r]>>
  BY <1>1, WriteHolds
<1>3. x[1] = r /\ x[2] = iter[r] /\ ToolRowInv(r, x[2], x[3]) /\ x = <<r, x[2], x[3]>>
  BY <1>1, <1>2, RowOf DEF RunInv
<1>4. CASE pc[r] = "create_tool"
  <2>1. x[3] = Len(calls[r]) + 1
    BY <1>2, <1>4
  <2>2. tool[x] = "none"
    BY <1>3, <1>4, <2>1 DEF ToolRowInv, Streaming, Body
  <2> QED BY <2>2 DEF Settled
<1>5. CASE pc[r] = "interrupt_tool"
  <2>1. x[3] = sweep[r]
    BY <1>2, <1>5
  <2>2. faults = 0 => Unsettled(tool[x])
    BY <1>3, <1>5, <2>1 DEF ToolRowInv
  <2>3. faults > 0
    BY <1>1, <2>2 DEF Settled, Unsettled
  <2>4. tool' = [tool EXCEPT ![Slot(r, sweep[r])] = "interrupted"]
    BY <1>5, WriteAt
  <2>5. tool'[x] = "interrupted"
    BY <1>1, <2>4 DEF TypeOK
  <2> QED BY <1>3, <1>5, <2>3, <2>5
<1> QED BY <1>2, <1>4, <1>5

LEMMA ChildrenWrite ==
    ASSUME NEW r \in Runs, CancelChildren(r), NEW x \in Tools, tool'[x] # tool[x]
    PROVE  x \in Called(r) /\ Live(x) /\ tool'[x] = Recorded(x)
  BY DEF CancelChildren

\* A settled tool run changes only after a store call has failed, and then only where
\* a child has outlived its gather: it goes on in a row the cleanup has interrupted,
\* or the cleanup interrupts what it has settled since (turn.py:361-368, 388-456);
\* never by a cancellation alone or by the reconciliation at startup (store.py:98-110).
THEOREM ToolRowsStayFinal == Spec => ToolRowsFinal
<1>1. ASSUME IInv, [Next]_vars
      PROVE  [\A x \in Tools : Final(x)]_vars
  <2> SUFFICES ASSUME NEW x \in Tools
               PROVE  Final(x) \/ UNCHANGED vars
    OBVIOUS
  <2>1. ASSUME NEW r \in Runs, Submit(r) \/ Step(r) \/ Cancel(r) \/ StoreFail(r)
        PROVE  Final(x)
    <3>1. CASE Write(r)
      BY <1>1, <3>1, WriteFinal
    <3>2. CASE tool' = tool
      BY <3>2 DEF Final
    <3>3. CASE CancelChildren(r)
      <4>1. tool'[x] # tool[x] => Live(x) /\ tool'[x] = Recorded(x)
        BY <3>3, ChildrenWrite
      <4> QED BY <1>1, <4>1, LateChild DEF Final
    <3> QED BY <2>1, <3>1, <3>2, <3>3, RunWrites
  <2>2. ASSUME NEW y \in Tools, TaskStep(y)
        PROVE  Final(x)
    <3>1. Live(y) /\ tool' = [tool EXCEPT ![y] = Recorded(y)]
      BY <2>2 DEF TaskStep
    <3>2. tool \in [Tools -> ToolStatus]
      BY <1>1 DEF IInv, TypeOK
    <3>3. x # y => tool'[x] = tool[x]
      BY <3>1, <3>2
    <3>4. tool'[y] = Recorded(y)
      BY <3>1, <3>2
    <3> QED BY <1>1, <3>1, <3>3, <3>4, LateChild DEF Final
  <2>3. ASSUME NEW y \in Tools, TaskFail(y)
        PROVE  Final(x)
    BY <2>3 DEF TaskFail, Final
  <2>4. ASSUME Kill PROVE Final(x)
    BY <2>4 DEF Kill, Final
  <2>5. ASSUME Restart PROVE Final(x)
    BY <2>5 DEF Restart, Final, Unsettled, Settled
  <2> QED BY <1>1, <2>1, <2>2, <2>3, <2>4, <2>5 DEF Next
<1>2. ASSUME [\A x \in Tools : Final(x)]_vars
      PROVE  [\A x \in Tools : tool[x] \in Settled /\ tool'[x] # tool[x] =>
                /\ faults > 0
                /\ \/ tool[x] = "interrupted" /\ Live(x)
                   \/ tool'[x] = "interrupted" /\ pc[x[1]] = "interrupt_tool"]_vars
  BY <1>2 DEF Final
<1> QED BY <1>1, <1>2, InvariantHolds, PTL DEF Spec, ToolRowsFinal

Locked(t) == (turn'[t] # turn[t] /\ up) => lock = t[1]
ToolLocked(x) == (tool'[x] # tool[x] /\ up /\ faults' = 0) => lock = x[1]

\* The transcript of a session is written by the holder of its lock only
\* (runtime.py:100-101, turn.py:230-456).
THEOREM RowsWrittenUnderLock == Spec => WritesUnderLock
<1>1. ASSUME IInv, [Next]_vars, NEW t \in Turns
      PROVE  Locked(t) \/ UNCHANGED vars
  <2>0. TypeOK /\ MutualExclusion
    BY <1>1 DEF IInv
  <2>1. ASSUME NEW r \in Runs, Submit(r) \/ Step(r) \/ Cancel(r) \/ StoreFail(r),
               turn'[t] # turn[t]
        PROVE  lock = t[1]
    <3>1. Write(r)
      BY <2>1, RunWrites
    <3>2. t = <<r, iter[r]>> /\ pc[r] \in {"open", "complete", "mark_error", "interrupt_turn"}
      BY <2>0, <2>1, <3>1, WriteHolds
    <3>3. lock = r
      BY <2>0, <3>2 DEF MutualExclusion, Holding, Outside, Body, Handler, Cleanup
    <3> QED BY <3>2, <3>3
  <2>2. ASSUME NEW y \in Tools, TaskStep(y) \/ TaskFail(y)
        PROVE  Locked(t)
    BY <2>2 DEF TaskStep, TaskFail, Locked
  <2>3. ASSUME Kill PROVE Locked(t)
    BY <2>3 DEF Kill, Locked
  <2>4. ASSUME Restart PROVE Locked(t)
    BY <2>4 DEF Restart, Locked
  <2> QED BY <1>1, <2>1, <2>2, <2>3, <2>4 DEF Next, Locked
<1>2. ASSUME IInv, [Next]_vars, NEW x \in Tools
      PROVE  ToolLocked(x) \/ UNCHANGED vars
  <2>0. faults \in Nat /\ TypeOK /\ MutualExclusion
    BY <1>2 DEF IInv, TypeOK
  <2>1. ASSUME NEW r \in Runs, Submit(r) \/ Step(r) \/ Cancel(r) \/ StoreFail(r),
               tool'[x] # tool[x], faults' = 0
        PROVE  lock = x[1]
    <3>1. CASE Write(r)
      <4>1. pc[r] \in {"create_tool", "interrupt_tool"} /\ x[1] = r
        BY <2>0, <2>1, <3>1, WriteHolds
      <4> QED BY <2>0, <4>1 DEF MutualExclusion, Holding, Outside, Body, Handler, Cleanup
    <3>2. CASE CancelChildren(r)
      <4>1. Live(x)
        BY <2>1, <3>2, ChildrenWrite
      <4>2. faults = 0
        BY <2>0, <2>1, RunWrites
      <4> QED BY <1>2, <4>1, <4>2, LiveChild
    <3> QED BY <2>1, <3>1, <3>2, RunWrites
  <2>2. ASSUME NEW y \in Tools, TaskStep(y)
        PROVE  ToolLocked(x)
    <3>1. faults' = faults /\ Live(y) /\ tool' = [tool EXCEPT ![y] = Recorded(y)]
      BY <2>2 DEF TaskStep
    <3>2. x # y => tool'[x] = tool[x]
      BY <2>0, <3>1 DEF TypeOK
    <3>3. faults = 0 => lock = y[1]
      BY <1>2, <3>1, LiveChild
    <3> QED BY <3>1, <3>2, <3>3 DEF ToolLocked
  <2>3. ASSUME NEW y \in Tools, TaskFail(y)
        PROVE  ToolLocked(x)
    BY <2>3 DEF TaskFail, ToolLocked
  <2>4. ASSUME Kill PROVE ToolLocked(x)
    BY <2>4 DEF Kill, ToolLocked
  <2>5. ASSUME Restart PROVE ToolLocked(x)
    BY <2>5 DEF Restart, ToolLocked
  <2> QED BY <1>2, <2>1, <2>2, <2>3, <2>4, <2>5 DEF Next, ToolLocked
<1>3. ASSUME IInv, [Next]_vars
      PROVE  [/\ \A t \in Turns : (turn'[t] # turn[t] /\ up) => lock = t[1]
              /\ \A x \in Tools : (tool'[x] # tool[x] /\ up /\ faults' = 0) => lock = x[1]]_vars
  BY <1>1, <1>2, <1>3 DEF Locked, ToolLocked
<1> QED BY <1>3, InvariantHolds, PTL DEF Spec, WritesUnderLock
================================================================================
