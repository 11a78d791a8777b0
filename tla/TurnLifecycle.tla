----------------------------- MODULE TurnLifecycle -----------------------------
(****************************************************************************)
(* One chat session's user turns: ChatRuntime.run_session and the Turn      *)
(* object it drives, over the rows they keep in the SQLite store.           *)
(*                                                                          *)
(* Every run (one posted message) is a coroutine of a single event loop.    *)
(* pc[r] names the await the run is suspended at; each step commits the     *)
(* store call it awaited and runs the code up to the next await.  A run can *)
(* be cancelled at any await (CancelledError is thrown there, with the      *)
(* awaited transaction committed or not) and every store call can fail.     *)
(* Tool calls execute as sibling tasks of one asyncio.gather.  The process  *)
(* may be killed between any two steps; the store reconciles at startup.    *)
(****************************************************************************)
EXTENDS Integers, Sequences, FiniteSets

CONSTANTS
    Runs,           \* the messages posted to the session
    Inputs,         \* fingerprints of tool calls: (name, canonical JSON input)
    MaxIterations,  \* MAX_TOOL_ITERATIONS
    DoomMatch,      \* DOOM_LOOP_MATCH
    FlushSize,      \* TEXT_PERSIST_FLUSH_CHARS, counted in text deltas
    MaxText,        \* bound: text deltas the model streams in one iteration
    MaxCalls,       \* bound: tool calls the model makes in one iteration
    MaxCancels,     \* bound: cancellations delivered to one run
    MaxFaults,      \* bound: store calls that fail
    MaxKills,       \* bound: process deaths
    NoRun           \* the session lock is free

ASSUME BoundsAssumption ==
    /\ MaxIterations \in Nat \ {0}
    /\ DoomMatch \in Nat \ {0}
    /\ FlushSize \in Nat \ {0}
    /\ MaxText \in Nat /\ MaxCalls \in Nat
    /\ MaxCancels \in Nat /\ MaxFaults \in Nat /\ MaxKills \in Nat

ASSUME NoRunAssumption == NoRun \notin Runs

Turns == Runs \X (1..MaxIterations)                  \* assistant turn rows
Tools == Runs \X (1..MaxIterations) \X (1..MaxCalls) \* tool run rows

TurnStatus == {"none", "running", "completed", "error", "interrupted"}
ToolStatus == {"none", "pending", "running", "completed", "error", "interrupted"}
Settled == {"completed", "error", "interrupted"}

FlushPoints ==
    {"flush_text", "flush_call", "flush_complete", "flush_error", "flush_cleanup"}
AfterFlush(p) ==
    CASE p = "flush_text"     -> "stream"
      [] p = "flush_call"     -> "create_tool"
      [] p = "flush_complete" -> "complete"
      [] p = "flush_error"    -> "mark_error"
      [] p = "flush_cleanup"  -> "interrupt_turn"

\* Awaits outside the try, inside it (an assistant turn is active), in an
\* except branch, and in the finally block.
Outside  == {"user", "setup", "compact", "open"}
Body     == {"stream", "flush_text", "flush_call", "create_tool", "add_call",
             "flush_complete", "complete", "gather"}
Handler  == {"flush_error", "mark_error"}
Cleanup  == {"flush_cleanup", "interrupt_turn", "check_tool", "interrupt_tool"}
Holding  == Outside \cup Body \cup Handler \cup Cleanup
Location == {"idle", "queued", "ended"} \cup Holding

TaskLocation == {"none", "start", "status", "handler", "completed", "error",
                 "result", "done", "failed"}

\* How a run ended; while it unwinds, the exception in flight.  A cancelled run is
\* "dropped" when no assistant turn was active, and its finally block had nothing
\* to do; a run is "cut" when the finally block did not come to its end.
Outcome == {"none", "turn_finished", "max_iterations", "runtime_error",
            "overflow", "loop", "raised", "cancelled", "dropped", "cut", "killed"}

VARIABLES
    lock,         \* RuntimeStore.lock(session): its holder
    pc,           \* the await each run is suspended at
    iter,         \* Turn.iterations
    overflowUsed, \* Turn.overflow_retry_used
    forced,       \* Turn.force_overflow_compaction
    history,      \* Turn.user_turn_tool_runs, as fingerprints
    calls,        \* fingerprints of Turn._active_tool_runs
    sweep,        \* the tool run the cleanup loop is at
    buf,          \* text deltas in the _TextBuffer
    outcome,
    task,         \* the gather child that executes each tool run
    turn,         \* TurnRecord.status
    saved,        \* TurnRecord.text, counted in deltas
    tool,         \* ToolRunRecord.status
    streamed,     \* history: deltas of the turn sent to the client
    up, cancels, faults, kills

local == <<iter, overflowUsed, forced, history, calls, sweep, buf, outcome>>
rows  == <<turn, saved, tool>>
env   == <<up, cancels, faults, kills>>
vars  == <<lock, pc, local, task, rows, streamed, env>>

Cur(r)     == <<r, iter[r]>>
Slot(r, k) == <<r, iter[r], k>>
Called(r)  == {Slot(r, k) : k \in 1..Len(calls[r])}
Live(x)    == task[x] \notin {"none", "done", "failed"}

--------------------------------------------------------------------------------
Init ==
    /\ lock = NoRun
    /\ pc = [r \in Runs |-> "idle"]
    /\ iter = [r \in Runs |-> 0]
    /\ overflowUsed = [r \in Runs |-> FALSE]
    /\ forced = [r \in Runs |-> FALSE]
    /\ history = [r \in Runs |-> <<>>]
    /\ calls = [r \in Runs |-> <<>>]
    /\ sweep = [r \in Runs |-> 0]
    /\ buf = [r \in Runs |-> 0]
    /\ outcome = [r \in Runs |-> "none"]
    /\ task = [x \in Tools |-> "none"]
    /\ turn = [t \in Turns |-> "none"]
    /\ saved = [t \in Turns |-> 0]
    /\ tool = [x \in Tools |-> "none"]
    /\ streamed = [t \in Turns |-> 0]
    /\ up = TRUE
    /\ cancels = [r \in Runs |-> 0]
    /\ faults = 0
    /\ kills = 0

--------------------------------------------------------------------------------
(* The statuses the cleanup and the startup reconciliation act upon.            *)
UnsettledMutant(s) == s # "none"
Unsettled(s) == s \in {"pending", "running"}
Interrupted(s) == IF s = "running" THEN "interrupted" ELSE s

(* What the store call a run awaits commits when its transaction goes through. *)
Write(r) ==
    \/ /\ pc[r] = "open"
       /\ turn' = [turn EXCEPT ![Cur(r)] = "running"]
       /\ UNCHANGED <<saved, tool>>
    \/ /\ pc[r] \in FlushPoints
       /\ saved' = [saved EXCEPT ![Cur(r)] = @ + buf[r]]
       /\ UNCHANGED <<turn, tool>>
    \/ /\ pc[r] = "create_tool"
       /\ tool' = [tool EXCEPT ![Slot(r, Len(calls[r]) + 1)] = "pending"]
       /\ UNCHANGED <<turn, saved>>
    \/ /\ pc[r] = "complete"
       /\ turn' = [turn EXCEPT ![Cur(r)] = "completed"]
       /\ UNCHANGED <<saved, tool>>
    \/ /\ pc[r] = "mark_error"
       /\ turn' = [turn EXCEPT ![Cur(r)] = "error"]
       /\ UNCHANGED <<saved, tool>>
    \/ /\ pc[r] = "interrupt_turn"
       /\ turn' = [turn EXCEPT ![Cur(r)] = Interrupted(@)]
       /\ UNCHANGED <<saved, tool>>
    \/ /\ pc[r] = "interrupt_tool"
       /\ tool' = [tool EXCEPT ![Slot(r, sweep[r])] = "interrupted"]
       /\ UNCHANGED <<turn, saved>>
    \/ /\ pc[r] \in {"queued", "user", "setup", "compact", "stream", "add_call", "check_tool"}
       /\ UNCHANGED rows

\* The generator returns or raises: the session lock is released.
End(r, how) ==
    /\ pc' = [pc EXCEPT ![r] = "ended"]
    /\ lock' = IF lock = r THEN NoRun ELSE lock
    /\ outcome' = [outcome EXCEPT ![r] = how]

Goto(r, p) == pc' = [pc EXCEPT ![r] = p] /\ UNCHANGED lock

RaiseMutant(r, what) == End(r, what)     \* the turn is not marked

\* An exception reaches a handler of run_session.
Raise(r, what) ==
    /\ Goto(r, "flush_error")
    /\ outcome' = [outcome EXCEPT ![r] = what]

\* The for loop: the next iteration, or its else.
NextIteration(r) ==
    \/ /\ iter[r] < MaxIterations
       /\ iter' = [iter EXCEPT ![r] = @ + 1]
       /\ outcome' = [outcome EXCEPT ![r] = "none"]
       /\ Goto(r, "compact")
    \/ /\ iter[r] = MaxIterations
       /\ End(r, "max_iterations")
       /\ UNCHANGED iter

IsDoomLoop(h) ==
    /\ Len(h) >= DoomMatch
    /\ \A j \in (Len(h) - DoomMatch + 1)..Len(h) : h[j] = h[Len(h)]

--------------------------------------------------------------------------------
(* run_session up to its loop                                                   *)
Submit(r) ==
    /\ up /\ pc[r] = "idle"
    /\ Goto(r, "queued")
    /\ UNCHANGED <<local, task, rows, streamed, env>>

AcquireLockMutant(r) ==       \* the lock is not awaited
    /\ pc[r] = "queued"
    /\ lock' = r
    /\ pc' = [pc EXCEPT ![r] = "user"]
    /\ UNCHANGED <<local, task, rows, streamed, env>>

AcquireLock(r) ==
    /\ pc[r] = "queued" /\ lock = NoRun
    /\ lock' = r
    /\ pc' = [pc EXCEPT ![r] = "user"]
    /\ UNCHANGED <<local, task, rows, streamed, env>>

CreateUserTurn(r) ==
    /\ pc[r] = "user"
    /\ Goto(r, "setup")
    /\ UNCHANGED <<local, task, rows, streamed, env>>

StartLoop(r) ==
    /\ pc[r] = "setup"
    /\ NextIteration(r)
    /\ UNCHANGED <<overflowUsed, forced, history, calls, sweep, buf, task, rows, streamed, env>>

(* One iteration                                                                *)
Compact(r) ==
    /\ pc[r] = "compact"
    /\ forced' = [forced EXCEPT ![r] = FALSE]
    /\ Goto(r, "open")
    /\ UNCHANGED <<iter, overflowUsed, history, calls, sweep, buf, outcome, task, rows, streamed, env>>

OpenAssistantTurn(r) ==
    /\ pc[r] = "open"
    /\ Write(r)
    /\ buf' = [buf EXCEPT ![r] = 0]
    /\ calls' = [calls EXCEPT ![r] = <<>>]
    /\ Goto(r, "stream")
    /\ UNCHANGED <<iter, overflowUsed, forced, history, sweep, outcome, task, streamed, env>>

TextDelta(r) ==
    /\ pc[r] = "stream" /\ streamed[Cur(r)] < MaxText
    /\ streamed' = [streamed EXCEPT ![Cur(r)] = @ + 1]
    /\ buf' = [buf EXCEPT ![r] = @ + 1]
    /\ Goto(r, IF buf[r] + 1 >= FlushSize THEN "flush_text" ELSE "stream")
    /\ UNCHANGED <<iter, overflowUsed, forced, history, calls, sweep, outcome, task, rows, env>>

ToolUse(r) ==
    /\ pc[r] = "stream" /\ Len(calls[r]) < MaxCalls
    /\ Goto(r, "flush_call")
    /\ UNCHANGED <<local, task, rows, streamed, env>>

StreamEndMutant(r) ==         \* the buffer is not flushed first
    /\ pc[r] = "stream"
    /\ Goto(r, "complete")
    /\ UNCHANGED <<local, task, rows, streamed, env>>

StreamEnd(r) ==
    /\ pc[r] = "stream"
    /\ Goto(r, "flush_complete")
    /\ UNCHANGED <<local, task, rows, streamed, env>>

ProviderError(r) ==
    /\ pc[r] = "stream"
    /\ \E what \in {"overflow", "raised"} : Raise(r, what)
    /\ UNCHANGED <<iter, overflowUsed, forced, history, calls, sweep, buf, task, rows, streamed, env>>

Flush(r) ==
    /\ pc[r] \in FlushPoints
    /\ Write(r)
    /\ buf' = [buf EXCEPT ![r] = 0]
    /\ Goto(r, AfterFlush(pc[r]))
    /\ UNCHANGED <<iter, overflowUsed, forced, history, calls, sweep, outcome, task, streamed, env>>

CreateToolRun(r) ==
    /\ pc[r] = "create_tool"
    /\ Write(r)
    /\ Goto(r, "add_call")
    /\ UNCHANGED <<local, task, streamed, env>>

AddCallPart(r) ==
    /\ pc[r] = "add_call"
    /\ \E i \in Inputs : calls' = [calls EXCEPT ![r] = Append(@, i)]
    /\ Goto(r, "stream")
    /\ UNCHANGED <<iter, overflowUsed, forced, history, sweep, buf, outcome, task, rows, streamed, env>>

CompleteTurn(r) ==
    /\ pc[r] = "complete"
    /\ Write(r)
    /\ IF calls[r] # <<>>
       THEN LET h == history[r] \o calls[r] IN
            /\ history' = [history EXCEPT ![r] = h]
            /\ \/ /\ IsDoomLoop(h)
                  /\ Raise(r, "loop")
                  /\ UNCHANGED task
               \/ /\ ~IsDoomLoop(h)
                  /\ task' = [x \in Tools |-> IF x \in Called(r) THEN "start" ELSE task[x]]
                  /\ Goto(r, "gather")
                  /\ UNCHANGED outcome
       ELSE /\ End(r, "turn_finished") \/ Raise(r, "loop")   \* StopReason.MAX_TOKENS
            /\ UNCHANGED <<history, task>>
    /\ UNCHANGED <<iter, overflowUsed, forced, calls, sweep, buf, streamed, env>>

GatherDoneMutant(r) ==        \* the first result is enough
    /\ pc[r] = "gather"
    /\ \E x \in Called(r) : task[x] = "done"
    /\ NextIteration(r)
    /\ UNCHANGED <<overflowUsed, forced, history, calls, sweep, buf, task, rows, streamed, env>>

GatherDone(r) ==
    /\ pc[r] = "gather"
    /\ \A x \in Called(r) : task[x] = "done"
    /\ NextIteration(r)
    /\ UNCHANGED <<overflowUsed, forced, history, calls, sweep, buf, task, rows, streamed, env>>

\* gather re-raises the first child's exception; it does not stop the others.
GatherRaise(r) ==
    /\ pc[r] = "gather"
    /\ \E x \in Called(r) : task[x] = "failed"
    /\ Raise(r, "raised")
    /\ UNCHANGED <<iter, overflowUsed, forced, history, calls, sweep, buf, task, rows, streamed, env>>

(* The except branches: mark_assistant_turn_error, then handle_overflow         *)
ArmOverflowRetryMutant(r) ==  \* the retry is not recorded as used
    /\ forced' = [forced EXCEPT ![r] = TRUE]
    /\ UNCHANGED overflowUsed

ArmOverflowRetry(r) ==
    /\ overflowUsed' = [overflowUsed EXCEPT ![r] = TRUE]
    /\ forced' = [forced EXCEPT ![r] = TRUE]

MarkError(r) ==
    /\ pc[r] = "mark_error"
    /\ Write(r)
    /\ \/ /\ outcome[r] = "overflow" /\ ~overflowUsed[r]
          /\ ArmOverflowRetry(r)
          /\ NextIteration(r)
       \/ /\ outcome[r] = "loop" \/ (outcome[r] = "overflow" /\ overflowUsed[r])
          /\ End(r, "runtime_error")
          /\ UNCHANGED <<iter, overflowUsed, forced>>
       \/ /\ outcome[r] = "raised"
          /\ End(r, "raised")
          /\ UNCHANGED <<iter, overflowUsed, forced>>
    /\ UNCHANGED <<history, calls, sweep, buf, task, streamed, env>>

(* The finally block: cleanup_interrupted_assistant_turn                        *)
SweepFrom(r, k) ==
    \/ /\ k <= Len(calls[r])
       /\ sweep' = [sweep EXCEPT ![r] = k]
       /\ Goto(r, "check_tool")
       /\ UNCHANGED outcome
    \/ /\ k > Len(calls[r])
       /\ End(r, outcome[r])
       /\ UNCHANGED sweep

InterruptTurn(r) ==
    /\ pc[r] = "interrupt_turn"
    /\ Write(r)
    /\ SweepFrom(r, 1)
    /\ UNCHANGED <<iter, overflowUsed, forced, history, calls, buf, task, streamed, env>>

CheckToolMutant(r) ==         \* a call whose child has not started counts as settled
    /\ pc[r] = "check_tool"
    /\ IF tool[Slot(r, sweep[r])] = "running"
       THEN Goto(r, "interrupt_tool") /\ UNCHANGED <<sweep, outcome>>
       ELSE SweepFrom(r, sweep[r] + 1)
    /\ UNCHANGED <<iter, overflowUsed, forced, history, calls, buf, task, rows, streamed, env>>

CheckTool(r) ==
    /\ pc[r] = "check_tool"
    /\ IF Unsettled(tool[Slot(r, sweep[r])])
       THEN Goto(r, "interrupt_tool") /\ UNCHANGED <<sweep, outcome>>
       ELSE SweepFrom(r, sweep[r] + 1)
    /\ UNCHANGED <<iter, overflowUsed, forced, history, calls, buf, task, rows, streamed, env>>

InterruptTool(r) ==
    /\ pc[r] = "interrupt_tool"
    /\ Write(r)
    /\ SweepFrom(r, sweep[r] + 1)
    /\ UNCHANGED <<iter, overflowUsed, forced, history, calls, buf, task, streamed, env>>

--------------------------------------------------------------------------------
(* _execute_one_tool: one child task per tool run, the handler in a thread      *)
Recorded(x) ==      \* the status the task's awaited update leaves
    CASE task[x] = "start"               -> "running"
      [] task[x] \in {"completed", "error"} -> task[x]
      [] OTHER                           -> tool[x]

TaskNext(x) ==
    CASE task[x] = "start"                  -> {"status"}
      [] task[x] = "status"                 -> {"handler"}
      [] task[x] = "handler"                -> {"completed", "error"}
      [] task[x] \in {"completed", "error"} -> {"result"}
      [] task[x] = "result"                 -> {"done"}

TaskStep(x) ==
    /\ Live(x)
    /\ tool' = [tool EXCEPT ![x] = Recorded(x)]
    /\ \E p \in TaskNext(x) : task' = [task EXCEPT ![x] = p]
    /\ UNCHANGED <<lock, pc, local, turn, saved, streamed, env>>

TaskFail(x) ==
    /\ Live(x) /\ task[x] # "handler" /\ faults < MaxFaults
    /\ faults' = faults + 1
    /\ task' = [task EXCEPT ![x] = "failed"]
    /\ UNCHANGED <<lock, pc, local, rows, streamed, up, cancels, kills>>

--------------------------------------------------------------------------------
(* Cancellation, failing store calls, process death                             *)

CancelChildrenMutant(r) == UNCHANGED <<tool, task>>   \* the children run on

\* A cancelled gather cancels its children, each at its own await.
CancelChildren(r) ==
    \E S \in SUBSET {x \in Called(r) : Live(x)} :
        /\ tool' = [x \in Tools |-> IF x \in S THEN Recorded(x) ELSE tool[x]]
        /\ task' = [x \in Tools |-> IF x \in Called(r) /\ Live(x) THEN "done" ELSE task[x]]

\* CancelledError at the await the run is suspended at; the transaction it
\* awaited may commit all the same.
Cancel(r) ==
    /\ pc[r] \notin {"idle", "ended"} /\ cancels[r] < MaxCancels
    /\ cancels' = [cancels EXCEPT ![r] = @ + 1]
    /\ IF pc[r] = "gather"
       THEN CancelChildren(r) /\ UNCHANGED <<turn, saved>>
       ELSE (Write(r) \/ UNCHANGED rows) /\ UNCHANGED task
    /\ buf' = [buf EXCEPT ![r] = IF pc[r] \in FlushPoints THEN 0 ELSE @]
    /\ \/ /\ pc[r] \in Body \cup Handler
          /\ Goto(r, "flush_cleanup")
          /\ outcome' = [outcome EXCEPT ![r] = "cancelled"]
       \/ /\ pc[r] \in {"queued"} \cup Outside
          /\ End(r, "dropped")
       \/ /\ pc[r] \in Cleanup
          /\ End(r, "cut")
    /\ UNCHANGED <<iter, overflowUsed, forced, history, calls, sweep, streamed, up, faults, kills>>

StoreFail(r) ==
    /\ pc[r] \in Holding \ {"gather", "stream"} /\ faults < MaxFaults
    /\ faults' = faults + 1
    /\ buf' = [buf EXCEPT ![r] = IF pc[r] \in FlushPoints THEN 0 ELSE @]
    /\ \/ /\ pc[r] \in Body
          /\ Raise(r, "raised")
       \/ /\ pc[r] \in Handler
          /\ Goto(r, "flush_cleanup")
          /\ outcome' = [outcome EXCEPT ![r] = "raised"]
       \/ /\ pc[r] \in Outside
          /\ End(r, "raised")
       \/ /\ pc[r] \in Cleanup
          /\ End(r, "cut")
    /\ UNCHANGED <<iter, overflowUsed, forced, history, calls, sweep, task, rows, streamed,
                   up, cancels, kills>>

Kill ==
    /\ up /\ kills < MaxKills
    /\ up' = FALSE
    /\ kills' = kills + 1
    /\ pc' = [r \in Runs |-> IF pc[r] = "idle" THEN "idle" ELSE "ended"]
    /\ outcome' = [r \in Runs |-> IF pc[r] \in {"idle", "ended"} THEN outcome[r] ELSE "killed"]
    /\ lock' = NoRun
    /\ task' = [x \in Tools |-> IF Live(x) THEN "done" ELSE task[x]]
    /\ UNCHANGED <<iter, overflowUsed, forced, history, calls, sweep, buf, rows, streamed,
                   cancels, faults>>

\* A new process: the store reconciles the rows before it serves requests.
Restart ==
    /\ ~up
    /\ up' = TRUE
    /\ tool' = [x \in Tools |-> IF Unsettled(tool[x]) THEN "interrupted" ELSE tool[x]]
    /\ turn' = [t \in Turns |-> Interrupted(turn[t])]
    /\ UNCHANGED <<lock, pc, local, task, saved, streamed, cancels, faults, kills>>

--------------------------------------------------------------------------------
Step(r) ==
    \/ AcquireLock(r) \/ CreateUserTurn(r) \/ StartLoop(r)
    \/ Compact(r) \/ OpenAssistantTurn(r)
    \/ TextDelta(r) \/ ToolUse(r) \/ StreamEnd(r) \/ ProviderError(r)
    \/ Flush(r) \/ CreateToolRun(r) \/ AddCallPart(r) \/ CompleteTurn(r)
    \/ GatherDone(r) \/ GatherRaise(r) \/ MarkError(r)
    \/ InterruptTurn(r) \/ CheckTool(r) \/ InterruptTool(r)

Next ==
    \/ \E r \in Runs : Submit(r) \/ Step(r) \/ Cancel(r) \/ StoreFail(r)
    \/ \E x \in Tools : TaskStep(x) \/ TaskFail(x)
    \/ Kill
    \/ Restart

Spec == Init /\ [][Next]_vars

\* The event loop runs every ready coroutine, a worker thread's handler returns
\* (its SQL has a timeout) and a provider's stream ends or raises.  Nothing
\* obliges a user to post, a stream to be cancelled or a fault to happen.
Fairness ==
    /\ \A r \in Runs : WF_vars(Step(r))
    /\ \A x \in Tools : WF_vars(TaskStep(x))

FairSpec == Spec /\ Fairness

--------------------------------------------------------------------------------
TypeOK ==
    /\ lock \in Runs \cup {NoRun}
    /\ pc \in [Runs -> Location]
    /\ iter \in [Runs -> 0..MaxIterations]
    /\ overflowUsed \in [Runs -> BOOLEAN]
    /\ forced \in [Runs -> BOOLEAN]
    /\ history \in [Runs -> Seq(Inputs)]
    /\ calls \in [Runs -> Seq(Inputs)]
    /\ sweep \in [Runs -> Nat]
    /\ buf \in [Runs -> Nat]
    /\ outcome \in [Runs -> Outcome]
    /\ task \in [Tools -> TaskLocation]
    /\ turn \in [Turns -> TurnStatus]
    /\ saved \in [Turns -> Nat]
    /\ tool \in [Tools -> ToolStatus]
    /\ streamed \in [Turns -> Nat]
    /\ up \in BOOLEAN
    /\ cancels \in [Runs -> Nat]
    /\ faults \in Nat
    /\ kills \in Nat

\* The session lock is held by exactly the run that is past its acquisition:
\* two runs are never inside run_session together (runtime.py: async with lock).
MutualExclusion == \A r \in Runs : pc[r] \in Holding <=> lock = r

\* When the runtime has gone on to a later iteration, every tool call of a
\* completed turn it left behind has its result recorded: the transcript the
\* next request is built from has no unanswered call.
CallsAnswered ==
    \A x \in Tools :
        (x[2] < iter[x[1]] /\ turn[<<x[1], x[2]>>] = "completed")
            => tool[x] \in {"none", "completed", "error"}

\* A turn that is marked completed holds every text delta the client was sent
\* for it, none twice: the buffer is flushed before completion, in all orders of
\* deltas, tool calls and threshold flushes.
CompletedTextSaved ==
    \A t \in Turns : turn[t] = "completed" => saved[t] = streamed[t]

\* Text is never written twice, whatever is cancelled or fails.
TextNotDuplicated == \A t \in Turns : saved[t] <= streamed[t]

\* The overflow retry is one-shot: of the iterations a run went past, at most
\* one ended in error (every other error ends the run).
OneRetryPerRun ==
    \A t, u \in Turns :
        (t[1] = u[1] /\ t[2] < u[2] /\ u[2] < iter[t[1]])
            => ~(turn[t] = "error" /\ turn[u] = "error")

\* A turn row is left running only by the iteration a run is in, and once the run
\* is over only because it was cancelled while the row was being created, or its
\* cleanup was itself cancelled or could not write.
RunningTurnExplained ==
    \A t \in Turns :
        (turn[t] = "running" /\ up) =>
            /\ t[2] = iter[t[1]]
            /\ \/ pc[t[1]] \in Body \cup Handler \cup Cleanup
               \/ outcome[t[1]] \in {"dropped", "cut"}

\* A child that a failed sibling has left behind, or the failed one itself.
Outlives(x) == faults > 0 /\ (Live(x) \/ task[x] = "failed")
Answered(x) == ~Unsettled(tool[x]) \/ Outlives(x)

\* A tool run is left unsettled by a finished run only in a turn that ended in
\* error, when the run was stopped while it recorded that very call, when its
\* cleanup was cut, or when its child has outlived a failed sibling.
UnsettledToolExplained ==
    \A x \in Tools :
        (Unsettled(tool[x]) /\ up /\ pc[x[1]] = "ended") =>
            \/ turn[<<x[1], x[2]>>] = "error"
            \/ x[2] = iter[x[1]] /\ x[3] > Len(calls[x[1]])
            \/ outcome[x[1]] = "cut"
            \/ Outlives(x)

\* Error and interrupted are final statuses of a turn.  A completed one may still
\* become an error, which its own run records (the doom loop, the length stop, a
\* failing child): neither a cleanup nor a restart takes a completed turn back.
TurnRowsForward ==
    [][\A t \in Turns :
         /\ turn[t] \in {"error", "interrupted"} => turn'[t] = turn[t]
         /\ turn[t] = "completed" /\ turn'[t] # turn[t] =>
               turn'[t] = "error" /\ pc[t[1]] = "mark_error" /\ t[2] = iter[t[1]]]_vars

\* A settled tool run changes only after a store call has failed: a child that
\* outlived its gather goes on in a row the cleanup has interrupted, or the cleanup
\* interrupts a run that such a child has settled since the cleanup read it.
\* Otherwise it is final, over cancellations and the startup reconciliation.
ToolRowsFinal ==
    [][\A x \in Tools : tool[x] \in Settled /\ tool'[x] # tool[x] =>
         /\ faults > 0
         /\ \/ tool[x] = "interrupted" /\ Live(x)
            \/ tool'[x] = "interrupted" /\ pc[x[1]] = "interrupt_tool"]_vars

\* A running process writes turn rows only under the session lock and, while no
\* store call fails, tool rows too: the transcript is written in order.
WritesUnderLock ==
    [][/\ \A t \in Turns : (turn'[t] # turn[t] /\ up) => lock = t[1]
       /\ \A x \in Tools : (tool'[x] # tool[x] /\ up /\ faults' = 0) => lock = x[1]]_vars

\* What a session promises its messages, and how the runs' locations map to it.
Phase(p) == CASE p = "idle" -> "idle" [] p = "queued" -> "waiting"
              [] p \in Holding -> "active" [] p = "ended" -> "ended"
Serial == INSTANCE SessionSerial
              WITH holder <- lock, phase <- [r \in Runs |-> Phase(pc[r])]

\* run_session implements a session that serves its messages one at a time and
\* serves every one of them to an end.
ImplementsSerial == Serial!FairSpec

--------------------------------------------------------------------------------
(* The inductive invariant of the proofs: what each location of a run says of  *)
(* the rows of its iterations.  Each part reads the state of one run only.     *)
Active    == Body \cup Handler \cup Cleanup
Streaming == Body \ {"gather"}

\* Where the loop stands, and why a run unwinds.
LoopInv(r) ==
    /\ pc[r] \in {"idle", "queued", "user", "setup"} => iter[r] = 0
    /\ pc[r] \in {"compact", "open"} \cup Active => iter[r] > 0
    /\ pc[r] \in Handler => outcome[r] \in {"overflow", "loop", "raised"}
    /\ pc[r] \in Cleanup => outcome[r] = "cancelled" \/ (outcome[r] = "raised" /\ faults > 0)
    /\ pc[r] \in {"queued"} \cup Holding => up
    /\ Len(calls[r]) <= MaxCalls
    /\ pc[r] \in {"flush_call", "create_tool", "add_call"} => Len(calls[r]) < MaxCalls

\* Turn rows: nothing ahead of the loop, a settled outcome behind it.
TurnRowInv(r, n) ==
    LET s == turn[<<r, n>>] IN
    /\ n > iter[r] => s = "none"
    /\ n < iter[r] => s \in {"completed", "error"}
    /\ n = iter[r] =>
        /\ pc[r] \in {"compact", "open"} => s = "none"
        /\ pc[r] \in Streaming => s = "running"
        /\ pc[r] = "gather" => s = "completed"
        /\ pc[r] \in Handler => s \in {"running", "completed"}
        /\ pc[r] \in {"check_tool", "interrupt_tool"} => s # "running"
        /\ (pc[r] = "ended" /\ s = "running" /\ up) => outcome[r] \in {"dropped", "cut"}

\* The overflow retry leaves at most one error behind the loop.
RetryRowInv(r, n) ==
    (n < iter[r] /\ turn[<<r, n>>] = "error") =>
        /\ overflowUsed[r]
        /\ \A m \in 1..MaxIterations :
               (m < iter[r] /\ turn[<<r, m>>] = "error") => m = n

\* Text: what is saved and what is buffered make what was streamed.
TextRowInv(r, n) ==
    LET t == <<r, n>> IN
    /\ saved[t] <= streamed[t]
    /\ turn[t] = "completed" => saved[t] = streamed[t]
    /\ (n > iter[r] \/ (n = iter[r] /\ pc[r] \in {"compact", "open"})) =>
          saved[t] = 0 /\ streamed[t] = 0
    /\ n = iter[r] =>
        /\ pc[r] \in Active => saved[t] + buf[r] <= streamed[t]
        /\ pc[r] \in Streaming => saved[t] + buf[r] = streamed[t]
        /\ pc[r] = "complete" => buf[r] = 0
        /\ (pc[r] \in Active /\ turn[t] = "completed") => buf[r] = 0

\* Gather children exist only for the calls of the current iteration, and are
\* over when the loop goes on.
TaskRowInv(r, n, k) ==
    LET x == <<r, n, k>> IN
    /\ n > iter[r] => task[x] = "none"
    /\ n < iter[r] => ~Live(x)
    /\ n = iter[r] =>
        /\ (pc[r] \in {"compact", "open"} \cup Streaming
             \/ (pc[r] \in Handler /\ outcome[r] = "overflow")) => task[x] = "none"
        /\ pc[r] = "gather" => (task[x] = "none" <=> k > Len(calls[r]))
        /\ Live(x) => k <= Len(calls[r])
    /\ (Live(x) /\ faults = 0) => pc[r] = "gather"
    /\ task[x] = "failed" => faults > 0
    /\ Live(x) => up

\* Tool rows: the calls of an iteration, as far as their children have come.
ToolRowInv(r, n, k) ==
    LET x == <<r, n, k>> IN
    /\ n > iter[r] => tool[x] = "none"
    /\ (n < iter[r] /\ turn[<<r, n>>] = "completed") =>
          tool[x] \in {"none", "completed", "error"}
    /\ n = iter[r] =>
        /\ pc[r] \in {"compact", "open"} => tool[x] = "none"
        /\ pc[r] \in Streaming =>
              /\ k <= Len(calls[r]) => tool[x] = "pending"
              /\ k > Len(calls[r]) + 1 => tool[x] = "none"
              /\ k = Len(calls[r]) + 1 =>
                    tool[x] = IF pc[r] = "add_call" THEN "pending" ELSE "none"
        /\ pc[r] = "gather" =>
              /\ task[x] = "none" => tool[x] = "none"
              /\ task[x] = "start" => tool[x] = "pending"
              /\ task[x] \in {"status", "handler", "completed", "error"} => tool[x] = "running"
              /\ task[x] \in {"result", "done"} => tool[x] \in {"completed", "error"}
        /\ (pc[r] = "interrupt_tool" /\ faults = 0 /\ k = sweep[r]) => Unsettled(tool[x])

RunInv(r) ==
    /\ LoopInv(r)
    /\ \A n \in 1..MaxIterations : TurnRowInv(r, n) /\ RetryRowInv(r, n) /\ TextRowInv(r, n)
    /\ \A n \in 1..MaxIterations, k \in 1..MaxCalls : TaskRowInv(r, n, k) /\ ToolRowInv(r, n, k)

\* What a child has recorded, how far the sweep has come, and what a run that is
\* over has left of its calls.
LeftInv(x) ==
    LET r == x[1] IN
    /\ task[x] \in {"start", "status", "handler", "completed", "error"} =>
          tool[x] \notin {"completed", "error"}
    /\ task[x] = "result" => tool[x] \in Settled
    /\ (pc[r] \in {"check_tool", "interrupt_tool"} /\ x[2] = iter[r] /\ x[3] < sweep[r]) =>
          Answered(x)
    /\ (pc[r] = "ended" /\ up) =>
          \/ turn[<<r, x[2]>>] = "error" \/ outcome[r] = "cut" \/ Answered(x)
          \/ x[2] = iter[r] /\ x[3] > Len(calls[r])

IInv ==
    /\ TypeOK /\ MutualExclusion
    /\ \A r \in Runs : RunInv(r)
    /\ \A x \in Tools : LeftInv(x)
================================================================================
