------------------------------- MODULE Compaction -------------------------------
(****************************************************************************)
(* The memory of one conversation: its turns and tool runs, the compaction  *)
(* that runs before every model call, and the messages that are sent to the *)
(* provider.                                                                *)
(*                                                                          *)
(* The session lock lets one run work on a transcript at a time, so the     *)
(* module has one run; it may be abandoned at any await (Stop, a failing    *)
(* store call, a crash), and the compaction may time out at any of its own. *)
(* A turn appears here with the statuses it ends with: how it gets them is  *)
(* TurnLifecycle.  Sizes are token estimates in small units.                *)
(****************************************************************************)
EXTENDS Integers, Sequences, FiniteSets, FiniteSetsExt, SequencesExt

CONSTANTS
    Window,         \* session.context_window
    MinBudget,      \* MIN_RETENTION_BUDGET_TOKENS
    HardFloor,      \* HARD_KEEP_FLOOR_TURNS
    MaxRawTurns,    \* MAX_RECENT_RAW_TURNS
    RecentRuns,     \* recent_raw_tool_runs
    SummarySize,    \* of a memo
    ResultSizes,    \* of a tool result
    MaxCalls,       \* tool calls of one answer
    MaxIterations,  \* MAX_TOOL_ITERATIONS
    MaxTurns        \* bound of the transcript

ASSUME SizesAssumption ==
    /\ {Window, MinBudget, SummarySize, MaxTurns} \subseteq Nat
    /\ {HardFloor, RecentRuns, MaxCalls, MaxIterations} \subseteq Nat \ {0}
    /\ HardFloor >= 2     \* a question and the attempt that was refused as too long
    /\ MaxRawTurns \in Nat /\ MaxRawTurns >= HardFloor
    /\ ResultSizes \subseteq Nat

VARIABLES
    turns,      \* the transcript, oldest first, summaries included
    pc,         \* where the run is: the next store or provider call
    todo,       \* tool runs the pruning has still to mark
    chosen,     \* the turns being summarised
    budget,     \* retention_budget_tokens of this compaction
    force,      \* Turn.force_overflow_compaction
    used,       \* Turn.overflow_retry_used
    iterations

run  == <<force, used, iterations>>
work == <<todo, chosen, budget>>
vars == <<turns, pc, work, run>>

Roles == {"user", "assistant", "summary"}
ToolRun == [status : {"completed", "failed"}, size : Nat, compacted : BOOLEAN]
TurnRow == [role : Roles, size : Nat, runs : Seq(ToolRun), sources : SUBSET Nat,
            compacted : BOOLEAN]

Init ==
    /\ turns = <<>>
    /\ pc = "idle"
    /\ todo = {} /\ chosen = {} /\ budget = 0
    /\ force = FALSE /\ used = FALSE /\ iterations = 0

Turn(role, size, runs, sources) ==
    [role |-> role, size |-> size, runs |-> runs, sources |-> sources, compacted |-> FALSE]

Append1(t) == Len(turns) < MaxTurns /\ turns' = Append(turns, t)

--------------------------------------------------------------------------------
(* What a turn weighs, and which turns and runs leave the prompt                *)

\* Text, the results that are still raw, and one unit for each call.
KeepCost(t) ==
    t.size + Len(t.runs)
      + MapThenSumSet(LAMBDA j : IF t.runs[j].compacted THEN 0 ELSE t.runs[j].size, DOMAIN t.runs)

Cost(S) == MapThenSumSet(LAMBDA i : KeepCost(turns[i]), S)

Raw == {i \in DOMAIN turns : ~turns[i].compacted}
ActiveTokens == Cost(Raw)
Active == {i \in Raw : turns[i].role # "summary"}

From(i) == {j \in Active : j >= i}

KeepNoFloor(i) == Cardinality(From(i)) <= MaxRawTurns /\ Cost(From(i)) <= budget

\* Going back from the newest, a turn is kept while the floor asks for it or the
\* budget allows it.
Keep(i) ==
    \/ Cardinality(From(i)) <= HardFloor
    \/ Cardinality(From(i)) <= MaxRawTurns /\ Cost(From(i)) <= budget

SourceTurns == {i \in Active : \E j \in From(i) : ~Keep(j)}

Runs == {r \in (DOMAIN turns) \X (1..MaxCalls) : r[2] \in DOMAIN turns[r[1]].runs}
RunAt(r) == turns[r[1]].runs[r[2]]
Earlier(r, s) == r[1] < s[1] \/ (r[1] = s[1] /\ r[2] < s[2])

\* All but the latest completed results.
StaleRuns ==
    LET raw == {r \in Runs : ~RunAt(r).compacted /\ RunAt(r).status = "completed"} IN
    {r \in raw : Cardinality({s \in raw : Earlier(r, s)}) >= RecentRuns}

--------------------------------------------------------------------------------
(* The messages of the next call                                                *)

Message(kind, i, j) == [kind |-> kind, turn |-> i, run |-> j]

TurnMessages(i) ==
    LET t == turns[i] IN
    CASE t.compacted \/ t.role = "summary" -> <<>>
      [] ~t.compacted /\ t.role = "user" -> <<Message("user", i, 0)>>
      [] OTHER ->
           (IF t.size > 0 \/ t.runs # <<>> THEN <<Message("assistant", i, 0)>> ELSE <<>>)
             \o FlattenSeq([j \in DOMAIN t.runs |->
                   IF t.runs[j].compacted THEN <<>> ELSE <<Message("result", i, j)>>])

Memos == {i \in Raw : turns[i].role = "summary"}

BuildModelMessagesMutant ==   \* the memo where it was written
    FlattenSeq([i \in DOMAIN turns |->
        IF i \in Memos THEN <<Message("memo", i, 0)>> ELSE TurnMessages(i)])

\* The memos first, in one message, whenever they were written.
BuildModelMessages ==
    (IF Memos = {} THEN <<>> ELSE <<Message("memo", 0, 0)>>)
      \o FlattenSeq([i \in DOMAIN turns |-> TurnMessages(i)])

--------------------------------------------------------------------------------
(* run_session                                                                  *)

Post ==
    /\ pc = "idle"
    /\ Append1(Turn("user", 1, <<>>, {}))
    /\ pc' = "compact" /\ iterations' = 1
    /\ UNCHANGED <<work, force, used>>

Leave == pc' = "idle" /\ force' = FALSE /\ used' = FALSE /\ iterations' = 0

NextIteration(f, u) ==
    IF iterations < MaxIterations
    THEN pc' = "compact" /\ iterations' = iterations + 1 /\ force' = f /\ used' = u
    ELSE Leave

\* A run that failed, was interrupted or is still pending is sent as a short error
\* and never pruned: the three are one status here.
Replies ==
    {<<>>} \cup UNION {[1..n -> {[status |-> "completed", size |-> z, compacted |-> FALSE] : z \in ResultSizes}
                           \cup {[status |-> "failed", size |-> 0, compacted |-> FALSE]}] : n \in 1..MaxCalls}

\* The row of an attempt that streamed nothing.
EmptyTurn == Turn("assistant", 0, <<>>, {})

\* An answer that calls tools has no text of its own.
Reply(runs) == Append1(Turn("assistant", IF runs = <<>> THEN 1 ELSE 0, runs, {}))

Answer ==
    /\ pc = "call"
    /\ \E runs \in Replies :
          /\ Reply(runs)
          /\ IF runs = <<>> THEN Leave ELSE NextIteration(force, used)
    /\ UNCHANGED work

\* The provider refuses the prompt before anything is streamed; the attempt stays
\* as an errored turn.  The first time the run compacts harder and tries again.
Overflow ==
    /\ pc = "call"
    /\ Append1(EmptyTurn)
    /\ IF used THEN Leave ELSE NextIteration(TRUE, TRUE)
    /\ UNCHANGED work

\* Stop, a provider error, the doom loop: the run ends with this turn.
Break ==
    /\ pc = "call"
    /\ (\E runs \in Replies : Reply(runs)) \/ Append1(EmptyTurn)
    /\ Leave
    /\ UNCHANGED work

Abandon ==
    /\ pc # "idle"
    /\ Leave
    /\ todo' = {} /\ chosen' = {} /\ budget' = 0
    /\ UNCHANGED turns

--------------------------------------------------------------------------------
(* compact_if_needed                                                            *)

Done == pc' = "call" /\ force' = FALSE /\ todo' = {} /\ chosen' = {} /\ budget' = 0

Atleast(b) == IF b > MinBudget THEN b ELSE MinBudget

\* Pruning comes first, except after an overflow.
Check ==
    /\ pc = "compact"
    /\ IF ~force /\ ActiveTokens <= Window
       THEN Done
       ELSE /\ budget' = Atleast(IF force THEN Window \div 4 ELSE Window \div 2)
            /\ pc' = IF ~force /\ StaleRuns # {} THEN "prune" ELSE "select"
            /\ todo' = IF force THEN {} ELSE StaleRuns
            /\ UNCHANGED <<chosen, force>>
    /\ UNCHANGED <<turns, used, iterations>>

\* One update per run, oldest first.
MarkRun ==
    /\ pc \in {"prune", "trim"}
    /\ \E r \in todo :
          /\ \A s \in todo \ {r} : Earlier(r, s)
          /\ turns' = [turns EXCEPT ![r[1]].runs[r[2]].compacted = TRUE]
          /\ todo' = todo \ {r}
    /\ UNCHANGED <<pc, chosen, budget, run>>

Pruned ==
    /\ pc = "prune" /\ todo = {}
    /\ IF ActiveTokens <= Window
       THEN Done
       ELSE pc' = "select" /\ UNCHANGED <<work, force>>
    /\ UNCHANGED <<turns, used, iterations>>

Select ==
    /\ pc = "select"
    /\ IF SourceTurns = {}
       THEN Done
       ELSE pc' = "summarise" /\ chosen' = SourceTurns /\ UNCHANGED <<todo, budget, force>>
    /\ UNCHANGED <<turns, used, iterations>>

\* A completed result leaves the prompt with its turn.
CompactedRun(x) == [x EXCEPT !.compacted = @ \/ x.status = "completed"]

Compacted(i) ==
    [turns[i] EXCEPT !.compacted = TRUE, !.runs = [j \in DOMAIN @ |-> CompactedRun(@[j])]]

\* Whatever the summariser, or the heuristic in its place, makes of the sources.
Memo == Turn("summary", SummarySize, <<>>, chosen)

RecordCompactionMutant ==     \* questions stay raw
    /\ pc = "summarise" /\ Len(turns) < MaxTurns
    /\ turns' = Append([i \in DOMAIN turns |->
                          IF i \in chosen /\ turns[i].role # "user" THEN Compacted(i) ELSE turns[i]],
                       Memo)
    /\ pc' = "record" /\ chosen' = {}
    /\ UNCHANGED <<todo, budget, run>>

\* The memo (of the summariser, or the heuristic one when it fails or is late),
\* its sources and their marks, in one transaction.
RecordCompaction ==
    /\ pc = "summarise" /\ Len(turns) < MaxTurns
    /\ turns' = Append([i \in DOMAIN turns |-> IF i \in chosen THEN Compacted(i) ELSE turns[i]],
                       Memo)
    /\ pc' = "record" /\ chosen' = {}
    /\ UNCHANGED <<todo, budget, run>>

Trim ==
    \/ /\ pc = "record"
       /\ todo' = StaleRuns
       /\ pc' = "trim"
       /\ UNCHANGED <<turns, chosen, budget, run>>
    \/ /\ pc = "trim" /\ todo = {}
       /\ Done
       /\ UNCHANGED <<turns, used, iterations>>

\* COMPACTION_HARD_TIMEOUT_SECONDS: the call is made with what has been done.
TimeOut ==
    /\ pc \in {"compact", "prune", "select", "summarise", "record", "trim"}
    /\ Done
    /\ UNCHANGED <<turns, used, iterations>>

--------------------------------------------------------------------------------
Next ==
    \/ Post \/ Answer \/ Overflow \/ Break \/ Abandon
    \/ Check \/ MarkRun \/ Pruned \/ Select \/ RecordCompaction \/ Trim \/ TimeOut

Spec == Init /\ [][Next]_vars

--------------------------------------------------------------------------------
TypeOK ==
    /\ turns \in Seq(TurnRow)
    /\ pc \in {"idle", "compact", "prune", "select", "summarise", "record", "trim", "call"}
    /\ todo \subseteq Runs /\ chosen \subseteq Active /\ budget \in Nat
    /\ force \in BOOLEAN /\ used \in BOOLEAN /\ iterations \in 0..MaxIterations

Summaries == {i \in DOMAIN turns : turns[i].role = "summary"}
Conversation == DOMAIN turns \ Summaries

\* The prompt is a memo and a suffix: the turns that left it are the oldest ones,
\* each is a source of exactly one memo, and every memo is still in it.
MemoCoversPrefix ==
    /\ Summaries \subseteq Raw
    /\ \A i \in Conversation :
          Cardinality({s \in Summaries : i \in turns[s].sources}) = IF turns[i].compacted THEN 1 ELSE 0
    /\ \A i, j \in Conversation : i < j /\ turns[j].compacted => turns[i].compacted

Question == {i \in Conversation : turns[i].role = "user" /\
                \A j \in Conversation : turns[j].role = "user" => j <= i}

\* The question being answered leaves the prompt only behind a floor of answers.
QuestionDroppedOnlyLate ==
    \A i \in Question :
        turns[i].compacted => Cardinality({j \in Conversation : j > i}) >= HardFloor

Sent == {BuildModelMessages[k] : k \in DOMAIN BuildModelMessages}
Unanswered == {r \in Runs : Message("assistant", r[1], 0) \in Sent /\ Message("result", r[1], r[2]) \notin Sent}

\* What a provider asks of a request and tests/test_runtime_refactor.py of the prompt
\* after a compaction: the calls of an assistant message that is sent are immediately
\* followed by their results.  Pruning breaks it (build_model_messages skips the
\* result of a compacted run and sends its call).
EveryCallAnswered ==
    pc = "call" =>
        LET sent == BuildModelMessages IN
        \A k \in DOMAIN sent : sent[k].kind = "assistant" =>
            \A j \in DOMAIN turns[sent[k].turn].runs :
                k + j \in DOMAIN sent /\ sent[k + j] = Message("result", sent[k].turn, j)

\* Which calls are sent without a result: those whose result was pruned, with
\* RecentRuns newer ones.  Calls that failed or were interrupted keep theirs.
UnansweredCallPruned ==
    pc = "call" => \A r \in Unanswered :
        /\ RunAt(r).status = "completed"
        /\ Cardinality({s \in Runs : Earlier(r, s) /\ RunAt(s).status = "completed"}) >= RecentRuns

\* The provider is asked to speak: the prompt ends with the user or with results.
PromptEndsWithUserSide ==
    pc = "call" => BuildModelMessages # <<>> /\ Last(BuildModelMessages).kind \in {"user", "result"}

================================================================================
