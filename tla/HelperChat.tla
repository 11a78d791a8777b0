------------------------------- MODULE HelperChat -------------------------------
(****************************************************************************)
(* HelperChat: the chat of the database browser.  The browser keeps the     *)
(* conversation and posts all of it with every message; the server runs the *)
(* model and the tools over it and stores nothing; the model answers        *)
(* through the streams of ProviderStream.  The user may choose another      *)
(* provider for every message.                                              *)
(*                                                                          *)
(* An event reaches the browser in the step that yields it: one still under *)
(* way when the stream is closed is one the server might not have sent.     *)
(****************************************************************************)
EXTENDS ProviderStream

CONSTANTS
    MaxIterations,  \* MAX_HELPER_ITERATIONS
    MaxSends,       \* bound: messages the user sends
    MaxRuns         \* bound: calls the browser shows, or will of this answer

ASSUME BoundsAssumption == {MaxIterations, MaxSends, MaxRuns} \subseteq Nat \ {0}

VARIABLES
    view,       \* the browser's messages
    sends,      \* bound: messages sent
    turn,       \* off, asking, answering or running tools
    history,    \* the server's messages
    iteration,
    pending,    \* calls of this answer still to run
    cut         \* history: calls whose turn ended before they had a result

vars == <<client, phase, attempt, acc, sent, over, heard,
          view, sends, turn, history, iteration, pending, cut>>

Id == (1 .. MaxSends) \X (1 .. MaxIterations) \X Calls
Run == [id : Id, open : BOOLEAN]
ViewMessage == [role : {"user", "assistant"}, text : BOOLEAN, runs : Seq(Run)]
Message == [role : {"user", "assistant", "tool"}, text : BOOLEAN, ids : Seq(Id)]

TypeOK ==
    /\ StreamTypeOK
    /\ view \in Seq(ViewMessage) /\ sends \in 0 .. MaxSends
    /\ turn \in {"off", "asking", "answering", "running"}
    /\ history \in Seq(Message) /\ iteration \in 0 .. MaxIterations
    /\ pending \in Seq(Id) /\ cut \subseteq Id

Init ==
    /\ StreamInit
    /\ view = <<>> /\ sends = 0 /\ turn = "off"
    /\ history = <<>> /\ iteration = 0 /\ pending = <<>> /\ cut = {}

User == [role |-> "user", text |-> TRUE, runs |-> <<>>]
Placeholder == [role |-> "assistant", text |-> FALSE, runs |-> <<>>]
Says(role, text, ids) == [role |-> role, text |-> text, ids |-> ids]
Result(id) == Says("tool", TRUE, <<id>>)

--------------------------------------------------------------------------------
(* What is sent                                                               *)

Ids(runs) == [i \in DOMAIN runs |-> runs[i].id]

\* A message, and the results of those of its runs that have one.
Results(runs) ==
    FlattenSeq([i \in DOMAIN runs |-> IF runs[i].open THEN <<>> ELSE <<Result(runs[i].id)>>])

Wired(m) == <<Says(m.role, m.text, Ids(m.runs))>> \o Results(m.runs)

ToWire(messages) == FlattenSeq([i \in DOMAIN messages |-> Wired(messages[i])])

Empty(m) == m.role = "assistant" /\ ~m.text /\ m.ids = <<>>

\* Nothing is sent of an empty answer; consecutive results become one message.
AnthropicMerged(messages, m) ==
    IF Empty(m) THEN messages
    ELSE IF m.role = "tool" /\ messages # <<>> /\ Last(messages).role = "tool"
         THEN [messages EXCEPT ![Len(messages)].ids = @ \o m.ids]
         ELSE Append(messages, m)

AnthropicMessages(h) ==
    LET merged[n \in 0 .. Len(h)] ==
            IF n = 0 THEN <<>> ELSE AnthropicMerged(merged[n-1], h[n])
    IN  merged[Len(h)]

\* The text and each call of an answer are items of their own.
CodexItems(m) ==
    IF m.role # "assistant" THEN <<m>>
    ELSE (IF m.text THEN <<Says("assistant", TRUE, <<>>)>> ELSE <<>>) \o
         [i \in DOMAIN m.ids |-> Says("assistant", FALSE, <<m.ids[i]>>)]

CodexMessages(h) == FlattenSeq([i \in DOMAIN h |-> CodexItems(h[i])])

Converted(h) ==
    CASE client = "anthropic" -> AnthropicMessages(h)
      [] client = "openai" -> h
      [] client = "codex" -> CodexMessages(h)

--------------------------------------------------------------------------------
(* The server's loop                                                          *)

Browser(m) == view' = [view EXCEPT ![Len(view)] = m]
Shown == Last(view)
RunIds == UNION {ToSet(Ids(view[k].runs)) : k \in DOMAIN view}
Started == {<<sends, iteration, c>> : c \in {d \in Calls : sent[d] # "none"}}
OpenIds == {Shown.runs[i].id : i \in {k \in DOMAIN Shown.runs : Shown.runs[k].open}}

Close(run, id) == [run EXCEPT !.open = @ /\ run.id # id]

TurnOver ==
    /\ turn' = "off" /\ history' = <<>> /\ iteration' = 0 /\ pending' = <<>>

Ends == TurnOver /\ Leave /\ UNCHANGED <<client, view, sends>>

\* Another answer of the model, or the error of too many.
NextIteration ==
    /\ turn = "asking"
    /\ \/ /\ iteration < MaxIterations
          /\ iteration' = iteration + 1 /\ turn' = "answering"
          /\ Ask
          /\ UNCHANGED <<view, sends, history, pending, cut>>
       \/ /\ iteration = MaxIterations
          /\ Ends /\ UNCHANGED cut

\* Text is shown and kept; a call is shown as pending and kept for later.
Consume ==
    /\ turn = "answering" /\ Provider
    /\ LET new == heard' # heard
           id == Last(heard').id
           ids == IF new /\ id # None THEN <<<<sends, iteration, id>>>> ELSE <<>> IN
       /\ pending' = pending \o ids
       /\ Browser([Shown EXCEPT
             !.text = @ \/ (new /\ id = None),
             !.runs = @ \o [i \in DOMAIN ids |-> [id |-> ids[i], open |-> TRUE]]])
    /\ UNCHANGED <<sends, turn, history, iteration, cut>>
    /\ Cardinality(RunIds \cup Started') <= MaxRuns

\* The answer is complete.  Nothing is kept of an empty one, and one without
\* calls is the last.
Answered ==
    LET text == TextEvent \in ToSet(heard) IN
    /\ turn = "answering" /\ phase = "ended"
    /\ \/ /\ pending = <<>>
          /\ Ends
       \/ /\ pending # <<>>
          /\ turn' = "running"
          /\ history' = Append(history, Says("assistant", text, pending))
          /\ Leave /\ UNCHANGED <<client, view, sends, iteration, pending>>
    /\ UNCHANGED cut

\* Only an error before any content is caught.
FailsUncaught ==
    /\ turn = "answering" /\ phase \in {"failed", "overflowed"} /\ heard = <<>>
    /\ Ends
    /\ cut' = cut \cup OpenIds

\* RuntimeErrorEvent, also for an overflow: nothing here compacts.  The browser
\* keeps what it has of the answer.
Fails ==
    /\ turn = "answering" /\ phase \in {"failed", "overflowed"}
    /\ Ends
    /\ cut' = cut \cup OpenIds

\* A tool that is not allowed is refused in the browser only.
RunAllowedTool ==
    /\ turn = "running" /\ pending # <<>>
    /\ Browser([Shown EXCEPT !.runs = [i \in DOMAIN @ |-> Close(@[i], Head(pending))]])
    /\ \E allowed \in BOOLEAN :
          history' = IF allowed THEN Append(history, Result(Head(pending))) ELSE history
    /\ pending' = Tail(pending)
    /\ turn' = IF Tail(pending) = <<>> THEN "asking" ELSE turn
    /\ UNCHANGED <<client, phase, attempt, acc, sent, over, heard, sends, iteration, cut>>

\* The first pending call is run, or refused, and its result shown and kept.
RunTool ==
    /\ turn = "running" /\ pending # <<>>
    /\ Browser([Shown EXCEPT !.runs = [i \in DOMAIN @ |-> Close(@[i], Head(pending))]])
    /\ history' = Append(history, Result(Head(pending)))
    /\ pending' = Tail(pending)
    /\ turn' = IF Tail(pending) = <<>> THEN "asking" ELSE turn
    /\ UNCHANGED <<client, phase, attempt, acc, sent, over, heard, sends, iteration, cut>>

Serve == NextIteration \/ Consume \/ Answered \/ Fails \/ RunTool

--------------------------------------------------------------------------------
(* The browser                                                                *)

\* The message and an empty answer are shown; all before the answer is posted.
Send ==
    /\ turn = "off" /\ sends < MaxSends
    /\ sends' = sends + 1
    /\ view' = view \o <<User, Placeholder>>
    /\ history' = ToWire(Append(view, User))
    /\ turn' = "asking" /\ client' \in Clients
    /\ UNCHANGED <<phase, attempt, acc, sent, over, heard, iteration, pending, cut>>

\* The stream is aborted; an answer that is still empty goes, with its question.
Stop ==
    /\ turn # "off"
    /\ view' = IF Shown = Placeholder THEN SubSeq(view, 1, Len(view) - 2) ELSE view
    /\ TurnOver /\ Leave
    /\ cut' = cut \cup OpenIds
    /\ UNCHANGED <<client, sends>>

\* The request is refused, or the connection is lost: an error, and what has
\* been shown stays.
Lose ==
    /\ turn # "off"
    /\ Ends
    /\ cut' = cut \cup OpenIds

\* A reload finds what was shown when no answer was streaming.
Refresh ==
    /\ turn # "off"
    /\ view' = SubSeq(view, 1, Len(view) - 2)
    /\ TurnOver /\ Leave
    /\ UNCHANGED <<client, sends, cut>>

Clear ==
    /\ view # <<>> /\ view' = <<>>
    /\ TurnOver /\ Leave
    /\ cut' = {}
    /\ UNCHANGED <<client, sends>>

Next == Serve \/ Send \/ Stop \/ Lose \/ Refresh \/ Clear

\* The loop runs on; a provider that hangs is ended by the timeouts of the SDKs
\* and of httpx.  Nothing makes the user act.
Spec == Init /\ [][Next]_vars /\ WF_vars(Serve)

--------------------------------------------------------------------------------
(* Each answer of the model is a ModelStream: nothing is retried once any of   *)
(* it was yielded, no call comes twice, and one cut short comes without        *)
(* arguments, never with another's (base.py:150, codex.py:240).                *)
Streaming == {"reading", "sleeping", "finishing", "ending"}
Abstract == INSTANCE ModelStream WITH phase <- IF phase \in Streaming THEN "streaming" ELSE phase
ImplementsModelStream == Abstract!Spec

(* The results that come right after a message.                                *)
AnsweredAfter(request, k) ==
    UNION {ToSet(request[j].ids) : j \in {i \in k + 1 .. Len(request) :
        \A between \in k + 1 .. i : request[between].role = "tool"}}

(* Every call a provider is sent is followed by its result, however many       *)
(* answers, stops and providers lie between, except the calls of a turn that   *)
(* was stopped or failed before it had one (stateless.py:169-226,              *)
(* dbHelperChat.ts:231-258).                                                   *)
UnansweredExplained ==
    turn = "answering" =>
       LET request == Converted(history) IN
       \A k \in DOMAIN request : request[k].role = "assistant" =>
          LET last == IF client = "codex"   \* the calls of an answer are a run of items
                      THEN CHOOSE i \in k .. Len(request) :
                              /\ \A j \in k .. i : request[j].role = "assistant"
                              /\ i = Len(request) \/ request[i + 1].role # "assistant"
                      ELSE k IN
          ToSet(request[k].ids) \subseteq AnsweredAfter(request, last) \cup cut

(* A turn of the helper ends, with an answer or an error (stateless.py:91-95). *)
HelperEnds == turn # "off" ~> turn = "off"

================================================================================
