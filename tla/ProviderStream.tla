----------------------------- MODULE ProviderStream -----------------------------
(****************************************************************************)
(* ProviderStream: BaseLLMClient.stream_message, which opens a stream and   *)
(* retries until something has been yielded, over the three clients'        *)
(* _stream_once, which put tool calls together from what the provider       *)
(* sends.  Anthropic sends one block at a time; OpenAI sends pieces by      *)
(* index and a finish reason; the Codex endpoint sends items that name, and *)
(* repeat the arguments of, a call more than once.                          *)
(*                                                                          *)
(* The provider is not part of the program: it sends any legal sequence of  *)
(* events and may fail or end anywhere.  The arguments of a call are one    *)
(* piece, named after the call; a call cut short has none of it.            *)
(****************************************************************************)
EXTENDS Naturals, Sequences, SequencesExt

CONSTANTS
    Clients,        \* subset of {"anthropic", "openai", "codex"}
    MaxCalls,       \* bound: the tool calls of one answer
    MaxAttempts,    \* MAX_ATTEMPTS
    None

ASSUME ClientsAssumption == Clients \subseteq {"anthropic", "openai", "codex"}
ASSUME AttemptsAssumption == MaxAttempts \in Nat \ {0}
ASSUME CallsAssumption == MaxCalls \in Nat

\* Numbered in the order the provider starts them.
Calls == 1 .. MaxCalls

ASSUME NoneIsNoCall == None \notin Calls

VARIABLES
    client,     \* of the user's provider
    phase,      \* of stream_message; finishing and ending are OpenAI's emitting
    attempt,
    acc,        \* the calls being put together, or still to be emitted
    sent,       \* how much of a call the provider has sent in this attempt
    over,       \* the provider has sent its finish reason
    heard       \* the events yielded

stream == <<client, phase, attempt, acc, sent, over, heard>>

Slot == [id : Calls, named : BOOLEAN, args : Seq(Calls), emitted : BOOLEAN]
Event == [id : Calls \cup {None}, input : Calls \cup {None}]

StreamTypeOK ==
    /\ client \in Clients
    /\ phase \in {"idle", "reading", "sleeping", "finishing", "ending",
                  "ended", "failed", "overflowed"}
    /\ attempt \in 0 .. MaxAttempts
    /\ acc \in Seq(Slot)
    /\ sent \in [Calls -> {"none", "nameless", "begun", "whole", "done"}]
    /\ over \in BOOLEAN
    /\ heard \in Seq(Event)

StreamInit ==
    /\ client \in Clients
    /\ phase = "idle" /\ attempt = 0
    /\ acc = <<>> /\ sent = [c \in Calls |-> "none"] /\ over = FALSE
    /\ heard = <<>>

TextEvent == [id |-> None, input |-> None]
NewSlot(c, named) == [id |-> c, named |-> named, args |-> <<>>, emitted |-> FALSE]

\* build_tool_use_event: arguments that do not parse become {}.
ToolUseEvent(s) == [id |-> s.id, input |-> IF s.args = <<s.id>> THEN s.id ELSE None]

--------------------------------------------------------------------------------
(* stream_message                                                             *)

Ask ==
    /\ phase = "idle" /\ phase' = "reading" /\ attempt' = 1
    /\ acc' = <<>> /\ heard' = <<>> /\ sent' = [c \in Calls |-> "none"] /\ over' = FALSE
    /\ UNCHANGED client

\* The consumer is done with the stream, or closes it.
Leave ==
    /\ phase' = "idle" /\ attempt' = 0 /\ heard' = <<>>
    /\ acc' = <<>> /\ sent' = [c \in Calls |-> "none"] /\ over' = FALSE

\* What opening the stream may raise: a rate limit or an overload, no connection
\* or none in time, a rejected key, a bad request (400) whose body says that the
\* context is exceeded, or another.  Reading it: silence, a broken connection,
\* an error event, which has the status of the response and not one of its own.
Opening == heard = <<>> /\ ~over /\ \A c \in Calls : sent[c] = "none"
Errors ==
    {"silent", "broken", "reported"} \cup
    (IF Opening THEN {"limited", "unreachable", "rejected", "too long", "bad"} ELSE {})

AnthropicTransient == {"limited", "unreachable"}
OpenAITransient == {"limited", "unreachable"}
CodexTransient == {"limited", "unreachable", "silent"}
Transient ==
    CASE client = "anthropic" -> AnthropicTransient
      [] client = "openai" -> OpenAITransient
      [] client = "codex" -> CodexTransient

\* _translate_error: ContextOverflowError, or LLMError.
IsContextOverflow(error) == error = "too long"
AnthropicTranslated(error) == IF IsContextOverflow(error) THEN "overflowed" ELSE "failed"
OpenAITranslated(error) == IF IsContextOverflow(error) THEN "overflowed" ELSE "failed"
CodexTranslated(error) == IF IsContextOverflow(error) THEN "overflowed" ELSE "failed"
Translated(error) ==
    CASE client = "anthropic" -> AnthropicTranslated(error)
      [] client = "openai" -> OpenAITranslated(error)
      [] client = "codex" -> CodexTranslated(error)

\* Whatever has been yielded, a transient error is retried.
BreakAndRetry ==
    /\ phase = "reading"
    /\ \E error \in Errors :
          phase' = IF error \in Transient /\ attempt < MaxAttempts
                   THEN "sleeping" ELSE Translated(error)
    /\ UNCHANGED <<client, attempt, acc, sent, over, heard>>

\* An exception ends the stream unless it is transient and nothing was yielded.
Break ==
    /\ phase = "reading"
    /\ \E error \in Errors :
          phase' = IF error \in Transient /\ heard = <<>> /\ attempt < MaxAttempts
                   THEN "sleeping" ELSE Translated(error)
    /\ UNCHANGED <<client, attempt, acc, sent, over, heard>>

\* The delay is over; the next attempt starts from nothing.
Wake ==
    /\ phase = "sleeping"
    /\ phase' = "reading" /\ attempt' = attempt + 1
    /\ acc' = <<>> /\ sent' = [c \in Calls |-> "none"] /\ over' = FALSE
    /\ UNCHANGED <<client, heard>>

--------------------------------------------------------------------------------
(* _stream_once                                                               *)

Reading(of) == client = of /\ phase = "reading" /\ ~over
Goes(c, from, to) ==
    /\ sent[c] \in from /\ \A d \in 1 .. c - 1 : sent[d] # "none"
    /\ sent' = [sent EXCEPT ![c] = to]
Hear(events) == heard' = heard \o events
Silent == UNCHANGED heard
Position(c) == CHOOSE i \in DOMAIN acc : acc[i].id = c
Has(c) == \E i \in DOMAIN acc : acc[i].id = c
Chunk == UNCHANGED <<client, phase, attempt, over>>

\* One text delta stands for the text of an answer; Anthropic's come in blocks
\* of their own.
Text ==
    /\ Reading(client) /\ (client = "anthropic" => acc = <<>>)
    /\ ~Contains(heard, TextEvent)
    /\ Hear(<<TextEvent>>)
    /\ Chunk /\ UNCHANGED <<acc, sent>>

\* input_json_delta, a delta of an index, function_call_arguments.delta.
Arguments(c) ==
    /\ Reading(client) /\ Has(c) /\ Goes(c, {"begun"}, "whole")
    /\ acc' = [acc EXCEPT ![Position(c)].args = Append(@, c)]
    /\ Chunk /\ Silent

AnthropicStart(c) ==
    /\ Reading("anthropic") /\ acc = <<>> /\ Goes(c, {"none"}, "begun")
    /\ acc' = <<NewSlot(c, TRUE)>>
    /\ Chunk /\ Silent

AnthropicStop(c) ==
    /\ Reading("anthropic") /\ Has(c)
    /\ sent' = [sent EXCEPT ![c] = IF @ = "whole" THEN "done" ELSE @]
    /\ Hear(<<ToolUseEvent(acc[1])>>)
    /\ acc' = <<>>
    /\ Chunk

\* A delta of an index that never comes with an id and a name is a call lost.
OpenAIStart(c) ==
    /\ Reading("openai")
    /\ \/ Goes(c, {"none"}, "begun") /\ acc' = Append(acc, NewSlot(c, TRUE))
       \/ Goes(c, {"none"}, "nameless") /\ acc' = Append(acc, NewSlot(c, FALSE))
    /\ Chunk /\ Silent

\* finish_reason: tool_calls, or stop or length.
OpenAIFinish ==
    /\ Reading("openai") /\ over' = TRUE
    /\ phase' \in {"finishing", "reading"}
    /\ UNCHANGED <<client, attempt, acc, sent, heard>>

\* emit_accumulated_tool_calls, one by one in the order of the indices, without
\* the incomplete ones.
EmitAccumulated ==
    /\ phase \in {"finishing", "ending"} /\ acc # <<>>
    /\ Hear(IF Head(acc).named THEN <<ToolUseEvent(Head(acc))>> ELSE <<>>)
    /\ acc' = Tail(acc)
    /\ UNCHANGED <<client, phase, attempt, sent, over>>

Emitted ==
    /\ phase \in {"finishing", "ending"} /\ acc = <<>>
    /\ phase' = IF phase = "finishing" THEN "reading" ELSE "ended"
    /\ UNCHANGED <<client, attempt, acc, sent, over, heard>>

\* output_item.added
CodexAdded(c) ==
    /\ Reading("codex") /\ Goes(c, {"none"}, "begun")
    /\ \E named \in BOOLEAN : acc' = Append(acc, NewSlot(c, named))
    /\ Chunk /\ Silent

\* The slot of c, put there if no event named it before, with all its arguments;
\* emitted once, as soon as its name is known.
Completed(c, named) ==
    LET slots == IF Has(c) THEN acc ELSE Append(acc, NewSlot(c, FALSE))
        i == CHOOSE k \in DOMAIN slots : slots[k].id = c
        s == [slots[i] EXCEPT !.args = <<c>>, !.named = @ \/ named] IN
    /\ acc' = [slots EXCEPT ![i] = [s EXCEPT !.emitted = s.named]]
    /\ Hear(IF s.named /\ ~s.emitted THEN <<ToolUseEvent(s)>> ELSE <<>>)

\* function_call_arguments.done
CodexArgumentsDone(c) ==
    /\ Reading("codex") /\ Goes(c, {"none", "begun", "whole"}, "whole")
    /\ Completed(c, FALSE)
    /\ Chunk

\* output_item.done
CodexItemDone(c) ==
    /\ Reading("codex") /\ Goes(c, {"none", "begun", "whole"}, "done")
    /\ Completed(c, TRUE)
    /\ Chunk

\* The leftovers are logged and no more.
EndSilently ==
    /\ phase = "reading" /\ phase' = "ended"
    /\ Silent /\ acc' = <<>>
    /\ UNCHANGED <<client, attempt, sent, over>>

\* The stream is exhausted, with or without the provider's finish; OpenAI's
\* leftovers are emitted then.
End ==
    /\ phase = "reading"
    /\ IF client = "openai" THEN phase' = "ending" /\ acc' = acc
                            ELSE phase' = "ended" /\ acc' = <<>>
    /\ Silent /\ UNCHANGED <<client, attempt, sent, over>>

Provider ==
    \/ Break \/ Wake \/ Text \/ OpenAIFinish \/ EmitAccumulated \/ Emitted \/ End
    \/ \E c \in Calls :
          \/ Arguments(c) \/ AnthropicStart(c) \/ AnthropicStop(c) \/ OpenAIStart(c)
          \/ CodexAdded(c) \/ CodexArgumentsDone(c) \/ CodexItemDone(c)

--------------------------------------------------------------------------------
Finished(c) == sent[c] = "done" \/ (client = "openai" /\ sent[c] = "whole")

(* A call that has been heard without its arguments was cut short by the       *)
(* provider, and one the provider has finished is heard, with its arguments,   *)
(* by the time the stream ends (tool_calls.py:20-25, openai.py:217-224,        *)
(* codex.py:228-252).                                                          *)
CallsWhole ==
    /\ \A i \in DOMAIN heard :
          heard[i].id # None /\ heard[i].input = None => sent[heard[i].id] = "begun"
    /\ phase = "ended" =>
          \A c \in Calls : Finished(c) =>
             Contains(heard, [id |-> c, input |-> c])
================================================================================
