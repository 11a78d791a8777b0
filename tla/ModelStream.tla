------------------------------ MODULE ModelStream ------------------------------
(****************************************************************************)
(* ModelStream: what BaseLLMClient.stream_message promises the two agent    *)
(* loops, whichever provider answers.  Retries come before any content;     *)
(* then text and tool calls, each call once and with its own arguments or   *)
(* none; then an end or an error.  That the request was too long, which the *)
(* chat answers by compacting and asking again, comes before any content.   *)
(****************************************************************************)
EXTENDS Naturals, Sequences

CONSTANTS MaxAttempts, None

VARIABLES
    phase,      \* idle, streaming, ended, failed or overflowed
    attempt,
    heard       \* what the consumer has received of this answer

vars == <<phase, attempt, heard>>

Distinct(h) == \A i, j \in DOMAIN h : h[i].id = h[j].id /\ h[i].id # None => i = j
Own(h) == \A i \in DOMAIN h : h[i].input \in {h[i].id, None}

Init == phase = "idle" /\ attempt = 0 /\ heard = <<>>

Ask ==
    /\ phase = "idle"
    /\ phase' = "streaming" /\ attempt' = 1 /\ heard' = <<>>

Retry ==
    /\ phase = "streaming" /\ heard = <<>> /\ attempt < MaxAttempts
    /\ attempt' = attempt + 1
    /\ UNCHANGED <<phase, heard>>

\* More content, and with the last of it perhaps the end.
Deliver ==
    /\ phase = "streaming" /\ phase' \in {"streaming", "ended"}
    /\ Len(heard') >= Len(heard) /\ SubSeq(heard', 1, Len(heard)) = heard
    /\ Distinct(heard') /\ Own(heard')
    /\ UNCHANGED attempt

Fail == phase = "streaming" /\ phase' = "failed" /\ UNCHANGED <<attempt, heard>>

Overflow ==
    /\ phase = "streaming" /\ heard = <<>>
    /\ phase' = "overflowed" /\ UNCHANGED <<attempt, heard>>

\* The consumer is done with the stream, or closes it.
Leave == phase' = "idle" /\ attempt' = 0 /\ heard' = <<>>

Next == Ask \/ Retry \/ Deliver \/ Fail \/ Overflow \/ Leave
Spec == Init /\ [][Next]_vars
================================================================================
