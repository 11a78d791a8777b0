----------------------------- MODULE SessionSerial -----------------------------
(****************************************************************************)
(* What a chat session promises (docs/runtime.md, "Session lock"): messages *)
(* posted to one session are served one at a time, and each is served to an *)
(* end unless its stream is abandoned or the process dies.                  *)
(****************************************************************************)
CONSTANTS Runs, NoRun

VARIABLES
    phase,   \* of each message
    holder   \* the message being served, or NoRun

vars == <<phase, holder>>

Phases == {"idle", "waiting", "active", "ended"}

Init ==
    /\ phase = [r \in Runs |-> "idle"]
    /\ holder = NoRun

Post(r) ==
    /\ phase[r] = "idle"
    /\ phase' = [phase EXCEPT ![r] = "waiting"]
    /\ UNCHANGED holder

Begin(r) ==
    /\ phase[r] = "waiting" /\ holder = NoRun
    /\ phase' = [phase EXCEPT ![r] = "active"]
    /\ holder' = r

Finish(r) ==
    /\ phase[r] = "active"
    /\ phase' = [phase EXCEPT ![r] = "ended"]
    /\ holder' = NoRun

Abandon(r) ==
    /\ phase[r] = "waiting"
    /\ phase' = [phase EXCEPT ![r] = "ended"]
    /\ UNCHANGED holder

Die ==
    /\ phase' = [r \in Runs |-> IF phase[r] = "idle" THEN "idle" ELSE "ended"]
    /\ holder' = NoRun

Next ==
    \/ \E r \in Runs : Post(r) \/ Begin(r) \/ Finish(r) \/ Abandon(r)
    \/ Die

Spec == Init /\ [][Next]_vars

FairSpec == Spec /\ \A r \in Runs : WF_vars(Begin(r)) /\ WF_vars(Finish(r))

\* The message being served is the active one, and the only one.
OneAtATime == \A r \in Runs : phase[r] = "active" <=> holder = r
================================================================================
