------------------------------ MODULE Credentials ------------------------------
(****************************************************************************)
(* Credentials: one user's ChatGPT connection, the bundle of tokens in      *)
(* user_api_keys.  Requests resolve an access token from it and refresh it  *)
(* under the user's lock (resolve_access_token); device flows, run by a     *)
(* background task each, put a new one there (CodexOAuthService); the user  *)
(* disconnects, cancels a flow or closes the account; the process restarts. *)
(*                                                                          *)
(* A step runs from one await to the next.  The provider, which is not part *)
(* of the program, may rotate the refresh token in every answer and refuses *)
(* one it has rotated away; an answer may be lost.                          *)
(****************************************************************************)
EXTENDS Naturals

CONSTANTS
    Requests,       \* each resolves one access token
    LinkFlows,      \* device flows the user starts in Settings
    SignInFlows,    \* device flows a browser starts before it is signed in
    Seed,           \* the authorisation behind the bundle stored at the start
    None

ASSUME FlowsAssumption == LinkFlows \cap SignInFlows = {}
ASSUME SeedAssumption == {Seed, None} \cap (LinkFlows \cup SignInFlows) = {} /\ Seed # None

Flows == LinkFlows \cup SignInFlows
Origin == Flows \cup {Seed}     \* the authorisation a bundle descends from

\* A bundle: its refresh token is the version-th one of its origin.
TokenBundle == [origin : Origin, version : Nat, stale : BOOLEAN]
Token == Origin \X Nat
RefreshToken(b) == <<b.origin, b.version>>

ASSUME NoneAssumption == None \notin Requests \cup TokenBundle

VARIABLES
    account,    \* the users row exists
    stored,     \* its openai-codex row of user_api_keys
    holder,     \* who holds the user's refresh lock
    at, mem,    \* where a request is, and the bundle it has read
    spent,      \* tokens the provider has rotated away
    step,       \* where the task of a flow is
    mine,       \* whether a sign-in flow has resolved to this account
    status,     \* PendingCodexOAuthFlow.status; failed: expired or error
    record,     \* what became of the flow's record in PendingCodexOAuthFlows
    session,    \* issued for a sign-in flow, and whether a browser has it
    lost,       \* history: rotated tokens whose successor was never stored
    resent,     \* history: tokens sent after they were rotated away
    intended,   \* history: the authorisation the user's last action asked for
    overtaken,  \* history: requests that had sent the bundle when it was replaced
    revived,    \* history: one of them has stored its bundle since
    died,       \* history: flows whose task ended on an error it does not list
    restarted

oauth == <<account, stored, holder>>
requests == <<at, mem, spent>>
flows == <<step, mine, status, record, session>>
hist == <<lost, resent, intended, overtaken, revived, died, restarted>>
vars == <<oauth, requests, flows, hist>>

TypeOK ==
    /\ account \in BOOLEAN /\ stored \in TokenBundle \cup {None}
    /\ holder \in Requests \cup {None}
    /\ at \in [Requests -> {"none", "lock", "reload", "http", "kept", "rotated", "done"}]
    /\ mem \in [Requests -> TokenBundle \cup {None}]
    /\ spent \subseteq Token /\ lost \subseteq spent /\ resent \subseteq spent
    /\ step \in [Flows -> {"none", "authorise", "resolve", "store", "event", "ended"}]
    /\ mine \in [Flows -> BOOLEAN]
    /\ status \in [Flows -> {"pending", "complete", "failed"}]
    /\ record \in [Flows -> {"none", "kept", "fetched", "cancelled", "gone"}]
    /\ session \in [Flows -> {"none", "issued", "handed"}]
    /\ intended \in Origin \cup {None}
    /\ overtaken \subseteq Requests /\ revived \in BOOLEAN
    /\ died \subseteq Flows /\ restarted \in BOOLEAN

Init ==
    /\ account = TRUE
    /\ stored \in {None} \cup [origin : {Seed}, version : {0}, stale : BOOLEAN]
    /\ holder = None
    /\ at = [r \in Requests |-> "none"]
    /\ mem = [r \in Requests |-> None]
    /\ spent = {} /\ lost = {} /\ resent = {}
    /\ step = [f \in Flows |-> "none"]
    /\ mine = [f \in Flows |-> f \in LinkFlows]
    /\ status = [f \in Flows |-> "pending"]
    /\ record = [f \in Flows |-> "none"]
    /\ session = [f \in Flows |-> "none"]
    /\ intended = IF stored = None THEN None ELSE Seed
    /\ overtaken = {} /\ revived = FALSE /\ died = {} /\ restarted = FALSE

--------------------------------------------------------------------------------
(* resolve_access_token                                                       *)

Sent == {r \in Requests : at[r] \in {"http", "kept", "rotated"}}

\* The user's action asks for a bundle, or for none, from here on.
Ask(origin) == intended' = origin /\ overtaken' = Sent /\ revived' = FALSE

\* The answer that holds the successor of r's token goes by.
Lose(r) == lost' = lost \cup {RefreshToken(mem[r])}

Wanting(b) == b # None /\ b.stale   \* is_near_expiry

Load(r) ==
    /\ at[r] = "none"
    /\ at' = [at EXCEPT ![r] = IF Wanting(stored) THEN "lock" ELSE "done"]
    /\ mem' = [mem EXCEPT ![r] = IF Wanting(stored) THEN stored ELSE None]
    /\ UNCHANGED <<oauth, spent, flows, hist>>

AcquireAnyway(r) ==
    /\ at[r] = "lock"
    /\ holder' = r
    /\ at' = [at EXCEPT ![r] = "reload"]
    /\ UNCHANGED <<account, stored, mem, spent, flows, hist>>

Acquire(r) ==
    /\ at[r] = "lock" /\ holder = None
    /\ holder' = r
    /\ at' = [at EXCEPT ![r] = "reload"]
    /\ UNCHANGED <<account, stored, mem, spent, flows, hist>>

Free(r) == holder' = IF holder = r THEN None ELSE holder

\* The request leaves the lock with a token, without one, or on an error.
Finish(r) == Free(r) /\ at' = [at EXCEPT ![r] = "done"] /\ mem' = [mem EXCEPT ![r] = None]

\* The bundle loaded before the lock is sent.
ReloadNothing(r) ==
    /\ at[r] = "reload"
    /\ at' = [at EXCEPT ![r] = "http"]
    /\ resent' = resent \cup (spent \cap {RefreshToken(mem[r])})
    /\ UNCHANGED <<oauth, mem, spent, flows, lost, intended, overtaken, revived, died, restarted>>

\* Under the lock the bundle is loaded again: another request may have
\* refreshed it, or the user have disconnected.
Reload(r) ==
    /\ at[r] = "reload"
    /\ IF Wanting(stored)
       THEN /\ at' = [at EXCEPT ![r] = "http"]
            /\ mem' = [mem EXCEPT ![r] = stored]
            /\ resent' = resent \cup (spent \cap {RefreshToken(stored)})
            /\ UNCHANGED holder
       ELSE Finish(r) /\ UNCHANGED resent
    /\ UNCHANGED <<account, stored, spent, flows, lost, intended, overtaken, revived, died,
                   restarted>>

Refused(r) == Finish(r) /\ UNCHANGED <<spent, lost>>

Answered(r, how) ==
    /\ at' = [at EXCEPT ![r] = how]
    /\ UNCHANGED <<holder, mem, lost>>

Rotated(r) == spent' = spent \cup {RefreshToken(mem[r])}

\* refresh_access_token: refused or failed before the provider acts, answered
\* with the same refresh token or a new one, or lost after it was rotated.
Answer(r) ==
    /\ at[r] = "http"
    /\ \/ Refused(r)
       \/ /\ RefreshToken(mem[r]) \notin spent
          /\ \/ Answered(r, "kept") /\ UNCHANGED spent
             \/ Answered(r, "rotated") /\ Rotated(r)
             \/ Rotated(r) /\ Lose(r) /\ Finish(r)
    /\ UNCHANGED <<account, stored, flows, resent, intended, overtaken, revived, died, restarted>>

Refreshed(r) ==
    [origin |-> mem[r].origin, stale |-> FALSE,
     version |-> mem[r].version + (IF at[r] = "rotated" THEN 1 ELSE 0)]

\* upsert_api_key, whatever row is there; without the users row it is an error.
Write(r) ==
    /\ at[r] \in {"kept", "rotated"}
    /\ IF account THEN stored' = Refreshed(r) /\ UNCHANGED lost
       ELSE UNCHANGED stored /\ IF at[r] = "rotated" THEN Lose(r) ELSE UNCHANGED lost
    /\ revived' = (revived \/ (account /\ r \in overtaken))
    /\ Finish(r)
    /\ UNCHANGED <<account, spent, flows, resent, intended, overtaken, died, restarted>>

--------------------------------------------------------------------------------
(* CodexOAuthService.run_device_flow                                          *)

Go(f, s) == step' = [step EXCEPT ![f] = s]
Settle(f, s) == status' = [status EXCEPT ![f] = s] /\ Go(f, "ended")
Registered == {f \in Flows : record[f] = "kept"}
Settled == {f \in Registered : status[f] # "pending"}

\* An error run_device_flow does not list, of httpx or of the store, ends the
\* task and leaves the record as it is.
Die(f) == Go(f, "ended") /\ died' = died \cup {f} /\ UNCHANGED status
Listed(f) == Settle(f, "failed") /\ UNCHANGED died

\* An expired code is not handled.
AuthoriseUnhandled(f) ==
    /\ step[f] = "authorise"
    /\ \/ Go(f, IF f \in SignInFlows THEN "resolve" ELSE "store") /\ UNCHANGED <<status, died>>
       \/ Go(f, "ended") /\ UNCHANGED <<status, died>>
    /\ UNCHANGED <<oauth, requests, mine, record, session, lost, resent, intended, overtaken,
                   revived, restarted>>

\* poll_device_code and exchange_code: the user authorises and the tokens are
\* handed over, or the window closes (DeviceCodeExpired) or a call fails.
Authorise(f) ==
    /\ step[f] = "authorise"
    /\ \/ Go(f, IF f \in SignInFlows THEN "resolve" ELSE "store") /\ UNCHANGED <<status, died>>
       \/ Listed(f)
       \/ Die(f)
    /\ UNCHANGED <<oauth, requests, mine, record, session, lost, resent, intended, overtaken,
                   revived, restarted>>

\* _resolve_signin: the identity's account, or a new one when this account is
\* closed; it issues the session.
Issue(f) ==
    /\ session' = [session EXCEPT ![f] = "issued"]
    /\ mine' = [mine EXCEPT ![f] = account]

ResolveSignIn(f) ==
    /\ step[f] = "resolve"
    /\ \/ Issue(f) /\ Go(f, "store") /\ UNCHANGED <<status, died>>
       \/ Listed(f) /\ UNCHANGED <<session, mine>>
    /\ UNCHANGED <<oauth, requests, record, lost, resent, intended, overtaken, revived, restarted>>

\* upsert_api_key of the new bundle: what the user asks for from here on.
Upsert(f) ==
    IF mine[f] /\ account
    THEN stored' = [origin |-> f, version |-> 0, stale |-> FALSE] /\ Ask(f)
    ELSE UNCHANGED <<stored, intended, overtaken, revived>>

\* A sign-in is complete with it: rec.lock is never held across an await.
StoreBundle(f) ==
    /\ step[f] = "store"
    /\ Upsert(f)
    /\ IF mine[f] /\ ~account THEN Die(f)
       ELSE /\ UNCHANGED died
            /\ IF f \in SignInFlows THEN Settle(f, "complete") ELSE Go(f, "event") /\ UNCHANGED status
    /\ UNCHANGED <<account, holder, requests, mine, record, session, lost, resent, restarted>>

\* record_security_event of a link, which is complete then.
RecordEvent(f) ==
    /\ step[f] = "event"
    /\ IF account THEN Settle(f, "complete") /\ UNCHANGED died ELSE Die(f)
    /\ UNCHANGED <<oauth, requests, mine, record, session, lost, resent, intended, overtaken,
                   revived, restarted>>

--------------------------------------------------------------------------------
(* The routes over a flow                                                     *)

\* evict_terminal_older_than: the settled records that are twenty minutes old.
\* Its caller then registers, drops or leaves the record of f.
Evicting(old, f, outcome) ==
    record' = [g \in Flows |-> IF g \in old THEN "gone"
                               ELSE IF g = f THEN outcome ELSE record[g]]

\* start and start_signin.
Start(f) ==
    /\ record[f] = "none" /\ (f \in LinkFlows => account)
    /\ \E old \in SUBSET Settled : Evicting(old, f, "kept")
    /\ Go(f, "authorise")
    /\ UNCHANGED <<oauth, requests, mine, status, session, hist>>

Hand(f) == session' = [session EXCEPT ![f] = IF @ = "issued" THEN "handed" ELSE @]

\* Drops the record whatever its status.
FetchAndDrop(f) ==
    /\ f \in Registered /\ (f \in LinkFlows => account)
    /\ Evicting({}, f, "fetched")
    /\ IF status[f] = "complete" THEN Hand(f) ELSE UNCHANGED session
    /\ UNCHANGED <<oauth, requests, step, mine, status, hist>>

\* status and signin_status; a record found settled is dropped, and the session
\* of a complete sign-in is set as the browser's cookie.
Fetch(f) ==
    /\ f \in Registered /\ (f \in LinkFlows => account)
    /\ \E old \in SUBSET Settled :
          /\ Evicting(old, f, IF status[f] = "pending" THEN "kept" ELSE "fetched")
          /\ IF status[f] = "complete" /\ f \notin old THEN Hand(f) ELSE UNCHANGED session
    /\ UNCHANGED <<oauth, requests, step, mine, status, hist>>

\* The task's own cancellation: a transaction that is under way may still commit.
Stopped(f) ==
    /\ Go(f, "ended")
    /\ \/ UNCHANGED <<stored, intended, overtaken, revived, session, mine>>
       \/ step[f] = "store" /\ Upsert(f) /\ UNCHANGED <<session, mine>>
       \/ /\ step[f] = "resolve" /\ Issue(f)
          /\ UNCHANGED <<stored, intended, overtaken, revived>>

\* The record is dropped and the task left alone.
CancelRecord(f) ==
    /\ f \in Registered /\ (f \in LinkFlows => account)
    /\ record' = [record EXCEPT ![f] = "cancelled"]
    /\ UNCHANGED <<oauth, requests, step, mine, status, session, hist>>

\* cancel and cancel_signin: _pop_and_cancel returns when the task has ended.
Cancel(f) ==
    /\ f \in Registered /\ (f \in LinkFlows => account)
    /\ record' = [record EXCEPT ![f] = "cancelled"]
    /\ Stopped(f)
    /\ UNCHANGED <<account, holder, requests, status, lost, resent, died, restarted>>

--------------------------------------------------------------------------------
(* The user, time and the process                                             *)

\* delete_api_key takes no lock.
Delete == stored # None /\ stored' = None

\* update_api_key with no key.
Disconnect ==
    /\ account
    /\ Delete
    /\ Ask(None)
    /\ UNCHANGED <<account, holder, requests, flows, lost, resent, died, restarted>>

\* delete_user; the row of user_api_keys goes by the cascade.
CloseAccount ==
    /\ account
    /\ account' = FALSE /\ stored' = None
    /\ Ask(None)
    /\ UNCHANGED <<holder, requests, flows, lost, resent, died, restarted>>

Expire ==
    /\ stored # None /\ ~stored.stale
    /\ stored' = [stored EXCEPT !.stale = TRUE]
    /\ UNCHANGED <<account, holder, requests, flows, hist>>

\* aclose and a new process: the records, the tasks, the locks and the
\* requests are gone; a token that was sent may have been rotated.
Restart ==
    /\ ~restarted /\ restarted' = TRUE
    /\ holder' = None
    /\ at' = [r \in Requests |-> IF at[r] = "none" THEN "none" ELSE "done"]
    /\ mem' = [r \in Requests |-> None]
    /\ LET gone(s) == {RefreshToken(mem[r]) : r \in {q \in Requests : at[q] = s}} IN
         \E more \in SUBSET gone("http") :
            spent' = spent \cup more /\ lost' = lost \cup gone("rotated") \cup more
    /\ step' = [f \in Flows |-> IF step[f] = "none" THEN "none" ELSE "ended"]
    /\ record' = [f \in Flows |-> IF f \in Registered THEN "gone" ELSE record[f]]
    /\ UNCHANGED <<account, stored, mine, status, session, resent, intended, overtaken,
                   revived, died>>

--------------------------------------------------------------------------------
Requesting(r) == Load(r) \/ Acquire(r) \/ Reload(r) \/ Answer(r) \/ Write(r)
Running(f) == Authorise(f) \/ ResolveSignIn(f) \/ StoreBundle(f) \/ RecordEvent(f)

Next ==
    \/ \E r \in Requests : Requesting(r)
    \/ \E f \in Flows : Running(f) \/ Start(f) \/ Fetch(f) \/ Cancel(f)
    \/ Disconnect \/ CloseAccount \/ Expire \/ Restart

\* The event loop resumes what can go on, the lock is granted in turn, a poll
\* ends within its fifteen minutes, and httpx and SQLite have timeouts.  Users
\* need do nothing.
Fairness ==
    /\ \A r \in Requests : WF_vars(Acquire(r) \/ Reload(r) \/ Answer(r) \/ Write(r))
    /\ \A f \in Flows : WF_vars(Running(f))

Spec == Init /\ [][Next]_vars /\ Fairness

--------------------------------------------------------------------------------
(* A refresh token is sent again after the provider has rotated it away only   *)
(* if its successor was lost on the way: refreshes are serialised by the lock, *)
(* each reads what the one before it has stored (codex.py:109-120).            *)
NoSpentTokenSent == resent \subseteq lost

(* The stored bundle is of the authorisation the user asked for last, and none *)
(* is stored after a disconnect, unless a refresh that had sent the bundle     *)
(* before that has stored its answer after it (codex.py:110, settings.py:105). *)
LastActionWins ==
    revived \/ intended = IF stored = None THEN None ELSE stored.origin

(* A cancelled flow connects nothing later (codex.py:288-295): a bundle of its *)
(* authorisation comes back only through a refresh that had read it.           *)
CancelSticks ==
    [][\A f \in Flows : record[f] = "cancelled" /\ (stored = None \/ stored.origin # f)
            => stored' = None \/ stored'.origin # f \/ revived']_vars

(* A session issued to a sign-in flow is never dropped unseen: a browser has   *)
(* it, or its record waits to be fetched, unless the flow was cancelled, left  *)
(* for twenty minutes, or its process or its task died on the way              *)
(* (codex.py:249-274).                                                         *)
SessionNotDropped ==
    \A f \in SignInFlows :
        session[f] = "issued" /\ step[f] = "ended" =>
            \/ record[f] = "kept" /\ status[f] = "complete"
            \/ record[f] \in {"cancelled", "gone"}
            \/ f \in died

Unsettled ==
    \/ \E r \in Requests : at[r] = "lock"
    \/ \E f \in Registered \ died : status[f] = "pending"

(* A request that waits for the lock is served and a flow's record is settled  *)
(* or dropped, unless its task died on an error it does not list: no request   *)
(* and no flow, each of which happens once, stays unsettled (codex.py:109,     *)
(* 176-192).                                                                   *)
Settles == Unsettled ~> ~Unsettled
================================================================================
