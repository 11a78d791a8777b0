-------------------------------- MODULE Accounts --------------------------------
(****************************************************************************)
(* Accounts: the users, user_identities, auth_sessions, login_failures and  *)
(* email_verifications tables, and the requests of AuthService,             *)
(* GoogleOAuthService and resolve_oauth_signin that change them.            *)
(*                                                                          *)
(* Every request serves one operation.  at[r] is the store call it is       *)
(* suspended at: each call is one transaction, and between two of them      *)
(* other requests run or the process dies.  mem[r] holds what it has read   *)
(* and goes on using.  A password is named after the request that set it, a *)
(* session token and a link after the request that issued them.             *)
(****************************************************************************)
EXTENDS Integers, FiniteSets

CONSTANTS
    Requests,
    Emails,
    Providers,      \* of OAuth identities; the subject of an address is the address
    Google,         \* the one that can be linked and unlinked
    Password,       \* the provider of password identities
    Ids,            \* users.id: bound on the accounts that exist at a time
    MaxFailures,    \* LOGIN_LOCKOUT_MAX_FAILURES
    VerificationRequired,   \* EMAIL_VERIFICATION_REQUIRED
    InFlight,       \* bound on the requests that are served at a time
    Seed,           \* what was there at the start
    None

ASSUME IdsAssumption == Ids \subseteq Nat \ {0} /\ IsFiniteSet(Ids)
ASSUME MaxFailuresAssumption == MaxFailures \in Nat \ {0}
ASSUME ProvidersAssumption == Google \in Providers /\ Password \notin Providers
ASSUME NoneIsNobody == None \notin Requests \cup Emails \cup Ids \cup {Seed} /\ Seed \notin Requests

Author == Requests \cup {Seed}
Proof == Author \cup {None}     \* a password; None is OAUTH_ONLY_SENTINEL_HASH
Holder == [user : Ids, born : Author, late : BOOLEAN]

User == [email : Emails, password : Proof, admin : BOOLEAN, verified : BOOLEAN, born : Author]
Session == [user : Ids, born : Author, late : BOOLEAN, proof : Proof]
Failures == [count : 0 .. MaxFailures + 1, lock : {"none", "live", "over"}, old : BOOLEAN]
Link == [user : Ids, born : Author, purpose : {"signup", "password_reset"}, used : BOOLEAN]
Memory == [email : Emails \cup {None}, provider : Providers \cup {Password},
           user : Ids \cup {None}, born : Proof, proof : Proof, token : Proof,
           first : BOOLEAN, read : Failures \cup {None}]
ASSUME NoneIsNoRow ==
    None \notin User \cup Session \cup Holder \cup Link \cup [user : Ids \cup {None}, born : Proof]

Operations == {"none", "register", "login", "logout", "change", "close", "verify",
               "resend", "forgot", "reset", "signin", "link", "unlink", "start"}
Location == {"none", "done", "known", "count", "create", "seed", "adopt", "check", "look",
             "failures", "record", "clear", "issue", "link", "drop", "current", "update",
             "revoke", "delete", "consume", "find", "mark", "identity", "account", "tie",
             "list", "untie", "offer"}

VARIABLES
    users, sessions, identities, failures, links,
    orphans,    \* who owns the conversations and exports made before the first account
    pending,    \* PendingGoogleOAuthFlows: whose link it is, or Seed for a sign-in
    op, at, mem,
    raced,      \* history: a failure was recorded after another one since it was read
    contested,  \* history: accounts whose identity another account has taken
    displaced,  \* history: accounts unlinked by a request of the id's former account
    paired,     \* history: two registrations had both counted no users
    leaderless, \* history: an admin has closed its account
    redeemed,   \* history: the requests that consumed a link
    applied,    \* history: the requests that wrote a password
    unwritten,    \* history: the requests that failed before their password was written
    crashed

db   == <<users, sessions, identities, failures, links, orphans>>
work == <<op, at, mem>>
hist == <<raced, contested, displaced, paired, leaderless, redeemed, applied, unwritten, crashed>>
vars == <<db, pending, work, hist>>

--------------------------------------------------------------------------------
Blank == [email |-> None, provider |-> Password, user |-> None, born |-> None,
          proof |-> None, token |-> None, first |-> FALSE, read |-> None]

Account == {i \in Ids : users[i] # None}
ByEmail(e) == {i \in Account : users[i].email = e}
Owner(p, e) == IF identities[<<p, e>>] = None THEN None ELSE identities[<<p, e>>].user
IdentitiesOf(i) == {k \in DOMAIN identities : Owner(k[1], k[2]) = i}
Flow(u, b) == [user |-> u, born |-> b]
NoFailures == [count |-> 0, lock |-> "none", old |-> FALSE]
Busy == {r \in Requests : at[r] \notin {"none", "done"}}
Seeded(i) == [user |-> i, born |-> Seed, late |-> FALSE]

\* Before the first account, or one account, with a password or by Google; a
\* link that was mailed or a Google flow may be outstanding.
Init ==
    /\ users \in [Ids -> {None} \cup
                   {u \in User : u.password \in {Seed, None} /\ u.admin /\ u.born = Seed}]
    /\ \A i \in Account : i = 1 /\ (users[i].password = None => users[i].verified)
    /\ sessions = [t \in Author |->
                     IF t = Seed /\ Account # {}
                     THEN [user |-> 1, born |-> Seed, late |-> FALSE, proof |-> users[1].password]
                     ELSE None]
    /\ identities = [k \in (Providers \cup {Password}) \X Emails |->
                       IF /\ Account # {} /\ k[2] = users[1].email
                          /\ k[1] = IF users[1].password = None THEN Google ELSE Password
                       THEN Seeded(1) ELSE None]
    /\ failures = [e \in Emails |-> NoFailures]
    /\ orphans = IF Account = {} THEN None ELSE Seed
    /\ LET flow(p) == pending = [s \in Author |-> IF s = Seed THEN p ELSE None]
           mail(l) == links = [k \in Author |-> IF k = Seed THEN l ELSE None] IN
       \/ mail(None) /\ flow(None)
       \/ mail(None) /\ flow(Flow(None, None))
       \/ Account # {} /\ mail(None) /\ flow(Flow(1, Seed))
       \/ \E purpose \in {"signup", "password_reset"} :
             /\ Account # {} /\ flow(None)
             /\ mail([user |-> 1, born |-> Seed, purpose |-> purpose, used |-> FALSE])
    /\ op = [r \in Requests |-> "none"]
    /\ at = [r \in Requests |-> "none"]
    /\ mem = [r \in Requests |-> Blank]
    /\ raced = [e \in Emails |-> FALSE]
    /\ contested = {}
    /\ displaced = {}
    /\ paired = FALSE
    /\ leaderless = FALSE
    /\ redeemed = [k \in Author |-> {}]
    /\ applied = {}
    /\ unwritten = {}
    /\ crashed = FALSE

--------------------------------------------------------------------------------
(* Requests.  One that is refused before its first write is left out.           *)

Step(r, l, m) ==
    /\ at' = [at EXCEPT ![r] = l]
    /\ mem' = [mem EXCEPT ![r] = IF l = "done" THEN Blank ELSE m]
To(r, l) == Step(r, l, mem[r])
Stay == UNCHANGED <<pending, op, hist>>

Begin(r, o, l, m) ==
    /\ op[r] = "none" /\ Cardinality(Busy) < InFlight
    /\ op' = [op EXCEPT ![r] = o]
    /\ Step(r, l, m)

Found(m, i) == [m EXCEPT !.user = i, !.born = users[i].born, !.proof = users[i].password,
                         !.email = users[i].email]

BeginByEmail(r) ==
    /\ \E e \in Emails :
          \/ Begin(r, "register", "known", [Blank EXCEPT !.email = e])
          \/ Begin(r, "login", "check", [Blank EXCEPT !.email = e])
    /\ UNCHANGED <<db, pending, hist>>

BeginMail(r) ==
    /\ \E e \in Emails, o \in {"resend", "forgot"} :
          Begin(r, o, "look", [Blank EXCEPT !.email = e])
    /\ UNCHANGED <<db, pending, hist>>

\* get_current_user: a session that has expired is deleted, which logging out
\* also does; a live one names the user.
Authenticated(t) == [Found(Blank, sessions[t].user) EXCEPT !.token = t]

BeginWithSession(r) ==
    /\ \E t \in {x \in Author : sessions[x] # None} :
          \/ Begin(r, "logout", "drop", Authenticated(t))
          \/ Begin(r, "change", "current", Authenticated(t))
          \/ Begin(r, "close", "current", Authenticated(t))
    /\ UNCHANGED <<db, pending, hist>>

BeginInSettings(r) ==
    /\ \E t \in {x \in Author : sessions[x] # None} :
          \/ Begin(r, "unlink", "list", Authenticated(t))
          \/ Begin(r, "start", "offer", Authenticated(t))
    /\ UNCHANGED <<db, pending, hist>>

WithLink(r, o, purpose) ==
    \E k \in Author :
       /\ links[k] # None /\ links[k].purpose = purpose
       /\ Begin(r, o, "consume", [Blank EXCEPT !.token = k])

BeginVerify(r) == WithLink(r, "verify", "signup") /\ UNCHANGED <<db, pending, hist>>
BeginReset(r) == WithLink(r, "reset", "password_reset") /\ UNCHANGED <<db, pending, hist>>

\* _begin.  The state is what the callback brings back.
Offered(r, flow) == pending' = [pending EXCEPT ![r] = flow]

BeginGoogle(r) ==
    /\ Begin(r, "start", "done", Blank)
    /\ Offered(r, Flow(None, None))
    /\ UNCHANGED <<db, hist>>

BeginLinking(r) ==
    /\ at[r] = "offer"
    /\ Offered(r, Flow(mem[r].user, mem[r].born))
    /\ To(r, "done")
    /\ UNCHANGED <<db, op, hist>>

\* complete_callback pops the state, then exchanges the code, which may fail.
Popped(s) == pending' = [pending EXCEPT ![s] = None]
Exchanged(r, flow, e) ==
    \/ Begin(r, IF flow.user = None THEN "signin" ELSE "link", "identity",
             [Blank EXCEPT !.email = e, !.provider = Google, !.user = flow.user, !.born = flow.born])
    \/ Begin(r, "signin", "done", Blank)

Callback(r) ==
    /\ \E s \in Author, e \in Emails :
          pending[s] # None /\ Popped(s) /\ Exchanged(r, pending[s], e)
    /\ UNCHANGED <<db, hist>>

\* A device flow of another provider that has been authorized.
DeviceSignIn(r) ==
    /\ \E e \in Emails, p \in Providers \ {Google} :
          Begin(r, "signin", "identity", [Blank EXCEPT !.email = e, !.provider = p])
    /\ UNCHANGED <<db, pending, hist>>

--------------------------------------------------------------------------------
(* create_user_account, for register and for an OAuth sign-up                   *)

CheckKnown(r) ==
    /\ at[r] = "known"
    /\ To(r, IF ByEmail(mem[r].email) = {} THEN "count" ELSE "done")
    /\ UNCHANGED db /\ Stay

CountUsersMutant(r) ==      \* not counted
    /\ at[r] = "count"
    /\ Step(r, "create", [mem[r] EXCEPT !.first = TRUE])
    /\ paired' = (paired \/ (Account = {} /\ \E b \in Requests : at[b] = "create" /\ mem[b].first))
    /\ UNCHANGED <<db, pending, op, raced, contested, displaced, leaderless, redeemed, applied, unwritten, crashed>>

CountUsers(r) ==
    /\ at[r] = "count"
    /\ Step(r, "create", [mem[r] EXCEPT !.first = Account = {}])
    /\ paired' = (paired \/ (Account = {} /\ \E b \in Requests : at[b] = "create" /\ mem[b].first))
    /\ UNCHANGED <<db, pending, op, raced, contested, displaced, leaderless, redeemed, applied, unwritten, crashed>>

NewUser(r) ==
    [email |-> mem[r].email, password |-> IF op[r] = "register" THEN r ELSE None,
     admin |-> mem[r].first, verified |-> op[r] # "register", born |-> r]

\* The address is unique.  Without AUTOINCREMENT the id follows the largest one
\* in use, so that it may be the id of an account that was closed.
CreateUser(r) ==
    /\ at[r] = "create"
    /\ IF ByEmail(mem[r].email) = {}
       THEN \E i \in Ids :
               /\ (\A j \in Account : j < i) /\ (i = 1 \/ i - 1 \in Account)
               /\ users' = [users EXCEPT ![i] = NewUser(r)]
               /\ Step(r, "seed", [mem[r] EXCEPT !.user = i, !.born = r, !.proof = NewUser(r).password])
       ELSE To(r, "done") /\ UNCHANGED users
    /\ UNCHANGED <<sessions, identities, failures, links, orphans>> /\ Stay

\* Insert an identity: refused when the subject is taken or the account gone.
Insertable(r) == Owner(mem[r].provider, mem[r].email) = None /\ mem[r].user \in Account
InsertIdentity(r) ==
    identities' = [identities EXCEPT ![<<mem[r].provider, mem[r].email>>] =
                     [user |-> mem[r].user, born |-> mem[r].born,
                      late |-> users[mem[r].user].born # mem[r].born]]

AfterSignUp(r) == IF op[r] = "register" /\ VerificationRequired THEN "link" ELSE "issue"

\* The password identity may be missing, an OAuth identity may not.
SeedIdentity(r) ==
    /\ at[r] = "seed"
    /\ IF Insertable(r)
       THEN InsertIdentity(r) /\ UNCHANGED contested
       ELSE /\ UNCHANGED identities
            /\ contested' = IF op[r] = "signin" THEN contested \cup {r} ELSE contested
    /\ To(r, IF op[r] = "signin" /\ ~Insertable(r) THEN "done"
             ELSE IF mem[r].first THEN "adopt" ELSE AfterSignUp(r))
    /\ UNCHANGED <<users, sessions, failures, links, orphans, pending, op,
                   raced, displaced, paired, leaderless, redeemed, applied, unwritten, crashed>>

AdoptOrphans(r) ==          \* backfill_orphan_ownership
    /\ at[r] = "adopt"
    /\ orphans' = IF orphans = None /\ mem[r].user \in Account THEN users[mem[r].user].born ELSE orphans
    /\ To(r, AfterSignUp(r))
    /\ UNCHANGED <<users, sessions, identities, failures, links>> /\ Stay

--------------------------------------------------------------------------------
(* Sessions and links                                                           *)

\* create_auth_session.  late: what the request relied on has changed since.
InsertSession(r) ==
    sessions' = [sessions EXCEPT ![r] =
                   [user |-> mem[r].user, born |-> mem[r].born, proof |-> mem[r].proof,
                    late |-> \/ users[mem[r].user].born # mem[r].born
                             \/ users[mem[r].user].password # mem[r].proof]]

IssueSession(r) ==
    /\ at[r] = "issue"
    /\ IF mem[r].user \in Account THEN InsertSession(r) ELSE UNCHANGED sessions
    /\ To(r, "done")
    /\ UNCHANGED <<users, identities, failures, links, orphans>> /\ Stay

CreateLink(r) ==            \* create_verification
    /\ at[r] = "link"
    /\ links' = IF mem[r].user \notin Account THEN links
                ELSE [links EXCEPT ![r] =
                        [user |-> mem[r].user, born |-> users[mem[r].user].born, used |-> FALSE,
                         purpose |-> IF op[r] = "forgot" THEN "password_reset" ELSE "signup"]]
    /\ To(r, "done")
    /\ UNCHANGED <<users, sessions, identities, failures, orphans>> /\ Stay

DeleteSession(t) == sessions' = [sessions EXCEPT ![t] = None]

DropSession(r) ==
    /\ at[r] = "drop"
    /\ DeleteSession(mem[r].token)
    /\ To(r, "done")
    /\ UNCHANGED <<users, identities, failures, links, orphans>> /\ Stay

--------------------------------------------------------------------------------
(* login, with its failure counter; resend_verification, request_password_reset *)

CheckLockout(r) ==
    /\ at[r] = "check"
    /\ To(r, IF failures[mem[r].email].lock = "live" THEN "done" ELSE "look")
    /\ UNCHANGED db /\ Stay

\* The password that is tried is right or wrong; the delay that follows only
\* takes time.
TryPassword(r) ==
    /\ at[r] = "look" /\ op[r] = "login"
    /\ \/ \E i \in ByEmail(mem[r].email) :
             /\ users[i].password # None
             /\ IF VerificationRequired /\ ~users[i].verified
                THEN To(r, "done") ELSE Step(r, "clear", Found(mem[r], i))
       \/ To(r, "failures")
    /\ UNCHANGED db /\ Stay

Mailed(r, o, refused) ==
    /\ at[r] = "look" /\ op[r] = o
    /\ \/ \E i \in ByEmail(mem[r].email) \ refused : Step(r, "link", Found(mem[r], i))
       \/ ByEmail(mem[r].email) \subseteq refused /\ To(r, "done")
    /\ UNCHANGED db /\ Stay

ResendVerification(r) == Mailed(r, "resend", {i \in Account : users[i].verified})
RequestReset(r) == Mailed(r, "forgot", {i \in Account : users[i].password = None})

ReadFailures(r) ==
    /\ at[r] = "failures"
    /\ Step(r, "record", [mem[r] EXCEPT !.read = failures[mem[r].email]])
    /\ UNCHANGED db /\ Stay

\* The count is of the row as it is now, the lock of the row as it was read.
Recorded(r, projected) ==
    /\ at[r] = "record"
    /\ LET e == mem[r].email
           row == mem[r].read
           now == failures[e]
           count == IF row.old \/ now.count = 0 THEN 1
                    ELSE IF now.count > MaxFailures THEN now.count ELSE now.count + 1 IN
       /\ failures' = [failures EXCEPT ![e] =
                         [count |-> count, old |-> FALSE,
                          lock |-> IF projected >= MaxFailures THEN "live" ELSE "none"]]
       /\ raced' = [raced EXCEPT ![e] = (@ /\ now.count # 0) \/ row # now]
    /\ To(r, "done")
    /\ UNCHANGED <<users, sessions, identities, links, orphans, pending, op,
                   contested, displaced, paired, leaderless, redeemed, applied, unwritten, crashed>>

RecordFailureMutant(r) ==   \* decided before this failure is counted
    Recorded(r, IF mem[r].read.old THEN 0 ELSE mem[r].read.count)

RecordFailure(r) ==
    Recorded(r, IF mem[r].read.old THEN 1 ELSE mem[r].read.count + 1)

\* After a login succeeded or a password was reset.
ClearFailures(r) ==
    /\ at[r] = "clear"
    /\ failures' = [failures EXCEPT ![mem[r].email] = NoFailures]
    /\ To(r, IF op[r] = "reset" /\ mem[r].first THEN "mark" ELSE "issue")
    /\ UNCHANGED <<users, sessions, identities, links, orphans>> /\ Stay

--------------------------------------------------------------------------------
(* change_password, reset_password, verify_email, delete_account                *)

\* get_user_by_id and the current password, which is right, or the request ends.
VerifyCurrent(r) ==
    /\ at[r] = "current"
    /\ \/ /\ mem[r].user \in Account /\ users[mem[r].user].password # None
          /\ To(r, IF op[r] = "change" THEN "update" ELSE "delete")
       \/ To(r, "done")
    /\ UNCHANGED db /\ Stay

ConsumeLinkMutant(r) ==     \* used_at is not looked at
    /\ at[r] = "consume"
    /\ LET k == mem[r].token IN
       IF links[k] = None
       THEN To(r, "done") /\ UNCHANGED <<links, redeemed>>
       ELSE /\ links' = [links EXCEPT ![k].used = TRUE]
            /\ redeemed' = [redeemed EXCEPT ![k] = @ \cup {r}]
            /\ Step(r, IF op[r] = "verify" THEN "mark" ELSE "find",
                    [mem[r] EXCEPT !.user = links[k].user, !.born = links[k].born])
    /\ UNCHANGED <<users, sessions, identities, failures, orphans, pending, op,
                   raced, contested, displaced, paired, leaderless, applied, unwritten, crashed>>

\* One UPDATE ... RETURNING.
ConsumeLink(r) ==
    /\ at[r] = "consume"
    /\ LET k == mem[r].token IN
       IF links[k] = None \/ links[k].used
       THEN To(r, "done") /\ UNCHANGED <<links, redeemed>>
       ELSE /\ links' = [links EXCEPT ![k].used = TRUE]
            /\ redeemed' = [redeemed EXCEPT ![k] = @ \cup {r}]
            /\ Step(r, IF op[r] = "verify" THEN "mark" ELSE "find",
                    [mem[r] EXCEPT !.user = links[k].user, !.born = links[k].born])
    /\ UNCHANGED <<users, sessions, identities, failures, orphans, pending, op,
                   raced, contested, displaced, paired, leaderless, applied, unwritten, crashed>>

\* After its link is consumed, a reset may still fail at each of its calls.
FindAccount(r) ==           \* first: it has not been verified yet
    /\ at[r] = "find"
    /\ \/ /\ LET i == mem[r].user IN
             IF i \in Account
             THEN Step(r, "update", [mem[r] EXCEPT !.email = users[i].email, !.first = ~users[i].verified])
             ELSE To(r, "done")
          /\ UNCHANGED unwritten
       \/ /\ unwritten' = unwritten \cup {r}
          /\ To(r, "done")
    /\ UNCHANGED <<db, pending, op, raced, contested, displaced, paired, leaderless, redeemed,
                   applied, crashed>>

\* The password is hashed and written; hash_password may refuse it and the write
\* may fail, which ends the request.
UpdatePassword(r) ==
    /\ at[r] = "update"
    /\ \/ /\ LET i == mem[r].user IN
             users' = IF i \in Account THEN [users EXCEPT ![i].password = r] ELSE users
          /\ applied' = applied \cup {r}
          /\ Step(r, "revoke", [mem[r] EXCEPT !.proof = r])
          /\ UNCHANGED unwritten
       \/ /\ unwritten' = unwritten \cup {r}
          /\ To(r, "done")
          /\ UNCHANGED <<users, applied>>
    /\ UNCHANGED <<sessions, identities, failures, links, orphans, pending, op,
                   raced, contested, displaced, paired, leaderless, redeemed, crashed>>

\* invalidate_other_auth_sessions keeps the session of a change, which has
\* proven the new password; invalidate_all_auth_sessions none.
Current(r) == mem[r].user \in Account /\ users[mem[r].user].password = r
Revoked(r, kept) ==
    /\ at[r] = "revoke"
    /\ sessions' = [t \in Author |->
                      IF sessions[t] = None \/ sessions[t].user # mem[r].user THEN sessions[t]
                      ELSE IF t = kept THEN [sessions[t] EXCEPT !.proof = IF Current(r) THEN r ELSE @]
                      ELSE None]
    /\ To(r, IF op[r] = "change" THEN "done" ELSE "clear")
    /\ UNCHANGED <<users, identities, failures, links, orphans>> /\ Stay

RevokeSessionsMutant(r) ==  \* token == keep_token
    /\ at[r] = "revoke"
    /\ sessions' = [sessions EXCEPT ![mem[r].token] = None]
    /\ To(r, IF op[r] = "change" THEN "done" ELSE "clear")
    /\ UNCHANGED <<users, identities, failures, links, orphans>> /\ Stay

RevokeSessions(r) ==
    Revoked(r, IF op[r] = "change" THEN mem[r].token ELSE None)

MarkUser(i) == users' = IF i \in Account THEN [users EXCEPT ![i].verified = TRUE] ELSE users

MarkVerified(r) ==
    /\ at[r] = "mark"
    /\ LET i == mem[r].user IN
       /\ MarkUser(i)
       /\ Step(r, "issue", IF op[r] = "verify" /\ i \in Account
                           THEN [mem[r] EXCEPT !.proof = users[i].password] ELSE mem[r])
    /\ UNCHANGED <<sessions, identities, failures, links, orphans>> /\ Stay

Closed(r, dropped) ==
    /\ at[r] = "delete"
    /\ LET i == mem[r].user IN
       IF i \in Account
       THEN /\ users' = [users EXCEPT ![i] = None]
            /\ sessions' = [t \in Author |->
                              IF sessions[t] # None /\ sessions[t].user = i THEN None ELSE sessions[t]]
            /\ links' = [k \in Author |->
                           IF links[k] # None /\ links[k].user = i THEN None ELSE links[k]]
            /\ identities' = [k \in DOMAIN identities |->
                                IF k \in dropped THEN None ELSE identities[k]]
            /\ leaderless' = (leaderless \/ users[i].admin)
       ELSE UNCHANGED <<users, sessions, links, identities, leaderless>>
    /\ To(r, "done")
    /\ UNCHANGED <<failures, orphans, pending, op, raced, contested, displaced,
                   paired, redeemed, applied, unwritten, crashed>>

CloseAccountMutant(r) ==    \* the cascade leaves the OAuth identities
    Closed(r, {k \in IdentitiesOf(mem[r].user) : k[1] = Password})

\* delete_user's last transaction, with its cascades (Workspace has the rest).
CloseAccount(r) == Closed(r, IdentitiesOf(mem[r].user))

--------------------------------------------------------------------------------
(* resolve_oauth_signin, linking and unlinking                                  *)

FindIdentity(r) ==
    /\ at[r] = "identity"
    /\ LET i == Owner(mem[r].provider, mem[r].email) IN
       IF op[r] = "link"
       THEN To(r, IF i = None THEN "tie" ELSE "done")
       ELSE IF i = None THEN To(r, "account")
            ELSE Step(r, "issue", [Found(mem[r], i) EXCEPT !.email = mem[r].email])
    /\ UNCHANGED db /\ Stay

\* create_user_account with a verified address and no password.
SignUp(r) == To(r, "known")

\* An account that has not proven its address is not linked to.
FindByEmail(r) ==
    /\ at[r] = "account"
    /\ \/ ByEmail(mem[r].email) = {} /\ SignUp(r)
       \/ \E i \in ByEmail(mem[r].email) :
             IF users[i].verified THEN Step(r, "tie", Found(mem[r], i)) ELSE To(r, "done")
    /\ UNCHANGED db /\ Stay

TieIdentity(r) ==           \* create_identity
    /\ at[r] = "tie"
    /\ IF Insertable(r)
       THEN InsertIdentity(r) /\ To(r, IF op[r] = "link" THEN "done" ELSE "issue")
       ELSE UNCHANGED identities /\ To(r, "done")
    /\ UNCHANGED <<users, sessions, failures, links, orphans>> /\ Stay

ListIdentitiesMutant(r) ==  \* the last one may go
    /\ at[r] = "list"
    /\ To(r, IF \E k \in IdentitiesOf(mem[r].user) : k[1] = Google THEN "untie" ELSE "done")
    /\ UNCHANGED db /\ Stay

\* A sign-in must remain: more than a password identity without a password.
\* (The row that get_user_by_id reads next never goes back to no password.)
ListIdentities(r) ==
    /\ at[r] = "list"
    /\ LET i == mem[r].user
           mine == IdentitiesOf(i)
           rest == {k \in mine : k[1] # Google} IN
       To(r, IF /\ mine # rest /\ rest # {}
                /\ (\A k \in rest : k[1] = Password) => users[i].password # None
             THEN "untie" ELSE "done")
    /\ UNCHANGED db /\ Stay

DeleteIdentity(r) ==
    /\ at[r] = "untie"
    /\ identities' = [k \in DOMAIN identities |->
                        IF k[1] = Google /\ Owner(k[1], k[2]) = mem[r].user THEN None ELSE identities[k]]
    /\ displaced' = displaced \cup
          {users[i].born : i \in {j \in Account : j = mem[r].user /\ users[j].born # mem[r].born}}
    /\ To(r, "done")
    /\ UNCHANGED <<users, sessions, failures, links, orphans, pending, op,
                   raced, contested, paired, leaderless, redeemed, applied, unwritten, crashed>>

--------------------------------------------------------------------------------
(* Time, and the death of the process                                           *)

\* With the default settings a lock lasts as long as the window of the counter.
LockExpires(e) ==
    /\ failures[e].lock = "live"
    /\ failures' = [failures EXCEPT ![e].lock = "over"]
    /\ UNCHANGED <<users, sessions, identities, links, orphans, pending, work, hist>>

WindowElapses(e) ==
    /\ failures[e].count > 0 /\ failures[e].lock # "live" /\ ~failures[e].old
    /\ failures' = [failures EXCEPT ![e].old = TRUE]
    /\ UNCHANGED <<users, sessions, identities, links, orphans, pending, work, hist>>

\* ensure_admin_exists
OldestPromoted ==
    [i \in Ids |-> IF i \in Account /\ \A j \in Account : i <= j /\ ~users[j].admin
                   THEN [users[i] EXCEPT !.admin = TRUE] ELSE users[i]]

\* _seed_password_identities
PasswordsSeeded ==
    [k \in DOMAIN identities |->
        IF k[1] # Password \/ identities[k] # None \/ \A i \in ByEmail(k[2]) : users[i].password = None
        THEN identities[k]
        ELSE LET i == CHOOSE j \in ByEmail(k[2]) : TRUE IN
             [user |-> i, born |-> users[i].born, late |-> FALSE]]

\* The requests and the pending flows are lost; run_housekeeping comes first.
Restart ==
    /\ ~crashed
    /\ crashed' = TRUE
    /\ at' = [r \in Requests |-> IF r \in Busy THEN "done" ELSE at[r]]
    /\ mem' = [r \in Requests |-> Blank]
    /\ pending' = [s \in Author |-> None]
    /\ users' = OldestPromoted
    /\ identities' = PasswordsSeeded
    /\ UNCHANGED <<sessions, failures, links, orphans, op,
                   raced, contested, displaced, paired, leaderless, redeemed, applied, unwritten>>

Next ==
    \/ \E r \in Requests :
          \/ BeginByEmail(r) \/ BeginMail(r) \/ BeginWithSession(r) \/ BeginInSettings(r)
          \/ BeginVerify(r) \/ BeginReset(r)
          \/ BeginGoogle(r) \/ BeginLinking(r) \/ Callback(r) \/ DeviceSignIn(r)
          \/ CheckKnown(r) \/ CountUsers(r) \/ CreateUser(r) \/ SeedIdentity(r) \/ AdoptOrphans(r)
          \/ IssueSession(r) \/ CreateLink(r) \/ DropSession(r)
          \/ CheckLockout(r) \/ TryPassword(r) \/ ResendVerification(r) \/ RequestReset(r) \/ ReadFailures(r) \/ RecordFailure(r) \/ ClearFailures(r)
          \/ VerifyCurrent(r) \/ ConsumeLink(r) \/ FindAccount(r) \/ UpdatePassword(r)
          \/ RevokeSessions(r) \/ MarkVerified(r) \/ CloseAccount(r)
          \/ FindIdentity(r) \/ FindByEmail(r) \/ TieIdentity(r) \/ ListIdentities(r) \/ DeleteIdentity(r)
    \/ \E e \in Emails : LockExpires(e) \/ WindowElapses(e)
    \/ Restart

Spec == Init /\ [][Next]_vars

--------------------------------------------------------------------------------
(* Properties                                                                   *)

\* The variables have the types of the tables and of a request's memory.
TypeOK ==
    /\ users \in [Ids -> User \cup {None}]
    /\ sessions \in [Author -> Session \cup {None}]
    /\ identities \in [(Providers \cup {Password}) \X Emails -> Holder \cup {None}]
    /\ failures \in [Emails -> Failures]
    /\ links \in [Author -> Link \cup {None}]
    /\ orphans \in Proof
    /\ pending \in [Author -> [user : Ids \cup {None}, born : Proof] \cup {None}]
    /\ op \in [Requests -> Operations]
    /\ at \in [Requests -> Location]
    /\ mem \in [Requests -> Memory]
    /\ raced \in [Emails -> BOOLEAN]
    /\ contested \subseteq Requests /\ displaced \subseteq Author /\ applied \subseteq Requests
    /\ unwritten \subseteq Requests
    /\ paired \in BOOLEAN /\ leaderless \in BOOLEAN /\ crashed \in BOOLEAN
    /\ redeemed \in [Author -> SUBSET Requests]

\* _check_lockout and _record_login_failure: MaxFailures failures lock an
\* address, unless one was recorded between the read and the write of another.
FailuresLock ==
    \A e \in Emails :
        failures[e].count >= MaxFailures /\ ~raced[e] => failures[e].lock # "none"

\* create_user_account and run_housekeeping: there are two admins only if two
\* registrations had counted no users, or the first one closed its account;
\* and then only may the accounts be without one.  What was made before the
\* first account is its own as soon as it has signed up, unless the process died.
FirstAccountLeads ==
    LET admins == {i \in Account : users[i].admin}
        signing == {r \in Requests : at[r] \in {"seed", "adopt"} /\ mem[r].first} IN
    /\ (\A i, j \in admins : i = j) \/ paired \/ leaderless
    /\ Account = {} \/ admins # {} \/ leaderless
    /\ Account = {} \/ orphans # None \/ signing # {} \/ crashed \/ contested # {} \/ leaderless

\* consume_verification and reset_password: a link is redeemed by one request,
\* and a reset link that is used up has set a password, unless a call before
\* the password was written failed, the process died or the account was closed.
LinkHonoured ==
    \A k \in Author :
        /\ \A r, s \in redeemed[k] : r = s
        /\ \A r \in redeemed[k] :
              op[r] = "reset" /\ at[r] = "done" =>
                 r \in applied \cup unwritten \/ crashed \/ links[k] = None

\* invalidate_other_auth_sessions, invalidate_all_auth_sessions: no session
\* survives the password it was opened under, but those of a login that had
\* read it before and those a dying process did not revoke.
NoSessionOfAnOldPassword ==
    \A t \in Author :
        sessions[t] # None =>
            \/ sessions[t].proof = users[sessions[t].user].password
            \/ sessions[t].late
            \/ \E r \in Requests : at[r] = "revoke" /\ mem[r].user = sessions[t].user
            \/ crashed

\* ON DELETE CASCADE: a session, an identity or a link belongs to an account
\* that is there, and to the one it was made for, unless the id had been given
\* to a new account while the request waited.
RowsOfTheirAccount ==
    LET Belongs(row) == /\ row.user \in Account
                        /\ row.late \/ row.born = users[row.user].born IN
    /\ \A t \in Author : sessions[t] # None => Belongs(sessions[t])
    /\ \A k \in DOMAIN identities : identities[k] # None => Belongs(identities[k])
    /\ \A k \in Author : links[k] # None =>
          links[k].user \in Account /\ links[k].born = users[links[k].user].born

\* unlink: an account keeps a password or an OAuth identity to sign in with, but
\* one whose sign-up has lost its identity to another account or to a crash, and
\* one that was given the id of an account whose last request unlinked it.
AlwaysAWayIn ==
    \A i \in Account :
        \/ users[i].password # None
        \/ \E k \in IdentitiesOf(i) : k[1] # Password
        \/ users[i].born \in contested \cup displaced
        \/ \E r \in Requests : at[r] = "seed" /\ mem[r].user = i
        \/ crashed
================================================================================
