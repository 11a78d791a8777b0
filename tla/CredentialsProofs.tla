--------------------------- MODULE CredentialsProofs ---------------------------
(****************************************************************************)
(* What holds of a ChatGPT connection for any number of requests and device *)
(* flows: refreshes are serialised, the user's last action wins, a          *)
(* cancelled flow connects nothing and no session is dropped unseen.        *)
(****************************************************************************)
EXTENDS Credentials, TLAPS

USE DEF vars, oauth, requests, flows, hist

\* Past the acquisition of the user's lock, before it is freed.
Locked(r) == at[r] \in {"reload", "http", "kept", "rotated"}

LockInv == \A r \in Requests : Locked(r) <=> holder = r

\* A flow that has not yet stored its bundle is the origin of nothing.
Waiting(f) == step[f] \in {"none", "authorise", "resolve", "store"}

FreshInv ==
    \A f \in Flows : Waiting(f) =>
        /\ stored # None => stored.origin # f
        /\ \A r \in Requests : mem[r] # None => mem[r].origin # f
        /\ \A t \in spent : t[1] # f

\* No token that was rotated away is younger than the bundle b.
Newest(b) == \A t \in spent : t[1] = b.origin => t[2] <= b.version

\* The bundle a request has sent, or the answer it is to store.
SentInv(r) ==
    at[r] \in {"http", "kept", "rotated"} =>
        /\ mem[r] # None
        /\ Newest(mem[r])
        /\ stored # None /\ stored.origin = mem[r].origin => stored.version = mem[r].version
        /\ at[r] = "kept" => RefreshToken(mem[r]) \notin spent
        /\ at[r] = "rotated" => RefreshToken(mem[r]) \in spent

\* A stored token that was rotated away has lost its successor, or the request
\* that holds the lock is about to store it.
StoredInv ==
    stored # None =>
        /\ Newest(stored)
        /\ RefreshToken(stored) \in spent =>
              \/ RefreshToken(stored) \in lost
              \/ \E r \in Requests : at[r] = "rotated" /\ mem[r].origin = stored.origin

TokenInv == StoredInv /\ \A r \in Requests : SentInv(r)

OriginOf(b) == IF b = None THEN None ELSE b.origin

\* What a request has sent descends from what the user asked for last, unless
\* the user has acted since.
IntentInv ==
    revived \/ /\ intended = OriginOf(stored)
               /\ \A r \in Sent \ overtaken : mem[r].origin = intended

\* A flow whose task runs is registered and pending, and issues a session only
\* when it has resolved the account.
FlowInv(f) ==
    /\ record[f] = "none" <=> step[f] = "none"
    /\ step[f] # "ended" => status[f] = "pending"
    /\ step[f] \in {"authorise", "resolve", "store", "event"} => record[f] = "kept"
    /\ step[f] \in {"none", "authorise", "resolve"} => session[f] = "none"
    /\ step[f] = "event" => f \in LinkFlows

IInv ==
    /\ TypeOK /\ LockInv /\ FreshInv /\ TokenInv /\ IntentInv /\ SessionNotDropped
    /\ NoSpentTokenSent
    /\ \A f \in Flows : FlowInv(f)

--------------------------------------------------------------------------------
\* The invariant holds at the start.
LEMMA InitInv == Init => IInv
<1> SUFFICES ASSUME Init PROVE IInv
  OBVIOUS
<1> USE SeedAssumption, FlowsAssumption, NoneAssumption DEF Init, Flows, Origin
<1>1. stored = None \/ (stored \in TokenBundle /\ stored.origin = Seed)
  BY DEF TokenBundle
<1>2. TypeOK
  <2>1. mine \in [Flows -> BOOLEAN]
    BY SMT
  <2>2. at \in [Requests -> {"none", "lock", "reload", "http", "kept", "rotated", "done"}]
    OBVIOUS
  <2>3. step \in [Flows -> {"none", "authorise", "resolve", "store", "event", "ended"}]
    OBVIOUS
  <2>4. status \in [Flows -> {"pending", "complete", "failed"}]
    OBVIOUS
  <2>5. record \in [Flows -> {"none", "kept", "fetched", "cancelled", "gone"}]
    OBVIOUS
  <2>6. session \in [Flows -> {"none", "issued", "handed"}]
    OBVIOUS
  <2>7. stored \in TokenBundle \cup {None} /\ intended \in Origin \cup {None}
    BY <1>1
  <2> QED BY <2>1, <2>2, <2>3, <2>4, <2>5, <2>6, <2>7 DEF TypeOK
<1>3. LockInv /\ FreshInv
  BY <1>1 DEF LockInv, Locked, FreshInv, Waiting
<1>4. TokenInv /\ NoSpentTokenSent
  BY <1>1 DEF TokenInv, StoredInv, SentInv, Newest, NoSpentTokenSent
<1>5. IntentInv
  BY <1>1 DEF IntentInv, OriginOf, Sent
<1>6. SessionNotDropped /\ \A f \in Flows : FlowInv(f)
  BY DEF SessionNotDropped, FlowInv
<1> QED BY <1>2, <1>3, <1>4, <1>5, <1>6 DEF IInv

\* What becomes of the stored bundle when a flow hands its own over.
LEMMA UpsertType ==
    ASSUME TypeOK, NEW f \in Flows, Upsert(f)
    PROVE  /\ stored' \in TokenBundle \cup {None} /\ intended' \in Origin \cup {None}
           /\ overtaken' \subseteq Requests /\ revived' \in BOOLEAN
<1>1. [origin |-> f, version |-> 0, stale |-> FALSE] \in TokenBundle
  BY DEF TokenBundle, Origin
<1>2. Sent \subseteq Requests
  BY DEF Sent
<1> QED BY <1>1, <1>2 DEF TypeOK, Upsert, Ask, Origin

\* A token is an origin and a version.
LEMMA TokenType ==
    ASSUME TypeOK, NEW b \in TokenBundle
    PROVE  RefreshToken(b) \in Token /\ b.origin \in Origin /\ b.version \in Nat
BY DEF TokenBundle, Token, RefreshToken

\* A refreshed bundle is a bundle.
LEMMA RefreshedType ==
    ASSUME TypeOK, NEW r \in Requests, mem[r] # None
    PROVE  /\ Refreshed(r) \in TokenBundle
           /\ Refreshed(r).origin = mem[r].origin
           /\ Refreshed(r).version = mem[r].version + (IF at[r] = "rotated" THEN 1 ELSE 0)
<1>1. mem[r] \in TokenBundle
  BY DEF TypeOK
<1>2. CASE at[r] = "rotated"
  BY <1>1, <1>2 DEF TokenBundle, Refreshed
<1>3. CASE at[r] # "rotated"
  BY <1>1, <1>3 DEF TokenBundle, Refreshed
<1> QED BY <1>2, <1>3

\* Every variable keeps its type.
LEMMA TypeStep ==
    ASSUME TypeOK, LockInv, TokenInv, \A f \in Flows : FlowInv(f), [Next]_vars
    PROVE  TypeOK'
<1> USE NoneAssumption
<1>1. ASSUME NEW r \in Requests, Load(r) PROVE TypeOK'
  BY <1>1 DEF TypeOK, Load, Wanting
<1>2. ASSUME NEW r \in Requests, Acquire(r) PROVE TypeOK'
  BY <1>2 DEF TypeOK, Acquire, Flows, Origin
<1>3. ASSUME NEW r \in Requests, Reload(r) PROVE TypeOK'
  BY <1>3 DEF TypeOK, Reload, Wanting, Finish, Free
<1>4. ASSUME NEW r \in Requests, Answer(r) PROVE TypeOK'
  BY <1>4 DEF TypeOK, Answer, Finish, Free, Refused, Answered, Rotated, Lose, RefreshToken,
     Token, TokenBundle, TokenInv, SentInv
<1>5. ASSUME NEW r \in Requests, Write(r) PROVE TypeOK'
  <2>1. mem[r] # None /\ mem[r] \in TokenBundle
    BY <1>5 DEF TypeOK, TokenInv, SentInv, Write
  <2>2. Refreshed(r) \in TokenBundle
    BY <2>1, RefreshedType
  <2>3. lost' \subseteq spent'
    BY <1>5 DEF TypeOK, Write, Lose, TokenInv, SentInv
  <2> HIDE NoneAssumption
  <2> QED BY <1>5, <2>2, <2>3 DEF TypeOK, Write, Finish, Free
<1>6. ASSUME NEW f \in Flows, Authorise(f) PROVE TypeOK'
  BY <1>6 DEF TypeOK, Authorise, Go, Listed, Die, Settle
<1>7. ASSUME NEW f \in Flows, ResolveSignIn(f) PROVE TypeOK'
  BY <1>7 DEF TypeOK, ResolveSignIn, Go, Listed, Issue, Settle
<1>8. ASSUME NEW f \in Flows, StoreBundle(f) PROVE TypeOK'
  BY <1>8, UpsertType DEF TypeOK, StoreBundle, Go, Die, Settle
<1>9. ASSUME NEW f \in Flows, RecordEvent(f) PROVE TypeOK'
  BY <1>9 DEF TypeOK, RecordEvent, Go, Die, Settle
<1>10. ASSUME NEW f \in Flows, Start(f) PROVE TypeOK'
  BY <1>10 DEF TypeOK, Start, Go, Evicting
<1>11. ASSUME NEW f \in Flows, Fetch(f) PROVE TypeOK'
  BY <1>11 DEF TypeOK, Fetch, Hand, Evicting
<1>12. ASSUME NEW f \in Flows, Cancel(f) PROVE TypeOK'
  BY <1>12, UpsertType DEF TypeOK, Cancel, Stopped, Go, Issue
<1>13. CASE Disconnect
  BY <1>13 DEF TypeOK, Disconnect, Delete, Ask, Sent
<1>14. CASE CloseAccount
  BY <1>14 DEF TypeOK, CloseAccount, Ask, Sent
<1>15. CASE Expire
  BY <1>15 DEF TypeOK, Expire, TokenBundle
<1>16. CASE Restart
  BY <1>16 DEF TypeOK, Restart, Token, TokenBundle, RefreshToken, TokenInv, SentInv,
     Registered
<1>17. CASE UNCHANGED vars
  BY <1>17 DEF TypeOK
<1> QED
  BY <1>1, <1>2, <1>3, <1>4, <1>5, <1>6, <1>7, <1>8, <1>9, <1>10, <1>11,
     <1>12, <1>13, <1>14, <1>15, <1>16, <1>17 DEF Next, Requesting, Running

\* The refresh lock is held by the request past it.
LEMMA LockStep ==
    ASSUME TypeOK, LockInv, [Next]_vars
    PROVE  LockInv'
<1> USE NoneAssumption DEF TypeOK, LockInv, Locked
<1>1. ASSUME NEW r \in Requests, Load(r) PROVE LockInv'
  BY <1>1 DEF Load
<1>2. ASSUME NEW r \in Requests, Acquire(r) PROVE LockInv'
  BY <1>2 DEF Acquire
<1>3. ASSUME NEW r \in Requests, Reload(r) PROVE LockInv'
  BY <1>3 DEF Reload, Finish, Free
<1>4. ASSUME NEW r \in Requests, Answer(r) PROVE LockInv'
  BY <1>4 DEF Answer, Refused, Finish, Free, Answered
<1>5. ASSUME NEW r \in Requests, Write(r) PROVE LockInv'
  BY <1>5 DEF Write, Finish, Free
<1>6. ASSUME NEW f \in Flows, Authorise(f) PROVE LockInv'
  BY <1>6 DEF Authorise
<1>7. ASSUME NEW f \in Flows, ResolveSignIn(f) PROVE LockInv'
  BY <1>7 DEF ResolveSignIn
<1>8. ASSUME NEW f \in Flows, StoreBundle(f) PROVE LockInv'
  BY <1>8 DEF StoreBundle
<1>9. ASSUME NEW f \in Flows, RecordEvent(f) PROVE LockInv'
  BY <1>9 DEF RecordEvent
<1>10. ASSUME NEW f \in Flows, Start(f) PROVE LockInv'
  BY <1>10 DEF Start
<1>11. ASSUME NEW f \in Flows, Fetch(f) PROVE LockInv'
  BY <1>11 DEF Fetch
<1>12. ASSUME NEW f \in Flows, Cancel(f) PROVE LockInv'
  BY <1>12 DEF Cancel
<1>13. CASE Disconnect
  BY <1>13 DEF Disconnect
<1>14. CASE CloseAccount
  BY <1>14 DEF CloseAccount
<1>15. CASE Expire
  BY <1>15 DEF Expire
<1>16. CASE Restart
  BY <1>16 DEF Restart
<1>17. CASE UNCHANGED vars
  BY <1>17
<1> QED
  BY <1>1, <1>2, <1>3, <1>4, <1>5, <1>6, <1>7, <1>8, <1>9, <1>10, <1>11,
     <1>12, <1>13, <1>14, <1>15, <1>16, <1>17 DEF Next, Requesting, Running

\* What a request has read is no newer than the stored bundle.
LEMMA FreshStep ==
    ASSUME TypeOK, FreshInv, TokenInv, \A f \in Flows : FlowInv(f), [Next]_vars
    PROVE  FreshInv'
<1> USE NoneAssumption DEF TypeOK, FreshInv, Waiting
<1>1. ASSUME NEW r \in Requests, Load(r) PROVE FreshInv'
  BY <1>1 DEF Load, Wanting
<1>2. ASSUME NEW r \in Requests, Acquire(r) PROVE FreshInv'
  BY <1>2 DEF Acquire
<1>3. ASSUME NEW r \in Requests, Reload(r) PROVE FreshInv'
  BY <1>3 DEF Reload, Wanting, Finish
<1>4. ASSUME NEW r \in Requests, Answer(r) PROVE FreshInv'
  BY <1>4 DEF Answer, Refused, Finish, Answered, Rotated, RefreshToken, TokenInv, SentInv
<1>5. ASSUME NEW r \in Requests, Write(r) PROVE FreshInv'
  <2>1. mem[r] # None /\ Refreshed(r).origin = mem[r].origin
    BY <1>5, RefreshedType DEF TokenInv, SentInv, Write
  <2> QED BY <1>5, <2>1 DEF Write, Finish
<1>6. ASSUME NEW f \in Flows, Authorise(f) PROVE FreshInv'
  BY <1>6 DEF Authorise, Go, Listed, Die, Settle
<1>7. ASSUME NEW f \in Flows, ResolveSignIn(f) PROVE FreshInv'
  BY <1>7 DEF ResolveSignIn, Go, Listed, Settle
<1>8. ASSUME NEW f \in Flows, StoreBundle(f) PROVE FreshInv'
  BY <1>8 DEF StoreBundle, Upsert, Go, Die, Settle
<1>9. ASSUME NEW f \in Flows, RecordEvent(f) PROVE FreshInv'
  BY <1>9 DEF RecordEvent, Go, Die, Settle
<1>10. ASSUME NEW f \in Flows, Start(f) PROVE FreshInv'
  <2>1. Waiting(f)
    BY <1>10 DEF Start, FlowInv
  <2> QED BY <1>10, <2>1 DEF Start, Go
<1>11. ASSUME NEW f \in Flows, Fetch(f) PROVE FreshInv'
  BY <1>11 DEF Fetch
<1>12. ASSUME NEW f \in Flows, Cancel(f) PROVE FreshInv'
  BY <1>12 DEF Cancel, Stopped, Go, Upsert
<1>13. CASE Disconnect
  BY <1>13 DEF Disconnect, Delete
<1>14. CASE CloseAccount
  BY <1>14 DEF CloseAccount
<1>15. CASE Expire
  <2>1. stored' # None => stored'.origin = stored.origin
    BY <1>15 DEF Expire, TokenBundle
  <2> QED BY <1>15, <2>1 DEF Expire
<1>16. CASE Restart
  <2>1. ASSUME NEW t \in spent'
        PROVE  t \in spent \/ \E r \in Requests : mem[r] # None /\ t[1] = mem[r].origin
    BY <1>16, <2>1 DEF Restart, RefreshToken, TokenInv, SentInv
  <2> QED BY <1>16, <2>1 DEF Restart
<1>17. CASE UNCHANGED vars
  BY <1>17
<1> QED
  BY <1>1, <1>2, <1>3, <1>4, <1>5, <1>6, <1>7, <1>8, <1>9, <1>10, <1>11,
     <1>12, <1>13, <1>14, <1>15, <1>16, <1>17 DEF Next, Requesting, Running

\* The bundle a flow stores shares its origin with no token there is.
LEMMA TokenUpsert ==
    ASSUME TypeOK, FreshInv, TokenInv, NEW f \in Flows, step[f] = "store", Upsert(f),
           UNCHANGED <<at, mem, spent, lost>>
    PROVE  TokenInv'
<1> USE NoneAssumption DEF Newest, RefreshToken
<1>1. CASE UNCHANGED stored
  BY <1>1 DEF TokenInv, StoredInv, SentInv
<1>2. CASE stored' = [origin |-> f, version |-> 0, stale |-> FALSE]
  <2>1. \A t \in spent : t[1] # f
    BY DEF FreshInv, Waiting
  <2>2. \A r \in Requests : mem[r] # None => mem[r].origin # f
    BY DEF FreshInv, Waiting
  <2>3. StoredInv'
    BY <1>2, <2>1 DEF StoredInv
  <2>4. ASSUME NEW r \in Requests PROVE SentInv(r)'
    BY <1>2, <2>2 DEF SentInv, TokenInv
  <2> QED BY <2>3, <2>4 DEF TokenInv
<1> QED BY <1>1, <1>2 DEF Upsert

\* No token is spent that somebody still has to send.
LEMMA TokenStep ==
    ASSUME TypeOK, LockInv, FreshInv, TokenInv, [Next]_vars
    PROVE  TokenInv'
<1> USE NoneAssumption DEF Newest
<1>1. ASSUME NEW r \in Requests, Load(r) PROVE TokenInv'
  BY <1>1 DEF Load, TypeOK, TokenInv, StoredInv, SentInv
<1>2. ASSUME NEW r \in Requests, Acquire(r) PROVE TokenInv'
  BY <1>2 DEF Acquire, TypeOK, TokenInv, StoredInv, SentInv
<1>3. ASSUME NEW r \in Requests, Reload(r) PROVE TokenInv'
  <2>1. ASSUME NEW q \in Requests PROVE SentInv(q)'
    BY <1>3 DEF Reload, Wanting, Finish, TypeOK, TokenInv, StoredInv, SentInv
  <2>2. StoredInv'
    BY <1>3 DEF Reload, Wanting, Finish, TypeOK, TokenInv, StoredInv
  <2> QED BY <2>1, <2>2 DEF TokenInv
<1>4. ASSUME NEW r \in Requests, Answer(r) PROVE TokenInv'
  <2>1. \A q \in Requests \ {r} : at[q] \notin {"http", "kept", "rotated"}
    BY <1>4 DEF Answer, LockInv, Locked
  <2>2. mem[r] # None /\ mem[r] \in TokenBundle /\ SentInv(r)
    BY <1>4 DEF Answer, TokenInv, SentInv, TypeOK
  <2>3. CASE Refused(r)
    BY <1>4, <2>1, <2>3 DEF Answer, Refused, Finish, TypeOK, TokenInv, StoredInv, SentInv
  <2>4. CASE RefreshToken(mem[r]) \notin spent /\ Answered(r, "kept") /\ UNCHANGED spent
    BY <1>4, <2>1, <2>4 DEF Answer, Answered, TypeOK, TokenInv, StoredInv, SentInv
  <2>5. CASE Answered(r, "rotated") /\ Rotated(r)
    <3>1. SentInv(r)'
      BY <1>4, <2>2, <2>5, TokenType DEF Answer, Answered, Rotated, SentInv, TypeOK,
         RefreshToken
    <3>2. StoredInv'
      BY <1>4, <2>2, <2>5, TokenType DEF Answer, Answered, Rotated, SentInv, StoredInv,
         TokenInv, TypeOK, RefreshToken
    <3> QED BY <1>4, <2>1, <2>5, <3>1, <3>2 DEF Answer, Answered, TokenInv, SentInv, TypeOK
  <2>6. CASE Rotated(r) /\ Lose(r) /\ Finish(r)
    <3>1. StoredInv'
      BY <1>4, <2>1, <2>2, <2>6, TokenType DEF Answer, Rotated, Lose, Finish, SentInv,
         StoredInv, TokenInv, TypeOK, RefreshToken
    <3> QED BY <1>4, <2>1, <2>6, <3>1 DEF Answer, Finish, TokenInv, SentInv, TypeOK
  <2> QED BY <1>4, <2>3, <2>4, <2>5, <2>6 DEF Answer
<1>5. ASSUME NEW r \in Requests, Write(r) PROVE TokenInv'
  <2>1. \A q \in Requests \ {r} : at[q] \notin {"http", "kept", "rotated"}
    BY <1>5 DEF Write, LockInv, Locked
  <2>2. mem[r] # None /\ SentInv(r) /\ mem[r] \in TokenBundle
    BY <1>5 DEF Write, TokenInv, SentInv, TypeOK
  <2>3. Refreshed(r) \in TokenBundle /\ Refreshed(r).origin = mem[r].origin
    BY <2>2, RefreshedType
  <2>4. Newest(Refreshed(r)) /\ RefreshToken(Refreshed(r)) \notin spent
    BY <1>5, <2>2, RefreshedType, TokenType DEF Write, SentInv, RefreshToken, TypeOK, Token
  <2>5. StoredInv'
    <3>1. CASE account
      BY <1>5, <2>3, <2>4, <3>1 DEF Write, StoredInv
    <3>2. CASE ~account
      BY <1>5, <2>1, <2>2, <3>2 DEF Write, Lose, Finish, SentInv, StoredInv, TokenInv, TypeOK,
         RefreshToken
    <3> QED BY <3>1, <3>2 DEF TypeOK
  <2> QED BY <1>5, <2>1, <2>5 DEF Write, Finish, TokenInv, SentInv, TypeOK
<1>6. ASSUME NEW f \in Flows, Authorise(f) PROVE TokenInv'
  BY <1>6 DEF Authorise, TokenInv, StoredInv, SentInv
<1>7. ASSUME NEW f \in Flows, ResolveSignIn(f) PROVE TokenInv'
  BY <1>7 DEF ResolveSignIn, TokenInv, StoredInv, SentInv
<1>8. ASSUME NEW f \in Flows, StoreBundle(f) PROVE TokenInv'
  BY <1>8, TokenUpsert DEF StoreBundle
<1>9. ASSUME NEW f \in Flows, RecordEvent(f) PROVE TokenInv'
  BY <1>9 DEF RecordEvent, TokenInv, StoredInv, SentInv
<1>10. ASSUME NEW f \in Flows, Start(f) PROVE TokenInv'
  BY <1>10 DEF Start, TokenInv, StoredInv, SentInv
<1>11. ASSUME NEW f \in Flows, Fetch(f) PROVE TokenInv'
  BY <1>11 DEF Fetch, TokenInv, StoredInv, SentInv
<1>12. ASSUME NEW f \in Flows, Cancel(f) PROVE TokenInv'
  <2>1. CASE UNCHANGED stored
    BY <1>12, <2>1 DEF Cancel, TokenInv, StoredInv, SentInv
  <2>2. CASE step[f] = "store" /\ Upsert(f)
    BY <1>12, <2>2, TokenUpsert DEF Cancel
  <2> QED BY <1>12, <2>1, <2>2 DEF Cancel, Stopped
<1>13. CASE Disconnect
  BY <1>13 DEF Disconnect, Delete, TokenInv, StoredInv, SentInv
<1>14. CASE CloseAccount
  BY <1>14 DEF CloseAccount, TokenInv, StoredInv, SentInv
<1>15. CASE Expire
  <2>1. stored' # None /\ stored'.origin = stored.origin /\ stored'.version = stored.version
    BY <1>15 DEF Expire, TokenBundle, TypeOK
  <2>2. RefreshToken(stored)' = RefreshToken(stored)
    BY <2>1 DEF RefreshToken
  <2> QED BY <1>15, <2>1, <2>2 DEF Expire, TokenInv, StoredInv, SentInv
<1>16. CASE Restart
  <2>1. \A q \in Requests : SentInv(q)'
    BY <1>16 DEF Restart, SentInv
  <2>2. ASSUME NEW t \in spent' \ spent
        PROVE  t \in lost' /\ \E q \in Requests : at[q] = "http" /\ t = RefreshToken(mem[q])
    BY <1>16, <2>2 DEF Restart
  <2>3. \A q \in Requests : at[q] = "rotated" => RefreshToken(mem[q]) \in lost'
    BY <1>16 DEF Restart
  <2>4. lost \subseteq lost' /\ stored' = stored
    BY <1>16 DEF Restart
  <2>5. StoredInv'
    <3> SUFFICES ASSUME stored # None PROVE StoredInv'
      BY <2>4 DEF StoredInv, TokenInv
    <3>1. stored.version \in Nat
      BY TokenType DEF TypeOK
    <3>2. \A q \in Requests : at[q] \in {"http", "rotated"} /\ mem[q].origin = stored.origin
             => RefreshToken(mem[q]) = RefreshToken(stored)
      BY DEF TokenInv, SentInv, RefreshToken
    <3>3. ASSUME NEW t \in spent', t[1] = stored.origin PROVE t[2] <= stored.version
      <4>1. CASE t \in spent
        BY <3>3, <4>1 DEF TokenInv, StoredInv
      <4>2. CASE t \notin spent
        BY <2>2, <3>1, <3>2, <3>3, <4>2 DEF RefreshToken
      <4> QED BY <4>1, <4>2
    <3>4. RefreshToken(stored) \in spent' => RefreshToken(stored) \in lost'
      <4>1. CASE RefreshToken(stored) \in spent
        BY <2>3, <2>4, <3>2, <4>1 DEF TokenInv, StoredInv
      <4> QED BY <2>2, <4>1
    <3> QED BY <2>4, <3>3, <3>4 DEF TokenInv, StoredInv, RefreshToken
  <2> QED BY <2>1, <2>5 DEF TokenInv
<1>17. CASE UNCHANGED vars
  BY <1>17 DEF TokenInv, StoredInv, SentInv
<1> QED
  BY <1>1, <1>2, <1>3, <1>4, <1>5, <1>6, <1>7, <1>8, <1>9, <1>10, <1>11,
     <1>12, <1>13, <1>14, <1>15, <1>16, <1>17 DEF Next, Requesting, Running

\* A spent token is not sent again.
LEMMA ResentStep ==
    ASSUME TypeOK, LockInv, TokenInv, NoSpentTokenSent, [Next]_vars
    PROVE  NoSpentTokenSent'
<1>1. ASSUME NEW r \in Requests, Load(r) PROVE NoSpentTokenSent'
  BY <1>1 DEF Load, NoSpentTokenSent
<1>2. ASSUME NEW r \in Requests, Acquire(r) PROVE NoSpentTokenSent'
  BY <1>2 DEF Acquire, NoSpentTokenSent
<1>3. ASSUME NEW r \in Requests, Reload(r) PROVE NoSpentTokenSent'
  <2>1. ~\E q \in Requests : at[q] = "rotated"
    BY <1>3 DEF Reload, LockInv, Locked
  <2>2. stored # None => RefreshToken(stored) \notin spent \ lost
    BY <2>1 DEF TokenInv, StoredInv
  <2> QED BY <1>3, <2>2 DEF Reload, Wanting, NoSpentTokenSent
<1>4. ASSUME NEW r \in Requests, Answer(r) PROVE NoSpentTokenSent'
  BY <1>4 DEF Answer, Refused, Answered, Lose, NoSpentTokenSent
<1>5. ASSUME NEW r \in Requests, Write(r) PROVE NoSpentTokenSent'
  BY <1>5 DEF Write, Lose, NoSpentTokenSent
<1>6. ASSUME NEW f \in Flows, Authorise(f) PROVE NoSpentTokenSent'
  BY <1>6 DEF Authorise, NoSpentTokenSent
<1>7. ASSUME NEW f \in Flows, ResolveSignIn(f) PROVE NoSpentTokenSent'
  BY <1>7 DEF ResolveSignIn, NoSpentTokenSent
<1>8. ASSUME NEW f \in Flows, StoreBundle(f) PROVE NoSpentTokenSent'
  BY <1>8 DEF StoreBundle, NoSpentTokenSent
<1>9. ASSUME NEW f \in Flows, RecordEvent(f) PROVE NoSpentTokenSent'
  BY <1>9 DEF RecordEvent, NoSpentTokenSent
<1>10. ASSUME NEW f \in Flows, Start(f) PROVE NoSpentTokenSent'
  BY <1>10 DEF Start, NoSpentTokenSent
<1>11. ASSUME NEW f \in Flows, Fetch(f) PROVE NoSpentTokenSent'
  BY <1>11 DEF Fetch, NoSpentTokenSent
<1>12. ASSUME NEW f \in Flows, Cancel(f) PROVE NoSpentTokenSent'
  BY <1>12 DEF Cancel, NoSpentTokenSent
<1>13. CASE Disconnect
  BY <1>13 DEF Disconnect, NoSpentTokenSent
<1>14. CASE CloseAccount
  BY <1>14 DEF CloseAccount, NoSpentTokenSent
<1>15. CASE Expire
  BY <1>15 DEF Expire, NoSpentTokenSent
<1>16. CASE Restart
  BY <1>16 DEF Restart, NoSpentTokenSent
<1>17. CASE UNCHANGED vars
  BY <1>17 DEF NoSpentTokenSent
<1> QED
  BY <1>1, <1>2, <1>3, <1>4, <1>5, <1>6, <1>7, <1>8, <1>9, <1>10, <1>11,
     <1>12, <1>13, <1>14, <1>15, <1>16, <1>17 DEF Next, Requesting, Running

\* What a flow stores is what the user asks for from then on.
LEMMA IntentUpsert ==
    ASSUME TypeOK, IntentInv, NEW f \in Flows, Upsert(f), UNCHANGED <<at, mem>>
    PROVE  IntentInv'
<1>1. CASE mine[f] /\ account
  <2>1. stored' # None /\ stored'.origin = f
    <3>1. stored' = [origin |-> f, version |-> 0, stale |-> FALSE]
      BY <1>1 DEF Upsert
    <3>2. stored' \in TokenBundle
      BY <3>1 DEF TokenBundle, Origin
    <3> QED BY <3>1, <3>2, NoneAssumption
  <2> QED BY <1>1, <2>1 DEF Upsert, Ask, IntentInv, OriginOf, Sent
<1>2. CASE ~(mine[f] /\ account)
  BY <1>2 DEF Upsert, IntentInv, OriginOf, Sent
<1> QED BY <1>1, <1>2

\* What is stored is what the user asked for last.
LEMMA IntentStep ==
    ASSUME TypeOK, LockInv, TokenInv, IntentInv, [Next]_vars
    PROVE  IntentInv'
<1> USE NoneAssumption
<1>1. ASSUME NEW r \in Requests, Load(r) PROVE IntentInv'
  BY <1>1 DEF Load, TypeOK, IntentInv, OriginOf, Sent
<1>2. ASSUME NEW r \in Requests, Acquire(r) PROVE IntentInv'
  BY <1>2 DEF Acquire, TypeOK, IntentInv, OriginOf, Sent
<1>3. ASSUME NEW r \in Requests, Reload(r) PROVE IntentInv'
  BY <1>3 DEF Reload, Wanting, Finish, TypeOK, IntentInv, OriginOf, Sent
<1>4. ASSUME NEW r \in Requests, Answer(r) PROVE IntentInv'
  BY <1>4 DEF Answer, Refused, Answered, Finish, TypeOK, IntentInv, OriginOf, Sent
<1>5. ASSUME NEW r \in Requests, Write(r) PROVE IntentInv'
  <2>1. mem[r] # None /\ Refreshed(r) \in TokenBundle /\ Refreshed(r).origin = mem[r].origin
    BY <1>5, RefreshedType DEF Write, TokenInv, SentInv
  <2>2. r \in Sent /\ Sent' = Sent \ {r}
    BY <1>5 DEF Write, Finish, Sent, TypeOK
  <2>3. \A q \in Sent' : mem'[q] = mem[q]
    BY <1>5, <2>2 DEF Write, Finish, TypeOK
  <2>4. CASE account
    BY <1>5, <2>1, <2>2, <2>3, <2>4 DEF Write, IntentInv, OriginOf
  <2>5. CASE ~account
    BY <1>5, <2>2, <2>3, <2>5 DEF Write, IntentInv, OriginOf
  <2> QED BY <2>4, <2>5
<1>6. ASSUME NEW f \in Flows, Authorise(f) PROVE IntentInv'
  BY <1>6 DEF Authorise, IntentInv, OriginOf, Sent
<1>7. ASSUME NEW f \in Flows, ResolveSignIn(f) PROVE IntentInv'
  BY <1>7 DEF ResolveSignIn, IntentInv, OriginOf, Sent
<1>8. ASSUME NEW f \in Flows, StoreBundle(f) PROVE IntentInv'
  BY <1>8, IntentUpsert DEF StoreBundle
<1>9. ASSUME NEW f \in Flows, RecordEvent(f) PROVE IntentInv'
  BY <1>9 DEF RecordEvent, IntentInv, OriginOf, Sent
<1>10. ASSUME NEW f \in Flows, Start(f) PROVE IntentInv'
  BY <1>10 DEF Start, IntentInv, OriginOf, Sent
<1>11. ASSUME NEW f \in Flows, Fetch(f) PROVE IntentInv'
  BY <1>11 DEF Fetch, IntentInv, OriginOf, Sent
<1>12. ASSUME NEW f \in Flows, Cancel(f) PROVE IntentInv'
  <2>1. CASE UNCHANGED <<stored, intended, overtaken, revived>>
    BY <1>12, <2>1 DEF Cancel, IntentInv, OriginOf, Sent
  <2>2. CASE Upsert(f)
    BY <1>12, <2>2, IntentUpsert DEF Cancel
  <2> QED BY <1>12, <2>1, <2>2 DEF Cancel, Stopped
<1>13. CASE Disconnect
  BY <1>13 DEF Disconnect, Delete, Ask, IntentInv, OriginOf, Sent
<1>14. CASE CloseAccount
  BY <1>14 DEF CloseAccount, Ask, IntentInv, OriginOf, Sent
<1>15. CASE Expire
  <2>1. stored' # None /\ stored'.origin = stored.origin
    BY <1>15 DEF Expire, TokenBundle, TypeOK
  <2> QED BY <1>15, <2>1 DEF Expire, IntentInv, OriginOf, Sent
<1>16. CASE Restart
  BY <1>16 DEF Restart, IntentInv, OriginOf, Sent
<1>17. CASE UNCHANGED vars
  BY <1>17 DEF IntentInv, OriginOf, Sent
<1> QED
  BY <1>1, <1>2, <1>3, <1>4, <1>5, <1>6, <1>7, <1>8, <1>9, <1>10, <1>11,
     <1>12, <1>13, <1>14, <1>15, <1>16, <1>17 DEF Next, Requesting, Running

\* Where a flow stands, its record says.
LEMMA FlowStep ==
    ASSUME TypeOK, \A g \in Flows : FlowInv(g), [Next]_vars
    PROVE  (\A g \in Flows : FlowInv(g))'
<1>1. ASSUME NEW r \in Requests, Load(r) PROVE (\A g \in Flows : FlowInv(g))'
  BY <1>1 DEF Load, FlowInv
<1>2. ASSUME NEW r \in Requests, Acquire(r) PROVE (\A g \in Flows : FlowInv(g))'
  BY <1>2 DEF Acquire, FlowInv
<1>3. ASSUME NEW r \in Requests, Reload(r) PROVE (\A g \in Flows : FlowInv(g))'
  BY <1>3 DEF Reload, FlowInv
<1>4. ASSUME NEW r \in Requests, Answer(r) PROVE (\A g \in Flows : FlowInv(g))'
  BY <1>4 DEF Answer, FlowInv
<1>5. ASSUME NEW r \in Requests, Write(r) PROVE (\A g \in Flows : FlowInv(g))'
  BY <1>5 DEF Write, FlowInv
<1>6. ASSUME NEW f \in Flows, Authorise(f) PROVE (\A g \in Flows : FlowInv(g))'
  BY <1>6 DEF Authorise, Go, Listed, Die, Settle, FlowInv, TypeOK, Flows
<1>7. ASSUME NEW f \in Flows, ResolveSignIn(f) PROVE (\A g \in Flows : FlowInv(g))'
  BY <1>7 DEF ResolveSignIn, Go, Listed, Issue, Settle, FlowInv, TypeOK
<1>8. ASSUME NEW f \in Flows, StoreBundle(f) PROVE (\A g \in Flows : FlowInv(g))'
  BY <1>8 DEF StoreBundle, Go, Die, Settle, FlowInv, TypeOK, Flows
<1>9. ASSUME NEW f \in Flows, RecordEvent(f) PROVE (\A g \in Flows : FlowInv(g))'
  BY <1>9 DEF RecordEvent, Go, Die, Settle, FlowInv, TypeOK
<1>10. ASSUME NEW f \in Flows, Start(f) PROVE (\A g \in Flows : FlowInv(g))'
  <2> SUFFICES ASSUME NEW g \in Flows PROVE FlowInv(g)'
    OBVIOUS
  <2>1. f \notin Settled /\ \A h \in Settled : record[h] = "kept" /\ status[h] # "pending"
    BY <1>10 DEF Start, Settled, Registered
  <2>2. CASE g = f
    BY <1>10, <2>1, <2>2 DEF Start, Go, Evicting, FlowInv, TypeOK
  <2>3. CASE g # f
    <3>1. step'[g] = step[g] /\ UNCHANGED <<status, session>>
      BY <1>10, <2>3 DEF Start, Go, TypeOK
    <3>2. record'[g] = record[g] \/ (g \in Settled /\ record'[g] = "gone")
      BY <1>10, <2>3 DEF Start, Evicting
    <3> QED BY <2>1, <3>1, <3>2 DEF FlowInv, TypeOK
  <2> QED BY <2>2, <2>3
<1>11. ASSUME NEW f \in Flows, Fetch(f) PROVE (\A g \in Flows : FlowInv(g))'
  BY <1>11 DEF Fetch, Hand, Evicting, Settled, Registered, FlowInv, TypeOK
<1>12. ASSUME NEW f \in Flows, Cancel(f) PROVE (\A g \in Flows : FlowInv(g))'
  BY <1>12 DEF Cancel, Stopped, Issue, Go, Registered, FlowInv, TypeOK
<1>13. CASE Disconnect
  BY <1>13 DEF Disconnect, FlowInv
<1>14. CASE CloseAccount
  BY <1>14 DEF CloseAccount, FlowInv
<1>15. CASE Expire
  BY <1>15 DEF Expire, FlowInv
<1>16. CASE Restart
  BY <1>16 DEF Restart, Registered, FlowInv, TypeOK
<1>17. CASE UNCHANGED vars
  BY <1>17 DEF FlowInv
<1> QED
  BY <1>1, <1>2, <1>3, <1>4, <1>5, <1>6, <1>7, <1>8, <1>9, <1>10, <1>11,
     <1>12, <1>13, <1>14, <1>15, <1>16, <1>17 DEF Next, Requesting, Running

\* A session made by a flow is handed over.
LEMMA SessionStep ==
    ASSUME TypeOK, SessionNotDropped, \A g \in Flows : FlowInv(g), [Next]_vars
    PROVE  SessionNotDropped'
<1>1. ASSUME NEW r \in Requests, Load(r) PROVE SessionNotDropped'
  BY <1>1 DEF Load, SessionNotDropped
<1>2. ASSUME NEW r \in Requests, Acquire(r) PROVE SessionNotDropped'
  BY <1>2 DEF Acquire, SessionNotDropped
<1>3. ASSUME NEW r \in Requests, Reload(r) PROVE SessionNotDropped'
  BY <1>3 DEF Reload, SessionNotDropped
<1>4. ASSUME NEW r \in Requests, Answer(r) PROVE SessionNotDropped'
  BY <1>4 DEF Answer, SessionNotDropped
<1>5. ASSUME NEW r \in Requests, Write(r) PROVE SessionNotDropped'
  BY <1>5 DEF Write, SessionNotDropped
<1>6. ASSUME NEW f \in Flows, Authorise(f) PROVE SessionNotDropped'
  BY <1>6 DEF Authorise, Go, Listed, Die, Settle, FlowInv, SessionNotDropped, Flows, TypeOK
<1>7. ASSUME NEW f \in Flows, ResolveSignIn(f) PROVE SessionNotDropped'
  BY <1>7 DEF ResolveSignIn, Go, Listed, Issue, Settle, FlowInv, SessionNotDropped, Flows,
     TypeOK
<1>8. ASSUME NEW f \in Flows, StoreBundle(f) PROVE SessionNotDropped'
  BY <1>8 DEF StoreBundle, Go, Die, Settle, FlowInv, SessionNotDropped, Flows, TypeOK
<1>9. ASSUME NEW f \in Flows, RecordEvent(f) PROVE SessionNotDropped'
  BY <1>9 DEF RecordEvent, Go, Die, Settle, FlowInv, SessionNotDropped, Flows, TypeOK
<1>10. ASSUME NEW f \in Flows, Start(f) PROVE SessionNotDropped'
  BY <1>10 DEF Start, Go, Evicting, Settled, Registered, FlowInv, SessionNotDropped, Flows,
     TypeOK
<1>11. ASSUME NEW f \in Flows, Fetch(f) PROVE SessionNotDropped'
  BY <1>11 DEF Fetch, Hand, Evicting, Settled, Registered, FlowInv, SessionNotDropped, Flows,
     TypeOK
<1>12. ASSUME NEW f \in Flows, Cancel(f) PROVE SessionNotDropped'
  BY <1>12 DEF Cancel, Stopped, Issue, Go, Registered, FlowInv, SessionNotDropped, Flows,
     TypeOK
<1>13. CASE Disconnect
  BY <1>13 DEF Disconnect, SessionNotDropped
<1>14. CASE CloseAccount
  BY <1>14 DEF CloseAccount, SessionNotDropped
<1>15. CASE Expire
  BY <1>15 DEF Expire, SessionNotDropped
<1>16. CASE Restart
  BY <1>16 DEF Restart, Registered, FlowInv, SessionNotDropped, Flows, TypeOK
<1>17. CASE UNCHANGED vars
  BY <1>17 DEF FlowInv, SessionNotDropped, Flows
<1> QED
  BY <1>1, <1>2, <1>3, <1>4, <1>5, <1>6, <1>7, <1>8, <1>9, <1>10, <1>11,
     <1>12, <1>13, <1>14, <1>15, <1>16, <1>17 DEF Next, Requesting, Running

\* Every step keeps the invariant.
LEMMA InvStep == IInv /\ [Next]_vars => IInv'
BY TypeStep, LockStep, FreshStep, TokenStep, ResentStep, IntentStep, FlowStep, SessionStep
   DEF IInv

(* Whatever the requests, flows, users and restarts do, refreshes exclude one  *)
(* another, a stored token is the youngest of its authorisation and a flow's   *)
(* record, task and session agree (codex.py:97-126, 137-192, 276-295).         *)
THEOREM InvariantHolds == Spec => []IInv
<1>1. IInv /\ [Next]_vars => IInv'
  BY InvStep
<1> QED BY InitInv, <1>1, PTL DEF Spec

(* Every reachable state is well typed.                                        *)
THEOREM TypeCorrect == Spec => []TypeOK
<1>1. IInv => TypeOK
  BY DEF IInv
<1> QED BY InvariantHolds, <1>1, PTL

(* A refresh token is sent again after its rotation only if its successor was  *)
(* lost on the way (codex.py:109-120), however many requests refresh.          *)
THEOREM SpentTokensNotSent == Spec => []NoSpentTokenSent
<1>1. IInv => NoSpentTokenSent
  BY DEF IInv
<1> QED BY InvariantHolds, <1>1, PTL

(* The stored bundle is what the user's last action asked for, unless a        *)
(* refresh that was under way then has stored its answer since (codex.py:110). *)
THEOREM UserActionWins == Spec => []LastActionWins
<1>1. IInv => LastActionWins
  BY DEF IInv, IntentInv, OriginOf, LastActionWins
<1> QED BY InvariantHolds, <1>1, PTL

(* A session issued to a sign-in flow is never dropped unseen                  *)
(* (codex.py:249-274).                                                         *)
THEOREM SessionsHandedOver == Spec => []SessionNotDropped
<1>1. IInv => SessionNotDropped
  BY DEF IInv
<1> QED BY InvariantHolds, <1>1, PTL

\* The action of CancelSticks.
Sticks ==
    \A f \in Flows : record[f] = "cancelled" /\ (stored = None \/ stored.origin # f)
        => stored' = None \/ stored'.origin # f \/ revived'

\* A cancelled flow stores nothing later.
LEMMA SticksStep ==
    ASSUME IInv, [Next]_vars
    PROVE  Sticks
<1> USE NoneAssumption, SeedAssumption DEF IInv
<1>1. ASSUME NEW r \in Requests, Load(r) PROVE Sticks
  BY <1>1 DEF Load, Sticks
<1>2. ASSUME NEW r \in Requests, Acquire(r) PROVE Sticks
  BY <1>2 DEF Acquire, Sticks
<1>3. ASSUME NEW r \in Requests, Reload(r) PROVE Sticks
  BY <1>3 DEF Reload, Sticks
<1>4. ASSUME NEW r \in Requests, Answer(r) PROVE Sticks
  BY <1>4 DEF Answer, Sticks
<1>5. ASSUME NEW r \in Requests, Write(r) PROVE Sticks
  <2>1. mem[r] # None /\ Refreshed(r).origin = mem[r].origin /\ r \in Sent
    BY <1>5, RefreshedType DEF Write, TokenInv, SentInv, Sent
  <2>2. CASE account /\ ~revived'
    <3>1. ~revived /\ r \notin overtaken
      BY <1>5, <2>2 DEF Write, TypeOK
    <3>2. mem[r].origin = OriginOf(stored)
      BY <2>1, <3>1 DEF IntentInv
    <3>3. stored' = Refreshed(r)
      BY <1>5, <2>2 DEF Write
    <3> QED BY <2>1, <3>2, <3>3 DEF Sticks, OriginOf, Flows
  <2>3. CASE ~account
    BY <1>5, <2>3 DEF Write, Sticks
  <2> QED BY <2>2, <2>3 DEF Sticks
<1>6. ASSUME NEW f \in Flows, Authorise(f) PROVE Sticks
  BY <1>6 DEF Authorise, Sticks
<1>7. ASSUME NEW f \in Flows, ResolveSignIn(f) PROVE Sticks
  BY <1>7 DEF ResolveSignIn, Sticks
<1>8. ASSUME NEW f \in Flows, StoreBundle(f) PROVE Sticks
  <2>1. record[f] # "cancelled"
    BY <1>8 DEF StoreBundle, FlowInv
  <2>2. stored' = stored \/ stored' = [origin |-> f, version |-> 0, stale |-> FALSE]
    BY <1>8 DEF StoreBundle, Upsert
  <2> QED BY <2>1, <2>2 DEF Sticks
<1>9. ASSUME NEW f \in Flows, RecordEvent(f) PROVE Sticks
  BY <1>9 DEF RecordEvent, Sticks
<1>10. ASSUME NEW f \in Flows, Start(f) PROVE Sticks
  BY <1>10 DEF Start, Sticks
<1>11. ASSUME NEW f \in Flows, Fetch(f) PROVE Sticks
  BY <1>11 DEF Fetch, Sticks
<1>12. ASSUME NEW f \in Flows, Cancel(f) PROVE Sticks
  <2>1. record[f] # "cancelled"
    BY <1>12 DEF Cancel, Registered
  <2>2. stored' = stored \/ stored' = [origin |-> f, version |-> 0, stale |-> FALSE]
    BY <1>12 DEF Cancel, Stopped, Upsert
  <2> QED BY <2>1, <2>2 DEF Sticks
<1>13. CASE Disconnect
  BY <1>13 DEF Disconnect, Delete, Sticks
<1>14. CASE CloseAccount
  BY <1>14 DEF CloseAccount, Sticks
<1>15. CASE Expire
  <2>1. stored' # None /\ stored'.origin = stored.origin
    BY <1>15 DEF Expire, TokenBundle, TypeOK
  <2> QED BY <1>15, <2>1 DEF Expire, Sticks
<1>16. CASE Restart
  BY <1>16 DEF Restart, Sticks
<1>17. CASE UNCHANGED vars
  BY <1>17 DEF Sticks
<1> QED
  BY <1>1, <1>2, <1>3, <1>4, <1>5, <1>6, <1>7, <1>8, <1>9, <1>10, <1>11,
     <1>12, <1>13, <1>14, <1>15, <1>16, <1>17 DEF Next, Requesting, Running

(* A cancelled flow connects nothing later: a bundle of its authorisation comes *)
(* back only through a refresh that had sent one (codex.py:288-295).           *)
THEOREM CancelledFlowsStayOut == Spec => CancelSticks
<1>1. IInv /\ [Next]_vars => [Sticks]_vars
  BY SticksStep
<1> QED BY InvariantHolds, <1>1, PTL DEF Spec, CancelSticks, Sticks

================================================================================
