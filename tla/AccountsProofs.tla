---------------------------- MODULE AccountsProofs ----------------------------
(****************************************************************************)
(* What holds of the accounts for any number of requests, addresses and     *)
(* ids: rows stay with their account, a password change ends the sessions   *)
(* of the old one, a link is redeemed once, failures lock an address, the   *)
(* first account leads and an account keeps a way in.                       *)
(****************************************************************************)
EXTENDS Accounts, TLAPS

USE DEF vars, db, work, hist

Path(o) ==
    CASE o = "none"     -> {"none"}
      [] o = "register" -> {"known", "count", "create", "seed", "adopt", "link", "issue", "done"}
      [] o = "login"    -> {"check", "look", "failures", "record", "clear", "issue", "done"}
      [] o = "logout"   -> {"drop", "done"}
      [] o = "change"   -> {"current", "update", "revoke", "done"}
      [] o = "close"    -> {"current", "delete", "done"}
      [] o = "verify"   -> {"consume", "mark", "issue", "done"}
      [] o \in {"resend", "forgot"} -> {"look", "link", "done"}
      [] o = "reset"    -> {"consume", "find", "update", "revoke", "clear", "mark", "issue", "done"}
      [] o = "signin"   -> {"identity", "account", "known", "count", "create", "seed", "adopt",
                            "tie", "issue", "done"}
      [] o = "link"     -> {"identity", "tie", "done"}
      [] o = "unlink"   -> {"list", "untie", "done"}
      [] o = "start"    -> {"offer", "done"}

WithEmail(o) ==
    {"known", "count", "create", "seed", "check", "look", "failures", "record", "clear",
     "identity", "account", "tie"} \cup (IF o = "reset" THEN {"update", "revoke"} ELSE {})

WithUser(o) ==
    {"seed", "adopt", "issue", "link", "drop", "current", "update", "revoke", "delete", "find",
     "clear", "mark", "tie", "list", "untie", "offer"}
    \cup (IF o = "link" THEN {"identity"} ELSE {})

\* What a request of operation o has in memory when it waits for the call l.
MemFor(o, l, m) ==
    /\ l \in Path(o)
    /\ l \in WithEmail(o) => m.email \in Emails
    /\ l \in WithUser(o) => m.user \in Ids /\ m.born \in Author
    /\ l = "consume" => m.token \in Author
    /\ l = "record" => m.read \in Failures
    /\ o = "signin" /\ l # "done" => m.provider \in Providers

MemInv == \A r \in Requests : MemFor(op[r], at[r], mem[r])

\* The part of TypeOK that is not about requests at work.
Tables ==
    /\ users \in [Ids -> User \cup {None}]
    /\ sessions \in [Author -> Session \cup {None}]
    /\ identities \in [(Providers \cup {Password}) \X Emails -> Holder \cup {None}]
    /\ failures \in [Emails -> Failures]
    /\ links \in [Author -> Link \cup {None}]
    /\ orphans \in Proof
    /\ pending \in [Author -> [user : Ids \cup {None}, born : Proof] \cup {None}]
    /\ raced \in [Emails -> BOOLEAN]
    /\ contested \subseteq Requests /\ displaced \subseteq Author /\ applied \subseteq Requests
    /\ unwritten \subseteq Requests
    /\ paired \in BOOLEAN /\ leaderless \in BOOLEAN /\ crashed \in BOOLEAN
    /\ redeemed \in [Author -> SUBSET Requests]

FlowsInv ==
    \A s \in Author : pending[s] # None /\ pending[s].user # None => pending[s].born \in Author

\* An account that has not been created yet is known to nobody.
Unborn(l) == l \in {"none", "identity", "account", "known", "count", "create"}
Known(b) ==
    \/ \E i \in Account : users[i].born = b
    \/ \E r \in Requests : mem[r].born = b
    \/ \E s \in Author : pending[s] # None /\ pending[s].born = b

FreshInv == \A q \in Requests : Unborn(at[q]) => ~Known(q)

\* A session of an old password is about to be revoked by the request that set
\* the new one.
SessionInv ==
    \A t \in Author :
        sessions[t] # None =>
            \/ sessions[t].proof = users[sessions[t].user].password
            \/ sessions[t].late
            \/ \E r \in Requests : /\ at[r] = "revoke" /\ mem[r].user = sessions[t].user
                                   /\ users[sessions[t].user].password = r
            \/ crashed

\* A link that was redeemed is used, and a request that has redeemed one to
\* reset a password is on its way to write it.
LinkInv ==
    \A k \in Author :
        /\ redeemed[k] # {} => links[k] = None \/ links[k].used
        /\ k \in Requests /\ (redeemed[k] # {} \/ links[k] # None) => at[k] = "done"
        /\ \A r, s \in redeemed[k] : r = s
        /\ \A r \in redeemed[k] :
              /\ at[r] \notin {"none", "consume"}
              /\ op[r] = "reset" =>
                    \/ at[r] = "find" /\ (links[k] = None \/ links[k].user = mem[r].user)
                    \/ at[r] = "update" \/ r \in applied \cup unwritten \/ crashed \/ links[k] = None

\* An account that registered has a password; one that unlinks Google has
\* another way in.
WayInv ==
    \A i \in Account :
        /\ users[i].born \in Requests /\ op[users[i].born] = "register" => users[i].password # None
        /\ \A r \in Requests :
              at[r] = "untie" /\ mem[r].user = i /\ mem[r].born = users[i].born =>
                 \/ users[i].password # None
                 \/ \E k \in IdentitiesOf(i) : k[1] \notin {Google, Password}
        /\ \/ users[i].password # None
           \/ \E k \in IdentitiesOf(i) : k[1] # Password
           \/ users[i].born \in contested \cup displaced
           \/ /\ users[i].born \in Requests
              /\ at[users[i].born] = "seed" /\ mem[users[i].born].user = i
           \/ crashed

First(r) == at[r] = "create" /\ mem[r].first

\* A registration has counted no users only if there are none, or another one
\* had done so too; what it creates leads until an admin closes its account.
LeadInv ==
    /\ \A r, s \in Requests : First(r) /\ First(s) => r = s \/ paired
    /\ \A r \in Requests : First(r) => Account = {} \/ paired \/ leaderless
    /\ \A r \in Requests : at[r] = "create" /\ ~mem[r].first => Account # {} \/ leaderless
    /\ \A r \in Requests :
          at[r] \in {"seed", "adopt"} /\ mem[r].first =>
             leaderless \/ (mem[r].user \in Account /\ users[mem[r].user].admin)

IInv ==
    /\ TypeOK /\ MemInv /\ FlowsInv /\ FreshInv
    /\ RowsOfTheirAccount /\ SessionInv /\ LinkInv /\ WayInv
    /\ FailuresLock /\ LeadInv /\ FirstAccountLeads

--------------------------------------------------------------------------------
\* The fields of a request's memory.
LEMMA MemShape ==
    /\ Blank \in Memory
    /\ \A m \in Memory : /\ m.email \in Emails \cup {None}
                         /\ m.provider \in Providers \cup {Password}
                         /\ m.user \in Ids \cup {None} /\ m.born \in Proof /\ m.proof \in Proof
                         /\ m.token \in Proof /\ m.first \in BOOLEAN
                         /\ m.read \in Failures \cup {None}
BY DEF Blank, Memory, Proof

\* The step of one request leaves the others where they are.
LEMMA StepType ==
    ASSUME at \in [Requests -> Location], mem \in [Requests -> Memory],
           NEW r \in Requests, NEW l \in Location, NEW m \in Memory, Step(r, l, m)
    PROVE  /\ at' \in [Requests -> Location] /\ mem' \in [Requests -> Memory]
           /\ at'[r] = l /\ mem'[r] = (IF l = "done" THEN Blank ELSE m)
           /\ \A q \in Requests : q # r => at'[q] = at[q] /\ mem'[q] = mem[q]
<1>1. (IF l = "done" THEN Blank ELSE m) \in Memory
  BY MemShape
<1> QED BY <1>1 DEF Step

\* A request that begins leaves the others where they are.
LEMMA BeginType ==
    ASSUME op \in [Requests -> Operations], at \in [Requests -> Location],
           mem \in [Requests -> Memory], NEW r \in Requests, NEW o \in Operations,
           NEW l \in Location, NEW m \in Memory, Begin(r, o, l, m)
    PROVE  /\ op' \in [Requests -> Operations] /\ op[r] = "none" /\ op'[r] = o
           /\ \A q \in Requests : q # r => op'[q] = op[q]
           /\ Step(r, l, m)
BY DEF Begin

\* MemInv is kept by a request that goes on, and by one that begins.
LEMMA GoesOn ==
    ASSUME TypeOK, MemInv, NEW r \in Requests, NEW l \in Location, NEW m \in Memory,
           Step(r, l, m), UNCHANGED op, MemFor(op[r], l, m) \/ (l = "done" /\ op[r] # "none")
    PROVE  MemInv' /\ (op \in [Requests -> Operations])'
           /\ (at \in [Requests -> Location])' /\ (mem \in [Requests -> Memory])'
<1>1. at \in [Requests -> Location] /\ mem \in [Requests -> Memory]
      /\ op \in [Requests -> Operations]
  BY DEF TypeOK
<1>2. /\ at' \in [Requests -> Location] /\ mem' \in [Requests -> Memory]
      /\ at'[r] = l /\ mem'[r] = (IF l = "done" THEN Blank ELSE m)
      /\ \A q \in Requests : q # r => at'[q] = at[q] /\ mem'[q] = mem[q]
  BY <1>1, StepType
<1>3. MemFor(op[r], l, IF l = "done" THEN Blank ELSE m)
  <2>1. CASE l = "done"
    <3>1. op[r] # "none"
      BY <2>1 DEF MemFor, Path
    <3> QED BY <1>1, <2>1, <3>1 DEF MemFor, Path, WithEmail, WithUser, Operations
  <2> QED BY <2>1
<1> QED BY <1>1, <1>2, <1>3 DEF MemInv

\* See GoesOn.
LEMMA SetsOut ==
    ASSUME TypeOK, MemInv, NEW r \in Requests, NEW o \in Operations, NEW l \in Location,
           NEW m \in Memory, Begin(r, o, l, m), MemFor(o, l, m), o # "none"
    PROVE  MemInv' /\ (op \in [Requests -> Operations])'
           /\ (at \in [Requests -> Location])' /\ (mem \in [Requests -> Memory])'
<1>1. at \in [Requests -> Location] /\ mem \in [Requests -> Memory]
      /\ op \in [Requests -> Operations]
  BY DEF TypeOK
<1>2. /\ op' \in [Requests -> Operations] /\ op'[r] = o
      /\ \A q \in Requests : q # r => op'[q] = op[q]
      /\ Step(r, l, m)
  BY <1>1, BeginType
<1>3. /\ at' \in [Requests -> Location] /\ mem' \in [Requests -> Memory]
      /\ at'[r] = l /\ mem'[r] = (IF l = "done" THEN Blank ELSE m)
      /\ \A q \in Requests : q # r => at'[q] = at[q] /\ mem'[q] = mem[q]
  BY <1>1, <1>2, StepType
<1>4. MemFor(o, l, IF l = "done" THEN Blank ELSE m)
  BY DEF MemFor, Path, WithEmail, WithUser, Operations
<1> QED BY <1>1, <1>2, <1>3, <1>4 DEF MemInv

\* Rows of accounts that exist.
LEMMA AccountType ==
    ASSUME TypeOK, NEW i \in Account
    PROVE  /\ i \in Ids /\ users[i] \in User /\ users[i].email \in Emails
           /\ users[i].password \in Proof /\ users[i].born \in Author
           /\ users[i].admin \in BOOLEAN /\ users[i].verified \in BOOLEAN
BY DEF TypeOK, Account, User

\* An account found by its e-mail.
LEMMA FoundType ==
    ASSUME TypeOK, NEW i \in Account, NEW m \in Memory
    PROVE  /\ Found(m, i) \in Memory
           /\ Found(m, i).user = i /\ Found(m, i).born = users[i].born
           /\ Found(m, i).email = users[i].email /\ Found(m, i).proof = users[i].password
           /\ Found(m, i).provider = m.provider /\ Found(m, i).token = m.token
<1>1. /\ i \in Ids /\ users[i].born \in Author /\ users[i].password \in Proof
      /\ users[i].email \in Emails
  BY AccountType
<1> QED BY <1>1 DEF Found, Memory, Proof

\* The accounts of an e-mail are accounts.
LEMMA EmailsAccounts ==
    ASSUME NEW e, NEW i \in ByEmail(e)
    PROVE  i \in Account /\ users[i].email = e
BY DEF ByEmail

\* What a session token tells of its request.
LEMMA AuthenticatedType ==
    ASSUME TypeOK, RowsOfTheirAccount, NEW t \in Author, sessions[t] # None
    PROVE  /\ Authenticated(t) \in Memory
           /\ Authenticated(t).user = sessions[t].user /\ sessions[t].user \in Account
           /\ Authenticated(t).born = users[sessions[t].user].born
           /\ Authenticated(t).born \in Author /\ Authenticated(t).user \in Ids
<1>1. sessions[t].user \in Account
  BY DEF RowsOfTheirAccount
<1> DEFINE m == Found(Blank, sessions[t].user)
<1>2. /\ m \in Memory /\ m.user = sessions[t].user
      /\ m.born = users[sessions[t].user].born
  BY <1>1, FoundType, MemShape
<1>3. users[sessions[t].user].born \in Author /\ sessions[t].user \in Ids
  BY <1>1, AccountType
<1> HIDE DEF m
<1>4. /\ [m EXCEPT !.token = t] \in Memory /\ [m EXCEPT !.token = t].user = m.user
      /\ [m EXCEPT !.token = t].born = m.born
  BY <1>2 DEF Memory, Proof
<1> QED BY <1>1, <1>2, <1>3, <1>4 DEF Authenticated, m

\* The account of an identity.
LEMMA OwnerType ==
    ASSUME TypeOK, RowsOfTheirAccount, NEW p \in Providers \cup {Password}, NEW e \in Emails
    PROVE  Owner(p, e) = None \/ Owner(p, e) \in Account
BY DEF TypeOK, RowsOfTheirAccount, Owner

\* A step that leaves the requests alone.
LEMMA MemInvStays ==
    ASSUME MemInv, UNCHANGED <<op, at, mem>>
    PROVE  MemInv'
BY DEF MemInv

\* A request that is done keeps nothing.
LEMMA Finishes ==
    ASSUME TypeOK, MemInv, NEW r \in Requests, To(r, "done"), UNCHANGED op, at[r] # "none"
    PROVE  MemInv' /\ (op \in [Requests -> Operations])'
           /\ (at \in [Requests -> Location])' /\ (mem \in [Requests -> Memory])'
<1>1. op[r] # "none"
  BY DEF MemInv, MemFor, Path
<1>2. Step(r, "done", mem[r]) /\ mem[r] \in Memory /\ "done" \in Location
  BY DEF To, TypeOK, Location
<1> QED BY <1>1, <1>2, GoesOn

\* Where a request may go on with the memory it has.
LEMMA Routes ==
    ASSUME NEW o \in Operations, NEW m
    PROVE  /\ MemFor(o, "known", m) => MemFor(o, "count", m)
           /\ MemFor(o, "check", m) => MemFor(o, "look", m)
           /\ MemFor(o, "adopt", m) /\ o = "register" => MemFor(o, "link", m)
           /\ MemFor(o, "adopt", m) => MemFor(o, "issue", m)
           /\ MemFor(o, "clear", m) /\ o = "reset" => MemFor(o, "mark", m)
           /\ MemFor(o, "clear", m) => MemFor(o, "issue", m)
           /\ MemFor(o, "current", m) /\ o = "change" => MemFor(o, "update", m)
           /\ MemFor(o, "current", m) /\ o # "change" => MemFor(o, "delete", m)
           /\ MemFor(o, "revoke", m) /\ o # "change" => MemFor(o, "clear", m)
           /\ MemFor(o, "identity", m) /\ o = "link" => MemFor(o, "tie", m)
           /\ MemFor(o, "identity", m) /\ o # "link" => MemFor(o, "account", m)
           /\ MemFor(o, "account", m) => MemFor(o, "known", m)
           /\ MemFor(o, "tie", m) /\ o # "link" => MemFor(o, "issue", m)
           /\ MemFor(o, "list", m) => MemFor(o, "untie", m)
<1>1. MemFor(o, "known", m) => MemFor(o, "count", m)
  BY DEF MemFor, Path, WithEmail, WithUser, Operations
<1>2. MemFor(o, "check", m) => MemFor(o, "look", m)
  BY DEF MemFor, Path, WithEmail, WithUser, Operations
<1>3. MemFor(o, "adopt", m) /\ o = "register" => MemFor(o, "link", m)
  BY DEF MemFor, Path, WithEmail, WithUser
<1>4. MemFor(o, "adopt", m) => MemFor(o, "issue", m)
  BY DEF MemFor, Path, WithEmail, WithUser, Operations
<1>5. MemFor(o, "clear", m) /\ o = "reset" => MemFor(o, "mark", m)
  BY DEF MemFor, Path, WithEmail, WithUser
<1>6. MemFor(o, "clear", m) => MemFor(o, "issue", m)
  BY DEF MemFor, Path, WithEmail, WithUser, Operations
<1>7. MemFor(o, "current", m) /\ o = "change" => MemFor(o, "update", m)
  BY DEF MemFor, Path, WithEmail, WithUser
<1>8. MemFor(o, "current", m) /\ o # "change" => MemFor(o, "delete", m)
  BY DEF MemFor, Path, WithEmail, WithUser, Operations
<1>9. MemFor(o, "revoke", m) /\ o # "change" => MemFor(o, "clear", m)
  BY DEF MemFor, Path, WithEmail, WithUser, Operations
<1>10. MemFor(o, "identity", m) /\ o = "link" => MemFor(o, "tie", m)
  BY DEF MemFor, Path, WithEmail, WithUser
<1>11. MemFor(o, "identity", m) /\ o # "link" => MemFor(o, "account", m)
  BY DEF MemFor, Path, WithEmail, WithUser, Operations
<1>12. MemFor(o, "account", m) => MemFor(o, "known", m)
  BY DEF MemFor, Path, WithEmail, WithUser, Operations
<1>13. MemFor(o, "tie", m) /\ o # "link" => MemFor(o, "issue", m)
  BY DEF MemFor, Path, WithEmail, WithUser, Operations
<1>14. MemFor(o, "list", m) => MemFor(o, "untie", m)
  BY DEF MemFor, Path, WithEmail, WithUser, Operations
<1> QED BY <1>1, <1>2, <1>3, <1>4, <1>5, <1>6, <1>7, <1>8, <1>9, <1>10, <1>11, <1>12, <1>13,
        <1>14

\* A request that goes on with the memory it has.
LEMMA Advances ==
    ASSUME TypeOK, MemInv, NEW r \in Requests, NEW l \in Location, To(r, l), UNCHANGED op,
           MemFor(op[r], l, mem[r])
    PROVE  MemInv' /\ (op \in [Requests -> Operations])'
           /\ (at \in [Requests -> Location])' /\ (mem \in [Requests -> Memory])'
<1>1. Step(r, l, mem[r]) /\ mem[r] \in Memory
  BY DEF To, TypeOK
<1> QED BY <1>1, GoesOn

\* Every request finds in its memory what its next call needs.
LEMMA WorkStep ==
    ASSUME TypeOK, MemInv, FlowsInv, RowsOfTheirAccount, [Next]_vars
    PROVE  (MemInv /\ op \in [Requests -> Operations] /\ at \in [Requests -> Location]
            /\ mem \in [Requests -> Memory])'
<1> DEFINE Kept == /\ MemInv /\ op \in [Requests -> Operations]
                   /\ at \in [Requests -> Location] /\ mem \in [Requests -> Memory]
<1>0. \A r \in Requests :
         /\ op[r] \in Operations /\ at[r] \in Location /\ mem[r] \in Memory
         /\ MemFor(op[r], at[r], mem[r])
  BY DEF TypeOK, MemInv
<1>b. op \in [Requests -> Operations]
  BY DEF TypeOK
<1>a. \A r \in Requests : at[r] # "none" => op[r] # "none"
  BY <1>0 DEF MemFor, Path
<1>1. ASSUME NEW r \in Requests, BeginByEmail(r) PROVE Kept'
  <2>1. PICK e \in Emails : \/ Begin(r, "register", "known", [Blank EXCEPT !.email = e])
                          \/ Begin(r, "login", "check", [Blank EXCEPT !.email = e])
    BY <1>1 DEF BeginByEmail
  <2> DEFINE m == [Blank EXCEPT !.email = e]
  <2>2. m \in Memory /\ m.email = e
    BY MemShape DEF Memory
  <2>3. Begin(r, "register", "known", m) \/ Begin(r, "login", "check", m)
    BY <2>1
  <2> HIDE DEF m
  <2> QED BY <2>2, <2>3, SetsOut DEF MemFor, Path, WithEmail, WithUser, Location, Operations
<1>2. ASSUME NEW r \in Requests, BeginMail(r) PROVE Kept'
  <2>1. PICK e \in Emails, o \in {"resend", "forgot"} :
           Begin(r, o, "look", [Blank EXCEPT !.email = e])
    BY <1>2 DEF BeginMail
  <2> DEFINE m == [Blank EXCEPT !.email = e]
  <2>2. m \in Memory /\ m.email = e
    BY MemShape DEF Memory
  <2>3. Begin(r, o, "look", m)
    BY <2>1
  <2> HIDE DEF m
  <2> QED BY <2>2, <2>3, SetsOut DEF MemFor, Path, WithEmail, WithUser, Location, Operations
<1>3. ASSUME NEW r \in Requests, BeginWithSession(r) PROVE Kept'
  <2>1. PICK t \in Author : /\ sessions[t] # None
                            /\ \/ Begin(r, "logout", "drop", Authenticated(t))
                               \/ Begin(r, "change", "current", Authenticated(t))
                               \/ Begin(r, "close", "current", Authenticated(t))
    BY <1>3 DEF BeginWithSession
  <2> QED BY <2>1, AuthenticatedType, SetsOut DEF MemFor, Path, WithEmail, WithUser, Location,
       Operations
<1>4. ASSUME NEW r \in Requests, BeginInSettings(r) PROVE Kept'
  <2>1. PICK t \in Author : /\ sessions[t] # None
                            /\ \/ Begin(r, "unlink", "list", Authenticated(t))
                               \/ Begin(r, "start", "offer", Authenticated(t))
    BY <1>4 DEF BeginInSettings
  <2> QED BY <2>1, AuthenticatedType, SetsOut DEF MemFor, Path, WithEmail, WithUser, Location,
       Operations
<1>5. ASSUME NEW r \in Requests, BeginVerify(r) PROVE Kept'
  <2>1. PICK k \in Author : Begin(r, "verify", "consume", [Blank EXCEPT !.token = k])
    BY <1>5 DEF BeginVerify, WithLink
  <2> DEFINE m == [Blank EXCEPT !.token = k]
  <2>2. m \in Memory /\ m.token = k
    BY MemShape DEF Memory, Proof
  <2>3. Begin(r, "verify", "consume", m)
    BY <2>1
  <2> HIDE DEF m
  <2> QED BY <2>2, <2>3, SetsOut DEF MemFor, Path, WithEmail, WithUser, Location, Operations
<1>6. ASSUME NEW r \in Requests, BeginReset(r) PROVE Kept'
  <2>1. PICK k \in Author : Begin(r, "reset", "consume", [Blank EXCEPT !.token = k])
    BY <1>6 DEF BeginReset, WithLink
  <2> DEFINE m == [Blank EXCEPT !.token = k]
  <2>2. m \in Memory /\ m.token = k
    BY MemShape DEF Memory, Proof
  <2>3. Begin(r, "reset", "consume", m)
    BY <2>1
  <2> HIDE DEF m
  <2> QED BY <2>2, <2>3, SetsOut DEF MemFor, Path, WithEmail, WithUser, Location, Operations
<1>7. ASSUME NEW r \in Requests, BeginGoogle(r) PROVE Kept'
  BY <1>7, MemShape, SetsOut DEF BeginGoogle, MemFor, Path, WithEmail, WithUser, Location,
     Operations
<1>8. ASSUME NEW r \in Requests, BeginLinking(r) PROVE Kept'
  BY <1>8, Finishes DEF BeginLinking
<1>9. ASSUME NEW r \in Requests, Callback(r) PROVE Kept'
  <2>1. PICK s \in Author, e \in Emails : pending[s] # None /\ Exchanged(r, pending[s], e)
    BY <1>9 DEF Callback
  <2> DEFINE flow == pending[s]
             m == [Blank EXCEPT !.email = e, !.provider = Google, !.user = flow.user,
                                !.born = flow.born]
  <2>2. flow.user \in Ids \cup {None} /\ flow.born \in Proof
        /\ (flow.user # None => flow.born \in Author)
    BY <2>1 DEF TypeOK, FlowsInv
  <2>3. /\ m \in Memory /\ m.email = e /\ m.provider = Google
        /\ m.user = flow.user /\ m.born = flow.born
    BY <2>2, MemShape, ProvidersAssumption DEF Memory
  <2>4. CASE Begin(r, IF flow.user = None THEN "signin" ELSE "link", "identity", m)
    <3> HIDE DEF m
    <3> QED BY <2>2, <2>3, <2>4, ProvidersAssumption, SetsOut
            DEF MemFor, Path, WithEmail, WithUser, Location, Operations
  <2>5. CASE Begin(r, "signin", "done", Blank)
    <3>1. MemFor("signin", "done", Blank)
      BY DEF MemFor, Path, WithEmail, WithUser
    <3> HIDE DEF m
    <3> QED BY <2>5, <3>1, MemShape, SetsOut DEF Location, Operations
  <2> QED BY <2>1, <2>4, <2>5 DEF Exchanged
<1>10. ASSUME NEW r \in Requests, DeviceSignIn(r) PROVE Kept'
  <2>1. PICK e \in Emails, p \in Providers :
           Begin(r, "signin", "identity", [Blank EXCEPT !.email = e, !.provider = p])
    BY <1>10 DEF DeviceSignIn
  <2> DEFINE m == [Blank EXCEPT !.email = e, !.provider = p]
  <2>2. m \in Memory /\ m.email = e /\ m.provider = p
    BY MemShape DEF Memory
  <2> HIDE DEF m
  <2>3. MemFor("signin", "identity", m)
    BY <2>2 DEF MemFor, Path, WithEmail, WithUser
  <2>4. Begin(r, "signin", "identity", m)
    BY <2>1 DEF m
  <2> QED BY <2>2, <2>3, <2>4, SetsOut DEF Location, Operations
<1>11. ASSUME NEW r \in Requests, CheckKnown(r) PROVE Kept'
  <2>1. /\ at[r] = "known" /\ UNCHANGED op /\ op[r] \in Operations
        /\ MemFor(op[r], "known", mem[r])
    BY <1>11, <1>0 DEF CheckKnown, Stay
  <2>2. CASE To(r, "count")
    BY <2>1, <2>2, Routes, Advances DEF Location
  <2>3. CASE To(r, "done")
    BY <2>1, <2>3, Finishes
  <2> QED BY <1>11, <2>1, <2>2, <2>3 DEF CheckKnown
<1>12. ASSUME NEW r \in Requests, CountUsers(r) PROVE Kept'
  <2> DEFINE m == [mem[r] EXCEPT !.first = Account = {}]
  <2>1. m \in Memory /\ m.email = mem[r].email /\ m.provider = mem[r].provider
    BY <1>0 DEF Memory
  <2> HIDE DEF m
  <2>2. Step(r, "create", m) /\ UNCHANGED op /\ at[r] = "count"
    BY <1>12 DEF CountUsers, m
  <2>3. MemFor(op[r], "create", m)
    BY <2>1, <2>2, <1>0 DEF MemFor, Path, WithEmail, WithUser, Operations
  <2> QED BY <2>1, <2>2, <2>3, GoesOn DEF Location
<1>13. ASSUME NEW r \in Requests, CreateUser(r) PROVE Kept'
  <2>1. CASE ByEmail(mem[r].email) = {}
    <3>1. PICK i \in Ids : Step(r, "seed", [mem[r] EXCEPT !.user = i, !.born = r,
                                                         !.proof = NewUser(r).password])
      BY <1>13, <2>1 DEF CreateUser
    <3> DEFINE m == [mem[r] EXCEPT !.user = i, !.born = r, !.proof = NewUser(r).password]
    <3>2. NewUser(r).password \in Proof
      BY DEF NewUser, Proof, Author
    <3>3. /\ m \in Memory /\ m.email = mem[r].email /\ m.provider = mem[r].provider
          /\ m.user = i /\ m.born = r
      BY <3>2, <1>0 DEF Memory, Proof, Author
    <3> HIDE DEF m
    <3>4. Step(r, "seed", m) /\ UNCHANGED op /\ at[r] = "create"
      BY <1>13, <3>1 DEF CreateUser, Stay, m
    <3>5. MemFor(op[r], "seed", m)
      BY <3>3, <3>4, <1>0 DEF MemFor, Path, WithEmail, WithUser, Operations, Author
    <3> QED BY <3>3, <3>4, <3>5, GoesOn DEF Location
  <2>2. CASE ByEmail(mem[r].email) # {}
    BY <1>13, <2>2, Finishes DEF CreateUser, Stay
  <2> QED BY <2>1, <2>2
<1>14. ASSUME NEW r \in Requests, SeedIdentity(r) PROVE Kept'
  <2>1. at[r] = "seed" /\ UNCHANGED op /\ op[r] \in {"register", "signin"}
    BY <1>14, <1>0 DEF SeedIdentity, MemFor, Path, Operations
  <2>2. PICK l \in {"done", "adopt", "link", "issue"} :
           Step(r, l, mem[r]) /\ (op[r] = "signin" => l # "link")
    BY <1>14 DEF SeedIdentity, To, AfterSignUp
  <2>3. MemFor(op[r], l, mem[r])
    BY <2>1, <2>2, <1>0 DEF MemFor, Path, WithEmail, WithUser
  <2> QED BY <2>1, <2>2, <2>3, <1>0, GoesOn DEF Location
<1>15. ASSUME NEW r \in Requests, AdoptOrphans(r) PROVE Kept'
  <2>1. /\ at[r] = "adopt" /\ UNCHANGED op /\ op[r] \in Operations
        /\ MemFor(op[r], "adopt", mem[r])
    BY <1>15, <1>0 DEF AdoptOrphans, Stay
  <2>2. CASE op[r] = "register" /\ To(r, "link")
    BY <2>1, <2>2, Routes, Advances DEF Location
  <2>3. CASE To(r, "issue")
    BY <2>1, <2>3, Routes, Advances DEF Location
  <2> QED BY <1>15, <2>1, <2>2, <2>3 DEF AdoptOrphans, AfterSignUp
<1>16. ASSUME NEW r \in Requests, IssueSession(r) PROVE Kept'
  BY <1>16, Finishes DEF IssueSession, Stay
<1>17. ASSUME NEW r \in Requests, CreateLink(r) PROVE Kept'
  BY <1>17, Finishes DEF CreateLink, Stay
<1>18. ASSUME NEW r \in Requests, DropSession(r) PROVE Kept'
  BY <1>18, Finishes DEF DropSession, Stay
<1>19. ASSUME NEW r \in Requests, CheckLockout(r) PROVE Kept'
  <2>1. /\ at[r] = "check" /\ UNCHANGED op /\ op[r] \in Operations
        /\ MemFor(op[r], "check", mem[r])
    BY <1>19, <1>0 DEF CheckLockout, Stay
  <2>2. CASE To(r, "look")
    BY <2>1, <2>2, Routes, Advances DEF Location
  <2>3. CASE To(r, "done")
    BY <2>1, <2>3, Finishes
  <2> QED BY <1>19, <2>1, <2>2, <2>3 DEF CheckLockout
<1>20. ASSUME NEW r \in Requests, TryPassword(r) PROVE Kept'
  <2>1. at[r] = "look" /\ UNCHANGED op /\ op[r] = "login" /\ MemFor(op[r], "look", mem[r])
    BY <1>20, <1>0 DEF TryPassword, Stay
  <2>2. ASSUME NEW i \in ByEmail(mem[r].email), Step(r, "clear", Found(mem[r], i)) PROVE Kept'
    <3> DEFINE m == Found(mem[r], i)
    <3>1. /\ m \in Memory /\ m.user = i /\ m.born = users[i].born /\ m.email = users[i].email
          /\ i \in Ids /\ users[i].born \in Author /\ users[i].email \in Emails
      BY <1>0, EmailsAccounts, FoundType, AccountType
    <3> HIDE DEF m
    <3>2. MemFor("login", "clear", m)
      BY <3>1 DEF MemFor, Path, WithEmail, WithUser
    <3>3. Step(r, "clear", m)
      BY <2>2 DEF m
    <3> QED BY <2>1, <3>1, <3>2, <3>3, GoesOn DEF Location
  <2>3. CASE To(r, "done")
    BY <2>1, <2>3, Finishes
  <2>4. CASE To(r, "failures")
    <3>1. MemFor(op[r], "failures", mem[r])
      BY <2>1 DEF MemFor, Path, WithEmail, WithUser
    <3> QED BY <2>1, <2>4, <3>1, Advances DEF Location
  <2> QED BY <1>20, <2>2, <2>3, <2>4 DEF TryPassword
<1>21. ASSUME NEW r \in Requests, ResendVerification(r) PROVE Kept'
  <2>1. at[r] = "look" /\ UNCHANGED op /\ op[r] = "resend"
    BY <1>21 DEF ResendVerification, Mailed, Stay
  <2>2. ASSUME NEW i \in ByEmail(mem[r].email), Step(r, "link", Found(mem[r], i)) PROVE Kept'
    <3> DEFINE m == Found(mem[r], i)
    <3>1. /\ m \in Memory /\ m.user = i /\ m.born = users[i].born /\ m.email = users[i].email
          /\ i \in Ids /\ users[i].born \in Author /\ users[i].email \in Emails
      BY <1>0, EmailsAccounts, FoundType, AccountType
    <3> HIDE DEF m
    <3>2. MemFor("resend", "link", m)
      BY <3>1 DEF MemFor, Path, WithEmail, WithUser
    <3>3. Step(r, "link", m)
      BY <2>2 DEF m
    <3> QED BY <2>1, <3>1, <3>2, <3>3, GoesOn DEF Location
  <2>3. CASE To(r, "done")
    BY <2>1, <2>3, Finishes
  <2> QED BY <1>21, <2>2, <2>3 DEF ResendVerification, Mailed
<1>22. ASSUME NEW r \in Requests, RequestReset(r) PROVE Kept'
  <2>1. at[r] = "look" /\ UNCHANGED op /\ op[r] = "forgot"
    BY <1>22 DEF RequestReset, Mailed, Stay
  <2>2. ASSUME NEW i \in ByEmail(mem[r].email), Step(r, "link", Found(mem[r], i)) PROVE Kept'
    <3> DEFINE m == Found(mem[r], i)
    <3>1. /\ m \in Memory /\ m.user = i /\ m.born = users[i].born /\ m.email = users[i].email
          /\ i \in Ids /\ users[i].born \in Author /\ users[i].email \in Emails
      BY <1>0, EmailsAccounts, FoundType, AccountType
    <3> HIDE DEF m
    <3>2. MemFor("forgot", "link", m)
      BY <3>1 DEF MemFor, Path, WithEmail, WithUser
    <3>3. Step(r, "link", m)
      BY <2>2 DEF m
    <3> QED BY <2>1, <3>1, <3>2, <3>3, GoesOn DEF Location
  <2>3. CASE To(r, "done")
    BY <2>1, <2>3, Finishes
  <2> QED BY <1>22, <2>2, <2>3 DEF RequestReset, Mailed
<1>23. ASSUME NEW r \in Requests, ReadFailures(r) PROVE Kept'
  <2> DEFINE m == [mem[r] EXCEPT !.read = failures[mem[r].email]]
  <2>1. at[r] = "failures" /\ mem[r].email \in Emails
    BY <1>23, <1>0 DEF ReadFailures, MemFor, WithEmail
  <2>2. failures[mem[r].email] \in Failures
    BY <2>1 DEF TypeOK
  <2>3. m \in Memory /\ m.email = mem[r].email /\ m.provider = mem[r].provider
        /\ m.read \in Failures
    BY <2>2, <1>0 DEF Memory
  <2> HIDE DEF m
  <2>4. Step(r, "record", m) /\ UNCHANGED op
    BY <1>23 DEF ReadFailures, Stay, m
  <2>5. MemFor(op[r], "record", m)
    BY <2>1, <2>3, <1>0 DEF MemFor, Path, WithEmail, WithUser, Operations
  <2> QED BY <2>1, <2>3, <2>4, <2>5, GoesOn DEF Location
<1>24. ASSUME NEW r \in Requests, RecordFailure(r) PROVE Kept'
  BY <1>24, Finishes DEF RecordFailure, Recorded
<1>25. ASSUME NEW r \in Requests, ClearFailures(r) PROVE Kept'
  <2>1. /\ at[r] = "clear" /\ UNCHANGED op /\ op[r] \in Operations
        /\ MemFor(op[r], "clear", mem[r])
    BY <1>25, <1>0 DEF ClearFailures, Stay
  <2>2. CASE op[r] = "reset" /\ To(r, "mark")
    BY <2>1, <2>2, Routes, Advances DEF Location
  <2>3. CASE To(r, "issue")
    BY <2>1, <2>3, Routes, Advances DEF Location
  <2> QED BY <1>25, <2>1, <2>2, <2>3 DEF ClearFailures
<1>26. ASSUME NEW r \in Requests, VerifyCurrent(r) PROVE Kept'
  <2>1. /\ at[r] = "current" /\ UNCHANGED op /\ op[r] \in Operations
        /\ MemFor(op[r], "current", mem[r])
    BY <1>26, <1>0 DEF VerifyCurrent, Stay
  <2>2. CASE op[r] = "change" /\ To(r, "update")
    BY <2>1, <2>2, Routes, Advances DEF Location
  <2>3. CASE op[r] # "change" /\ To(r, "delete")
    BY <2>1, <2>3, Routes, Advances DEF Location
  <2>4. CASE To(r, "done")
    BY <2>1, <2>4, Finishes
  <2> QED BY <1>26, <2>1, <2>2, <2>3, <2>4 DEF VerifyCurrent
<1>27. ASSUME NEW r \in Requests, ConsumeLink(r) PROVE Kept'
  <2> DEFINE k == mem[r].token
             m == [mem[r] EXCEPT !.user = links[k].user, !.born = links[k].born]
  <2>1. at[r] = "consume" /\ k \in Author /\ op[r] \in {"verify", "reset"} /\ UNCHANGED op
    BY <1>27, <1>0 DEF ConsumeLink, MemFor, Path, Operations
  <2>2. CASE links[k] = None \/ links[k].used
    BY <1>27, <2>1, <2>2, <1>0, GoesOn DEF ConsumeLink, To, MemFor, Path, Location
  <2>3. CASE ~(links[k] = None \/ links[k].used)
    <3>1. links[k] \in Link
      BY <2>1, <2>3 DEF TypeOK
    <3>2. links[k].user \in Ids /\ links[k].born \in Author
      BY <3>1 DEF Link
    <3>3. m \in Memory /\ m.user = links[k].user /\ m.born = links[k].born
      BY <3>2, <1>0 DEF Memory, Proof
    <3>4. Step(r, IF op[r] = "verify" THEN "mark" ELSE "find", m)
      BY <1>27, <2>3 DEF ConsumeLink
    <3> HIDE DEF m, k
    <3>5. CASE op[r] = "verify"
      BY <3>2, <3>3, <3>4, <3>5, <2>1, GoesOn DEF MemFor, Path, WithEmail, WithUser, Location
    <3>6. CASE op[r] = "reset"
      BY <3>2, <3>3, <3>4, <3>6, <2>1, GoesOn DEF MemFor, Path, WithEmail, WithUser, Location
    <3> QED BY <3>5, <3>6, <2>1
  <2> QED BY <2>2, <2>3
<1>28. ASSUME NEW r \in Requests, FindAccount(r) PROVE Kept'
  <2> DEFINE i == mem[r].user
             m == [mem[r] EXCEPT !.email = users[i].email, !.first = ~users[i].verified]
  <2>1. CASE i \in Account /\ Step(r, "update", m)
    <3>1. users[i].email \in Emails
      BY <2>1, AccountType
    <3>2. m \in Memory /\ m.email \in Emails /\ m.user = i /\ m.born = mem[r].born
      BY <3>1, <1>0 DEF Memory
    <3>3. Step(r, "update", m) /\ UNCHANGED op /\ at[r] = "find"
      BY <1>28, <2>1 DEF FindAccount
    <3> HIDE DEF m
    <3>4. MemFor(op[r], "update", m)
      BY <3>2, <3>3, <1>0 DEF MemFor, Path, WithEmail, WithUser, Operations
    <3> QED BY <3>2, <3>3, <3>4, GoesOn DEF Location
  <2>2. CASE To(r, "done")
    BY <1>28, <2>2, Finishes DEF FindAccount
  <2> QED BY <1>28, <2>1, <2>2 DEF FindAccount
<1>29. ASSUME NEW r \in Requests, UpdatePassword(r) PROVE Kept'
  <2> DEFINE m == [mem[r] EXCEPT !.proof = r]
  <2>1. m \in Memory /\ m.email = mem[r].email /\ m.user = mem[r].user /\ m.born = mem[r].born
    BY <1>0 DEF Memory, Proof, Author
  <2>2. (Step(r, "revoke", m) \/ To(r, "done")) /\ UNCHANGED op /\ at[r] = "update"
    BY <1>29 DEF UpdatePassword
  <2> HIDE DEF m
  <2>3. CASE Step(r, "revoke", m)
    <3>1. MemFor(op[r], "revoke", m)
      BY <2>1, <2>2, <1>0 DEF MemFor, Path, WithEmail, WithUser, Operations
    <3> QED BY <2>1, <2>2, <2>3, <3>1, GoesOn DEF Location
  <2>4. CASE To(r, "done")
    BY <2>2, <2>4, Finishes
  <2> QED BY <2>2, <2>3, <2>4
<1>30. ASSUME NEW r \in Requests, RevokeSessions(r) PROVE Kept'
  <2>1. /\ at[r] = "revoke" /\ UNCHANGED op /\ op[r] \in Operations
        /\ MemFor(op[r], "revoke", mem[r])
    BY <1>30, <1>0 DEF RevokeSessions, Revoked, Stay
  <2>2. CASE op[r] # "change" /\ To(r, "clear")
    BY <2>1, <2>2, Routes, Advances DEF Location
  <2>3. CASE To(r, "done")
    BY <2>1, <2>3, Finishes
  <2> QED BY <1>30, <2>2, <2>3 DEF RevokeSessions, Revoked
<1>31. ASSUME NEW r \in Requests, MarkVerified(r) PROVE Kept'
  <2> DEFINE i == mem[r].user
             m == IF op[r] = "verify" /\ i \in Account
                  THEN [mem[r] EXCEPT !.proof = users[i].password] ELSE mem[r]
  <2>1. m \in Memory /\ m.user = mem[r].user /\ m.born = mem[r].born
    BY <1>0, AccountType DEF Memory
  <2>2. Step(r, "issue", m) /\ UNCHANGED op /\ at[r] = "mark"
    BY <1>31 DEF MarkVerified, Stay
  <2> HIDE DEF m
  <2>3. MemFor(op[r], "issue", m)
    BY <2>1, <2>2, <1>0 DEF MemFor, Path, WithEmail, WithUser, Operations
  <2> QED BY <2>1, <2>2, <2>3, GoesOn DEF Location
<1>32. ASSUME NEW r \in Requests, CloseAccount(r) PROVE Kept'
  BY <1>32, Finishes DEF CloseAccount, Closed, Stay
<1>33. ASSUME NEW r \in Requests, FindIdentity(r) PROVE Kept'
  <2> DEFINE i == Owner(mem[r].provider, mem[r].email)
  <2>1. /\ at[r] = "identity" /\ UNCHANGED op /\ op[r] \in Operations
        /\ MemFor(op[r], "identity", mem[r])
    BY <1>33, <1>0 DEF FindIdentity, Stay
  <2>2. CASE op[r] = "link" \/ i = None
    <3> HIDE DEF i
    <3>1. CASE op[r] = "link" /\ To(r, "tie")
      BY <2>1, <3>1, Routes, Advances DEF Location
    <3>2. CASE To(r, "done")
      BY <2>1, <3>2, Finishes
    <3>3. CASE op[r] # "link" /\ To(r, "account")
      BY <2>1, <3>3, Routes, Advances DEF Location
    <3> QED BY <1>33, <2>2, <3>1, <3>2, <3>3 DEF FindIdentity, i
  <2>3. CASE op[r] # "link" /\ i # None
    <3>1. i \in Account
      BY <2>1, <2>3, <1>0, OwnerType, MemShape DEF MemFor, WithEmail
    <3> DEFINE f == Found(mem[r], i)
               m == [f EXCEPT !.email = mem[r].email]
    <3>2. /\ f \in Memory /\ f.user = i /\ f.born \in Author
          /\ f.provider = mem[r].provider /\ i \in Ids
      BY <3>1, <1>0, FoundType, AccountType
    <3>3. Step(r, "issue", m)
      BY <1>33, <2>3 DEF FindIdentity
    <3> HIDE DEF f
    <3>4. m \in Memory /\ m.user = i /\ m.born \in Author /\ m.provider = mem[r].provider
      BY <3>2, <1>0, MemShape DEF Memory
    <3> HIDE DEF m, i
    <3>5. MemFor(op[r], "issue", m)
      BY <2>1, <2>3, <3>2, <3>4 DEF MemFor, Path, WithEmail, WithUser, Operations
    <3> QED BY <2>1, <3>3, <3>4, <3>5, GoesOn DEF Location
  <2> QED BY <2>2, <2>3
<1>34. ASSUME NEW r \in Requests, FindByEmail(r) PROVE Kept'
  <2>1. /\ at[r] = "account" /\ UNCHANGED op /\ op[r] \in Operations
        /\ MemFor(op[r], "account", mem[r])
    BY <1>34, <1>0 DEF FindByEmail, Stay
  <2>2. CASE To(r, "known")
    BY <2>1, <2>2, Routes, Advances DEF Location
  <2>3. CASE To(r, "done")
    BY <2>1, <2>3, Finishes
  <2>4. ASSUME NEW i \in ByEmail(mem[r].email), Step(r, "tie", Found(mem[r], i)) PROVE Kept'
    <3> DEFINE m == Found(mem[r], i)
    <3>1. /\ m \in Memory /\ m.user = i /\ m.born = users[i].born /\ m.email = users[i].email
          /\ m.provider = mem[r].provider
          /\ i \in Ids /\ users[i].born \in Author /\ users[i].email \in Emails
      BY <1>0, EmailsAccounts, FoundType, AccountType
    <3> HIDE DEF m
    <3>2. MemFor(op[r], "tie", m)
      BY <2>1, <3>1 DEF MemFor, Path, WithEmail, WithUser, Operations
    <3>3. Step(r, "tie", m)
      BY <2>4 DEF m
    <3> QED BY <2>1, <3>1, <3>2, <3>3, GoesOn DEF Location
  <2> QED BY <1>34, <2>2, <2>3, <2>4 DEF FindByEmail, SignUp
<1>35. ASSUME NEW r \in Requests, TieIdentity(r) PROVE Kept'
  <2>1. /\ at[r] = "tie" /\ UNCHANGED op /\ op[r] \in Operations
        /\ MemFor(op[r], "tie", mem[r])
    BY <1>35, <1>0 DEF TieIdentity, Stay
  <2>2. CASE To(r, "done")
    BY <2>1, <2>2, Finishes
  <2>3. CASE op[r] # "link" /\ To(r, "issue")
    BY <2>1, <2>3, Routes, Advances DEF Location
  <2> QED BY <1>35, <2>2, <2>3 DEF TieIdentity
<1>36. ASSUME NEW r \in Requests, ListIdentities(r) PROVE Kept'
  <2>1. /\ at[r] = "list" /\ UNCHANGED op /\ op[r] \in Operations
        /\ MemFor(op[r], "list", mem[r])
    BY <1>36, <1>0 DEF ListIdentities, Stay
  <2>2. CASE To(r, "untie")
    BY <2>1, <2>2, Routes, Advances DEF Location
  <2>3. CASE To(r, "done")
    BY <2>1, <2>3, Finishes
  <2> QED BY <1>36, <2>2, <2>3 DEF ListIdentities
<1>37. ASSUME NEW r \in Requests, DeleteIdentity(r) PROVE Kept'
  BY <1>37, Finishes DEF DeleteIdentity
<1>38. ASSUME NEW e \in Emails, LockExpires(e) PROVE Kept'
  BY <1>38, <1>0, MemInvStays DEF LockExpires, TypeOK
<1>39. ASSUME NEW e \in Emails, WindowElapses(e) PROVE Kept'
  BY <1>39, <1>0, MemInvStays DEF WindowElapses, TypeOK
<1>40. CASE Restart
  <2>1. \A q \in Requests : at'[q] = (IF q \in Busy THEN "done" ELSE at[q]) /\ mem'[q] = Blank
    BY <1>40 DEF Restart
  <2>2. at' \in [Requests -> Location] /\ mem' \in [Requests -> Memory] /\ op' = op
    BY <1>40, MemShape DEF Restart, TypeOK, Location
  <2>3. \A q \in Requests : MemFor(op'[q], at'[q], mem'[q])
    <3> TAKE q \in Requests
    <3>1. op'[q] \in Operations /\ MemFor(op[q], at[q], mem[q]) /\ op'[q] = op[q] /\ mem'[q] = Blank
      BY <2>1, <2>2, <1>0
    <3>2. (at'[q] = "done" /\ op[q] # "none") \/ (at'[q] = "none" /\ at[q] = "none")
      <4>1. CASE at[q] = "none"
        BY <2>1, <4>1 DEF Busy
      <4>2. CASE at[q] # "none"
        <5>1. op[q] # "none"
          BY <3>1, <4>2 DEF MemFor, Path
        <5>2. at'[q] = "done"
          BY <2>1, <4>2 DEF Busy
        <5> QED BY <5>1, <5>2
      <4> QED BY <4>1, <4>2
    <3> QED BY <3>1, <3>2 DEF MemFor, Path, WithEmail, WithUser, Operations
  <2>4. op' \in [Requests -> Operations]
    BY <2>2, <1>b
  <2> QED BY <2>2, <2>3, <2>4 DEF MemInv
<1>41. CASE UNCHANGED vars
  BY <1>41, MemInvStays DEF TypeOK
<1> QED
  BY <1>1, <1>2, <1>3, <1>4, <1>5, <1>6, <1>7, <1>8, <1>9, <1>10, <1>11,
     <1>12, <1>13, <1>14, <1>15, <1>16, <1>17, <1>18, <1>19, <1>20, <1>21,
     <1>22, <1>23, <1>24, <1>25, <1>26, <1>27, <1>28, <1>29, <1>30, <1>31,
     <1>32, <1>33, <1>34, <1>35, <1>36, <1>37, <1>38, <1>39, <1>40, <1>41
     DEF Next

\* A step that leaves the tables alone.
LEMMA TablesStay ==
    ASSUME Tables, UNCHANGED <<db, pending, hist>>
    PROVE  Tables'
BY DEF Tables

\* The row of a new account.
LEMMA NewUserType ==
    ASSUME NEW r \in Requests, mem[r] \in Memory, mem[r].email \in Emails
    PROVE  NewUser(r) \in User /\ NewUser(r).born = r /\ NewUser(r).email = mem[r].email
<1>1. mem[r].first \in BOOLEAN
  BY MemShape
<1> QED BY <1>1 DEF NewUser, User, Proof, Author

\* The rows of identities after an insertion.
LEMMA InsertIdentityType ==
    ASSUME Tables, NEW r \in Requests, mem[r] \in Memory, mem[r].user \in Ids,
           mem[r].born \in Author, mem[r].email \in Emails, InsertIdentity(r)
    PROVE  identities' \in [(Providers \cup {Password}) \X Emails -> Holder \cup {None}]
<1> DEFINE row == [user |-> mem[r].user, born |-> mem[r].born,
                   late |-> users[mem[r].user].born # mem[r].born]
<1>1. row \in Holder
  BY DEF Holder
<1> HIDE DEF row
<1>2. identities' = [identities EXCEPT ![<<mem[r].provider, mem[r].email>>] = row]
  BY DEF InsertIdentity, row
<1>3. mem[r].provider \in Providers \cup {Password}
  BY MemShape
<1> QED BY <1>1, <1>2, <1>3 DEF Tables

\* The rows of the tables keep their types.
LEMMA TablesStep ==
    ASSUME TypeOK, MemInv, [Next]_vars
    PROVE  Tables'
<1>0. \A r \in Requests : mem[r] \in Memory /\ MemFor(op[r], at[r], mem[r])
  BY DEF TypeOK, MemInv
<1>a. Tables
  BY DEF TypeOK, Tables
<1>1. ASSUME NEW r \in Requests, BeginByEmail(r) PROVE Tables'
  <2>1. UNCHANGED <<db, pending, hist>>
    BY <1>1 DEF BeginByEmail, Stay
  <2> QED BY <2>1, <1>a, TablesStay
<1>2. ASSUME NEW r \in Requests, BeginMail(r) PROVE Tables'
  <2>1. UNCHANGED <<db, pending, hist>>
    BY <1>2 DEF BeginMail, Stay
  <2> QED BY <2>1, <1>a, TablesStay
<1>3. ASSUME NEW r \in Requests, BeginWithSession(r) PROVE Tables'
  <2>1. UNCHANGED <<db, pending, hist>>
    BY <1>3 DEF BeginWithSession, Stay
  <2> QED BY <2>1, <1>a, TablesStay
<1>4. ASSUME NEW r \in Requests, BeginInSettings(r) PROVE Tables'
  <2>1. UNCHANGED <<db, pending, hist>>
    BY <1>4 DEF BeginInSettings, Stay
  <2> QED BY <2>1, <1>a, TablesStay
<1>5. ASSUME NEW r \in Requests, BeginVerify(r) PROVE Tables'
  <2>1. UNCHANGED <<db, pending, hist>>
    BY <1>5 DEF BeginVerify, WithLink, Stay
  <2> QED BY <2>1, <1>a, TablesStay
<1>6. ASSUME NEW r \in Requests, BeginReset(r) PROVE Tables'
  <2>1. UNCHANGED <<db, pending, hist>>
    BY <1>6 DEF BeginReset, WithLink, Stay
  <2> QED BY <2>1, <1>a, TablesStay
<1>7. ASSUME NEW r \in Requests, BeginGoogle(r) PROVE Tables'
  <2>1. pending' \in [Author -> [user : Ids \cup {None}, born : Proof] \cup {None}]
    <3>1. Flow(None, None) \in [user : Ids \cup {None}, born : Proof]
      BY DEF Flow, Proof
    <3>2. r \in Author
      BY DEF Author
    <3> QED BY <1>7, <1>a, <3>1, <3>2 DEF BeginGoogle, Offered, Tables
  <2>9. UNCHANGED <<users, sessions, identities, failures, links, orphans, raced, contested,
                    displaced, applied, paired, leaderless, crashed, redeemed, unwritten>>
    BY <1>7 DEF BeginGoogle, Offered, Stay
  <2> QED BY <2>1, <2>9, <1>a DEF Tables
<1>8. ASSUME NEW r \in Requests, BeginLinking(r) PROVE Tables'
  <2>1. pending' \in [Author -> [user : Ids \cup {None}, born : Proof] \cup {None}]
    <3>1. Flow(mem[r].user, mem[r].born) \in [user : Ids \cup {None}, born : Proof]
      BY <1>0, MemShape DEF Flow, Proof
    <3>2. r \in Author
      BY DEF Author
    <3> QED BY <1>8, <1>a, <3>1, <3>2 DEF BeginLinking, Offered, Tables
  <2>9. UNCHANGED <<users, sessions, identities, failures, links, orphans, raced, contested,
                    displaced, applied, paired, leaderless, crashed, redeemed, unwritten>>
    BY <1>8 DEF BeginLinking, Offered, Stay
  <2> QED BY <2>1, <2>9, <1>a DEF Tables
<1>9. ASSUME NEW r \in Requests, Callback(r) PROVE Tables'
  <2>1. pending' \in [Author -> [user : Ids \cup {None}, born : Proof] \cup {None}]
    BY <1>9, <1>a DEF Callback, Popped, Tables
  <2>9. UNCHANGED <<users, sessions, identities, failures, links, orphans, raced, contested,
                    displaced, applied, paired, leaderless, crashed, redeemed, unwritten>>
    BY <1>9 DEF Callback, Popped, Exchanged, Stay
  <2> QED BY <2>1, <2>9, <1>a DEF Tables
<1>10. ASSUME NEW r \in Requests, DeviceSignIn(r) PROVE Tables'
  <2>1. UNCHANGED <<db, pending, hist>>
    BY <1>10 DEF DeviceSignIn, Stay
  <2> QED BY <2>1, <1>a, TablesStay
<1>11. ASSUME NEW r \in Requests, CheckKnown(r) PROVE Tables'
  <2>1. UNCHANGED <<db, pending, hist>>
    BY <1>11 DEF CheckKnown, Stay
  <2> QED BY <2>1, <1>a, TablesStay
<1>12. ASSUME NEW r \in Requests, CountUsers(r) PROVE Tables'
  <2>1. paired' \in BOOLEAN
    BY <1>12, <1>a DEF CountUsers, Tables
  <2>9. UNCHANGED <<users, sessions, identities, failures, links, orphans, pending, raced,
                    contested, displaced, applied, leaderless, crashed, redeemed, unwritten>>
    BY <1>12 DEF CountUsers, Stay
  <2> QED BY <2>1, <2>9, <1>a DEF Tables
<1>13. ASSUME NEW r \in Requests, CreateUser(r) PROVE Tables'
  <2>1. users' \in [Ids -> User \cup {None}]
    <3>1. mem[r].email \in Emails
      BY <1>13, <1>0 DEF CreateUser, MemFor, WithEmail
    <3>2. NewUser(r) \in User
      BY <3>1, <1>0, NewUserType
    <3>3. CASE ByEmail(mem[r].email) = {}
      <4>1. PICK i \in Ids : users' = [users EXCEPT ![i] = NewUser(r)]
        BY <1>13, <3>3 DEF CreateUser
      <4> QED BY <4>1, <3>2, <1>a DEF Tables
    <3> QED BY <1>13, <3>3, <1>a DEF CreateUser, Tables
  <2>9. UNCHANGED <<sessions, identities, failures, links, orphans, pending, raced, contested,
                    displaced, applied, paired, leaderless, crashed, redeemed, unwritten>>
    BY <1>13 DEF CreateUser, Stay
  <2> QED BY <2>1, <2>9, <1>a DEF Tables
<1>14. ASSUME NEW r \in Requests, SeedIdentity(r) PROVE Tables'
  <2>1. identities' \in [(Providers \cup {Password}) \X Emails -> Holder \cup {None}]
    <3>1. mem[r].email \in Emails /\ mem[r].user \in Ids /\ mem[r].born \in Author
      BY <1>14, <1>0 DEF SeedIdentity, MemFor, WithEmail, WithUser
    <3>2. CASE Insertable(r)
      BY <1>14, <3>1, <3>2, <1>0, <1>a, InsertIdentityType DEF SeedIdentity
    <3>3. CASE ~Insertable(r)
      BY <1>14, <3>3, <1>a DEF SeedIdentity, Tables
    <3> QED BY <3>2, <3>3
  <2>2. contested' \subseteq Requests
    <3>1. CASE Insertable(r)
      BY <1>14, <3>1, <1>a DEF SeedIdentity, Tables
    <3>2. CASE ~Insertable(r)
      BY <1>14, <3>2, <1>a DEF SeedIdentity, Tables
    <3> QED BY <3>1, <3>2
  <2>9. UNCHANGED <<users, sessions, failures, links, orphans, pending, raced, displaced,
                    applied, paired, leaderless, crashed, redeemed, unwritten>>
    BY <1>14 DEF SeedIdentity, AfterSignUp, Stay
  <2> QED BY <2>1, <2>2, <2>9, <1>a DEF Tables
<1>15. ASSUME NEW r \in Requests, AdoptOrphans(r) PROVE Tables'
  <2>1. orphans' \in Proof
    BY <1>15, <1>a, AccountType DEF AdoptOrphans, Tables, Proof
  <2>9. UNCHANGED <<users, sessions, identities, failures, links, pending, raced, contested,
                    displaced, applied, paired, leaderless, crashed, redeemed, unwritten>>
    BY <1>15 DEF AdoptOrphans, AfterSignUp, Stay
  <2> QED BY <2>1, <2>9, <1>a DEF Tables
<1>16. ASSUME NEW r \in Requests, IssueSession(r) PROVE Tables'
  <2>1. sessions' \in [Author -> Session \cup {None}]
    <3> DEFINE row == [user |-> mem[r].user, born |-> mem[r].born, proof |-> mem[r].proof,
                       late |-> \/ users[mem[r].user].born # mem[r].born
                                \/ users[mem[r].user].password # mem[r].proof]
    <3>1. row \in Session
      <4>1. mem[r].user \in Ids /\ mem[r].born \in Author /\ mem[r].proof \in Proof
        BY <1>16, <1>0, MemShape DEF IssueSession, MemFor, WithUser
      <4> QED BY <4>1 DEF Session
    <3> HIDE DEF row
    <3>2. sessions' = [sessions EXCEPT ![r] = row] \/ sessions' = sessions
      BY <1>16 DEF IssueSession, InsertSession, row
    <3> QED BY <3>1, <3>2, <1>a DEF Tables
  <2>9. UNCHANGED <<users, identities, failures, links, orphans, pending, raced, contested,
                    displaced, applied, paired, leaderless, crashed, redeemed, unwritten>>
    BY <1>16 DEF IssueSession, Stay
  <2> QED BY <2>1, <2>9, <1>a DEF Tables
<1>17. ASSUME NEW r \in Requests, CreateLink(r) PROVE Tables'
  <2>1. links' \in [Author -> Link \cup {None}]
    <3> DEFINE row == [user |-> mem[r].user, born |-> users[mem[r].user].born, used |-> FALSE,
                       purpose |-> IF op[r] = "forgot" THEN "password_reset" ELSE "signup"]
    <3>1. CASE mem[r].user \in Account
      <4>1. mem[r].user \in Ids /\ users[mem[r].user].born \in Author
        BY <3>1, AccountType
      <4>2. row \in Link
        BY <4>1 DEF Link
      <4> HIDE DEF row
      <4>3. links' = [links EXCEPT ![r] = row]
        BY <1>17, <3>1 DEF CreateLink, row
      <4> QED BY <4>2, <4>3, <1>a DEF Tables
    <3> QED BY <1>17, <3>1, <1>a DEF CreateLink, Tables
  <2>9. UNCHANGED <<users, sessions, identities, failures, orphans, pending, raced, contested,
                    displaced, applied, paired, leaderless, crashed, redeemed, unwritten>>
    BY <1>17 DEF CreateLink, Stay
  <2> QED BY <2>1, <2>9, <1>a DEF Tables
<1>18. ASSUME NEW r \in Requests, DropSession(r) PROVE Tables'
  <2>1. sessions' \in [Author -> Session \cup {None}]
    BY <1>18, <1>a DEF DropSession, DeleteSession, Tables
  <2>9. UNCHANGED <<users, identities, failures, links, orphans, pending, raced, contested,
                    displaced, applied, paired, leaderless, crashed, redeemed, unwritten>>
    BY <1>18 DEF DropSession, Stay
  <2> QED BY <2>1, <2>9, <1>a DEF Tables
<1>19. ASSUME NEW r \in Requests, CheckLockout(r) PROVE Tables'
  <2>1. UNCHANGED <<db, pending, hist>>
    BY <1>19 DEF CheckLockout, Stay
  <2> QED BY <2>1, <1>a, TablesStay
<1>20. ASSUME NEW r \in Requests, TryPassword(r) PROVE Tables'
  <2>1. UNCHANGED <<db, pending, hist>>
    BY <1>20 DEF TryPassword, Stay
  <2> QED BY <2>1, <1>a, TablesStay
<1>21. ASSUME NEW r \in Requests, ResendVerification(r) PROVE Tables'
  <2>1. UNCHANGED <<db, pending, hist>>
    BY <1>21 DEF ResendVerification, Mailed, Stay
  <2> QED BY <2>1, <1>a, TablesStay
<1>22. ASSUME NEW r \in Requests, RequestReset(r) PROVE Tables'
  <2>1. UNCHANGED <<db, pending, hist>>
    BY <1>22 DEF RequestReset, Mailed, Stay
  <2> QED BY <2>1, <1>a, TablesStay
<1>23. ASSUME NEW r \in Requests, ReadFailures(r) PROVE Tables'
  <2>1. UNCHANGED <<db, pending, hist>>
    BY <1>23 DEF ReadFailures, Stay
  <2> QED BY <2>1, <1>a, TablesStay
<1>24. ASSUME NEW r \in Requests, RecordFailure(r) PROVE Tables'
  <2> DEFINE e == mem[r].email
             row == mem[r].read
             now == failures[e]
             count == IF row.old \/ now.count = 0 THEN 1
                      ELSE IF now.count > MaxFailures THEN now.count ELSE now.count + 1
             new == [count |-> count, old |-> FALSE,
                     lock |-> IF (IF row.old THEN 1 ELSE row.count + 1) >= MaxFailures
                              THEN "live" ELSE "none"]
  <2>1. e \in Emails /\ row \in Failures
    BY <1>24, <1>0 DEF RecordFailure, Recorded, MemFor, WithEmail
  <2>2. now \in Failures
    BY <2>1, <1>a DEF Tables
  <2>3. now.count \in 0 .. MaxFailures + 1
    BY <2>2 DEF Failures
  <2>4. count \in 0 .. MaxFailures + 1
    BY <2>3, MaxFailuresAssumption
  <2>5. new \in Failures
    <3> HIDE DEF count, row
    <3> QED BY <2>4 DEF Failures
  <2>6. failures' = [failures EXCEPT ![e] = new]
        /\ raced' = [raced EXCEPT ![e] = (@ /\ now.count # 0) \/ row # now]
    BY <1>24 DEF RecordFailure, Recorded
  <2>7. failures' \in [Emails -> Failures]
    <3> HIDE DEF new, e
    <3> QED BY <2>1, <2>5, <2>6, <1>a DEF Tables
  <2>8. raced' \in [Emails -> BOOLEAN]
    <3> DEFINE b == (raced[e] /\ now.count # 0) \/ row # now
    <3>1. raced' = [raced EXCEPT ![e] = b] /\ b \in BOOLEAN
      BY <2>6, <2>1, <1>a DEF Tables
    <3> HIDE DEF b, e
    <3> QED BY <3>1, <1>a DEF Tables
  <2>9. UNCHANGED <<users, sessions, identities, links, orphans, pending, contested,
                    displaced, applied, paired, leaderless, crashed, redeemed, unwritten>>
    BY <1>24 DEF RecordFailure, Recorded, Stay
  <2> QED BY <2>7, <2>8, <2>9, <1>a DEF Tables
<1>25. ASSUME NEW r \in Requests, ClearFailures(r) PROVE Tables'
  <2>1. failures' \in [Emails -> Failures]
    <3>1. NoFailures \in Failures
      BY MaxFailuresAssumption DEF NoFailures, Failures
    <3> QED BY <1>25, <1>a, <3>1 DEF ClearFailures, Tables
  <2>9. UNCHANGED <<users, sessions, identities, links, orphans, pending, raced, contested,
                    displaced, applied, paired, leaderless, crashed, redeemed, unwritten>>
    BY <1>25 DEF ClearFailures, Stay
  <2> QED BY <2>1, <2>9, <1>a DEF Tables
<1>26. ASSUME NEW r \in Requests, VerifyCurrent(r) PROVE Tables'
  <2>1. UNCHANGED <<db, pending, hist>>
    BY <1>26 DEF VerifyCurrent, Stay
  <2> QED BY <2>1, <1>a, TablesStay
<1>27. ASSUME NEW r \in Requests, ConsumeLink(r) PROVE Tables'
  <2>1. links' \in [Author -> Link \cup {None}]
    <3> DEFINE k == mem[r].token
    <3>1. CASE links[k] = None \/ links[k].used
      BY <1>27, <1>a, <3>1 DEF ConsumeLink, Tables
    <3>2. CASE ~(links[k] = None \/ links[k].used)
      <4>1. k \in Author
        BY <1>27, <1>0 DEF ConsumeLink, MemFor
      <4>2. links[k] \in Link
        BY <4>1, <3>2, <1>a DEF Tables
      <4>3. [links[k] EXCEPT !.used = TRUE] \in Link
        BY <4>2 DEF Link
      <4>4. links' = [links EXCEPT ![k] = [links[k] EXCEPT !.used = TRUE]]
        BY <1>27, <3>2 DEF ConsumeLink
      <4> QED BY <4>3, <4>4, <1>a DEF Tables
    <3> QED BY <3>1, <3>2
  <2>2. redeemed' \in [Author -> SUBSET Requests]
    <3>1. redeemed' = redeemed \/ redeemed' = [redeemed EXCEPT ![mem[r].token] = @ \cup {r}]
      BY <1>27 DEF ConsumeLink
    <3> QED BY <3>1, <1>a DEF Tables
  <2>9. UNCHANGED <<users, sessions, identities, failures, orphans, pending, raced, contested,
                    displaced, applied, unwritten, paired, leaderless, crashed>>
    BY <1>27 DEF ConsumeLink, Stay
  <2> QED BY <2>1, <2>2, <2>9, <1>a DEF Tables
<1>28. ASSUME NEW r \in Requests, FindAccount(r) PROVE Tables'
  <2>1. unwritten' \subseteq Requests
    BY <1>28, <1>a DEF FindAccount, Tables
  <2>2. UNCHANGED <<users, sessions, identities, failures, links, orphans, pending, raced,
                    contested, displaced, applied, paired, leaderless, crashed, redeemed>>
    BY <1>28 DEF FindAccount, db
  <2> QED BY <2>1, <2>2, <1>a DEF Tables
<1>29. ASSUME NEW r \in Requests, UpdatePassword(r) PROVE Tables'
  <2>1. users' \in [Ids -> User \cup {None}]
    <3> DEFINE i == mem[r].user
    <3>1. CASE i \in Account
      <4>1. users[i] \in User
        BY <3>1, AccountType
      <4>2. [users[i] EXCEPT !.password = r] \in User
        BY <4>1 DEF User, Proof, Author
      <4>3. \/ users' = users
            \/ users' = [users EXCEPT ![i] = [users[i] EXCEPT !.password = r]]
        BY <1>29, <3>1 DEF UpdatePassword
      <4> QED BY <4>2, <4>3, <1>a DEF Tables
    <3>2. CASE i \notin Account
      <4>1. users' = users
        BY <1>29, <3>2 DEF UpdatePassword
      <4> QED BY <4>1, <1>a DEF Tables
    <3> QED BY <3>1, <3>2
  <2>2. applied' \subseteq Requests /\ unwritten' \subseteq Requests
    BY <1>29, <1>a DEF UpdatePassword, Tables
  <2>9. UNCHANGED <<sessions, identities, failures, links, orphans, pending, raced, contested,
                    displaced, paired, leaderless, crashed, redeemed>>
    BY <1>29 DEF UpdatePassword, Stay
  <2> QED BY <2>1, <2>2, <2>9, <1>a DEF Tables
<1>30. ASSUME NEW r \in Requests, RevokeSessions(r) PROVE Tables'
  <2>1. sessions' \in [Author -> Session \cup {None}]
    <3> DEFINE kept == IF op[r] = "change" THEN mem[r].token ELSE None
               f(t) == IF sessions[t] = None \/ sessions[t].user # mem[r].user THEN sessions[t]
                       ELSE IF t = kept
                       THEN [sessions[t] EXCEPT !.proof = IF Current(r) THEN r ELSE @]
                       ELSE None
    <3>1. sessions' = [t \in Author |-> f(t)]
      BY <1>30 DEF RevokeSessions, Revoked
    <3>2. ASSUME NEW t \in Author PROVE f(t) \in Session \cup {None}
      <4>1. sessions[t] \in Session \cup {None}
        BY <1>a DEF Tables
      <4>2. CASE sessions[t] = None
        BY <4>2
      <4>3. CASE sessions[t] \in Session
        <5>1. [sessions[t] EXCEPT !.proof = r] \in Session
          BY <4>3 DEF Session, Proof, Author
        <5>2. sessions[t] = [sessions[t] EXCEPT !.proof = sessions[t].proof]
          BY <4>3 DEF Session
        <5> QED BY <4>3, <5>1, <5>2
      <4> QED BY <4>1, <4>2, <4>3
    <3> QED BY <3>1, <3>2
  <2>9. UNCHANGED <<users, identities, failures, links, orphans, pending, raced, contested,
                    displaced, applied, paired, leaderless, crashed, redeemed, unwritten>>
    BY <1>30 DEF RevokeSessions, Revoked, Stay
  <2> QED BY <2>1, <2>9, <1>a DEF Tables
<1>31. ASSUME NEW r \in Requests, MarkVerified(r) PROVE Tables'
  <2>1. users' \in [Ids -> User \cup {None}]
    <3> DEFINE i == mem[r].user
    <3>1. CASE i \in Account
      <4>1. users[i] \in User
        BY <3>1, AccountType
      <4>2. [users[i] EXCEPT !.verified = TRUE] \in User
        BY <4>1 DEF User
      <4>3. users' = [users EXCEPT ![i] = [users[i] EXCEPT !.verified = TRUE]]
        BY <1>31, <3>1 DEF MarkVerified, MarkUser
      <4> QED BY <4>2, <4>3, <1>a DEF Tables
    <3> QED BY <1>31, <3>1, <1>a DEF MarkVerified, MarkUser, Tables
  <2>9. UNCHANGED <<sessions, identities, failures, links, orphans, pending, raced, contested,
                    displaced, applied, paired, leaderless, crashed, redeemed, unwritten>>
    BY <1>31 DEF MarkVerified, Stay
  <2> QED BY <2>1, <2>9, <1>a DEF Tables
<1>32. ASSUME NEW r \in Requests, CloseAccount(r) PROVE Tables'
  <2> DEFINE i == mem[r].user
  <2>1. CASE i \in Account
    <3>1. users' \in [Ids -> User \cup {None}]
      BY <1>32, <2>1, <1>a DEF CloseAccount, Closed, Tables
    <3>2. sessions' \in [Author -> Session \cup {None}]
      BY <1>32, <2>1, <1>a DEF CloseAccount, Closed, Tables
    <3>3. links' \in [Author -> Link \cup {None}]
      BY <1>32, <2>1, <1>a DEF CloseAccount, Closed, Tables
    <3>4. identities' \in [(Providers \cup {Password}) \X Emails -> Holder \cup {None}]
      BY <1>32, <2>1, <1>a DEF CloseAccount, Closed, Tables
    <3>5. leaderless' \in BOOLEAN
      BY <1>32, <2>1, <1>a DEF CloseAccount, Closed, Tables
    <3>6. UNCHANGED <<failures, orphans, pending, raced, contested, displaced, applied,
                      paired,
                      crashed, redeemed, unwritten>>
      BY <1>32 DEF CloseAccount, Closed
    <3> QED BY <3>1, <3>2, <3>3, <3>4, <3>5, <3>6, <1>a DEF Tables
  <2>2. CASE i \notin Account
    BY <1>32, <2>2, <1>a, TablesStay DEF CloseAccount, Closed
  <2> QED BY <2>1, <2>2
<1>33. ASSUME NEW r \in Requests, FindIdentity(r) PROVE Tables'
  <2>1. UNCHANGED <<db, pending, hist>>
    BY <1>33 DEF FindIdentity, Stay
  <2> QED BY <2>1, <1>a, TablesStay
<1>34. ASSUME NEW r \in Requests, FindByEmail(r) PROVE Tables'
  <2>1. UNCHANGED <<db, pending, hist>>
    BY <1>34 DEF FindByEmail, SignUp, Stay
  <2> QED BY <2>1, <1>a, TablesStay
<1>35. ASSUME NEW r \in Requests, TieIdentity(r) PROVE Tables'
  <2>1. identities' \in [(Providers \cup {Password}) \X Emails -> Holder \cup {None}]
    <3>1. mem[r].email \in Emails /\ mem[r].user \in Ids /\ mem[r].born \in Author
      BY <1>35, <1>0 DEF TieIdentity, MemFor, WithEmail, WithUser
    <3>2. CASE Insertable(r)
      BY <1>35, <3>1, <3>2, <1>0, <1>a, InsertIdentityType DEF TieIdentity
    <3>3. CASE ~Insertable(r)
      BY <1>35, <3>3, <1>a DEF TieIdentity, Tables
    <3> QED BY <3>2, <3>3
  <2>9. UNCHANGED <<users, sessions, failures, links, orphans, pending, raced, contested,
                    displaced, applied, paired, leaderless, crashed, redeemed, unwritten>>
    BY <1>35 DEF TieIdentity, Stay
  <2> QED BY <2>1, <2>9, <1>a DEF Tables
<1>36. ASSUME NEW r \in Requests, ListIdentities(r) PROVE Tables'
  <2>1. UNCHANGED <<db, pending, hist>>
    BY <1>36 DEF ListIdentities, Stay
  <2> QED BY <2>1, <1>a, TablesStay
<1>37. ASSUME NEW r \in Requests, DeleteIdentity(r) PROVE Tables'
  <2>1. identities' \in [(Providers \cup {Password}) \X Emails -> Holder \cup {None}]
    BY <1>37, <1>a DEF DeleteIdentity, Tables
  <2>2. displaced' \subseteq Author
    <3>1. \A i \in Account : users[i].born \in Author
      BY AccountType
    <3> QED BY <1>37, <1>a, <3>1 DEF DeleteIdentity, Tables
  <2>9. UNCHANGED <<users, sessions, failures, links, orphans, pending, raced, contested,
                    applied, paired, leaderless, crashed, redeemed, unwritten>>
    BY <1>37 DEF DeleteIdentity, Stay
  <2> QED BY <2>1, <2>2, <2>9, <1>a DEF Tables
<1>38. ASSUME NEW e \in Emails, LockExpires(e) PROVE Tables'
  <2>1. failures' \in [Emails -> Failures]
    <3>1. failures[e] \in Failures
      BY <1>a DEF Tables
    <3>2. [failures[e] EXCEPT !.lock = "over"] \in Failures
      BY <3>1 DEF Failures
    <3>3. failures' = [failures EXCEPT ![e] = [failures[e] EXCEPT !.lock = "over"]]
      BY <1>38 DEF LockExpires
    <3> QED BY <3>2, <3>3, <1>a DEF Tables
  <2>9. UNCHANGED <<users, sessions, identities, links, orphans, pending, raced, contested,
                    displaced, applied, paired, leaderless, crashed, redeemed, unwritten>>
    BY <1>38 DEF LockExpires, Stay
  <2> QED BY <2>1, <2>9, <1>a DEF Tables
<1>39. ASSUME NEW e \in Emails, WindowElapses(e) PROVE Tables'
  <2>1. failures' \in [Emails -> Failures]
    <3>1. failures[e] \in Failures
      BY <1>a DEF Tables
    <3>2. [failures[e] EXCEPT !.old = TRUE] \in Failures
      BY <3>1 DEF Failures
    <3>3. failures' = [failures EXCEPT ![e] = [failures[e] EXCEPT !.old = TRUE]]
      BY <1>39 DEF WindowElapses
    <3> QED BY <3>2, <3>3, <1>a DEF Tables
  <2>9. UNCHANGED <<users, sessions, identities, links, orphans, pending, raced, contested,
                    displaced, applied, paired, leaderless, crashed, redeemed, unwritten>>
    BY <1>39 DEF WindowElapses, Stay
  <2> QED BY <2>1, <2>9, <1>a DEF Tables
<1>40. CASE Restart
  <2>1. users' \in [Ids -> User \cup {None}]
    <3>1. \A i \in Account : [users[i] EXCEPT !.admin = TRUE] \in User
      <4> TAKE i \in Account
      <4>1. users[i] \in User
        BY AccountType
      <4> QED BY <4>1 DEF User
    <3> QED BY <1>40, <1>a, <3>1 DEF Restart, OldestPromoted, Tables
  <2>2. identities' \in [(Providers \cup {Password}) \X Emails -> Holder \cup {None}]
    <3>1. \A e, i : i \in ByEmail(e) =>
             [user |-> i, born |-> users[i].born, late |-> FALSE] \in Holder
      BY AccountType, EmailsAccounts DEF Holder
    <3>2. \A k \in DOMAIN identities : identities'[k] \in Holder \cup {None}
      <4> TAKE k \in DOMAIN identities
      <4> DEFINE i == CHOOSE j \in ByEmail(k[2]) : TRUE
      <4>1. CASE \A j \in ByEmail(k[2]) : users[j].password = None
        BY <1>40, <4>1, <1>a DEF Restart, PasswordsSeeded, Tables
      <4>2. CASE \E j \in ByEmail(k[2]) : users[j].password # None
        <5>1. i \in ByEmail(k[2])
          BY <4>2
        <5>2. [user |-> i, born |-> users[i].born, late |-> FALSE] \in Holder
          BY <5>1, <3>1
        <5> HIDE DEF i
        <5>3. identities'[k] \in {identities[k],
                                    [user |-> i, born |-> users[i].born, late |-> FALSE]}
          BY <1>40 DEF Restart, PasswordsSeeded, i
        <5> QED BY <5>2, <5>3, <1>a DEF Tables
      <4> QED BY <4>1, <4>2
    <3>3. \E g : identities' = [k \in DOMAIN identities |-> g[k]]
      BY <1>40 DEF Restart, PasswordsSeeded
    <3> QED BY <3>2, <3>3, <1>a DEF Tables
  <2>3. pending' \in [Author -> [user : Ids \cup {None}, born : Proof] \cup {None}]
    BY <1>40 DEF Restart
  <2>4. crashed' \in BOOLEAN
    BY <1>40 DEF Restart
  <2>9. UNCHANGED <<sessions, failures, links, orphans, raced, contested, displaced, applied,
                    unwritten, paired, leaderless, redeemed>>
    BY <1>40 DEF Restart, Stay
  <2> QED BY <2>1, <2>2, <2>3, <2>4, <2>9, <1>a DEF Tables
<1>41. CASE UNCHANGED vars
  BY <1>41, <1>a, TablesStay
<1> QED
  BY <1>1, <1>2, <1>3, <1>4, <1>5, <1>6, <1>7, <1>8, <1>9, <1>10, <1>11,
     <1>12, <1>13, <1>14, <1>15, <1>16, <1>17, <1>18, <1>19, <1>20, <1>21,
     <1>22, <1>23, <1>24, <1>25, <1>26, <1>27, <1>28, <1>29, <1>30, <1>31,
     <1>32, <1>33, <1>34, <1>35, <1>36, <1>37, <1>38, <1>39, <1>40, <1>41
     DEF Next

--------------------------------------------------------------------------------
(* Who writes what                                                              *)

Waits(r) == at'[r] = at[r] /\ mem'[r] = mem[r] /\ op'[r] = op[r]

Begins(r) ==
    /\ op[r] = "none"
    /\ \/ BeginByEmail(r)
       \/ BeginMail(r)
       \/ BeginWithSession(r)
       \/ BeginInSettings(r)
       \/ BeginVerify(r)
       \/ BeginReset(r)
       \/ BeginGoogle(r)
       \/ Callback(r)
       \/ DeviceSignIn(r)

Moves(r) ==
    /\ op'[r] = op[r]
    /\ \/ at[r] = "known" /\ CheckKnown(r)
       \/ at[r] = "count" /\ CountUsers(r)
       \/ at[r] = "create" /\ CreateUser(r)
       \/ at[r] = "seed" /\ SeedIdentity(r)
       \/ at[r] = "adopt" /\ AdoptOrphans(r)
       \/ at[r] = "issue" /\ IssueSession(r)
       \/ at[r] = "link" /\ CreateLink(r)
       \/ at[r] = "drop" /\ DropSession(r)
       \/ at[r] = "check" /\ CheckLockout(r)
       \/ at[r] = "look" /\ TryPassword(r)
       \/ at[r] = "look" /\ ResendVerification(r)
       \/ at[r] = "look" /\ RequestReset(r)
       \/ at[r] = "failures" /\ ReadFailures(r)
       \/ at[r] = "record" /\ RecordFailure(r)
       \/ at[r] = "clear" /\ ClearFailures(r)
       \/ at[r] = "current" /\ VerifyCurrent(r)
       \/ at[r] = "consume" /\ ConsumeLink(r)
       \/ at[r] = "find" /\ FindAccount(r)
       \/ at[r] = "update" /\ UpdatePassword(r)
       \/ at[r] = "revoke" /\ RevokeSessions(r)
       \/ at[r] = "mark" /\ MarkVerified(r)
       \/ at[r] = "delete" /\ CloseAccount(r)
       \/ at[r] = "identity" /\ FindIdentity(r)
       \/ at[r] = "account" /\ FindByEmail(r)
       \/ at[r] = "tie" /\ TieIdentity(r)
       \/ at[r] = "list" /\ ListIdentities(r)
       \/ at[r] = "untie" /\ DeleteIdentity(r)
       \/ at[r] = "offer" /\ BeginLinking(r)

UsersWritten ==
    \/ Restart
    \/ \E r \in Requests : CreateUser(r) \/ UpdatePassword(r) \/ MarkVerified(r) \/ CloseAccount(r)

SessionsWritten ==
    \E r \in Requests : IssueSession(r) \/ DropSession(r) \/ RevokeSessions(r) \/ CloseAccount(r)

IdentitiesWritten ==
    \/ Restart
    \/ \E r \in Requests : SeedIdentity(r) \/ TieIdentity(r) \/ DeleteIdentity(r) \/ CloseAccount(r)

LinksWritten ==
    \E r \in Requests : CreateLink(r) \/ ConsumeLink(r) \/ CloseAccount(r)

PendingWritten ==
    \/ Restart
    \/ \E r \in Requests : BeginGoogle(r) \/ BeginLinking(r) \/ Callback(r)

RedeemedWritten ==
    \E r \in Requests : ConsumeLink(r)

FailuresWritten ==
    \/ \E e \in Emails : LockExpires(e) \/ WindowElapses(e)
    \/ \E r \in Requests : RecordFailure(r) \/ ClearFailures(r)

\* In a step of the system a request waits, begins or answers the call it is at.
LEMMA OneMoves ==
    ASSUME TypeOK, NEW q \in Requests, [Next]_vars
    PROVE  Waits(q) \/ Begins(q) \/ Moves(q) \/ Restart
<1>0. /\ op \in [Requests -> Operations] /\ at \in [Requests -> Location]
      /\ mem \in [Requests -> Memory]
  BY DEF TypeOK
<1>1. ASSUME NEW r \in Requests, BeginByEmail(r)
      PROVE Waits(q) \/ Begins(q) \/ Moves(q) \/ Restart
  <2>1. CASE q # r
    BY <1>1, <2>1, <1>0 DEF Waits, BeginByEmail, Begin, Step, To, Stay
  <2>2. CASE q = r
    BY <1>1, <2>2, <1>0 DEF Begins, BeginByEmail, Begin, Step, To, Stay
  <2> QED BY <2>1, <2>2
<1>2. ASSUME NEW r \in Requests, BeginMail(r)
      PROVE Waits(q) \/ Begins(q) \/ Moves(q) \/ Restart
  <2>1. CASE q # r
    BY <1>2, <2>1, <1>0 DEF Waits, BeginMail, Begin, Step, To, Stay
  <2>2. CASE q = r
    BY <1>2, <2>2, <1>0 DEF Begins, BeginMail, Begin, Step, To, Stay
  <2> QED BY <2>1, <2>2
<1>3. ASSUME NEW r \in Requests, BeginWithSession(r)
      PROVE Waits(q) \/ Begins(q) \/ Moves(q) \/ Restart
  <2>1. CASE q # r
    BY <1>3, <2>1, <1>0 DEF Waits, BeginWithSession, Begin, Step, To, Stay
  <2>2. CASE q = r
    BY <1>3, <2>2, <1>0 DEF Begins, BeginWithSession, Begin, Step, To, Stay
  <2> QED BY <2>1, <2>2
<1>4. ASSUME NEW r \in Requests, BeginInSettings(r)
      PROVE Waits(q) \/ Begins(q) \/ Moves(q) \/ Restart
  <2>1. CASE q # r
    BY <1>4, <2>1, <1>0 DEF Waits, BeginInSettings, Begin, Step, To, Stay
  <2>2. CASE q = r
    BY <1>4, <2>2, <1>0 DEF Begins, BeginInSettings, Begin, Step, To, Stay
  <2> QED BY <2>1, <2>2
<1>5. ASSUME NEW r \in Requests, BeginVerify(r)
      PROVE Waits(q) \/ Begins(q) \/ Moves(q) \/ Restart
  <2>1. CASE q # r
    BY <1>5, <2>1, <1>0 DEF Waits, BeginVerify, WithLink, Begin, Step, To, Stay
  <2>2. CASE q = r
    BY <1>5, <2>2, <1>0 DEF Begins, BeginVerify, WithLink, Begin, Step, To, Stay
  <2> QED BY <2>1, <2>2
<1>6. ASSUME NEW r \in Requests, BeginReset(r)
      PROVE Waits(q) \/ Begins(q) \/ Moves(q) \/ Restart
  <2>1. CASE q # r
    BY <1>6, <2>1, <1>0 DEF Waits, BeginReset, WithLink, Begin, Step, To, Stay
  <2>2. CASE q = r
    BY <1>6, <2>2, <1>0 DEF Begins, BeginReset, WithLink, Begin, Step, To, Stay
  <2> QED BY <2>1, <2>2
<1>7. ASSUME NEW r \in Requests, BeginGoogle(r)
      PROVE Waits(q) \/ Begins(q) \/ Moves(q) \/ Restart
  <2>1. CASE q # r
    BY <1>7, <2>1, <1>0 DEF Waits, BeginGoogle, Offered, Begin, Step, To, Stay
  <2>2. CASE q = r
    BY <1>7, <2>2, <1>0 DEF Begins, BeginGoogle, Offered, Begin, Step, To, Stay
  <2> QED BY <2>1, <2>2
<1>8. ASSUME NEW r \in Requests, BeginLinking(r)
      PROVE Waits(q) \/ Begins(q) \/ Moves(q) \/ Restart
  <2>1. CASE q # r
    BY <1>8, <2>1, <1>0 DEF Waits, BeginLinking, Offered, Step, To, Stay
  <2>2. CASE q = r
    BY <1>8, <2>2, <1>0 DEF Moves, BeginLinking, Offered, Step, To, Stay
  <2> QED BY <2>1, <2>2
<1>9. ASSUME NEW r \in Requests, Callback(r)
      PROVE Waits(q) \/ Begins(q) \/ Moves(q) \/ Restart
  <2>1. CASE q # r
    BY <1>9, <2>1, <1>0 DEF Waits, Callback, Popped, Exchanged, Begin, Step, To, Stay
  <2>2. CASE q = r
    BY <1>9, <2>2, <1>0 DEF Begins, Callback, Popped, Exchanged, Begin, Step, To, Stay
  <2> QED BY <2>1, <2>2
<1>10. ASSUME NEW r \in Requests, DeviceSignIn(r)
       PROVE Waits(q) \/ Begins(q) \/ Moves(q) \/ Restart
  <2>1. CASE q # r
    BY <1>10, <2>1, <1>0 DEF Waits, DeviceSignIn, Begin, Step, To, Stay
  <2>2. CASE q = r
    BY <1>10, <2>2, <1>0 DEF Begins, DeviceSignIn, Begin, Step, To, Stay
  <2> QED BY <2>1, <2>2
<1>11. ASSUME NEW r \in Requests, CheckKnown(r)
       PROVE Waits(q) \/ Begins(q) \/ Moves(q) \/ Restart
  <2>1. CASE q # r
    BY <1>11, <2>1, <1>0 DEF Waits, CheckKnown, Step, To, Stay
  <2>2. CASE q = r
    BY <1>11, <2>2, <1>0 DEF Moves, CheckKnown, Step, To, Stay
  <2> QED BY <2>1, <2>2
<1>12. ASSUME NEW r \in Requests, CountUsers(r)
       PROVE Waits(q) \/ Begins(q) \/ Moves(q) \/ Restart
  <2>1. CASE q # r
    BY <1>12, <2>1, <1>0 DEF Waits, CountUsers, Step, To, Stay
  <2>2. CASE q = r
    BY <1>12, <2>2, <1>0 DEF Moves, CountUsers, Step, To, Stay
  <2> QED BY <2>1, <2>2
<1>13. ASSUME NEW r \in Requests, CreateUser(r)
       PROVE Waits(q) \/ Begins(q) \/ Moves(q) \/ Restart
  <2>1. CASE q # r
    BY <1>13, <2>1, <1>0 DEF Waits, CreateUser, Step, To, Stay
  <2>2. CASE q = r
    BY <1>13, <2>2, <1>0 DEF Moves, CreateUser, Step, To, Stay
  <2> QED BY <2>1, <2>2
<1>14. ASSUME NEW r \in Requests, SeedIdentity(r)
       PROVE Waits(q) \/ Begins(q) \/ Moves(q) \/ Restart
  <2>1. CASE q # r
    BY <1>14, <2>1, <1>0 DEF Waits, SeedIdentity, AfterSignUp, Step, To, Stay
  <2>2. CASE q = r
    BY <1>14, <2>2, <1>0 DEF Moves, SeedIdentity, AfterSignUp, Step, To, Stay
  <2> QED BY <2>1, <2>2
<1>15. ASSUME NEW r \in Requests, AdoptOrphans(r)
       PROVE Waits(q) \/ Begins(q) \/ Moves(q) \/ Restart
  <2>1. CASE q # r
    BY <1>15, <2>1, <1>0 DEF Waits, AdoptOrphans, AfterSignUp, Step, To, Stay
  <2>2. CASE q = r
    BY <1>15, <2>2, <1>0 DEF Moves, AdoptOrphans, AfterSignUp, Step, To, Stay
  <2> QED BY <2>1, <2>2
<1>16. ASSUME NEW r \in Requests, IssueSession(r)
       PROVE Waits(q) \/ Begins(q) \/ Moves(q) \/ Restart
  <2>1. CASE q # r
    BY <1>16, <2>1, <1>0 DEF Waits, IssueSession, Step, To, Stay
  <2>2. CASE q = r
    BY <1>16, <2>2, <1>0 DEF Moves, IssueSession, Step, To, Stay
  <2> QED BY <2>1, <2>2
<1>17. ASSUME NEW r \in Requests, CreateLink(r)
       PROVE Waits(q) \/ Begins(q) \/ Moves(q) \/ Restart
  <2>1. CASE q # r
    BY <1>17, <2>1, <1>0 DEF Waits, CreateLink, Step, To, Stay
  <2>2. CASE q = r
    BY <1>17, <2>2, <1>0 DEF Moves, CreateLink, Step, To, Stay
  <2> QED BY <2>1, <2>2
<1>18. ASSUME NEW r \in Requests, DropSession(r)
       PROVE Waits(q) \/ Begins(q) \/ Moves(q) \/ Restart
  <2>1. CASE q # r
    BY <1>18, <2>1, <1>0 DEF Waits, DropSession, Step, To, Stay
  <2>2. CASE q = r
    BY <1>18, <2>2, <1>0 DEF Moves, DropSession, Step, To, Stay
  <2> QED BY <2>1, <2>2
<1>19. ASSUME NEW r \in Requests, CheckLockout(r)
       PROVE Waits(q) \/ Begins(q) \/ Moves(q) \/ Restart
  <2>1. CASE q # r
    BY <1>19, <2>1, <1>0 DEF Waits, CheckLockout, Step, To, Stay
  <2>2. CASE q = r
    BY <1>19, <2>2, <1>0 DEF Moves, CheckLockout, Step, To, Stay
  <2> QED BY <2>1, <2>2
<1>20. ASSUME NEW r \in Requests, TryPassword(r)
       PROVE Waits(q) \/ Begins(q) \/ Moves(q) \/ Restart
  <2>1. CASE q # r
    BY <1>20, <2>1, <1>0 DEF Waits, TryPassword, Step, To, Stay
  <2>2. CASE q = r
    BY <1>20, <2>2, <1>0 DEF Moves, TryPassword, Step, To, Stay
  <2> QED BY <2>1, <2>2
<1>21. ASSUME NEW r \in Requests, ResendVerification(r)
       PROVE Waits(q) \/ Begins(q) \/ Moves(q) \/ Restart
  <2>1. CASE q # r
    BY <1>21, <2>1, <1>0 DEF Waits, ResendVerification, Mailed, Step, To, Stay
  <2>2. CASE q = r
    BY <1>21, <2>2, <1>0 DEF Moves, ResendVerification, Mailed, Step, To, Stay
  <2> QED BY <2>1, <2>2
<1>22. ASSUME NEW r \in Requests, RequestReset(r)
       PROVE Waits(q) \/ Begins(q) \/ Moves(q) \/ Restart
  <2>1. CASE q # r
    BY <1>22, <2>1, <1>0 DEF Waits, RequestReset, Mailed, Step, To, Stay
  <2>2. CASE q = r
    BY <1>22, <2>2, <1>0 DEF Moves, RequestReset, Mailed, Step, To, Stay
  <2> QED BY <2>1, <2>2
<1>23. ASSUME NEW r \in Requests, ReadFailures(r)
       PROVE Waits(q) \/ Begins(q) \/ Moves(q) \/ Restart
  <2>1. CASE q # r
    BY <1>23, <2>1, <1>0 DEF Waits, ReadFailures, Step, To, Stay
  <2>2. CASE q = r
    BY <1>23, <2>2, <1>0 DEF Moves, ReadFailures, Step, To, Stay
  <2> QED BY <2>1, <2>2
<1>24. ASSUME NEW r \in Requests, RecordFailure(r)
       PROVE Waits(q) \/ Begins(q) \/ Moves(q) \/ Restart
  <2>1. CASE q # r
    BY <1>24, <2>1, <1>0 DEF Waits, RecordFailure, Recorded, Step, To, Stay
  <2>2. CASE q = r
    BY <1>24, <2>2, <1>0 DEF Moves, RecordFailure, Recorded, Step, To, Stay
  <2> QED BY <2>1, <2>2
<1>25. ASSUME NEW r \in Requests, ClearFailures(r)
       PROVE Waits(q) \/ Begins(q) \/ Moves(q) \/ Restart
  <2>1. CASE q # r
    BY <1>25, <2>1, <1>0 DEF Waits, ClearFailures, Step, To, Stay
  <2>2. CASE q = r
    BY <1>25, <2>2, <1>0 DEF Moves, ClearFailures, Step, To, Stay
  <2> QED BY <2>1, <2>2
<1>26. ASSUME NEW r \in Requests, VerifyCurrent(r)
       PROVE Waits(q) \/ Begins(q) \/ Moves(q) \/ Restart
  <2>1. CASE q # r
    BY <1>26, <2>1, <1>0 DEF Waits, VerifyCurrent, Step, To, Stay
  <2>2. CASE q = r
    BY <1>26, <2>2, <1>0 DEF Moves, VerifyCurrent, Step, To, Stay
  <2> QED BY <2>1, <2>2
<1>27. ASSUME NEW r \in Requests, ConsumeLink(r)
       PROVE Waits(q) \/ Begins(q) \/ Moves(q) \/ Restart
  <2>1. CASE q # r
    BY <1>27, <2>1, <1>0 DEF Waits, ConsumeLink, Step, To, Stay
  <2>2. CASE q = r
    BY <1>27, <2>2, <1>0 DEF Moves, ConsumeLink, Step, To, Stay
  <2> QED BY <2>1, <2>2
<1>28. ASSUME NEW r \in Requests, FindAccount(r)
       PROVE Waits(q) \/ Begins(q) \/ Moves(q) \/ Restart
  <2>1. CASE q # r
    BY <1>28, <2>1, <1>0 DEF Waits, FindAccount, Step, To, Stay
  <2>2. CASE q = r
    BY <1>28, <2>2, <1>0 DEF Moves, FindAccount, Step, To, Stay
  <2> QED BY <2>1, <2>2
<1>29. ASSUME NEW r \in Requests, UpdatePassword(r)
       PROVE Waits(q) \/ Begins(q) \/ Moves(q) \/ Restart
  <2>1. CASE q # r
    BY <1>29, <2>1, <1>0 DEF Waits, UpdatePassword, Step, To, Stay
  <2>2. CASE q = r
    BY <1>29, <2>2, <1>0 DEF Moves, UpdatePassword, Step, To, Stay
  <2> QED BY <2>1, <2>2
<1>30. ASSUME NEW r \in Requests, RevokeSessions(r)
       PROVE Waits(q) \/ Begins(q) \/ Moves(q) \/ Restart
  <2>1. CASE q # r
    BY <1>30, <2>1, <1>0 DEF Waits, RevokeSessions, Revoked, Step, To, Stay
  <2>2. CASE q = r
    BY <1>30, <2>2, <1>0 DEF Moves, RevokeSessions, Revoked, Step, To, Stay
  <2> QED BY <2>1, <2>2
<1>31. ASSUME NEW r \in Requests, MarkVerified(r)
       PROVE Waits(q) \/ Begins(q) \/ Moves(q) \/ Restart
  <2>1. CASE q # r
    BY <1>31, <2>1, <1>0 DEF Waits, MarkVerified, Step, To, Stay
  <2>2. CASE q = r
    BY <1>31, <2>2, <1>0 DEF Moves, MarkVerified, Step, To, Stay
  <2> QED BY <2>1, <2>2
<1>32. ASSUME NEW r \in Requests, CloseAccount(r)
       PROVE Waits(q) \/ Begins(q) \/ Moves(q) \/ Restart
  <2>1. CASE q # r
    BY <1>32, <2>1, <1>0 DEF Waits, CloseAccount, Closed, Step, To, Stay
  <2>2. CASE q = r
    BY <1>32, <2>2, <1>0 DEF Moves, CloseAccount, Closed, Step, To, Stay
  <2> QED BY <2>1, <2>2
<1>33. ASSUME NEW r \in Requests, FindIdentity(r)
       PROVE Waits(q) \/ Begins(q) \/ Moves(q) \/ Restart
  <2>1. CASE q # r
    BY <1>33, <2>1, <1>0 DEF Waits, FindIdentity, Step, To, Stay
  <2>2. CASE q = r
    BY <1>33, <2>2, <1>0 DEF Moves, FindIdentity, Step, To, Stay
  <2> QED BY <2>1, <2>2
<1>34. ASSUME NEW r \in Requests, FindByEmail(r)
       PROVE Waits(q) \/ Begins(q) \/ Moves(q) \/ Restart
  <2>1. CASE q # r
    BY <1>34, <2>1, <1>0 DEF Waits, FindByEmail, SignUp, Step, To, Stay
  <2>2. CASE q = r
    BY <1>34, <2>2, <1>0 DEF Moves, FindByEmail, SignUp, Step, To, Stay
  <2> QED BY <2>1, <2>2
<1>35. ASSUME NEW r \in Requests, TieIdentity(r)
       PROVE Waits(q) \/ Begins(q) \/ Moves(q) \/ Restart
  <2>1. CASE q # r
    BY <1>35, <2>1, <1>0 DEF Waits, TieIdentity, Step, To, Stay
  <2>2. CASE q = r
    BY <1>35, <2>2, <1>0 DEF Moves, TieIdentity, Step, To, Stay
  <2> QED BY <2>1, <2>2
<1>36. ASSUME NEW r \in Requests, ListIdentities(r)
       PROVE Waits(q) \/ Begins(q) \/ Moves(q) \/ Restart
  <2>1. CASE q # r
    BY <1>36, <2>1, <1>0 DEF Waits, ListIdentities, Step, To, Stay
  <2>2. CASE q = r
    BY <1>36, <2>2, <1>0 DEF Moves, ListIdentities, Step, To, Stay
  <2> QED BY <2>1, <2>2
<1>37. ASSUME NEW r \in Requests, DeleteIdentity(r)
       PROVE Waits(q) \/ Begins(q) \/ Moves(q) \/ Restart
  <2>1. CASE q # r
    BY <1>37, <2>1, <1>0 DEF Waits, DeleteIdentity, Step, To, Stay
  <2>2. CASE q = r
    BY <1>37, <2>2, <1>0 DEF Moves, DeleteIdentity, Step, To, Stay
  <2> QED BY <2>1, <2>2
<1>38. ASSUME NEW e \in Emails, LockExpires(e)
       PROVE Waits(q) \/ Begins(q) \/ Moves(q) \/ Restart
  BY <1>38 DEF Waits, LockExpires
<1>39. ASSUME NEW e \in Emails, WindowElapses(e)
       PROVE Waits(q) \/ Begins(q) \/ Moves(q) \/ Restart
  BY <1>39 DEF Waits, WindowElapses
<1>40. CASE Restart
  BY <1>40
<1>41. CASE UNCHANGED vars
  BY <1>41 DEF Waits
<1> QED
  BY <1>1, <1>2, <1>3, <1>4, <1>5, <1>6, <1>7, <1>8, <1>9, <1>10, <1>11,
     <1>12, <1>13, <1>14, <1>15, <1>16, <1>17, <1>18, <1>19, <1>20, <1>21,
     <1>22, <1>23, <1>24, <1>25, <1>26, <1>27, <1>28, <1>29, <1>30, <1>31,
     <1>32, <1>33, <1>34, <1>35, <1>36, <1>37, <1>38, <1>39, <1>40, <1>41
     DEF Next

WrittenByWriters ==
    /\ UNCHANGED users \/ UsersWritten
    /\ UNCHANGED sessions \/ SessionsWritten
    /\ UNCHANGED identities \/ IdentitiesWritten
    /\ UNCHANGED links \/ LinksWritten
    /\ UNCHANGED pending \/ PendingWritten
    /\ UNCHANGED redeemed \/ RedeemedWritten
    /\ UNCHANGED <<failures, raced>> \/ FailuresWritten

\* A table changes only in the calls that write it.
LEMMA Writers ==
    ASSUME TypeOK, [Next]_vars
    PROVE  WrittenByWriters
<1>1. ASSUME NEW r \in Requests, BeginByEmail(r) PROVE WrittenByWriters
  BY <1>1 DEF WrittenByWriters, BeginByEmail, Begin, Stay
<1>2. ASSUME NEW r \in Requests, BeginMail(r) PROVE WrittenByWriters
  BY <1>2 DEF WrittenByWriters, BeginMail, Begin, Stay
<1>3. ASSUME NEW r \in Requests, BeginWithSession(r) PROVE WrittenByWriters
  BY <1>3 DEF WrittenByWriters, BeginWithSession, Begin, Stay
<1>4. ASSUME NEW r \in Requests, BeginInSettings(r) PROVE WrittenByWriters
  BY <1>4 DEF WrittenByWriters, BeginInSettings, Begin, Stay
<1>5. ASSUME NEW r \in Requests, BeginVerify(r) PROVE WrittenByWriters
  BY <1>5 DEF WrittenByWriters, BeginVerify, WithLink, Begin, Stay
<1>6. ASSUME NEW r \in Requests, BeginReset(r) PROVE WrittenByWriters
  BY <1>6 DEF WrittenByWriters, BeginReset, WithLink, Begin, Stay
<1>7. ASSUME NEW r \in Requests, BeginGoogle(r) PROVE WrittenByWriters
  <2>1. UNCHANGED <<users, sessions, identities, links, redeemed, failures, raced>>
    BY <1>7 DEF WrittenByWriters, BeginGoogle, Offered, Begin, Stay
  <2> QED BY <1>7, <2>1 DEF WrittenByWriters, PendingWritten
<1>8. ASSUME NEW r \in Requests, BeginLinking(r) PROVE WrittenByWriters
  <2>1. UNCHANGED <<users, sessions, identities, links, redeemed, failures, raced>>
    BY <1>8 DEF WrittenByWriters, BeginLinking, Offered, Stay
  <2> QED BY <1>8, <2>1 DEF WrittenByWriters, PendingWritten
<1>9. ASSUME NEW r \in Requests, Callback(r) PROVE WrittenByWriters
  <2>1. UNCHANGED <<users, sessions, identities, links, redeemed, failures, raced>>
    BY <1>9 DEF WrittenByWriters, Callback, Popped, Exchanged, Begin, Stay
  <2> QED BY <1>9, <2>1 DEF WrittenByWriters, PendingWritten
<1>10. ASSUME NEW r \in Requests, DeviceSignIn(r) PROVE WrittenByWriters
  BY <1>10 DEF WrittenByWriters, DeviceSignIn, Begin, Stay
<1>11. ASSUME NEW r \in Requests, CheckKnown(r) PROVE WrittenByWriters
  BY <1>11 DEF WrittenByWriters, CheckKnown, Stay
<1>12. ASSUME NEW r \in Requests, CountUsers(r) PROVE WrittenByWriters
  BY <1>12 DEF WrittenByWriters, CountUsers, Stay
<1>13. ASSUME NEW r \in Requests, CreateUser(r) PROVE WrittenByWriters
  <2>1. UNCHANGED <<sessions, identities, links, pending, redeemed, failures, raced>>
    BY <1>13 DEF WrittenByWriters, CreateUser, Stay
  <2> QED BY <1>13, <2>1 DEF WrittenByWriters, UsersWritten
<1>14. ASSUME NEW r \in Requests, SeedIdentity(r) PROVE WrittenByWriters
  <2>1. UNCHANGED <<users, sessions, links, pending, redeemed, failures, raced>>
    BY <1>14 DEF WrittenByWriters, SeedIdentity, AfterSignUp, Stay
  <2> QED BY <1>14, <2>1 DEF WrittenByWriters, IdentitiesWritten
<1>15. ASSUME NEW r \in Requests, AdoptOrphans(r) PROVE WrittenByWriters
  BY <1>15 DEF WrittenByWriters, AdoptOrphans, AfterSignUp, Stay
<1>16. ASSUME NEW r \in Requests, IssueSession(r) PROVE WrittenByWriters
  <2>1. UNCHANGED <<users, identities, links, pending, redeemed, failures, raced>>
    BY <1>16 DEF WrittenByWriters, IssueSession, Stay
  <2> QED BY <1>16, <2>1 DEF WrittenByWriters, SessionsWritten
<1>17. ASSUME NEW r \in Requests, CreateLink(r) PROVE WrittenByWriters
  <2>1. UNCHANGED <<users, sessions, identities, pending, redeemed, failures, raced>>
    BY <1>17 DEF WrittenByWriters, CreateLink, Stay
  <2> QED BY <1>17, <2>1 DEF WrittenByWriters, LinksWritten
<1>18. ASSUME NEW r \in Requests, DropSession(r) PROVE WrittenByWriters
  <2>1. UNCHANGED <<users, identities, links, pending, redeemed, failures, raced>>
    BY <1>18 DEF WrittenByWriters, DropSession, Stay
  <2> QED BY <1>18, <2>1 DEF WrittenByWriters, SessionsWritten
<1>19. ASSUME NEW r \in Requests, CheckLockout(r) PROVE WrittenByWriters
  BY <1>19 DEF WrittenByWriters, CheckLockout, Stay
<1>20. ASSUME NEW r \in Requests, TryPassword(r) PROVE WrittenByWriters
  BY <1>20 DEF WrittenByWriters, TryPassword, Stay
<1>21. ASSUME NEW r \in Requests, ResendVerification(r) PROVE WrittenByWriters
  BY <1>21 DEF WrittenByWriters, ResendVerification, Mailed, Stay
<1>22. ASSUME NEW r \in Requests, RequestReset(r) PROVE WrittenByWriters
  BY <1>22 DEF WrittenByWriters, RequestReset, Mailed, Stay
<1>23. ASSUME NEW r \in Requests, ReadFailures(r) PROVE WrittenByWriters
  BY <1>23 DEF WrittenByWriters, ReadFailures, Stay
<1>24. ASSUME NEW r \in Requests, RecordFailure(r) PROVE WrittenByWriters
  <2>1. UNCHANGED <<users, sessions, identities, links, pending, redeemed>>
    BY <1>24 DEF WrittenByWriters, RecordFailure, Recorded, Stay
  <2> QED BY <1>24, <2>1 DEF WrittenByWriters, FailuresWritten
<1>25. ASSUME NEW r \in Requests, ClearFailures(r) PROVE WrittenByWriters
  <2>1. UNCHANGED <<users, sessions, identities, links, pending, redeemed>>
    BY <1>25 DEF WrittenByWriters, ClearFailures, Stay
  <2> QED BY <1>25, <2>1 DEF WrittenByWriters, FailuresWritten
<1>26. ASSUME NEW r \in Requests, VerifyCurrent(r) PROVE WrittenByWriters
  BY <1>26 DEF WrittenByWriters, VerifyCurrent, Stay
<1>27. ASSUME NEW r \in Requests, ConsumeLink(r) PROVE WrittenByWriters
  <2>1. UNCHANGED <<users, sessions, identities, pending, failures, raced>>
    BY <1>27 DEF WrittenByWriters, ConsumeLink, Stay
  <2> QED BY <1>27, <2>1 DEF WrittenByWriters, LinksWritten, RedeemedWritten
<1>28. ASSUME NEW r \in Requests, FindAccount(r) PROVE WrittenByWriters
  BY <1>28 DEF WrittenByWriters, FindAccount, db
<1>29. ASSUME NEW r \in Requests, UpdatePassword(r) PROVE WrittenByWriters
  <2>1. UNCHANGED <<sessions, identities, links, pending, redeemed, failures, raced>>
    BY <1>29 DEF WrittenByWriters, UpdatePassword, Stay
  <2> QED BY <1>29, <2>1 DEF WrittenByWriters, UsersWritten
<1>30. ASSUME NEW r \in Requests, RevokeSessions(r) PROVE WrittenByWriters
  <2>1. UNCHANGED <<users, identities, links, pending, redeemed, failures, raced>>
    BY <1>30 DEF WrittenByWriters, RevokeSessions, Revoked, Stay
  <2> QED BY <1>30, <2>1 DEF WrittenByWriters, SessionsWritten
<1>31. ASSUME NEW r \in Requests, MarkVerified(r) PROVE WrittenByWriters
  <2>1. UNCHANGED <<sessions, identities, links, pending, redeemed, failures, raced>>
    BY <1>31 DEF WrittenByWriters, MarkVerified, Stay
  <2> QED BY <1>31, <2>1 DEF WrittenByWriters, UsersWritten
<1>32. ASSUME NEW r \in Requests, CloseAccount(r) PROVE WrittenByWriters
  <2>1. UNCHANGED <<pending, redeemed, failures, raced>>
    BY <1>32 DEF WrittenByWriters, CloseAccount, Closed, Stay
  <2> QED BY <1>32, <2>1 DEF WrittenByWriters, UsersWritten, SessionsWritten,
       IdentitiesWritten, LinksWritten
<1>33. ASSUME NEW r \in Requests, FindIdentity(r) PROVE WrittenByWriters
  BY <1>33 DEF WrittenByWriters, FindIdentity, Stay
<1>34. ASSUME NEW r \in Requests, FindByEmail(r) PROVE WrittenByWriters
  BY <1>34 DEF WrittenByWriters, FindByEmail, SignUp, Stay
<1>35. ASSUME NEW r \in Requests, TieIdentity(r) PROVE WrittenByWriters
  <2>1. UNCHANGED <<users, sessions, links, pending, redeemed, failures, raced>>
    BY <1>35 DEF WrittenByWriters, TieIdentity, Stay
  <2> QED BY <1>35, <2>1 DEF WrittenByWriters, IdentitiesWritten
<1>36. ASSUME NEW r \in Requests, ListIdentities(r) PROVE WrittenByWriters
  BY <1>36 DEF WrittenByWriters, ListIdentities, Stay
<1>37. ASSUME NEW r \in Requests, DeleteIdentity(r) PROVE WrittenByWriters
  <2>1. UNCHANGED <<users, sessions, links, pending, redeemed, failures, raced>>
    BY <1>37 DEF WrittenByWriters, DeleteIdentity, Stay
  <2> QED BY <1>37, <2>1 DEF WrittenByWriters, IdentitiesWritten
<1>38. ASSUME NEW e \in Emails, LockExpires(e) PROVE WrittenByWriters
  <2>1. UNCHANGED <<users, sessions, identities, links, pending, redeemed>>
    BY <1>38 DEF WrittenByWriters, LockExpires
  <2> QED BY <1>38, <2>1 DEF WrittenByWriters, FailuresWritten
<1>39. ASSUME NEW e \in Emails, WindowElapses(e) PROVE WrittenByWriters
  <2>1. UNCHANGED <<users, sessions, identities, links, pending, redeemed>>
    BY <1>39 DEF WrittenByWriters, WindowElapses
  <2> QED BY <1>39, <2>1 DEF WrittenByWriters, FailuresWritten
<1>40. CASE Restart
  <2>1. UNCHANGED <<sessions, links, redeemed, failures, raced>>
    BY <1>40 DEF WrittenByWriters, Restart
  <2> QED BY <1>40, <2>1 DEF WrittenByWriters, UsersWritten, IdentitiesWritten, PendingWritten
<1>41. CASE UNCHANGED vars
  BY <1>41 DEF WrittenByWriters
<1> QED
  BY <1>1, <1>2, <1>3, <1>4, <1>5, <1>6, <1>7, <1>8, <1>9, <1>10, <1>11,
     <1>12, <1>13, <1>14, <1>15, <1>16, <1>17, <1>18, <1>19, <1>20, <1>21,
     <1>22, <1>23, <1>24, <1>25, <1>26, <1>27, <1>28, <1>29, <1>30, <1>31,
     <1>32, <1>33, <1>34, <1>35, <1>36, <1>37, <1>38, <1>39, <1>40, <1>41
     DEF Next

--------------------------------------------------------------------------------
(* Accounts and their rows                                                      *)

\* The account i is there still; what it was given it keeps.
Kept(i) ==
    /\ i \in Account' /\ users'[i].born = users[i].born
    /\ users[i].admin => users'[i].admin
    /\ users[i].password # None => users'[i].password # None

\* The account i is gone with its rows.
Gone(i) ==
    /\ i \notin Account'
    /\ \A t \in Author : sessions'[t] # None => sessions'[t].user # i
    /\ \A k \in DOMAIN identities' : identities'[k] # None => identities'[k].user # i
    /\ \A k \in Author : links'[k] # None => links'[k].user # i
    /\ users[i].admin => leaderless'

\* The types of the tables.
LEMMA TypeTables == ASSUME TypeOK PROVE Tables
BY DEF TypeOK, Tables

\* Ids of accounts.
LEMMA IdType == ASSUME NEW i \in Account PROVE i \in Ids /\ i # None
BY NoneIsNobody DEF Account

\* A row of an account that exists is not None.
LEMMA RowsAreThere ==
    /\ \A u \in User : u # None
    /\ \A x \in Session : x # None
    /\ \A x \in Holder : x # None
    /\ \A x \in Link : x # None
BY NoneIsNoRow

\* Nothing is undone but by closing the account, and that takes its rows.
LEMMA AccountsKept ==
    ASSUME TypeOK, MemInv, [Next]_vars, NEW i \in Account
    PROVE  Kept(i) \/ Gone(i)
<1>0. /\ i \in Ids /\ users[i] \in User /\ users[i].password \in Proof
      /\ users \in [Ids -> User \cup {None}]
  BY AccountType DEF TypeOK
<1>1. UNCHANGED users \/ UsersWritten
  BY Writers DEF WrittenByWriters
<1>2. CASE UNCHANGED users
  BY <1>2 DEF Kept, Account
<1>3. CASE Restart
  <2>1. users'[i] = users[i] \/ users'[i] = [users[i] EXCEPT !.admin = TRUE]
    BY <1>0, <1>3 DEF Restart, OldestPromoted
  <2>2. [users[i] EXCEPT !.admin = TRUE] \in User
    BY <1>0 DEF User
  <2>3. users'[i] # None
    BY <1>0, <2>1, <2>2, RowsAreThere
  <2>4. /\ users'[i].born = users[i].born /\ users'[i].password = users[i].password
        /\ users[i].admin => users'[i].admin
    BY <1>0, <2>1 DEF User
  <2> QED BY <1>0, <2>3, <2>4 DEF Kept, Account
<1>4. ASSUME NEW r \in Requests, CreateUser(r) PROVE Kept(i)
  <2>1. CASE users' = users
    BY <2>1 DEF Kept, Account
  <2>2. ASSUME NEW j \in Ids, \A n \in Account : n < j, users' = [users EXCEPT ![j] = NewUser(r)]
        PROVE  Kept(i)
    <3>1. i # j
      BY <2>2, <1>0, IdsAssumption
    <3> QED BY <1>0, <2>2, <3>1 DEF Kept, Account
  <2> QED BY <1>4, <2>1, <2>2 DEF CreateUser
<1>5. ASSUME NEW r \in Requests, UpdatePassword(r) PROVE Kept(i)
  <2>1. users'[i] = users[i] \/ users'[i] = [users[i] EXCEPT !.password = r]
    BY <1>0, <1>5 DEF UpdatePassword
  <2>2. [users[i] EXCEPT !.password = r] \in User
    BY <1>0 DEF User, Proof, Author
  <2>3. users'[i] # None /\ r # None
    BY <1>0, <2>1, <2>2, RowsAreThere, NoneIsNobody
  <2>4. /\ users'[i].born = users[i].born /\ users'[i].admin = users[i].admin
        /\ users[i].password # None => users'[i].password # None
    BY <1>0, <2>1, <2>3 DEF User
  <2> QED BY <1>0, <2>3, <2>4 DEF Kept, Account
<1>6. ASSUME NEW r \in Requests, MarkVerified(r) PROVE Kept(i)
  <2>1. users'[i] = users[i] \/ users'[i] = [users[i] EXCEPT !.verified = TRUE]
    BY <1>0, <1>6 DEF MarkVerified, MarkUser
  <2>2. [users[i] EXCEPT !.verified = TRUE] \in User
    BY <1>0 DEF User
  <2>3. users'[i] # None
    BY <1>0, <2>1, <2>2, RowsAreThere
  <2>4. /\ users'[i].born = users[i].born /\ users'[i].admin = users[i].admin
        /\ users'[i].password = users[i].password
    BY <1>0, <2>1 DEF User
  <2> QED BY <1>0, <2>3, <2>4 DEF Kept, Account
<1>7. ASSUME NEW r \in Requests, CloseAccount(r) PROVE Kept(i) \/ Gone(i)
  <2>1. CASE mem[r].user \notin Account
    BY <1>7, <2>1 DEF CloseAccount, Closed, Kept, Account
  <2>2. CASE mem[r].user \in Account /\ mem[r].user # i
    <3>1. users' = [users EXCEPT ![mem[r].user] = None]
      BY <1>7, <2>2 DEF CloseAccount, Closed
    <3> QED BY <1>0, <2>2, <3>1 DEF Kept, Account
  <2>3. CASE mem[r].user = i
    <3>1. users' = [users EXCEPT ![i] = None] /\ (leaderless' = (leaderless \/ users[i].admin))
      BY <1>7, <2>3 DEF CloseAccount, Closed
    <3>2. i \notin Account'
      BY <1>0, <3>1 DEF Account
    <3>3. \A t \in Author : sessions'[t] # None => sessions'[t].user # i
      BY <1>7, <2>3 DEF CloseAccount, Closed
    <3>4. \A k \in Author : links'[k] # None => links'[k].user # i
      BY <1>7, <2>3 DEF CloseAccount, Closed
    <3>5. \A k \in DOMAIN identities' : identities'[k] # None => identities'[k].user # i
      <4>1. identities' = [k \in DOMAIN identities |->
                             IF k \in IdentitiesOf(i) THEN None ELSE identities[k]]
        BY <1>7, <2>3 DEF CloseAccount, Closed
      <4>2. \A k \in DOMAIN identities : k = <<k[1], k[2]>>
        BY DEF TypeOK
      <4>3. \A k \in DOMAIN identities :
               k \notin IdentitiesOf(i) => identities[k] = None \/ identities[k].user # i
        BY <4>2 DEF IdentitiesOf, Owner
      <4> QED BY <4>1, <4>3
    <3> QED BY <3>1, <3>2, <3>3, <3>4, <3>5 DEF Gone
  <2> QED BY <2>1, <2>2, <2>3
<1> QED BY <1>1, <1>2, <1>3, <1>4, <1>5, <1>6, <1>7 DEF UsersWritten

\* What CreateUser does when it creates.
Creates(r, i) ==
    /\ at[r] = "create" /\ at'[r] = "seed" /\ i \in Ids \ Account
    /\ users' = [users EXCEPT ![i] = NewUser(r)] /\ users'[i] = NewUser(r)
    /\ mem'[r].user = i /\ mem'[r].born = r /\ mem'[r].first = mem[r].first
    /\ op' = op /\ UNCHANGED <<sessions, identities, links, hist>>

\* What create_user does to the accounts.
LEMMA CreateUserCreates ==
    ASSUME TypeOK, MemInv, NEW r \in Requests, CreateUser(r)
    PROVE  UNCHANGED users \/ \E i \in Ids : Creates(r, i)
<1>0. /\ at \in [Requests -> Location] /\ mem \in [Requests -> Memory]
      /\ users \in [Ids -> User \cup {None}] /\ Account \subseteq Nat
  BY IdsAssumption DEF TypeOK, Account
<1>1. CASE ByEmail(mem[r].email) = {}
  <2>1. PICK i \in Ids :
          /\ \A n \in Account : n < i
          /\ users' = [users EXCEPT ![i] = NewUser(r)]
          /\ Step(r, "seed", [mem[r] EXCEPT !.user = i, !.born = r, !.proof = NewUser(r).password])
    BY <1>1 DEF CreateUser
  <2>2. i \notin Account
    BY <1>0, <2>1
  <2> DEFINE m == [mem[r] EXCEPT !.user = i, !.born = r, !.proof = NewUser(r).password]
  <2>3. m.user = i /\ m.born = r /\ m.first = mem[r].first
    BY <1>0 DEF Memory
  <2>4. at'[r] = "seed" /\ mem'[r] = m
    BY <1>0, <2>1 DEF Step
  <2>5. users'[i] = NewUser(r)
    BY <1>0, <2>1
  <2>6. at[r] = "create" /\ op' = op /\ UNCHANGED <<sessions, identities, links, hist>>
    BY DEF CreateUser, Stay
  <2> HIDE DEF m
  <2> QED BY <2>1, <2>2, <2>3, <2>4, <2>5, <2>6 DEF Creates
<1>2. CASE ByEmail(mem[r].email) # {}
  BY <1>2 DEF CreateUser
<1> QED BY <1>1, <1>2

\* Only create_user makes an account.
LEMMA AccountsMade ==
    ASSUME TypeOK, MemInv, [Next]_vars, NEW i \in Account'
    PROVE  i \in Account \/ \E r \in Requests : CreateUser(r) /\ Creates(r, i)
<1>0. users \in [Ids -> User \cup {None}] /\ i \in Ids /\ users'[i] # None
  BY DEF TypeOK, Account
<1>1. UNCHANGED users \/ UsersWritten
  BY Writers DEF WrittenByWriters
<1>2. CASE UNCHANGED users
  BY <1>2 DEF Account
<1>3. CASE Restart
  BY <1>0, <1>3 DEF Restart, OldestPromoted, Account
<1>4. ASSUME NEW r \in Requests, CreateUser(r)
      PROVE  i \in Account \/ \E q \in Requests : CreateUser(q) /\ Creates(q, i)
  <2>1. CASE UNCHANGED users
    BY <2>1 DEF Account
  <2>2. ASSUME NEW j \in Ids, Creates(r, j)
        PROVE  i \in Account \/ \E q \in Requests : CreateUser(q) /\ Creates(q, i)
    <3>1. CASE i = j
      BY <1>4, <2>2, <3>1
    <3>2. CASE i # j
      BY <1>0, <2>2, <3>2 DEF Creates, Account
    <3> QED BY <3>1, <3>2
  <2> QED BY <1>4, <2>1, <2>2, CreateUserCreates
<1>5. ASSUME NEW r \in Requests, UpdatePassword(r) PROVE i \in Account
  BY <1>0, <1>5 DEF UpdatePassword, Account
<1>6. ASSUME NEW r \in Requests, MarkVerified(r) PROVE i \in Account
  BY <1>0, <1>6 DEF MarkVerified, MarkUser, Account
<1>7. ASSUME NEW r \in Requests, CloseAccount(r) PROVE i \in Account
  BY <1>0, <1>7 DEF CloseAccount, Closed, Account
<1> QED BY <1>1, <1>2, <1>3, <1>4, <1>5, <1>6, <1>7 DEF UsersWritten

Remembers ==
    /\ crashed => crashed'
    /\ paired => paired'
    /\ leaderless => leaderless'
    /\ contested \subseteq contested' /\ displaced \subseteq displaced'
    /\ applied \subseteq applied' /\ unwritten \subseteq unwritten'

\* What has happened has happened.
LEMMA HistoryGrows ==
    ASSUME TypeOK, [Next]_vars
    PROVE  Remembers
<1>1. ASSUME NEW r \in Requests, BeginByEmail(r) PROVE Remembers
  BY <1>1 DEF BeginByEmail, Stay, Remembers
<1>2. ASSUME NEW r \in Requests, BeginMail(r) PROVE Remembers
  BY <1>2 DEF BeginMail, Stay, Remembers
<1>3. ASSUME NEW r \in Requests, BeginWithSession(r) PROVE Remembers
  BY <1>3 DEF BeginWithSession, Stay, Remembers
<1>4. ASSUME NEW r \in Requests, BeginInSettings(r) PROVE Remembers
  BY <1>4 DEF BeginInSettings, Stay, Remembers
<1>5. ASSUME NEW r \in Requests, BeginVerify(r) PROVE Remembers
  BY <1>5 DEF BeginVerify, WithLink, Stay, Remembers
<1>6. ASSUME NEW r \in Requests, BeginReset(r) PROVE Remembers
  BY <1>6 DEF BeginReset, WithLink, Stay, Remembers
<1>7. ASSUME NEW r \in Requests, BeginGoogle(r) PROVE Remembers
  BY <1>7 DEF BeginGoogle, Offered, Stay, Remembers
<1>8. ASSUME NEW r \in Requests, BeginLinking(r) PROVE Remembers
  BY <1>8 DEF BeginLinking, Offered, Stay, Remembers
<1>9. ASSUME NEW r \in Requests, Callback(r) PROVE Remembers
  BY <1>9 DEF Callback, Popped, Exchanged, Stay, Remembers
<1>10. ASSUME NEW r \in Requests, DeviceSignIn(r) PROVE Remembers
  BY <1>10 DEF DeviceSignIn, Stay, Remembers
<1>11. ASSUME NEW r \in Requests, CheckKnown(r) PROVE Remembers
  BY <1>11 DEF CheckKnown, Stay, Remembers
<1>12. ASSUME NEW r \in Requests, CountUsers(r) PROVE Remembers
  BY <1>12 DEF CountUsers, Stay, Remembers
<1>13. ASSUME NEW r \in Requests, CreateUser(r) PROVE Remembers
  BY <1>13 DEF CreateUser, Stay, Remembers
<1>14. ASSUME NEW r \in Requests, SeedIdentity(r) PROVE Remembers
  BY <1>14 DEF SeedIdentity, AfterSignUp, Stay, Remembers
<1>15. ASSUME NEW r \in Requests, AdoptOrphans(r) PROVE Remembers
  BY <1>15 DEF AdoptOrphans, AfterSignUp, Stay, Remembers
<1>16. ASSUME NEW r \in Requests, IssueSession(r) PROVE Remembers
  BY <1>16 DEF IssueSession, Stay, Remembers
<1>17. ASSUME NEW r \in Requests, CreateLink(r) PROVE Remembers
  BY <1>17 DEF CreateLink, Stay, Remembers
<1>18. ASSUME NEW r \in Requests, DropSession(r) PROVE Remembers
  BY <1>18 DEF DropSession, Stay, Remembers
<1>19. ASSUME NEW r \in Requests, CheckLockout(r) PROVE Remembers
  BY <1>19 DEF CheckLockout, Stay, Remembers
<1>20. ASSUME NEW r \in Requests, TryPassword(r) PROVE Remembers
  BY <1>20 DEF TryPassword, Stay, Remembers
<1>21. ASSUME NEW r \in Requests, ResendVerification(r) PROVE Remembers
  BY <1>21 DEF ResendVerification, Mailed, Stay, Remembers
<1>22. ASSUME NEW r \in Requests, RequestReset(r) PROVE Remembers
  BY <1>22 DEF RequestReset, Mailed, Stay, Remembers
<1>23. ASSUME NEW r \in Requests, ReadFailures(r) PROVE Remembers
  BY <1>23 DEF ReadFailures, Stay, Remembers
<1>24. ASSUME NEW r \in Requests, RecordFailure(r) PROVE Remembers
  BY <1>24 DEF RecordFailure, Recorded, Stay, Remembers
<1>25. ASSUME NEW r \in Requests, ClearFailures(r) PROVE Remembers
  BY <1>25 DEF ClearFailures, Stay, Remembers
<1>26. ASSUME NEW r \in Requests, VerifyCurrent(r) PROVE Remembers
  BY <1>26 DEF VerifyCurrent, Stay, Remembers
<1>27. ASSUME NEW r \in Requests, ConsumeLink(r) PROVE Remembers
  BY <1>27 DEF ConsumeLink, Stay, Remembers
<1>28. ASSUME NEW r \in Requests, FindAccount(r) PROVE Remembers
  BY <1>28 DEF FindAccount, Remembers
<1>29. ASSUME NEW r \in Requests, UpdatePassword(r) PROVE Remembers
  BY <1>29 DEF UpdatePassword, Stay, Remembers
<1>30. ASSUME NEW r \in Requests, RevokeSessions(r) PROVE Remembers
  BY <1>30 DEF RevokeSessions, Revoked, Stay, Remembers
<1>31. ASSUME NEW r \in Requests, MarkVerified(r) PROVE Remembers
  BY <1>31 DEF MarkVerified, Stay, Remembers
<1>32. ASSUME NEW r \in Requests, CloseAccount(r) PROVE Remembers
  <2>1. UNCHANGED <<crashed, paired, contested, displaced, applied, unwritten>>
    BY <1>32 DEF CloseAccount, Closed
  <2>2. \/ leaderless' = leaderless
        \/ leaderless' = (leaderless \/ users[mem[r].user].admin)
    BY <1>32 DEF CloseAccount, Closed
  <2>3. leaderless => leaderless'
    BY <2>2, Zenon
  <2> QED BY <2>1, <2>3 DEF Remembers
<1>33. ASSUME NEW r \in Requests, FindIdentity(r) PROVE Remembers
  BY <1>33 DEF FindIdentity, Stay, Remembers
<1>34. ASSUME NEW r \in Requests, FindByEmail(r) PROVE Remembers
  BY <1>34 DEF FindByEmail, SignUp, Stay, Remembers
<1>35. ASSUME NEW r \in Requests, TieIdentity(r) PROVE Remembers
  BY <1>35 DEF TieIdentity, Stay, Remembers
<1>36. ASSUME NEW r \in Requests, ListIdentities(r) PROVE Remembers
  BY <1>36 DEF ListIdentities, Stay, Remembers
<1>37. ASSUME NEW r \in Requests, DeleteIdentity(r) PROVE Remembers
  BY <1>37 DEF DeleteIdentity, Stay, Remembers
<1>38. ASSUME NEW e \in Emails, LockExpires(e) PROVE Remembers
  BY <1>38 DEF LockExpires, Remembers
<1>39. ASSUME NEW e \in Emails, WindowElapses(e) PROVE Remembers
  BY <1>39 DEF WindowElapses, Remembers
<1>40. CASE Restart
  BY <1>40 DEF Restart, Remembers
<1>41. CASE UNCHANGED vars
  BY <1>41 DEF Remembers
<1> QED
  BY <1>1, <1>2, <1>3, <1>4, <1>5, <1>6, <1>7, <1>8, <1>9, <1>10, <1>11,
     <1>12, <1>13, <1>14, <1>15, <1>16, <1>17, <1>18, <1>19, <1>20, <1>21,
     <1>22, <1>23, <1>24, <1>25, <1>26, <1>27, <1>28, <1>29, <1>30, <1>31,
     <1>32, <1>33, <1>34, <1>35, <1>36, <1>37, <1>38, <1>39, <1>40, <1>41
     DEF Next

Belongs(row) == row.user \in Account /\ (row.late \/ row.born = users[row.user].born)

\* The row x is the row y, of the same account.
SameRow(x, y) == x.user = y.user /\ x.born = y.born /\ x.late = y.late

\* The session t stays, with its proof or with that of the change that keeps it.
Stays(t) ==
    /\ sessions[t] # None /\ SameRow(sessions'[t], sessions[t])
    /\ \/ sessions'[t].proof = sessions[t].proof
       \/ \E r \in Requests : /\ RevokeSessions(r) /\ mem[r].user = sessions[t].user
                              /\ Current(r) /\ sessions'[t].proof = r

\* The session that a request opens.
SessionOf(r) ==
    [user |-> mem[r].user, born |-> mem[r].born, proof |-> mem[r].proof,
     late |-> \/ users[mem[r].user].born # mem[r].born
              \/ users[mem[r].user].password # mem[r].proof]

\* A session is of an account, or goes.
LEMMA SessionsKept ==
    ASSUME TypeOK, MemInv, [Next]_vars, NEW t \in Author, sessions'[t] # None
    PROVE  \/ Stays(t)
           \/ /\ t \in Requests /\ IssueSession(t) /\ mem[t].user \in Account
              /\ sessions'[t] = SessionOf(t)
<1>0. sessions \in [Author -> Session \cup {None}]
  BY DEF TypeOK
<1>1. UNCHANGED sessions \/ SessionsWritten
  BY Writers DEF WrittenByWriters
<1>2. sessions'[t] = sessions[t] => Stays(t)
  BY DEF Stays, SameRow
<1>3. ASSUME NEW r \in Requests, IssueSession(r), ~Stays(t)
      PROVE  /\ t \in Requests /\ IssueSession(t) /\ mem[t].user \in Account
             /\ sessions'[t] = SessionOf(t)
  <2>1. sessions'[t] # sessions[t]
    BY <1>2, <1>3
  <2>2. mem[r].user \in Account /\ InsertSession(r)
    BY <2>1, <1>3 DEF IssueSession
  <2>3. t = r
    BY <1>0, <2>1, <2>2 DEF InsertSession
  <2> QED BY <1>0, <1>3, <2>2, <2>3 DEF InsertSession, SessionOf
<1>4. ASSUME NEW r \in Requests, DropSession(r) PROVE Stays(t)
  BY <1>0, <1>2, <1>4 DEF DropSession, DeleteSession
<1>5. ASSUME NEW r \in Requests, RevokeSessions(r) PROVE Stays(t)
  <2>1. sessions[t] # None
    BY <1>5 DEF RevokeSessions, Revoked
  <2>2. CASE sessions[t].user # mem[r].user
    BY <1>2, <1>5, <2>2 DEF RevokeSessions, Revoked
  <2>3. CASE sessions[t].user = mem[r].user
    <3>1. sessions'[t] = [sessions[t] EXCEPT !.proof = IF Current(r) THEN r ELSE @]
      BY <1>5, <2>1, <2>3 DEF RevokeSessions, Revoked
    <3>2. sessions[t] \in Session
      BY <1>0, <2>1
    <3>3. CASE Current(r)
      BY <1>5, <2>1, <2>3, <3>1, <3>2, <3>3 DEF Stays, SameRow, Session
    <3>4. CASE ~Current(r)
      BY <2>1, <3>1, <3>2, <3>4 DEF Stays, SameRow, Session
    <3> QED BY <3>3, <3>4
  <2> QED BY <2>2, <2>3
<1>6. ASSUME NEW r \in Requests, CloseAccount(r) PROVE Stays(t)
  BY <1>2, <1>6 DEF CloseAccount, Closed
<1> QED BY <1>1, <1>2, <1>3, <1>4, <1>5, <1>6 DEF SessionsWritten

\* A restart closes no account.
LEMMA RestartKeeps ==
    ASSUME TypeOK, Restart, NEW i \in Account
    PROVE  ~Gone(i)
<1>1. /\ i \in Ids /\ users[i] \in User /\ [users[i] EXCEPT !.admin = TRUE] \in User
  BY AccountType DEF User
<1>2. users'[i] # None
  BY <1>1, RowsAreThere DEF Restart, OldestPromoted
<1> QED BY <1>1, <1>2 DEF Gone, Account

\* The identity that a request inserts.
IdentityOf(r) ==
    [user |-> mem[r].user, born |-> mem[r].born, late |-> users[mem[r].user].born # mem[r].born]

\* An identity is of an account, or goes.
LEMMA IdentitiesKept ==
    ASSUME TypeOK, MemInv, [Next]_vars, NEW k \in DOMAIN identities, identities'[k] # None
    PROVE  \/ identities'[k] = identities[k]
           \/ /\ identities'[k].user \in Account'
              /\ identities'[k].born = users'[identities'[k].user].born
           \/ \E r \in Requests : /\ SeedIdentity(r) \/ TieIdentity(r)
                                  /\ mem[r].user \in Account /\ identities'[k] = IdentityOf(r)
                                  /\ UNCHANGED users
<1>0. /\ identities \in [(Providers \cup {Password}) \X Emails -> Holder \cup {None}]
      /\ users \in [Ids -> User \cup {None}]
  BY DEF TypeOK
<1>1. UNCHANGED identities \/ IdentitiesWritten
  BY Writers DEF WrittenByWriters
<1>2. ASSUME NEW r \in Requests, SeedIdentity(r) \/ TieIdentity(r)
      PROVE  \/ identities'[k] = identities[k]
             \/ mem[r].user \in Account /\ identities'[k] = IdentityOf(r) /\ UNCHANGED users
  <2>1. CASE Insertable(r)
    <3>1. identities' = [identities EXCEPT ![<<mem[r].provider, mem[r].email>>] = IdentityOf(r)]
      BY <1>2, <2>1 DEF SeedIdentity, TieIdentity, InsertIdentity, IdentityOf
    <3>2. UNCHANGED users /\ mem[r].user \in Account
      BY <1>2, <2>1 DEF SeedIdentity, TieIdentity, Insertable
    <3> QED BY <1>0, <3>1, <3>2
  <2>2. CASE ~Insertable(r)
    BY <1>2, <2>2 DEF SeedIdentity, TieIdentity
  <2> QED BY <2>1, <2>2
<1>3. ASSUME NEW r \in Requests, DeleteIdentity(r) \/ CloseAccount(r)
      PROVE  identities'[k] = identities[k]
  BY <1>3 DEF DeleteIdentity, CloseAccount, Closed
<1>4. CASE Restart
  <2> DEFINE i == CHOOSE j \in ByEmail(k[2]) : TRUE
  <2>1. ASSUME identities'[k] # identities[k]
        PROVE  /\ identities'[k].user \in Account'
               /\ identities'[k].born = users'[identities'[k].user].born
    <3>1. \E j \in ByEmail(k[2]) : TRUE
      BY <1>4, <2>1 DEF Restart, PasswordsSeeded
    <3>2. i \in Account
      BY <3>1, EmailsAccounts
    <3> HIDE DEF i
    <3>3. identities'[k] = [user |-> i, born |-> users[i].born, late |-> FALSE]
      BY <1>4, <2>1 DEF Restart, PasswordsSeeded, i
    <3>4. Kept(i)
      BY <3>2, <1>4, AccountsKept, RestartKeeps
    <3> QED BY <3>2, <3>3, <3>4 DEF Kept
  <2> QED BY <2>1
<1> QED BY <1>1, <1>2, <1>3, <1>4 DEF IdentitiesWritten

\* A mailed link is of an account, or goes.
LEMMA LinksKept ==
    ASSUME TypeOK, MemInv, [Next]_vars, NEW k \in Author, links'[k] # None
    PROVE  \/ /\ links[k] # None /\ links'[k].user = links[k].user
              /\ links'[k].born = links[k].born /\ (links[k].used => links'[k].used)
           \/ /\ k \in Requests /\ CreateLink(k) /\ mem[k].user \in Account
              /\ links'[k].user = mem[k].user /\ links'[k].born = users[mem[k].user].born
<1>0. links \in [Author -> Link \cup {None}]
  BY DEF TypeOK
<1>1. UNCHANGED links \/ LinksWritten
  BY Writers DEF WrittenByWriters
<1> DEFINE old == /\ links[k] # None /\ links'[k].user = links[k].user
                  /\ links'[k].born = links[k].born /\ (links[k].used => links'[k].used)
<1>2. ASSUME NEW r \in Requests, CreateLink(r), ~old
      PROVE  /\ k \in Requests /\ CreateLink(k) /\ mem[k].user \in Account
             /\ links'[k].user = mem[k].user /\ links'[k].born = users[mem[k].user].born
  <2>1. links'[k] # links[k]
    BY <1>2
  <2>2. mem[r].user \in Account
    BY <2>1, <1>2 DEF CreateLink
  <2>3. k = r
    BY <1>0, <2>1, <1>2 DEF CreateLink
  <2>4. links'[k] = [user |-> mem[r].user, born |-> users[mem[r].user].born, used |-> FALSE,
                     purpose |-> IF op[r] = "forgot" THEN "password_reset" ELSE "signup"]
    BY <1>0, <1>2, <2>2, <2>3 DEF CreateLink
  <2> QED BY <1>2, <2>2, <2>3, <2>4
<1>3. ASSUME NEW r \in Requests, ConsumeLink(r) PROVE old
  <2>1. \/ links' = links
        \/ /\ links[mem[r].token] # None
           /\ links' = [links EXCEPT ![mem[r].token] = [links[mem[r].token] EXCEPT !.used = TRUE]]
    BY <1>3 DEF ConsumeLink
  <2>2. CASE links' = links
    BY <2>2
  <2>3. CASE k = mem[r].token /\ links' # links
    <3>1. links[k] \in Link /\ links'[k] = [links[k] EXCEPT !.used = TRUE]
      BY <1>0, <2>1, <2>3
    <3> QED BY <2>1, <2>3, <3>1 DEF Link
  <2>4. CASE k # mem[r].token /\ links' # links
    BY <1>0, <2>1, <2>4
  <2> QED BY <2>2, <2>3, <2>4
<1>4. ASSUME NEW r \in Requests, CloseAccount(r) PROVE old
  BY <1>4 DEF CloseAccount, Closed
<1>5. CASE UNCHANGED links
  BY <1>5
<1> QED BY <1>1, <1>2, <1>3, <1>4, <1>5 DEF LinksWritten

\* Rows stay those of their account.
LEMMA RowsStep ==
    ASSUME TypeOK, MemInv, RowsOfTheirAccount, [Next]_vars
    PROVE  RowsOfTheirAccount'
<1>1. ASSUME NEW t \in Author, sessions'[t] # None
      PROVE  /\ sessions'[t].user \in Account'
             /\ sessions'[t].late \/ sessions'[t].born = users'[sessions'[t].user].born
  <2>1. CASE Stays(t)
    <3> DEFINE i == sessions[t].user
    <3>1. i \in Account /\ (sessions[t].late \/ sessions[t].born = users[i].born)
      BY <2>1 DEF RowsOfTheirAccount, Stays
    <3>2. Kept(i)
      BY <1>1, <2>1, <3>1, AccountsKept DEF Gone, SameRow, Stays
    <3> QED BY <2>1, <3>1, <3>2 DEF Kept, SameRow, Stays
  <2>2. ASSUME t \in Requests, IssueSession(t), mem[t].user \in Account,
               sessions'[t] = SessionOf(t)
        PROVE  /\ sessions'[t].user \in Account'
               /\ sessions'[t].late \/ sessions'[t].born = users'[sessions'[t].user].born
    <3>1. users' = users
      BY <2>2 DEF IssueSession
    <3>2. sessions'[t].user = mem[t].user /\ sessions'[t].born = mem[t].born
      BY <2>2 DEF SessionOf
    <3>3. CASE users[mem[t].user].born = mem[t].born
      BY <2>2, <3>1, <3>2, <3>3 DEF Account
    <3>4. CASE users[mem[t].user].born # mem[t].born
      <4>1. (\/ users[mem[t].user].born # mem[t].born
             \/ users[mem[t].user].password # mem[t].proof) = TRUE
        BY <3>4
      <4>2. SessionOf(t).late = TRUE
        BY <4>1, Zenon DEF SessionOf
      <4> QED BY <2>2, <3>1, <3>2, <4>2 DEF Account
    <3> QED BY <3>3, <3>4
  <2> QED BY <1>1, <2>1, <2>2, SessionsKept
<1>2. ASSUME NEW k \in DOMAIN identities, identities'[k] # None
      PROVE  /\ identities'[k].user \in Account'
             /\ identities'[k].late \/ identities'[k].born = users'[identities'[k].user].born
  <2>1. CASE identities'[k] = identities[k]
    <3> DEFINE i == identities[k].user
    <3>1. i \in Account /\ (identities[k].late \/ identities[k].born = users[i].born)
      BY <1>2, <2>1 DEF RowsOfTheirAccount
    <3>2. k \in DOMAIN identities'
      BY <1>2, TablesStep DEF TypeOK, Tables
    <3>3. Kept(i)
      BY <1>2, <2>1, <3>1, <3>2, AccountsKept DEF Gone
    <3> QED BY <2>1, <3>1, <3>3 DEF Kept
  <2>2. ASSUME NEW r \in Requests, mem[r].user \in Account, identities'[k] = IdentityOf(r),
               UNCHANGED users
        PROVE  /\ identities'[k].user \in Account'
               /\ identities'[k].late \/ identities'[k].born = users'[identities'[k].user].born
    <3>1. mem[r].user \in Account' /\ users' = users
      BY <2>2 DEF Account
    <3>2. identities'[k].user = mem[r].user /\ identities'[k].born = mem[r].born
      BY <2>2 DEF IdentityOf
    <3>3. CASE users[mem[r].user].born = mem[r].born
      BY <3>1, <3>2, <3>3
    <3>4. CASE users[mem[r].user].born # mem[r].born
      <4>1. (users[mem[r].user].born # mem[r].born) = TRUE
        BY <3>4
      <4>2. IdentityOf(r).late = TRUE
        BY <4>1, Zenon DEF IdentityOf
      <4> QED BY <2>2, <3>1, <3>2, <4>2
    <3> QED BY <3>3, <3>4
  <2> QED BY <1>2, <2>1, <2>2, IdentitiesKept
<1>3. ASSUME NEW k \in Author, links'[k] # None
      PROVE  links'[k].user \in Account' /\ links'[k].born = users'[links'[k].user].born
  <2>1. CASE /\ links[k] # None /\ links'[k].user = links[k].user
             /\ links'[k].born = links[k].born
    <3> DEFINE i == links[k].user
    <3>1. i \in Account /\ links[k].born = users[i].born
      BY <2>1 DEF RowsOfTheirAccount
    <3>2. Kept(i)
      BY <1>3, <2>1, <3>1, AccountsKept DEF Gone
    <3> QED BY <2>1, <3>1, <3>2 DEF Kept
  <2>2. ASSUME k \in Requests, CreateLink(k), mem[k].user \in Account,
               links'[k].user = mem[k].user, links'[k].born = users[mem[k].user].born
        PROVE  links'[k].user \in Account' /\ links'[k].born = users'[links'[k].user].born
    <3>1. users' = users
      BY <2>2 DEF CreateLink
    <3> QED BY <2>2, <3>1 DEF Account
  <2> QED BY <1>3, <2>1, <2>2, LinksKept
<1>4. DOMAIN identities' = DOMAIN identities
  BY TablesStep DEF TypeOK, Tables
<1> QED BY <1>1, <1>2, <1>3, <1>4 DEF RowsOfTheirAccount

--------------------------------------------------------------------------------
(* Who knows an account                                                         *)

\* Pending flows know the account that began them.
LEMMA FlowsStep ==
    ASSUME TypeOK, MemInv, FlowsInv, [Next]_vars
    PROVE  FlowsInv'
<1>0. pending \in [Author -> [user : Ids \cup {None}, born : Proof] \cup {None}]
  BY DEF TypeOK
<1>1. UNCHANGED pending \/ PendingWritten
  BY Writers DEF WrittenByWriters
<1>2. CASE UNCHANGED pending
  BY <1>2 DEF FlowsInv
<1>3. CASE Restart
  BY <1>3 DEF Restart, FlowsInv
<1>4. ASSUME NEW r \in Requests, BeginGoogle(r) PROVE FlowsInv'
  BY <1>0, <1>4 DEF BeginGoogle, Offered, Flow, FlowsInv
<1>5. ASSUME NEW r \in Requests, BeginLinking(r) PROVE FlowsInv'
  <2>1. mem[r].born \in Author
    BY <1>5 DEF BeginLinking, MemInv, MemFor, WithUser
  <2> QED BY <1>0, <1>5, <2>1 DEF BeginLinking, Offered, Flow, FlowsInv
<1>6. ASSUME NEW r \in Requests, Callback(r) PROVE FlowsInv'
  BY <1>0, <1>6 DEF Callback, Popped, FlowsInv
<1> QED BY <1>1, <1>2, <1>3, <1>4, <1>5, <1>6 DEF PendingWritten

\* What a request knows after a step.
LEMMA StepBorn ==
    ASSUME mem \in [Requests -> Memory], NEW r \in Requests, NEW l, NEW m, Step(r, l, m)
    PROVE  mem'[r].born = None \/ mem'[r].born = m.born
BY DEF Step, Blank

\* What a request knows when it begins.
LEMMA BegunBorn ==
    ASSUME TypeOK, RowsOfTheirAccount, NEW r \in Requests, Begins(r)
    PROVE  mem'[r].born = None \/ Known(mem'[r].born)
<1>0. mem \in [Requests -> Memory] /\ Blank.born = None
  BY DEF TypeOK, Blank
<1>4. ASSUME NEW t \in Author, sessions[t] # None PROVE Known(Authenticated(t).born)
  <2>1. sessions[t].user \in Account /\ Authenticated(t).born = users[sessions[t].user].born
    BY <1>4, AuthenticatedType
  <2> QED BY <2>1 DEF Known
<1>5. CASE BeginByEmail(r)
  <2>1. PICK e \in Emails : \E l : Step(r, l, [Blank EXCEPT !.email = e])
    BY <1>5 DEF BeginByEmail, Begin
  <2> DEFINE m == [Blank EXCEPT !.email = e]
  <2>2. m.born = None
    BY <1>0, MemShape DEF Memory
  <2>3. \E l : Step(r, l, m)
    BY <2>1
  <2> HIDE DEF m
  <2> QED BY <1>0, <2>2, <2>3, StepBorn
<1>6. CASE BeginMail(r)
  <2>1. PICK e \in Emails : \E l : Step(r, l, [Blank EXCEPT !.email = e])
    BY <1>6 DEF BeginMail, Begin
  <2> DEFINE m == [Blank EXCEPT !.email = e]
  <2>2. m.born = None
    BY <1>0, MemShape DEF Memory
  <2>3. \E l : Step(r, l, m)
    BY <2>1
  <2> HIDE DEF m
  <2> QED BY <1>0, <2>2, <2>3, StepBorn
<1>7. CASE BeginWithSession(r)
  <2>1. PICK t \in Author, l \in Location :
          sessions[t] # None /\ Step(r, l, Authenticated(t))
    BY <1>7 DEF BeginWithSession, Begin, Location
  <2> QED BY <1>0, <1>4, <2>1, StepBorn
<1>8. CASE BeginInSettings(r)
  <2>1. PICK t \in Author, l \in Location :
          sessions[t] # None /\ Step(r, l, Authenticated(t))
    BY <1>8 DEF BeginInSettings, Begin, Location
  <2> QED BY <1>0, <1>4, <2>1, StepBorn
<1>9. CASE BeginVerify(r) \/ BeginReset(r)
  <2>1. PICK k \in Author : \E l : Step(r, l, [Blank EXCEPT !.token = k])
    BY <1>9 DEF BeginVerify, BeginReset, WithLink, Begin
  <2> DEFINE m == [Blank EXCEPT !.token = k]
  <2>2. m.born = None
    BY <1>0, MemShape DEF Memory
  <2>3. \E l : Step(r, l, m)
    BY <2>1
  <2> HIDE DEF m
  <2> QED BY <1>0, <2>2, <2>3, StepBorn
<1>10. CASE BeginGoogle(r)
  BY <1>0, <1>10, StepBorn DEF BeginGoogle, Begin
<1>11. CASE Callback(r)
  <2>1. PICK s \in Author, e \in Emails : pending[s] # None /\ Exchanged(r, pending[s], e)
    BY <1>11 DEF Callback
  <2> DEFINE m == [Blank EXCEPT !.email = e, !.provider = Google, !.user = pending[s].user,
                                !.born = pending[s].born]
  <2>2. m.born = pending[s].born
    BY MemShape DEF Memory
  <2>3. Known(pending[s].born)
    BY <2>1 DEF Known
  <2>4. (\E l : Step(r, l, m)) \/ (\E l : Step(r, l, Blank))
    BY <2>1 DEF Exchanged, Begin
  <2> HIDE DEF m
  <2> QED BY <1>0, <2>2, <2>3, <2>4, StepBorn
<1>12. CASE DeviceSignIn(r)
  <2>1. PICK e \in Emails, p \in Providers :
           \E l : Step(r, l, [Blank EXCEPT !.email = e, !.provider = p])
    BY <1>12 DEF DeviceSignIn, Begin
  <2> DEFINE m == [Blank EXCEPT !.email = e, !.provider = p]
  <2>2. m.born = None
    BY <1>0, MemShape DEF Memory
  <2>3. \E l : Step(r, l, m)
    BY <2>1
  <2> HIDE DEF m
  <2> QED BY <1>0, <2>2, <2>3, StepBorn
<1> QED BY <1>5, <1>6, <1>7, <1>8, <1>9, <1>10, <1>11, <1>12 DEF Begins

\* Where create_user leaves its request.
LEMMA CreateUserMoves ==
    ASSUME TypeOK, MemInv, NEW r \in Requests, CreateUser(r)
    PROVE  To(r, "done") \/ \E i \in Ids : Creates(r, i)
<1>1. CASE ByEmail(mem[r].email) # {}
  BY <1>1 DEF CreateUser
<1>2. CASE ByEmail(mem[r].email) = {}
  <2>1. PICK i \in Ids : users' = [users EXCEPT ![i] = NewUser(r)] /\ \A n \in Account : n < i
    BY <1>2 DEF CreateUser
  <2>2. mem[r] \in Memory /\ mem[r].email \in Emails
    BY DEF CreateUser, MemInv, MemFor, WithEmail, TypeOK
  <2>3. NewUser(r) # None
    BY <2>2, NewUserType, RowsAreThere
  <2>4. users' # users
    <3>1. i \notin Account
      BY <2>1, IdsAssumption DEF Account
    <3>2. users[i] = None /\ users'[i] = NewUser(r)
      BY <2>1, <3>1 DEF Account, TypeOK
    <3> QED BY <2>3, <3>2
  <2> QED BY <2>4, CreateUserCreates
<1> QED BY <1>1, <1>2

\* A request learns of an account from its row, or creates it.
LEMMA MovedBorn ==
    ASSUME TypeOK, MemInv, RowsOfTheirAccount, NEW r \in Requests, Moves(r)
    PROVE  mem'[r].born = None \/ Known(mem'[r].born) \/ \E i \in Ids : Creates(r, i)
<1>0. mem \in [Requests -> Memory] /\ mem[r] \in Memory /\ MemFor(op[r], at[r], mem[r])
  BY DEF TypeOK, MemInv
<1>k. Known(mem[r].born)
  BY DEF Known
<1>1. CASE CheckKnown(r)
  BY <1>1, <1>0, <1>k, StepBorn DEF CheckKnown, To
<1>2. CASE CountUsers(r)
  <2> DEFINE m == [mem[r] EXCEPT !.first = Account = {}]
  <2>1. Step(r, "create", m)
    BY <1>2 DEF CountUsers
  <2>2. m.born = mem[r].born
    BY <1>0 DEF Memory
  <2> HIDE DEF m
  <2> QED BY <1>0, <1>k, <2>1, <2>2, StepBorn
<1>3. CASE CreateUser(r)
  <2>1. CASE To(r, "done")
    BY <1>0, <1>k, <2>1, StepBorn DEF To
  <2> QED BY <1>3, <2>1, CreateUserMoves
<1>4. CASE SeedIdentity(r)
  BY <1>4, <1>0, <1>k, StepBorn DEF SeedIdentity, AfterSignUp, To
<1>5. CASE AdoptOrphans(r)
  BY <1>5, <1>0, <1>k, StepBorn DEF AdoptOrphans, AfterSignUp, To
<1>6. CASE IssueSession(r)
  BY <1>6, <1>0, <1>k, StepBorn DEF IssueSession, To
<1>7. CASE CreateLink(r)
  BY <1>7, <1>0, <1>k, StepBorn DEF CreateLink, To
<1>8. CASE DropSession(r)
  BY <1>8, <1>0, <1>k, StepBorn DEF DropSession, To
<1>9. CASE CheckLockout(r)
  BY <1>9, <1>0, <1>k, StepBorn DEF CheckLockout, To
<1>10. CASE TryPassword(r)
  <2>1. CASE \E l : To(r, l)
    BY <1>0, <1>k, <2>1, StepBorn DEF To
  <2>2. CASE \E l : \E i \in Account : Step(r, l, Found(mem[r], i))
    <3>1. PICK i \in Account : \E l : Step(r, l, Found(mem[r], i))
      BY <2>2
    <3>2. Found(mem[r], i).born = users[i].born
      BY <1>0, FoundType
    <3> QED BY <1>0, <3>1, <3>2, StepBorn DEF Known
  <2> QED BY <1>10, <2>1, <2>2, EmailsAccounts DEF TryPassword
<1>11. CASE ResendVerification(r)
  <2>1. CASE \E l : To(r, l)
    BY <1>0, <1>k, <2>1, StepBorn DEF To
  <2>2. CASE \E l : \E i \in Account : Step(r, l, Found(mem[r], i))
    <3>1. PICK i \in Account : \E l : Step(r, l, Found(mem[r], i))
      BY <2>2
    <3>2. Found(mem[r], i).born = users[i].born
      BY <1>0, FoundType
    <3> QED BY <1>0, <3>1, <3>2, StepBorn DEF Known
  <2> QED BY <1>11, <2>1, <2>2, EmailsAccounts DEF ResendVerification, Mailed
<1>12. CASE RequestReset(r)
  <2>1. CASE \E l : To(r, l)
    BY <1>0, <1>k, <2>1, StepBorn DEF To
  <2>2. CASE \E l : \E i \in Account : Step(r, l, Found(mem[r], i))
    <3>1. PICK i \in Account : \E l : Step(r, l, Found(mem[r], i))
      BY <2>2
    <3>2. Found(mem[r], i).born = users[i].born
      BY <1>0, FoundType
    <3> QED BY <1>0, <3>1, <3>2, StepBorn DEF Known
  <2> QED BY <1>12, <2>1, <2>2, EmailsAccounts DEF RequestReset, Mailed
<1>13. CASE ReadFailures(r)
  <2> DEFINE m == [mem[r] EXCEPT !.read = failures[mem[r].email]]
  <2>1. Step(r, "record", m)
    BY <1>13 DEF ReadFailures
  <2>2. m.born = mem[r].born
    BY <1>0 DEF Memory
  <2> HIDE DEF m
  <2> QED BY <1>0, <1>k, <2>1, <2>2, StepBorn
<1>14. CASE RecordFailure(r)
  BY <1>14, <1>0, <1>k, StepBorn DEF RecordFailure, Recorded, To
<1>15. CASE ClearFailures(r)
  BY <1>15, <1>0, <1>k, StepBorn DEF ClearFailures, To
<1>16. CASE VerifyCurrent(r)
  BY <1>16, <1>0, <1>k, StepBorn DEF VerifyCurrent, To
<1>17. CASE ConsumeLink(r)
  <2> DEFINE k == mem[r].token
             m == [mem[r] EXCEPT !.user = links[k].user, !.born = links[k].born]
  <2>1. CASE links[k] = None \/ links[k].used
    BY <1>17, <1>0, <1>k, <2>1, StepBorn DEF ConsumeLink, To
  <2>2. CASE ~(links[k] = None \/ links[k].used)
    <3>1. k \in Author
      BY <1>17, <1>0 DEF ConsumeLink, MemFor
    <3>2. links[k].user \in Account /\ links[k].born = users[links[k].user].born
      BY <2>2, <3>1 DEF RowsOfTheirAccount
    <3>3. m.born = links[k].born
      BY <1>0 DEF Memory
    <3>4. PICK l : Step(r, l, m)
      BY <1>17, <2>2 DEF ConsumeLink
    <3> HIDE DEF m, k
    <3> QED BY <1>0, <3>2, <3>3, <3>4, StepBorn DEF Known
  <2> QED BY <2>1, <2>2
<1>18. CASE FindAccount(r)
  <2> DEFINE i == mem[r].user
             m == [mem[r] EXCEPT !.email = users[i].email, !.first = ~users[i].verified]
  <2>1. m.born = mem[r].born
    BY <1>0 DEF Memory
  <2>2. Step(r, "update", m) \/ To(r, "done")
    BY <1>18 DEF FindAccount
  <2> HIDE DEF m
  <2> QED BY <1>0, <1>k, <2>1, <2>2, StepBorn DEF To
<1>19. CASE UpdatePassword(r)
  <2> DEFINE m == [mem[r] EXCEPT !.proof = r]
  <2>1. Step(r, "revoke", m) \/ To(r, "done")
    BY <1>19 DEF UpdatePassword
  <2>2. m.born = mem[r].born
    BY <1>0 DEF Memory
  <2> HIDE DEF m
  <2> QED BY <1>0, <1>k, <2>1, <2>2, StepBorn DEF To
<1>20. CASE RevokeSessions(r)
  BY <1>20, <1>0, <1>k, StepBorn DEF RevokeSessions, Revoked, To
<1>21. CASE MarkVerified(r)
  <2> DEFINE i == mem[r].user
             m == IF op[r] = "verify" /\ i \in Account
                  THEN [mem[r] EXCEPT !.proof = users[i].password] ELSE mem[r]
  <2>1. m.born = mem[r].born
    BY <1>0 DEF Memory
  <2>2. Step(r, "issue", m)
    BY <1>21 DEF MarkVerified
  <2> HIDE DEF m
  <2> QED BY <1>0, <1>k, <2>1, <2>2, StepBorn
<1>22. CASE CloseAccount(r)
  BY <1>22, <1>0, <1>k, StepBorn DEF CloseAccount, Closed, To
<1>23. CASE FindIdentity(r)
  <2> DEFINE i == Owner(mem[r].provider, mem[r].email)
  <2>1. CASE \E l : To(r, l)
    BY <1>0, <1>k, <2>1, StepBorn DEF To
  <2>2. CASE op[r] # "link" /\ i # None
    <3>1. i \in Account
      <4>1. mem[r].email \in Emails /\ mem[r].provider \in Providers \cup {Password}
        BY <1>23, <1>0, MemShape DEF FindIdentity, MemFor, WithEmail
      <4> QED BY <2>2, <4>1, OwnerType
    <3> DEFINE f == Found(mem[r], i)
               m == [f EXCEPT !.email = mem[r].email]
    <3>2. f \in Memory /\ f.born = users[i].born
      BY <1>0, <3>1, FoundType
    <3> HIDE DEF f
    <3>3. m.born = f.born
      BY <3>2 DEF Memory
    <3> HIDE DEF i
    <3>4. Step(r, "issue", m)
      BY <1>23, <2>2 DEF FindIdentity, f, i
    <3> HIDE DEF m
    <3> QED BY <1>0, <3>1, <3>2, <3>3, <3>4, StepBorn DEF Known
  <2> QED BY <1>23, <2>1, <2>2 DEF FindIdentity
<1>24. CASE FindByEmail(r)
  <2>1. CASE \E l : To(r, l)
    BY <1>0, <1>k, <2>1, StepBorn DEF To
  <2>2. CASE \E l : \E i \in Account : Step(r, l, Found(mem[r], i))
    <3>1. PICK i \in Account : \E l : Step(r, l, Found(mem[r], i))
      BY <2>2
    <3>2. Found(mem[r], i).born = users[i].born
      BY <1>0, FoundType
    <3> QED BY <1>0, <3>1, <3>2, StepBorn DEF Known
  <2> QED BY <1>24, <2>1, <2>2, EmailsAccounts DEF FindByEmail, SignUp
<1>25. CASE TieIdentity(r)
  BY <1>25, <1>0, <1>k, StepBorn DEF TieIdentity, To
<1>26. CASE ListIdentities(r)
  BY <1>26, <1>0, <1>k, StepBorn DEF ListIdentities, To
<1>27. CASE DeleteIdentity(r)
  BY <1>27, <1>0, <1>k, StepBorn DEF DeleteIdentity, To
<1>28. CASE BeginLinking(r)
  BY <1>28, <1>0, <1>k, StepBorn DEF BeginLinking, Offered, To
<1> QED
  BY <1>1, <1>2, <1>3, <1>4, <1>5, <1>6, <1>7, <1>8, <1>9, <1>10, <1>11,
     <1>12, <1>13, <1>14, <1>15, <1>16, <1>17, <1>18, <1>19, <1>20, <1>21,
     <1>22, <1>23, <1>24, <1>25, <1>26, <1>27, <1>28 DEF Moves

\* An account becomes known only when it is created.
LEMMA KnownStep ==
    ASSUME TypeOK, MemInv, RowsOfTheirAccount, [Next]_vars, NEW q \in Requests, Known(q)'
    PROVE  Known(q) \/ \E i \in Ids : Creates(q, i)
<1>0. q # None
  BY NoneIsNobody
<1>1. ASSUME NEW i \in Account', users'[i].born = q
      PROVE  Known(q) \/ \E j \in Ids : Creates(q, j)
  <2>1. CASE i \in Account
    <3>1. Kept(i)
      BY <2>1, AccountsKept DEF Gone
    <3> QED BY <1>1, <2>1, <3>1 DEF Kept, Known
  <2>2. ASSUME NEW r \in Requests, Creates(r, i)
        PROVE  Known(q) \/ \E j \in Ids : Creates(q, j)
    <3>1. NewUser(r).born = r
      BY DEF NewUser
    <3> QED BY <1>1, <2>2, <3>1 DEF Creates
  <2> QED BY <2>1, <2>2, AccountsMade
<1>2. ASSUME NEW r \in Requests, mem'[r].born = q
      PROVE  Known(q) \/ \E j \in Ids : Creates(q, j)
  <2>1. CASE Waits(r)
    BY <1>2, <2>1 DEF Waits, Known
  <2>2. CASE Begins(r)
    BY <1>0, <1>2, <2>2, BegunBorn
  <2>3. CASE Moves(r)
    BY <1>0, <1>2, <2>3, MovedBorn DEF Creates
  <2>4. CASE Restart
    BY <1>0, <1>2, <2>4 DEF Restart, Blank
  <2> QED BY <2>1, <2>2, <2>3, <2>4, OneMoves
<1>3. ASSUME NEW s \in Author, pending'[s] # None, pending'[s].born = q PROVE Known(q)
  <2>0. pending \in [Author -> [user : Ids \cup {None}, born : Proof] \cup {None}]
    BY DEF TypeOK
  <2>1. UNCHANGED pending \/ PendingWritten
    BY Writers DEF WrittenByWriters
  <2>2. CASE UNCHANGED pending
    BY <1>3, <2>2 DEF Known
  <2>3. CASE Restart
    BY <1>3, <2>3 DEF Restart
  <2>4. ASSUME NEW r \in Requests, BeginGoogle(r) PROVE Known(q)
    <3>1. s # r => pending'[s] = pending[s]
      BY <2>0, <2>4 DEF BeginGoogle, Offered
    <3>2. s = r => pending'[s] = Flow(None, None)
      BY <2>0, <2>4 DEF BeginGoogle, Offered
    <3> QED BY <1>0, <1>3, <3>1, <3>2 DEF Known, Flow
  <2>5. ASSUME NEW r \in Requests, BeginLinking(r) PROVE Known(q)
    <3>1. s # r => pending'[s] = pending[s]
      BY <2>0, <2>5 DEF BeginLinking, Offered
    <3>2. s = r => pending'[s] = Flow(mem[r].user, mem[r].born)
      BY <2>0, <2>5 DEF BeginLinking, Offered
    <3> QED BY <1>0, <1>3, <3>1, <3>2 DEF Known, Flow
  <2>6. ASSUME NEW r \in Requests, Callback(r) PROVE Known(q)
    <3>1. pending'[s] = pending[s]
      BY <1>3, <2>0, <2>6 DEF Callback, Popped
    <3> QED BY <1>3, <3>1 DEF Known
  <2> QED BY <2>1, <2>2, <2>3, <2>4, <2>5, <2>6 DEF PendingWritten
<1>4. \/ \E i \in Account' : users'[i].born = q
      \/ \E r \in Requests : mem'[r].born = q
      \/ \E s \in Author : pending'[s] # None /\ pending'[s].born = q
  BY DEF Known
<1> QED BY <1>1, <1>2, <1>3, <1>4

\* A request that has an account at hand goes on having one.
LEMMA BornStays ==
    ASSUME TypeOK, NEW q \in Requests, Moves(q), ~Unborn(at[q])
    PROVE  ~Unborn(at'[q])
<1>0. at \in [Requests -> Location]
  BY DEF TypeOK
<1>1. CASE SeedIdentity(q)
  BY <1>0, <1>1 DEF SeedIdentity, AfterSignUp, Step, To, Unborn
<1>2. CASE AdoptOrphans(q)
  BY <1>0, <1>2 DEF AdoptOrphans, AfterSignUp, Step, To, Unborn
<1>3. CASE IssueSession(q)
  BY <1>0, <1>3 DEF IssueSession, Step, To, Unborn
<1>4. CASE CreateLink(q)
  BY <1>0, <1>4 DEF CreateLink, Step, To, Unborn
<1>5. CASE DropSession(q)
  BY <1>0, <1>5 DEF DropSession, Step, To, Unborn
<1>6. CASE CheckLockout(q)
  BY <1>0, <1>6 DEF CheckLockout, Step, To, Unborn
<1>7. CASE TryPassword(q)
  BY <1>0, <1>7 DEF TryPassword, Step, To, Unborn
<1>8. CASE ResendVerification(q)
  BY <1>0, <1>8 DEF ResendVerification, Mailed, Step, To, Unborn
<1>9. CASE RequestReset(q)
  BY <1>0, <1>9 DEF RequestReset, Mailed, Step, To, Unborn
<1>10. CASE ReadFailures(q)
  BY <1>0, <1>10 DEF ReadFailures, Step, To, Unborn
<1>11. CASE RecordFailure(q)
  BY <1>0, <1>11 DEF RecordFailure, Recorded, Step, To, Unborn
<1>12. CASE ClearFailures(q)
  BY <1>0, <1>12 DEF ClearFailures, Step, To, Unborn
<1>13. CASE VerifyCurrent(q)
  BY <1>0, <1>13 DEF VerifyCurrent, Step, To, Unborn
<1>14. CASE ConsumeLink(q)
  BY <1>0, <1>14 DEF ConsumeLink, Step, To, Unborn
<1>15. CASE FindAccount(q)
  BY <1>0, <1>15 DEF FindAccount, Step, To, Unborn
<1>16. CASE UpdatePassword(q)
  BY <1>0, <1>16 DEF UpdatePassword, Step, To, Unborn
<1>17. CASE RevokeSessions(q)
  BY <1>0, <1>17 DEF RevokeSessions, Revoked, Step, To, Unborn
<1>18. CASE MarkVerified(q)
  BY <1>0, <1>18 DEF MarkVerified, Step, To, Unborn
<1>19. CASE CloseAccount(q)
  BY <1>0, <1>19 DEF CloseAccount, Closed, Step, To, Unborn
<1>20. CASE TieIdentity(q)
  BY <1>0, <1>20 DEF TieIdentity, Step, To, Unborn
<1>21. CASE ListIdentities(q)
  BY <1>0, <1>21 DEF ListIdentities, Step, To, Unborn
<1>22. CASE DeleteIdentity(q)
  BY <1>0, <1>22 DEF DeleteIdentity, Step, To, Unborn
<1>23. CASE BeginLinking(q)
  BY <1>0, <1>23 DEF BeginLinking, Offered, Step, To, Unborn
<1> QED
  BY <1>1, <1>2, <1>3, <1>4, <1>5, <1>6, <1>7, <1>8, <1>9, <1>10, <1>11,
     <1>12, <1>13, <1>14, <1>15, <1>16, <1>17, <1>18, <1>19, <1>20, <1>21,
     <1>22, <1>23 DEF Moves, Unborn

\* A restart ends every request.
LEMMA RestartEnds ==
    ASSUME Restart, NEW q \in Requests
    PROVE  /\ mem'[q] = Blank /\ op'[q] = op[q]
           /\ (at'[q] = "done" /\ at[q] # "none") \/ (at'[q] = "none" /\ at[q] = "none")
<1>1. at'[q] = (IF q \in Busy THEN "done" ELSE at[q]) /\ mem'[q] = Blank /\ op'[q] = op[q]
  BY DEF Restart
<1>2. q \in Busy <=> at[q] \notin {"none", "done"}
  BY DEF Busy
<1> QED BY <1>1, <1>2

\* An account that has not been created stays unknown.
LEMMA FreshStep ==
    ASSUME TypeOK, MemInv, RowsOfTheirAccount, FreshInv, [Next]_vars
    PROVE  FreshInv'
<1> SUFFICES ASSUME NEW q \in Requests, Unborn(at'[q]), Known(q)'
             PROVE  FALSE
  BY DEF FreshInv
<1>1. Unborn(at[q])
  <2>1. CASE Waits(q)
    BY <2>1 DEF Waits
  <2>2. CASE Begins(q)
    BY <2>2 DEF Begins, MemInv, MemFor, Path, Unborn
  <2>3. CASE Moves(q)
    BY <2>3, BornStays
  <2>4. CASE Restart
    BY <2>4, RestartEnds DEF Unborn
  <2> QED BY <2>1, <2>2, <2>3, <2>4, OneMoves
<1>2. ~Known(q)
  BY <1>1 DEF FreshInv
<1>3. PICK i \in Ids : Creates(q, i)
  BY <1>2, KnownStep
<1> QED BY <1>3 DEF Creates, Unborn

--------------------------------------------------------------------------------
(* Sessions                                                                     *)

\* A request that waits to revoke sessions goes on waiting until it does.
LEMMA RevokeWaits ==
    ASSUME TypeOK, MemInv, [Next]_vars, NEW r \in Requests, at[r] = "revoke"
    PROVE  \/ at'[r] = "revoke" /\ mem'[r] = mem[r]
           \/ RevokeSessions(r)
           \/ crashed'
<1>1. CASE Waits(r)
  BY <1>1 DEF Waits
<1>2. CASE Begins(r)
  BY <1>2 DEF Begins, MemInv, MemFor, Path
<1>3. CASE Moves(r)
  BY <1>3 DEF Moves
<1>4. CASE Restart
  BY <1>4 DEF Restart
<1> QED BY <1>1, <1>2, <1>3, <1>4, OneMoves

\* Whose password it is.
LEMMA PasswordsKept ==
    ASSUME TypeOK, MemInv, [Next]_vars, NEW i \in Account
    PROVE  \/ Gone(i)
           \/ users'[i].password = users[i].password
           \/ \E r \in Requests : /\ Step(r, "revoke", [mem[r] EXCEPT !.proof = r])
                                  /\ mem[r].user = i /\ users'[i].password = r
<1>0. users \in [Ids -> User \cup {None}] /\ i \in Ids /\ users[i] \in User
  BY AccountType DEF TypeOK
<1>1. UNCHANGED users \/ UsersWritten
  BY Writers DEF WrittenByWriters
<1>2. CASE Restart
  <2>1. users'[i] = users[i] \/ users'[i] = [users[i] EXCEPT !.admin = TRUE]
    BY <1>0, <1>2 DEF Restart, OldestPromoted
  <2> QED BY <1>0, <2>1 DEF User
<1>3. ASSUME NEW r \in Requests, CreateUser(r) PROVE users'[i] = users[i]
  BY <1>0, <1>3, CreateUserCreates DEF Creates
<1>4. ASSUME NEW r \in Requests, UpdatePassword(r)
      PROVE  \/ users'[i].password = users[i].password
             \/ /\ Step(r, "revoke", [mem[r] EXCEPT !.proof = r])
                /\ mem[r].user = i /\ users'[i].password = r
  <2>1. CASE mem[r].user = i
    <3>1. \/ users'[i] = users[i]
          \/ /\ users'[i] = [users[i] EXCEPT !.password = r]
             /\ Step(r, "revoke", [mem[r] EXCEPT !.proof = r])
      BY <1>0, <1>4, <2>1 DEF UpdatePassword
    <3>2. [users[i] EXCEPT !.password = r].password = r
      BY <1>0 DEF User
    <3> QED BY <2>1, <3>1, <3>2
  <2>2. CASE mem[r].user # i
    BY <1>0, <1>4, <2>2 DEF UpdatePassword
  <2> QED BY <2>1, <2>2
<1>5. ASSUME NEW r \in Requests, MarkVerified(r) PROVE users'[i].password = users[i].password
  <2>1. users'[i] = users[i] \/ users'[i] = [users[i] EXCEPT !.verified = TRUE]
    BY <1>0, <1>5 DEF MarkVerified, MarkUser
  <2> QED BY <1>0, <2>1 DEF User
<1>6. ASSUME NEW r \in Requests, CloseAccount(r)
      PROVE  Gone(i) \/ users'[i].password = users[i].password
  <2>1. CASE mem[r].user = i
    <3>1. i \notin Account'
      BY <1>0, <1>6, <2>1 DEF CloseAccount, Closed, Account
    <3> QED BY <3>1, AccountsKept DEF Kept
  <2>2. CASE mem[r].user # i
    BY <1>0, <1>6, <2>2 DEF CloseAccount, Closed
  <2> QED BY <2>1, <2>2
<1> QED BY <1>1, <1>2, <1>3, <1>4, <1>5, <1>6 DEF UsersWritten

\* No session of an old password appears, unless a restart or a revocation came between.
LEMMA SessionStep ==
    ASSUME TypeOK, MemInv, RowsOfTheirAccount, SessionInv, [Next]_vars
    PROVE  SessionInv'
<1> SUFFICES ASSUME NEW t \in Author, sessions'[t] # None, ~sessions'[t].late, ~crashed'
             PROVE  \/ sessions'[t].proof = users'[sessions'[t].user].password
                    \/ \E r \in Requests : /\ at'[r] = "revoke"
                                           /\ mem'[r].user = sessions'[t].user
                                           /\ users'[sessions'[t].user].password = r
  BY DEF SessionInv
<1> DEFINE i == sessions'[t].user
<1>0. at \in [Requests -> Location] /\ mem \in [Requests -> Memory]
      /\ sessions \in [Author -> Session \cup {None}]
  BY DEF TypeOK
<1>1. CASE ~Stays(t)
  <2>1. /\ t \in Requests /\ IssueSession(t)
        /\ sessions'[t] = SessionOf(t)
    BY <1>1, SessionsKept
  <2>2. users' = users
    BY <2>1 DEF IssueSession
  <2>3. i = mem[t].user /\ sessions'[t].proof = mem[t].proof
    BY <2>1 DEF SessionOf
  <2>4. users[mem[t].user].password = mem[t].proof
    <3>1. SUFFICES ASSUME users[mem[t].user].password # mem[t].proof PROVE FALSE
      OBVIOUS
    <3>2. (\/ users[mem[t].user].born # mem[t].born
           \/ users[mem[t].user].password # mem[t].proof) = TRUE
      BY <3>1
    <3>3. SessionOf(t).late = TRUE
      BY <3>2, Zenon DEF SessionOf
    <3> QED BY <2>1, <3>3
  <2> QED BY <2>2, <2>3, <2>4
<1>2. CASE Stays(t)
  <2>0. /\ i = sessions[t].user /\ ~sessions[t].late /\ i \in Account /\ ~crashed
        /\ sessions[t] \in Session
    <3>1. i = sessions[t].user /\ ~sessions[t].late
      BY <1>2 DEF SameRow, Stays
    <3>2. i \in Account
      BY <1>2, <3>1 DEF RowsOfTheirAccount, Stays
    <3>3. ~crashed
      BY HistoryGrows DEF Remembers
    <3> QED BY <1>0, <1>2, <3>1, <3>2, <3>3 DEF Stays
  <2>1. ~Gone(i)
    BY DEF Gone
  <2>2. ASSUME NEW r \in Requests, Step(r, "revoke", [mem[r] EXCEPT !.proof = r]),
               mem[r].user = i, users'[i].password = r
        PROVE  at'[r] = "revoke" /\ mem'[r].user = i
    <3> DEFINE m == [mem[r] EXCEPT !.proof = r]
    <3>1. m.user = mem[r].user
      BY <1>0 DEF Memory
    <3>2. at'[r] = "revoke" /\ mem'[r] = m
      BY <1>0, <2>2 DEF Step
    <3> QED BY <2>2, <3>1, <3>2
  <2>3. ASSUME users'[i].password = users[i].password
        PROVE  \/ sessions'[t].proof = users'[i].password
               \/ \E r \in Requests : /\ at'[r] = "revoke" /\ mem'[r].user = i
                                      /\ users'[i].password = r
    <3>1. ASSUME NEW r \in Requests, RevokeSessions(r), mem[r].user = i, Current(r),
                 sessions'[t].proof = r
          PROVE  sessions'[t].proof = users'[i].password
      BY <2>3, <3>1 DEF Current
    <3>2. ASSUME NEW r \in Requests, at[r] = "revoke", mem[r].user = i, users[i].password = r
          PROVE  \/ sessions'[t].proof = users'[i].password
                 \/ at'[r] = "revoke" /\ mem'[r].user = i /\ users'[i].password = r
      <4>1. CASE RevokeSessions(r)
        <5>1. sessions'[t] = [sessions[t] EXCEPT !.proof = IF Current(r) THEN r ELSE @]
          BY <1>2, <2>0, <3>2, <4>1 DEF RevokeSessions, Revoked
        <5>2. Current(r)
          BY <2>0, <3>2 DEF Current
        <5> QED BY <2>0, <2>3, <3>2, <5>1, <5>2 DEF Session
      <4> QED BY <2>3, <3>2, <4>1, RevokeWaits
    <3>3. CASE sessions[t].proof = users[i].password
      BY <1>2, <2>0, <2>3, <3>1, <3>3 DEF Stays
    <3>4. CASE \E r \in Requests : at[r] = "revoke" /\ mem[r].user = i /\ users[i].password = r
      BY <3>2, <3>4
    <3> QED BY <1>2, <2>0, <3>3, <3>4 DEF SessionInv, Stays
  <2> QED BY <2>0, <2>1, <2>2, <2>3, PasswordsKept
<1> QED BY <1>1, <1>2

--------------------------------------------------------------------------------
(* Links                                                                        *)

\* A request that moves on is past the start.
LEMMA MovesOn ==
    ASSUME TypeOK, NEW r \in Requests, Moves(r)
    PROVE  at'[r] \notin {"none", "consume"}
<1>0. at \in [Requests -> Location]
  BY DEF TypeOK
<1>1. CASE CheckKnown(r)
  BY <1>0, <1>1 DEF CheckKnown, Step, To
<1>2. CASE CountUsers(r)
  BY <1>0, <1>2 DEF CountUsers, Step, To
<1>3. CASE CreateUser(r)
  BY <1>0, <1>3 DEF CreateUser, Step, To
<1>4. CASE SeedIdentity(r)
  BY <1>0, <1>4 DEF SeedIdentity, AfterSignUp, Step, To
<1>5. CASE AdoptOrphans(r)
  BY <1>0, <1>5 DEF AdoptOrphans, AfterSignUp, Step, To
<1>6. CASE IssueSession(r)
  BY <1>0, <1>6 DEF IssueSession, Step, To
<1>7. CASE CreateLink(r)
  BY <1>0, <1>7 DEF CreateLink, Step, To
<1>8. CASE DropSession(r)
  BY <1>0, <1>8 DEF DropSession, Step, To
<1>9. CASE CheckLockout(r)
  BY <1>0, <1>9 DEF CheckLockout, Step, To
<1>10. CASE TryPassword(r)
  BY <1>0, <1>10 DEF TryPassword, Step, To
<1>11. CASE ResendVerification(r)
  BY <1>0, <1>11 DEF ResendVerification, Mailed, Step, To
<1>12. CASE RequestReset(r)
  BY <1>0, <1>12 DEF RequestReset, Mailed, Step, To
<1>13. CASE ReadFailures(r)
  BY <1>0, <1>13 DEF ReadFailures, Step, To
<1>14. CASE RecordFailure(r)
  BY <1>0, <1>14 DEF RecordFailure, Recorded, Step, To
<1>15. CASE ClearFailures(r)
  BY <1>0, <1>15 DEF ClearFailures, Step, To
<1>16. CASE VerifyCurrent(r)
  BY <1>0, <1>16 DEF VerifyCurrent, Step, To
<1>17. CASE ConsumeLink(r)
  BY <1>0, <1>17 DEF ConsumeLink, Step, To
<1>18. CASE FindAccount(r)
  BY <1>0, <1>18 DEF FindAccount, Step, To
<1>19. CASE UpdatePassword(r)
  BY <1>0, <1>19 DEF UpdatePassword, Step, To
<1>20. CASE RevokeSessions(r)
  BY <1>0, <1>20 DEF RevokeSessions, Revoked, Step, To
<1>21. CASE MarkVerified(r)
  BY <1>0, <1>21 DEF MarkVerified, Step, To
<1>22. CASE CloseAccount(r)
  BY <1>0, <1>22 DEF CloseAccount, Closed, Step, To
<1>23. CASE FindIdentity(r)
  BY <1>0, <1>23 DEF FindIdentity, Step, To
<1>24. CASE FindByEmail(r)
  BY <1>0, <1>24 DEF FindByEmail, SignUp, Step, To
<1>25. CASE TieIdentity(r)
  BY <1>0, <1>25 DEF TieIdentity, Step, To
<1>26. CASE ListIdentities(r)
  BY <1>0, <1>26 DEF ListIdentities, Step, To
<1>27. CASE DeleteIdentity(r)
  BY <1>0, <1>27 DEF DeleteIdentity, Step, To
<1>28. CASE BeginLinking(r)
  BY <1>0, <1>28 DEF BeginLinking, Offered, Step, To
<1> QED
  BY <1>1, <1>2, <1>3, <1>4, <1>5, <1>6, <1>7, <1>8, <1>9, <1>10, <1>11,
     <1>12, <1>13, <1>14, <1>15, <1>16, <1>17, <1>18, <1>19, <1>20, <1>21,
     <1>22, <1>23, <1>24, <1>25, <1>26, <1>27, <1>28 DEF Moves

\* A request that is done stays done.
LEMMA DoneStays ==
    ASSUME TypeOK, MemInv, [Next]_vars, NEW r \in Requests, at[r] = "done"
    PROVE  at'[r] = "done"
<1>1. CASE Begins(r)
  BY <1>1 DEF Begins, MemInv, MemFor, Path
<1>2. CASE Moves(r)
  BY <1>2 DEF Moves
<1>3. CASE Restart
  BY <1>3, RestartEnds
<1> QED BY <1>1, <1>2, <1>3, OneMoves DEF Waits

\* A link is redeemed by the request that finds it unused and uses it up.
Redeems(r, k) ==
    /\ ConsumeLink(r) /\ mem[r].token = k /\ links[k] # None /\ ~links[k].used
    /\ links'[k] # None /\ links'[k].used /\ links'[k].user = links[k].user
    /\ redeemed'[k] = redeemed[k] \cup {r}
    /\ op'[r] = op[r] /\ at'[r] = (IF op[r] = "verify" THEN "mark" ELSE "find")
    /\ mem'[r].user = links[k].user

\* Redemptions are remembered.
LEMMA RedeemedKept ==
    ASSUME TypeOK, MemInv, [Next]_vars, NEW k \in Author
    PROVE  redeemed'[k] = redeemed[k] \/ \E r \in Requests : Redeems(r, k)
<1>0. /\ redeemed \in [Author -> SUBSET Requests] /\ links \in [Author -> Link \cup {None}]
      /\ at \in [Requests -> Location] /\ mem \in [Requests -> Memory]
  BY DEF TypeOK
<1>1. UNCHANGED redeemed \/ \E r \in Requests : ConsumeLink(r)
  BY Writers DEF WrittenByWriters, RedeemedWritten
<1>2. ASSUME NEW r \in Requests, ConsumeLink(r), redeemed'[k] # redeemed[k]
      PROVE  Redeems(r, k)
  <2>1. mem[r].token = k /\ links[k] # None /\ ~links[k].used
    BY <1>0, <1>2 DEF ConsumeLink
  <2> DEFINE m == [mem[r] EXCEPT !.user = links[k].user, !.born = links[k].born]
  <2>2. m.user = links[k].user
    BY <1>0 DEF Memory
  <2>3. /\ links' = [links EXCEPT ![k].used = TRUE]
        /\ redeemed' = [redeemed EXCEPT ![k] = @ \cup {r}]
        /\ Step(r, IF op[r] = "verify" THEN "mark" ELSE "find", m) /\ op' = op
    BY <1>2, <2>1 DEF ConsumeLink
  <2>4. links[k] \in Link /\ [links[k] EXCEPT !.used = TRUE] \in Link
    BY <1>0, <2>1 DEF Link
  <2>5. links'[k] # None /\ links'[k].used /\ links'[k].user = links[k].user
    <3>1. links'[k] = [links[k] EXCEPT !.used = TRUE]
      BY <1>0, <2>3
    <3> QED BY <2>4, <3>1, RowsAreThere DEF Link
  <2> HIDE DEF m
  <2>6. at'[r] = (IF op[r] = "verify" THEN "mark" ELSE "find") /\ mem'[r] = m
    BY <1>0, <2>3 DEF Step
  <2> QED BY <1>0, <1>2, <2>1, <2>2, <2>3, <2>5, <2>6 DEF Redeems
<1> QED BY <1>1, <1>2

\* A link that is gone and has been redeemed is never made again.
LEMMA LinkUsedUp ==
    ASSUME TypeOK, MemInv, LinkInv, [Next]_vars, NEW k \in Author, redeemed[k] # {}
    PROVE  /\ links'[k] = None \/ links'[k].used
           /\ links'[k] # None => links[k] # None /\ links'[k].user = links[k].user
<1>1. ~(k \in Requests /\ CreateLink(k))
  BY DEF LinkInv, CreateLink
<1> QED BY <1>1, LinksKept DEF LinkInv

\* What becomes of a reset that has redeemed its link.
Honours(r, k) ==
    \/ at[r] = "find" /\ (links[k] = None \/ links[k].user = mem[r].user)
    \/ at[r] = "update" \/ r \in applied \cup unwritten \/ crashed \/ links[k] = None

\* A redeemed link does what it is for.
LEMMA HonoursStep ==
    ASSUME TypeOK, MemInv, RowsOfTheirAccount, LinkInv, [Next]_vars,
           NEW k \in Author, NEW r \in redeemed[k], Honours(r, k)
    PROVE  Honours(r, k)'
<1>0. /\ r \in Requests /\ at \in [Requests -> Location] /\ mem \in [Requests -> Memory]
  BY DEF TypeOK
<1>1. Remembers
  BY HistoryGrows
<1>2. links[k] = None => links'[k] = None
  BY LinkUsedUp
<1>3. links'[k] # None => links[k] # None /\ links'[k].user = links[k].user
  BY LinkUsedUp
<1>4. CASE Waits(r)
  BY <1>1, <1>2, <1>3, <1>4 DEF Honours, Waits, Remembers
<1>5. CASE Begins(r)
  BY <1>0, <1>5 DEF Begins, MemInv, MemFor, Path, LinkInv
<1>6. CASE Restart
  BY <1>6 DEF Restart, Honours
<1>7. CASE Moves(r) /\ at[r] = "find"
  <2>1. FindAccount(r)
    BY <1>7 DEF Moves
  <2>2. CASE mem[r].user \in Account
    BY <1>0, <2>1, <2>2 DEF FindAccount, Step, Honours
  <2>3. CASE mem[r].user \notin Account
    <3>1. links[k] = None \/ links[k].user # mem[r].user
      BY <2>3 DEF RowsOfTheirAccount
    <3> QED BY <1>1, <1>2, <1>7, <3>1 DEF Honours, Remembers
  <2> QED BY <2>2, <2>3
<1>8. CASE Moves(r) /\ at[r] = "update"
  <2>1. r \in applied' \cup unwritten'
    BY <1>8 DEF Moves, UpdatePassword
  <2> QED BY <2>1 DEF Honours
<1>9. CASE Moves(r) /\ at[r] \notin {"find", "update"}
  BY <1>1, <1>2, <1>9 DEF Honours, Remembers
<1> QED BY <1>0, <1>4, <1>5, <1>6, <1>7, <1>8, <1>9, OneMoves

\* A link is redeemed once, and its request goes on to honour it.
LEMMA LinkStep ==
    ASSUME TypeOK, MemInv, RowsOfTheirAccount, LinkInv, [Next]_vars
    PROVE  LinkInv'
<1>0. redeemed \in [Author -> SUBSET Requests] /\ op \in [Requests -> Operations]
  BY DEF TypeOK
<1> SUFFICES ASSUME NEW k \in Author
             PROVE  /\ redeemed'[k] # {} => links'[k] = None \/ links'[k].used
                    /\ k \in Requests /\ (redeemed'[k] # {} \/ links'[k] # None) => at'[k] = "done"
                    /\ \A r, s \in redeemed'[k] : r = s
                    /\ \A r \in redeemed'[k] :
                          /\ at'[r] \notin {"none", "consume"}
                          /\ op'[r] = "reset" => Honours(r, k)'
  BY DEF LinkInv, Honours
<1>1. /\ redeemed[k] # {} => links[k] = None \/ links[k].used
      /\ k \in Requests /\ (redeemed[k] # {} \/ links[k] # None) => at[k] = "done"
      /\ \A r, s \in redeemed[k] : r = s
      /\ \A r \in redeemed[k] : at[r] \notin {"none", "consume"}
      /\ \A r \in redeemed[k] : op[r] = "reset" => Honours(r, k)
  BY DEF LinkInv, Honours
<1>2. ASSUME NEW r \in redeemed[k]
      PROVE  at'[r] \notin {"none", "consume"} /\ (op'[r] = "reset" => Honours(r, k)')
  <2>1. r \in Requests
    BY <1>0
  <2>2. CASE Waits(r)
    BY <1>1, <2>2, HonoursStep DEF Waits
  <2>3. CASE Begins(r)
    BY <1>1, <2>1, <2>3 DEF Begins, MemInv, MemFor, Path
  <2>4. CASE Moves(r)
    BY <1>1, <2>1, <2>4, MovesOn, HonoursStep DEF Moves
  <2>5. CASE Restart
    BY <1>1, <2>1, <2>5, RestartEnds, HonoursStep
  <2> QED BY <2>1, <2>2, <2>3, <2>4, <2>5, OneMoves
<1>3. CASE redeemed'[k] = redeemed[k]
  <2>1. redeemed'[k] # {} => links'[k] = None \/ links'[k].used
    BY <1>3, LinkUsedUp
  <2>2. ASSUME k \in Requests, redeemed'[k] # {} \/ links'[k] # None PROVE at'[k] = "done"
    <3>1. CASE redeemed[k] # {} \/ links[k] # None
      BY <1>1, <2>2, <3>1, DoneStays
    <3>2. CASE redeemed[k] = {} /\ links[k] = None
      <4>1. CreateLink(k)
        BY <1>3, <2>2, <3>2, LinksKept
      <4> QED BY <2>2, <4>1 DEF CreateLink, To, Step, TypeOK
    <3> QED BY <3>1, <3>2
  <2> QED BY <1>1, <1>2, <1>3, <2>1, <2>2
<1>4. ASSUME NEW q \in Requests, Redeems(q, k)
      PROVE  /\ redeemed'[k] # {} => links'[k] = None \/ links'[k].used
             /\ k \in Requests /\ (redeemed'[k] # {} \/ links'[k] # None) => at'[k] = "done"
             /\ \A r, s \in redeemed'[k] : r = s
             /\ \A r \in redeemed'[k] :
                   /\ at'[r] \notin {"none", "consume"}
                   /\ op'[r] = "reset" => Honours(r, k)'
  <2>1. redeemed[k] = {} /\ redeemed'[k] = {q}
    BY <1>1, <1>4 DEF Redeems
  <2>2. k \in Requests => at'[k] = "done"
    BY <1>1, <1>4, DoneStays DEF Redeems
  <2>3. at'[q] \notin {"none", "consume"}
    BY <1>4 DEF Redeems
  <2>4. op'[q] = "reset" => Honours(q, k)'
    BY <1>4 DEF Redeems, Honours
  <2> QED BY <1>4, <2>1, <2>2, <2>3, <2>4 DEF Redeems
<1> QED BY <1>3, <1>4, RedeemedKept

--------------------------------------------------------------------------------
(* Failures                                                                     *)

\* Failures that reach the limit lock.
LEMMA FailuresStep ==
    ASSUME TypeOK, MemInv, FailuresLock, [Next]_vars
    PROVE  FailuresLock'
<1>0. failures \in [Emails -> Failures] /\ raced \in [Emails -> BOOLEAN]
  BY DEF TypeOK
<1>1. UNCHANGED <<failures, raced>> \/ FailuresWritten
  BY Writers DEF WrittenByWriters
<1>2. CASE UNCHANGED <<failures, raced>>
  BY <1>2 DEF FailuresLock
<1> SUFFICES ASSUME NEW f \in Emails, failures'[f].count >= MaxFailures, ~raced'[f], FailuresWritten
             PROVE  failures'[f].lock # "none"
  BY <1>1, <1>2 DEF FailuresLock
<1>a. /\ failures[f] \in Failures
      /\ failures[f].count >= MaxFailures /\ ~raced[f] => failures[f].lock # "none"
  BY <1>0 DEF FailuresLock
<1>3. ASSUME NEW e \in Emails, LockExpires(e) PROVE failures'[f].lock # "none"
  <2>1. failures'[f] = IF f = e THEN [failures[f] EXCEPT !.lock = "over"] ELSE failures[f]
    BY <1>0, <1>3 DEF LockExpires
  <2>2. raced' = raced
    BY <1>3 DEF LockExpires
  <2>3. CASE f = e
    BY <1>a, <2>1, <2>3 DEF Failures
  <2> QED BY <1>a, <2>1, <2>2, <2>3
<1>4. ASSUME NEW e \in Emails, WindowElapses(e) PROVE failures'[f].lock # "none"
  <2>1. failures'[f] = IF f = e THEN [failures[f] EXCEPT !.old = TRUE] ELSE failures[f]
    BY <1>0, <1>4 DEF WindowElapses
  <2>2. raced' = raced
    BY <1>4 DEF WindowElapses
  <2>3. failures'[f].count = failures[f].count /\ failures'[f].lock = failures[f].lock
    BY <1>a, <2>1 DEF Failures
  <2> QED BY <1>a, <2>2, <2>3
<1>5. ASSUME NEW r \in Requests, ClearFailures(r) PROVE failures'[f].lock # "none"
  <2>1. mem[r].email \in Emails
    BY <1>5 DEF ClearFailures, MemInv, MemFor, WithEmail
  <2>2. raced' = raced
    BY <1>5 DEF ClearFailures, Stay
  <2>3. CASE f = mem[r].email
    BY <1>0, <1>5, <2>3, MaxFailuresAssumption DEF ClearFailures, NoFailures
  <2>4. CASE f # mem[r].email
    BY <1>0, <1>5, <1>a, <2>2, <2>4 DEF ClearFailures
  <2> QED BY <2>3, <2>4
<1>6. ASSUME NEW r \in Requests, RecordFailure(r) PROVE failures'[f].lock # "none"
  <2> DEFINE e == mem[r].email
             row == mem[r].read
             now == failures[e]
             projected == IF row.old THEN 1 ELSE row.count + 1
             count == IF row.old \/ now.count = 0 THEN 1
                      ELSE IF now.count > MaxFailures THEN now.count ELSE now.count + 1
             b == (raced[e] /\ now.count # 0) \/ row # now
  <2>1. e \in Emails
    BY <1>6 DEF RecordFailure, Recorded, MemInv, MemFor, WithEmail
  <2>2. /\ failures' = [failures EXCEPT ![e] =
                          [count |-> count, old |-> FALSE,
                           lock |-> IF projected >= MaxFailures THEN "live" ELSE "none"]]
        /\ raced' = [raced EXCEPT ![e] = (@ /\ now.count # 0) \/ row # now]
    BY <1>6 DEF RecordFailure, Recorded
  <2>3. CASE f # e
    <3> HIDE DEF e
    <3>1. failures'[f] = failures[f] /\ raced'[f] = raced[f]
      BY <1>0, <2>2, <2>3
    <3> QED BY <1>a, <3>1
  <2>4. CASE f = e
    <3>1. row = now
      <4>1. raced'[e] = ((raced[e] /\ now.count # 0) \/ row # now)
        BY <1>0, <2>1, <2>2
      <4> HIDE DEF e, row, now
      <4> QED BY <2>4, <4>1
    <3>2. now \in Failures /\ now.count \in Nat
      BY <1>a, <2>4, MaxFailuresAssumption DEF Failures
    <3>3. failures'[f] = [count |-> count, old |-> FALSE,
                          lock |-> IF projected >= MaxFailures THEN "live" ELSE "none"]
      BY <1>0, <2>1, <2>2, <2>4
    <3>4. count >= MaxFailures => projected >= MaxFailures
      <4> HIDE DEF now, row
      <4> QED BY <3>1, <3>2, MaxFailuresAssumption
    <3>5. count >= MaxFailures
      <4> HIDE DEF count, projected
      <4> QED BY <3>3
    <3> HIDE DEF count, projected
    <3> QED BY <3>3, <3>4, <3>5
  <2> QED BY <2>3, <2>4
<1> QED BY <1>3, <1>4, <1>5, <1>6 DEF FailuresWritten

--------------------------------------------------------------------------------
(* The first account                                                            *)

\* Where a request comes from that is about to create an account, has created
\* one, or has listed its identities.
LEMMA Arrivals ==
    ASSUME TypeOK, MemInv, [Next]_vars, NEW r \in Requests,
           at'[r] \in {"create", "seed", "adopt", "untie"}
    PROVE  Waits(r) \/ CountUsers(r) \/ CreateUser(r) \/ SeedIdentity(r) \/ ListIdentities(r)
<1>0. at \in [Requests -> Location]
  BY DEF TypeOK
<1>1. ASSUME Begins(r) PROVE FALSE
  <2>1. ~BeginByEmail(r)
    BY <1>0 DEF BeginByEmail, Begin, Step
  <2>2. ~BeginMail(r)
    BY <1>0 DEF BeginMail, Begin, Step
  <2>3. ~BeginWithSession(r)
    BY <1>0 DEF BeginWithSession, Begin, Step
  <2>4. ~BeginInSettings(r)
    BY <1>0 DEF BeginInSettings, Begin, Step
  <2>5. ~BeginVerify(r)
    BY <1>0 DEF BeginVerify, WithLink, Begin, Step
  <2>6. ~BeginReset(r)
    BY <1>0 DEF BeginReset, WithLink, Begin, Step
  <2>7. ~BeginGoogle(r)
    BY <1>0 DEF BeginGoogle, Offered, Begin, Step
  <2>8. ~Callback(r)
    BY <1>0 DEF Callback, Popped, Exchanged, Begin, Step
  <2>9. ~DeviceSignIn(r)
    BY <1>0 DEF DeviceSignIn, Begin, Step
  <2> QED BY <1>1, <2>1, <2>2, <2>3, <2>4, <2>5, <2>6, <2>7, <2>8, <2>9 DEF Begins
<1>2. ASSUME Moves(r)
      PROVE CountUsers(r) \/ CreateUser(r) \/ SeedIdentity(r) \/ ListIdentities(r)
  <2>1. ~CheckKnown(r)
    BY <1>0 DEF CheckKnown, Step, To
  <2>2. ~AdoptOrphans(r)
    BY <1>0 DEF AdoptOrphans, AfterSignUp, Step, To
  <2>3. ~IssueSession(r)
    BY <1>0 DEF IssueSession, Step, To
  <2>4. ~CreateLink(r)
    BY <1>0 DEF CreateLink, Step, To
  <2>5. ~DropSession(r)
    BY <1>0 DEF DropSession, Step, To
  <2>6. ~CheckLockout(r)
    BY <1>0 DEF CheckLockout, Step, To
  <2>7. ~TryPassword(r)
    BY <1>0 DEF TryPassword, Step, To
  <2>8. ~ResendVerification(r)
    BY <1>0 DEF ResendVerification, Mailed, Step, To
  <2>9. ~RequestReset(r)
    BY <1>0 DEF RequestReset, Mailed, Step, To
  <2>10. ~ReadFailures(r)
    BY <1>0 DEF ReadFailures, Step, To
  <2>11. ~RecordFailure(r)
    BY <1>0 DEF RecordFailure, Recorded, Step, To
  <2>12. ~ClearFailures(r)
    BY <1>0 DEF ClearFailures, Step, To
  <2>13. ~VerifyCurrent(r)
    BY <1>0 DEF VerifyCurrent, Step, To
  <2>14. ~ConsumeLink(r)
    BY <1>0 DEF ConsumeLink, Step, To
  <2>15. ~FindAccount(r)
    BY <1>0 DEF FindAccount, Step, To
  <2>16. ~UpdatePassword(r)
    BY <1>0 DEF UpdatePassword, Step, To
  <2>17. ~RevokeSessions(r)
    BY <1>0 DEF RevokeSessions, Revoked, Step, To
  <2>18. ~MarkVerified(r)
    BY <1>0 DEF MarkVerified, Step, To
  <2>19. ~CloseAccount(r)
    BY <1>0 DEF CloseAccount, Closed, Step, To
  <2>20. ~FindIdentity(r)
    BY <1>0 DEF FindIdentity, Step, To
  <2>21. ~FindByEmail(r)
    BY <1>0 DEF FindByEmail, SignUp, Step, To
  <2>22. ~TieIdentity(r)
    BY <1>0 DEF TieIdentity, Step, To
  <2>23. ~DeleteIdentity(r)
    BY <1>0 DEF DeleteIdentity, Step, To
  <2>24. ~BeginLinking(r)
    BY <1>0 DEF BeginLinking, Offered, Step, To
  <2> QED
    BY <1>2, <2>1, <2>2, <2>3, <2>4, <2>5, <2>6, <2>7, <2>8, <2>9, <2>10,
       <2>11, <2>12, <2>13, <2>14, <2>15, <2>16, <2>17, <2>18, <2>19, <2>20,
       <2>21, <2>22, <2>23, <2>24 DEF Moves
<1>3. ASSUME Restart PROVE FALSE
  BY <1>3, RestartEnds
<1> QED BY <1>1, <1>2, <1>3, OneMoves

\* Counting the accounts.
LEMMA Counts ==
    ASSUME TypeOK, NEW r \in Requests, CountUsers(r)
    PROVE  /\ at'[r] = "create" /\ (mem'[r].first <=> Account = {}) /\ mem'[r].user = mem[r].user
           /\ \A q \in Requests : q # r => at'[q] = at[q] /\ mem'[q] = mem[q]
           /\ UNCHANGED <<db, leaderless>>
           /\ Account = {} /\ (\E b \in Requests : First(b)) => paired'
<1>0. at \in [Requests -> Location] /\ mem \in [Requests -> Memory]
  BY DEF TypeOK
<1> DEFINE m == [mem[r] EXCEPT !.first = Account = {}]
<1>1. m \in Memory /\ (m.first <=> Account = {}) /\ m.user = mem[r].user
  BY <1>0 DEF Memory
<1>2. Step(r, "create", m) /\ UNCHANGED <<db, leaderless>>
  BY DEF CountUsers
<1> HIDE DEF m
<1>3. /\ at'[r] = "create" /\ mem'[r] = m
      /\ \A q \in Requests : q # r => at'[q] = at[q] /\ mem'[q] = mem[q]
  BY <1>0, <1>1, <1>2, StepType DEF Location
<1>4. Account = {} /\ (\E b \in Requests : First(b)) => paired'
  BY DEF CountUsers, First
<1> QED BY <1>1, <1>2, <1>3, <1>4

\* An admin stays one.
LEMMA AdminsKept ==
    ASSUME TypeOK, MemInv, FirstAccountLeads, [Next]_vars, NEW i \in Account
    PROVE  leaderless \/ i \notin Account' \/ users'[i].admin = users[i].admin
<1>0. i \in Ids /\ users \in [Ids -> User \cup {None}] /\ users[i] \in User
  BY AccountType DEF Account, TypeOK
<1>1. UNCHANGED users \/ UsersWritten
  BY Writers DEF WrittenByWriters
<1>2. CASE UNCHANGED users
  BY <1>2
<1>3. CASE Restart /\ ~leaderless
  <2>1. PICK j \in Account : users[j].admin
    BY <1>3 DEF FirstAccountLeads
  <2>2. users'[i] = users[i]
    BY <1>0, <1>3, <2>1 DEF Restart, OldestPromoted
  <2> QED BY <2>2
<1>4. ASSUME NEW r \in Requests, CreateUser(r) PROVE users'[i] = users[i]
  <2>1. CASE UNCHANGED users
    BY <2>1
  <2>2. ASSUME NEW j \in Ids, Creates(r, j) PROVE users'[i] = users[i]
    BY <1>0, <2>2 DEF Creates
  <2> QED BY <1>4, <2>1, <2>2, CreateUserCreates
<1>5. ASSUME NEW r \in Requests, UpdatePassword(r) PROVE users'[i].admin = users[i].admin
  <2>1. users'[i] = users[i] \/ users'[i] = [users[i] EXCEPT !.password = r]
    BY <1>0, <1>5 DEF UpdatePassword
  <2> QED BY <1>0, <2>1 DEF User
<1>6. ASSUME NEW r \in Requests, MarkVerified(r) PROVE users'[i].admin = users[i].admin
  <2>1. users'[i] = users[i] \/ users'[i] = [users[i] EXCEPT !.verified = TRUE]
    BY <1>0, <1>6 DEF MarkVerified, MarkUser
  <2> QED BY <1>0, <2>1 DEF User
<1>7. ASSUME NEW r \in Requests, CloseAccount(r), i \in Account' PROVE users'[i] = users[i]
  <2>1. users'[i] = users[i] \/ users'[i] = None
    BY <1>0, <1>7 DEF CloseAccount, Closed
  <2> QED BY <1>7, <2>1 DEF Account
<1> QED BY <1>1, <1>2, <1>3, <1>4, <1>5, <1>6, <1>7 DEF UsersWritten

\* An admin is one already, or the account that the first registration creates.
LEMMA AdminsMade ==
    ASSUME TypeOK, MemInv, FirstAccountLeads, [Next]_vars, NEW i \in Account', users'[i].admin
    PROVE  \/ leaderless
           \/ i \in Account /\ users[i].admin
           \/ \E r \in Requests : CreateUser(r) /\ Creates(r, i) /\ mem[r].first
<1>1. ASSUME NEW r \in Requests, CreateUser(r), Creates(r, i)
      PROVE  mem[r].first
  <2>1. NewUser(r).admin = mem[r].first
    BY DEF NewUser
  <2> QED BY <1>1, <2>1 DEF Creates
<1>2. CASE i \in Account
  BY <1>2, AdminsKept
<1> QED BY <1>1, <1>2, AccountsMade

\* Who counted the accounts before it created one.
LEMMA CreatorCounted ==
    ASSUME LeadInv, NEW r \in Requests, at[r] = "create", Account = {}, ~leaderless
    PROVE  First(r)
BY DEF LeadInv, First

\* The first account is an admin, or the registrations raced.
LEMMA LeadStep ==
    ASSUME TypeOK, MemInv, LeadInv, FirstAccountLeads, [Next]_vars
    PROVE  LeadInv'
<1>0. /\ at \in [Requests -> Location] /\ mem \in [Requests -> Memory]
      /\ users \in [Ids -> User \cup {None}]
  BY DEF TypeOK
<1>a. Remembers
  BY HistoryGrows
<1>b. ASSUME NEW r \in Requests, at'[r] = "create"
      PROVE  \/ Waits(r) /\ at[r] = "create" /\ mem'[r] = mem[r]
             \/ CountUsers(r)
  <2>1. ASSUME CreateUser(r) \/ SeedIdentity(r) \/ ListIdentities(r) PROVE FALSE
    BY <1>0, <1>b, <2>1 DEF CreateUser, SeedIdentity, ListIdentities, AfterSignUp, To, Step
  <2> QED BY <1>b, <2>1, Arrivals DEF Waits
<1>1. ASSUME NEW r \in Requests, NEW s \in Requests, First(r)', First(s)', r # s PROVE paired'
  <2>1. ASSUME NEW x \in Requests, NEW y \in Requests, First(x)', First(y)', x # y, CountUsers(x)
        PROVE  paired'
    <3>1. Account = {}
      BY <2>1, Counts DEF First
    <3>2. at'[y] = at[y] /\ mem'[y] = mem[y]
      BY <2>1, Counts
    <3>3. First(y)
      BY <2>1, <3>2 DEF First
    <3> QED BY <2>1, <3>1, <3>3, Counts
  <2>2. CASE Waits(r) /\ Waits(s)
    BY <1>1, <1>a, <2>2 DEF Waits, First, LeadInv, Remembers
  <2> QED BY <1>1, <1>b, <2>1, <2>2 DEF First
<1>2. ASSUME NEW r \in Requests, First(r)' PROVE Account' = {} \/ paired' \/ leaderless'
  <2>1. CASE CountUsers(r)
    BY <1>2, <2>1, Counts DEF First, Account
  <2>2. CASE Waits(r)
    <3>1. First(r)
      BY <1>2, <2>2 DEF Waits, First
    <3>2. ASSUME NEW i \in Account', i \notin Account, ~leaderless, Account = {} PROVE paired
      <4>1. PICK q \in Requests : CreateUser(q) /\ Creates(q, i)
        BY <3>2, AccountsMade
      <4>2. First(q) /\ q # r
        BY <1>2, <3>2, <4>1, CreatorCounted DEF Creates, First
      <4> QED BY <3>1, <4>2 DEF LeadInv
    <3> QED BY <1>a, <3>1, <3>2 DEF LeadInv, Remembers
  <2> QED BY <1>2, <1>b, <2>1, <2>2 DEF First
<1>3. ASSUME NEW r \in Requests, at'[r] = "create", ~mem'[r].first
      PROVE  Account' # {} \/ leaderless'
  <2>1. CASE CountUsers(r)
    BY <1>3, <2>1, Counts DEF Account
  <2>2. CASE Waits(r)
    <3>1. Account # {} \/ leaderless
      BY <1>3, <2>2 DEF Waits, LeadInv
    <3>2. CASE ~leaderless
      <4>1. PICK i \in Account : users[i].admin
        BY <3>1, <3>2 DEF FirstAccountLeads
      <4> QED BY <4>1, AccountsKept DEF Kept, Gone
    <3> QED BY <1>a, <3>2 DEF Remembers
  <2> QED BY <1>3, <1>b, <2>1, <2>2
<1>4. ASSUME NEW r \in Requests, at'[r] \in {"seed", "adopt"}, mem'[r].first
      PROVE  leaderless' \/ (mem'[r].user \in Account' /\ users'[mem'[r].user].admin)
  <2>1. CASE CreateUser(r)
    <3>1. PICK i \in Ids : Creates(r, i)
      BY <1>0, <1>4, <2>1, CreateUserMoves DEF To, Step
    <3>2. NewUser(r) \in User /\ NewUser(r).admin = mem[r].first
      <4>1. mem[r].email \in Emails
        BY <2>1 DEF CreateUser, MemInv, MemFor, WithEmail
      <4> QED BY <1>0, <4>1, NewUserType DEF NewUser
    <3> QED BY <1>4, <3>1, <3>2, RowsAreThere DEF Creates, Account
  <2>2. CASE SeedIdentity(r)
    <3>1. mem'[r] = mem[r] /\ at[r] = "seed" /\ UNCHANGED <<users, leaderless>>
      BY <1>0, <1>4, <2>2 DEF SeedIdentity, AfterSignUp, To, Step
    <3> QED BY <1>4, <3>1 DEF LeadInv, Account
  <2>3. CASE Waits(r)
    <3>1. leaderless \/ (mem[r].user \in Account /\ users[mem[r].user].admin)
      BY <1>4, <2>3 DEF Waits, LeadInv
    <3> QED BY <1>a, <2>3, <3>1, AccountsKept DEF Kept, Gone, Waits, Remembers
  <2>4. ASSUME CountUsers(r) \/ ListIdentities(r) PROVE FALSE
    BY <1>0, <1>4, <2>4 DEF CountUsers, ListIdentities, To, Step
  <2> QED BY <1>4, <2>1, <2>2, <2>3, <2>4, Arrivals
<1> QED BY <1>1, <1>2, <1>3, <1>4 DEF LeadInv, First

\* Who takes the orphaned rows.
LEMMA OrphansWritten ==
    ASSUME [Next]_vars
    PROVE  UNCHANGED orphans \/ \E r \in Requests : AdoptOrphans(r)
<1>1. ASSUME NEW r \in Requests, BeginByEmail(r) PROVE UNCHANGED orphans
  BY <1>1 DEF BeginByEmail
<1>2. ASSUME NEW r \in Requests, BeginMail(r) PROVE UNCHANGED orphans
  BY <1>2 DEF BeginMail
<1>3. ASSUME NEW r \in Requests, BeginWithSession(r) PROVE UNCHANGED orphans
  BY <1>3 DEF BeginWithSession
<1>4. ASSUME NEW r \in Requests, BeginInSettings(r) PROVE UNCHANGED orphans
  BY <1>4 DEF BeginInSettings
<1>5. ASSUME NEW r \in Requests, BeginVerify(r) PROVE UNCHANGED orphans
  BY <1>5 DEF BeginVerify
<1>6. ASSUME NEW r \in Requests, BeginReset(r) PROVE UNCHANGED orphans
  BY <1>6 DEF BeginReset
<1>7. ASSUME NEW r \in Requests, BeginGoogle(r) PROVE UNCHANGED orphans
  BY <1>7 DEF BeginGoogle
<1>8. ASSUME NEW r \in Requests, BeginLinking(r) PROVE UNCHANGED orphans
  BY <1>8 DEF BeginLinking
<1>9. ASSUME NEW r \in Requests, Callback(r) PROVE UNCHANGED orphans
  BY <1>9 DEF Callback
<1>10. ASSUME NEW r \in Requests, DeviceSignIn(r) PROVE UNCHANGED orphans
  BY <1>10 DEF DeviceSignIn
<1>11. ASSUME NEW r \in Requests, CheckKnown(r) PROVE UNCHANGED orphans
  BY <1>11 DEF CheckKnown
<1>12. ASSUME NEW r \in Requests, CountUsers(r) PROVE UNCHANGED orphans
  BY <1>12 DEF CountUsers
<1>13. ASSUME NEW r \in Requests, CreateUser(r) PROVE UNCHANGED orphans
  BY <1>13 DEF CreateUser
<1>14. ASSUME NEW r \in Requests, SeedIdentity(r) PROVE UNCHANGED orphans
  BY <1>14 DEF SeedIdentity
<1>15. ASSUME NEW r \in Requests, AdoptOrphans(r) PROVE \E q \in Requests : AdoptOrphans(q)
  BY <1>15
<1>16. ASSUME NEW r \in Requests, IssueSession(r) PROVE UNCHANGED orphans
  BY <1>16 DEF IssueSession
<1>17. ASSUME NEW r \in Requests, CreateLink(r) PROVE UNCHANGED orphans
  BY <1>17 DEF CreateLink
<1>18. ASSUME NEW r \in Requests, DropSession(r) PROVE UNCHANGED orphans
  BY <1>18 DEF DropSession
<1>19. ASSUME NEW r \in Requests, CheckLockout(r) PROVE UNCHANGED orphans
  BY <1>19 DEF CheckLockout
<1>20. ASSUME NEW r \in Requests, TryPassword(r) PROVE UNCHANGED orphans
  BY <1>20 DEF TryPassword
<1>21. ASSUME NEW r \in Requests, ResendVerification(r) PROVE UNCHANGED orphans
  BY <1>21 DEF ResendVerification, Mailed
<1>22. ASSUME NEW r \in Requests, RequestReset(r) PROVE UNCHANGED orphans
  BY <1>22 DEF RequestReset, Mailed
<1>23. ASSUME NEW r \in Requests, ReadFailures(r) PROVE UNCHANGED orphans
  BY <1>23 DEF ReadFailures
<1>24. ASSUME NEW r \in Requests, RecordFailure(r) PROVE UNCHANGED orphans
  BY <1>24 DEF RecordFailure, Recorded
<1>25. ASSUME NEW r \in Requests, ClearFailures(r) PROVE UNCHANGED orphans
  BY <1>25 DEF ClearFailures
<1>26. ASSUME NEW r \in Requests, VerifyCurrent(r) PROVE UNCHANGED orphans
  BY <1>26 DEF VerifyCurrent
<1>27. ASSUME NEW r \in Requests, ConsumeLink(r) PROVE UNCHANGED orphans
  BY <1>27 DEF ConsumeLink
<1>28. ASSUME NEW r \in Requests, FindAccount(r) PROVE UNCHANGED orphans
  BY <1>28 DEF FindAccount
<1>29. ASSUME NEW r \in Requests, UpdatePassword(r) PROVE UNCHANGED orphans
  BY <1>29 DEF UpdatePassword
<1>30. ASSUME NEW r \in Requests, RevokeSessions(r) PROVE UNCHANGED orphans
  BY <1>30 DEF RevokeSessions, Revoked
<1>31. ASSUME NEW r \in Requests, MarkVerified(r) PROVE UNCHANGED orphans
  BY <1>31 DEF MarkVerified
<1>32. ASSUME NEW r \in Requests, CloseAccount(r) PROVE UNCHANGED orphans
  BY <1>32 DEF CloseAccount, Closed
<1>33. ASSUME NEW r \in Requests, FindIdentity(r) PROVE UNCHANGED orphans
  BY <1>33 DEF FindIdentity
<1>34. ASSUME NEW r \in Requests, FindByEmail(r) PROVE UNCHANGED orphans
  BY <1>34 DEF FindByEmail
<1>35. ASSUME NEW r \in Requests, TieIdentity(r) PROVE UNCHANGED orphans
  BY <1>35 DEF TieIdentity
<1>36. ASSUME NEW r \in Requests, ListIdentities(r) PROVE UNCHANGED orphans
  BY <1>36 DEF ListIdentities
<1>37. ASSUME NEW r \in Requests, DeleteIdentity(r) PROVE UNCHANGED orphans
  BY <1>37 DEF DeleteIdentity
<1>38. ASSUME NEW e \in Emails, LockExpires(e) PROVE UNCHANGED orphans
  BY <1>38 DEF LockExpires
<1>39. ASSUME NEW e \in Emails, WindowElapses(e) PROVE UNCHANGED orphans
  BY <1>39 DEF WindowElapses
<1>40. ASSUME Restart PROVE UNCHANGED orphans
  BY <1>40 DEF Restart
<1>41. CASE UNCHANGED vars
  BY <1>41
<1> QED
  BY <1>1, <1>2, <1>3, <1>4, <1>5, <1>6, <1>7, <1>8, <1>9, <1>10, <1>11,
     <1>12, <1>13, <1>14, <1>15, <1>16, <1>17, <1>18, <1>19, <1>20, <1>21,
     <1>22, <1>23, <1>24, <1>25, <1>26, <1>27, <1>28, <1>29, <1>30, <1>31,
     <1>32, <1>33, <1>34, <1>35, <1>36, <1>37, <1>38, <1>39, <1>40, <1>41
     DEF Next

\* The first account leads.
LEMMA FirstStep ==
    ASSUME TypeOK, MemInv, LeadInv, FirstAccountLeads, [Next]_vars
    PROVE  FirstAccountLeads'
<1>0. /\ at \in [Requests -> Location] /\ mem \in [Requests -> Memory]
      /\ users \in [Ids -> User \cup {None}]
  BY DEF TypeOK
<1>a. Remembers
  BY HistoryGrows
<1>b. ASSUME NEW i \in Account', i \notin Account, Account = {}, ~leaderless
      PROVE  \E r \in Requests : /\ Creates(r, i) /\ mem[r].first
                                 /\ users'[i].admin /\ at'[r] = "seed" /\ mem'[r].first
  <2>1. PICK r \in Requests : CreateUser(r) /\ Creates(r, i)
    BY <1>b, AccountsMade
  <2>2. mem[r].first
    BY <1>b, <2>1, CreatorCounted DEF Creates, First
  <2>3. NewUser(r).admin = mem[r].first
    BY DEF NewUser
  <2>4. users'[i].admin /\ at'[r] = "seed" /\ mem'[r].first
    BY <2>1, <2>2, <2>3 DEF Creates
  <2> QED BY <2>1, <2>2, <2>4
<1>1. ASSUME NEW i \in Account', NEW j \in Account', users'[i].admin, users'[j].admin,
             ~paired', ~leaderless'
      PROVE  i = j
  <2>1. ~paired /\ ~leaderless
    BY <1>1, <1>a DEF Remembers
  <2>2. ASSUME NEW r \in Requests, CreateUser(r), NEW x \in Account', Creates(r, x), mem[r].first
        PROVE  Account' = {x}
    <3>1. Account = {}
      BY <2>1, <2>2 DEF LeadInv, First, Creates
    <3> QED BY <1>0, <2>2, <3>1 DEF Creates, Account
  <2>3. CASE i \in Account /\ users[i].admin /\ j \in Account /\ users[j].admin
    BY <2>1, <2>3 DEF FirstAccountLeads
  <2> QED BY <1>1, <2>1, <2>2, <2>3, AdminsMade
<1>2. ASSUME Account' # {}, ~leaderless' PROVE \E i \in Account' : users'[i].admin
  <2>1. CASE Account = {}
    BY <1>2, <1>a, <1>b, <2>1 DEF Remembers
  <2>2. CASE Account # {}
    <3>1. PICK i \in Account : users[i].admin
      BY <1>2, <1>a, <2>2 DEF FirstAccountLeads, Remembers
    <3> QED BY <1>2, <3>1, AccountsKept DEF Kept, Gone
  <2> QED BY <2>1, <2>2
<1>3. ASSUME Account' # {}, ~leaderless', ~crashed', contested' = {}, orphans' = None
      PROVE  \E r \in Requests : at'[r] \in {"seed", "adopt"} /\ mem'[r].first
  <2>1. ~leaderless /\ ~crashed /\ contested = {}
    BY <1>3, <1>a DEF Remembers
  <2>2. CASE Account = {}
    BY <1>3, <1>b, <2>1, <2>2
  <2>3. CASE \E q \in Requests : AdoptOrphans(q) /\ mem[q].first
    <3>1. PICK q \in Requests : AdoptOrphans(q) /\ mem[q].first
      BY <2>3
    <3>2. mem[q].user \in Account
      BY <2>1, <3>1 DEF LeadInv, AdoptOrphans
    <3>3. users[mem[q].user].born # None
      BY <3>2, AccountType, NoneIsNobody DEF Author
    <3> QED BY <1>3, <3>1, <3>2, <3>3 DEF AdoptOrphans
  <2>4. CASE orphans # None
    <3>1. orphans' = orphans
      BY <2>4, OrphansWritten DEF AdoptOrphans
    <3> QED BY <1>3, <2>4, <3>1
  <2>5. CASE Account # {} /\ orphans = None /\ ~\E q \in Requests : AdoptOrphans(q) /\ mem[q].first
    <3>1. PICK r \in Requests : at[r] \in {"seed", "adopt"} /\ mem[r].first
      BY <2>1, <2>5 DEF FirstAccountLeads
    <3>2. CASE Waits(r)
      BY <3>1, <3>2 DEF Waits
    <3>3. CASE Begins(r)
      BY <3>1, <3>3 DEF Begins, MemInv, MemFor, Path
    <3>4. CASE Restart
      BY <1>3, <3>4 DEF Restart
    <3>5. CASE Moves(r)
      <4>1. SeedIdentity(r)
        BY <2>5, <3>1, <3>5 DEF Moves
      <4>2. ~(op[r] = "signin" /\ ~Insertable(r))
        BY <1>3, <4>1 DEF SeedIdentity
      <4> QED BY <1>0, <3>1, <4>1, <4>2 DEF SeedIdentity, To, Step
    <3> QED BY <3>2, <3>3, <3>4, <3>5, OneMoves
  <2> QED BY <2>2, <2>3, <2>4, <2>5
<1> QED BY <1>1, <1>2, <1>3 DEF FirstAccountLeads, Account

--------------------------------------------------------------------------------
(* A way in                                                                     *)

\* The owner of an identity.
LEMMA IdentityOwner ==
    ASSUME TypeOK, NEW i \in Ids, NEW k
    PROVE  k \in IdentitiesOf(i) <=>
              /\ k \in DOMAIN identities /\ identities[k] # None /\ identities[k].user = i
<1>1. identities \in [(Providers \cup {Password}) \X Emails -> Holder \cup {None}]
  BY DEF TypeOK
<1>2. ASSUME k \in DOMAIN identities PROVE k = <<k[1], k[2]>>
  BY <1>1, <1>2
<1>3. i # None
  BY NoneIsNobody
<1> QED BY <1>2, <1>3 DEF IdentitiesOf, Owner

\* The same, after a step.
LEMMA IdentityOwnerAfter ==
    ASSUME TypeOK', NEW i \in Ids, NEW k
    PROVE  k \in IdentitiesOf(i)' <=>
              /\ k \in DOMAIN identities' /\ identities'[k] # None /\ identities'[k].user = i
<1>1. identities' \in [(Providers \cup {Password}) \X Emails -> Holder \cup {None}]
  BY DEF TypeOK
<1>2. ASSUME k \in DOMAIN identities' PROVE k = <<k[1], k[2]>>
  BY <1>1, <1>2
<1>3. i # None
  BY NoneIsNobody
<1> QED BY <1>2, <1>3 DEF IdentitiesOf, Owner

\* An account loses an identity to a request that unlinks Google.
LEMMA IdentitiesStay ==
    ASSUME TypeOK, MemInv, [Next]_vars, NEW i \in Account, i \in Account', NEW k \in IdentitiesOf(i)
    PROVE  \/ identities'[k] = identities[k] /\ k \in DOMAIN identities'
           \/ k[1] = Google /\ \E r \in Requests : DeleteIdentity(r) /\ mem[r].user = i
<1>0. /\ i \in Ids /\ k \in DOMAIN identities /\ k = <<k[1], k[2]>>
      /\ identities \in [(Providers \cup {Password}) \X Emails -> Holder \cup {None}]
      /\ identities[k] \in Holder /\ identities[k] # None /\ identities[k].user = i
  <2>1. i \in Ids /\ identities \in [(Providers \cup {Password}) \X Emails -> Holder \cup {None}]
    BY DEF TypeOK, Account
  <2>2. k \in DOMAIN identities /\ identities[k] # None /\ identities[k].user = i
    BY <2>1, IdentityOwner
  <2>3. k = <<k[1], k[2]>>
    BY <2>1, <2>2
  <2> QED BY <2>1, <2>2, <2>3
<1>1. UNCHANGED identities \/ IdentitiesWritten
  BY Writers DEF WrittenByWriters
<1>2. CASE UNCHANGED identities
  BY <1>0, <1>2
<1>3. CASE Restart
  BY <1>0, <1>3 DEF Restart, PasswordsSeeded
<1>4. ASSUME NEW r \in Requests, SeedIdentity(r) \/ TieIdentity(r)
      PROVE  identities'[k] = identities[k] /\ k \in DOMAIN identities'
  <2>1. CASE UNCHANGED identities
    BY <1>0, <2>1
  <2>2. CASE InsertIdentity(r) /\ Insertable(r)
    <3>1. Owner(mem[r].provider, mem[r].email) = None
      BY <2>2 DEF Insertable
    <3>2. k # <<mem[r].provider, mem[r].email>>
      BY <1>0, <3>1, NoneIsNobody DEF Owner
    <3> QED BY <1>0, <2>2, <3>2 DEF InsertIdentity
  <2> QED BY <1>4, <2>1, <2>2 DEF SeedIdentity, TieIdentity
<1>5. ASSUME NEW r \in Requests, DeleteIdentity(r)
      PROVE  \/ identities'[k] = identities[k] /\ k \in DOMAIN identities'
             \/ k[1] = Google /\ mem[r].user = i
  BY <1>0, <1>5 DEF DeleteIdentity, Owner
<1>6. ASSUME NEW r \in Requests, CloseAccount(r)
      PROVE  identities'[k] = identities[k] /\ k \in DOMAIN identities'
  <2>1. CASE UNCHANGED identities
    BY <1>0, <2>1
  <2>2. CASE mem[r].user \in Account
    <3>1. users' = [users EXCEPT ![mem[r].user] = None]
      BY <1>6, <2>2 DEF CloseAccount, Closed
    <3>2. mem[r].user # i
      BY <1>0, <3>1 DEF Account, TypeOK
    <3>3. k \notin IdentitiesOf(mem[r].user)
      BY <1>0, <2>2, <3>2, IdentityOwner DEF Account
    <3> QED BY <1>0, <1>6, <2>2, <3>3 DEF CloseAccount, Closed
  <2> QED BY <1>6, <2>1, <2>2 DEF CloseAccount, Closed
<1> QED BY <1>1, <1>2, <1>3, <1>4, <1>5, <1>6 DEF IdentitiesWritten

\* One of another provider it does not lose.
LEMMA OtherIdentitiesStay ==
    ASSUME TypeOK, TypeOK', MemInv, [Next]_vars, NEW i \in Account, i \in Account',
           NEW k \in IdentitiesOf(i)
    PROVE  \/ k \in IdentitiesOf(i)'
           \/ k[1] = Google /\ \E r \in Requests : DeleteIdentity(r) /\ mem[r].user = i
<1>1. i \in Ids
  BY DEF Account
<1>2. k \in IdentitiesOf(i)' <=>
         /\ k \in DOMAIN identities' /\ identities'[k] # None /\ identities'[k].user = i
  BY <1>1, IdentityOwnerAfter
<1> QED BY <1>1, <1>2, IdentityOwner, IdentitiesStay

\* An account keeps a way in.
LEMMA WayStep ==
    ASSUME TypeOK, TypeOK', MemInv, FreshInv, WayInv, [Next]_vars
    PROVE  WayInv'
<1>0. /\ at \in [Requests -> Location] /\ mem \in [Requests -> Memory]
      /\ users \in [Ids -> User \cup {None}]
  BY DEF TypeOK
<1>a. Remembers
  BY HistoryGrows
<1>k. ASSUME NEW i \in Account, i \in Account' PROVE Kept(i)
  BY <1>k, AccountsKept DEF Gone
<1>n. ASSUME NEW i \in Account', i \notin Account
      PROVE  \E q \in Requests : CreateUser(q) /\ Creates(q, i) /\ users'[i].born = q /\ ~Known(q)
                                 /\ (op[q] = "register" => users'[i].password # None)
  <2>1. PICK q \in Requests : CreateUser(q) /\ Creates(q, i)
    BY <1>n, AccountsMade
  <2>2. ~Known(q)
    BY <2>1 DEF FreshInv, Unborn, Creates
  <2>3. NewUser(q).born = q /\ (op[q] = "register" => NewUser(q).password # None)
    BY NoneIsNobody DEF NewUser
  <2> QED BY <2>1, <2>2, <2>3 DEF Creates
<1> SUFFICES ASSUME NEW i \in Account'
             PROVE  /\ users'[i].born \in Requests /\ op'[users'[i].born] = "register"
                          => users'[i].password # None
                    /\ \A r \in Requests :
                          at'[r] = "untie" /\ mem'[r].user = i /\ mem'[r].born = users'[i].born =>
                             \/ users'[i].password # None
                             \/ \E k \in IdentitiesOf(i)' : k[1] \notin {Google, Password}
                    /\ \/ users'[i].password # None
                       \/ \E k \in IdentitiesOf(i)' : k[1] # Password
                       \/ users'[i].born \in (contested \cup displaced)'
                       \/ /\ users'[i].born \in Requests
                          /\ at'[users'[i].born] = "seed" /\ mem'[users'[i].born].user = i
                       \/ crashed'
  BY DEF WayInv
<1>1. ASSUME users'[i].born \in Requests, op'[users'[i].born] = "register"
      PROVE  users'[i].password # None
  <2>1. CASE i \in Account
    <3>1. users'[i].born = users[i].born /\ ~Unborn(at[users[i].born])
      BY <1>1, <1>k, <2>1 DEF Kept, FreshInv, Known
    <3>2. op[users[i].born] = "register"
      <4>1. ~Begins(users[i].born)
        BY <1>1, <3>1 DEF Begins, MemInv, MemFor, Path, Unborn
      <4> QED BY <1>1, <3>1, <4>1, OneMoves, RestartEnds DEF Waits, Moves
    <3> QED BY <1>1, <1>k, <2>1, <3>1, <3>2 DEF Kept, WayInv
  <2>2. CASE i \notin Account
    BY <1>1, <1>n, <2>2 DEF Creates
  <2> QED BY <2>1, <2>2
<1>2. ASSUME NEW r \in Requests, at'[r] = "untie", mem'[r].user = i, mem'[r].born = users'[i].born
      PROVE  \/ users'[i].password # None
             \/ \E k \in IdentitiesOf(i)' : k[1] \notin {Google, Password}
  <2>1. CASE ListIdentities(r)
    <3>1. /\ mem'[r] = mem[r] /\ UNCHANGED <<users, identities>>
          /\ (\A k \in {x \in IdentitiesOf(i) : x[1] # Google} : k[1] = Password)
                => users[i].password # None
      BY <1>0, <1>2, <2>1 DEF ListIdentities, To, Step
    <3> QED BY <3>1 DEF IdentitiesOf, Owner
  <2>2. CASE Waits(r) /\ i \notin Account
    <3>1. PICK q \in Requests : users'[i].born = q /\ ~Known(q)
      BY <1>n, <2>2
    <3> QED BY <1>2, <2>2, <3>1 DEF Waits, Known
  <2>3. CASE Waits(r) /\ i \in Account
    <3>1. Kept(i)
      BY <1>k, <2>3
    <3>2. \/ users[i].password # None
          \/ \E k \in IdentitiesOf(i) : k[1] \notin {Google, Password}
      BY <1>2, <2>3, <3>1 DEF Kept, Waits, WayInv
    <3> QED BY <2>3, <3>1, <3>2, OtherIdentitiesStay DEF Kept
  <2>4. ASSUME CountUsers(r) \/ CreateUser(r) \/ SeedIdentity(r) PROVE FALSE
    BY <1>0, <1>2, <2>4 DEF CountUsers, CreateUser, SeedIdentity, AfterSignUp, To, Step
  <2> QED BY <1>2, <2>1, <2>2, <2>3, <2>4, Arrivals
<1>3. \/ users'[i].password # None
      \/ \E k \in IdentitiesOf(i)' : k[1] # Password
      \/ users'[i].born \in (contested \cup displaced)'
      \/ /\ users'[i].born \in Requests
         /\ at'[users'[i].born] = "seed" /\ mem'[users'[i].born].user = i
      \/ crashed'
  <2>1. CASE i \notin Account
    BY <1>n, <2>1 DEF Creates
  <2>2. CASE i \in Account
    <3> DEFINE b == users[i].born
    <3>1. Kept(i) /\ users'[i].born = b /\ i \in Ids
      BY <1>k, <2>2 DEF Kept, Account
    <3>2. CASE users[i].password # None
      BY <3>1, <3>2 DEF Kept
    <3>3. CASE b \in contested \cup displaced \/ crashed
      BY <1>a, <3>1, <3>3 DEF Remembers
    <3>4. ASSUME NEW k \in IdentitiesOf(i), k[1] # Password, k \notin IdentitiesOf(i)'
          PROVE  \/ users'[i].password # None
                 \/ \E x \in IdentitiesOf(i)' : x[1] # Password
                 \/ users'[i].born \in displaced'
      <4>1. PICK r \in Requests : DeleteIdentity(r) /\ mem[r].user = i
        BY <2>2, <3>4, OtherIdentitiesStay
      <4>2. CASE b # mem[r].born
        BY <2>2, <3>1, <4>1, <4>2 DEF DeleteIdentity
      <4>3. CASE b = mem[r].born
        <5>1. \/ users[i].password # None
              \/ \E x \in IdentitiesOf(i) : x[1] \notin {Google, Password}
          BY <2>2, <4>1, <4>3 DEF WayInv, DeleteIdentity
        <5> QED BY <2>2, <3>1, <5>1, OtherIdentitiesStay DEF Kept
      <4> QED BY <4>2, <4>3
    <3>5. CASE b \in Requests /\ at[b] = "seed" /\ mem[b].user = i
      <4> HIDE DEF b
      <4>1. CASE Waits(b)
        BY <3>1, <3>5, <4>1 DEF Waits
      <4>2. CASE Restart
        BY <4>2 DEF Restart
      <4>3. CASE Begins(b)
        BY <3>5, <4>3 DEF Begins, MemInv, MemFor, Path
      <4>4. CASE SeedIdentity(b) /\ op[b] = "register"
        BY <2>2, <3>1, <3>5, <4>4 DEF WayInv, Kept, b
      <4>5. CASE SeedIdentity(b) /\ op[b] # "register"
        <5>1. op[b] = "signin" /\ mem[b].provider \in Providers /\ mem[b].email \in Emails
          <6>1. op[b] = "signin"
            BY <3>5, <4>5 DEF MemInv, MemFor, Path, TypeOK, Operations
          <6> QED BY <3>5, <6>1 DEF MemInv, MemFor, WithEmail
        <5>2. CASE ~Insertable(b)
          BY <3>1, <4>5, <5>1, <5>2 DEF SeedIdentity
        <5>3. CASE Insertable(b)
          <6> DEFINE k == <<mem[b].provider, mem[b].email>>
          <6>1. k \in DOMAIN identities' /\ identities'[k] # None /\ identities'[k].user = i
            <7>1. InsertIdentity(b) /\ mem[b].born \in Author
              BY <3>5, <4>5, <5>3 DEF SeedIdentity, MemInv, MemFor, WithUser
            <7>2. identities \in [(Providers \cup {Password}) \X Emails -> Holder \cup {None}]
              BY DEF TypeOK
            <7>3. k \in DOMAIN identities
              BY <5>1, <7>2
            <7>4. identities'[k] = IdentityOf(b)
              BY <7>1, <7>2, <7>3 DEF InsertIdentity, IdentityOf
            <7>5. IdentityOf(b) \in Holder /\ IdentityOf(b).user = i
              BY <3>1, <3>5, <7>1 DEF IdentityOf, Holder
            <7> QED BY <7>1, <7>3, <7>4, <7>5, RowsAreThere DEF InsertIdentity
          <6>2. k[1] # Password
            BY <5>1, ProvidersAssumption
          <6> HIDE DEF k
          <6>3. k \in IdentitiesOf(i)' <=>
                   /\ k \in DOMAIN identities' /\ identities'[k] # None /\ identities'[k].user = i
            BY <3>1, IdentityOwnerAfter
          <6> QED BY <6>1, <6>2, <6>3
        <5> QED BY <5>2, <5>3
      <4>6. CASE Moves(b)
        BY <3>5, <4>4, <4>5, <4>6 DEF Moves
      <4> QED BY <3>5, <4>1, <4>2, <4>3, <4>6, OneMoves
    <3> QED BY <2>2, <3>2, <3>3, <3>4, <3>5 DEF WayInv
  <2> QED BY <2>1, <2>2
<1> QED BY <1>1, <1>2, <1>3

--------------------------------------------------------------------------------
(* The invariant                                                                *)

\* The tables and the requests at the start.
LEMMA AtTheStart ==
    ASSUME Init
    PROVE  /\ users \in [Ids -> User \cup {None}]
           /\ \A i \in Account : /\ i = 1 /\ i \in Ids /\ users[i] \in User
                                 /\ users[i].born = Seed /\ users[i].admin
                                 /\ users[i].password \in {Seed, None} /\ users[i].email \in Emails
           /\ sessions \in [Author -> Session \cup {None}]
           /\ \A t \in Author : sessions[t] # None =>
                 /\ 1 \in Account /\ sessions[t].user = 1 /\ sessions[t].born = Seed
                 /\ sessions[t].proof = users[1].password
           /\ identities \in [(Providers \cup {Password}) \X Emails -> Holder \cup {None}]
           /\ \A k \in DOMAIN identities : identities[k] # None =>
                 /\ 1 \in Account /\ identities[k].user = 1 /\ identities[k].born = Seed
           /\ 1 \in Account /\ users[1].password = None =>
                 LET k == <<Google, users[1].email>> IN
                 k \in DOMAIN identities /\ identities[k] # None /\ identities[k].user = 1
           /\ links \in [Author -> Link \cup {None}]
           /\ \A k \in Author : links[k] # None =>
                 k = Seed /\ 1 \in Account /\ links[k].user = 1 /\ links[k].born = Seed
           /\ pending \in [Author -> [user : Ids \cup {None}, born : Proof] \cup {None}]
           /\ \A s \in Author : pending[s] # None =>
                 /\ pending[s].user # None => pending[s].born = Seed
                 /\ pending[s].born \in {None, Seed}
<1>1. users \in [Ids -> User \cup {None}]
  BY DEF Init
<1> DEFINE flow(p) == pending = [s \in Author |-> IF s = Seed THEN p ELSE None]
           mail(l) == links = [k \in Author |-> IF k = Seed THEN l ELSE None]
<1>m. \/ mail(None) /\ flow(None)
      \/ mail(None) /\ flow(Flow(None, None))
      \/ Account # {} /\ mail(None) /\ flow(Flow(1, Seed))
      \/ \E purpose \in {"signup", "password_reset"} :
            /\ Account # {} /\ flow(None)
            /\ mail([user |-> 1, born |-> Seed, purpose |-> purpose, used |-> FALSE])
  BY DEF Init
<1>2. ASSUME NEW i \in Account
      PROVE  /\ i = 1 /\ i \in Ids /\ users[i] \in User
             /\ users[i].born = Seed /\ users[i].admin
             /\ users[i].password \in {Seed, None} /\ users[i].email \in Emails
  <2>1. i = 1 /\ i \in Ids /\ users[i] # None
    BY DEF Init, Account
  <2>2. users[i] \in {u \in User : u.password \in {Seed, None} /\ u.admin /\ u.born = Seed}
    BY <2>1 DEF Init
  <2> QED BY <2>1, <2>2 DEF User
<1>3. Account # {} => 1 \in Account /\ 1 \in Ids
  BY <1>2
<1>4. ASSUME NEW t \in Author
      PROVE  /\ sessions[t] \in Session \cup {None}
             /\ sessions[t] # None =>
                 /\ 1 \in Account /\ sessions[t].user = 1 /\ sessions[t].born = Seed
                 /\ sessions[t].proof = users[1].password
  <2>1. CASE t = Seed /\ Account # {}
    <3>1. sessions[t] = [user |-> 1, born |-> Seed, late |-> FALSE, proof |-> users[1].password]
      BY <2>1 DEF Init
    <3> QED BY <1>2, <1>3, <2>1, <3>1 DEF Session, Proof, Author
  <2>2. CASE ~(t = Seed /\ Account # {})
    BY <2>2 DEF Init
  <2> QED BY <2>1, <2>2
<1>5. ASSUME NEW k \in (Providers \cup {Password}) \X Emails
      PROVE  /\ identities[k] \in Holder \cup {None}
             /\ identities[k] # None =>
                 /\ 1 \in Account /\ identities[k].user = 1 /\ identities[k].born = Seed
  <2>1. CASE identities[k] = Seeded(1) /\ Account # {}
    BY <1>3, <2>1 DEF Seeded, Holder, Author
  <2>2. CASE identities[k] = None
    BY <2>2
  <2> QED BY <2>1, <2>2 DEF Init
<1>6. ASSUME 1 \in Account, users[1].password = None
      PROVE  LET k == <<Google, users[1].email>> IN
             k \in DOMAIN identities /\ identities[k] # None /\ identities[k].user = 1
  <2> DEFINE k == <<Google, users[1].email>>
  <2>1. k \in (Providers \cup {Password}) \X Emails /\ k[1] = Google /\ k[2] = users[1].email
    BY <1>2, <1>6, ProvidersAssumption
  <2>2. identities[k] = Seeded(1)
    BY <1>6, <2>1 DEF Init
  <2>3. Seeded(1) # None /\ Seeded(1).user = 1
    BY <1>3, <1>6, RowsAreThere DEF Seeded, Holder, Author
  <2>4. k \in DOMAIN identities
    BY <2>1 DEF Init
  <2> QED BY <2>2, <2>3, <2>4
<1>7. ASSUME NEW k \in Author
      PROVE  /\ links[k] \in Link \cup {None}
             /\ links[k] # None =>
                 k = Seed /\ 1 \in Account /\ links[k].user = 1 /\ links[k].born = Seed
  <2>1. CASE links[k] = None
    BY <2>1
  <2>2. CASE /\ k = Seed /\ Account # {}
             /\ \E purpose \in {"signup", "password_reset"} :
                   links[k] = [user |-> 1, born |-> Seed, purpose |-> purpose, used |-> FALSE]
    BY <1>3, <2>2 DEF Link, Author
  <2> QED BY <1>m, <2>1, <2>2
<1>8. links \in [Author -> Link \cup {None}]
  <2>1. \E l : links = [k \in Author |-> IF k = Seed THEN l ELSE None]
    BY <1>m
  <2> QED BY <1>7, <2>1
<1>9. ASSUME NEW s \in Author
      PROVE  /\ pending[s] \in [user : Ids \cup {None}, born : Proof] \cup {None}
             /\ pending[s] # None =>
                 /\ pending[s].user # None => pending[s].born = Seed
                 /\ pending[s].born \in {None, Seed}
  <2>1. CASE pending[s] = None
    BY <2>1
  <2>2. CASE pending[s] = Flow(None, None)
    BY <2>2 DEF Flow, Proof
  <2>3. CASE pending[s] = Flow(1, Seed) /\ Account # {}
    BY <1>3, <2>3 DEF Flow, Proof, Author
  <2> QED BY <1>m, <2>1, <2>2, <2>3
<1>10. pending \in [Author -> [user : Ids \cup {None}, born : Proof] \cup {None}]
  <2>1. \E p : pending = [s \in Author |-> IF s = Seed THEN p ELSE None]
    BY <1>m
  <2> QED BY <1>9, <2>1
<1>11. sessions \in [Author -> Session \cup {None}]
  BY <1>4 DEF Init
<1>12. identities \in [(Providers \cup {Password}) \X Emails -> Holder \cup {None}]
  BY <1>5 DEF Init
<1> QED BY <1>1, <1>2, <1>4, <1>5, <1>6, <1>7, <1>8, <1>9, <1>10, <1>11, <1>12

\* The invariant holds at the start.
LEMMA InitInv ==
    ASSUME Init
    PROVE  IInv
<1>0. /\ op = [r \in Requests |-> "none"] /\ at = [r \in Requests |-> "none"]
      /\ mem = [r \in Requests |-> Blank] /\ failures = [e \in Emails |-> NoFailures]
      /\ raced = [e \in Emails |-> FALSE] /\ redeemed = [k \in Author |-> {}]
      /\ contested = {} /\ displaced = {} /\ applied = {} /\ unwritten = {}
      /\ paired = FALSE /\ leaderless = FALSE /\ crashed = FALSE
      /\ orphans = IF Account = {} THEN None ELSE Seed
  BY DEF Init
<1>1. TypeOK
  <2>1. NoFailures \in Failures
    BY MaxFailuresAssumption DEF NoFailures, Failures
  <2>2. /\ op \in [Requests -> Operations] /\ at \in [Requests -> Location]
        /\ mem \in [Requests -> Memory]
    BY <1>0, MemShape DEF Operations, Location
  <2>3. /\ failures \in [Emails -> Failures] /\ raced \in [Emails -> BOOLEAN]
        /\ redeemed \in [Author -> SUBSET Requests] /\ orphans \in Proof
    BY <1>0, <2>1 DEF Proof, Author
  <2> QED BY <1>0, <2>2, <2>3, AtTheStart DEF TypeOK
<1>2. MemInv
  BY <1>0 DEF MemInv, MemFor, Path, WithEmail, WithUser
<1>3. FlowsInv
  BY AtTheStart DEF FlowsInv, Author
<1>4. FreshInv
  <2>1. ASSUME NEW q \in Requests PROVE ~Known(q)
    <3>1. q # None /\ q # Seed
      BY NoneIsNobody
    <3>2. \A r \in Requests : mem[r].born = None
      BY <1>0 DEF Blank
    <3> QED BY <3>1, <3>2, AtTheStart DEF Known
  <2> QED BY <2>1 DEF FreshInv
<1>5. RowsOfTheirAccount
  BY AtTheStart DEF RowsOfTheirAccount
<1>6. SessionInv
  BY AtTheStart DEF SessionInv
<1>7. LinkInv
  BY <1>0, AtTheStart, NoneIsNobody DEF LinkInv
<1>8. WayInv
  <2> SUFFICES ASSUME NEW i \in Account
               PROVE  /\ users[i].born \notin Requests
                      /\ \A r \in Requests : at[r] # "untie"
                      /\ \/ users[i].password # None
                         \/ \E k \in IdentitiesOf(i) : k[1] # Password
    BY DEF WayInv
  <2>1. i = 1 /\ i \in Ids /\ users[i].born \notin Requests
    BY AtTheStart, NoneIsNobody
  <2>2. ASSUME users[i].password = None PROVE \E k \in IdentitiesOf(i) : k[1] # Password
    <3> DEFINE k == <<Google, users[1].email>>
    <3>1. k \in DOMAIN identities /\ identities[k] # None /\ identities[k].user = 1
      BY <2>1, <2>2, AtTheStart
    <3>2. k[1] # Password
      BY ProvidersAssumption
    <3> HIDE DEF k
    <3> QED BY <1>1, <2>1, <3>1, <3>2, IdentityOwner
  <2> QED BY <1>0, <2>1, <2>2
<1>9. FailuresLock
  BY <1>0, MaxFailuresAssumption DEF FailuresLock, NoFailures
<1>10. LeadInv
  BY <1>0 DEF LeadInv, First
<1>11. FirstAccountLeads
  BY <1>0, AtTheStart, NoneIsNobody DEF FirstAccountLeads
<1> QED BY <1>1, <1>2, <1>3, <1>4, <1>5, <1>6, <1>7, <1>8, <1>9, <1>10, <1>11 DEF IInv

\* Every variable keeps its type.
LEMMA TypeStep ==
    ASSUME TypeOK, MemInv, FlowsInv, RowsOfTheirAccount, [Next]_vars
    PROVE  TypeOK'
BY WorkStep, TablesStep DEF TypeOK, Tables

\* Every step keeps the invariant.
LEMMA StepInv ==
    ASSUME IInv, [Next]_vars
    PROVE  IInv'
<1>0. /\ TypeOK /\ MemInv /\ FlowsInv /\ FreshInv
      /\ RowsOfTheirAccount /\ SessionInv /\ LinkInv /\ WayInv
      /\ FailuresLock /\ LeadInv /\ FirstAccountLeads
  BY DEF IInv
<1>1. TypeOK'
  BY <1>0, TypeStep
<1>2. MemInv'
  BY <1>0, WorkStep
<1>3. FlowsInv'
  BY <1>0, FlowsStep
<1>4. FreshInv'
  BY <1>0, FreshStep
<1>5. RowsOfTheirAccount'
  BY <1>0, RowsStep
<1>6. SessionInv'
  BY <1>0, SessionStep
<1>7. LinkInv'
  BY <1>0, LinkStep
<1>8. WayInv'
  BY <1>0, <1>1, WayStep
<1>9. FailuresLock'
  BY <1>0, FailuresStep
<1>10. LeadInv'
  BY <1>0, LeadStep
<1>11. FirstAccountLeads'
  BY <1>0, FirstStep
<1> QED BY <1>1, <1>2, <1>3, <1>4, <1>5, <1>6, <1>7, <1>8, <1>9, <1>10, <1>11 DEF IInv

\* The inductive invariant holds of every request's every step.
THEOREM InvariantHolds == Spec => []IInv
<1>1. Init => IInv
  BY InitInv
<1>2. IInv /\ [Next]_vars => IInv'
  BY StepInv
<1> QED BY <1>1, <1>2, PTL DEF Spec

\* The rows of the tables, what waits for a callback and what a request has read
\* have their types.
THEOREM TypeCorrect == Spec => []TypeOK
<1>1. IInv => TypeOK
  BY DEF IInv
<1> QED BY <1>1, InvariantHolds, PTL

\* _check_lockout, _record_login_failure: an address is locked by MaxFailures
\* failures that were not recorded at the same time, however many are counted.
THEOREM FailuresAreLocked == Spec => []FailuresLock
<1>1. IInv => FailuresLock
  BY DEF IInv
<1> QED BY <1>1, InvariantHolds, PTL

\* create_user_account, run_housekeeping: the first account is the admin, and
\* owns what was made before it, for any number of registrations.
THEOREM TheFirstLeads == Spec => []FirstAccountLeads
<1>1. IInv => FirstAccountLeads
  BY DEF IInv
<1> QED BY <1>1, InvariantHolds, PTL

\* consume_verification, reset_password: a link is redeemed once, and a reset
\* that has redeemed one does not end before it has written the password.
THEOREM LinksAreHonoured == Spec => []LinkHonoured
<1>1. ASSUME IInv PROVE LinkHonoured
  BY <1>1 DEF IInv, LinkInv, LinkHonoured
<1> QED BY <1>1, InvariantHolds, PTL

\* change_password, reset_password: a session outlives the password it was opened
\* under only until the request that set the new one revokes it.
THEOREM OldPasswordsOpenNothing == Spec => []NoSessionOfAnOldPassword
<1>1. ASSUME IInv PROVE NoSessionOfAnOldPassword
  BY <1>1 DEF IInv, SessionInv, NoSessionOfAnOldPassword
<1> QED BY <1>1, InvariantHolds, PTL

\* ON DELETE CASCADE and users.id without AUTOINCREMENT: no row is handed to the
\* account that is given the id of a closed one.
THEOREM RowsBelong == Spec => []RowsOfTheirAccount
<1>1. IInv => RowsOfTheirAccount
  BY DEF IInv
<1> QED BY <1>1, InvariantHolds, PTL

\* unlink: whatever happens between its two calls, an account has a password or an
\* OAuth identity left.
THEOREM AWayInRemains == Spec => []AlwaysAWayIn
<1>1. ASSUME IInv PROVE AlwaysAWayIn
  <2> SUFFICES ASSUME NEW i \in Account
               PROVE  \/ users[i].password # None
                      \/ \E k \in IdentitiesOf(i) : k[1] # Password
                      \/ users[i].born \in contested \cup displaced
                      \/ \E r \in Requests : at[r] = "seed" /\ mem[r].user = i
                      \/ crashed
    BY DEF AlwaysAWayIn
  <2> QED BY <1>1 DEF IInv, WayInv
<1> QED BY <1>1, InvariantHolds, PTL

================================================================================
