------------------------------- MODULE Workspace -------------------------------
(****************************************************************************)
(* One user's workspace: the conversations and live tables of the runtime   *)
(* store, its registry of session locks, the CSV library with the files in  *)
(* EXPORTS_DIR, and the requests that change them.                          *)
(*                                                                          *)
(* Every actor serves one request.  run[a] is the await a chat request is   *)
(* suspended at, up to and inside run_session, whose turn is abstracted to  *)
(* its first write and at most one tool call (TurnLifecycle has the rest);  *)
(* at[a] is the await of any other request, or of the worker thread of the  *)
(* chat's tool.  A cancelled run does not stop that thread.  Between any    *)
(* two awaits other requests run, and the process may die.                  *)
(****************************************************************************)
EXTENDS Integers, FiniteSets

CONSTANTS
    Actors,      \* requests
    OldSessions, \* conversation ids at the start
    NewSessions, \* ids of conversations made since
    OldNames,    \* file names of the library at the start
    NewNames,    \* "<title>_<second>.csv" of exports made since
    MaxExports,  \* MAX_EXPORTS_PER_USER
    Seed,        \* content that was there at the start
    None

ASSUME MaxExportsAssumption == MaxExports \in Nat \ {0}
ASSUME NoneAssumption == None \notin Actors \cup {Seed} /\ Seed \notin Actors
ASSUME NamesAssumption == OldNames \cap NewNames = {} /\ IsFiniteSet(OldNames \cup NewNames)

Sessions == OldSessions \cup NewSessions
Names == OldNames \cup NewNames
Content == Actors \cup {Seed}       \* whoever wrote it
Row == [by : Content, owned : BOOLEAN]
ASSUME NoneIsNoRow == None \notin Row

\* What is there at the start is within the cap.
ASSUME CapAssumption == Cardinality(OldNames) <= MaxExports

Operations == {"chat", "delete", "edit", "toggle", "save", "remove", "close", "lost"}
RunLocation == {"none", "lookup", "insert", "prepared",
                "queue", "user", "tool", "ended"}
Inside == {"user", "tool"}
Registering == {"owner", "count", "register", "unlink"}
Location == {"none", "locked", "persist", "set", "table", "csv",
             "lock", "new", "fill", "drop", "pop", "exports", "account",
             "row", "file", "files", "done"} \cup Registering

VARIABLES
    account,   \* the users row exists
    kind,      \* SessionRecord.kind, "none" without a row
    table,     \* table_states: who wrote it
    locked,    \* table_states.locked
    library,   \* exports rows, by their unique filename
    files,     \* EXPORTS_DIR
    registry,  \* RuntimeStore._locks: a lock is named after the run that made it
    holder,    \* of each lock
    op, run, at,
    arg,       \* the conversation of a request
    seen,      \* session.kind as the chat request read it
    mine,      \* the lock object a run waits for or holds
    name,      \* the file an export writes, or a removal unlinks
    note,      \* what a request remembers of its last read
    uses,      \* history: the exports that wrote a file of that name: 0, 1, 2 or more
    parallel,  \* history: an export was counted while another waited to register
    gone,      \* history: conversations that were deleted
    frozen,    \* history: locked ever since the request (or its tool) began
    crashed

db    == <<account, kind, table, locked, library>>
disk  == <<files>>
locks == <<registry, holder>>
chat  == <<run, seen, mine>>
mem   == <<op, arg, name>>
work  == <<at, note>>
hist  == <<uses, parallel, gone, frozen, crashed>>
vars  == <<db, disk, locks, chat, mem, work, hist>>

--------------------------------------------------------------------------------
Exists(c) == kind[c] # "none"

Init ==
    /\ account = TRUE
    /\ kind \in [Sessions -> {"none", "chat", "table"}]
    /\ \A c \in Sessions : Exists(c) <=> c \in OldSessions
    /\ table \in [Sessions -> {None, Seed}]
    /\ locked \in [Sessions -> BOOLEAN]
    /\ \A c \in Sessions : (table[c] # None => kind[c] = "table") /\ (locked[c] => table[c] # None)
    /\ library = [n \in Names |-> IF n \in OldNames THEN [by |-> Seed, owned |-> TRUE] ELSE None]
    /\ files = [n \in Names |-> IF n \in OldNames THEN Seed ELSE None]
    /\ registry = [c \in Sessions |-> None]
    /\ holder = [a \in Actors |-> None]
    /\ op = [a \in Actors |-> "none"]
    /\ run = [a \in Actors |-> "none"]
    /\ at = [a \in Actors |-> "none"]
    /\ arg = [a \in Actors |-> None]
    /\ seen = [a \in Actors |-> "none"]
    /\ mine = [a \in Actors |-> None]
    /\ name = [a \in Actors |-> None]
    /\ note = [a \in Actors |-> {}]
    /\ uses = [n \in Names |-> 0]
    /\ parallel = FALSE
    /\ gone = {}
    /\ frozen = [a \in Actors |-> FALSE]
    /\ crashed = FALSE

RunTo(a, l) == run' = [run EXCEPT ![a] = l]
Step(a, l, S) == at' = [at EXCEPT ![a] = l] /\ note' = [note EXCEPT ![a] = S]
To(a, l) == Step(a, l, IF l = "done" THEN {} ELSE note[a])
Fresh(c) == ~Exists(c) /\ c \notin gone /\ \A b \in Actors : arg[b] # c
Owned == {n \in Names : library[n] # None /\ library[n].owned}

\* A request of a live session token and its first read, which finds what the
\* request is about: a request refused there changes nothing and is left out.
\* What changes state comes after further awaits.
Begin(a, o, c) ==
    /\ account /\ op[a] = "none"
    /\ op' = [op EXCEPT ![a] = o]
    /\ arg' = [arg EXCEPT ![a] = c]

\* A conversation id that is new, or that get_session finds for the caller.
BeginChat(a) ==
    /\ \E c \in Sessions :
          /\ Begin(a, "chat", c)
          /\ Fresh(c) \/ Exists(c)
    /\ RunTo(a, "lookup")
    /\ UNCHANGED <<db, disk, locks, seen, mine, name, work, hist>>

\* require_table_chat: the SQL editor, the lock toggle, the snapshot.
BeginTable(a) ==
    /\ \E c \in Sessions, o \in {"edit", "toggle", "save"} :
          /\ kind[c] = "table"
          /\ Begin(a, o, c)
          /\ To(a, CASE o = "edit"   -> "locked"
                      [] o = "toggle" -> "set"
                      [] o = "save"   -> "table")
          /\ frozen' = [frozen EXCEPT ![a] = o = "edit" /\ locked[c]]
    /\ UNCHANGED <<db, disk, locks, chat, name, uses, parallel, gone, crashed>>

BeginDelete(a) ==
    /\ \/ \E c \in Sessions : Begin(a, "delete", c) /\ Exists(c) /\ To(a, "drop")
       \/ Begin(a, "close", None) /\ Step(a, "drop", {c \in Sessions : Exists(c)})
    /\ UNCHANGED <<db, disk, locks, chat, name, hist>>

\* The export's row, found by id for its owner.
BeginRemove(a) ==
    /\ Begin(a, "remove", None)
    /\ \E n \in Owned : /\ name' = [name EXCEPT ![a] = n]
                        /\ Step(a, "row", {library[n].by})
    /\ UNCHANGED <<db, disk, locks, chat, hist>>

--------------------------------------------------------------------------------
(* POST /chat/stream: prepare_chat, then run_session                            *)

EndRun(a) ==
    /\ RunTo(a, "ended")
    /\ holder' = [l \in Actors |-> IF holder[l] = a THEN None ELSE holder[l]]
    /\ seen' = [seen EXCEPT ![a] = "none"]
    /\ mine' = [mine EXCEPT ![a] = None]

FindSession(a) ==
    /\ run[a] = "lookup"
    /\ seen' = [seen EXCEPT ![a] = kind[arg[a]]]
    /\ RunTo(a, IF Exists(arg[a]) THEN "prepared" ELSE "insert")
    /\ UNCHANGED <<db, disk, locks, mine, mem, work, hist>>

CreateSession(a) ==
    /\ run[a] = "insert"
    /\ IF account /\ ~Exists(arg[a])
       THEN /\ kind' = [kind EXCEPT ![arg[a]] = "chat"]
            /\ seen' = [seen EXCEPT ![a] = "chat"]
            /\ RunTo(a, "prepared")
       ELSE RunTo(a, "ended") /\ UNCHANGED <<kind, seen>>   \* IntegrityError
    /\ UNCHANGED <<account, table, locked, library, disk, locks, mine, mem, work, hist>>

SessionLockMutant(a) ==       \* no setdefault
    /\ run[a] = "prepared"
    /\ registry' = [registry EXCEPT ![arg[a]] = a]
    /\ mine' = [mine EXCEPT ![a] = a]
    /\ RunTo(a, "queue")
    /\ UNCHANGED <<db, disk, holder, seen, mem, work, hist>>

SessionLock(a) ==
    /\ run[a] = "prepared"
    /\ LET l == IF registry[arg[a]] = None THEN a ELSE registry[arg[a]] IN
       /\ registry' = [registry EXCEPT ![arg[a]] = l]
       /\ mine' = [mine EXCEPT ![a] = l]
    /\ RunTo(a, "queue")
    /\ UNCHANGED <<db, disk, holder, seen, mem, work, hist>>

Enter(a) ==
    /\ run[a] = "queue" /\ holder[mine[a]] = None
    /\ holder' = [holder EXCEPT ![mine[a]] = a]
    /\ RunTo(a, "user")
    /\ UNCHANGED <<db, disk, registry, seen, mine, mem, work, hist>>

\* The foreign key refuses a turn of a conversation that is gone.
CreateUserTurn(a) ==
    /\ run[a] = "user"
    /\ IF Exists(arg[a]) THEN RunTo(a, "tool") /\ UNCHANGED <<holder, seen, mine>> ELSE EndRun(a)
    /\ UNCHANGED <<db, disk, registry, mem, work, hist>>

CallTool(a) ==
    /\ run[a] = "tool" /\ at[a] = "none"
    /\ To(a, "csv") \/ To(a, "new") \/ (seen[a] = "table" /\ To(a, "locked"))
    /\ frozen' = [frozen EXCEPT ![a] = at'[a] = "locked" /\ locked[arg[a]]]
    /\ UNCHANGED <<db, disk, locks, chat, mem, uses, parallel, gone, crashed>>

FinishRun(a) ==
    /\ run[a] = "tool" /\ at[a] \in {"none", "done"}
    /\ EndRun(a)
    /\ UNCHANGED <<db, disk, registry, mem, work, hist>>

\* Stop or a dropped client: the coroutine ends, its worker thread does not.
CancelRun(a) ==
    /\ run[a] \in {"prepared", "queue"} \cup Inside
    /\ EndRun(a)
    /\ UNCHANGED <<db, disk, registry, mem, work, hist>>

--------------------------------------------------------------------------------
(* The live table: set_table, the SQL editor, the lock toggle                   *)

CheckLockedMutant(a) ==       \* not checked
    /\ at[a] = "locked"
    /\ To(a, "persist") \/ To(a, "done")
    /\ UNCHANGED <<db, disk, locks, chat, mem, hist>>

\* The query runs between the check and the write, and may fail.
CheckLocked(a) ==
    /\ at[a] = "locked"
    /\ (~locked[arg[a]] /\ To(a, "persist")) \/ To(a, "done")
    /\ UNCHANGED <<db, disk, locks, chat, mem, hist>>

UpsertTable(a, c) ==          \* a new row is unlocked, an old one stays as it is
    table' = IF Exists(c) THEN [table EXCEPT ![c] = a] ELSE table

PersistTable(a) ==
    /\ at[a] = "persist"
    /\ UpsertTable(a, arg[a])
    /\ To(a, "done")
    /\ UNCHANGED <<account, kind, locked, library, disk, locks, chat, mem, hist>>

SetLock(c, v) ==
    /\ locked' = IF table[c] # None THEN [locked EXCEPT ![c] = v] ELSE locked
    /\ frozen' = [b \in Actors |-> frozen[b] /\ (arg[b] = c => locked'[c])]

ToggleLock(a) ==
    /\ at[a] = "set"
    /\ \E v \in BOOLEAN : SetLock(arg[a], v)
    /\ To(a, "done")
    /\ UNCHANGED <<account, kind, table, library, disk, locks, chat, mem, uses, parallel, gone, crashed>>

\* create_report: a new table chat, then its table (and the seeded summary).
CreateReport(a) ==
    /\ at[a] = "new"
    /\ \/ /\ account
          /\ \E c \in Sessions :
                /\ Fresh(c)
                /\ kind' = [kind EXCEPT ![c] = "table"]
                /\ Step(a, "fill", {c})
       \/ To(a, "done") /\ UNCHANGED kind    \* the query or the insert failed
    /\ UNCHANGED <<account, table, locked, library, disk, locks, chat, mem, hist>>

FillReport(a) ==
    /\ at[a] = "fill"
    /\ \E c \in note[a] : UpsertTable(a, c)
    /\ To(a, "done")
    /\ UNCHANGED <<account, kind, locked, library, disk, locks, chat, mem, hist>>

--------------------------------------------------------------------------------
(* The CSV library: create_csv_export, save_to_reports, register_export         *)

\* Two exports of one title within one second share a name.
WriteFile(a) ==
    \E n \in NewNames : /\ name' = [name EXCEPT ![a] = n]
                        /\ files' = [files EXCEPT ![n] = a]
                        /\ uses' = [uses EXCEPT ![n] = IF @ = 0 THEN 1 ELSE 2]
                        /\ To(a, "owner")

\* save_to_reports writes the rows it has just read, the tool those of a query.
WriteCsv(a) ==
    /\ \/ /\ at[a] = "csv" \/ (at[a] = "table" /\ table[arg[a]] # None)
          /\ WriteFile(a)
       \/ /\ at[a] = "csv" \/ (at[a] = "table" /\ table[arg[a]] = None)
          /\ To(a, "done")
          /\ UNCHANGED <<name, files, uses>>
    /\ UNCHANGED <<db, locks, chat, op, arg, parallel, gone, frozen, crashed>>

\* register_export looks the owner up in the source conversation; without one
\* the row gets none, and is not counted.
FindOwner(a) ==
    /\ at[a] = "owner"
    /\ Step(a, IF Exists(arg[a]) THEN "count" ELSE "register", {Exists(arg[a])})
    /\ UNCHANGED <<db, disk, locks, chat, mem, hist>>

Unlink(S) == files' = [n \in Names |-> IF n \in S THEN None ELSE files[n]]

\* The route unlinks before it awaits again; the tool's thread a moment later.
RegisterFails(a) ==
    /\ IF op[a] = "chat" THEN To(a, "unlink") /\ UNCHANGED files
                         ELSE To(a, "done") /\ Unlink({name[a]})
    /\ UNCHANGED library

Counted(a, limit) ==
    /\ at[a] = "count"
    /\ IF Cardinality(Owned) < limit
       THEN /\ To(a, "register")
            /\ parallel' = (parallel \/ \E b \in Actors : at[b] = "register")
            /\ UNCHANGED <<files, library>>
       ELSE RegisterFails(a) /\ UNCHANGED parallel
    /\ UNCHANGED <<account, kind, table, locked, locks, chat, mem, uses, gone, frozen, crashed>>

CountExportsMutant(a) == Counted(a, MaxExports + 1)    \* off by one

CountExports(a) == Counted(a, MaxExports)

RegisterExport(a) ==
    /\ at[a] = "register"
    /\ IF library[name[a]] = None /\ (TRUE \in note[a] => account)
       THEN /\ library' = [library EXCEPT ![name[a]] = [by |-> a, owned |-> TRUE \in note[a]]]
            /\ To(a, IF op[a] = "save" THEN "lock" ELSE "done")
            /\ UNCHANGED files
       ELSE RegisterFails(a)
    /\ UNCHANGED <<account, kind, table, locked, locks, chat, mem, hist>>

UnlinkCsvMutant(a) ==         \* the file is left behind
    /\ at[a] = "unlink"
    /\ To(a, "done")
    /\ UNCHANGED <<db, disk, locks, chat, mem, hist>>

UnlinkCsv(a) ==
    /\ at[a] = "unlink"
    /\ Unlink({name[a]})
    /\ To(a, "done")
    /\ UNCHANGED <<db, locks, chat, mem, hist>>

LockSnapshot(a) ==
    /\ at[a] = "lock"
    /\ SetLock(arg[a], TRUE)
    /\ To(a, "done")
    /\ UNCHANGED <<account, kind, table, library, disk, locks, chat, mem, uses, parallel, gone, crashed>>

\* delete_export removes the row it has read, then the file.
DeleteExportRow(a) ==
    /\ at[a] = "row"
    /\ library' = [n \in Names |->
                     IF n = name[a] /\ library[n] # None /\ library[n].by \in note[a]
                     THEN None ELSE library[n]]
    /\ To(a, "file")
    /\ UNCHANGED <<account, kind, table, locked, disk, locks, chat, mem, hist>>

UnlinkExport(a) ==
    /\ at[a] = "file"
    /\ Unlink({name[a]})
    /\ To(a, "done")
    /\ UNCHANGED <<db, locks, chat, mem, hist>>

--------------------------------------------------------------------------------
(* Deleting a conversation, and the account with everything it owns             *)

\* One transaction; ON DELETE CASCADE takes the table along.
DeleteSession(c) ==
    /\ kind' = [kind EXCEPT ![c] = "none"]
    /\ table' = [table EXCEPT ![c] = None]
    /\ locked' = [locked EXCEPT ![c] = FALSE]
    /\ gone' = gone \cup {c}
    /\ frozen' = [b \in Actors |-> frozen[b] /\ arg[b] # c]

DropConversation(a) ==
    /\ at[a] = "drop" /\ op[a] = "delete"
    /\ IF Exists(arg[a])
       THEN DeleteSession(arg[a]) /\ To(a, "pop")
       ELSE To(a, "done") /\ UNCHANGED <<kind, table, locked, gone, frozen>>
    /\ UNCHANGED <<account, library, disk, locks, chat, mem, uses, parallel, crashed>>

DropNext(a) ==
    /\ at[a] = "drop" /\ op[a] = "close"
    /\ \/ \E c \in note[a] :
             /\ Step(a, IF Exists(c) THEN "pop" ELSE "drop", note[a] \ {c})
             /\ arg' = [arg EXCEPT ![a] = c]
             /\ IF Exists(c) THEN DeleteSession(c) ELSE UNCHANGED <<kind, table, locked, gone, frozen>>
       \/ /\ note[a] = {}
          /\ To(a, "exports")
          /\ UNCHANGED <<arg, kind, table, locked, gone, frozen>>
    /\ UNCHANGED <<account, library, disk, locks, chat, op, name, uses, parallel, crashed>>

\* _release_lock follows the transaction, whoever holds or awaits the lock.
ReleaseLock(a) ==
    /\ at[a] = "pop"
    /\ registry' = [registry EXCEPT ![arg[a]] = None]
    /\ To(a, IF op[a] = "close" THEN "drop" ELSE "done")
    /\ UNCHANGED <<db, disk, holder, chat, mem, hist>>

ListExports(a) ==
    /\ at[a] = "exports"
    /\ Step(a, "account", Owned)
    /\ UNCHANGED <<db, disk, locks, chat, mem, hist>>

DeleteUserMutant(a) ==        \* the exports are left to a cascade that is not there
    /\ at[a] = "account"
    /\ IF \A c \in Sessions : ~Exists(c)
       THEN account' = FALSE /\ To(a, "files")
       ELSE To(a, "done") /\ UNCHANGED account
    /\ UNCHANGED <<kind, table, locked, library, disk, locks, chat, mem, hist>>

\* The foreign key of a conversation made meanwhile fails the transaction.
DeleteUser(a) ==
    /\ at[a] = "account"
    /\ IF \A c \in Sessions : ~Exists(c)
       THEN /\ account' = FALSE
            /\ library' = [n \in Names |-> IF n \in Owned THEN None ELSE library[n]]
            /\ To(a, "files")
       ELSE To(a, "done") /\ UNCHANGED <<account, library>>
    /\ UNCHANGED <<kind, table, locked, disk, locks, chat, mem, hist>>

UnlinkFiles(a) ==
    /\ at[a] = "files"
    /\ Unlink(note[a])
    /\ To(a, "done")
    /\ UNCHANGED <<db, locks, chat, mem, hist>>

--------------------------------------------------------------------------------
SweepMutant == {n \in Names : files[n] # None}      \* rows are not consulted

\* _sweep_orphan_exports, with users registered: old files without a row.
Sweep == {n \in Names : account /\ files[n] # None /\ library[n] = None}

\* The process dies and a new one starts up, before any request of its own.
Restart ==
    /\ ~crashed
    /\ crashed' = TRUE
    /\ run' = [a \in Actors |-> IF run[a] = "none" THEN "none" ELSE "ended"]
    /\ at' = [a \in Actors |-> IF at[a] = "none" THEN "none" ELSE "done"]
    /\ seen' = [a \in Actors |-> "none"]
    /\ mine' = [a \in Actors |-> None]
    /\ note' = [a \in Actors |-> {}]
    /\ op' = [a \in Actors |-> IF op[a] = "none" THEN "none" ELSE "lost"]
    /\ arg' = [a \in Actors |-> None]
    /\ name' = [a \in Actors |-> None]
    /\ frozen' = [a \in Actors |-> FALSE]
    /\ registry' = [c \in Sessions |-> None]
    /\ holder' = [a \in Actors |-> None]
    /\ \E S \in SUBSET Sweep : Unlink(S)      \* those an hour old
    /\ UNCHANGED <<db, uses, parallel, gone>>

--------------------------------------------------------------------------------
Begins(a) == BeginChat(a) \/ BeginTable(a) \/ BeginDelete(a) \/ BeginRemove(a)

Chat(a) ==
    \/ FindSession(a) \/ CreateSession(a)
    \/ SessionLock(a) \/ Enter(a) \/ CreateUserTurn(a) \/ FinishRun(a)

Work(a) ==
    \/ CheckLocked(a) \/ PersistTable(a)
    \/ ToggleLock(a) \/ CreateReport(a) \/ FillReport(a)
    \/ WriteCsv(a) \/ FindOwner(a) \/ CountExports(a)
    \/ RegisterExport(a) \/ UnlinkCsv(a) \/ LockSnapshot(a)
    \/ DeleteExportRow(a) \/ UnlinkExport(a)
    \/ DropConversation(a) \/ DropNext(a) \/ ReleaseLock(a)
    \/ ListExports(a) \/ DeleteUser(a) \/ UnlinkFiles(a)

Next ==
    \/ \E a \in Actors : Begins(a) \/ Chat(a) \/ CallTool(a) \/ CancelRun(a) \/ Work(a)
    \/ Restart

Spec == Init /\ [][Next]_vars

--------------------------------------------------------------------------------
TypeOK ==
    /\ account \in BOOLEAN /\ crashed \in BOOLEAN
    /\ kind \in [Sessions -> {"none", "chat", "table"}]
    /\ table \in [Sessions -> Content \cup {None}]
    /\ locked \in [Sessions -> BOOLEAN]
    /\ \A c \in Sessions : (table[c] # None => Exists(c)) /\ (locked[c] => table[c] # None)
    /\ library \in [Names -> Row \cup {None}]
    /\ files \in [Names -> Content \cup {None}]
    /\ registry \in [Sessions -> Actors \cup {None}]
    /\ holder \in [Actors -> Actors \cup {None}]
    /\ op \in [Actors -> Operations \cup {"none"}]
    /\ run \in [Actors -> RunLocation]
    /\ at \in [Actors -> Location]
    /\ arg \in [Actors -> Sessions \cup {None}]
    /\ seen \in [Actors -> {"none", "chat", "table"}]
    /\ mine \in [Actors -> Actors \cup {None}]
    /\ name \in [Actors -> Names \cup {None}]
    /\ note \in [Actors -> SUBSET (Sessions \cup Names \cup Content \cup BOOLEAN)]
    /\ uses \in [Names -> 0..2]
    /\ parallel \in BOOLEAN
    /\ gone \subseteq Sessions
    /\ frozen \in [Actors -> BOOLEAN]

\* Two runs are inside one conversation only after a deletion dropped its lock.
OverlapOnlyAfterDelete ==
    \A a, b \in Actors :
        (a # b /\ run[a] \in Inside /\ run[b] \in Inside /\ arg[a] = arg[b]) => arg[a] \in gone

Shared(n) == uses[n] > 1

\* An export in the library has its own file on disk, whatever is deleted, fails
\* or dies, unless two exports of one second shared its name.
RowKeepsFile ==
    \A n \in Names : library[n] # None => files[n] = library[n].by \/ Shared(n)

\* A file without a library entry is on its way in or out; only a crash, an
\* account closed under a running export, or a shared name leave one behind.
OrphanFileExplained ==
    \A n \in Names : (files[n] # None /\ library[n] = None) =>
        \/ crashed \/ ~account \/ Shared(n)
        \/ \E a \in Actors : name[a] = n /\ at[a] \in Registering \cup {"file"}

\* The library outgrows its cap only by exports that were counted in parallel.
LibraryWithinCap == Cardinality(Owned) > MaxExports => parallel

\* An account that is gone owns nothing.
ClosedAccountOwnsNothing ==
    ~account => Owned = {} /\ \A c \in Sessions : ~Exists(c) /\ table[c] = None

\* A table that stays locked from before a request (or tool call) reads the flag
\* keeps its content: only requests already past the check still change it.
LockRespected ==
    [][\A a \in Actors, c \in Sessions :
         (arg[a] = c /\ table'[c] = a /\ table[c] # a) => ~frozen[a]]_vars
================================================================================
