---------------------------- MODULE WorkspaceProofs ----------------------------
(****************************************************************************)
(* What holds of a workspace for any number of requests, conversations and  *)
(* exports: runs of a conversation exclude each other, an export keeps its  *)
(* file, no file is forgotten, the library stays within its cap, a closed   *)
(* account owns nothing, and a locked table is not written.                 *)
(****************************************************************************)
EXTENDS Workspace, FiniteSetTheorems, TLAPS

USE DEF vars, db, disk, locks, chat, mem, work, hist, Exists

\* Which requests are where.
Placed(a) ==
    /\ at[a] \in {"locked", "persist"} => op[a] \in {"chat", "edit"}
    /\ at[a] = "set" => op[a] = "toggle"
    /\ at[a] \in {"new", "fill", "csv", "unlink"} => op[a] = "chat"
    /\ at[a] \in {"owner", "count", "register"} => op[a] \in {"chat", "save"}
    /\ at[a] \in {"table", "lock"} => op[a] = "save"
    /\ at[a] \in {"row", "file"} => op[a] = "remove"
    /\ at[a] \in {"drop", "pop"} => op[a] \in {"delete", "close"}
    /\ at[a] \in {"exports", "account", "files"} => op[a] = "close"
    /\ at[a] # "none" \/ run[a] # "none" => op[a] # "none"
    /\ run[a] \notin {"none", "ended"} => op[a] = "chat"

PlacesInv == \A a \in Actors : Placed(a)

OfConversation == {"chat", "delete", "edit", "toggle", "save"}
Naming == Registering \cup {"row", "file"}

\* What a request remembers.
Remembers(a) ==
    /\ op[a] \in OfConversation => arg[a] \in Sessions
    /\ at[a] = "pop" => arg[a] \in gone
    /\ run[a] \in {"queue"} \cup Inside => mine[a] \in Actors
    /\ at[a] \in Naming => name[a] \in Names
    /\ op[a] = "close" /\ at[a] \in {"drop", "pop"} => note[a] \subseteq Sessions
    /\ at[a] = "fill" => note[a] \subseteq Sessions \ {arg[a]}
    /\ at[a] = "count" => note[a] = {TRUE}
    /\ at[a] = "register" => note[a] \in {{TRUE}, {FALSE}}
    /\ at[a] \in {"account", "files"} => note[a] \subseteq Names

MemoryInv == \A a \in Actors : Remembers(a)

\* The lock a run waits for is the one of the registry, until a deletion drops it.
LockInv ==
    \A a \in Actors :
        /\ run[a] \in {"queue"} \cup Inside => registry[arg[a]] = mine[a] \/ arg[a] \in gone
        /\ run[a] \in Inside => holder[mine[a]] = a

\* A request past the check of a table that was locked all along does not write.
FrozenInv ==
    \A a \in Actors :
        frozen[a] => /\ arg[a] \in Sessions /\ locked[arg[a]]
                     /\ at[a] # "persist" /\ op[a] \notin {"none", "close"}

\* Who goes on using a name that it has read from a row.
Reads(b, n) ==
    \/ at[b] \in {"row", "file"} /\ name[b] = n
    \/ at[b] \in {"account", "files"} /\ n \in note[b]

\* The name of a row is an old one or was given to an export.
UsedInv ==
    \A n \in NewNames : uses[n] = 0 => library[n] = None /\ \A b \in Actors : ~Reads(b, n)

\* An export in the making has the file, and its name to itself.
Sole(a) ==
    /\ library[name[a]] = None /\ files[name[a]] = a
    /\ \A b \in Actors :
          /\ ~Reads(b, name[a])
          /\ at[b] \in Registering /\ name[b] = name[a] => a = b
Made(a) ==
    /\ name[a] \in NewNames /\ uses[name[a]] > 0
    /\ Shared(name[a]) \/ Sole(a)
MakingInv == \A a \in Actors : at[a] \in Registering => Made(a)

\* A removal that is about to unlink a file has removed its row.
RemovalInv ==
    \A b \in Actors, n \in Names :
        Reads(b, n) =>
            \/ library[n] = None \/ Shared(n)
            \/ at[b] = "row" /\ library[n].by \in note[b]
            \/ at[b] = "account" /\ library[n].owned

\* Whoever was counted finds room.
Counting == {a \in Actors : at[a] = "register" /\ TRUE \in note[a]}
RoomInv ==
    parallel \/ /\ Cardinality(Owned) <= MaxExports
                /\ \A a, b \in Counting : a = b
                /\ Counting # {} => Cardinality(Owned) < MaxExports

\* A closed account has no export and no conversation (and so, by TypeOK, no table).
Closed == ~account => Owned = {} /\ \A c \in Sessions : ~Exists(c)

\* The parts of TypeOK.
PlaceTypes ==
    /\ op \in [Actors -> Operations \cup {"none"}]
    /\ run \in [Actors -> RunLocation]
    /\ at \in [Actors -> Location]
RequestTypes ==
    /\ arg \in [Actors -> Sessions \cup {None}]
    /\ name \in [Actors -> Names \cup {None}]
    /\ note \in [Actors -> SUBSET (Sessions \cup Names \cup Content \cup BOOLEAN)]
ConversationTypes ==
    /\ kind \in [Sessions -> {"none", "chat", "table"}]
    /\ table \in [Sessions -> Content \cup {None}]
    /\ locked \in [Sessions -> BOOLEAN]
    /\ \A c \in Sessions : (table[c] # None => Exists(c)) /\ (locked[c] => table[c] # None)
    /\ gone \subseteq Sessions
LockTypes ==
    /\ registry \in [Sessions -> Actors \cup {None}]
    /\ holder \in [Actors -> Actors \cup {None}]
    /\ seen \in [Actors -> {"none", "chat", "table"}]
    /\ mine \in [Actors -> Actors \cup {None}]
ExportTypes ==
    /\ library \in [Names -> Row \cup {None}]
    /\ files \in [Names -> Content \cup {None}]
    /\ uses \in [Names -> 0..2]
FlagTypes ==
    /\ account \in BOOLEAN /\ crashed \in BOOLEAN /\ parallel \in BOOLEAN
    /\ frozen \in [Actors -> BOOLEAN]

IInv ==
    /\ TypeOK /\ PlacesInv /\ MemoryInv /\ LockInv /\ FrozenInv
    /\ UsedInv /\ MakingInv /\ RemovalInv /\ RowKeepsFile
    /\ OrphanFileExplained /\ RoomInv /\ Closed

--------------------------------------------------------------------------------
\* A request is only where its operation takes it.
LEMMA PlacesStep ==
    ASSUME TypeOK, PlacesInv, [Next]_vars
    PROVE  PlacesInv'
<1>0. /\ at \in [Actors -> Location] /\ run \in [Actors -> RunLocation]
      /\ op \in [Actors -> Operations \cup {"none"}]
  BY DEF TypeOK
<1>1. ASSUME NEW a \in Actors, BeginChat(a) PROVE PlacesInv'
  BY <1>0, <1>1 DEF PlacesInv, Placed, BeginChat, Begin, RunTo
<1>2. ASSUME NEW a \in Actors, BeginTable(a) PROVE PlacesInv'
  BY <1>0, <1>2 DEF PlacesInv, Placed, BeginTable, Begin, To, Step
<1>3. ASSUME NEW a \in Actors, BeginDelete(a) PROVE PlacesInv'
  BY <1>0, <1>3 DEF PlacesInv, Placed, BeginDelete, Begin, To, Step
<1>4. ASSUME NEW a \in Actors, BeginRemove(a) PROVE PlacesInv'
  BY <1>0, <1>4 DEF PlacesInv, Placed, BeginRemove, Begin, Step
<1>5. ASSUME NEW a \in Actors, FindSession(a) PROVE PlacesInv'
  BY <1>0, <1>5 DEF PlacesInv, Placed, FindSession, RunTo
<1>6. ASSUME NEW a \in Actors, CreateSession(a) PROVE PlacesInv'
  BY <1>0, <1>6 DEF PlacesInv, Placed, CreateSession, RunTo
<1>7. ASSUME NEW a \in Actors, SessionLock(a) PROVE PlacesInv'
  BY <1>0, <1>7 DEF PlacesInv, Placed, SessionLock, RunTo
<1>8. ASSUME NEW a \in Actors, Enter(a) PROVE PlacesInv'
  BY <1>0, <1>8 DEF PlacesInv, Placed, Enter, RunTo
<1>9. ASSUME NEW a \in Actors, CreateUserTurn(a) PROVE PlacesInv'
  BY <1>0, <1>9 DEF PlacesInv, Placed, CreateUserTurn, RunTo, EndRun
<1>10. ASSUME NEW a \in Actors, FinishRun(a) PROVE PlacesInv'
  BY <1>0, <1>10 DEF PlacesInv, Placed, FinishRun, EndRun, RunTo
<1>11. ASSUME NEW a \in Actors, CallTool(a) PROVE PlacesInv'
  BY <1>0, <1>11 DEF PlacesInv, Placed, CallTool, To, Step
<1>12. ASSUME NEW a \in Actors, CancelRun(a) PROVE PlacesInv'
  BY <1>0, <1>12 DEF PlacesInv, Placed, CancelRun, EndRun, RunTo, Inside
<1>13. ASSUME NEW a \in Actors, CheckLocked(a) PROVE PlacesInv'
  BY <1>0, <1>13 DEF PlacesInv, Placed, CheckLocked, To, Step
<1>14. ASSUME NEW a \in Actors, PersistTable(a) PROVE PlacesInv'
  BY <1>0, <1>14 DEF PlacesInv, Placed, PersistTable, UpsertTable, To, Step
<1>15. ASSUME NEW a \in Actors, ToggleLock(a) PROVE PlacesInv'
  BY <1>0, <1>15 DEF PlacesInv, Placed, ToggleLock, SetLock, To, Step
<1>16. ASSUME NEW a \in Actors, CreateReport(a) PROVE PlacesInv'
  BY <1>0, <1>16 DEF PlacesInv, Placed, CreateReport, To, Step
<1>17. ASSUME NEW a \in Actors, FillReport(a) PROVE PlacesInv'
  BY <1>0, <1>17 DEF PlacesInv, Placed, FillReport, UpsertTable, To, Step
<1>18. ASSUME NEW a \in Actors, WriteCsv(a) PROVE PlacesInv'
  BY <1>0, <1>18 DEF PlacesInv, Placed, WriteCsv, WriteFile, To, Step
<1>19. ASSUME NEW a \in Actors, FindOwner(a) PROVE PlacesInv'
  BY <1>0, <1>19 DEF PlacesInv, Placed, FindOwner, Step
<1>20. ASSUME NEW a \in Actors, CountExports(a) PROVE PlacesInv'
  BY <1>0, <1>20 DEF PlacesInv, Placed, CountExports, Counted, RegisterFails, Unlink, To, Step
<1>21. ASSUME NEW a \in Actors, RegisterExport(a) PROVE PlacesInv'
  <2>1. /\ at[a] = "register" /\ UNCHANGED <<op, run>>
        /\ \E l \in {"lock", "unlink", "done"} :
              /\ at' = [at EXCEPT ![a] = l]
              /\ (l = "lock" => op[a] = "save") /\ (l = "unlink" => op[a] = "chat")
    BY <1>21 DEF RegisterExport, RegisterFails, To, Step
  <2> QED BY <1>0, <2>1 DEF PlacesInv, Placed
<1>22. ASSUME NEW a \in Actors, UnlinkCsv(a) PROVE PlacesInv'
  BY <1>0, <1>22 DEF PlacesInv, Placed, UnlinkCsv, Unlink, To, Step
<1>23. ASSUME NEW a \in Actors, LockSnapshot(a) PROVE PlacesInv'
  BY <1>0, <1>23 DEF PlacesInv, Placed, LockSnapshot, SetLock, To, Step
<1>24. ASSUME NEW a \in Actors, DeleteExportRow(a) PROVE PlacesInv'
  BY <1>0, <1>24 DEF PlacesInv, Placed, DeleteExportRow, To, Step
<1>25. ASSUME NEW a \in Actors, UnlinkExport(a) PROVE PlacesInv'
  BY <1>0, <1>25 DEF PlacesInv, Placed, UnlinkExport, Unlink, To, Step
<1>26. ASSUME NEW a \in Actors, DropConversation(a) PROVE PlacesInv'
  BY <1>0, <1>26 DEF PlacesInv, Placed, DropConversation, DeleteSession, To, Step
<1>27. ASSUME NEW a \in Actors, DropNext(a) PROVE PlacesInv'
  BY <1>0, <1>27 DEF PlacesInv, Placed, DropNext, DeleteSession, To, Step
<1>28. ASSUME NEW a \in Actors, ReleaseLock(a) PROVE PlacesInv'
  BY <1>0, <1>28 DEF PlacesInv, Placed, ReleaseLock, To, Step
<1>29. ASSUME NEW a \in Actors, ListExports(a) PROVE PlacesInv'
  BY <1>0, <1>29 DEF PlacesInv, Placed, ListExports, Step
<1>30. ASSUME NEW a \in Actors, DeleteUser(a) PROVE PlacesInv'
  BY <1>0, <1>30 DEF PlacesInv, Placed, DeleteUser, To, Step
<1>31. ASSUME NEW a \in Actors, UnlinkFiles(a) PROVE PlacesInv'
  BY <1>0, <1>31 DEF PlacesInv, Placed, UnlinkFiles, Unlink, To, Step
<1>32. CASE Restart
  BY <1>0, <1>32 DEF PlacesInv, Placed, Restart
<1>33. CASE UNCHANGED vars
  BY <1>33 DEF PlacesInv, Placed
<1> QED
  BY <1>1, <1>2, <1>3, <1>4, <1>5, <1>6, <1>7, <1>8, <1>9, <1>10, <1>11,
     <1>12, <1>13, <1>14, <1>15, <1>16, <1>17, <1>18, <1>19, <1>20, <1>21,
     <1>22, <1>23, <1>24, <1>25, <1>26, <1>27, <1>28, <1>29, <1>30, <1>31,
     <1>32, <1>33 DEF Next, Begins, Chat, Work

\* A request remembers what its next step needs.
LEMMA MemoryStep ==
    ASSUME TypeOK, PlacesInv, MemoryInv, [Next]_vars
    PROVE  MemoryInv'
<1>0. /\ at \in [Actors -> Location] /\ run \in [Actors -> RunLocation]
      /\ op \in [Actors -> Operations \cup {"none"}] /\ arg \in [Actors -> Sessions \cup {None}]
      /\ mine \in [Actors -> Actors \cup {None}] /\ name \in [Actors -> Names \cup {None}]
      /\ note \in [Actors -> SUBSET (Sessions \cup Names \cup Content \cup BOOLEAN)]
      /\ registry \in [Sessions -> Actors \cup {None}]
  BY DEF TypeOK
<1>1. ASSUME NEW a \in Actors, BeginChat(a) PROVE MemoryInv'
  <2> SUFFICES ASSUME NEW b \in Actors PROVE Remembers(b)'
    BY DEF MemoryInv
  <2>0. Remembers(b) /\ Placed(a)
    BY DEF MemoryInv, PlacesInv
  <2>1. CASE b = a
    BY <1>0, <1>1, <2>0, <2>1 DEF Remembers, Placed, OfConversation, Naming, Registering,
       Inside, BeginChat, Begin, RunTo
  <2>2. CASE b # a
    BY <1>0, <1>1, <2>0, <2>2 DEF Remembers, BeginChat, Begin, RunTo
  <2> QED BY <2>1, <2>2
<1>2. ASSUME NEW a \in Actors, BeginTable(a) PROVE MemoryInv'
  <2> SUFFICES ASSUME NEW b \in Actors PROVE Remembers(b)'
    BY DEF MemoryInv
  <2>0. Remembers(b) /\ Remembers(a) /\ Placed(a)
    BY DEF MemoryInv, PlacesInv
  <2>a. /\ op[a] = "none" /\ UNCHANGED <<run, mine, name, gone>>
        /\ \E c \in Sessions : arg' = [arg EXCEPT ![a] = c]
        /\ \E o \in {"edit", "toggle", "save"} : op' = [op EXCEPT ![a] = o]
        /\ \E l \in {"locked", "set", "table"} : at' = [at EXCEPT ![a] = l]
        /\ \E S : note' = [note EXCEPT ![a] = S]
    BY <1>0, <2>0, <1>2 DEF BeginTable, Begin, To, Step
  <2>1. CASE b = a
    BY <1>0, <2>0, <2>a, <2>1 DEF Remembers, Placed, OfConversation, Naming, Registering,
       Inside
  <2>2. CASE b # a
    BY <1>0, <2>0, <2>a, <2>2 DEF Remembers
  <2> QED BY <2>1, <2>2
<1>3. ASSUME NEW a \in Actors, BeginDelete(a) PROVE MemoryInv'
  <2> SUFFICES ASSUME NEW b \in Actors PROVE Remembers(b)'
    BY DEF MemoryInv
  <2>0. Remembers(b) /\ Remembers(a) /\ Placed(a)
    BY DEF MemoryInv, PlacesInv
  <2>a. /\ op[a] = "none" /\ UNCHANGED <<run, mine, name, gone>>
        /\ at' = [at EXCEPT ![a] = "drop"]
        /\ \/ /\ op' = [op EXCEPT ![a] = "delete"]
              /\ \E c \in Sessions : arg' = [arg EXCEPT ![a] = c]
              /\ \E S : note' = [note EXCEPT ![a] = S]
           \/ /\ op' = [op EXCEPT ![a] = "close"] /\ arg' = [arg EXCEPT ![a] = None]
              /\ \E S \in SUBSET Sessions : note' = [note EXCEPT ![a] = S]
    BY <1>0, <2>0, <1>3 DEF BeginDelete, Begin, To, Step
  <2>1. CASE b = a
    BY <1>0, <2>0, <2>a, <2>1 DEF Remembers, Placed, OfConversation, Naming, Registering,
       Inside
  <2>2. CASE b # a
    BY <1>0, <2>0, <2>a, <2>2 DEF Remembers
  <2> QED BY <2>1, <2>2
<1>4. ASSUME NEW a \in Actors, BeginRemove(a) PROVE MemoryInv'
  <2> SUFFICES ASSUME NEW b \in Actors PROVE Remembers(b)'
    BY DEF MemoryInv
  <2>0. Remembers(b) /\ Remembers(a) /\ Placed(a)
    BY DEF MemoryInv, PlacesInv
  <2>a. /\ op[a] = "none" /\ UNCHANGED <<run, mine, gone>>
        /\ op' = [op EXCEPT ![a] = "remove"] /\ arg' = [arg EXCEPT ![a] = None]
        /\ at' = [at EXCEPT ![a] = "row"]
        /\ \E n \in Names : \E S : name' = [name EXCEPT ![a] = n] /\ note' = [note EXCEPT ![a] = S]
    BY <1>0, <2>0, <1>4 DEF BeginRemove, Begin, Step, Owned
  <2>1. CASE b = a
    BY <1>0, <2>0, <2>a, <2>1 DEF Remembers, Placed, OfConversation, Naming, Registering,
       Inside
  <2>2. CASE b # a
    BY <1>0, <2>0, <2>a, <2>2 DEF Remembers
  <2> QED BY <2>1, <2>2
<1>5. ASSUME NEW a \in Actors, FindSession(a) PROVE MemoryInv'
  BY <1>0, <1>5 DEF MemoryInv, Remembers, OfConversation, Naming, Registering, Inside,
     FindSession, RunTo
<1>6. ASSUME NEW a \in Actors, CreateSession(a) PROVE MemoryInv'
  BY <1>0, <1>6 DEF MemoryInv, Remembers, OfConversation, Naming, Registering, Inside,
     CreateSession, RunTo
<1>7. ASSUME NEW a \in Actors, SessionLock(a) PROVE MemoryInv'
  <2> SUFFICES ASSUME NEW b \in Actors PROVE Remembers(b)'
    BY DEF MemoryInv
  <2>0. Remembers(b) /\ Remembers(a) /\ Placed(a)
    BY DEF MemoryInv, PlacesInv
  <2>a. /\ run' = [run EXCEPT ![a] = "queue"]
        /\ \E l \in Actors : mine' = [mine EXCEPT ![a] = l]
        /\ UNCHANGED <<op, at, arg, name, note, gone>>
    BY <1>0, <2>0, <1>7 DEF SessionLock, RunTo, Remembers, Placed, OfConversation
  <2>1. CASE b = a
    BY <1>0, <2>0, <2>a, <2>1 DEF Remembers, Placed, OfConversation, Naming, Registering,
       Inside
  <2>2. CASE b # a
    BY <1>0, <2>0, <2>a, <2>2 DEF Remembers
  <2> QED BY <2>1, <2>2
<1>8. ASSUME NEW a \in Actors, Enter(a) PROVE MemoryInv'
  BY <1>0, <1>8 DEF MemoryInv, Remembers, OfConversation, Naming, Registering, Inside, Enter,
     RunTo
<1>9. ASSUME NEW a \in Actors, CreateUserTurn(a) PROVE MemoryInv'
  <2> SUFFICES ASSUME NEW b \in Actors PROVE Remembers(b)'
    BY DEF MemoryInv
  <2>0. Remembers(b) /\ Placed(a)
    BY DEF MemoryInv, PlacesInv
  <2>1. CASE b = a
    BY <1>0, <1>9, <2>0, <2>1 DEF Remembers, Placed, OfConversation, Naming, Registering,
       Inside, CreateUserTurn, RunTo, EndRun
  <2>2. CASE b # a
    BY <1>0, <1>9, <2>0, <2>2 DEF Remembers, CreateUserTurn, RunTo, EndRun
  <2> QED BY <2>1, <2>2
<1>10. ASSUME NEW a \in Actors, FinishRun(a) PROVE MemoryInv'
  BY <1>0, <1>10 DEF MemoryInv, Remembers, OfConversation, Naming, Registering, Inside,
     FinishRun, EndRun, RunTo
<1>11. ASSUME NEW a \in Actors, CallTool(a) PROVE MemoryInv'
  <2> SUFFICES ASSUME NEW b \in Actors PROVE Remembers(b)'
    BY DEF MemoryInv
  <2>0. Remembers(b) /\ Placed(a)
    BY DEF MemoryInv, PlacesInv
  <2>1. CASE b = a
    BY <1>0, <1>11, <2>0, <2>1 DEF Remembers, Placed, OfConversation, Naming, Registering,
       Inside, CallTool, To, Step
  <2>2. CASE b # a
    BY <1>0, <1>11, <2>0, <2>2 DEF Remembers, CallTool, To, Step
  <2> QED BY <2>1, <2>2
<1>12. ASSUME NEW a \in Actors, CancelRun(a) PROVE MemoryInv'
  BY <1>0, <1>12 DEF MemoryInv, Remembers, OfConversation, Naming, Registering, Inside,
     CancelRun, EndRun, RunTo
<1>13. ASSUME NEW a \in Actors, CheckLocked(a) PROVE MemoryInv'
  <2> SUFFICES ASSUME NEW b \in Actors PROVE Remembers(b)'
    BY DEF MemoryInv
  <2>0. Remembers(b) /\ Placed(a)
    BY DEF MemoryInv, PlacesInv
  <2>1. CASE b = a
    BY <1>0, <1>13, <2>0, <2>1 DEF Remembers, Placed, OfConversation, Naming, Registering,
       Inside, CheckLocked, To, Step
  <2>2. CASE b # a
    BY <1>0, <1>13, <2>0, <2>2 DEF Remembers, CheckLocked, To, Step
  <2> QED BY <2>1, <2>2
<1>14. ASSUME NEW a \in Actors, PersistTable(a) PROVE MemoryInv'
  BY <1>0, <1>14 DEF MemoryInv, Remembers, OfConversation, Naming, Registering, Inside,
     PersistTable, UpsertTable, To, Step
<1>15. ASSUME NEW a \in Actors, ToggleLock(a) PROVE MemoryInv'
  BY <1>0, <1>15 DEF MemoryInv, Remembers, OfConversation, Naming, Registering, Inside,
     ToggleLock, SetLock, To, Step
<1>16. ASSUME NEW a \in Actors, CreateReport(a) PROVE MemoryInv'
  <2> SUFFICES ASSUME NEW b \in Actors PROVE Remembers(b)'
    BY DEF MemoryInv
  <2>0. Remembers(b) /\ Remembers(a) /\ Placed(a)
    BY DEF MemoryInv, PlacesInv
  <2>a. /\ at[a] = "new" /\ UNCHANGED <<op, arg, run, mine, name, gone>>
        /\ \E l \in {"fill", "done"}, S \in SUBSET Sessions :
              /\ at' = [at EXCEPT ![a] = l] /\ note' = [note EXCEPT ![a] = S]
              /\ arg[a] \notin S
    BY <1>0, <2>0, <1>16 DEF CreateReport, Fresh, To, Step
  <2>1. CASE b = a
    BY <1>0, <2>0, <2>a, <2>1 DEF Remembers, Placed, OfConversation, Naming, Registering,
       Inside
  <2>2. CASE b # a
    BY <1>0, <2>0, <2>a, <2>2 DEF Remembers
  <2> QED BY <2>1, <2>2
<1>17. ASSUME NEW a \in Actors, FillReport(a) PROVE MemoryInv'
  BY <1>0, <1>17 DEF MemoryInv, Remembers, OfConversation, Naming, Registering, Inside,
     FillReport, UpsertTable, To, Step
<1>18. ASSUME NEW a \in Actors, WriteCsv(a) PROVE MemoryInv'
  <2> SUFFICES ASSUME NEW b \in Actors PROVE Remembers(b)'
    BY DEF MemoryInv
  <2>0. Remembers(b) /\ Remembers(a) /\ Placed(a)
    BY DEF MemoryInv, PlacesInv
  <2>a. /\ at[a] \in {"csv", "table"} /\ UNCHANGED <<op, arg, run, mine, gone>>
        /\ \E l \in {"owner", "done"} : \E S :
              /\ at' = [at EXCEPT ![a] = l] /\ note' = [note EXCEPT ![a] = S]
              /\ \/ l = "done" /\ UNCHANGED name
                 \/ \E n \in Names : name' = [name EXCEPT ![a] = n]
    BY <1>0, <2>0, <1>18 DEF WriteCsv, WriteFile, To, Step, Names
  <2>1. CASE b = a
    BY <1>0, <2>0, <2>a, <2>1 DEF Remembers, Placed, OfConversation, Naming, Registering,
       Inside
  <2>2. CASE b # a
    BY <1>0, <2>0, <2>a, <2>2 DEF Remembers
  <2> QED BY <2>1, <2>2
<1>19. ASSUME NEW a \in Actors, FindOwner(a) PROVE MemoryInv'
  BY <1>0, <1>19 DEF MemoryInv, Remembers, OfConversation, Naming, Registering, Inside,
     FindOwner, Step
<1>20. ASSUME NEW a \in Actors, CountExports(a) PROVE MemoryInv'
  <2> SUFFICES ASSUME NEW b \in Actors PROVE Remembers(b)'
    BY DEF MemoryInv
  <2>0. Remembers(b) /\ Remembers(a) /\ Placed(a)
    BY DEF MemoryInv, PlacesInv
  <2>a. /\ at[a] = "count" /\ UNCHANGED <<op, arg, run, mine, name, gone>>
        /\ \E l \in {"register", "unlink", "done"} :
              /\ at' = [at EXCEPT ![a] = l]
              /\ note' = [note EXCEPT ![a] = IF l = "done" THEN {} ELSE note[a]]
    BY <1>0, <2>0, <1>20 DEF CountExports, Counted, RegisterFails, To, Step
  <2>1. CASE b = a
    BY <1>0, <2>0, <2>a, <2>1 DEF Remembers, Placed, OfConversation, Naming, Registering,
       Inside
  <2>2. CASE b # a
    BY <1>0, <2>0, <2>a, <2>2 DEF Remembers
  <2> QED BY <2>1, <2>2
<1>21. ASSUME NEW a \in Actors, RegisterExport(a) PROVE MemoryInv'
  <2> SUFFICES ASSUME NEW b \in Actors PROVE Remembers(b)'
    BY DEF MemoryInv
  <2>0. Remembers(b) /\ Remembers(a) /\ Placed(a)
    BY DEF MemoryInv, PlacesInv
  <2>a. /\ at[a] = "register" /\ UNCHANGED <<op, arg, run, mine, name, gone>>
        /\ \E l \in {"lock", "unlink", "done"} : \E S :
              at' = [at EXCEPT ![a] = l] /\ note' = [note EXCEPT ![a] = S]
    BY <1>0, <2>0, <1>21 DEF RegisterExport, RegisterFails, To, Step
  <2>1. CASE b = a
    BY <1>0, <2>0, <2>a, <2>1 DEF Remembers, Placed, OfConversation, Naming, Registering,
       Inside
  <2>2. CASE b # a
    BY <1>0, <2>0, <2>a, <2>2 DEF Remembers
  <2> QED BY <2>1, <2>2
<1>22. ASSUME NEW a \in Actors, UnlinkCsv(a) PROVE MemoryInv'
  BY <1>0, <1>22 DEF MemoryInv, Remembers, OfConversation, Naming, Registering, Inside,
     UnlinkCsv, Unlink, To, Step
<1>23. ASSUME NEW a \in Actors, LockSnapshot(a) PROVE MemoryInv'
  BY <1>0, <1>23 DEF MemoryInv, Remembers, OfConversation, Naming, Registering, Inside,
     LockSnapshot, SetLock, To, Step
<1>24. ASSUME NEW a \in Actors, DeleteExportRow(a) PROVE MemoryInv'
  BY <1>0, <1>24 DEF MemoryInv, Remembers, OfConversation, Naming, Registering, Inside,
     DeleteExportRow, To, Step
<1>25. ASSUME NEW a \in Actors, UnlinkExport(a) PROVE MemoryInv'
  BY <1>0, <1>25 DEF MemoryInv, Remembers, OfConversation, Naming, Registering, Inside,
     UnlinkExport, Unlink, To, Step
<1>26. ASSUME NEW a \in Actors, DropConversation(a) PROVE MemoryInv'
  <2> SUFFICES ASSUME NEW b \in Actors PROVE Remembers(b)'
    BY DEF MemoryInv
  <2>0. Remembers(b) /\ Remembers(a) /\ Placed(a)
    BY DEF MemoryInv, PlacesInv
  <2>a. /\ op[a] = "delete" /\ UNCHANGED <<op, arg, run, mine, name>>
        /\ \/ gone' = gone \cup {arg[a]} /\ at' = [at EXCEPT ![a] = "pop"]
           \/ gone' = gone /\ at' = [at EXCEPT ![a] = "done"]
        /\ \E S : note' = [note EXCEPT ![a] = S]
    BY <1>0, <2>0, <1>26 DEF DropConversation, DeleteSession, To, Step
  <2>1. CASE b = a
    BY <1>0, <2>0, <2>a, <2>1 DEF Remembers, Placed, OfConversation, Naming, Registering,
       Inside
  <2>2. CASE b # a
    BY <1>0, <2>0, <2>a, <2>2 DEF Remembers
  <2> QED BY <2>1, <2>2
<1>27. ASSUME NEW a \in Actors, DropNext(a) PROVE MemoryInv'
  <2> SUFFICES ASSUME NEW b \in Actors PROVE Remembers(b)'
    BY DEF MemoryInv
  <2>0. Remembers(b) /\ Remembers(a) /\ Placed(a)
    BY DEF MemoryInv, PlacesInv
  <2>a. /\ op[a] = "close" /\ UNCHANGED <<op, run, mine, name>>
        /\ gone \subseteq gone'
        /\ \/ /\ \E c \in Sessions : arg' = [arg EXCEPT ![a] = c] /\ (c \in gone' \/ ~Exists(c))
              /\ \E l \in {"pop", "drop"}, S \in SUBSET Sessions :
                    /\ at' = [at EXCEPT ![a] = l] /\ note' = [note EXCEPT ![a] = S]
                    /\ l = "pop" => arg'[a] \in gone'
           \/ /\ UNCHANGED arg /\ at' = [at EXCEPT ![a] = "exports"]
              /\ \E S : note' = [note EXCEPT ![a] = S]
    BY <1>0, <2>0, <1>27 DEF DropNext, DeleteSession, To, Step, Remembers
  <2>1. CASE b = a
    BY <1>0, <2>0, <2>a, <2>1 DEF Remembers, Placed, OfConversation, Naming, Registering,
       Inside
  <2>2. CASE b # a
    BY <1>0, <2>0, <2>a, <2>2 DEF Remembers
  <2> QED BY <2>1, <2>2
<1>28. ASSUME NEW a \in Actors, ReleaseLock(a) PROVE MemoryInv'
  BY <1>0, <1>28 DEF MemoryInv, Remembers, OfConversation, Naming, Registering, Inside,
     ReleaseLock, To, Step
<1>29. ASSUME NEW a \in Actors, ListExports(a) PROVE MemoryInv'
  <2> SUFFICES ASSUME NEW b \in Actors PROVE Remembers(b)'
    BY DEF MemoryInv
  <2>0. Remembers(b) /\ Remembers(a) /\ Placed(a)
    BY DEF MemoryInv, PlacesInv
  <2>a. /\ at[a] = "exports" /\ UNCHANGED <<op, arg, run, mine, name, gone>>
        /\ at' = [at EXCEPT ![a] = "account"]
        /\ \E S \in SUBSET Names : note' = [note EXCEPT ![a] = S]
    BY <1>0, <2>0, <1>29 DEF ListExports, Step, Owned
  <2>1. CASE b = a
    BY <1>0, <2>0, <2>a, <2>1 DEF Remembers, Placed, OfConversation, Naming, Registering,
       Inside
  <2>2. CASE b # a
    BY <1>0, <2>0, <2>a, <2>2 DEF Remembers
  <2> QED BY <2>1, <2>2
<1>30. ASSUME NEW a \in Actors, DeleteUser(a) PROVE MemoryInv'
  <2> SUFFICES ASSUME NEW b \in Actors PROVE Remembers(b)'
    BY DEF MemoryInv
  <2>0. Remembers(b) /\ Remembers(a) /\ Placed(a)
    BY DEF MemoryInv, PlacesInv
  <2>a. /\ at[a] = "account" /\ UNCHANGED <<op, arg, run, mine, name, gone>>
        /\ \E l \in {"files", "done"} :
              /\ at' = [at EXCEPT ![a] = l]
              /\ note' = [note EXCEPT ![a] = IF l = "done" THEN {} ELSE note[a]]
    BY <1>0, <2>0, <1>30 DEF DeleteUser, To, Step
  <2>1. CASE b = a
    BY <1>0, <2>0, <2>a, <2>1 DEF Remembers, Placed, OfConversation, Naming, Registering,
       Inside
  <2>2. CASE b # a
    BY <1>0, <2>0, <2>a, <2>2 DEF Remembers
  <2> QED BY <2>1, <2>2
<1>31. ASSUME NEW a \in Actors, UnlinkFiles(a) PROVE MemoryInv'
  BY <1>0, <1>31 DEF MemoryInv, Remembers, OfConversation, Naming, Registering, Inside,
     UnlinkFiles, Unlink, To, Step
<1>32. CASE Restart
  BY <1>0, <1>32 DEF MemoryInv, Remembers, OfConversation, Naming, Registering, Inside,
     Restart
<1>33. CASE UNCHANGED vars
  BY <1>33 DEF MemoryInv, Remembers
<1> QED
  BY <1>1, <1>2, <1>3, <1>4, <1>5, <1>6, <1>7, <1>8, <1>9, <1>10, <1>11,
     <1>12, <1>13, <1>14, <1>15, <1>16, <1>17, <1>18, <1>19, <1>20, <1>21,
     <1>22, <1>23, <1>24, <1>25, <1>26, <1>27, <1>28, <1>29, <1>30, <1>31,
     <1>32, <1>33 DEF Next, Begins, Chat, Work

\* TypeOK, in parts.
LEMMA TypeParts ==
    ASSUME TypeOK
    PROVE  PlaceTypes /\ RequestTypes /\ ConversationTypes /\ LockTypes /\ ExportTypes /\ FlagTypes
BY DEF TypeOK, PlaceTypes, RequestTypes, ConversationTypes, LockTypes, ExportTypes, FlagTypes

\* Types: where requests are.
LEMMA PlaceTypesStep ==
    ASSUME PlaceTypes, [Next]_vars
    PROVE  PlaceTypes'
<1>1. ASSUME NEW a \in Actors, BeginChat(a) PROVE PlaceTypes'
  BY <1>1 DEF BeginChat, Begin, RunTo, PlaceTypes, Operations, RunLocation, Location,
     Registering
<1>2. ASSUME NEW a \in Actors, BeginTable(a) PROVE PlaceTypes'
  BY <1>2 DEF BeginTable, Begin, To, Step, PlaceTypes, Operations, RunLocation, Location,
     Registering
<1>3. ASSUME NEW a \in Actors, BeginDelete(a) PROVE PlaceTypes'
  BY <1>3 DEF BeginDelete, Begin, To, Step, PlaceTypes, Operations, RunLocation, Location,
     Registering
<1>4. ASSUME NEW a \in Actors, BeginRemove(a) PROVE PlaceTypes'
  BY <1>4 DEF BeginRemove, Begin, Step, PlaceTypes, Operations, RunLocation, Location,
     Registering
<1>5. ASSUME NEW a \in Actors, FindSession(a) PROVE PlaceTypes'
  BY <1>5 DEF FindSession, RunTo, PlaceTypes, Operations, RunLocation, Location, Registering
<1>6. ASSUME NEW a \in Actors, CreateSession(a) PROVE PlaceTypes'
  BY <1>6 DEF CreateSession, RunTo, PlaceTypes, Operations, RunLocation, Location, Registering
<1>7. ASSUME NEW a \in Actors, SessionLock(a) PROVE PlaceTypes'
  BY <1>7 DEF SessionLock, RunTo, PlaceTypes, Operations, RunLocation, Location, Registering
<1>8. ASSUME NEW a \in Actors, Enter(a) PROVE PlaceTypes'
  BY <1>8 DEF Enter, RunTo, PlaceTypes, Operations, RunLocation, Location, Registering
<1>9. ASSUME NEW a \in Actors, CreateUserTurn(a) PROVE PlaceTypes'
  BY <1>9 DEF CreateUserTurn, RunTo, EndRun, PlaceTypes, Operations, RunLocation, Location,
     Registering
<1>10. ASSUME NEW a \in Actors, FinishRun(a) PROVE PlaceTypes'
  BY <1>10 DEF FinishRun, EndRun, RunTo, PlaceTypes, Operations, RunLocation, Location,
     Registering
<1>11. ASSUME NEW a \in Actors, CallTool(a) PROVE PlaceTypes'
  BY <1>11 DEF CallTool, To, Step, PlaceTypes, Operations, RunLocation, Location, Registering
<1>12. ASSUME NEW a \in Actors, CancelRun(a) PROVE PlaceTypes'
  BY <1>12 DEF CancelRun, EndRun, RunTo, PlaceTypes, Operations, RunLocation, Location,
     Registering
<1>13. ASSUME NEW a \in Actors, CheckLocked(a) PROVE PlaceTypes'
  BY <1>13 DEF CheckLocked, To, Step, PlaceTypes, Operations, RunLocation, Location,
     Registering
<1>14. ASSUME NEW a \in Actors, PersistTable(a) PROVE PlaceTypes'
  BY <1>14 DEF PersistTable, UpsertTable, To, Step, PlaceTypes, Operations, RunLocation,
     Location, Registering
<1>15. ASSUME NEW a \in Actors, ToggleLock(a) PROVE PlaceTypes'
  BY <1>15 DEF ToggleLock, SetLock, To, Step, PlaceTypes, Operations, RunLocation, Location,
     Registering
<1>16. ASSUME NEW a \in Actors, CreateReport(a) PROVE PlaceTypes'
  BY <1>16 DEF CreateReport, To, Step, PlaceTypes, Operations, RunLocation, Location,
     Registering
<1>17. ASSUME NEW a \in Actors, FillReport(a) PROVE PlaceTypes'
  BY <1>17 DEF FillReport, UpsertTable, To, Step, PlaceTypes, Operations, RunLocation,
     Location,
     Registering
<1>18. ASSUME NEW a \in Actors, WriteCsv(a) PROVE PlaceTypes'
  BY <1>18 DEF WriteCsv, WriteFile, To, Step, PlaceTypes, Operations, RunLocation, Location,
     Registering
<1>19. ASSUME NEW a \in Actors, FindOwner(a) PROVE PlaceTypes'
  BY <1>19 DEF FindOwner, Step, PlaceTypes, Operations, RunLocation, Location, Registering
<1>20. ASSUME NEW a \in Actors, CountExports(a) PROVE PlaceTypes'
  BY <1>20 DEF CountExports, Counted, RegisterFails, Unlink, To, Step, PlaceTypes, Operations,
     RunLocation, Location, Registering
<1>21. ASSUME NEW a \in Actors, RegisterExport(a) PROVE PlaceTypes'
  BY <1>21 DEF RegisterExport, RegisterFails, Unlink, To, Step, PlaceTypes, Operations,
     RunLocation, Location, Registering
<1>22. ASSUME NEW a \in Actors, UnlinkCsv(a) PROVE PlaceTypes'
  BY <1>22 DEF UnlinkCsv, Unlink, To, Step, PlaceTypes, Operations, RunLocation, Location,
     Registering
<1>23. ASSUME NEW a \in Actors, LockSnapshot(a) PROVE PlaceTypes'
  BY <1>23 DEF LockSnapshot, SetLock, To, Step, PlaceTypes, Operations, RunLocation, Location,
     Registering
<1>24. ASSUME NEW a \in Actors, DeleteExportRow(a) PROVE PlaceTypes'
  BY <1>24 DEF DeleteExportRow, To, Step, PlaceTypes, Operations, RunLocation, Location,
     Registering
<1>25. ASSUME NEW a \in Actors, UnlinkExport(a) PROVE PlaceTypes'
  BY <1>25 DEF UnlinkExport, Unlink, To, Step, PlaceTypes, Operations, RunLocation, Location,
     Registering
<1>26. ASSUME NEW a \in Actors, DropConversation(a) PROVE PlaceTypes'
  BY <1>26 DEF DropConversation, DeleteSession, To, Step, PlaceTypes, Operations, RunLocation,
     Location, Registering
<1>27. ASSUME NEW a \in Actors, DropNext(a) PROVE PlaceTypes'
  BY <1>27 DEF DropNext, DeleteSession, To, Step, PlaceTypes, Operations, RunLocation,
     Location,
     Registering
<1>28. ASSUME NEW a \in Actors, ReleaseLock(a) PROVE PlaceTypes'
  BY <1>28 DEF ReleaseLock, To, Step, PlaceTypes, Operations, RunLocation, Location,
     Registering
<1>29. ASSUME NEW a \in Actors, ListExports(a) PROVE PlaceTypes'
  BY <1>29 DEF ListExports, Step, PlaceTypes, Operations, RunLocation, Location, Registering
<1>30. ASSUME NEW a \in Actors, DeleteUser(a) PROVE PlaceTypes'
  BY <1>30 DEF DeleteUser, To, Step, PlaceTypes, Operations, RunLocation, Location,
     Registering
<1>31. ASSUME NEW a \in Actors, UnlinkFiles(a) PROVE PlaceTypes'
  BY <1>31 DEF UnlinkFiles, Unlink, To, Step, PlaceTypes, Operations, RunLocation, Location,
     Registering
<1>32. CASE Restart
  BY <1>32 DEF Restart, Unlink, Sweep, PlaceTypes, Operations, RunLocation, Location,
     Registering
<1>33. CASE UNCHANGED vars
  BY <1>33 DEF PlaceTypes
<1> QED
  BY <1>1, <1>2, <1>3, <1>4, <1>5, <1>6, <1>7, <1>8, <1>9, <1>10, <1>11,
     <1>12, <1>13, <1>14, <1>15, <1>16, <1>17, <1>18, <1>19, <1>20, <1>21,
     <1>22, <1>23, <1>24, <1>25, <1>26, <1>27, <1>28, <1>29, <1>30, <1>31,
     <1>32, <1>33 DEF Next, Begins, Chat, Work

\* Types: what requests remember.
LEMMA RequestTypesStep ==
    ASSUME PlaceTypes, ExportTypes, PlacesInv, MemoryInv, RequestTypes, [Next]_vars
    PROVE  RequestTypes'
<1>1. ASSUME NEW a \in Actors, BeginChat(a) PROVE RequestTypes'
  BY <1>1 DEF BeginChat, Begin, RunTo, RequestTypes, Owned, Names, Content, PlaceTypes
<1>2. ASSUME NEW a \in Actors, BeginTable(a) PROVE RequestTypes'
  BY <1>2 DEF BeginTable, Begin, To, Step, RequestTypes, Owned, Names, Content, PlaceTypes
<1>3. ASSUME NEW a \in Actors, BeginDelete(a) PROVE RequestTypes'
  BY <1>3 DEF BeginDelete, Begin, To, Step, RequestTypes, Owned, Names, Content, PlaceTypes
<1>4. ASSUME NEW a \in Actors, BeginRemove(a) PROVE RequestTypes'
  BY <1>4 DEF BeginRemove, Begin, Step, RequestTypes, ExportTypes, Row, Owned
<1>5. ASSUME NEW a \in Actors, FindSession(a) PROVE RequestTypes'
  BY <1>5 DEF FindSession, RunTo, RequestTypes, Owned, Names, Content, PlaceTypes
<1>6. ASSUME NEW a \in Actors, CreateSession(a) PROVE RequestTypes'
  BY <1>6 DEF CreateSession, RunTo, RequestTypes, Owned, Names, Content, PlaceTypes
<1>7. ASSUME NEW a \in Actors, SessionLock(a) PROVE RequestTypes'
  BY <1>7 DEF SessionLock, RunTo, RequestTypes, Owned, Names, Content, PlaceTypes
<1>8. ASSUME NEW a \in Actors, Enter(a) PROVE RequestTypes'
  BY <1>8 DEF Enter, RunTo, RequestTypes, Owned, Names, Content, PlaceTypes
<1>9. ASSUME NEW a \in Actors, CreateUserTurn(a) PROVE RequestTypes'
  BY <1>9 DEF CreateUserTurn, RunTo, EndRun, RequestTypes, Owned, Names, Content, PlaceTypes
<1>10. ASSUME NEW a \in Actors, FinishRun(a) PROVE RequestTypes'
  BY <1>10 DEF FinishRun, EndRun, RunTo, RequestTypes, Owned, Names, Content, PlaceTypes
<1>11. ASSUME NEW a \in Actors, CallTool(a) PROVE RequestTypes'
  BY <1>11 DEF CallTool, To, Step, RequestTypes, Owned, Names, Content, PlaceTypes
<1>12. ASSUME NEW a \in Actors, CancelRun(a) PROVE RequestTypes'
  BY <1>12 DEF CancelRun, EndRun, RunTo, RequestTypes, Owned, Names, Content, PlaceTypes
<1>13. ASSUME NEW a \in Actors, CheckLocked(a) PROVE RequestTypes'
  BY <1>13 DEF CheckLocked, To, Step, RequestTypes, Owned, Names, Content, PlaceTypes
<1>14. ASSUME NEW a \in Actors, PersistTable(a) PROVE RequestTypes'
  BY <1>14 DEF PersistTable, UpsertTable, To, Step, RequestTypes, Owned, Names, Content,
     PlaceTypes
<1>15. ASSUME NEW a \in Actors, ToggleLock(a) PROVE RequestTypes'
  BY <1>15 DEF ToggleLock, SetLock, To, Step, RequestTypes, Owned, Names, Content, PlaceTypes
<1>16. ASSUME NEW a \in Actors, CreateReport(a) PROVE RequestTypes'
  BY <1>16 DEF CreateReport, To, Step, RequestTypes, Owned, Names, Content, PlaceTypes
<1>17. ASSUME NEW a \in Actors, FillReport(a) PROVE RequestTypes'
  BY <1>17 DEF FillReport, UpsertTable, To, Step, RequestTypes, Owned, Names, Content,
     PlaceTypes
<1>18. ASSUME NEW a \in Actors, WriteCsv(a) PROVE RequestTypes'
  BY <1>18 DEF WriteCsv, WriteFile, To, Step, RequestTypes, Owned, Names, Content, PlaceTypes
<1>19. ASSUME NEW a \in Actors, FindOwner(a) PROVE RequestTypes'
  BY <1>19 DEF FindOwner, Step, RequestTypes, Owned, Names, Content, PlaceTypes
<1>20. ASSUME NEW a \in Actors, CountExports(a) PROVE RequestTypes'
  BY <1>20 DEF CountExports, Counted, RegisterFails, Unlink, To, Step, RequestTypes, Owned,
     Names, Content, PlaceTypes
<1>21. ASSUME NEW a \in Actors, RegisterExport(a) PROVE RequestTypes'
  BY <1>21 DEF RegisterExport, RegisterFails, Unlink, To, Step, RequestTypes, Owned, Names,
     Content, PlaceTypes
<1>22. ASSUME NEW a \in Actors, UnlinkCsv(a) PROVE RequestTypes'
  BY <1>22 DEF UnlinkCsv, Unlink, To, Step, RequestTypes, Owned, Names, Content, PlaceTypes
<1>23. ASSUME NEW a \in Actors, LockSnapshot(a) PROVE RequestTypes'
  BY <1>23 DEF LockSnapshot, SetLock, To, Step, RequestTypes, Owned, Names, Content,
     PlaceTypes
<1>24. ASSUME NEW a \in Actors, DeleteExportRow(a) PROVE RequestTypes'
  BY <1>24 DEF DeleteExportRow, To, Step, RequestTypes, Owned, Names, Content, PlaceTypes
<1>25. ASSUME NEW a \in Actors, UnlinkExport(a) PROVE RequestTypes'
  BY <1>25 DEF UnlinkExport, Unlink, To, Step, RequestTypes, Owned, Names, Content, PlaceTypes
<1>26. ASSUME NEW a \in Actors, DropConversation(a) PROVE RequestTypes'
  BY <1>26 DEF DropConversation, DeleteSession, To, Step, RequestTypes, Owned, Names, Content,
     PlaceTypes
<1>27. ASSUME NEW a \in Actors, DropNext(a) PROVE RequestTypes'
  <2>1. note[a] \subseteq Sessions
    BY <1>27 DEF MemoryInv, Remembers, DropNext
  <2>2. /\ UNCHANGED name
        /\ UNCHANGED arg \/ \E c \in Sessions : arg' = [arg EXCEPT ![a] = c]
        /\ \E S \in SUBSET (Sessions \cup Names) : note' = [note EXCEPT ![a] = S]
    BY <1>27, <2>1 DEF DropNext, To, Step
  <2> QED BY <2>2 DEF RequestTypes
<1>28. ASSUME NEW a \in Actors, ReleaseLock(a) PROVE RequestTypes'
  BY <1>28 DEF ReleaseLock, To, Step, RequestTypes, Owned, Names, Content, PlaceTypes
<1>29. ASSUME NEW a \in Actors, ListExports(a) PROVE RequestTypes'
  BY <1>29 DEF ListExports, Step, RequestTypes, Owned, Names, Content, PlaceTypes
<1>30. ASSUME NEW a \in Actors, DeleteUser(a) PROVE RequestTypes'
  BY <1>30 DEF DeleteUser, To, Step, RequestTypes, Owned, Names, Content, PlaceTypes
<1>31. ASSUME NEW a \in Actors, UnlinkFiles(a) PROVE RequestTypes'
  BY <1>31 DEF UnlinkFiles, Unlink, To, Step, RequestTypes, Owned, Names, Content, PlaceTypes
<1>32. CASE Restart
  BY <1>32 DEF Restart, Unlink, Sweep, RequestTypes, Owned, Names, Content, PlaceTypes
<1>33. CASE UNCHANGED vars
  BY <1>33 DEF RequestTypes
<1> QED
  BY <1>1, <1>2, <1>3, <1>4, <1>5, <1>6, <1>7, <1>8, <1>9, <1>10, <1>11,
     <1>12, <1>13, <1>14, <1>15, <1>16, <1>17, <1>18, <1>19, <1>20, <1>21,
     <1>22, <1>23, <1>24, <1>25, <1>26, <1>27, <1>28, <1>29, <1>30, <1>31,
     <1>32, <1>33 DEF Next, Begins, Chat, Work

\* Types: conversations and tables.
LEMMA ConversationTypesStep ==
    ASSUME RequestTypes, PlacesInv, MemoryInv, ConversationTypes, [Next]_vars
    PROVE  ConversationTypes'
<1>1. ASSUME NEW a \in Actors, BeginChat(a) PROVE ConversationTypes'
  BY <1>1 DEF BeginChat, Begin, RunTo, ConversationTypes, Content, RequestTypes, PlacesInv,
     Placed, MemoryInv, Remembers, OfConversation
<1>2. ASSUME NEW a \in Actors, BeginTable(a) PROVE ConversationTypes'
  BY <1>2 DEF BeginTable, Begin, To, Step, ConversationTypes, Content, RequestTypes,
     PlacesInv,
     Placed, MemoryInv, Remembers, OfConversation
<1>3. ASSUME NEW a \in Actors, BeginDelete(a) PROVE ConversationTypes'
  BY <1>3 DEF BeginDelete, Begin, To, Step, ConversationTypes, Content, RequestTypes,
     PlacesInv, Placed, MemoryInv, Remembers, OfConversation
<1>4. ASSUME NEW a \in Actors, BeginRemove(a) PROVE ConversationTypes'
  BY <1>4 DEF BeginRemove, Begin, Step, ConversationTypes, Content, RequestTypes, PlacesInv,
     Placed, MemoryInv, Remembers, OfConversation
<1>5. ASSUME NEW a \in Actors, FindSession(a) PROVE ConversationTypes'
  BY <1>5 DEF FindSession, RunTo, ConversationTypes, Content, RequestTypes, PlacesInv, Placed,
     MemoryInv, Remembers, OfConversation
<1>6. ASSUME NEW a \in Actors, CreateSession(a) PROVE ConversationTypes'
  BY <1>6 DEF CreateSession, RunTo, ConversationTypes, Content, RequestTypes, PlacesInv,
     Placed, MemoryInv, Remembers, OfConversation
<1>7. ASSUME NEW a \in Actors, SessionLock(a) PROVE ConversationTypes'
  BY <1>7 DEF SessionLock, RunTo, ConversationTypes, Content, RequestTypes, PlacesInv, Placed,
     MemoryInv, Remembers, OfConversation
<1>8. ASSUME NEW a \in Actors, Enter(a) PROVE ConversationTypes'
  BY <1>8 DEF Enter, RunTo, ConversationTypes, Content, RequestTypes, PlacesInv, Placed,
     MemoryInv, Remembers, OfConversation
<1>9. ASSUME NEW a \in Actors, CreateUserTurn(a) PROVE ConversationTypes'
  BY <1>9 DEF CreateUserTurn, RunTo, EndRun, ConversationTypes, Content, RequestTypes,
     PlacesInv, Placed, MemoryInv, Remembers, OfConversation
<1>10. ASSUME NEW a \in Actors, FinishRun(a) PROVE ConversationTypes'
  BY <1>10 DEF FinishRun, EndRun, RunTo, ConversationTypes, Content, RequestTypes, PlacesInv,
     Placed, MemoryInv, Remembers, OfConversation
<1>11. ASSUME NEW a \in Actors, CallTool(a) PROVE ConversationTypes'
  BY <1>11 DEF CallTool, To, Step, ConversationTypes, Content, RequestTypes, PlacesInv,
     Placed,
     MemoryInv, Remembers, OfConversation
<1>12. ASSUME NEW a \in Actors, CancelRun(a) PROVE ConversationTypes'
  BY <1>12 DEF CancelRun, EndRun, RunTo, ConversationTypes, Content, RequestTypes, PlacesInv,
     Placed, MemoryInv, Remembers, OfConversation
<1>13. ASSUME NEW a \in Actors, CheckLocked(a) PROVE ConversationTypes'
  BY <1>13 DEF CheckLocked, To, Step, ConversationTypes, Content, RequestTypes, PlacesInv,
     Placed, MemoryInv, Remembers, OfConversation
<1>14. ASSUME NEW a \in Actors, PersistTable(a) PROVE ConversationTypes'
  <2>1. /\ UNCHANGED <<kind, locked, gone>>
        /\ UNCHANGED table \/ \E c \in Sessions : Exists(c) /\ table' = [table EXCEPT ![c] = a]
    BY <1>14 DEF PersistTable, UpsertTable, To, Step, PlacesInv, Placed, MemoryInv, Remembers,
       OfConversation, RequestTypes, ConversationTypes
  <2>2. a # None
    BY NoneAssumption
  <2> QED BY <2>1, <2>2 DEF ConversationTypes, Content
<1>15. ASSUME NEW a \in Actors, ToggleLock(a) PROVE ConversationTypes'
  <2>1. /\ UNCHANGED <<kind, table, gone>>
        /\ \E v \in BOOLEAN :
              locked' = IF table[arg[a]] # None THEN [locked EXCEPT ![arg[a]] = v] ELSE locked
    BY <1>15 DEF ToggleLock, SetLock
  <2> QED BY <2>1 DEF ConversationTypes
<1>16. ASSUME NEW a \in Actors, CreateReport(a) PROVE ConversationTypes'
  BY <1>16 DEF CreateReport, To, Step, ConversationTypes, Content, RequestTypes, PlacesInv,
     Placed, MemoryInv, Remembers, OfConversation
<1>17. ASSUME NEW a \in Actors, FillReport(a) PROVE ConversationTypes'
  <2>1. /\ UNCHANGED <<kind, locked, gone>>
        /\ UNCHANGED table \/ \E c \in Sessions : Exists(c) /\ table' = [table EXCEPT ![c] = a]
    BY <1>17 DEF FillReport, UpsertTable, To, Step, PlacesInv, Placed, MemoryInv, Remembers,
       OfConversation, RequestTypes, ConversationTypes
  <2>2. a # None
    BY NoneAssumption
  <2> QED BY <2>1, <2>2 DEF ConversationTypes, Content
<1>18. ASSUME NEW a \in Actors, WriteCsv(a) PROVE ConversationTypes'
  BY <1>18 DEF WriteCsv, WriteFile, To, Step, ConversationTypes, Content, RequestTypes,
     PlacesInv, Placed, MemoryInv, Remembers, OfConversation
<1>19. ASSUME NEW a \in Actors, FindOwner(a) PROVE ConversationTypes'
  BY <1>19 DEF FindOwner, Step, ConversationTypes, Content, RequestTypes, PlacesInv, Placed,
     MemoryInv, Remembers, OfConversation
<1>20. ASSUME NEW a \in Actors, CountExports(a) PROVE ConversationTypes'
  BY <1>20 DEF CountExports, Counted, RegisterFails, Unlink, To, Step, ConversationTypes,
     Content, RequestTypes, PlacesInv, Placed, MemoryInv, Remembers, OfConversation
<1>21. ASSUME NEW a \in Actors, RegisterExport(a) PROVE ConversationTypes'
  BY <1>21 DEF RegisterExport, RegisterFails, Unlink, To, Step, ConversationTypes, Content,
     RequestTypes, PlacesInv, Placed, MemoryInv, Remembers, OfConversation
<1>22. ASSUME NEW a \in Actors, UnlinkCsv(a) PROVE ConversationTypes'
  BY <1>22 DEF UnlinkCsv, Unlink, To, Step, ConversationTypes, Content, RequestTypes,
     PlacesInv,
     Placed, MemoryInv, Remembers, OfConversation
<1>23. ASSUME NEW a \in Actors, LockSnapshot(a) PROVE ConversationTypes'
  BY <1>23 DEF LockSnapshot, SetLock, To, Step, ConversationTypes, Content, RequestTypes,
     PlacesInv, Placed, MemoryInv, Remembers, OfConversation
<1>24. ASSUME NEW a \in Actors, DeleteExportRow(a) PROVE ConversationTypes'
  BY <1>24 DEF DeleteExportRow, To, Step, ConversationTypes, Content, RequestTypes, PlacesInv,
     Placed, MemoryInv, Remembers, OfConversation
<1>25. ASSUME NEW a \in Actors, UnlinkExport(a) PROVE ConversationTypes'
  BY <1>25 DEF UnlinkExport, Unlink, To, Step, ConversationTypes, Content, RequestTypes,
     PlacesInv, Placed, MemoryInv, Remembers, OfConversation
<1>26. ASSUME NEW a \in Actors, DropConversation(a) PROVE ConversationTypes'
  <2>1. \/ UNCHANGED <<kind, table, locked, gone>>
        \/ \E c \in Sessions :
              /\ kind' = [kind EXCEPT ![c] = "none"] /\ table' = [table EXCEPT ![c] = None]
              /\ locked' = [locked EXCEPT ![c] = FALSE] /\ gone' = gone \cup {c}
    BY <1>26 DEF DropConversation, DeleteSession, To, Step, PlacesInv, Placed, MemoryInv,
       Remembers, OfConversation, Remembers, RequestTypes
  <2> QED BY <2>1 DEF ConversationTypes
<1>27. ASSUME NEW a \in Actors, DropNext(a) PROVE ConversationTypes'
  <2>1. \/ UNCHANGED <<kind, table, locked, gone>>
        \/ \E c \in Sessions :
              /\ kind' = [kind EXCEPT ![c] = "none"] /\ table' = [table EXCEPT ![c] = None]
              /\ locked' = [locked EXCEPT ![c] = FALSE] /\ gone' = gone \cup {c}
    BY <1>27 DEF DropNext, DeleteSession, To, Step, PlacesInv, Placed, MemoryInv, Remembers,
       OfConversation, Remembers, RequestTypes
  <2> QED BY <2>1 DEF ConversationTypes
<1>28. ASSUME NEW a \in Actors, ReleaseLock(a) PROVE ConversationTypes'
  BY <1>28 DEF ReleaseLock, To, Step, ConversationTypes, Content, RequestTypes, PlacesInv,
     Placed, MemoryInv, Remembers, OfConversation
<1>29. ASSUME NEW a \in Actors, ListExports(a) PROVE ConversationTypes'
  BY <1>29 DEF ListExports, Step, ConversationTypes, Content, RequestTypes, PlacesInv, Placed,
     MemoryInv, Remembers, OfConversation
<1>30. ASSUME NEW a \in Actors, DeleteUser(a) PROVE ConversationTypes'
  BY <1>30 DEF DeleteUser, To, Step, ConversationTypes, Content, RequestTypes, PlacesInv,
     Placed, MemoryInv, Remembers, OfConversation
<1>31. ASSUME NEW a \in Actors, UnlinkFiles(a) PROVE ConversationTypes'
  BY <1>31 DEF UnlinkFiles, Unlink, To, Step, ConversationTypes, Content, RequestTypes,
     PlacesInv, Placed, MemoryInv, Remembers, OfConversation
<1>32. CASE Restart
  BY <1>32 DEF Restart, Unlink, Sweep, ConversationTypes, Content, RequestTypes, PlacesInv,
     Placed, MemoryInv, Remembers, OfConversation
<1>33. CASE UNCHANGED vars
  BY <1>33 DEF ConversationTypes
<1> QED
  BY <1>1, <1>2, <1>3, <1>4, <1>5, <1>6, <1>7, <1>8, <1>9, <1>10, <1>11,
     <1>12, <1>13, <1>14, <1>15, <1>16, <1>17, <1>18, <1>19, <1>20, <1>21,
     <1>22, <1>23, <1>24, <1>25, <1>26, <1>27, <1>28, <1>29, <1>30, <1>31,
     <1>32, <1>33 DEF Next, Begins, Chat, Work

\* Types: locks and runs.
LEMMA LockTypesStep ==
    ASSUME RequestTypes, ConversationTypes, PlacesInv, MemoryInv, LockTypes, [Next]_vars
    PROVE  LockTypes'
<1>1. ASSUME NEW a \in Actors, BeginChat(a) PROVE LockTypes'
  BY <1>1 DEF BeginChat, Begin, RunTo, LockTypes, RequestTypes, ConversationTypes, PlacesInv,
     Placed, MemoryInv, Remembers, OfConversation, Inside
<1>2. ASSUME NEW a \in Actors, BeginTable(a) PROVE LockTypes'
  BY <1>2 DEF BeginTable, Begin, To, Step, LockTypes, RequestTypes, ConversationTypes,
     PlacesInv, Placed, MemoryInv, Remembers, OfConversation, Inside
<1>3. ASSUME NEW a \in Actors, BeginDelete(a) PROVE LockTypes'
  BY <1>3 DEF BeginDelete, Begin, To, Step, LockTypes, RequestTypes, ConversationTypes,
     PlacesInv, Placed, MemoryInv, Remembers, OfConversation, Inside
<1>4. ASSUME NEW a \in Actors, BeginRemove(a) PROVE LockTypes'
  BY <1>4 DEF BeginRemove, Begin, Step, LockTypes, RequestTypes, ConversationTypes, PlacesInv,
     Placed, MemoryInv, Remembers, OfConversation, Inside
<1>5. ASSUME NEW a \in Actors, FindSession(a) PROVE LockTypes'
  BY <1>5 DEF FindSession, LockTypes, ConversationTypes, PlacesInv, Placed, MemoryInv,
     Remembers, OfConversation
<1>6. ASSUME NEW a \in Actors, CreateSession(a) PROVE LockTypes'
  BY <1>6 DEF CreateSession, RunTo, LockTypes, RequestTypes, ConversationTypes, PlacesInv,
     Placed, MemoryInv, Remembers, OfConversation, Inside
<1>7. ASSUME NEW a \in Actors, SessionLock(a) PROVE LockTypes'
  BY <1>7 DEF SessionLock, RunTo, LockTypes, RequestTypes, ConversationTypes, PlacesInv,
     Placed, MemoryInv, Remembers, OfConversation, Inside
<1>8. ASSUME NEW a \in Actors, Enter(a) PROVE LockTypes'
  BY <1>8 DEF Enter, RunTo, LockTypes, RequestTypes, ConversationTypes, PlacesInv, Placed,
     MemoryInv, Remembers, OfConversation, Inside
<1>9. ASSUME NEW a \in Actors, CreateUserTurn(a) PROVE LockTypes'
  BY <1>9 DEF CreateUserTurn, RunTo, EndRun, LockTypes, RequestTypes, ConversationTypes,
     PlacesInv, Placed, MemoryInv, Remembers, OfConversation, Inside
<1>10. ASSUME NEW a \in Actors, FinishRun(a) PROVE LockTypes'
  BY <1>10 DEF FinishRun, EndRun, RunTo, LockTypes, RequestTypes, ConversationTypes,
     PlacesInv,
     Placed, MemoryInv, Remembers, OfConversation, Inside
<1>11. ASSUME NEW a \in Actors, CallTool(a) PROVE LockTypes'
  BY <1>11 DEF CallTool, To, Step, LockTypes, RequestTypes, ConversationTypes, PlacesInv,
     Placed, MemoryInv, Remembers, OfConversation, Inside
<1>12. ASSUME NEW a \in Actors, CancelRun(a) PROVE LockTypes'
  BY <1>12 DEF CancelRun, EndRun, RunTo, LockTypes, RequestTypes, ConversationTypes,
     PlacesInv,
     Placed, MemoryInv, Remembers, OfConversation, Inside
<1>13. ASSUME NEW a \in Actors, CheckLocked(a) PROVE LockTypes'
  BY <1>13 DEF CheckLocked, To, Step, LockTypes, RequestTypes, ConversationTypes, PlacesInv,
     Placed, MemoryInv, Remembers, OfConversation, Inside
<1>14. ASSUME NEW a \in Actors, PersistTable(a) PROVE LockTypes'
  BY <1>14 DEF PersistTable, UpsertTable, To, Step, LockTypes, RequestTypes,
     ConversationTypes,
     PlacesInv, Placed, MemoryInv, Remembers, OfConversation, Inside
<1>15. ASSUME NEW a \in Actors, ToggleLock(a) PROVE LockTypes'
  BY <1>15 DEF ToggleLock, SetLock, To, Step, LockTypes, RequestTypes, ConversationTypes,
     PlacesInv, Placed, MemoryInv, Remembers, OfConversation, Inside
<1>16. ASSUME NEW a \in Actors, CreateReport(a) PROVE LockTypes'
  BY <1>16 DEF CreateReport, To, Step, LockTypes, RequestTypes, ConversationTypes, PlacesInv,
     Placed, MemoryInv, Remembers, OfConversation, Inside
<1>17. ASSUME NEW a \in Actors, FillReport(a) PROVE LockTypes'
  BY <1>17 DEF FillReport, UpsertTable, To, Step, LockTypes, RequestTypes, ConversationTypes,
     PlacesInv, Placed, MemoryInv, Remembers, OfConversation, Inside
<1>18. ASSUME NEW a \in Actors, WriteCsv(a) PROVE LockTypes'
  BY <1>18 DEF WriteCsv, WriteFile, To, Step, LockTypes, RequestTypes, ConversationTypes,
     PlacesInv, Placed, MemoryInv, Remembers, OfConversation, Inside
<1>19. ASSUME NEW a \in Actors, FindOwner(a) PROVE LockTypes'
  BY <1>19 DEF FindOwner, Step, LockTypes, RequestTypes, ConversationTypes, PlacesInv, Placed,
     MemoryInv, Remembers, OfConversation, Inside
<1>20. ASSUME NEW a \in Actors, CountExports(a) PROVE LockTypes'
  BY <1>20 DEF CountExports, Counted, RegisterFails, Unlink, To, Step, LockTypes,
     RequestTypes,
     ConversationTypes, PlacesInv, Placed, MemoryInv, Remembers, OfConversation, Inside
<1>21. ASSUME NEW a \in Actors, RegisterExport(a) PROVE LockTypes'
  BY <1>21 DEF RegisterExport, RegisterFails, Unlink, To, Step, LockTypes, RequestTypes,
     ConversationTypes, PlacesInv, Placed, MemoryInv, Remembers, OfConversation, Inside
<1>22. ASSUME NEW a \in Actors, UnlinkCsv(a) PROVE LockTypes'
  BY <1>22 DEF UnlinkCsv, Unlink, To, Step, LockTypes, RequestTypes, ConversationTypes,
     PlacesInv, Placed, MemoryInv, Remembers, OfConversation, Inside
<1>23. ASSUME NEW a \in Actors, LockSnapshot(a) PROVE LockTypes'
  BY <1>23 DEF LockSnapshot, SetLock, To, Step, LockTypes, RequestTypes, ConversationTypes,
     PlacesInv, Placed, MemoryInv, Remembers, OfConversation, Inside
<1>24. ASSUME NEW a \in Actors, DeleteExportRow(a) PROVE LockTypes'
  BY <1>24 DEF DeleteExportRow, To, Step, LockTypes, RequestTypes, ConversationTypes,
     PlacesInv,
     Placed, MemoryInv, Remembers, OfConversation, Inside
<1>25. ASSUME NEW a \in Actors, UnlinkExport(a) PROVE LockTypes'
  BY <1>25 DEF UnlinkExport, Unlink, To, Step, LockTypes, RequestTypes, ConversationTypes,
     PlacesInv, Placed, MemoryInv, Remembers, OfConversation, Inside
<1>26. ASSUME NEW a \in Actors, DropConversation(a) PROVE LockTypes'
  BY <1>26 DEF DropConversation, DeleteSession, To, Step, LockTypes, RequestTypes,
     ConversationTypes, PlacesInv, Placed, MemoryInv, Remembers, OfConversation, Inside
<1>27. ASSUME NEW a \in Actors, DropNext(a) PROVE LockTypes'
  BY <1>27 DEF DropNext, DeleteSession, To, Step, LockTypes, RequestTypes, ConversationTypes,
     PlacesInv, Placed, MemoryInv, Remembers, OfConversation, Inside
<1>28. ASSUME NEW a \in Actors, ReleaseLock(a) PROVE LockTypes'
  BY <1>28 DEF ReleaseLock, To, Step, LockTypes, RequestTypes, ConversationTypes, PlacesInv,
     Placed, MemoryInv, Remembers, OfConversation, Inside
<1>29. ASSUME NEW a \in Actors, ListExports(a) PROVE LockTypes'
  BY <1>29 DEF ListExports, Step, LockTypes, RequestTypes, ConversationTypes, PlacesInv,
     Placed,
     MemoryInv, Remembers, OfConversation, Inside
<1>30. ASSUME NEW a \in Actors, DeleteUser(a) PROVE LockTypes'
  BY <1>30 DEF DeleteUser, To, Step, LockTypes, RequestTypes, ConversationTypes, PlacesInv,
     Placed, MemoryInv, Remembers, OfConversation, Inside
<1>31. ASSUME NEW a \in Actors, UnlinkFiles(a) PROVE LockTypes'
  BY <1>31 DEF UnlinkFiles, Unlink, To, Step, LockTypes, RequestTypes, ConversationTypes,
     PlacesInv, Placed, MemoryInv, Remembers, OfConversation, Inside
<1>32. CASE Restart
  BY <1>32 DEF Restart, Unlink, Sweep, LockTypes, RequestTypes, ConversationTypes, PlacesInv,
     Placed, MemoryInv, Remembers, OfConversation, Inside
<1>33. CASE UNCHANGED vars
  BY <1>33 DEF LockTypes
<1> QED
  BY <1>1, <1>2, <1>3, <1>4, <1>5, <1>6, <1>7, <1>8, <1>9, <1>10, <1>11,
     <1>12, <1>13, <1>14, <1>15, <1>16, <1>17, <1>18, <1>19, <1>20, <1>21,
     <1>22, <1>23, <1>24, <1>25, <1>26, <1>27, <1>28, <1>29, <1>30, <1>31,
     <1>32, <1>33 DEF Next, Begins, Chat, Work

\* Types: exports.
LEMMA ExportTypesStep ==
    ASSUME RequestTypes, MemoryInv, ExportTypes, [Next]_vars
    PROVE  ExportTypes'
<1>1. ASSUME NEW a \in Actors, BeginChat(a) PROVE ExportTypes'
  BY <1>1 DEF BeginChat, Begin, RunTo, ExportTypes, Content, Row, RequestTypes, MemoryInv,
     Remembers, Naming, Registering, Names
<1>2. ASSUME NEW a \in Actors, BeginTable(a) PROVE ExportTypes'
  BY <1>2 DEF BeginTable, Begin, To, Step, ExportTypes, Content, Row, RequestTypes, MemoryInv,
     Remembers, Naming, Registering, Names
<1>3. ASSUME NEW a \in Actors, BeginDelete(a) PROVE ExportTypes'
  BY <1>3 DEF BeginDelete, Begin, To, Step, ExportTypes, Content, Row, RequestTypes,
     MemoryInv,
     Remembers, Naming, Registering, Names
<1>4. ASSUME NEW a \in Actors, BeginRemove(a) PROVE ExportTypes'
  BY <1>4 DEF BeginRemove, Begin, Step, ExportTypes, Content, Row, RequestTypes, MemoryInv,
     Remembers, Naming, Registering, Names
<1>5. ASSUME NEW a \in Actors, FindSession(a) PROVE ExportTypes'
  BY <1>5 DEF FindSession, RunTo, ExportTypes, Content, Row, RequestTypes, MemoryInv,
     Remembers, Naming, Registering, Names
<1>6. ASSUME NEW a \in Actors, CreateSession(a) PROVE ExportTypes'
  BY <1>6 DEF CreateSession, RunTo, ExportTypes, Content, Row, RequestTypes, MemoryInv,
     Remembers, Naming, Registering, Names
<1>7. ASSUME NEW a \in Actors, SessionLock(a) PROVE ExportTypes'
  BY <1>7 DEF SessionLock, RunTo, ExportTypes, Content, Row, RequestTypes, MemoryInv,
     Remembers, Naming, Registering, Names
<1>8. ASSUME NEW a \in Actors, Enter(a) PROVE ExportTypes'
  BY <1>8 DEF Enter, RunTo, ExportTypes, Content, Row, RequestTypes, MemoryInv, Remembers,
     Naming, Registering, Names
<1>9. ASSUME NEW a \in Actors, CreateUserTurn(a) PROVE ExportTypes'
  BY <1>9 DEF CreateUserTurn, RunTo, EndRun, ExportTypes, Content, Row, RequestTypes,
     MemoryInv, Remembers, Naming, Registering, Names
<1>10. ASSUME NEW a \in Actors, FinishRun(a) PROVE ExportTypes'
  BY <1>10 DEF FinishRun, EndRun, RunTo, ExportTypes, Content, Row, RequestTypes, MemoryInv,
     Remembers, Naming, Registering, Names
<1>11. ASSUME NEW a \in Actors, CallTool(a) PROVE ExportTypes'
  BY <1>11 DEF CallTool, To, Step, ExportTypes, Content, Row, RequestTypes, MemoryInv,
     Remembers, Naming, Registering, Names
<1>12. ASSUME NEW a \in Actors, CancelRun(a) PROVE ExportTypes'
  BY <1>12 DEF CancelRun, EndRun, RunTo, ExportTypes, Content, Row, RequestTypes, MemoryInv,
     Remembers, Naming, Registering, Names
<1>13. ASSUME NEW a \in Actors, CheckLocked(a) PROVE ExportTypes'
  BY <1>13 DEF CheckLocked, To, Step, ExportTypes, Content, Row, RequestTypes, MemoryInv,
     Remembers, Naming, Registering, Names
<1>14. ASSUME NEW a \in Actors, PersistTable(a) PROVE ExportTypes'
  BY <1>14 DEF PersistTable, UpsertTable, To, Step, ExportTypes, Content, Row, RequestTypes,
     MemoryInv, Remembers, Naming, Registering, Names
<1>15. ASSUME NEW a \in Actors, ToggleLock(a) PROVE ExportTypes'
  BY <1>15 DEF ToggleLock, SetLock, To, Step, ExportTypes, Content, Row, RequestTypes,
     MemoryInv, Remembers, Naming, Registering, Names
<1>16. ASSUME NEW a \in Actors, CreateReport(a) PROVE ExportTypes'
  BY <1>16 DEF CreateReport, To, Step, ExportTypes, Content, Row, RequestTypes, MemoryInv,
     Remembers, Naming, Registering, Names
<1>17. ASSUME NEW a \in Actors, FillReport(a) PROVE ExportTypes'
  BY <1>17 DEF FillReport, UpsertTable, To, Step, ExportTypes, Content, Row, RequestTypes,
     MemoryInv, Remembers, Naming, Registering, Names
<1>18. ASSUME NEW a \in Actors, WriteCsv(a) PROVE ExportTypes'
  BY <1>18 DEF WriteCsv, WriteFile, To, Step, ExportTypes, Content, Row, RequestTypes,
     MemoryInv, Remembers, Naming, Registering, Names
<1>19. ASSUME NEW a \in Actors, FindOwner(a) PROVE ExportTypes'
  BY <1>19 DEF FindOwner, Step, ExportTypes, Content, Row, RequestTypes, MemoryInv, Remembers,
     Naming, Registering, Names
<1>20. ASSUME NEW a \in Actors, CountExports(a) PROVE ExportTypes'
  BY <1>20 DEF CountExports, Counted, RegisterFails, Unlink, To, Step, ExportTypes, Content,
     Row, RequestTypes, MemoryInv, Remembers, Naming, Registering, Names
<1>21. ASSUME NEW a \in Actors, RegisterExport(a) PROVE ExportTypes'
  <2>1. a \in Content /\ (TRUE \in note[a]) \in BOOLEAN
    BY DEF Content
  <2>2. [by |-> a, owned |-> TRUE \in note[a]] \in Row
    BY <2>1 DEF Row
  <2>3. /\ UNCHANGED uses
        /\ \/ UNCHANGED library
           \/ library' = [library EXCEPT ![name[a]] = [by |-> a, owned |-> TRUE \in note[a]]]
        /\ UNCHANGED files \/ \E S : files' = [n \in Names |-> IF n \in S THEN None ELSE files[n]]
    BY <1>21 DEF RegisterExport, RegisterFails, Unlink
  <2> QED BY <2>2, <2>3 DEF ExportTypes
<1>22. ASSUME NEW a \in Actors, UnlinkCsv(a) PROVE ExportTypes'
  BY <1>22 DEF UnlinkCsv, Unlink, To, Step, ExportTypes, Content, Row, RequestTypes,
     MemoryInv,
     Remembers, Naming, Registering, Names
<1>23. ASSUME NEW a \in Actors, LockSnapshot(a) PROVE ExportTypes'
  BY <1>23 DEF LockSnapshot, SetLock, To, Step, ExportTypes, Content, Row, RequestTypes,
     MemoryInv, Remembers, Naming, Registering, Names
<1>24. ASSUME NEW a \in Actors, DeleteExportRow(a) PROVE ExportTypes'
  BY <1>24 DEF DeleteExportRow, To, Step, ExportTypes, Content, Row, RequestTypes, MemoryInv,
     Remembers, Naming, Registering, Names
<1>25. ASSUME NEW a \in Actors, UnlinkExport(a) PROVE ExportTypes'
  BY <1>25 DEF UnlinkExport, Unlink, To, Step, ExportTypes, Content, Row, RequestTypes,
     MemoryInv, Remembers, Naming, Registering, Names
<1>26. ASSUME NEW a \in Actors, DropConversation(a) PROVE ExportTypes'
  BY <1>26 DEF DropConversation, DeleteSession, To, Step, ExportTypes, Content, Row,
     RequestTypes, MemoryInv, Remembers, Naming, Registering, Names
<1>27. ASSUME NEW a \in Actors, DropNext(a) PROVE ExportTypes'
  BY <1>27 DEF DropNext, DeleteSession, To, Step, ExportTypes, Content, Row, RequestTypes,
     MemoryInv, Remembers, Naming, Registering, Names
<1>28. ASSUME NEW a \in Actors, ReleaseLock(a) PROVE ExportTypes'
  BY <1>28 DEF ReleaseLock, To, Step, ExportTypes, Content, Row, RequestTypes, MemoryInv,
     Remembers, Naming, Registering, Names
<1>29. ASSUME NEW a \in Actors, ListExports(a) PROVE ExportTypes'
  BY <1>29 DEF ListExports, Step, ExportTypes, Content, Row, RequestTypes, MemoryInv,
     Remembers,
     Naming, Registering, Names
<1>30. ASSUME NEW a \in Actors, DeleteUser(a) PROVE ExportTypes'
  BY <1>30 DEF DeleteUser, To, Step, ExportTypes, Content, Row, RequestTypes, MemoryInv,
     Remembers, Naming, Registering, Names
<1>31. ASSUME NEW a \in Actors, UnlinkFiles(a) PROVE ExportTypes'
  BY <1>31 DEF UnlinkFiles, Unlink, To, Step, ExportTypes, Content, Row, RequestTypes,
     MemoryInv, Remembers, Naming, Registering, Names
<1>32. CASE Restart
  BY <1>32 DEF Restart, Unlink, Sweep, ExportTypes, Content, Row, RequestTypes, MemoryInv,
     Remembers, Naming, Registering, Names
<1>33. CASE UNCHANGED vars
  BY <1>33 DEF ExportTypes
<1> QED
  BY <1>1, <1>2, <1>3, <1>4, <1>5, <1>6, <1>7, <1>8, <1>9, <1>10, <1>11,
     <1>12, <1>13, <1>14, <1>15, <1>16, <1>17, <1>18, <1>19, <1>20, <1>21,
     <1>22, <1>23, <1>24, <1>25, <1>26, <1>27, <1>28, <1>29, <1>30, <1>31,
     <1>32, <1>33 DEF Next, Begins, Chat, Work

\* Types: the account and the histories.
LEMMA FlagTypesStep ==
    ASSUME RequestTypes, ConversationTypes, FlagTypes, [Next]_vars
    PROVE  FlagTypes'
<1>1. ASSUME NEW a \in Actors, BeginChat(a) PROVE FlagTypes'
  BY <1>1 DEF BeginChat, Begin, RunTo, FlagTypes, RequestTypes, ConversationTypes
<1>2. ASSUME NEW a \in Actors, BeginTable(a) PROVE FlagTypes'
  BY <1>2 DEF BeginTable, Begin, To, Step, FlagTypes, RequestTypes, ConversationTypes
<1>3. ASSUME NEW a \in Actors, BeginDelete(a) PROVE FlagTypes'
  BY <1>3 DEF BeginDelete, Begin, To, Step, FlagTypes, RequestTypes, ConversationTypes
<1>4. ASSUME NEW a \in Actors, BeginRemove(a) PROVE FlagTypes'
  BY <1>4 DEF BeginRemove, Begin, Step, FlagTypes, RequestTypes, ConversationTypes
<1>5. ASSUME NEW a \in Actors, FindSession(a) PROVE FlagTypes'
  BY <1>5 DEF FindSession, RunTo, FlagTypes, RequestTypes, ConversationTypes
<1>6. ASSUME NEW a \in Actors, CreateSession(a) PROVE FlagTypes'
  BY <1>6 DEF CreateSession, RunTo, FlagTypes, RequestTypes, ConversationTypes
<1>7. ASSUME NEW a \in Actors, SessionLock(a) PROVE FlagTypes'
  BY <1>7 DEF SessionLock, RunTo, FlagTypes, RequestTypes, ConversationTypes
<1>8. ASSUME NEW a \in Actors, Enter(a) PROVE FlagTypes'
  BY <1>8 DEF Enter, RunTo, FlagTypes, RequestTypes, ConversationTypes
<1>9. ASSUME NEW a \in Actors, CreateUserTurn(a) PROVE FlagTypes'
  BY <1>9 DEF CreateUserTurn, RunTo, EndRun, FlagTypes, RequestTypes, ConversationTypes
<1>10. ASSUME NEW a \in Actors, FinishRun(a) PROVE FlagTypes'
  BY <1>10 DEF FinishRun, EndRun, RunTo, FlagTypes, RequestTypes, ConversationTypes
<1>11. ASSUME NEW a \in Actors, CallTool(a) PROVE FlagTypes'
  BY <1>11 DEF CallTool, To, Step, FlagTypes, RequestTypes, ConversationTypes
<1>12. ASSUME NEW a \in Actors, CancelRun(a) PROVE FlagTypes'
  BY <1>12 DEF CancelRun, EndRun, RunTo, FlagTypes, RequestTypes, ConversationTypes
<1>13. ASSUME NEW a \in Actors, CheckLocked(a) PROVE FlagTypes'
  BY <1>13 DEF CheckLocked, To, Step, FlagTypes, RequestTypes, ConversationTypes
<1>14. ASSUME NEW a \in Actors, PersistTable(a) PROVE FlagTypes'
  BY <1>14 DEF PersistTable, UpsertTable, To, Step, FlagTypes, RequestTypes, ConversationTypes
<1>15. ASSUME NEW a \in Actors, ToggleLock(a) PROVE FlagTypes'
  BY <1>15 DEF ToggleLock, SetLock, To, Step, FlagTypes, RequestTypes, ConversationTypes
<1>16. ASSUME NEW a \in Actors, CreateReport(a) PROVE FlagTypes'
  BY <1>16 DEF CreateReport, To, Step, FlagTypes, RequestTypes, ConversationTypes
<1>17. ASSUME NEW a \in Actors, FillReport(a) PROVE FlagTypes'
  BY <1>17 DEF FillReport, UpsertTable, To, Step, FlagTypes, RequestTypes, ConversationTypes
<1>18. ASSUME NEW a \in Actors, WriteCsv(a) PROVE FlagTypes'
  BY <1>18 DEF WriteCsv, WriteFile, To, Step, FlagTypes, RequestTypes, ConversationTypes
<1>19. ASSUME NEW a \in Actors, FindOwner(a) PROVE FlagTypes'
  BY <1>19 DEF FindOwner, Step, FlagTypes, RequestTypes, ConversationTypes
<1>20. ASSUME NEW a \in Actors, CountExports(a) PROVE FlagTypes'
  BY <1>20 DEF CountExports, Counted, RegisterFails, Unlink, To, Step, FlagTypes,
     RequestTypes,
     ConversationTypes
<1>21. ASSUME NEW a \in Actors, RegisterExport(a) PROVE FlagTypes'
  BY <1>21 DEF RegisterExport, RegisterFails, Unlink, To, Step, FlagTypes, RequestTypes,
     ConversationTypes
<1>22. ASSUME NEW a \in Actors, UnlinkCsv(a) PROVE FlagTypes'
  BY <1>22 DEF UnlinkCsv, Unlink, To, Step, FlagTypes, RequestTypes, ConversationTypes
<1>23. ASSUME NEW a \in Actors, LockSnapshot(a) PROVE FlagTypes'
  BY <1>23 DEF LockSnapshot, SetLock, To, Step, FlagTypes, RequestTypes, ConversationTypes
<1>24. ASSUME NEW a \in Actors, DeleteExportRow(a) PROVE FlagTypes'
  BY <1>24 DEF DeleteExportRow, To, Step, FlagTypes, RequestTypes, ConversationTypes
<1>25. ASSUME NEW a \in Actors, UnlinkExport(a) PROVE FlagTypes'
  BY <1>25 DEF UnlinkExport, Unlink, To, Step, FlagTypes, RequestTypes, ConversationTypes
<1>26. ASSUME NEW a \in Actors, DropConversation(a) PROVE FlagTypes'
  <2>1. UNCHANGED <<account, crashed, parallel>>
    BY <1>26 DEF DropConversation
  <2>2. frozen' = frozen \/ \E c : frozen' = [b \in Actors |-> frozen[b] /\ arg[b] # c]
    BY <1>26 DEF DropConversation, DeleteSession
  <2> QED BY <2>1, <2>2 DEF FlagTypes
<1>27. ASSUME NEW a \in Actors, DropNext(a) PROVE FlagTypes'
  <2>1. UNCHANGED <<account, crashed, parallel>>
    BY <1>27 DEF DropNext
  <2>2. frozen' = frozen \/ \E c : frozen' = [b \in Actors |-> frozen[b] /\ arg[b] # c]
    BY <1>27 DEF DropNext, DeleteSession
  <2> QED BY <2>1, <2>2 DEF FlagTypes
<1>28. ASSUME NEW a \in Actors, ReleaseLock(a) PROVE FlagTypes'
  BY <1>28 DEF ReleaseLock, To, Step, FlagTypes, RequestTypes, ConversationTypes
<1>29. ASSUME NEW a \in Actors, ListExports(a) PROVE FlagTypes'
  BY <1>29 DEF ListExports, Step, FlagTypes, RequestTypes, ConversationTypes
<1>30. ASSUME NEW a \in Actors, DeleteUser(a) PROVE FlagTypes'
  BY <1>30 DEF DeleteUser, To, Step, FlagTypes, RequestTypes, ConversationTypes
<1>31. ASSUME NEW a \in Actors, UnlinkFiles(a) PROVE FlagTypes'
  BY <1>31 DEF UnlinkFiles, Unlink, To, Step, FlagTypes, RequestTypes, ConversationTypes
<1>32. CASE Restart
  BY <1>32 DEF Restart, Unlink, Sweep, FlagTypes, RequestTypes, ConversationTypes
<1>33. CASE UNCHANGED vars
  BY <1>33 DEF FlagTypes
<1> QED
  BY <1>1, <1>2, <1>3, <1>4, <1>5, <1>6, <1>7, <1>8, <1>9, <1>10, <1>11,
     <1>12, <1>13, <1>14, <1>15, <1>16, <1>17, <1>18, <1>19, <1>20, <1>21,
     <1>22, <1>23, <1>24, <1>25, <1>26, <1>27, <1>28, <1>29, <1>30, <1>31,
     <1>32, <1>33 DEF Next, Begins, Chat, Work

\* Every variable keeps its type.
LEMMA TypeStep ==
    ASSUME TypeOK, PlacesInv, MemoryInv, [Next]_vars
    PROVE  TypeOK'
<1>1. PlaceTypes /\ RequestTypes /\ ConversationTypes /\ LockTypes /\ ExportTypes /\ FlagTypes
  BY TypeParts
<1>2. /\ PlaceTypes' /\ RequestTypes' /\ ConversationTypes'
      /\ LockTypes' /\ ExportTypes' /\ FlagTypes'
  BY <1>1, PlaceTypesStep, RequestTypesStep, ConversationTypesStep, LockTypesStep,
     ExportTypesStep, FlagTypesStep
<1> QED
  BY <1>2 DEF TypeOK, PlaceTypes, RequestTypes, ConversationTypes, LockTypes, ExportTypes,
     FlagTypes

--------------------------------------------------------------------------------
(* Locks                                                                        *)

\* A run waits for the lock of the registry, and holds it inside.
LEMMA LockStep ==
    ASSUME TypeOK, PlacesInv, MemoryInv, LockInv, [Next]_vars
    PROVE  LockInv'
<1>a. PlaceTypes /\ RequestTypes /\ ConversationTypes /\ LockTypes /\ ExportTypes /\ FlagTypes
  BY TypeParts
<1>1. ASSUME NEW a \in Actors, BeginChat(a) PROVE LockInv'
  BY <1>a, <1>1 DEF BeginChat, Begin, RunTo, LockInv, Inside, PlaceTypes, LockTypes,
     RequestTypes, PlacesInv, Placed, MemoryInv, Remembers, OfConversation
<1>2. ASSUME NEW a \in Actors, BeginTable(a) PROVE LockInv'
  BY <1>a, <1>2 DEF BeginTable, Begin, To, Step, LockInv, Inside, PlaceTypes, LockTypes,
     RequestTypes, PlacesInv, Placed, MemoryInv, Remembers, OfConversation
<1>3. ASSUME NEW a \in Actors, BeginDelete(a) PROVE LockInv'
  BY <1>a, <1>3 DEF BeginDelete, Begin, To, Step, LockInv, Inside, PlaceTypes, LockTypes,
     RequestTypes, PlacesInv, Placed, MemoryInv, Remembers, OfConversation
<1>4. ASSUME NEW a \in Actors, BeginRemove(a) PROVE LockInv'
  BY <1>a, <1>4 DEF BeginRemove, Begin, Step, LockInv, Inside, PlaceTypes, LockTypes,
     RequestTypes, PlacesInv, Placed, MemoryInv, Remembers, OfConversation
<1>5. ASSUME NEW a \in Actors, FindSession(a) PROVE LockInv'
  BY <1>a, <1>5 DEF FindSession, RunTo, LockInv, Inside, PlaceTypes, LockTypes, RequestTypes,
     PlacesInv, Placed, MemoryInv, Remembers, OfConversation
<1>6. ASSUME NEW a \in Actors, CreateSession(a) PROVE LockInv'
  BY <1>a, <1>6 DEF CreateSession, RunTo, LockInv, Inside, PlaceTypes, LockTypes,
     RequestTypes,
     PlacesInv, Placed, MemoryInv, Remembers, OfConversation
<1>7. ASSUME NEW a \in Actors, SessionLock(a) PROVE LockInv'
  <2>a. arg[a] \in Sessions
    BY <1>a, <1>7 DEF SessionLock, PlacesInv, Placed, MemoryInv, Remembers, OfConversation
  <2>b. PICK l \in Actors : /\ registry' = [registry EXCEPT ![arg[a]] = l]
                            /\ mine' = [mine EXCEPT ![a] = l]
                            /\ registry[arg[a]] \in {None, l}
    BY <1>a, <2>a, <1>7 DEF SessionLock, LockTypes
  <2>c. run' = [run EXCEPT ![a] = "queue"] /\ UNCHANGED <<arg, holder, gone>>
    BY <1>7 DEF SessionLock, RunTo
  <2> SUFFICES ASSUME NEW b \in Actors, run'[b] \in {"queue"} \cup Inside
               PROVE  /\ registry'[arg[b]] = mine'[b] \/ arg[b] \in gone
                      /\ run'[b] \in Inside => holder[mine'[b]] = b
    BY <2>c DEF LockInv
  <2>1. CASE b = a
    BY <1>a, <2>a, <2>b, <2>c, <2>1 DEF LockTypes, PlaceTypes, Inside
  <2>2. CASE b # a
    <3>1. /\ registry[arg[b]] = mine[b] \/ arg[b] \in gone
          /\ mine[b] \in Actors /\ mine'[b] = mine[b] /\ run'[b] = run[b]
          /\ run[b] \in Inside => holder[mine[b]] = b
      BY <1>a, <2>b, <2>c, <2>2 DEF LockInv, MemoryInv, Remembers, LockTypes, PlaceTypes
    <3>2. arg[b] \in Sessions
      BY <2>c, <2>2, <3>1 DEF PlacesInv, Placed, MemoryInv, Remembers, OfConversation, Inside
    <3>3. registry'[arg[b]] = IF arg[b] = arg[a] THEN l ELSE registry[arg[b]]
      BY <1>a, <2>a, <2>b, <3>2 DEF LockTypes
    <3>4. mine[b] # None
      BY <3>1, NoneAssumption
    <3> QED BY <2>b, <3>1, <3>3, <3>4
  <2> QED BY <2>1, <2>2
<1>8. ASSUME NEW a \in Actors, Enter(a) PROVE LockInv'
  <2>1. /\ run[a] = "queue" /\ holder[mine[a]] = None /\ mine[a] \in Actors
        /\ holder' = [holder EXCEPT ![mine[a]] = a]
        /\ run' = [run EXCEPT ![a] = "user"] /\ UNCHANGED <<arg, mine, registry, gone>>
    BY <1>8 DEF Enter, RunTo, MemoryInv, Remembers, Inside
  <2>2. a # None
    BY NoneAssumption
  <2> SUFFICES ASSUME NEW b \in Actors
               PROVE  /\ run'[b] \in {"queue"} \cup Inside =>
                          registry[arg[b]] = mine[b] \/ arg[b] \in gone
                      /\ run'[b] \in Inside => holder'[mine[b]] = b
    BY <2>1 DEF LockInv
  <2>3. CASE b = a
    BY <1>a, <2>1, <2>3 DEF LockInv, LockTypes, Inside
  <2>4. CASE b # a
    <3>1. run'[b] = run[b] /\ b # None
      BY <1>a, <2>1, <2>4, NoneAssumption DEF PlaceTypes
    <3>2. run[b] \in Inside => mine[b] # mine[a]
      BY <2>1, <3>1 DEF LockInv
    <3>3. run[b] \in Inside => holder'[mine[b]] = holder[mine[b]]
      BY <1>a, <2>1, <3>2 DEF LockTypes, MemoryInv, Remembers
    <3> QED BY <3>1, <3>3 DEF LockInv
  <2> QED BY <2>3, <2>4
<1>9. ASSUME NEW a \in Actors, CreateUserTurn(a) PROVE LockInv'
  <2>1. CASE Exists(arg[a])
    BY <1>a, <1>9, <2>1 DEF CreateUserTurn, RunTo, LockInv, Inside, PlaceTypes
  <2>2. CASE ~Exists(arg[a])
    <3>1. /\ run' = [run EXCEPT ![a] = "ended"]
          /\ mine' = [mine EXCEPT ![a] = None]
          /\ holder' = [l \in Actors |-> IF holder[l] = a THEN None ELSE holder[l]]
          /\ UNCHANGED <<arg, registry, gone>>
      BY <1>a, <1>9, <2>2 DEF CreateUserTurn, EndRun, RunTo
    <3> SUFFICES ASSUME NEW b \in Actors, b # a, run[b] \in {"queue"} \cup Inside
                 PROVE  /\ registry[arg[b]] = mine[b] \/ arg[b] \in gone
                        /\ run[b] \in Inside => holder'[mine[b]] = b
      BY <1>a, <3>1 DEF LockInv, PlaceTypes, LockTypes, Inside
    <3> QED BY <1>a, <3>1 DEF LockInv, MemoryInv, Remembers, LockTypes
  <2> QED BY <2>1, <2>2
<1>10. ASSUME NEW a \in Actors, FinishRun(a) PROVE LockInv'
  <2>1. /\ run' = [run EXCEPT ![a] = "ended"]
        /\ mine' = [mine EXCEPT ![a] = None]
        /\ holder' = [l \in Actors |-> IF holder[l] = a THEN None ELSE holder[l]]
        /\ UNCHANGED <<arg, registry, gone>>
    BY <1>a, <1>10 DEF FinishRun, EndRun, RunTo
  <2> SUFFICES ASSUME NEW b \in Actors, b # a, run[b] \in {"queue"} \cup Inside
               PROVE  /\ registry[arg[b]] = mine[b] \/ arg[b] \in gone
                      /\ run[b] \in Inside => holder'[mine[b]] = b
    BY <1>a, <2>1 DEF LockInv, PlaceTypes, LockTypes, Inside
  <2> QED BY <1>a, <2>1 DEF LockInv, MemoryInv, Remembers, LockTypes
<1>11. ASSUME NEW a \in Actors, CallTool(a) PROVE LockInv'
  BY <1>a, <1>11 DEF CallTool, To, Step, LockInv, Inside, PlaceTypes, LockTypes, RequestTypes,
     PlacesInv, Placed, MemoryInv, Remembers, OfConversation
<1>12. ASSUME NEW a \in Actors, CancelRun(a) PROVE LockInv'
  <2>1. /\ run' = [run EXCEPT ![a] = "ended"]
        /\ mine' = [mine EXCEPT ![a] = None]
        /\ holder' = [l \in Actors |-> IF holder[l] = a THEN None ELSE holder[l]]
        /\ UNCHANGED <<arg, registry, gone>>
    BY <1>a, <1>12 DEF CancelRun, EndRun, RunTo
  <2> SUFFICES ASSUME NEW b \in Actors, b # a, run[b] \in {"queue"} \cup Inside
               PROVE  /\ registry[arg[b]] = mine[b] \/ arg[b] \in gone
                      /\ run[b] \in Inside => holder'[mine[b]] = b
    BY <1>a, <2>1 DEF LockInv, PlaceTypes, LockTypes, Inside
  <2> QED BY <1>a, <2>1 DEF LockInv, MemoryInv, Remembers, LockTypes
<1>13. ASSUME NEW a \in Actors, CheckLocked(a) PROVE LockInv'
  BY <1>a, <1>13 DEF CheckLocked, To, Step, LockInv, Inside, PlaceTypes, LockTypes,
     RequestTypes, PlacesInv, Placed, MemoryInv, Remembers, OfConversation
<1>14. ASSUME NEW a \in Actors, PersistTable(a) PROVE LockInv'
  BY <1>a, <1>14 DEF PersistTable, UpsertTable, To, Step, LockInv, Inside, PlaceTypes,
     LockTypes, RequestTypes, PlacesInv, Placed, MemoryInv, Remembers, OfConversation
<1>15. ASSUME NEW a \in Actors, ToggleLock(a) PROVE LockInv'
  BY <1>a, <1>15 DEF ToggleLock, SetLock, To, Step, LockInv, Inside, PlaceTypes, LockTypes,
     RequestTypes, PlacesInv, Placed, MemoryInv, Remembers, OfConversation
<1>16. ASSUME NEW a \in Actors, CreateReport(a) PROVE LockInv'
  BY <1>a, <1>16 DEF CreateReport, To, Step, LockInv, Inside, PlaceTypes, LockTypes,
     RequestTypes, PlacesInv, Placed, MemoryInv, Remembers, OfConversation
<1>17. ASSUME NEW a \in Actors, FillReport(a) PROVE LockInv'
  BY <1>a, <1>17 DEF FillReport, UpsertTable, To, Step, LockInv, Inside, PlaceTypes,
     LockTypes,
     RequestTypes, PlacesInv, Placed, MemoryInv, Remembers, OfConversation
<1>18. ASSUME NEW a \in Actors, WriteCsv(a) PROVE LockInv'
  BY <1>a, <1>18 DEF WriteCsv, WriteFile, To, Step, LockInv, Inside, PlaceTypes, LockTypes,
     RequestTypes, PlacesInv, Placed, MemoryInv, Remembers, OfConversation
<1>19. ASSUME NEW a \in Actors, FindOwner(a) PROVE LockInv'
  BY <1>a, <1>19 DEF FindOwner, Step, LockInv, Inside, PlaceTypes, LockTypes, RequestTypes,
     PlacesInv, Placed, MemoryInv, Remembers, OfConversation
<1>20. ASSUME NEW a \in Actors, CountExports(a) PROVE LockInv'
  BY <1>a, <1>20 DEF CountExports, Counted, RegisterFails, Unlink, To, Step, LockInv, Inside,
     PlaceTypes, LockTypes, RequestTypes, PlacesInv, Placed, MemoryInv, Remembers,
     OfConversation
<1>21. ASSUME NEW a \in Actors, RegisterExport(a) PROVE LockInv'
  BY <1>a, <1>21 DEF RegisterExport, RegisterFails, Unlink, To, Step, LockInv, Inside,
     PlaceTypes, LockTypes, RequestTypes, PlacesInv, Placed, MemoryInv, Remembers,
     OfConversation
<1>22. ASSUME NEW a \in Actors, UnlinkCsv(a) PROVE LockInv'
  BY <1>a, <1>22 DEF UnlinkCsv, Unlink, To, Step, LockInv, Inside, PlaceTypes, LockTypes,
     RequestTypes, PlacesInv, Placed, MemoryInv, Remembers, OfConversation
<1>23. ASSUME NEW a \in Actors, LockSnapshot(a) PROVE LockInv'
  BY <1>a, <1>23 DEF LockSnapshot, SetLock, To, Step, LockInv, Inside, PlaceTypes, LockTypes,
     RequestTypes, PlacesInv, Placed, MemoryInv, Remembers, OfConversation
<1>24. ASSUME NEW a \in Actors, DeleteExportRow(a) PROVE LockInv'
  BY <1>a, <1>24 DEF DeleteExportRow, To, Step, LockInv, Inside, PlaceTypes, LockTypes,
     RequestTypes, PlacesInv, Placed, MemoryInv, Remembers, OfConversation
<1>25. ASSUME NEW a \in Actors, UnlinkExport(a) PROVE LockInv'
  BY <1>a, <1>25 DEF UnlinkExport, Unlink, To, Step, LockInv, Inside, PlaceTypes, LockTypes,
     RequestTypes, PlacesInv, Placed, MemoryInv, Remembers, OfConversation
<1>26. ASSUME NEW a \in Actors, DropConversation(a) PROVE LockInv'
  BY <1>a, <1>26 DEF DropConversation, DeleteSession, To, Step, LockInv, Inside, PlaceTypes,
     LockTypes, RequestTypes, PlacesInv, Placed, MemoryInv, Remembers, OfConversation
<1>27. ASSUME NEW a \in Actors, DropNext(a) PROVE LockInv'
  BY <1>a, <1>27 DEF DropNext, DeleteSession, To, Step, LockInv, Inside, PlaceTypes,
     LockTypes,
     RequestTypes, PlacesInv, Placed, MemoryInv, Remembers, OfConversation
<1>28. ASSUME NEW a \in Actors, ReleaseLock(a) PROVE LockInv'
  BY <1>a, <1>28 DEF ReleaseLock, To, Step, LockInv, Inside, PlaceTypes, LockTypes,
     RequestTypes, PlacesInv, Placed, MemoryInv, Remembers, OfConversation
<1>29. ASSUME NEW a \in Actors, ListExports(a) PROVE LockInv'
  BY <1>a, <1>29 DEF ListExports, Step, LockInv, Inside, PlaceTypes, LockTypes, RequestTypes,
     PlacesInv, Placed, MemoryInv, Remembers, OfConversation
<1>30. ASSUME NEW a \in Actors, DeleteUser(a) PROVE LockInv'
  BY <1>a, <1>30 DEF DeleteUser, To, Step, LockInv, Inside, PlaceTypes, LockTypes,
     RequestTypes,
     PlacesInv, Placed, MemoryInv, Remembers, OfConversation
<1>31. ASSUME NEW a \in Actors, UnlinkFiles(a) PROVE LockInv'
  BY <1>a, <1>31 DEF UnlinkFiles, Unlink, To, Step, LockInv, Inside, PlaceTypes, LockTypes,
     RequestTypes, PlacesInv, Placed, MemoryInv, Remembers, OfConversation
<1>32. CASE Restart
  BY <1>a, <1>32 DEF Restart, LockInv, Inside, PlaceTypes
<1>33. CASE UNCHANGED vars
  BY <1>33 DEF LockInv
<1> QED
  BY <1>1, <1>2, <1>3, <1>4, <1>5, <1>6, <1>7, <1>8, <1>9, <1>10, <1>11,
     <1>12, <1>13, <1>14, <1>15, <1>16, <1>17, <1>18, <1>19, <1>20, <1>21,
     <1>22, <1>23, <1>24, <1>25, <1>26, <1>27, <1>28, <1>29, <1>30, <1>31,
     <1>32, <1>33 DEF Next, Begins, Chat, Work

--------------------------------------------------------------------------------
(* Locked tables                                                                *)

\* A frozen request does not write.
LEMMA FrozenStep ==
    ASSUME TypeOK, PlacesInv, MemoryInv, FrozenInv, [Next]_vars
    PROVE  FrozenInv'
<1>a. PlaceTypes /\ RequestTypes /\ ConversationTypes /\ LockTypes /\ ExportTypes /\ FlagTypes
  BY TypeParts
<1>1. ASSUME NEW a \in Actors, BeginChat(a) PROVE FrozenInv'
  <2>a. /\ op[a] = "none" /\ UNCHANGED <<locked, frozen>>
        /\ \E o : op' = [op EXCEPT ![a] = o]
        /\ \E c : arg' = [arg EXCEPT ![a] = c]
        /\ UNCHANGED at \/ \E l : at' = [at EXCEPT ![a] = l]
    BY <1>1 DEF BeginChat, Begin, RunTo
  <2>1. ~frozen[a]
    BY <2>a DEF FrozenInv
  <2> QED BY <1>a, <2>a, <2>1 DEF FrozenInv, PlaceTypes, RequestTypes
<1>2. ASSUME NEW a \in Actors, BeginTable(a) PROVE FrozenInv'
  BY <1>a, <1>2 DEF BeginTable, Begin, To, Step, FrozenInv, PlaceTypes, RequestTypes,
     ConversationTypes, FlagTypes, PlacesInv, Placed, MemoryInv, Remembers, OfConversation
<1>3. ASSUME NEW a \in Actors, BeginDelete(a) PROVE FrozenInv'
  <2>a. /\ op[a] = "none" /\ UNCHANGED <<locked, frozen>>
        /\ \E o : op' = [op EXCEPT ![a] = o]
        /\ \E c : arg' = [arg EXCEPT ![a] = c]
        /\ UNCHANGED at \/ \E l : at' = [at EXCEPT ![a] = l]
    BY <1>3 DEF BeginDelete, Begin, To, Step
  <2>1. ~frozen[a]
    BY <2>a DEF FrozenInv
  <2> QED BY <1>a, <2>a, <2>1 DEF FrozenInv, PlaceTypes, RequestTypes
<1>4. ASSUME NEW a \in Actors, BeginRemove(a) PROVE FrozenInv'
  <2>a. /\ op[a] = "none" /\ UNCHANGED <<locked, frozen>>
        /\ \E o : op' = [op EXCEPT ![a] = o]
        /\ \E c : arg' = [arg EXCEPT ![a] = c]
        /\ UNCHANGED at \/ \E l : at' = [at EXCEPT ![a] = l]
    BY <1>4 DEF BeginRemove, Begin, Step
  <2>1. ~frozen[a]
    BY <2>a DEF FrozenInv
  <2> QED BY <1>a, <2>a, <2>1 DEF FrozenInv, PlaceTypes, RequestTypes
<1>5. ASSUME NEW a \in Actors, FindSession(a) PROVE FrozenInv'
  BY <1>a, <1>5 DEF FindSession, RunTo, FrozenInv, PlaceTypes, RequestTypes,
     ConversationTypes,
     FlagTypes, PlacesInv, Placed, MemoryInv, Remembers, OfConversation
<1>6. ASSUME NEW a \in Actors, CreateSession(a) PROVE FrozenInv'
  BY <1>a, <1>6 DEF CreateSession, RunTo, FrozenInv, PlaceTypes, RequestTypes,
     ConversationTypes, FlagTypes, PlacesInv, Placed, MemoryInv, Remembers, OfConversation
<1>7. ASSUME NEW a \in Actors, SessionLock(a) PROVE FrozenInv'
  BY <1>a, <1>7 DEF SessionLock, RunTo, FrozenInv, PlaceTypes, RequestTypes,
     ConversationTypes,
     FlagTypes, PlacesInv, Placed, MemoryInv, Remembers, OfConversation
<1>8. ASSUME NEW a \in Actors, Enter(a) PROVE FrozenInv'
  BY <1>a, <1>8 DEF Enter, RunTo, FrozenInv, PlaceTypes, RequestTypes, ConversationTypes,
     FlagTypes, PlacesInv, Placed, MemoryInv, Remembers, OfConversation
<1>9. ASSUME NEW a \in Actors, CreateUserTurn(a) PROVE FrozenInv'
  BY <1>a, <1>9 DEF CreateUserTurn, RunTo, EndRun, FrozenInv, PlaceTypes, RequestTypes,
     ConversationTypes, FlagTypes, PlacesInv, Placed, MemoryInv, Remembers, OfConversation
<1>10. ASSUME NEW a \in Actors, FinishRun(a) PROVE FrozenInv'
  BY <1>a, <1>10 DEF FinishRun, EndRun, RunTo, FrozenInv, PlaceTypes, RequestTypes,
     ConversationTypes, FlagTypes, PlacesInv, Placed, MemoryInv, Remembers, OfConversation
<1>11. ASSUME NEW a \in Actors, CallTool(a) PROVE FrozenInv'
  <2>1. op[a] = "chat" /\ arg[a] \in Sessions
    BY <1>11 DEF CallTool, PlacesInv, Placed, MemoryInv, Remembers, OfConversation
  <2>2. /\ UNCHANGED <<arg, op, locked>>
        /\ \E l \in {"csv", "new", "locked"} : at' = [at EXCEPT ![a] = l]
        /\ frozen' = [frozen EXCEPT ![a] = at'[a] = "locked" /\ locked[arg[a]]]
    BY <1>11 DEF CallTool, To, Step
  <2>3. frozen'[a] => locked[arg[a]]
    BY <1>a, <2>2 DEF FlagTypes
  <2>4. \A b \in Actors : b # a => frozen'[b] = frozen[b] /\ at'[b] = at[b]
    BY <1>a, <2>2 DEF FlagTypes, PlaceTypes
  <2>5. at'[a] # "persist"
    BY <1>a, <2>2 DEF PlaceTypes
  <2> QED BY <2>1, <2>2, <2>3, <2>4, <2>5 DEF FrozenInv
<1>12. ASSUME NEW a \in Actors, CancelRun(a) PROVE FrozenInv'
  BY <1>a, <1>12 DEF CancelRun, EndRun, RunTo, FrozenInv, PlaceTypes, RequestTypes,
     ConversationTypes, FlagTypes, PlacesInv, Placed, MemoryInv, Remembers, OfConversation
<1>13. ASSUME NEW a \in Actors, CheckLocked(a) PROVE FrozenInv'
  BY <1>a, <1>13 DEF CheckLocked, To, Step, FrozenInv, PlaceTypes, RequestTypes,
     ConversationTypes, FlagTypes, PlacesInv, Placed, MemoryInv, Remembers, OfConversation
<1>14. ASSUME NEW a \in Actors, PersistTable(a) PROVE FrozenInv'
  <2>a. /\ UNCHANGED <<arg, op, locked, frozen>>
        /\ \E l : l # "persist" /\ at' = [at EXCEPT ![a] = l]
    BY <1>14 DEF PersistTable, UpsertTable, To, Step
  <2> QED BY <1>a, <2>a DEF FrozenInv, PlaceTypes
<1>15. ASSUME NEW a \in Actors, ToggleLock(a) PROVE FrozenInv'
  BY <1>a, <1>15 DEF ToggleLock, SetLock, To, Step, FrozenInv, PlaceTypes, RequestTypes,
     ConversationTypes, FlagTypes, PlacesInv, Placed, MemoryInv, Remembers, OfConversation
<1>16. ASSUME NEW a \in Actors, CreateReport(a) PROVE FrozenInv'
  <2>a. /\ UNCHANGED <<arg, op, locked, frozen>>
        /\ \E l : l # "persist" /\ at' = [at EXCEPT ![a] = l]
    BY <1>16 DEF CreateReport, To, Step
  <2> QED BY <1>a, <2>a DEF FrozenInv, PlaceTypes
<1>17. ASSUME NEW a \in Actors, FillReport(a) PROVE FrozenInv'
  <2>a. /\ UNCHANGED <<arg, op, locked, frozen>>
        /\ \E l : l # "persist" /\ at' = [at EXCEPT ![a] = l]
    BY <1>17 DEF FillReport, UpsertTable, To, Step
  <2> QED BY <1>a, <2>a DEF FrozenInv, PlaceTypes
<1>18. ASSUME NEW a \in Actors, WriteCsv(a) PROVE FrozenInv'
  <2>a. /\ UNCHANGED <<arg, op, locked, frozen>>
        /\ \E l : l # "persist" /\ at' = [at EXCEPT ![a] = l]
    BY <1>18 DEF WriteCsv, WriteFile, To, Step
  <2> QED BY <1>a, <2>a DEF FrozenInv, PlaceTypes
<1>19. ASSUME NEW a \in Actors, FindOwner(a) PROVE FrozenInv'
  <2>a. /\ UNCHANGED <<arg, op, locked, frozen>>
        /\ \E l : l # "persist" /\ at' = [at EXCEPT ![a] = l]
    BY <1>19 DEF FindOwner, Step
  <2> QED BY <1>a, <2>a DEF FrozenInv, PlaceTypes
<1>20. ASSUME NEW a \in Actors, CountExports(a) PROVE FrozenInv'
  <2>a. /\ UNCHANGED <<arg, op, locked, frozen>>
        /\ \E l : l # "persist" /\ at' = [at EXCEPT ![a] = l]
    BY <1>20 DEF CountExports, Counted, RegisterFails, Unlink, To, Step
  <2> QED BY <1>a, <2>a DEF FrozenInv, PlaceTypes
<1>21. ASSUME NEW a \in Actors, RegisterExport(a) PROVE FrozenInv'
  <2>a. /\ UNCHANGED <<arg, op, locked, frozen>>
        /\ \E l : l # "persist" /\ at' = [at EXCEPT ![a] = l]
    BY <1>21 DEF RegisterExport, RegisterFails, Unlink, To, Step
  <2> QED BY <1>a, <2>a DEF FrozenInv, PlaceTypes
<1>22. ASSUME NEW a \in Actors, UnlinkCsv(a) PROVE FrozenInv'
  <2>a. /\ UNCHANGED <<arg, op, locked, frozen>>
        /\ \E l : l # "persist" /\ at' = [at EXCEPT ![a] = l]
    BY <1>22 DEF UnlinkCsv, Unlink, To, Step
  <2> QED BY <1>a, <2>a DEF FrozenInv, PlaceTypes
<1>23. ASSUME NEW a \in Actors, LockSnapshot(a) PROVE FrozenInv'
  BY <1>a, <1>23 DEF LockSnapshot, SetLock, To, Step, FrozenInv, PlaceTypes, RequestTypes,
     ConversationTypes, FlagTypes, PlacesInv, Placed, MemoryInv, Remembers, OfConversation
<1>24. ASSUME NEW a \in Actors, DeleteExportRow(a) PROVE FrozenInv'
  <2>a. /\ UNCHANGED <<arg, op, locked, frozen>>
        /\ \E l : l # "persist" /\ at' = [at EXCEPT ![a] = l]
    BY <1>24 DEF DeleteExportRow, To, Step
  <2> QED BY <1>a, <2>a DEF FrozenInv, PlaceTypes
<1>25. ASSUME NEW a \in Actors, UnlinkExport(a) PROVE FrozenInv'
  <2>a. /\ UNCHANGED <<arg, op, locked, frozen>>
        /\ \E l : l # "persist" /\ at' = [at EXCEPT ![a] = l]
    BY <1>25 DEF UnlinkExport, Unlink, To, Step
  <2> QED BY <1>a, <2>a DEF FrozenInv, PlaceTypes
<1>26. ASSUME NEW a \in Actors, DropConversation(a) PROVE FrozenInv'
  <2>1. CASE Exists(arg[a])
    <3>1. /\ UNCHANGED <<arg, op>> /\ at' = [at EXCEPT ![a] = "pop"]
          /\ locked' = [locked EXCEPT ![arg[a]] = FALSE]
          /\ frozen' = [b \in Actors |-> frozen[b] /\ arg[b] # arg[a]]
      BY <1>26, <2>1 DEF DropConversation, DeleteSession, To, Step
    <3>2. \A b \in Actors : frozen'[b] => frozen[b] /\ arg[b] # arg[a]
      BY <3>1
    <3> QED BY <1>a, <3>1, <3>2 DEF FrozenInv, PlaceTypes, ConversationTypes
  <2>2. CASE ~Exists(arg[a])
    BY <1>a, <1>26, <2>2 DEF DropConversation, To, Step, FrozenInv, PlaceTypes
  <2> QED BY <2>1, <2>2
<1>27. ASSUME NEW a \in Actors, DropNext(a) PROVE FrozenInv'
  BY <1>a, <1>27 DEF DropNext, DeleteSession, To, Step, FrozenInv, PlaceTypes, RequestTypes,
     ConversationTypes, FlagTypes, PlacesInv, Placed, MemoryInv, Remembers, OfConversation
<1>28. ASSUME NEW a \in Actors, ReleaseLock(a) PROVE FrozenInv'
  <2>a. /\ UNCHANGED <<arg, op, locked, frozen>>
        /\ \E l : l # "persist" /\ at' = [at EXCEPT ![a] = l]
    BY <1>28 DEF ReleaseLock, To, Step
  <2> QED BY <1>a, <2>a DEF FrozenInv, PlaceTypes
<1>29. ASSUME NEW a \in Actors, ListExports(a) PROVE FrozenInv'
  <2>a. /\ UNCHANGED <<arg, op, locked, frozen>>
        /\ \E l : l # "persist" /\ at' = [at EXCEPT ![a] = l]
    BY <1>29 DEF ListExports, Step
  <2> QED BY <1>a, <2>a DEF FrozenInv, PlaceTypes
<1>30. ASSUME NEW a \in Actors, DeleteUser(a) PROVE FrozenInv'
  <2>a. /\ UNCHANGED <<arg, op, locked, frozen>>
        /\ \E l : l # "persist" /\ at' = [at EXCEPT ![a] = l]
    BY <1>30 DEF DeleteUser, To, Step
  <2> QED BY <1>a, <2>a DEF FrozenInv, PlaceTypes
<1>31. ASSUME NEW a \in Actors, UnlinkFiles(a) PROVE FrozenInv'
  <2>a. /\ UNCHANGED <<arg, op, locked, frozen>>
        /\ \E l : l # "persist" /\ at' = [at EXCEPT ![a] = l]
    BY <1>31 DEF UnlinkFiles, Unlink, To, Step
  <2> QED BY <1>a, <2>a DEF FrozenInv, PlaceTypes
<1>32. CASE Restart
  BY <1>a, <1>32 DEF Restart, FrozenInv
<1>33. CASE UNCHANGED vars
  BY <1>33 DEF FrozenInv
<1> QED
  BY <1>1, <1>2, <1>3, <1>4, <1>5, <1>6, <1>7, <1>8, <1>9, <1>10, <1>11,
     <1>12, <1>13, <1>14, <1>15, <1>16, <1>17, <1>18, <1>19, <1>20, <1>21,
     <1>22, <1>23, <1>24, <1>25, <1>26, <1>27, <1>28, <1>29, <1>30, <1>31,
     <1>32, <1>33 DEF Next, Begins, Chat, Work

--------------------------------------------------------------------------------
(* Exports                                                                      *)

\* The steps that are about exports, and the others.
ExportMoves(a) ==
    \/ BeginRemove(a) \/ WriteCsv(a) \/ FindOwner(a) \/ CountExports(a) \/ RegisterExport(a)
    \/ UnlinkCsv(a) \/ DeleteExportRow(a) \/ UnlinkExport(a)
    \/ ListExports(a) \/ DeleteUser(a) \/ UnlinkFiles(a)

Relevant == Naming \cup {"account", "files"}

Apart ==
    /\ UNCHANGED <<account, library, files, uses, parallel, crashed>>
    /\ \A b \in Actors :
          at[b] \in Relevant \/ at'[b] \in Relevant =>
             at'[b] = at[b] /\ name'[b] = name[b] /\ note'[b] = note[b]

\* A step that is not about exports leaves them alone.
LEMMA ExportsOrApart ==
    ASSUME TypeOK, PlacesInv, [Next]_vars
    PROVE  Apart \/ Restart \/ \E a \in Actors : ExportMoves(a)
<1>a. PlaceTypes /\ RequestTypes /\ ConversationTypes /\ LockTypes /\ ExportTypes /\ FlagTypes
  BY TypeParts
<1>1. ASSUME NEW a \in Actors, BeginChat(a) PROVE Apart
  BY <1>a, <1>1 DEF BeginChat, Begin, RunTo, Apart, Relevant, Naming, Registering,
     PlaceTypes, RequestTypes, PlacesInv, Placed
<1>2. ASSUME NEW a \in Actors, BeginTable(a) PROVE Apart
  BY <1>a, <1>2 DEF BeginTable, Begin, To, Step, Apart, Relevant, Naming, Registering,
     PlaceTypes, RequestTypes, PlacesInv, Placed
<1>3. ASSUME NEW a \in Actors, BeginDelete(a) PROVE Apart
  BY <1>a, <1>3 DEF BeginDelete, Begin, To, Step, Apart, Relevant, Naming, Registering,
     PlaceTypes, RequestTypes, PlacesInv, Placed
<1>4. ASSUME NEW a \in Actors, FindSession(a) PROVE Apart
  BY <1>a, <1>4 DEF FindSession, RunTo, Apart, Relevant, Naming, Registering, PlaceTypes,
     RequestTypes, PlacesInv, Placed
<1>5. ASSUME NEW a \in Actors, CreateSession(a) PROVE Apart
  BY <1>a, <1>5 DEF CreateSession, RunTo, Apart, Relevant, Naming, Registering, PlaceTypes,
     RequestTypes, PlacesInv, Placed
<1>6. ASSUME NEW a \in Actors, SessionLock(a) PROVE Apart
  BY <1>a, <1>6 DEF SessionLock, RunTo, Apart, Relevant, Naming, Registering, PlaceTypes,
     RequestTypes, PlacesInv, Placed
<1>7. ASSUME NEW a \in Actors, Enter(a) PROVE Apart
  BY <1>a, <1>7 DEF Enter, RunTo, Apart, Relevant, Naming, Registering, PlaceTypes,
     RequestTypes, PlacesInv, Placed
<1>8. ASSUME NEW a \in Actors, CreateUserTurn(a) PROVE Apart
  BY <1>a, <1>8 DEF CreateUserTurn, RunTo, EndRun, Apart, Relevant, Naming, Registering,
     PlaceTypes, RequestTypes, PlacesInv, Placed
<1>9. ASSUME NEW a \in Actors, FinishRun(a) PROVE Apart
  BY <1>a, <1>9 DEF FinishRun, EndRun, RunTo, Apart, Relevant, Naming, Registering,
     PlaceTypes, RequestTypes, PlacesInv, Placed
<1>10. ASSUME NEW a \in Actors, CallTool(a) PROVE Apart
  BY <1>a, <1>10 DEF CallTool, To, Step, Apart, Relevant, Naming, Registering, PlaceTypes,
     RequestTypes, PlacesInv, Placed
<1>11. ASSUME NEW a \in Actors, CancelRun(a) PROVE Apart
  BY <1>a, <1>11 DEF CancelRun, EndRun, RunTo, Apart, Relevant, Naming, Registering,
     PlaceTypes, RequestTypes, PlacesInv, Placed
<1>12. ASSUME NEW a \in Actors, CheckLocked(a) PROVE Apart
  BY <1>a, <1>12 DEF CheckLocked, To, Step, Apart, Relevant, Naming, Registering,
     PlaceTypes, RequestTypes, PlacesInv, Placed
<1>13. ASSUME NEW a \in Actors, PersistTable(a) PROVE Apart
  BY <1>a, <1>13 DEF PersistTable, UpsertTable, To, Step, Apart, Relevant, Naming,
     Registering, PlaceTypes, RequestTypes, PlacesInv, Placed
<1>14. ASSUME NEW a \in Actors, ToggleLock(a) PROVE Apart
  BY <1>a, <1>14 DEF ToggleLock, SetLock, To, Step, Apart, Relevant, Naming, Registering,
     PlaceTypes, RequestTypes, PlacesInv, Placed
<1>15. ASSUME NEW a \in Actors, CreateReport(a) PROVE Apart
  BY <1>a, <1>15 DEF CreateReport, To, Step, Apart, Relevant, Naming, Registering,
     PlaceTypes, RequestTypes, PlacesInv, Placed
<1>16. ASSUME NEW a \in Actors, FillReport(a) PROVE Apart
  BY <1>a, <1>16 DEF FillReport, UpsertTable, To, Step, Apart, Relevant, Naming,
     Registering, PlaceTypes, RequestTypes, PlacesInv, Placed
<1>17. ASSUME NEW a \in Actors, LockSnapshot(a) PROVE Apart
  BY <1>a, <1>17 DEF LockSnapshot, SetLock, To, Step, Apart, Relevant, Naming, Registering,
     PlaceTypes, RequestTypes, PlacesInv, Placed
<1>18. ASSUME NEW a \in Actors, DropConversation(a) PROVE Apart
  BY <1>a, <1>18 DEF DropConversation, DeleteSession, To, Step, Apart, Relevant, Naming,
     Registering, PlaceTypes, RequestTypes, PlacesInv, Placed
<1>19. ASSUME NEW a \in Actors, DropNext(a) PROVE Apart
  BY <1>a, <1>19 DEF DropNext, DeleteSession, To, Step, Apart, Relevant, Naming,
     Registering, PlaceTypes, RequestTypes, PlacesInv, Placed
<1>20. ASSUME NEW a \in Actors, ReleaseLock(a) PROVE Apart
  BY <1>a, <1>20 DEF ReleaseLock, To, Step, Apart, Relevant, Naming, Registering,
     PlaceTypes, RequestTypes, PlacesInv, Placed
<1>21. CASE UNCHANGED vars
  BY <1>a, <1>21 DEF Apart
<1> QED
  BY <1>1, <1>2, <1>3, <1>4, <1>5, <1>6, <1>7, <1>8, <1>9, <1>10, <1>11, <1>12, <1>13,
     <1>14, <1>15, <1>16, <1>17, <1>18, <1>19, <1>20, <1>21 DEF Next, Begins, Chat, Work,
     ExportMoves

\* What an export move does, by the request that makes it.
Others(a) ==
    \A b \in Actors : b # a => at'[b] = at[b] /\ name'[b] = name[b] /\ note'[b] = note[b]

Unlinks(S) == \A n \in Names : files'[n] = IF n \in S THEN None ELSE files[n]

GivesUp(a) ==
    /\ name'[a] = name[a]
    /\ \/ at'[a] = "unlink" /\ files' = files
       \/ at'[a] = "done" /\ Unlinks({name[a]})

LEMMA BeginRemoveDoes ==
    ASSUME TypeOK, PlacesInv, MemoryInv, NEW a \in Actors, BeginRemove(a)
    PROVE  /\ Others(a)
           /\ at[a] = "none" /\ at'[a] = "row"
           /\ name'[a] \in Names /\ library[name'[a]] # None /\ note'[a] = {library[name'[a]].by}
           /\ UNCHANGED <<account, library, files, uses, parallel, crashed>>
<1>a. PlaceTypes /\ RequestTypes /\ ConversationTypes /\ LockTypes /\ ExportTypes /\ FlagTypes
  BY TypeParts
<1>1. /\ op[a] = "none"
      /\ \E n \in Names : /\ library[n] # None
                          /\ name' = [name EXCEPT ![a] = n] /\ at' = [at EXCEPT ![a] = "row"]
                          /\ note' = [note EXCEPT ![a] = {library[n].by}]
      /\ UNCHANGED <<account, library, files, uses, parallel, crashed>>
  BY <1>a DEF BeginRemove, Begin, Step, Owned
<1> QED
  BY <1>a, <1>1 DEF Others, PlaceTypes, RequestTypes, PlacesInv, Placed

LEMMA WriteCsvDoes ==
    ASSUME TypeOK, PlacesInv, MemoryInv, NEW a \in Actors, WriteCsv(a)
    PROVE  /\ Others(a)
           /\ at[a] \in {"csv", "table"} /\ UNCHANGED <<account, library, parallel, crashed>>
           /\ \/ at'[a] = "done" /\ UNCHANGED <<files, uses>>
              \/ /\ at'[a] = "owner" /\ name'[a] \in NewNames
                 /\ \A n \in Names : /\ files'[n] = IF n = name'[a] THEN a ELSE files[n]
                                     /\ uses'[n] = IF n # name'[a] THEN uses[n]
                                                   ELSE IF uses[n] = 0 THEN 1 ELSE 2
<1>a. PlaceTypes /\ RequestTypes /\ ConversationTypes /\ LockTypes /\ ExportTypes /\ FlagTypes
  BY TypeParts
<1>1. /\ at[a] \in {"csv", "table"} /\ UNCHANGED <<account, library, parallel, crashed>>
      /\ \/ /\ at' = [at EXCEPT ![a] = "done"] /\ UNCHANGED <<name, files, uses>>
            /\ \E S : note' = [note EXCEPT ![a] = S]
         \/ /\ at' = [at EXCEPT ![a] = "owner"] /\ note' = [note EXCEPT ![a] = note[a]]
            /\ \E n \in NewNames : /\ name' = [name EXCEPT ![a] = n]
                                   /\ files' = [files EXCEPT ![n] = a]
                                   /\ uses' = [uses EXCEPT ![n] = IF uses[n] = 0 THEN 1 ELSE 2]
  BY <1>a DEF WriteCsv, WriteFile, To, Step, ExportTypes, Names
<1> QED
  BY <1>a, <1>1 DEF Others, PlaceTypes, RequestTypes, ExportTypes, Names

LEMMA FindOwnerDoes ==
    ASSUME TypeOK, PlacesInv, MemoryInv, NEW a \in Actors, FindOwner(a)
    PROVE  /\ Others(a)
           /\ at[a] = "owner" /\ name'[a] = name[a] /\ name[a] \in Names
           /\ at'[a] = "count" \/ (at'[a] = "register" /\ TRUE \notin note'[a])
           /\ UNCHANGED <<account, library, files, uses, parallel, crashed>>
<1>a. PlaceTypes /\ RequestTypes /\ ConversationTypes /\ LockTypes /\ ExportTypes /\ FlagTypes
  BY TypeParts
<1>1. /\ at[a] = "owner" /\ UNCHANGED name
      /\ at' = [at EXCEPT ![a] = IF Exists(arg[a]) THEN "count" ELSE "register"]
      /\ note' = [note EXCEPT ![a] = {Exists(arg[a])}]
      /\ UNCHANGED <<account, library, files, uses, parallel, crashed>>
  BY DEF FindOwner, Step
<1>2. note'[a] = {Exists(arg[a])}
  BY <1>a, <1>1 DEF RequestTypes
<1>3. name[a] \in Names
  BY <1>1 DEF MemoryInv, Remembers, Naming, Registering
<1>4. at'[a] = IF Exists(arg[a]) THEN "count" ELSE "register"
  BY <1>a, <1>1 DEF PlaceTypes
<1>5. at'[a] = "register" => TRUE \notin note'[a]
  BY <1>2, <1>4
<1> QED BY <1>a, <1>1, <1>3, <1>4, <1>5 DEF Others, PlaceTypes, RequestTypes

LEMMA CountExportsDoes ==
    ASSUME TypeOK, PlacesInv, MemoryInv, NEW a \in Actors, CountExports(a)
    PROVE  /\ Others(a)
           /\ at[a] = "count" /\ name'[a] = name[a] /\ name[a] \in Names
           /\ \/ /\ at'[a] = "register" /\ note'[a] = note[a] /\ UNCHANGED files
                 /\ Cardinality(Owned) < MaxExports
                 /\ parallel' <=> parallel \/ \E b \in Actors : at[b] = "register"
              \/ GivesUp(a) /\ UNCHANGED parallel
           /\ UNCHANGED <<account, library, uses, crashed>>
<1>a. PlaceTypes /\ RequestTypes /\ ConversationTypes /\ LockTypes /\ ExportTypes /\ FlagTypes
  BY TypeParts
<1>1. /\ at[a] = "count" /\ UNCHANGED name /\ UNCHANGED <<account, library, uses, crashed>>
      /\ \E l, S : at' = [at EXCEPT ![a] = l] /\ note' = [note EXCEPT ![a] = S]
  BY DEF CountExports, Counted, RegisterFails, To, Step
<1>2. name[a] \in Names
  BY <1>1 DEF MemoryInv, Remembers, Naming, Registering
<1>3. CASE Cardinality(Owned) < MaxExports
  <2>1. /\ at' = [at EXCEPT ![a] = "register"] /\ note' = [note EXCEPT ![a] = note[a]]
        /\ UNCHANGED files
        /\ parallel' = (parallel \/ \E b \in Actors : at[b] = "register")
    BY <1>3 DEF CountExports, Counted, To, Step
  <2> QED BY <1>a, <1>1, <1>2, <1>3, <2>1 DEF Others, PlaceTypes, RequestTypes
<1>4. CASE ~(Cardinality(Owned) < MaxExports)
  <2>1. /\ UNCHANGED parallel
        /\ \/ at' = [at EXCEPT ![a] = "unlink"] /\ UNCHANGED files
           \/ at' = [at EXCEPT ![a] = "done"] /\ Unlink({name[a]})
    BY <1>4 DEF CountExports, Counted, RegisterFails, To, Step
  <2>2. GivesUp(a)
    BY <1>a, <1>1, <2>1 DEF GivesUp, Unlinks, Unlink, PlaceTypes
  <2> QED BY <1>a, <1>1, <1>2, <2>1, <2>2 DEF Others, PlaceTypes, RequestTypes
<1> QED BY <1>3, <1>4

LEMMA RegisterExportDoes ==
    ASSUME TypeOK, PlacesInv, MemoryInv, NEW a \in Actors, RegisterExport(a)
    PROVE  /\ Others(a)
           /\ at[a] = "register" /\ name'[a] = name[a] /\ name[a] \in Names
           /\ \/ /\ at'[a] \in {"lock", "done"} /\ library[name[a]] = None
                 /\ TRUE \in note[a] => account
                 /\ library'[name[a]] # None /\ library'[name[a]].by = a
                 /\ library'[name[a]].owned <=> TRUE \in note[a]
                 /\ \A n \in Names : n # name[a] => library'[n] = library[n]
                 /\ UNCHANGED files
              \/ GivesUp(a) /\ UNCHANGED library
           /\ UNCHANGED <<account, uses, parallel, crashed>>
<1>a. PlaceTypes /\ RequestTypes /\ ConversationTypes /\ LockTypes /\ ExportTypes /\ FlagTypes
  BY TypeParts
<1>1. /\ at[a] = "register" /\ UNCHANGED name /\ UNCHANGED <<account, uses, parallel,
                                                             crashed>>
      /\ \E l, S : at' = [at EXCEPT ![a] = l] /\ note' = [note EXCEPT ![a] = S]
  BY DEF RegisterExport, RegisterFails, To, Step
<1>2. name[a] \in Names
  BY <1>1 DEF MemoryInv, Remembers, Naming, Registering
<1> DEFINE row == [by |-> a, owned |-> TRUE \in note[a]]
<1>3. row \in Row /\ row.by = a /\ (row.owned <=> TRUE \in note[a])
  <2>1. a \in Content /\ (TRUE \in note[a]) \in BOOLEAN
    BY DEF Content
  <2>2. row \in Row
    BY <2>1 DEF Row
  <2> QED BY <2>2
<1>4. CASE library[name[a]] = None /\ (TRUE \in note[a] => account)
  <2>1. /\ library' = [library EXCEPT ![name[a]] = row] /\ UNCHANGED files
        /\ \E l \in {"lock", "done"} : at' = [at EXCEPT ![a] = l]
    BY <1>4 DEF RegisterExport, To, Step
  <2> HIDE DEF row
  <2>2. row # None
    BY <1>3, NoneIsNoRow
  <2>3. /\ library'[name[a]] = row
        /\ \A n \in Names : n # name[a] => library'[n] = library[n]
    BY <1>a, <1>2, <2>1 DEF ExportTypes
  <2> QED BY <1>a, <1>1, <1>2, <1>3, <1>4, <2>1, <2>2, <2>3 DEF Others, PlaceTypes,
       RequestTypes
<1>5. CASE ~(library[name[a]] = None /\ (TRUE \in note[a] => account))
  <2>1. /\ UNCHANGED library
        /\ \/ at' = [at EXCEPT ![a] = "unlink"] /\ UNCHANGED files
           \/ at' = [at EXCEPT ![a] = "done"] /\ Unlink({name[a]})
    BY <1>5 DEF RegisterExport, RegisterFails, To, Step
  <2>2. GivesUp(a)
    BY <1>a, <1>1, <2>1 DEF GivesUp, Unlinks, Unlink, PlaceTypes
  <2> QED BY <1>a, <1>1, <1>2, <2>1, <2>2 DEF Others, PlaceTypes, RequestTypes
<1> QED BY <1>4, <1>5

LEMMA UnlinkCsvDoes ==
    ASSUME TypeOK, PlacesInv, MemoryInv, NEW a \in Actors, UnlinkCsv(a)
    PROVE  /\ Others(a)
           /\ at[a] = "unlink" /\ at'[a] = "done" /\ name[a] \in Names /\ Unlinks({name[a]})
           /\ UNCHANGED <<account, library, uses, parallel, crashed>>
<1>a. PlaceTypes /\ RequestTypes /\ ConversationTypes /\ LockTypes /\ ExportTypes /\ FlagTypes
  BY TypeParts
<1>1. /\ at[a] = "unlink" /\ at' = [at EXCEPT ![a] = "done"] /\ Unlink({name[a]})
      /\ UNCHANGED <<name, account, library, uses, parallel, crashed>>
      /\ \E S : note' = [note EXCEPT ![a] = S]
  BY DEF UnlinkCsv, To, Step
<1>2. name[a] \in Names
  BY <1>1 DEF MemoryInv, Remembers, Naming, Registering
<1> QED BY <1>a, <1>1, <1>2 DEF Others, Unlinks, Unlink, PlaceTypes, RequestTypes

LEMMA DeleteExportRowDoes ==
    ASSUME TypeOK, PlacesInv, MemoryInv, NEW a \in Actors, DeleteExportRow(a)
    PROVE  /\ Others(a)
           /\ at[a] = "row" /\ at'[a] = "file" /\ name'[a] = name[a] /\ name[a] \in Names
           /\ \A n \in Names :
                 library'[n] = IF n = name[a] /\ library[n] # None /\ library[n].by \in note[a]
                               THEN None ELSE library[n]
           /\ UNCHANGED <<account, files, uses, parallel, crashed>>
<1>a. PlaceTypes /\ RequestTypes /\ ConversationTypes /\ LockTypes /\ ExportTypes /\ FlagTypes
  BY TypeParts
<1>1. /\ at[a] = "row" /\ at' = [at EXCEPT ![a] = "file"]
      /\ UNCHANGED <<name, account, files, uses, parallel, crashed>>
      /\ \E S : note' = [note EXCEPT ![a] = S]
  BY DEF DeleteExportRow, To, Step
<1>2. name[a] \in Names
  BY <1>1 DEF MemoryInv, Remembers, Naming, Registering
<1>3. \A n \in Names :
         library'[n] = IF n = name[a] /\ library[n] # None /\ library[n].by \in note[a]
                       THEN None ELSE library[n]
  BY DEF DeleteExportRow
<1> QED BY <1>a, <1>1, <1>2, <1>3 DEF Others, PlaceTypes, RequestTypes

LEMMA UnlinkExportDoes ==
    ASSUME TypeOK, PlacesInv, MemoryInv, NEW a \in Actors, UnlinkExport(a)
    PROVE  /\ Others(a)
           /\ at[a] = "file" /\ at'[a] = "done" /\ name[a] \in Names /\ Unlinks({name[a]})
           /\ UNCHANGED <<account, library, uses, parallel, crashed>>
<1>a. PlaceTypes /\ RequestTypes /\ ConversationTypes /\ LockTypes /\ ExportTypes /\ FlagTypes
  BY TypeParts
<1>1. /\ at[a] = "file" /\ at' = [at EXCEPT ![a] = "done"] /\ Unlink({name[a]})
      /\ UNCHANGED <<name, account, library, uses, parallel, crashed>>
      /\ \E S : note' = [note EXCEPT ![a] = S]
  BY DEF UnlinkExport, To, Step
<1>2. name[a] \in Names
  BY <1>1 DEF MemoryInv, Remembers, Naming, Registering
<1> QED BY <1>a, <1>1, <1>2 DEF Others, Unlinks, Unlink, PlaceTypes, RequestTypes

LEMMA ListExportsDoes ==
    ASSUME TypeOK, PlacesInv, MemoryInv, NEW a \in Actors, ListExports(a)
    PROVE  /\ Others(a)
           /\ at[a] = "exports" /\ at'[a] = "account" /\ note'[a] = Owned
           /\ UNCHANGED <<account, library, files, uses, parallel, crashed>>
<1>a. PlaceTypes /\ RequestTypes /\ ConversationTypes /\ LockTypes /\ ExportTypes /\ FlagTypes
  BY TypeParts
<1> QED
  BY <1>a DEF ListExports, Step, Others, PlaceTypes, RequestTypes, ExportTypes, PlacesInv,
     Placed

LEMMA DeleteUserDoes ==
    ASSUME TypeOK, PlacesInv, MemoryInv, NEW a \in Actors, DeleteUser(a)
    PROVE  /\ Others(a)
           /\ at[a] = "account" /\ UNCHANGED <<files, uses, parallel, crashed>>
           /\ \/ at'[a] = "done" /\ UNCHANGED <<account, library>>
              \/ /\ at'[a] = "files" /\ note'[a] = note[a]
                 /\ ~account' /\ (\A c \in Sessions : ~Exists(c)) /\ UNCHANGED kind
                 /\ \A n \in Names : library'[n] = IF n \in Owned THEN None ELSE library[n]
<1>a. PlaceTypes /\ RequestTypes /\ ConversationTypes /\ LockTypes /\ ExportTypes /\ FlagTypes
  BY TypeParts
<1>1. /\ at[a] = "account" /\ UNCHANGED <<name, files, uses, parallel, crashed>>
      /\ \/ /\ at' = [at EXCEPT ![a] = "done"] /\ UNCHANGED <<account, library>>
            /\ \E S : note' = [note EXCEPT ![a] = S]
         \/ /\ at' = [at EXCEPT ![a] = "files"] /\ note' = [note EXCEPT ![a] = note[a]]
            /\ ~account' /\ (\A c \in Sessions : ~Exists(c)) /\ UNCHANGED kind
            /\ \A n \in Names : library'[n] = IF n \in Owned THEN None ELSE library[n]
  BY <1>a DEF DeleteUser, To, Step
<1> QED
  BY <1>a, <1>1 DEF Others, PlaceTypes, RequestTypes

LEMMA UnlinkFilesDoes ==
    ASSUME TypeOK, PlacesInv, MemoryInv, NEW a \in Actors, UnlinkFiles(a)
    PROVE  /\ Others(a)
           /\ at[a] = "files" /\ at'[a] = "done" /\ Unlinks(note[a])
           /\ UNCHANGED <<account, library, uses, parallel, crashed>>
<1>a. PlaceTypes /\ RequestTypes /\ ConversationTypes /\ LockTypes /\ ExportTypes /\ FlagTypes
  BY TypeParts
<1>1. /\ at[a] = "files" /\ at' = [at EXCEPT ![a] = "done"] /\ Unlink(note[a])
      /\ UNCHANGED <<name, account, library, uses, parallel, crashed>>
      /\ \E S : note' = [note EXCEPT ![a] = S]
  BY <1>a DEF UnlinkFiles, To, Step
<1> QED
  BY <1>a, <1>1 DEF Others, Unlinks, Unlink, PlaceTypes, RequestTypes

\* The uses of a name once another export has written it.
More(k) == IF k = 0 THEN 1 ELSE 2

\* Who begins to read a name finds a row; who begins an export writes its file.
ReaderKept(a) ==
    \A b \in Actors, n \in Names : Reads(b, n)' => Reads(b, n) \/ library[n] # None
MakerKept(a) ==
    \A b \in Actors :
        at'[b] \in Registering =>
            \/ at[b] \in Registering /\ name'[b] = name[b]
            \/ /\ b = a /\ name'[a] \in NewNames /\ files'[name'[a]] = a /\ UNCHANGED library
               /\ uses'[name'[a]] = More(uses[name'[a]])
UsesKept(a) ==
    \A n \in Names :
        \/ uses'[n] = uses[n]
        \/ /\ at'[a] = "owner" /\ n = name'[a] /\ uses'[n] = More(uses[n])
           /\ UNCHANGED library

LEMMA ReadersMove ==
    ASSUME TypeOK, PlacesInv, MemoryInv, NEW a \in Actors, ExportMoves(a)
    PROVE  ReaderKept(a)
<1>1. ASSUME BeginRemove(a) PROVE ReaderKept(a)
  BY <1>1, BeginRemoveDoes DEF Others, ReaderKept, Reads, GivesUp, Owned
<1>2. ASSUME WriteCsv(a) PROVE ReaderKept(a)
  BY <1>2, WriteCsvDoes DEF Others, ReaderKept, Reads, GivesUp, Owned
<1>3. ASSUME FindOwner(a) PROVE ReaderKept(a)
  BY <1>3, FindOwnerDoes DEF Others, ReaderKept, Reads, GivesUp, Owned
<1>4. ASSUME CountExports(a) PROVE ReaderKept(a)
  BY <1>4, CountExportsDoes DEF Others, ReaderKept, Reads, GivesUp, Owned
<1>5. ASSUME RegisterExport(a) PROVE ReaderKept(a)
  BY <1>5, RegisterExportDoes DEF Others, ReaderKept, Reads, GivesUp, Owned
<1>6. ASSUME UnlinkCsv(a) PROVE ReaderKept(a)
  BY <1>6, UnlinkCsvDoes DEF Others, ReaderKept, Reads, GivesUp, Owned
<1>7. ASSUME DeleteExportRow(a) PROVE ReaderKept(a)
  BY <1>7, DeleteExportRowDoes DEF Others, ReaderKept, Reads, GivesUp, Owned
<1>8. ASSUME UnlinkExport(a) PROVE ReaderKept(a)
  BY <1>8, UnlinkExportDoes DEF Others, ReaderKept, Reads, GivesUp, Owned
<1>9. ASSUME ListExports(a) PROVE ReaderKept(a)
  BY <1>9, ListExportsDoes DEF Others, ReaderKept, Reads, GivesUp, Owned
<1>10. ASSUME DeleteUser(a) PROVE ReaderKept(a)
  BY <1>10, DeleteUserDoes DEF Others, ReaderKept, Reads, GivesUp, Owned
<1>11. ASSUME UnlinkFiles(a) PROVE ReaderKept(a)
  BY <1>11, UnlinkFilesDoes DEF Others, ReaderKept, Reads, GivesUp, Owned
<1> QED
  BY <1>1, <1>2, <1>3, <1>4, <1>5, <1>6, <1>7, <1>8, <1>9, <1>10, <1>11 DEF ExportMoves

LEMMA MakersMove ==
    ASSUME TypeOK, PlacesInv, MemoryInv, NEW a \in Actors, ExportMoves(a)
    PROVE  MakerKept(a)
<1>1. ASSUME BeginRemove(a) PROVE MakerKept(a)
  BY <1>1, BeginRemoveDoes DEF Others, MakerKept, More, Registering, GivesUp, Names
<1>2. ASSUME WriteCsv(a) PROVE MakerKept(a)
  BY <1>2, WriteCsvDoes DEF Others, MakerKept, More, Registering, GivesUp, Names
<1>3. ASSUME FindOwner(a) PROVE MakerKept(a)
  BY <1>3, FindOwnerDoes DEF Others, MakerKept, More, Registering, GivesUp, Names
<1>4. ASSUME CountExports(a) PROVE MakerKept(a)
  BY <1>4, CountExportsDoes DEF Others, MakerKept, More, Registering, GivesUp, Names
<1>5. ASSUME RegisterExport(a) PROVE MakerKept(a)
  BY <1>5, RegisterExportDoes DEF Others, MakerKept, More, Registering, GivesUp, Names
<1>6. ASSUME UnlinkCsv(a) PROVE MakerKept(a)
  BY <1>6, UnlinkCsvDoes DEF Others, MakerKept, More, Registering, GivesUp, Names
<1>7. ASSUME DeleteExportRow(a) PROVE MakerKept(a)
  BY <1>7, DeleteExportRowDoes DEF Others, MakerKept, More, Registering, GivesUp, Names
<1>8. ASSUME UnlinkExport(a) PROVE MakerKept(a)
  BY <1>8, UnlinkExportDoes DEF Others, MakerKept, More, Registering, GivesUp, Names
<1>9. ASSUME ListExports(a) PROVE MakerKept(a)
  BY <1>9, ListExportsDoes DEF Others, MakerKept, More, Registering, GivesUp, Names
<1>10. ASSUME DeleteUser(a) PROVE MakerKept(a)
  BY <1>10, DeleteUserDoes DEF Others, MakerKept, More, Registering, GivesUp, Names
<1>11. ASSUME UnlinkFiles(a) PROVE MakerKept(a)
  BY <1>11, UnlinkFilesDoes DEF Others, MakerKept, More, Registering, GivesUp, Names
<1> QED
  BY <1>1, <1>2, <1>3, <1>4, <1>5, <1>6, <1>7, <1>8, <1>9, <1>10, <1>11 DEF ExportMoves

LEMMA UsesMove ==
    ASSUME TypeOK, PlacesInv, MemoryInv, NEW a \in Actors, ExportMoves(a)
    PROVE  UsesKept(a)
<1>1. ASSUME BeginRemove(a) PROVE UsesKept(a)
  BY <1>1, BeginRemoveDoes DEF UsesKept, More
<1>2. ASSUME WriteCsv(a) PROVE UsesKept(a)
  BY <1>2, WriteCsvDoes DEF UsesKept, More
<1>3. ASSUME FindOwner(a) PROVE UsesKept(a)
  BY <1>3, FindOwnerDoes DEF UsesKept, More
<1>4. ASSUME CountExports(a) PROVE UsesKept(a)
  BY <1>4, CountExportsDoes DEF UsesKept, More
<1>5. ASSUME RegisterExport(a) PROVE UsesKept(a)
  BY <1>5, RegisterExportDoes DEF UsesKept, More
<1>6. ASSUME UnlinkCsv(a) PROVE UsesKept(a)
  BY <1>6, UnlinkCsvDoes DEF UsesKept, More
<1>7. ASSUME DeleteExportRow(a) PROVE UsesKept(a)
  BY <1>7, DeleteExportRowDoes DEF UsesKept, More
<1>8. ASSUME UnlinkExport(a) PROVE UsesKept(a)
  BY <1>8, UnlinkExportDoes DEF UsesKept, More
<1>9. ASSUME ListExports(a) PROVE UsesKept(a)
  BY <1>9, ListExportsDoes DEF UsesKept, More
<1>10. ASSUME DeleteUser(a) PROVE UsesKept(a)
  BY <1>10, DeleteUserDoes DEF UsesKept, More
<1>11. ASSUME UnlinkFiles(a) PROVE UsesKept(a)
  BY <1>11, UnlinkFilesDoes DEF UsesKept, More
<1> QED
  BY <1>1, <1>2, <1>3, <1>4, <1>5, <1>6, <1>7, <1>8, <1>9, <1>10, <1>11 DEF ExportMoves

\* A name without an export has no row and no reader.
LEMMA UsedMoves ==
    ASSUME TypeOK, PlacesInv, MemoryInv, UsedInv, MakingInv, NEW a \in Actors, ExportMoves(a)
    PROVE  UsedInv'
<1>1. ASSUME BeginRemove(a) PROVE UsedInv'
  <2>1. ReaderKept(a) /\ UsesKept(a)
    BY <1>1, ReadersMove, UsesMove DEF ExportMoves
  <2>2. \A n \in NewNames : uses'[n] = 0 => uses[n] = 0
    BY <2>1 DEF UsesKept, More, Names
  <2>3. \A n \in NewNames : uses[n] = 0 => library'[n] = None
    BY <1>1, BeginRemoveDoes, TypeParts DEF UsedInv, ExportTypes, Names
  <2> QED BY <2>1, <2>2, <2>3 DEF UsedInv, ReaderKept, Names
<1>2. ASSUME WriteCsv(a) PROVE UsedInv'
  <2>1. ReaderKept(a) /\ UsesKept(a)
    BY <1>2, ReadersMove, UsesMove DEF ExportMoves
  <2>2. \A n \in NewNames : uses'[n] = 0 => uses[n] = 0
    BY <2>1 DEF UsesKept, More, Names
  <2>3. \A n \in NewNames : uses[n] = 0 => library'[n] = None
    BY <1>2, WriteCsvDoes, TypeParts DEF UsedInv, ExportTypes, Names
  <2> QED BY <2>1, <2>2, <2>3 DEF UsedInv, ReaderKept, Names
<1>3. ASSUME FindOwner(a) PROVE UsedInv'
  <2>1. ReaderKept(a) /\ UsesKept(a)
    BY <1>3, ReadersMove, UsesMove DEF ExportMoves
  <2>2. \A n \in NewNames : uses'[n] = 0 => uses[n] = 0
    BY <2>1 DEF UsesKept, More, Names
  <2>3. \A n \in NewNames : uses[n] = 0 => library'[n] = None
    BY <1>3, FindOwnerDoes, TypeParts DEF UsedInv, ExportTypes, Names
  <2> QED BY <2>1, <2>2, <2>3 DEF UsedInv, ReaderKept, Names
<1>4. ASSUME CountExports(a) PROVE UsedInv'
  <2>1. ReaderKept(a) /\ UsesKept(a)
    BY <1>4, ReadersMove, UsesMove DEF ExportMoves
  <2>2. \A n \in NewNames : uses'[n] = 0 => uses[n] = 0
    BY <2>1 DEF UsesKept, More, Names
  <2>3. \A n \in NewNames : uses[n] = 0 => library'[n] = None
    BY <1>4, CountExportsDoes, TypeParts DEF UsedInv, ExportTypes, Names
  <2> QED BY <2>1, <2>2, <2>3 DEF UsedInv, ReaderKept, Names
<1>5. ASSUME RegisterExport(a) PROVE UsedInv'
  <2>1. ReaderKept(a) /\ UsesKept(a)
    BY <1>5, ReadersMove, UsesMove DEF ExportMoves
  <2>2. \A n \in NewNames : uses'[n] = 0 => uses[n] = 0
    BY <2>1 DEF UsesKept, More, Names
  <2>3. uses[name[a]] > 0
    BY <1>5, RegisterExportDoes DEF MakingInv, Made, Registering
  <2>a. \A n \in Names : n # name[a] => library'[n] = library[n]
    BY <1>5, RegisterExportDoes
  <2>4. \A n \in NewNames : uses[n] = 0 => library'[n] = None
    BY <2>a, <2>3 DEF UsedInv, Names
  <2> QED BY <2>1, <2>2, <2>4 DEF UsedInv, ReaderKept, Names
<1>6. ASSUME UnlinkCsv(a) PROVE UsedInv'
  <2>1. ReaderKept(a) /\ UsesKept(a)
    BY <1>6, ReadersMove, UsesMove DEF ExportMoves
  <2>2. \A n \in NewNames : uses'[n] = 0 => uses[n] = 0
    BY <2>1 DEF UsesKept, More, Names
  <2>3. \A n \in NewNames : uses[n] = 0 => library'[n] = None
    BY <1>6, UnlinkCsvDoes, TypeParts DEF UsedInv, ExportTypes, Names
  <2> QED BY <2>1, <2>2, <2>3 DEF UsedInv, ReaderKept, Names
<1>7. ASSUME DeleteExportRow(a) PROVE UsedInv'
  <2>1. ReaderKept(a) /\ UsesKept(a)
    BY <1>7, ReadersMove, UsesMove DEF ExportMoves
  <2>2. \A n \in NewNames : uses'[n] = 0 => uses[n] = 0
    BY <2>1 DEF UsesKept, More, Names
  <2>3. \A n \in NewNames : uses[n] = 0 => library'[n] = None
    BY <1>7, DeleteExportRowDoes, TypeParts DEF UsedInv, ExportTypes, Names
  <2> QED BY <2>1, <2>2, <2>3 DEF UsedInv, ReaderKept, Names
<1>8. ASSUME UnlinkExport(a) PROVE UsedInv'
  <2>1. ReaderKept(a) /\ UsesKept(a)
    BY <1>8, ReadersMove, UsesMove DEF ExportMoves
  <2>2. \A n \in NewNames : uses'[n] = 0 => uses[n] = 0
    BY <2>1 DEF UsesKept, More, Names
  <2>3. \A n \in NewNames : uses[n] = 0 => library'[n] = None
    BY <1>8, UnlinkExportDoes, TypeParts DEF UsedInv, ExportTypes, Names
  <2> QED BY <2>1, <2>2, <2>3 DEF UsedInv, ReaderKept, Names
<1>9. ASSUME ListExports(a) PROVE UsedInv'
  <2>1. ReaderKept(a) /\ UsesKept(a)
    BY <1>9, ReadersMove, UsesMove DEF ExportMoves
  <2>2. \A n \in NewNames : uses'[n] = 0 => uses[n] = 0
    BY <2>1 DEF UsesKept, More, Names
  <2>3. \A n \in NewNames : uses[n] = 0 => library'[n] = None
    BY <1>9, ListExportsDoes, TypeParts DEF UsedInv, ExportTypes, Names
  <2> QED BY <2>1, <2>2, <2>3 DEF UsedInv, ReaderKept, Names
<1>10. ASSUME DeleteUser(a) PROVE UsedInv'
  <2>1. ReaderKept(a) /\ UsesKept(a)
    BY <1>10, ReadersMove, UsesMove DEF ExportMoves
  <2>2. \A n \in NewNames : uses'[n] = 0 => uses[n] = 0
    BY <2>1 DEF UsesKept, More, Names
  <2>3. \A n \in NewNames : uses[n] = 0 => library'[n] = None
    BY <1>10, DeleteUserDoes, TypeParts DEF UsedInv, ExportTypes, Names
  <2> QED BY <2>1, <2>2, <2>3 DEF UsedInv, ReaderKept, Names
<1>11. ASSUME UnlinkFiles(a) PROVE UsedInv'
  <2>1. ReaderKept(a) /\ UsesKept(a)
    BY <1>11, ReadersMove, UsesMove DEF ExportMoves
  <2>2. \A n \in NewNames : uses'[n] = 0 => uses[n] = 0
    BY <2>1 DEF UsesKept, More, Names
  <2>3. \A n \in NewNames : uses[n] = 0 => library'[n] = None
    BY <1>11, UnlinkFilesDoes, TypeParts DEF UsedInv, ExportTypes, Names
  <2> QED BY <2>1, <2>2, <2>3 DEF UsedInv, ReaderKept, Names
<1> QED
  BY <1>1, <1>2, <1>3, <1>4, <1>5, <1>6, <1>7, <1>8, <1>9, <1>10, <1>11 DEF ExportMoves

\* See UsedMoves.
LEMMA UsedStep ==
    ASSUME TypeOK, PlacesInv, MemoryInv, UsedInv, MakingInv, [Next]_vars
    PROVE  UsedInv'
<1>1. CASE Apart
  BY <1>1 DEF Apart, Relevant, Naming, Registering, UsedInv, Reads
<1>2. CASE Restart
  BY <1>2 DEF Restart, UsedInv, Reads
<1>3. CASE \E a \in Actors : ExportMoves(a)
  BY <1>3, UsedMoves
<1> QED BY <1>1, <1>2, <1>3, ExportsOrApart

\* A shared name remains one.
LEMMA SharedGrows ==
    ASSUME TypeOK, NEW a, UsesKept(a), NEW n \in Names
    PROVE  (uses[n] > 0 => uses'[n] > 0) /\ (Shared(n) => Shared(n)')
<1>1. uses[n] \in 0..2
  BY DEF TypeOK
<1> QED BY <1>1 DEF UsesKept, Shared, More

\* An export goes on, or begins.
LEMMA MakingHeld ==
    ASSUME TypeOK, MakingInv, NEW a \in Actors, ReaderKept(a), MakerKept(a), UsesKept(a),
           NEW b \in Actors, at[b] \in Registering, name'[b] = name[b],
           Shared(name[b])' \/ (library'[name[b]] = None /\ files'[name[b]] = b)
    PROVE  Made(b)'
<1> DEFINE n == name[b]
<1>1. n \in NewNames /\ n \in Names /\ uses[n] > 0 /\ (Shared(n) \/ Sole(b)) /\ name'[b] = n
  BY DEF MakingInv, Made, Names
<1>2. uses'[n] > 0 /\ (Shared(n) => Shared(n)')
  BY <1>1, SharedGrows
<1>3. CASE Shared(n)'
  BY <1>1, <1>2, <1>3 DEF Made, Shared
<1>4. CASE ~Shared(n)'
  <2>1. Sole(b) /\ library'[n] = None /\ files'[n] = b
    BY <1>1, <1>2, <1>4
  <2>2. \A c \in Actors : ~Reads(c, n)'
    BY <1>1, <2>1 DEF ReaderKept, Sole
  <2>3. ASSUME NEW c \in Actors, at'[c] \in Registering, name'[c] = n PROVE c = b
    <3>1. CASE at[c] \in Registering /\ name'[c] = name[c]
      BY <2>1, <2>3, <3>1 DEF Sole
    <3>2. CASE c = a /\ uses'[n] = More(uses[n])
      <4>1. uses[n] \in 0..2
        BY <1>1 DEF TypeOK
      <4> QED BY <1>1, <1>4, <3>2, <4>1 DEF More, Shared
    <3> QED BY <2>3, <3>1, <3>2 DEF MakerKept
  <2>4. Sole(b)'
    BY <1>1, <2>1, <2>2, <2>3 DEF Sole
  <2> QED BY <1>1, <1>2, <2>4 DEF Made
<1> QED BY <1>3, <1>4

\* See MakingHeld.
LEMMA MakingBegun ==
    ASSUME TypeOK, UsedInv, MakingInv, NEW a \in Actors,
           ReaderKept(a), MakerKept(a), UNCHANGED library, at'[a] \in Registering,
           name'[a] \in NewNames, files'[name'[a]] = a,
           uses'[name'[a]] = More(uses[name'[a]])
    PROVE  Made(a)'
<1>0. PICK n \in NewNames : n = name'[a]
  OBVIOUS
<1>1. n \in Names /\ uses[n] \in 0..2
  BY DEF TypeOK, Names
<1>2. CASE uses[n] = 0
  <2>1. library'[n] = None /\ \A b \in Actors : ~Reads(b, n)
    BY <1>2 DEF UsedInv
  <2>2. \A b \in Actors : ~Reads(b, n)'
    BY <1>1, <2>1 DEF ReaderKept
  <2>3. \A b \in Actors : at'[b] \in Registering /\ name'[b] = n => a = b
    BY <1>0, <1>1, <1>2 DEF MakerKept, MakingInv, Made
  <2>4. Sole(a)'
    BY <1>0, <2>1, <2>2, <2>3 DEF Sole
  <2>5. uses'[n] > 0
    BY <1>0, <1>2 DEF More
  <2> QED BY <1>0, <2>4, <2>5 DEF Made
<1>3. CASE uses[n] # 0
  <2>1. uses'[n] = 2
    BY <1>0, <1>3 DEF More
  <2> QED BY <1>0, <2>1 DEF Made, Shared
<1> QED BY <1>2, <1>3

\* An export in the making has its name to itself, or shares it.
LEMMA MakingMoves ==
    ASSUME TypeOK, PlacesInv, MemoryInv, UsedInv, MakingInv, NEW a \in Actors, ExportMoves(a)
    PROVE  MakingInv'
<1>1. ASSUME BeginRemove(a) PROVE MakingInv'
  <2>0. ReaderKept(a) /\ MakerKept(a) /\ UsesKept(a)
    BY <1>1, ReadersMove, MakersMove, UsesMove DEF ExportMoves
  <2>1. ASSUME NEW b \in Actors, at[b] \in Registering, at'[b] \in Registering, name'[b] = name[b]
        PROVE  Shared(name[b])' \/ (library'[name[b]] = None /\ files'[name[b]] = b)
    <3>1. name[b] \in Names /\ (Shared(name[b]) => Shared(name[b])')
      BY <2>0, <2>1, SharedGrows DEF MakingInv, Made, Names
    <3>2. Shared(name[b]) \/ Sole(b)
      BY <2>1 DEF MakingInv, Made
    <3>3. ASSUME Sole(b) PROVE library'[name[b]] = None /\ files'[name[b]] = b
      BY <3>3, <1>1, BeginRemoveDoes DEF Sole
    <3> QED BY <3>1, <3>2, <3>3
  <2> QED
    BY <2>0, <2>1, MakingHeld, MakingBegun DEF MakingInv, MakerKept
<1>2. ASSUME WriteCsv(a) PROVE MakingInv'
  <2>0. ReaderKept(a) /\ MakerKept(a) /\ UsesKept(a)
    BY <1>2, ReadersMove, MakersMove, UsesMove DEF ExportMoves
  <2>1. ASSUME NEW b \in Actors, at[b] \in Registering, at'[b] \in Registering, name'[b] = name[b]
        PROVE  Shared(name[b])' \/ (library'[name[b]] = None /\ files'[name[b]] = b)
    <3>1. name[b] \in Names /\ (Shared(name[b]) => Shared(name[b])')
      BY <2>0, <2>1, SharedGrows DEF MakingInv, Made, Names
    <3>2. Shared(name[b]) \/ Sole(b)
      BY <2>1 DEF MakingInv, Made
    <3>3. uses[name[b]] \in 0..2 /\ uses[name[b]] > 0
      BY <2>1, <3>1 DEF MakingInv, Made, TypeOK
    <3>4. UNCHANGED library
      BY <1>2, WriteCsvDoes
    <3>5. CASE at'[a] = "owner" /\ name'[a] = name[b]
      <4>1. uses'[name[b]] = 2
        BY <1>2, WriteCsvDoes, <3>1, <3>3, <3>5
      <4> QED BY <2>1, <4>1 DEF Shared
    <3>6. CASE ~(at'[a] = "owner" /\ name'[a] = name[b])
      <4>1. files'[name[b]] = files[name[b]]
        BY <1>2, WriteCsvDoes, <3>1, <3>6
      <4> QED BY <3>1, <3>2, <3>4, <4>1 DEF Sole
    <3> QED BY <3>5, <3>6
  <2> QED
    BY <2>0, <2>1, MakingHeld, MakingBegun DEF MakingInv, MakerKept
<1>3. ASSUME FindOwner(a) PROVE MakingInv'
  <2>0. ReaderKept(a) /\ MakerKept(a) /\ UsesKept(a)
    BY <1>3, ReadersMove, MakersMove, UsesMove DEF ExportMoves
  <2>1. ASSUME NEW b \in Actors, at[b] \in Registering, at'[b] \in Registering, name'[b] = name[b]
        PROVE  Shared(name[b])' \/ (library'[name[b]] = None /\ files'[name[b]] = b)
    <3>1. name[b] \in Names /\ (Shared(name[b]) => Shared(name[b])')
      BY <2>0, <2>1, SharedGrows DEF MakingInv, Made, Names
    <3>2. Shared(name[b]) \/ Sole(b)
      BY <2>1 DEF MakingInv, Made
    <3>3. ASSUME Sole(b) PROVE library'[name[b]] = None /\ files'[name[b]] = b
      BY <3>3, <1>3, FindOwnerDoes DEF Sole
    <3> QED BY <3>1, <3>2, <3>3
  <2> QED
    BY <2>0, <2>1, MakingHeld, MakingBegun DEF MakingInv, MakerKept
<1>4. ASSUME CountExports(a) PROVE MakingInv'
  <2>0. ReaderKept(a) /\ MakerKept(a) /\ UsesKept(a)
    BY <1>4, ReadersMove, MakersMove, UsesMove DEF ExportMoves
  <2>1. ASSUME NEW b \in Actors, at[b] \in Registering, at'[b] \in Registering, name'[b] = name[b]
        PROVE  Shared(name[b])' \/ (library'[name[b]] = None /\ files'[name[b]] = b)
    <3>1. name[b] \in Names /\ (Shared(name[b]) => Shared(name[b])')
      BY <2>0, <2>1, SharedGrows DEF MakingInv, Made, Names
    <3>2. Shared(name[b]) \/ Sole(b)
      BY <2>1 DEF MakingInv, Made
    <3>3. ASSUME Sole(b) PROVE library'[name[b]] = None /\ files'[name[b]] = b
      <4>1. a # b => name[a] # name[b]
        BY <3>3, <1>4, CountExportsDoes DEF Sole, Registering
      <4>2. at'[a] = "done" => a # b
        BY <2>1 DEF Registering
      <4> QED BY <2>1, <3>1, <3>3, <4>1, <4>2, <1>4, CountExportsDoes DEF Sole, Unlinks,
           GivesUp
    <3> QED BY <3>1, <3>2, <3>3
  <2> QED
    BY <2>0, <2>1, MakingHeld, MakingBegun DEF MakingInv, MakerKept
<1>5. ASSUME RegisterExport(a) PROVE MakingInv'
  <2>0. ReaderKept(a) /\ MakerKept(a) /\ UsesKept(a)
    BY <1>5, ReadersMove, MakersMove, UsesMove DEF ExportMoves
  <2>1. ASSUME NEW b \in Actors, at[b] \in Registering, at'[b] \in Registering, name'[b] = name[b]
        PROVE  Shared(name[b])' \/ (library'[name[b]] = None /\ files'[name[b]] = b)
    <3>1. name[b] \in Names /\ (Shared(name[b]) => Shared(name[b])')
      BY <2>0, <2>1, SharedGrows DEF MakingInv, Made, Names
    <3>2. Shared(name[b]) \/ Sole(b)
      BY <2>1 DEF MakingInv, Made
    <3>3. ASSUME Sole(b) PROVE library'[name[b]] = None /\ files'[name[b]] = b
      <4>1. a # b => name[a] # name[b]
        BY <3>3, <1>5, RegisterExportDoes DEF Sole, Registering
      <4>2. at'[a] \in {"lock", "done"} => a # b
        BY <2>1 DEF Registering
      <4>a. \/ /\ at'[a] \in {"lock", "done"} /\ UNCHANGED files
               /\ \A n \in Names : n # name[a] => library'[n] = library[n]
            \/ UNCHANGED library /\ GivesUp(a)
        BY <1>5, RegisterExportDoes
      <4>3. \/ library'[name[b]] = library[name[b]] /\ UNCHANGED files
            \/ UNCHANGED library /\ GivesUp(a)
        BY <3>1, <4>1, <4>2, <4>a
      <4> QED BY <2>1, <3>1, <3>3, <4>1, <4>2, <4>3 DEF Sole, Unlinks, GivesUp
    <3> QED BY <3>1, <3>2, <3>3
  <2> QED
    BY <2>0, <2>1, MakingHeld, MakingBegun DEF MakingInv, MakerKept
<1>6. ASSUME UnlinkCsv(a) PROVE MakingInv'
  <2>0. ReaderKept(a) /\ MakerKept(a) /\ UsesKept(a)
    BY <1>6, ReadersMove, MakersMove, UsesMove DEF ExportMoves
  <2>1. ASSUME NEW b \in Actors, at[b] \in Registering, at'[b] \in Registering, name'[b] = name[b]
        PROVE  Shared(name[b])' \/ (library'[name[b]] = None /\ files'[name[b]] = b)
    <3>1. name[b] \in Names /\ (Shared(name[b]) => Shared(name[b])')
      BY <2>0, <2>1, SharedGrows DEF MakingInv, Made, Names
    <3>2. Shared(name[b]) \/ Sole(b)
      BY <2>1 DEF MakingInv, Made
    <3>3. ASSUME Sole(b) PROVE library'[name[b]] = None /\ files'[name[b]] = b
      <4>1. a # b => name[a] # name[b]
        BY <3>3, <1>6, UnlinkCsvDoes DEF Sole, Registering
      <4>2. at'[a] = "done" => a # b
        BY <2>1 DEF Registering
      <4> QED BY <2>1, <3>1, <3>3, <4>1, <4>2, <1>6, UnlinkCsvDoes DEF Sole, Unlinks, GivesUp
    <3> QED BY <3>1, <3>2, <3>3
  <2> QED
    BY <2>0, <2>1, MakingHeld, MakingBegun DEF MakingInv, MakerKept
<1>7. ASSUME DeleteExportRow(a) PROVE MakingInv'
  <2>0. ReaderKept(a) /\ MakerKept(a) /\ UsesKept(a)
    BY <1>7, ReadersMove, MakersMove, UsesMove DEF ExportMoves
  <2>1. ASSUME NEW b \in Actors, at[b] \in Registering, at'[b] \in Registering, name'[b] = name[b]
        PROVE  Shared(name[b])' \/ (library'[name[b]] = None /\ files'[name[b]] = b)
    <3>1. name[b] \in Names /\ (Shared(name[b]) => Shared(name[b])')
      BY <2>0, <2>1, SharedGrows DEF MakingInv, Made, Names
    <3>2. Shared(name[b]) \/ Sole(b)
      BY <2>1 DEF MakingInv, Made
    <3>3. ASSUME Sole(b) PROVE library'[name[b]] = None /\ files'[name[b]] = b
      BY <3>1, <3>3, <1>7, DeleteExportRowDoes DEF Sole
    <3> QED BY <3>1, <3>2, <3>3
  <2> QED
    BY <2>0, <2>1, MakingHeld, MakingBegun DEF MakingInv, MakerKept
<1>8. ASSUME UnlinkExport(a) PROVE MakingInv'
  <2>0. ReaderKept(a) /\ MakerKept(a) /\ UsesKept(a)
    BY <1>8, ReadersMove, MakersMove, UsesMove DEF ExportMoves
  <2>1. ASSUME NEW b \in Actors, at[b] \in Registering, at'[b] \in Registering, name'[b] = name[b]
        PROVE  Shared(name[b])' \/ (library'[name[b]] = None /\ files'[name[b]] = b)
    <3>1. name[b] \in Names /\ (Shared(name[b]) => Shared(name[b])')
      BY <2>0, <2>1, SharedGrows DEF MakingInv, Made, Names
    <3>2. Shared(name[b]) \/ Sole(b)
      BY <2>1 DEF MakingInv, Made
    <3>3. ASSUME Sole(b) PROVE library'[name[b]] = None /\ files'[name[b]] = b
      <4>1. name[a] # name[b]
        BY <3>3, <1>8, UnlinkExportDoes DEF Sole, Reads
      <4> QED BY <3>1, <3>3, <4>1, <1>8, UnlinkExportDoes DEF Sole, Unlinks
    <3> QED BY <3>1, <3>2, <3>3
  <2> QED
    BY <2>0, <2>1, MakingHeld, MakingBegun DEF MakingInv, MakerKept
<1>9. ASSUME ListExports(a) PROVE MakingInv'
  <2>0. ReaderKept(a) /\ MakerKept(a) /\ UsesKept(a)
    BY <1>9, ReadersMove, MakersMove, UsesMove DEF ExportMoves
  <2>1. ASSUME NEW b \in Actors, at[b] \in Registering, at'[b] \in Registering, name'[b] = name[b]
        PROVE  Shared(name[b])' \/ (library'[name[b]] = None /\ files'[name[b]] = b)
    <3>1. name[b] \in Names /\ (Shared(name[b]) => Shared(name[b])')
      BY <2>0, <2>1, SharedGrows DEF MakingInv, Made, Names
    <3>2. Shared(name[b]) \/ Sole(b)
      BY <2>1 DEF MakingInv, Made
    <3>3. ASSUME Sole(b) PROVE library'[name[b]] = None /\ files'[name[b]] = b
      BY <3>3, <1>9, ListExportsDoes DEF Sole
    <3> QED BY <3>1, <3>2, <3>3
  <2> QED
    BY <2>0, <2>1, MakingHeld, MakingBegun DEF MakingInv, MakerKept
<1>10. ASSUME DeleteUser(a) PROVE MakingInv'
  <2>0. ReaderKept(a) /\ MakerKept(a) /\ UsesKept(a)
    BY <1>10, ReadersMove, MakersMove, UsesMove DEF ExportMoves
  <2>1. ASSUME NEW b \in Actors, at[b] \in Registering, at'[b] \in Registering, name'[b] = name[b]
        PROVE  Shared(name[b])' \/ (library'[name[b]] = None /\ files'[name[b]] = b)
    <3>1. name[b] \in Names /\ (Shared(name[b]) => Shared(name[b])')
      BY <2>0, <2>1, SharedGrows DEF MakingInv, Made, Names
    <3>2. Shared(name[b]) \/ Sole(b)
      BY <2>1 DEF MakingInv, Made
    <3>3. ASSUME Sole(b) PROVE library'[name[b]] = None /\ files'[name[b]] = b
      BY <3>1, <3>3, <1>10, DeleteUserDoes DEF Sole
    <3> QED BY <3>1, <3>2, <3>3
  <2> QED
    BY <2>0, <2>1, MakingHeld, MakingBegun DEF MakingInv, MakerKept
<1>11. ASSUME UnlinkFiles(a) PROVE MakingInv'
  <2>0. ReaderKept(a) /\ MakerKept(a) /\ UsesKept(a)
    BY <1>11, ReadersMove, MakersMove, UsesMove DEF ExportMoves
  <2>1. ASSUME NEW b \in Actors, at[b] \in Registering, at'[b] \in Registering, name'[b] = name[b]
        PROVE  Shared(name[b])' \/ (library'[name[b]] = None /\ files'[name[b]] = b)
    <3>1. name[b] \in Names /\ (Shared(name[b]) => Shared(name[b])')
      BY <2>0, <2>1, SharedGrows DEF MakingInv, Made, Names
    <3>2. Shared(name[b]) \/ Sole(b)
      BY <2>1 DEF MakingInv, Made
    <3>3. ASSUME Sole(b) PROVE library'[name[b]] = None /\ files'[name[b]] = b
      <4>1. name[b] \notin note[a]
        BY <3>1, <3>3, <1>11, UnlinkFilesDoes DEF Sole, Reads
      <4> QED BY <3>1, <3>3, <4>1, <1>11, UnlinkFilesDoes DEF Sole, Unlinks
    <3> QED BY <3>1, <3>2, <3>3
  <2> QED
    BY <2>0, <2>1, MakingHeld, MakingBegun DEF MakingInv, MakerKept
<1> QED
  BY <1>1, <1>2, <1>3, <1>4, <1>5, <1>6, <1>7, <1>8, <1>9, <1>10, <1>11 DEF ExportMoves

\* See MakingMoves.
LEMMA MakingStep ==
    ASSUME TypeOK, PlacesInv, MemoryInv, UsedInv, MakingInv, [Next]_vars
    PROVE  MakingInv'
<1>1. CASE Apart
  BY <1>1 DEF Apart, Relevant, Naming, Registering, MakingInv, Made, Sole, Shared, Reads
<1>2. CASE Restart
  BY <1>2 DEF Restart, MakingInv, Registering
<1>3. CASE \E a \in Actors : ExportMoves(a)
  BY <1>3, MakingMoves
<1> QED BY <1>1, <1>2, <1>3, ExportsOrApart

\* What a reader of a name may count on.
Settled(b, n) ==
    \/ library[n] = None \/ Shared(n)
    \/ at[b] = "row" /\ library[n].by \in note[b]
    \/ at[b] = "account" /\ library[n].owned

\* Who is about to unlink a file has removed the row.
LEMMA RemovalMoves ==
    ASSUME TypeOK, PlacesInv, MemoryInv, MakingInv, RemovalInv, NEW a \in Actors, ExportMoves(a)
    PROVE  RemovalInv'
<1>1. ASSUME BeginRemove(a) PROVE RemovalInv'
  <2>0. ReaderKept(a) /\ UsesKept(a)
    BY <1>1, ReadersMove, UsesMove DEF ExportMoves
  <2> SUFFICES ASSUME NEW b \in Actors, NEW n \in Names, Reads(b, n)'
               PROVE  Settled(b, n)'
    BY DEF RemovalInv, Settled
  <2>1. Shared(n) => Shared(n)'
    BY <2>0, SharedGrows
  <2>2. Reads(b, n) => Settled(b, n)
    BY DEF RemovalInv, Settled
  <2>3. CASE b = a
    BY <2>3, <1>1, BeginRemoveDoes DEF Reads, Settled
  <2>4. CASE b # a
    BY <2>1, <2>2, <2>4, <1>1, BeginRemoveDoes DEF Others, Reads, Settled
  <2> QED BY <2>3, <2>4
<1>2. ASSUME WriteCsv(a) PROVE RemovalInv'
  <2>0. ReaderKept(a) /\ UsesKept(a)
    BY <1>2, ReadersMove, UsesMove DEF ExportMoves
  <2> SUFFICES ASSUME NEW b \in Actors, NEW n \in Names, Reads(b, n)'
               PROVE  Settled(b, n)'
    BY DEF RemovalInv, Settled
  <2>1. Shared(n) => Shared(n)'
    BY <2>0, SharedGrows
  <2>2. Reads(b, n) => Settled(b, n)
    BY DEF RemovalInv, Settled
  <2>3. Reads(b, n) /\ b # a /\ at'[b] = at[b] /\ note'[b] = note[b]
    BY <1>2, WriteCsvDoes DEF Others, Reads, GivesUp
  <2> QED BY <2>1, <2>2, <2>3, <1>2, WriteCsvDoes DEF Settled
<1>3. ASSUME FindOwner(a) PROVE RemovalInv'
  <2>0. ReaderKept(a) /\ UsesKept(a)
    BY <1>3, ReadersMove, UsesMove DEF ExportMoves
  <2> SUFFICES ASSUME NEW b \in Actors, NEW n \in Names, Reads(b, n)'
               PROVE  Settled(b, n)'
    BY DEF RemovalInv, Settled
  <2>1. Shared(n) => Shared(n)'
    BY <2>0, SharedGrows
  <2>2. Reads(b, n) => Settled(b, n)
    BY DEF RemovalInv, Settled
  <2>3. Reads(b, n) /\ b # a /\ at'[b] = at[b] /\ note'[b] = note[b]
    BY <1>3, FindOwnerDoes DEF Others, Reads, GivesUp
  <2> QED BY <2>1, <2>2, <2>3, <1>3, FindOwnerDoes DEF Settled
<1>4. ASSUME CountExports(a) PROVE RemovalInv'
  <2>0. ReaderKept(a) /\ UsesKept(a)
    BY <1>4, ReadersMove, UsesMove DEF ExportMoves
  <2> SUFFICES ASSUME NEW b \in Actors, NEW n \in Names, Reads(b, n)'
               PROVE  Settled(b, n)'
    BY DEF RemovalInv, Settled
  <2>1. Shared(n) => Shared(n)'
    BY <2>0, SharedGrows
  <2>2. Reads(b, n) => Settled(b, n)
    BY DEF RemovalInv, Settled
  <2>3. Reads(b, n) /\ b # a /\ at'[b] = at[b] /\ note'[b] = note[b]
    BY <1>4, CountExportsDoes DEF Others, Reads, GivesUp
  <2> QED BY <2>1, <2>2, <2>3, <1>4, CountExportsDoes DEF Settled
<1>5. ASSUME RegisterExport(a) PROVE RemovalInv'
  <2>0. ReaderKept(a) /\ UsesKept(a)
    BY <1>5, ReadersMove, UsesMove DEF ExportMoves
  <2> SUFFICES ASSUME NEW b \in Actors, NEW n \in Names, Reads(b, n)'
               PROVE  Settled(b, n)'
    BY DEF RemovalInv, Settled
  <2>1. Shared(n) => Shared(n)'
    BY <2>0, SharedGrows
  <2>2. Reads(b, n) => Settled(b, n)
    BY DEF RemovalInv, Settled
  <2>3. Reads(b, n) /\ b # a /\ at'[b] = at[b] /\ note'[b] = note[b]
    BY <1>5, RegisterExportDoes DEF Others, Reads, GivesUp
  <2>4. CASE n = name[a] /\ ~Shared(n)
    <3>1. Sole(a)
      BY <2>4, <1>5, RegisterExportDoes DEF MakingInv, Made, Registering
    <3> QED BY <2>3, <2>4, <3>1 DEF Sole
  <2>5. CASE n = name[a] /\ Shared(n)
    BY <2>1, <2>5 DEF Settled
  <2>6. CASE n # name[a]
    <3>1. library'[n] = library[n]
      BY <2>6, <1>5, RegisterExportDoes
    <3> QED BY <2>1, <2>2, <2>3, <3>1 DEF Settled
  <2> QED BY <2>4, <2>5, <2>6
<1>6. ASSUME UnlinkCsv(a) PROVE RemovalInv'
  <2>0. ReaderKept(a) /\ UsesKept(a)
    BY <1>6, ReadersMove, UsesMove DEF ExportMoves
  <2> SUFFICES ASSUME NEW b \in Actors, NEW n \in Names, Reads(b, n)'
               PROVE  Settled(b, n)'
    BY DEF RemovalInv, Settled
  <2>1. Shared(n) => Shared(n)'
    BY <2>0, SharedGrows
  <2>2. Reads(b, n) => Settled(b, n)
    BY DEF RemovalInv, Settled
  <2>3. Reads(b, n) /\ b # a /\ at'[b] = at[b] /\ note'[b] = note[b]
    BY <1>6, UnlinkCsvDoes DEF Others, Reads, GivesUp
  <2> QED BY <2>1, <2>2, <2>3, <1>6, UnlinkCsvDoes DEF Settled
<1>7. ASSUME DeleteExportRow(a) PROVE RemovalInv'
  <2>0. ReaderKept(a) /\ UsesKept(a)
    BY <1>7, ReadersMove, UsesMove DEF ExportMoves
  <2> SUFFICES ASSUME NEW b \in Actors, NEW n \in Names, Reads(b, n)'
               PROVE  Settled(b, n)'
    BY DEF RemovalInv, Settled
  <2>1. Shared(n) => Shared(n)'
    BY <2>0, SharedGrows
  <2>2. Reads(b, n) => Settled(b, n)
    BY DEF RemovalInv, Settled
  <2>3. CASE b = a
    <3>1. Reads(a, n) /\ n = name[a] /\ at[a] = "row"
      BY <2>3, <1>7, DeleteExportRowDoes DEF Reads
    <3>2. library[n] = None \/ Shared(n) \/ library[n].by \in note[a]
      BY <2>2, <2>3, <3>1 DEF Settled
    <3> QED BY <2>1, <3>1, <3>2, <1>7, DeleteExportRowDoes DEF Settled
  <2>4. CASE b # a
    <3>1. Reads(b, n) /\ at'[b] = at[b] /\ note'[b] = note[b]
      BY <2>4, <1>7, DeleteExportRowDoes DEF Others, Reads
    <3>2. library'[n] = library[n] \/ library'[n] = None
      BY <1>7, DeleteExportRowDoes
    <3> QED BY <2>1, <2>2, <3>1, <3>2 DEF Settled
  <2> QED BY <2>3, <2>4
<1>8. ASSUME UnlinkExport(a) PROVE RemovalInv'
  <2>0. ReaderKept(a) /\ UsesKept(a)
    BY <1>8, ReadersMove, UsesMove DEF ExportMoves
  <2> SUFFICES ASSUME NEW b \in Actors, NEW n \in Names, Reads(b, n)'
               PROVE  Settled(b, n)'
    BY DEF RemovalInv, Settled
  <2>1. Shared(n) => Shared(n)'
    BY <2>0, SharedGrows
  <2>2. Reads(b, n) => Settled(b, n)
    BY DEF RemovalInv, Settled
  <2>3. Reads(b, n) /\ b # a /\ at'[b] = at[b] /\ note'[b] = note[b]
    BY <1>8, UnlinkExportDoes DEF Others, Reads, GivesUp
  <2> QED BY <2>1, <2>2, <2>3, <1>8, UnlinkExportDoes DEF Settled
<1>9. ASSUME ListExports(a) PROVE RemovalInv'
  <2>0. ReaderKept(a) /\ UsesKept(a)
    BY <1>9, ReadersMove, UsesMove DEF ExportMoves
  <2> SUFFICES ASSUME NEW b \in Actors, NEW n \in Names, Reads(b, n)'
               PROVE  Settled(b, n)'
    BY DEF RemovalInv, Settled
  <2>1. Shared(n) => Shared(n)'
    BY <2>0, SharedGrows
  <2>2. Reads(b, n) => Settled(b, n)
    BY DEF RemovalInv, Settled
  <2>3. CASE b = a
    BY <2>3, <1>9, ListExportsDoes DEF Reads, Settled, Owned
  <2>4. CASE b # a
    BY <2>1, <2>2, <2>4, <1>9, ListExportsDoes DEF Others, Reads, Settled
  <2> QED BY <2>3, <2>4
<1>10. ASSUME DeleteUser(a) PROVE RemovalInv'
  <2>0. ReaderKept(a) /\ UsesKept(a)
    BY <1>10, ReadersMove, UsesMove DEF ExportMoves
  <2> SUFFICES ASSUME NEW b \in Actors, NEW n \in Names, Reads(b, n)'
               PROVE  Settled(b, n)'
    BY DEF RemovalInv, Settled
  <2>1. Shared(n) => Shared(n)'
    BY <2>0, SharedGrows
  <2>2. Reads(b, n) => Settled(b, n)
    BY DEF RemovalInv, Settled
  <2>3. library'[n] = library[n] \/ library'[n] = None
    BY <1>10, DeleteUserDoes
  <2>4. CASE b = a
    <3>1. at'[a] = "files" /\ Reads(a, n) /\ at[a] = "account"
      BY <2>4, <1>10, DeleteUserDoes DEF Reads
    <3>2. library'[n] = IF n \in Owned THEN None ELSE library[n]
      BY <3>1, <1>10, DeleteUserDoes
    <3>3. library[n] = None \/ Shared(n) \/ library[n].owned
      BY <2>2, <2>4, <3>1 DEF Settled
    <3> QED BY <2>1, <3>2, <3>3 DEF Settled, Owned
  <2>5. CASE b # a
    <3>1. Reads(b, n) /\ at'[b] = at[b] /\ note'[b] = note[b]
      BY <2>5, <1>10, DeleteUserDoes DEF Others, Reads
    <3> QED BY <2>1, <2>2, <2>3, <3>1 DEF Settled
  <2> QED BY <2>4, <2>5
<1>11. ASSUME UnlinkFiles(a) PROVE RemovalInv'
  <2>0. ReaderKept(a) /\ UsesKept(a)
    BY <1>11, ReadersMove, UsesMove DEF ExportMoves
  <2> SUFFICES ASSUME NEW b \in Actors, NEW n \in Names, Reads(b, n)'
               PROVE  Settled(b, n)'
    BY DEF RemovalInv, Settled
  <2>1. Shared(n) => Shared(n)'
    BY <2>0, SharedGrows
  <2>2. Reads(b, n) => Settled(b, n)
    BY DEF RemovalInv, Settled
  <2>3. Reads(b, n) /\ b # a /\ at'[b] = at[b] /\ note'[b] = note[b]
    BY <1>11, UnlinkFilesDoes DEF Others, Reads, GivesUp
  <2> QED BY <2>1, <2>2, <2>3, <1>11, UnlinkFilesDoes DEF Settled
<1> QED
  BY <1>1, <1>2, <1>3, <1>4, <1>5, <1>6, <1>7, <1>8, <1>9, <1>10, <1>11 DEF ExportMoves

\* See RemovalMoves.
LEMMA RemovalStep ==
    ASSUME TypeOK, PlacesInv, MemoryInv, MakingInv, RemovalInv, [Next]_vars
    PROVE  RemovalInv'
<1>1. CASE Apart
  BY <1>1 DEF Apart, Relevant, Naming, Registering, RemovalInv, Reads, Shared
<1>2. CASE Restart
  BY <1>2 DEF Restart, RemovalInv, Reads
<1>3. CASE \E a \in Actors : ExportMoves(a)
  BY <1>3, RemovalMoves
<1> QED BY <1>1, <1>2, <1>3, ExportsOrApart

\* A row keeps its file.
LEMMA RowKeepsFileMoves ==
    ASSUME TypeOK, PlacesInv, MemoryInv, UsedInv, MakingInv, RemovalInv, RowKeepsFile,
           NEW a \in Actors, ExportMoves(a)
    PROVE  RowKeepsFile'
<1>1. ASSUME BeginRemove(a) PROVE RowKeepsFile'
  <2>0. UsesKept(a)
    BY <1>1, UsesMove DEF ExportMoves
  <2> SUFFICES ASSUME NEW n \in Names, library'[n] # None, ~Shared(n)'
               PROVE  files'[n] = library'[n].by
    BY DEF RowKeepsFile
  <2>1. ~Shared(n)
    BY <2>0, SharedGrows
  <2>2. library[n] # None => files[n] = library[n].by
    BY <2>1 DEF RowKeepsFile
  <2> QED BY <2>2, <1>1, BeginRemoveDoes
<1>2. ASSUME WriteCsv(a) PROVE RowKeepsFile'
  <2>0. UsesKept(a)
    BY <1>2, UsesMove DEF ExportMoves
  <2> SUFFICES ASSUME NEW n \in Names, library'[n] # None, ~Shared(n)'
               PROVE  files'[n] = library'[n].by
    BY DEF RowKeepsFile
  <2>1. ~Shared(n)
    BY <2>0, SharedGrows
  <2>2. library[n] # None => files[n] = library[n].by
    BY <2>1 DEF RowKeepsFile
  <2>3. CASE at'[a] = "owner" /\ n = name'[a]
    <3>1. n \in NewNames /\ uses[n] \in 0..2 /\ uses'[n] = IF uses[n] = 0 THEN 1 ELSE 2
      BY <2>3, <1>2, WriteCsvDoes DEF TypeOK
    <3>2. uses[n] = 0
      BY <3>1 DEF Shared
    <3> QED BY <3>1, <3>2, <1>2, WriteCsvDoes DEF UsedInv
  <2>4. CASE ~(at'[a] = "owner" /\ n = name'[a])
    BY <2>2, <2>4, <1>2, WriteCsvDoes
  <2> QED BY <2>3, <2>4
<1>3. ASSUME FindOwner(a) PROVE RowKeepsFile'
  <2>0. UsesKept(a)
    BY <1>3, UsesMove DEF ExportMoves
  <2> SUFFICES ASSUME NEW n \in Names, library'[n] # None, ~Shared(n)'
               PROVE  files'[n] = library'[n].by
    BY DEF RowKeepsFile
  <2>1. ~Shared(n)
    BY <2>0, SharedGrows
  <2>2. library[n] # None => files[n] = library[n].by
    BY <2>1 DEF RowKeepsFile
  <2> QED BY <2>2, <1>3, FindOwnerDoes
<1>4. ASSUME CountExports(a) PROVE RowKeepsFile'
  <2>0. UsesKept(a)
    BY <1>4, UsesMove DEF ExportMoves
  <2> SUFFICES ASSUME NEW n \in Names, library'[n] # None, ~Shared(n)'
               PROVE  files'[n] = library'[n].by
    BY DEF RowKeepsFile
  <2>1. ~Shared(n)
    BY <2>0, SharedGrows
  <2>2. library[n] # None => files[n] = library[n].by
    BY <2>1 DEF RowKeepsFile
  <2>3. n # name[a]
    BY <2>1, <1>4, CountExportsDoes DEF MakingInv, Made, Sole, Registering
  <2> QED BY <2>2, <2>3, <1>4, CountExportsDoes DEF GivesUp, Unlinks
<1>5. ASSUME RegisterExport(a) PROVE RowKeepsFile'
  <2>0. UsesKept(a)
    BY <1>5, UsesMove DEF ExportMoves
  <2> SUFFICES ASSUME NEW n \in Names, library'[n] # None, ~Shared(n)'
               PROVE  files'[n] = library'[n].by
    BY DEF RowKeepsFile
  <2>1. ~Shared(n)
    BY <2>0, SharedGrows
  <2>2. library[n] # None => files[n] = library[n].by
    BY <2>1 DEF RowKeepsFile
  <2>3. CASE n = name[a]
    <3>1. library[n] = None /\ files[n] = a
      BY <2>1, <2>3, <1>5, RegisterExportDoes DEF MakingInv, Made, Sole, Registering
    <3> QED BY <2>3, <3>1, <1>5, RegisterExportDoes
  <2>4. CASE n # name[a]
    <3>0. \/ \A x \in Names : x # name[a] => library'[x] = library[x]
          \/ library' = library
      BY <1>5, RegisterExportDoes
    <3>1. library'[n] = library[n]
      BY <2>4, <3>0
    <3>2. files'[n] = files[n]
      BY <2>4, <1>5, RegisterExportDoes DEF GivesUp, Unlinks
    <3> QED BY <2>2, <3>1, <3>2
  <2> QED BY <2>3, <2>4
<1>6. ASSUME UnlinkCsv(a) PROVE RowKeepsFile'
  <2>0. UsesKept(a)
    BY <1>6, UsesMove DEF ExportMoves
  <2> SUFFICES ASSUME NEW n \in Names, library'[n] # None, ~Shared(n)'
               PROVE  files'[n] = library'[n].by
    BY DEF RowKeepsFile
  <2>1. ~Shared(n)
    BY <2>0, SharedGrows
  <2>2. library[n] # None => files[n] = library[n].by
    BY <2>1 DEF RowKeepsFile
  <2>3. n # name[a]
    BY <2>1, <1>6, UnlinkCsvDoes DEF MakingInv, Made, Sole, Registering
  <2> QED BY <2>2, <2>3, <1>6, UnlinkCsvDoes DEF GivesUp, Unlinks
<1>7. ASSUME DeleteExportRow(a) PROVE RowKeepsFile'
  <2>0. UsesKept(a)
    BY <1>7, UsesMove DEF ExportMoves
  <2> SUFFICES ASSUME NEW n \in Names, library'[n] # None, ~Shared(n)'
               PROVE  files'[n] = library'[n].by
    BY DEF RowKeepsFile
  <2>1. ~Shared(n)
    BY <2>0, SharedGrows
  <2>2. library[n] # None => files[n] = library[n].by
    BY <2>1 DEF RowKeepsFile
  <2> QED BY <2>2, <1>7, DeleteExportRowDoes
<1>8. ASSUME UnlinkExport(a) PROVE RowKeepsFile'
  <2>0. UsesKept(a)
    BY <1>8, UsesMove DEF ExportMoves
  <2> SUFFICES ASSUME NEW n \in Names, library'[n] # None, ~Shared(n)'
               PROVE  files'[n] = library'[n].by
    BY DEF RowKeepsFile
  <2>1. ~Shared(n)
    BY <2>0, SharedGrows
  <2>2. library[n] # None => files[n] = library[n].by
    BY <2>1 DEF RowKeepsFile
  <2>3. n # name[a]
    BY <2>1, <1>8, UnlinkExportDoes DEF RemovalInv, Reads
  <2> QED BY <2>2, <2>3, <1>8, UnlinkExportDoes DEF Unlinks
<1>9. ASSUME ListExports(a) PROVE RowKeepsFile'
  <2>0. UsesKept(a)
    BY <1>9, UsesMove DEF ExportMoves
  <2> SUFFICES ASSUME NEW n \in Names, library'[n] # None, ~Shared(n)'
               PROVE  files'[n] = library'[n].by
    BY DEF RowKeepsFile
  <2>1. ~Shared(n)
    BY <2>0, SharedGrows
  <2>2. library[n] # None => files[n] = library[n].by
    BY <2>1 DEF RowKeepsFile
  <2> QED BY <2>2, <1>9, ListExportsDoes
<1>10. ASSUME DeleteUser(a) PROVE RowKeepsFile'
  <2>0. UsesKept(a)
    BY <1>10, UsesMove DEF ExportMoves
  <2> SUFFICES ASSUME NEW n \in Names, library'[n] # None, ~Shared(n)'
               PROVE  files'[n] = library'[n].by
    BY DEF RowKeepsFile
  <2>1. ~Shared(n)
    BY <2>0, SharedGrows
  <2>2. library[n] # None => files[n] = library[n].by
    BY <2>1 DEF RowKeepsFile
  <2> QED BY <2>2, <1>10, DeleteUserDoes
<1>11. ASSUME UnlinkFiles(a) PROVE RowKeepsFile'
  <2>0. UsesKept(a)
    BY <1>11, UsesMove DEF ExportMoves
  <2> SUFFICES ASSUME NEW n \in Names, library'[n] # None, ~Shared(n)'
               PROVE  files'[n] = library'[n].by
    BY DEF RowKeepsFile
  <2>1. ~Shared(n)
    BY <2>0, SharedGrows
  <2>2. library[n] # None => files[n] = library[n].by
    BY <2>1 DEF RowKeepsFile
  <2>3. n \notin note[a]
    BY <2>1, <1>11, UnlinkFilesDoes DEF RemovalInv, Reads
  <2> QED BY <2>2, <2>3, <1>11, UnlinkFilesDoes DEF Unlinks
<1> QED
  BY <1>1, <1>2, <1>3, <1>4, <1>5, <1>6, <1>7, <1>8, <1>9, <1>10, <1>11 DEF ExportMoves

\* See RowKeepsFileMoves.
LEMMA RowKeepsFileStep ==
    ASSUME TypeOK, PlacesInv, MemoryInv, UsedInv, MakingInv, RemovalInv, RowKeepsFile, [Next]_vars
    PROVE  RowKeepsFile'
<1>1. CASE Apart
  BY <1>1 DEF Apart, RowKeepsFile, Shared
<1>2. CASE Restart
  BY <1>2 DEF Restart, RowKeepsFile, Shared, Unlink, Sweep
<1>3. CASE \E a \in Actors : ExportMoves(a)
  BY <1>3, RowKeepsFileMoves
<1> QED BY <1>1, <1>2, <1>3, ExportsOrApart

\* A request that has a file in hand.
Holds(b, n) == name[b] = n /\ at[b] \in Registering \cup {"file"}

\* A file without a row is in somebody's hands.
LEMMA OrphanMoves ==
    ASSUME TypeOK, PlacesInv, MemoryInv, OrphanFileExplained, NEW a \in Actors, ExportMoves(a)
    PROVE  OrphanFileExplained'
<1>1. ASSUME BeginRemove(a) PROVE OrphanFileExplained'
  <2>0. UsesKept(a)
    BY <1>1, UsesMove DEF ExportMoves
  <2> SUFFICES ASSUME NEW n \in Names, files'[n] # None, library'[n] = None,
                      ~crashed', account', ~Shared(n)'
               PROVE  \E b \in Actors : Holds(b, n)'
    BY DEF OrphanFileExplained, Holds
  <2>1. ~Shared(n)
    BY <2>0, SharedGrows
  <2>2. files[n] # None /\ library[n] = None /\ ~crashed /\ account => \E b \in Actors : Holds(b, n)
    BY <2>1 DEF OrphanFileExplained, Holds
  <2>3. \A b \in Actors : b # a /\ Holds(b, n) => Holds(b, n)'
    BY <1>1, BeginRemoveDoes DEF Others, Holds
  <2>4. ~Holds(a, n)
    BY <1>1, BeginRemoveDoes DEF Holds, Registering
  <2> QED BY <2>2, <2>3, <2>4, <1>1, BeginRemoveDoes
<1>2. ASSUME WriteCsv(a) PROVE OrphanFileExplained'
  <2>0. UsesKept(a)
    BY <1>2, UsesMove DEF ExportMoves
  <2> SUFFICES ASSUME NEW n \in Names, files'[n] # None, library'[n] = None,
                      ~crashed', account', ~Shared(n)'
               PROVE  \E b \in Actors : Holds(b, n)'
    BY DEF OrphanFileExplained, Holds
  <2>1. ~Shared(n)
    BY <2>0, SharedGrows
  <2>2. files[n] # None /\ library[n] = None /\ ~crashed /\ account => \E b \in Actors : Holds(b, n)
    BY <2>1 DEF OrphanFileExplained, Holds
  <2>3. \A b \in Actors : b # a /\ Holds(b, n) => Holds(b, n)'
    BY <1>2, WriteCsvDoes DEF Others, Holds
  <2>4. CASE at'[a] = "owner" /\ n = name'[a]
    <3>1. Holds(a, n)'
      BY <2>4 DEF Holds, Registering
    <3> QED BY <3>1
  <2>5. CASE ~(at'[a] = "owner" /\ n = name'[a])
    <3>1. ~Holds(a, n)
      BY <1>2, WriteCsvDoes DEF Holds, Registering
    <3>2. files'[n] = files[n] /\ UNCHANGED <<account, library, crashed>>
      BY <2>5, <1>2, WriteCsvDoes
    <3> QED BY <2>2, <2>3, <3>1, <3>2
  <2> QED BY <2>4, <2>5
<1>3. ASSUME FindOwner(a) PROVE OrphanFileExplained'
  <2>0. UsesKept(a)
    BY <1>3, UsesMove DEF ExportMoves
  <2> SUFFICES ASSUME NEW n \in Names, files'[n] # None, library'[n] = None,
                      ~crashed', account', ~Shared(n)'
               PROVE  \E b \in Actors : Holds(b, n)'
    BY DEF OrphanFileExplained, Holds
  <2>1. ~Shared(n)
    BY <2>0, SharedGrows
  <2>2. files[n] # None /\ library[n] = None /\ ~crashed /\ account => \E b \in Actors : Holds(b, n)
    BY <2>1 DEF OrphanFileExplained, Holds
  <2>3. \A b \in Actors : b # a /\ Holds(b, n) => Holds(b, n)'
    BY <1>3, FindOwnerDoes DEF Others, Holds
  <2>4. Holds(a, n) => Holds(a, n)'
    BY <1>3, FindOwnerDoes DEF Holds, Registering
  <2> QED BY <2>2, <2>3, <2>4, <1>3, FindOwnerDoes
<1>4. ASSUME CountExports(a) PROVE OrphanFileExplained'
  <2>0. UsesKept(a)
    BY <1>4, UsesMove DEF ExportMoves
  <2> SUFFICES ASSUME NEW n \in Names, files'[n] # None, library'[n] = None,
                      ~crashed', account', ~Shared(n)'
               PROVE  \E b \in Actors : Holds(b, n)'
    BY DEF OrphanFileExplained, Holds
  <2>1. ~Shared(n)
    BY <2>0, SharedGrows
  <2>2. files[n] # None /\ library[n] = None /\ ~crashed /\ account => \E b \in Actors : Holds(b, n)
    BY <2>1 DEF OrphanFileExplained, Holds
  <2>3. \A b \in Actors : b # a /\ Holds(b, n) => Holds(b, n)'
    BY <1>4, CountExportsDoes DEF Others, Holds
  <2>4. Holds(a, n) => Holds(a, n)'
    BY <1>4, CountExportsDoes DEF Holds, Registering, GivesUp, Unlinks
  <2>5. files[n] # None /\ UNCHANGED <<account, crashed>>
    BY <1>4, CountExportsDoes DEF GivesUp, Unlinks
  <2>6. library[n] = None
    BY <1>4, CountExportsDoes
  <2> QED BY <2>2, <2>3, <2>4, <2>5, <2>6
<1>5. ASSUME RegisterExport(a) PROVE OrphanFileExplained'
  <2>0. UsesKept(a)
    BY <1>5, UsesMove DEF ExportMoves
  <2> SUFFICES ASSUME NEW n \in Names, files'[n] # None, library'[n] = None,
                      ~crashed', account', ~Shared(n)'
               PROVE  \E b \in Actors : Holds(b, n)'
    BY DEF OrphanFileExplained, Holds
  <2>1. ~Shared(n)
    BY <2>0, SharedGrows
  <2>2. files[n] # None /\ library[n] = None /\ ~crashed /\ account => \E b \in Actors : Holds(b, n)
    BY <2>1 DEF OrphanFileExplained, Holds
  <2>3. \A b \in Actors : b # a /\ Holds(b, n) => Holds(b, n)'
    BY <1>5, RegisterExportDoes DEF Others, Holds
  <2>5. files[n] # None /\ UNCHANGED <<account, crashed>>
    BY <1>5, RegisterExportDoes DEF GivesUp, Unlinks
  <2>6. library[n] = None /\ (n = name[a] => GivesUp(a))
    BY <1>5, RegisterExportDoes
  <2>4. Holds(a, n) => Holds(a, n)'
    BY <2>6, <1>5, RegisterExportDoes DEF Holds, Registering, GivesUp, Unlinks
  <2> QED BY <2>2, <2>3, <2>4, <2>5, <2>6
<1>6. ASSUME UnlinkCsv(a) PROVE OrphanFileExplained'
  <2>0. UsesKept(a)
    BY <1>6, UsesMove DEF ExportMoves
  <2> SUFFICES ASSUME NEW n \in Names, files'[n] # None, library'[n] = None,
                      ~crashed', account', ~Shared(n)'
               PROVE  \E b \in Actors : Holds(b, n)'
    BY DEF OrphanFileExplained, Holds
  <2>1. ~Shared(n)
    BY <2>0, SharedGrows
  <2>2. files[n] # None /\ library[n] = None /\ ~crashed /\ account => \E b \in Actors : Holds(b, n)
    BY <2>1 DEF OrphanFileExplained, Holds
  <2>3. \A b \in Actors : b # a /\ Holds(b, n) => Holds(b, n)'
    BY <1>6, UnlinkCsvDoes DEF Others, Holds
  <2>4. Holds(a, n) => Holds(a, n)'
    BY <1>6, UnlinkCsvDoes DEF Holds, Registering, GivesUp, Unlinks
  <2>5. files[n] # None /\ UNCHANGED <<account, crashed>>
    BY <1>6, UnlinkCsvDoes DEF GivesUp, Unlinks
  <2>6. library[n] = None
    BY <1>6, UnlinkCsvDoes
  <2> QED BY <2>2, <2>3, <2>4, <2>5, <2>6
<1>7. ASSUME DeleteExportRow(a) PROVE OrphanFileExplained'
  <2>0. UsesKept(a)
    BY <1>7, UsesMove DEF ExportMoves
  <2> SUFFICES ASSUME NEW n \in Names, files'[n] # None, library'[n] = None,
                      ~crashed', account', ~Shared(n)'
               PROVE  \E b \in Actors : Holds(b, n)'
    BY DEF OrphanFileExplained, Holds
  <2>1. ~Shared(n)
    BY <2>0, SharedGrows
  <2>2. files[n] # None /\ library[n] = None /\ ~crashed /\ account => \E b \in Actors : Holds(b, n)
    BY <2>1 DEF OrphanFileExplained, Holds
  <2>3. \A b \in Actors : b # a /\ Holds(b, n) => Holds(b, n)'
    BY <1>7, DeleteExportRowDoes DEF Others, Holds
  <2>4. CASE n = name[a]
    <3>1. Holds(a, n)'
      BY <2>4, <1>7, DeleteExportRowDoes DEF Holds
    <3> QED BY <3>1
  <2>5. CASE n # name[a]
    <3>1. ~Holds(a, n) /\ library[n] = None
      BY <2>5, <1>7, DeleteExportRowDoes DEF Holds
    <3> QED BY <2>2, <2>3, <3>1, <1>7, DeleteExportRowDoes
  <2> QED BY <2>4, <2>5
<1>8. ASSUME UnlinkExport(a) PROVE OrphanFileExplained'
  <2>0. UsesKept(a)
    BY <1>8, UsesMove DEF ExportMoves
  <2> SUFFICES ASSUME NEW n \in Names, files'[n] # None, library'[n] = None,
                      ~crashed', account', ~Shared(n)'
               PROVE  \E b \in Actors : Holds(b, n)'
    BY DEF OrphanFileExplained, Holds
  <2>1. ~Shared(n)
    BY <2>0, SharedGrows
  <2>2. files[n] # None /\ library[n] = None /\ ~crashed /\ account => \E b \in Actors : Holds(b, n)
    BY <2>1 DEF OrphanFileExplained, Holds
  <2>3. \A b \in Actors : b # a /\ Holds(b, n) => Holds(b, n)'
    BY <1>8, UnlinkExportDoes DEF Others, Holds
  <2>4. Holds(a, n) => Holds(a, n)'
    BY <1>8, UnlinkExportDoes DEF Holds, Registering, GivesUp, Unlinks
  <2>5. files[n] # None /\ UNCHANGED <<account, crashed>>
    BY <1>8, UnlinkExportDoes DEF GivesUp, Unlinks
  <2>6. library[n] = None
    BY <1>8, UnlinkExportDoes
  <2> QED BY <2>2, <2>3, <2>4, <2>5, <2>6
<1>9. ASSUME ListExports(a) PROVE OrphanFileExplained'
  <2>0. UsesKept(a)
    BY <1>9, UsesMove DEF ExportMoves
  <2> SUFFICES ASSUME NEW n \in Names, files'[n] # None, library'[n] = None,
                      ~crashed', account', ~Shared(n)'
               PROVE  \E b \in Actors : Holds(b, n)'
    BY DEF OrphanFileExplained, Holds
  <2>1. ~Shared(n)
    BY <2>0, SharedGrows
  <2>2. files[n] # None /\ library[n] = None /\ ~crashed /\ account => \E b \in Actors : Holds(b, n)
    BY <2>1 DEF OrphanFileExplained, Holds
  <2>3. \A b \in Actors : b # a /\ Holds(b, n) => Holds(b, n)'
    BY <1>9, ListExportsDoes DEF Others, Holds
  <2>4. ~Holds(a, n)
    BY <1>9, ListExportsDoes DEF Holds, Registering
  <2> QED BY <2>2, <2>3, <2>4, <1>9, ListExportsDoes
<1>10. ASSUME DeleteUser(a) PROVE OrphanFileExplained'
  <2>0. UsesKept(a)
    BY <1>10, UsesMove DEF ExportMoves
  <2> SUFFICES ASSUME NEW n \in Names, files'[n] # None, library'[n] = None,
                      ~crashed', account', ~Shared(n)'
               PROVE  \E b \in Actors : Holds(b, n)'
    BY DEF OrphanFileExplained, Holds
  <2>1. ~Shared(n)
    BY <2>0, SharedGrows
  <2>2. files[n] # None /\ library[n] = None /\ ~crashed /\ account => \E b \in Actors : Holds(b, n)
    BY <2>1 DEF OrphanFileExplained, Holds
  <2>3. \A b \in Actors : b # a /\ Holds(b, n) => Holds(b, n)'
    BY <1>10, DeleteUserDoes DEF Others, Holds
  <2>4. ~Holds(a, n) /\ UNCHANGED <<account, library, files, crashed>>
    BY <1>10, DeleteUserDoes DEF Holds, Registering
  <2> QED BY <2>2, <2>3, <2>4
<1>11. ASSUME UnlinkFiles(a) PROVE OrphanFileExplained'
  <2>0. UsesKept(a)
    BY <1>11, UsesMove DEF ExportMoves
  <2> SUFFICES ASSUME NEW n \in Names, files'[n] # None, library'[n] = None,
                      ~crashed', account', ~Shared(n)'
               PROVE  \E b \in Actors : Holds(b, n)'
    BY DEF OrphanFileExplained, Holds
  <2>1. ~Shared(n)
    BY <2>0, SharedGrows
  <2>2. files[n] # None /\ library[n] = None /\ ~crashed /\ account => \E b \in Actors : Holds(b, n)
    BY <2>1 DEF OrphanFileExplained, Holds
  <2>3. \A b \in Actors : b # a /\ Holds(b, n) => Holds(b, n)'
    BY <1>11, UnlinkFilesDoes DEF Others, Holds
  <2>4. ~Holds(a, n) /\ files[n] # None /\ UNCHANGED <<account, library, crashed>>
    BY <1>11, UnlinkFilesDoes DEF Holds, Registering, Unlinks
  <2> QED BY <2>2, <2>3, <2>4
<1> QED
  BY <1>1, <1>2, <1>3, <1>4, <1>5, <1>6, <1>7, <1>8, <1>9, <1>10, <1>11 DEF ExportMoves

\* See OrphanMoves.
LEMMA OrphanStep ==
    ASSUME TypeOK, PlacesInv, MemoryInv, OrphanFileExplained, [Next]_vars
    PROVE  OrphanFileExplained'
<1>1. CASE Apart
  BY <1>1 DEF Apart, Relevant, Naming, Registering, OrphanFileExplained, Shared
<1>2. CASE Restart
  BY <1>2 DEF Restart, OrphanFileExplained
<1>3. CASE \E a \in Actors : ExportMoves(a)
  BY <1>3, OrphanMoves
<1> QED BY <1>1, <1>2, <1>3, ExportsOrApart

\* The library is finite; it shrinks, or grows by one.
LEMMA OwnedFinite ==
    IsFiniteSet(Owned) /\ Cardinality(Owned) \in Nat
<1>1. IsFiniteSet(Names) /\ Owned \subseteq Names
  BY NamesAssumption DEF Names, Owned
<1> QED BY <1>1, FS_Subset, FS_CardinalityType

\* See OwnedFinite.
LEMMA OwnedShrinks ==
    ASSUME RoomInv, UNCHANGED parallel, Owned' \subseteq Owned, Counting' \subseteq Counting
    PROVE  RoomInv'
<1>1. Cardinality(Owned') \in Nat /\ Cardinality(Owned') <= Cardinality(Owned)
  BY OwnedFinite, FS_Subset, FS_CardinalityType
<1> QED BY <1>1, OwnedFinite, MaxExportsAssumption DEF RoomInv

\* See OwnedFinite.
LEMMA OwnedGrows ==
    ASSUME NEW n, Owned' \subseteq Owned \cup {n}, Cardinality(Owned) < MaxExports
    PROVE  Cardinality(Owned') <= MaxExports
<1>1. IsFiniteSet(Owned \cup {n}) /\ Cardinality(Owned \cup {n}) <= Cardinality(Owned) + 1
  <2>1. IsFiniteSet(Owned) /\ Cardinality(Owned) \in Nat
    BY OwnedFinite
  <2>2. /\ IsFiniteSet(Owned \cup {n})
        /\ Cardinality(Owned \cup {n}) = IF n \in Owned THEN Cardinality(Owned)
                                                        ELSE Cardinality(Owned) + 1
    BY <2>1, FS_AddElement
  <2> QED BY <2>1, <2>2
<1>2. Cardinality(Owned') <= Cardinality(Owned \cup {n})
  BY <1>1, FS_Subset
<1>3. /\ Cardinality(Owned') \in Nat /\ Cardinality(Owned \cup {n}) \in Nat
      /\ Cardinality(Owned) \in Nat /\ MaxExports \in Nat
  BY <1>1, OwnedFinite, FS_Subset, FS_CardinalityType, MaxExportsAssumption
<1> QED BY <1>1, <1>2, <1>3

\* Whoever was counted alone finds room.
LEMMA RoomMoves ==
    ASSUME TypeOK, PlacesInv, MemoryInv, RoomInv, NEW a \in Actors, ExportMoves(a)
    PROVE  RoomInv'
<1>1. ASSUME BeginRemove(a) PROVE RoomInv'
  <2>1. Owned' \subseteq Owned
    BY <1>1, BeginRemoveDoes DEF Owned
  <2>2. Counting' \subseteq Counting
    BY <1>1, BeginRemoveDoes DEF Counting, Others, GivesUp
  <2>3. UNCHANGED parallel
    BY <1>1, BeginRemoveDoes
  <2> QED BY <2>1, <2>2, <2>3, OwnedShrinks
<1>2. ASSUME WriteCsv(a) PROVE RoomInv'
  <2>1. Owned' \subseteq Owned
    BY <1>2, WriteCsvDoes DEF Owned
  <2>2. Counting' \subseteq Counting
    BY <1>2, WriteCsvDoes DEF Counting, Others, GivesUp
  <2>3. UNCHANGED parallel
    BY <1>2, WriteCsvDoes
  <2> QED BY <2>1, <2>2, <2>3, OwnedShrinks
<1>3. ASSUME FindOwner(a) PROVE RoomInv'
  <2>1. Owned' \subseteq Owned
    BY <1>3, FindOwnerDoes DEF Owned
  <2>2. Counting' \subseteq Counting
    BY <1>3, FindOwnerDoes DEF Counting, Others, GivesUp
  <2>3. UNCHANGED parallel
    BY <1>3, FindOwnerDoes
  <2> QED BY <2>1, <2>2, <2>3, OwnedShrinks
<1>4. ASSUME CountExports(a) PROVE RoomInv'
  <2>1. CASE GivesUp(a) /\ UNCHANGED parallel
    <3>1. Owned' = Owned /\ Counting' \subseteq Counting
      BY <2>1, <1>4, CountExportsDoes DEF Owned, Counting, Others, GivesUp
    <3> QED BY <2>1, <3>1, OwnedShrinks
  <2>2. CASE /\ at'[a] = "register" /\ Cardinality(Owned) < MaxExports
             /\ parallel' <=> parallel \/ \E b \in Actors : at[b] = "register"
    <3>1. Owned' = Owned
      BY <1>4, CountExportsDoes DEF Owned
    <3>2. ASSUME ~parallel' PROVE Counting' \subseteq {a}
      BY <2>2, <3>2, <1>4, CountExportsDoes DEF Counting, Others
    <3> QED BY <2>2, <3>1, <3>2, OwnedFinite, MaxExportsAssumption DEF RoomInv
  <2> QED BY <2>1, <2>2, <1>4, CountExportsDoes
<1>5. ASSUME RegisterExport(a) PROVE RoomInv'
  <2>1. UNCHANGED parallel /\ Counting' \subseteq Counting /\ a \notin Counting'
    BY <1>5, RegisterExportDoes DEF Counting, Others, GivesUp
  <2>a. \A n \in Names : n # name[a] => library'[n] = library[n]
    BY <1>5, RegisterExportDoes
  <2>2. CASE TRUE \notin note[a] \/ UNCHANGED library
    <3>0. \/ UNCHANGED library
          \/ library'[name[a]] # None /\ ~library'[name[a]].owned
      BY <2>2, <1>5, RegisterExportDoes
    <3>1. Owned' \subseteq Owned
      BY <2>a, <3>0 DEF Owned
    <3> QED BY <2>1, <3>1, OwnedShrinks
  <2>3. CASE TRUE \in note[a] /\ ~parallel
    <3>1. a \in Counting
      BY <2>3, <1>5, RegisterExportDoes DEF Counting
    <3>2. Counting' = {} /\ Cardinality(Owned) < MaxExports
      BY <2>1, <2>3, <3>1 DEF RoomInv
    <3>3. Owned' \subseteq Owned \cup {name[a]}
      BY <2>a DEF Owned
    <3> QED BY <3>2, <3>3, OwnedGrows DEF RoomInv
  <2>4. CASE parallel
    BY <2>1, <2>4 DEF RoomInv
  <2> QED BY <2>2, <2>3, <2>4
<1>6. ASSUME UnlinkCsv(a) PROVE RoomInv'
  <2>1. Owned' \subseteq Owned
    BY <1>6, UnlinkCsvDoes DEF Owned
  <2>2. Counting' \subseteq Counting
    BY <1>6, UnlinkCsvDoes DEF Counting, Others, GivesUp
  <2>3. UNCHANGED parallel
    BY <1>6, UnlinkCsvDoes
  <2> QED BY <2>1, <2>2, <2>3, OwnedShrinks
<1>7. ASSUME DeleteExportRow(a) PROVE RoomInv'
  <2>1. Owned' \subseteq Owned
    BY <1>7, DeleteExportRowDoes DEF Owned
  <2>2. Counting' \subseteq Counting
    BY <1>7, DeleteExportRowDoes DEF Counting, Others, GivesUp
  <2>3. UNCHANGED parallel
    BY <1>7, DeleteExportRowDoes
  <2> QED BY <2>1, <2>2, <2>3, OwnedShrinks
<1>8. ASSUME UnlinkExport(a) PROVE RoomInv'
  <2>1. Owned' \subseteq Owned
    BY <1>8, UnlinkExportDoes DEF Owned
  <2>2. Counting' \subseteq Counting
    BY <1>8, UnlinkExportDoes DEF Counting, Others, GivesUp
  <2>3. UNCHANGED parallel
    BY <1>8, UnlinkExportDoes
  <2> QED BY <2>1, <2>2, <2>3, OwnedShrinks
<1>9. ASSUME ListExports(a) PROVE RoomInv'
  <2>1. Owned' \subseteq Owned
    BY <1>9, ListExportsDoes DEF Owned
  <2>2. Counting' \subseteq Counting
    BY <1>9, ListExportsDoes DEF Counting, Others, GivesUp
  <2>3. UNCHANGED parallel
    BY <1>9, ListExportsDoes
  <2> QED BY <2>1, <2>2, <2>3, OwnedShrinks
<1>10. ASSUME DeleteUser(a) PROVE RoomInv'
  <2>1. Owned' \subseteq Owned
    BY <1>10, DeleteUserDoes DEF Owned
  <2>2. Counting' \subseteq Counting
    BY <1>10, DeleteUserDoes DEF Counting, Others, GivesUp
  <2>3. UNCHANGED parallel
    BY <1>10, DeleteUserDoes
  <2> QED BY <2>1, <2>2, <2>3, OwnedShrinks
<1>11. ASSUME UnlinkFiles(a) PROVE RoomInv'
  <2>1. Owned' \subseteq Owned
    BY <1>11, UnlinkFilesDoes DEF Owned
  <2>2. Counting' \subseteq Counting
    BY <1>11, UnlinkFilesDoes DEF Counting, Others, GivesUp
  <2>3. UNCHANGED parallel
    BY <1>11, UnlinkFilesDoes
  <2> QED BY <2>1, <2>2, <2>3, OwnedShrinks
<1> QED
  BY <1>1, <1>2, <1>3, <1>4, <1>5, <1>6, <1>7, <1>8, <1>9, <1>10, <1>11 DEF ExportMoves

\* See RoomMoves.
LEMMA RoomStep ==
    ASSUME TypeOK, PlacesInv, MemoryInv, RoomInv, [Next]_vars
    PROVE  RoomInv'
<1>1. CASE Apart
  <2>1. Owned' = Owned /\ Counting' \subseteq Counting /\ UNCHANGED parallel
    BY <1>1 DEF Apart, Relevant, Naming, Registering, Owned, Counting
  <2> QED BY <2>1, OwnedShrinks
<1>2. CASE Restart
  <2>1. Owned' = Owned /\ Counting' \subseteq Counting /\ UNCHANGED parallel
    BY <1>2 DEF Restart, Owned, Counting
  <2> QED BY <2>1, OwnedShrinks
<1>3. CASE \E a \in Actors : ExportMoves(a)
  BY <1>3, RoomMoves
<1> QED BY <1>1, <1>2, <1>3, ExportsOrApart

\* A closed account owns nothing.
LEMMA ClosedStep ==
    ASSUME TypeOK, PlacesInv, MemoryInv, Closed, [Next]_vars
    PROVE  Closed'
<1>a. PlaceTypes /\ RequestTypes /\ ConversationTypes /\ LockTypes /\ ExportTypes /\ FlagTypes
  BY TypeParts
<1>1. ASSUME NEW a \in Actors, BeginChat(a) PROVE Closed'
  <2>1. UNCHANGED <<account, library>>
    BY <1>1 DEF BeginChat, Begin, RunTo
  <2>2. \A c \in Sessions : Exists(c)' => Exists(c) \/ account
    BY <1>1 DEF BeginChat, Begin, RunTo
  <2> QED BY <2>1, <2>2 DEF Closed, Owned
<1>2. ASSUME NEW a \in Actors, BeginTable(a) PROVE Closed'
  <2>1. UNCHANGED <<account, library>>
    BY <1>2 DEF BeginTable, Begin, To, Step
  <2>2. \A c \in Sessions : Exists(c)' => Exists(c) \/ account
    BY <1>2 DEF BeginTable, Begin, To, Step
  <2> QED BY <2>1, <2>2 DEF Closed, Owned
<1>3. ASSUME NEW a \in Actors, BeginDelete(a) PROVE Closed'
  <2>1. UNCHANGED <<account, library>>
    BY <1>3 DEF BeginDelete, Begin, To, Step
  <2>2. \A c \in Sessions : Exists(c)' => Exists(c) \/ account
    BY <1>3 DEF BeginDelete, Begin, To, Step
  <2> QED BY <2>1, <2>2 DEF Closed, Owned
<1>4. ASSUME NEW a \in Actors, BeginRemove(a) PROVE Closed'
  <2>1. UNCHANGED <<account, library>>
    BY <1>4 DEF BeginRemove, Begin, Step
  <2>2. \A c \in Sessions : Exists(c)' => Exists(c) \/ account
    BY <1>4 DEF BeginRemove, Begin, Step
  <2> QED BY <2>1, <2>2 DEF Closed, Owned
<1>5. ASSUME NEW a \in Actors, FindSession(a) PROVE Closed'
  <2>1. UNCHANGED <<account, library>>
    BY <1>5 DEF FindSession, RunTo
  <2>2. \A c \in Sessions : Exists(c)' => Exists(c) \/ account
    BY <1>5 DEF FindSession, RunTo
  <2> QED BY <2>1, <2>2 DEF Closed, Owned
<1>6. ASSUME NEW a \in Actors, CreateSession(a) PROVE Closed'
  <2>1. UNCHANGED <<account, library>>
    BY <1>6 DEF CreateSession, RunTo
  <2>2. \A c \in Sessions : Exists(c)' => Exists(c) \/ account
    BY <1>a, <1>6 DEF CreateSession, RunTo, ConversationTypes
  <2> QED BY <2>1, <2>2 DEF Closed, Owned
<1>7. ASSUME NEW a \in Actors, SessionLock(a) PROVE Closed'
  <2>1. UNCHANGED <<account, library>>
    BY <1>7 DEF SessionLock, RunTo
  <2>2. \A c \in Sessions : Exists(c)' => Exists(c) \/ account
    BY <1>7 DEF SessionLock, RunTo
  <2> QED BY <2>1, <2>2 DEF Closed, Owned
<1>8. ASSUME NEW a \in Actors, Enter(a) PROVE Closed'
  <2>1. UNCHANGED <<account, library>>
    BY <1>8 DEF Enter, RunTo
  <2>2. \A c \in Sessions : Exists(c)' => Exists(c) \/ account
    BY <1>8 DEF Enter, RunTo
  <2> QED BY <2>1, <2>2 DEF Closed, Owned
<1>9. ASSUME NEW a \in Actors, CreateUserTurn(a) PROVE Closed'
  <2>1. UNCHANGED <<account, library>>
    BY <1>9 DEF CreateUserTurn, RunTo, EndRun
  <2>2. \A c \in Sessions : Exists(c)' => Exists(c) \/ account
    BY <1>9 DEF CreateUserTurn, RunTo, EndRun
  <2> QED BY <2>1, <2>2 DEF Closed, Owned
<1>10. ASSUME NEW a \in Actors, FinishRun(a) PROVE Closed'
  <2>1. UNCHANGED <<account, library>>
    BY <1>10 DEF FinishRun, EndRun, RunTo
  <2>2. \A c \in Sessions : Exists(c)' => Exists(c) \/ account
    BY <1>10 DEF FinishRun, EndRun, RunTo
  <2> QED BY <2>1, <2>2 DEF Closed, Owned
<1>11. ASSUME NEW a \in Actors, CallTool(a) PROVE Closed'
  <2>1. UNCHANGED <<account, library>>
    BY <1>11 DEF CallTool, To, Step
  <2>2. \A c \in Sessions : Exists(c)' => Exists(c) \/ account
    BY <1>11 DEF CallTool, To, Step
  <2> QED BY <2>1, <2>2 DEF Closed, Owned
<1>12. ASSUME NEW a \in Actors, CancelRun(a) PROVE Closed'
  <2>1. UNCHANGED <<account, library>>
    BY <1>12 DEF CancelRun, EndRun, RunTo
  <2>2. \A c \in Sessions : Exists(c)' => Exists(c) \/ account
    BY <1>12 DEF CancelRun, EndRun, RunTo
  <2> QED BY <2>1, <2>2 DEF Closed, Owned
<1>13. ASSUME NEW a \in Actors, CheckLocked(a) PROVE Closed'
  <2>1. UNCHANGED <<account, library>>
    BY <1>13 DEF CheckLocked, To, Step
  <2>2. \A c \in Sessions : Exists(c)' => Exists(c) \/ account
    BY <1>13 DEF CheckLocked, To, Step
  <2> QED BY <2>1, <2>2 DEF Closed, Owned
<1>14. ASSUME NEW a \in Actors, PersistTable(a) PROVE Closed'
  <2>1. UNCHANGED <<account, library>>
    BY <1>14 DEF PersistTable, UpsertTable, To, Step
  <2>2. \A c \in Sessions : Exists(c)' => Exists(c) \/ account
    BY <1>14 DEF PersistTable, UpsertTable, To, Step
  <2> QED BY <2>1, <2>2 DEF Closed, Owned
<1>15. ASSUME NEW a \in Actors, ToggleLock(a) PROVE Closed'
  <2>1. UNCHANGED <<account, library>>
    BY <1>15 DEF ToggleLock, SetLock, To, Step
  <2>2. \A c \in Sessions : Exists(c)' => Exists(c) \/ account
    BY <1>15 DEF ToggleLock, SetLock, To, Step
  <2> QED BY <2>1, <2>2 DEF Closed, Owned
<1>16. ASSUME NEW a \in Actors, CreateReport(a) PROVE Closed'
  <2>1. UNCHANGED <<account, library>>
    BY <1>16 DEF CreateReport, To, Step
  <2>2. \A c \in Sessions : Exists(c)' => Exists(c) \/ account
    BY <1>a, <1>16 DEF CreateReport, To, Step, ConversationTypes
  <2> QED BY <2>1, <2>2 DEF Closed, Owned
<1>17. ASSUME NEW a \in Actors, FillReport(a) PROVE Closed'
  <2>1. UNCHANGED <<account, library>>
    BY <1>17 DEF FillReport, UpsertTable, To, Step
  <2>2. \A c \in Sessions : Exists(c)' => Exists(c) \/ account
    BY <1>17 DEF FillReport, UpsertTable, To, Step
  <2> QED BY <2>1, <2>2 DEF Closed, Owned
<1>18. ASSUME NEW a \in Actors, WriteCsv(a) PROVE Closed'
  <2>1. UNCHANGED <<account, library>>
    BY <1>18 DEF WriteCsv, WriteFile, To, Step
  <2>2. \A c \in Sessions : Exists(c)' => Exists(c) \/ account
    BY <1>18 DEF WriteCsv, WriteFile, To, Step
  <2> QED BY <2>1, <2>2 DEF Closed, Owned
<1>19. ASSUME NEW a \in Actors, FindOwner(a) PROVE Closed'
  <2>1. UNCHANGED <<account, library>>
    BY <1>19 DEF FindOwner, Step
  <2>2. \A c \in Sessions : Exists(c)' => Exists(c) \/ account
    BY <1>19 DEF FindOwner, Step
  <2> QED BY <2>1, <2>2 DEF Closed, Owned
<1>20. ASSUME NEW a \in Actors, CountExports(a) PROVE Closed'
  <2>1. UNCHANGED <<account, library>>
    BY <1>20 DEF CountExports, Counted, RegisterFails, Unlink, To, Step
  <2>2. \A c \in Sessions : Exists(c)' => Exists(c) \/ account
    BY <1>20 DEF CountExports, Counted, RegisterFails, Unlink, To, Step
  <2> QED BY <2>1, <2>2 DEF Closed, Owned
<1>21. ASSUME NEW a \in Actors, RegisterExport(a) PROVE Closed'
  <2>1. ASSUME ~account PROVE Owned' \subseteq Owned
    BY <2>1, <1>21, RegisterExportDoes DEF Owned
  <2>2. UNCHANGED <<account, kind>>
    BY <1>21 DEF RegisterExport
  <2> QED BY <2>1, <2>2 DEF Closed
<1>22. ASSUME NEW a \in Actors, UnlinkCsv(a) PROVE Closed'
  <2>1. UNCHANGED <<account, library>>
    BY <1>22 DEF UnlinkCsv, Unlink, To, Step
  <2>2. \A c \in Sessions : Exists(c)' => Exists(c) \/ account
    BY <1>22 DEF UnlinkCsv, Unlink, To, Step
  <2> QED BY <2>1, <2>2 DEF Closed, Owned
<1>23. ASSUME NEW a \in Actors, LockSnapshot(a) PROVE Closed'
  <2>1. UNCHANGED <<account, library>>
    BY <1>23 DEF LockSnapshot, SetLock, To, Step
  <2>2. \A c \in Sessions : Exists(c)' => Exists(c) \/ account
    BY <1>23 DEF LockSnapshot, SetLock, To, Step
  <2> QED BY <2>1, <2>2 DEF Closed, Owned
<1>24. ASSUME NEW a \in Actors, DeleteExportRow(a) PROVE Closed'
  <2>1. UNCHANGED <<account, kind>> /\ \A n \in Names : library'[n] \in {None, library[n]}
    BY <1>24 DEF DeleteExportRow
  <2> QED BY <2>1 DEF Closed, Owned
<1>25. ASSUME NEW a \in Actors, UnlinkExport(a) PROVE Closed'
  <2>1. UNCHANGED <<account, library>>
    BY <1>25 DEF UnlinkExport, Unlink, To, Step
  <2>2. \A c \in Sessions : Exists(c)' => Exists(c) \/ account
    BY <1>25 DEF UnlinkExport, Unlink, To, Step
  <2> QED BY <2>1, <2>2 DEF Closed, Owned
<1>26. ASSUME NEW a \in Actors, DropConversation(a) PROVE Closed'
  <2>1. UNCHANGED <<account, library>>
    BY <1>26 DEF DropConversation, DeleteSession, To, Step
  <2>2. \A c \in Sessions : Exists(c)' => Exists(c) \/ account
    BY <1>a, <1>26 DEF DropConversation, DeleteSession, To, Step, ConversationTypes
  <2> QED BY <2>1, <2>2 DEF Closed, Owned
<1>27. ASSUME NEW a \in Actors, DropNext(a) PROVE Closed'
  <2>1. UNCHANGED <<account, library>>
    BY <1>27 DEF DropNext, DeleteSession, To, Step
  <2>2. \A c \in Sessions : Exists(c)' => Exists(c) \/ account
    BY <1>a, <1>27 DEF DropNext, DeleteSession, To, Step, ConversationTypes
  <2> QED BY <2>1, <2>2 DEF Closed, Owned
<1>28. ASSUME NEW a \in Actors, ReleaseLock(a) PROVE Closed'
  <2>1. UNCHANGED <<account, library>>
    BY <1>28 DEF ReleaseLock, To, Step
  <2>2. \A c \in Sessions : Exists(c)' => Exists(c) \/ account
    BY <1>28 DEF ReleaseLock, To, Step
  <2> QED BY <2>1, <2>2 DEF Closed, Owned
<1>29. ASSUME NEW a \in Actors, ListExports(a) PROVE Closed'
  <2>1. UNCHANGED <<account, library>>
    BY <1>29 DEF ListExports, Step
  <2>2. \A c \in Sessions : Exists(c)' => Exists(c) \/ account
    BY <1>29 DEF ListExports, Step
  <2> QED BY <2>1, <2>2 DEF Closed, Owned
<1>30. ASSUME NEW a \in Actors, DeleteUser(a) PROVE Closed'
  <2>1. UNCHANGED kind
    BY <1>30 DEF DeleteUser
  <2> QED BY <2>1, <1>30, DeleteUserDoes DEF Closed, Owned
<1>31. ASSUME NEW a \in Actors, UnlinkFiles(a) PROVE Closed'
  <2>1. UNCHANGED <<account, library>>
    BY <1>31 DEF UnlinkFiles, Unlink, To, Step
  <2>2. \A c \in Sessions : Exists(c)' => Exists(c) \/ account
    BY <1>31 DEF UnlinkFiles, Unlink, To, Step
  <2> QED BY <2>1, <2>2 DEF Closed, Owned
<1>32. CASE Restart
  BY <1>32 DEF Restart, Closed, Owned
<1>33. CASE UNCHANGED vars
  BY <1>33 DEF Closed, Owned
<1> QED
  BY <1>1, <1>2, <1>3, <1>4, <1>5, <1>6, <1>7, <1>8, <1>9, <1>10, <1>11,
     <1>12, <1>13, <1>14, <1>15, <1>16, <1>17, <1>18, <1>19, <1>20, <1>21,
     <1>22, <1>23, <1>24, <1>25, <1>26, <1>27, <1>28, <1>29, <1>30, <1>31,
     <1>32, <1>33 DEF Next, Begins, Chat, Work

--------------------------------------------------------------------------------
(* The invariant                                                                *)

\* The invariant holds at the start.
LEMMA InitEstablishes ==
    ASSUME Init
    PROVE  IInv
<1>1. \A b \in Actors : at[b] = "none" /\ run[b] = "none" /\ op[b] = "none" /\ ~frozen[b]
  BY DEF Init
<1>2. PlaceTypes /\ RequestTypes /\ LockTypes /\ FlagTypes
  BY DEF Init, PlaceTypes, RequestTypes, LockTypes, FlagTypes, RunLocation, Location
<1>3. ConversationTypes
  BY DEF Init, ConversationTypes, Content
<1>4. [by |-> Seed, owned |-> TRUE] \in Row /\ [by |-> Seed, owned |-> TRUE] # None
  <2>1. Seed \in Content /\ TRUE \in BOOLEAN
    BY DEF Content
  <2>2. [by |-> Seed, owned |-> TRUE] \in Row
    BY <2>1 DEF Row
  <2> QED BY <2>2, NoneIsNoRow
<1>5. ExportTypes
  BY <1>4 DEF Init, ExportTypes, Content
<1>6. TypeOK
  BY <1>2, <1>3, <1>5 DEF TypeOK, PlaceTypes, RequestTypes, ConversationTypes, LockTypes,
     ExportTypes, FlagTypes
<1>7. PlacesInv /\ MemoryInv /\ LockInv /\ FrozenInv
  BY <1>1 DEF PlacesInv, Placed, MemoryInv, Remembers, OfConversation, Naming, Registering,
     LockInv, FrozenInv, Inside
<1>8. MakingInv /\ RemovalInv /\ \A b \in Actors : \A n : ~Reads(b, n)
  BY <1>1 DEF MakingInv, RemovalInv, Reads, Registering
<1>9. UsedInv
  BY <1>8, NamesAssumption DEF Init, UsedInv, Names
<1>10. RowKeepsFile /\ OrphanFileExplained
  <2>1. [by |-> Seed, owned |-> TRUE].by = Seed
    OBVIOUS
  <2> QED BY <1>4, <2>1 DEF Init, RowKeepsFile, OrphanFileExplained
<1>11. RoomInv
  <2>1. Owned \subseteq OldNames /\ Counting = {}
    BY <1>1 DEF Init, Owned, Counting
  <2>2. IsFiniteSet(OldNames)
    BY NamesAssumption, FS_Subset
  <2>3. Cardinality(Owned) <= MaxExports
    BY <2>1, <2>2, FS_Subset, FS_CardinalityType, OwnedFinite, CapAssumption,
       MaxExportsAssumption
  <2> QED BY <2>1, <2>3 DEF RoomInv
<1>12. Closed
  BY DEF Init, Closed
<1> QED BY <1>6, <1>7, <1>8, <1>9, <1>10, <1>11, <1>12 DEF IInv

\* Every step keeps the invariant.
LEMMA StepPreserves ==
    ASSUME IInv, [Next]_vars
    PROVE  IInv'
<1>1. /\ TypeOK /\ PlacesInv /\ MemoryInv /\ LockInv /\ FrozenInv
      /\ UsedInv /\ MakingInv /\ RemovalInv /\ RowKeepsFile
      /\ OrphanFileExplained /\ RoomInv /\ Closed
  BY DEF IInv
<1>2. TypeOK' /\ PlacesInv' /\ MemoryInv'
  BY <1>1, TypeStep, PlacesStep, MemoryStep
<1>3. LockInv' /\ FrozenInv'
  BY <1>1, LockStep, FrozenStep
<1>4. UsedInv' /\ MakingInv' /\ RemovalInv'
  BY <1>1, UsedStep, MakingStep, RemovalStep
<1>5. RowKeepsFile' /\ OrphanFileExplained'
  BY <1>1, RowKeepsFileStep, OrphanStep
<1>6. RoomInv' /\ Closed'
  BY <1>1, RoomStep, ClosedStep
<1> QED BY <1>2, <1>3, <1>4, <1>5, <1>6 DEF IInv

\* The inductive invariant holds of every behaviour of the workspace.
THEOREM InvariantHolds == Spec => []IInv
BY InitEstablishes, StepPreserves, PTL DEF Spec

\* Every variable keeps its type; a table belongs to a conversation, a locked flag to a table.
THEOREM TypeCorrect == Spec => []TypeOK
<1>1. IInv => TypeOK
  BY DEF IInv
<1> QED BY <1>1, InvariantHolds, PTL

\* The session lock keeps the runs of a conversation apart, until a deletion drops
\* the lock from the registry (RuntimeStore.lock, _release_lock).
THEOREM RunsExcludeEachOther == Spec => []OverlapOnlyAfterDelete
<1>1. IInv => OverlapOnlyAfterDelete
  BY DEF IInv, LockInv, OverlapOnlyAfterDelete
<1> QED BY <1>1, InvariantHolds, PTL

\* No failure, removal, sweep or closed account takes the file of an export that is
\* still listed (register_export, delete_export, delete_account, _sweep_orphan_exports).
THEOREM RowsKeepFiles == Spec => []RowKeepsFile
<1>1. IInv => RowKeepsFile
  BY DEF IInv
<1> QED BY <1>1, InvariantHolds, PTL

\* No file is forgotten on disk, the known exceptions aside.
THEOREM NoFileForgotten == Spec => []OrphanFileExplained
<1>1. IInv => OrphanFileExplained
  BY DEF IInv
<1> QED BY <1>1, InvariantHolds, PTL

\* MAX_EXPORTS_PER_USER is exceeded only by exports counted in parallel.
THEOREM CapHolds == Spec => []LibraryWithinCap
<1>1. RoomInv => LibraryWithinCap
  BY OwnedFinite, MaxExportsAssumption DEF RoomInv, LibraryWithinCap
<1>2. IInv => LibraryWithinCap
  BY <1>1 DEF IInv
<1> QED BY <1>2, InvariantHolds, PTL

\* A deleted account leaves no export, conversation or table behind.
THEOREM NothingLeftBehind == Spec => []ClosedAccountOwnsNothing
<1>1. IInv => ClosedAccountOwnsNothing
  BY DEF IInv, Closed, TypeOK, ClosedAccountOwnsNothing
<1> QED BY <1>1, InvariantHolds, PTL

\* Who writes a table: the request past the check, or the one that made it.
LEMMA TableWriters ==
    ASSUME TypeOK, PlacesInv, MemoryInv, [Next]_vars, NEW a \in Actors, NEW c \in Sessions,
           table'[c] = a, table[c] # a
    PROVE  (at[a] = "persist" /\ arg[a] = c) \/ (at[a] = "fill" /\ c \in note[a])
<1>a. a # None /\ table \in [Sessions -> Content \cup {None}]
  BY NoneAssumption DEF TypeOK
<1>1. ASSUME NEW b \in Actors, BeginChat(b) PROVE FALSE
  BY <1>1 DEF BeginChat
<1>2. ASSUME NEW b \in Actors, BeginTable(b) PROVE FALSE
  BY <1>2 DEF BeginTable
<1>3. ASSUME NEW b \in Actors, BeginDelete(b) PROVE FALSE
  BY <1>3 DEF BeginDelete
<1>4. ASSUME NEW b \in Actors, BeginRemove(b) PROVE FALSE
  BY <1>4 DEF BeginRemove
<1>5. ASSUME NEW b \in Actors, FindSession(b) PROVE FALSE
  BY <1>5 DEF FindSession
<1>6. ASSUME NEW b \in Actors, CreateSession(b) PROVE FALSE
  BY <1>6 DEF CreateSession
<1>7. ASSUME NEW b \in Actors, SessionLock(b) PROVE FALSE
  BY <1>7 DEF SessionLock
<1>8. ASSUME NEW b \in Actors, Enter(b) PROVE FALSE
  BY <1>8 DEF Enter
<1>9. ASSUME NEW b \in Actors, CreateUserTurn(b) PROVE FALSE
  BY <1>9 DEF CreateUserTurn
<1>10. ASSUME NEW b \in Actors, FinishRun(b) PROVE FALSE
  BY <1>10 DEF FinishRun
<1>11. ASSUME NEW b \in Actors, CallTool(b) PROVE FALSE
  BY <1>11 DEF CallTool
<1>12. ASSUME NEW b \in Actors, CancelRun(b) PROVE FALSE
  BY <1>12 DEF CancelRun
<1>13. ASSUME NEW b \in Actors, CheckLocked(b) PROVE FALSE
  BY <1>13 DEF CheckLocked
<1>14. ASSUME NEW b \in Actors, PersistTable(b) PROVE (at[a] = "persist" /\ arg[a] = c)
  <2>1. at[b] = "persist" /\ \E d : d = arg[b] /\ table' \in {table, [table EXCEPT ![d] = b]}
    BY <1>14 DEF PersistTable, UpsertTable
  <2>2. PICK d : d = arg[b] /\ table' = [table EXCEPT ![d] = b]
    BY <2>1
  <2>3. b = a /\ d = c
    BY <1>a, <2>2
  <2> QED BY <2>1, <2>2, <2>3
<1>15. ASSUME NEW b \in Actors, ToggleLock(b) PROVE FALSE
  BY <1>15 DEF ToggleLock
<1>16. ASSUME NEW b \in Actors, CreateReport(b) PROVE FALSE
  BY <1>16 DEF CreateReport
<1>17. ASSUME NEW b \in Actors, FillReport(b) PROVE (at[a] = "fill" /\ c \in note[a])
  <2>1. at[b] = "fill" /\ \E d : d \in note[b] /\ table' \in {table, [table EXCEPT ![d] = b]}
    BY <1>17 DEF FillReport, UpsertTable
  <2>2. PICK d : d \in note[b] /\ table' = [table EXCEPT ![d] = b]
    BY <2>1
  <2>3. b = a /\ d = c
    BY <1>a, <2>2
  <2> QED BY <2>1, <2>2, <2>3
<1>18. ASSUME NEW b \in Actors, WriteCsv(b) PROVE FALSE
  BY <1>18 DEF WriteCsv
<1>19. ASSUME NEW b \in Actors, FindOwner(b) PROVE FALSE
  BY <1>19 DEF FindOwner
<1>20. ASSUME NEW b \in Actors, CountExports(b) PROVE FALSE
  BY <1>20 DEF CountExports, Counted
<1>21. ASSUME NEW b \in Actors, RegisterExport(b) PROVE FALSE
  BY <1>21 DEF RegisterExport
<1>22. ASSUME NEW b \in Actors, UnlinkCsv(b) PROVE FALSE
  BY <1>22 DEF UnlinkCsv
<1>23. ASSUME NEW b \in Actors, LockSnapshot(b) PROVE FALSE
  BY <1>23 DEF LockSnapshot
<1>24. ASSUME NEW b \in Actors, DeleteExportRow(b) PROVE FALSE
  BY <1>24 DEF DeleteExportRow
<1>25. ASSUME NEW b \in Actors, UnlinkExport(b) PROVE FALSE
  BY <1>25 DEF UnlinkExport
<1>26. ASSUME NEW b \in Actors, DropConversation(b) PROVE FALSE
  <2>1. UNCHANGED table \/ \E d : table' = [table EXCEPT ![d] = None]
    BY <1>26 DEF DropConversation, DeleteSession
  <2> QED BY <1>a, <2>1
<1>27. ASSUME NEW b \in Actors, DropNext(b) PROVE FALSE
  <2>1. UNCHANGED table \/ \E d : table' = [table EXCEPT ![d] = None]
    BY <1>27 DEF DropNext, DeleteSession
  <2> QED BY <1>a, <2>1
<1>28. ASSUME NEW b \in Actors, ReleaseLock(b) PROVE FALSE
  BY <1>28 DEF ReleaseLock
<1>29. ASSUME NEW b \in Actors, ListExports(b) PROVE FALSE
  BY <1>29 DEF ListExports
<1>30. ASSUME NEW b \in Actors, DeleteUser(b) PROVE FALSE
  BY <1>30 DEF DeleteUser
<1>31. ASSUME NEW b \in Actors, UnlinkFiles(b) PROVE FALSE
  BY <1>31 DEF UnlinkFiles
<1>32. CASE Restart
  BY <1>32 DEF Restart
<1>33. CASE UNCHANGED vars
  BY <1>33
<1> QED
  BY <1>1, <1>2, <1>3, <1>4, <1>5, <1>6, <1>7, <1>8, <1>9, <1>10, <1>11, <1>12, <1>13,
     <1>14, <1>15, <1>16, <1>17, <1>18, <1>19, <1>20, <1>21, <1>22, <1>23, <1>24, <1>25,
     <1>26, <1>27, <1>28, <1>29, <1>30, <1>31, <1>32, <1>33 DEF Next, Begins, Chat, Work

\* set_table and the SQL editor do not write a table that has been locked since before
\* they read the flag.
THEOREM LockedTablesStay == Spec => LockRespected
<1>1. ASSUME IInv, [Next]_vars, NEW a \in Actors, NEW c \in Sessions,
             arg[a] = c, table'[c] = a, table[c] # a
      PROVE  ~frozen[a]
  <2>1. TypeOK /\ PlacesInv /\ MemoryInv /\ FrozenInv
    BY <1>1 DEF IInv
  <2>2. at[a] = "persist" \/ (at[a] = "fill" /\ c \in note[a])
    BY <1>1, <2>1, TableWriters
  <2>3. ~(at[a] = "fill" /\ c \in note[a])
    BY <1>1, <2>1 DEF MemoryInv, Remembers
  <2> QED BY <2>1, <2>2, <2>3 DEF FrozenInv
<1>2. IInv /\ [Next]_vars =>
         [\A a \in Actors, c \in Sessions :
            (arg[a] = c /\ table'[c] = a /\ table[c] # a) => ~frozen[a]]_vars
  BY <1>1
<1> QED BY <1>2, InvariantHolds, PTL DEF Spec, LockRespected

================================================================================
