# Verification of the NFL AI agent

TLA+ modules, TLC runs and TLAPS proofs about this repository: a FastAPI server on one
asyncio event loop, with its state in SQLite and the football data in a read-only
DuckDB, which drives tool-calling conversations with an LLM provider and streams them to
a React page. Paths below are relative to `src/`; `backend/` is meant where no other
root is given.

- [1. The system](#1-the-system)
- [2. The modules](#2-the-modules)
- [3. The runs](#3-the-runs)
- [4. The proofs](#4-the-proofs)
- [5. Where code and documentation disagree](#5-where-code-and-documentation-disagree)
- [6. Observations](#6-observations)
- [7. What is not modelled](#7-what-is-not-modelled)
- [8. Plan](#8-plan)

To check: `tlc -workers 2 -config <run>.cfg <module>.tla` for a run of section 3,
`tlapm <module>Proofs.tla` for the proofs of section 4 (`TurnLifecycleProofs`,
`StreamTransportProofs`, `WorkspaceProofs`, `AccountsProofs`, `CredentialsProofs`,
`CompactionProofs`, `HelperChatProofs`, `ChatStoreProofs`).

## 1. The system

| Part | State | Operations | Talks to |
|---|---|---|---|
| Chat turns (`domain/agent/runtime.py`, `turn.py`, `stream_phase.py`) | one `Turn` per posted message: iteration, text buffer, active tool runs, overflow flags | open, stream, record a tool call, execute tools, complete, mark an error, clean up | the transcript store, a provider client, tools, compaction |
| Transcript store (`data/store.py`, `data/repositories/conversations/`) | session, turn, part, tool-run, summary and table rows; a registry of session locks | one transaction per method; reconciliation at startup | SQLite |
| Compaction and prompt (`domain/agent/compaction/`, `message_builder.py`) | `compacted` flags, memos | prune results, summarise a prefix, build the request | the transcript store, a summarising model |
| Stream transport (`server/sse.py`, `api/routes/chat.py`, `runtime_state.py`, `server/rate_limit.py`) | queue, producer task, cancel event, slot count, drain tasks | stream, stop, disconnect, detach, drain at SIGTERM | the event source of a turn |
| Workspace (`data/repositories/exports.py`, `.../table_states.py`, `.../sessions.py`, `application/{tables,exports,conversations,auth}.py`, three tools) | tables and their locks, the export library, CSV files | edit, lock, save, export, delete; close the account | the store, the file system, worker threads |
| Accounts and identities (`application/auth.py`, `domain/auth/`, `data/repositories/users/`, `application/oauth/google.py`) | users, sessions, failures and lock-outs, tokens, identities | register, log in, change, reset, verify, link, unlink | the store, mail, Google |
| Codex credentials (`application/oauth/codex.py`, `domain/auth/codex_oauth.py`) | encrypted bundles, pending device flows, per-user refresh locks | start, poll, cancel, refresh, disconnect | OpenAI |
| Provider clients (`domain/providers/`) | one HTTP stream, partial tool calls, usage | stream, retry, translate errors | Anthropic, OpenAI, ChatGPT |
| Tools and SQL sandbox (`domain/tools/`) | none (a read-only database) | query, schema, guides, charts | worker threads |
| Helper chat, database browser (`application/db_helper_chat.py`, `domain/agent/stateless.py`, `application/database.py`, `dbHelperChat.ts`) | the conversation, in the browser | send, stop, clear, reload; read-only browsing | the same transport |
| Frontend stores (`frontend/src/lib/state/`, the effects of `App.tsx`) | the URL, one transcript, one stream status, abort and stream-id references | navigate, send, stop, load, new conversation | the API |

How they interact: a request prepares a client and a session row
(`application/chat.py`), the route wraps `run_session` in the SSE transport, a
producer task iterates it and a consumer loop writes frames. `run_session` takes
the lock of its session, writes the user turn and iterates: compact, open an
assistant turn, stream the provider, complete the turn, run its tools in worker
threads, go on. Tools of a table chat write back through the event loop. Stop and
disconnects reach the producer as task cancellations.

What is hard about it, and where it is looked for:

| Difficulty | Where |
|---|---|
| cancellation at any await of a turn, also inside its own cleanup | `TurnLifecycle`, `StreamTransport` |
| parallel tool tasks, one of which fails | `TurnLifecycle` |
| process death between two commits; reconciliation; orphan files | `TurnLifecycle`, `Workspace` |
| who owns a slot, a client, a producer while the client comes and goes | `StreamTransport` |
| reads and writes split over transactions (lock flag, cap, deletion) | `Workspace` |
| threads that outlive the run that started them | `Workspace` |
| a growing conversation against a fixed window, in the middle of an answer | `Compaction` |
| passwords, sessions, lock-outs, links and identities against concurrent requests, each a chain of transactions | `Accounts` |
| a refresh in flight against a disconnect, a new link, a cancelled flow, a restart | `Credentials` |
| retries, and tool calls in pieces that may be cut anywhere | `ProviderStream` |
| a history rebuilt by the browser from what it saw, for another provider than last time | `HelperChat` |
| answers that arrive after the user moved on; references read after a render | `ChatStore` |

`PROJECT.json` lists every hazard at its line.

## 2. The modules

All modules take one atomic step from one `await` to the next, because the
program is one event loop: between two awaits nothing else runs. A store method
is one transaction, so it is one step. What runs in parallel is a worker thread,
whose every call back into the loop is a step of its own. The browser is the same: a
step is what happens between two awaits, and a render of React is a step.

### `TurnLifecycle` — chat turns

The runs (posted messages) of one session. `pc[r]` names the await a run is
suspended at; the groups `Outside`, `Body`, `Handler`, `Cleanup` are the code
before the `try`, inside it, in an `except` branch and in the `finally`.

| State | Code |
|---|---|
| `lock` | `RuntimeStore.lock(session_id)` |
| `iter`, `forced`, `overflowUsed`, `history`, `calls`, `buf` | the fields of `Turn` and its `_TextBuffer` |
| `turn`, `saved`, `tool` | status and text of `TurnRecord`, status of `ToolRunRecord` |
| `task` | the children of `asyncio.gather` in `execute_tools` |
| `outcome` | how the run ended, or the exception in flight; a run cancelled while no turn was active is `dropped`, one whose `finally` block did not come to its end is `cut` |
| `streamed`, `cancels`, `faults`, `kills`, `up` | history and bounds |

| Actions | Code |
|---|---|
| `Submit`, `AcquireLock`, `CreateUserTurn`, `StartLoop`, `Compact`, `OpenAssistantTurn` | `run_session` up to the stream |
| `TextDelta`, `Flush`, `ToolUse`, `CreateToolRun`, `AddCallPart` | `record_text_delta`, `record_tool_call` |
| `StreamEnd`, `CompleteTurn`, `GatherDone`, `TaskStep` | `complete_assistant_turn`, the doom-loop check, `execute_tools`, `_execute_one_tool` |
| `ProviderError`, `MarkError`, `GatherRaise`, `TaskFail`, `StoreFail` | the three `except` branches, and a store call that raises |
| `Cancel`, `InterruptTurn`, `CheckTool`, `InterruptTool` | `CancelledError` at an await (its transaction committed or not), the `finally` and `cleanup_interrupted_assistant_turn` |
| `Kill`, `Restart` | death of the process, `_reconcile_interrupted_runs_sync` |

`SessionSerial` is the abstract specification: a session serves its messages one
at a time and serves each to an end. `TurnLifecycle` implements it under the
mapping `holder <- lock`, `phase <- Phase(pc)`.

### `StreamTransport` — the SSE transport

Streams of one user over several sessions. `gen[s]` is where the response
generator is suspended, `drain[s]` where the background task is that a dropped
connection leaves behind: two tasks, each with its own way through the cleanup, and
`detached[s]` the flag by which they agree whose it is. `prod[s]` is the producer with
the `run_session` under it, reduced to what `TurnLifecycle` shows of it: it waits for
the session lock (`wait`); between two assistant turns it stores, compacts and opens the
next one (`between`), where a cancellation starts no cleanup although the row it was
creating may be committed; with a turn in hand (`run`) a cancellation or a failing store
call starts the `finally` block (`cleanup`), where another one ends it. `turn[s]` is the
latest assistant row. `queue`, `watcher`, `stopSet`, `registry`, `active`, `slot`,
`client` are the objects of `sse.py`, `runtime_state.py` and `rate_limit.py` of those
names; like the limiter, `ReleaseSlot` takes every release on trust. `hits`, `faults`,
`freed` and `events` are history. The environment stops, disconnects, cancels the
response task and sends SIGTERM at any time.

### `Workspace` — conversations, tables, exports, account

Requests (`Actors`) of one user. `run[a]` is the await of a chat request up to and
inside `run_session`, `at[a]` that of any other request, or of the worker thread
of the chat's tool, which a cancelled run leaves behind. `registry` and `holder`
are the lock registry of `RuntimeStore`, with a lock named after the run that
made it. `uses`, `parallel`, `gone`, `frozen` and `crashed` are history: they
only let the invariants say what excuses an exception. Actors arrive at their
first read (the `Begin...` actions); a request that is refused there changes
nothing and is left out.

### `Compaction` — memory and prompt

One conversation: `turns` is its transcript, with the size, the tool runs and the
`compacted` flags of each turn, and for a memo its sources. `pc` names the phase
of `compact_if_needed` between two store calls. `Check`, `MarkRun`, `Pruned`,
`Select`, `RecordCompaction`, `Trim`, `TimeOut` are the function; `Post`,
`Answer`, `Overflow`, `Break`, `Abandon` are the run around it.
`BuildModelMessages` is the request built from the rows. Sizes are small numbers,
memos have a fixed size, and the statuses error, interrupted and pending are one
(`failed`), because all keep a short result and none is pruned.

### `Accounts` — users, sessions, identities

Requests of `AuthService`, `GoogleOAuthService` and `resolve_oauth_signin`, each a
chain of store calls: `at[r]` is the one it is suspended at, `mem[r]` what it has read
and goes on using. The `Begin...` actions are the routes, the other actions the
transactions, several of which serve more than one operation (`InsertSession`,
`MarkUser`, `Revoked`). A password, a session and a link are named after the request
that made them, so that a property can say which password a session was opened under;
`late` marks a row written for an account whose id had been given to a new one in
between. `LockExpires` and `WindowElapses` are the clock, `Restart` the process with
the housekeeping of its start. `raced`, `contested`, `displaced`, `paired`,
`leaderless`, `redeemed`, `applied`, `unwritten`, `crashed` are history.

A store call of these chains that fails ends its request, and the next transaction of
the chain is not made. A reset may fail at each call after its link is consumed
(`FindAccount`, `UpdatePassword`: the read, the hash, the write); elsewhere a chain ends
early only by the death of the process, which ends all that are under way.

### `Credentials` — the ChatGPT connection

`Requests` resolve an access token (`Load`, `Acquire`, `Reload`, `Answer`, `Write` are
the awaits of `resolve_access_token`); `Flows` are device flows, whose background tasks
authorise, resolve a sign-in, store the bundle and record the event. `stored` is the
bundle; a refresh token is named after the authorisation it descends from and its place
in the chain of rotations. The provider, which is external, may rotate the token or
not, refuse, or answer into the void. The user starts, polls, cancels, disconnects and
closes the account; `Restart` loses the records and the tasks. An expired flow and one
that failed are the same `failed`; the poll and the exchange that follows it are one
step, `Authorise`.

### `ModelStream`, `ProviderStream`, `HelperChat` — the providers and a chat over them

`ModelStream` is what `BaseLLMClient.stream_message` promises to both agent loops:
retries before any content, then calls each once and with their own arguments or none,
then an end or an error; an overflow only before content. `ProviderStream` is the retry
loop over the three clients: `Provider` is the environment, which sends any legal
sequence of events of its wire format and may fail or fall silent anywhere; `acc` is
the buffer each client puts calls together in. `HelperChat` runs it under
`run_stateless_turn` and the store of the browser: `view` is the conversation the
browser shows, `ToWire` and `Wired` what it posts and what the server makes of it, and
`AnthropicMessages`, `Converted`, `CodexItems` what each provider is sent. Clients may
change between messages. An event reaches the browser in the step that yields it.
`TurnLifecycle` uses the same promise: its stream yields text and calls, retries,
errors and overflows as `ModelStream` does.

### `ChatStore` — the browser

`surface` is the URL, `chat` the reducer's state, `rendered` what `stateRef` and the
page show of it. `Render` is React's: it runs the effects of `App.tsx` on the state it
rendered (load a conversation, drop one, promote the URL of a new chat, leave a URL no
list holds), which may ask for another render. A click renders in its own task, so
`Send` and `Goto` renew `rendered`, or oblige a render before the next click; an event
of a stream does not. `stream[s]` is one call of `send`: open, aborted, fetching the
transcript again, fetching the list, over. A transcript is a set of origins, because
the question is whose turns are on the page.

## 3. The runs

| Run | Question | Bounds |
|---|---|---|
| `TurnAlone` | Does one message, through text, tools, errors, cancellations, a failing store call and a crash, leave rows that can be explained and used? | 1 run, 3 iterations, 2 deltas, 2 calls, 2 cancellations, 1 fault, 1 kill |
| `TurnsContend` | Are two messages to a session served one at a time, and does each end? | 2 runs, 2 iterations, 1 call, 1 cancellation each, 1 kill |
| `Streams` | Are slots counted right, why is a turn interrupted and when is its row left running, does Stop end a source that hangs, is every request over in the end? | 2 requests, 1 session, 1 slot, 1 iteration, 1 event, 1 cancelled response task, 1 source with failing store calls (1.4 million states) |
| `Workspace` | Which rows, files and locks survive three concurrent requests and a crash? | 3 requests, 1 old and 1 new conversation, 2 file names, a cap of 1 |
| `Compaction` | What is summarised, what stays, and what is sent? | 6 turns, 4 iterations, 2 calls per answer, 2 raw results, floor 2 |
| `Accounts` | Which sessions, links, identities and lock-outs survive requests that interleave at every transaction? | 3 requests, 2 of them at a time, 2 addresses, 2 ids, lock-out at 2 failures (1.2 million states) |
| `Credentials` | Whose tokens are stored and sent, and what becomes of a flow and its session? | 2 requests, 1 flow to connect and 1 to sign in (560 000 states) |
| `HelperChat` | Are calls whole, retries invisible, and every call in a request answered? | 3 clients, 2 messages, 2 iterations, 2 calls per answer, 2 attempts, 4 calls in all (250 000 states) |
| `ChatStore` | What does the page show when all is quiet, and what does Stop cancel? | 2 old and 2 new conversations, 2 messages, 2 navigations after the first page (2.6 million states) |
| `StopMisses`, `StopThenAbort`, `PrunedCalls` | the disagreements of section 5 | small instances that show them |

Why the bounds are enough. The doom-loop window and the flush threshold are 3 and 2
so that both sides of each are met within an iteration. Two cancellations reach
the cleanup of the first one, which is the deepest a cancellation goes: the
cleanup is not itself guarded, so a third finds the run ended. Three iterations
give a retry something before and something after it. `Streams` has a single
slot, so that the second request is refused, or comes after the first with what that
one left behind. Events only matter to the consumer's loop and one passes through each
of its branches; `MaxEvents`, `MaxAborts` and `MaxFaults` bound all streams together. Two
streams at once on one conversation are the instance of `StopMisses`; that such waiters
are served and end is checked by `TurnsContend`, and the proofs of section 4 hold for
any number of slots and streams.
Three requests let a third one interfere with two that race. `Accounts` needs the third request for what a race leaves behind, and serves
two at a time because every hazard of its code is between one read and one write of
another. Two refreshes are the fewest that wait for each other, and a flow to connect
and one to sign in write the same row. A second message to the helper is the first to
post a history, its second iteration the first to follow results. Two messages and
three pages let an answer be late for the page after the next. Six turns allow two memos
in one conversation. No bound is hidden:
each is a constant of its module, with its meaning in the comment.

`CHECK_DEADLOCK FALSE` everywhere: all requests may have been served, a user may have
no moves left, and a transcript of `MaxTurns` is full. `TypeOK` of a module is used by
its proofs where it has any; no run lists it, because a value of the wrong kind would
show as an error of the other properties.

Fairness, only where liveness is checked:

- `TurnLifecycle`: weak fairness of each run and each tool task. A ready coroutine
  is run by the event loop, a tool handler ends (a timer interrupts a long query,
  `domain/tools/sandbox/runner.py`), a provider stream ends or raises (its HTTP
  client times out).
  Nothing obliges a user to post or anything to fail.
- `StreamTransport`, `FairSpec`: the same for the generator, the drain and the watcher,
  and of the producer only for what is its own: the free lock it waits for and the
  cleanup after a cancellation. A provider may hang, neither answering nor failing, and
  `StopEndsGeneration` must hold all the same. `EveryStreamEnds` assumes in its premise
  (`SourcesEnd`) that no source hangs. Both say that the requests, which are finitely many
  and never start again, do not stay unfinished for good.

- `Credentials`: weak fairness of each request past its first read and of each flow's
  task. The lock is granted in turn, a poll ends within its fifteen minutes, `httpx` and
  SQLite have timeouts. No user need start, poll, cancel or disconnect.
- `HelperChat`: weak fairness of the server and its provider, which a timeout of the SDK
  or of `httpx` ends when it hangs. No user need send or stop.

What each property says is at its definition; every one is violated by at least
one mutant of a modelled definition (`PROJECT.json`, `mutants`).

## 4. The proofs

A run shows a property on a small instance; a theorem shows it for every number of
requests, streams, flows, conversations and accounts, and every value of the bounds.
Every specification is proved about: `ProviderStream` and `ModelStream` in
`HelperChatProofs`, `SessionSerial` in `TurnLifecycleProofs`. In each
proof module `InvariantHolds` is `Spec => []IInv` for an inductive invariant that TLC
checked on the instance of the run before it was proved, `TypeCorrect` is
`Spec => []TypeOK`, and the other theorems follow from `IInv`, or from
`IInv /\ [Next]_vars => [A]_vars` for an action property `A`. A proof has one step per
action, and lemmas for what several actions do alike (a helper, a move of one request, a
table nobody writes).

### Assumptions

All are named in the modules that declare the constants, and TLC evaluates them.

- Turns: at least one iteration, one call in a window and one delta per flush; the free
  lock is not a run. The set of runs may be infinite.
- Transport: at least one slot; finitely many streams, because the limiter's counter is
  a cardinality.
- Workspace: a cap of at least one export; old and new file names differ and are finitely
  many; `None` is no row; the library starts within its cap (`CapAssumption`): a library
  starts empty, and `MAX_EXPORTS_PER_USER` is a constant.
- Accounts: ids are finitely many positive numbers, a lock-out takes at least one failure,
  Google is a provider and a password is not, `None` is no request, e-mail, id or row.
- Credentials: a flow connects or signs in, the first authorisation is not a flow's, `None`
  is no request and no bundle.
- Compaction: sizes are natural numbers; floor, retained results, calls and iterations are
  at least one, the floor at least two (`HARD_KEEP_FLOOR_TURNS` is 3; a refused attempt
  would fill a floor of one, and its question could be summarised away); the cap of raw
  turns is no lower than the floor (`MAX_RECENT_RAW_TURNS`).
- Providers: the clients are among the three, at least one attempt, `None` is no call.
  Nothing is assumed of the provider: how many calls an answer has, where they are cut,
  where it fails.
- Helper chat: at least one iteration, one message and one call (its bounds; the theorems
  hold for every value).
- Browser: conversations, streams and `None` are different things.

### `TurnLifecycleProofs`

- `TypeCorrect`: action by action from lemmas about the helpers (`Write`, `Goto`, `End`,
  `Raise`, `NextIteration`, `SweepFrom`).
- `LockHeldByOneRun`: `MutualExclusion`; inductive with `TypeOK`.
- `RefinesSerial`: `Spec => Serial!Spec`; every step inside the session is a stutter
  of the abstract one, acquiring the lock is `Begin`, and every way out — return,
  error, cancellation, kill — is `Finish` or `Abandon`.

None of the row properties is inductive: that a completed turn holds all its text
says nothing about the buffer, the tasks or the place the run is at. `IInv` adds
to `TypeOK` and `MutualExclusion`, for every run, what its location says about

- the loop (`LoopInv`) and why it unwinds,
- the turn rows behind, at and ahead of the current iteration (`TurnRowInv`,
  `RetryRowInv`),
- the text: saved and buffered make streamed (`TextRowInv`),
- the gather children (`TaskRowInv`) and the tool rows they work on (`ToolRowInv`),

and, for every call, what its child has recorded by where the child stands, that the
cleanup leaves a call behind it unsettled only to a child that outlives its gather, and
what a run that is over has left of its calls (`LeftInv`, in the proof `ChildRow`,
`SweepRow` and `EndRow`).

Each part speaks about one run, which gives the proof its shape: lemma
`OthersKeepInv` shows that a step of one run preserves the parts of all others,
the `...Keeps` lemmas do the acting run, one per action, and `InvariantHolds` puts
them together; `OwnLeft`, `ChildStep` and `OthersLeft` do the same for the calls. From
it follow `CallsAreAnswered`, `UnsettledToolsExplained`, `TextIsWhole`, `RetriesOnce`,
`RunningTurnsExplained`, and the action properties `TurnRowsMoveForward`,
`ToolRowsStayFinal`, `RowsWrittenUnderLock`. `TurnRowsForward` is proved only: no run lists it.

What these exclude is meant to be exact. A row stays running only of a run that was
`dropped` or `cut`, not of any cancelled one. A completed turn may become an error,
which the code does (doom loop, length stop, failing child), and nothing else. A settled
tool row changes only after a failed store call, and then only as the two races of a
child that outlives its gather with the cleanup change it; `LeftInv` is there to show
that there is no third.

### `StreamTransportProofs`

Who holds what is decided by where four tasks stand: generator, producer, watcher, drain.
`SlotsCounted` says that the limiter's counter is the number of streams that took a slot
and have not released it, over a release that guards nothing: to preserve it, the places
at which a generator or a drain still owes its release are needed (`GeneratorInv`), that
at most one of the two ever is at one, and that none is there twice; these depend on
whether the drain took the cleanup over, hence on the producer (`ProducerInv`: what it
has done to its turn and who cancelled it, where). `LockInv` and `RegistryInv` tie the
lock and the registered cancel event to the stream that put them there; `QueueInv` says
that the marker of the end is the last item a producer queues and there as long as the
consumer may wait for it. Theorems: `SlotsAreCounted`, `NothingHeldAtTheEnd`,
`OnlyRequestsInterrupt`, `TurnsAreSettled`, `OneProducerPerSession`, `ConsumersSeeTheEnd`.
The last two are stated here and are no property of a run; the last is the safety half
of `EveryStreamEnds`.

`TurnsAreSettled` names the ways a row stays running under a live process: a cancellation
that struck between two turns, while `create_turn` was awaited, one that struck the
cleanup of another, or a failing store call. A single cancellation is enough for the
first.

### `WorkspaceProofs`

Every exception of the workspace is a request that goes on with what it has read, so the
invariant is mostly about requests between two of their calls: where an operation can
stand (`PlacesInv`) and what it then remembers (`MemoryInv`), that a run waits for the
lock of the registry or for one a deletion dropped (`LockInv`), that a request past the
check of a locked table will not write it (`FrozenInv`), that a name is old or was given
to an export (`UsedInv`), that an export in the making has its file, and its name to
itself (`MakingInv`), that whoever is about to unlink has removed the row (`RemovalInv`),
that whoever was counted alone finds room (`RoomInv`), and that a closed account owns
nothing (`Closed`). Theorems: `RunsExcludeEachOther`, `RowsKeepFiles`, `NoFileForgotten`,
`CapHolds`, `NothingLeftBehind`, and the action property `LockedTablesStay`.

### `AccountsProofs`

`MemInv` is the chain of each operation: at which calls it can wait, and which of its
memory (e-mail, account, link, failures) it then relies on. Upon it stand the statements
about rows: they are those of the account that has the id, or marked late
(`RowsOfTheirAccount`); a session outlives its password only while the request that
changed it is about to revoke it (`SessionInv`); a link is redeemed once and its request
is on its way (`LinkInv`); an account that registered has a password, and one that unlinks
Google another way in (`WayInv`); a registration that saw no users is the first or had
company (`LeadInv`); nobody knows an account before it is created (`FreshInv`,
`FlowsInv`). Theorems: `FailuresAreLocked`, `TheFirstLeads`, `LinksAreHonoured`,
`OldPasswordsOpenNothing`, `RowsBelong`, `AWayInRemains`.

The attempt corrected the model. `AlwaysAWayIn` held on the instance and was not an
invariant: `unlink` lists the identities of a user id and deletes one in a later call. If
the account is closed in between and its id given to another, the deletion can take the
only identity of the new account, which takes more requests than the run serves. `users.id`
is not `AUTOINCREMENT`, so the code can do this. `displaced` names the accounts it
happened to, and the property excepts them.

### `CredentialsProofs`

`LockInv` (a request past the acquisition holds the user's lock) and `FreshInv` (what the
holder has read is no newer than what is stored) say that refreshes do not overlap; with
`TokenInv` (no token that was rotated away is younger than the stored bundle or a bundle
somebody still has to send, unless its successor was lost) this gives
`SpentTokensNotSent`. `IntentInv` follows what the user asked for last through requests in
flight: `UserActionWins`. `FlowInv` relates record, task, session and origin of a device
flow: `SessionsHandedOver`, and the action property `CancelledFlowsStayOut`.

### `CompactionProofs`

No sum of sizes is ever opened: the theorems hold whatever turns and results weigh and
whatever the summariser makes of them. `MemoInv` and `SourceInv` say that memos are raw
and that each turn that has left the prompt is a source of exactly one; `PrefixInv` that
these turns are the oldest; `FloorInv` that each left behind a floor of newer ones, which
later turns only widen. They are not inductive without `ChosenInv`: what is being
summarised, while the summariser is asked and the transcript does not change, is raw, the
oldest part of the prompt, and behind the floor (lemma `SourceTurnsOldest`, about the
retention walk). `PruneInv` does the same for results (lemma `StaleRunsStale`). Theorems:
`MemosCover`, `QuestionStays`, and `OnlyStalePruned`, which is the part of
`UnansweredCallPruned` that is about rows. That every call that is sent has its result
behind it is not a theorem: the code breaks it (section 5). `UnansweredPruned` is what
can be said instead, that a result is missing only where pruning took it. `CompactedRow` and `MarkRunKeeps` follow one
row through its update; `GrownKeeps` says that the transcript only grows, and with it
every count of newer turns or results.

Two properties are about the prompt, a concatenation of concatenations. `TurnBlock` says
what one turn contributes, the lemmas about `FlattenSeq` carry it over to the whole
prompt, by induction over the transcript: `UnansweredPruned`. For `PromptAsks` a second
invariant, `AskInv`, says that during a run the conversation ends with a question or with
an answer that made calls, after which there is at most the empty turn of a refused
attempt. It needs the assumption that the floor is at least two.

### `ChatStoreProofs`

`SettledPane` is about quiet states and says nothing of how the page gets there. `IInv` says
who still will: a status of streaming has a stream that ends it (`StreamingEnds`); the
store is at the URL, or a render or a load will take it there (`ConvFollows`); text of
another conversation is excused or some stream will have the transcript fetched again
(`ForeignMended`); a stream that has not been sent is blank and one that fetches again
knows what (`StreamInv`). Theorem `PaneSettles`. `ControllerInv` says that the controller
which Stop aborts and the id that Stop posts are of the same stream, unless another call
of send crossed the reference: `StopReachesItsStream`.

### `HelperChatProofs`

The proof follows one call from the provider to the next provider. While it streams,
`SlotInv`, `HeardInv` and `CallInv` relate three things: how much of it the provider has
sent, what the client's buffer holds of it, and whether it has been yielded. They differ by
client, because Anthropic and OpenAI drop a call from the buffer when they yield it and the
Codex client keeps it to know a repetition; `PlaceInv` says which buffers are empty where.
Every action of a client keeps them (`StartKeeps`, `ArgumentsKeeps`, `CompletedKeeps` and
the like, then `ProviderKeeps`), and `CallsWholeHolds` is read off them. With
`ProviderAppends`, at most one event is yielded at a time, they give `StreamsImplement`: each
step of a stream is a step of `ModelStream` or a stutter (`ProviderImplements`).

Once it is yielded, `ViewInv` says that a call the browser shows without a result is
pending or cut, and `HistoryInv` that a call of the server's history has its result right
behind it, is still to be run with nothing but results behind it, or was cut. `PostedCalls`
joins the two: what the browser posts has every result of a run behind the message of that
run. `UnansweredIsExplained` then is about the conversions. OpenAI's keeps the list;
`AnthropicKeeps` shows, message by message, that each answer that is sent mirrors one of
the history with all that follows it (`Mirrors`); `CodexKeeps` that the items of an answer
end exactly where the results behind it begin.

Writing the invariants down changed the model once: the OpenAI client's buffer is handed
over one call at a time, as the generator yields it, and no longer in one step.

### Induction over sequences

The provers cannot use the library's induction schemes, which take an operator. Where a
proof needs induction over a sequence it is over a set of lengths: a set of naturals that is
not empty has a least element (`LeastElement`, from the well-foundedness of `<`), so one that
contains 0 and the successor of each member is all of them (`Induction`). `FlattenSteps` and
`MergedSteps` show in this way that the recursive functions behind `FlattenSeq` and
`AnthropicMessages` exist and what their steps are; `FlattenOffsets` says where each part of
a concatenation lies. `CompactionProofs` and `HelperChatProofs` both hold these lemmas.

### Only model-checked

Liveness under fairness: `EveryStreamEnds`, `StopEndsGeneration`, `Settles`, `HelperEnds`
and the liveness half of `ImplementsSerial`. It needs `ENABLED`, which is out of the
provers' reach. The safety half of `EveryStreamEnds`, that a consumer that waits will find
the marker of the end, is the theorem `ConsumersSeeTheEnd`.

## 5. Where code and documentation disagree

Each is a run that ends with a violation; `PROJECT.json` quotes both sides.

1. `StopMisses` — `runtime_state.py:39-41` takes a registered cancel event that is
   replaced to be stale. The second stream registers before it waits for the session
   lock, so a Stop ends the waiting stream and can no longer reach the generating one.
2. `StopThenAbort` — `docs/transport.md:141`: after a Stop the turn is interrupted. The
   browser drops the connection right after the Stop; the second cancellation of the
   producer lands in the cleanup of the first and the turn stays running until the next
   start of the process.
3. `PrunedCalls` — `tests/test_runtime_refactor.py:228-233`: after compaction a tool call
   is sent immediately followed by its result, or the provider rejects the request.
   Pruning marks old results compacted while their turns stay in the prompt
   (`policy.py:200-220`); `message_builder.py:73-89` then sends the calls of such a turn
   and skips the results. The test compacts turns and prunes no result. The theorem
   `UnansweredPruned` shows that this is the only way a result is missing.

## 6. Observations

Behaviour the models made visible, which no run is spent on.

Chat turns, transport and workspace:

- A cancellation in the middle of a text flush loses the flushed text of an
  interrupted turn (`_TextBuffer` is emptied before the write).
- When one parallel tool task fails on a store call, its siblings are not cancelled;
  they go on writing after the run has ended, outside the session lock
  (`WritesUnderLock` is about runs without a failed store call), and write over what the
  cleanup has interrupted, or are written over by it: `ToolRowsFinal` allows exactly
  these two.
- A cancellation while `create_turn` commits the assistant row (`turn.py:233`, before the
  assignment at 240) leaves the row running: `RunningTurnExplained` and
  `SettledUnlessCutShort` name the case.
- A completed turn may still become an error: the doom loop, the length stop and a
  failing child are noticed after `complete_assistant_turn` has committed.
- A provider error after a tool call, or the doom loop, leaves the tool runs of the
  turn pending; only the next start of the process settles them.
- `turn.py:51-54` promises an exception when the same call is made three times in a row;
  only the last three of a whole batch are compared, so `[a, a]` and then `[a, b]` pass.
- A response task cancelled while it closes its client keeps its slot: `EndedHoldsNothing`
  names the case.
- A conversation id that is deleted while a run holds or awaits its lock can be used
  again under another lock: `OverlapOnlyAfterDelete`.
- A table locked after a request read the flag is still rewritten by that request:
  `LockRespected` is about requests that begin later. Parallel exports can exceed the
  cap: `LibraryWithinCap` is about the others. Two exports in one second share a file
  name, and the one refused registration unlinks the file of the other: `RowKeepsFile`
  and `OrphanFileExplained` except such names.

Compaction:

- `policy.py:50-53`: the floor keeps a huge turn from orphaning the question. Every
  iteration adds a turn, and in the fourth the floor is full of answers;
  `QuestionDroppedOnlyLate` shows that it takes that many.

Accounts and credentials, as the exceptions of their properties:

- A failure recorded between the read and the write of another is lost, so more than the
  configured number may pass (`FailuresLock`); two first registrations may both count no
  users and both become admin (`FirstAccountLeads`); a login that read the old password
  opens a session after the change revoked the others (`NoSessionOfAnOldPassword`); a
  reset link is consumed before the account is read and the password hashed and written,
  so a crash, a failing call or a password the hash refuses spends it (`LinkHonoured`); a row may be written for an id that has been given to a new account
  (`RowsOfTheirAccount`); an identity listed under an id may be unlinked from the account
  that was given the id since (`AlwaysAWayIn`).
- A refresh that had sent its token before a disconnect, or before a new link, stores
  its answer over it: `LastActionWins` and `CancelSticks` except it.
- `application/oauth/google.py:291` says "Set a password first", which an account made by
  a Google sign-in cannot do: changing a password asks for the current one, and a reset
  link is not sent to it (`application/auth.py:219`, `298`).
- `docs/auth.md:229` lists the states a device flow
  settles in; an error its task does not list leaves it pending until it is dropped.

Helper chat:

- `stateless.py:156-157` keeps empty assistant messages out of the history, but the
  browser's placeholder of an answer that failed before its first word is posted with the
  next message (`dbHelperChat.ts:203-204`, `243-247`) and sent to OpenAI.
- A call cut by Stop or by a failure never gets a result in the browser's history
  (`dbHelperChat.ts:249`), so every later request of that conversation carries it
  unanswered: `UnansweredExplained` names exactly these.
- All iterations of a turn come back as one assistant message. A call cut short by a
  length limit is run with empty arguments (`tool_calls.py:20-25`). The `error` event of
  the Codex endpoint is never an overflow (`codex.py:199-201`). The page promises that the
  conversation is gone after a refresh (`App.tsx`, `api/routes/database.py:216-218`), while
  `sessionStorage` survives one (`dbHelperChat.ts:274-280`).

Chat store, as the exceptions of `SettledPane` and `StopCancelsItsStream`:

- New chat during an answer aborts the stream and drops the conversation, and the effect
  that promotes the URL, which still sees the old state, leads back to it. New chat before
  a conversation has loaded shows that conversation at home when it arrives, although
  `App.tsx:128-131` drops the previous one "so the previous conversation doesn't bleed into
  the next view". A late load or refetch leaves the pane of another conversation blank
  until the user chooses it again.
- A load that fails during an answer sets the status to error, which opens the composer:
  a second message may be sent while the first still streams. The controller of the first
  is overwritten, and the two share the id that Stop posts.
- A stream that ends before React has rendered its id is not fetched again.

## 7. What is not modelled

Components and reasons are in `PROJECT.json`. In short: text (prompts, guides,
formatting, memos, mails), read-only paths (database browser, schema tools, the SQL
sandbox, listings), wiring (middleware, headers, schemas, migrations) and views.
Choosing the key and the client for a request (`provider_credentials.py`,
`registry.py`) is a decision over rows that other modules write, without state of its
own. SQLite's own atomicity, the scheduling of asyncio and React's order of effects are
assumed. Token estimates are abstract sizes. In the browser, reports and the database
view share the store of the chat through the same operations and are left out, as are
deletions, renames and pins.

The modules are not composed into one: `StreamTransport` takes from `TurnLifecycle` that
a run waits, works between two turns or on one, and cleans one up, `HelperChat` contains `ProviderStream`, and the
rest meet only through rows (`Workspace` and `Accounts` each model what the deletion of an
account does to theirs).

## 8. Plan

All components with state of their own are modelled, and every safety invariant, action
property and refinement that a passing run checks is proved, but for liveness. What could come next:

1. `StreamTransport` over `TurnLifecycle` instead of over what it shows of a run, as a
   refinement of the producer.
2. `TurnLifecycle` over `ModelStream`, now that the clients are known to implement it.
