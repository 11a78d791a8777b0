------------------------------ MODULE ChatStore ------------------------------
(***************************************************************************)
(* The chat store of the browser (src/frontend/src/lib/state/chatStore.ts) *)
(* and the effects that keep it in step with the URL (App.tsx): one        *)
(* reducer that every stream, every load of a conversation and every       *)
(* navigation dispatches into, in the order their answers happen to come.  *)
(*                                                                         *)
(* JavaScript runs one task at a time, so a step is what happens between   *)
(* two awaits.  A dispatch reaches stateRef only when React renders, which *)
(* is a step of its own, with the effects of that render: a click renders  *)
(* in its own task, an event of a stream some time later.                  *)
(*                                                                         *)
(* A transcript is the set of those its turns come from: a conversation    *)
(* for the turns the server sent, a stream for the turns and the text the  *)
(* browser added while that stream ran.  The surfaces are home and         *)
(* /chat/:id; reports, the database view, pins, renames and deletions are  *)
(* left out.                                                               *)
(***************************************************************************)
EXTENDS Naturals

CONSTANTS Old,       \* the conversations there are when the page loads
          Fresh,     \* the ones the server may still make
          Streams,   \* the streams of this page, numbered in the order sent
          MaxMoves,  \* navigations of the user
          None

Conversations == Old \union Fresh

ASSUME ChatStoreAssumption ==
  /\ Old \intersect Fresh = {}
  /\ Conversations \intersect Streams = {}
  /\ Streams \subseteq Nat
  /\ MaxMoves \in Nat
  /\ None \notin Conversations \union Streams

VARIABLES
  surface,    \* the URL: None at home, else the conversation of /chat/:id
  navigated,  \* a navigation that has not been rendered yet
  chat,       \* ChatState
  rendered,   \* what stateRef and the page show: conversation and status
  stream,     \* the calls of send
  abortRef,   \* the stream whose controller a Stop aborts
  activeRef,  \* activeStreamConversationIdRef
  loads,      \* calls of loadConversation that have no answer yet
  made,       \* the conversations of the server
  moves,      \* navigations so far
  past        \* what has gone astray, for the properties

vars == <<surface, navigated, chat, rendered, stream, abortRef, activeRef,
          loads, made, moves, past>>

NoStream == [phase |-> "none", target |-> None, told |-> FALSE,
             errored |-> FALSE, cancelled |-> FALSE, settle |-> None]

Pages == Conversations \union {None}
Statuses == {"idle", "streaming", "error"}
Phases == {"none", "open", "aborted", "refetch", "listing", "over"}

ChatState == [conv : Pages, status : Statuses, ready : BOOLEAN,
              list : SUBSET Conversations,
              transcript : {None} \union SUBSET (Conversations \union Streams)]
Call == [phase : Phases, target : Pages, told : BOOLEAN, errored : BOOLEAN,
         cancelled : BOOLEAN, settle : Pages]
Past == [spoiled : BOOLEAN, strayed : BOOLEAN, crossed : BOOLEAN]

TypeOK ==
  /\ surface \in Pages /\ navigated \in BOOLEAN
  /\ chat \in ChatState /\ rendered \in [conv : Pages, status : Statuses]
  /\ stream \in [Streams -> Call]
  /\ abortRef \in Streams \union {None} /\ activeRef \in Pages
  /\ loads \in [Conversations -> Nat] /\ made \subseteq Conversations
  /\ moves \in 0 .. MaxMoves /\ past \in Past

-----------------------------------------------------------------------------
(* The reducer *)

SetTranscript(c) ==
  chat' = [chat EXCEPT !.conv = c, !.transcript = {c},
                       !.status = IF @ = "streaming" THEN @ ELSE "idle"]

Turns == IF chat.transcript = None THEN {} ELSE chat.transcript

Status(s) == chat' = [chat EXCEPT !.status = s]

-----------------------------------------------------------------------------
(* The effects of a render, which see the state that was rendered *)

Seen == [conv |-> chat.conv, status |-> chat.status]

\* A chat begun at home gets its URL once its id is known.
Promotes == surface = None /\ chat.conv # None /\ chat.status # "idle"

\* A URL of no listed conversation leads home.
BailsOut ==
  /\ surface # None
  /\ chat.ready
  /\ surface \notin chat.list \union {chat.conv}

Aborted ==
  IF abortRef # None /\ stream[abortRef].phase = "open"
    THEN [stream EXCEPT ![abortRef].phase = "aborted"]
    ELSE stream

NewConversation ==
  /\ stream' = Aborted
  /\ abortRef' = None
  /\ chat' = [chat EXCEPT !.conv = None, !.transcript = None, !.status = "idle"]

RenderPending == navigated \/ rendered # Seen \/ Promotes \/ BailsOut

Render ==
  /\ RenderPending
  /\ rendered' = Seen
  /\ navigated' = (Promotes \/ BailsOut)
  /\ surface' = IF Promotes THEN chat.conv ELSE IF BailsOut THEN None ELSE surface
  /\ loads' = IF navigated /\ surface \notin {None, chat.conv}
                THEN [loads EXCEPT ![surface] = @ + 1] ELSE loads
  /\ IF navigated /\ surface = None /\ (chat.conv # None \/ chat.transcript # None)
       THEN NewConversation
       ELSE UNCHANGED <<chat, stream, abortRef>>
  /\ past' = [past EXCEPT !.strayed = @ /\ ~ navigated',
                          !.spoiled = @ /\ chat'.transcript # None]
  /\ UNCHANGED <<activeRef, made, moves>>

-----------------------------------------------------------------------------
(* The user *)

\* The pane is blank while the URL's conversation is not the one rendered.
PaneShown == ~ navigated /\ surface \in {None, rendered.conv}

\* New chat, or a conversation of the sidebar; the current one can be chosen
\* again.
Goto(v) ==
  /\ ~ navigated
  /\ moves < MaxMoves
  /\ v \in chat.list \union {None}
  /\ surface' = v
  /\ navigated' = TRUE
  /\ moves' = moves + 1
  /\ past' = [past EXCEPT !.strayed = FALSE]
  /\ UNCHANGED <<chat, rendered, stream, abortRef, activeRef, loads, made>>

\* Nobody types into a page within the few milliseconds it takes to render.
Send(s) ==
  /\ PaneShown /\ rendered = Seen
  /\ rendered.status # "streaming"
  /\ stream[s].phase = "none"
  /\ \A t \in Streams : t < s => stream[t].phase # "none"
  /\ abortRef' = s
  /\ activeRef' = rendered.conv
  /\ stream' = [stream EXCEPT ![s].phase = "open", ![s].target = rendered.conv]
  /\ chat' = [chat EXCEPT !.status = "streaming", !.transcript = Turns \union {s}]
  /\ rendered' = [conv |-> chat.conv, status |-> "streaming"]
  /\ past' = [past EXCEPT !.crossed = FALSE]
  /\ UNCHANGED <<surface, navigated, loads, made, moves>>

\* Mutant: the conversation React rendered last.
CancelTargetRendered == rendered.conv

\* The conversation a Stop posts to /chat/cancel.
CancelTarget == IF activeRef # None THEN activeRef ELSE rendered.conv

Stop ==
  /\ PaneShown
  /\ rendered.status = "streaming"
  /\ stream' = [s \in Streams |->
       IF stream[s].phase = "open" /\ CancelTarget \in {stream[s].target} \ {None}
         THEN [Aborted[s] EXCEPT !.cancelled = TRUE] ELSE Aborted[s]]
  /\ abortRef' = None
  /\ UNCHANGED <<surface, navigated, chat, rendered, activeRef, loads, made, moves, past>>

-----------------------------------------------------------------------------
(* The events of a stream *)

Open(s) == stream[s].phase = "open"

Told(s) ==
  /\ Open(s) /\ ~ stream[s].told /\ ~ stream[s].errored
  /\ \E c \in IF stream[s].target = None THEN Fresh \ made ELSE {stream[s].target} :
       /\ stream' = [stream EXCEPT ![s].told = TRUE, ![s].target = c]
       /\ made' = made \union {c}
       /\ activeRef' = c
       /\ chat' = [chat EXCEPT !.conv = c, !.transcript = Turns]
       /\ past' = [past EXCEPT !.strayed = c # surface,
                               !.spoiled = @ \/ abortRef # s,
                               !.crossed = @ \/ abortRef \notin {None, s}]
  /\ UNCHANGED <<surface, navigated, rendered, abortRef, loads, moves>>

\* assistant_started, which makes a transcript where there is none, and the
\* text, calls and results that follow it.
Content(s) ==
  /\ Open(s) /\ stream[s].told /\ ~ stream[s].errored
  /\ chat' = [chat EXCEPT !.transcript = Turns \union {s}]
  /\ past' = [past EXCEPT !.spoiled = @ \/ abortRef # s]
  /\ UNCHANGED <<surface, navigated, rendered, stream, abortRef, activeRef, loads, made,
                 moves>>

ErrorEvent(s) ==
  /\ Open(s) /\ ~ stream[s].errored
  /\ stream' = [stream EXCEPT ![s].errored = TRUE]
  /\ Status("error")
  /\ past' = [past EXCEPT !.spoiled = TRUE]
  /\ UNCHANGED <<surface, navigated, rendered, abortRef, activeRef, loads, made,
                 moves>>

-----------------------------------------------------------------------------
(* How a stream ends *)

After(s, phase, settle) ==
  stream' = [stream EXCEPT ![s] = [NoStream EXCEPT !.phase = phase, !.settle = settle,
                                                   !.target = stream[s].target]]

Over(s) ==
  /\ After(s, "over", None)
  /\ abortRef' = IF abortRef = s THEN None ELSE abortRef
  /\ activeRef' = None

\* Mutant: a stream that was aborted leaves the transcript as it is.
RefetchesNotAborted(s) == Open(s) /\ ~ stream[s].errored /\ rendered.conv # None

\* An error stays on the page: fetching the transcript would erase it.
Refetches(s) ==
  /\ Open(s) => ~ stream[s].errored
  /\ rendered.conv # None

\* The stream was read to its end, or the read was aborted.
Settles(s) ==
  /\ \/ Open(s) /\ (stream[s].told \/ stream[s].errored)
     \/ stream[s].phase = "aborted"
  /\ IF Refetches(s)
       THEN /\ After(s, "refetch", rendered.conv)
            /\ UNCHANGED <<chat, abortRef, activeRef, past>>
       ELSE /\ Over(s)
            /\ IF Open(s) /\ stream[s].errored THEN UNCHANGED chat ELSE Status("idle")
            /\ past' = [past EXCEPT !.spoiled = @ \/ chat.conv # rendered.conv,
                                    !.crossed = @ \/ abortRef \notin {None, s}]
  /\ UNCHANGED <<surface, navigated, rendered, loads, made, moves>>

\* The answer of the refetch, or its failure; then the list is asked for.
Refetched(s) ==
  /\ stream[s].phase = "refetch"
  /\ After(s, "listing", None)
  /\ \/ /\ chat' = [chat EXCEPT !.ready = FALSE]
        /\ past' = [past EXCEPT !.spoiled = TRUE]
     \/ LET c == stream[s].settle
        IN /\ chat' = [chat EXCEPT !.conv = c, !.transcript = {c}, !.ready = FALSE,
                         !.status = IF @ = "streaming" THEN @ ELSE "idle"]
           /\ past' = [past EXCEPT !.strayed = c # surface, !.spoiled = FALSE]
  /\ UNCHANGED <<surface, navigated, rendered, abortRef, activeRef, loads, made,
                 moves>>

Listed(s) ==
  /\ stream[s].phase = "listing"
  /\ Over(s)
  /\ \/ chat' = [chat EXCEPT !.list = made, !.ready = TRUE, !.status = "idle"]
     \/ Status("idle")
  /\ past' = [past EXCEPT !.crossed = @ \/ abortRef \notin {None, s}]
  /\ UNCHANGED <<surface, navigated, rendered, loads, made, moves>>

\* The request is refused, or the connection breaks.
Fails(s) ==
  /\ Open(s)
  /\ Over(s)
  /\ Status("error")
  /\ past' = [past EXCEPT !.spoiled = TRUE,
                          !.crossed = @ \/ abortRef \notin {None, s}]
  /\ UNCHANGED <<surface, navigated, rendered, loads, made, moves>>

-----------------------------------------------------------------------------
(* The answer of loadConversation, or its failure *)

Loaded(c) ==
  /\ loads[c] > 0
  /\ loads' = [loads EXCEPT ![c] = @ - 1]
  /\ \/ /\ SetTranscript(c)
        /\ past' = [past EXCEPT !.strayed = c # surface, !.spoiled = FALSE]
     \/ /\ Status("error")
        /\ past' = [past EXCEPT !.strayed = @ \/ c = surface]
  /\ UNCHANGED <<surface, navigated, rendered, stream, abortRef, activeRef, made,
                 moves>>

-----------------------------------------------------------------------------
Init ==
  /\ surface \in Old \union {None}
  /\ navigated = TRUE
  /\ chat = [conv |-> None, transcript |-> None, status |-> "idle",
             list |-> Old, ready |-> TRUE]
  /\ rendered = Seen
  /\ stream = [s \in Streams |-> NoStream]
  /\ abortRef = None /\ activeRef = None
  /\ loads = [c \in Conversations |-> 0]
  /\ made = Old
  /\ moves = 0
  /\ past = [spoiled |-> FALSE, strayed |-> FALSE, crossed |-> FALSE]

Next ==
  \/ Render
  \/ Stop
  \/ \E v \in Conversations \union {None} : Goto(v)
  \/ \E c \in Conversations : Loaded(c)
  \/ \E s \in Streams :
       \/ Send(s) \/ Told(s) \/ Content(s) \/ ErrorEvent(s)
       \/ Settles(s) \/ Refetched(s) \/ Listed(s) \/ Fails(s)

Spec == Init /\ [][Next]_vars

-----------------------------------------------------------------------------
(* Properties *)

Quiet ==
  /\ ~ RenderPending
  /\ \A c \in Conversations : loads[c] = 0
  /\ \A s \in Streams : stream[s].phase \in {"none", "over"}

Owner(t) == IF t \in Streams THEN stream[t].target ELSE t

\* Once every answer is in and rendered, whatever their order, the page is not
\* left streaming; it shows the conversation of its URL, unless an answer it
\* did not ask for since the last navigation came last or its own load failed
\* (App.tsx 134-172); and it holds no text of another conversation, unless an
\* error kept the transcript from being fetched again (chatStore.ts 535-551)
\* or a stream wrote to it that a second send had left without a controller.
SettledPane ==
  Quiet =>
    /\ chat.status # "streaming"
    /\ past.strayed \/ chat.conv = surface
    /\ \/ past.spoiled
       \/ \A t \in Turns : Owner(t) \in {None, chat.conv}

\* Stop cancels, on the server, the stream it aborts, once that stream has
\* announced its conversation and even if React has not rendered it yet
\* (chatStore.ts 321-325); unless the reference was overwritten or cleared since
\* by another call of send, which shares it (491, 576).
StopCancelsItsStream ==
  [][\A s \in Streams :
       (Stop /\ abortRef = s /\ stream[s].told /\ Open(s) /\ ~ past.crossed)
         => stream'[s].cancelled]_vars
=============================================================================
