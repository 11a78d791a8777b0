---------------------------- MODULE ChatStoreProofs ----------------------------
(****************************************************************************)
(* What holds of the page for any number of conversations, streams and      *)
(* navigations: it is never left streaming with nothing that will end it,   *)
(* it shows the conversation of its URL unless an answer of the user's own  *)
(* requests says otherwise, foreign text is on its way out or excused, and  *)
(* a Stop cancels on the server the stream it aborts in the browser.        *)
(****************************************************************************)
EXTENDS ChatStore, TLAPS

\* A stream that has not been sent is blank; a transcript that is being fetched
\* again is that of a conversation.
StreamInv ==
  \A s \in Streams :
    /\ stream[s].phase = "none" => ~ stream[s].told /\ ~ stream[s].errored
    /\ stream[s].phase = "refetch" => stream[s].settle # None

\* Whatever this stream still does leaves the transcript fetched again or spoiled.
Mending(s) ==
  \/ stream[s].phase \in {"aborted", "refetch"}
  \/ stream[s].phase = "open" /\ ~ stream[s].errored

\* Whatever this stream still does takes the status away from streaming.
Ending(s) == Mending(s) \/ stream[s].phase = "listing"

StreamingEnds == chat.status = "streaming" => \E s \in Streams : Ending(s)

\* The store follows the URL, or a render or a load will make it.
ConvFollows ==
  \/ past.strayed \/ navigated \/ chat.conv = surface
  \/ surface # None /\ loads[surface] > 0

Clean == \A t \in Turns : Owner(t) \in {None, chat.conv}

\* Text of another conversation is excused, or about to be mended.
ForeignMended ==
  \/ past.spoiled \/ Clean
  \/ chat.conv # None /\ \E s \in Streams : Mending(s)

\* While the stream with the controller runs and has told its conversation, the
\* store has one, and the reference that Stop posts names it unless another call
\* of send crossed it.
ControllerInv ==
  \A s \in Streams :
    abortRef = s /\ stream[s].phase = "open" /\ stream[s].told =>
      /\ chat.conv # None /\ stream[s].target # None
      /\ past.crossed \/ activeRef = stream[s].target

IInv ==
  /\ TypeOK /\ StreamInv /\ StreamingEnds /\ ConvFollows /\ ForeignMended
  /\ ControllerInv

--------------------------------------------------------------------------------
\* A conversation, a stream and None are three different things.
LEMMA Names ==
  /\ Conversations \subseteq Pages /\ None \in Pages /\ None \notin Conversations
  /\ None \notin Streams /\ Conversations \intersect Streams = {}
  /\ Old \subseteq Conversations /\ Fresh \subseteq Conversations
  /\ \A p \in Pages : p # None => p \in Conversations
  /\ \A p \in Pages : p \notin Streams
BY ChatStoreAssumption DEF Conversations, Pages

\* A transcript holds conversations and streams.
LEMMA TurnsType == TypeOK => Turns \subseteq Conversations \union Streams
<1> SUFFICES ASSUME TypeOK PROVE Turns \in SUBSET (Conversations \union Streams)
  OBVIOUS
<1>1. chat.transcript \in {None} \union SUBSET (Conversations \union Streams)
  BY DEF TypeOK, ChatState
<1>2. {} \in SUBSET (Conversations \union Streams)
  OBVIOUS
<1> QED
  BY <1>1, <1>2, Zenon DEF Turns

\* A call stays one when its fields are set to values of their types.
LEMMA CallUpdate ==
  ASSUME NEW u \in Call
  PROVE  /\ \A p \in Phases : [u EXCEPT !.phase = p] \in Call
         /\ [u EXCEPT !.errored = TRUE] \in Call /\ [u EXCEPT !.cancelled = TRUE] \in Call
         /\ \A p \in Phases, c \in Pages : [u EXCEPT !.phase = p, !.target = c] \in Call
         /\ \A c \in Pages : [u EXCEPT !.told = TRUE, !.target = c] \in Call
BY DEF Call

\* What React renders is a conversation or none, and a status.
LEMMA SeenType == TypeOK => Seen \in [conv : Pages, status : Statuses]
BY DEF TypeOK, Seen, ChatState

\* A navigation excuses nothing that came before.
LEMMA GotoKeeps ==
  ASSUME IInv, NEW v \in Conversations \union {None}, Goto(v)
  PROVE IInv'
<1> USE DEF IInv
<1>1. (past'.spoiled <=> past.spoiled) /\ (past'.crossed <=> past.crossed)
  BY DEF Goto, TypeOK, Past
<1>4. TypeOK'
  <2>1. past' \in Past
    BY DEF Goto, TypeOK, Past
  <2>2. surface' \in Pages
    BY DEF Goto, Pages
  <2>3. moves' \in 0 .. MaxMoves
    BY ChatStoreAssumption DEF Goto, TypeOK
  <2> QED
    BY <2>1, <2>2, <2>3, Names DEF TypeOK, Goto
<1>5. StreamInv'
  BY DEF Goto, StreamInv
<1>6. StreamingEnds'
  BY DEF Goto, StreamingEnds, Ending, Mending
<1>7. ConvFollows'
  BY DEF Goto, ConvFollows
<1>8. ForeignMended'
  BY <1>1 DEF Goto, ForeignMended, Clean, Turns, Owner, Mending
<1>9. ControllerInv'
  BY <1>1 DEF Goto, ControllerInv
<1> QED
  BY <1>4, <1>5, <1>6, <1>7, <1>8, <1>9

\* A new stream is in the conversation that is shown, and will end the streaming.
LEMMA SendKeeps ==
  ASSUME IInv, NEW s0 \in Streams, Send(s0)
  PROVE IInv'
<1> USE DEF IInv
<1>1. /\ chat'.conv = chat.conv /\ chat'.status = "streaming"
      /\ chat'.transcript = Turns \union {s0}
  BY DEF Send, TypeOK, ChatState
<1>2. /\ stream'[s0].phase = "open" /\ stream'[s0].target = chat.conv
      /\ ~ stream'[s0].told /\ ~ stream'[s0].errored
      /\ \A t \in Streams \ {s0} : stream'[t] = stream[t]
      /\ stream[s0].phase = "none"
  BY DEF Send, TypeOK, Call, Seen, StreamInv
<1>3. (past'.spoiled <=> past.spoiled) /\ (past'.strayed <=> past.strayed)
  BY DEF Send, TypeOK, Past
<1>4. TypeOK'
  <2>1. chat' \in ChatState
    BY TurnsType DEF Send, TypeOK, ChatState, Statuses
  <2>2. stream' = [stream EXCEPT ![s0] =
                     [stream[s0] EXCEPT !.phase = "open", !.target = rendered.conv]]
    BY DEF Send, TypeOK
  <2>3. rendered.conv \in Pages
    BY DEF TypeOK
  <2>4. stream' \in [Streams -> Call]
    BY <2>2, <2>3, CallUpdate DEF TypeOK, Phases
  <2>5. rendered' \in [conv : Pages, status : Statuses]
    BY DEF Send, TypeOK, ChatState, Statuses
  <2>6. past' \in Past
    BY DEF Send, TypeOK, Past
  <2>7. activeRef' \in Pages
    BY DEF Send, TypeOK
  <2> QED
    BY <2>1, <2>2, <2>3, <2>4, <2>5, <2>6, <2>7, Names DEF TypeOK, Send
<1>5. StreamInv'
  BY <1>2 DEF StreamInv
<1>6. StreamingEnds'
  BY <1>1, <1>2 DEF StreamingEnds, Ending, Mending
<1>7. ConvFollows'
  BY <1>1, <1>3 DEF Send, ConvFollows
<1>8. ForeignMended'
  <2>1. CASE past.spoiled
    BY <2>1, <1>3 DEF ForeignMended
  <2>2. CASE Clean
    <3>1. \A t : t # s0 => Owner(t)' = Owner(t)
      BY <1>2 DEF Owner
    <3>2. Owner(s0)' = chat.conv
      BY <1>2 DEF Owner
    <3>3. Turns' \subseteq Turns \union {s0}
      BY <1>1 DEF Turns
    <3> QED
      BY <2>2, <3>1, <3>2, <3>3, <1>1 DEF ForeignMended, Clean
  <2>3. CASE chat.conv # None /\ \E s \in Streams : Mending(s)
    BY <2>3, <1>1, <1>2 DEF ForeignMended, Mending
  <2> QED
    BY <2>1, <2>2, <2>3 DEF ForeignMended
<1>9. ControllerInv'
  BY <1>2, Names DEF Send, ControllerInv, TypeOK
<1> QED
  BY <1>4, <1>5, <1>6, <1>7, <1>8, <1>9

\* The stream with the controller is aborted if it is open; nothing else changes.
LEMMA AbortedEffect ==
  TypeOK =>
    Aborted \in [Streams -> Call] /\ \A t \in Streams :
     /\ \/ Aborted[t].phase = stream[t].phase
        \/ stream[t].phase = "open" /\ Aborted[t].phase = "aborted"
     /\ Aborted[t].target = stream[t].target /\ (Aborted[t].told <=> stream[t].told)
     /\ (Aborted[t].errored <=> stream[t].errored) /\ Aborted[t].settle = stream[t].settle
BY Names DEF Aborted, TypeOK, Call, Phases

\* A stopped stream still mends the transcript.
LEMMA StopKeeps ==
  ASSUME IInv, Stop
  PROVE IInv'
<1> USE DEF IInv
<1>1. Aborted \in [Streams -> Call] /\ \A t \in Streams :
      /\ \/ Aborted[t].phase = stream[t].phase
         \/ stream[t].phase = "open" /\ Aborted[t].phase = "aborted"
      /\ Aborted[t].target = stream[t].target /\ (Aborted[t].told <=> stream[t].told)
      /\ (Aborted[t].errored <=> stream[t].errored) /\ Aborted[t].settle = stream[t].settle
  BY AbortedEffect
<1>2. \A t \in Streams :
      /\ stream'[t].phase = Aborted[t].phase /\ stream'[t].target = stream[t].target
      /\ (stream'[t].told <=> stream[t].told) /\ (stream'[t].errored <=> stream[t].errored)
      /\ stream'[t].settle = stream[t].settle
  BY <1>1 DEF Stop, Call
<1>4. TypeOK'
  <2>1. \A t \in Streams : [Aborted[t] EXCEPT !.cancelled = TRUE] \in Call
    BY <1>1, CallUpdate
  <2>2. stream' \in [Streams -> Call]
    BY <1>1, <2>1 DEF Stop
  <2> QED
    BY <2>1, <2>2, Names DEF TypeOK, Stop
<1>5. StreamInv'
  BY <1>1, <1>2 DEF StreamInv
<1>6. StreamingEnds'
  BY <1>1, <1>2 DEF Stop, StreamingEnds, Ending, Mending
<1>7. ConvFollows'
  BY DEF Stop, ConvFollows
<1>8. ForeignMended'
  BY <1>1, <1>2, Names DEF Stop, ForeignMended, Clean, Turns, Owner, Mending
<1>9. ControllerInv'
  BY Names DEF Stop, ControllerInv
<1> QED
  BY <1>4, <1>5, <1>6, <1>7, <1>8, <1>9

\* A stream that tells its conversation takes the store there.
LEMMA ToldKeeps ==
  ASSUME IInv, NEW s0 \in Streams, Told(s0)
  PROVE IInv'
<1> USE DEF IInv
<1>0. \A c \in IF stream[s0].target = None THEN Fresh \ made ELSE {stream[s0].target} :
         c \in Conversations
  BY Names DEF TypeOK, Call
<1>k. PICK c \in Conversations :
         /\ stream' = [stream EXCEPT ![s0].told = TRUE, ![s0].target = c]
         /\ made' = made \union {c} /\ activeRef' = c
         /\ chat' = [chat EXCEPT !.conv = c, !.transcript = Turns]
         /\ past' = [past EXCEPT !.strayed = c # surface,
                        !.spoiled = @ \/ abortRef # s0,
                        !.crossed = @ \/ abortRef \notin {None, s0}]
  BY <1>0, Zenon DEF Told
<1>1. /\ chat'.conv = c /\ chat'.status = chat.status /\ chat'.transcript = Turns
  BY <1>k DEF TypeOK, ChatState
<1>2. /\ \A t \in Streams : /\ stream'[t].phase = stream[t].phase
                            /\ stream'[t].errored <=> stream[t].errored
                            /\ stream'[t].settle = stream[t].settle
      /\ \A t \in Streams \ {s0} : stream'[t] = stream[t]
      /\ stream'[s0].told /\ stream'[s0].target = c /\ Mending(s0) /\ stream[s0].phase = "open"
  BY <1>k DEF Told, TypeOK, Call, Open, Mending
<1>3. (past'.strayed <=> (c # surface)) /\ (past'.spoiled <=> (past.spoiled \/ abortRef # s0))
      /\ (past'.crossed <=> (past.crossed \/ abortRef \notin {None, s0}))
  BY <1>k DEF TypeOK, Past
<1>4. TypeOK'
  <2>1. chat' \in ChatState
    BY <1>k, TurnsType, Names DEF TypeOK, ChatState
  <2>2. stream' = [stream EXCEPT ![s0] = [stream[s0] EXCEPT !.told = TRUE, !.target = c]]
    BY <1>k DEF TypeOK
  <2>3. stream' \in [Streams -> Call]
    BY <2>2, CallUpdate, Names DEF TypeOK
  <2>4. past' \in Past
    BY <1>k DEF TypeOK, Past
  <2>5. activeRef' \in Pages /\ made' \subseteq Conversations
    BY <1>k, Names DEF TypeOK
  <2> QED
    BY <2>1, <2>2, <2>3, <2>4, <2>5, Names DEF TypeOK, Told
<1>5. StreamInv'
  <2> SUFFICES ASSUME NEW t \in Streams
               PROVE  /\ stream'[t].phase = "none" => ~ stream'[t].told /\ ~ stream'[t].errored
                      /\ stream'[t].phase = "refetch" => stream'[t].settle # None
    BY DEF StreamInv
  <2>1. CASE t = s0
    BY <2>1, <1>2
  <2>2. CASE t # s0
    BY <2>2, <1>2 DEF StreamInv
  <2> QED
    BY <2>1, <2>2
<1>6. StreamingEnds'
  BY <1>1, <1>2 DEF StreamingEnds, Ending, Mending
<1>7. ConvFollows'
  BY <1>1, <1>3 DEF Told, ConvFollows
<1>8. ForeignMended'
  <2>1. stream'[s0].phase = "open" /\ ~ stream'[s0].errored
    BY <1>2 DEF Mending
  <2>2. \E s \in Streams : Mending(s)'
    BY <2>1 DEF Mending
  <2> QED
    BY <2>2, <1>1, Names DEF ForeignMended
<1>9. ControllerInv'
  <2> SUFFICES ASSUME NEW s \in Streams, abortRef' = s, stream'[s].phase = "open", stream'[s].told
               PROVE  /\ chat'.conv # None /\ stream'[s].target # None
                      /\ past'.crossed \/ activeRef' = stream'[s].target
    BY DEF ControllerInv
  <2>1. CASE s = s0
    BY <2>1, <1>k, <1>1, <1>2, Names
  <2>2. CASE s # s0
    <3>1. abortRef = s /\ stream'[s] = stream[s]
      BY <2>2, <1>2 DEF Told
    <3>2. past'.crossed
      BY <2>2, <3>1, <1>3, Names
    <3>3. stream'[s].target # None
      BY <3>1 DEF ControllerInv
    <3> QED
      BY <3>2, <3>3, <1>1, Names
  <2> QED
    BY <2>1, <2>2
<1> QED
  BY <1>4, <1>5, <1>6, <1>7, <1>8, <1>9

\* Text in the wrong place comes from a stream that will mend it, or is excused.
LEMMA ContentKeeps ==
  ASSUME IInv, NEW s0 \in Streams, Content(s0)
  PROVE IInv'
<1> USE DEF IInv
<1>1. /\ chat'.conv = chat.conv /\ chat'.status = chat.status
      /\ chat'.transcript = Turns \union {s0} /\ Mending(s0)
  BY DEF Content, TypeOK, ChatState, Open, Mending
<1>3. (past'.strayed <=> past.strayed) /\ (past'.spoiled <=> (past.spoiled \/ abortRef # s0))
      /\ (past'.crossed <=> past.crossed)
  BY DEF Content, TypeOK, Past
<1>4. TypeOK'
  <2>1. chat' \in ChatState
    BY TurnsType DEF Content, TypeOK, ChatState
  <2>2. past' \in Past
    BY DEF Content, TypeOK, Past
  <2> QED
    BY <2>1, <2>2, Names DEF TypeOK, Content
<1>5. StreamInv'
  BY DEF Content, StreamInv
<1>6. StreamingEnds'
  BY <1>1 DEF Content, StreamingEnds, Ending, Mending
<1>7. ConvFollows'
  BY <1>1, <1>3 DEF Content, ConvFollows
<1>8. ForeignMended'
  <2>1. CASE abortRef # s0
    BY <2>1, <1>3 DEF ForeignMended
  <2>2. CASE abortRef = s0
    BY <2>2, <1>1 DEF Content, Open, ControllerInv, ForeignMended, Mending
  <2> QED
    BY <2>1, <2>2
<1>9. ControllerInv'
  BY <1>1, <1>3 DEF Content, ControllerInv
<1> QED
  BY <1>4, <1>5, <1>6, <1>7, <1>8, <1>9

\* An error stays on the page.
LEMMA ErrorEventKeeps ==
  ASSUME IInv, NEW s0 \in Streams, ErrorEvent(s0)
  PROVE IInv'
<1> USE DEF IInv
<1>1. /\ chat'.conv = chat.conv /\ chat'.status = "error"
      /\ chat'.transcript = chat.transcript
  BY DEF ErrorEvent, Status, TypeOK, ChatState
<1>2. /\ \A t \in Streams : /\ stream'[t].phase = stream[t].phase
                            /\ stream'[t].told <=> stream[t].told
                            /\ stream'[t].settle = stream[t].settle
                            /\ stream'[t].target = stream[t].target
      /\ \A t \in Streams \ {s0} : stream'[t] = stream[t]
      /\ stream'[s0].phase = "open"
  BY DEF ErrorEvent, TypeOK, Call, Open
<1>3. (past'.strayed <=> past.strayed) /\ past'.spoiled /\ (past'.crossed <=> past.crossed)
  BY DEF ErrorEvent, TypeOK, Past
<1>4. TypeOK'
  <2>1. chat' \in ChatState
    BY DEF ErrorEvent, Status, TypeOK, ChatState, Statuses
  <2>2. stream' = [stream EXCEPT ![s0] = [stream[s0] EXCEPT !.errored = TRUE]]
    BY DEF ErrorEvent, TypeOK
  <2>3. stream' \in [Streams -> Call]
    BY <2>2, CallUpdate DEF TypeOK
  <2>4. past' \in Past
    BY DEF ErrorEvent, TypeOK, Past
  <2> QED
    BY <2>1, <2>2, <2>3, <2>4, Names DEF TypeOK, ErrorEvent
<1>5. StreamInv'
  <2> SUFFICES ASSUME NEW t \in Streams
               PROVE  /\ stream'[t].phase = "none" => ~ stream'[t].told /\ ~ stream'[t].errored
                      /\ stream'[t].phase = "refetch" => stream'[t].settle # None
    BY DEF StreamInv
  <2>1. CASE t = s0
    BY <2>1, <1>2
  <2>2. CASE t # s0
    BY <2>2, <1>2 DEF StreamInv
  <2> QED
    BY <2>1, <2>2
<1>6. StreamingEnds'
  BY <1>1 DEF StreamingEnds
<1>7. ConvFollows'
  BY <1>1, <1>3 DEF ErrorEvent, ConvFollows
<1>8. ForeignMended'
  BY <1>3 DEF ForeignMended
<1>9. ControllerInv'
  BY <1>1, <1>2, <1>3 DEF ErrorEvent, ControllerInv
<1> QED
  BY <1>4, <1>5, <1>6, <1>7, <1>8, <1>9

\* A stream that has ended is fetched again, or leaves nothing of another conversation.
LEMMA SettlesKeeps ==
  ASSUME IInv, NEW s0 \in Streams, Settles(s0)
  PROVE IInv'
<1> USE DEF IInv
<1>1. CASE Refetches(s0)
  <2>1. /\ After(s0, "refetch", rendered.conv)
        /\ UNCHANGED <<chat, abortRef, activeRef, past, surface, navigated, rendered, loads,
                       made, moves>>
    BY <1>1 DEF Settles
  <2>2. rendered.conv # None /\ rendered.conv \in Pages
    BY <1>1 DEF Refetches, TypeOK
  <2>3. /\ stream' \in [Streams -> Call]
        /\ stream'[s0].phase = "refetch" /\ stream'[s0].settle = rendered.conv
        /\ ~ stream'[s0].told /\ ~ stream'[s0].errored /\ stream'[s0].target = stream[s0].target
        /\ \A t \in Streams \ {s0} : stream'[t] = stream[t]
    BY <2>1, <2>2, Names DEF After, NoStream, TypeOK, Call, Phases
  <2>4. TypeOK'
    BY <2>1, <2>3 DEF TypeOK
  <2>5. StreamInv'
    BY <2>2, <2>3 DEF StreamInv
  <2>6. StreamingEnds' /\ ConvFollows' /\ ControllerInv'
    BY <2>1, <2>3 DEF StreamingEnds, Ending, Mending, ConvFollows, ControllerInv
  <2>7. \A t : Owner(t)' = Owner(t)
    BY <2>3 DEF Owner
  <2>8. ForeignMended'
    BY <2>1, <2>3, <2>7 DEF ForeignMended, Clean, Turns, Mending
  <2> QED
    BY <2>4, <2>5, <2>6, <2>8
<1>2. CASE ~ Refetches(s0)
  <2>1. /\ Over(s0)
        /\ IF Open(s0) /\ stream[s0].errored THEN UNCHANGED chat ELSE Status("idle")
        /\ past' = [past EXCEPT !.spoiled = @ \/ chat.conv # rendered.conv,
                               !.crossed = @ \/ abortRef \notin {None, s0}]
        /\ UNCHANGED <<surface, navigated, rendered, loads, made, moves>>
    BY <1>2 DEF Settles
  <2>2. /\ chat' \in ChatState /\ chat'.conv = chat.conv /\ chat'.transcript = chat.transcript
        /\ chat'.status \in {"idle", chat.status}
        /\ ~ (Open(s0) /\ stream[s0].errored) => chat'.status = "idle"
    BY <2>1 DEF Status, TypeOK, ChatState, Statuses
  <2>3. /\ past' \in Past /\ (past'.strayed <=> past.strayed)
        /\ (past'.spoiled <=> (past.spoiled \/ chat.conv # rendered.conv))
        /\ (past'.crossed <=> (past.crossed \/ abortRef \notin {None, s0}))
    BY <2>1 DEF TypeOK, Past
  <2>4. /\ stream' \in [Streams -> Call]
        /\ stream'[s0].phase = "over" /\ stream'[s0].target = stream[s0].target
        /\ ~ stream'[s0].told /\ ~ stream'[s0].errored
        /\ \A t \in Streams \ {s0} : stream'[t] = stream[t]
        /\ activeRef' = None /\ (abortRef' = abortRef \/ abortRef' = None)
        /\ abortRef' # s0
    BY <2>1, Names DEF Over, After, NoStream, TypeOK, Call, Phases
  <2>5. TypeOK'
    BY <2>1, <2>2, <2>3, <2>4, Names DEF TypeOK
  <2>6. StreamInv'
    BY <2>4 DEF StreamInv
  <2>7. StreamingEnds'
    BY <2>2, <2>4 DEF StreamingEnds, Ending, Mending, Settles, Open
  <2>8. ConvFollows'
    BY <2>1, <2>2, <2>3 DEF ConvFollows
  <2>9. ForeignMended'
    <3>1. \A t : Owner(t)' = Owner(t)
      BY <2>4 DEF Owner
    <3>2. CASE Open(s0) /\ stream[s0].errored
      BY <2>2, <2>3, <2>4, <3>1, <3>2 DEF ForeignMended, Clean, Turns, Mending, Open
    <3>3. CASE rendered.conv = None
      BY <2>2, <2>3, <2>4, <3>1, <3>3 DEF ForeignMended, Clean, Turns
    <3> QED
      BY <1>2, <3>2, <3>3 DEF Refetches
  <2>10. ControllerInv'
    BY <2>2, <2>3, <2>4, Names DEF ControllerInv
  <2> QED
    BY <2>5, <2>6, <2>7, <2>8, <2>9, <2>10
<1> QED
  BY <1>1, <1>2

\* A refetch shows one conversation, or its failure excuses what is shown.
LEMMA RefetchedKeeps ==
  ASSUME IInv, NEW s0 \in Streams, Refetched(s0)
  PROVE IInv'
<1> USE DEF IInv
<1>1. /\ stream' \in [Streams -> Call]
      /\ stream[s0].phase = "refetch" /\ stream'[s0].phase = "listing"
      /\ ~ stream'[s0].told /\ ~ stream'[s0].errored /\ stream'[s0].target = stream[s0].target
      /\ \A t \in Streams \ {s0} : stream'[t] = stream[t]
  BY Names DEF Refetched, After, NoStream, TypeOK, Call, Phases
<1>2. stream[s0].settle \in Conversations
  BY <1>1, Names DEF StreamInv, TypeOK, Call
<1>3. /\ chat' \in ChatState /\ past' \in Past
      /\ chat'.status \in {"idle", chat.status} /\ (past'.crossed <=> past.crossed)
      /\ \/ /\ chat'.conv = chat.conv /\ chat'.transcript = chat.transcript
            /\ past'.spoiled /\ (past'.strayed <=> past.strayed)
         \/ /\ chat'.conv = stream[s0].settle /\ chat'.transcript = {stream[s0].settle}
            /\ (past'.strayed <=> (stream[s0].settle # surface))
  <2>1. CASE chat' = [chat EXCEPT !.ready = FALSE] /\ past' = [past EXCEPT !.spoiled = TRUE]
    BY <2>1 DEF TypeOK, ChatState, Past
  <2>2. CASE /\ chat' = [chat EXCEPT !.conv = stream[s0].settle, !.transcript = {stream[s0].settle},
                          !.ready = FALSE, !.status = IF @ = "streaming" THEN @ ELSE "idle"]
             /\ past' = [past EXCEPT !.strayed = stream[s0].settle # surface, !.spoiled = FALSE]
    <3>1. chat' \in ChatState
      BY <2>2, <1>2, Names DEF TypeOK, ChatState, Statuses
    <3>2. past' \in Past
      BY <2>2 DEF TypeOK, Past
    <3> QED
      BY <2>2, <3>1, <3>2 DEF TypeOK, ChatState, Past
  <2> QED
    BY <2>1, <2>2 DEF Refetched
<1>4. TypeOK'
  BY <1>1, <1>3 DEF Refetched, TypeOK
<1>5. StreamInv'
  BY <1>1 DEF StreamInv
<1>6. StreamingEnds'
  BY <1>1, <1>3 DEF StreamingEnds, Ending, Mending
<1>7. ConvFollows'
  BY <1>3 DEF Refetched, ConvFollows
<1>8. ForeignMended'
  BY <1>2, <1>3, Names DEF ForeignMended, Clean, Turns, Owner
<1>9. ControllerInv'
  BY <1>1, <1>2, <1>3, Names DEF Refetched, ControllerInv
<1> QED
  BY <1>4, <1>5, <1>6, <1>7, <1>8, <1>9

\* What both ways of ending a call without another fetch do.
LEMMA OverEffect ==
  ASSUME TypeOK, NEW s0 \in Streams, Over(s0)
  PROVE  /\ stream' \in [Streams -> Call]
         /\ stream'[s0].phase = "over" /\ stream'[s0].target = stream[s0].target
         /\ ~ stream'[s0].told /\ ~ stream'[s0].errored
         /\ \A t \in Streams \ {s0} : stream'[t] = stream[t]
         /\ activeRef' = None /\ (abortRef' = abortRef \/ abortRef' = None)
         /\ abortRef' # s0
BY Names DEF Over, After, NoStream, TypeOK, Call, Phases

\* The list ends the streaming.
LEMMA ListedKeeps ==
  ASSUME IInv, NEW s0 \in Streams, Listed(s0)
  PROVE IInv'
<1> USE DEF IInv
<1>1. stream[s0].phase = "listing" /\ Over(s0)
  BY DEF Listed
<1>2. /\ chat' \in ChatState /\ chat'.conv = chat.conv /\ chat'.transcript = chat.transcript
      /\ chat'.status = "idle"
  BY DEF Listed, Status, TypeOK, ChatState, Statuses
<1>3. /\ past' \in Past /\ (past'.strayed <=> past.strayed) /\ (past'.spoiled <=> past.spoiled)
      /\ (past'.crossed <=> (past.crossed \/ abortRef \notin {None, s0}))
  BY DEF Listed, TypeOK, Past
<1>4. TypeOK'
  BY <1>1, <1>2, <1>3, OverEffect, Names DEF Listed, TypeOK
<1>5. StreamInv'
  BY <1>1, OverEffect DEF StreamInv
<1>6. StreamingEnds'
  BY <1>2 DEF StreamingEnds
<1>7. ConvFollows'
  BY <1>2, <1>3 DEF Listed, ConvFollows
<1>8. ForeignMended'
  <2>1. \A t : Owner(t)' = Owner(t)
    BY <1>1, OverEffect DEF Owner
  <2> QED
    BY <1>1, <1>2, <1>3, <2>1, OverEffect DEF ForeignMended, Clean, Turns, Mending
<1>9. ControllerInv'
  <2> SUFFICES ASSUME NEW s \in Streams, abortRef' = s, stream'[s].phase = "open", stream'[s].told
               PROVE  /\ chat'.conv # None /\ stream'[s].target # None
                      /\ past'.crossed \/ activeRef' = stream'[s].target
    BY DEF ControllerInv
  <2>1. s # s0 /\ stream'[s] = stream[s] /\ abortRef = s
    BY <1>1, OverEffect, Names
  <2> QED
    BY <1>2, <1>3, <2>1, Names DEF ControllerInv
<1> QED
  BY <1>4, <1>5, <1>6, <1>7, <1>8, <1>9

\* A refused request ends the streaming too.
LEMMA FailsKeeps ==
  ASSUME IInv, NEW s0 \in Streams, Fails(s0)
  PROVE IInv'
<1> USE DEF IInv
<1>1. Over(s0)
  BY DEF Fails
<1>2. /\ chat' \in ChatState /\ chat'.conv = chat.conv /\ chat'.status = "error"
  BY DEF Fails, Status, TypeOK, ChatState, Statuses
<1>3. /\ past' \in Past /\ (past'.strayed <=> past.strayed) /\ past'.spoiled
      /\ (past'.crossed <=> (past.crossed \/ abortRef \notin {None, s0}))
  BY DEF Fails, TypeOK, Past
<1>4. TypeOK'
  BY <1>1, <1>2, <1>3, OverEffect, Names DEF Fails, TypeOK
<1>5. StreamInv'
  BY <1>1, OverEffect DEF StreamInv
<1>6. StreamingEnds'
  BY <1>2 DEF StreamingEnds
<1>7. ConvFollows'
  BY <1>2, <1>3 DEF Fails, ConvFollows
<1>8. ForeignMended'
  BY <1>3 DEF ForeignMended
<1>9. ControllerInv'
  <2> SUFFICES ASSUME NEW s \in Streams, abortRef' = s, stream'[s].phase = "open", stream'[s].told
               PROVE  /\ chat'.conv # None /\ stream'[s].target # None
                      /\ past'.crossed \/ activeRef' = stream'[s].target
    BY DEF ControllerInv
  <2>1. s # s0 /\ stream'[s] = stream[s] /\ abortRef = s
    BY <1>1, OverEffect, Names
  <2> QED
    BY <1>2, <1>3, <2>1, Names DEF ControllerInv
<1> QED
  BY <1>4, <1>5, <1>6, <1>7, <1>8, <1>9

\* A load shows one conversation, or its failure excuses the one that is shown.
LEMMA LoadedKeeps ==
  ASSUME IInv, NEW c0 \in Conversations, Loaded(c0)
  PROVE IInv'
<1> USE DEF IInv
<1>1. /\ loads' \in [Conversations -> Nat]
      /\ \A c \in Conversations \ {c0} : loads'[c] = loads[c]
  BY DEF Loaded, TypeOK
<1>2. /\ chat' \in ChatState /\ past' \in Past
      /\ chat'.status = "streaming" => chat.status = "streaming"
      /\ (past'.crossed <=> past.crossed)
      /\ \/ /\ chat'.conv = c0 /\ chat'.transcript = {c0} /\ (past'.strayed <=> (c0 # surface))
         \/ /\ chat'.conv = chat.conv /\ chat'.transcript = chat.transcript
            /\ (past'.spoiled <=> past.spoiled)
            /\ (past'.strayed <=> (past.strayed \/ c0 = surface))
  <2>1. CASE SetTranscript(c0) /\ past' = [past EXCEPT !.strayed = c0 # surface, !.spoiled = FALSE]
    <3>1. chat' \in ChatState
      BY <2>1, Names DEF SetTranscript, TypeOK, ChatState, Statuses
    <3>2. past' \in Past
      BY <2>1 DEF TypeOK, Past
    <3> QED
      BY <2>1, <3>1, <3>2 DEF SetTranscript, TypeOK, ChatState, Past
  <2>2. CASE Status("error") /\ past' = [past EXCEPT !.strayed = @ \/ c0 = surface]
    BY <2>2 DEF Status, TypeOK, ChatState, Statuses, Past
  <2> QED
    BY <2>1, <2>2 DEF Loaded
<1>4. TypeOK'
  BY <1>1, <1>2 DEF Loaded, TypeOK
<1>5. StreamInv'
  BY DEF Loaded, StreamInv
<1>6. StreamingEnds'
  BY <1>2 DEF Loaded, StreamingEnds, Ending, Mending
<1>7. ConvFollows'
  BY <1>1, <1>2, Names DEF Loaded, ConvFollows, TypeOK
<1>8. ForeignMended'
  BY <1>2, Names DEF Loaded, ForeignMended, Clean, Turns, Owner, Mending
<1>9. ControllerInv'
  BY <1>2, Names DEF Loaded, ControllerInv
<1> QED
  BY <1>4, <1>5, <1>6, <1>7, <1>8, <1>9

\* A render follows the URL, or goes on to render again.
LEMMA RenderKeeps ==
  ASSUME IInv, Render
  PROVE IInv'
<1> USE DEF IInv
<1>1. /\ rendered' = Seen /\ UNCHANGED <<activeRef, made, moves>>
      /\ navigated' = (Promotes \/ BailsOut)
      /\ surface' = IF Promotes THEN chat.conv ELSE IF BailsOut THEN None ELSE surface
  BY DEF Render
<1>2. /\ loads' \in [Conversations -> Nat]
      /\ navigated /\ surface # None /\ surface # chat.conv => loads'[surface] > 0
      /\ \A c \in Conversations : loads[c] > 0 => loads'[c] > 0
  <2>1. CASE navigated /\ surface \notin {None, chat.conv}
    <3>1. surface \in Conversations /\ loads' = [loads EXCEPT ![surface] = @ + 1]
      BY <2>1, Names DEF Render, TypeOK
    <3> QED
      BY <3>1 DEF TypeOK
  <2>2. CASE ~ (navigated /\ surface \notin {None, chat.conv})
    BY <2>2 DEF Render, TypeOK
  <2> QED
    BY <2>1, <2>2
<1>3. /\ past' \in Past /\ (past'.crossed <=> past.crossed)
      /\ (past'.strayed <=> (past.strayed /\ ~ navigated'))
      /\ (past'.spoiled <=> (past.spoiled /\ chat'.transcript # None))
  BY <1>1 DEF Render, TypeOK, Past
<1>4. CASE navigated /\ surface = None /\ (chat.conv # None \/ chat.transcript # None)
  <2>1. NewConversation
    BY <1>4 DEF Render
  <2>2. /\ chat' \in ChatState /\ chat'.conv = None /\ chat'.transcript = None
        /\ chat'.status = "idle"
    <3>1. chat' = [chat EXCEPT !.conv = None, !.transcript = None, !.status = "idle"]
      BY <2>1 DEF NewConversation
    <3>2. None \in {None} \union SUBSET (Conversations \union Streams)
      OBVIOUS
    <3>3. \A x \in {None} \union SUBSET (Conversations \union Streams) :
            [chat EXCEPT !.conv = None, !.transcript = x, !.status = "idle"] \in ChatState
      BY Names DEF TypeOK, ChatState, Statuses
    <3>4. chat' \in ChatState
      BY <3>1, <3>2, <3>3
    <3> QED
      BY <3>1, <3>4 DEF TypeOK, ChatState
  <2>3. abortRef' = None /\ stream' = Aborted
    BY <2>1 DEF NewConversation
  <2>4. TypeOK'
    BY <1>1, <1>2, <1>3, <2>2, <2>3, AbortedEffect, SeenType, Names DEF TypeOK, ChatState
  <2>5. StreamInv'
    BY <2>3, AbortedEffect DEF StreamInv
  <2>6. StreamingEnds' /\ ForeignMended' /\ ControllerInv'
    BY <2>2, <2>3, Names DEF StreamingEnds, ForeignMended, Clean, Turns, ControllerInv
  <2>7. ConvFollows'
    BY <1>1, <1>4, <2>2 DEF ConvFollows
  <2> QED
    BY <2>4, <2>5, <2>6, <2>7
<1>5. CASE ~ (navigated /\ surface = None /\ (chat.conv # None \/ chat.transcript # None))
  <2>1. UNCHANGED <<chat, stream, abortRef>>
    BY <1>5 DEF Render
  <2>2. TypeOK'
    BY <1>1, <1>2, <1>3, <2>1, SeenType, Names DEF TypeOK, ChatState
  <2>3. StreamInv' /\ StreamingEnds' /\ ControllerInv'
    BY <1>1, <1>3, <2>1 DEF StreamInv, StreamingEnds, Ending, Mending, ControllerInv
  <2>4. ConvFollows'
    BY <1>1, <1>2, <1>3, <1>5, <2>1, Names DEF ConvFollows, TypeOK
  <2>5. ForeignMended'
    BY <1>3, <2>1 DEF ForeignMended, Clean, Turns, Owner, Mending
  <2> QED
    BY <2>2, <2>3, <2>4, <2>5
<1> QED
  BY <1>4, <1>5

--------------------------------------------------------------------------------
\* The invariant holds at the start.
LEMMA InitInv == Init => IInv
<1> SUFFICES ASSUME Init PROVE IInv
  OBVIOUS
<1>1. chat \in ChatState
  <2>1. None \in {None} \union SUBSET (Conversations \union Streams)
    OBVIOUS
  <2>2. \A x \in {None} \union SUBSET (Conversations \union Streams) :
          [conv |-> None, transcript |-> x, status |-> "idle", list |-> Old, ready |-> TRUE]
             \in ChatState
    BY Names DEF ChatState, Statuses
  <2> QED
    BY <2>1, <2>2 DEF Init
<1>2. stream \in [Streams -> Call]
  BY Names DEF Init, Call, Phases, NoStream
<1>3. TypeOK
  BY <1>1, <1>2, Names, SeenType, ChatStoreAssumption DEF Init, TypeOK, Past, Seen, ChatState,
     Pages, Conversations
<1> QED
  BY <1>3, Names DEF IInv, Init, NoStream, StreamInv, StreamingEnds, ConvFollows,
     ForeignMended,
     Clean, Turns, ControllerInv

\* Every step keeps the invariant.
LEMMA StepInv == IInv /\ [Next]_vars => IInv'
<1> SUFFICES ASSUME IInv, [Next]_vars PROVE IInv'
  OBVIOUS
<1>1. CASE UNCHANGED vars
  BY <1>1 DEF vars, IInv, TypeOK, StreamInv, StreamingEnds, Ending, Mending, ConvFollows,
     ForeignMended, Clean, Turns, Owner, ControllerInv
<1>2. CASE Next
  BY <1>2, RenderKeeps, StopKeeps, GotoKeeps, LoadedKeeps, SendKeeps, ToldKeeps, ContentKeeps,
     ErrorEventKeeps, SettlesKeeps, RefetchedKeeps, ListedKeeps, FailsKeeps DEF Next
<1> QED
  BY <1>1, <1>2

\* The inductive invariant holds of every page, with any number of streams.
THEOREM InvariantHolds == Spec => []IInv
BY InitInv, StepInv, PTL DEF Spec

\* Every variable has its type.
THEOREM TypeCorrect == Spec => []TypeOK
BY InvariantHolds, PTL DEF IInv

\* When every answer is in and rendered, the page is not left streaming, shows the
\* conversation of its URL, and holds no text of another, but for the named excuses.
THEOREM PaneSettles == Spec => []SettledPane
<1>1. IInv => SettledPane
  BY Names DEF IInv, SettledPane, Quiet, RenderPending, StreamingEnds, Ending, Mending,
     ConvFollows, ForeignMended, Clean, TypeOK
<1> QED
  BY <1>1, InvariantHolds, PTL

\* A Stop cancels on the server the stream it aborts, once the stream has told its
\* conversation, unless another call of send crossed the reference they share.
THEOREM StopReachesItsStream == Spec => StopCancelsItsStream
<1> DEFINE Reached == \A s \in Streams :
       (Stop /\ abortRef = s /\ stream[s].told /\ Open(s) /\ ~ past.crossed)
         => stream'[s].cancelled
<1>1. IInv /\ [Next]_vars => [Reached]_vars
  <2> SUFFICES ASSUME IInv, NEW s \in Streams, Stop, abortRef = s, stream[s].told, Open(s),
                      ~ past.crossed
               PROVE  stream'[s].cancelled
    OBVIOUS
  <2>1. activeRef = stream[s].target /\ stream[s].target # None
    BY DEF IInv, ControllerInv, Open
  <2>2. CancelTarget \in {stream[s].target} \ {None}
    BY <2>1 DEF CancelTarget
  <2>3. stream'[s] = [Aborted[s] EXCEPT !.cancelled = TRUE]
    BY <2>2 DEF Stop, Open
  <2> QED
    BY <2>3, AbortedEffect DEF IInv, Call
<1> QED
  BY <1>1, InvariantHolds, PTL DEF Spec, StopCancelsItsStream
================================================================================
