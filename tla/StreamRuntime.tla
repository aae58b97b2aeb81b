--------------------------- MODULE StreamRuntime ---------------------------
(***************************************************************************)
(* How an answer that is being streamed reaches the screen.                *)
(*                                                                         *)
(*   src/frontend/app/chats/conversation/use_streaming_runtime.ts          *)
(*   src/frontend/app/chats/conversation/use_send_message.ts, its ends     *)
(*                                                                         *)
(* Chunks are buffered per tab.  The selected tab publishes them at most   *)
(* once an interval, through a timer and an animation frame; the others    *)
(* only keep them, and a tab that is selected again catches up.            *)
(***************************************************************************)
EXTENDS Naturals, Sequences

CONSTANTS
    Tabs,     \* the tabs open at first; an id is not used again
    Requests, \* the requests of all tabs, each made once
    Chunks,   \* the pieces a text is made of
    Output,   \* what the backend streams, per request and channel, if it gets that far
    Replies,  \* what a final response may hold, on each channel
    Compact,  \* BACKGROUND_STREAM_COMPACT_CHUNK_COUNT
    None      \* no request, no answer, no owner

Channels == {"text", "thinking"}
Texts == [Channels -> Seq(Chunks)]
Nothing == [c \in Channels |-> <<>>]

\* A turn that ended: whether it completed, and what the conversation keeps of it.
Answers == [how : {"done", "cut"}, kept : Texts]

ASSUME NoneAssumption == None \notin Tabs /\ None \notin Requests /\ None \notin Answers
ASSUME OutputAssumption == Output \in [Requests -> Texts]
ASSUME RepliesAssumption == Replies \subseteq Texts /\ Nothing \in Replies
ASSUME CompactAssumption == Compact \in Nat

VARIABLES
    open,     \* tabIdSetRef
    selected, \* selectedTabIdRef
    request,  \* requestIdByTabRef
    pending,  \* StreamBuffer: the chunks not yet in display, per tab and channel
    display,  \* StreamBuffer: the text the getters of the view return
    schedule, \* StreamPublishSchedule: "idle", "timer" or "frame"
    recent,   \* whether lastPublishedAt is less than an interval ago
    shown,    \* what the card of the selected tab has rendered
    owner,    \* history: the tab of a request
    received, \* history: what the backend sent while the request was the tab's
    answer    \* the turn the conversation got when the request ended

buffers == <<pending, display>>
publication == <<schedule, recent, shown>>
turns == <<request, owner, received, answer>>
vars == <<open, selected, buffers, publication, turns>>

\* readStreamChannel
Full(t) == [c \in Channels |-> display[t][c] \o pending[t][c]]

(***************************************************************************)
(* Publication.  A flush moves the chunks of a tab to its display.         *)
(***************************************************************************)
Flush(t) ==
    /\ display' = [display EXCEPT ![t] = Full(t)]
    /\ pending' = [pending EXCEPT ![t] = Nothing]

\* notifyStreamNow: whatever was scheduled is superseded.
PublishNow(t) ==
    /\ Flush(t)
    /\ schedule' = [schedule EXCEPT ![t] = "idle"]
    /\ recent' = [recent EXCEPT ![t] = TRUE]

X_CatchUp_Never(t) == UNCHANGED <<buffers, schedule, recent>> /\ shown' = display[t]

\* A tab that comes to the front renders its display, and at once what it had buffered.
CatchUp(t) ==
    /\ IF pending[t] = Nothing THEN UNCHANGED <<buffers, schedule, recent>> ELSE PublishNow(t)
    /\ shown' = Full(t)

Select(t) ==
    /\ t \in open /\ t # selected
    /\ selected' = t
    /\ CatchUp(t)
    /\ UNCHANGED <<open, turns>>

TimerFires(t) ==
    /\ schedule[t] = "timer"
    /\ schedule' = [schedule EXCEPT ![t] = "frame"]
    /\ UNCHANGED <<open, selected, buffers, recent, shown, turns>>

X_FrameTooEarly(t) ==
    /\ schedule[t] = "frame" /\ recent[t]
    /\ schedule' = [schedule EXCEPT ![t] = "idle"]
    /\ UNCHANGED <<open, selected, buffers, recent, shown, turns>>

\* A frame that comes before the interval is over waits for the rest of it.
FrameTooEarly(t) ==
    /\ schedule[t] = "frame" /\ recent[t]
    /\ schedule' = [schedule EXCEPT ![t] = "timer"]
    /\ UNCHANGED <<open, selected, buffers, recent, shown, turns>>

\* A tab that is no longer selected publishes nothing, but its chunks are merged.
FramePublishes(t) ==
    /\ schedule[t] = "frame" /\ ~recent[t]
    /\ Flush(t)
    /\ schedule' = [schedule EXCEPT ![t] = "idle"]
    /\ IF t = selected
       THEN recent' = [recent EXCEPT ![t] = TRUE] /\ shown' = Full(t)
       ELSE UNCHANGED <<recent, shown>>
    /\ UNCHANGED <<open, selected, turns>>

IntervalPasses(t) ==
    /\ recent[t]
    /\ recent' = [recent EXCEPT ![t] = FALSE]
    /\ UNCHANGED <<open, selected, buffers, schedule, shown, turns>>

(***************************************************************************)
(* Requests.                                                               *)
(***************************************************************************)
\* The buffer is emptied and that is published; a tab has one request at a time.
BeginRequest(t, r) ==
    /\ t \in open /\ request[t] = None /\ owner[r] = None
    /\ request' = [request EXCEPT ![t] = r]
    /\ owner' = [owner EXCEPT ![r] = t]
    /\ display' = [display EXCEPT ![t] = Nothing]
    /\ pending' = [pending EXCEPT ![t] = Nothing]
    /\ schedule' = [schedule EXCEPT ![t] = "idle"]
    /\ recent' = [recent EXCEPT ![t] = TRUE]
    /\ shown' = IF t = selected THEN Nothing ELSE shown
    /\ UNCHANGED <<open, selected, received, answer>>

\* Another conversation is loaded into an idle tab.
ClearStream(t) ==
    /\ t \in open /\ request[t] = None
    /\ display' = [display EXCEPT ![t] = Nothing]
    /\ pending' = [pending EXCEPT ![t] = Nothing]
    /\ schedule' = [schedule EXCEPT ![t] = "idle"]
    /\ recent' = [recent EXCEPT ![t] = TRUE]
    /\ shown' = IF t = selected THEN Nothing ELSE shown
    /\ UNCHANGED <<open, selected, turns>>

X_Accepts(r) == owner[r] # None

\* The backend may still send when the request is no longer the tab's.
Accepts(r) == owner[r] # None /\ request[owner[r]] = r

Buffered(t, c, x) == [pending[t] EXCEPT ![c] = Append(@, x)]

\* Too many chunks in a background tab: they are merged.
Compacts(t, c, x) ==
    LET chunks == Buffered(t, c, x)
    IN  Len(chunks["text"]) + Len(chunks["thinking"]) >= Compact

Receives(r, c, x) ==
    LET t == owner[r] IN
    /\ Accepts(r)
    /\ received' = [received EXCEPT ![r][c] = Append(@, x)]
    /\ IF t # selected /\ Compacts(t, c, x)
       THEN /\ display' = [display EXCEPT ![t] =
                             [d \in Channels |-> display[t][d] \o Buffered(t, c, x)[d]]]
            /\ pending' = [pending EXCEPT ![t] = Nothing]
       ELSE /\ pending' = [pending EXCEPT ![t] = Buffered(t, c, x)]
            /\ UNCHANGED display
    /\ schedule' = [schedule EXCEPT ![t] =
                      IF t # selected THEN "idle"
                      ELSE IF @ # "idle" THEN @
                      ELSE IF recent[t] THEN "timer" ELSE "frame"]
    /\ UNCHANGED <<open, selected, recent, shown, request, owner, answer>>

\* The next chunk of a channel arrives.
Chunk(r, c) ==
    LET n == Len(received[r][c]) + 1 IN
    n <= Len(Output[r][c]) /\ Receives(r, c, Output[r][c][n])

(***************************************************************************)
(* The end of a request.  All that was streamed is read from the buffer,   *)
(* published or not.  The line appended to a turn that is cut short is     *)
(* layout and left out.                                                    *)
(***************************************************************************)
Begins(s, u) == Len(s) <= Len(u) /\ SubSeq(u, 1, Len(s)) = s
Within(s, u) == \E i \in 0..Len(u) : i + Len(s) <= Len(u) /\ SubSeq(u, i + 1, i + Len(s)) = s

\* chooseAssistantText
Chosen(final, streamed, preferStreamed) ==
    IF ~Begins(streamed, final) /\ (Begins(final, streamed) \/ preferStreamed)
    THEN streamed ELSE final

\* mergeStreamedThinking
WithThinking(existing, streamed) ==
    IF Within(streamed, existing) THEN existing ELSE existing \o streamed

EndRequest(r, turn) ==
    /\ Accepts(r)
    /\ answer' = [answer EXCEPT ![r] = turn]
    /\ request' = [request EXCEPT ![owner[r]] = None]
    /\ UNCHANGED <<open, selected, buffers, publication, owner, received>>

X_Complete_Display(r, said) ==
    EndRequest(r, [how |-> "done",
                   kept |-> [text |-> Chosen(said["text"], display[owner[r]]["text"], FALSE),
                             thinking |-> said["thinking"]]])

\* A usable response came: reconcileAssistantTextWithStream looks at the text alone.
Complete(r, said) ==
    EndRequest(r, [how |-> "done",
                   kept |-> [text |-> Chosen(said["text"], Full(owner[r])["text"], FALSE),
                             thinking |-> said["thinking"]]])

\* buildTerminalAssistantMessage: the turn was stopped, or it failed, or nothing usable
\* came.  What there was of a response is its base; a placeholder is the empty one, and
\* is dropped when nothing was streamed either.
Cut(r, said) ==
    EndRequest(r, [how |-> "cut",
                   kept |-> [text |-> Chosen(said["text"], Full(owner[r])["text"], TRUE),
                             thinking |-> WithThinking(said["thinking"],
                                                       Full(owner[r])["thinking"])]])

\* disposeStreamRuntime.  When the tab was selected, the one that takes over comes
\* to the front at the next commit: a step of its own, Select.
CloseTab(t) ==
    /\ t \in open /\ open # {t}
    /\ open' = open \ {t}
    /\ request' = [request EXCEPT ![t] = None]
    /\ display' = [display EXCEPT ![t] = Nothing]
    /\ pending' = [pending EXCEPT ![t] = Nothing]
    /\ schedule' = [schedule EXCEPT ![t] = "idle"]
    /\ recent' = [recent EXCEPT ![t] = FALSE]
    /\ UNCHANGED <<selected, shown, owner, received, answer>>

Init ==
    /\ open = Tabs
    /\ selected \in Tabs
    /\ request = [t \in Tabs |-> None]
    /\ pending = [t \in Tabs |-> Nothing]
    /\ display = [t \in Tabs |-> Nothing]
    /\ schedule = [t \in Tabs |-> "idle"]
    /\ recent = [t \in Tabs |-> FALSE]
    /\ shown = Nothing
    /\ owner = [r \in Requests |-> None]
    /\ received = [r \in Requests |-> Nothing]
    /\ answer = [r \in Requests |-> None]

Publication(t) == TimerFires(t) \/ FrameTooEarly(t) \/ FramePublishes(t)

Next ==
    \/ \E t \in Tabs : Select(t) \/ Publication(t) \/ IntervalPasses(t) \/ ClearStream(t) \/ CloseTab(t)
    \/ \E t \in Tabs, r \in Requests : BeginRequest(t, r)
    \/ \E r \in Requests, c \in Channels : Chunk(r, c)
    \/ \E r \in Requests, said \in Replies : Complete(r, said) \/ Cut(r, said)

\* Timers and frames fire while the window is visible, and time passes.
Fairness == \A t \in Tabs : WF_vars(Publication(t)) /\ WF_vars(IntervalPasses(t))

Spec == Init /\ [][Next]_vars
FairSpec == Spec /\ Fairness

(***************************************************************************)
(* Properties.                                                             *)
(***************************************************************************)
\* The types of the buffers and of the schedules.
TypeOK ==
    /\ open \subseteq Tabs /\ selected \in Tabs
    /\ request \in [Tabs -> Requests \cup {None}] /\ owner \in [Requests -> Tabs \cup {None}]
    /\ pending \in [Tabs -> Texts] /\ display \in [Tabs -> Texts]
    /\ schedule \in [Tabs -> {"idle", "timer", "frame"}] /\ recent \in [Tabs -> BOOLEAN]
    /\ shown \in Texts /\ received \in [Requests -> Texts]
    /\ answer \in [Requests -> Answers \cup {None}]

\* A request is the tab's that made it, and a tab that is closed has none.
RequestsAreOwned ==
    \A t \in Tabs : request[t] # None => owner[request[t]] = t /\ answer[request[t]] = None

\* No chunk is lost, doubled, reordered or taken from another request on its way
\* through the buffer, whichever tabs are selected meanwhile and however often the
\* chunks are merged or published (flushStreamChannel, notifyStreamSoon).
Lossless == \A t \in Tabs : request[t] # None => Full(t) = received[request[t]]

\* The card of the selected tab never renders an old state of its display, as it
\* would if a frame changed the display of a tab without telling its listeners.
CardIsCurrent == selected \in open /\ request[selected] # None => shown = display[selected]

\* Chunks of the selected tab never wait with nothing scheduled to publish them: no
\* sequence of tab changes cancels a publication the tab still needs.
NoLostPublication ==
    selected \in open /\ pending[selected] # Nothing => schedule[selected] # "idle"

\* What the card of the selected tab lacks it gets, unless the tab is left or its
\* request ends first: the throttling delays chunks, it does not starve them.
Lags(t) == selected = t /\ request[t] # None /\ shown # Full(t)
ChunksAreShown == \A t \in Tabs : Lags(t) ~> ~Lags(t)

\* The stream as LiveText describes it.
Status(r) ==
    IF owner[r] = None THEN "new"
    ELSE IF request[owner[r]] = r THEN "live"
    ELSE IF answer[r] # None THEN answer[r].how ELSE "gone"

Visible(r) ==
    CASE Status(r) = "live" -> display[owner[r]]
      [] Status(r) \in {"done", "cut"} -> answer[r].kept
      [] OTHER -> Nothing

Live == INSTANCE LiveText WITH
    status <- [r \in Requests |-> Status(r)],
    received <- received,
    visible <- [r \in Requests |-> Visible(r)]

\* What can be read of a request is a beginning of what was sent and only grows; a turn
\* that is stopped or fails keeps all that was sent, published or not, and one that
\* completes keeps its response, with the text sent beyond it: the runtime, and the ends
\* of use_send_message, implement LiveText.
Streams == Live!Spec
=============================================================================
