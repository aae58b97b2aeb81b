------------------------------ MODULE ChatTabs ------------------------------
(***************************************************************************)
(* The chat page of the user interface: the tabs, the conversations they   *)
(* show, the turns that run in them, the saves they queue and what a       *)
(* restart of the window finds again.                                      *)
(*                                                                         *)
(*   src/frontend/app/chats/tabs/use_chats_controller.ts  the tabs         *)
(*   src/frontend/app/chats/tabs/tabs_model.ts            their invariants *)
(*   src/frontend/app/chats/tabs/tabs_persistence.ts      browser storage  *)
(*   src/frontend/app/chats/conversation/use_send_message.ts     the turns *)
(*   src/internal/conversation/store/store.go             the saved files  *)
(*                                                                         *)
(* The page runs on one thread, so a handler is one action up to its next  *)
(* await.  A message is its sender and what became of it; a user message   *)
(* carries the score its text gets as a title, which is also that title.   *)
(***************************************************************************)
EXTENDS Naturals, Sequences, FiniteSets, SequencesExt

CONSTANTS
    TabIds,        \* tab ids, positive numbers: a new tab takes the least one not in use
    ConvIds,       \* conversation ids
    Stored,        \* the conversations of former sessions: one question and its answer
    Scores,        \* scores of the texts a user sends, positive numbers
    ManualTitles,  \* the titles a rename gives, numbers as the scores are
    Editable,      \* the places of the messages a user may edit
    Outcomes,      \* what a turn may end with
    Talks,         \* the conversations a user goes on with
    MaxTabs,       \* MAX_TABS
    MaxMessages,   \* bound on the messages of a conversation
    MaxSaves,      \* bound on the saves queued for a tab when another message or title is given
    MaxLoads,      \* bound on the loads under way at once, which are of one tab
    MaxRestarts,   \* bound on the restarts
    EarlyStops,    \* whether a turn may be stopped before it has streamed anything
    LateRenames,   \* whether a rename that is being typed may be confirmed during a turn
    EarlyPicks,    \* whether a conversation may be picked while it is still being saved
    Refusals,      \* whether the backend may refuse a save: its disk is full, its file not readable
    None           \* no tab, no request, no stored conversation

ASSUME BoundsAssumption ==
    /\ TabIds \subseteq Nat \ {0} /\ Scores \subseteq Nat \ {0}
    /\ Stored \cup Talks \subseteq ConvIds /\ (Stored # {} => Scores # {})
    /\ ManualTitles \subseteq Nat
    /\ Editable \subseteq Nat
    /\ Outcomes \subseteq {"answer", "calls", "failed", "stopped"}
    /\ 1 \in TabIds
    /\ MaxTabs \in Nat \ {0, 1}
    /\ {MaxMessages, MaxSaves, MaxLoads, MaxRestarts} \subseteq Nat
    /\ (Stored # {} => MaxMessages >= 2)
    /\ {EarlyStops, LateRenames, EarlyPicks, Refusals} \subseteq BOOLEAN

VARIABLES
    page,     \* tabsRef, selectedTabIdRef, lastActivatedAtRef
    requests, \* per tab: requestIdByTabRef, its AbortController and its stream buffer
    loads,    \* the loads of conversations under way
    version,  \* tabLoadVersionRef
    saves,    \* saveQueueByTabRef: the saves not yet done, in order
    store,    \* the conversation files
    unsaved,  \* per conversation: what the last save given to the backend was to leave, if it
              \* refused that or the file for it; None once a save or a load is done (a history)
    disk,     \* browser storage: the state a restart finds
    renaming, \* the tab whose title is being typed
    restarts

vars == <<page, requests, loads, version, saves, store, unsaved, disk, renaming, restarts>>

NewTitle == 0
Titles == {NewTitle} \cup ManualTitles \cup Scores

(***************************************************************************)
(* Types.                                                                  *)
(***************************************************************************)
Message == [role : {"user", "assistant"}, score : Scores \cup {0},
            state : {"sent", "pending", "answer", "calls", "failed", "stopped"}]
File == [title : Titles, messages : Seq(Message)]
Conversation == [id : ConvIds \cup {None}, title : Titles, messages : Seq(Message)]
Tab == [conv : Conversation, isLoaded : BOOLEAN, isBusy : BOOLEAN, isHydrating : BOOLEAN,
        isPersisted : BOOLEAN, locked : BOOLEAN, editing : Nat]
Page == [order : Seq(TabIds), tab : [TabIds -> Tab \cup {None}],
         selected : TabIds, lastActive : Seq(TabIds)]
Request == [asked : Conversation, streamed : BOOLEAN, stopped : BOOLEAN]
Load == [tab : TabIds, version : Nat, kind : {"restore", "open"}, conv : ConvIds, title : Titles,
         phase : {"fetch", "hydrate", "paint"}, found : File \cup {None}]
Save == [conv : Conversation, full : BOOLEAN]
SavedTab == [tab : TabIds, conv : ConvIds \cup {None}, title : Titles,
             isPersisted : BOOLEAN, locked : BOOLEAN]
Browser == [selected : TabIds, lastActive : Seq(TabIds), tabs : Seq(SavedTab)]

ASSUME NoneAssumption ==
    /\ None \notin TabIds /\ None \notin ConvIds
    /\ None \notin Tab /\ None \notin Request /\ None \notin File /\ None \notin Browser

FromUser(score) == [role |-> "user", score |-> score, state |-> "sent"]
FromAssistant(state) == [role |-> "assistant", score |-> 0, state |-> state]
Placeholder == FromAssistant("pending")

(***************************************************************************)
(* Tabs.  page.order holds the ids in their order, page.tab their states.  *)
(***************************************************************************)
EmptyTab ==
    [conv |-> [id |-> None, title |-> NewTitle, messages |-> <<>>],
     isLoaded |-> TRUE, isBusy |-> FALSE, isHydrating |-> FALSE,
     isPersisted |-> FALSE, locked |-> FALSE, editing |-> 0]

Open(p) == Range(p.order)
IsScratch(tab) == ~tab.isPersisted /\ tab.conv.messages = <<>>

\* The elements of s that are in S, in their order: SelectSeq, in a form to reason about.
Filter(s, S) ==
    LET kept == {i \in DOMAIN s : s[i] \in S}
        nth(k) == CHOOSE i \in kept : Cardinality({j \in kept : j <= i}) = k
    IN  [k \in 1..Cardinality(kept) |-> s[nth(k)]]

Scratches(p) == Filter(p.order, {t \in Open(p) : IsScratch(p.tab[t])})

Without(s, t) == Filter(s, Range(s) \ {t})
Touch(stamps, t) == Append(Without(stamps, t), t)

\* When a tab was last activated: its place in lastActive, 0 when it has no entry.
Stamp(p, t) == IF t \in Range(p.lastActive) THEN CHOOSE i \in DOMAIN p.lastActive : p.lastActive[i] = t ELSE 0

\* The tab to give up when there are too many: the least recently activated of
\* the idle ones, or of all when none is idle; never the selected or a scratch tab.
EvictionPool(p) ==
    LET base == Filter(p.order, {t \in Open(p) : t # p.selected /\ ~IsScratch(p.tab[t])})
        idle == Filter(base, {t \in Open(p) : ~p.tab[t].isBusy})
    IN  IF idle # <<>> THEN idle ELSE base

Victim(p) ==
    LET pool == EvictionPool(p)
    IN  pool[CHOOSE i \in DOMAIN pool :
               \A j \in DOMAIN pool : \/ Stamp(p, pool[i]) < Stamp(p, pool[j])
                                      \/ Stamp(p, pool[i]) = Stamp(p, pool[j]) /\ i <= j]

X_Evict(p) == IF Len(p.order) > MaxTabs /\ EvictionPool(p) # <<>>
              THEN Without(p.order, Victim(p)) ELSE p.order

\* An update changes no number of tabs, so one eviction makes room for the scratch tab.
Evict(p) == IF Len(p.order) >= MaxTabs /\ EvictionPool(p) # <<>>
            THEN Without(p.order, Victim(p)) ELSE p.order

\* One scratch tab, the last of the bar.
NormalOrder(p, fresh) ==
    LET scratches == Scratches(p)
        keep == IF p.selected \in Range(scratches) THEN p.selected ELSE Last(scratches)
    IN  IF scratches = <<>>
        THEN Append(Evict(p), fresh)
        ELSE Append(Filter(p.order, {t \in Open(p) : ~IsScratch(p.tab[t])}), keep)

Selection(p, order, preferred) ==
    CASE preferred \in Range(order) -> preferred
      [] preferred \notin Range(order) /\ p.selected \in Range(order) -> p.selected
      [] OTHER -> order[1]

Select(p, t) == IF t = p.selected THEN p
                ELSE [p EXCEPT !.selected = t, !.lastActive = Touch(@, t)]

NormalizeAndCommit(p, fresh, preferred) ==
    LET order == NormalOrder(p, fresh)
        stamps == Filter(p.lastActive, Range(order))
        added == fresh \in Range(order) /\ fresh \notin Open(p)
    IN  Select([order |-> order,
                tab |-> [t \in TabIds |->
                           CASE t = fresh /\ added -> EmptyTab
                             [] t \in Range(order) \cap Open(p) -> p.tab[t]
                             [] OTHER -> None],
                selected |-> p.selected,
                lastActive |-> IF added THEN Touch(stamps, fresh) ELSE stamps],
               Selection(p, order, preferred))

UpdateTab(p, t, tab, fresh) ==
    IF t \in Open(p)
    THEN NormalizeAndCommit([p EXCEPT !.tab[t] = tab], fresh, None)
    ELSE p

\* A tab id nothing refers to any more, and a conversation id nobody has used.
FreshTabs == {t \in TabIds \ Open(page) :
                /\ saves[t] = <<>>
                /\ \A l \in loads : l.tab # t
                /\ disk # None => \A i \in DOMAIN disk.tabs : disk.tabs[i].tab # t}
FreshTab == IF FreshTabs = {} THEN None ELSE CHOOSE t \in FreshTabs : \A u \in FreshTabs : t <= u

UsedConvs == {c \in ConvIds :
                \/ store[c] # None
                \/ \E t \in Open(page) : page.tab[t].conv.id = c
                \/ \E t \in TabIds : \E i \in DOMAIN saves[t] : saves[t][i].conv.id = c
                \/ disk # None /\ \E i \in DOMAIN disk.tabs : disk.tabs[i].conv = c}
FreshConvs == ConvIds \ UsedConvs
FreshConv == CHOOSE c \in FreshConvs : TRUE

\* The new page; what goes with the tabs it closes or evicts are their requests
\* and the versions of their loads.  The saves they queued still run.
Commit(p, versions, rs) ==
    /\ page' = p
    /\ version' = [t \in TabIds |-> IF t \in Open(p) THEN versions[t] ELSE 0]
    /\ requests' = [t \in TabIds |-> IF t \in Open(p) THEN rs[t] ELSE None]
    /\ renaming' = IF renaming \in Open(p) THEN renaming ELSE None

(***************************************************************************)
(* Saves.                                                                  *)
(***************************************************************************)
Users(messages) == Filter(messages, {m \in Range(messages) : m.role = "user"})

\* The title of a young conversation is the better one of its first two user messages.
AutoTitle(conv) ==
    LET users == Users(conv.messages)
    IN  CASE Len(users) = 1 -> users[1].score
          [] Len(users) = 2 -> IF users[2].score > users[1].score
                               THEN users[2].score ELSE users[1].score
          [] OTHER -> conv.title

X_SaveOf_Messages(tab, conv, byUser) ==
    LET auto == ~byUser /\ ~tab.locked /\ Len(conv.messages) <= 4
        title == IF auto THEN AutoTitle(conv) ELSE conv.title
    IN  [conv |-> [conv EXCEPT !.title = title], full |-> ~tab.isPersisted]
X_SaveOf_Unlocked(tab, conv, byUser) ==
    LET auto == ~byUser /\ Len(conv.messages) <= 4
        title == IF auto THEN AutoTitle(conv) ELSE conv.title
    IN  [conv |-> [conv EXCEPT !.title = title],
         full |-> ~tab.isPersisted \/ byUser \/ title # conv.title]

\* What saveUpdatedConversation saves: all of it when it is new or its title
\* changes, else the messages under the title it has.
SaveOf(tab, conv, byUser) ==
    LET auto == ~byUser /\ ~tab.locked /\ Len(conv.messages) <= 4
        title == IF auto THEN AutoTitle(conv) ELSE conv.title
    IN  [conv |-> [conv EXCEPT !.title = title],
         full |-> ~tab.isPersisted \/ byUser \/ title # conv.title]

SaveUpdated(p, t, conv, byUser, fresh) ==
    LET tab == p.tab[t]
    IN  UpdateTab(p, t,
                  [tab EXCEPT !.conv = SaveOf(tab, conv, byUser).conv, !.isLoaded = TRUE,
                              !.isPersisted = TRUE, !.isHydrating = FALSE, !.locked = @ \/ byUser],
                  fresh)

EnqueueSave(t, conv, byUser) ==
    saves' = [saves EXCEPT ![t] = Append(@, SaveOf(page.tab[t], conv, byUser))]

\* persistNow: what a restart will find.
Snapshot == [selected |-> page.selected,
             lastActive |-> page.lastActive,
             tabs |-> [i \in DOMAIN page.order |->
                         LET tab == page.tab[page.order[i]]
                         IN  [tab |-> page.order[i], conv |-> tab.conv.id, title |-> tab.conv.title,
                              isPersisted |-> tab.isPersisted, locked |-> tab.locked]]]

PersistNow ==
    /\ restarts < MaxRestarts
    /\ disk' = Snapshot
    /\ UNCHANGED <<page, requests, loads, version, saves, store, unsaved, renaming, restarts>>

FileOf(conv) == [title |-> conv.title, messages |-> conv.messages]

\* The backend writes a whole conversation and removes the file of its former title.
PutConversation(t) ==
    /\ saves[t] # <<>> /\ Head(saves[t]).full
    /\ LET conv == Head(saves[t]).conv
       IN  /\ store' = [store EXCEPT ![conv.id] = FileOf(conv)]
           /\ unsaved' = [unsaved EXCEPT ![conv.id] = None]
    /\ saves' = [saves EXCEPT ![t] = Tail(@)]
    /\ UNCHANGED <<page, requests, loads, version, disk, renaming, restarts>>

\* The backend finds the file by its id and title; without one the save fails,
\* and the queue goes on.  Behind a refused save that was to make or rename the
\* file there is none.
PutMessages(t) ==
    /\ saves[t] # <<>> /\ ~Head(saves[t]).full
    /\ LET conv == Head(saves[t]).conv
           found == store[conv.id] # None /\ store[conv.id].title = conv.title
       IN  /\ store' = IF found THEN [store EXCEPT ![conv.id].messages = conv.messages] ELSE store
           /\ unsaved' = [unsaved EXCEPT ![conv.id] =
                             IF found \/ @ = None THEN None ELSE FileOf(conv)]
    /\ saves' = [saves EXCEPT ![t] = Tail(@)]
    /\ UNCHANGED <<page, requests, loads, version, disk, renaming, restarts>>

\* The backend returns an error and leaves the files as they are; the error is logged,
\* the tab still counts as saved, and the queue goes on.
SaveRefused(t) ==
    /\ Refusals /\ saves[t] # <<>>
    /\ LET conv == Head(saves[t]).conv
       IN  unsaved' = [unsaved EXCEPT ![conv.id] = FileOf(conv)]
    /\ saves' = [saves EXCEPT ![t] = Tail(@)]
    /\ UNCHANGED <<page, requests, loads, version, store, disk, renaming, restarts>>

(***************************************************************************)
(* Turns.                                                                  *)
(***************************************************************************)
X_MaySend(t, score) ==
    LET tab == page.tab[t]
    IN  ~tab.isBusy /\ tab.isLoaded /\ t = page.selected /\ score \in Scores
        /\ Len(tab.conv.messages) + 2 <= MaxMessages

\* A user sends in the selected tab; the composer sends the outputs of the tool
\* calls of the last turn in any tab.
MaySend(t, score) ==
    LET tab == page.tab[t]
    IN  /\ ~tab.isBusy /\ ~tab.isHydrating /\ tab.isLoaded
        /\ Len(tab.conv.messages) + 2 <= MaxMessages
        /\ \/ score \in Scores /\ t = page.selected
           \/ /\ score = 0 /\ tab.editing = 0 /\ tab.conv.messages # <<>>
              /\ Last(tab.conv.messages) = FromAssistant("calls")

Send(t, score) ==
    /\ MaySend(t, score)
    /\ Len(saves[t]) < MaxSaves
    /\ FreshTabs # {}
    /\ IF page.tab[t].conv.id = None THEN FreshConvs # {} /\ FreshConv \in Talks
       ELSE page.tab[t].conv.id \in Talks
    /\ LET tab == page.tab[t]
           kept == IF tab.editing = 0 THEN tab.conv.messages
                   ELSE SubSeq(tab.conv.messages, 1, tab.editing - 1)
           conv == [tab.conv EXCEPT !.id = IF @ = None THEN FreshConv ELSE @,
                                    !.messages = Append(kept, FromUser(score))]
           asked == [conv EXCEPT !.messages = Append(@, Placeholder)]
           edited == [page EXCEPT !.tab[t].editing = 0]
           saved == SaveUpdated(edited, t, conv, FALSE, FreshTab)
       IN  /\ EnqueueSave(t, conv, FALSE)
           /\ Commit(UpdateTab(saved, t, [saved.tab[t] EXCEPT !.isBusy = TRUE, !.conv = asked], FreshTab),
                     version,
                     [requests EXCEPT ![t] = [asked |-> asked, streamed |-> FALSE, stopped |-> FALSE]])
    /\ UNCHANGED <<loads, store, unsaved, disk, restarts>>

\* Only a stop asks whether anything was streamed.
StreamDelta(t) ==
    /\ "stopped" \in Outcomes /\ requests[t] # None /\ ~requests[t].streamed
    /\ requests' = [requests EXCEPT ![t].streamed = TRUE]
    /\ UNCHANGED <<page, loads, version, saves, store, unsaved, disk, renaming, restarts>>

StopResponse(t) ==
    /\ "stopped" \in Outcomes /\ requests[t] # None /\ ~requests[t].stopped
    /\ EarlyStops \/ requests[t].streamed
    /\ requests' = [requests EXCEPT ![t].stopped = TRUE]
    /\ UNCHANGED <<page, loads, version, saves, store, unsaved, disk, renaming, restarts>>

\* The end of a turn: the tab shows and saves what the request was asked with,
\* the last message replaced, and is no longer busy.
Settle(t, state) ==
    LET asked == requests[t].asked
        conv == [asked EXCEPT !.messages[Len(asked.messages)] = FromAssistant(state)]
        saved == SaveUpdated(page, t, conv, FALSE, FreshTab)
    IN  /\ EnqueueSave(t, conv, FALSE)
        /\ Commit(UpdateTab(saved, t, [saved.tab[t] EXCEPT !.isBusy = FALSE], FreshTab),
                  version, [requests EXCEPT ![t] = None])

FinishTurn(t, outcome) ==
    /\ outcome # "stopped"
    /\ requests[t] # None /\ ~requests[t].stopped
    /\ Settle(t, outcome)
    /\ UNCHANGED <<loads, store, unsaved, disk, restarts>>

FinishStopped(t) ==
    /\ requests[t] # None /\ requests[t].stopped /\ requests[t].streamed
    /\ Settle(t, "stopped")
    /\ UNCHANGED <<loads, store, unsaved, disk, restarts>>

\* Nothing was streamed: the placeholder goes, and nothing is saved.
FinishStoppedEmpty(t) ==
    /\ requests[t] # None /\ requests[t].stopped /\ ~requests[t].streamed
    /\ Commit(UpdateTab(page, t,
                [page.tab[t] EXCEPT !.isBusy = FALSE,
                                    !.conv.messages = Filter(@, Range(@) \ {Placeholder})],
                FreshTab),
              version, [requests EXCEPT ![t] = None])
    /\ UNCHANGED <<loads, saves, store, unsaved, disk, restarts>>

BeginEdit(t, i) ==
    LET tab == page.tab[t]
    IN  /\ ~tab.isBusy /\ ~tab.isHydrating /\ tab.editing # i
        /\ i \in DOMAIN tab.conv.messages /\ tab.conv.messages[i].role = "user"
        /\ page' = [page EXCEPT !.tab[t].editing = i]
        /\ UNCHANGED <<requests, loads, version, saves, store, unsaved, disk, renaming, restarts>>

CancelEditing(t) ==
    /\ page.tab[t].editing # 0
    /\ page' = [page EXCEPT !.tab[t].editing = 0]
    /\ UNCHANGED <<requests, loads, version, saves, store, unsaved, disk, renaming, restarts>>
(***************************************************************************)
(* Loading a conversation into a tab.  Three awaits: the backend's answer, *)
(* the hydration, the next paint; after each the load checks that no later *)
(* load of the tab began and that the tab is still there.                  *)
(***************************************************************************)
X_IsCurrent(l) ==
    /\ l.tab \in Open(page)
    /\ l.kind = "restore" /\ l.phase = "hydrate" => page.tab[l.tab].conv.id = l.conv
IsCurrent(l) ==
    /\ version[l.tab] = l.version
    /\ l.tab \in Open(page)
    /\ l.kind = "restore" /\ l.phase = "hydrate" => page.tab[l.tab].conv.id = l.conv

StartLoad(p, t, kind, conv, title) ==
    /\ version[t] < MaxLoads /\ \A l \in loads : l.tab = t
    /\ loads' = loads \cup {[tab |-> t, version |-> version[t] + 1, kind |-> kind, conv |-> conv,
                             title |-> title, phase |-> "fetch", found |-> None]}
    /\ Commit(UpdateTab(p, t, [p.tab[t] EXCEPT !.isHydrating = TRUE, !.isBusy = FALSE,
                                               !.editing = 0], FreshTab),
              [version EXCEPT ![t] = @ + 1], requests)

\* ensureTabLoaded, the effect of selecting a tab that a restart brought back.
EnsureTabLoaded ==
    LET tab == page.tab[page.selected]
    IN  /\ ~tab.isLoaded /\ ~tab.isHydrating /\ tab.isPersisted
        /\ StartLoad(page, page.selected, "restore", tab.conv.id, tab.conv.title)
        /\ UNCHANGED <<saves, store, unsaved, disk, restarts>>

X_Showing(c) == {t \in {page.selected} : page.tab[t].conv.id = c}
Showing(c) == {t \in Open(page) : page.tab[t].conv.id = c}

\* A conversation picked from the search: its own tab, or the scratch tab.
SelectConversation(c) ==
    /\ store[c] # None /\ (EarlyPicks \/ ~\E t \in TabIds : \E i \in DOMAIN saves[t] : saves[t][i].conv.id = c)
    /\ LET shown == Showing(c)
           target == IF shown # {} THEN CHOOSE t \in shown : TRUE ELSE Last(Scratches(page))
       IN  IF shown # {}
           THEN /\ target # page.selected
                /\ page' = Select(page, target)
                /\ UNCHANGED <<requests, loads, version, renaming>>
           ELSE StartLoad(Select(page, target), target, "open", c, store[c].title)
    /\ UNCHANGED <<saves, store, unsaved, disk, restarts>>

\* A number is only compared with those of the tab's loads under way: after the last
\* of them the model counts from 0 again.
AfterLoad(l) == [version EXCEPT ![l.tab] = IF \E m \in loads \ {l} : m.tab = l.tab THEN @ ELSE 0]

LoadDropped(l) ==
    /\ ~IsCurrent(l)
    /\ loads' = loads \ {l}
    /\ version' = AfterLoad(l)
    /\ UNCHANGED <<page, requests, saves, store, unsaved, disk, renaming, restarts>>

Advance(l, phase, found) ==
    loads' = (loads \ {l}) \cup {[l EXCEPT !.phase = phase, !.found = found]}

LoadFetched(l) ==
    /\ IsCurrent(l) /\ l.phase = "fetch"
    /\ store[l.conv] # None /\ store[l.conv].title = l.title
    /\ Advance(l, "hydrate", store[l.conv])
    /\ UNCHANGED <<page, requests, version, saves, store, unsaved, disk, renaming, restarts>>

\* The backend has no such file, or reading it fails: a restored tab becomes a
\* new one, a tab something was opened in stays what it was.
LoadFailed(l) ==
    /\ IsCurrent(l) /\ l.phase = "fetch" /\ FreshTabs # {}
    /\ loads' = loads \ {l}
    /\ Commit(UpdateTab(page, l.tab,
                IF l.kind = "restore" THEN EmptyTab
                ELSE [page.tab[l.tab] EXCEPT !.isLoaded = TRUE, !.isHydrating = FALSE,
                                             !.isBusy = FALSE, !.editing = 0],
                FreshTab),
              AfterLoad(l), requests)
    /\ UNCHANGED <<saves, store, unsaved, disk, restarts>>

LoadHydrated(l) ==
    /\ IsCurrent(l) /\ l.phase = "hydrate" /\ FreshTabs # {}
    /\ Advance(l, "paint", None)
    /\ Commit(UpdateTab(page, l.tab,
                [page.tab[l.tab] EXCEPT
                    !.conv = [id |-> l.conv, title |-> l.found.title, messages |-> l.found.messages],
                    !.isPersisted = TRUE, !.isLoaded = TRUE, !.isBusy = FALSE, !.isHydrating = TRUE,
                    !.locked = @ /\ l.kind = "restore", !.editing = 0],
                FreshTab),
              version, requests)
    /\ unsaved' = [unsaved EXCEPT ![l.conv] = None]
    /\ UNCHANGED <<saves, store, disk, restarts>>

LoadPainted(l) ==
    /\ IsCurrent(l) /\ l.phase = "paint"
    /\ loads' = loads \ {l}
    /\ Commit(UpdateTab(page, l.tab,
                [page.tab[l.tab] EXCEPT !.isHydrating = FALSE, !.isBusy = FALSE, !.editing = 0],
                FreshTab),
              AfterLoad(l), requests)
    /\ UNCHANGED <<saves, store, unsaved, disk, restarts>>

(***************************************************************************)
(* The tab bar.                                                            *)
(***************************************************************************)
GoTo(t) ==
    /\ t # page.selected
    /\ page' = Select(page, t)
    /\ UNCHANGED <<requests, loads, version, saves, store, unsaved, disk, renaming, restarts>>

SelectTab(t) == t \in Open(page) /\ GoTo(t)
OpenNewTab == GoTo(Last(Scratches(page)))

\* cycleTabBy, with delta 1 or the number of tabs less one
CycleTab(delta) ==
    LET n == Len(page.order)
        at == CHOOSE i \in DOMAIN page.order : page.order[i] = page.selected
    IN  GoTo(page.order[((at - 1 + delta) % n) + 1])

\* The tab to the left takes over, else the one to the right.
CloseTab(t) ==
    /\ t \in Open(page) /\ FreshTabs # {}
    /\ LET at == CHOOSE i \in DOMAIN page.order : page.order[i] = t
           rest == Without(page.order, t)
           next == IF t # page.selected \/ rest = <<>> THEN None
                   ELSE IF at > 1 THEN page.order[at - 1] ELSE page.order[at + 1]
           closed == [page EXCEPT !.order = rest, !.tab[t] = None, !.lastActive = Without(@, t)]
       IN  Commit(NormalizeAndCommit(closed, FreshTab, next), version, requests)
    /\ UNCHANGED <<loads, saves, store, unsaved, disk, restarts>>

BeginRename ==
    LET tab == page.tab[page.selected]
    IN  /\ ManualTitles # {} /\ renaming # page.selected /\ tab.conv.messages # <<>>
        /\ ~tab.isBusy /\ ~tab.isHydrating
        /\ renaming' = page.selected
        /\ UNCHANGED <<page, requests, loads, version, saves, store, unsaved, disk, restarts>>

\* Confirmed with Enter, or by leaving the field.
FinishRename(title) ==
    /\ renaming # None /\ Len(saves[renaming]) < MaxSaves
    /\ LateRenames \/ ~page.tab[renaming].isBusy
    /\ LET tab == page.tab[renaming]
           conv == [tab.conv EXCEPT !.title = title]
       IN  IF tab.conv.title = title
           THEN UNCHANGED <<page, saves>>
           ELSE /\ EnqueueSave(renaming, conv, TRUE)
                /\ page' = SaveUpdated(page, renaming, conv, TRUE, None)
    /\ renaming' = None
    /\ UNCHANGED <<requests, loads, version, store, unsaved, disk, restarts>>

(***************************************************************************)
(* A restart: what was in memory is gone, browser storage and the files    *)
(* stay.  The saves that were queued are lost with the window.             *)
(***************************************************************************)
RestoredTab(d) ==
    [EmptyTab EXCEPT !.conv = [id |-> IF d.isPersisted THEN d.conv ELSE None,
                               title |-> d.title, messages |-> <<>>],
                     !.isLoaded = ~d.isPersisted, !.isPersisted = d.isPersisted, !.locked = d.locked]

\* buildInitialChatsModel and buildNormalizedInitialModel
InitialPage(d, fresh) ==
    IF d = None
    THEN [order |-> <<1>>, tab |-> [t \in TabIds |-> IF t = 1 THEN EmptyTab ELSE None],
          selected |-> 1, lastActive |-> <<1>>]
    ELSE LET place(t) == CHOOSE i \in DOMAIN d.tabs : d.tabs[i].tab = t
             order == [i \in DOMAIN d.tabs |-> d.tabs[i].tab]
             selected == IF d.selected \in Range(order) THEN d.selected ELSE order[1]
         IN  NormalizeAndCommit(
               [order |-> order,
                tab |-> [t \in TabIds |-> IF t \in Range(order) THEN RestoredTab(d.tabs[place(t)])
                                          ELSE None],
                selected |-> selected,
                lastActive |-> Touch(d.lastActive, selected)],
               fresh, None)

\* Browser storage that no restart will read any more is forgotten by the model.
Restart ==
    /\ restarts < MaxRestarts /\ FreshTabs # {}
    /\ page' = InitialPage(disk, FreshTab)
    /\ requests' = [t \in TabIds |-> None]
    /\ loads' = {}
    /\ version' = [t \in TabIds |-> 0]
    /\ saves' = [t \in TabIds |-> <<>>]
    /\ renaming' = None
    /\ restarts' = restarts + 1
    /\ disk' = IF restarts' < MaxRestarts THEN disk ELSE None
    /\ unsaved' = [c \in ConvIds |-> None]
    /\ UNCHANGED store

\* What a former session left of a conversation.
Former == LET score == CHOOSE s \in Scores : TRUE
          IN  [title |-> score, messages |-> <<FromUser(score), FromAssistant("answer")>>]

Init ==
    /\ page = InitialPage(None, None)
    /\ requests = [t \in TabIds |-> None]
    /\ loads = {}
    /\ version = [t \in TabIds |-> 0]
    /\ saves = [t \in TabIds |-> <<>>]
    /\ store = [c \in ConvIds |-> IF c \in Stored THEN Former ELSE None]
    /\ unsaved = [c \in ConvIds |-> None]
    /\ disk = None
    /\ renaming = None
    /\ restarts = 0

TurnStep(t) ==
    \/ StreamDelta(t)
    \/ \E o \in Outcomes : FinishTurn(t, o)
    \/ FinishStopped(t) \/ FinishStoppedEmpty(t)

LoadStep(l) ==
    LoadDropped(l) \/ LoadFetched(l) \/ LoadFailed(l) \/ LoadHydrated(l) \/ LoadPainted(l)

SaveStep(t) == PutConversation(t) \/ PutMessages(t) \/ SaveRefused(t)

Next ==
    \/ \E t \in TabIds : TurnStep(t) \/ SaveStep(t)
    \/ \E l \in loads : LoadStep(l)
    \/ \E t \in Open(page) :
         \/ \E s \in Scores \cup {0} : Send(t, s)
         \/ StopResponse(t)
         \/ \E i \in Editable : BeginEdit(t, i)
         \/ CancelEditing(t)
         \/ CloseTab(t)
         \/ SelectTab(t)
    \/ \E c \in ConvIds : SelectConversation(c)
    \/ EnsureTabLoaded
    \/ OpenNewTab
    \/ \E delta \in {1, Len(page.order) - 1} : CycleTab(delta)
    \/ BeginRename
    \/ \E title \in ManualTitles : FinishRename(title)
    \/ PersistNow
    \/ Restart

Spec == Init /\ [][Next]_vars

(***************************************************************************)
(* Properties.                                                             *)
(***************************************************************************)
\* The shape of the state of the page: open tabs have a state, the others none,
\* and everything kept per tab is about an open one, the queued saves excepted.
TypeOK ==
    /\ \A t \in TabIds :
         IF t \in Open(page)
         THEN /\ page.tab[t].conv.id \in ConvIds \cup {None}
              /\ page.tab[t].conv.title \in Titles
              /\ Len(page.tab[t].conv.messages) \in 0..MaxMessages
         ELSE page.tab[t] = None /\ requests[t] = None /\ version[t] = 0
    /\ renaming \in Open(page) \cup {None}
    /\ Range(page.lastActive) \subseteq Open(page)
    /\ \A l \in loads : l.tab \in TabIds /\ l.phase \in {"fetch", "hydrate", "paint"}
    /\ \A c \in ConvIds : store[c] = None \/ store[c].title \in Titles
    /\ restarts \in 0..MaxRestarts

\* The tabs and their selection are well formed after whatever sequence of sends,
\* loads, evictions, closings and restarts: ids once, no more than MAX_TABS, a
\* selected tab that is there, and one scratch tab to start in, the last of the bar
\* (normalizeTabsForInvariants, run after every update); and nothing is kept for a tab
\* that was closed or evicted (TypeOK).
PageIsNormal ==
    /\ TypeOK
    /\ Len(page.order) \in 1..MaxTabs
    /\ Cardinality(Open(page)) = Len(page.order)
    /\ page.selected \in Open(page)
    /\ Scratches(page) = <<Last(page.order)>>

\* A conversation is open in at most one tab, however it was opened: two tabs
\* that save the same file would overwrite each other (handleSelectConversation).
OpenOnce ==
    \A t, u \in Open(page) :
        t # u /\ page.tab[t].conv.id # None => page.tab[t].conv.id # page.tab[u].conv.id

\* A tab shows that it is working exactly while something works on it: no tab is
\* busy without a turn, shows a placeholder no answer will replace, or hydrates
\* without the load that ends it (sendMessageForTab, loadConversationIntoTab).
NoIdleSpinner ==
    \A t \in Open(page) :
        LET tab == page.tab[t] IN
        /\ tab.isBusy <=> requests[t] # None
        /\ tab.isBusy => tab.conv.messages = requests[t].asked.messages
        /\ ~tab.isBusy => Placeholder \notin Range(tab.conv.messages)
        /\ tab.isHydrating <=> \E l \in loads : l.tab = t /\ IsCurrent(l)

\* Of several conversations picked one after the other, a tab ends up with the
\* last, whichever answer arrives first (beginTabLoad, isTabLoadCurrent).
LastPickWins ==
    \A l \in loads : IsCurrent(l) /\ l.phase = "paint" => page.tab[l.tab].conv.id = l.conv

\* Nothing is under way for the tab, and it claims to be saved.
AtRest(t) ==
    LET tab == page.tab[t] IN
    tab.isPersisted /\ tab.isLoaded /\ ~tab.isBusy /\ ~tab.isHydrating /\ saves[t] = <<>>

\* What the file of a conversation holds or, when the backend refused to save it, would hold.
Meant(c) == IF unsaved[c] = None THEN store[c] ELSE unsaved[c]

\* Once its saves are done, a tab at rest shows what the file of its conversation
\* holds, under the title the file is found by: an answer that was shown is still
\* there when the conversation is opened again (saveUpdatedConversation).  Where the
\* backend refused a save, it shows what that save was to write, until one that is
\* done writes all of it: nothing but a refusal keeps a save from its file.
SavedAtRest ==
    \A t \in Open(page) :
        AtRest(t) => Meant(page.tab[t].conv.id) = FileOf(page.tab[t].conv)

\* A title the user gave is not replaced by an automatic one while the tab stays
\* open, whatever turn runs or ends (manualTitleLocked).
TitleLockHolds ==
    [][\A t \in Open(page) \cap Range(page'.order) :
         LET conv == page.tab[t].conv
             next == page'.tab[t].conv
         IN  page.tab[t].locked /\ next.id = conv.id /\ restarts' = restarts
               => next.title \in {conv.title} \cup ManualTitles]_vars

\* 14-chats-workspace-and-composer-design.md:171, "When the response finishes, the
\* final assistant message is persisted back into the conversation": an answer a tab
\* at rest ends with is the last message of the file of its conversation.
AnswerIsSaved ==
    \A t \in Open(page) :
        LET conv == page.tab[t].conv
        IN  AtRest(t) /\ conv.messages # <<>> /\ Last(conv.messages) = FromAssistant("answer")
              => store[conv.id] # None /\ Last(store[conv.id].messages) = FromAssistant("answer")
=============================================================================
