# Verification of FlexiGPT

TLA+ models of the parts of FlexiGPT whose correctness depends on what happens
between two steps: calls that race their cancellation, sessions that are
replaced while they are being built, approvals that outlive what they were given
for, answers that arrive in a tab that shows something else by then, tool calls
that several loops run at once, catalogs that are reconciled with a runtime whose
calls fail. TLC checks the models on small instances; TLAPS proves their invariants
for every value of the constants.

All paths below are relative to the repository's root.

## 1. The system

FlexiGPT is a desktop application: a Go process (`cmd/agentgo`, `internal/`)
behind a React frontend (`frontend/app`), joined by the Wails bridge. Every call
of the frontend is handled in a goroutine of its own, so two calls may be handled
in either order; events go the other way. The process keeps its data in files and
SQLite databases below the user's data directory, talks to model providers through
an inference library, and runs or connects to MCP servers.

| Part | State it keeps | Operations | Hard behaviour | What makes it correct |
|---|---|---|---|---|
| Completions (`cmd/agentgo/wrapper_aggregate.go`, `frontend/app/apis/wailsapi/aggregate.ts`) | running requests, IDs cancelled before they arrived, active IDs of the frontend | fetch, cancel, abort | a cancel may overtake its request; IDs may be reused | the registry lists what runs; an abort stops its own request and no other |
| MCP sessions (`internal/mcp/runtime/connection`) | sessions, generations, attempts, debounce timers, clients | connect, disconnect, refresh, invalidate, close, notifications | every network and store call is made outside the lock | no superseded session comes back, no client leaks, a ready session works |
| MCP store mutations (`internal/mcp/aggregate`, `internal/mcp/store`) | server documents, catalogs, overlays, their revisions | prepare, invalidate, commit | the invalidation comes before the commit | a session is of the version the store has |
| MCP policies (`internal/mcp/runtime/policy`) | none: a function of the selected policies | compose, evaluate, constrain by a mapping | absent overrides, order of selection, stale digests | selecting a policy only tightens |
| MCP approvals (`internal/mcp/runtime/invocation`) | pending approvals, tokens, remembered decisions | evaluate, resolve, invoke | session, tool and policy change between decision and call | a call goes on only with the authority it needs, a token works once |
| OAuth loopback (`internal/mcp/runtime/auth/oauth_loopback_broker.go`) | pending authorizations by server and by state | fetch, callback, cancel, list, close | result, timer and context race; states collide | a waiting fetch is answered or registered, and always returns |
| OAuth tokens and status (`tracked_oauth.go`, `artifact_auth.go`) | persisted tokens, one status per server | load, save, delete, publish | handlers of superseded sessions still write | the token and the status are the latest session's |
| Artifact store (`internal/artifactstore`) | sources, packages on disk, metadata, generations | publish, replace, remove, scan | a crash between two renames; changes by other processes | a package is there in full or not at all; a stale generation is refused |
| Skills (`internal/skill`) | catalogs, generations, what the agent runtime holds | synchronise, remove, resolve, close | two synchronisations read and apply in different orders; calls of the agent runtime fail one by one; two locks | the runtime holds what is registered, the latest synchronisation wins, nothing is added behind `Close` |
| Presets and tools (`internal/modelpreset`, `assistantpreset`, `tool`, `builtin`, `overlay`) | bundles in files, flags in SQLite, a rebuilt snapshot | put, patch, delete, rebuild | a change while a rebuild runs | a change reaches the snapshot; no update is lost |
| Workspaces (`internal/workspace`) | roots, collections | open, scan, resolve | artifacts that change under a selection | a stale selection is reported |
| Conversations (`internal/conversation`) | one file per conversation, full-text index | put, put messages, delete, search | title changes rename the file; saves overtake each other | one file per conversation, holding the last save |
| Settings (`internal/setting`) | encrypted keys, preferences | set, delete | the provider set keeps a copy of each key | the two agree |
| Inference (`internal/inferencewrapper`) | provider set (external) | add, delete, set key, fetch | a provider is replaced while it is used | a completion uses one provider's settings |
| Log writer (`internal/logrotate`) | queue, current file | write, rotate, close | a write that meets Close, a rotation that fails | accepted lines are written; no write crashes |
| Chat page (`frontend/app/chats/tabs`, `chats/conversation`) | tabs, their conversations, loads and queued saves; what browser storage holds | send, stop, edit, rename, pick a conversation, open, close and cycle tabs, restart | every answer, load and save comes back after other steps; tabs are evicted | a tab at rest shows what is saved; the last pick wins; no conversation is open twice |
| Streams (`chats/conversation/use_streaming_runtime.ts`) | per tab: published text, chunks, timer and frame | chunk, publish, select, clear, close | throttling; chunks for tabs in the background | nothing is lost, and what is buffered gets shown |
| Composer (`chats/composer`) | the tool calls of the last answer, attempts, flags that block | run, run all, run and send, retry, discard, stop, send, edit | four loops await executions while the calls change | a result counts for its own run; what is sent is complete; nothing runs unasked |

Calls between the parts, as far as they matter here. The frontend's
`fetchCompletion` registers stream events, calls `FetchCompletion` and, on abort,
`CancelCompletion`. A completion with MCP context reads sessions and effective
policies. A tool call of the model or of an MCP app goes through
`Bridge.Evaluate`, the approval dialog and `Bridge.Invoke`, which calls the
session manager twice: once for the dry run and once for the call. The session
manager resolves the server through the aggregate's resolver, prepares its
authorization with the auth manager (which may wait for the loopback broker), and
clears the server's approvals whenever a session ends. Lifecycle mutations
invalidate sessions through a callback before they commit to the artifact store.
In the window, the chat page sends through `fetchCompletion`, whose chunks go to
the stream runtime; the end of a turn hands the tool calls of the answer to the
tab's composer, which runs them and calls the page's send again, for the user or on
its own. The page saves through `PutConversation` and `PutMessagesToConversation`.
The window has one thread: between two awaits a handler meets nobody, and what it
read before an await may be stale after it.

## 2. Modules

| Module | Models | Composition |
|---|---|---|
| `CompletionRegistry` | one request from the promise of `fetchCompletion` to the goroutine that runs the provider | frontend, bridge and backend in one module |
| `MCPSession` | `MCPRuntimeManager` for one server, and the mutations of `lifecycle.go` that invalidate it | session manager and store mutations |
| `OAuthLoopback` | `OAuthLoopbackBroker` with its fetches | stands alone |
| `MCPPolicy` | composition, inferred risk, evaluation, and a conversation's mapping | a function of the policies, checked as they are selected one by one |
| `MCPApproval` | `ApprovalManager`, `Evaluate`, `Invoke`, and the session steps they meet | bridge, approvals and an abstract session manager |
| `SkillCatalog` | `Service` of `internal/skill/runtime`: the catalogs, their merge and its reconciliation | the agent runtime and the catalog source are external |
| `ChatTabs` | `useChatsController`, `useSendMessage`, the normalisation and persistence of tabs, the conversation's file | page, turns, save queues and the store's two puts in one module |
| `LiveText` | what streaming an answer promises: a specification of its own | abstract |
| `StreamRuntime` | `useStreamingRuntime`, the steps of a request that reach it, and what the conversation keeps when it ends | implements `LiveText` |
| `ComposerTools` | `useComposerToolRuntime`, the drainer of automatic calls, the submits of `editor_area.tsx` | composer, its loops and its effects in one module |

`MC...` modules (one each of the six above `ChatTabs`, and `MCChatTabs`,
`MCStreamRuntime` and `MCComposerTools`) instantiate them for TLC, `..._proofs` hold the theorems. One of these,
`Completion_proofs`, is about two modules, `CompletionRegistry` and `StreamRuntime`, which
have no definition of the same name: the specification of the first is `RegistryInit`,
`RegistryNext`, `RegistrySpec`.
`MCPApproval` takes the verdict of a policy as a parameter (`Verdict`), which is
what `MCPPolicy` computes; and it keeps of `MCPSession` only which operation took
the server over last and what its session offers. The three modules of the window
meet at named steps: `Send` and `FinishTurn` of `ChatTabs` are `BeginRequest` and
`Complete` or `Cut` of `StreamRuntime` and `Sent` and `Answer` of `ComposerTools`; each keeps
of the others only what it reads (that a tab has a request, that a turn ended with
tool calls). A send is a `fetchCompletion` of `CompletionRegistry` with an ID of its
own.

### How state and actions correspond to the code

**CompletionRegistry.** `completionCancels` and `preCanceled` are the maps of the
same name, `retained` says which early cancels are younger than
`preCanceledRetention`, `ctxDone` which contexts are cancelled. `activeIds` is
`activeCompletionRequestIDs`. `fetchSent`, `cancelSent` and `replySent` are the
bridge's messages in transit, delivered in any order. `FetchArrives` is the first
critical section of `FetchCompletion`, `FetchExits` its deferred clean-up,
`CancelArrives` is `CancelCompletion`. The stream of deltas, the provider call and
the keys are left out: a provider call is a step that returns.

**MCPSession.** All maps of the manager are keyed by server and no operation reads
another server's entries, so the model follows one server: `session`,
`generation`, `attempt`, `timer` are its entries. An *op* is one invocation of
`Connect`, `Disconnect`, `Refresh`, a mutation, a notification, a timer or `Close`;
`pc` says which step comes next. Each critical section of `m.mu`, each network
call and each store call is one action, in the order of the code, the error paths
included: `BeginConnection`, `Detach` (cancelling the previous attempt and
stopping the timer), `CloseClient`, `Resolve`, `Announce`, `CheckCurrent`, `Dial`,
`Discover`, `CommitConnection`, `CloseOwn`, `Finish` for a connect;
`LookUp`, `RefreshCopied`, `RefreshResolves`, `RefreshDiscovers`, `RefreshCommits` for a
refresh. Documents, catalogs and overlays are one number, `storeVersion`; the
server's lists are one number, `serverRev`. `Session.Discover` logs a list it cannot read
and succeeds without it, even on a client that was closed meanwhile: `Lists` lets a
discovery return no lists, numbered 0. `session()` copies the session after
it has released the lock, while `disconnectSession` changes the same object in
place: that is a data race, and `Disconnect` lets each field a copying refresh
sees be the old or the new one.

**OAuthLoopback.** `pendingByServer`, `pendingByState`, `closed`, `serveErr` are the
broker's fields; `resultCh` is the buffered channel of each fetch. The readiness
check and the registration are two actions, since the lock is released between
them; so are the timer and the removal that follows it. When several cases of the
select are ready any may be chosen. The deadline of a fetch and the clock that
purges are read at different moments, so a purge may or may not find a fetch
expired (`SUBSET` of the expired ones).

**MCPPolicy.** A policy has one override, for the one tool that is followed; trust,
approval rule, execution mode, the three `ask` flags and the app flags are as in
the code. `Compose`, `Conflict`, `Risk`, `Decision` and `Tightened` are
`composePolicies`, the digest conflict, the inferred risk, `evaluateTool` and the
constraints of a mapping. `SetPrimary`, `Select` and `Deselect` change the
references of a server; their order is the order in which the code folds them.

**MCPApproval.** `pending`, `issued`, `expired` and `decisions` are the approval
manager's maps; `latest`, `ready`, `tool` and `policy` what a call reads of the
session. `DryRun`, `LookupDecision`, `Create`, `Resolve`,
`VerifyAndConsumeToken` and `CallTool` are the critical sections that `Evaluate`,
`Resolve` and `Invoke` go through; `ClearServer` follows the end of a session in
an action of its own, because the code releases the session lock before it.

**SkillCatalog.** `catalogs`, `registered`, `generation` and `closed` are the service's
fields, a catalog that is absent being one without skills; `held` is what the agent
runtime, an external library, was given and has not been asked to take back. An *op* is
one invocation of `SyncCatalog`, `RemoveCatalog` or `Close`. The two locks are derived
from `pc`: `HasCatalogMu` and `Readers` say who holds them, `MayRLock` that a waiting
writer keeps new readers out, as Go's read-write lock does. `Ready` and `Number` are the
two checks of `beginCatalogSync`, `Enter` is `reconcileCatalogAtGeneration` with
`removeCatalogAtGeneration`, which also follows a source that fails, under a context that
does not end. `present`, `left` and `failed` are the locals of `applyDesiredLocked`; each
call of `RemoveSkill` or `AddSkill` is an action that succeeds or fails, in the sorted
order of the definitions (`IsNext`), until the context ends.

**ChatTabs.** The page is one record: `order` and `tab` are `tabsRef`, `selected`
is `selectedTabIdRef`, `lastActive` orders the time stamps of `lastActivatedAtRef`.
Every update goes through `NormalizeAndCommit`, as in the code: it drops surplus
scratch tabs, evicts a tab (`Victim`) when a scratch tab needs its place, and
selects a neighbour. `requests` holds what `sendMessageForTab` has in its closure:
the conversation the request was made with, which `Settle` puts back at the end of
the turn. `saves` are the promise chains of `enqueueSaveForTab`, `PutConversation` and
`PutMessages` the store's handlers, where a put of messages needs a file of that
title, and `SaveRefused` either of them with an error (a disk that is full, a file that
cannot be read or is not valid): the file stays as it is, the error is logged, the tab
counts as saved all the same and the queue goes on. `unsaved` is history: what a
conversation's refused save was to write, until a save that is done writes all of it.
`loads` are the runs of `loadConversationIntoTab` between their three awaits,
`version` the counter that makes the older one give up
(it counts from 0 again once a tab has no load under way, since a number is only
compared with those of the tab's own loads). `PersistNow` writes browser
storage and `Restart` starts from what is there; queued saves are lost, files stay, and
what no further restart of the instance will read is forgotten. A message is who sent
it and what became of it; the text of a user message is the
score `generateTitle` gives it, which is its title too. `Filter` is JavaScript's `filter`
with a set for its predicate; it is written over the places of a sequence, which the
proofs can count, and not as `SelectSeq`, which is recursive.

**StreamRuntime.** `display` is the text merged by `flushStreamChannel`, `pending` the
chunks not yet merged, per channel; `schedule` is the timer or the frame of
`notifyStreamSoon`, `recent` says that less than `STREAM_RENDER_INTERVAL_MS` has
passed since the last publication. `Chunk` is the callback of `useSendMessage` with
the check that the request is still the tab's, `CatchUp` the layout effect of a tab
that comes to the front, `FramePublishes` the callback of a frame. `shown` is what
the card of the selected tab renders. A request ends by `Complete`, with a usable response
(`reconcileAssistantTextWithStream`: its text gives way only to a streamed text that goes
on beyond it, and streamed thinking is not merged), or by `Cut`, stopped, failed or
without a usable response (`buildTerminalAssistantMessage`: the streamed text is
preferred, the streamed thinking is appended unless it is there); `Chosen` and
`WithThinking` are `chooseAssistantText` and `mergeStreamedThinking`. The filter of `fetchCompletion` that drops a
delta equal to the one before lies in front of `Chunk`. A turn whose streamed thinking
is kept shows it in the window; writing a conversation to its file drops it.

**ComposerTools.** `call` merges `toolCalls` and `toolOutputs`, since a call is in one
of them; `attempt` is `toolCallAttemptKeyByIdRef`. An execution that is awaited is
a *flight*, with the loop that awaits it: the drainer's `pump`,
`runAllPendingToolCalls`, the loop of "Run tools and send" with the calls it has
captured, or a click. `Finish` is the return of the await and what its loop does
before the next one. `Start` is `runToolCall` up to the await. `blocked` is the
drainer's ref, which an effect sets to `Blocked` later. `doSubmit` has three parts, at
its awaits: `BeginSubmit`, `Prepare` (it reads the calls again) and `Sent`. `Reload` is
`clearComposerTransientState`, which every load of an answer, an edit or another
conversation goes through; `Answer`, `OpenConversation` and `EditMessage` are those
loads. An edit ends by its send, by `CancelEdit` (the button: the composer is cleared,
and what is brought back does not include the calls), by `AutoCancelEdit` (the text is
deleted and there is nothing else to send) or with its conversation. `workspaceBlocked`
is `workspaceExecutionBlocked`, which keeps the drainer, the buttons and `doSubmit` from
starting anything. `Effects`, `FastForwardEnds` and `AutoSubmit` are the React effects. `made`,
`batch`, `asked`, `sender` and `runs` are history: what assistants have called, the calls
of the last answer that no edit has cleared, what the user asked to run, who began the
submit and how often a call was executed.

Definitions whose names begin with `X_` or end in `_X` are slips a change of the code could make. No
action uses them; they document which property would notice (`PROJECT.json`,
"mutants").

## 3. What the runs check

State counts are of complete runs. Violations are found before the state space is
complete.

| Run | Instance | Checks | States |
|---|---|---|---|
| `completion` | two calls that share an ID, one with its own | registry and early cancels, cancellation is the caller's own, an abort stops the provider | 17,712 |
| `session` | two connects with two of a refresh, a disconnect and a bundle update; or a connect, a server update, a notification and its timer against `Close` | current session, owned clients, open ready session, superseded attempts cancelled, connecting ends, a closed manager releases every client | 315,807 |
| `oauth_loopback` | three fetches: one server twice, one state twice | the maps agree, no waiter is forgotten, fetches return, a closed broker drains | 80,465 |
| `policy_composition` | 13 policies, 7 tools, a primary and up to two additional ones in any order | selection tightens, order is irrelevant, digests and mappings are enforced | 2,562 |
| `approval_authority` | one approval, two equal invocations and one with other arguments, two session operations, a tool that changes and is turned off | authority is exact, a token works once | 3,599,454 |
| `skill_catalogs` | two syncs and a removal of one catalog, a sync of another that shares a definition with it, `Close`; any call may fail, one context may end | the latest invocation decides, the record is what the runtime holds, nothing is added after `Close`, the locks do not deadlock | 1,385,774 |
| `chat_pages` | three conversations of former sessions, three tabs of four ids, two loads of one tab at once, stops at any time, saves that may be refused | tabs are normal, open once, no idle spinner, the last pick wins | 351,516 |
| `chat_turns` | one conversation, two tabs, two texts with different scores, turns that end with tool calls, edits, a rename, a load, a restart, saves that may be refused | a tab at rest shows what is saved or what a refused save was to write, a title the user gave is kept | 1,171,902 |
| `chat_saved` | one conversation, three turns that may be stopped | **violated**: `AnswerIsSaved` | |
| `stream` | two tabs, two requests with different chunks on both channels, responses that begin, extend or contradict the stream, or hold nothing | no chunk is lost, mixed up or reordered, what is buffered is shown, `LiveText` is implemented | 436,352 |
| `composer` | an automatic call that the user may run twice, a manual one that asks for an approval, edits, a workspace that may be in error | a running call is awaited, what is sent is complete and earned, repeats are asked for, automatic calls run, the lock ends | 204,869 |
| `composer_manual` | the same | **violated**: `ManualCallsAreConfirmed` | |

### Bounds, and why they are enough

* Completions: a defect needs a request, its cancel and one more call with the
  same or another ID; there are two of the first kind and one of the second.
* Sessions: the state is one session, so any conflict is between the operation
  that owns it and those that take it over. The mixes (`Mixes`) hold two connects (the
  second supersedes the first at every step) and two of the operations that can
  take over between them, in every pairing; the last mix has `Close` against what may
  be under way then. The proofs remove the bound for the invariants.
* Loopback: fetches conflict pairwise, through their server or their state; three
  fetches have both conflicts at once.
* Policies: composition folds one policy into an accumulated one, so two additional
  policies give every pair in both orders. Each of the 13 policies is stricter or
  laxer than a lenient one in one or two ways; the tools cover the inferred risks,
  the visibilities and the need of task support, and two digests tell "expected"
  from "other".
* Approvals: a token can be presented by two invocations, or by one with other
  arguments; two session operations make a session end and another begin. Two
  values of the tool and of the policy tell "the same" from "changed".
* Skill catalogs: conflicts are between two invocations of one catalog (the older of
  which may be a sync or a removal), between two catalogs that want one definition at
  different revisions, and of each with `Close`. Two definitions let one call of a
  reconciliation fail while the other succeeds; two revisions tell "unchanged" from
  "to be replaced". One sync's context may end at any step (`Endable`).
* Chat page: the two runs divide the questions. `chat_pages` is about the page: three
  tabs of four ids, so that the least recently used of several is evicted and an id
  that was closed is new again; three conversations that former sessions left
  (`Stored`), one more than there is room for beside the scratch tab, of which the user
  goes on with one (`Talks`; the other two are interchangeable, hence the symmetry);
  and two loads under way at once (`MaxLoads`), which is what a race of loads takes; they
  are of one tab, because what loads decide, they decide within a tab.
  `chat_turns` is about one conversation: what its turns, edits and renames save, and
  what a restart finds; a second tab is the scratch tab. Its turns end with tool calls,
  which go on by themselves or with a message; a turn that is stopped after some output
  is saved by the same `Settle`, and stops are what `chat_pages` and `chat_saved` are
  about. `MaxMessages` is the length of
  two turns, `MaxSaves` says when a person waits for a save before the next message,
  `MaxRestarts` bounds what a person can repeat for ever. With `Refusals` the backend may
  refuse any save, at any time; `chat_saved` has it off, so that its counterexample is not
  a refused save. Three bounds leave out cases
  that go wrong (see the disagreements): `EarlyStops`, `LateRenames` and `EarlyPicks`.
* Streams: two tabs are the selected one and one in the background; two requests are
  one after the other in a tab, or one in each; two chunks of a text
  are one published and one pending, and merge in the background at two (`Compact`). The
  five chunks of the two requests are all different, so that none can change its place or
  its request unnoticed. A response (`Replies`) may hold nothing, the whole text of a
  request and more, only its beginning, or another text.
* Composer: an automatic and a manual call, the second of an MCP tool whose executions may
  wait for an approval (`Dialogs`). A user runs the automatic one up to twice (`MaxRuns`,
  which bounds what the user asks for; the loops are not bounded), so that a retry
  meets the return of the first run, and the manual one once. `Reopens` leaves out that the same conversation
  is opened again while its calls are unanswered: its calls then carry the ids a loop
  may have captured.

`CHECK_DEADLOCK FALSE` is set where every invocation of the instance may have
finished: each op runs once, so the system then stops (for the skill catalogs `SomebodyCanGoOn`
says that it stops nowhere else); the chat page and the streams
stop where the bound on messages, loads or requests is reached. Selecting policies and
using the composer can always go on, and deadlock is checked there.

### Fairness

* `CompletionRegistry`: the bridge delivers each message and a goroutine that can
  run does; a provider call returns *once its context is cancelled* (the HTTP
  requests carry the context). No provider has to answer, no user has to act.
* `MCPSession`: an invocation that has started goes on. Every network call has a
  context with a timeout, so it ends by its result or by the timeout
  (`AttemptFails`, `DiscoverFails`, `RefreshFails`); an armed timer fires. Nobody
  has to call the manager.
* `OAuthLoopback`: a fetch that can go on does, and time passes, so its timer is
  ready some day. No browser has to call back, and no context has to end.

* `StreamRuntime`: while the window is visible, timers and animation frames fire and
  time passes. No backend has to send anything.
* `ComposerTools`: the execution of a call outside `Dialogs` ends. `withTimeout` bounds the
  invoke itself (`execute_tool_call.ts:22-40`); the evaluation of the policy that an MCP
  call makes before it (`:181-183`) has no timeout in the window and is assumed to
  answer, as it reads the backend's memory only. The approval dialog (`:240-250`) waits for the user
  without bound, so nothing is assumed of the executions in `Dialogs`: the two liveness
  properties except what waits behind such an execution (`Asking`). Each await of
  `doSubmit` ends, by success or failure; React runs the effects of a change. Nobody
  has to press anything, no workspace has to recover, and no provider has to answer.

The other modules have safety properties only. That the invocations of `SkillCatalog`
return follows from `SomebodyCanGoOn`, because each goes through its places once.

### Disagreements the runs show

1. `chat_saved`. A send saves the conversation under the title its first messages
   suggest, but its request keeps the conversation with the title of before, and the
   end of the turn writes that back. Usually the end of the turn gives the same title
   again. A turn stopped before any output does not (`use_send_message.ts:363-375`): the
   tab keeps a title that no file has, every later put of messages fails in the store,
   the error is only logged, and the answers are lost with the window.
   `docs/content/14-chats-workspace-and-composer-design.md:171` promises that the final
   message is persisted.
2. `composer_manual`. The loop of "Run tools only" takes whatever calls are waiting
   when an execution returns. If the composer was cleared meanwhile (an earlier message
   edited and sent, another conversation opened in the tab), those are calls of another
   answer, and manual ones run unconfirmed. `docs/content/04-composer-context.md:120-127`
   says that the user inspects a proposed call and then runs or discards it.

### Disagreements without a run

Met while modelling, and seen in counterexamples of the models or in the code. No property
of a run denies them: where a model contains the behaviour the property it touches says so
in its statement, and where it is left out by a switch or as detail the item names that.

3. A mutation invalidates before it commits (`internal/mcp/aggregate/lifecycle.go:190`).
   A connect that resolves the server in between becomes ready at the version the
   commit makes obsolete, and nothing invalidates it again; a bundle update also misses
   a first connect whose session has no collection yet.
   `devdocs/requirements/mcp_artifactstore_hld.md:1386-1388` promises that mutations
   invalidate the corresponding session.
4. The copy of a session outside the lock (`session_manager.go:1073`) races
   `Disconnect`: a refresh that saw the old client and the new generation records its
   error on the disconnected session.
5. A list-changed notification during the connect, after the discovery and before the
   commit, starts a refresh that finds no client; the change is lost although the
   session becomes and stays ready (`mcp_hld.md:1508-1512`).
6. An additional policy can permit a request that was denied before: `allowStaleDigest`
   counts only the policies with an override for the tool (`policy.go:401`), and
   visibility is checked only while MCP Apps are enabled (`bridge.go:88`), which an
   additional policy can end. `mcp_artifactstore_hld.md:643` says that additional
   policies may only tighten. `SelectionTightens` holds for current digests and states
   what the composition does guarantee.
7. An evaluation that read the old session creates its approval after that session's
   approvals were cleared (`bridge.go:102`), so the user's answer counts in the next
   session; the comment at `approval_manager.go:217-218` says they end with the session.
8. `CallTool` reads the session again but decides nothing again
   (`session_manager.go:606`), so a call allowed under one session runs in its
   successor, whose policy asks (`mcp_hld.md:1983-1995`).
9. A refresh that finds a new version removes whatever session is there, a newer one
   included; that costs a reconnect. Two refreshes of one session may commit in the
   opposite order, which leaves the older lists until the next notification or the
   snapshot's expiry.
10. With no primary policy the first additional one replaces the baseline, as the
    comment at `internal/mcp/store/consumerapi/resolver.go:352-355` means and the design
    document denies. A tool with the destructive and the open-world hints counts as
    open-world only (`policy/evaluation.go:25`), so a policy that asks for destructive
    tools alone does not ask.
11. Chat page. A rename confirmed during a turn is undone by the end of the turn, and
    it saves the placeholder the turn shows, which a restart before the turn's own save
    brings back as an answer that nothing completes (`LateRenames`). Browser storage
    written during a first turn may hold the title of before, and a restart then finds no
    file and drops the tab (in the model: `PersistNow`, `LoadFailed`). A conversation opened from
    the search has its manual title unlocked (in the model: `LoadHydrated`; `TitleLockHolds`
    is about a tab that keeps its conversation). A save that
    the backend refuses leaves the tab marked as persisted (`use_chats_controller.ts:616-623`,
    `:247-269`); if it was the first or changed the title, the saves of messages behind
    it find no file either, until another full save (in the model: `SaveRefused`; `SavedAtRest`
    compares such a tab with what the refused save was to write, not with the file). A
    conversation picked while its new title is being saved is looked up under the old one
    (`EarlyPicks`).
12. Composer. With an earlier message in the editor, the retry of one automatic error
    that then succeeds sends the draft with the other error outputs, although
    `04-composer-context.md:139` has errors sent deliberately (`OwnSendIsEarned` excludes
    edits). A call retried after its loop of "Run tools and send" has passed it keeps
    the composer locked until the user discards it (`LeftByFastForward`). That loop
    repeats captured calls after the same conversation is opened again (`Reopens`). A
    stop of the automatic execution that is pressed while calls are listed or a submit
    is under way is forgotten at the end of the submit (in the model: `Sent`). An edit that
    is begun and cancelled loses the calls that were listed: the next message goes out
    without answering them (in the model: `CancelEdit`, `AutoCancelEdit`;
    `EveryCallIsAnswered` counts those calls as no longer due).
13. Two equal deltas of a stream in a row are taken for a repetition and the second is
    dropped (`apis/wailsapi/aggregate.ts:129`), until the response replaces the text.
14. A sync that a newer one has overtaken returns success without having installed
    anything (`internal/skill/runtime/catalog.go:85`). `ResolveArtifactSkill`
    (`internal/skill/aggregate/artifact_runtime.go:67-106`) takes that for a synchronised
    catalog and fails when the newer sync is not done yet, and the window does resolve
    several skills of one collection at once (`apis/skill_management.ts:688`). And a sync
    of one catalog returns the errors of all (`catalog.go:191`): a definition that two
    other catalogs want at different revisions makes `resolveArtifactSkillWithResync`
    call every skill unavailable.

## 4. What is proved

The theorems hold for every value of the constants that meets the modules' named
assumptions: the types of the parameters, that `NoCall`, `NoOp`, `NoFetch` and
`None` are no members of the sets they stand outside of, that skill definitions are
naturals (their order is the order of reconciliation), that evaluations and
invocations are different calls, and that a policy denies a tool which is turned
off (`UnusableIsDenied`, which is what `evaluateTool` does first), that `Compact` of
`StreamRuntime` is a natural, its `Output` and `Replies` are texts, and no response is one
of the replies, that automatic calls and those with dialogs are calls, that `MaxRuns` is a
number for each, and that the bounds of
`ChatTabs` are numbers that leave room for two tabs and, if there are files of former
sessions, for their two messages.

Three theorems have a hypothesis besides. `ChatTabs` has three switches for moments at which
the code goes wrong (section 3, findings and disagreement 11); a theorem names those it
needs off, and no more: `PageStaysNormal`, `OpenInOneTab` and `TheLastPickWins` need none,
whatever the user stops, renames or picks. None needs `Refusals` off. `NoLoopRepeatsACall` of the composer likewise
names `~Reopens`.

| Theorem | Says | Argument |
|---|---|---|
| `Completion_proofs!RegistryTypeCorrect` | the types of `CompletionRegistry` | inductive as it stands |
| `...!RegistryCorrect` | `RegistryIsExact` | its second half, that a remembered cancel is an early one, carries the first; with `NotYetHandled`: a request in transit has no goroutine yet, so a call is registered once |
| `...!CancellationIsOwn` | `OnlyAbortedCallsAreCancelled` | needs `CancellationsStemFromAborts`: a cancel in transit and a remembered ID come from a call with that ID which was aborted |
| `MCPSession_proofs!TypeCorrect` | the types | inductive as it stands |
| `...!SessionCorrect`, `NoClientLeaks`, `ReadyClientIsOpen` | `SessionIsCurrent`, `OpenClientsAreOwned`, `ReadySessionIsOpen` | three layers: `PlaceInv`, which operation can be at which step; `GenInv`, a generation is given to one attempt; `OwnInv`, who owns each client. The last uses the first two: an attempt commits only under its own generation, so the session it finds has no client of anyone else's |
| `...!NoAttemptGoesOnUnnoticed` | `SupersededIsCancelled` | a fourth layer, `CancelInv`: an attempt with the current generation is the registered one, so whoever takes the generation over finds exactly the attempt it has to cancel (`TakingOverCancels`) |
| `OAuthLoopback_proofs!TypeCorrect`, `MapsAgree`, `LoopbackCorrect`, `NothingRefersToReturned` | the types, `PendingMapsAgree`, `WaiterIsServed`, `ReturnedIsForgotten` | one inductive invariant of the four, with `PlaceInv`: a registered fetch waits or leaves and has no result |
| `MCPPolicy_proofs!SelectionOnlyTightens` | `SelectionTightens` | monotony of each field of the composition, then of the decision |
| `...!ExpectedDigestIsEnforced` | `ExpectedDigestHolds` | either one digest is expected by all, or the composition denies |
| `...!OrderDecidesNothing` | `OrderIsIrrelevant` | a composition depends on the set of its members (`SameMembersCompose`), its expected digest excepted, and that differs only in a conflict, which denies (`ConflictDenies`); a permutation has the same members (`Reordered`) |
| `...!MappingsOnlyTighten` | `MappingIsRespected` | the composition is a policy (`ComposedType`), tightening one is a policy no weaker in any field (`TightenedPolicy`), and the decision is monotonous (`MappingOnlyTightens`) |
| `MCPApproval_proofs!TypeCorrect` | the types | with `ReadyHasTool` and `SeenSomething`: a ready session has a tool, and a call that goes on has seen one |
| `...!ApprovalCorrect`, `TokensAreUsedOnce` | `AuthorityIsExact`, `TokenUsedOnce` | `ApprovalInv`: a pending or answered approval was offered by an evaluation that has ended, so its key no longer changes; a remembered decision has its answer; an authority given once is no longer pending, so no second invocation can take it |
| `SkillCatalog_proofs!TypeCorrect` | the types | inductive as it stands |
| `...!LatestDecides` | `LatestInvocationDecides` | `MutexInv`, one invocation at a time has `catalogMu`; `NumberInv`, a generation is given to one invocation and none is ahead of the catalog's; so the one that installs a view under the current generation is the latest |
| `...!RuntimeFollowsCatalogs` | `RuntimeHoldsTheMerge` | `ApplyInv`: during a reconciliation `held` is `present`, and without a failure every definition not in `left` is done |
| `...!ClosedOnlyShrinks` | `NothingAfterClose` | `CloseInv`: while the write lock is held nobody reconciles, and a reconciliation after it is `Close`'s own, of no catalogs |
| `...!LocksDoNotDeadlock` | `NoDeadlock`, which is `SomebodyCanGoOn` with `MayGoOn`, the guards of the steps, for `ENABLED` | by who stands where: a reconciliation takes no further lock; without one nobody keeps the read lock, so a `Close` gets the write lock; without a `Close` in wait whoever has `catalogMu` gets the read lock; and if nobody has `catalogMu` it can be taken. `StepsAreGuarded` says that the guards are those of the actions |
| `Completion_proofs!TypeCorrect` | the types of `StreamRuntime` | inductive as it stands |
| `...!BufferIsLossless`, `OneRequestPerTab` | `Lossless`, `RequestsAreOwned` | `StreamInv`, with: a request that has begun is its tab's or has been left, and a chunk is accepted for a tab's own request only |
| `...!ImplementsLiveText` | `Streams`, that is `Spec => Live!Spec` | the initial states map to initial states; under `StreamInv` each action maps to a step of `LiveText` or to a stutter: a publication reveals, a chunk in a full background buffer is received and revealed at once, a completed turn completes and a stopped or failed one is cut, the closing of its tab abandons. What the two ends keep is, by `Lossless`, what `LiveText` computes from all that was sent: the buffer holds exactly that when the request ends, published or not |
| `...!NothingSentIsLost` | `CutTurnIsWhole`: a turn that was stopped or failed holds, on both channels, all that was sent | from the same invariant: the end reads the whole buffer (`Lossless`), `Chosen` prefers the streamed text unless the response goes on beyond it, `WithThinking` appends what is not there, and what is received later is not the turn's any more |
| `...!PublicationIsScheduled` | `NoLostPublication` | a tab left with a schedule keeps or clears it with its chunks; the next selection publishes |
| `...!CardFollowsDisplay` | `CardIsCurrent` | every action that changes the display of the selected tab shows it |
| `ChatTabs_proofs!TypeCorrect` | `TypeOK`: what is kept for a tab goes with it | from `Inv` |
| `...!PageStaysNormal` | `PageIsNormal` | `Normal`, the page's own part of `Inv`: without repetitions, within the bound, one scratch tab and that the last. `NormalizeAndCommit` gives a normal page if the changed tab leaves a scratch tab or an ID is free for one: each round of the eviction shortens the bar by one tab that is in it, and the pool is empty only when there is nothing but the selected and the scratch tab |
| `...!OpenInOneTab` | `OpenOnce` | part of `Inv`; it needs `LatestInv`, that a load about to show a conversation finds it in no other tab |
| `...!TheLastPickWins` | `LastPickWins` | `LatestInv`: what the load with the tab's latest version is to show, phase by phase, is what the tab says |
| `...!SpinnersEnd` | `NoIdleSpinner`, if `~LateRenames` | `RequestOK`, a tab is busy exactly with a request whose messages it shows, and `Kept`, no file and no queued save holds a placeholder |
| `...!TheTitleLockHolds` | `TitleLockHolds`, if `~LateRenames` | `RequestOK` again: the title that the end of a turn puts back is the one the tab has, if that is locked |
| `...!WhatIsShownIsSaved` | `SavedAtRest`, if `~EarlyStops`, `~LateRenames` and `~EarlyPicks` | a second invariant, `SavedInv`, over `Inv`, which speaks of what is *meant*: the file, or what a refused save was to write in its place. What the queue of a tab leaves of that is what the tab shows (`QueueOK`), nothing of its conversation is queued for another tab (`Elsewhere`), and a save of messages alone finds the file under the title the save before it left (`Chained`), unless that one was refused. A save that is refused takes the same step in what is meant as one that is done. That the send and the end of a turn save under one title (`TurnHasOneTitle`) is why messages have to alternate (`Alternates`): the automatic title depends on how many the user has sent |
| `ComposerTools_proofs!TypeCorrect` | the types | with `Invariance` |
| `...!NoRunningCallIsLost` | `RunningIsAwaited` | `RuntimeInv`: the key of a running call is its latest number, and the flight with that number is awaited; the steps of the composer are sorted into those that move a call along (`Progress`), those that clear (`Cleared`) and those that leave the calls alone (`Quiet`) |
| `...!StaleResultsAreIgnored` | `LatestRunDecides` | from the same: a flight that is current has the latest number |
| `...!NothingIsLeftUnanswered` | `EveryCallIsAnswered` | `Answered`: no call that is due is absent while the message is not sent; an edit brings the outputs of its message with it, one that is cancelled leaves nothing due, and one that ends by itself has no outputs that could be due |
| `...!AutoSubmitIsEarned` | `OwnSendIsEarned` | `Earned`: outside an edit the tracker has observed every call of the batch or holds that not all are automatic, and a submit of its own finds them answered |
| `...!NoLoopRepeatsACall` | `RepeatsAreAsked`, if `~Reopens` | `Unasked`: a call nobody asked for waits only while it has not run, the rest of a loop's calls were asked for, and a call that was never listed has no run |

`NoLoopRepeatsACall` is about the conversations `ComposerTools.cfg` checks: with
`Reopens` a loop of "Run tools only" that outlives its conversation runs the calls of
the reopened one again, and `RepeatsAreAsked` fails (section 3).

The inductive invariants are needed because the properties themselves say nothing
about what is still in transit: that a client is owned, for instance, is preserved
by a commit only because the attempt that commits is the one with the current
generation and nobody else can have stored a client under it. `RepeatsAreAsked` is
another example: it is about calls that have run twice, and what keeps it true is
that a call which has run once no longer waits. `SavedAtRest` speaks of a tab with
nothing queued, and every step that could break it happens before, when a save is queued
under a title that the saves ahead of it may still change.

TLC checked each strengthening on the instance of the component's run before it was
proved.

Only model-checked: the liveness properties (temporal proofs under fairness are out
of this prover's reach), `SomebodyCanGoOn` (it is about `ENABLED`; that a guard of
`MayGoOn` enables its step is what TLC shows). Every other invariant and action property of
a passing run is stated by a theorem. The other way round, the types of
`CompletionRegistry`, `MCPSession`, `OAuthLoopback`,
`MCPPolicy`, `MCPApproval`, `SkillCatalog`, `StreamRuntime` and `ComposerTools`, and
`ReturnedIsForgotten`, `RequestsAreOwned`, `CardIsCurrent`, `CutTurnIsWhole` and `NoDeadlock`, are proved and therefore
not listed in the configurations; the types of `ChatTabs` are part of `PageIsNormal`.
A violated property is shown by TLC's counterexample.

## 5. Not modelled

`PROJECT.json` lists every component with its reason. In short: pure I/O, parsing,
hashing, formatting and generated code are outside; external libraries (the MCP
SDK, the inference library, the map store) appear as steps that succeed or fail.
The contents of a callback URL, of arguments and of tool results are values that
are equal or different. Several servers in one manager are left out because no
operation relates two servers' entries.

In the window: scrolling, focus, the building of prompts, attachments, the choice of
models and tools, arguments a tool still asks for (they keep "Run tools and send" from
ending until they are given), skill sessions beyond "an await
that may fail", what an approval dialog asks (that an execution may wait for one is
`Dialogs`), an edit begun or cancelled, or another conversation opened, while a submit is
under way (`Replace` and `OpenConversation` ask for `submit = "no"`, although the code clears the composer then too),
a workspace that becomes blocked during a submit or a turn before these are over, and
windows beside the first. In the store, the file of a former title that cannot be
deleted: the error is logged and the file stays beside the new one. The line that is
appended to a turn cut short is layout, and streamed thinking is the window's alone: it
is not part of the file. React is assumed to run the effects of a change before it takes up
another task; the drainer's and the trackers' effects, on which properties depend,
may run later. The search of conversations and its index are reads.

Hazards the code has beyond those of `PROJECT.json`, in parts not modelled yet: two
refreshes of one session that commit in either order (`session_manager.go:822`); a
rejected handler that deletes the token a newer one saved
(`internal/mcp/runtime/auth/tracked_oauth.go:118`), and one that publishes its status
late (`:226`); a rebuild that is asked for while one runs and dropped (`internal/builtin/async_rebuild_helper.go:85`);
a log line that meets `Close`, or a rotation that fails (`internal/logrotate/writer.go:120`,
`:181`); a crash between the renames of a managed package
(`internal/artifactstore/internal/source/managed/managed.go:355`); a provider's key that is
replaced in memory and not stored (`cmd/agentgo/wrapper_aggregate.go:216`); saves of one
conversation handled in the opposite order (`internal/conversation/store/store.go:256`; the
queue of each tab prevents it within one window); an overlay operation that waits for
the lock of `Close` (`internal/overlay/store.go:223`).

## 6. Plan

In the order of their importance to the system.

1. **OAuth tokens** (`MCPOAuthToken`): the persisted token and the status map, with
   the handlers of two successive sessions and restarts of the process. Wanted: a
   fresh token is not deleted on behalf of a rejected older one; the status shown is
   the latest session's. Composes with `OAuthLoopback`.
2. **Skill aggregate** (`SkillAggregate`): the resynchronisation of a collection on a
   stale selection, over `SkillCatalog`, and what a sync that was overtaken tells its
   caller (disagreement 14).
3. **Managed packages** (`ManagedPackage`): publish, replace and remove with a crash
   after each file-system step, and the source generation. Abstract specification:
   an atomic map from addresses to packages. Theorem: a reader never finds a part of
   a package.
4. **Snapshots of built-in data** (`AsyncRebuild`): the rebuilder, changes, overlay
   flags and `Close`; liveness: a change reaches the snapshot.
5. **Log writer** (`LogWriter`): writers, the queue, rotation that fails, `Close`.
6. **Provider keys** (`ProviderKeys`): two copies of one key under partial failure.
7. **The window, composed**: `ChatTabs`, `ComposerTools` and `CompletionRegistry` in one
   module, so that the tool calls of a turn that was superseded meet the composer of
   the newer one; then the approval dialog, with `MCPApproval`.
8. **Refinements**: `OAuthLoopback` implements "each server has at most one pending
   authorization, which ends exactly once"; `MCPSession` implements "a server has at
   most one live session", with the generation as the witness; `MCPApproval`
   implements "an approval is spent by one call".
9. **Theorems still wanted**: the halves of the further refinements that are not about
   liveness; that a tab whose conversation is picked while its saves are queued
   (`EarlyPicks`) still shows a beginning of what is saved.

Each module keeps to the form of the present ones: constants with named
assumptions, one action per critical section or call, invariants as conjunctions of
named parts, and recursion only where nothing is proved.
