# EQStack, modelled in TLA+

EQStack is three independent Node/TypeScript applications in one repository:
`telephony-mcp` (an agent places phone calls through Twilio or ElevenLabs),
`imsg-mcp` (reading and sending iMessages) and `gmail-mcp` (several Gmail
accounts behind one tool server and one terminal UI). This directory holds TLA+
models of the parts whose correctness depends on the order of things, the TLC
instances that check them, and TLAPS proofs for every value of the constants.

All paths below are under `src/apps/`. `CS` is
`telephony-mcp/src/gateway/call-service.ts`.

## 1. Inventory

### telephony-mcp (the core of the repository)

One process, `serve`, owns one SQLite file. Code between two awaits is atomic
against other handlers; each SQLite statement is its own transaction, so a crash
may fall between any two of them.

| part | state | operations | interacts with | what is hard | what makes it correct |
|---|---|---|---|---|---|
| call lifecycle (`CS`, `gateway/delegate-poller.ts`, `gateway/gateway.ts`) | rows `calls`, `call_idempotency`, `provider_events`, `consult_tokens`; timers and pollers in memory | `dial`, `createRehearsal`, `endCall`, `endOffDeviceCall`, `handleStatusCallback`, duration timer, `pollOnce`/`apply`, `startGateway`, shutdown | the carrier and the agent platform (requests and callbacks), consult, recordings, feed | awaits in the middle of handlers, callbacks out of order or lost, crash between claim and write, retries of a dial | statuses never go backwards, one call keeps a key in its dedupe window, concurrency cap, every call closes, a terminal event never says what is not so |
| consult (`CS` 920-1250, `gateway/tool-server.ts`) | rows `consult_questions`; held requests and listening hosts in memory | ask, join, collect, hold, time out, abort, answer, cancel, poll | call lifecycle (terminal event cancels), MCP host (answers, long-polls) | several waiters of one question, late answers, restart between two claims | first answer wins, delivered once, no forgotten hold, cap of pending questions |
| live relay session (`gateway/session.ts`, `gateway/public-server.ts`) | socket, current turn, pending direct lines | `handleTurn`, interrupt, `say`, close, attach and unregister | call lifecycle, LLM adapter | a turn answered after it was interrupted, a second session of one call | one live session per call, only the current turn speaks, a full reply on record is what was sent |
| event log and feed (`events/event-feed.ts`, `gateway/admin-server.ts`, `stores/sqlite-store.ts`) | rows `call_events` with ids; cursor in the client | append, long-poll, stream with replay and reconnect | every part appends | disconnects, pages full of other members' events, more missed events than one replay page | each event once, in order, none skipped; no poll sleeps over an event of its own |
| recordings (`CS` 1376-1400, 1435-1486, `stores/recording-store.ts`) | `recordings` rows, encrypted files, one key in the Keychain and a cached copy per process | toggle, callback, download, store, play, delete | carrier, Keychain, the CLI's own process | first stores at one time, repeated callbacks against a deletion, death between file and row | what the index lists can be decrypted, nothing deleted comes back |
| agent provisioning (`CS` 775-814) | single-flight map, `agent_profiles` row, the platform's agents | `ensureAgent`, `provisionAgent` | agent platform, dial | calls of different briefs share one run, lost answers, a row behind the platform | one agent per profile, a call is spoken by its own brief |
| tunnel supervisor (`daemon/supervisor.ts`) | the cloudflared child, its pidfile, restart timer, probes | spawn, reap, restart, probe, stop | gateway start and close | `serve` dies and its child goes on, a spawn that stops half way, late probes | a tunnel left by an earlier `serve` is told to go, no crash loop, it comes back |
| launchd agent (`daemon/`) | a plist | install, remove | the system | - | - |
| call model and console (`events/call-model.ts`), voice preview, adapters, config, briefs, CLI and MCP surfaces | none shared | formatting, parsing, one request each | - | - | - |

### imsg-mcp

| part | state | operations | interacts with | what is hard | what makes it correct |
|---|---|---|---|---|---|
| change watcher, bus, TUI stream (`change-watcher.ts`, `event-bus.ts`, `tui/change-stream.ts`) | high-water ROWID, drain flags, pending list and version | file event, drain, polls, emit, acknowledge, attach/detach | chat.db, React views | a file event in the middle of a drain, overflow, a stale acknowledgement | no new row is missed or emitted twice; a loss is visible |
| sending and echo suppression (`sent-echo-registry.ts`, `delivery-status.ts`, `index.ts`) | registered echoes with expiry | send with fallbacks, register, confirm, wait for a reply, consume, expire | AppleScript, chat.db | sends and waits race their rows, which land out of order | a wait returns the user's words and, of sends registered in time, not the agent's |
| message cache, watchdog, readers, contacts, export, media, native module | caches over read-only databases | queries, parsing | - | - | - |

### gmail-mcp

| part | state | operations | interacts with | what is hard | what makes it correct |
|---|---|---|---|---|---|
| active account session (`core/session.ts`, `core/ops/accounts.ts`, `tui/hooks/useGmail.ts`) | one process-wide current account and its listeners | switch, scoped read that saves and restores the account | tool server, TUI flows | overlapping scoped reads around awaits | a read runs under the account it names; the account chosen last stays |
| batches (`core/batch.ts`, `core/ops/batch-ops.ts`) | the report of one call, requests under way | chunk, retry one by one, cancel | Gmail API | part of a chunk fails while the rest is under way | each id is reported once, and truly |
| account manifest and credentials (`core/accounts.ts`, `core/credentials.ts`) | two JSON files | read, change, rename | several processes | lost update | no account disappears |
| thread list (`tui/App.tsx`, `tui/reducer.ts`) | list, token of the next page, loading flags, the ref of the page under way | load, search, switch, fetch a page, open, cancel | session, Gmail API | answers late and out of order, effects that run at every change | pages in order and none twice, no spinner that stays |
| composing (`tui/App.tsx`, `tui/hooks/useEditor.ts`, `tui/drafts-recovery.ts`) | draft files, the pending editor, the preview | open, save, preview, send, resume, discard | the editor, Gmail API | a send that fails or whose answer is lost, an editor beside the send of an earlier one, death of the UI | nothing written is lost, a resumed reply keeps its thread |
| tools, rest of the TUI, CLI, HTTP transport | view state | one remote call each | - | - | - |

`analysis` is a placeholder application. `packages/` is build configuration.
`PROJECT.json` lists every part with its status, and every hazard at its line.

## 2. Modules

| module | role |
|---|---|
| `CallLifecycle` | calls of one gateway over one store: dial to close, crashes included |
| `CallLifecycleProofs` | theorems about its records, and what it announces, watches and rings |
| `AnswerBox` | abstract: what the consult channel promises to both ends |
| `Consult` | the consult channel of one call; implements `AnswerBox` |
| `ConsultProofs` | theorems about it, the refinement included |
| `RelaySession` | the relay sockets of one on-device call: turns, streams, barge-in, spoken texts, ends |
| `RelayProofs` | theorems about it |
| `RowFeed` | abstract: a cursor over a growing table that tells each row once |
| `EventFeed` | long-polls and the live stream over the event table; each client's view implements `RowFeed` |
| `EventFeedProofs` | theorems about it, the refinement included |
| `ChangeStream` | imsg: watcher, bus, accumulating store, live effect and thread view; implements `RowFeed` |
| `ChangeStreamProofs` | theorems about it, the refinement included |
| `SentEchoes` | imsg: sends and waits for replies in one conversation |
| `EchoProofs` | theorems about it |
| `TunnelSupervisor` | the cloudflared child of `serve` over several lives of `serve` |
| `MailBatches` | gmail: one batch call, from its list to its report |
| `AgentProvisioning` | the platform's agent of one profile: who makes or updates it, and whose brief it speaks by |
| `Recordings` | from the completed callback to deletion, with the key and the CLI's playback |
| `ThreadPages` | gmail: the thread list of the UI under loads, switches, pages and openings |
| `DraftCompose` | gmail: draft files, the editor, the preview and the sends, over lives of the UI |
| `MCServe` | `TunnelSupervisor`, `AgentProvisioning` and `Recordings` for TLC |
| `ServeProofs` | theorems about these three |
| `MCMail` | `MailBatches`, `ThreadPages` and `DraftCompose` for TLC |
| `MailProofs` | theorems about these three |
| other `MC*` | constants and symmetry for TLC, one per checked module |

`MCServe` and `MCMail` put modules that share no state side by side. A behaviour lets
one of them run, chosen at the start: no order of the steps of both would show what one
of them alone does not, and the states add up instead of multiplying. `Parts` names those a run
of `MCMail` chooses from: `mail` the first two, `compose` the third.

The modules meet at the event table and at the end of a call. `CallLifecycle`
counts the terminal events it appends; `EventFeed` takes any appended event from there;
the terminal event is `CallEnds` in `Consult` and `over` in `RelaySession`. Each
models the shared thing from its own side, with every order the other side could
bring about.

### CallLifecycle and the code

`status`, `kind`, `sid`, `legSid`, `claimedBy`, `claims`, `bearer` are columns and
rows of the store; `terminalEvents` and `hangupEvents` count rows of
`call_events`. `dialing`, `ending`, `hanging` are handlers suspended at their
await; `timer` and `poller` are the in-memory watches; a crash (`Halt`) clears all of them.
`line` is the phone leg or the platform's conversation, `aged` and `overdue` are
the clocks that matter (dedupe window, poll deadline). Two variables are history, and no guard
reads them: `released`, the calls whose dial threw and gave their key back, and `survived`, the
rows there were at the last crash.

* An action is a synchronous stretch. A handler with an await is two actions:
  `Dial`/`DialResolved`/`DialFailed`, `endCall`/`endCallFinish`,
  `pollOnce`/`PlatformAnswers`/`apply`. What is read before the await is not
  trusted after it unless the code trusts it.
* `cut` says after which statement of a stretch the process dies: after the
  `provider_events` claim, after the status update, after the event row.
  `cut = "none"` is the stretch in full. `DialTorn` is the same for the
  claim made before the call row is inserted.
* The carrier announces every state its line has passed; a callback may come
  late (`Announced`), never, or again (`claims` drops the repeat, as
  `recordProviderEventOnce` does).
* Four carrier endings that map to `failed` are one, `noAnswer`. Transcripts,
  summaries and metadata that the poller stores alongside are left out: no
  property reads them.
* `Placed` is a call whose dial is under way or has its id; `Rung` one whose dial is under way or
  whose line exists, known to the gateway or not.
* `Faults` turns on a lost dial answer, a failing hang-up, a dial slower than the
  dedupe window and death between two statements.

### Consult and the code

One call, its questions numbered as `seq` numbers them. `held[r]` is the promise
a tool request waits on, `about[r]` its question; `open` and `recent` are
`hostPolls` (a poll is open, or the last is younger than `hostIdleSec`). `expired`
says the hold window of a question has passed. `told` and `words` are what each
end was told. The actions ending in `Torn` (`AskTorn`, `CollectTorn`, `AnswerTorn`,
`CallEndsTorn`) are the death of the process between two statements.
`Blank` texts are those `normalizeQuestion` reduces to the empty string, which the
code never joins. In `AnswerBox` a question is put once, takes one answer
or is shut, and only that answer is ever heard; the mapping sends a row's status
to the stage of its box.

### ChangeStream and the code

* `drain` runs to its await, `DrainPage` and `DrainFails` resume it: `page` is
  what the read returns, taken when the query runs. `drain` called meanwhile sets
  `rearm`, and `Finish` is the `finally` that starts the next round at once.
* `Page` counts rows before it drops the hidden ones, as `LIMIT` does, so a page
  with a hidden row in it is not full and ends the drain.
* Rows are numbered from the watcher's seed. ROWID order is arrival order in every
  list of this path, so lists of events are sets of rows.
* `captured` is the snapshot React rendered, `due` says its effect has not run. The
  effect compares `captured.version` with `lastLive`, handles the batch and
  acknowledges the version it rendered, which may be old by then.
* Loading a thread is one action although its functions are `async`:
  `better-sqlite3` is synchronous and nothing else runs before the promise goes
  on (the comment above the first load in `App.tsx` relies on it).
* `selected` is the sidebar cursor, `shown` the thread that was loaded last. They
  differ while the debounce of a cursor move is pending (`moving`) and while the
  filter is open. `Filter` takes the cursor to any thread: the first one when it
  opens, the earlier one when it is cancelled.
* `fresh` holds the threads whose cached copy a load would serve. An entry older
  than thirty seconds and an evicted one differ in nothing that is read.
* The watcher's database is an interface that returns promises, so other turns of
  the event loop may fall into a drain; `better-sqlite3` behind it is the special case
  where none does.
* Reactions, the sidebar's rows, older pages and the confirmation of a sent message
  are left out. The merged chats of one person are one thread.

### RelaySession and the code

* One socket is one `RelaySession` object. Its variables are the fields of that
  name; `stream[s][t]` is where the continuation of `handleTurn` of turn `t` stands,
  so a superseded turn that still runs is there beside the newer one. `registered`
  is the entry of the call in `CallService`'s session map.
* `StartTurn` is the part of a prompt before the model is asked: abort what runs,
  store the line, stamp the timing row. `SpeakToken`, `DropToken`, `DropStream`,
  `Fallback`, `RefuseFallback` and `FailStream` are what one `await` of the stream
  comes back with; the tests of the signal are where the code makes them.
* `FailStream` speaks the apology and calls `endCall`, which aborts, sends the end
  frame and closes; `CloseRecord` is what happens once the carrier has answered.
* In `direct` mode the host speaks: `SendText` is `say_on_call` and
  `play_disclosure`; in `byo-model` the gateway drives the model.
* A frame sent after `close()` is dropped without an error, as `ws` does (`Send`); `SendText` puts
  its text on record all the same.
* `Prompt` empties `partial` with the turn it cuts: what that turn had spoken is on no record.
* Text is the number of tokens it has, timestamps are whether they are set.

### EventFeed and the code

* An event is its global id. `Poll` is a request up to its wait, `Resume` the
  listener, `Expire` the timer; all three read the table again from `at`, the cursor
  the handler holds. `ReadOn` is the member's loop over pages that hold nothing for it
  (`admin-server.ts` 323-341), `ReadPage` the single re-read of the host.
* An answer leaves in one action and is taken in another (`Receive`); `Lose` is a
  client that is gone, which asks again from the cursor it had. The pickup mark
  (`picked`) is set when the answer leaves, as in the code.
* `Connect` replays and subscribes in one action: nothing is awaited between
  them. The replay is cut at `ReplayLimit` (200 in the store); a watcher that fell further
  behind is `overrun`, and the frames after the replay move its cursor past the gap.
* `Stop` takes every listener, request and stream; the table stays.

### SentEchoes and the code

* A send is `RunScript` once per fallback, `SendAttachment`, `Register` and the
  confirm poll (`Confirm`, or `Unconfirmed` after five seconds). A wait is a loop of
  `ReadReplies` and `Wake`. Messages.app and chat.db are `Write` and `Land`.
* `Register` happens when the last script has returned, so rows may land first. `since` is
  `sentAt` (the moment of registering, `index.ts` 981) less the tolerance of 15 s; the scripts before
  it may take 30 s each, so `since` may be any message, also one after the send's own.
* `Consume` is the registry's `consume`, folded over the rows in date order as
  `wait_for_reply` does. A row that an entry is pinned to stays an echo for every wait.
* `Overlap` lets the agent send while it waits; `Outcomes` may include "lost", a script
  killed at its timeout after Messages.app took the text.

### TunnelSupervisor and the code

* Every listener, timer and continuation is one action; `Start` is a new
  `serve` up to the await of the secret in `spawnOnce`, `SecretResolves` the spawn.
  Children are numbered and never reused; `alive` is what the machine runs, `child` what
  this supervisor believes.
* Both probes go to one port, so any child may answer for another (`ProbeAnswers`).
* `Crash` leaves the child running; the pidfile lets the next `serve` reap it.
* `SpawnTorn` is the spawn without its pidfile: `serve` dies between the two, or the write throws
  into a promise nobody awaits. `unfiled` is history, the children this happened to.

### MailBatches and the code

* A continuation of `processBatches` runs to its next await in one action:
  `LoopHead` and `RetryHead` are the heads of its two loops, with the test of the signal.
* `wire` holds requests and answers under way. Under `Promise.all` a chunk succeeds
  with its last answer (`PartSucceeds`) and fails with its first refusal (`ChunkFails`),
  after which its other requests go on and their answers reach nobody
  (`StragglerAnswers`).
* Gmail is external: it refuses a request that names a message it does not have, or
  no longer has when the tool deletes; it may refuse any request, and an answer may be lost.
* `batchSize` is a positive integer. The schemas of modify and delete let any number
  through: zero becomes fifty, a fraction gives chunks of uneven size, and a negative
  one takes the loop index down for ever (`tools.ts` 213-217 against the comment at
  196-198, which means to prevent runaway loops). Those are not in the model.

### AgentProvisioning and the code

* `EnsureAgent` is `ensureAgent` up to its await: join the run of the map, or start
  `provisionAgent`, which reads the row and plans (`Plan`). `Settle` is the resolved or
  rejected run: the map forgets it and all who await it go on.
* A brief is its version, standing for its hash. The platform acts (`UpdateLands`,
  `CreateLands`) and answers in separate steps, so an answer can be lost; a crash
  (`Restart`) then leaves the row behind the platform.
* `Place` is the dial that follows: `spoken` is the brief the agent runs by at that moment.

### Recordings and the code

* A task is a callback, a deletion or a playback, cut at its awaits. A key is a number
  and a file is the key it was encrypted with, so "can be decrypted" is equality.
* `FindAnswers` and `AddAnswers` are the two calls of the `security` tool; an add refuses a
  second key, as it does without `-U`. The playback is in the CLI's process, with a cache of its own.
* `Restart` leaves a task between file and row as "cut".

### ThreadPages and the code

* Each action is one batched dispatch; `Effects` are the effects of the render that follows,
  due when a dependency changed. `lazy` is the ref that keeps a page from being fetched twice.
* Every remote read has a slot, and `LoadAnswers`, `PageAnswers`, `OpenAnswers`,
  `SwitchAnswers` put its answer into whatever the reducer holds by then.
* `hasty` says whether this user acts before an answer is there. It is chosen at the start,
  and what holds for one who waits only is stated with `~hasty`.

### DraftCompose and the code

* Editor `n` writes file `n`. `crumb` is the presence of the `X-Gmail-MCP-*` headers,
  `source` what the run knows beside the file. `attached` is the pending editor,
  `cancelled` the flag in the closure of an effect that was let go.
* A send is `ExitSends` or `Confirm`, `Lands` at Gmail, `Answers` or `Fails`, and
  `Remove`. `Clear` is the `finally` with `CLEAR_EDITOR`, whosever editor that is.
* `given` is history: the texts the user wrote over or discarded.

## 3. Runs

| run | instance | states | shows |
|---|---|---|---|
| `calls_safety` | 2 calls on one key, three kinds, 1 slot, 1 crash at any cut, failing hang-ups, lost dial answers | 2.4M | `DialGatesHold`, `EventsTellTheTruth`, `CallsAreKept`, `NeverDowngraded` |
| `calls_live` | 1 call, three kinds, no crash, callbacks lost at will | 3.5k | `EveryCallCloses` |
| `consult` | 3 requests, 2 questions, 3 texts, 2 answers, cap 1, 1 crash at any cut | 438k | `OneAnswer`, `QueueSound`, `NobodyForgotten`, the refinement `ImplementsBox`, `HoldsEnd` |
| `relay` | 2 sockets of one call, one of them with the caller, both on-device modes, a fallback model, 2 turns, 1 token, 2 inputs from outside | 225k | `AbortedStaysSilent`, `OneVoice`, `RepliesAsSent`, `FailureEndsCall` |
| `feed` | 4 events (two for another member, one of another call, one for all), the host, a member and a watcher, page 2, replay 2, 1 fault | 104k | `NoLostWakeup`, `ReplayFaithful`, `ImplementsRowFeed`, `WatcherCatchesUp` |
| `stream` | 4 rows, the third hidden, the last in another thread; 2 threads, page 2, cap 2 | 1.2M | `NoSilentLoss`, `IdleMeansCaughtUp`, `ViewKeeps`, `ImplementsFeed`, `AppCatchesUp` |
| `replies` | 1 send with an attachment, 2 messages of others, 2 waits that overlap, a registry of 2 | 7.2M | `TypeOK`, `NoSwallow`, `NoPhantom`, `Consistent` |
| `serve` | 2 lives of `serve`. Tunnel: 5 children, given up after 3 exits, a missing binary. Agents: 3 calls of one profile, 3 briefs, 3 agents, refused requests, lost answers, deleted agents. Recordings: 3 tasks on 2 recordings, a keychain and a carrier that fail before or after they act | 307k | `ChildrenBounded`, `TunnelComesBack`, `OneAgent`, `SpeaksByItsBrief`, `Playable`, `DeletedStaysDeleted`, `TypesOK` |
| `mail` | Batches: lists of up to 3 messages of 3, one missing, chunks of 1 to 3, the three tools, refusals and lost answers. Threads: 2 accounts, 2 queries of 2 pages, 3 reads at a time, 2 changes of list, a user who waits or not | 330k | `ReportIsTrue`, `PagesInOrder`, `NoStuckPaging`, `LoadingEnds`, `TypesOK` |
| `compose` | 3 editors, 2 saves, 2 lives of the UI | 1.7M | `WritingSurvives` |

Two more runs show disagreements (below). The type invariants of the modules with a proof
module are theorems and are not run.

Why these bounds.
* Calls meet only through the concurrency gate and a shared key, so two calls on one
  key and one slot meet in every way two can. A second `end_call` in flight
  is in `calls_live` (`MaxEnds = 2`), and two end-of-call paths overlap in
  `calls_safety`. One crash with a cut after every statement is where a property first
  breaks; a second crash adds only runs whose middle restart lasted shorter.
  `Reach` leaves out line states that change nothing the instance is about.
* In `Consult` three requests are the fewest that let one hold, one join or collect and
  one come late; a cap of one with two questions reaches `busy`, and two answers tell
  the first from a later one. Two questions pending at a time are left to the theorems.
* In `RelaySession` the second socket is there to replace the first as the registered one
  and to close late; a prompt on it would repeat what the first shows. Two turns are
  the fewest of which one supersedes the other; one token tells a started answer
  from one that has not.
* In `EventFeed` the other member's questions fill a page, so that the member must read on
  past a page with nothing in it; four events after a lost stream exceed the replay.
  `Page` and `ReplayLimit` only need to be smaller than the log.
* In `ChangeStream` two visible rows fill a page and three exceed the cap; the
  hidden row makes the page behind it end early, and the row after it is told only at
  the next signal. A full page of nothing but hidden rows, which holds the cursor for
  ever, is not in the instance: `AppCatchesUp` would not hold with `MaxBatch = 1`.
* In `SentEchoes` the send has two echoes (its text and its file), the user may write the
  same text or send a file, and two waits may see the rows in different orders. The registry
  of two is full with one send, so pruning is reached. The tolerance may fall before, between
  or behind the two messages of the send.
* In `TunnelSupervisor` five children over two lives let the first life give up (three) and
  the second restart once.
* In `MailBatches` three items in chunks of two leave a straggler behind a chunk that
  is already over; lists may name a message twice.

* In `AgentProvisioning` one call starts a run, one joins it and one comes after it; a third
  brief lets a second update follow the first. In `Recordings` two tasks
  race and the third comes after them; a key two tasks want is made by one.
* In `ThreadPages` three reads are a load, the page of the list before it and one opening;
  two pages are the fewest of which one can come twice or out of place.
* In `DraftCompose` the second editor is beside the send of the first, and the third resumes
  what one of them left; the second save writes over the first.

`CHECK_DEADLOCK FALSE` is set because the ids run out or the work is done: the
bounded system really stops. `calls_safety` and `replies` use symmetry (of calls, of
waits): their properties treat these alike and none is a liveness property.

### Disagreements between the code and its own words

Two runs check one property each, a statement of a comment or document, and
TLC finds it violated. They are listed in `PROJECT.json` with the quoted lines.

| run | the code does |
|---|---|
| `calls_late_dial` | `end_call` during a pending on-device dial closes the record; the phone leg the dial then creates is never hung up (`EndedMeansHungUp`) |
| `compose_resumed` | the file of a reply has no breadcrumb; when its editor is aborted, its file resumed and the preview confirmed, it is sent without its thread (`RepliesThread`). A reply declined in its preview, or cut by the death of the UI, leaves the same file |

More such statements stand in the modules without a run; TLC refutes each in seconds
when the configuration of its run names it in place of its properties.

| property | the words | the code does |
|---|---|---|
| `MailBatches!FailedMeansUndone` | `core/batch.ts:4-6` | one refused delete makes the whole chunk be deleted again one by one; those that were deleted are refused as not found and reported as failed. It also fails by a straggler of the failed chunk, by a lost answer, and for modify when the second try is refused |
| `AgentProvisioning!RecreatedNotDialedDead` | `tests/delegate-mode.test.ts:208` | a stored agent whose brief is current is dialed without a request, also when the platform has deleted it (`CS` 788) |
| `Recordings!AnsweredMeansKept` | `telephony-mcp/README.md:121-123` | the callback is claimed before the download; when that fails, the carrier's retry is answered as a duplicate and the recording is lost (`CS` 1444) |
| `ThreadPages!LatePageDropped` | `tui/App.tsx:229-231` | a page of the earlier account that arrives after a switch becomes the list of the new one (`tui/reducer.ts:242`) |
| `TunnelSupervisor!StaleChildKilled` | `daemon/supervisor.ts:82` | a child whose `serve` ended between the spawn (130) and the pidfile (132), or whose pidfile could not be written, is found by no later one |
| `RelaySession!HeardIsOnRecord` | `gateway/session.ts:245` | a prompt that supersedes a turn resets `assistantPartial` (163): what the turn had spoken is in no transcript |
| `RelaySession!RecordWasSpoken` | `gateway/session.ts:245` | a text spoken into a closing socket is put on record, and `ws` drops it |
| `SentEchoes!NoOwnMessage` | `imsg-mcp/src/sent-echo-registry.ts:2` | `sentAt` is taken after the attachment's script (`index.ts` 981); one that runs longer than 15 s leaves the row of the text too old for its entry and for the confirm poll, and a wait returns it as the user's |

Met while modelling, reproducible with the modules, and without a run of their own:
* A platform call whose dial was pending at a crash is never polled again and keeps its
  slot; death between the `el:terminal` claim and the status update leaves a call
  open without `call.ended`. An on-device call that outlives a restart has no duration timer any
  more (`CS` 849-850 resumes platform calls only); the carrier's own limit and callbacks are what
  closes it. `LiveCallWatched` leaves exactly these three out by name (`Unwatched`), and
  `EveryCallCloses` is checked without crashes.
* The end of an on-device call may be announced more than once: by `end_call` or its timer when it
  resumes after a callback has closed the record, by a dial that fails or resolves after it (`CS`
  1266-1300). `EventsTellTheTruth` says which steps those are (`MayAnnounceAgain`) and that no
  other one repeats an announcement; off-device there is one.
* A dial whose answer is lost gives its key back although the phone may have rung, so a retry
  rings again inside the window. `OneRingPerWindow` lets two calls ring under one key only when one
  is past its window or was given back so (`released`); `NeverRungTwice`, in the module without a
  run, has no such exception, and TLC refutes it when `"answerLost"` is among the faults.
* The catch of `dial`, or `endCall` after its await, rewrites how a closed call ended
  (`completed` to `failed`), which `NeverDowngraded` permits: both are of the top rank.
* With `"slowDial"` a dial that fails after its window deletes the newer
  call's claim, and `OneRingPerWindow` fails; the run leaves that fault out.
* A repeated question is held for its window although no host listens.
* The reload after an overflow of the imsg stream is answered from the cache, so the dropped
  messages do not appear until the next load.
* A relay turn that a newer prompt has cut ends the whole call when its refused
  fallback answers late: the adapter throws without a look at the signal
  (`openai-compatible.ts:90`), and the catch of `handleTurn` looks at none either.
* With `Overlap` the confirm poll may pin an echo to a row another entry has, and
  `NoSwallow` and `Consistent` fail; with the outcome "lost" a call sends twice, and
  the second row comes back as the user's (`NoPhantom` fails). The run `replies` leaves
  both out.
* A `binPath` that names nothing makes the child emit an `error` nobody hears, which
  ends `serve` (`SpawnFails`); `gateway.ts:127-128` says a tunnel does not abort it.
  `stop()` during the await of the secret leaves a child for the next `serve` to reap, and
  a late probe may set `ready` after the supervisor gave up. `restarts` is never
  reset, so the exits of a long life add up.
* An edit of the persona file while a provisioning run is under way gives the call that joins
  it the earlier brief, and a lost update answer whose edit is then taken back leaves the
  row at a brief the agent no longer has (`"hasty"`, `"revert"`: `SpeaksByItsBrief` fails; the
  run leaves both out).
* Of two first stores at one time the second `add` is refused, and that recording is lost.
  A crash between the write and the upsert leaves a file that no tool can delete.
* A late load of a label overtakes a newer one. A search that is answered while a page of the
  old list is under way gets that page appended, and a late page that arrives while a thread is
  loading opens a stale one. Opening a thread of an empty list shows "Opening thread…"
  until Esc. A page that failed is not tried again until the cursor moves.
* An editor opened while a reply to all is still being sent is let go by that run's
  `finally`: its file is kept, and it is neither sent nor shown. A resumed edit of a
  draft has lost its draft id and makes a second draft; a resumed and sent draft leaves its first
  file behind. Two UIs in one second may share a file name.

## 4. Fairness

`CallLifecycle!Fairness`: a promise the process awaits settles (`fetch` returns or
throws), a due timer fires, a scheduled poll runs, the clock reaches a
deadline. Each is the event loop's own promise, one weak fairness per call.
Nothing is asked of the line, the callbacks, the platform's conversation or the
caller of `end_call`. `WF(startGateway)` is launchd's `KeepAlive`.
`Consult!Fairness`: the clock and `setTimeout` only. `ChangeStream!Fairness`: weak
for the polls, React's renders and effects; strong for a read of chat.db, which
may fail (`DrainFails`) but not every time it is tried. Nothing is asked of file
events. `RelaySession!Fairness`: the request to the model settles or its stream goes on,
and the carrier's answer to a hang-up comes or is a thrown error; nothing is asked of the caller, the
host or the socket. `EventFeed!Fairness`: a poll's timer fires and an answer that is not
lost arrives; a feed tries again after its backoff, and an open stream delivers.
Appending, `Start` and the clients' next request are not fair.
`TunnelSupervisor!Fairness`: the restart timer fires and the keychain answers.
`ThreadPages!Fairness`: a remote read returns or throws, and React runs the effects it owes;
nothing is asked of the user. `MailBatches`, `SentEchoes`, `AgentProvisioning`, `Recordings`
and `DraftCompose` have no liveness property and assume none.

## 5. Proofs

Assumptions: `ConstantsAssumption` (finitely many call ids, a positive
`MaxConcurrent`, and the fault and reach sets being what they are named),
`ConsultAssumption` (finitely many texts, the addressees of texts, sentinels
outside their sets), `StreamAssumption` (a positive page size, hidden rows among the
rows, a sentinel that is no thread), `RelayAssumption` (finitely many sockets, a sentinel that
is none of them), `FeedAssumption` (positive page and replay sizes), `TunnelAssumption`
(a positive number of exits), `ServeAssumption` (a sentinel that is no call, at least one brief
and one life), `BatchAssumption` (positive batch sizes), `MailAssumption` (the account and the query
the UI starts with, at least one page and one life), `EchoAssumption` (sends that are not the
sentinels for the other writers, a text for each, texts that are not the file's, a registry of two
or more). The bounds are natural numbers of any size.

Some theorems carry a hypothesis, a choice of constants under which the run checks the property.
Where it fails the model breaks the property (section 3): no `"slowDial"` for `OneKeeper` and
`GatesHold`, for `OneRing` no `"answerLost"` either, no
`"hasty"` and no `"revert"` for `SpokenByItsBrief`, `~Overlap` for `NothingIsSwallowed` and
`WaitsAgree`, and for `NoPhantoms` no outcome `"lost"`. `NoPhantoms` also takes sends to be told apart by their
texts (`Apart`), as the instance's are; of equal texts it says nothing. That a message of the agent's
lies within the tolerance of its entry is no hypothesis of the theorem: the code does not see to it,
and `NoPhantom` speaks of the texts of which it is so (`InTime`).

Every proof has the same shape: an inductive invariant (named `...Inv`, or one per layer), a
lemma per part of it that goes through the actions, and theorems that are its
consequences. TLC checked each invariant before it was proved.

`CallLifecycleProofs`
* `TypeCorrect`, `MemoryCorrect`: `TypeOK /\ MemoryMatchesStore` is inductive.
  `MemoryMatchesStore` is the strengthening: without it a suspended dial might
  belong to no row, and the catch of `dial` could write `failed` over nothing.
* `StatusNeverDowngraded`: by the rank guards of callbacks and polls, and because
  the ones without a guard write the top rank; a pending dial of a platform call
  is not terminal, by `MemoryMatchesStore`.
* `ConcurrencyRespected`: the set of live rows grows only in `Dial` and
  `createRehearsal`, by one, under the gate.

The rest of it stands on `MemoryMatchesStore`:
* `TerminalEventsAreTrue`, `OffDeviceEventIsOne`: every step that appends a terminal
  event leaves the record terminal, and for a platform call found it open; so a second
  event would need a reopened record, which `StatusMoves` excludes.
* `HangupIsAnnouncedOnce`: `HangupClaimed` ties the count to the `tel:hangup` claim.
* `OneKeeper`: `ClaimHeld`, a call rung inside its window that has not given its key back holds
  it. Assumes no dial outlives the window (`"slowDial" \notin Faults`); with such a dial the model
  rings twice.
* `OneRing` (`NeverRungTwice`) says what a carrier must do for a retry never to ring the person
  twice: lose no answer to a dial (`"answerLost" \notin Faults`). Then a call that gave its key back
  never rang (`RefusedUnheard`). With lost answers the code does ring twice, see section 3.
* `BearersDie`: a closing that leaves the bearer behind takes the process down with it,
  and `startGateway` sweeps.
* `LiveCallsAreWatched`: per call (`Watched`), a watcher is only let go with the record
  terminal or the `el:terminal` claim taken, and a restart arms again the pollers of platform calls
  and the timers of rehearsals. It is said of every live call but the three kinds of section 3: a
  platform call cut before its id was stored, one whose terminal claim a dead process took, and an
  on-device call that outlived a restart (`survived`).
* `GatesHold`, `KeptWithTheRecord`: what the runs check, from `OneKeeper` and the above.
  `EventLogTellsTheTruth` adds a case split on who announces (`MayAnnounceAgain`): an end is
  announced again only on-device, and only by a step that had left before the record closed.

`ConsultProofs`: `ConsultInv == TypeOK /\ HeldMeansPending /\ HeardIsTheAnswer /\
EndedLeavesNothingPending` is inductive.
* `NoHoldIsForgotten`: whatever moves a row also lets its waiters go, so the
  re-read of `onTimeout` always finds the row pending.
* `AnswerHeardIsTheOne`: a delivered row never changes its answer.
* `EndedCallOwesNothing`: cancel and sweep together.
* `ConsultImplementsBox`: the initial states map to `BoxInit` and each action to a
  `Put`, `Answer`, `Fetch`, `Shut` or a stutter; `HeldMeansPending` is needed
  where an answer wakes its waiters, `HeardIsTheAnswer` where a collect adds to what
  was heard.
* `DeliveredPromiseKept`, `NoQuestionTwice`, `PendingNeverExceeds`, `AnnouncedOnce` on top of it,
  and from these what the run checks: `OneAnswerOnly`, `QueueStaysSound`, `NobodyIsForgotten`.

`ChangeStreamProofs` has one invariant per layer.
* `CursorInv` (`EmittedOnce`): the read in flight holds every visible row up to its last,
  starting behind the cursor; it survives rows being appended, and a second `drain`
  does not read.
* `RefinesFeed`: by `CursorInv`, a resumed drain is `Advance(highWater')` or a
  stutter, and nothing else moves the cursor.
* `StoreInv` (`NothingLostSilently`): a rendered snapshot as new as the store holds all of
  `pending` and of `overflowed`, so the ack that clears them loses nothing.
* `ViewInv` (`ViewNeverShrinks`): for each fresh entry, what is on the screen of its
  thread is in the copy; so a load serves no less than is shown.
* `DrainInv` (`IdleOwesNothing`): until the drain ends, an owed row is in the read, behind
  a full page, or `rearm` is set; it rests on the size of an interval (`PageFull`).

`EventFeedProofs`
* `PollsSleepSoundly`: a handler's cursor never passes an event of its own client, so
  a poll that registers its listener has read everything, and a listener
  that fires stops the wait.
* `ReplayIsFaithful`: a stream's channel continues the cursor without a gap as long
  as it is within the replay limit, and holds ascending ids whether or not it is; a frame that is
  not beyond the cursor is skipped.
* `RefinesRowFeed`: only `Receive` and `ReadStore` move a client's cursor, each an
  `Advance`; the answer in flight holds every event of the client up to `upto`.

`RelayProofs`: `IInv` is `TypeOK`, `RegisteredIsOpen` and, for each socket, three parts:
the turn that `current` names is the only one not aborted that streams (`StreamsFit`),
every token on the wire follows its own turn's prompt with nothing of another turn between
(`Said`), and a turn is told its latency only when its column is first set (`Timed`). A step is, seen from one socket, a stutter, a cut or a step
of that socket's own (`Effect`), which keeps the case split to one socket.
* `BargeInIsSilence`, `OneStreamIsHeard`, `LatencyToldOnce`, `SpeaksIntoOpen`; `OneVoiceIsHeard`
  from the second and the last.
* `RepliesAreAsSent`: a further part (`Told`) follows the transcript of a socket. The tokens of a turn
  are the set of their places on the wire, so "as many as were sent" is the size of a set that
  an append either leaves alone or grows by one, and no induction over the wire is wanted. While a
  turn streams, `got` is that size (`Counted`); a line recorded in full has that many tokens
  (`RecordedOn`), and what is on record or on the wire is of no later turn than `turn` (`InTurn`,
  `NoneAhead`).

`ServeProofs`, one invariant per module:
* `OneTunnelNoCrashLoop`, by `TunnelInv == TypeOK /\ OneThing /\ OthersLeave /\ PidfileKnows /\
  ExitsPay`: what is alive, was not signalled and ever came into a pidfile is the child the pidfile
  names, over any number of lives (`unfiled`, the children of a torn spawn, are in no pidfile: nobody
  signals them); within a life a spawn follows an exit that was counted, so there are
  no more of them than the breaker allows.
* `OneAgentPerProfile`, by `AgentsInv == TypeOK /\ WhoAwaits /\ RunsKnowTheirAgent /\ LivingAgents`:
  who waits for a run waits for the one in the map (`WhoAwaits`); a run that updates has the row's
  agent, one that creates has an agent only once the platform has made it
  (`RunsKnowTheirAgent`); an agent that lives is the row's, about to be written to it, or one
  whose id was lost with an answer (`LivingAgents`).
* `SpokenByItsBrief`, by `BriefsInv == MadeInTime /\ BriefsOfCalls` on top of it: the row may be behind
  the platform, never ahead of it. Without `"hasty"` and `"revert"` a call about to be placed
  was planned with the brief the configuration still has.
* `RecordingsPlay`, `DeletionIsFinal`, by `RecordingsInv`: what each task holds at each await
  (`TaskShape`), one key in the Keychain that every cache and every encrypted file agrees with
  (`KeysAgree`), one store per recording because the claim is taken first (`StoredOnce`), a file
  that goes before its row says so (`DeletedInOrder`), and that a file and its row part only under
  a task or at a cut (`IndexMatchesDisk`).
* `ServeRunsEach`: a behaviour of the composition is one of each of the three, so what is proved of
  each holds in what TLC runs; `ServeTypes` from it.

`MailProofs`
* `SuccessesAreReal`, `EachItemOnce`, by `IInv == TypeOK /\ Places /\ Calls /\ Reported /\
  SuccessIsDone`. `Calls`: each item of an awaited chunk has a request under way or its effect,
  and what was answered with success was done. The answer that settles a chunk is the last one,
  so nothing of the chunk is outstanding; and the answer to a retry is about the item the
  loop stands at (`OneRetry`), whatever stragglers there are. `Places` and `Reported`: `at` is the
  first item without a verdict, in either loop and at the return. `ReportsAreTrue` follows from both.
* `PagingGoesOn`, `PagesComeInOrder`, `ThreadTypes`, by `ThreadsInv == TypeOK /\ ReadsOfPages /\
  NoStuckPaging /\ Patient`: the flags that say a page is loading name a read under way, whose
  answer clears them, whatever list is shown by then. For a user who waits (`~hasty`) a load is alone under way
  (`LoadsAlone`), a page under way is the one after the last of the list shown (`PagesNext`), and
  so the list is what its query has, page after page.
* `WritingIsKept`, `ComposeTypes`, by `DraftInv == TypeOK /\ \A n : Fresh(n) /\ Fits(n) /\
  WritingSurvives`. `Fits`: what landed is among the delivered mails with the text the send has read,
  and a file whose send is under way or in the preview still says that text: nobody saves to a
  file whose editor has exited, as a resumed draft is a new file. `Fresh`: nothing is there beyond the
  editors opened. By `Fits`, the file that a settled send removes is one Gmail has; every other
  step that overwrites or removes a text records that the user gave it up.

`EchoProofs`: `EchoInv == TypeOK /\ Quiet /\ Listed /\ Explained`.
* `Quiet`: one tool at a time, so no send is between its script and its confirmation while a wait
  reads. `Listed`: an entry stands for a text or file of a send that is registered, once.
* `NothingIsSwallowed`: `NoSwallow` compares two sizes, so the invariant has the injection that
  makes them comparable. `Explained`: each silenced row has a send of its own of the same text
  whose entry is pinned to that row or has been pruned; so silenced rows of a text go one to one
  into the messages sent with it.
* A wait folds the registry over all new rows in one step (`ReadReplies`). That its fold keeps
  `Explained` is said of every place of the fold (`Taken`, a recursive function over the
  rows), and proved by the least place where it would fail: the library's well-founded minimum takes
  no operator parameter, as its induction theorems do.
* `WaitsAgree`: a row silenced for one wait has its entry pinned to it while that entry is there, and the
  fold of every other wait finds the pin.
* `NoPhantoms` has a chain of its own, without `Quiet`: `Traces == OneMessage /\ (\A k : Traced(k)) /\
  Carried` says that a send has one message of each text, and an entry for it from the end of its
  script until the entry lapses. The rows a wait
  returns go one to one into what the user wrote: a row of a send, passed over because its entry is
  pinned to another row, is mapped to that row.

Only model-checked: the liveness properties `EveryCallCloses`, `HoldsEnd`, `AppCatchesUp`,
`FailureEndsCall`, `WatcherCatchesUp`, `TunnelComesBack` and `LoadingEnds`: liveness under
fairness is out of the prover's reach. Every invariant and action property the passing runs check
is a theorem.

## 6. Plan

Done: every part of the inventory whose correctness rests on an order of events, except
those of section 7, with proofs of every safety property the passing runs check.

What could come next:
1. A composition of `CallLifecycle` with `Consult` and `RelaySession` on the terminal
   event, which each now models from its own side.
2. Theorems on the hypotheses: what still holds with `Overlap`, with a killed script or with an edit
   under a provisioning run, where the properties as stated fail.
3. The toggle of a recording and the account manifest (section 7), as models of what they lose.

## 7. Not modelled

* The toggle of a recording (`setRecording`, `CS` 1376-1400): it writes its flag after an await
  without reading again, and two toggles settle in any order; what one would want to say
  of it fails at once.
* The gmail session under a read of another account (`withRestoredAccount`): it saves the
  process-wide account, switches and restores it, without a guard. A thread opened just
  after a switch may undo a switch made meanwhile, with its event suppressed. In
  `ThreadPages` the session follows the scope.
* The gmail account manifest and credentials: read, change and rename without a lock;
  the last one wins, and a death between the rename of an account's directory and the write of
  the manifest leaves an account listed without its credentials.
* imsg watchdog, readers, contacts, export, media and native module; the
  call console, voice preview, adapters, configuration, briefs; tools, CLIs, HTTP transports:
  parsing, formatting, prompts, schemas, rendering and one-shot remote calls have no state of
  their own to interleave, or are read-only queries and caches over wall-clock ages. Most of
  the repository's lines are of this kind, which is why the mapped share stays small.
* Within modelled parts: wording of messages and reports, token metrics, wire formats,
  transcripts and summaries stored alongside; the draft id of an edited draft; draft files of
  two UIs.
