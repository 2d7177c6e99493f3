# kvy-cli in TLA+

kvy-cli lets a person run a coding agent (Claude Code and others) on their own
machine and follow or steer it from a browser. A session process on the machine
mirrors the agent's transcript to a server over idempotent HTTP, the server keeps
the encrypted log in Postgres and announces changes over a socket, and the web
client keeps pages of it in a React Query cache. Commands travel the other way as
RPCs, and a message from the web is typed into the very terminal the person may
be using.

This directory holds TLA+ models of the parts of that path where the order of
events decides whether messages are lost, doubled, misnumbered or typed into the
wrong place, and of the state these processes share: refresh tokens, the session's
row, the daemon's registry, permission prompts, transcript files. TLC configurations check them on
small instances, and TLAPS proves every safety property the runs check, for every
instance. All line numbers refer to the sources
beside this directory (`src/`). `PROJECT.json` maps every definition to its code.

Contents: [Inventory](#inventory) · [Modules](#modules) · [Runs](#runs-and-bounds) ·
[Fairness](#fairness) · [Findings](#findings) · [Seen while modelling](#seen-while-modelling) ·
[Proofs](#what-is-proved) · [Not modelled](#what-is-not-modelled-and-why) · [Plan](#plan)

## Inventory

The path of one message, and who shares state with whom:

    agent child ── transcript ──> scanner/mapper ──> Outbox ──HTTP──> message ingest ──> Postgres
        ^  (pty)                  (cli session process)  queue file       (server)           │
        │                                                                    │ finish        │ GET
    InjectionController <── beginSend <── claim file <── RPC router <── web  │ fan-out       v
        gates: hooks, fetch signal,        (send claims)   (socket)     ^    └─socket──> sync engine + React Query
        stdin, timers                                                   └──────────────────────(web tab)

| component | code | state it keeps | operations | what makes it hard | what must hold |
|---|---|---|---|---|---|
| server message ingest | `server/src/app/routes/messages.ts`, `db/seq.ts` | `sessions.msgSeq`, `sessionMessages` rows with two unique indexes | POST (lookup, allocate, insert, commit, fan out at `finish`), GET | concurrent transactions, row locks, unique-violation retry, deletion underneath, handlers that break off | gapless numbers, one row per localId, same answer to every replay, at most one announcement |
| CLI outbox | `cli/src/api/outbox.ts`, `queue.ts`, `httpClient.ts` | buffer, timer, in-memory queue, queue file, drain loop | enqueue, flush, drain, dispose, load | lost and late answers, crash with a POST in flight, graceful end in mid-drain, byte cap | in order, once, nothing lost but a crash's unsealed buffer, backlog always draining |
| PTY injection | `cli/src/claude/injectionController.ts`, `ptyClaudeSession.ts` | queue, message being injected, six gate flags, timers | enqueue, six setters, flush, submit, cooldown, dispose | signals from hooks, tailer, stdin and timers race each other, the child's exit and the process's own | never stranded behind an open gate, each message reported once, eventually reported if the person ever pauses |
| send claims | `cli/src/claims/claimStore.ts`, `rpc/sessionRpc.ts`, `commands/start.ts` | claim file, `openClaims` map | claim, complete, begin, drop | retried RPCs, crash between claim and completion or inside the claim file's locked section, a stale lock stolen without a second look, lock timeouts, teardown order | at most once to the agent and an honest `duplicate` while no section loses its lock, claims settled |
| web message stream | `web/src/sync/engine.ts` (messages), `use-live-render-items.ts`, `session-list/live-source.ts` | cached pages, `lastMsgSeq`, fetch in flight, stale mark | update event, refetch, older page, mount, reconnect | announcements out of order, responses older than the cache, cancelled and failed fetches | no hole, tracker follows the cache, gaps are healed without another message |
| web header stream | `web/src/sync/engine.ts` (structural), `lib/use-sync-snapshot.ts`, `sync/apiSocket.ts`, `server/.../sync.ts` | snapshot, `lastHeaderSeq` per engine | structural update, refetch, reconnect; server: change, announce, read | torn snapshot reads, several engines on one cache, first load, patches of single fields of a row that may be missing | no announced change skipped in silence, a refetch that did not fail covers what it was started for |
| session status, CAS, staleness | `server/src/app/staleSessions.ts`, `routes/sessionStatus.ts`, `sessionCas.ts`, `sessionArchive.ts`, `cli/src/api/sessionMetadata.ts`, `web/src/lib/use-session-metadata-write.ts` | session row: status, metadata and agent-state versions | report, compare-and-set, flip to failed on read, archive, restore, delete | a GET writes; every writer reads first and writes under a condition | only an active session fails, an archived one is left by restore or delete alone; announced means written; no patch is lost |
| session creation | `server/src/app/routes/sessions.ts` | session rows, quota | idempotent create | quota counted outside the insert's transaction | one row per tag, quota |
| auth | `server/src/auth/*`, `routes/refresh.ts`, `cli/src/auth/tokenProvider.ts`, `credentialsLock.ts` | refresh tokens (single use, 60 s grace), credentials file and lock | refresh, adopt, echo, revoke on reuse | several processes share one file; the lock is given up after 5 s; crash with the lock or with an unsaved token | a family is not revoked by its own owner; the file never goes back |
| pairing, key sharing | `cli/src/auth/pair.ts`, `keyShare.ts`, `server/.../keyRequests.ts` | pending requests | create, approve, poll | expiry, double use | single use |
| RPC router | `server/src/app/socket/rpcHandler.ts` | registered handlers, pending calls | register, call, answer, disconnect | answer after timeout, handler re-registered | at most one delivery, one answer |
| event router | `server/src/app/events/eventRouter.ts` | connections | emit | none of its own | recipients |
| permission pipeline | `cli/src/claude/pretoolPermissionBridge.ts`, `hookServer.ts`, `acp/acpPermissionHandler.ts` | held hooks, prompts left to the terminal, agent state | ask, answer, time out, tail a result, reset | web, terminal, timer, interrupt and exit race; results are matched by tool name, and some are never reported | each request settled once, one winner, no card left open unless a result went unreported |
| mode loop, ACP/remote | `cli/src/claude/loop.ts`, `claudeRemoteLauncher.ts`, `acp/*` | mode, outgoing queue | switch, message, exit | a message across a switch | nothing lost in a switch |
| transcript mirroring | `cli/src/claude/scanner.ts`, `fileWatcher.ts`, `envelopeMapper.ts` | sets of sessions (current, pending, finished, dead), watchers, seen entry keys, the pass in flight | poll, flush, announce, drop, cleanup; map | passes await their reads, which may fail; an entry's handling may throw; the history of a resumed session is marked while the agent already runs; flushes overlap each other and cleanup; sessions are announced and dropped in mid-pass | passes never overlap, each entry handed on once or marked as history, a flush and the shutdown tail leave behind only what their own pass missed |
| daemon: spawn, registry, re-adoption | `cli/src/daemon/spawnEngine.ts`, `sessionRegistry.ts`, `readoptSessions.ts` | live map, resumable set, `sessions.json`, spawn awaiter, session lock | spawn, adopt.take, resume, report, prune, persist, restore, re-adopt | daemon restart, unreadable file, survivors it cannot place, child that reports late, dead entries, stale locks with several contenders | what was persisted stays resumable, survivors it can place are tracked, one owner of a directory until a reclaim races |
| daemon: locks, life cycle | `cli/src/daemon/lock.ts`, `ensureDaemonRunning.ts`, `selfUpdate.ts` | lock file | acquire, steal, release | stale locks, two starters | one daemon |
| daemon: machine link, previews, runs, git, GitHub, files | `cli/src/daemon/*` | per-operation | dispatch | mostly independent calls | — |
| workspaces, push | `cli/src/workspace/registry.ts`, `server/.../workspaces.ts`, `push.ts` | small stores | register, notify | best effort | — |
| web reducer | `web/src/sync/messages.ts` | none (a fold) | envelopes to items | replays, out-of-order ends | idempotent |
| wire, crypto | `packages/wire`, `packages/crypto` | none | parse, seal, open | — | — |

The hazards of each part, at their lines, are in `PROJECT.json` under `hazards`,
with the property that covers each or the reason why none does.

## Modules

`MessageLog` (61 lines) is the abstract specification of the ingest: a set of rows,
one atomic effect per request that either stores the message under the next number
or finds it, one answer that names the row, deletion of a session.

`MessageIngest` is the ingest itself, one action per database statement, because
that is where Postgres lets handlers interleave.
A handler slot goes `findSession`, `findExisting` (the lookup by localId), `alloc`
(the `UPDATE ... msgSeq + 1 RETURNING`, which takes the row lock), `insert`,
`commit`, `reread` (after a unique violation), `reply`; `lock`, `msgSeq` and `rows` are the
database. `Break` is a failure of any statement (the transaction rolls back) or a
response that never finishes; `DeleteSession` waits for the row lock like any
writer. A slot that has answered serves the next request, so two slots are two
concurrent handlers of unboundedly many requests. It implements `MessageLog`
(`ImplementsLog`); the linearization point is the commit.

`Outbox` is the session process's outbox with its queue file, the network as a set
of requests that may still arrive (any number of times, or never), and the server
as the atomic log that `MessageIngest` was shown to implement. Envelopes are
numbered as produced; a batch is the pair of its ends. `Flush` seals, appends under
the byte cap (evicting the oldest, as `appendWithCap` does), persists and starts
the drain loop in one step, since the code has no await between them. `Crash`,
`Dispose`/`Exit` and `Restart` keep only the file and the wire. `evicted` and
`unsaved` are history variables: what the cap pushed out, and what a crash found
in the buffer.

`MessageStream` is one browser tab looking at one session: the server's commits and
announcements, the socket, the React Query pages (`cache`, `pages`, `stale`,
`fetch`), and the engine's `lastMsgSeq` (`known`). A message is its `msgSeq`. The
GET is split into its start, its read of the table and its response, or its failure (signed
out, the network, an error status, after React Query's retries), which keeps what is cached
and marks it stale. A fetch of several pages, one GET after the other in the code, is one
answer; which of the two query functions of the key refetches, the timeline's (every
page) or the list row's (the newest one), is left open (`Depths`). The tab's
second engine, if any, is not modelled here: the first one's patch moves both
trackers through the cache subscription, so the second sees a duplicate.

`HeaderStream` is the account's structural stream. `Change` commits a row together
with `headerSeq`; a row is, per field, the change it shows, because some updates carry the
whole row and a `session-update` only what it changes, merged into the session if the
snapshot has it (`patched`) while the counter moves in any case; `GET /v1/sync` reads the counter and each table in separate
statements (`ReadAccount`, `ReadRows`), which is how the code does it, and may fail; `Update`
hands one event to every engine in turn, within one step, on a record of the tab's
state, because the engines are synchronous listeners of one socket event.

`Injection` is the injection controller wired to its session: six gate flags, the
queue, the message between its text and its Enter. The terminal UI is external and
kept to what the properties need: a composer, a dialog, a turn. Every setter that
may open the gate flushes in the same step, as the code does. Keystrokes do their
bookkeeping before the bytes reach the terminal, in the code's order; each printable one
starts the draft timer anew, and there is no bound on them. `ProcessExits` ends the process
once the controller is disposed, also under a submit timer that is still running.

`SendClaims` is the life of a web message from the RPC to the end of its claim:
deliveries of an envelope, `claimMessageSend` and `completeMessageSend`, `beginSend` after
the await, the controller's queue (whose gate may open at any time here), the submit timer,
teardown, exit, kill and restart on the same claim file. Each section of the claim
file is a step per await: the lock file is created (`Open`), or found old (`FindStale`) and
removed unseen (`Steal`), or not to be had (`GiveUp`); then `Read`, `Write` and `Release`, which
removes whatever lock file is there. A kill leaves the lock file behind. `sound` is a history
variable: no section has had its lock removed under it, and no unreadable claim file
was taken for an empty one.

`FileLock` is the lock file around a refresh: `link` of a payload, the read that
finds a dead owner, the second read before the unlink, the retry, the time-out after
which a process goes on without the lock. `TokenRefresh` extends it with the token
provider of each process (`mem`, `dead`, `retried`), the credentials file, a server
that knows the newest token and the one before it, and a network that loses requests
and answers. Tokens are numbered in the order they are drawn. `faults` is a history
variable: a rotated token whose answer never arrived or could not be saved.

`SessionRow` is one row of `sessions` and its writers. A handler is a SELECT and a
conditional UPDATE at READ COMMITTED, so the UPDATE's WHERE sees the newest row and not the one
that was read; the deferred fan-out belongs to the commit. The metadata is what the properties tell
apart: a title's origin, a model, a pin; the session process patches two of them,
each web mutation hook (a `Tab`) another, in a loop of compare-and-set.

Definitions that every module would call by the same name carry the component's name
where two components share a module of proofs: `RowSpec`, `DaemonNext`, `HeaderTypeOK`.

`DaemonSessions` is the daemon's view of its session processes: `pidToSession` as the
ordered Map it is, the resumable set, `sessions.json` behind its write chain, the
handlers of spawn, adopt.take and resume up to the report they wait for, and the
processes with the lock of the directory they all run in. A record says whether its
directory is known, because only such a record can be re-adopted or resumed. The
session lock is taken, looked at, re-read (`Recheck`) and unlinked (`RemoveStale`) in steps of their own;
`raced` records that an unlink took another lock than the one re-read. `Boot` may fail to read
`sessions.json` (`restored`), and leaves out live processes that `ps` or `lsof` does not place
(`skipped`).

`PermissionBridge` is the bridge between Claude Code's hooks and the web. Claude Code
is external: calls start, ask, run, record results; one dialog is shown at a time.
`blocked` are the hooks held open for the web, `local` the prompts left to the
terminal, `driven` those the web has answered with keystrokes, which go to whatever
dialog is shown. A result the mapper does not report, a Task's or one whose turn was closed
first, is recorded in `missed`.

`TranscriptScanner` is the tailer of Claude Code's transcripts. A pass (`runSync`) is a
record: the sessions it set out to read (`list`), those still to be read (`todo`), and the
content a read has returned but its continuation has not yet handled (`got`). At most one
pass belongs to each of the poll, every `flush()` and `cleanup()`; `promise` names the one
`currentSyncPromise` belongs to. An action is what runs between two awaits, and `Quiet`
says that the continuations of settled promises run before any timer, hook or finished
read: without it the model would break off loops that the event loop cannot break off.
A file is the set of its entries, an empty one is absent. A read may fail, which counts as
no entries, and handing an entry on may throw, which ends the pass (`ReadFails`, `Throw`); what a
flush or the cleanup asked for and its own pass missed so leaves its `want` or `tail` (`Miss`).
`Init` is the moment before the agent is spawned: the mark of a history known when the scanner is created
has been awaited, the one of `announceNewSession(..., treatExistingAsProcessed)` has not
(`marking`), and ends at any later time with whatever its read saw (`Mark`). The transcripts themselves are external.

How they fit together: what `TranscriptScanner` hands on is, mapped, what `Outbox` enqueues: `EmittedOnce`
is why an envelope is enqueued once. `Outbox` relies on `MessageLog`'s promises (a localId is
stored once), which `MessageIngest` implements; `MessageStream` starts from the
numbering `MessageIngest` guarantees (`Gapless`, so that `known + 1` is a sound
contiguity test); `SendClaims` relies on `Injection`'s `EveryMessageReported` (and so on a person who pauses)
for its fairness of `Type`, and on `ReportedOnce` for each message being completed once. `SessionRow` takes its `ended` and `failed` reports from the processes
`DaemonSessions` describes, in any order; `TokenRefresh` runs below every HTTP call
of the others, where a refused refresh is one more failed attempt. The three
lock files differ in how a stale one is taken over: `FileLock`'s and `DaemonSessions`' are read
a second time before the unlink, which narrows the race without closing it; the
claim file's in `SendClaims` is removed on its age alone.

Definitions whose name ends in `_Something` (`Insert_NoUniqueIndex`) are faulty
variants. They are in no next-state relation: each stands for a plausible bug, and
putting it in the place of the original breaks the property it is paired with in
`PROJECT.json`, which shows that the property is sensitive to that code.

## Runs and bounds

| run | distinct states | checks | bounds |
|---|---|---|---|
| `ingest` | 47 256 | `Gapless ReplayStable AnnouncedAtMostOnce ImplementsLog HandlersFinish` | one session, two localIds, two handler slots |
| `outbox` | 95 333 | `TypeOK InOrderOnce AtMostOnce NothingLost QueuedDelivered` | five envelopes, batches of two, cap of three, one crash, one graceful end |
| `msgstream` | 488 013 | `NoHole KnownIsNewest RefetchDelivers NoSilentDrop ResyncSettles` | four messages, pages of one, one loss of the socket, one older page |
| `header` | 268 570 | `RefetchDelivers NoSilentDrop ResyncSettles` | one session with two fields, three changes, two engines, one loss of the socket |
| `injection` | 207 135 | `NothingStranded ReportedOnce EveryMessageReported` | three messages, two dialogs, a foreign tool result, three fetches; any keys |
| `claims` | 1 127 632 | `AtMostOnce DuplicateIsHonest TakenIsSettled` | two envelopes, three deliveries in all, one refused lock or failing file operation, one restart |
| `auth` | 233 656 | `FamilyKept FileAdvances StaleLockGoes` | three processes, three refreshes |
| `row` | 2 780 218 | `TerminalKept FanOutIsTrue PatchesCompose` | two concurrent handlers of three requests, the session process and two tabs, two attempts each |
| `daemon` | 1 705 843 | `ResumableKept LiveIsTracked OneOwner` | three processes, two sessions, one handler at a time, two daemon crashes |
| `permissions` | 1 316 994 | `ResolvedOnce OneWinner CardCloses` | three calls, questions or other tools |
| `scanner` | 995 882 | `OnePass FlushIsFresh TailMapped Delivered` | two sessions, one entry that may be in both files, two overlapping flushes; any failed reads, throws, polls, announcements |

Each component has a single passing run, with safety and liveness together. One more
run (`resume_stale`) violates a property, a statement of the code's own comments;
see [Findings](#findings). Every type invariant is proved, so the runs leave it out, but
for the outbox's, which says that a drain under way has a batch and an idle one none. `row` and `daemon` are run under the
symmetry of their handlers, tabs, processes and sessions, of which no definition tells
one from another; they check no liveness, for which that would be unsound.

Why the bounds are enough to be interesting:

- *ingest*: two slots with two keys give two requests for one key (retry or race)
  and for two keys (numbering). The theorems cover any number of either.
- *outbox*: five envelopes in batches of at most two, timers included, make three
  or more batches, enough for a batch in flight, one behind it and one being
  sealed; a cap of three evicts the batch in flight. Executions that never reach
  the cap are in the same state space: `evicted = {}` there, and the ordering and
  no-loss properties are about them. A crash and a graceful end give three
  incarnations of the process over one file.
- *msgstream*: pages of one message make every boundary a page boundary; four
  messages leave room for history, a gap, its repair and a message after it.
- *header*: of three changes one creates the session and two more write a field each or delete it;
  they can be announced in any order and fall on either side of each statement of a read. One
  row is the hard case: changes of different rows do not meet. Two engines are what
  a session screen mounts (the workspace index and the screen).
- *injection*: three messages put one in the queue behind another and the one being
  injected; two dialogs are one that is answered and one whose clearing signal is lost. Keys are
  unbounded: the person may type for ever, and `EveryMessageReported` says what it assumes of them.
- *claims*: three deliveries of two envelopes are a call, its retry and a third that finds
  what these left, or another envelope that competes for the one injection slot and for the lock; a kill in a
  section leaves a lock that two waiters find stale after the restart, so runs that are not
  `sound` are in the state space, and beyond what the properties promise.
- *auth*: three processes are one that holds the lock, one that finds it stale and one
  that has already reclaimed it; three refreshes make a token that is two rotations old.
- *row*: two handlers race on every pair of request kinds, and the third request finds
  what the race left; two attempts are a conflict and a retry, or a loop that gives up.
- *daemon*: three launches are a session's process, its replacement and a third that
  meets a dead entry or a stale lock; a crash, and another before the write chain of
  the first life's survivors has run. Two contenders and a dead owner are what a raced
  reclaim takes. With the lock's steps apart a second handler exceeds the time of a run; a
  handler that times out and the next one already overlap in the process the first launched.
- *permissions*: three parallel calls give a prompt in front, one behind it, and a
  result that belongs to neither.
- *scanner*: two sessions are one and its successor; one entry key in either file is all
  that the de-duplication can get wrong; two flushes are one that runs and one that waits,
  or two that wait for the same pass. Nothing counts: polls, announcements, drops, flushes,
  failed reads and throws are unbounded. One resumed session at most is being marked, as
  in the code.

`CHECK_DEADLOCK FALSE` where the system may stop: the outbox with everything
delivered, a tab with nothing left to show, a session that has ended, a daemon whose
processes are all gone, a scanner that has been cleaned up, a bound on requests used up. The ingest run
checks deadlock: a handler can always take a request.

## Fairness

- *ingest*: every handler whose statement can run eventually runs it, and a handler
  waiting for a row lock is granted it if the lock is free again and again (strong
  fairness of the lock; Postgres queues waiters). No fairness of `Post`, `Break` or
  `DeleteSession`.
- *outbox*: timers fire, a disposed process exits, the session is run again, every
  attempt settles (weak fairness). A POST repeated for ever reaches the server and its
  answer arrives once (strong fairness of both): the network is not down for good.
  Nothing forces a crash, an enqueue or a lost request.
- *web*: the server answers a GET and finishes its responses, the tab handles what
  arrives, the socket reconnects. Nobody has to write, scroll, open or leave. A fetch may
  fail any number of times: `RefetchDelivers` and `ResyncSettles` are about those that do not.
- *injection*: the process's own timers fire while it is up, fetches end, teardown completes. The
  process may exit under a submit timer at any time after that. No fairness for hooks, the
  tailer or the agent's dialogs, which is why the 120 s failsafe is needed for
  `EveryMessageReported`, and none for the draft timer, which every key starts anew: that
  the person pauses for 15 s again and again (`PersonPauses`) is a premise of the property.
- *claims*: the event loop goes on (handlers, timers, sections; one that gets no lock gives
  up), the gate opens sooner or later, teardown completes. Not `Restart`: `TakenIsSettled` is about the
  process that took the message, and is excused if it is killed or the lock was
  refused, a file operation failed or a lock was stolen.
- *auth*: a live process goes on with its lock and its refresh, and a call is answered or
  fails. Starting, crashing and asking for a refresh are free.
- *permissions*: Claude Code's calls end, the tailer reads on, the answer timers fire.
  Nothing is assumed of the person at the terminal or in the browser.
- *scanner*: reads complete or fail, continuations run, the poll interval keeps firing until
  `cleanup()`. A transcript that is read again and again is read in the end (strong
  fairness of `Read` per session): that the file system is not down for good is an assumption.
  An entry whose handling threw counts as processed, so every pass gets further. Nothing is assumed of Claude Code, its hooks, the file watchers or the callers
  of `flush()`, so `Delivered` rests on the poll alone.
- *row* and *daemon* check safety only.

Assumed of time and of the machine, because no code enforces it:

- *auth*: a refresh call takes less than the grace window of 60 s (`GraceEnds` waits for
  calls that presented a superseded token).
- *claims*: a section of a live process takes less than the 10 s after which its lock is stale;
  a kill is what makes one stale.
- *scanner*: a read of a transcript takes less than the 60 s after which a missing file's watcher gives up.
- *daemon*: a pid is not used twice, and a process does not report before its launch is
  tracked; the launch takes 200 ms, the report a round trip to the server.

## Findings

One run violates a statement the code makes about itself.

`resume_stale` — *"A still-live process for the same session is stopped first and
confirmed dead before the replacement is launched"* (resumeSession.ts:8-10).
`getLivePid` and `stopSession` take the first registry entry of the session
(sessionRegistry.ts:213, :222). After a resume, that is the dead predecessor until
the heartbeat prunes it a minute later (commands.ts:253): a second resume finds it
gone and launches a third process while the second runs. The session lock refuses
the third, and the resume times out after 15 s, because it passes no exit
watcher. `stopSession` alone reports success in that minute without having signalled
the live process.

## Seen while modelling

Behaviours of the models (and of the code) that have no run of their own:

- *A flush overtaken by cleanup hangs the process.* Two `flush()` calls (`closeTurn` of two
  turns, each retrying for a while) wait for the same pass when `cleanup()` is called. The
  first to wake sets `running` (scanner.ts:448) for a pass that `runSyncCoalesced()` refuses
  because the scanner is stopped (scanner.ts:404), and nothing clears the flag. The
  second stays in `while (running)`, awaiting a promise that has settled: microtasks without
  end, so that no read and no timer is served again and `cleanup()`, which
  *"Stops all watchers"* (scanner.ts:80), never returns. TLC finds it as a violation of
  `stopped ~> phase = "over"` under `FairSpec`. For this reason `TailMapped`
  says what holds when `cleanup()` has returned, not that it returns.
- *Revived in name only.* *"The caller explicitly re-announces this session, so give a
  previously-dropped id another chance"* (scanner.ts:473-474). A session that has been
  superseded and whose watcher then gives up in the middle of a pass ends up in `finishedSessions`; its
  announcement takes it out of `deadSessions`, logs a revival and returns at
  scanner.ts:479-482, and nothing reads its file again. `owed` leaves such sessions out.
- *Dequeued unacknowledged.* A batch is *"dequeued only once it's acked"* (outbox.ts:154).
  At the cap, `flush()` may evict the batch in flight; its acknowledgement then dequeues
  the new head (outbox.ts:164), which was never sent. `NothingLost` and `InOrderOnce` are
  about `evicted = {}` for this reason too.
- *Lost announcement.* The fan-out hangs on the response's `finish` event
  (messages.ts:122). A handler that breaks between commit and finish leaves a stored
  message nobody announces; the retry replays it without an event. The next message's
  gap check, or a reconnect, brings it.
- *Ignored during the first page.* An announcement that arrives while a session's
  first page is in flight is ignored (engine.ts:188), and the answer may have been read before.
- *Torn snapshot.* `GET /v1/sync` reads the counter and the tables outside a
  transaction (sync.ts:57-67); `headerSeq` may count a change that the rows lack. This is why
  `NoSilentDrop` insists that an "old" announcement also invalidates.
- *A lone engine loses a patch.* With one engine mounted, a change patched while a
  refetch that read earlier is in flight is overwritten and the query is not stale.
  With two, `RefetchDelivers` covers patches as well, because the second engine, whose tracker the patch
  has moved, takes the same event for non-contiguous and refetches: it also means
  one extra `GET /v1/sync` per structural change and engine.
- *Enter is not re-gated.* The gate is read when a message's text is written; its
  Enter, 250 ms later, answers whatever dialog opened in between (injectionController.ts:243).
- *Never reported.* After teardown the process exits without waiting for the submit timer
  (start.ts:739-740): the message typed last is reported to nobody, and its claim
  stays open. `EveryMessageReported` leaves that message out.
- *A person who does not pause.* Every printable key starts the 15 s draft timer anew
  (ptyClaudeSession.ts:969-970): web messages wait as long as somebody types, with
  no upper bound.
- *`injected` after the child's exit.* The controller is disposed late in teardown;
  a submit timer that fires before that writes to a dead child and completes the
  claim as `injected` (ptyClaudeSession.ts:765).
- *A failed refetch.* When React Query's retries of a GET are used up (live-source.ts:131),
  nothing starts it again: the tab stays stale until the next gap, reconnect or visit, and an
  announcement that happens to be contiguous is patched in and clears the stale mark
  (`setQueryData`), so that the session or the snapshot looks current. `RefetchDelivers` is
  about fetches that did not fail.
- *A patch without a row.* A `session-update` of a session the snapshot lacks changes no row
  (engine.ts:148-152, :84-97), and the counter moves past it. A snapshot lacks it when
  it is torn. With one engine nothing asks for a refetch then (`NoSilentDrop` names the
  case); a second engine does.
- *Paging cancels a resync.* A reconnect says *"Invalidate everything"* (engine.ts:224);
  `loadEarlier()` calls `fetchNextPage()` (use-live-render-items.ts:131), which cancels
  the refetch in flight and, when it settles, clears the stale mark with the newest page
  as it was before the disconnect. The next announcement brings what was missed.
- *No resync during the first load.* engine.ts:215-218 calls a full resync *"always
  safe"*; with no data yet, `invalidateQueries` neither cancels nor repeats the fetch in
  flight, and its answer may predate the change.
- *Enter flushes first.* *"don't clobber their composer"* (injectionController.ts:159):
  Enter closes the draft gate (ptyClaudeSession.ts:962), whose flush types a web message
  into the composer before the Enter itself is forwarded; both are submitted as one prompt.
- *Any tool-end opens the gate.* *"never type a queued message into it"*
  (injectionController.ts:134), but start.ts:1133 clears the prompt gate on every
  tool-end, also of a parallel call while another's dialog is open.
- *A claim left open.* A handler whose claim is granted while the session ends enqueues
  to a disposed controller, which returns silently (injectionController.ts:100); the
  caller is told `queued`, against start.ts:1166-1171.
- *Claimed twice.* A process killed in the locked section leaves its lock file behind. Of two
  waiters that find it old (claimStore.ts:179-186), the first removes it and takes the lock, and the
  second removes the first one's: both read the file, both claim the message, and it is
  submitted twice; the first to leave then removes the lock of a third (claimStore.ts:228-234).
  A claim file that cannot be read or parsed counts as empty, and what was claimed is
  claimed again. TLC finds both as violations of `AtMostOnce` without its premise `sound`,
  against claimStore.ts:205-211.
- *Order at the cap.* An evicted batch whose request is still on the wire may be stored
  behind a younger one; `AtMostOnce` still holds.
- *Auth.* After a failed write a process re-adopts the old token from the file at its next
  refresh; presented after the grace window, it gets the family revoked
  (`FamilyKept` is about `faults = {}` for that reason), although
  tokenProvider.ts:134-138 takes a failed write for harmless. A logout while a
  refresh is in flight is undone by its `onRotate`.
- *Row.* Restore's UPDATE has no condition on the status (sessionArchive.ts:126): of two
  restores around an `ended` report the second makes an ended session active. Two
  archives, or one of a row deleted in between, fan out twice. The reconciliation
  pushes the row as it read it (staleSessions.ts:194-198). Nothing makes a `failed`
  session active again, short of archiving and restoring it, also when its process was only slow.
- *Daemon: the directory is forgotten.* A process that first reports after a daemon restart is
  not in the live map, so it is recorded as started at a terminal, without its
  directory (sessionRegistry.ts:182-184), also over a record that had one: a daemon
  that dies between a resume's launch and its report loses the session for re-adoption
  (readoptSessions.ts:45) and for resume (resumeSession.ts, `resolveDirectory`), and
  spawns no longer dedup against it. `LiveIsTracked` is about records with a directory.
- *Daemon: two owners.* Between `reclaimIfStillStale`'s re-read and its unlink the code awaits
  (sessionLock.ts:139-151): two contenders may both have re-read the dead owner's lock,
  and the slower one removes the lock the faster one has taken meanwhile. Both sessions run in
  one directory. The comment there (:132-137) claims no more than that the window is
  narrowed; `OneOwner` holds until that has happened (`raced`).
- *Daemon: survivors it cannot place.* At boot a live process is left out when `ps` or `lsof`
  fails or its directory has been deleted, unmounted or renamed (readoptSessions.ts:55-70,
  processScan.ts:49-59, :93-127). It stays untracked until it reports again, and a resume may
  launch beside it. `LiveIsTracked` leaves it out (`skipped`).
- *Daemon: an unreadable file is an empty one.* A failing read of `sessions.json` at boot forgets
  every session (`restored`); at a write it drops all the other records.
- *Daemon: no watcher.* A resume watches neither the launch nor the life of its process: a
  child that dies at once is noticed after 15 s, one that dies later unreported leaves
  its row active. A process stopped for a resume reports `ended`, and nothing makes the row
  active again. After SIGKILL the old process is looked at once, at once, so the resume is often
  refused (resumeSession.ts:144-146).
- *Permissions: outcomes by name.* The tailed result of a call completes the oldest local
  prompt of a tool of its name (pretoolPermissionBridge.ts:987): with parallel calls
  the outcomes are swapped, and a card stays until another call ends. start.ts:1137
  calls `ok` *"the real outcome"*, but a tool that was approved and failed is shown as denied.
- *Permissions: results nobody reports.* The mapper hides the results of a Task
  (envelopeMapper.ts:749-752) and drops those of a call whose turn has been closed
  (envelopeMapper.ts:502-522), so that start.ts:1146-1149 never hears of them: the card of
  such a prompt, answered at the terminal, stays pending until the session ends, unless a later call of the
  same tool takes it for its own. `CardCloses` leaves out tools of which a result was missed.
- *Permissions: keystrokes.* A web answer to a local prompt goes to whatever dialog is
  shown, or into the composer when the person has just answered. An interrupt of a held
  hook is reported to nobody: its card stays for up to 570 s, and an Allow in that time is told
  `ok` although the tool never ran.
- *Scanner: history too wide.* The mark of a resumed session is not awaited
  (ptyClaudeSession.ts:877-879) and reads the file while the agent already runs (:907): an entry
  appended before that read has ended may be taken for history, and is never handed
  on. `EmittedOnce` and `Delivered` say that only marked entries are left out.
- *Scanner: no look after the read.* The announcement does not check again when its read has ended
  (scanner.ts:491-494). A hook that announces the same session meanwhile makes it current and
  its history is handed on; the mark then makes it current again and pending as its own predecessor.
- *Scanner: what a pass misses.* A read that fails with anything but ENOENT is logged and
  counts as no entries (scanner.ts:145-160), and a throwing `onMessage` ends its pass, with the entry
  counted as processed (scanner.ts:405-411). `flush()` returns all the same and leaves the entries
  to the poll; after the final pass of `cleanup()` (scanner.ts:551-557) nobody reads
  again, and the tail is lost.
- *Scanner.* Until the first hook, any transcript that appears in the directory is
  announced (scanner.ts:512-540); a sibling process's file adopted so stays watched for the
  life of the session, after the hook has named the right one. A session without a file
  for 60 s is dropped while it is still current, and announcing it again is a no-op
  because it is current (scanner.ts:465); scanner.test.ts knows this one.

## What is proved

Every safety property of every passing run, and every type invariant, for any sets of
requests, sessions, localIds, processes, calls, rows and tabs and any values of the
bounds. The proofs are in eight modules:

| module of proofs | about |
|---|---|
| `ServerProofs` | `MessageIngest`, `SessionRow`, `HeaderStream` |
| `OutboxProofs` | `Outbox` |
| `SendClaimsProofs` | `SendClaims` |
| `InjectionProofs` | `Injection` |
| `PermissionBridgeProofs` | `PermissionBridge` |
| `TranscriptScannerProofs` | `TranscriptScanner` |
| `MachineProofs` | `TokenRefresh` over `FileLock`, `DaemonSessions` |
| `MessageStreamProofs` | `MessageStream` |

What is assumed of the constants is written with them (`NoneAssumption`,
`BoundsAssumption`, `NilAssumption`, `NoOwnerAssumption`, `TokenAssumption`, `RowAssumption`, `DaemonAssumption`,
`HeaderAssumption`, `NamesDiffer`): bounds are naturals, batches and pages hold at least one message, rows have fields, the
tab has at least one sync engine, the bound on a session's messages exceeds one page (it may be
opened with that much history), and a value that stands for "none" is none of the values it is
told apart from. TLC evaluates each in the module's run.

*MessageIngest.* `Spec => []TypeOK`, `[]Gapless`, `[]ReplayStable`,
`[]AnnouncedAtMostOnce`, `[]AllocationExclusive`, and `Spec => ImplementsLog`.
None of the safety properties is inductive: `Gapless` needs to know that the number a
transaction holds is still the next one. The inductive invariant `IInv` therefore
says what a handler knows at each step: between allocation and the end of its
transaction it holds the row lock and its number is `msgSeq + 1` of a live session
(`AllocationExclusive`); the rows use exactly the numbers `1..msgSeq` and are
determined by either key (`RowsInv`); a handler about to commit found no row, one
about to answer has one (`StepInv`); the right to announce is held by one handler at
most (`FanInv`); every answer given names a row. `ReplayStable` follows from the
last and `RowsInv`. The refinement uses the same invariant: `Commit` maps to the
abstract effect of a new message, an answer maps to `Answer`, `DeleteSession` to
`Delete`, everything else stutters. Assumed: only that `None` is not a request.

*SendClaims.* `Spec => []TypeOK`, `[]AtMostOnce`, `[](sound => RunIsClaimed)`,
`[]DuplicateIsHonest`, the safety properties under the premise `sound`, which a raced take-over of the claim
file's lock or an unreadable file ends for good; that they need it is a fact about the code
(see *Claimed twice*). As long as it holds, one section at most is inside, behind the lock
file it created (`LockInv`), so what it has computed from its read is still what the
file becomes, and what it will report is what the file says (`InsideInv`). `AtMostOnce` alone is not
inductive: nothing in it says why a second call cannot be waiting. The invariant adds
that a call whose message is claimed, waiting or typed is the one its envelope's claim names, and
its claim is the open one (`LiveInv`); that a completion under way tells what became of its message
(`WritesInv`); that a submitted message's claim is its own until it is completed, and
then says so (`RanInv`); and that only completed claims carry a result (`StoreInv`).
Whatever the lock does, a section is at one place at a time (`SectionsInv`). Assumed: the
bounds are naturals, `None` is no call.

*TokenRefresh.* `[]TypeOK`, `[]FamilyKept`, `[][FileAdvances]`. While the answer of a rotation
is under way nobody else knows the newest token, so nobody can rotate it
(`NewestInv`); as long as no rotated token was lost, the file has the newest one or a
live process is about to write it, and whoever presented an older one is still
inside the grace window (`KeptInv`). Nothing in the argument uses the lock: the refresh is
safe when the lock is given up or two processes hold it.

*SessionRow.* `[]RowTypeOK` and the action properties `TerminalKept`, `FanOutIsTrue`,
`PatchesCompose`. The last needs `KnownIsCurrent`: a writer that knows the newest
version knows its value, which is what makes a comparison of versions enough.

*PermissionBridge.* `[]TypeOK`, `[]ResolvedOnce`, `[]OneWinner`. The invariant says that what
is in `blocked` or `local` is pending, and in one of them only, once; and that a prompt
that was won can be won no more: no hook is held for it, and its local entry is driven.

*Injection.* `[]TypeOK`, `[]NothingStranded`, `[]ReportedOnce`. The second follows from the lemma
that `tryFlush` leaves no queue behind an open gate, and that every setter either
flushes or closes a gate. For the third, `Books` says what the messages taken consist of:
those injected and then the line (the one between text and Enter, and the queue) until
`dispose()`; afterwards the queue has become the dropped ones, and the last
message ends up before or behind them. That a flush moves the head of the queue
and leaves the line alone is a lemma about sequences.

*DaemonSessions.* `[]DaemonTypeOK`, `[]OneOwner`, `[]ResumableKept`, `[]LiveIsTracked`. `OneOwner` does
not look at the lock, and holds until an unlink has taken another lock than the one its
process re-read (`raced`); its invariant says that until then whoever got past the lock is the
pid the lock file names (`Named`), and, because a process that reclaims removes the file of the
owner it has seen, that this owner is dead (`SawDead`). `raced` is not the negation of the
property: it speaks of one step, and an orderly reclaim by any number of contenders is covered. The other two are about the registry, and compare what
is persisted with what the daemon has in memory, which a crash empties and a boot fills again.
`RegistryInv` therefore follows a record through the write chain: what waits there, or is on disk, was said
by the process it names (`OwnedInv`), so a boot cannot attach a session to another's
process; and while the daemon is up, its session is live or resumable and its process,
if alive and not skipped by the last boot, tracked (`FoundInv`), so a write never puts on disk what a later prune
has already forgotten. The lemmas below it say what the ordered Map does: that `Map.set` and the
prune's deletion replace or remove the entries of a pid and nothing else
(`MapSet` and its neighbours), for maps of any length.

*Outbox.* `[]TypeOK`, `[]InOrderOnce`, `[]AtMostOnce`, `[]NothingLost`. The log's order is not
inductive: a late request may still arrive. `IInv` says that all batches, whether stored, queued or on the wire,
are disjoint intervals older than the buffer (`SealedInv`), that the file has them in order, and,
as long as the cap has evicted nothing, that a request on the wire is stored already or carries the head
of the file, and that what is stored, the head aside, is older than the file
(`FifoInv`). A repeated request of the head then meets the server's own check
of the localId, and the next one cannot be sent before the answer.

*MessageStream.* `[]TypeOK`, `[]NoHole`, `[]KnownIsNewest`, `[]RefetchDelivers` and the action property
`NoSilentDrop`. That the pages have no hole must be known of everything that may become
the pages: a response in flight, and the pages an older one will be joined to
(`SolidInv`). `RefetchDelivers` is about refetches that did not fail, and needs that no response
holds less than its refetch was started for (`FetchInv`), as long as no older page was asked for, which cancels
the refetch (see *Paging cancels a resync*). The greatest and
least elements that `Max` and `Min` choose exist because intervals are well ordered
by inclusion, which takes the library's theorem on finite subsets instead of an induction.

*HeaderStream.* `[]HeaderTypeOK`, `[]RefetchDelivers` and `NoSilentDrop`. The engines handle an event
one after the other, each on what the one before it left: the lemma
`Handled` says what becomes of the tab for any number of them. If the first one patches,
the second finds its tracker moved and refetches, and the others repeat that; if
the first one invalidates, so do all. It rests on every tracker being the snapshot's
counter (`Uniform`). What the fetch in flight has read is no older than what it was
started for (`ReadInv`: a row is read in its newest version, the counter counts every
change); what has been shown since an answer is no older either (`ShownInv`), because a patch is
one beyond a counter that is at least what is owed, and the fields it merges replace older ones
only. A patch that a second engine has made owed falls under the same two, since it restarts the read.

*TranscriptScanner.* `[]TypeOK`, `[]EmittedOnce`, `[]OnePass`, `[]FlushIsFresh`,
`[]TailMapped`, `[]DeadUnwatched`. `OnePass` needs to know whose pass it is: the only one there can be is the
one `promise` (or, in `cleanup()`, the final pass) names, and a flush that waits
waits for it (`Exclusive`). `FlushIsFresh` is not inductive
because a waiting flush has read nothing yet: `Fresh` says that what it wants is
processed or still in the file of a session that is followed, or, once its own pass
runs, in a read to come; it rests on the lemma that the followed sessions only grow but for
those whose file never appeared. `TailMapped` has the same argument for the final
pass of `cleanup()` (`Kept`). Both say nothing of the entries the very pass missed, because a read of
their file failed or a handler threw (`Miss`), and of nothing else: a failure in another's pass
changes no promise made to this caller. `EmittedOnce` is the equation of what was handed
on with what was processed and not marked as history, with the mark at any time.

Only model-checked, on the instances above: every liveness property of the runs
(`HandlersFinish`, `QueuedDelivered`, `ResyncSettles`, `EveryMessageReported`, `TakenIsSettled`,
`StaleLockGoes`, `CardCloses`, `Delivered`), because liveness under fairness is outside the
prover's reach; and the finding, which is a counterexample.

## What is not modelled, and why

Within the modelled parts: sealing and decryption (payloads are opaque), the 401
refresh inside a POST (it is one more failed or repeated attempt), log lines and
metrics, the rate limiter, `envelopeMapper.ts` (a map from entries to envelopes), `closeTurn` and `sendModeCycle` in
`ptyClaudeSession.ts`, the remote flow of `start.ts`, the four other session RPCs,
claim retention pruning (no delivery comes a week later), server answers that can
never succeed (a 404 of a deleted session is retried for ever, outbox.ts:172).

In the auth part: login, logout, relogin with another account and the second provider
that `resolveAccessToken` creates. In the row: the time stamps that make a session look
orphaned (any active row may look so), and the agent state, a second column
under the same compare-and-set. In the daemon: branch workspaces, approvals and
setup scripts of a spawn, the 14-day expiry of records, `--force-new-session` (it takes no lock),
`kvy resume`, more than one directory. In the bridge: the keystrokes that switch
the permission mode and the watchers of their echo, and the ACP handler of the remote flow.

In the claim store: a retry of a section that waits sees the lock after any delay, so the polling
interval is not there, and a lock file's age is only whether its owner was killed. That a section
fails to remove its lock file at its end is left out: what it leaves is what a kill leaves. In the web
client: the pages of one fetch are read at one moment, and React Query's retries of a
GET are its eventual answer or failure.

Whole components not modelled are listed in `PROJECT.json` with the reason. In short:
wire schemas and crypto have no behaviour TLC can explore; git, GitHub and file
operations are stateless wrappers; push is best effort; most of the web package is
rendering; the rest is in the plan.

## Plan

In order.

1. An abstract specification of a reliable, ordered delivery that `Outbox` implements as long
   as nothing is evicted, with the proof of the refinement.
2. `ModeLoop` and the ACP permission handler: no message lost across a switch of modes.
3. `DaemonLock` and the self-update hand-over: one daemon.
4. `RpcRouter`: at most one delivery and one answer per call, under what `SendClaims` assumes.
5. `Reducer`: the web's fold of envelopes, idempotent under replays, against a reference
   definition.

## Running it

    tlc -workers 2 -config Outbox_main.cfg Outbox
    tlapm ServerProofs.tla
