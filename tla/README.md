# Models of the kernel-images server

The repository builds browser images. Inside an image runs one Go server
(`src/server`): it serves an HTTP API, keeps the machine awake while there is
work, records the screen, runs processes and scripts, watches Chromium over
the DevTools protocol and publishes telemetry. This directory holds TLA+
models of its coordination logic, TLC configurations for small instances, and
proofs checked by TLAPS.

## Inventory

| Component | Source | State | Operations | What is hard |
|---|---|---|---|---|
| scale-to-zero switch | `lib/scaletozero/scaletozero.go` | `disabled`, `activeCount`, `pinned`, `reenableTimer`, the control file | `Disable`, `Enable`, `Pin`, `Unpin`, timer callback | timer callbacks that are late, failed writes |
| HTTP response holds | `lib/scaletozero/middleware.go`, `connection.go` | per request a hold and a drain; per connection state, generation, pending drains | middleware, `addDrain`, `activate`, `startIdleDrain`, `hijack`, `Close`, recovery, monitor | five goroutines race for a drain; every path must complete it once |
| recorder | `lib/recorder/ffmpeg.go`, `cmd/api/api/api.go` | `cmd`, `exitCode`, `exited`, `finalizeComplete`, `deleted`, the Oncer, the manager's map, the file | `Start`, `Stop`, `ForceStop`, `Recording`, `Delete`, `waitForCommand`, `finalizeRecording` | locks released in the middle, singleflight, a process that exits at any time |
| idempotent calls | `cmd/api/api/idempotency.go` | calls by key, finished keys, pending count, waiters, abandon timers | `Do`, `detach`, `run`, expiry | retries, abandoned calls, two bounds |
| event stream | `lib/events/ringbuffer.go`, `eventstream.go` | ring, sequence number, floor, byte count | `Publish`, `Read`, `TryRead` | eviction by two bounds, readers with gaps |
| telemetry | `lib/telemetry`, `cmd/api/api/telemetry.go`, the sinks of `lib/events` | session, categories, storage boundary, sink controllers | `PUT`, `PATCH`, roll-back, reconcile, `Start`, `Stop` | three mutexes, roll-back, stop that times out |
| managed processes | `cmd/api/api/process*.go` | process table, exit code, output log and budget | exec, spawn, kill, stream, retention | events in any order, shared budget |
| terminal attach | `cmd/api/api/process.go`, `pty_output.go` | replay ring, forwarder, attach flag | attach, forward, flush, detach | replay before live output before exit |
| browser REPL, Playwright | `cmd/api/api/browser_repl.go`, `playwright*.go`, `runtime/` | sessions, child processes, queues | execute, reset, restart | timeouts, child crashes, retries |
| CDP monitor and client | `lib/cdpmonitor`, `lib/cdpclient` | connection, sessions, capture state | start, stop, supervise, set telemetry | reconnects, three mutexes |
| browser surface | `lib/browsersurface` | windows, tabs, frames, sessions | events, attach, initialize, refresh | answers that pass events by |
| DevTools, ChromeDriver and WebSocket proxies | `lib/devtoolsproxy`, `chromedriverproxy`, `wsproxy`, `wsdrain` | current upstream, open connections, egress gate | proxy, switch upstream, drain | upstream changes under open connections |
| WebMCP, WebAuthn | `lib/webmcpclient`, `webauthnhook` | CDP sessions, pending calls | register, call, answer | calls that outlive their session |
| live focus | `lib/livefocus` | subscribers, the run and its connection, frames and their reports, the state published last | subscribe, linger, dial, scan, poll, emit | goroutines of a replaced run or connection still publish |
| Chromium configuration | `cmd/api/api/chromium*.go`, `display.go`, `lib/policy`, `chromiumflags` | files on disk, the supervised browser | configure, restart, upload | one step of several fails |
| input and computer API | `cmd/api/api/computer.go`, `lib/mousetrajectory`, `typinghumanizer` | what is held down, the pointer | move, click, drag, press, type, batch | cut at any command; curves and typos must not change the result |
| files, logs, metrics, system monitor | the rest of `cmd/api/api` and `lib` | little or none | request handlers | mostly I/O |
| fork identity | `cmd/wrapper`, `lib/forkidentity`, `cmd/api/fork_identity.go`, `instance_identity.go`, `main.go` | ready, payload and marker files, the environment, the hook | boot, arm, hand over, apply, resolve | two processes that share files, retries, a restart of one of them |
| image processes, runtime scripts, live view client | the rest of `cmd`, `runtime`, `images` | outside the server | | |

How they interact: every HTTP request passes the middleware, which holds
scale-to-zero off until the response has left the machine; recordings,
managed processes, REPL and Playwright executions take holds of their own that
outlive their request. Publishers (the API middleware, the CDP monitor, the
system monitor) send events through the telemetry session into the ring;
the SSE handler and the sinks read the ring. `PROJECT.json` lists every
component with what is modelled, and the hazards with the properties on them.

## Modules

| Module | Models | Composes |
|---|---|---|
| `DebouncedController` | the operations of `scaletozero.go`, one per method, plus the timer firing and its callback | |
| `ScaleToZero` | the controller with callers that balance their calls, and the pin API | `DebouncedController` |
| `WakeLock` | what the controller promises | refined by `ScaleToZero` |
| `DebouncedControllerProofs` | what each operation of the controller keeps, for the modules that compose it | |
| `ScaleToZeroProofs` | the theorems about `ScaleToZero` | `DebouncedControllerProofs` |
| `ResponseDrain` | the middleware and the tracked connections | `DebouncedController` |
| `Recorder` | `FFmpegRecorder`, the manager, the recording handlers | `DebouncedController` |
| `ResponseDrainProofs`, `RecorderProofs` | the theorems about these two | `DebouncedControllerProofs` |
| `Idempotency` | `idempotentCalls`: `Do`, `detach`, `run`, the abandon timer | |
| `PlaywrightExecutors` | `playwrightExecutorManager`, the execute, delete and shutdown paths | |
| `CallsProofs` | the theorems about `Idempotency` and `PlaywrightExecutors` | |
| `EventStream` | the ring, the publisher, readers, `StorageWriter` | refines `EventLog` |
| `EventLog` | what the stream promises its readers | |
| `Telemetry` | the session, `PUT` and `PATCH`, both sinks' controllers, shutdown | |
| `CdpMonitor` | the monitor's connection, capture revisions, page attachment, clean-up | |
| `DevtoolsUpstream` | Chromium under supervisord, and `UpstreamManager` | |
| `DevtoolsProxy` | `WebSocketProxyHandler` | `DevtoolsUpstream` |
| `ChromiumConfig` | uploads, `ChromiumConfigure`, flags and policies: commit, stop, start, readiness, roll-back | `DevtoolsUpstream` |
| `Display` | `PATCH /display` and the display part of configure, with Xvfb | |
| `Processes` | managed processes, their output log and its budget, streams | |
| `PtyAttach` | a terminal's ring and the sessions attached to it | |
| `BrowserRepl` | `browserReplManager`, custom tools, shutdown | |
| `WebMcp` | `invoke` and the event loop of the WebMCP client, `Send` and the read loop of the CDP client | |
| `BrowserSurface` | the tracker of targets, windows, frames and sessions, and `RefreshTargets` | |
| `ComputerInput` | mouse and keyboard actions and batches, as runs of `xdotool` | |
| `ForkIdentity` | the boot of the wrapper, the handoff to a fork, and who reads the identity | |
| `LiveFocus` | what live views are told of the focus: subscribers, runs, frames | |
| `BrowserSideProofs` | the theorems about `EventStream`, `Telemetry`, `CdpMonitor` and `WebMcp` | |
| `ChildProcessesProofs` | the theorems about `Processes`, `BrowserRepl` and `PtyAttach` | |
| `BrowserConfigProofs` | the theorems about `ChromiumConfig`, `Display`, `ForkIdentity`, `LiveFocus` and `BrowserSurface` | |
| `MC*` | small instances for TLC | as named below |

**DebouncedController.** The variables are the fields of the struct, the
control file, and one history variable. Each method holds `c.mu` throughout,
so it is one step, with `ok` for the error it returns. A timer is `free`,
`armed` or `fired`: between `fired` and the callback its goroutine waits for
the mutex and `Stop` no longer reaches it.

**ScaleToZero.** `holders` are the callers whose `Disable` returned nil and
that owe an `Enable` (`holdScaleToZero`, the middleware, `startProcess`).

**ResponseDrain.** Per connection: `pc` is net/http's goroutine, `drainers`
the `runIdleDrain` goroutines with the generation they were started for, `term`
the one goroutine that recovers or monitors the connection once it is closed.
`pending` is the request whose drain the connection tracks, `owned` the one
that was handed to recovery or a monitor. A hold ends when `handlerDone` and
`connectionDone` have both happened. Socket calls may succeed or fail, so every error path of
`connection.go` is a disjunct. `closing` is not a variable (it implies
`closed`), deadlines and outcomes are left out, and the step that takes drains
under `c.mu` also completes them: the hold is released after the abort in the
code, so the gap between them is one more moment with the hold taken. A
response that net/http writes without calling the handler (a malformed
request), and loopback requests, have no hold in the code and no bytes in the
model.

**Recorder.** `startPc` is the start request's progress through
`StartRecording` and `Start`, whose lock is released before `cmd.Start`;
`pc` the progress of the other requests and of `waitForCommand`. `cmd`,
`exitCode`, `exited`, `deleted` and `finalized` are the fields (`exitCode` has
its zero value, `exitCodeInitValue`, or a real exit code); `flight` and
`stopLeader` the two singleflight keys; `disableOnce` and `enableOnce` the
Oncer. `proc` and `file` are ffmpeg and its output. `remuxed` is a history
variable: it is set when a finalization of the dead process has ended, with its
flight, and not when the remux begins, so that `ServedAfterFinalization` covers
what happens while the remux runs. ffmpeg may create its output again after it
was removed, which allows more than a process that opens its output once. A
request that names the recorder before its start request has been answered is
possible in the code; `setup.patient` excludes it, which separates what holds
from what only a patient client gets.

**Idempotency.** `calls`, `finished` and `pending` are the fields of
`idempotentCalls`: the map by key, the list of keys in the order their calls
finished, the count of calls that have not settled. An entry of the map is an
identity in `Calls`, used again once nothing refers to it; its `phase` is how
far its goroutine is (`running`, then `ran` or `failed`, then `done`), and
`ctx` says whether its context is live, cancelled because nobody waits, or
over. A call's function and the deferred part of `run` are two steps, since a
caller can attach or leave between them; so are the select of `Do` and
`detach`. Every other section of `c.mu` is one. Time is abstracted: whenever
`expireLocked` runs, any prefix of the list may be past its retention, on top
of what the count drops. A timer is `free`, `armed` or `fired`, as in the
controller, and its callback finds out under the mutex whether it still counts.

**PlaywrightExecutors.** `executors`, `closed`, `child`, `target` and
`admission` are the fields. A life (the context a call runs under) is an
executor with the number of its restarts, so `end`, which replaces the context
of the default executor, is a higher number, and its `cause` says why a named
one ended. `pc` follows `Execute` from the lookup through admission,
`ensureChild`, `start`, `openTab` and `send`; each step between two sections of
`m.mu`, or two waits, is an action. A process group is `up` or `dead`, and
`killed` once it has been signalled, which `killOnce` does once; `watch` is the
life whose `context.AfterFunc` will kill it. A process that died and is not
reaped yet still passes for alive, so `EnsureChild` may go on with it. The
daemon is external: it runs the code, refuses it, reports the tab missing, or
dies. `Retire` and `CloseTab` belong to the executor rather than to the request
that asked for them, `Shutdown` retires in any order, and a tab whose creation
fails is not there. `retire` gives up waiting at its context's end (`Retire`
without the token); the history variable `gone` holds the executors for which
it did not, and whose tab could be closed.

**EventStream.** `seq` and `unstored` are the event stream's half of a
publish, the rest is the ring: `buf`, `latestSeq`, `bytes`, `floorSeq`. A
reader is a goroutine with its `Reader`: it reads, waits on the channel it took
under the lock, is woken, or ends; a `StorageWriter` also drains after its
context is cancelled. `got` and `missed` are history, and make the refinement
of `EventLog` possible: `latest` there is what the ring has stored, so an event
that is numbered and not stored yet is not published.

**Telemetry.** `session` holds the fields of `TelemetrySession`; `pc` is the
progress of a request through `monitorMu`, `storageMu`, the reconciliation of
the export sink and of storage, each under its own lock. What the locks are
held around is visible in `pc`, so they need no variables. `captured` records,
for every event, whether storage was on when it was published.

**CdpMonitor.** A switch of capture is a revision (`desired`); the worker makes
it `applied` after it has drained and cleaned up. Work that may publish late (a
handler, `telemetryWg`, the timer of a computed state) carries the revision and
the connection it began under; `stale` records that one of them published under
another. `obligations` are the pages that may still hold listeners of ours.

**DevtoolsUpstream, DevtoolsProxy, ChromiumConfig.** A life of Chromium is a
number and stands for its DevTools URL as well. `tail -n +1` re-reads the log
when the tail is restarted, so old URLs are announced again. `ChromiumConfig`
writes three `files`; what a life runs with is what the files held when it was
launched, plus what was loaded over CDP. A `supervisorctl start` runs in a
goroutine of its own and may land after its waiter has given up (`late`).

**Display.** `xvfb` is the size of the running server or 0, `override` is
`viewportOverride`, `conf` what supervisord has read. `resize` is the holder of
`xvfbResizeMu`, `background` the goroutines that wait for it. `want` is the
size that was granted last, by the response to a request. `supervisorctl` runs
through `ProcessExec`, whose answer carries no error when the command was killed
with its context, could not be started or overran its output; `resizeXvfb` takes
that for success. `Reread` and `RestartUnnoticed` are these commands: supervisord
may have any of the sizes and Xvfb may be as it was, stopped, or of that size.
`broken` tells a resize that failed in a goroutine, which keeps the override, from
one that failed in a request or without being noticed, after which nothing
remembers what was granted.

**Processes.** `loop` is the stage of `run`, `capture` that of each
`captureOutput`, `causes` what may still end the process early. `records`,
`allocated` and the shared `used` are the output log; `reader` is a cursorless
stream in `nextUnread`. `taken` and `lost` are history.

**PtyAttach.** Bytes are numbered by their place in the output. A session has a
forwarder, a writer, a reader, a watcher of the exit and the handler that waits
for them; `torn` records output that reached the client out of order, or with a
gap the ring does not explain. A single write is not larger than the window.

**BrowserRepl.** `admission` is the token; `stage` follows a request from the
queue through the end and the start of a process, the write of its code and its
answer. `daemon`, `offspring`, `socket` and `snapshot` are what the process and
its group leave for the next one to find.

**WebMcp.** The browser has the page with its frames, the `run` of each tool and
the `reply` to `WebMCP.invokeTool`; `events` is what it has sent and the client
has not handled. `waiting`, `completed` and `abandoned` are the client's maps; an
invocation's `stage` is how far `invoke` is, from the write of the command to
the select that ends it. An answer passes the events by, so a result may be
handled before its invocation is registered. `unseen` holds the invocations
whose page went before they were registered, when the client has nothing to mark,
and `dropped` those whose frame the client was told is invalidated; what
`FailsFast` promises to all others it does not promise to these (see
Observations). A write that fails is taken not to have left a whole command with
the browser.

**BrowserSurface.** `queue` is the order of events; the goroutines `attaching`,
`initializing` and `refresh` take the browser's state of the moment of their
answer and store it when they get the lock. Attaching is one sequence for pages
and frames, with the look at `trackingTarget` before and after the command.
`stale` is the one exception of `GoneIsForgotten`: a target that `RefreshTargets`
tracks after its end.

**ComputerInput.** An action is a `plan` of runs of `xdotool`, each with the
commands to do, those to undo, and the context either runs under. A run can be
cut after any command. Curves and typos are chosen freely within what the
generators can return, along one axis; nobody else moves the pointer. The part
`NothingHeld` is about actions that succeed, or that are cut while they follow a
curve or wait; of a drag along straight lines and of the first run of a drag or of
held keys it speaks only while the client is there, because these release under
the context of the request. It says nothing of the first run of a movement, of the
last run of a drag and of actions of one run, which have no release of their own,
nor of a release that fails by itself (`stuck`).

**ForkIdentity.** `bootStage` is how far the wrapper's `main` is, `env` its
environment, by whose values it has; `readyFile`, `payload` and `marker` are the
files, `name` and `post` the requests to hand an identity over, `apiLife` counts
the API's processes, whose memory (`hook`, `bound`) a crash loses. The stages
before the wait are explored for a template with and without an identity of its
own, and with what an earlier start has left behind. Each reader reads one file
after the other. `token` has a name and a JWT, since `resolve` falls back to the
boot values field by field: `TokenIsOwn`, a part of `ForkIsItself`, lets a payload
without a JWT show the one of the source of the snapshot under its own name, and
nothing else. Two handoffs at once share the temporary file of `WritePayload`; that
a rename takes what the other one is writing, or finds nothing, is left out.

**LiveFocus.** The page has frames that come and go and the focus in one of
them; `dirty` are those that have changed since their watcher reported.
`subs`, `latest`, `timer` and `run` are the fields of `Watcher` under its mutex,
and `channel` the channels of one slot. `runStage` is where the goroutine of each run
is; `poller` where the goroutine of each frame is on the current connection, and
`scan` the one that asks for the frame tree. A state that was taken under
`emitMu` is in `emits` until it is published; when its connection ends, it goes
to `draining`, from where it is published with a context that has ended. The
property is about moments at which every change has been reported: the state is
then the focus, if its frame is watched, and every frame is watched, unless
frames were replaced by as many others, or a scan has failed (`ScanFails`), since
the last one that did not (`missed`, see Observations).

**The MC modules.** `MCBrowserSide` (event stream, telemetry, CDP monitor,
proxy, WebMCP), `MCBrowserConfig` (configuration, display, input, browser
surface, fork identity, live focus) and `MCChildProcesses`
(processes, terminal, REPL) explore several components that share no state: the
first state chooses a `part`, and the others rest, so the state space is the
sum of the parts and not their product. A component with theorems is extended, so
that the run checks the very definitions the theorems are about; the others are
instances, under a prefix.

## Runs

| Run | Bounds | Shows |
|---|---|---|
| `scale_to_zero` | 3 callers, 3 timers, with and without cooldown | safety, liveness and the refinement of `WakeLock` |
| `recorder` | 2 recorders of one id with 2 patient clients; 1 recorder with 2 clients that may be early | what is served or deleted was finalized before; a patient client's recording keeps the machine awake; exits give the hold back |
| `recording_unheld` | 1 recorder, 2 clients that may be early | a stop before the spawn leaves ffmpeg without a hold (finding) |
| `response_drain` | 2 connections with 2 and 1 requests, 1 monitor slot | nothing undelivered without a hold; every hold ends; the connections compete for the slot and share the controller |
| `idempotency` | 3 callers, 2 keys, 2 fingerprints, 2 entries, 2 timers, 1 result kept, 2 pending | at most one run per key; only abandoned calls are cancelled, and they are |
| `playwright_executors` | 2 names, limit 1, 3 structs, 2 processes, 2 calls, symmetric | a name is deleted and taken again under its calls; no stray process, no second run |
| `playwright_restart` | the default and 1 name, 2 structs, 1 process, 1 restart | queued calls survive a restart; `DELETE` and `Shutdown` end |
| `playwright_kept` | 1 name, 2 structs, 2 processes, 2 calls | a call that never reached an executor is answered 200 and kept (finding) |
| `browser_side` | a ring of 3 slots and 4 bytes, 5 events of 3 sizes, 1 reader or writer; 2 requests, 2 events; 1 page, 4 revisions, 2 connections; 1 session, 3 lives, 1 restart of the tail; 1 invocation in 2 frames, 2 troubles | the stream implements `EventLog` and readers catch up; what is stored was wanted, export follows the configuration; capture that is off is off, switches are applied; no session stays on an old URL; a tool's result is not lost, a refused one did not run, a hopeless one fails, but for the two cases of `FailsFast` |
| `backlog_lost_on_stop` | the stream of `browser_side` | a writer that is behind loses its backlog when it is stopped (finding) |
| `browser_config` | 2 requests of 6 kinds and different contents, 4 lives for one and 3 for both; 3 sizes, 1 recording, 4 resizes; a screen 4 wide, 2 of 11 batches; 1 target, or a page and its frame, or 2 pages; 2 handoffs of 2 names, 3 lives of the API; 2 live views, 2 runs, 3 frames, 2 changes, 1 loss | the three files agree between requests; what is granted is served; Xvfb converges unless a resize fails; an action that succeeds did what it was asked and leaves nothing held down; what closed is forgotten and no window is left without tabs; a fork uses its own identity, but for a JWT it was not given; live views are told the focus in the frames that are watched |
| `child_processes` | 2 processes of 2 pipes, a budget of 5, 2 streams; a ring of 2 bytes, 3 bytes of output, 2 sessions; 2 requests, 2 processes of the REPL | output is complete or says why not, and delivered once, then the exit; one REPL at a time; processes and REPL requests end |

The bounds: two holders and two timers already show every race of the
controller (the third of each checks that nothing depends on a pair). Two
requests on a connection make the drain of the first stale, and the second
connection takes the only slot away. Two recorders of one id show a failed
start followed by a second one; two clients show a leader and a follower of
both flights and a delete between them. In `Idempotency` one entry runs while
another is remembered or settles, three callers make a waiter that leaves
while a second stays and a third comes, and two timers let a stopped one be
late while its successor is armed; its proofs need no bound. In
`PlaywrightExecutors` one call is inside and one queued; three structs are the
default one, a deleted one with its call still inside, and the one that took
its name. In `EventStream` five events overtake a reader of a ring of three,
and the sizes 1, 3 and 5 fit together, push others out, and do not fit at all.
Readers do not act on one another, so `OneReader` explores an SSE reader or a
storage writer, not both. Four revisions switch capture on, off, on and off,
and two connections make what the first one left stale. In `Processes` a budget
of five and a limit of four let a record be shortened by its own limit, by what
is left for everyone, and be refused; the constraint `Focus` of
`MCChildProcesses` leaves out what two processes do at once beyond sharing the
budget, and streams over a process that is being killed. Two attachments and a
ring of two bytes give a client a gap that is explained. In `ChromiumConfig` a
life is launched by the request, by its roll-back and by supervisord after a
crash; the `Focus` of `MCBrowserConfig` gives two requests one life less. Four
resizes of three sizes let two goroutines wait for Xvfb while a third size is
granted. In `WebMcp` two troubles are a page that goes while the caller or the
connection goes too. In `ComputerInput` the screen is four wide and curves may
leave it by one, with one bend; typos are two apart where the code keeps five,
so that a short text has two. In `BrowserSurface` a target has one session; one
target meets a refresh and a trouble, a page and its frame a trouble, and two
pages share and part windows. In `ForkIdentity` two handoffs of two names retry
or contradict each other, and the third life of the API reads what two crashes
have left. In `LiveFocus` one live view watches a page that changes twice, or
once while a connection is lost, and as long as it is watched; two live views
come and go over a page of one frame, with two timers and two runs.

`ResponseDrain` stops when the guest is terminated or every connection is
done, and the instances of the `MC` modules of parts stop when their events,
lives or requests are used up, so these runs do not check for deadlock. The
`Finished` step of `Recorder` stands for the idle server. Symmetry is used only
in runs without liveness properties, for callers, processes, names and structs
that the code does not tell apart.

For every property of a passing run `PROJECT.json` names a mutant of a
definition (a dropped guard, a missing reset, a late look) that the property
catches; the mutants stand next to the definitions they change. It also lists
the hazards, each at its line with the properties on it, and the findings.

### Findings

Each is the counterexample of a `violation` run; `PROJECT.json` quotes the
text it disagrees with.

- `recording_unheld`: a stop that comes between the registration of a
  recorder and the spawn of ffmpeg spends the recorder's only `Enable`, and
  ffmpeg records without a hold.
- `playwright_kept`: a keyed call that was queued when its executor was deleted
  is answered 200, which is remembered under its key although nothing ran.
- `backlog_lost_on_stop`: a storage writer that is behind when it is stopped
  reads on under its cancelled context, S2 refuses what it reads, and the drain
  that follows starts behind it.

### Observations

Seen while modelling, contained in the models as they are, and not claimed by
a run.

- A timer of the controller that fired just before a new hold stopped it calls
  back after that hold's release and re-enables scale-to-zero inside the new
  cooldown (`scaletozero.go:234`, against the comment at 126-129).
- A stop before `Start` has set `exitCode` sees zero, takes the recorder for
  finished and remuxes while ffmpeg writes (`ffmpeg.go:304`).
- Input that a client sends to a terminal that has just exited breaks the
  session, and the handler waits until the client closes (`process.go:766`).
- A refusal by a busy REPL process, and a failure to connect to it, are
  answered 200, and are kept under the idempotency key although no code ran
  (`browser_repl.go:674-677`).
- The group of a REPL process may be signalled after its leader was reaped
  (`browser_repl.go:242`, `368`), and the discovery file of a dead process is
  there until the next request.
- A restart of the tail announces old URLs again, which puts healthy proxied
  sessions off.
- A `supervisorctl start` that was given up on may land while the next request
  writes, and be taken for the start of that request (`late` in
  `ChromiumConfig`). An error of `stopChromium` leaves Chromium possibly
  stopped, and nothing starts it. A commit that fails after Chromium has
  crashed and come back in the middle of it leaves Chromium running with an
  extension that was rolled back, until its next restart.
- When the second of two recordings cannot be stopped for a resize, the first
  one gets no new segment, although `display.go:96-97` says that recordings are
  always restarted (also `chromium_configure.go:309-312`). A recording that
  starts after the fast path was taken is hit by the restart of Xvfb in the
  background.
- Releasing after a failure runs under the request's context in the end of a
  linear drag, in the start and the end of a drag, and after a failed press with
  a duration, so a cancelled request may leave a button or a key down
  (`computer.go:896-905`, `1115-1130`, `1160-1167`, `1218-1228`); a run of
  `xdotool` that presses and releases by itself may be killed in between.
- A client of WebMCP that is told that a frame is invalidated
  (`frames.go:282-284`) drops its tools and abandons nothing
  (`client.go:135-139`), so that the call of a tool in an embedded frame whose page
  navigates waits for its own deadline, although "the server reports
  tool_page_unloaded once the replacement document loads" (`openapi.yaml:1424-1425`).
  `FailsFast` excepts it (`dropped`).
- An event that a WebMCP client handles between the reply to `invokeTool` and
  the registration of the invocation is not seen by it, and it waits for its own
  deadline (`client.go:517-531`).
- A page that closes between the answer to `getTargets` and its tracking, while
  an attachment is under way, leaves a session and a tab until the next refresh
  (`targets.go:170-183`). Frames of a removed tab may be added by the late
  initialization of a session (`frames.go:200`), and subscribers may hear of a
  session's removal before they hear of it (`frames.go:45-52`).
- A handoff that was admitted before the marker of another one was written
  removes that marker (`fork_identity.go:50`), and nobody writes it again: the
  provider goes back to the identity of the boot, and a later life of the API
  finds no stream. If the second one has another name, the provider speaks for
  an identity that was not applied, since it does not compare the two files as
  the resolver does (`instance_identity.go:88-96`). `FilesStay` is about one
  request for that reason.
- A fork whose payload has no JWT shows the one of the source of its snapshot,
  under its own name (`instance_identity.go:96-101`, documented in 36-37), where
  the wrapper clears what the payload does not set. `TokenIsOwn` excepts it.
- A run of live focus that has been replaced may overwrite the connection of its
  successor, which `Blur` uses (`watcher.go:206-208`).
- Live focus looks for new frames when their number has changed
  (`watcher.go:526`): a frame that takes the place of another one between two
  reports of its page is not watched until the number changes again.
- A scan of the frame tree that fails, or is not answered in five seconds, is not
  repeated (`watcher.go:373-399`): if it is the first one, nothing of the page is
  watched, and the live view is told that nothing has the focus.
- `StopAll` holds the manager's mutex while it stops every recorder, which may
  take minutes (`ffmpeg.go:970`).
- A failure of `supervisorctl reread` is only logged, so a resize can be granted
  with Xvfb at its old size (`told` and `broken` in `Display`).
- When the client of a synchronous resize goes away, `supervisorctl` is killed with
  the context of the request (`display.go:174`, `chromium_configure.go:834`), which
  `resizeXvfb` takes for success (`display.go:358-369`, `383-393`;
  `process.go:163-169`, `195-199`): the override is cleared, so that goroutines that
  wait have nothing to apply either, and Xvfb keeps its old size or is stopped until
  the next resize, against "so Xvfb always converges to the latest requested size"
  (`display.go:408`). `XvfbConverges` says what is left: it holds unless a step of
  the last resize has failed in one of these ways.

### Fairness

Timers fire and a goroutine that waits for a mutex gets it (`sync.Mutex` is
starvation-free), hence weak fairness of timers, callbacks, drains, recovery
and the handlers' own steps. Nothing obliges a caller to release, the control
plane to unpin, a handler to return, a client to read or a recording to end;
only a killed process dies, and only a process that has exited is reaped. In
`Idempotency` only timers and their callbacks are fair: a call may run for
ever, and nobody has to come back. In `PlaywrightExecutors` every step of a
call is bounded by a deadline (start, tab, socket), so calls go on; the token
of an executor is a channel, which serves those that wait in order, hence
strong fairness of taking it; nobody is forced to give up, nor a daemon to
answer. In `EventStream` a publish that has its number stores its event, and a
reader that can go on does; nobody has to publish. In `Telemetry` the steps of
a request are strongly fair, since they wait for mutexes. In `CdpMonitor` the
worker, the goroutines of a page, late work and the supervisor that replaces a
lost connection go on: each waits on a mutex, a channel or a command with a
deadline; the browser may lose its connections as long as it likes within
`MaxConns`. In `DevtoolsProxy` Chromium comes back and announces itself
(supervisord restarts it), the tail is read, and a session takes its next step;
its connection to a Chromium that is gone need not break. In `Processes`,
`PtyAttach` and `BrowserRepl` the goroutines of the server go on, and a process
that was killed dies; in `WebMcp` events are handled and an invocation goes on,
while no tool has to respond; nobody has to exit, and a terminal client only has to
close once it was sent the exit.

## Proofs

`DebouncedControllerProofs` has what every user of the controller needs: `Disable`
and `Enable` keep its types and its flag in step with the file (`CtrlInv`), and if
the counter is the number of some set of holds, it is so again when one is taken
(`HoldTaken`) or given back (`HoldReleased`). The modules that compose the
controller each say what their holds are.

`ScaleToZeroProofs` proves, for any set of holders and of timers and any set
of cooldown configurations: `TypeCorrect`, `HoldersKeepAwake`,
`CounterIsExact`, `NoForgottenReenable` and `Refinement`. All rest on one
inductive invariant, `IInv`: the types, the exact counter, that the flag
agrees with the control file, that somebody holding or a pin means the flag is
set, and the reason for being awake while idle. None of the parts is
inductive alone: `HeldMeansAwake` needs the exact counter (a release must not
be taken for the last one) and the agreement of flag and file, and the reason
for being awake needs both. `Holders` may be infinite: that
those holding at a time are finitely many is part of the invariant. One lemma
per operation shows that the invariant is kept, and `NextIInv` puts them
together. The refinement shows that each step is a step of `WakeLock` or
leaves its variables alone; a failing `Disable` of a caller is a stuttering
step.

`CallsProofs` proves, for any keys, fingerprints, callers, entries and
timers and any caps: `TypeCorrect`, `RunsAtMostOnce`, `TablesAgree`
(`RunningIsFound` and `FinishedAgrees`), `CountsAreExact` (`PendingExact` and
`WaitersExact`), `AbandonedHasTimer` and the action property
`NeverCancelledUnderACaller`. The inductive invariant joins the types with
`TableInv` (which entries the map and the list hold, in which phases, and
without repetition), a bound on the list, `CountInv` (the counters are
cardinalities of finite sets) and `TimerInv` (whose timer is whose, and what a
timer that has fired may still find). The parts need each other: a counter
stays exact only because an entry leaves the map together with its place, and a
late callback is harmless only because a timer belongs to one entry that still
remembers it. The assumptions are the ones of the module: the placeholders are
not members of the sets they extend, and the caps are naturals.

It also proves `NoStrayProcess`, `RetiredIsQuiet` and the action properties
`RunsAsAnswered` and `RestartSparesQueued` for any names, executors, processes and calls. In `ExecutorsInv`,
a call that is past admission has the token of its executor and a life that has
begun (`TokenHeld`), so between the start of a process and the moment its life
watches it nobody else replaces or forgets it, which is what `NoStrayProcess` lives
on. An executor has one name, and one that is retired has none and an ended life
(`NamedOnce`), so nobody enters it any more once the call in flight has left. A call
whose code has run is on its way to its answer and not to an error (`RunOnce`), and
what is sent again after a missing tab has not run. That a restart spares the
calls queued on the default executor needs one fact more, `DefaultLives`: until the
shutdown its life never has a cause, since neither a failed set-up nor a DELETE gives
it one, so only its own caller makes a waiting call come back.

`ResponseDrainProofs` proves `UndeliveredMeansAwake` for any connections, any
number of requests on each and any number of monitors, and the types, which say that
the semaphore of monitors is neither exceeded nor released too often and that the
count of failed drains is never negative. `DrainInv` has one part for the three
counters, which count the holds, the monitors and the failed drains, and, for every
connection: a hold lasts until both of its events have happened (`HeldUntilBoth`);
the handler's is its return (`HandlersReturn`); the connection's has not happened
for the request that is tracked, taken over or not tracked yet (`Outstanding`); a
closed connection is left to one goroutine (`LeftToOne`); a drain of an earlier idle
period is not current, and one that saw the queue empty is still right
(`DrainsAreStale`); and what is queued belongs to a request that is tracked or taken
over (`QueuedIsTracked`). The theorem follows from the last and `Outstanding`, and
none of the others can be left out: it is because a stale drain is never current
that a completed request has left nothing in the queue.

`RecorderProofs` proves `PatientRecordingKeepsAwake` and the action property
`ServedAfterFinalization` for any recorders, clients, timers and setups, and the
types, which hold with impatient clients too. `RecorderInv` counts the holds: a
request's from its arrival to its answer, and a recording's from a `Start` that
worked to the first `Enable` of its Oncer. That an `Enable` gives back a hold that was
taken needs to know who may call it: a client that waits for the answer names a
recorder whose `Disable` worked and whose process was started (`StartedAs`,
`ClientInv`), and it gives the hold back with the process killed or dead
(`Releasing`), as `waitForCommand` does (`RunsAs`). The run `recording_unheld` shows
what happens without the first. `FinalizedAs` says that a flight is only led for a
process that was reaped, so that what it caches is a remux of the whole recording,
and that whoever has looked for a finalization "pending or in progress" and found
none has it behind: an opening and a deletion happen with the flight idle
(`OpenedWhenSettled`, `DeletedWhenSettled`).

`BrowserSideProofs` proves, for any capacity, byte budget, sizes and readers, that
the stream implements `EventLog`, the log in which nothing is ever overtaken: each
step is a step of the log or leaves it alone (`StreamImplementsLog`). The
invariant, `StreamInv`, says that numbers are given out one after the other, that
the two evictions never pass the newest envelope, and that every number above both
is in the slot it maps to. That last part (`RingHolds`) is what a reader relies on
when it indexes the ring, and it holds because two numbers less than a capacity
apart have different slots (`SlotsDiffer`).

It also proves `StoredWasWanted` and `ExportConverges` for any requests.
`TelemetryInv` joins who may hold which of the three locks (`OneHolder`) with what
each sink relies on. For storage: since the session's boundary every event was
captured for it, and once there is a writer, or one is being opened, nobody turns
storage off, not even by a roll-back (`RollbackKeepsStorage`), which is why the
writer's older boundary stays true across sessions. For the export: whoever has
changed the configuration will read it again, and when nobody has, the one about to
apply it has read the last one (`ExportFollows`).

And it proves `CaptureIsClean` for any targets and any number of switches and
connections. `MonitorInv` says what may publish while the worker does what: a handler
or an asynchronous publication is of the capture that is applied, a timer that is armed
or has checked is of this revision and this connection, and all of them are over when
the worker cleans (`WorkerAlone`, `WorkIsCurrent`). Between two connections nothing of
the old one is left (`NothingBetween`), so that a timer or an answer that comes late
finds a revision or a generation that is not its own. For the pages, every listener is
remembered as an obligation until it is removed, and capture is called off only when
none is left on a page that is ready (`PagesAreKnown`).

And it proves `RefusedDidNotRun` and the action property `ResultIsKept` for any
invocations. `AsWasAsked` says what an answer tells about the tool: one only runs whose
command was accepted, and a call that is refused or not found has either written no
command or has been told that it did not start.

`ChildProcessesProofs` proves `NothingLostSilently` and `DeliveredOnce`, and, beyond the
runs, that the streams take the exit after the last record (`ExitIsLast`). A loss is
known either to the capture that failed or from `truncated`, and `run` counts every
capture before it reports an exit (`LossIsNoticed`); the streams have taken the
numbers up to the position, and a claim of the exit is of a log that cannot grow
(`ReadersKnow`). Both limits are part of the types: no log and not all of them
together allocate more than the budget.

It also proves `OneRepl` and `RefusedDidNotReach` for any requests and
any number of processes. `ReplInv` says which of the requests, the shutdown and
nobody holds admission, that every process but the current one is gone and the
discovery file is either its own or removed before the next one starts, and that
the code a process runs is the holder's; `RefusalInv` adds that a handler writes its
code before it answers, and that one that has written it does not answer 500.

And it proves `OutputThenExit` for any window, channel and number of sessions.
`PtyInv` lines up what a client has got, what is in the channel, what the forwarder
has copied and what it will copy, each following the one before with no gap but what
the ring has overwritten (`ChannelInOrder`, `ForwarderInOrder`). It holds while the
session has a writer, and needs `OneSession`: the forwarder of the session before has
left when the next one takes the sink. The exit is last because a flush that found
everything sent found a forwarder with nothing in its hands (`AllSent`), and the
process writes no more.

`BrowserConfigProofs` proves `XvfbConverges` for any sizes, recordings and requests. With
the two mutexes (`OneEach`), `DisplayInv` follows a grant from the override it
writes to the restart that applies it: the override is what is wanted, what a resize
has told supervisord the restart carries through (`ResizeFollows`), and an override
is pursued by the goroutine that resizes or by one that waits to
(`OverrideIsPursued`). What the theorem cannot promise after a step that failed, or
passed for done, is what `broken` is in its statement for.

It also proves `ForkIsItself` for any identities, payloads and requests,
finitely many of the latter, since an infinity of them could take a file back for
ever (`FilesStay` counts those that asked). `ForkInv` has two cases. A machine that
waits for no identity turns every request away; on one that does, the API starts
late (`ApiIsLate`), the files name what a request has brought (`FilesNameIt`), one
identity is taken and stays (`TakenOnce`), what a life of the API remembers comes
from it or, for a field the payload does not set, from the boot (`MemoryIsOwn`), and the services run with it before anybody is told so.

And it proves `FilesAgree` and `GrantedIsServed` for any requests and bodies, equal
contents included, and any number of lives of Chromium. `FilesInv` says what the one
request with the lock has added to what stands: nothing before it writes, all or
nothing of each file while it does, all afterwards, or nothing again after a
roll-back; and that it can still be rolled back (`CanRollBack`: the snapshot is what
stands, and the name of the extension was not taken). `ServedInv` adds what a restart
has to carry from the stop to the answer (`RestartOf`): whoever has stopped Chromium
and is well finds a life later than that one, launched with the files as it wrote
them, or by a start that had been given up on. That those granted earlier stay served
needs the first: what stands is in the files at every moment, also in the middle of
another's roll-back (`StandingIsThere`), so that a crash at any moment brings back a
Chromium that has it. The assumption on the bodies (`BodiesAssumption`) is that a
request writes one transaction. A configure that brings policies and extensions or
flags of its own is several of them, and the code keeps those before the one that
fails; `FilesAgree` does not hold of it, and it is not modelled.

And it proves `FocusIsTrue` for any frames, live views, runs and timers. `FocusInv`
says that a report is the truth until the page changes again (`ReportsAreTrue`); that
one goroutine publishes at a time, and that either what it has taken is what all of
them know, or another one is about to publish, so that the last one to take has the
latest word (`OneEmits`); and that every frame the page is known to embed is watched,
or in a frame tree, or a scan is still to come (`FramesAreFound`, which is where
`missed` is needed: a scan that fails ends it). What is said of the frames that are
watched does not need it. A connection that is over leaves nothing for the next one
(`LinkGone`). The reports are strictly ordered by their numbers (`NewerIsAnOrder`), so
of finitely many one is the newest (`MergedIsAState`, from the well-foundedness of the
naturals): `merge` always has an answer.

And it proves `SurfaceSettles` for any pages, windows and bounds. `SurfaceInv` goes
from what the browser does to what is known of it:

- the browser: a session is attached only to a target that is there, and what an event
  says was true when it was sent (`BrowserIsSound`); what tells of a target comes
  before its end (`DestroyedIsLast`); a session that is known, waited for or worked on
  has been issued (`NumbersAreIssued`), so a new one meets nothing that is left of it;
- targets: what is tracked, listed or has a tab is there or was (`TrackedWasThere`),
  and once the end of a target has been handled it is not tracked and has no tab,
  unless `RefreshTargets` was late (`GoneIsQuiet`);
- sessions: a session is added by its event and by its answer, once each, and when both
  are still to come it has no goroutine (`AddedOnce`); one that is new has a goroutine
  that goes after it (`NewIsPursued`); as long as its page is there, it has the tab of
  the page or none (`TabsAgree`);
- a session that the browser has detached and that is or may yet be known
  (`DetachedGoes`) never gets its frames while its target is there; while the end of
  its target waits, its own end waits behind all that could give the target a new tab,
  or the tab it has goes with the target; after that only the goroutine that is about
  to look at `trackingTarget` again keeps it.

The last is what the second look in `attachTarget` is for: an answer that is stored
after the end of its target finds no later event to remove it. That look reads
`trackingTarget`, so it needs `GoneIsQuiet`, and `stale` is where that fails. Windows
need no more than that none is numbered 0 (`WindowsAreReal`), which is how a tab says
that it has none.

The other assumptions are the ones the modules state: bounds and sizes are
naturals, and a placeholder (`Nobody`) is not a member of the set it extends.

`NoForgottenReenable`, `TablesAgree`, `CountsAreExact`, `RingKept` and `ExitIsLast`
are proved and not checked by a run: they are parts of the invariants above.

Checked by TLC only: liveness (`EventuallySleepable`, `EveryHoldEnds`,
`ExitReleasesHold`, `AbandonedIsCancelled`, `RetireEnds`, `ReadersCatchUp`,
`RequestsEnd`, `SwitchesAreApplied`, `StaleSessionsEnd`, `FailsFast`, `CallsEnd`),
which is out of the prover's reach here. That the shared budget is the sum of what
the logs hold needs an induction over a finite set, which is out of its reach too.
The plans of `ComputerInput` are sequences computed by folds from a curve or a text
(`FlattenSeq`, `FoldLeft`, `SelectSeq`): that the steps of every curve add up, or that
every typo is corrected, is an induction over that data, and stays with TLC.
It is the only module whose safety is not proved, and `InputEndsWell` the only
invariant of a passing run without a theorem.

## Plan

Next: several pages and the frames with a session of their own in `LiveFocus`, the
sessions with a parent and the lookups in `BrowserSurface`, and the file system API,
whose requests keep no state but write what the recorder and Chromium read.

## Not modelled

- Contents: commands, scripts, media, events' payloads, request bodies,
  validation and formatting. The models keep identities and order.
- Time as a quantity. A timer or a deadline passes at some moment; that a
  cooldown is as long as configured, or that a retry is spaced, is not said.
- The Go runtime below a mutex, a channel and a context, and the memory model.
- The programs outside the server: Chromium, Xvfb, ffmpeg, the daemons,
  supervisord and the control plane are what the server sees of them.
- Signals that a client sends to a managed process, and what it writes to
  standard input: they change nothing that the modelled state depends on.
- Files, logs, metrics and the system monitor: each is a request that does its
  I/O and keeps no state between requests.
- The generated API (`lib/oapi/oapi.go`, almost half of the lines of the
  implementation): decoding and routing without state of their own.
- The rest of each component that `PROJECT.json` calls partly modelled, with
  what is left out; and the components it calls not modelled, with the reason.
