# Panthera speech: a verification project

TLA+ models of the parts of panthera-speech where threads, processes and
waits meet, and of the libraries it stands in for, checked by TLC on small
instances, with theorems checked by TLAPS for instances of any size. Paths are
relative to the repository; `serve.c`, `gcd.c`, `cf.c` and the like stand for
`src/tiger_host_*.c`, `plat_posix.c` for `src/tiger_plat_posix.c`; the Python
files are under `panthera/addon/synthDrivers/_panthera/` and the Kotlin ones
under `src/platforms/android/app/src/main/kotlin/com/pantheraspeech/tts/`.

## The system

The program runs Apple's MacinTalk engines (10.4 to 10.7) outside Mac OS X. A
**host process** maps the engine, answers the calls it makes to libSystem,
CoreAudio, CoreFoundation and libdispatch, and serves requests on a pipe. An
**NVDA add-on** in Python keeps the host processes and turns NVDA's speech
sequences into requests and the responses into audio. The same host is also a
DLL (used inside NVDA's 32-bit bridge and by the SAPI driver), an Android
library behind one worker process per engine generation, and a command line.

```
NVDA main thread --speak/cancel--> queue -> worker -> audio queue -> feeder -> player
   (SpeechQueue)                              |  ^                               |
                                   request    v  | response             callbacks
   (HostPool)       current host, standby, retirement threads
                                              |  |
   (HostServe)      serve loop <- buffer <- pacer <- completion queue <- engine
                                                                          |
   (DispatchSources)             timer sources, their threads, a serial queue
```

| part | state | operations | what is hard |
|---|---|---|---|
| Serve loop and pacer (`serve.c`, `audio.c`) | the audio buffer, `g_utt`, the bounded completion queue, cancel event, the 1 ms timer | read a request, reset, speak, wait, stream, cancel, settle, drain, answer; schedule, queue, collect, complete, reset a slice | three threads and a client; every wait has a bound; the pacer's callback is the engine's only clock |
| Host pool (`host.py`) | `_proc`, `_standby`, `_rendering`, `_renderSeq`, `_retiring`, `_restartWanted`, `_stopped`, `_streaming` | start, render, fail, retry, abandon, retire, refill, restart, terminate | plain attributes shared by any number of threads, one lock, processes that die or never answer |
| Speech queues (`speech_pipeline.py`, `pantheradriver.py`) | two queues, the epoch, the player's lock, marks and their generation | speak, cancel, join, render, feed, report an index, report done, terminate | a cancel between any two steps of two threads and of the player's callbacks |
| Dispatch sources (`gcd.c`, `gcd_queue.c`) | a table of 256 slots, a thread per source, the serial queue | create, set timer, resume, cancel; fire, deliver, clean up | slots reused while their thread leaves; cancels from inside handlers |
| Positioned markers (`markers.c`, `serve.c`, `marker_pipeline.py`) | marker list, frontier, epoch | begin, queue samples, notify, stream, end | calls of an earlier request still under way; positions against a buffer that is still growing |
| DLL session (`api.c`, `dllhost.py`, `bridge.py`) | open thread, pipes, wedged flag | open, alive, close | half-open and wedged sessions |
| Android (`PantheraTtsService.kt`, `PantheraEngine.kt`, `PantheraRequest.kt`, `PantheraWorkers.kt`, `PantheraWorkerService.kt`, `tiger_host_jni.c`) | the current request, connections by generation, the worker's opened state, stop flags | synthesize, stop, attach, start, pull, finish, retire, restart | stop at every step of opening, starting and finishing; a worker whose fate is undecided; Binder death |
| Android storage (`ProtectedStorage.kt`, `ZipImport.kt`) | folders and their staging copies | move, import | failure between steps |
| Loader (`macho.c`, `dyldinfo.c`) | guest memory, slides, bindings | map, relocate, bind, initialise | two formats of fixups over images that may move; names looked up in the right image |
| Shims of threads (`shims.c`, `cxx.c`) | the table of native locks, message queues, tasks | lock, wait, signal, notify, wait on a queue, end a task | first use by two threads; a condition and its mutex; queues at their limit |
| POSIX platform (`plat_posix.c`) | handles with a mutex, a condition and references; reservations | wait, signal, close, start a thread; reserve, map, release | Windows semantics built of conditions; who frees; addresses below 4 GB |
| CoreFoundation, SQLite, regex tables (`cf.c`, `sqlite.c`, `regex.c`), Blocks (`gcd.c`) | reference counts, graveyard, boxes, slots | retain, release, compile, look up, free | several atomic operations to one release; tables at their limit |
| AAC converter (`aac.c`) | one decoder, its backlog, what is owed | refill, drain, trim, take | a decoder that holds frames back; two interfaces over one converter |
| Numeric kernels, regex matcher, numbers, calls and formats (`accel.c`, `linalg.c`, `regex.c`, `numbers.c`, `uc.c`, `files.c`) | none | pure functions | compared with reference definitions |
| Emulation seam (`uc.c`) | arena, stacks, regions, an emulator per thread | allocate, map, enter the guest | every emulator must map the same |
| Text preparation (`text.py`, `pantheranumbers.py`, ...) | none | pure functions | strings |
| Data manager, disc readers, settings, SAPI, front modules | files, dialogs, COM | I/O | I/O |

`PROJECT.json` lists each part with its status, and, at its line, each
hazard of the code that a test would hardly reach, with the properties that
watch it or the reason none does.

What makes each part correct, in a sentence: a response carries all of its own
utterance's audio and nothing else; a process is never leaked, never taken
from an utterance that was wanted, always has the settings asked for; NVDA is
told of every index and every end, in order, and hears nothing it cancelled; a
source's slot is its own until its thread and its handlers are gone, every
timer fires and every cancellation is told; a session, a worker and a handle
have one owner at a time; and a stand-in does what the library it stands for
promised the engine.

## The modules

One module per part; a module `MC...` extends or instantiates it for TLC and a
`.cfg` gives the constants. Where a definition has the source's name it is that thing. Each
module's header says what it leaves out. Operators that stand beside a
definition and bear a name of what goes wrong (`RoomOffByOne`, `LosesDone`,
`ReusesUnpublished`, ...) are not part of the specification: each is a
plausible mistake in the code, and putting it in the place of its neighbour
makes TLC refute one property.

### HostServe

One request at a time: `ServeReceive` to `ServeTail` follow `serve()` from the
read of the magic to the end of the response, a step ending wherever another
thread may come between. `ServeReset` empties the buffer and only
`ServeBump` advances `g_utt`; so late slices may fall between them. `PacerTake`,
`PacerDecide`, `PacerCollect`, `PacerComplete` are `pacer_thread`, one step per
lock it takes or touches; `EngineSchedule`, `EngineQueue`, `EngineDrop` are
`take_slice` and `queue_completion`; `EngineReset...` is `AudioUnitReset`,
which waits for the pacer. The engine is Apple's: it may make another slice
while it has room in its ring, enter and leave a dispatch callback, and finish
when it likes, or never.

A slice carries the utterance it was made for. The code does not have that: it
has the tag put on at queueing, and the properties compare the two. Time has no
measure: a wait named in `Deadlines` may expire at any point and the history
variable `outlasted` records that it did so while work remained. `MCHostServe`
runs it on two small instances, one in each behaviour.

### HostPool

Every `with self._procLock` body is atomic except where it starts or stops a
process, where the model holds `lock` across steps (`HostEnter`,
`HostDiscard`, `HostChoose`, `Start`). The attributes outside the lock are read and written in separate steps:
`WorkerBegin` raises `_rendering`, `WorkerWrite` counts `_renderSeq`; a
retirement thread reads them in `TimerWatch`, prepares a standby, reads them
again in `TimerRecheck` and only then takes the lock in `TimerSwap`. A process
becomes ready, answers, ends its response, refuses `TGR4`, crashes, or does
nothing at all; `Faults` says which failures a run has. What the process does
inside is HostServe.

### SpeechQueue

`worker`, `feeder` and `main` say where each thread is; `Take` and `Stamp` are
apart because the code reads the epoch after the `get`; `Sink`/`SinkPut` and
`LookAudio`/`Feed` are apart because the epoch is checked before the put and
before the feed. The joiner (`JoinMore`, `JoinWait`, `HandsBack`, `Joined`) is
present when `Joining`. `cancel()` is six steps, `terminate()` the same and a
sentinel. The player is NVDA's: it plays what it was fed, may call back when a
piece has been played, late or never, and `idle()` returns when it has nothing
left. Rendering is HostPool; here it yields its chunks.

### DispatchSources

`Claim`, `AwaitSlot`, `Refuse` are `dispatch_source_create`; `Reusable` is the
scan's test of a slot, `Choice` the slot it takes. `Spawn` and `Publish` are
the two halves of `dispatch_resume`, between which the new thread may already
have run, fired and been cancelled. `Cancel` and `Retire` are the two halves of
`dispatch_source_cancel`, under the pool lock. `Top` to `End` are
`source_thread`; `Deliver`, `Take`, `Enter`, `Return` the delivery through
`source_queue_thread`. `Expire` is a wait that ends by its time, and `armed`
is cleared in the step after it, so a timer may be set between the two; the
history variable `due` says what became of the last time a timer was set for,
`"wiped"` if it was taken with an older one. `Occupied` is how many slots of the
table sources outside the model have. Calls are made by an engine thread and from inside the
handler the serial queue is running. `HostServe` sees this module only as
`inCall`, the count of deliveries in progress, and as `deferArm`.

### The threads of the host: GuestSync, PlatPosix, WinHandles, DllSession

`PlatPosix` has a mutex, a set of sleepers and a reference count per handle;
`Call`, `Enter`, `Take`, `Sleep`, `Awaken`, `Leave` are the loop of
`WaitForSingleObject`, in which a wait may wake for nothing (`Rouse`) or at its
time (`Expire`), and `TrampLock` to `TrampUnref` are `thread_trampoline`.
`WinHandles` is the abstract specification: a wait takes its signal in one
instant or times out. `PlatPosix` implements it under the mapping `Waiting`,
liveness included (`WaitsAreWindows`).

`GuestSync` runs on such handles. `FindMutex`/`EnterMutex` are apart because the
side table is looked up under its own lock; `CondWait` to `CondBack` give back
and take again the guest's mutex; `Put`/`Release` and `TakeUnit`/`Dequeue` are
the two halves of `sh_mp_notify_queue` and `sh_mp_wait_on_queue`, whose
semaphore and ring are not touched together.

`DllSession` is `pt_open`, `pt_close`, `pt_alive` and `host_thread`. A session
may fail to come up, be hung up on, or have a render that never ends. Bringing
the engine up (`HostOpen`) may not return either: `pt_open` waits for it without
a bound (`api.c` 292; 161-167 speak of such a case), so it returns only if
the engine comes up or fails to.

### Android: AndroidRequest, AndroidSpeech, ProtectedMove

`AndroidRequest` is the service's side. `StopFlag`, `StopRead` and `StopCancel`
are `onStop`, which sets a flag, reads the current request and cancels it;
`Enter` to `Release` are `onSynthesizeText` inside `withSynthesis`, one step per
remote call or synchronized method; `Look`, `WorkerStop`, `WorkerFinish` and
`Retire` are the work of the `panthera-cancel` thread. A worker may die at any
moment. `AndroidSpeech` is the other side of the remote calls: `SpeakStart`,
`Pull`/`Answer`, `Stop`, `Finish` and `Settle` of `jni.c` against the engine's
slices and the pacer. `render_complete` is both halves of `jni.c` 361: the
notification of an end (`g_stopped`), and the disarming of the timer behind the
last slice (`g_defer_arm`), which is all that Lion's engine does. The engine may
announce an end before its last slice; the history variable `early` has
the requests of which it did.

`ProtectedMove` is `ProtectedStorage.move` and its caller: copy, `Verify`,
`DropLive`, `Rename`, `DropSource`, any of which may fail or be cut short by a
kill, after which the next start begins again if the engine is still outside.
`DropSource` is file by file, in any order, and its result is not looked at.

### The stand-ins for libraries

| module | code | abstraction |
|---|---|---|
| `CoreFoundation` | `cf.c`: retain, release, graveyard | objects are numbers; a release is its atomic operations |
| `Blocks` | `gcd.c`: copy, dispose, release, assign | a block captures a `__block` variable, another block, or nothing; an allocation may fail |
| `RegexTable`, `SqlHandles` | `regex.c`, `sqlite.c`: tables of handles | one call at a time under a lock |
| `AacConverter` | `aac.c` | a sample is the pair of units it was decoded from, so a seam is another sequence |
| `GuestMemory`, `PlatMemory` | `uc.c`, `plat_posix.c` | sizes in units of the alignment, and in pages |
| `Markers` | `markers.c`, `stream_markers` of `serve.c` | a frame is its number in its request |
| `Loader`, `DyldInfo`, `LoaderImages` | `macho.c`, `dyldinfo.c`; the images and encoders of the instance | words of guest memory; addresses wrap at `Word` |
| `Regex`, `Numbers` | `regex.c`, `numbers.c` | text as sequences of characters, recursive operators |
| `Accel` | `accel.c`, `linalg.c` | exact arithmetic in a field with roots of unity |
| `GuestCalls`, `Preferences` | `uc.c`, `files.c`, `cf.c` | an argument is the words it is made of; a byte has `Byte` bits |

`MCAlgorithms` states the pure ones against reference definitions: the set of
words a pattern matches, computed from its tree; what a number says, computed
from its words; the discrete transform by its sum; the Pascal-to-C layout of
arguments from each shim's declaration; the meaning of each symbol from the
table an image was built from.

### How they compose

SpeechQueue's `Render`/`SinkPut` is one HostPool render, whose `Answer`,
`Chunk`, `ResponseEnds` are one HostServe request. The two seams are the
assumptions each module makes of the next and the property that the next
proves of itself: HostPool lets a process not answer at all, which HostServe's
`EveryRequestAnswered` says happens only when the process has ended or the
engine keeps scheduling; SpeechQueue lets any render end early. `Markers` is
what a `TGR5` request of HostServe adds to it. `AndroidRequest` lets a worker's
finish leave it rendering; `AndroidSpeech` shows where that comes from, a settle
that gave up. The shims of `GuestSync` rest on `WinHandles`, which `PlatPosix`
implements. No module assumes fairness of the one below.

Three modules run several parts side by side, one part in each behaviour (and
`MCHostServe` two instances of one):
`MCPools` (HostPool, AndroidRequest), `MCThreads` (PlatPosix, GuestSync,
DllSession, DispatchSources) and `MCLibraries` (the stand-ins, AndroidSpeech,
ProtectedMove). What `MCLibraries` has of state is in `StandIns`, which no
recursive operator reaches, so that theorems can be stated of it. A property
there is the conjunction of properties of the parts it names; each conjunct speaks of one part's variables, which the other parts'
behaviours leave as they start.

## The runs

All run with two TLC workers. Only `pool` uses symmetry, of its two retirement
threads, which the code never tells apart; elsewhere the identifiers are numbers
the code compares.

| run | question | bounds | states |
|---|---|---|---|
| `serve` | a response carries its own audio, all of it, completed once, on a held timer; every request is answered, and the pacer always comes to rest | streamed or not, 1 request of up to 3 slices or 2 of 1 slice, engine ring 2 over a queue of 1, windows of 1 tick, a cancel anywhere, every wait but the 9 s cap may expire | 0.85 M |
| `serve_stale` | finding 1 | one drain that gives up | violation |
| `pool` | no process is leaked; one in use is taken only by its own render or by a restart; streaming survives retirement | 2 utterances, 2 cancels or a cancel and a change of setting in any order, 2 retirement threads, 2 processes that may crash, refuse or fail to start | 1.6 M |
| `pool_live` | a render has the settings promised to it; a cancellation decides about its own request's worker and no other; watched renders end; what is told to stop stops | add-on: 2 utterances, 1 cancel, 1 setting, 3 processes that may never answer; Android: 3 requests, 1 stop, 2 workers that may die | 0.2 M |
| `android_stop` | finding 5 | 2 requests, 1 stop, 1 worker that may die | violation |
| `pool_wanted` | finding 2 | as the add-on of `pool_live`, no setting | violation |
| `queue` | what a cancel lets through, the order of indexes, audio and done, and that what NVDA waits for comes | breathing on and off, 2 utterances of 1 chunk, 2 cancels, joins of 2 | 0.4 M |
| `queue_order`, `queue_stale` | findings 3 and 4 | breathing on, 3 and 2 utterances | violation |
| `threads` | handles implement their abstract specification; locks, queues and sessions; a slot is one source's, timers fire, cleanups come, a revoked event does not run | 3 callers and 1 handle, one call each; 2 engine threads, 1 mutex, a ring of 2; 3 sessions; 2 sources in a table of 2 slots of which 1 may be taken, 2 timers set, both kinds of queue, once and periodic | 0.1 M |
| `libraries` | the stand-ins do what their libraries promised; the staged move lets nothing go unproven | see `Libraries.cfg`: subjects of 2 characters, texts of 4, 4 images with all their formats, 3 objects in a graveyard of 1, 2 streams, 2 threads in one arena, 2 Android requests of 3 slices, 3 files and 1 kill | 0.5 M |
| `move_again` | finding 6 | 3 files, 1 kill | violation |

**Why these bounds are enough for what they ask.** Each hazard needs a small
number of actors: audio bleeding needs two utterances, and a queue that is
full needs a ring larger than the queue; two retirement threads are the most
the double clearing of `_retiring` can make over two renders; a joiner that
hands back needs one utterance in hand and one behind it; a slot is contended
by two creators when there are fewer slots than sources, which one taken by
another source makes of two, and a revoked event needs a second source on its
queue and a slot for both; a signal is stolen by a third caller; a
message is out of step with its unit between two waiters; a session meets the
one given up on when a third is opened; a worker is killed under a later request
when there are two requests and a second worker; a seam is where one unit
overlaps another of the same or the next stream, and a decoder's delay of 3
samples over units of 2 is longer than a refill, as 2112 over 1024 is; a
graveyard of 1 is full with every release. The grammar of patterns is finite in
depth: every operator over every leaf and one operator within another. Numbers that
measure time (30 quiet ticks, 50 spins, 15 settling polls) are 1 or 2: longer
windows only remove behaviours from the untimed model. `Cap`, `MaxReq`,
`MaxItem`, `MaxCancel`, `MaxMade`, `MaxArm`, `MaxProc`, `MaxSetting` and the other
constants that begin with `Max` are the bounds of the runs, each named by a
guard. The 900 ticks after which a render is given up on are not one of them: no
run counts so far, and what would come of it is seen in the other waits that
expire. A call into the engine that HostServe makes is taken to return; one that
does not leaves the process to its client, which is HostPool's. The theorems of the
modules `..._proofs` hold for every value of those constants that their
assumptions admit.

**Deadlock** is checked wherever the system ends in a named state (`Gone`,
`Closed`, `Rest`). It is not in `threads`, `libraries` and `move_again`: an engine
that makes no more calls leaves its threads waiting, which is how the program
rests, and an algorithm that has answered and a move that is done are over.

**Fairness** is weak and of our own threads only. HostServe: the serve thread
and the pacer, which block on nothing but bounded waits. HostPool: the worker,
the retirement threads and the steps that finish an NVDA call already begun;
not the processes. SpeechQueue: worker, feeder, the device that plays what it
was given, and the steps of a cancel already begun; not the callbacks. DispatchSources: each source's thread, the
queue thread, and the steps of a call already made; handlers return.
AndroidRequest: the synthesis thread inside a request and the `panthera-cancel`
thread; not `onStop`, the workers or the framework. DllSession: the host thread
once the engine is up or was refused (`HostReady`, `ServeEnds`) and a call already
made; neither bringing the engine up nor a render. GuestSync: a thread inside a shim.
PlatPosix: each caller inside a call and the end of a started thread. Nothing is assumed of a lock: where one is held across
steps its holder is fair. The one strong fairness is in `MCThreads`: a mutex that
is let go of again and again is got in the end (`Enter`, `Awaken`), without which
`WinHandles`' promise that a signalled wait ends cannot be kept by any program.

### What the properties say

* HostServe: `NoBleed`, `WholeUtterance`, `NoDoubleCompletion`,
  `CancelIsForThis`, `RenderHoldsTimer`, `EveryRequestAnswered`,
  `ClockKeepsTicking`.
* HostPool: `NoOrphan`, `RetirementKeepsStreaming`, `OnlyItsOwn`,
  `WatchedRenderEnds`, and within the properties of `MCPools`
  `SettingsReachRender`, `ShutdownCompletes`.
* SpeechQueue: `OneLateSlice`, `MarkAfterAudio`, `IndexBeforeDone`,
  `DoneIsTold`, `LastWordIsHeard`, `ThreadsEnd`.
* DispatchSources: `SlotIsItsOwn`, `CancelledEventNeverRuns`, `TimerFires`,
  `CleanupComes`.
* MCPools: `RequestServed` (with `RequestOwnsWorker` of Android), `StopsAreHeeded`
  (with `StopEndsRequest`).
* MCThreads: `HandleAlive`, `WaitsAreWindows` (the refinement), `EngineInStep`
  (`GuestExclusion`, `MessagesInOrder`), `SessionOwned`, `CallsReturn` (with
  `TaskEndTold`).
* MCLibraries: `TextRead`, `Linked`, `Transforms`, `ValuesCarried`,
  `ReferencesHeld` (`ObjectsHeld`, `BlocksBalance`, `HandlesBoxed`,
  `PatternsKept`), `MemorySound` (`GuestMemorySound`, `MemoryReached`),
  `SpeechHeard` (`RecordingHeard`, `MarkersPlaced`, `AndroidHeard`),
  `OnlyProvenGoes`.
* What comments promise and TLC refutes, one to a finding: `StaleNeverCollected`,
  `WantedSurvives`, `HeardInOrder`, `CancelledNotSpoken`, `StartsOnQuiet`,
  `OneWholeCopy`.

Each is stated in words above its definition, with what it leaves out by name:
`outlasted` of HostServe, `RestartByRetirement` of HostPool, `"wiped"` of
DispatchSources, `early` of AndroidSpeech. The limits below say what in the code
each of them is.

### Findings

Six places where the code does not do what its comments say. Each has a run
in which TLC exhibits the behaviour.

1. `serve_stale`: `serve.c` 568-570 says slices in flight for the last
   utterance are not collected once `g_utt` is bumped. A pacer that decided
   before the bump collects after it, when the drain before had given up.
2. `pool_wanted`: `pantheradriver.py` 619-621 says the render counter "cannot
   be missed". The comparison and the swap are not one step, so a retirement
   can take the process from the next, wanted render.
3. `queue_order`: `speech_pipeline.py` 395-396 says the joiner's hand-back
   "cannot reorder anything". It can, when NVDA speaks twice before it.
4. `queue_stale`: `speech_pipeline.py` 106-107 rests on the epoch check, but
   the epoch is read after the `get`; an utterance taken just before a cancel
   is stamped with the epoch after it.
5. `android_stop`: `tiger_host_jni.h` 95-97 asks for a finish of a cancelled
   stream before the next start. `onStop` sets its flag and cancels in a second
   step (`PantheraTtsService.kt` 81-82). A synthesis thread that sees the flag in
   between stops pulling, finishes a worker that nobody told to stop (`jni.c` 236
   returns at once) and completes the request; the cancel then finds it complete
   and does nothing, and the next request starts on a worker still at work on the
   stopped text. `RequestOwnsWorker` speaks of requests whose cancel came in time.
6. `move_again`: `ProtectedStorage.kt` 45-46 says a failed move leaves both folders
   as they were. A deletion of the source cut short (84), by a kill or a file
   that will not go, with the engine still in it, is found again at the next
   start: what is left is copied, proven against itself, and put in the place of
   the whole copy. `OnlyProvenGoes` says what does hold.

### Known limits of the code

Met while modelling. The properties leave them out by a name, or do not speak of
them at all; none is left out in silence.

* **A restart on a retirement's thread** (`host.py` 565, 1014-1015). A retirement
  that finds no standby calls `_host()`, and if a restart is wanted by then
  `_restartHost` kills both processes there, under whatever the worker renders;
  its comment has it run on the worker, with nothing in flight.
  `RestartByRetirement` is this disjunct of `OnlyItsOwn`.
* **A cancel nobody watches** (`host.py` 862-863). A cancel that reads
  `_renderSeq` before the render it means has counted itself watches an older
  number: `WatchedRenderEnds` is then met at once, and that render is not watched.
* **A timer set as another expires** (`gcd.c` 400-405, and 389-390 for one due at
  once). One set between a wait's timeout and `armed = 0` is cleared with the
  older one: the engine is called back for that and not for the later
  time, although `rearm` was signalled. `TimerFires` calls it `"wiped"`.
* **A completion dropped in silence** (`queue_completion` with a full queue). The
  engine is never told of the slice and its audio is lost. `WholeUtterance` speaks
  of the slices that were accepted.
* **An end announced early** (`serve.c` 683-691, `jni.c` 361). Both protocols take
  the engine's word that no slice comes after its end; it was measured, and nothing
  checks it. In HostServe an engine that has ended schedules no more; in
  AndroidSpeech it may, and `AndroidHeard` leaves such a request out (`early`).
* **Settling sees only libdispatch** (`serve.c`, the count of deliveries).
  Engines that deliver on threads of their own (10.4, 10.5) are settled by 30
  quiet milliseconds alone.
* **A `__block` variable freed early** (`gcd.c` 168). The first copy of a variable
  to the heap counts once, for the block; the frame that forwards to it gives
  back a reference when it ends. `gcd.c` 79-80 speaks of releases that balance:
  they do for blocks, of which `BlocksBalance` speaks, and not for variables.
* **The bytes of a `CFData`** (`cf.c` 331-345) are not freed with it.
* **A rename that fails** (`ProtectedStorage.kt` 78) leaves the generation without
  its live folder, which was deleted at 77; the source is whole, and the next
  start moves it again.
* **A long embedded command** (`numbers.c` 312). Numbers are left alone "inside an
  embedded command", which is found by looking back 64 characters; one in a longer
  command is rewritten. `NumbersRead` speaks of commands within that look.
* **An interval bound of a pattern** (`regex.c` 325) is an unsigned that wraps;
  `Value` wraps at `BoundBits` bits, and the bounds of the run's patterns are of one
  digit, which stays below.
* **An engine that does not come up** (`api.c` 161-167, 292): `pt_open` does not
  return. `CallsReturn` speaks of `pt_close`, and of `pt_open` once the engine is
  up or refused. In AndroidRequest a remote call is one step, so an `open` that
  hangs is not told from one that fails.
* **First uses.** The table lock that `shims.c` 200 makes at its first use is
  taken as made: on Windows the second of two first callers enters it while the
  first has still to initialise it. `sh_once` (438-451) says done before the routine has
  run, so a second thread may go on without it; `mtx_ready` (262), where the native
  lock is in the guest's mutex, tests its magic without a lock.
* `RegexTable`: the comment that the oldest pattern is taken when the table is
  full is not so after a `regfree`, whose slot is used again first. `uc.c` keeps
  a string per utterance that is never freed (`speech.c` 189).

## The proofs

Eight modules of proofs rest on nothing but the assumptions their modules state
of their constants, which TLC evaluates in every run that extends them. Those of
`StandIns` are one `ASSUME` for each component, and a proof cites only its own:
the ring has a place and objects are numbered (`ObjectsAssumption`), sets that
are counted are finite and the names that stand for nobody are nobody's
(`BlocksAssumption`, `SqlAssumption`, `TableAssumption`), a header and an
alignment are not empty (`GuestAssumption`), sizes and addresses are numbers
(`PlatAssumption`), counts are (`MarkersAssumption`), the codec's delay is no
shorter than a frame (`AacAssumption`; 2112 and 1024 in `tiger_host_aac.c`) and a
request's speech and what is held back of it are not empty
(`AndroidAssumption`). No proof assumes fairness.

A temporal theorem `Spec => []Inv` is proved from an inductive invariant that is
the conjunction of named parts. For each there is an initial lemma, a lemma for
what a step does to it, and a last step by `PTL`. Where a component has many actions, frame
lemmas say which of them change a group of variables, and a step lemma goes
through those only.

| module | about |
|---|---|
| `HostServe_proofs`, `SpeechQueue_proofs` | the module of that name |
| `MCPools_proofs` | HostPool, AndroidRequest |
| `MCThreads_proofs` | DispatchSources, PlatPosix, GuestSync, DllSession |
| `StandIns_proofs` | ProtectedMove, AndroidSpeech, SqlHandles, RegexTable, Blocks, Markers |
| `Objects_proofs` | CoreFoundation |
| `Memory_proofs` | PlatMemory, GuestMemory |
| `Libraries_proofs` | AacConverter, and the invariants that join several stand-ins |

### HostServe_proofs

All six invariants of HostServe (its `Spec`, of which the two instances of
`MCHostServe` are two cases), for every number of requests, slices and queue
places, every set of deadlines and both protocols.

* `TypeCorrect`: `TypeOK`, from `TypeInv`: the types, the numbering of requests
  (`utt` trails `written` by what the serve thread has in hand) and what the
  engine's variables are at rest. The numbering is needed because
  `utt \in 0 .. MaxReq` is not inductive: that `ServeBump` stays in range
  follows from a request having been written and not yet counted.
* `TimerHeld`: `RenderHoldsTimer`, from `TimerInv`, which adds that the busy
  mark is up as long as a request is in hand; without it the pacer's release
  is unconstrained.
* `CancelReachesItsOwn`: `CancelIsForThis`, from `CancelInv`, which follows a
  signal through the event: past `ServeBump` an event that is set was set since
  the current request was written.
* `CompletionsComeOnce`: `NoDoubleCompletion`, from `SliceOrder` (slices owed
  were made before the next one will be) and `Delivery` (queue, the pacer's
  hand, the engine's hand and the lost ones are disjoint parts of what is
  owed, and a reset that returns leaves the first two empty).
* `UtterancesDoNotBleed`: `NoBleed`, from `BleedInv`: until a wait is
  outlasted, whatever could reach the buffer is of the current utterance, or
  the engine, the queue and the pacer are at rest. The second half is what the
  drain and the settle before the next request establish.
* `NothingIsCutOff`: `WholeUtterance`, which compares what was sent with the
  slices that were accepted. Slices are numbered as they are made, so instead of
  the equality of two sequences, whose theory is an induction, the invariant
  says place by place where each slice is: `GatherInv` that the buffer, the
  pacer's hand and the queue hold the current utterance's slices with
  increasing numbers and none missing between, `SentInv` that what was sent
  begins the buffer and is all of it once the request is answered, `StopInv`
  that the pacer is told to collect no more only of a request that was cancelled.

### SpeechQueue_proofs

For every number of utterances, chunks, cancels and joined items.

* `PipelineTypes` and `LateByOne` (`TypeOK`, `OneLateSlice`) from `Pipeline`:
  between the epoch's increase and the player's lock a cancel may find one
  slice in the feeder's hand, which counts as fed (`InHand`), and every item in
  the pipeline is of an epoch that has been (`Old`).
* `IndexesComeFirst` (`IndexBeforeDone`) needs what is announced of a live item
  on either path, the joiner's and the plain one's, to be ahead of its end in
  whichever queue or hand it is.
* `IndexWaitsForAudio` (`MarkAfterAudio`) from `Marking`: the bytes of the
  player's generation add up, its marks are in the order of their bytes, and a
  callback tells those it has reached and no others.

### MCPools_proofs

HostPool by one invariant, `IInv`, for every number of hosts, utterances, cancels, changes of
a setting and retirement threads: `TypeInv`, and

* `Counting`: renders begun and still possible are within twice the utterances,
  or a retry would leave the types' bounds;
* `Locking`, `Taking`: who is in `_procLock`, and that a process a thread has
  taken is nobody else's and is held only to be stopped;
* `Closing`, `NoOrphan`: `terminate()` leaves nothing behind that promotes or
  starts; `NoOrphan` alone is not inductive, since a thread that has already
  chosen to start a process is not seen in it;
* `Failing`, `RetirementKeepsStreaming`: a render fails with the process it was
  given, and that dies by itself, unless somebody took it;
* `Obeying`, `SettingsReachRender`: until a restart is wanted again both
  processes have the settings asked for.

`PoolTypes`, `ShutdownLeavesNone`, `StreamingSurvives`, `SettingsObeyed` follow,
and `InUseIsSafe` proves the action property `OnlyItsOwn` step by step from it:
who kills a process that is in use or the standby is that process, the
render that failed on it, the worker's restart, or the restart a retirement
makes, the one case in which a render may lose its process to another thread.

Android's side, and the two together:

* `RequestsServed`: `RequestServed`, from HostPool's invariant and one of
  AndroidRequest: requests are numbered as they come (`Numbered`), a job on the
  cancel thread is of the request in hand (`Answered`), until that is cancelled
  its worker is the only one to render it (`Alone`), and what a cancelled request
  leaves at work has somebody to settle it (`Doomed`). Of a request that ended
  before its stop became a cancel it says nothing; that is finding 5.

### MCThreads_proofs

DispatchSources, for every number of slots, sources, timers and rounds of waiting, from `IInv`.

* `SourcesTyped`: `TypeOK`, from `TypeInv`, which adds `Counted`: the
  sources made, refused and being made are within the bound. Without it `made`
  could leave its range when two creators end together. That a thread reads its
  slot's flags at all needs `Lives`: a source whose thread was started has a
  slot.
* `SlotsOwned`: `SlotIsItsOwn`, from `SlotInv`. `SlotIsItsOwn` says nothing of
  the flags the scan reads, so `Marked` ties them to the sources: a source in
  use is not `retired`, one being resumed is `starting`, and a live thread is
  the one its slot's `thread` names. `Claims` says what a call holds between two
  of its steps; the lemma `ChoiceIsFree` then shows whoever had the slot the
  scan finds to be cancelled and over, and `PublishOwned` that clearing
  `starting` hides no other resumption.
* `CancelledNeverRun`: `CancelledEventNeverRuns`, from `Stopped`: in the slot of
  a cancelled source that is still about, `running` is false. It needs
  `SlotIsItsOwn`, or a resumption of another source in that slot would raise it.

The threads' primitives:

* `HandlesOutlive` (`HandleAlive`): a thread's handle has the references of its
  wrapper and its owner and goes with the last; a mutex is held by who is in a
  call.
* `EngineSynchronised` (`EngineInStep`): a thread about to enter a mutex knows
  the one its address has; the units of the semaphore and the threads between a
  unit and its message are as many as the messages in the ring.
* `SessionsOwn` (`SessionOwned`): only the last session can be live, and a
  client that gave up on one makes no other.
* `HandlesAreWindows`: every step of `PlatPosix` is a step of `WinHandles` or a
  stutter under the mapping of `WaitsAreWindows`. It needs of the invariant that
  a call is on a handle there is, that only a wait sleeps, and that one which
  gives up had a time to give up at. This is the safety half of the refinement;
  the fairness of WinHandles stays with TLC.

### StandIns_proofs

Each component of `StandIns` by itself, for every number of entries.

* `MoveIsProven` (`OnlyProvenGoes`): what was copied was there to copy, what goes
  on to be swapped is the whole of it, and what is still to be deleted of the
  source is in its place (`Copied`). It says nothing of a source that is itself
  what a deletion left, which is finding 6.
* `ClientsHearTheirOwn` (`AndroidHeard`): until the request is stopped its slices
  lie in order in the buffer, the pacer's hand, its queue and the engine
  (`InOrder`), and between requests there are none (`Settling`), so a slice's tag
  is never needed to tell two requests apart when cleanup succeeded. A request whose end the engine announced
  before its last slice (`early`) is left out. The kick
  is never given because a pull holds back at least one frame until all is there:
  the theorem needs `Lookbehind` and `MaxSlice` not to be 0.
* `HandlesStayBoxed` (`HandlesBoxed`): a statement is of an open database, not of
  another statement, and boxes and handles are one to one.
* `PatternsStayKept` (`PatternsKept`): a preg has one slot at most; the table
  forgets its first only when it is full, which needs its first size (16,
  `tiger_host_regex.c:619`) to be positive and no more than `RE_MAX_PROGS`.
* `BlocksStayBalanced` (`BlocksBalance`): a block's count is the references the
  engine holds and the blocks that captured it, and a block that is free is
  nobody's. Of `__block` variables it says nothing.
* `MarkersStayPlaced` (`MarkersPlaced`): the invariant counts places rather than
  filter sequences: `Carries` says of each place of the response whether a frame
  or a marker stands there, with how many frames before it, and that the
  response is as long as what was sent and consumed. It lasts because the frontier
  is what the request queued, less the one call that was accepted and has yet to
  say so (`Followed`), because a request's outputs queue one call at a time
  (`OneOutput`), and because a call counts for the request that is served exactly
  when it began in its epoch (`OwnEpoch`), which is the hazard of
  `tiger_host_markers.c:53`.

### Objects_proofs

`ObjectsStayHeld` (`ObjectsHeld`): CoreFoundation's counts and its graveyard, for
every number of threads and objects and every size of the ring. `Counted` says
that an object's count is the cardinality of the set of its references (what
threads own, what containers hold, what a release is about to give up), and that
it is alive exactly while there are any. `Placed` says that one let go of is in
exactly one place: the ring, or a task that will put it there or free it; so it
is freed once. A release
is several atomic operations, so the tasks of a thread are a stack, and
`Underway` and `Ringed` tie each task and place of the ring to the state of its
object. The lemmas about a stack of tasks say what pushing and popping one does
to the set of references, place by place.

### Memory_proofs

* `HostMemoryReached` (`MemoryReached`), for every address space, size of
  the table and number of threads and retries: a mapping of the kernel is in one
  place, with a caller, in one call's hand or forgotten by a full table
  (`OnePlace`, `Everywhere`), mappings share no page (`Apart`), and the table is
  the regions known (`Tabled`). Forgotten ones are those the code leaves mapped,
  see the limits above.
* `GuestMemoryHolds` (`GuestMemorySound`), for every arena, header, alignment and
  set of threads. The arena is treated as a value: `Arena(heap, used, loose)`
  says that the blocks lie end to end, the free ones are listed by address and
  do not touch but at the places `loose`, and what is neither free nor used is
  an empty block at the very end. A lemma about each operation of `uc.c`
  (listing a block, joining it with its neighbours, splitting, growing in place)
  says what it makes of an `Arena`; `loose` is what lets the release be taken
  in the steps the code takes, and is empty between them. `OneOwner` says that
  a block has one owner under one name, `MapsInv` that every registered emulator
  maps the recorded regions and that the view a thread is mapping or unmapping
  is no region and no other thread's.
* `SharedMemoryHolds` (`MemorySound`) joins the two.

### Libraries_proofs

* `RecordingsStayWhole` (`RecordingHeard`): for every decoder and every length of
  a frame, delay, stream and request. Samples are numbered, so the invariant is
  an account of them: while a stream is open what its decoder gave is the delay
  as far as it came off, what the engine was given and what waits
  (`Opened`); what was given is the recording from its start and what waits goes
  on from there (`Kept`, `Pending`); and once the stream was closed with all
  its frames, the two are the whole of it. The delay may be longer than what a
  refill brings, so it comes off over several; the first sample is never in the
  first frame, where FAAD puts silence, because the delay is at least a frame.
  For a recording handed over whole (`HandedOver`) the engine asks for no more
  than the recording holds.
* `CountsMatchReferences` (`ReferencesHeld`) and `WhatIsMeantIsHeard`
  (`SpeechHeard`) join the theorems about objects, blocks, handles and patterns,
  and about recordings, markers and Android's requests.

### Only model-checked

* Liveness and fairness, which are out of the prover's reach:
  `EveryRequestAnswered`, `ClockKeepsTicking`, `WatchedRenderEnds`,
  `StopsAreHeeded`, `DoneIsTold`, `LastWordIsHeard`, `ThreadsEnd`, `TimerFires`,
  `CleanupComes`, `CallsReturn` and the liveness of `WaitsAreWindows`.
* What is recursive or rests on recursive operators: `TextRead`, `Linked`,
  `Transforms`, `ValuesCarried`. What a recursive definition computes is an
  induction over data, which is out of reach as well.
* Of the refinement of WinHandles, its fairness; the safety half is
  `HandlesAreWindows`.

Every other safety property of the runs is a theorem.

## Not modelled

* In HostServe: where a slice's samples go (the timeline of `collect_slice`,
  the overlap it replaces), the sample format, `TGR5`'s markers, voices, rate,
  pitch and volume. Buffers hold slices, so a property of theirs is about
  whole slices.
* In HostPool: the bytes of the protocol, priming, the fallback from markers,
  and the library mode, in which there is no standby.
* In SpeechQueue: breaks, rate and pitch changes within an utterance, the pacing of the feeder
  (`FEED_LEAD`), positioned markers, the choice of where to split.
* In DispatchSources: `dispatch_suspend` (no engine suspends a source; a resume
  before the thread noticed would start a second thread on the slot), semaphores,
  `dispatch_async`, `dispatch_once`, the pool of queue handles. The engine is
  assumed to use a source only before it cancels it and not to cancel one it is
  arming.
* In GuestSync: `sh_once`, keys, timed mutexes; a full ring of 256 is a ring of
  `Cap`, and the semaphore's own limit is never reached below it. A terminated
  task only has its handle closed.
* In AndroidRequest: other generations' connections, the preview and the warm-up,
  which use the same path, and time: the grace of a short label is a choice. A
  remote call is one step. In AndroidSpeech: the timeouts of a pull,
  `panthera_render`, phrasing and voices.
* In ProtectedMove: the free-space check, and `ZipImport`, which swaps folders in
  the same way.
* In Loader: the headers, the patches of single instructions, `uc_bind_target`'s
  bridging of data symbols. In GuestCalls: a width of `*` and the truncation of
  `%hh`. In GuestMemory: what a block holds, and nested calls.
* In CoreFoundation: strings' bytes and encodings, bundles, URLs. In
  AacConverter: the decoders themselves.
* Of the rest of the repository: see the table above and `PROJECT.json`. The disc
  readers, the settings, the dialogs and SAPI are file formats and interface
  code; the add-on's and the app's text preparation is string functions; the
  command line is argument handling around the serve loop.

## The plan

Done: every module of the list above with its runs, and the theorems of the
previous sections: every safety invariant and action property of the runs whose
operators are not recursive.

Left to prove: that the lists of pure algorithms meet their references, by
restating the recursive operators as functions over bounded inputs where the
provers can follow; the compiled patterns of `Regex` would come first.

To model, if it is worth it: the timeline of `collect_slice`, the actions of
`marker_pipeline.py`, and an abstract `SpeechService` (each utterance is heard,
cut or dropped by a cancel, and told) implemented by SpeechQueue without the
joiner.
