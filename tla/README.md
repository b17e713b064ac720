# AsciiCam in TLA+

A specification of AsciiCam (webcam video as text in a terminal, C99, with its
own libc and ELF loader on Linux): what its parts promise each other,
model-checked with TLC on small instances and, where memory is shared, files
outlive the program or the order of calls decides, proved with TLAPS for every
value of the constants. Paths below are relative to `src/C`.

    tlc -workers 2 -config Session.cfg MCSession   # check one run
    tlapm CapturePipeProofs.tla                    # check one proof module

`PROJECT.json` lists every run, the lines of code each definition stands for,
and, for every property, a plausible bug in the code that violates it.

## 1. The system

Two threads run: the render loop (`main`) and, on Linux unless `-T` is given, a
capture thread. Everything else that happens at the same time is outside: the
camera's driver, compilers started as child processes, other running instances
that use the same directories, the terminal and its user, files that change.

| Component | State it keeps | Operations | Meets |
| --- | --- | --- | --- |
| frame exchange `include/frame_exchange.h` | ready, reading, writing slot; counters; a mutex | write_begin, publish, abort, acquire | both threads |
| threads `lib/nl_thread.h` | futex words, thread id cleared by the kernel | lock, unlock, create, join, condition variable | frame exchange, capture pipe |
| capture pipe `src/thread_sharing.c` | stop, failed, started, thread, slab of slots | start, acquire, stop, the thread's loop | camera, frame exchange, render loop |
| V4L2 capture `src/capture_linux.c` | fd, mapped buffers, buffer in hand, stride, saved priority | init, wait, capture (drain), requeue, cleanup, controls | driver, capture pipe or render loop |
| capture re-initialisation `src/capture_reinit.c` | none of its own | close, open in another mode, new pixel buffers | camera, allocator |
| plugin catalog `src/plugin_catalog.c` | entries with state, path, hash, child process | scan, add prebuilt, start build, poll, cleanup | compilers, cache directory, chain |
| plugin loader and chain `src/plugins.c`, `main.c` | private copies, inotify queue; packed arrays of plugins, parameters, catalog entries; selection | load, add, remove, activate, hot reload, parameter keys | catalog, ELF loader, inotify |
| ELF loader `lib/nl_dlfcn.c` | mappings of loaded libraries | dlopen, dlsym, dlclose | loader |
| plugin picker `src/plugin_picker.c` | query, selection, scroll | keys, matches | catalog, keyboard |
| mouse `src/mouse.c` | parser state, drag (mode, start, base, pending) | feed, event | frame geometry, screen |
| network encoder `src/netenc.c` | what the terminal shows, pending count | frame, invalidate | screen, everything that writes on it |
| recorder `src/recorder.c` | file, frames, CRC of the last one | start, frame, stop, screenshot, PNG | captures directory, disk, clock |
| browser and replay `src/browser.c` | list, selection; position, clock and speed of a replay | scan, keys, preview, replay | captures directory, screen, keyboard |
| renderer and character sets `src/ascii.c` | registry of character ramps | render, scan, reload | output buffer, inotify |
| allocator `lib/nl_alloc.c` | arena of headers, list of mappings, statistics | malloc, free, collector's hooks | everything |
| collector `lib/nl_gc.c` | owner, roots, marks, thresholds | collect, alloc, disable, roots | allocator |
| main loop `src/main.c` | panels, frame rectangle, options, flags set by signals | start, one iteration (resize, keys, builds, reload, frame, render, pace), end | all of the above |

One iteration of the main loop handles a pending resize, reads every byte of
input, polls the builds and loads what was asked for, checks plugins and
character sets for changes, takes a frame (from the pipe, or inline from the
camera), filters and renders it, writes it to the terminal (through the network
encoder with `--net`), records it, and draws panel and overlays. Components call
each other directly; state is shared only between the two threads, and only
through the frame exchange and two flags of the pipe.

### What is hard

* **Interleaving**: slot hand-over between the threads; sleep and wake-up of the
  futex mutex; failure of the capture thread next to its last frame; a builder
  that replaces a library while it is copied; orphaned compilers in the cache.
* **Order of destruction**: thread, slots and camera at the end of the program,
  and the many ways out of its start.
* **Failure in the middle**: a camera unplugged while buffers are drained, or gone
  when it is re-opened; a full disk inside an event; a compiler that dies; an
  allocation that fails once; a library that is half what it says it is.
* **Staleness**: what the encoder believes is on the screen, what a stamp says a
  library was built from, the frame a drag started from, a buffer made for
  another render mode.
* **Progress**: a stalled camera must not block keys; a still picture must become
  complete; a build must end; the newest library must be the one that runs.
* **Input**: bytes of a sequence that come late, events of several owners in one
  stream, a replay that reads keys of its own.
* **Sequences of legal calls** that reach states nobody tested: splits and merges
  of the arena, shifts of the plugin arrays, sweeps of the collector.

`PROJECT.json` lists these as hazards, each at its line, with the properties that
cover it or the reason why none does.

## 2. The modules

| Module | Models | Composition |
| --- | --- | --- |
| `LatestFrame` | what the frame exchange promises: a box for one finished frame | abstract specification |
| `FrameExchange` | the triple buffer, one critical section per step | implements `LatestFrame` |
| `NlMutex` | the futex mutex, one atomic access or system call per step | |
| `FrameExchangeLocked` | the triple buffer again, one shared access per step, under the mutex | EXTENDS `NlMutex`, implements `FrameExchange` |
| `CapturePipe` | capture thread, render loop, start and stop | EXTENDS `FrameExchange`, whose actions its steps are made of, and implements it |
| `V4L2Capture` | the camera's buffers against a driver, one ioctl per step | the camera calls of `CapturePipe` |
| `Camera` | a camera through a session: controls, pixel buffers, re-opening in another mode | EXTENDS `V4L2Capture` |
| `Keys` | what keyboard and mouse promise: each event handled once, in order, by its owner | abstract specification |
| `Panels` | what an event does to browser, picker and hotkeys | used by both `Keys` and `Keyboard` |
| `Keyboard` | the bytes of those events read one at a time, with pieces that come late | implements `Keys` |
| `NlDlfcn` | a library mapped and relocated from a file that may say anything | |
| `Session` | a run of the program from start to end, with failures and signals | EXTENDS `Keyboard`, INSTANCE of `NlDlfcn` |
| `PluginCatalog` | builds, stamps and sessions over a cache directory | produces the states `PluginChain` takes as outcomes |
| `PluginChain` | the filter chain with its parallel arrays | |
| `PluginLoader` | private copies, watch and hot reload beside a builder, in inodes and names | |
| `Charsets` | the registry of character ramps beside editors of its files | |
| `HotReload` | the loop's turn that does both | EXTENDS `PluginLoader`, `Charsets` |
| `NlAlloc` | the arena and the mappings | |
| `NlGc` | the collector, and programs that do not use it | EXTENDS `NlAlloc` |
| `PngWrite` | one picture written, chunk by chunk, with failures | |
| `CivilDate` | timestamps beside a calendar | |
| `Recorder` | recordings and screenshots in a shared directory | EXTENDS `PngWrite`, its picture writer, and `CivilDate`, its names |
| `Replay` | the parser and the clock of a replay | |
| `Captures` | what was recorded is replayed | EXTENDS `Recorder`, `Replay` |
| `NetEnc` | the encoder and all that writes on the screen | |
| `MouseDrag` | drags, terminal sizes, the frame's rectangle | the outlines of `NetEnc` |
| `Window` | the picture drawn in that rectangle, and its buffer | EXTENDS `MouseDrag` |

The modules whose names end in `Proofs` hold the proofs (section 5), those that
begin with `MC` the values of constants for a run.

State and actions keep the names of the code where TLA+ allows it. A field is a
variable; a function, a handler of a key or an `if` of the loop is an action; a
system call that can fail is an action with its outcomes as disjuncts. What a
module leaves out of its lines is said in its heading comment. History variables
(`taken`, `given`, `seen`, `pinned`, `changed`, `spoiled`, `inbox`, `told`, `refused`,
`untold`) exist for
the properties only and are read by no guard that matters to the code.

**Frame exchange and pipe.** `content[slot]` is the number of the frame in a
slot, or `Torn` while it is being written, so that a slot both threads touch
shows up as a torn frame in the reader's hand. `FrameExchange` executes a
critical section in one step; `FrameExchangeLocked` justifies that, field by
field, over the futex mutex of `NlMutex`. `CapturePipe` gives each thread a program
counter and takes one shared access per step; slots, camera and thread id are
resources whose use is checked by `MemorySafe`.

**Camera.** A buffer is with nobody, the driver, filled, or with the program;
unplugging makes every later ioctl fail. The automatic exposure may refuse to be
switched off, which the code does not look at (`AutoOff`). A frame carries its error flag and its
number of bytes, which is what the checks of `webcam_capture_frame` read. In
`Camera` a mode is the number of its pixels, the arena what is left of memory for
pixel buffers. `capture_reinit` has no caller in `main.c` at this commit; the model
follows the caller that its test and its comment describe: failing, it goes back
to the mode before.

**Keyboard and session.** An event of the user is a sequence of bytes; `Keyboard`
reads them with the code's waits of 25 ms, `Keys` takes them whole. `inbox` is what
the user has done and the program has not. An event is marked torn when its bytes
come late, when its first byte ends a preview, when it is a sequence longer than
those the loop drops, and when it is done while an ESC before it has not been
handled, in which case the loop may take the two for one sequence. Only of torn
events does `Keys` allow a misreading. `Session` keeps the stage of `main`, what is held, and the
terminal's four modes. Files and their tables in `NlDlfcn` are arbitrary within
the bounds: the checks of the loader are what keeps the program's memory intact.

**Catalog.** A version of the source and one of the headers stand for everything
a build reads, and the pair is its own hash. Libraries are files with the
versions the compiler read and whether the linker is done with them; a child is a
sequence of steps that goes on after its parent is gone. **Chain.** The arrays
beyond `plugin_count` are left out: nothing reads them. **Loader.** A file is an
inode with two parts, so that a copy can catch a library half written; a name may
move from one inode to another while the old one stays mapped.

**Memory.** Sizes and addresses are in units of 16 bytes, a header is one unit,
and the arena is a function from offsets to headers. The collector sees words: an
address, or nothing.

**Files.** The recorder's directory is a function from names to contents; a
picture's bytes are positions of its raw stream; a recording is a sequence of
symbols, which `Replay` reads into a buffer that may be too short for a line.

**Screen.** `NetEnc` keeps the terminal's cells, what the encoder believes they
are, and a frame's bytes counted as the code counts them. After a frame the loop
draws, in this order, its marks (the corners of the frame and rows of the status
panel, `Marked`), outline, browser and notices (`Overlaid`); of the last three it
tells the encoder, when they are up for a frame. What it does not tell is in
`untold`. `MouseDrag` keeps
rectangles as the code does, in cells. `Window` adds the length of the picture in
bytes, least and most, beside the size its buffer was made for. Braille, blocks,
ramp and dots have one size and one loop and are one mode, half blocks the other.

## 3. The runs

Each passing run explores its whole state space. Bounds, and why they suffice:

| Run | Question | Bounds |
| --- | --- | --- |
| capture_pipe | slots, memory, order, failure, stop and progress of the two threads | 4 frames: all three slots are recycled while one is in use and one unread; one sleep per acquire |
| frame_exchange_locked | does the mutex, sleeps and wake-ups included, make the functions of the exchange atomic | 5 frames: the scan passes a ready and a held slot, and an unread frame is replaced |
| camera | buffers with a driver that grants 1 to 3 of 2 buffers, frames short or marked bad, unplugging at any time; re-opening that fails at any step | 3 frames: one more than there are buffers; 3 modes, of which one does not fit beside itself and one not at all; 2 re-openings: a failure and the way back; 2 turns of a control |
| session | every way into and out of the program, keys while it runs, typed ahead or late, libraries with any segments | 2 events in the queue: one behind an ESC; sequences of each kind the loop drops, one longer, a letter with Alt; a query of 2 letters, 3 names; a page of 2 words, 3 program headers, an address space of 6 pages; the user types in the session that is in colour, has a thread and no plugin |
| plugin_catalog | one program in two sessions, with and without a shipped library, a cache left by an earlier one | 2 versions each of source and headers, 2 edits: one change under a build, or a change and its reversal |
| plugin_chain | 3 entries, one of them shipped without a source, one plugin given by `-p` | chain of 3: a place before, after and between others |
| hot_reload | one library and two files of ramps that change while they are read | 4 builds, one of them refused, 2 seconds, 2 edits of ramps: builds cross loads in every place, and a refused version is followed by a good one |
| nl_gc | programs with the collector (two threads, one root slot, collections at any call) and without (any pointer freed) | arena of 10 units; blocks of 3 and 5 and at most two for the collector, up to five otherwise: every pattern of free neighbours |
| recorder | two frames, two seconds around a leap day, foreign files, a full disk, a kill; then a replay of what is there | 3 frames in a recording, 3 files, 2 names per second; pictures below, at and above multiples of blocks of 4 bytes; every day of 1970 to 2110 and of 9999; a buffer of 12 symbols beside lines of up to 11, one tick of lag, speeds 1 and 2, 2 replays |
| netenc | any change of picture, overlay or terminal, refused frames, a buffer that cannot be had; one lossless link and two slow ones | 2 x 4 cells, the least with marks in its corners; 4 pictures of 2 extents; 2 events besides frames; a repaint every 6 frames, and budgets of 64 bytes, which carry it, and 46, the least a cell may cost, which carry it for cheap pictures only |
| mouse_drag | in colour, any pointer sequence, lost releases, resizes, changes of mode and failed allocations in between | frames of 2 or 3 by 2 or 3, a pointer on 4 x 4 cells, on a terminal with room, one with none to spare, one too small and one of unknown size; frames to start with inside, outside and below the least size |

Deadlock is checked except where the program ends: in `session`, `recorder` and
`hot_reload`, whose builders and users may stop as well. `SYMMETRY` is used where
members of a set are interchangeable and no liveness is checked; `VIEW` leaves out
what no action reads: the verdict of the last `nl_free`, the history of a drag
that is over, what a closed panel was showing, which library it was that has been
mapped and checked.

### What holds

A property names the parts it is made of; each part has a comment of its own in
its module, and each property at least one plausible bug that breaks it.

* **Pipe**: `PipeSound` (types, `OneRole`, `WholeFrames`), `MemorySafe`,
  `FrameInUseIsWhole`, `FramesAccounted`, `PipeSteps` (`FramesInOrder`,
  `HeldFrameStable`, `NothingAfterFailure`), `PipeImplements` (the protocol of the
  exchange, and the box of `LatestFrame`), `PipeProgress` (stop, keys, fresh
  frames, failure).
* **Exchange under its lock**: `LockedSound`, `MutexSafe` (exclusion, and a waker
  for every sleeper, so the two-state futex mutex loses no wake-up), `Progress`
  (one of the waiting threads gets in; the mutex is not fair to each),
  `SectionsAreAtomic` (the refinement of `FrameExchange`).
* **Camera**: `CaptureSound` (`ReadsOwnBuffer`, `BuffersAccounted`, `ClosedIsClean`),
  `CameraSound` (`BuffersFit`, `FailureIsClean`, `RefusedDoesNotFit`, `ShownIsSet`),
  `CaptureProgress` (`DrainsToNewest`, `UnpluggedEnds`).
* **Session**: `HandlesEvents` (the refinement of `Keys`: of events that are not
  torn), `SessionSound`
  (`TerminalGivenBack`, `ReportsOnlyRaw`, `LoopOnScreen`, `NothingLeft`,
  `RefusedReleases`, `ThreadHasCamera`; `CursorOnMatch`, `InboxCovers`), `ImageSound`
  (`OthersUntouched`, `FailureLeavesNothing`, `SegmentsAreThere`, `WritesAllowed`).
* **Catalog**, for one program: `CatalogSound` (`NoHalfLibrary`, `StampVouches`: a
  stamp names what the library was built from), `CurrentUnlessSpoiled` (what is
  taken from a build was compiled from the inputs there are, unless they changed
  twice under it; and so was what any session finds in the cache, unless that was
  spoiled), `BuildsServed`. What spoils the cache is said below.
* **Chain**: `ChainSound` (`ActiveIffInChain`, `ParamsFollowPlugins`,
  `HandlesOwned`).
* **Hot reload**: `ReloadsSound` (what is mapped never changes and is whole in the
  end, no copy is left; the registry is in order), `NewestUsed` (`NewestLoaded`,
  `NewestRamps`).
* **Memory**: `HeapSound` (`Tiled`, `Coalesced`, `HeldIsLive`, `StatsExact`, for any
  pointer given to `nl_free`), `CollectionExact` (nothing reachable is taken,
  nothing unreachable stays, what is pinned stays), `NoFailureWithGarbage`.
* **Recorder and replay**: `NeverOverwrites`, `CastSound`, `FilesWhole`
  (`PairBelongs`, `SavedIsThere`, `NeverHalf`, `NoTmpLeft`), `PictureExact`,
  `StampIsDate`, `ReplayExact` (`ShownIsRecorded`, `NothingMissed`, `Paced`).
* **Encoder**: `EncoderSound`, `FrameSent` (`MissingIsPending`, `FitsAndClean`),
  both for cells outside the marks of every frame and outside `untold`; `Settles`,
  on a link that carries a repaint between two ages (`Carried`).
* **Mouse and window**: `DragSound` (`DragBaseIsFrame`, `OutlineShowsPending`),
  `FrameInside`, `OppositeCornerStays`, `ReleaseAdoptsPending`, `WindowSound`
  (`PictureFits`, `NothingStale`).

### What does not hold

The run plugin_catalog_two shows the one disagreement with the documentation that
concerns several programs: two instances that build one plugin share `.tmp`, and
one can publish half a library of the other. `PROJECT.json` quotes both sides.

Other deviations were met while modelling. The models have the behaviour, except
where it is said that they leave it out, and the properties above are stated so
that they hold beside it.

*Frames and camera*
* An acquire can report failure while a frame published before it is waiting: the
  thread publishes and fails between the empty poll and the look at `failed`
  (`thread_sharing.c:138`).
* A `bytesperline` of 0 leaves the stride 0, so frames that are short are shown.
* Exposure or white balance switched to manual by a key are not put back at the
  end, only the priority is (`capture_linux.c:177`); a value that cannot be read
  counts as the least.
* The first key for exposure switches the automatic off, and whether that failed is
  not looked at (`capture_linux.c:453`). The camera then goes on to set its exposure, while the
  panel shows the one it was told, and no later key tries again. `ShownIsSet` has
  the camera told and the panel in agreement always, and the camera and the panel
  where it did not refuse.

*Input*
* A sequence with parameters (F5, Delete, Ctrl with an arrow) is not taken as a
  whole, against the comment at `main.c:1805`, which counts F1 to F12, Home and End
  among those that are dropped: its last bytes reach the hotkeys or the picker. A
  letter with Alt is taken for ESC and lost. `Longer` names these, and their
  events are torn.
* ESC is told from a sequence by 25 ms without a byte, counted from when the loop
  reads it (`main.c:780`). A key typed within that time, or before a frame that was
  slow is over, is swallowed with it: `[` and `O` begin a sequence that takes one more
  key, any other key is lost while ESC is obeyed (`main.c:1750`, `1811`). The events
  that run together with an ESC this way are torn, those behind are not.
* During a preview any byte ends it: a down arrow's last byte then closes the
  browser, and a mouse report ends it too. A late end of an arrow is taken for keys.
* A replay, a preview and the line after them do not look at `keep_running`, so
  SIGINT does nothing there (`browser.c:478`, `772`); a looped recording whose
  events are all at time 0 never looks at the keyboard.
* Names of one second are not in the order that `browser.c:125` promises ("Z-1"
  before "Z", "-10" before "-2"), and only the first 64 are listed.
* `+` pressed after a slow write counts the lag at the doubled speed. The help text
  gives p and o for a depth that is bound to + and -.

*Start and end*
* A start that fails after plugins were loaded, and fatal signals, leave private
  copies on disk; fatal signals leave the alternate screen. A clock that cannot be
  read ends the program with the terminal raw, on the alternate screen and reporting
  the mouse (`main.c:1579`; `Session` calls this "stuck"), and a fatal signal between
  tcsetattr and the flag leaves it raw ("torn"); `TerminalGivenBack` is about the
  other ends.
* The buffer for colours is asked for whether or not the one for grays was given,
  and when only the first fails, the second is not freed (`main.c:1426-1435`).
  `RefusedReleases` names it.
* What is reported of a recording at the end is written to the screen that is then
  left.

*Plugins*
* An edit and its reversal under one build are not noticed, and the library that was
  made in between is taken, stamped and offered, against "Source swapped mid-build |
  discarded" (`../README.md:298`) and `plugin_catalog.h:107`. A change under a build
  whose end nobody sees, and a build whose inputs could not be hashed and whose end
  nobody sees, leave a stamp that may be wrong. `spoiled` marks these, until the next
  build is taken or discarded in the cache.
* A broken shipped library is rebuilt where it is, and stamps the old one in the
  cache, which a later session offers (`spoiled` again). A full list marks a shipped
  library as failed for the session (`main.c:813`). A ready entry is loaded without a look at its inputs
  (`main.c:1890`).
* Only 128 headers of a directory are hashed (left out). The message of a compiler
  that is missing is overwritten by the one of a missing make (left out).
* The watch is added after the load, so a build in between is missed until the next
  one; the same holds for ramps. Two programs, or two places, that load one library
  in one second share the name of the private copy, and the second truncates what
  the first has mapped, against `plugins.c:77` (with two programs in `Programs`, TLC
  finds `MappedNeverChanges` violated). Where no copy can be made the library itself
  is mapped.
* "hot-swap FAILED - old filter retained" is shown after the old one was closed.

*Screen*
* On a slow link the periodic repaint can start over before it is complete, with
  less than a repaint's worth of budget between two of them: such a picture need not
  settle (`Carried` is what `Settles` asks of a link; the slowest of the run has
  pictures without it).
* The marks of every frame, corners and rows of the panel on a low terminal, are
  drawn behind the encoder's back. It goes on believing that its own cells are there,
  against "what terminal shows" (`netenc.h:45`). A frame sent past the encoder for want of memory is not followed by a repaint
  either, nor is an overlay that comes and goes between two frames, or a stray write.
  The periodic repaint mends all but the marks, and none of them is counted as pending
  (`netenc.h:56`); the count includes cells that were sent as gap fill.
* `-s` has no effect, the registry's first ramp replaces it (`main.c:1475`); ramps of
  several bytes a character are cut into bytes; in half blocks the last column of a
  frame of odd width is not drawn, and keeps what was there; a ramp file that is
  deleted or made blank keeps its ramp.
* A press outside the frame after a lost release leaves the outline, and a frame
  below the least size is resized but its new place dropped.

*Memory*
* An address just past the arena does not keep the arena's last block.
* A collection needs memory for its own index, and without it collects nothing
  (`nl_gc.c:178-184`). That is not modelled: `CollectionExact` and
  `NoFailureWithGarbage` are about collections that take place.

## 4. Fairness

Where no property is about progress there is none. Elsewhere:

* `NlMutex` and `FrameExchangeLocked`: a thread that is inside a function goes on;
  a thread may stay away for ever. The kernel schedules runnable threads.
* `CapturePipe`: both threads go on; the camera may stall for ever (its wait times
  out), and the user may never quit.
* `V4L2Capture` and `Camera`: the program's steps of a capture, and of a re-opening
  that has begun, go on; neither driver nor user has to do anything.
* `PluginCatalog`: the loop polls, once an iteration, and the steps of a compiler
  go on.
* `HotReload`: the loop's checks of plugins and ramps go on, each once an iteration;
  a builder or an editor that has begun to write finishes. Nobody has to begin.
* `NetEnc`: frames go on being shown. Nothing else has to happen: that overlays end,
  or that a buffer can be had, is never assumed.

## 5. Proofs

| Module | Results | Of the run |
| --- | --- | --- |
| `FrameExchangeLockedProofs` | of the mutex alone `TypeCorrect`, `Exclusion`, `NoLostWakeup`, together `MutexIsSafe`; of the exchange under it `ExchangeMutexIsSafe`, `LockedIsSound`, `CriticalSectionsAreAtomic` | frame_exchange_locked, all but `Progress` |
| `CapturePipeProofs` | of the exchange alone `RolesAreExclusive`, `NoHalfWrittenFrame`, `HeldFrameIsStable`, `IsLatestFrame`; of the pipe `PipeIsSound`, `PipeIsMemorySafe`, `FrameInUse`, `EveryFrameAccounted`, `PipeStepsHold`, `PipeFollowsProtocol`, `PipeIsLatestFrame` | capture_pipe, all but `PipeProgress` |
| `CameraProofs` | `CaptureIsSound`, `CameraIsSound` | camera, all but `CaptureProgress` |
| `PluginCatalogProofs` | `CatalogIsSound`, `UnspoiledOffersAreCurrent` | plugin_catalog, all but `BuildsServed` |
| `PluginProofs` | `ChainIsSound` | plugin_chain, all |
| | `ReloadsAreSound` | hot_reload, all but `NewestUsed` |
| `SessionProofs` | `ImageIsSound`, `SessionIsSound`, `EventsAreHandled` | session, all |
| | `DragIsSound`, `CornersStay`, `ReleaseIsExact`, `FrameStaysInside`, `WindowIsSound` | mouse_drag, all |
| `OutputProofs` | `FilesAreWhole`, `RecordingIsExact`, `NothingIsOverwritten`, `PicturesAreExact`, `NamesAreDates`, `ReplayIsExact` | recorder, all |
| | `EncoderIsSound`, `FrameIsSent` | netenc, all but `Settles` |
| `NlGcProofs` | `GcInvariant`, `HeapIsSound`, `CollectionIsExact`, `NoFailureIsSpared` | nl_gc, all |

The assumptions are the named ones of the modules: at least three slots, natural
bounds, some thread; limits of the frame in order; places for the chain and names
for its entries; ranges of controls that are not empty; pictures and blocks with at
least one byte; years of 1970 to 9999, which the calendar of the code is for; an
arena of at least one block; a list of recordings that may be empty. `ImageAssumption`
has unsigned sizes, and an address space that takes all that `NL_MAX_VADDR` and
`NL_MAX_SPAN` let through. `EventsAssumption` says what the user can do: type a key,
press ESC, an arrow or a sequence that no key is bound to, whatever its length, or
move the mouse to coordinates of at most five digits. `GcAssumption` says of addresses what the kernel
sees to: a mapping lies outside the arena, all of it. `CharsetsAssumption` says that
no ramp file is named as the built-in ramp. `LinksAssumption` has no cell cost more
than a budget, which `main.c` makes at least 300 bytes; `PicturesAssumption` and
`ScreenAssumption` have a picture in cells of the terminal and an outline with a
corner. `TextsAssumption` has no frame without text, as each begins with the cursor
sent home; `TimesAssumption` is a bound of the model, times of one digit;
`SpeedsAssumption` holds of 1.0 doubled and halved between the 0.0625 and 16 of
`browser.c`. `CatalogIsSound`, `UnspoiledOffersAreCurrent` and
`ReloadsAreSound` also assume that there is one program, for with two they do not
hold, and the last that there is room for four files.

* **Frame exchange.** The inductive invariant adds `FillingIsNewest` to type,
  roles and whole frames: the slot being written holds the frame produced last
  (or is torn), and all others are older. Without it a publish could make an old
  frame the newest. `FirstFreeIsFree` shows that among three slots the scan
  always finds one that is neither waiting nor held. The refinement maps a step
  on the critical sections to a step on the box, and filling to a stutter.
* **Mutex.** Exclusion needs that the word is 1 just while someone is inside. A
  lost wake-up is excluded because a thread falls asleep only on a 1, and whoever
  made the word 0 still has its wake-up to do, or the woken thread is about to
  exchange.
* **Exchange under its lock.** Every step is a step of the mutex, so its invariant
  is inherited. `Inside` ties the counter of each thread to the mutex, so both are
  never in a section; what a half-executed section has done is a function of its
  counter, and the refinement shows the variables of `FrameExchange` as they were
  before the section until its last access. The scan is a loop: `ScanFindsFirstFree`
  relates its index to the slot the atomic section picks.
* **Pipe.** `Control` ties both program counters to stop, failed, the thread id,
  the slots and the camera; memory safety and the finality of failure follow.
  `Protocol` ties the capture thread's counter to the writing slot, which makes
  each of its calls a step of `FrameExchange`, so what is proved there holds here
  (`SlotsInvariant`). `Delivery` relates frames taken, waiting and dropped to those
  published.
* **Camera.** The property is not inductive: `MemoryOK` (what is mapped is just what
  is counted), `DeviceOK` (open, streaming and the priority follow the counter),
  `LocalsOK` (which local holds a buffer where), `OwnedOK` and `OutgoingOK` are. A
  queue without duplicates shows that a dequeued buffer is not one in hand. For
  re-opening, `TaskOK` says what each task has and has not, and needs that memory
  was refused only for a mode that does not fit. For the controls, `SetOK` needs
  that the automatic was tried before the camera is told anything (`Tried`).
* **Catalog.** What is at rest is sound because of what is under way (`Pending`): a
  child's library will be thrown away, as no hash was had or the inputs differ from
  the hashed ones, or nothing has changed since and the compiler reads exactly what
  was hashed; and until the end is polled the stamp is none or the right one. An
  edit moves a build from the third case to the second, a kill is honest in the
  third only. `FilesOK` gives whole libraries, `Vouched` the stamps and what is
  found in the cache. For what is taken from a build, `SeenOK` counts the changes
  under it: none, and it reads what was hashed; or one, and the hash differs.
* **Chain.** The property is inductive as it stands. Shifting the arrays down needs
  that the places before and after are the same but for one; that there is a fresh
  name for a plugin given by `-p` is a pigeonhole on cardinalities.
* **Hot reload.** `LoaderInv` says which inodes the names stand for at each step of a
  load (`NamesOK`, `StageOK`): the copy is neither the library nor the file a builder
  writes, so what is mapped stays. `CopyOK` is why a torn library is not kept: unless
  a write is going on or an event waits (`Noticed`), the source of a copy is whole,
  and the copy is a part of it, then all of it. The registry of ramps has an invariant
  of its own, as the two share no variable.
* **Mouse.** `DInv` (the pending frame keeps the edges that are not dragged) for the
  corners, and `FitOK` on top of it for the terminal; the clamps are one lemma,
  `DragRectOK`, with all cases of the grabbed corner.
* **Window.** The invariant (`BufferOK`) is that the buffer has the size computed from
  the frame; that it suffices in every mode is arithmetic (`BufferSuffices`). The
  length of a picture is a recursive function along a row, of which `LengthBound` is
  the bound the code's formula rests on.
* **Plugin in memory.** `ImageSound` is not inductive: that a segment is laid over no
  other needs what `CheckHeader` found of all headers (`HeadersFit`), and that nothing
  else is touched that the reservation spans them (`Confined`). `SegmentsLaid` names
  for each segment its header, one not read before, so a later one shares no page
  with it, and mapping it keeps what is laid. A word is in a page by division
  (`PageBounds`); that unmapping frees just the reservation rests on its ends being on pages.
* **Session.** `LifeInv` says for each stage of `main` what the terminal shows
  (`ScreenInv`), what may be held (`HeldInv`) and how far the plugin is (`PluginInv`).
  Each way out passes the stages that give back what those before it took. That nothing
  is left also needs the image's invariant: a library that is closed has no mapping.
* **Keyboard.** `KeyInv` has three parts. `InboxOK`: what is not read is an end of the
  bytes of the events that are not handled. A byte that is read shortens both, and an
  event leaves the history when what is unread fits in the bytes of the rest; of two
  ends of one text the shorter is an end of the longer (`LongerSuffix`).
  `LoopOK`: the reader's state, and browser, picker and selection as each operation
  leaves them (`UiOK`), whatever the order. `TextOK`: what is read is a byte, by
  cases of what the terminal sends. All three are kept by a run's other steps.
* **Events.** `KeyInv` does not say where an event ends; `Synced` does. For a whole
  event it gives the state of the reader as a function of the bytes that are read of
  it (`Place`: before it, after ESC, after ESC [, swallowing, or in a report with the
  upper digits of a field, `InReport`), and for a torn one that it is there or idle
  (`Headed`). Behind an ESC that what follows ran into, the reader may be
  anywhere (`Lost`); what is there is torn, with all of the queue behind it (`Spread`).
  `EncodingIs` lists what an event's bytes may look like, `DecimalIs` that a number's
  digits, taken in one by one, give the number. A step then moves within the first event
  (`OneByte`, a stutter), takes its last byte (`LastByte`, which is `Handle`), loses the
  rest of it (`Tears`, which is `Misread`), or throws away what has arrived
  (`ThrowsAway`, which is a cut anywhere in the events behind it). A byte is never
  missed, as the history drops an event just with its last byte (`UnhandledIs`).
* **Files.** `FilesInv` keeps that every picture in the directory is whole and of its
  text's frame (`DiskOK`), what each step of a screenshot has left (`ShotOK`, `PngOK`),
  and that an active recording is the text of what was seen (`RecOK`); its steps also
  keep every other file (`Kept`), from which `NothingIsOverwritten` follows. `Distinct`
  of a longer history is that of the shorter one (`DistinctRepeat`), or that and one
  frame more (`DistinctNew`), by counting the frames that are the first of their run.
* **Pictures.** `StreamInv` relates bytes written, blocks and the announced length of
  IDAT by multiplication: the blocks before the last are full, only the last is
  final, and together they are the announced length. `RawCopyIs`: the copy of a
  block, row by row with their filter bytes, is the next bytes of the raw stream.
* **Dates.** No state is involved, all is arithmetic: the days before a year, a recursive
  function in `CivilDate`, are 365 for each and the leap days (`DaysBeforeIs`), and a
  day's number lies in just one era, year of it and month of the code's calendar,
  which starts in March (`YearSplit`, `DayOfEraIs`, `MonthOfYear`).
* **Replay.** `ReplayInv` says where in the file a replay is: the buffer is the part
  that was read last (`WindowOK`); what was looked at is nothing, or ends with some line,
  and as many pictures were shown as the lines until there have (`PlaceOK`). The next
  newline ends the next line that was recorded, and parsing gives back what was written: the parser is a function
  downwards from the end of the data, so is the proof. The file's text is a flattened
  sequence of lines, a fold, so the place where a line begins is the sum of the lengths
  before it. `ClockOK` has the clock, with all it still
  owes, no further than the time that has passed at the fastest speed.
* **Encoder.** `NetInv` is about the screen only while no repaint is due
  (`Undisturbed`): then what the encoder remembers is there, unless it remembers
  nothing, outside the marks and `untold` (`Remembers`); and the cells that are missing
  besides are at most those counted (`Counted`). A frame is a walk over the grid; `Settled` says what holds between two cells of it: each cell is as it
  was or as the picture has it, in memory and on the screen alike, those left out are
  counted, and the buffer has room for the reset at the end. `Wired`: the colours the
  encoder believes selected are the terminal's. A gap is sent only if it
  fits with the cell behind it (`GapIs`).
* **Allocator.** `GoodHeap` says of the heap that blocks tile the arena, no two free
  ones meet, mappings are outside it and in use, and no mark is left between calls. Splitting (`TakenOK`), merging on both sides (`ReleasedOK`) and
  sweeping (`SweptOK`) keep it. `HeldOK` says that the blocks the program holds are the
  live ones and as long as it asked for, `Counted` that the statistics are the
  number and the sum of what is live; a sum is a fold of the community modules, of which `SumAdd`
  is all that is needed.
* **Collector.** What is marked is a least fixed point of rounds over the heap.
  `MarkedOK` shows that the rounds end there: every round but the last finds a block,
  and there are more rounds than blocks. So a block is marked just if it can be
  reached (`MarkedReachable`), which is exactness; in a program that does not collect,
  no block is collectable. For a refusal, `LongerRun` and `NoneDead` compare the
  arena that was searched with the one a collection would leave: if the second has room and
  the first has not, there is garbage, and then the code has collected.

Theorems of the library that take an operator are out of the provers' reach, so
induction is done over sets: `Induction` in these modules says that a set with 0 and
the successors of its members has all numbers up to any bound, and is proved from the
pigeonhole principle of `FiniteSetTheorems`. That is how the sums, rounds and days
above are dealt with.

Only model-checked:

* all liveness (`PipeProgress`, `Progress`, `CaptureProgress`, `BuildsServed`,
  `NewestUsed`, `Settles`), whose proof would need fairness and ENABLED.

Every invariant, action property and refinement of a passing run is proved.

## 6. Not modelled

* Filters, the renderer's pixel arithmetic (scaling, edges, dithering, choice of
  glyphs), formatted output, hashes, string functions: sequential data processing
  without state that outlives a call.
* The system layer (system calls, termios, inotify wrappers), which the modules
  assume to do what it documents; the paths and the configuration file, read once
  before anything runs beside them; options.
* macOS and Windows back ends, the build tool, the demo source, frame timing.
* The condition variable: nothing in the program waits on one.
* Drawing of panel, corners and pickers, wording of messages; the browser's scan
  of the directory; look-up of symbols by name in a library.
* Allocation failure outside the allocator, except where a module says so.

Limits of what is modelled: the user types into one kind of session; what is typed before the terminal is raw is flushed by it; a program
starts again only when what its last session left running has ended (otherwise
plugin_catalog_two's half library can appear); hashing the inputs is one step; a
capture is replayed after the program that wrote it has ended.

## 7. Plan

What could still be added, in order of what it would show:

1. **Two programs** in the loader and the recorder at once, once the names of copies
   and temporary files are their own.
2. **The status panel and the configuration file**: what is shown of each option
   against what is in force.
3. **Formatted output** beside a reference definition, for the widths of numbers.
