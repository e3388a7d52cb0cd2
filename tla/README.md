# TLA+ models of os-autoinst

os-autoinst runs tests of operating systems: it starts a machine, types into
it, looks at its screen and its serial console and decides whether what it
sees is what a test expects. This directory models the parts of it that
coordinate several processes or keep state over long sequences of steps,
checks the models with TLC and proves theorems about them with TLAPS. Paths of
the source are relative to the repository; line numbers are those of the
commit the models were written from. `PROJECT.json` maps every definition that
models code to its lines.

## The system

### Processes and what they say to each other

```
   developer mode clients          autotest (test modules, testapi)
            |  websocket                 |  test_fd
      command server -- cmd_srv_fd -- isotovideo (Runner + CommandHandler)
                                         |  backend_fd / backend_out_fd
                                     backend process (capture loop, consoles)
                                         |  QMP, qemu-img, VNC, pipes
                                     QEMU, video encoders, consoles
```

`isotovideo` starts three processes and then only serves them. All four talk in
JSON messages with a token (`myjsonrpc.pm`): a request carries a random token
and its response the same one. autotest has one query at a time under way and
waits for the answer; clients of the command server send whenever they like and
wait for nothing; isotovideo asks the backend either synchronously, for a call
of its own, or forwards a command of autotest and sends the reply back when it
comes. The backend is one thread, `do_capture`, that takes screenshots, writes
video, answers commands and waits, all from one `select`.

### Components

For each component: its state, its operations, what is hard, what makes it
correct. "Modelled in" names the modules; "planned" and "left out" say so.

| Component | State | Operations | Hard behaviour | What makes it correct |
|---|---|---|---|---|
| Command handler (`OpenQA/Isotovideo/CommandHandler.pm`) | conditions to pause, reason for pause, one slot for the postponed command, one for the backend requester, screen check in progress, status file | one handler per command; check of the screen; reply of the backend | the slots are shared by autotest and all clients; resume runs a postponed command again in the same invocation; handlers block in calls | each query is answered once and by its own answer, a pause can be ended, everybody sees the pause there is. Modelled in `CommandHandler` |
| Main loop (`OpenQA/Isotovideo/Runner.pm`) | readable handles, loop status | select, one message per handle, interleaved replies, screen check; teardown and exit code | readiness is stale after a handler has read the channel itself; buffered messages are not seen by select | no message waits for ever. Modelled in `Isotovideo`, the teardown in `Shutdown` |
| JSON messages (`myjsonrpc.pm`) | parser buffer per socket, handler for interleaved messages | send, read with and without token, list mode | fragments; a reply with another token; QUIT and EOF | Partly in `Isotovideo`, list mode in `CaptureLoop`, EOF in `Shutdown`; fragments planned |
| Queries of autotest (`autotest.pm`, `testapi.pm`) | the query under way | query, the two queries after a screen timeout, pause on failure, tests_done | the answer is taken whatever its token | Modelled in `Isotovideo`; promise in `QuerySession` |
| Test schedule (`autotest.pm`, `basetest.pm`) | module of the round, fatal reason, last milestone, consoles activated since | runalltests, snapshots and rollbacks, reset of consoles | flags of several modules and settings combine; guest, backend and autotest disagree about consoles after a rollback | nothing left over from a failed module, no fatal failure reported as success, no console taken for logged in that is not. Modelled in `TestSchedule` |
| Command server (`commands.pm`, `OpenQA/Commands.pm`) | websocket clients, HTTP requests | forward, broadcast, answer HTTP | an HTTP route waits for a message while the reactor reads the same socket | each request gets its response. Only the source of messages; planned |
| Backend driver (`backend/driver.pm`) | response channel | start, stop, synchronous calls | loss of the channel | a call returns although the backend ends. Modelled in `CommandHandler` and `Isotovideo` (the synchronous call) and `Shutdown` (stop, loss of the channel) |
| Capture loop (`backend/baseclass.pm`, `OpenQA/NamedIOSelect.pm`) | pending waits, postponed token, last screenshot, select sets, encoder queues, rate buckets | do_capture, one handler per command, nested loops of handlers that type, stop_vm, SIGTERM | nested loops answer later commands first; replies are postponed; SIGTERM anywhere; writes in parts | every command answered once, QUIT last, stillness measured against the right picture, encoder streams intact, watchdog right. Modelled in `CaptureLoop`, `SelectRate`, `EncoderQueue`, with the encoder in `VideoPipeline`; promise in `BackendService` |
| Screen matching (`backend/baseclass.pm`, `needle.pm`, `cv.pm`, `ppmclibs/tinycv.pm`, `tinycv_impl.cc`) | tags, deadline, last candidates, needle cache; gray copies of images | set_tags_to_assert, check_asserted_screen, search | deadline against slow searches, reload of needles; images prepared for one search are used in the next | a place found is one of the best. The search is modelled in `NeedleSearch`; deadline and cache planned |
| QEMU and snapshots (`backend/qemu.pm`, `OpenQA/Qemu/*.pm`) | chain of snapshots, overlays per drive, RAM files, `qemu_state.json`, the QEMU process | save and load a snapshot, save and load the state | object model, files and the state file must agree over rollbacks, failures, SIGTERM and a later job | a loaded snapshot is the guest as saved. Modelled in `QemuSnapshots`; QMP, networking and images left out |
| Multi-machine locks (`lockapi.pm`, `mmapi.pm`) | on the server | mutex and barrier calls | a request is repeated after a lost answer | planned |
| Shutdown (`script/isotovideo`, `Runner.pm`, `Backend.pm`, `signalblocker.pm`) | return code, running processes, state of the machine | stop each process, extract images, exit code | signals and ends of processes in between, also within a handler; the code is 0 before the loop runs | no failed run reported as success, no process left, images from a machine at rest. Modelled in `Shutdown` |
| Job variables and logs (`bmwqemu.pm`, `log.pm`) | vars.json, copies in each process | load, save | each process writes its own copy | planned |
| Serial terminals (`consoles/serial_screen.pm`, `virtio_terminal.pm`, `ssh_screen.pm`) | carry buffer | read_until, type_string | a match split over two reads, bytes after a match | planned |
| Graphical consoles (`consoles/VNC.pm`, `vnc_base.pm`, `video_base.pm`, `video_stream.pm`, ...) | connection, framebuffer | activate, select, reset, reconnect | loss of a connection in a request; encodings that carry state from tile to tile | the framebuffer shows what the server meant. Decoding is modelled in `VncFramebuffer` and `Ast2100`; connections planned |
| Consoles of other machines, other backends | connection data | calls of external tools | retries | left out: sequences of commands for external tools without state of their own |
| Test API, distribution | background scripts, options | composition of backend queries | | planned: wait_serial and background scripts |
| Needle download, checkouts, websocket bridge, network switch service | | sequential file and network operations, D-Bus service around ovs-vsctl | | left out: no protocol of their own |
| Video encoder, viewer (`videoencoder.cpp`, `debugviewer/debugviewer.cpp`) | repetitions of the last image, planes, `last.png` | read a command, write a frame, write a picture | the pipe ends anywhere; frames are written late; files change under the viewer | one frame per screenshot; the picture is the last image; it ends. Modelled in `VideoEncoder`, joined to the backend in `VideoPipeline` |
| Threads of OpenCV (`tinycv_impl.cc`, `signalblocker.pm`) | blocked signals, pool, counter under a mutex | create_opencv_threads | threads wait for each other | no later thread takes signals; no deadlock. Modelled in `OpencvThreads` |
| Images and sound (`tinycv_impl.cc`, `tinycv_ast2100.cc`, `snd2png/snd2png.cpp`) | images, prepared copies; a sound | search, scale, decode; spectrogram; colours of the video | bounds, offsets and caches | places, bits and pixels inside and right. Modelled in `NeedleSearch`, `MinVec`, `VncFramebuffer`, `Ast2100`, `Spectrogram`, `Colours` |

The hazards, each at its line and with the properties that watch it, are the
list `hazards` of `PROJECT.json`.

## The modules

```
   CommandHandler <- Isotovideo <- MCIsotovideo      Isotovideo implements QuerySession
                         ^---- IsotovideoProofs
   TestSchedule <- MCTestSchedule
        ^---- ScheduleProofs
   CaptureLoop <- MCCaptureLoop                      CaptureLoop implements BackendService
        ^---- CaptureProofs
   SelectRate
   EncoderQueue, VideoEncoder <- VideoPipeline <- MCVideoPipeline
                                      ^---- VideoProofs
   Pictures, MinVec <- NeedleSearch <- MCNeedleSearch
                            ^---- SearchProofs
   Pictures <- VncFramebuffer <- MCVncFramebuffer <- MCConsolePictures
   Pictures <- Ast2100 <- MCAst2100 <- MCConsolePictures
   OpencvThreads <- MCOpencvThreads
   VncFramebuffer, OpencvThreads, Spectrogram, Colours <- NativeProofs
   QemuSnapshots <- MCQemuSnapshots
        ^---- SnapshotsProofs
   Shutdown <- MCShutdown
       ^---- ShutdownProofs
```

The `MC` modules hold what a configuration cannot say: sets of records, orders
and symmetry. Operators whose name has the suffix `_bug` (and three variants of
`ResumeAnswer`) are what a plausible mistake would make of the operator below
them; they show that each property notices something, and take part in no
specification.

### CommandHandler, Isotovideo, QuerySession

`CommandHandler` has one operator per `_handle_command_*` method, with the
sender `fd` and the message `m`. Its variables carry the names of the object's
fields. The slot of the postponed command is three variables, as in the code,
because the handlers write them one by one. `reason` is a parameter where
`resume_test_execution` has just cleared the reason when it calls the handler of
the postponed command again. A handler that makes a synchronous call is two
actions: up to the request, which stays in `call`, and `FinishCall`. What other
processes do in between is what makes the call worth modelling. `version`,
`read_serial` and `send_clients` behave as `status` does.

`Isotovideo` adds the loop of `Runner::run` and the other parties. Each channel
into isotovideo is a socket (`sock`) and a parser buffer (`buf`): `select` looks
at the first only, and one `sysread` moves everything. `ready` are the handles
of the last select that still have to be served, in the order of their file
descriptor numbers, as `IO::Select` returns them. The backend answers driver
calls in order and other commands in any order later on.

`QuerySession` is the promise to autotest: five states of a query and one flag.
`QueriesServed` is the refinement of it by `Isotovideo`; `Session` says which
slots of the handler stand for which state.

### TestSchedule

One action per branch of `runalltests`; the guest is what it has seen (`ran`,
`logged_in`), snapshots are copies of it. `SelectConsole` is a console operation
of the running module with the whole chain behind it: testapi's
`select_console`, the backend's, the login. Flags and job settings are drawn in
the initial state. The inner life of a module is its outcome only.

### CaptureLoop, BackendService

`pc` is where the process is inside `do_capture`; `HandlePlain` stands for all commands that
are answered when they are handled, and `HandleSelectConsole` for the one of them that takes a
screenshot in its handler; `frames` is the stack of
handlers that have entered a nested capture loop, each with the rest of its list
of commands. Time is counted in ticks of the screenshot interval; the model
keeps ages. SIGTERM (`Terminate`) is possible between any two actions.
`BackendService` is the promise to isotovideo: one reply per token, QUIT last.

### SelectRate

The buckets of `check_select_rate` against a history of all hits.

### EncoderQueue

The queues of the two encoders, pipes that take any part of a buffer, the stop.
`InUpdates` decides whether SIGTERM may come inside the update of a queue: with
it the defect appears (below), without it everything else is checked. It runs as
a part of `VideoPipeline`.

### VideoEncoder, VideoPipeline

`VideoEncoder` is `main` of `videoencoder.cpp`: one action per command line, per
image that is read, per picture that is written and linked. Its input is a
sequence that only grows. A frame of the video is written late, when the next
image comes or its repetitions fill a keyframe interval; `Pending` is what is
still to be written, so that `VideoFollowsCommands` can be stated at any time.
`View` is a round of `debugviewer`. `VideoPipeline` joins the encoder to
`EncoderQueue`: what the backend has written is the input of the encoder, the end
of the stop closes it, a failed encoder makes the next write of the backend die
(`NotAccepting`), and one that is too slow is killed.

### OpencvThreads

`create_opencv_threads` between the creation and the destruction of the signal
blocker. The body of the parallel loop is two steps of a thread: `Arrive`, under
the mutex, and `WakeUp`. The pool of OpenCV is external: any free thread takes the
next body, and a worker is made when one is needed, up to the number set and the
limit of the library that the comment at `tinycv_impl.cc:330` describes. Later
searches are parallel loops too (`Search`, `TakeStripe`, `SearchReturns`), with
more stripes than there can be threads: they would make what the pool lacks.

### NeedleSearch, MinVec, Pictures

`Pictures` has pictures as sequences of rows, and rectangles. `NeedleSearch` is a
sequence of screenshots and searches: the console changes its picture in place,
`Capture` scales it, `Search` copies the screenshot if areas are excluded,
`Match` prepares both images and compares them at all places, `FindMins` is a
round of `minVec` (in `MinVec`, where it is proved about) and `Choose` takes the
closest place. A pixel is its gray value; the blur is a 3x3 kernel with the
reflected border of OpenCV, up to its factor. The prepared images are kept from search to search
as in the code, with the area in which they are blurred (`prep_roi`). The
comment above `image_replacerect` says that pixels become 0; the code fills with
green, and for the model only matters that it is one colour.

### VncFramebuffer, Ast2100

Both decoders are state machines over one message: `VncFramebuffer` reads one
tile or one run of a tile at a time, `Ast2100` one code of a block. The MC modules
hold a server: it encodes pictures in every way the decoder knows and says with
each message what it means by it. The properties compare the two; `MCConsolePictures` has a connection of either kind, so that
one run is for both. What a VNC server may
send is an assumption of `VncFramebuffer` (`UpdatesAssumption`): `IsUpdate` says for each
encoding which bytes stand for which values. Beside the bytes an update carries where
its tiles and runs begin (`tiles`, `runs`); the decoder does not look at these, they
only make it possible to say 'the next tile begins here' without a recursion over the
bytes. TLC evaluates the assumption for every update of the MC module. Sizes that the
protocols fix (64 for a tile, 255 for a byte that continues a length, 8 for a
block, 10 for the width of the fast table) are constants, so that small pictures
reach every border. In `Ast2100` the arithmetic on floats is abstracted: a pixel
is the coefficients of its block and its place, or the colours of the palette. What lies
behind the end of a message is read in advance and can be anything.

### Spectrogram, Colours

`Spectrogram` is `snd2png` with the transform abstracted to the greatest value of
a chunk: which samples are read, which chunks are drawn, and which bins and
pixels. `Colours` is the arithmetic of `rgb_to_yuv`, without state; what there is to say of it
is the theorem `VideoLevels`.

### QemuSnapshots

`chain` is the list from the first snapshot to `_head`, `layers` the block
devices of each drive above the base image, `files` the overlay files with their
backing file and what was written into them, `ram_files` the directory of RAM
files. Contents are the number of the guest's last step, so that two moments are
equal only if they are the same. `ReadFrom` is what QEMU reads: the first overlay with data on the
way down. `SkipTo` is a later job with SKIPTO on the same directory. `saved` is a history of what the guest was at each snapshot.

### Shutdown

The end of isotovideo, from the main loop on: `pc` is the position in
`Runner::run`, `handle_shutdown`, the END block or the handler of a signal.
`running` are the child processes, `collected` those whose end isotovideo has
noticed (the event `collected`): between the two, `is_running` still says yes, a
read finds EOF and a write throws. `Throw` is the way from any of these into the
END block. `Crash`, `Signal` and `Collect` are possible at every position. What
the messages say is left to `Isotovideo`; a handler answers, forwards, holds back
or calls the backend.

## What the runs check

All runs need the CONSTANTs of their configuration only; each is exhaustive
within its bounds. `MaxQueries` and the like stop an actor from starting more;
they never cut a step in the middle. Every safety run says CHECK_DEADLOCK FALSE
because the bounded actors stop: a run of tests ends, and so does the model.

| Run | What it checks | Bounds, and why they are enough |
|---|---|---|
| `isotovideo_clients` | Clients may send anything, commands for the backend included. Replies of the backend reach the requester they are for (`ReplyIsForRequester`); the answer that autotest takes has the token of its query, wherever it was kept (`AnswerHasToken`); the process is paused exactly while it holds an answer back (`PausedIffHeld`), the clients know (`ClientsSeePause`), the status file claims no pause that is over (`StatusFileNotStale`); a held test gets nothing (`HeldTestStands`) | two queries (the second may meet what the first left) and two client commands (one to disturb, one to resume), one test name, `set_current_test` with it or none. autotest waits for each answer, so no third query can be under way |
| `isotovideo_live` | Clients that pause and resume. `OneDebt`: while autotest waits exactly one slot or channel owes it the answer. `QueriesServed`: the loop implements `QuerySession`. `TestAnsweredOrHeld`: every query is answered, or held by a pause | as above |
| `schedule_safety` | A module finds nothing left over from one that should have been rolled back (`NoLeftovers`); a completed run skipped nothing after its first module and has no fatal failure (`CompletedRanAll`); nothing but `always_run` modules starts after a fatal failure and nothing is rolled back or saved (`FatalStops`); a rollback keeps every console that has a login in the snapshot, whatever milestones, rollbacks and reboots came before (`LoginsAreKept`) | four modules: a milestone, a change, a failure with rollback and a module that meets the result. Four flag sets, one per reason to roll back, stop, save or go on, in every combination; six job settings, one with a `SKIPTO` that names no module (then nothing runs, and `runalltests` returns 1 all the same). Two consoles, symmetric; two operations per module, each a `select_console` or a reboot of the guest. 9,887,211 states |
| `schedule_kept` | violation of `KeptConsolesAreLive`, see the findings | four modules that are milestones or not, failures, two operations per module: a login, a milestone, a reboot, another milestone and a failure need no more |
| `capture_safety` | Every command taken is at one place (`NoCommandLost`); one reply per command, QUIT last (`BackendServed`, refinement of `BackendService`); a screen called still has not changed for the whole still time (`StillIsStill`); with time passing each command is answered or the process ends (`CommandsAnswered`) | two requesters with two commands each: isotovideo forwards one at a time, and its driver waits for each reply; one nested round after the first; a timeout below and one above the still time; SIGTERM at any time, also inside `stop_vm` |
| `snapshots_safety` | The chain of snapshots, the layers and the overlay files agree (`ModelConsistent`); nothing is written below a snapshot (`SnapshotsIntact`); what a load restores is what was saved (`RestoredAsSaved`) | two drives, two modules and `lastgood`, three snapshots per job, two jobs on one directory, two writes of the guest, SIGTERM between any two steps, migrations that fail |
| `shutdown_safety` | The exit code 0 without an exception says that autotest was done and the images are extracted (`SuccessWithoutException`); images come from a backend that has ended, to publish only from a machine that was shut down (`ImagesAreAtRest`); no child outlives isotovideo (`NoOrphans`); the end of a child ends isotovideo (`EndOfChildEndsAll`), and so does the second signal (`SecondSignalEnds`) | one query, one message of a client, one child that ends out of turn, two signals: the first ends the loop and the second interrupts what follows, at every position. A result file that cannot be read is an exception, too. 104,242 states |
| `video_pipeline` | The encoder gets its bytes in order, none twice (`StreamIntact`), and all of them before the pipe closes (`RemainingPassed`); frames arrive if the encoder reads (`FramesDelivered`). What is in the video and what is pending are the screens of the commands read so far (`VideoFollowsCommands`), so that the captions, which count screenshots, are for the frames of the video (`CaptionsMatch`); after a command `last.png` is the last image if someone watches (`LastPngIsCurrent`); when the pipe is closed the encoder ends or is killed (`EncoderTerminates`) | one pipe, three frames (the first, one equal to the last image, one new), images in up to two parts, a keyframe after two frames, so that one repetition stays below and two reach it; one SIGTERM between any two operations, an encoder that hangs, fails to start or to encode; the live log comes and goes once; with the video and without (`-n`). 58,511 states |
| `opencv_threads` | No thread is made after the signals are let through again (`SignalsBlocked`); with the default number the loop ends (`DefaultReturns`) | the main thread and four workers, five CPUs, every number from the default (-1) over 0 to one more than the library allows |
| `needle_search` | The gray copy that is kept is that of the image of now, blurred wherever it counts as blurred (`PrepIsCurrent`); the place found is as good as any, up to `Slack`, if both images are blurred afresh (`FoundIsGood`); a screenshot stays what it was while the console draws (`ScreenshotStands`) | pictures of 8 x 2 pixels, one of the console that is too small, two changes of the screen; needles of the size of the screen, half as wide and too tall, two areas of one image (so that the second finds a copy prepared for the first), two areas to exclude, margins from 0 to everywhere |
| `needle_closest` | violation, see the findings | as above |
| `console_pictures` | A rectangle that is drawn shows what the server meant (`ShowsScreen`, in ZRLE for the shifts that `read_cpixel` is written for); exactly the bytes sent are read, in each tile those of the tile (`AllDataRead`). After a message of an ikvm the picture is that of the server (`PictureIsScreen`) | a connection is one to an ikvm or to another server, chosen at the beginning. Another server: five pixel formats: 24 bits with the colours in the low and, with the other byte order, in the high three of four bytes, 5-5-5 and 5-6-5 bits in either byte order, one byte with a colour map; two colour maps that change between updates, two updates one after the other, four drawings of 4 x 2 pixels and one of 2 x 4; tiles of 3, so that a second tile is narrower or lower than the first, and rectangles that begin at the edge or within; every pair of ways to encode the two tiles that fits; runs that go on over the byte of 2 (255 in the code), over the end of a row and to the end of the tile. Ikvm: blocks of 5 x 5 on a screen of 7 x 6, so that blocks are cut at both edges; tables with codes up to 6 bits against a fast table of 4, so that each of its three cases and the long codes occur; runs, a full block without an end mark, sums over blocks, colours kept and set again, positions that begin again, a message of another quality; two messages one after the other, with either value behind the end, and one whose length is no multiple of four. 177,746 states |

### Fairness

Safety runs use the specification without fairness. Fairness is assumed where a
process simply runs on:

- `Isotovideo!FairSpec`: the loop, the backend and autotest's reading are weakly
  fair, as processes that are scheduled. That a screen check in progress is polled
  needs strong fairness of `CheckNow`, because `CheckLater` (the last check is
  too recent) is possible each time; time passes, so the code takes it now and
  then. That the backend ends a check with found or timeout in the end is its
  deadline (strong fairness of these two verdicts). Neither autotest's queries
  nor the messages of clients are fair: a test may think for ever and nobody has
  to resume.
- `CaptureLoop!FairSpec`: the process runs, time passes, and strong fairness of
  `DisarmSigterm`: SIGTERM does not come again each time before `stop_vm` has set
  its handler aside.
- `EncoderQueue!FairSpec`: the process runs, and an encoder that reads makes its
  pipe writable again and again (strong fairness of the writes). An encoder that
  hangs disables them, so nothing is assumed of it.
- `VideoPipeline!PipelineSpec`: that of `EncoderQueue`, and the encoder process runs
  unless it hangs (weak fairness of `EncoderSteps`).
- `OpencvThreads!Spec`: the operating system runs every thread that is ready, and
  some thread takes a body while there is one and a thread for it. That a worker
  beyond the limit is made is not assumed. The loops of later searches go on in the
  same way.
- `Shutdown!FairSpec`: isotovideo runs on, the backend replies and quits while it
  runs, and the kernel tells of the end of a child (SIGCHLD). Signals, crashes,
  autotest and clients owe nothing.

## Findings

`needle_closest` (`tinycv_impl.cc:237`): the good places that `minVec` returns are
relative to the part of the scene that is searched, but `SortByClose` compares
them with the absolute position of the area. If that part does not begin at 0 and
there are several good places, the one taken is not the closest to the original,
as the comment at line 146 wants it: in the trace five places around an area at x = 4 are
equally good, and the one at x = 6 is taken instead of the area's own.

`schedule_kept` (`autotest.pm:622`): `last_milestone_active_consoles` only grows. In the
trace the first module selects both consoles and is a milestone; the second one reboots
the guest, which ends both logins, and is a milestone, too; the third one selects a
console, which logs in again, and fails. The rollback to the second milestone keeps that
console as activated because it was so at the first one, but in the snapshot nobody is
logged in. The comment at lines 641-643 exempts the consoles activated in the last
milestone only. To clear the list at a milestone is not the repair: after a rollback
`activated_consoles` is empty although the kept consoles are logged in, and
`LoginsAreKept` then fails (its mutant in the list).

The following have configurations of their own that are not in the list of runs;
TLC reports the property violated:

| Configuration | Property | What the trace shows |
|---|---|---|
| `isotovideo_overwrite` | `TestAnsweredOrHeld` | the slot of the postponed command (`CommandHandler.pm:113`) is taken without looking whether autotest's answer is in it. A client that sends a backend command in a pause makes the test wait for ever, although `autotest.pm:509` says that it will only block until resume. The developer mode sends no such commands; `OneDebtHolds` proves that without them it cannot happen |
| `snapshots_reload` | `StateReloads` | after a rollback and a further snapshot the chain in `qemu_state.json` has a gap, and `from_map` (`SnapshotConf.pm:77`), 'the inverse of to_map' (`MutParams.pm:39`), dies |
| `shutdown_exit_code` | `SuccessIsReal` | the exit code is 0 before the main loop runs (`script/isotovideo:193`). When the command server ends in the middle of a test, the loop ends, `stop_command_processing` writes to a closed socket and dies, the exception skips `handle_shutdown` with its 'unusual shutdown', and isotovideo exits with 0, which stands for 'a complete run' (line 61) |
| `shutdown_signal` | `SignalEndsLoop` | a signal between the check of the loop status and `select` is noticed with the next message only; `select` waits without a timeout unless a screen check is under way |
| `vnc_shifts` | `ShownAsAsked` | with four bytes per pixel `read_cpixel` (`tinycv_impl.cc:796`) takes the three bytes of a CPIXEL for blue, green and red, whatever the shifts are. If the console has no depth of its own (the `sut` console, `backend/qemu.pm:1071-1078`), or the one that the server prefers, `VNC.pm:371-396` asks for the shifts of the server ('Use server's values for *_max and *_shift', line 379). With red at 0 and blue at 16 a raw rectangle is right, because `read_pixel` keeps to the shifts, and a tile of ZRLE shows red as blue |

Two more configurations that are not in the list pass: `rate_safety` (the watchdog
fires only if some handle was met too often in a window, `OnlyRealRates`, and
always on a socket that spins alone, `SpinningIsFound`) and `spectrogram` (what
`AllIsInside` proves, `DivisorIsNotZero`, and that each loud chunk is drawn,
`LoudIsDrawn`). The definitions `TypeOK`, `NoBackendQueueNeeded`, `PoolIsComplete`,
`AllBusyAtOnce`, `MinsFound`, `OthersKept`, `RegisterHolds`, `ViewerGoesForward` and
`SelectedIffData` hold in the instances of their modules, too.

With other constants or another property the instances show where a property
stops to hold:

| Instance | Property | What the trace shows |
|---|---|---|
| `isotovideo_clients` with one query, and clients that also send `set_assert_screen_timeout` | `TestAnsweredOrHeld` | that command makes isotovideo read the backend channel inside a handler; the readiness found by select before is stale, and `read_json` blocks the loop |
| `isotovideo_live` with two messages of a client that ask for the status | `ClientAnswered` | two messages in one sysread: the second waits in the parser buffer, which select does not see, until more arrives |
| `schedule_kept` | `SelectedConsoleIsLive` | a rollback (`autotest.pm:654`) selects the console of the milestone in the backend only. A milestone that follows without a `select_console` stores the stale name, and the next rollback activates that console without a login, although `testapi.pm:1704` promises one; so does a milestone after a reboot, as `reset_consoles` leaves the name of the selected console alone |
| `schedule_safety` | `CurrentConsoleIsSelected` | after a rollback autotest's current console is not the backend's |
| `snapshots_safety` with `Jobs = 3` | `RestoredAsSaved` | with a third job the RAM file of `lastgood` may be younger than the newest snapshot of that name |
| `isotovideo_clients` with clients that also send `check_screen` | `AnswerHasToken`, `HeldTestStands` | the verdict on the client's screen goes to autotest, whatever it waits for: `tags` and the token of the check are one slot (`CommandHandler.pm:442`) |
| `rate_safety` | `BlamedHandleIsBusy` | the watchdog judges the past window and names the handle of the moment, which may have been quiet |
| `video_pipeline` with `InUpdates = TRUE` | `StreamIntact` | SIGTERM between `syswrite` and the update of the offset (`baseclass.pm:155`): `_stop_video_encoder` writes the head buffer from the old offset, and the encoder gets the part twice. `baseclass.pm:149-151` says of the buffer that it is 'written from a tracked offset' |
| `video_pipeline` | `EncodersAwaited` | if one encoder does not take its remaining frames in time, no encoder gets the time to finalize its video |
| `opencv_threads` with `SpuriousWakeups = TRUE` | `SignalsBlocked` | `wait` (`tinycv_impl.cc:376`) has no condition; a thread that returns early takes a second body, so the pool is smaller than asked for and grows later |
| `vnc_shifts` with `Infos <- WideInfos` | `ShownAsAsked` | colours in all four bytes: the server sends CPIXELs of four bytes, `read_cpixel` takes three, and all tiles behind the first are read from the wrong offset (`ShowsScreen` and `AllDataRead` leave this format out) |
| `video_pipeline` with `OutputVideo = {FALSE}`, `MaxToggles = 3`, `Sigterms = 0`, as an invariant | `ProducedPngIsLast` | with the option `-n` an image is decoded only if someone watches at that moment (`videoencoder.cpp:366`); when someone begins later, the picture produced is of an older image, although line 32 calls it the last |

Reading `backend/qemu.pm` and `OpenQA/Qemu` beside the model showed more that the
model ends before: `load_state` that dies halfway leaves `stop_vm` to save a state
without drives over the useful one (`Proc.pm:533-536` refuses only an empty chain),
SIGTERM inside a revert leaves a state that cannot be loaded, and the error of
the second `blockdev-snapshot-sync` is ignored. `doc/backend_vars.md:37` names a
default of 15000 for the check of the select rate where `baseclass.pm:74` has
30_000.

## What is proved

`tlapm` proves every theorem below for every value of the constants: any number
of modules, consoles, queries, clients and commands.

| Theorem | Statement | From |
|---|---|---|
| `IsotovideoProofs!TypeCorrect` | `TypeOK` of `Isotovideo` | the assumptions on the constants |
| `IsotovideoProofs!ClientsAreTold` | `Spec => []ClientsSeePause` | |
| `IsotovideoProofs!StatusFileIsTrue` | `Spec => []StatusFileNotStale` | |
| `IsotovideoProofs!PauseHoldsAnswer` | `Spec => []PausedIffHeld` | |
| `IsotovideoProofs!OneDebtHolds` | `Spec => []OneDebt` | `ClientCommands \subseteq DeveloperCommands` |
| `IsotovideoProofs!OneSlotIsEnough` | `Spec => []NoBackendQueueNeeded` | the same |
| `IsotovideoProofs!MainLoopServesQueries` | `Spec => QueriesServed`, the refinement of `QuerySession` | the same |
| `IsotovideoProofs!AnswersAreOwn` | `Spec => []AnswerHasToken` | `TestOnly`: clients send anything but `check_screen` |
| `IsotovideoProofs!PauseHoldsTest` | `Spec => HeldTestStands` | the same |
| `IsotovideoProofs!RepliesReachRequester` | `Spec => []ReplyIsForRequester` | the same |
| `ScheduleProofs!TypeCorrect` | `TypeOK` of `TestSchedule` | the assumptions on the constants |
| `ScheduleProofs!FatalIsFinal` | `Spec => FatalStops` | |
| `ScheduleProofs!NothingIsLeftOver` | `Spec => []NoLeftovers` | |
| `ScheduleProofs!CompletionIsHonest` | `Spec => []CompletedRanAll` | |
| `ScheduleProofs!LoginsKept` | `Spec => LoginsAreKept` | |
| `CaptureProofs!TypeCorrect` | `TypeOK` of `CaptureLoop` | the assumptions on the constants |
| `CaptureProofs!CommandsAreHeld` | `Spec => []NoCommandLost` | |
| `CaptureProofs!StillnessIsMeasured` | `Spec => StillIsStill` | |
| `CaptureProofs!ServiceIsKept` | `Spec => BackendServed`, the refinement of `BackendService` | |
| `VideoProofs!PipesAreWatched` | `PipelineSpec => [](TypeOK /\ SelectedIffData)` | the assumptions on the constants |
| `VideoProofs!StreamsAreIntact` | `PipelineSpec => [](Undisturbed => StreamIntact)` | `Undisturbed`: no SIGTERM came in the middle of an update, which is needed (see above); `InUpdates = FALSE` is enough for it |
| `VideoProofs!NothingRemains` | `PipelineSpec => [](Undisturbed => RemainingPassed)` | the same |
| `VideoProofs!EncoderIsTyped` | `PipelineSpec => []EncoderTypeOK` | the assumptions on the constants, also with SIGTERM inside an update |
| `VideoProofs!VideoIsTrue` | `PipelineSpec => [](Undisturbed => VideoFollowsCommands)` | the same exception: with a part twice the commands shift |
| `VideoProofs!CaptionsAreTrue` | `PipelineSpec => [](Undisturbed => CaptionsMatch)` | the same |
| `VideoProofs!PngIsTrue` | `PipelineSpec /\ []Undisturbed => LastPngIsCurrent` | the same, for an action: no step so far was disturbed |
| `SnapshotsProofs!TypeCorrect` | `TypeOK` of `QemuSnapshots` | the assumptions on the bounds |
| `SnapshotsProofs!ModelIsConsistent` | `Spec => []ModelConsistent` | |
| `SnapshotsProofs!SnapshotsAreKept` | `Spec => []SnapshotsIntact` | |
| `SnapshotsProofs!RollbacksAreTrue` | `Spec => [](RollbackIsTrue /\ DisksComeBack)`: every load brings the drives back, and a rollback to the milestone of the job the RAM as well | |
| `SnapshotsProofs!OneJobRestores` | `Jobs = 1 => (Spec => RestoredAsSaved)` | one job on its overlays; with three it does not hold (see above) |
| `ShutdownProofs!TypeCorrect` | `TypeOK` of `Shutdown` | the assumptions on the bounds |
| `ShutdownProofs!NoChildIsLeft` | `Spec => []NoOrphans` | |
| `ShutdownProofs!SuccessIsHonest` | `Spec => []SuccessWithoutException` | |
| `ShutdownProofs!ImagesFromRest` | `Spec => []ImagesAreAtRest` | |
| `SearchProofs!MinVecIsGood` | `MinVecSpec => []MinsAreGood` | any errors that are natural numbers (the code has floats), any `Slack` |
| `SearchProofs!OriginalIsCompared` | the original place is one of those compared | an area inside both needle and scene, any margin and sizes |
| `SearchProofs!PreparedIsCurrent` | `Spec => []PrepIsCurrent` | pictures are rectangles of natural numbers, areas have pixels and are inside their needles, a name stands for one picture (`ScreensAssumption`, `NeedlesAssumption`) |
| `SearchProofs!ScreenshotIsOwn` | `Spec => ScreenshotStands` | the same |
| `SearchProofs!FoundIsBest` | `Spec => []FoundIsGood` | the same, and any `Slack` |
| `NativeProofs!ThreadsAreSafe` | `Spec => [](SignalsBlocked /\ PoolIsComplete /\ AllBusyAtOnce)` | `SpuriousWakeups = FALSE`, which is needed |
| `NativeProofs!ScreenIsShown` | `VncSpec => []ShowsScreen` | any pixel format (`InfoAssumption`: of one, two or four bytes, a colour map with one byte only); the server keeps to the encodings (`UpdatesAssumption`), in all sizes of tiles, runs and rectangles. That ZRLE needs the shifts of `ColoursAsRead` is part of the property |
| `NativeProofs!DataIsRead` | `VncSpec => []AllDataRead` | the same |
| `NativeProofs!AllIsInside` | `SpectrogramSpec => [](SamplesInside /\ PixelsInside)` | a rate of 6400 Hz or more |
| `NativeProofs!VideoLevels` | sums fit an int; levels of 16..235 and 16..240 that `clamp` keeps | all colours |

Where the last column is empty the theorem rests on the assumptions of the module
alone, which TLC evaluates with each instance.

The arguments:

- **Views.** What the clients were told and what the status file says change in the
  same handlers as the reason for the pause; a lemma per kind of handler (one that
  pauses, one that resumes, one that may do both) says that they leave the three in
  agreement.
- **Pause.** `PauseInv`: beside the slot and the reason, the rest of
  `set_current_test` after its call still knows whom it works for, because it
  may take the slot. Nothing is assumed of the clients.
- **Debt.** `OneDebt` speaks of the slots, yet whether a step keeps it depends on
  what the slots hold: `resume_test_execution` runs the postponed command, so the
  command in that slot must be one of those that move the debt on
  (`SlotInv`), a call that returns must belong to whom the debt says
  (`CallInv`), and the query on the socket must be one autotest sends and the only
  message there (`QueryInv`). After `tests_done` the loop still serves what the
  last select found; `QueryInv` says that then only the answer can be under way.
  `DebtInv` is the conjunction with "p is the place of the debt". Each handler
  has a lemma that says where it takes the debt: `DebtOfTest` from the socket into a
  slot, the others from slot to slot or into the answer (`Settled`). That clients
  send only commands of the developer mode is used in `DebtOfClient` alone.
- **Session.** The place of the debt is the state of `QuerySession`. Each handler has
  a lemma that says which moves of the debt it makes together with the pause
  (`SessionMoves`), and each move is an action of the session or a stutter: a
  debt leaves the slot of the postponed command only when the pause ends, and goes to
  the backend only outside of a pause.
- **Tokens.** With clients that send commands for the backend the slots may belong to
  a client, and `DebtInv` is false: a client may overwrite the slot, so that the debt
  is nowhere. `OwnerInv` asks less: at most one place holds the query
  or its answer (`OwedAt`), and whatever is autotest's there has the token of its query
  (`TokenInv`). That messages of a client are numbered in their order through
  both the socket and the buffer (`ClientInv`) keeps tokens of clients apart from
  each other. `TestOnly` is needed: a verdict on a screen goes to
  autotest whoever asked for it.
- **Replies.** `PathInv`: the command of the requester or the reply to it is at one of
  `ForwardPlaces`, the call of a handler at one of `CallPlaces`, and the four
  channels and the list of replies hold these two and nothing else, each once. So
  whatever comes is for the requester, unless it is for the call, whose token
  is another one (`SpentInv`: a client's token that is kept is an old one).
- **Fatal failures.** `FatalInv`: with a fatal failure noted, no module is in the
  middle of the steps that save or roll back.
- **Leftovers.** `LeftoverInv`: what the guest has seen since `lastgood` is
  justified module by module, at each position of the loop.
- **Completion.** `CompletionInv` ties the results to the position of the loop.
- **Consoles.** `LoginInv`: where a user is logged in, in the guest of now or in the
  last milestone, autotest has the console in one of its two lists. The list of the
  milestones covers `lastgood` because each milestone adds to it what was activated
  since the last rollback; that it never shrinks is what makes the property true
  under reboots, and what makes `KeptConsolesAreLive` false.
- **Teardown.** `StoppedInOrder`: what the END block or the signal handler has passed
  stays stopped, because nothing starts a child again.
- **Exit code.** `SuccessWithoutException` speaks of the end only. `Accounted` follows
  the code back: testfd is closed either by `tests_done` or together with an error
  code that nothing takes back (`ErrorStays`), and behind that point testfd is
  closed (`TestfdIsClosed`).
- **Images at rest.** The backend does not run at the step that extracts (`AtRest`); what
  is extracted is only written there, and the state of the machine was written when
  the backend was stopped.
- **Places of commands.** `NoCommandLost` counts in four kinds of places, and a nested
  loop turns one into another: the list that is handled goes on the stack, an end of
  the loop brings it back. `TokenAt(i, j)` gives each place a pair of numbers, its
  level and its position; `HeldInv` says that what is there is the open command of a
  requester (`HeldIsOpen`), that no two places hold the same (`HeldOnce`) and that
  each open command is at one (`OpenIsHeld`). An action then is a map of
  places. `OrderInv` adds that a list is being handled only while it may be, and that
  only one wait has taken the slot of the postponed token.
- **Service.** Each reply is that of an open command by `HeldInv`; QUIT comes last by
  `QuitInv`, because SIGTERM is ignored before QUIT is sent.
- **Still screen.** `StillInv`: the time that is counted is never more than the time for
  which the screenshots have been the same, and the reference is the last of them.
- **Stream.** `Streamed(q, taken, r, s, coming)`: what was received, the rest of the
  head of the queue behind `taken` parts, the other buffers and what is still `coming`
  make up the stream. `taken` counts what is in the pipe but not yet in the offset
  (`Taken`), so that one statement covers both halves of an update. Lemmas say what
  appending a buffer, writing parts and dropping a head do to it, without induction: the
  queue is cut at its head only, and `StreamIntact` is a statement about prefixes.
- **What is left in a queue.** `Watched`: after the stop every pipe with a buffer is
  among those the stop still writes to.
- **Commands.** What a stream means (`ScreensOf`) is a fold over it, and the library's
  induction cannot be used. A lemma says by the least counterexample what one part
  more does to each fold, and three others what one part more is to the encoder: a
  line that is not yet complete changes nothing, a repetition shows the last screen
  once more, an image is a new screen. `WellFormed` is what the backend sends: an image
  follows each `E` and nothing else, and no `R` comes first (`CommandsInv`, from
  `enqueue_screenshot`, which repeats only what it has sent).
- **Video.** The encoder is tied to the stream by how much it has read (`consumed`):
  between two commands it stands where the next one begins, while it reads an image
  it stands behind an `E`. `EncoderInv` then says what is written and pending is what has been read
  (`LastPending`), or that nothing was read and nothing is owed (`NothingRead`). The
  step in which the repetitions fill a keyframe interval writes the frame and
  starts the count anew, and what it moves from pending to the video is the same
  screens (`Shown` of one frame more). `CaptionsMatch` joins it to the count of the
  backend. With SIGTERM inside an update a part comes twice, so these hold while
  the run is `Undisturbed`; the types hold always.
- **Picture of the viewer.** `last.png` is the last image while `last_frame_converted`
  is set; each new image takes it back.
- **Snapshots.** `ModelInv` says how the parts agree at each position of the loops over
  the drives: layers belong one by one to the snapshots of the chain, with growing
  numbers (`Stack`); a drive has one layer more, or as many, by
  the position of the loop (`LengthInv`); only the last layer may still have to be
  created (`CreatingInv`); no file has a number that is still to come (`BornInv`),
  so that a new overlay never meets an old file; each layer is on the file of the one
  below (`BackedInv`); the state file is the object model when the machine is off
  (`StateInv`), so that the next job begins with the same.
- **Contents.** `KeptInv`: what is read below a layer is what the drive was at the
  snapshot of the layer. QEMU writes to the last layer only, so it is enough
  that a read depends on nothing but the files below. That is a statement about a recursive
  function; the library's induction cannot be used here, so it is shown for the
  least file for which it would be wrong. The same argument gives that the function
  exists at all (a definition with CHOOSE says nothing by itself). `FreshInv`: the
  snapshot that is being made is not yet complete.
- **RAM.** A RAM file has the name of its snapshot only. In a job with a milestone every
  complete snapshot of the name `lastgood` that is the newest one has the RAM of the
  file (`RamInv`), the job loads nothing else (`RollbackInv`), and the overlay above is empty
  when the guest goes on (`EmptyInv`). In the first job that is every load
  (`OneJobRestores`). A later job loads what an earlier one left, which may be false
  in the third.
- **Threads.** `PoolInv`: while the loop is not over, each body taken is with a thread of
  its own, because none that waits takes another (`Waiting`); so when the last one
  arrives there are as many threads as asked for (`Complete`), and no later search
  may make one.
- **minVec.** `ScanInv`: what is kept is within the bound, the bound is within `Slack`
  of all that was seen, and nothing is kept only while the place the bound was
  taken from is still ahead. That `Better` drops the list is needed where the
  bound sinks.
- **Prepared images.** A search blurs one area more or all of the picture again; what
  counts as blurred is an area and not the pixels (`Current`). It holds because
  the blur is taken from the picture and not from the gray copy, because a new
  screenshot and a copy with areas replaced have no gray copy, and because scaling gives
  new memory (`shared = FALSE`). The pictures are sequences of sequences, so most lemmas
  are about their sizes.
- **Original place.** Scaling keeps an area that fits in the needle within the
  scene (monotony of the products), and the margin is cut at the edges.
- **Place found.** `FoundInv` joins the three: the errors that minVec goes through are
  those of both pictures blurred afresh (`Compared`). After `Image::prep` the gray copy
  covers the area asked for (`PrepCovers`), also when only a union with an earlier area
  was blurred; the pixels compared at a location lie in that area (`ScenePixels`,
  `ObjectPixels`), so the error is that of fresh copies (`ErrorsAgree`). That
  an error is a number needs that a sum over an area is one: the sum is a fold, and
  the library's induction cannot be used, so it is shown for the least set of pixels for which
  it would be wrong (`SumIsNatural`).
- **VNC.** `VncInv`: when a tile begins, the offset is where the server has begun it, and
  what is to its left and above it shows what was meant (`TileInv`); within a tile of
  runs the offset is where the next run begins, and the pixels before it show what was
  meant (`RunsInv`). One lemma (`TileDone`) takes any tile that is painted and read up
  to its end to the next one or to the end of the rectangle; each encoding then has to show
  only that it reads the bytes of its pixels (`CpixelIsRead`, `IndexIsRead`,
  `LengthIsRead`) and ends where the server has ended it. The invariant speaks of ZRLE only
  if the decoder reads CPIXELs of the length that the server sends (`CpixelsAsRead`);
  that follows from `ColoursAsRead`, under which the bytes are also the colours meant
  (`ColoursAreMeant`). That no index crosses the end of
  a byte, or of a row, is arithmetic with widths of 1, 2 and 4 bits (`IndexInRow`).
- **Spectrogram.** Division is the difficulty: each quotient is bounded by its
  product, and the chunks counted are bounded by the frames once more.
- **Colours.** Each weighted sum is bounded term by term.

Each of the invariants (`DebtInv`, `OwnerInv`, `PathInv`, `HeldInv`, `StreamInv`, `CommandsInv`, `EncoderInv`, `PrepInv`, `FoundInv`, `VncInv`,
the parts of `ModelInv`, `DisksInv` and `GuestInv`, and those of the smaller modules) was
checked by TLC on the instance of its run before it was proved.

Only model-checked:

- everything with fairness (`TestAnsweredOrHeld`, `CommandsAnswered`,
  `FramesDelivered`, `EncoderTerminates`, `DefaultReturns`, `EndOfChildEndsAll`,
  `SecondSignalEnds`): the prover has no ENABLED;
- the decoder of ast2100 (`PictureIsScreen`), whose reference is a server that encodes: the
  colours kept and the sums go on from block to block, an induction over data;
- `SelectRate` (`OnlyRealRates`, `SpinningIsFound`);
- `RestoredAsSaved` over two jobs.

## What is left out

The table of components says which parts have no module. Inside the modelled
parts these are abstracted: the content of messages beyond the one argument a
handler looks at; logging; the images; names of files; the inner life of a test
module; exceptions of the JSON parser; the QMP dialogue. Of the C++ code: unknown
command lines and images that cannot be decoded, flushing of the video every ten
frames, the similarity that follows from a location (`enhancedMSE`, `getPSNR`),
thresholds, averages and differences of images, reading and writing of image files,
frames of v4l2 (`image_map_raw_data_uyvy`), tight encoding, the inverse transform and the colours of ast2100
in floats, the Fourier transform. The channels are
reliable and ordered, as pipes and sockets of one machine are.

## Plan

The next steps, the most valuable first:

1. Screen matching above `NeedleSearch`: `set_tags_to_assert`, `check_asserted_screen`, the deadline, the
   needle cache, as the refinement of the verdicts `Isotovideo` draws.
2. Serial terminals: `read_until` with its carry buffer against a reference
   definition over all splits of the input; `wait_serial` and its offsets.
3. JSON messages: fragments, list mode, QUIT and EOF below the channels of
   `Isotovideo` and `CaptureLoop`.
4. Consoles: activation, reset and reconnection of VNC; the SSH connections of the
   backend.
5. Command server: the HTTP route beside the broadcasts.
6. Locks and barriers with retries; vars.json.
7. Proofs: `OnlyRealRates`; the safety part of `RestoredAsSaved` over two jobs.
8. `image_map_raw_data_uyvy` and tight encoding beside `VncFramebuffer`.
