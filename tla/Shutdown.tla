------------------------------ MODULE Shutdown ------------------------------
(***************************************************************************)
(* How isotovideo ends (script/isotovideo, OpenQA::Isotovideo::Runner): the *)
(* main loop is left because the tests are done, a child process has ended, *)
(* a signal has come or a handler has thrown an exception; the children are *)
(* stopped, images are extracted, and the exit code says how it went.       *)
(*                                                                          *)
(* Each child may end at any time. Reading from a channel whose other end   *)
(* is closed yields undef after its last message, writing to it throws an   *)
(* exception (myjsonrpc). What a message says is left out: the handler of a *)
(* query answers it, forwards it, calls the backend or holds it back (the    *)
(* call of check_asserted_screen is one of these).                          *)
(***************************************************************************)
EXTENDS Naturals, FiniteSets

CONSTANTS
  MaxQueries,    \* bound: queries of autotest
  MaxClient,     \* bound: messages of clients
  MaxSignals,    \* bound: signals TERM, INT or HUP
  MaxCrashes     \* bound: children that end out of turn

ASSUME BoundsAssumption ==
  /\ MaxQueries \in Nat /\ MaxClient \in Nat
  /\ MaxSignals \in Nat /\ MaxCrashes \in Nat

Autotest == "autotest"
Backend == "backend"
CommandServer == "cmd_srv"
Children == {Autotest, Backend, CommandServer}
\* The main loop serves the channels in this order of their fd numbers.
ServedBefore(c, d) ==
  <<c, d>> \in {<<CommandServer, Autotest>>, <<CommandServer, Backend>>,
                <<Autotest, Backend>>}

Ok == 0
Error == 1
NoTests == 100
TestsFailed == 101

VARIABLES
  pc,
  loop,            \* the loop status
  ready,           \* children whose channel select has found readable
  testfd,          \* whether testfd is defined
  channel_out,     \* whether the driver has the response channel
  held,            \* a query is held back because of a pause
  return_code,
  completed,       \* test_completed
  clean_shutdown,
  running,         \* children that have not ended
  collected,       \* children whose end has been noticed
  channel,         \* per child: its message on the way to isotovideo
  waiting,         \* autotest waits for an answer
  asked,           \* what the backend has been asked for
  options,         \* of the job: exit status from test results, assets
  queries, messages, signals, crashes,       \* what the bounds count
  done,            \* history: tests_done has been handled
  thrown,          \* history: an exception has left the try block
  extracted        \* history: images extracted, and from which machine

runVars == <<loop, ready, testfd, channel_out, held>>
codeVars == <<return_code, completed, clean_shutdown>>
childVars == <<running, collected>>
talkVars == <<channel, waiting, asked>>
countVars == <<options, queries, messages, signals, crashes>>
historyVars == <<done, thrown, extracted>>
vars == <<pc, runVars, codeVars, childVars, talkVars, countVars, historyVars>>

RunPcs == {"while", "select", "serve", "call", "ended", "results"}
ShutdownPcs == {"stop_commands", "testfd", "is_shutdown", "shutdown_state",
                "stop_vm", "quit", "assets"}
EndPcs == {"END backend", "END commands", "END autotest"}
SignalPcs == {"signal backend", "signal commands", "signal autotest"}
Pcs == RunPcs \cup ShutdownPcs \cup EndPcs \cup SignalPcs \cup {"exited"}

NoMessage == "none"
Messages == {NoMessage, "query", "tests_done", "reply", "command", "resume"}
Options == [from_test_results : BOOLEAN, assets : {"none", "publish", "force"}]

TypeOK ==
  /\ pc \in Pcs
  /\ loop \in BOOLEAN /\ testfd \in BOOLEAN /\ channel_out \in BOOLEAN
  /\ held \in BOOLEAN
  /\ ready \subseteq Children
  /\ return_code \in {Ok, Error, NoTests, TestsFailed}
  /\ completed \in BOOLEAN /\ clean_shutdown \in BOOLEAN
  /\ running \subseteq Children /\ collected \subseteq Children \ running
  /\ channel \in [Children -> Messages]
  /\ waiting \in BOOLEAN
  /\ asked \in {NoMessage, "command", "call", "stop_vm"}
  /\ options \in Options
  /\ queries \in 0..(MaxQueries + 1) /\ messages \in 0..MaxClient
  /\ signals \in 0..MaxSignals /\ crashes \in 0..MaxCrashes
  /\ done \in BOOLEAN /\ thrown \in BOOLEAN
  /\ extracted \in {"nothing", "running", "unclean", "clean"}

\* $runner->handle_commands is over: the handlers are set, the loop starts.
Init ==
  /\ pc = "while" /\ loop = TRUE /\ ready = {}
  /\ testfd = TRUE /\ channel_out = TRUE /\ held = FALSE
  /\ return_code = Ok
  /\ completed = FALSE /\ clean_shutdown = FALSE
  /\ running = Children /\ collected = {}
  /\ channel = [c \in Children |-> NoMessage]
  /\ waiting = FALSE /\ asked = NoMessage
  /\ options \in Options
  /\ queries = 0 /\ messages = 0 /\ signals = 0 /\ crashes = 0
  /\ done = FALSE /\ thrown = FALSE /\ extracted = "nothing"
-----------------------------------------------------------------------------
(* What isotovideo does with its children                                    *)

IsRunning(c) == c \notin collected

\* The end of a child is noticed; each of them ends the main loop.
Collected(children) ==
  /\ collected' = collected \cup children
  /\ loop' = IF children \subseteq collected THEN loop ELSE FALSE

\* ReadWriteProcess->stop: SIGTERM, in the end SIGKILL, and waits.
Stopped(children) ==
  /\ running' = running \ children
  /\ Collected(children)

\* An exception leaves the try block: only the END block follows.
Throw == pc' = "END backend" /\ thrown' = TRUE

Readable(c) == channel[c] # NoMessage \/ c \notin running
-----------------------------------------------------------------------------
(* The main loop                                                             *)

While ==
  /\ pc = "while"
  /\ pc' = IF loop THEN "select" ELSE "ended"
  /\ UNCHANGED <<runVars, codeVars, childVars, talkVars, countVars, historyVars>>

Select ==
  /\ pc = "select"
  /\ ready' = { c \in Children : Readable(c) /\ (c = Autotest => testfd) }
  /\ ready' # {}
  /\ pc' = "serve"
  /\ UNCHANGED <<loop, testfd, channel_out, held, codeVars, childVars, talkVars,
                 countVars, historyVars>>

\* c is the next child to serve; its message is taken.
Serves(c, kinds) ==
  /\ pc = "serve"
  /\ c \in ready
  /\ \A d \in ready \ {c} : ServedBefore(c, d)
  /\ channel[c] \in kinds
  /\ ready' = ready \ {c}
  /\ channel' = [channel EXCEPT ![c] = NoMessage]

EndOfServing ==
  /\ pc = "serve" /\ ready = {}
  /\ pc' = "while"
  /\ UNCHANGED <<runVars, codeVars, childVars, talkVars, countVars, historyVars>>

\* Nothing to read: the loop ends, and so does this round. The warning names the
\* number of testfd.
ServeEof(c) ==
  /\ pc = "serve"
  /\ c \in ready
  /\ \A d \in ready \ {c} : ServedBefore(c, d)
  /\ channel[c] = NoMessage
  /\ ready' = {}
  /\ \/ testfd /\ loop' = FALSE /\ UNCHANGED <<pc, thrown>>
     \/ ~testfd /\ Throw /\ UNCHANGED loop
  /\ UNCHANGED <<testfd, channel_out, held, codeVars, childVars, talkVars, countVars,
                 done, extracted>>

\* send_json to a child, which goes on with pc' = next
SendTo(c, next) ==
  \/ c \in running /\ pc' = next /\ UNCHANGED thrown
  \/ c \notin running /\ Throw

AnswerAutotest(next) ==
  /\ SendTo(Autotest, next)
  /\ waiting' = (waiting /\ Autotest \notin running)

\* A handler gives a query of autotest to the backend, as its command or as a call
\* of isotovideo, or answers it at once.
Process ==
  \/ AnswerAutotest("serve") /\ UNCHANGED asked
  \/ /\ SendTo(Backend, "serve") /\ UNCHANGED waiting
     /\ asked' = IF Backend \in running THEN "command" ELSE asked
  \/ /\ SendTo(Backend, "call") /\ UNCHANGED waiting
     /\ asked' = IF Backend \in running THEN "call" ELSE asked

ServeQuery ==
  /\ Serves(Autotest, {"query"})
  /\ \/ Process /\ UNCHANGED held
     \/ SendTo(CommandServer, "serve") /\ held' = TRUE /\ UNCHANGED <<waiting, asked>>
  /\ UNCHANGED <<loop, testfd, channel_out, codeVars, childVars, countVars, done,
                 extracted>>

ServeCommand ==
  /\ Serves(CommandServer, {"command"})
  /\ SendTo(CommandServer, "serve")
  /\ UNCHANGED <<loop, testfd, channel_out, held, codeVars, childVars, waiting,
                 asked, countVars, done, extracted>>

ServeResume ==
  /\ Serves(CommandServer, {"resume"})
  /\ \/ /\ held /\ CommandServer \in running
        /\ Process /\ held' = FALSE
     \/ /\ ~held \/ CommandServer \notin running
        /\ SendTo(CommandServer, "serve") /\ UNCHANGED <<held, waiting, asked>>
  /\ UNCHANGED <<loop, testfd, channel_out, codeVars, childVars, countVars, done,
                 extracted>>

ServeReply ==
  /\ Serves(Backend, {"reply"})
  /\ AnswerAutotest("serve")
  /\ UNCHANGED <<loop, testfd, channel_out, held, codeVars, childVars, asked,
                 countVars, done, extracted>>

\* tests_done: autotest gets its answer and is stopped.
ServeTestsDone(complete) ==
  /\ Serves(Autotest, {"tests_done"})
  /\ SendTo(Autotest, "serve")
  /\ \/ /\ Autotest \in running
        /\ waiting' = FALSE /\ testfd' = FALSE /\ completed' = complete
        /\ done' = TRUE
        /\ loop' = FALSE
        /\ running' = running \ {Autotest} /\ collected' = collected \cup {Autotest}
     \/ /\ Autotest \notin running
        /\ completed' = complete
        /\ UNCHANGED <<waiting, testfd, done, loop, childVars>>
  /\ UNCHANGED <<channel_out, held, return_code, clean_shutdown, asked, countVars,
                 extracted>>

\* The reply to the call of a handler, which then answers autotest
CallReturns ==
  /\ pc = "call"
  /\ channel[Backend] = "reply"
  /\ channel' = [channel EXCEPT ![Backend] = NoMessage]
  /\ AnswerAutotest("serve")
  /\ UNCHANGED <<runVars, codeVars, childVars, asked, countVars, done, extracted>>

\* Mutant: the end of the channel is taken for an interrupted read.
CallFindsEof_bug ==
  pc = "call" /\ Backend \notin running /\ UNCHANGED vars

\* The driver finds the end of the channel: it closes it and stops the backend.
CallFindsEof ==
  /\ pc = "call"
  /\ channel[Backend] = NoMessage /\ Backend \notin running
  /\ channel_out' = FALSE
  /\ Stopped({Backend})
  /\ AnswerAutotest("serve")
  /\ UNCHANGED <<ready, testfd, held, codeVars, channel, asked, countVars, done,
                 extracted>>

\* stop_command_processing
Ended ==
  /\ pc = "ended"
  /\ SendTo(CommandServer, "results")
  /\ UNCHANGED <<runVars, codeVars, childVars, talkVars, countVars, done, extracted>>

ExitCodeFromTestResults(code) ==
  /\ pc = "results"
  /\ pc' = "stop_commands"
  /\ return_code' = IF options.from_test_results THEN code ELSE return_code
  /\ UNCHANGED <<runVars, completed, clean_shutdown, childVars, talkVars, countVars,
                 historyVars>>

\* A result file that cannot be read or decoded: an exception of its own
ResultsUnreadable ==
  /\ pc = "results"
  /\ options.from_test_results
  /\ Throw
  /\ UNCHANGED <<runVars, codeVars, childVars, talkVars, countVars, done, extracted>>
-----------------------------------------------------------------------------
(* handle_shutdown                                                           *)

StopCommands ==
  /\ pc = "stop_commands"
  /\ pc' = "testfd"
  /\ Stopped({CommandServer})
  /\ UNCHANGED <<ready, testfd, channel_out, held, codeVars, talkVars, countVars,
                 historyVars>>

\* Mutant: the exit code is left as it is.
UnusualShutdown_bug ==
  /\ pc = "testfd"
  /\ pc' = "is_shutdown"
  /\ testfd' = FALSE
  /\ IF testfd THEN Stopped({Autotest}) ELSE UNCHANGED <<loop, childVars>>
  /\ UNCHANGED <<ready, channel_out, held, codeVars, talkVars, countVars,
                 historyVars>>

\* 'unusual shutdown': autotest has not said that the tests are done.
UnusualShutdown ==
  /\ pc = "testfd"
  /\ pc' = "is_shutdown"
  /\ IF testfd THEN /\ return_code' = Error /\ testfd' = FALSE
                    /\ Stopped({Autotest})
               ELSE UNCHANGED <<return_code, testfd, loop, childVars>>
  /\ UNCHANGED <<ready, channel_out, held, completed, clean_shutdown, talkVars,
                 countVars, historyVars>>

AskShutdownState ==
  /\ pc = "is_shutdown"
  /\ \/ return_code # Ok /\ pc' = "END backend" /\ UNCHANGED asked
     \/ /\ return_code = Ok /\ Backend \in running
        /\ asked' = "call" /\ pc' = "shutdown_state"
     \/ /\ return_code = Ok /\ Backend \notin running
        /\ pc' = "stop_vm" /\ UNCHANGED asked
  /\ UNCHANGED <<runVars, codeVars, childVars, channel, waiting, countVars,
                 historyVars>>

ShutdownState(clean) ==
  /\ pc = "shutdown_state"
  /\ pc' = "stop_vm"
  /\ \/ /\ channel[Backend] = "reply"
        /\ channel' = [channel EXCEPT ![Backend] = NoMessage]
        /\ clean_shutdown' = clean
        /\ UNCHANGED <<channel_out, childVars, loop>>
     \/ /\ channel[Backend] = NoMessage /\ Backend \notin running
        /\ channel_out' = FALSE
        /\ Stopped({Backend})
        /\ UNCHANGED <<channel, clean_shutdown>>
  /\ UNCHANGED <<ready, testfd, held, return_code, completed, waiting, asked,
                 countVars, historyVars>>

\* Mutant: stop_vm does not wait for the end of the backend.
StopVm_bug ==
  /\ pc = "stop_vm"
  /\ pc' = "assets"
  /\ asked' = IF Backend \in running THEN "stop_vm" ELSE asked
  /\ UNCHANGED <<runVars, codeVars, childVars, channel, waiting, countVars,
                 historyVars>>

\* driver::stop; an exception of it is the error 'unable to stop VM'.
StopVm ==
  /\ pc = "stop_vm"
  /\ \/ ~IsRunning(Backend) /\ pc' = "assets" /\ UNCHANGED <<return_code, asked>>
     \/ /\ IsRunning(Backend) /\ Backend \in running
        /\ asked' = "stop_vm" /\ pc' = "quit" /\ UNCHANGED return_code
     \/ /\ IsRunning(Backend) /\ Backend \notin running
        /\ return_code' = Error /\ pc' = "assets" /\ UNCHANGED asked
  /\ UNCHANGED <<runVars, completed, clean_shutdown, childVars, channel, waiting,
                 countVars, historyVars>>

Quit ==
  /\ pc = "quit"
  /\ Backend \notin running
  /\ pc' = "assets"
  /\ channel_out' = FALSE
  /\ Stopped({Backend})
  /\ UNCHANGED <<ready, testfd, held, codeVars, talkVars, countVars, historyVars>>

\* Images to publish are those of a completed run, and of a machine that has been
\* shut down.
Publishes == options.assets = "publish" /\ completed
Extracts == options.assets = "force" \/ (Publishes /\ clean_shutdown)

HandleGeneratedAssets(fails) ==
  /\ pc = "assets"
  /\ pc' = "END backend"
  /\ \/ /\ return_code = Ok /\ Extracts
        /\ return_code' = IF fails THEN Error ELSE Ok
        /\ extracted' = IF Backend \in running THEN "running"
                        ELSE IF clean_shutdown THEN "clean" ELSE "unclean"
     \/ /\ return_code # Ok \/ ~Extracts
        /\ return_code' = IF return_code = Ok /\ Publishes THEN Error ELSE return_code
        /\ UNCHANGED extracted
  /\ UNCHANGED <<runVars, completed, clean_shutdown, childVars, talkVars, countVars,
                 done, thrown>>
-----------------------------------------------------------------------------
(* The END block and the signal handler stop the children in this order.     *)

StopStep(from, child, to) ==
  /\ pc = from
  /\ pc' = to
  /\ Stopped({child})
  /\ UNCHANGED <<ready, testfd, channel_out, held, talkVars, countVars, historyVars>>

\* Mutant: the END block leaves autotest alone.
End_bug ==
  /\ \/ StopStep("END backend", Backend, "END commands")
     \/ StopStep("END commands", CommandServer, "exited")
  /\ UNCHANGED codeVars


End ==
  /\ \/ StopStep("END backend", Backend, "END commands")
     \/ StopStep("END commands", CommandServer, "END autotest")
     \/ StopStep("END autotest", Autotest, "exited")
  /\ UNCHANGED codeVars

SignalEnd ==
  /\ \/ StopStep("signal backend", Backend, "signal commands")
     \/ StopStep("signal commands", CommandServer, "signal autotest")
     \/ StopStep("signal autotest", Autotest, "exited")
  /\ return_code' = Error
  /\ UNCHANGED <<completed, clean_shutdown>>

\* A handler of a signal, or of the end of a child, may run before select waits:
\* select then waits all the same.
Interrupted == IF pc = "select" THEN {"select", "while"} ELSE {pc}

\* Mutant: a signal only ever ends the loop.
Signal_bug ==
  /\ signals < MaxSignals
  /\ pc # "exited"
  /\ signals' = signals + 1
  /\ loop' = FALSE /\ pc' \in Interrupted
  /\ UNCHANGED <<ready, testfd, channel_out, held, codeVars, childVars, talkVars,
                 options, queries, messages, crashes, historyVars>>

\* The first signal ends the loop; one that comes later stops everything. Such a
\* handler may be interrupted by the next one and never returns.
Signal ==
  /\ signals < MaxSignals
  /\ pc # "exited"
  /\ signals' = signals + 1
  /\ \/ loop /\ loop' = FALSE /\ pc' \in Interrupted
     \/ ~loop /\ pc' = "signal backend" /\ UNCHANGED loop
  /\ UNCHANGED <<ready, testfd, channel_out, held, codeVars, childVars, talkVars,
                 options, queries, messages, crashes, historyVars>>

Collect(c) ==
  /\ c \notin running /\ c \notin collected
  /\ pc # "exited"
  /\ Collected({c})
  /\ pc' \in Interrupted
  /\ UNCHANGED <<ready, testfd, channel_out, held, codeVars, running, talkVars,
                 countVars, historyVars>>
-----------------------------------------------------------------------------
(* The children                                                              *)

Sends(c, m) ==
  /\ c \in running
  /\ channel[c] = NoMessage
  /\ channel' = [channel EXCEPT ![c] = m]

AutotestAsks ==
  /\ queries < MaxQueries /\ ~waiting
  /\ Sends(Autotest, "query")
  /\ waiting' = TRUE /\ queries' = queries + 1
  /\ UNCHANGED <<pc, runVars, codeVars, childVars, asked, options, messages, signals,
                 crashes, historyVars>>

AutotestIsDone ==
  /\ queries <= MaxQueries /\ ~waiting
  /\ Sends(Autotest, "tests_done")
  /\ waiting' = TRUE /\ queries' = MaxQueries + 1
  /\ UNCHANGED <<pc, runVars, codeVars, childVars, asked, options, messages, signals,
                 crashes, historyVars>>

ClientSends(m) ==
  /\ messages < MaxClient
  /\ Sends(CommandServer, m)
  /\ messages' = messages + 1
  /\ UNCHANGED <<pc, runVars, codeVars, childVars, waiting, asked, options, queries,
                 signals, crashes, historyVars>>

BackendReplies ==
  /\ asked \in {"command", "call"}
  /\ Sends(Backend, "reply")
  /\ asked' = NoMessage
  /\ UNCHANGED <<pc, runVars, codeVars, childVars, waiting, countVars, historyVars>>

\* stop_vm ends the process of the backend.
BackendQuits ==
  /\ asked = "stop_vm"
  /\ Backend \in running
  /\ running' = running \ {Backend}
  /\ UNCHANGED <<pc, runVars, codeVars, collected, talkVars, countVars, historyVars>>

\* A child ends out of turn. What it has sent can still be read.
Crash(c) ==
  /\ crashes < MaxCrashes
  /\ c \in running
  /\ running' = running \ {c}
  /\ crashes' = crashes + 1
  /\ UNCHANGED <<pc, runVars, codeVars, collected, talkVars, options, queries, messages,
                 signals, historyVars>>
-----------------------------------------------------------------------------
RunStep == \/ While \/ Select \/ EndOfServing
           \/ \E c \in Children : ServeEof(c)
           \/ ServeQuery \/ ServeCommand \/ ServeResume \/ ServeReply
           \/ \E complete \in BOOLEAN : ServeTestsDone(complete)
           \/ CallReturns \/ CallFindsEof
           \/ Ended
           \/ \E code \in {Ok, NoTests, TestsFailed} : ExitCodeFromTestResults(code)
           \/ ResultsUnreadable

ShutdownStep == \/ StopCommands \/ UnusualShutdown
                \/ AskShutdownState
                \/ \E clean \in BOOLEAN : ShutdownState(clean)
                \/ StopVm \/ Quit
                \/ \E fails \in BOOLEAN : HandleGeneratedAssets(fails)
                \/ End \/ SignalEnd

IsotovideoStep == RunStep \/ ShutdownStep

ChildStep == \/ AutotestAsks \/ AutotestIsDone
             \/ \E m \in {"command", "resume"} : ClientSends(m)
             \/ BackendReplies \/ BackendQuits
             \/ \E c \in Children : Crash(c)

Next == IsotovideoStep \/ Signal \/ (\E c \in Children : Collect(c)) \/ ChildStep

Spec == Init /\ [][Next]_vars

\* isotovideo runs, the backend serves while it runs, and the kernel tells of the
\* end of a child. Tests, clients and signals owe nothing.
FairSpec ==
  /\ Spec
  /\ WF_vars(IsotovideoStep)
  /\ WF_vars(BackendReplies) /\ WF_vars(BackendQuits)
  /\ WF_vars(\E c \in Children : Collect(c))
-----------------------------------------------------------------------------
\* 'isotovideo successfully executed a complete run' (script/isotovideo:61): the
\* exit code 0 says that autotest was done (the exception of stop_command_processing).
SuccessIsReal == pc = "exited" /\ return_code = Ok => done

\* Unless an exception has left the main loop, the exit code 0 says that autotest
\* was done and that the images asked for have been extracted: neither a signal nor
\* a child that ends in any phase of the run or of the shutdown passes for a success
\* (the return codes of script/isotovideo and Runner::handle_shutdown).
SuccessWithoutException ==
  pc = "exited" /\ return_code = Ok /\ ~thrown =>
    /\ done
    /\ options.assets = "force" \/ Publishes => extracted # "nothing"

\* Images are extracted after the backend has ended, those to publish only from a
\* machine that was shut down (driver::stop, handle_generated_assets).
ImagesAreAtRest ==
  /\ extracted # "running"
  /\ extracted = "unclean" => options.assets = "force"

\* No child outlives isotovideo, whatever ends it and whenever signals come (the END
\* block and the signal event).
NoOrphans == pc = "exited" => running = {}

\* The end of a child ends isotovideo, also in the middle of a call of the backend
\* or of the shutdown (EOF in Runner::_read_response and driver::_send_json, the
\* event collected).
EndOfChildEndsAll == \A c \in Children : c \notin running ~> pc = "exited"

\* The second signal ends isotovideo in any case (Runner::_signal_handler).
SecondSignalEnds == signals >= 2 ~> pc = "exited"

\* The first signal ends the main loop (Runner::_signal_handler).
SignalEndsLoop == signals >= 1 ~> pc \notin {"while", "select", "serve"}
=============================================================================
