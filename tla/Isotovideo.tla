----------------------------- MODULE Isotovideo -----------------------------
(***************************************************************************)
(* The main loop of isotovideo (OpenQA/Isotovideo/Runner.pm) with the       *)
(* processes it talks to: autotest (one query at a time), the command       *)
(* server (messages of any number of developer mode clients) and the        *)
(* backend.                                                                 *)
(*                                                                          *)
(* A message passes two places on its way into isotovideo: the socket,      *)
(* which select() looks at, and the parser's buffer of myjsonrpc::read_json,*)
(* which it does not. One sysread moves all the socket holds into the       *)
(* buffer; one read_json takes one message out.                             *)
(***************************************************************************)
EXTENDS CommandHandler, FiniteSets

CONSTANTS
  ClientCommands,   \* the commands clients may send
  MaxQueries,       \* bound: queries of autotest, tests_done not counted
  MaxClient,        \* bound: messages of all clients
  FdNumber          \* the numbers of the file descriptors of the main loop

BackendOut == "backend_out"      \* backend_out_fd
Fds == {Test, Cmd, BackendOut}

ASSUME BoundsAssumption == MaxQueries \in Nat /\ MaxClient \in Nat
ASSUME CommandsAssumption == ClientCommands \subseteq Commands
ASSUME FdNumberAssumption ==
  /\ FdNumber \in [Fds -> Nat]
  /\ \A fd, other \in Fds : FdNumber[fd] = FdNumber[other] => fd = other

VARIABLES
  pc,            \* where the main loop is: select, serve, check or stopped
  ready,         \* the readable fds of the last select not yet served
  sock,          \* per fd: messages in the socket
  buf,           \* per fd: messages in the parser's buffer
  interleaved,   \* backend replies met while another one was awaited
  working,       \* tokens of the commands the backend works on
  test_pc,       \* autotest: ready, waiting or done
  query,         \* autotest: its last query
  queries,       \* autotest: number of queries so far
  timed_out,     \* autotest: the last screen check ended with a timeout
  sent           \* number of messages from clients

loopVars == <<pc, ready, interleaved>>
testVars == <<test_pc, query, queries, timed_out>>
vars == <<handlerVars, loopVars, sock, buf, working, testVars, sent>>

Replies == [token : AllTokens, verdict : Verdicts]

Channels == { f \in [Fds -> Seq(Messages) \cup Seq(Replies)] :
                /\ f[Test] \in Seq(Messages)
                /\ f[Cmd] \in Seq(Messages)
                /\ f[BackendOut] \in Seq(Replies) }

LoopTypeOK ==
  /\ pc \in {"select", "serve", "check", "stopped"}
  /\ ready \in SUBSET Fds
  /\ interleaved \in Seq(Replies)

TestTypeOK ==
  /\ test_pc \in {"ready", "waiting", "done"}
  /\ query \in Messages \cup {NoCommand}
  /\ queries \in Nat
  /\ timed_out \in BOOLEAN

TypeOK ==
  /\ HandlerTypeOK
  /\ LoopTypeOK
  /\ TestTypeOK
  /\ sock \in Channels
  /\ buf \in Channels
  /\ working \in SUBSET AllTokens
  /\ sent \in Nat

Init ==
  /\ HandlerInit
  /\ pc = "select"
  /\ ready = {}
  /\ interleaved = <<>>
  /\ sock = [fd \in Fds |-> <<>>]
  /\ buf = [fd \in Fds |-> <<>>]
  /\ working = {}
  /\ test_pc = "ready"
  /\ query = NoCommand
  /\ queries = 0
  /\ timed_out = FALSE
  /\ sent = 0

Send(fd, m) == sock' = [sock EXCEPT ![fd] = Append(@, m)]
-----------------------------------------------------------------------------
(* autotest: query_isotovideo sends a command and waits for the response     *)

TestArgs(cmd) ==
  IF cmd \in {"check_screen", "set_current_test"} THEN ArgsOf(cmd)
  ELSE IF cmd = "pause_test_execution" THEN {"failure"} ELSE {None}

Ask(cmd, arg) ==
  LET m == [cmd |-> cmd, token |-> <<Test, queries + 1>>, arg |-> arg]
  IN  /\ test_pc = "ready"
      /\ test_pc' = "waiting"
      /\ queries' = queries + 1
      /\ query' = m
      /\ Send(Test, m)
      /\ UNCHANGED <<handlerVars, loopVars, buf, working, sent>>

AskQuery ==
  /\ ~timed_out
  /\ queries < MaxQueries
  /\ \E cmd \in {"backend", "check_screen", "set_current_test",
                 "pause_test_execution", "status"} :
       \E arg \in TestArgs(cmd) : Ask(cmd, arg)
  /\ UNCHANGED timed_out

\* testapi::_check_backend_response after a timeout: it asks whether a timeout
\* pauses the test and reports the timeout in any case.
AskAboutTimeout ==
  /\ timed_out
  /\ queries < MaxQueries
  /\ query.cmd = "check_screen"
  /\ Ask("is_configured_to_pause_on_timeout", query.arg)
  /\ UNCHANGED timed_out

AskReportTimeout ==
  /\ timed_out
  /\ query.cmd = "is_configured_to_pause_on_timeout"
  /\ Ask("report_timeout", query.arg)
  /\ timed_out' = FALSE

AskTestsDone ==
  /\ Ask("tests_done", None)
  /\ timed_out' = FALSE

\* The answer is taken whatever its token; tests_done is the last query.
ReceiveAnswer ==
  /\ test_pc = "waiting"
  /\ to_test # <<>>
  /\ to_test' = Tail(to_test)
  /\ test_pc' = IF query.cmd = "tests_done" THEN "done" ELSE "ready"
  /\ timed_out' = \/ timed_out
                  \/ query.cmd = "check_screen" /\ Head(to_test).ret = "timeout"
  /\ UNCHANGED <<configVars, pauseVars, requesterVars, screenVars, viewVars,
                 call, to_backend, answered, loop, died, loopVars, sock, buf,
                 working, query, queries, sent>>
-----------------------------------------------------------------------------
(* The clients of the command server: no client waits for a response         *)

ClientArgs(cmd) ==
  IF cmd \in Settings \cup {"check_screen"} THEN ArgsOf(cmd)
  ELSE IF cmd = "pause_test_execution" THEN {"manual"} ELSE {None}

ClientSends ==
  /\ sent < MaxClient
  /\ sent' = sent + 1
  /\ \E cmd \in ClientCommands : \E arg \in ClientArgs(cmd) :
       Send(Cmd, [cmd |-> cmd, token |-> <<Cmd, sent + 1>>, arg |-> arg])
  /\ UNCHANGED <<handlerVars, loopVars, buf, working, testVars>>
-----------------------------------------------------------------------------
(* The backend: driver calls are answered when they are taken, other         *)
(* commands at once or, while it keeps taking commands, later.               *)

BackendAnswersCall(verdict) ==
  /\ to_backend # <<>>
  /\ Head(to_backend).cmd \in BackendCalls
  /\ verdict # "nothing" => Head(to_backend).cmd = "check_asserted_screen"
  /\ to_backend' = Tail(to_backend)
  /\ Send(BackendOut, [token |-> Head(to_backend).token, verdict |-> verdict])
  /\ UNCHANGED <<configVars, pauseVars, requesterVars, screenVars, viewVars,
                 call, to_test, answered, loop, died, loopVars, buf, working,
                 testVars, sent>>

BackendTakes ==
  /\ to_backend # <<>>
  /\ Head(to_backend).cmd = "backend"
  /\ to_backend' = Tail(to_backend)
  /\ working' = working \cup {Head(to_backend).token}
  /\ UNCHANGED <<configVars, pauseVars, requesterVars, screenVars, viewVars,
                 call, to_test, answered, loop, died, loopVars, sock, buf,
                 testVars, sent>>

BackendReplies ==
  /\ \E token \in working :
       /\ working' = working \ {token}
       /\ Send(BackendOut, [token |-> token, verdict |-> "nothing"])
  /\ UNCHANGED <<handlerVars, loopVars, buf, testVars, sent>>
-----------------------------------------------------------------------------
(* The main loop                                                             *)

Idle == call = NoCall      \* no handler is blocked in a driver call

\* select() returns when a socket is readable, or after a timeout when a
\* screen check is in progress
Select ==
  /\ pc = "select"
  /\ Idle
  /\ loop
  /\ tags \/ \E fd \in Fds : sock[fd] # <<>>
  /\ ready' = { fd \in Fds : sock[fd] # <<>> }
  /\ pc' = "serve"
  /\ UNCHANGED <<handlerVars, interleaved, sock, buf, working, testVars, sent>>

\* read_json without a token: the next message of the buffer, after a sysread
\* if the buffer is empty; blocked if the socket is empty, too.
Readable(fd) == IF buf[fd] # <<>> THEN buf[fd] ELSE sock[fd]

ReadJson(fd) ==
  /\ Readable(fd) # <<>>
  /\ buf' = [buf EXCEPT ![fd] = Tail(Readable(fd))]
  /\ sock' = IF buf[fd] # <<>> THEN sock ELSE [sock EXCEPT ![fd] = <<>>]

\* can_read returns the handles in the order of their numbers.
ServedNext(fd) ==
  /\ pc = "serve"
  /\ Idle
  /\ fd \in ready
  /\ \A other \in ready : FdNumber[fd] <= FdNumber[other]
  /\ ready' = ready \ {fd}

ServeCommand(fd) ==
  /\ ServedNext(fd)
  /\ ReadJson(fd)
  /\ ProcessCommand(fd, Head(Readable(fd)))
  /\ UNCHANGED <<pc, interleaved, working, testVars, sent>>

ServeBackend ==
  /\ ServedNext(BackendOut)
  /\ ReadJson(BackendOut)
  /\ SendToBackendRequester
  /\ UNCHANGED <<pc, interleaved, working, testVars, sent>>

ServeInterleaved ==
  /\ pc = "serve"
  /\ Idle
  /\ ready = {}
  /\ interleaved # <<>>
  /\ interleaved' = Tail(interleaved)
  /\ SendToBackendRequester
  /\ UNCHANGED <<pc, ready, sock, buf, working, testVars, sent>>

EndOfServing ==
  /\ pc = "serve"
  /\ Idle
  /\ ready = {}
  /\ interleaved = <<>>
  /\ pc' = IF tags THEN "check" ELSE "select"
  /\ UNCHANGED <<handlerVars, ready, interleaved, sock, buf, working, testVars,
                 sent>>

\* check_asserted_screen: now, or not yet because the last one is too recent
CheckNow ==
  /\ pc = "check"
  /\ CheckAssertedScreen
  /\ pc' = "select"
  /\ UNCHANGED <<ready, interleaved, sock, buf, working, testVars, sent>>

CheckLater ==
  /\ pc = "check"
  /\ pc' = "select"
  /\ UNCHANGED <<handlerVars, ready, interleaved, sock, buf, working, testVars,
                 sent>>

\* read_json with the token of `call`: other messages go to the handler for
\* interleaved commands
CallSysread ==
  /\ ~Idle
  /\ buf[BackendOut] = <<>>
  /\ sock[BackendOut] # <<>>
  /\ buf' = [buf EXCEPT ![BackendOut] = sock[BackendOut]]
  /\ sock' = [sock EXCEPT ![BackendOut] = <<>>]
  /\ UNCHANGED <<handlerVars, loopVars, working, testVars, sent>>

\* Mutant: the message with another token is dropped.
CallInterleaved_bug ==
  /\ ~Idle
  /\ buf[BackendOut] # <<>>
  /\ Head(buf[BackendOut]).token # call.token
  /\ buf' = [buf EXCEPT ![BackendOut] = Tail(@)]
  /\ UNCHANGED <<handlerVars, pc, ready, interleaved, sock, working, testVars,
                 sent>>

CallInterleaved ==
  /\ ~Idle
  /\ buf[BackendOut] # <<>>
  /\ Head(buf[BackendOut]).token # call.token
  /\ interleaved' = Append(interleaved, Head(buf[BackendOut]))
  /\ buf' = [buf EXCEPT ![BackendOut] = Tail(@)]
  /\ UNCHANGED <<handlerVars, pc, ready, sock, working, testVars, sent>>

CallReturns ==
  /\ ~Idle
  /\ buf[BackendOut] # <<>>
  /\ Head(buf[BackendOut]).token = call.token
  /\ FinishCall(Head(buf[BackendOut]).verdict)
  /\ buf' = [buf EXCEPT ![BackendOut] = Tail(@)]
  /\ UNCHANGED <<loopVars, sock, working, testVars, sent>>

LoopEnds ==
  /\ pc = "select"
  /\ Idle
  /\ ~loop
  /\ pc' = "stopped"
  /\ UNCHANGED <<handlerVars, ready, interleaved, sock, buf, working, testVars,
                 sent>>
-----------------------------------------------------------------------------
AutotestStep == \/ AskQuery \/ AskAboutTimeout \/ AskReportTimeout
                \/ AskTestsDone \/ ReceiveAnswer

BackendStep == \/ \E verdict \in Verdicts : BackendAnswersCall(verdict)
               \/ BackendTakes
               \/ BackendReplies

LoopStep == \/ Select
            \/ ServeCommand(Test) \/ ServeCommand(Cmd)
            \/ ServeBackend \/ ServeInterleaved \/ EndOfServing
            \/ CheckNow \/ CheckLater
            \/ CallSysread \/ CallInterleaved \/ CallReturns
            \/ LoopEnds

Next == AutotestStep \/ ClientSends \/ BackendStep \/ LoopStep

Spec == Init /\ [][Next]_vars

\* The processes run. A screen check in progress is polled again and again,
\* and the backend gives a verdict before its deadline is over for long.
Fairness ==
  /\ WF_vars(ReceiveAnswer)
  /\ WF_vars(\E verdict \in Verdicts : BackendAnswersCall(verdict))
  /\ WF_vars(BackendTakes)
  /\ WF_vars(BackendReplies)
  /\ WF_vars(LoopStep)
  /\ SF_vars(CheckNow)
  /\ SF_vars(BackendAnswersCall("found") \/ BackendAnswersCall("timeout"))

FairSpec == Spec /\ Fairness
-----------------------------------------------------------------------------
(* Who owes autotest the answer to its query                                 *)

Places == {"socket", "call", "requester", "screen", "postponed", "answer",
           "nobody"}

\* p is the one place that holds the query or the answer to it
OnlyAt(p) ==
  /\ sock[Test] # <<>> <=> p = "socket"
  /\ call.fd = Test <=> p = "call"
  /\ backend_requester = Test <=> p = "requester"
  /\ tags <=> p = "screen"
  /\ postponed_answer_fd = Test <=> p = "postponed"
  /\ to_test # <<>> <=> p = "answer"

\* While autotest waits, exactly one part of isotovideo (or one channel) owes it
\* the answer, and once it has been answered nobody does: no slot of the command
\* handler is overwritten or cleared while it holds the only trace of a query,
\* and no query is answered twice (the slots of CommandHandler.pm).
OneDebt ==
  \E p \in Places :
    /\ OnlyAt(p)
    /\ test_pc = "waiting" /\ ~died => p # "nobody"
    /\ test_pc # "waiting" => p = "nobody"
    /\ Len(sock[Test]) <= 1 /\ buf[Test] = <<>> /\ Len(to_test) <= 1

\* Wherever the query is kept, it is kept with the token autotest sent it with.
\* query_isotovideo takes the next answer without looking at its token.
AnswerHasToken ==
  /\ to_test # <<>> => Head(to_test).token = query.token
  /\ backend_requester = Test => backend_requester_token = query.token
  /\ tags => active_check_screen_token = query.token
  /\ postponed_answer_fd = Test => postponed_token = query.token

\* send_to_backend_requester hands any reply of the backend to the requester of
\* the moment: while there is a requester, its command or the reply to it is at
\* exactly one place, and no other reply to a forwarded command is on its way.
Replied(s) == { s[i].token : i \in DOMAIN s } \ {call.token}
ForwardedTokens ==
  { to_backend[i].token : i \in { j \in DOMAIN to_backend :
                                    to_backend[j].cmd = "backend" } }
ReplyIsForRequester ==
  loop =>
    LET places == << ForwardedTokens, working, Replied(sock[BackendOut]),
                     Replied(buf[BackendOut]), Replied(interleaved) >>
        used == { i \in DOMAIN places : places[i] # {} }
    IN  IF backend_requester = None
        THEN used = {}
        ELSE \E i \in DOMAIN places :
               used = {i} /\ places[i] = {backend_requester_token}

\* The process is paused exactly as long as it holds an answer back: a pause
\* that resume_test_execution cannot end, or an answer held back with nothing
\* paused, would leave the test hanging.
PausedIffHeld == loop => (reason_for_pause # NotPaused <=> postponed_answer_fd # None)

\* The broadcasts tell the developer mode clients the truth about the pause,
\* also when a resume stops at once at the next command.
ClientsSeePause == clients_paused <=> reason_for_pause # NotPaused

\* autoinst-status.json never claims a pause that is over. (It may miss one: a
\* pause by pause_test_execution is not written to it.)
StatusFileNotStale == status_file.paused => reason_for_pause # NotPaused

\* 'isotovideo: we need to implement a backend queue': with clients that send
\* no commands for the backend, one slot is enough.
NoBackendQueueNeeded == ~died

\* While autotest's query stays held back, autotest gets no answer and none of
\* its commands goes to the backend.
HeldTestStands ==
  [][ postponed_answer_fd = Test /\ postponed_answer_fd' = Test
        => /\ to_test' = to_test
           /\ \A i \in DOMAIN to_backend' \ DOMAIN to_backend :
                to_backend'[i].token # query.token ]_vars

\* The abstract state of the last query
Session ==
  CASE test_pc = "done" -> "over"
    [] test_pc = "ready" -> "idle"
    [] OTHER ->
         IF to_test # <<>> THEN "answered"
         ELSE IF postponed_answer_fd = Test THEN "held"
         ELSE IF backend_requester = Test \/ tags \/ call.cmd = "set_tags_to_assert"
              THEN "working"
         ELSE "asked"

QS == INSTANCE QuerySession WITH session <- Session,
                                 paused <- reason_for_pause # NotPaused

\* The command handler and the main loop keep the promises of QuerySession: one
\* answer per query, no start of work in a pause, release by a resume only.
QueriesServed == QS!Spec

\* Every query of autotest is answered, or held back because the execution is
\* paused ('wait for response (if test is paused, this will block until
\* resume)', autotest.pm:509).
TestAnsweredOrHeld ==
  test_pc = "waiting" ~> (test_pc # "waiting" \/ postponed_answer_fd = Test)

\* Every message of a client gets its response while isotovideo runs ('response
\* is broadcasted to all clients', OpenQA/Commands.pm:29).
ClientAnswered ==
  \A n \in 1..MaxClient :
    sent = n ~> (<<Cmd, n>> \in answered \/ ~loop)
=============================================================================
