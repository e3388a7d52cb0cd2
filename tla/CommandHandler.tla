--------------------------- MODULE CommandHandler ---------------------------
(***************************************************************************)
(* The command handlers of the isotovideo process                          *)
(* (OpenQA/Isotovideo/CommandHandler.pm): what one command received from    *)
(* autotest or from a client of the command server does to the pause state, *)
(* to the single slot of the command that waits for the backend, to the     *)
(* screen check in progress and to the three output channels.               *)
(*                                                                          *)
(* A handler takes the answer fd, the command and the reason for pause it   *)
(* finds: resume_test_execution clears the reason and then processes the    *)
(* postponed command in the same invocation.                                *)
(*                                                                          *)
(* A synchronous request to the backend (backend::driver::_send_json)       *)
(* blocks the handler. The step before it leaves the request in `call`, and *)
(* FinishCall is the rest of the handler.                                   *)
(***************************************************************************)
EXTENDS Naturals, Sequences

CONSTANT TestNames      \* names of test modules

None == "none"
Test == "test"          \* test_fd: the socket of autotest
Cmd == "cmd"            \* cmd_srv_fd: the socket of the command server
NotPaused == "0"

PureQueries == {"status", "is_configured_to_pause_on_timeout"}
Settings == {"set_pause_at_test", "set_pause_on_screen_mismatch",
             "set_pause_on_next_command", "set_pause_on_failure"}
Commands == PureQueries \cup Settings \cup
            {"backend", "check_screen", "report_timeout", "set_current_test",
             "pause_test_execution", "resume_test_execution", "tests_done",
             "set_assert_screen_timeout"}
Mismatches == {"assert_screen", "check_screen"}
Flags == {"on", "off"}
Args == {None, "manual", "failure"} \cup Mismatches \cup Flags \cup TestNames
Reasons == {NotPaused, "next_command", "screen_mismatch", "module",
            "manual", "failure"}

\* A token is the sender and the number of its request: random_string(8) of
\* send_json, which no two requests share.
Tokens == {Test, Cmd} \X Nat
NoToken == <<None, 0>>
\* The token of a driver call that carries none of its own. One suffices: the
\* caller reads the reply to one call before it makes the next.
CallToken == <<"isotovideo", 0>>
AllTokens == Tokens \cup {NoToken, CallToken}

\* The one argument of a command that a handler looks at
ArgsOf(cmd) ==
  IF cmd \in {"set_pause_at_test", "set_current_test"} THEN TestNames \cup {None}
  ELSE IF cmd = "set_pause_on_screen_mismatch" THEN Mismatches \cup {None}
  ELSE IF cmd \in {"set_pause_on_next_command", "set_pause_on_failure"} THEN Flags
  ELSE IF cmd = "check_screen" THEN Mismatches
  ELSE IF cmd = "pause_test_execution" THEN {"manual", "failure"}
  ELSE Args

Messages == { m \in [cmd : Commands, token : Tokens, arg : Args] :
                m.arg \in ArgsOf(m.cmd) }
NoCommand == [cmd |-> None, token |-> NoToken, arg |-> None]

BackendCalls == {"clear_serial_buffer", "set_tags_to_assert",
                 "set_assert_screen_timeout", "check_asserted_screen"}
NoCall == [cmd |-> None, token |-> NoToken, fd |-> None, msg |-> NoCommand]
Calls == [cmd : BackendCalls, token : AllTokens, fd : {Test, Cmd, None},
          msg : Messages \cup {NoCommand}]
Requests == [cmd : BackendCalls \cup {"backend"}, token : AllTokens]

Rets == {"ok", "no", "status", "resumed", "found", "timeout", "rsp"}
Answers == [token : AllTokens, ret : Rets]
Verdicts == {"found", "timeout", "nothing"}

VARIABLES
  pause_test_name,            \* the test module to pause at
  pause_on_screen_mismatch,   \* None or one of Mismatches
  pause_on_next_command, pause_on_failure,
  reason_for_pause,
  postponed_answer_fd, postponed_token, postponed_command,
  backend_requester, backend_requester_token,
  tags,                       \* whether tags to assert are defined
  active_check_screen_token,
  status,                     \* initial, running or finished
  status_file,                \* what autoinst-status.json holds
  clients_paused,             \* the last of paused / resumed sent to clients
  call,                       \* the driver call the process is blocked in
  to_test,                    \* answers on their way to autotest
  to_backend,                 \* commands on their way to the backend
  answered,                   \* tokens of client commands with a response
  loop,                       \* Runner: the loop status
  died                        \* a handler has thrown an exception

configVars == <<pause_test_name, pause_on_screen_mismatch,
                pause_on_next_command, pause_on_failure>>
pauseVars == <<reason_for_pause, postponed_answer_fd, postponed_token,
               postponed_command>>
requesterVars == <<backend_requester, backend_requester_token>>
screenVars == <<tags, active_check_screen_token>>
viewVars == <<status, status_file, clients_paused>>
handlerVars == <<configVars, pauseVars, requesterVars, screenVars, viewVars,
                 call, to_test, to_backend, answered, loop, died>>

ConfigTypeOK ==
  /\ pause_test_name \in TestNames \cup {None}
  /\ pause_on_screen_mismatch \in Mismatches \cup {None}
  /\ pause_on_next_command \in Flags
  /\ pause_on_failure \in Flags

PauseTypeOK ==
  /\ reason_for_pause \in Reasons
  /\ postponed_answer_fd \in {Test, Cmd, None}
  /\ postponed_token \in AllTokens
  /\ postponed_command \in Messages \cup {NoCommand}

SlotTypeOK ==
  /\ backend_requester \in {Test, Cmd, None}
  /\ backend_requester_token \in AllTokens
  /\ tags \in BOOLEAN
  /\ active_check_screen_token \in AllTokens

ViewTypeOK ==
  /\ status \in {"initial", "running", "finished"}
  /\ status_file \in [paused : BOOLEAN,
                      status : {"none", "initial", "running", "finished"}]
  /\ clients_paused \in BOOLEAN

OutputTypeOK ==
  /\ call \in Calls \cup {NoCall}
  /\ to_test \in Seq(Answers)
  /\ to_backend \in Seq(Requests)
  /\ answered \in SUBSET AllTokens
  /\ loop \in BOOLEAN
  /\ died \in BOOLEAN

HandlerTypeOK ==
  ConfigTypeOK /\ PauseTypeOK /\ SlotTypeOK /\ ViewTypeOK /\ OutputTypeOK

\* The conditions when to pause come from the job's vars.
HandlerInit ==
  /\ pause_test_name \in TestNames \cup {None}
  /\ pause_on_screen_mismatch \in Mismatches \cup {None}
  /\ pause_on_next_command \in Flags
  /\ pause_on_failure \in Flags
  /\ reason_for_pause = NotPaused
  /\ postponed_answer_fd = None
  /\ postponed_token = NoToken
  /\ postponed_command = NoCommand
  /\ backend_requester = None
  /\ backend_requester_token = NoToken
  /\ tags = FALSE
  /\ active_check_screen_token = NoToken
  /\ status = "initial"
  /\ status_file = [paused |-> FALSE, status |-> "none"]
  /\ clients_paused = FALSE
  /\ call = NoCall
  /\ to_test = <<>>
  /\ to_backend = <<>>
  /\ answered = {}
  /\ loop = TRUE
  /\ died = FALSE
-----------------------------------------------------------------------------
(* What the handlers are built from                                          *)

Delivered(answers, fd, token, ret) ==
  IF fd = Test THEN Append(answers, [token |-> token, ret |-> ret]) ELSE answers

\* A response to a client goes to every client through the command server; it
\* is kept as the token it answers.
Noted(tokens, fd, token) == IF fd = Cmd THEN tokens \cup {token} ELSE tokens

SendResponse(fd, token, ret) ==
  /\ to_test' = Delivered(to_test, fd, token, ret)
  /\ answered' = Noted(answered, fd, token)

UpdateStatusFile(reason, s) ==
  status_file' = [paused |-> reason # NotPaused, status |-> s]

\* backend::driver::_send_json, up to the point where it waits for the reply
CallBackend(cmd, token, fd, m) ==
  /\ call' = [cmd |-> cmd, token |-> token, fd |-> fd, msg |-> m]
  /\ to_backend' = Append(to_backend, [cmd |-> cmd, token |-> token])

HoldAnswer(fd, token, command) ==
  /\ postponed_answer_fd' = fd
  /\ postponed_token' = token
  /\ postponed_command' = command

ReleaseAnswer == HoldAnswer(None, NoToken, NoCommand)

IsConfiguredToPauseOnTimeout(check) ==
  \/ pause_on_screen_mismatch = "check_screen"
  \/ pause_on_screen_mismatch = "assert_screen" /\ check = "assert_screen"

\* Mutant: only the wish to pause on the next command counts.
PauseReason_bug(reason) ==
  IF pause_on_next_command = "on" THEN "next_command" ELSE NotPaused

\* The reason a command for the backend finds: the one there is, or else the
\* wish to pause on the next command.
PauseReason(reason) ==
  IF reason = NotPaused /\ pause_on_next_command = "on"
  THEN "next_command" ELSE reason

PostponeBackendCommand(fd, m, reason) ==
  /\ PauseReason(reason) # NotPaused
  /\ reason_for_pause' = PauseReason(reason)
  /\ clients_paused' = TRUE
  /\ UpdateStatusFile(PauseReason(reason), status)
  /\ HoldAnswer(fd, m.token, m)
  /\ UNCHANGED <<requesterVars, screenVars, status, call, to_backend, loop,
                 died>>
-----------------------------------------------------------------------------
(* Commands that go to the backend unless the test execution is paused       *)

ForwardToBackend(fd, m, reason) ==
  /\ PauseReason(reason) = NotPaused
  /\ backend_requester = None
  /\ backend_requester' = fd
  /\ backend_requester_token' = m.token
  /\ to_backend' = Append(to_backend, [cmd |-> "backend", token |-> m.token])
  /\ UNCHANGED <<screenVars, status, call, loop, died>>

\* 'isotovideo: we need to implement a backend queue'
BackendQueueMissing(reason) ==
  /\ PauseReason(reason) = NotPaused
  /\ backend_requester # None
  /\ died' = TRUE
  /\ loop' = FALSE
  /\ UNCHANGED <<requesterVars, screenVars, status, call, to_backend>>

StartScreenCheck(fd, m, reason) ==
  /\ PauseReason(reason) = NotPaused
  /\ active_check_screen_token' = m.token
  /\ CallBackend("set_tags_to_assert", m.token, fd, m)
  /\ UNCHANGED <<requesterVars, tags, status, loop, died>>

\* What the pause variables become when the command is not postponed
ContinueUnpaused(reason) ==
  /\ reason_for_pause' = reason
  /\ UNCHANGED <<postponed_answer_fd, postponed_token, postponed_command,
                 status_file, clients_paused>>

BackendCommand(fd, m) ==
  /\ m.cmd = "backend"
  /\ \/ PostponeBackendCommand(fd, m, reason_for_pause)
     \/ /\ \/ ForwardToBackend(fd, m, reason_for_pause)
           \/ BackendQueueMissing(reason_for_pause)
        /\ ContinueUnpaused(reason_for_pause)
  /\ UNCHANGED <<configVars, to_test, answered>>

CheckScreen(fd, m) ==
  /\ m.cmd = "check_screen"
  /\ \/ PostponeBackendCommand(fd, m, reason_for_pause)
     \/ /\ StartScreenCheck(fd, m, reason_for_pause)
        /\ ContinueUnpaused(reason_for_pause)
  /\ UNCHANGED <<configVars, to_test, answered>>
-----------------------------------------------------------------------------
(* Pausing                                                                   *)

\* Mutant: the answer is given and held back.
PauseNow_bug(fd, m, reason) ==
  /\ reason_for_pause' = reason
  /\ clients_paused' = TRUE
  /\ HoldAnswer(fd, m.token, NoCommand)
  /\ SendResponse(fd, m.token, "ok")
  /\ UNCHANGED status

PauseNow(fd, m, reason) ==
  /\ reason_for_pause' = reason
  /\ clients_paused' = TRUE
  /\ HoldAnswer(fd, m.token, NoCommand)
  /\ UNCHANGED <<status, to_test, answered>>

RespondOnly(fd, m, ret) ==
  /\ SendResponse(fd, m.token, ret)
  /\ UNCHANGED <<pauseVars, viewVars>>

ReportTimeout(fd, m) ==
  /\ m.cmd = "report_timeout"
  /\ \/ /\ ~IsConfiguredToPauseOnTimeout(m.arg)
        /\ RespondOnly(fd, m, "no")
     \/ /\ IsConfiguredToPauseOnTimeout(m.arg)
        /\ PauseNow(fd, m, "screen_mismatch")
        /\ UpdateStatusFile("screen_mismatch", status)
  /\ UNCHANGED <<configVars, requesterVars, screenVars, call, to_backend,
                 loop, died>>

\* Mutant: a pause in a pause is not recognised as nothing to do.
PauseTestExecution_bug(fd, m) ==
  /\ m.cmd = "pause_test_execution"
  /\ LET nothing_to_do == m.arg = "failure" /\ pause_on_failure = "off"
     IN  \/ nothing_to_do /\ RespondOnly(fd, m, "ok")
         \/ /\ ~nothing_to_do
            /\ PauseNow(fd, m, m.arg)
            /\ UNCHANGED status_file
  /\ UNCHANGED <<configVars, requesterVars, screenVars, call, to_backend,
                 loop, died>>

\* The status file is not written here, unlike in every other handler that
\* pauses.
PauseTestExecution(fd, m) ==
  /\ m.cmd = "pause_test_execution"
  /\ LET nothing_to_do == \/ reason_for_pause # NotPaused
                          \/ m.arg = "failure" /\ pause_on_failure = "off"
     IN  \/ nothing_to_do /\ RespondOnly(fd, m, "ok")
         \/ /\ ~nothing_to_do
            /\ PauseNow(fd, m, m.arg)
            /\ UNCHANGED status_file
  /\ UNCHANGED <<configVars, requesterVars, screenVars, call, to_backend,
                 loop, died>>

SetCurrentTest(fd, m) ==
  /\ m.cmd = "set_current_test"
  /\ CallBackend("clear_serial_buffer", CallToken, fd, m)
  /\ UNCHANGED <<configVars, pauseVars, requesterVars, screenVars, viewVars,
                 to_test, answered, loop, died>>

\* The rest of set_current_test, after the serial buffer has been cleared.
\* m.arg is the name of the test, None once the last test is over.
EnterTest(fd, m) ==
  /\ LET reached == m.arg # None /\ m.arg = pause_test_name
         reason == IF reached THEN "module" ELSE reason_for_pause
     IN  /\ UpdateStatusFile(reason, "running")
         /\ reason_for_pause' = reason
         /\ \/ /\ reason = NotPaused
               /\ SendResponse(fd, m.token, "ok")
               /\ UNCHANGED <<postponed_answer_fd, postponed_token,
                              postponed_command, clients_paused>>
            \/ /\ reason # NotPaused
               /\ clients_paused' = TRUE
               /\ HoldAnswer(fd, m.token, NoCommand)
               /\ UNCHANGED <<to_test, answered>>
  /\ status' = "running"
  /\ UNCHANGED <<screenVars>>
-----------------------------------------------------------------------------
(* Resuming                                                                  *)

\* Nothing has been postponed: only the client is told.
ResumeNothing(fd, m) ==
  /\ postponed_answer_fd = None
  /\ SendResponse(fd, m.token, "ok")
  /\ reason_for_pause' = NotPaused
  /\ UpdateStatusFile(NotPaused, status)
  /\ clients_paused' = FALSE
  /\ UNCHANGED <<postponed_answer_fd, postponed_token, postponed_command,
                 requesterVars, screenVars, status, call, to_backend, loop,
                 died>>

\* Mutant: the postponed answer is sent with the token of the client's command.
ResumeAnswer_token(fd, m) ==
  /\ postponed_answer_fd # None
  /\ postponed_command = NoCommand
  /\ reason_for_pause' = NotPaused
  /\ UpdateStatusFile(NotPaused, status)
  /\ clients_paused' = FALSE
  /\ ReleaseAnswer
  /\ to_test' = Delivered(Delivered(to_test, fd, m.token, "ok"),
                          postponed_answer_fd, m.token, "resumed")
  /\ answered' = Noted(Noted(answered, fd, m.token), postponed_answer_fd, m.token)
  /\ UNCHANGED <<requesterVars, screenVars, status, call, to_backend, loop,
                 died>>

\* Mutant: the slot of the postponed answer is not cleared.
ResumeAnswer_kept(fd, m) ==
  /\ postponed_answer_fd # None
  /\ postponed_command = NoCommand
  /\ reason_for_pause' = NotPaused
  /\ UpdateStatusFile(NotPaused, status)
  /\ clients_paused' = FALSE
  /\ to_test' = Delivered(Delivered(to_test, fd, m.token, "ok"),
                          postponed_answer_fd, postponed_token, "resumed")
  /\ answered' = Noted(Noted(answered, fd, m.token),
                       postponed_answer_fd, postponed_token)
  /\ UNCHANGED <<requesterVars, screenVars, status, call, to_backend, loop,
                 died, postponed_answer_fd, postponed_token, postponed_command>>

\* Mutant: the status file is only written when a pause begins.
ResumeAnswer_file(fd, m) ==
  /\ postponed_answer_fd # None
  /\ postponed_command = NoCommand
  /\ reason_for_pause' = NotPaused
  /\ clients_paused' = FALSE
  /\ ReleaseAnswer
  /\ to_test' = Delivered(Delivered(to_test, fd, m.token, "ok"),
                          postponed_answer_fd, postponed_token, "resumed")
  /\ answered' = Noted(Noted(answered, fd, m.token),
                       postponed_answer_fd, postponed_token)
  /\ UNCHANGED <<requesterVars, screenVars, status, status_file, call,
                 to_backend, loop, died>>

\* An answer without a command: send it now, after the response to the client.
ResumeAnswer(fd, m) ==
  /\ postponed_answer_fd # None
  /\ postponed_command = NoCommand
  /\ reason_for_pause' = NotPaused
  /\ UpdateStatusFile(NotPaused, status)
  /\ clients_paused' = FALSE
  /\ ReleaseAnswer
  /\ to_test' = Delivered(Delivered(to_test, fd, m.token, "ok"),
                          postponed_answer_fd, postponed_token, "resumed")
  /\ answered' = Noted(Noted(answered, fd, m.token),
                       postponed_answer_fd, postponed_token)
  /\ UNCHANGED <<requesterVars, screenVars, status, call, to_backend, loop,
                 died>>

\* Mutant: the clients are told of the resume after the command has been
\* processed again.
ResumeCommand_order(fd, m) ==
  /\ postponed_answer_fd # None
  /\ postponed_command # NoCommand
  /\ SendResponse(fd, m.token, "ok")
  /\ clients_paused' = FALSE
  /\ LET p == postponed_command
         reason == PauseReason(NotPaused)
     IN  \/ /\ reason # NotPaused
            /\ reason_for_pause' = reason
            /\ UpdateStatusFile(reason, status)
            /\ HoldAnswer(postponed_answer_fd, p.token, p)
            /\ UNCHANGED <<requesterVars, screenVars, status, call, to_backend,
                           loop, died>>
         \/ /\ \/ /\ p.cmd = "backend"
                  /\ \/ ForwardToBackend(postponed_answer_fd, p, NotPaused)
                     \/ BackendQueueMissing(NotPaused)
               \/ /\ p.cmd = "check_screen"
                  /\ StartScreenCheck(postponed_answer_fd, p, NotPaused)
            /\ reason_for_pause' = NotPaused
            /\ UpdateStatusFile(NotPaused, status)
            /\ ReleaseAnswer

\* Mutant: the postponed command is dropped with its answer.
ResumeCommand_drop(fd, m) ==
  /\ postponed_answer_fd # None
  /\ postponed_command # NoCommand
  /\ SendResponse(fd, m.token, "ok")
  /\ reason_for_pause' = NotPaused
  /\ UpdateStatusFile(NotPaused, status)
  /\ clients_paused' = FALSE
  /\ ReleaseAnswer
  /\ UNCHANGED <<requesterVars, screenVars, status, call, to_backend, loop, died>>

\* A postponed command is processed again, with the reason for pause cleared
\* but the wish to pause on the next command still in force.
ResumeCommand(fd, m) ==
  /\ postponed_answer_fd # None
  /\ postponed_command # NoCommand
  /\ SendResponse(fd, m.token, "ok")
  /\ LET p == postponed_command
     IN  \/ PostponeBackendCommand(postponed_answer_fd, p, NotPaused)
         \/ /\ \/ /\ p.cmd = "backend"
                  /\ \/ ForwardToBackend(postponed_answer_fd, p, NotPaused)
                     \/ BackendQueueMissing(NotPaused)
               \/ /\ p.cmd = "check_screen"
                  /\ StartScreenCheck(postponed_answer_fd, p, NotPaused)
            /\ reason_for_pause' = NotPaused
            /\ UpdateStatusFile(NotPaused, status)
            /\ clients_paused' = FALSE
            /\ ReleaseAnswer

ResumeTestExecution(fd, m) ==
  /\ m.cmd = "resume_test_execution"
  /\ ResumeNothing(fd, m) \/ ResumeAnswer(fd, m) \/ ResumeCommand(fd, m)
  /\ UNCHANGED configVars
-----------------------------------------------------------------------------
(* Settings, queries, the assert_screen timeout and the end of the tests      *)

Setting(fd, m) ==
  /\ m.cmd \in Settings
  /\ pause_test_name' =
       IF m.cmd = "set_pause_at_test" THEN m.arg ELSE pause_test_name
  /\ pause_on_screen_mismatch' =
       IF m.cmd = "set_pause_on_screen_mismatch" THEN m.arg
                                                 ELSE pause_on_screen_mismatch
  /\ pause_on_next_command' =
       IF m.cmd = "set_pause_on_next_command" THEN m.arg
                                              ELSE pause_on_next_command
  /\ pause_on_failure' =
       IF m.cmd = "set_pause_on_failure" THEN m.arg ELSE pause_on_failure
  /\ RespondOnly(fd, m, "ok")
  /\ UNCHANGED <<requesterVars, screenVars, call, to_backend, loop, died>>

PureQuery(fd, m) ==
  /\ m.cmd \in PureQueries
  /\ RespondOnly(fd, m, "status")
  /\ UNCHANGED <<configVars, requesterVars, screenVars, call, to_backend,
                 loop, died>>

SetAssertScreenTimeout(fd, m) ==
  /\ m.cmd = "set_assert_screen_timeout"
  /\ CallBackend("set_assert_screen_timeout", m.token, fd, m)
  /\ UNCHANGED <<configVars, pauseVars, requesterVars, screenVars, viewVars,
                 to_test, answered, loop, died>>

\* The reason for pause survives; the event tests_done ends the main loop.
TestsDone(fd, m) ==
  /\ m.cmd = "tests_done"
  /\ tags' = FALSE
  /\ active_check_screen_token' = NoToken
  /\ backend_requester' = None
  /\ backend_requester_token' = NoToken
  /\ ReleaseAnswer
  /\ SendResponse(fd, m.token, "ok")
  /\ loop' = FALSE
  /\ status' = "finished"
  /\ UpdateStatusFile(reason_for_pause, "finished")
  /\ UNCHANGED <<configVars, reason_for_pause, clients_paused, call,
                 to_backend, died>>

ProcessCommand(fd, m) ==
  \/ BackendCommand(fd, m)
  \/ CheckScreen(fd, m)
  \/ ReportTimeout(fd, m)
  \/ PauseTestExecution(fd, m)
  \/ SetCurrentTest(fd, m)
  \/ ResumeTestExecution(fd, m)
  \/ Setting(fd, m)
  \/ PureQuery(fd, m)
  \/ SetAssertScreenTimeout(fd, m)
  \/ TestsDone(fd, m)
-----------------------------------------------------------------------------
(* Answers from the backend                                                  *)

\* The reply to a forwarded command. Without a requester it is dropped.
SendToBackendRequester ==
  /\ IF backend_requester = None
     THEN UNCHANGED <<to_test, answered>>
     ELSE SendResponse(backend_requester, backend_requester_token, "rsp")
  /\ backend_requester' = None
  /\ backend_requester_token' = NoToken
  /\ UNCHANGED <<configVars, pauseVars, screenVars, viewVars, call,
                 to_backend, loop, died>>

\* The rest of check_asserted_screen once the verdict is there
ScreenVerdict(verdict) ==
  \/ /\ verdict = "nothing"
     /\ UNCHANGED <<screenVars, to_test, answered>>
  \/ /\ verdict # "nothing"
     /\ SendResponse(Test, active_check_screen_token, verdict)
     /\ tags' = FALSE
     /\ active_check_screen_token' = NoToken

CheckAssertedScreen ==
  /\ tags
  /\ CallBackend("check_asserted_screen", CallToken, None, NoCommand)
  /\ UNCHANGED <<configVars, pauseVars, requesterVars, screenVars, viewVars,
                 to_test, answered, loop, died>>

\* The reply to `call` has been read: the rest of the handler that made it
FinishCall(verdict) ==
  /\ \/ /\ call.cmd = "clear_serial_buffer"
        /\ EnterTest(call.fd, call.msg)
     \/ /\ call.cmd = "set_tags_to_assert"
        /\ tags' = TRUE
        /\ UNCHANGED <<pauseVars, viewVars, active_check_screen_token,
                       to_test, answered>>
     \/ /\ call.cmd = "set_assert_screen_timeout"
        /\ RespondOnly(call.fd, call.msg, "ok")
        /\ UNCHANGED screenVars
     \/ /\ call.cmd = "check_asserted_screen"
        /\ ScreenVerdict(verdict)
        /\ UNCHANGED <<pauseVars, viewVars>>
  /\ call' = NoCall
  /\ UNCHANGED <<configVars, requesterVars, to_backend, loop, died>>
=============================================================================
