---------------------------- MODULE MCIsotovideo ----------------------------
(* Instances of Isotovideo for TLC                                           *)
EXTENDS Isotovideo, TLC

\* cmd_srv_fd is opened before the socket of autotest and the backend's pipes,
\* and IO::Select returns handles by file descriptor number.
OpeningOrder == Cmd :> 3 @@ Test :> 4 @@ BackendOut :> 5

\* What decides about pausing and resuming, and the one command of a client
\* that makes isotovideo wait for the backend while autotest's may be with it
PauseAndResume == {"pause_test_execution", "resume_test_execution",
                   "set_pause_on_next_command"}
WithScreenTimeout == {"set_assert_screen_timeout"}
StatusOnly == {"status"}

\* Clients that send commands for the backend, too
BackendClients == {"backend", "set_assert_screen_timeout", "status",
                   "pause_test_execution", "resume_test_execution"}
AllClients == Settings \cup BackendClients
BackendAndResume == {"backend", "resume_test_execution"}
=============================================================================
