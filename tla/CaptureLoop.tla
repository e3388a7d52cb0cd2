----------------------------- MODULE CaptureLoop -----------------------------
(***************************************************************************)
(* The process of the backend (backend/baseclass.pm): one thread that takes *)
(* screenshots, answers commands and waits for the screen to change or to   *)
(* stand still, all from do_capture.                                        *)
(*                                                                          *)
(* A handler that types runs the capture loop again inside of itself, so    *)
(* later commands are handled while an earlier one is not finished. A       *)
(* handler that waits returns at once; the reply is sent by a later         *)
(* do_capture, with the token kept in _postponed_cmd_token.                 *)
(*                                                                          *)
(* Time passes in ticks of the screenshot interval; only ages are kept.     *)
(***************************************************************************)
EXTENDS Integers, Sequences

CONSTANTS
  Timeouts,      \* the timeouts of wait commands, in ticks
  StillTimes,    \* the times a screen has to stand still, in ticks
  Screens,       \* what the screen may show
  MaxRounds,     \* bound: nested loops of one command after the first
  MaxCommands    \* bound: commands of each requester

\* isotovideo forwards one command at a time (for autotest or a client), and its
\* driver waits for the reply to each call of its own.
Forwarded == "forwarded"
Driver == "driver"
Requesters == {Forwarded, Driver}
Tokens == Requesters \X (1..MaxCommands)
QuitToken == <<"QUIT", 0>>

ASSUME TimesAssumption ==
  /\ Timeouts \subseteq Nat /\ StillTimes \subseteq Nat
  /\ \E longest \in StillTimes : \A other \in StillTimes : other <= longest
ASSUME BoundsAssumption == MaxRounds \in Nat /\ MaxCommands \in Nat
ASSUME ScreensAssumption == Screens # {}

\* plain stands for every command that is answered when it is handled
\* (select_console of autotest among them), keys for those that run nested capture loops (type_string, send_key, hold_key,
\* wait_serial).
ForwardedKinds == {"plain", "keys", "set_reference_screenshot",
                   "wait_screen_change", "wait_still_screen"}
DriverKinds == {"plain", "stop_vm"}
Kinds == ForwardedKinds \cup DriverKinds
Commands == [token : Tokens, kind : Kinds, timeout : Timeouts \cup {0},
             stilltime : StillTimes \cup {0}]
Replies == [token : Tokens, timed_out : BOOLEAN]
Quit == [token |-> QuitToken, timed_out |-> FALSE]

NoWait == [elapsed |-> 0, timeout |-> 0, still |-> 0, stilltime |-> 0,
           active |-> FALSE]
Waits == [elapsed : Nat, timeout : Nat, still : Nat, stilltime : Nat,
          active : BOOLEAN]
\* A handler in a nested loop: the time left for the loop, the rounds to come,
\* and the commands of its list that come after it.
Frames == [cmd : Commands, left : Nat, rounds : Nat, rest : Seq(Commands)]

MaxStill == CHOOSE n \in StillTimes : \A other \in StillTimes : other <= n
Least(m, n) == IF m <= n THEN m ELSE n

VARIABLES
  pc,              \* where the process is
  cmdpipe,         \* commands in the pipe
  rsppipe,         \* all the backend has ever replied
  batch,           \* commands of the innermost list that are not yet handled
  frames,          \* suspended handlers, the innermost last
  wait_change,     \* _wait_screen_change
  wait_still,      \* _wait_still_screen
  postponed_cmd_token,
  screen,          \* what the machine shows
  last_image, reference_screenshot,
  due,             \* the screenshot interval is over
  same_for,        \* how long the screenshots have been the same (up to MaxStill)
  term_ignored,    \* SIGTERM is ignored
  asked            \* per requester: number of commands sent

waitVars == <<wait_change, wait_still, postponed_cmd_token>>
imageVars == <<screen, last_image, reference_screenshot, due, same_for>>
vars == <<pc, cmdpipe, rsppipe, batch, frames, waitVars, imageVars,
          term_ignored, asked>>

TypeOK ==
  /\ pc \in {"capture", "select", "handle", "stopping", "closing", "quitting",
             "quit_sent", "exited"}
  /\ cmdpipe \in Seq(Commands)
  /\ rsppipe \in Seq(Replies \cup {Quit})
  /\ batch \in Seq(Commands)
  /\ frames \in Seq(Frames)
  /\ wait_change \in Waits
  /\ wait_still \in Waits
  /\ postponed_cmd_token \in Tokens \cup {QuitToken}
  /\ screen \in Screens
  /\ last_image \in Screens
  /\ reference_screenshot \in Screens
  /\ due \in BOOLEAN
  /\ same_for \in 0..MaxStill
  /\ term_ignored \in BOOLEAN
  /\ asked \in [Requesters -> 0..MaxCommands]

\* The virtual machine has been started: there is a screenshot.
Init ==
  /\ pc = "capture"
  /\ cmdpipe = <<>>
  /\ rsppipe = <<>>
  /\ batch = <<>>
  /\ frames = <<>>
  /\ wait_change = NoWait
  /\ wait_still = NoWait
  /\ postponed_cmd_token = QuitToken
  /\ screen \in Screens
  /\ last_image = screen
  /\ reference_screenshot = screen
  /\ due = FALSE
  /\ same_for = 0
  /\ term_ignored = FALSE
  /\ asked = [r \in Requesters |-> 0]
-----------------------------------------------------------------------------
(* isotovideo, the machine and the clock                                     *)

ReplyTokens == { rsppipe[i].token : i \in DOMAIN rsppipe }
Answered(r) == asked[r] = 0 \/ <<r, asked[r]>> \in ReplyTokens

SendCommand(r, kind, timeout, stilltime) ==
  /\ asked[r] < MaxCommands
  /\ Answered(r)
  /\ asked' = [asked EXCEPT ![r] = @ + 1]
  /\ cmdpipe' = Append(cmdpipe, [token |-> <<r, asked[r] + 1>>, kind |-> kind,
                                 timeout |-> timeout, stilltime |-> stilltime])
  /\ UNCHANGED <<pc, rsppipe, batch, frames, waitVars, imageVars, term_ignored>>

IsotovideoSends ==
  \/ \E kind \in {"plain", "keys", "set_reference_screenshot"} :
       SendCommand(Forwarded, kind, 0, 0)
  \/ \E timeout \in Timeouts : SendCommand(Forwarded, "wait_screen_change", timeout, 0)
  \/ \E timeout \in Timeouts, stilltime \in StillTimes :
       SendCommand(Forwarded, "wait_still_screen", timeout, stilltime)
  \/ \E kind \in DriverKinds : SendCommand(Driver, kind, 0, 0)

ScreenChanges ==
  /\ screen' \in Screens \ {screen}
  /\ UNCHANGED <<pc, cmdpipe, rsppipe, batch, frames, waitVars, last_image,
                 reference_screenshot, due, same_for, term_ignored, asked>>

Older(wait) ==
  IF wait.active
  THEN [wait EXCEPT !.elapsed = Least(@ + 1, wait.timeout + 1),
                    !.still = Least(@ + 1, wait.stilltime)]
  ELSE wait

Tick ==
  /\ pc # "exited"
  /\ due' = TRUE
  /\ wait_change' = Older(wait_change)
  /\ wait_still' = Older(wait_still)
  /\ frames' = [ i \in DOMAIN frames |->
                   [frames[i] EXCEPT !.left = IF @ = 0 THEN 0 ELSE @ - 1] ]
  /\ same_for' = Least(same_for + 1, MaxStill)
  /\ UNCHANGED <<pc, cmdpipe, rsppipe, batch, postponed_cmd_token, screen,
                 last_image, reference_screenshot, term_ignored, asked>>
-----------------------------------------------------------------------------
(* do_capture                                                                *)

Send(token, timed_out) ==
  rsppipe' = Append(rsppipe, [token |-> token, timed_out |-> timed_out])

Innermost == frames[Len(frames)]
NestedTimeIsUp == frames # <<>> /\ Innermost.left = 0

\* The screenshot of this round: a new one if the interval is over
Image == IF due THEN screen ELSE last_image

Capture ==
  /\ last_image' = Image
  /\ same_for' = IF Image # last_image THEN 0 ELSE same_for
  /\ due' = FALSE

\* similiarity_to_reference below the level of the command
Changed == reference_screenshot # Image
ChangeIsOver ==
  wait_change.active /\ (Changed \/ wait_change.elapsed > wait_change.timeout)

CheckForScreenChange ==
  /\ Send(postponed_cmd_token, wait_change.elapsed > wait_change.timeout)
  /\ wait_change' = NoWait
  /\ UNCHANGED <<wait_still, reference_screenshot>>

StillAge == IF Changed THEN 0 ELSE wait_still.still
IsStill == StillAge >= wait_still.stilltime
StillIsOver == IsStill \/ wait_still.elapsed > wait_still.timeout

\* Mutant: the new screenshot does not become the reference.
CheckForStillScreen_bug ==
  /\ UNCHANGED reference_screenshot
  /\ \/ /\ StillIsOver
        /\ Send(postponed_cmd_token, ~IsStill)
        /\ wait_still' = NoWait
     \/ /\ ~StillIsOver
        /\ wait_still' = [wait_still EXCEPT !.still = StillAge]
        /\ UNCHANGED rsppipe
  /\ UNCHANGED wait_change

CheckForStillScreen ==
  /\ reference_screenshot' = Image
  /\ \/ /\ StillIsOver
        /\ Send(postponed_cmd_token, ~IsStill)
        /\ wait_still' = NoWait
     \/ /\ ~StillIsOver
        /\ wait_still' = [wait_still EXCEPT !.still = StillAge]
        /\ UNCHANGED rsppipe
  /\ UNCHANGED wait_change

\* do_capture up to its select(): the second check is only made if the first did
\* not send a reply.
CaptureAndCheck ==
  /\ pc = "capture"
  /\ ~NestedTimeIsUp
  /\ Capture
  /\ \/ ChangeIsOver /\ CheckForScreenChange
     \/ ~ChangeIsOver /\ wait_still.active /\ CheckForStillScreen
     \/ /\ ~ChangeIsOver
        /\ ~wait_still.active
        /\ UNCHANGED <<rsppipe, wait_change, wait_still, reference_screenshot>>
  /\ pc' = "select"
  /\ UNCHANGED <<cmdpipe, batch, frames, postponed_cmd_token, screen,
                 term_ignored, asked>>

\* select() returns for the next screenshot or at the end of a nested loop ...
SelectTimesOut ==
  /\ pc = "select"
  /\ cmdpipe = <<>>
  /\ due \/ NestedTimeIsUp
  /\ pc' = "capture"
  /\ UNCHANGED <<cmdpipe, rsppipe, batch, frames, waitVars, imageVars,
                 term_ignored, asked>>

\* ... or because there are commands: read_json in list mode takes them all.
ReadCommands ==
  /\ pc = "select"
  /\ cmdpipe # <<>>
  /\ batch' = cmdpipe
  /\ cmdpipe' = <<>>
  /\ pc' = "handle"
  /\ UNCHANGED <<rsppipe, frames, waitVars, imageVars, term_ignored, asked>>
-----------------------------------------------------------------------------
(* _handle_cmd                                                               *)

Handles(kind) ==
  /\ pc = "handle"
  /\ batch # <<>>
  /\ Head(batch).kind = kind

HandlePlain ==
  /\ Handles("plain")
  /\ Send(Head(batch).token, FALSE)
  /\ batch' = Tail(batch)
  /\ UNCHANGED <<pc, cmdpipe, frames, waitVars, imageVars, term_ignored, asked>>

\* select_console takes a screenshot, and does not set last_screenshot, so that
\* the next one is due as before.
HandleSelectConsole ==
  /\ Handles("plain")
  /\ Head(batch).token[1] = Forwarded
  /\ last_image' = screen
  /\ same_for' = IF screen # last_image THEN 0 ELSE same_for
  /\ Send(Head(batch).token, FALSE)
  /\ batch' = Tail(batch)
  /\ UNCHANGED <<pc, cmdpipe, frames, waitVars, screen, reference_screenshot, due,
                 term_ignored, asked>>

HandleSetReference ==
  /\ Handles("set_reference_screenshot")
  /\ reference_screenshot' = last_image
  /\ Send(Head(batch).token, FALSE)
  /\ batch' = Tail(batch)
  /\ UNCHANGED <<pc, cmdpipe, frames, waitVars, screen, last_image, due,
                 same_for, term_ignored, asked>>

HandleKeys ==
  /\ Handles("keys")
  /\ \E rounds \in 0..MaxRounds :
       frames' = Append(frames, [cmd |-> Head(batch), left |-> 1,
                                 rounds |-> rounds, rest |-> Tail(batch)])
  /\ batch' = <<>>
  /\ pc' = "capture"
  /\ UNCHANGED <<cmdpipe, rsppipe, waitVars, imageVars, term_ignored, asked>>

StartWait(cmd) == [elapsed |-> 0, timeout |-> cmd.timeout, still |-> 0,
                   stilltime |-> cmd.stilltime, active |-> TRUE]

HandleWaitScreenChange ==
  /\ Handles("wait_screen_change")
  /\ wait_change' = StartWait(Head(batch))
  /\ postponed_cmd_token' = Head(batch).token
  /\ batch' = Tail(batch)
  /\ UNCHANGED <<pc, cmdpipe, rsppipe, frames, wait_still, imageVars,
                 term_ignored, asked>>

\* Mutant: the token of the command is not kept.
HandleWaitStillScreen_bug ==
  /\ Handles("wait_still_screen")
  /\ wait_still' = StartWait(Head(batch))
  /\ reference_screenshot' = last_image
  /\ batch' = Tail(batch)
  /\ UNCHANGED <<pc, cmdpipe, rsppipe, frames, wait_change, postponed_cmd_token,
                 screen, last_image, due, same_for, term_ignored, asked>>

HandleWaitStillScreen ==
  /\ Handles("wait_still_screen")
  /\ wait_still' = StartWait(Head(batch))
  /\ reference_screenshot' = last_image
  /\ postponed_cmd_token' = Head(batch).token
  /\ batch' = Tail(batch)
  /\ UNCHANGED <<pc, cmdpipe, rsppipe, frames, wait_change, screen, last_image,
                 due, same_for, term_ignored, asked>>

\* stop_vm, or a command that dies: die_handler calls stop_vm.
HandleStopVm ==
  /\ pc = "handle"
  /\ batch # <<>>
  /\ pc' = "stopping"
  /\ UNCHANGED <<cmdpipe, rsppipe, batch, frames, waitVars, imageVars,
                 term_ignored, asked>>

EndOfBatch ==
  /\ pc = "handle"
  /\ batch = <<>>
  /\ pc' = "capture"
  /\ UNCHANGED <<cmdpipe, rsppipe, batch, frames, waitVars, imageVars,
                 term_ignored, asked>>

\* The handler that runs the nested loop goes on: with the next key, ...
NextKey ==
  /\ pc = "capture"
  /\ NestedTimeIsUp
  /\ Innermost.rounds > 0
  /\ frames' = [frames EXCEPT ![Len(frames)].rounds = @ - 1,
                              ![Len(frames)].left = 1]
  /\ UNCHANGED <<pc, cmdpipe, rsppipe, batch, waitVars, imageVars,
                 term_ignored, asked>>

\* Mutant: the commands that came in the same list are forgotten.
KeysDone_bug ==
  /\ pc = "capture"
  /\ NestedTimeIsUp
  /\ Innermost.rounds = 0
  /\ Send(Innermost.cmd.token, FALSE)
  /\ frames' = SubSeq(frames, 1, Len(frames) - 1)
  /\ pc' = "handle"
  /\ UNCHANGED <<cmdpipe, batch, waitVars, imageVars, term_ignored, asked>>

\* ... or with the reply, and the commands of its list that were left.
KeysDone ==
  /\ pc = "capture"
  /\ NestedTimeIsUp
  /\ Innermost.rounds = 0
  /\ Send(Innermost.cmd.token, FALSE)
  /\ batch' = Innermost.rest
  /\ frames' = SubSeq(frames, 1, Len(frames) - 1)
  /\ pc' = "handle"
  /\ UNCHANGED <<cmdpipe, waitVars, imageVars, term_ignored, asked>>
-----------------------------------------------------------------------------
(* The end of the process                                                    *)

\* SIGTERM: the handler calls stop_vm from wherever the process is, and never
\* returns.
Terminate ==
  /\ pc # "exited"
  /\ ~term_ignored
  /\ pc' = "stopping"
  /\ UNCHANGED <<cmdpipe, rsppipe, batch, frames, waitVars, imageVars,
                 term_ignored, asked>>

\* stop_vm up to close_pipes, which then closes the command pipe and disarms
\* SIGTERM
StopVm ==
  /\ pc = "stopping"
  /\ pc' = "closing"
  /\ UNCHANGED <<cmdpipe, rsppipe, batch, frames, waitVars, imageVars,
                 term_ignored, asked>>

\* Mutant: SIGTERM is not disarmed.
DisarmSigterm_bug ==
  /\ pc = "closing"
  /\ pc' = "quitting"
  /\ UNCHANGED <<cmdpipe, rsppipe, batch, frames, waitVars, imageVars, asked,
                 term_ignored>>

DisarmSigterm ==
  /\ pc = "closing"
  /\ pc' = "quitting"
  /\ term_ignored' = TRUE
  /\ UNCHANGED <<cmdpipe, rsppipe, batch, frames, waitVars, imageVars, asked>>

SendQuit ==
  /\ pc = "quitting"
  /\ rsppipe' = Append(rsppipe, Quit)
  /\ pc' = "quit_sent"
  /\ UNCHANGED <<cmdpipe, batch, frames, waitVars, imageVars, term_ignored,
                 asked>>

Exit ==
  /\ pc = "quit_sent"
  /\ pc' = "exited"
  /\ UNCHANGED <<cmdpipe, rsppipe, batch, frames, waitVars, imageVars,
                 term_ignored, asked>>
-----------------------------------------------------------------------------
ProcessStep ==
  \/ CaptureAndCheck \/ SelectTimesOut \/ ReadCommands
  \/ HandlePlain \/ HandleSelectConsole \/ HandleSetReference \/ HandleKeys
  \/ HandleWaitScreenChange \/ HandleWaitStillScreen \/ HandleStopVm
  \/ EndOfBatch \/ NextKey \/ KeysDone
  \/ StopVm \/ DisarmSigterm \/ SendQuit \/ Exit

Next == ProcessStep \/ Terminate \/ IsotovideoSends \/ ScreenChanges \/ Tick

Spec == Init /\ [][Next]_vars

\* The process runs, time passes, and SIGTERM does not come again for ever.
FairSpec ==
  Spec /\ WF_vars(ProcessStep) /\ WF_vars(Tick) /\ SF_vars(DisarmSigterm)
-----------------------------------------------------------------------------
\* Each command is answered once and with its own token, also by a reply that is
\* postponed or that overtakes others, and nothing follows QUIT.
BS == INSTANCE BackendService
        WITH asked <- UNION { {r} \X (1..asked[r]) : r \in Requesters },
             replies <- [i \in DOMAIN rsppipe |-> rsppipe[i].token]

BackendServed == BS!Spec

\* A command taken from the pipe and not yet answered is at exactly one place
\* while the process serves: among the commands to handle, with a suspended
\* handler, or as the wait command of _postponed_cmd_token.
InBatch == { batch[i].token : i \in DOMAIN batch }
InFrames == { frames[i].cmd.token : i \in DOMAIN frames } \cup
            UNION { { frames[i].rest[j].token : j \in DOMAIN frames[i].rest } :
                      i \in DOMAIN frames }
InWaits == IF wait_change.active \/ wait_still.active
           THEN {postponed_cmd_token} ELSE {}
InPipe == { cmdpipe[i].token : i \in DOMAIN cmdpipe }

NoCommandLost ==
  pc \in {"capture", "select", "handle"} =>
    /\ ~(wait_change.active /\ wait_still.active)
    /\ \A r \in Requesters :
         ~Answered(r) =>
           LET places == <<InPipe, InBatch, InFrames, InWaits>>
           IN  \E i \in DOMAIN places : \A j \in DOMAIN places :
                 <<r, asked[r]>> \in places[j] <=> j = i

\* wait_still_screen succeeds only if the screenshots have been the same for the
\* demanded time.
StillIsStill ==
  [][ wait_still.active /\ ~wait_still'.active
        => \/ rsppipe'[Len(rsppipe')].timed_out
           \/ same_for' >= wait_still.stilltime ]_vars

\* Every command is answered, unless the process ends.
CommandsAnswered ==
  \A r \in Requesters, n \in 1..MaxCommands :
    asked[r] = n ~> (<<r, n>> \in ReplyTokens \/ pc = "exited")
=============================================================================
