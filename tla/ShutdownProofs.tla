--------------------------- MODULE ShutdownProofs ---------------------------
(***************************************************************************)
(* Proofs about Shutdown.                                                   *)
(***************************************************************************)
EXTENDS Shutdown, TLAPS

USE BoundsAssumption DEF BoundsAssumption

LEMMA ConstantsTyped ==
  /\ Children = {Autotest, Backend, CommandServer}
  /\ Autotest # Backend /\ Backend # CommandServer /\ Autotest # CommandServer
BY DEF Children, Autotest, Backend, CommandServer

LEMMA TypeInit == Init => TypeOK
<1> SUFFICES ASSUME Init PROVE TypeOK
  OBVIOUS
<1>1. pc \in Pcs /\ channel \in [Children -> Messages]
  BY DEF Init, Pcs, RunPcs, Messages
<1>2. /\ queries \in 0..(MaxQueries + 1) /\ messages \in 0..MaxClient
      /\ signals \in 0..MaxSignals /\ crashes \in 0..MaxCrashes
  BY DEF Init
<1> QED
  BY <1>1, <1>2 DEF Init, TypeOK

-----------------------------------------------------------------------------
(* What the helpers do to the state                                          *)

LEMMA CollectedTyped ==
  ASSUME TypeOK, NEW children \in SUBSET Children, Collected(children),
         running' \in SUBSET Children, running' \cap (collected \cup children) = {}
  PROVE  /\ loop' \in BOOLEAN
         /\ collected' \in SUBSET (Children \ running')
<1>1. loop' \in BOOLEAN
  BY DEF TypeOK, Collected
<1> QED
  BY <1>1 DEF TypeOK, Collected

LEMMA StoppedTyped ==
  ASSUME TypeOK, NEW children \in SUBSET Children, Stopped(children)
  PROVE  /\ loop' \in BOOLEAN
         /\ running' \in SUBSET Children
         /\ collected' \in SUBSET (Children \ running')
<1>1. running' \in SUBSET Children /\ running' \cap (collected \cup children) = {}
  BY DEF Stopped, TypeOK
<1>2. Collected(children)
  BY DEF Stopped
<1> QED
  BY <1>1, <1>2, CollectedTyped

LEMMA SendToTyped ==
  ASSUME TypeOK, NEW c, NEW next \in Pcs, SendTo(c, next)
  PROVE  pc' \in Pcs /\ thrown' \in BOOLEAN
BY DEF SendTo, Throw, TypeOK, Pcs, EndPcs

LEMMA AnswerTyped ==
  ASSUME TypeOK, NEW next \in Pcs, AnswerAutotest(next)
  PROVE  pc' \in Pcs /\ thrown' \in BOOLEAN /\ waiting' \in BOOLEAN
<1>1. waiting' \in BOOLEAN
  BY DEF AnswerAutotest, TypeOK
<1> QED
  BY <1>1, SendToTyped DEF AnswerAutotest

LEMMA ProcessTyped ==
  ASSUME TypeOK, Process
  PROVE  /\ pc' \in Pcs /\ thrown' \in BOOLEAN /\ waiting' \in BOOLEAN
         /\ asked' \in {NoMessage, "command", "call", "stop_vm"}
<1>1. "serve" \in Pcs /\ "call" \in Pcs
  BY DEF Pcs, RunPcs
<1>2. CASE AnswerAutotest("serve") /\ UNCHANGED asked
  BY <1>1, <1>2, AnswerTyped DEF TypeOK
<1>3. CASE /\ SendTo(Backend, "serve") /\ UNCHANGED waiting
           /\ asked' = IF Backend \in running THEN "command" ELSE asked
  BY <1>1, <1>3, SendToTyped DEF TypeOK
<1>4. CASE /\ SendTo(Backend, "call") /\ UNCHANGED waiting
           /\ asked' = IF Backend \in running THEN "call" ELSE asked
  BY <1>1, <1>4, SendToTyped DEF TypeOK
<1> QED
  BY <1>2, <1>3, <1>4 DEF Process

LEMMA ServesTyped ==
  ASSUME TypeOK, NEW c, NEW kinds, Serves(c, kinds)
  PROVE  ready' \in SUBSET Children /\ channel' \in [Children -> Messages]
BY DEF Serves, TypeOK, Messages

LEMMA SendsTyped ==
  ASSUME TypeOK, NEW c, NEW m \in Messages, Sends(c, m)
  PROVE  channel' \in [Children -> Messages]
BY DEF Sends, TypeOK

LEMMA InterruptedTyped ==
  ASSUME TypeOK, NEW p \in Interrupted
  PROVE  p \in Pcs
BY DEF Interrupted, TypeOK, Pcs, RunPcs
-----------------------------------------------------------------------------
(* Every step keeps the types                                                *)

LEMMA RunTyped == TypeOK /\ RunStep => TypeOK'
<1> SUFFICES ASSUME TypeOK, RunStep PROVE TypeOK'
  OBVIOUS
<1> USE DEF runVars, codeVars, childVars, talkVars, countVars, historyVars
<1>0. {"while", "select", "serve", "call", "ended", "results", "stop_commands"} \subseteq Pcs
  BY DEF Pcs, RunPcs, ShutdownPcs
<1>00. "END backend" \in Pcs
  BY DEF Pcs, EndPcs
<1>1. CASE While
  BY <1>0, <1>1 DEF While, TypeOK
<1>2. CASE Select
  <2>1. ready' \in SUBSET Children
    BY <1>2 DEF Select
  <2> QED
    BY <1>0, <1>2, <2>1 DEF Select, TypeOK
<1>3. CASE EndOfServing
  BY <1>0, <1>3 DEF EndOfServing, TypeOK
<1>4. ASSUME NEW c \in Children, ServeEof(c) PROVE TypeOK'
  <2>1. pc' \in Pcs /\ loop' \in BOOLEAN /\ thrown' \in BOOLEAN
    BY <1>00, <1>4 DEF ServeEof, Throw, TypeOK
  <2> QED
    BY <1>4, <2>1 DEF ServeEof, TypeOK
<1>5. CASE ServeQuery
  <2>1. ready' \in SUBSET Children /\ channel' \in [Children -> Messages]
    BY <1>5, ServesTyped DEF ServeQuery
  <2>2. CASE Process /\ UNCHANGED held
    BY <1>5, <2>1, <2>2, ProcessTyped DEF ServeQuery, TypeOK
  <2>3. CASE SendTo(CommandServer, "serve") /\ held' = TRUE /\ UNCHANGED <<waiting, asked>>
    BY <1>0, <1>5, <2>1, <2>3, SendToTyped DEF ServeQuery, TypeOK
  <2> QED
    BY <1>5, <2>2, <2>3 DEF ServeQuery
<1>6. CASE ServeCommand
  <2>1. ready' \in SUBSET Children /\ channel' \in [Children -> Messages]
    BY <1>6, ServesTyped DEF ServeCommand
  <2>2. pc' \in Pcs /\ thrown' \in BOOLEAN
    BY <1>0, <1>6, SendToTyped DEF ServeCommand
  <2> QED
    BY <1>6, <2>1, <2>2 DEF ServeCommand, TypeOK
<1>7. CASE ServeResume
  <2>1. ready' \in SUBSET Children /\ channel' \in [Children -> Messages]
    BY <1>7, ServesTyped DEF ServeResume
  <2>2. CASE Process /\ held' = FALSE
    BY <1>7, <2>1, <2>2, ProcessTyped DEF ServeResume, TypeOK
  <2>3. CASE SendTo(CommandServer, "serve") /\ UNCHANGED <<held, waiting, asked>>
    BY <1>0, <1>7, <2>1, <2>3, SendToTyped DEF ServeResume, TypeOK
  <2> QED
    BY <1>7, <2>2, <2>3 DEF ServeResume
<1>8. CASE ServeReply
  <2>1. ready' \in SUBSET Children /\ channel' \in [Children -> Messages]
    BY <1>8, ServesTyped DEF ServeReply
  <2>2. pc' \in Pcs /\ thrown' \in BOOLEAN /\ waiting' \in BOOLEAN
    BY <1>0, <1>8, AnswerTyped DEF ServeReply
  <2> QED
    BY <1>8, <2>1, <2>2 DEF ServeReply, TypeOK
<1>9. ASSUME NEW complete \in BOOLEAN, ServeTestsDone(complete) PROVE TypeOK'
  <2>1. ready' \in SUBSET Children /\ channel' \in [Children -> Messages]
    BY <1>9, ServesTyped DEF ServeTestsDone
  <2>2. pc' \in Pcs /\ thrown' \in BOOLEAN
    BY <1>0, <1>9, SendToTyped DEF ServeTestsDone
  <2>3. /\ running' \in SUBSET Children
        /\ collected' \in SUBSET (Children \ running')
    BY <1>9, ConstantsTyped DEF ServeTestsDone, TypeOK
  <2>4. /\ waiting' \in BOOLEAN /\ testfd' \in BOOLEAN /\ completed' \in BOOLEAN
        /\ done' \in BOOLEAN /\ loop' \in BOOLEAN
    BY <1>9 DEF ServeTestsDone, TypeOK
  <2> QED
    BY <1>9, <2>1, <2>2, <2>3, <2>4 DEF ServeTestsDone, TypeOK
<1>10. CASE CallReturns
  <2>1. channel' \in [Children -> Messages]
    BY <1>10 DEF CallReturns, TypeOK, Messages
  <2>2. pc' \in Pcs /\ thrown' \in BOOLEAN /\ waiting' \in BOOLEAN
    BY <1>0, <1>10, AnswerTyped DEF CallReturns
  <2> QED
    BY <1>10, <2>1, <2>2 DEF CallReturns, TypeOK
<1>11. CASE CallFindsEof
  <2>1. pc' \in Pcs /\ thrown' \in BOOLEAN /\ waiting' \in BOOLEAN
    BY <1>0, <1>11, AnswerTyped DEF CallFindsEof
  <2>2. /\ loop' \in BOOLEAN /\ running' \in SUBSET Children
        /\ collected' \in SUBSET (Children \ running')
    BY <1>11, StoppedTyped, ConstantsTyped DEF CallFindsEof
  <2> QED
    BY <1>11, <2>1, <2>2 DEF CallFindsEof, TypeOK
<1>12. CASE Ended
  <2>1. pc' \in Pcs /\ thrown' \in BOOLEAN
    BY <1>0, <1>12, SendToTyped DEF Ended
  <2> QED
    BY <1>12, <2>1 DEF Ended, TypeOK
<1>13. ASSUME NEW code \in {Ok, NoTests, TestsFailed}, ExitCodeFromTestResults(code)
       PROVE  TypeOK'
  BY <1>0, <1>13 DEF ExitCodeFromTestResults, TypeOK
<1>14. CASE ResultsUnreadable
  <2>1. pc' \in Pcs /\ thrown' \in BOOLEAN
    BY <1>14 DEF ResultsUnreadable, Throw, Pcs, EndPcs
  <2> QED
    BY <1>14, <2>1 DEF ResultsUnreadable, TypeOK
<1> QED
  BY <1>1, <1>2, <1>3, <1>4, <1>5, <1>6, <1>7, <1>8, <1>9, <1>10, <1>11, <1>12, <1>13,
     <1>14 DEF RunStep

LEMMA ShutdownTyped == TypeOK /\ ShutdownStep => TypeOK'
<1> SUFFICES ASSUME TypeOK, ShutdownStep PROVE TypeOK'
  OBVIOUS
<1> USE DEF runVars, codeVars, childVars, talkVars, countVars, historyVars
<1>0. /\ "testfd" \in Pcs /\ "is_shutdown" \in Pcs /\ "shutdown_state" \in Pcs
      /\ "stop_vm" \in Pcs /\ "quit" \in Pcs /\ "assets" \in Pcs
  BY DEF Pcs, ShutdownPcs
<1>00. /\ "END backend" \in Pcs /\ "END commands" \in Pcs /\ "END autotest" \in Pcs
       /\ "signal commands" \in Pcs /\ "signal autotest" \in Pcs /\ "exited" \in Pcs
  BY DEF Pcs, EndPcs, SignalPcs
<1>1. CASE StopCommands
  <2>1. /\ loop' \in BOOLEAN /\ running' \in SUBSET Children
        /\ collected' \in SUBSET (Children \ running')
    BY <1>1, StoppedTyped, ConstantsTyped DEF StopCommands
  <2> QED
    BY <1>0, <1>1, <2>1 DEF StopCommands, TypeOK
<1>2. CASE UnusualShutdown
  <2>1. ASSUME Stopped({Autotest})
        PROVE  /\ loop' \in BOOLEAN /\ running' \in SUBSET Children
               /\ collected' \in SUBSET (Children \ running')
    BY <2>1, StoppedTyped, ConstantsTyped
  <2>2. CASE testfd
    <3>1. testfd' \in BOOLEAN
      BY <1>2, <2>2 DEF UnusualShutdown
    <3> QED
      BY <1>0, <1>2, <2>1, <2>2, <3>1 DEF UnusualShutdown, TypeOK
  <2>3. CASE ~testfd
    BY <1>0, <1>2, <2>3 DEF UnusualShutdown, TypeOK
  <2> QED
    BY <2>2, <2>3
<1>3. CASE AskShutdownState
  <2>1. pc' \in Pcs
    BY <1>0, <1>00, <1>3 DEF AskShutdownState
  <2>2. asked' \in {NoMessage, "command", "call", "stop_vm"}
    BY <1>3 DEF AskShutdownState, TypeOK
  <2>3. UNCHANGED <<runVars, codeVars, childVars, channel, waiting, countVars,
                    historyVars>>
    BY <1>3 DEF AskShutdownState
  <2> QED
    BY <2>1, <2>2, <2>3 DEF TypeOK
<1>4. ASSUME NEW clean \in BOOLEAN, ShutdownState(clean) PROVE TypeOK'
  <2>1. CASE /\ channel' = [channel EXCEPT ![Backend] = NoMessage]
             /\ clean_shutdown' = clean
             /\ UNCHANGED <<channel_out, childVars, loop>>
    <3>1. channel' \in [Children -> Messages]
      BY <2>1 DEF TypeOK, Messages
    <3>2. clean_shutdown' \in BOOLEAN
      BY <2>1
    <3> QED
      BY <1>0, <1>4, <2>1, <3>1, <3>2 DEF ShutdownState, TypeOK
  <2>2. CASE channel_out' = FALSE /\ Stopped({Backend}) /\ UNCHANGED <<channel, clean_shutdown>>
    <3>1. /\ loop' \in BOOLEAN /\ running' \in SUBSET Children
          /\ collected' \in SUBSET (Children \ running')
      BY <2>2, StoppedTyped, ConstantsTyped
    <3>2. channel_out' \in BOOLEAN
      BY <2>2
    <3> QED
      BY <1>0, <1>4, <2>2, <3>1, <3>2 DEF ShutdownState, TypeOK
  <2> QED
    BY <1>4, <2>1, <2>2 DEF ShutdownState
<1>5. CASE StopVm
  BY <1>0, <1>5 DEF StopVm, TypeOK
<1>6. CASE Quit
  <2>1. /\ loop' \in BOOLEAN /\ running' \in SUBSET Children
        /\ collected' \in SUBSET (Children \ running')
    BY <1>6, StoppedTyped, ConstantsTyped DEF Quit
  <2>2. channel_out' \in BOOLEAN
    BY <1>6 DEF Quit
  <2> QED
    BY <1>0, <1>6, <2>1, <2>2 DEF Quit, TypeOK
<1>7. ASSUME NEW fails \in BOOLEAN, HandleGeneratedAssets(fails) PROVE TypeOK'
  <2>1. return_code' \in {Ok, Error, NoTests, TestsFailed}
    BY <1>7 DEF HandleGeneratedAssets, TypeOK
  <2>2. extracted' \in {"nothing", "running", "unclean", "clean"}
    BY <1>7 DEF HandleGeneratedAssets, TypeOK
  <2> QED
    BY <1>00, <1>7, <2>1, <2>2 DEF HandleGeneratedAssets, TypeOK
<1>8. ASSUME NEW from, NEW c \in Children, NEW to \in Pcs, StopStep(from, c, to),
             return_code' \in {Ok, Error, NoTests, TestsFailed},
             UNCHANGED <<completed, clean_shutdown>>
      PROVE  TypeOK'
  <2>1. /\ loop' \in BOOLEAN /\ running' \in SUBSET Children
        /\ collected' \in SUBSET (Children \ running')
    BY <1>8, StoppedTyped DEF StopStep
  <2> QED
    BY <1>8, <2>1 DEF StopStep, TypeOK
<1>9. CASE End
  BY <1>00, <1>8, <1>9, ConstantsTyped DEF End, TypeOK
<1>10. CASE SignalEnd
  BY <1>00, <1>8, <1>10, ConstantsTyped DEF SignalEnd
<1> QED
  BY <1>1, <1>2, <1>3, <1>4, <1>5, <1>6, <1>7, <1>9, <1>10 DEF ShutdownStep

LEMMA SignalTyped ==
  TypeOK /\ (Signal \/ \E c \in Children : Collect(c)) => TypeOK'
<1> USE DEF runVars, codeVars, childVars, talkVars, countVars, historyVars
<1>1. ASSUME TypeOK, Signal PROVE TypeOK'
  <2>1. pc' \in Pcs
    BY <1>1, InterruptedTyped DEF Signal, Pcs, SignalPcs
  <2>2. signals' \in 0..MaxSignals
    <3>1. signals' = signals + 1 /\ signals < MaxSignals /\ signals \in 0..MaxSignals
      BY <1>1 DEF Signal, TypeOK
    <3> QED
      BY <3>1
  <2>3. loop' \in BOOLEAN
    BY <1>1 DEF Signal, TypeOK
  <2>4. UNCHANGED <<ready, testfd, channel_out, held, codeVars, childVars, talkVars,
                    options, queries, messages, crashes, historyVars>>
    BY <1>1 DEF Signal
  <2> QED
    BY <1>1, <2>1, <2>2, <2>3, <2>4 DEF TypeOK
<1>2. ASSUME TypeOK, NEW c \in Children, Collect(c) PROVE TypeOK'
  <2>1. pc' \in Pcs
    BY <1>2, InterruptedTyped DEF Collect
  <2>2. loop' \in BOOLEAN /\ collected' \in SUBSET (Children \ running')
    BY <1>2, CollectedTyped DEF Collect, TypeOK
  <2> QED
    BY <1>2, <2>1, <2>2 DEF Collect, TypeOK
<1> QED
  BY <1>1, <1>2

LEMMA ChildrenTyped == TypeOK /\ ChildStep => TypeOK'
<1> SUFFICES ASSUME TypeOK, ChildStep PROVE TypeOK'
  OBVIOUS
<1> USE DEF runVars, codeVars, childVars, talkVars, countVars, historyVars
<1>0. {"query", "tests_done", "reply", "command", "resume"} \subseteq Messages
  BY DEF Messages
<1>1. CASE AutotestAsks
  <2>1. channel' \in [Children -> Messages]
    BY <1>0, <1>1, SendsTyped DEF AutotestAsks
  <2> QED
    BY <1>1, <2>1 DEF AutotestAsks, TypeOK
<1>2. CASE AutotestIsDone
  <2>1. channel' \in [Children -> Messages]
    BY <1>0, <1>2, SendsTyped DEF AutotestIsDone
  <2> QED
    BY <1>2, <2>1 DEF AutotestIsDone, TypeOK
<1>3. ASSUME NEW m \in {"command", "resume"}, ClientSends(m) PROVE TypeOK'
  <2>1. channel' \in [Children -> Messages]
    BY <1>0, <1>3, SendsTyped DEF ClientSends
  <2> QED
    BY <1>3, <2>1 DEF ClientSends, TypeOK
<1>4. CASE BackendReplies
  <2>1. channel' \in [Children -> Messages]
    BY <1>0, <1>4, SendsTyped DEF BackendReplies
  <2> QED
    BY <1>4, <2>1 DEF BackendReplies, TypeOK
<1>5. CASE BackendQuits
  BY <1>5 DEF BackendQuits, TypeOK
<1>6. ASSUME NEW c \in Children, Crash(c) PROVE TypeOK'
  BY <1>6 DEF Crash, TypeOK
<1> QED
  BY <1>1, <1>2, <1>3, <1>4, <1>5, <1>6 DEF ChildStep

\* Type correctness: every variable of the shutdown keeps its type in every run, and
\* no child is noticed as ended while it runs.
THEOREM TypeCorrect == Spec => []TypeOK
<1>1. TypeOK /\ [Next]_vars => TypeOK'
  <2>1. TypeOK /\ UNCHANGED vars => TypeOK'
    BY DEF TypeOK, vars, runVars, codeVars, childVars, talkVars, countVars, historyVars
  <2> QED
    BY <2>1, RunTyped, ShutdownTyped, SignalTyped, ChildrenTyped DEF Next, IsotovideoStep
<1> QED
  BY <1>1, TypeInit, PTL DEF Spec
-----------------------------------------------------------------------------
(* No child is left behind                                                   *)

\* What the END block and the signal handler have stopped so far stays stopped.
StoppedInOrder ==
  /\ pc \in {"END commands", "END autotest", "signal commands", "signal autotest"}
       => Backend \notin running
  /\ pc \in {"END autotest", "signal autotest"} => CommandServer \notin running
  /\ pc = "exited" => running = {}

LEMMA RunPlace ==
  ASSUME RunStep
  PROVE  /\ running' \subseteq running
         /\ pc' \in RunPcs \cup {"END backend", "stop_commands"}
<1> USE DEF runVars, codeVars, childVars, talkVars, countVars, historyVars, RunPcs
<1>1. CASE While
  BY <1>1 DEF While
<1>2. CASE Select
  BY <1>2 DEF Select
<1>3. CASE EndOfServing
  BY <1>3 DEF EndOfServing
<1>4. ASSUME NEW c \in Children, ServeEof(c)
      PROVE  UNCHANGED running /\ pc' \in {"serve", "END backend"}
  BY <1>4 DEF ServeEof, Throw
<1>5. CASE ServeQuery
  BY <1>5 DEF ServeQuery, Serves, Process, AnswerAutotest, SendTo, Throw
<1>6. CASE ServeCommand
  BY <1>6 DEF ServeCommand, SendTo, Throw
<1>7. CASE ServeResume
  BY <1>7 DEF ServeResume, Process, AnswerAutotest, SendTo, Throw
<1>8. CASE ServeReply
  BY <1>8 DEF ServeReply, AnswerAutotest, SendTo, Throw
<1>9. ASSUME NEW complete \in BOOLEAN, ServeTestsDone(complete)
      PROVE  running' \subseteq running /\ pc' \in {"serve", "END backend"}
  BY <1>9 DEF ServeTestsDone, SendTo, Throw
<1>10. CASE CallReturns
  BY <1>10 DEF CallReturns, AnswerAutotest, SendTo, Throw
<1>11. CASE CallFindsEof
  BY <1>11 DEF CallFindsEof, Stopped, AnswerAutotest, SendTo, Throw
<1>12. CASE Ended
  BY <1>12 DEF Ended, SendTo, Throw
<1>13. ASSUME NEW code \in {Ok, NoTests, TestsFailed}, ExitCodeFromTestResults(code)
       PROVE  UNCHANGED running /\ pc' = "stop_commands"
  BY <1>13 DEF ExitCodeFromTestResults
<1>14. CASE ResultsUnreadable
  BY <1>14 DEF ResultsUnreadable, Throw
<1> QED
  BY <1>1, <1>2, <1>3, <1>4, <1>5, <1>6, <1>7, <1>8, <1>9, <1>10, <1>11, <1>12, <1>13,
     <1>14 DEF RunStep

LEMMA StoppedInOrderStep == TypeOK /\ StoppedInOrder /\ [Next]_vars => StoppedInOrder'
<1> SUFFICES ASSUME TypeOK, StoppedInOrder, [Next]_vars PROVE StoppedInOrder'
  OBVIOUS
<1> USE ConstantsTyped DEF StoppedInOrder, runVars, codeVars, childVars, talkVars, countVars, historyVars
<1>1. CASE RunStep
  BY <1>1, RunPlace DEF RunPcs
<1>2. CASE StopCommands
  BY <1>2 DEF StopCommands
<1>3. CASE UnusualShutdown
  BY <1>3 DEF UnusualShutdown
<1>4. CASE AskShutdownState
  BY <1>4 DEF AskShutdownState
<1>5. ASSUME NEW clean \in BOOLEAN, ShutdownState(clean) PROVE StoppedInOrder'
  BY <1>5 DEF ShutdownState
<1>6. CASE StopVm
  BY <1>6 DEF StopVm
<1>7. CASE Quit
  BY <1>7 DEF Quit
<1>8. ASSUME NEW fails \in BOOLEAN, HandleGeneratedAssets(fails) PROVE StoppedInOrder'
  BY <1>8 DEF HandleGeneratedAssets
<1>9. CASE End
  BY <1>9 DEF End, StopStep, Stopped, TypeOK
<1>10. CASE SignalEnd
  BY <1>10 DEF SignalEnd, StopStep, Stopped, TypeOK
<1>11. CASE Signal
  BY <1>11 DEF Signal, Interrupted
<1>12. ASSUME NEW c \in Children, Collect(c) PROVE StoppedInOrder'
  BY <1>12 DEF Collect, Interrupted
<1>13. CASE ChildStep
  <2>1. pc' = pc /\ running' \subseteq running
    BY <1>13 DEF ChildStep, AutotestAsks, AutotestIsDone, ClientSends, BackendReplies,
                 BackendQuits, Crash
  <2> QED
    BY <2>1
<1>14. CASE UNCHANGED vars
  BY <1>14 DEF vars
<1> QED
  BY <1>1, <1>2, <1>3, <1>4, <1>5, <1>6, <1>7, <1>8, <1>9, <1>10, <1>11, <1>12, <1>13,
     <1>14 DEF Next, IsotovideoStep, ShutdownStep

\* When isotovideo has exited, through the END block or through the signal handler,
\* at whatever point children ended and signals came, no child runs.
THEOREM NoChildIsLeft == Spec => []NoOrphans
<1>1. Init => StoppedInOrder
  BY DEF Init, StoppedInOrder
<1>2. StoppedInOrder => NoOrphans
  BY DEF StoppedInOrder, NoOrphans
<1> QED
  BY <1>1, <1>2, StoppedInOrderStep, TypeCorrect, PTL DEF Spec
-----------------------------------------------------------------------------
(* The exit code                                                             *)

\* Once testfd is closed, autotest was done or the exit code is an error for good.
ErrorStays ==
  testfd \/ done \/ (return_code = Error /\ pc \notin RunPcs \cup {"stop_commands", "testfd"})

\* handle_shutdown has closed testfd before it asks for the state of the machine.
TestfdIsClosed == pc \in ShutdownPcs \ {"stop_commands", "testfd"} => ~testfd

\* What the exit code 0 says as soon as nothing changes it any more.
Deserved ==
  /\ done
  /\ options.assets = "force" \/ Publishes => extracted # "nothing"

SuccessIsDeserved ==
  pc \in EndPcs \cup {"exited"} /\ return_code = Ok /\ ~thrown => Deserved

Accounted == ErrorStays /\ TestfdIsClosed /\ SuccessIsDeserved

\* A step of the main loop closes testfd only with tests_done, and goes to the END
\* block only by an exception.
LEMMA RunAccounts ==
  ASSUME TypeOK, RunStep
  PROVE  /\ pc \in RunPcs
         /\ testfd' = testfd \/ done'
         /\ done => done'
         /\ pc' \in EndPcs => thrown'
<1> USE DEF runVars, codeVars, childVars, talkVars, countVars, historyVars, RunPcs, EndPcs
<1>1. CASE While
  BY <1>1 DEF While
<1>2. CASE Select
  BY <1>2 DEF Select
<1>3. CASE EndOfServing
  BY <1>3 DEF EndOfServing
<1>4. ASSUME NEW c \in Children, ServeEof(c)
      PROVE  pc = "serve" /\ testfd' = testfd /\ done' = done /\ (pc' \in EndPcs => thrown')
  BY <1>4 DEF ServeEof, Throw
<1>5. CASE ServeQuery
  BY <1>5 DEF ServeQuery, Serves, Process, AnswerAutotest, SendTo, Throw
<1>6. CASE ServeCommand
  BY <1>6 DEF ServeCommand, Serves, SendTo, Throw
<1>7. CASE ServeResume
  BY <1>7 DEF ServeResume, Serves, Process, AnswerAutotest, SendTo, Throw
<1>8. CASE ServeReply
  BY <1>8 DEF ServeReply, Serves, AnswerAutotest, SendTo, Throw
<1>9. ASSUME NEW complete \in BOOLEAN, ServeTestsDone(complete)
      PROVE  /\ pc = "serve" /\ (testfd' = testfd \/ done') /\ (done => done')
             /\ pc' \in EndPcs => thrown'
  <2>1. CASE Autotest \in running
    <3>1. pc = "serve" /\ pc' = "serve" /\ done' = TRUE
      BY <1>9, <2>1 DEF ServeTestsDone, Serves, SendTo
    <3> QED
      BY <3>1, Zenon
  <2>2. CASE Autotest \notin running
    <3>1. pc = "serve" /\ testfd' = testfd /\ done' = done /\ thrown' = TRUE
      BY <1>9, <2>2 DEF ServeTestsDone, Serves, SendTo, Throw
    <3> QED
      BY <3>1, Zenon
  <2> QED
    BY <2>1, <2>2
<1>10. CASE CallReturns
  BY <1>10 DEF CallReturns, AnswerAutotest, SendTo, Throw
<1>11. CASE CallFindsEof
  BY <1>11 DEF CallFindsEof, AnswerAutotest, SendTo, Throw
<1>12. CASE Ended
  BY <1>12 DEF Ended, SendTo, Throw
<1>13. ASSUME NEW code \in {Ok, NoTests, TestsFailed}, ExitCodeFromTestResults(code)
       PROVE  pc = "results" /\ pc' = "stop_commands" /\ testfd' = testfd /\ done' = done
  BY <1>13 DEF ExitCodeFromTestResults
<1>14. CASE ResultsUnreadable
  BY <1>14 DEF ResultsUnreadable, Throw
<1> QED
  BY <1>1, <1>2, <1>3, <1>4, <1>5, <1>6, <1>7, <1>8, <1>9, <1>10, <1>11, <1>12, <1>13,
     <1>14 DEF RunStep

LEMMA CodesDiffer == Ok # Error
BY DEF Ok, Error

LEMMA SignalPlace ==
  ASSUME NEW p \in SignalPcs \cup {"exited"}
  PROVE  /\ p \notin RunPcs \cup {"stop_commands", "testfd"}
         /\ p \notin ShutdownPcs
BY DEF SignalPcs, RunPcs, ShutdownPcs

LEMMA AccountedStep == TypeOK /\ Accounted /\ [Next]_vars => Accounted'
<1> SUFFICES ASSUME TypeOK, Accounted, [Next]_vars PROVE Accounted'
  OBVIOUS
<1> USE DEF Accounted, ErrorStays, TestfdIsClosed, SuccessIsDeserved, Deserved, Publishes,
            RunPcs, ShutdownPcs, EndPcs, SignalPcs, runVars, codeVars, childVars,
            talkVars, countVars, historyVars
<1>0. Ok # Error
  BY CodesDiffer
<1>1. CASE RunStep
  BY <1>1, RunPlace, RunAccounts
<1>2. CASE StopCommands
  BY <1>2 DEF StopCommands, Stopped
<1>3. CASE UnusualShutdown
  BY <1>0, <1>3 DEF UnusualShutdown
<1>4. CASE AskShutdownState
  BY <1>0, <1>4 DEF AskShutdownState
<1>5. ASSUME NEW clean \in BOOLEAN, ShutdownState(clean) PROVE Accounted'
  BY <1>5 DEF ShutdownState
<1>6. CASE StopVm
  BY <1>0, <1>6 DEF StopVm
<1>7. CASE Quit
  BY <1>7 DEF Quit
<1>8. ASSUME NEW fails \in BOOLEAN, HandleGeneratedAssets(fails) PROVE Accounted'
  <2>1. /\ pc = "assets" /\ pc' = "END backend"
        /\ UNCHANGED <<testfd, completed, options, done, thrown>>
    BY <1>0, <1>8 DEF HandleGeneratedAssets
  <2>2. return_code = Error => return_code' = Error
    BY <1>0, <1>8 DEF HandleGeneratedAssets
  <2>3. done \/ return_code = Error
    BY <2>1
  <2>4. return_code' = Ok => return_code = Ok
    BY <1>0, <1>8 DEF HandleGeneratedAssets
  <2>5. return_code' = Ok => (options.assets = "force" \/ Publishes => extracted' # "nothing")
    <3>1. CASE return_code = Ok /\ Extracts
      BY <1>0, <1>8, <3>1 DEF HandleGeneratedAssets
    <3>2. CASE return_code # Ok \/ ~Extracts
      BY <1>0, <1>8, <3>2 DEF HandleGeneratedAssets, Extracts
    <3> QED
      BY <3>1, <3>2
  <2>6. ErrorStays'
    BY <2>1, <2>2, <2>3
  <2>7. TestfdIsClosed'
    BY <2>1
  <2>8. return_code' = Ok => done'
    <3>1. return_code' = Ok => done
      BY <2>3, <2>4, <1>0, Zenon
    <3> QED
      BY <2>1, <3>1, Zenon
  <2> QED
    BY <2>1, <2>5, <2>6, <2>7, <2>8
<1>9. CASE End
  BY <1>9 DEF End, StopStep
<1>10. CASE SignalEnd
  <2>1. /\ pc' \in SignalPcs \cup {"exited"} /\ return_code' = Error
        /\ UNCHANGED <<testfd, done>>
    BY <1>10 DEF SignalEnd, StopStep
  <2>2. /\ return_code' = Error /\ pc' \notin RunPcs \cup {"stop_commands", "testfd"}
        /\ pc' \notin ShutdownPcs
        /\ return_code' # Ok
    BY <1>0, <2>1, SignalPlace DEF SignalPcs
  <2>3. ErrorStays'
    BY <2>2
  <2>4. TestfdIsClosed'
    BY <2>2
  <2>5. SuccessIsDeserved'
    BY <2>2
  <2> QED
    BY <2>3, <2>4, <2>5
<1>11. CASE Signal
  BY <1>11 DEF Signal, Interrupted
<1>12. ASSUME NEW c \in Children, Collect(c) PROVE Accounted'
  BY <1>12 DEF Collect, Interrupted
<1>13. CASE ChildStep
  <2>1. UNCHANGED <<pc, testfd, codeVars, options, done, thrown, extracted>>
    BY <1>13 DEF ChildStep, AutotestAsks, AutotestIsDone, ClientSends, BackendReplies,
                 BackendQuits, Crash
  <2> QED
    BY <2>1
<1>14. CASE UNCHANGED vars
  BY <1>14 DEF vars
<1> QED
  BY <1>1, <1>2, <1>3, <1>4, <1>5, <1>6, <1>7, <1>8, <1>9, <1>10, <1>11, <1>12, <1>13,
     <1>14 DEF Next, IsotovideoStep, ShutdownStep

\* Whatever signals come and whichever children end: the exit code 0 without an
\* exception says that autotest was done and the images asked for are extracted.
THEOREM SuccessIsHonest == Spec => []SuccessWithoutException
<1>1. Init => Accounted
  BY DEF Init, Accounted, ErrorStays, TestfdIsClosed, SuccessIsDeserved, ShutdownPcs,
         EndPcs
<1>2. Accounted => SuccessWithoutException
  BY DEF Accounted, SuccessIsDeserved, Deserved, SuccessWithoutException
<1> QED
  BY <1>1, <1>2, AccountedStep, TypeCorrect, PTL DEF Spec
-----------------------------------------------------------------------------
(* The images                                                                *)

\* handle_shutdown reaches the images only when the backend has ended.
AtRest == (pc = "assets" => Backend \notin running) /\ ImagesAreAtRest

LEMMA RunExtractsNothing == RunStep => UNCHANGED <<extracted, options>>
<1> USE DEF historyVars, countVars
<1>1. ASSUME NEW c \in Children, ServeEof(c) PROVE UNCHANGED <<extracted, options>>
  BY <1>1 DEF ServeEof
<1>2. ASSUME NEW complete \in BOOLEAN, ServeTestsDone(complete)
      PROVE  UNCHANGED <<extracted, options>>
  BY <1>2 DEF ServeTestsDone
<1>3. ASSUME NEW code \in {Ok, NoTests, TestsFailed}, ExitCodeFromTestResults(code)
      PROVE  UNCHANGED <<extracted, options>>
  BY <1>3 DEF ExitCodeFromTestResults
<1> QED
  BY <1>1, <1>2, <1>3
     DEF RunStep, While, Select, EndOfServing, ServeQuery, ServeCommand, ServeResume,
         ServeReply, CallReturns, CallFindsEof, Ended, ResultsUnreadable

LEMMA AtRestStep == TypeOK /\ AtRest /\ [Next]_vars => AtRest'
<1> SUFFICES ASSUME TypeOK, AtRest, [Next]_vars PROVE AtRest'
  OBVIOUS
<1> USE DEF AtRest, ImagesAreAtRest, runVars, codeVars, childVars, talkVars, countVars,
            historyVars
<1>1. CASE RunStep
  <2>1. pc' # "assets"
    BY <1>1, RunPlace DEF RunPcs
  <2> QED
    BY <1>1, <2>1, RunExtractsNothing
<1>2. CASE StopCommands
  BY <1>2 DEF StopCommands
<1>3. CASE UnusualShutdown
  BY <1>3 DEF UnusualShutdown
<1>4. CASE AskShutdownState
  BY <1>4 DEF AskShutdownState
<1>5. ASSUME NEW clean \in BOOLEAN, ShutdownState(clean) PROVE AtRest'
  BY <1>5 DEF ShutdownState
<1>6. CASE StopVm
  \* driver::stop returns at once only if the end of the backend has been noticed.
  <2>1. pc' = "assets" => Backend \notin running
    BY <1>6 DEF StopVm, IsRunning, TypeOK
  <2> QED
    BY <1>6, <2>1 DEF StopVm
<1>7. CASE Quit
  BY <1>7 DEF Quit, Stopped
<1>8. ASSUME NEW fails \in BOOLEAN, HandleGeneratedAssets(fails) PROVE AtRest'
  <2>1. CASE return_code = Ok /\ Extracts
    <3>1. /\ extracted' = IF clean_shutdown THEN "clean" ELSE "unclean"
          /\ pc' = "END backend" /\ options' = options
      BY <1>8, <2>1 DEF HandleGeneratedAssets
    <3>2. ~clean_shutdown => options.assets = "force"
      BY <2>1 DEF Extracts
    <3> QED
      BY <3>1, <3>2
  <2>2. CASE return_code # Ok \/ ~Extracts
    BY <1>8, <2>2 DEF HandleGeneratedAssets
  <2> QED
    BY <2>1, <2>2
<1>9. CASE End \/ SignalEnd
  BY <1>9 DEF End, SignalEnd, StopStep
<1>10. CASE Signal
  BY <1>10 DEF Signal, Interrupted
<1>11. ASSUME NEW c \in Children, Collect(c) PROVE AtRest'
  BY <1>11 DEF Collect, Interrupted
<1>12. CASE ChildStep
  <2>1. pc' = pc /\ running' \subseteq running /\ UNCHANGED <<options, extracted>>
    BY <1>12 DEF ChildStep, AutotestAsks, AutotestIsDone, ClientSends, BackendReplies,
                 BackendQuits, Crash
  <2> QED
    BY <2>1
<1>13. CASE UNCHANGED vars
  BY <1>13 DEF vars
<1> QED
  BY <1>1, <1>2, <1>3, <1>4, <1>5, <1>6, <1>7, <1>8, <1>9, <1>10, <1>11, <1>12, <1>13
     DEF Next, IsotovideoStep, ShutdownStep

\* Images are extracted when the backend has ended, and unless the job forces it from a
\* machine that was shut down - whichever child ends, and whenever a signal comes, in
\* the steps before.
THEOREM ImagesFromRest == Spec => []ImagesAreAtRest
<1>1. Init => AtRest
  BY DEF Init, AtRest, ImagesAreAtRest
<1>2. AtRest => ImagesAreAtRest
  BY DEF AtRest
<1> QED
  BY <1>1, <1>2, AtRestStep, TypeCorrect, PTL DEF Spec
=============================================================================
