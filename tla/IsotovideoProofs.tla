-------------------------- MODULE IsotovideoProofs --------------------------
(***************************************************************************)
(* Proofs about Isotovideo: types; what clients and the status file say     *)
(* about a pause; a pause holds an answer; and, with clients that send no   *)
(* command for the backend, the one answer autotest is owed while it waits  *)
(* and the refinement of QuerySession; then that autotest gets no answer    *)
(* but the one to its query, and that a reply of the backend goes to whom   *)
(* the command came from, whatever clients send but check_screen.           *)
(***************************************************************************)
EXTENDS Isotovideo, TLAPS

(* Facts about the channels                                                  *)

LEMMA FdsDistinct ==
  /\ Test \in Fds /\ Cmd \in Fds /\ BackendOut \in Fds
  /\ Test # Cmd /\ Test # BackendOut /\ Cmd # BackendOut
BY DEF Fds, Test, Cmd, BackendOut

LEMMA ChannelTyped ==
  ASSUME NEW f \in Channels, NEW fd \in Fds
  PROVE  IF fd = BackendOut THEN f[fd] \in Seq(Replies)
                            ELSE f[fd] \in Seq(Messages)
BY DEF Channels, Fds

LEMMA ChannelUpdate ==
  ASSUME NEW f \in Channels, NEW fd \in Fds, NEW s,
         IF fd = BackendOut THEN s \in Seq(Replies) ELSE s \in Seq(Messages)
  PROVE  [f EXCEPT ![fd] = s] \in Channels
<1>1. [f EXCEPT ![fd] = s] \in [Fds -> Seq(Messages) \cup Seq(Replies)]
  BY DEF Channels
<1> QED
  BY <1>1, FdsDistinct DEF Channels

LEMMA ChannelAppend ==
  ASSUME NEW f \in Channels, NEW fd \in Fds, NEW m,
         IF fd = BackendOut THEN m \in Replies ELSE m \in Messages
  PROVE  [f EXCEPT ![fd] = Append(@, m)] \in Channels
<1>1. IF fd = BackendOut THEN Append(f[fd], m) \in Seq(Replies)
                         ELSE Append(f[fd], m) \in Seq(Messages)
  BY ChannelTyped
<1> QED
  BY <1>1, ChannelUpdate, Zenon

LEMMA ChannelEmpty ==
  ASSUME NEW f \in Channels, NEW fd \in Fds
  PROVE  [f EXCEPT ![fd] = <<>>] \in Channels
<1>1. <<>> \in Seq(Replies) /\ <<>> \in Seq(Messages)
  OBVIOUS
<1> QED
  BY <1>1, ChannelUpdate, Zenon

\* Replacing the content of one channel by that of another, or by its tail
LEMMA ChannelReplace ==
  ASSUME NEW f \in Channels, NEW g \in Channels, NEW fd \in Fds, g[fd] # <<>>
  PROVE  /\ [f EXCEPT ![fd] = g[fd]] \in Channels
         /\ [f EXCEPT ![fd] = Tail(g[fd])] \in Channels
<1>1. IF fd = BackendOut
      THEN g[fd] \in Seq(Replies) /\ Tail(g[fd]) \in Seq(Replies)
      ELSE g[fd] \in Seq(Messages) /\ Tail(g[fd]) \in Seq(Messages)
  BY ChannelTyped
<1> QED
  BY <1>1, ChannelUpdate, Zenon

LEMMA ChannelHead ==
  ASSUME NEW f \in Channels, NEW fd \in Fds, f[fd] # <<>>
  PROVE  IF fd = BackendOut THEN Head(f[fd]) \in Replies
                            ELSE Head(f[fd]) \in Messages
BY ChannelTyped

LEMMA HeadTyped ==
  ASSUME NEW S, NEW s \in Seq(S), s # <<>>
  PROVE  Head(s) \in S /\ Tail(s) \in Seq(S)
OBVIOUS

\* Nothing of the handlers changes when their variables are unchanged.
LEMMA HandlerTypeStutter ==
  ASSUME HandlerTypeOK, UNCHANGED handlerVars
  PROVE  HandlerTypeOK'
BY DEF HandlerTypeOK, ConfigTypeOK, PauseTypeOK, SlotTypeOK, ViewTypeOK,
       OutputTypeOK, handlerVars, configVars, pauseVars, requesterVars,
       screenVars, viewVars

LEMMA TypeAsk ==
  ASSUME TypeOK, NEW cmd, NEW arg, timed_out' \in BOOLEAN, Ask(cmd, arg),
         cmd \in Commands, arg \in ArgsOf(cmd), arg \in Args
  PROVE  TypeOK'
<1> DEFINE m == [cmd |-> cmd, token |-> <<Test, queries + 1>>, arg |-> arg]
<1>1. m \in Messages
  BY DEF Messages, TypeOK, TestTypeOK, Tokens
<1>2. HandlerTypeOK'
  BY HandlerTypeStutter DEF Ask, TypeOK
<1>3. sock' \in Channels
  BY <1>1, ChannelAppend, FdsDistinct DEF Ask, Send, TypeOK
<1>4. TestTypeOK'
  BY <1>1 DEF Ask, TypeOK, TestTypeOK
<1>5. LoopTypeOK'
  BY DEF Ask, TypeOK, LoopTypeOK, loopVars
<1> QED
  BY <1>2, <1>3, <1>4, <1>5 DEF TypeOK, Ask
-----------------------------------------------------------------------------
(* Types: the handlers                                                       *)

LEMMA MessageTyped ==
  ASSUME NEW m \in Messages
  PROVE  /\ m.cmd \in Commands /\ m.token \in Tokens /\ m.arg \in Args
         /\ m.arg \in ArgsOf(m.cmd)
         /\ m # NoCommand
<1>1. /\ m.cmd \in Commands /\ m.token \in Tokens /\ m.arg \in Args
      /\ m.arg \in ArgsOf(m.cmd)
  BY DEF Messages
<1>2. None \notin Commands
  BY DEF Commands, PureQueries, Settings, None
<1> QED
  BY <1>1, <1>2 DEF NoCommand

LEMMA DeliveredTyped ==
  ASSUME NEW answers \in Seq(Answers), NEW fd, NEW token \in AllTokens,
         NEW ret \in Rets
  PROVE  Delivered(answers, fd, token, ret) \in Seq(Answers)
<1>1. [token |-> token, ret |-> ret] \in Answers
  BY DEF Answers
<1> QED
  BY <1>1 DEF Delivered

LEMMA NotedTyped ==
  ASSUME NEW tokens \in SUBSET AllTokens, NEW fd, NEW token \in AllTokens
  PROVE  Noted(tokens, fd, token) \in SUBSET AllTokens
BY DEF Noted

LEMMA SendResponseTyped ==
  ASSUME OutputTypeOK, NEW fd, NEW token \in AllTokens, NEW ret \in Rets,
         SendResponse(fd, token, ret)
  PROVE  to_test' \in Seq(Answers) /\ answered' \in SUBSET AllTokens
BY DeliveredTyped, NotedTyped DEF OutputTypeOK, SendResponse

LEMMA CallBackendTyped ==
  ASSUME OutputTypeOK, NEW cmd \in BackendCalls, NEW token \in AllTokens,
         NEW fd \in {Test, Cmd, None}, NEW m \in Messages \cup {NoCommand},
         CallBackend(cmd, token, fd, m)
  PROVE  call' \in Calls \cup {NoCall} /\ to_backend' \in Seq(Requests)
<1>1. [cmd |-> cmd, token |-> token] \in Requests
  BY DEF Requests
<1> QED
  BY <1>1 DEF OutputTypeOK, CallBackend, Calls

LEMMA TokensTyped ==
  Tokens \subseteq AllTokens /\ NoToken \in AllTokens /\ CallToken \in AllTokens
BY DEF AllTokens

LEMMA PostponeTyped ==
  ASSUME HandlerTypeOK, NEW fd \in {Test, Cmd, None}, NEW m \in Messages,
         NEW reason \in Reasons, PostponeBackendCommand(fd, m, reason)
  PROVE  /\ PauseTypeOK' /\ SlotTypeOK' /\ ViewTypeOK'
         /\ UNCHANGED <<call, to_backend, loop, died>>
<1>1. PauseTypeOK'
  BY MessageTyped, TokensTyped DEF HandlerTypeOK, PauseTypeOK,
     PostponeBackendCommand, PauseReason, HoldAnswer, Reasons
<1>2. SlotTypeOK'
  BY DEF HandlerTypeOK, SlotTypeOK, PostponeBackendCommand, requesterVars,
     screenVars
<1>3. ViewTypeOK'
  BY DEF HandlerTypeOK, ViewTypeOK, PostponeBackendCommand, UpdateStatusFile
<1> QED
  BY <1>1, <1>2, <1>3 DEF PostponeBackendCommand

LEMMA ProceedTyped ==
  ASSUME HandlerTypeOK, NEW fd \in {Test, Cmd, None}, NEW m \in Messages,
         NEW reason,
         \/ ForwardToBackend(fd, m, reason)
         \/ BackendQueueMissing(reason)
         \/ StartScreenCheck(fd, m, reason)
  PROVE  /\ SlotTypeOK'
         /\ call' \in Calls \cup {NoCall} /\ to_backend' \in Seq(Requests)
         /\ loop' \in BOOLEAN /\ died' \in BOOLEAN
         /\ status' = status
<1> USE DEF HandlerTypeOK
<1>1. CASE ForwardToBackend(fd, m, reason)
  <2>1. [cmd |-> "backend", token |-> m.token] \in Requests
    BY MessageTyped, TokensTyped DEF Requests
  <2> QED
    BY <1>1, <2>1, MessageTyped, TokensTyped
       DEF ForwardToBackend, SlotTypeOK, OutputTypeOK, screenVars
<1>2. CASE BackendQueueMissing(reason)
  BY <1>2 DEF BackendQueueMissing, SlotTypeOK, OutputTypeOK, screenVars,
     requesterVars
<1>3. CASE StartScreenCheck(fd, m, reason)
  <2>1. call' \in Calls \cup {NoCall} /\ to_backend' \in Seq(Requests)
    BY <1>3, CallBackendTyped, MessageTyped, TokensTyped
       DEF StartScreenCheck, BackendCalls
  <2> QED
    BY <1>3, <2>1, MessageTyped, TokensTyped
       DEF StartScreenCheck, SlotTypeOK, OutputTypeOK, requesterVars
<1> QED
  BY <1>1, <1>2, <1>3

LEMMA RespondOnlyTyped ==
  ASSUME HandlerTypeOK, NEW fd, NEW m \in Messages, NEW ret \in Rets,
         RespondOnly(fd, m, ret), UNCHANGED <<call, to_backend, loop, died>>
  PROVE  PauseTypeOK' /\ ViewTypeOK' /\ OutputTypeOK'
<1>1. to_test' \in Seq(Answers) /\ answered' \in SUBSET AllTokens
  BY SendResponseTyped, MessageTyped, TokensTyped DEF RespondOnly, HandlerTypeOK
<1> QED
  BY <1>1 DEF RespondOnly, HandlerTypeOK, PauseTypeOK, ViewTypeOK, OutputTypeOK,
     pauseVars, viewVars

LEMMA PauseNowTyped ==
  ASSUME HandlerTypeOK, NEW fd \in {Test, Cmd}, NEW m \in Messages,
         NEW reason \in Reasons, PauseNow(fd, m, reason),
         UNCHANGED <<call, to_backend, loop, died>>,
         status_file' = status_file \/ UpdateStatusFile(reason, status)
  PROVE  PauseTypeOK' /\ ViewTypeOK' /\ OutputTypeOK'
<1>1. PauseTypeOK'
  BY MessageTyped, TokensTyped DEF PauseNow, HoldAnswer, PauseTypeOK
<1>2. ViewTypeOK'
  <2>1. CASE status_file' = status_file
    BY <2>1 DEF PauseNow, HandlerTypeOK, ViewTypeOK
  <2>2. CASE UpdateStatusFile(reason, status)
    <3>1. (reason # NotPaused) \in BOOLEAN
      OBVIOUS
    <3> QED
      BY <2>2, <3>1 DEF PauseNow, HandlerTypeOK, ViewTypeOK, UpdateStatusFile
  <2> QED
    BY <2>1, <2>2
<1> QED
  BY <1>1, <1>2 DEF PauseNow, HandlerTypeOK, OutputTypeOK

LEMMA ConfigStutter ==
  ASSUME HandlerTypeOK, UNCHANGED configVars PROVE ConfigTypeOK'
BY DEF HandlerTypeOK, ConfigTypeOK, configVars

LEMMA SlotStutter ==
  ASSUME HandlerTypeOK, UNCHANGED <<requesterVars, screenVars>>
  PROVE  SlotTypeOK'
BY DEF HandlerTypeOK, SlotTypeOK, requesterVars, screenVars

LEMMA TypeProcessCommand ==
  ASSUME HandlerTypeOK, NEW fd \in {Test, Cmd}, NEW m \in Messages,
         ProcessCommand(fd, m)
  PROVE  HandlerTypeOK'
<1> USE MessageTyped, TokensTyped, ConfigStutter, SlotStutter
<1>a. reason_for_pause \in Reasons /\ NotPaused \in Reasons
  BY DEF HandlerTypeOK, PauseTypeOK, Reasons
<1>b. "ok" \in Rets /\ "no" \in Rets /\ "status" \in Rets /\ "resumed" \in Rets
  BY DEF Rets
<1>1. CASE BackendCommand(fd, m)
  <2>1. CASE PostponeBackendCommand(fd, m, reason_for_pause)
    BY <1>1, <1>a, <2>1, PostponeTyped DEF BackendCommand, HandlerTypeOK, OutputTypeOK
  <2>2. CASE /\ \/ ForwardToBackend(fd, m, reason_for_pause)
                \/ BackendQueueMissing(reason_for_pause)
             /\ ContinueUnpaused(reason_for_pause)
    BY <1>1, <1>a, <2>2, ProceedTyped
       DEF BackendCommand, HandlerTypeOK, OutputTypeOK, ContinueUnpaused,
           PauseTypeOK, ViewTypeOK
  <2> QED
    BY <1>1, <2>1, <2>2 DEF BackendCommand
<1>2. CASE CheckScreen(fd, m)
  <2>1. CASE PostponeBackendCommand(fd, m, reason_for_pause)
    BY <1>2, <1>a, <2>1, PostponeTyped DEF CheckScreen, HandlerTypeOK, OutputTypeOK
  <2>2. CASE /\ StartScreenCheck(fd, m, reason_for_pause)
             /\ ContinueUnpaused(reason_for_pause)
    BY <1>2, <1>a, <2>2, ProceedTyped
       DEF CheckScreen, HandlerTypeOK, OutputTypeOK, ContinueUnpaused,
           PauseTypeOK, ViewTypeOK
  <2> QED
    BY <1>2, <2>1, <2>2 DEF CheckScreen
<1>3. CASE ReportTimeout(fd, m)
  <2>1. "screen_mismatch" \in Reasons
    BY DEF Reasons
  <2> QED
    BY <1>3, <1>b, <2>1, RespondOnlyTyped, PauseNowTyped
       DEF ReportTimeout, HandlerTypeOK
<1>4. CASE PauseTestExecution(fd, m)
  <2>1. m.arg \in Reasons
    BY <1>4 DEF PauseTestExecution, ArgsOf, Settings, Reasons
  <2> QED
    BY <1>4, <1>b, <2>1, RespondOnlyTyped, PauseNowTyped
       DEF PauseTestExecution, HandlerTypeOK
<1>5. CASE SetCurrentTest(fd, m)
  <2>1. call' \in Calls \cup {NoCall} /\ to_backend' \in Seq(Requests)
    BY <1>5, CallBackendTyped DEF SetCurrentTest, BackendCalls, HandlerTypeOK
  <2> QED
    BY <1>5, <2>1 DEF SetCurrentTest, HandlerTypeOK, PauseTypeOK, ViewTypeOK,
       OutputTypeOK, pauseVars, viewVars
<1>6. CASE ResumeTestExecution(fd, m)
  <2>0. ConfigTypeOK'
    BY <1>6 DEF ResumeTestExecution
  <2>1. CASE ResumeNothing(fd, m)
    BY <1>a, <1>b, <2>0, <2>1, SendResponseTyped
       DEF ResumeNothing, HandlerTypeOK, UpdateStatusFile, PauseTypeOK,
           ViewTypeOK, OutputTypeOK
  <2>2. CASE ResumeAnswer(fd, m)
    <3>1. to_test' \in Seq(Answers)
      BY <1>b, <2>2, DeliveredTyped
         DEF ResumeAnswer, HandlerTypeOK, PauseTypeOK, OutputTypeOK
    <3>2. answered' \in SUBSET AllTokens
      BY <2>2, NotedTyped DEF ResumeAnswer, HandlerTypeOK, PauseTypeOK, OutputTypeOK
    <3> QED
      BY <1>a, <2>0, <2>2, <3>1, <3>2
         DEF ResumeAnswer, HandlerTypeOK, UpdateStatusFile, PauseTypeOK,
             ViewTypeOK, OutputTypeOK, ReleaseAnswer, HoldAnswer
  <2>3. CASE ResumeCommand(fd, m)
    <3> DEFINE p == postponed_command
    <3>1. p \in Messages /\ postponed_answer_fd \in {Test, Cmd, None}
      BY <2>3 DEF ResumeCommand, HandlerTypeOK, PauseTypeOK
    <3>2. to_test' \in Seq(Answers) /\ answered' \in SUBSET AllTokens
      BY <1>b, <2>3, SendResponseTyped DEF ResumeCommand, HandlerTypeOK
    <3>3. CASE PostponeBackendCommand(postponed_answer_fd, p, NotPaused)
      BY <1>a, <2>0, <3>1, <3>2, <3>3, PostponeTyped DEF HandlerTypeOK, OutputTypeOK
    <3>4. ASSUME \/ ForwardToBackend(postponed_answer_fd, p, NotPaused)
                 \/ BackendQueueMissing(NotPaused)
                 \/ StartScreenCheck(postponed_answer_fd, p, NotPaused),
                 reason_for_pause' = NotPaused,
                 UpdateStatusFile(NotPaused, status),
                 clients_paused' = FALSE, ReleaseAnswer
          PROVE  HandlerTypeOK'
      <4>1. /\ SlotTypeOK' /\ status' = status
            /\ call' \in Calls \cup {NoCall} /\ to_backend' \in Seq(Requests)
            /\ loop' \in BOOLEAN /\ died' \in BOOLEAN
        BY <3>1, <3>4, ProceedTyped
      <4>2. PauseTypeOK'
        BY <1>a, <3>4 DEF PauseTypeOK, ReleaseAnswer, HoldAnswer
      <4>3. ViewTypeOK'
        BY <3>4, <4>1 DEF ViewTypeOK, UpdateStatusFile, HandlerTypeOK
      <4> QED
        BY <2>0, <3>2, <4>1, <4>2, <4>3 DEF HandlerTypeOK, OutputTypeOK
    <3> QED
      BY <2>3, <3>3, <3>4 DEF ResumeCommand
  <2> QED
    BY <1>6, <2>1, <2>2, <2>3 DEF ResumeTestExecution
<1>7. CASE Setting(fd, m)
  <2>1. ConfigTypeOK'
    BY <1>7 DEF Setting, Settings, ArgsOf, HandlerTypeOK, ConfigTypeOK
  <2> QED
    BY <1>7, <1>b, <2>1, RespondOnlyTyped DEF Setting, HandlerTypeOK
<1>8. CASE PureQuery(fd, m)
  BY <1>8, <1>b, RespondOnlyTyped DEF PureQuery, HandlerTypeOK
<1>9. CASE SetAssertScreenTimeout(fd, m)
  <2>1. call' \in Calls \cup {NoCall} /\ to_backend' \in Seq(Requests)
    BY <1>9, CallBackendTyped DEF SetAssertScreenTimeout, BackendCalls, HandlerTypeOK
  <2> QED
    BY <1>9, <2>1 DEF SetAssertScreenTimeout, HandlerTypeOK, PauseTypeOK,
       ViewTypeOK, OutputTypeOK, pauseVars, viewVars
<1>10. CASE TestsDone(fd, m)
  <2>1. to_test' \in Seq(Answers) /\ answered' \in SUBSET AllTokens
    BY <1>10, <1>b, SendResponseTyped DEF TestsDone, HandlerTypeOK
  <2> QED
    BY <1>10, <2>1 DEF TestsDone, HandlerTypeOK, UpdateStatusFile, ReleaseAnswer,
       HoldAnswer, PauseTypeOK, SlotTypeOK, ViewTypeOK, OutputTypeOK
<1> QED
  BY <1>1, <1>2, <1>3, <1>4, <1>5, <1>6, <1>7, <1>8, <1>9, <1>10 DEF ProcessCommand

LEMMA TypeSendToBackendRequester ==
  ASSUME HandlerTypeOK, SendToBackendRequester
  PROVE  HandlerTypeOK'
<1> USE DEF HandlerTypeOK
<1>1. to_test' \in Seq(Answers) /\ answered' \in SUBSET AllTokens
  <2>1. CASE backend_requester = None
    BY <2>1 DEF SendToBackendRequester, OutputTypeOK
  <2>2. CASE backend_requester # None
    BY <2>2, SendResponseTyped DEF SendToBackendRequester, SlotTypeOK, Rets
  <2> QED
    BY <2>1, <2>2
<1>2. ConfigTypeOK' /\ PauseTypeOK' /\ ViewTypeOK'
  BY DEF SendToBackendRequester, ConfigTypeOK, PauseTypeOK, ViewTypeOK,
     configVars, pauseVars, viewVars
<1>3. SlotTypeOK' /\ OutputTypeOK'
  BY <1>1, TokensTyped
     DEF SendToBackendRequester, SlotTypeOK, OutputTypeOK, screenVars
<1> QED
  BY <1>2, <1>3

LEMMA TypeCheckAssertedScreen ==
  ASSUME HandlerTypeOK, CheckAssertedScreen
  PROVE  HandlerTypeOK'
<1>1. call' \in Calls \cup {NoCall} /\ to_backend' \in Seq(Requests)
  BY CallBackendTyped, TokensTyped
     DEF CheckAssertedScreen, BackendCalls, HandlerTypeOK
<1> QED
  BY <1>1, ConfigStutter, SlotStutter
     DEF CheckAssertedScreen, HandlerTypeOK, PauseTypeOK, ViewTypeOK,
         OutputTypeOK, pauseVars, viewVars

\* What the rest of set_current_test leaves behind
LEMMA TypeEnterTest ==
  ASSUME HandlerTypeOK, NEW fd \in {Test, Cmd, None}, NEW m, EnterTest(fd, m),
         m.token \in AllTokens, UNCHANGED <<to_backend, loop, died>>, call' = NoCall
  PROVE  PauseTypeOK' /\ ViewTypeOK' /\ OutputTypeOK'
<1> DEFINE reached == m.arg # None /\ m.arg = pause_test_name
           reason == IF reached THEN "module" ELSE reason_for_pause
<1>1. reason \in Reasons
  BY DEF Reasons, HandlerTypeOK, PauseTypeOK
<1>2. /\ UpdateStatusFile(reason, "running")
      /\ reason_for_pause' = reason
      /\ \/ /\ SendResponse(fd, m.token, "ok")
            /\ UNCHANGED <<postponed_answer_fd, postponed_token,
                           postponed_command, clients_paused>>
         \/ /\ clients_paused' = TRUE
            /\ HoldAnswer(fd, m.token, NoCommand)
            /\ UNCHANGED <<to_test, answered>>
  BY DEF EnterTest
<1> HIDE DEF reason
<1>3. ViewTypeOK'
  <2>1. (reason # NotPaused) \in BOOLEAN
    OBVIOUS
  <2>2. clients_paused' \in BOOLEAN
    BY <1>2 DEF HandlerTypeOK, ViewTypeOK
  <2> QED
    BY <1>2, <2>1, <2>2 DEF EnterTest, ViewTypeOK, UpdateStatusFile
<1>4. PauseTypeOK'
  BY <1>1, <1>2, TokensTyped DEF HandlerTypeOK, PauseTypeOK, HoldAnswer
<1>5. OutputTypeOK'
  <2>1. to_test' \in Seq(Answers) /\ answered' \in SUBSET AllTokens
    BY <1>2, SendResponseTyped DEF Rets, HandlerTypeOK, OutputTypeOK
  <2> QED
    BY <2>1 DEF HandlerTypeOK, OutputTypeOK
<1> QED
  BY <1>3, <1>4, <1>5

LEMMA TypeFinishCall ==
  ASSUME HandlerTypeOK, call # NoCall, NEW verdict \in Verdicts,
         FinishCall(verdict)
  PROVE  HandlerTypeOK'
<1>1. /\ call \in Calls /\ call.fd \in {Test, Cmd, None}
      /\ call.msg.token \in AllTokens
  BY MessageTyped, TokensTyped
     DEF HandlerTypeOK, OutputTypeOK, Calls, NoCommand
<1>2. /\ ConfigTypeOK' /\ call' = NoCall
      /\ UNCHANGED <<requesterVars, to_backend, loop, died>>
  BY ConfigStutter DEF FinishCall
<1>3. CASE EnterTest(call.fd, call.msg)
  <2>1. PauseTypeOK' /\ ViewTypeOK' /\ OutputTypeOK'
    BY <1>1, <1>2, <1>3, TypeEnterTest
  <2>2. SlotTypeOK'
    BY <1>2, <1>3, SlotStutter DEF EnterTest
  <2> QED
    BY <1>2, <2>1, <2>2 DEF HandlerTypeOK
<1>4. CASE /\ tags' = TRUE
           /\ UNCHANGED <<pauseVars, viewVars, active_check_screen_token,
                          to_test, answered>>
  BY <1>2, <1>4 DEF HandlerTypeOK, PauseTypeOK, SlotTypeOK, ViewTypeOK,
     OutputTypeOK, pauseVars, viewVars, requesterVars
<1>5. CASE RespondOnly(call.fd, call.msg, "ok") /\ UNCHANGED screenVars
  <2>1. to_test' \in Seq(Answers) /\ answered' \in SUBSET AllTokens
    BY <1>1, <1>5, SendResponseTyped DEF RespondOnly, Rets, HandlerTypeOK
  <2> QED
    BY <1>2, <1>5, <2>1, SlotStutter
       DEF HandlerTypeOK, RespondOnly, PauseTypeOK, ViewTypeOK, OutputTypeOK,
           pauseVars, viewVars
<1>6. CASE ScreenVerdict(verdict) /\ UNCHANGED <<pauseVars, viewVars>>
  <2>1. /\ to_test' \in Seq(Answers) /\ answered' \in SUBSET AllTokens
        /\ tags' \in BOOLEAN /\ active_check_screen_token' \in AllTokens
    <3>1. CASE verdict = "nothing"
      BY <1>6, <3>1 DEF ScreenVerdict, screenVars, HandlerTypeOK, SlotTypeOK,
         OutputTypeOK
    <3>2. CASE verdict # "nothing"
      BY <1>6, <3>2, SendResponseTyped, TokensTyped
         DEF ScreenVerdict, Rets, Verdicts, HandlerTypeOK, SlotTypeOK
    <3> QED
      BY <3>1, <3>2
  <2> QED
    BY <1>2, <1>6, <2>1
       DEF HandlerTypeOK, PauseTypeOK, SlotTypeOK, ViewTypeOK, OutputTypeOK,
           pauseVars, viewVars, requesterVars
<1> QED
  BY <1>3, <1>4, <1>5, <1>6 DEF FinishCall
-----------------------------------------------------------------------------
(* Types: the steps of the processes                                         *)

LEMMA TypeInit == Init => TypeOK
<1> SUFFICES ASSUME Init PROVE TypeOK
  OBVIOUS
<1> USE TokensTyped DEF Init, HandlerInit
<1>1. ConfigTypeOK /\ PauseTypeOK /\ SlotTypeOK /\ ViewTypeOK
  BY DEF ConfigTypeOK, PauseTypeOK, SlotTypeOK, ViewTypeOK, Reasons
<1>0. /\ <<>> \in Seq(Answers) /\ <<>> \in Seq(Requests)
      /\ <<>> \in Seq(Replies) /\ <<>> \in Seq(Messages)
  OBVIOUS
<1>2. OutputTypeOK
  BY <1>0 DEF OutputTypeOK
<1>3. LoopTypeOK /\ TestTypeOK
  BY <1>0 DEF LoopTypeOK, TestTypeOK
<1>4. [fd \in Fds |-> <<>>] \in Channels
  BY <1>0, FdsDistinct DEF Channels
<1> QED
  BY <1>1, <1>2, <1>3, <1>4 DEF TypeOK, HandlerTypeOK

LEMMA TypeAutotestStep ==
  ASSUME TypeOK, AutotestStep
  PROVE  TypeOK'
<1> USE DEF TypeOK, TestTypeOK
<1>1. CASE AskQuery
  <2>0. PICK cmd \in {"backend", "check_screen", "set_current_test",
                      "pause_test_execution", "status"} :
          \E arg \in TestArgs(cmd) : Ask(cmd, arg)
    BY <1>1 DEF AskQuery
  <2>1. PICK arg \in TestArgs(cmd) : Ask(cmd, arg)
    BY <2>0
  <2>2. cmd \in Commands /\ arg \in Args /\ arg \in ArgsOf(cmd)
    BY <2>1 DEF Commands, PureQueries, Settings, Args, ArgsOf, TestArgs
  <2> QED
    BY <1>1, <2>1, <2>2, TypeAsk DEF AskQuery
<1>2. CASE AskAboutTimeout
  <2>1. /\ "is_configured_to_pause_on_timeout" \in Commands
        /\ query.arg \in Args
        /\ query.arg \in ArgsOf("is_configured_to_pause_on_timeout")
    BY <1>2, MessageTyped
       DEF AskAboutTimeout, Commands, PureQueries, Settings, Args, ArgsOf, NoCommand
  <2> QED
    BY <1>2, <2>1, TypeAsk DEF AskAboutTimeout
<1>3. CASE AskReportTimeout
  <2>1. /\ "report_timeout" \in Commands
        /\ query.arg \in Args /\ query.arg \in ArgsOf("report_timeout")
    BY <1>3, MessageTyped
       DEF AskReportTimeout, Commands, Settings, Args, ArgsOf, NoCommand
  <2>2. timed_out' \in BOOLEAN
    BY <1>3 DEF AskReportTimeout
  <2> QED
    BY <1>3, <2>1, <2>2, TypeAsk DEF AskReportTimeout
<1>4. CASE AskTestsDone
  <2>1. "tests_done" \in Commands /\ None \in Args /\ None \in ArgsOf("tests_done")
    BY DEF Commands, Settings, Args, ArgsOf
  <2>2. timed_out' \in BOOLEAN
    BY <1>4 DEF AskTestsDone
  <2> QED
    BY <1>4, <2>1, <2>2, TypeAsk DEF AskTestsDone
<1>5. CASE ReceiveAnswer
  <2>1. to_test' \in Seq(Answers)
    BY <1>5, HeadTyped DEF ReceiveAnswer, HandlerTypeOK, OutputTypeOK
  <2>0. timed_out' \in BOOLEAN
    BY <1>5 DEF ReceiveAnswer
  <2>2. ConfigTypeOK' /\ PauseTypeOK' /\ SlotTypeOK' /\ ViewTypeOK'
    BY <1>5 DEF ReceiveAnswer, HandlerTypeOK, ConfigTypeOK, PauseTypeOK,
       SlotTypeOK, ViewTypeOK, configVars, pauseVars, requesterVars, screenVars,
       viewVars
  <2>3. OutputTypeOK' /\ LoopTypeOK' /\ TestTypeOK'
    BY <1>5, <2>0, <2>1 DEF ReceiveAnswer, HandlerTypeOK, OutputTypeOK, LoopTypeOK, loopVars
  <2> QED
    BY <1>5, <2>2, <2>3 DEF ReceiveAnswer, HandlerTypeOK
<1> QED
  BY <1>1, <1>2, <1>3, <1>4, <1>5 DEF AutotestStep

LEMMA TypeClientSends ==
  ASSUME TypeOK, ClientSends
  PROVE  TypeOK'
<1> USE DEF TypeOK
<1>0. PICK cmd \in ClientCommands : \E arg \in ClientArgs(cmd) :
        Send(Cmd, [cmd |-> cmd, token |-> <<Cmd, sent + 1>>, arg |-> arg])
  BY DEF ClientSends
<1>1. PICK arg \in ClientArgs(cmd) :
        Send(Cmd, [cmd |-> cmd, token |-> <<Cmd, sent + 1>>, arg |-> arg])
  BY <1>0
<1>2. [cmd |-> cmd, token |-> <<Cmd, sent + 1>>, arg |-> arg] \in Messages
  <2>1. cmd \in Commands
    BY CommandsAssumption
  <2>2. arg \in Args /\ arg \in ArgsOf(cmd)
    BY <2>1 DEF ClientArgs, ArgsOf, Args, Settings, Commands, PureQueries
  <2> QED
    BY <2>1, <2>2 DEF Messages, Tokens
<1>3. sock' \in Channels
  BY <1>1, <1>2, ChannelAppend, FdsDistinct DEF Send
<1>4. HandlerTypeOK'
  BY HandlerTypeStutter DEF ClientSends
<1> QED
  BY <1>3, <1>4 DEF ClientSends, LoopTypeOK, TestTypeOK, loopVars, testVars

LEMMA TypeBackendStep ==
  ASSUME TypeOK, BackendStep
  PROVE  TypeOK'
<1> USE DEF TypeOK
<1>1. ASSUME NEW verdict \in Verdicts, BackendAnswersCall(verdict) PROVE TypeOK'
  <2>1. /\ to_backend' \in Seq(Requests)
        /\ [token |-> Head(to_backend).token, verdict |-> verdict] \in Replies
    <3>1. Head(to_backend) \in Requests /\ to_backend' \in Seq(Requests)
      BY <1>1, HeadTyped DEF BackendAnswersCall, HandlerTypeOK, OutputTypeOK
    <3> QED
      BY <3>1 DEF Requests, Replies
  <2>2. sock' \in Channels
    BY <1>1, <2>1, ChannelAppend, FdsDistinct DEF BackendAnswersCall, Send
  <2>3. ConfigTypeOK' /\ PauseTypeOK' /\ SlotTypeOK' /\ ViewTypeOK'
    BY <1>1 DEF BackendAnswersCall, HandlerTypeOK, ConfigTypeOK, PauseTypeOK,
       SlotTypeOK, ViewTypeOK, configVars, pauseVars, requesterVars, screenVars,
       viewVars
  <2>4. OutputTypeOK' /\ LoopTypeOK' /\ TestTypeOK'
    BY <1>1, <2>1 DEF BackendAnswersCall, HandlerTypeOK, OutputTypeOK,
       LoopTypeOK, TestTypeOK, loopVars, testVars
  <2> QED
    BY <1>1, <2>2, <2>3, <2>4 DEF BackendAnswersCall, HandlerTypeOK
<1>2. ASSUME BackendTakes PROVE TypeOK'
  <2>1. to_backend' \in Seq(Requests) /\ working' \in SUBSET AllTokens
    <3>1. Head(to_backend) \in Requests /\ to_backend' \in Seq(Requests)
      BY <1>2, HeadTyped DEF BackendTakes, HandlerTypeOK, OutputTypeOK
    <3> QED
      BY <1>2, <3>1 DEF BackendTakes, Requests
  <2>2. ConfigTypeOK' /\ PauseTypeOK' /\ SlotTypeOK' /\ ViewTypeOK'
    BY <1>2 DEF BackendTakes, HandlerTypeOK, ConfigTypeOK, PauseTypeOK,
       SlotTypeOK, ViewTypeOK, configVars, pauseVars, requesterVars, screenVars,
       viewVars
  <2>3. OutputTypeOK' /\ LoopTypeOK' /\ TestTypeOK'
    BY <1>2, <2>1 DEF BackendTakes, HandlerTypeOK, OutputTypeOK,
       LoopTypeOK, TestTypeOK, loopVars, testVars
  <2> QED
    BY <1>2, <2>1, <2>2, <2>3 DEF BackendTakes, HandlerTypeOK
<1>3. ASSUME BackendReplies PROVE TypeOK'
  <2>1. PICK token \in working :
          /\ working' = working \ {token}
          /\ Send(BackendOut, [token |-> token, verdict |-> "nothing"])
    BY <1>3 DEF BackendReplies
  <2>2. sock' \in Channels
    BY <2>1, ChannelAppend, FdsDistinct DEF Send, Replies, Verdicts
  <2>3. HandlerTypeOK'
    BY <1>3, HandlerTypeStutter DEF BackendReplies
  <2> QED
    BY <1>3, <2>1, <2>2, <2>3 DEF BackendReplies, LoopTypeOK, TestTypeOK,
       loopVars, testVars
<1> QED
  BY <1>1, <1>2, <1>3 DEF BackendStep

\* What read_json leaves in the channels, and what it returns
LEMMA TypeReadJson ==
  ASSUME sock \in Channels, buf \in Channels, NEW fd \in Fds, ReadJson(fd)
  PROVE  /\ sock' \in Channels /\ buf' \in Channels
         /\ IF fd = BackendOut THEN Head(Readable(fd)) \in Replies
                               ELSE Head(Readable(fd)) \in Messages
<1>1. CASE buf[fd] # <<>>
  BY <1>1, ChannelReplace, ChannelHead DEF ReadJson, Readable
<1>2. CASE buf[fd] = <<>>
  BY <1>2, ChannelReplace, ChannelEmpty, ChannelHead DEF ReadJson, Readable
<1> QED
  BY <1>1, <1>2

LEMMA TypeLoopStep ==
  ASSUME TypeOK, LoopStep
  PROVE  TypeOK'
<1> USE DEF TypeOK, LoopTypeOK
<1>1. ASSUME Select \/ EndOfServing \/ CheckLater \/ LoopEnds PROVE TypeOK'
  <2>1. HandlerTypeOK'
    BY <1>1, HandlerTypeStutter DEF Select, EndOfServing, CheckLater, LoopEnds
  <2> QED
    BY <1>1, <2>1
       DEF Select, EndOfServing, CheckLater, LoopEnds, TestTypeOK, testVars
<1>2. ASSUME NEW fd \in {Test, Cmd}, ServeCommand(fd) PROVE TypeOK'
  <2>1. fd \in Fds /\ fd # BackendOut
    BY FdsDistinct
  <2>2. sock' \in Channels /\ buf' \in Channels /\ HandlerTypeOK'
    BY <1>2, <2>1, TypeReadJson, TypeProcessCommand DEF ServeCommand
  <2> QED
    BY <1>2, <2>2 DEF ServeCommand, ServedNext, TestTypeOK, testVars
<1>3. CASE ServeBackend
  <2>1. sock' \in Channels /\ buf' \in Channels /\ HandlerTypeOK'
    BY <1>3, FdsDistinct, TypeReadJson, TypeSendToBackendRequester DEF ServeBackend
  <2> QED
    BY <1>3, <2>1 DEF ServeBackend, ServedNext, TestTypeOK, testVars
<1>4. CASE ServeInterleaved
  <2>1. HandlerTypeOK' /\ interleaved' \in Seq(Replies)
    BY <1>4, TypeSendToBackendRequester DEF ServeInterleaved
  <2> QED
    BY <1>4, <2>1 DEF ServeInterleaved, TestTypeOK, testVars
<1>5. CASE CheckNow
  BY <1>5, TypeCheckAssertedScreen DEF CheckNow, TestTypeOK, testVars
<1>6. CASE CallSysread
  <2>1. sock' \in Channels /\ buf' \in Channels /\ HandlerTypeOK'
    BY <1>6, FdsDistinct, ChannelReplace, ChannelEmpty, HandlerTypeStutter
       DEF CallSysread
  <2> QED
    BY <1>6, <2>1 DEF CallSysread, TestTypeOK, testVars, loopVars
<1>7. CASE CallInterleaved
  <2>1. Head(buf[BackendOut]) \in Replies
    BY <1>7, FdsDistinct, ChannelHead DEF CallInterleaved
  <2>2. buf' \in Channels
    BY <1>7, FdsDistinct, ChannelReplace DEF CallInterleaved
  <2>3. HandlerTypeOK' /\ interleaved' \in Seq(Replies)
    BY <1>7, <2>1, HandlerTypeStutter DEF CallInterleaved
  <2> QED
    BY <1>7, <2>2, <2>3 DEF CallInterleaved, TestTypeOK, testVars
<1>8. CASE CallReturns
  <2>1. Head(buf[BackendOut]).verdict \in Verdicts
    BY <1>8, FdsDistinct, ChannelHead DEF CallReturns, Replies
  <2>2. buf' \in Channels
    BY <1>8, FdsDistinct, ChannelReplace DEF CallReturns
  <2>3. HandlerTypeOK'
    BY <1>8, <2>1, TypeFinishCall DEF CallReturns, Idle
  <2> QED
    BY <1>8, <2>2, <2>3 DEF CallReturns, TestTypeOK, testVars, loopVars
<1> QED
  BY <1>1, <1>2, <1>3, <1>4, <1>5, <1>6, <1>7, <1>8 DEF LoopStep

LEMMA TypeNext == TypeOK /\ [Next]_vars => TypeOK'
<1> SUFFICES ASSUME TypeOK, [Next]_vars PROVE TypeOK'
  OBVIOUS
<1>1. CASE Next
  BY <1>1, TypeAutotestStep, TypeClientSends, TypeBackendStep, TypeLoopStep DEF Next
<1>2. CASE UNCHANGED vars
  <2>1. HandlerTypeOK'
    BY <1>2, HandlerTypeStutter DEF TypeOK, vars
  <2> QED
    BY <1>2, <2>1 DEF TypeOK, LoopTypeOK, TestTypeOK, vars, loopVars, testVars
<1> QED
  BY <1>1, <1>2

\* Every variable of the main loop, the handlers and the processes keeps its
\* type, whatever the test names, the commands of clients and the bounds.
THEOREM TypeCorrect == Spec => []TypeOK
BY TypeInit, TypeNext, PTL DEF Spec
-----------------------------------------------------------------------------
(* What clients and the status file say about the pause                      *)

ViewsInv == ClientsSeePause /\ StatusFileNotStale

\* A handler that knows the reason for the pause says it, or keeps all as it was.
LEMMA ViewsPause ==
  ASSUME NEW reason, reason # NotPaused, reason_for_pause' = reason, clients_paused' = TRUE
  PROVE  ViewsInv'
BY DEF ViewsInv, ClientsSeePause, StatusFileNotStale

LEMMA ViewsResume ==
  ASSUME NEW s, reason_for_pause' = NotPaused, UpdateStatusFile(NotPaused, s),
         clients_paused' = FALSE
  PROVE  ViewsInv'
BY DEF ViewsInv, ClientsSeePause, StatusFileNotStale, UpdateStatusFile

LEMMA ViewsStay ==
  ASSUME ViewsInv, UNCHANGED <<reason_for_pause, status_file, clients_paused>>
  PROVE  ViewsInv'
BY DEF ViewsInv, ClientsSeePause, StatusFileNotStale

LEMMA ViewsPostpone ==
  ASSUME NEW fd, NEW m, NEW reason, PostponeBackendCommand(fd, m, reason)
  PROVE  ViewsInv'
BY ViewsPause DEF PostponeBackendCommand

LEMMA ViewsProcessCommand ==
  ASSUME ViewsInv, NEW fd, NEW m \in Messages, ProcessCommand(fd, m)
  PROVE  ViewsInv'
<1> USE ViewsPause, ViewsResume, ViewsStay, ViewsPostpone
<1>1. ASSUME RespondOnly(fd, m, "ok") \/ RespondOnly(fd, m, "no") \/ RespondOnly(fd, m, "status")
      PROVE  ViewsInv'
  BY <1>1 DEF RespondOnly, pauseVars, viewVars
<1>2. CASE BackendCommand(fd, m) \/ CheckScreen(fd, m)
  BY <1>2 DEF BackendCommand, CheckScreen, ContinueUnpaused
<1>3. CASE ReportTimeout(fd, m)
  <2>1. "screen_mismatch" # NotPaused
    BY DEF NotPaused
  <2> QED
    BY <1>1, <1>3, <2>1 DEF ReportTimeout, PauseNow
<1>4. CASE PauseTestExecution(fd, m)
  <2>1. m.arg # NotPaused
    BY <1>4, MessageTyped DEF PauseTestExecution, ArgsOf, Settings, NotPaused
  <2> QED
    BY <1>1, <1>4, <2>1 DEF PauseTestExecution, PauseNow
<1>5. CASE SetCurrentTest(fd, m) \/ SetAssertScreenTimeout(fd, m)
  BY <1>5 DEF SetCurrentTest, SetAssertScreenTimeout, pauseVars, viewVars
<1>6. CASE ResumeTestExecution(fd, m)
  <2>1. ViewsInv'
    BY <1>6 DEF ResumeTestExecution, ResumeNothing, ResumeAnswer, ResumeCommand
  <2> QED
    BY <2>1
<1>7. CASE Setting(fd, m) \/ PureQuery(fd, m)
  BY <1>1, <1>7 DEF Setting, PureQuery
<1>8. CASE TestsDone(fd, m)
  BY <1>8 DEF TestsDone, UpdateStatusFile, ViewsInv, ClientsSeePause, StatusFileNotStale
<1> QED
  BY <1>2, <1>3, <1>4, <1>5, <1>6, <1>7, <1>8 DEF ProcessCommand

LEMMA ViewsFinishCall ==
  ASSUME ViewsInv, NEW verdict, FinishCall(verdict)
  PROVE  ViewsInv'
<1>1. CASE EnterTest(call.fd, call.msg)
  <2>1. \/ reason_for_pause' = reason_for_pause /\ clients_paused' = clients_paused
        \/ reason_for_pause' # NotPaused /\ clients_paused' = TRUE
    BY <1>1 DEF EnterTest, NotPaused
  <2>2. UpdateStatusFile(reason_for_pause', "running")
    BY <1>1 DEF EnterTest
  <2>3. StatusFileNotStale'
    BY <2>2 DEF StatusFileNotStale, UpdateStatusFile
  <2>4. ClientsSeePause'
    <3>1. CASE reason_for_pause' = reason_for_pause /\ clients_paused' = clients_paused
      BY <3>1, Zenon DEF ViewsInv, ClientsSeePause
    <3>2. CASE reason_for_pause' # NotPaused /\ clients_paused' = TRUE
      BY <3>2 DEF ClientsSeePause
    <3> QED
      BY <2>1, <3>1, <3>2
  <2> QED
    BY <2>3, <2>4 DEF ViewsInv
<1>2. CASE UNCHANGED <<pauseVars, viewVars>>
  BY <1>2, ViewsStay DEF pauseVars, viewVars
<1> QED
  BY <1>1, <1>2 DEF FinishCall, RespondOnly

LEMMA ViewsNext == TypeOK /\ ViewsInv /\ [Next]_vars => ViewsInv'
<1> SUFFICES ASSUME TypeOK, ViewsInv, [Next]_vars PROVE ViewsInv'
  OBVIOUS
<1>1. ASSUME NEW fd \in {Test, Cmd}, ServeCommand(fd) PROVE ViewsInv'
  <2>1. Head(Readable(fd)) \in Messages
    BY <1>1, TypeReadJson, FdsDistinct DEF ServeCommand, TypeOK
  <2> QED
    BY <1>1, <2>1, ViewsProcessCommand DEF ServeCommand
<1>2. CASE CallReturns
  BY <1>2, ViewsFinishCall DEF CallReturns
<1>3. CASE ServeBackend \/ ServeInterleaved \/ CheckNow
  BY <1>3, ViewsStay
     DEF ServeBackend, ServeInterleaved, CheckNow, SendToBackendRequester,
         CheckAssertedScreen, pauseVars, viewVars
<1>4. CASE ReceiveAnswer \/ BackendTakes \/ \E verdict \in Verdicts : BackendAnswersCall(verdict)
  BY <1>4, ViewsStay DEF ReceiveAnswer, BackendTakes, BackendAnswersCall, pauseVars, viewVars
<1>5. CASE UNCHANGED handlerVars
  BY <1>5, ViewsStay DEF handlerVars, pauseVars, viewVars
<1>6. CASE LoopStep
  BY <1>1, <1>2, <1>3, <1>5, <1>6
     DEF LoopStep, Select, EndOfServing, CheckLater, CallSysread, CallInterleaved, LoopEnds
<1>7. CASE AutotestStep \/ ClientSends \/ BackendStep
  BY <1>4, <1>5, <1>7
     DEF AutotestStep, AskQuery, AskAboutTimeout, AskReportTimeout, AskTestsDone, Ask,
         ClientSends, BackendStep, BackendReplies
<1> QED
  BY <1>5, <1>6, <1>7 DEF Next, vars

LEMMA ViewsAlways == Spec => []ViewsInv
<1>1. Init => ViewsInv
  BY DEF Init, HandlerInit, ViewsInv, ClientsSeePause, StatusFileNotStale
<1> QED
  BY <1>1, ViewsNext, TypeCorrect, PTL DEF Spec

\* Whatever clients send and whenever, the last of the broadcasts of
\* isotovideo is true: 'paused' is the last exactly while there is a reason for a
\* pause, also when a resume stops at the next command within one handler.
THEOREM ClientsAreTold == Spec => []ClientsSeePause
BY ViewsAlways, PTL DEF ViewsInv

\* Whatever clients send, autoinst-status.json claims no pause that is over.
THEOREM StatusFileIsTrue == Spec => []StatusFileNotStale
BY ViewsAlways, PTL DEF ViewsInv
-----------------------------------------------------------------------------
(* A pause holds an answer                                                   *)

\* The rest of set_current_test holds the answer to whom it works for.
PauseInv ==
  /\ PausedIffHeld
  /\ call.cmd = "clear_serial_buffer" => call.fd # None

LEMMA PauseHolds ==
  ASSUME NEW fd, fd # None, NEW token, NEW command, HoldAnswer(fd, token, command),
         reason_for_pause' # NotPaused
  PROVE  PausedIffHeld'
BY DEF HoldAnswer, PausedIffHeld

LEMMA PauseEnds ==
  ASSUME ReleaseAnswer, reason_for_pause' = NotPaused
  PROVE  PausedIffHeld'
BY DEF ReleaseAnswer, HoldAnswer, PausedIffHeld

LEMMA PauseStays ==
  ASSUME PausedIffHeld, loop' = loop, UNCHANGED <<reason_for_pause, postponed_answer_fd>>
  PROVE  PausedIffHeld'
BY DEF PausedIffHeld

LEMMA LoopIsOver ==
  ASSUME loop' = FALSE
  PROVE  PausedIffHeld'
BY DEF PausedIffHeld

LEMMA PausePostpone ==
  ASSUME NEW fd, fd # None, NEW m, NEW reason, PostponeBackendCommand(fd, m, reason)
  PROVE  PausedIffHeld'
BY PauseHolds DEF PostponeBackendCommand

LEMMA PauseProcessCommand ==
  ASSUME PausedIffHeld, NEW fd \in {Test, Cmd}, NEW m \in Messages, ProcessCommand(fd, m)
  PROVE  PausedIffHeld'
<1> USE PauseHolds, PauseEnds, PauseStays, LoopIsOver, PausePostpone
<1>0. fd # None
  BY DEF Test, Cmd, None
<1>1. ASSUME NEW ret, RespondOnly(fd, m, ret), loop' = loop
      PROVE  PausedIffHeld'
  BY <1>1 DEF RespondOnly, pauseVars
<1>2. CASE BackendCommand(fd, m)
  BY <1>0, <1>2 DEF BackendCommand, ContinueUnpaused, ForwardToBackend, BackendQueueMissing
<1>3. CASE CheckScreen(fd, m)
  BY <1>0, <1>3 DEF CheckScreen, ContinueUnpaused, StartScreenCheck
<1>4. CASE ReportTimeout(fd, m)
  <2>1. "screen_mismatch" # NotPaused
    BY DEF NotPaused
  <2> QED
    BY <1>0, <1>1, <1>4, <2>1 DEF ReportTimeout, PauseNow
<1>5. CASE PauseTestExecution(fd, m)
  <2>1. m.arg # NotPaused
    BY <1>5, MessageTyped DEF PauseTestExecution, ArgsOf, Settings, NotPaused
  <2> QED
    BY <1>0, <1>1, <1>5, <2>1 DEF PauseTestExecution, PauseNow
<1>6. CASE SetCurrentTest(fd, m) \/ SetAssertScreenTimeout(fd, m)
  BY <1>6 DEF SetCurrentTest, SetAssertScreenTimeout, pauseVars
<1>7. CASE ResumeTestExecution(fd, m)
  <2>1. CASE ResumeNothing(fd, m)
    BY <2>1 DEF ResumeNothing, PausedIffHeld
  <2>2. CASE ResumeAnswer(fd, m)
    BY <2>2 DEF ResumeAnswer
  <2>3. CASE ResumeCommand(fd, m)
    BY <2>3 DEF ResumeCommand
  <2> QED
    BY <1>7, <2>1, <2>2, <2>3 DEF ResumeTestExecution
<1>8. CASE Setting(fd, m) \/ PureQuery(fd, m)
  BY <1>1, <1>8 DEF Setting, PureQuery
<1>9. CASE TestsDone(fd, m)
  BY <1>9 DEF TestsDone
<1> QED
  BY <1>2, <1>3, <1>4, <1>5, <1>6, <1>7, <1>8, <1>9 DEF ProcessCommand

LEMMA PauseFinishCall ==
  ASSUME PauseInv, NEW verdict, FinishCall(verdict)
  PROVE  PausedIffHeld'
<1>0. loop' = loop
  BY DEF FinishCall
<1>1. CASE call.cmd = "clear_serial_buffer" /\ EnterTest(call.fd, call.msg)
  <2>1. call.fd # None
    BY <1>1 DEF PauseInv
  <2>2. \/ /\ reason_for_pause' = reason_for_pause
           /\ postponed_answer_fd' = postponed_answer_fd
        \/ /\ reason_for_pause' # NotPaused
           /\ HoldAnswer(call.fd, call.msg.token, NoCommand)
    BY <1>1 DEF EnterTest, NotPaused
  <2> QED
    BY <1>0, <2>1, <2>2, PauseHolds, PauseStays DEF PauseInv
<1>2. CASE UNCHANGED pauseVars
  BY <1>0, <1>2, PauseStays DEF pauseVars, PauseInv
<1> QED
  BY <1>1, <1>2 DEF FinishCall, RespondOnly

\* Which handlers may leave a call of the backend behind
LEMMA CallsOfCommands ==
  ASSUME NEW fd \in {Test, Cmd}, NEW m, ProcessCommand(fd, m)
  PROVE  call' = call \/ call'.cmd # "clear_serial_buffer" \/ call'.fd = fd
BY DEF ProcessCommand, BackendCommand, PostponeBackendCommand, ForwardToBackend,
       BackendQueueMissing, CheckScreen, StartScreenCheck, CallBackend, ReportTimeout,
       PauseTestExecution, SetCurrentTest, ResumeTestExecution, ResumeNothing, ResumeAnswer,
       ResumeCommand, Setting, PureQuery, SetAssertScreenTimeout, TestsDone

LEMMA PauseNext == TypeOK /\ PauseInv /\ [Next]_vars => PauseInv'
<1> SUFFICES ASSUME TypeOK, PauseInv, [Next]_vars PROVE PauseInv'
  OBVIOUS
<1>1. ASSUME NEW fd \in {Test, Cmd}, ServeCommand(fd) PROVE PauseInv'
  <2>1. Head(Readable(fd)) \in Messages
    BY <1>1, TypeReadJson, FdsDistinct DEF ServeCommand, TypeOK
  <2>2. PausedIffHeld'
    BY <1>1, <2>1, PauseProcessCommand DEF ServeCommand, PauseInv
  <2>3. call' = call \/ call'.cmd # "clear_serial_buffer" \/ call'.fd = fd
    BY <1>1, CallsOfCommands DEF ServeCommand
  <2> QED
    BY <2>2, <2>3 DEF PauseInv, Test, Cmd, None
<1>2. CASE CallReturns
  <2>1. call' = NoCall
    BY <1>2 DEF CallReturns, FinishCall
  <2> QED
    BY <1>2, <2>1, PauseFinishCall DEF CallReturns, PauseInv, NoCall, None
<1>3. CASE ServeBackend \/ ServeInterleaved
  BY <1>3, PauseStays
     DEF ServeBackend, ServeInterleaved, SendToBackendRequester, pauseVars, PauseInv
<1>4. CASE CheckNow
  BY <1>4, PauseStays DEF CheckNow, CheckAssertedScreen, CallBackend, pauseVars, PauseInv
<1>5. CASE ReceiveAnswer \/ BackendTakes \/ \E verdict \in Verdicts : BackendAnswersCall(verdict)
  BY <1>5, PauseStays
     DEF ReceiveAnswer, BackendTakes, BackendAnswersCall, pauseVars, PauseInv
<1>6. CASE UNCHANGED handlerVars
  BY <1>6, PauseStays DEF handlerVars, pauseVars, PauseInv
<1>7. CASE LoopStep
  BY <1>1, <1>2, <1>3, <1>4, <1>6, <1>7
     DEF LoopStep, Select, EndOfServing, CheckLater, CallSysread, CallInterleaved, LoopEnds
<1>8. CASE AutotestStep \/ ClientSends \/ BackendStep
  BY <1>5, <1>6, <1>8
     DEF AutotestStep, AskQuery, AskAboutTimeout, AskReportTimeout, AskTestsDone, Ask,
         ClientSends, BackendStep, BackendReplies
<1> QED
  BY <1>6, <1>7, <1>8 DEF Next, vars

\* Whatever clients send: while the loop runs, the process is paused exactly as
\* long as it holds an answer back, so resume_test_execution can end every pause.
THEOREM PauseHoldsAnswer == Spec => []PausedIffHeld
<1>1. Init => PauseInv
  BY DEF Init, HandlerInit, PauseInv, PausedIffHeld, NoCall, None
<1>2. PauseInv => PausedIffHeld
  BY DEF PauseInv
<1> QED
  BY <1>1, <1>2, PauseNext, TypeCorrect, PTL DEF Spec

-----------------------------------------------------------------------------
(* The debt to autotest                                                      *)

\* The commands autotest sends
TestCommands == {"backend", "check_screen", "report_timeout", "set_current_test",
                 "pause_test_execution", "tests_done"} \cup PureQueries

\* The commands of the web UI's developer mode
DeveloperCommands == Settings \cup PureQueries \cup
                     {"pause_test_execution", "resume_test_execution",
                      "set_assert_screen_timeout"}

\* Whose command the handlers work on
CallInv ==
  /\ call.fd = Test <=> call.cmd \in {"clear_serial_buffer", "set_tags_to_assert"}
  /\ call.cmd = "check_asserted_screen" => tags /\ call.fd = None
  /\ call.cmd = "set_assert_screen_timeout" => call.fd = Cmd

SlotInv ==
  /\ backend_requester \in {Test, None}
  /\ postponed_command # NoCommand =>
       postponed_answer_fd = Test /\ postponed_command.cmd \in {"backend", "check_screen"}
  /\ PausedIffHeld
  /\ ~died

\* What the handlers alone keep
HandlerInv == CallInv /\ SlotInv

\* OnlyAt without the socket
HeldAt(p) ==
  /\ call.fd = Test <=> p = "call"
  /\ backend_requester = Test <=> p = "requester"
  /\ tags <=> p = "screen"
  /\ postponed_answer_fd = Test <=> p = "postponed"
  /\ to_test # <<>> <=> p = "answer"
  /\ Len(to_test) <= 1

\* p holds the query or the answer to it, or nobody does and autotest does not wait
DebtAt(p) ==
  /\ HeldAt(p)
  /\ sock[Test] # <<>> <=> p = "socket"
  /\ test_pc = "waiting" <=> p # "nobody"

ClientMessages == { m \in Messages : m.cmd \in ClientCommands }

\* What is in the channels, and that only tests_done ends the loop
QueryInv ==
  /\ sock[Test] \in {<<>>, <<query>>} /\ buf[Test] = <<>>
  /\ test_pc = "waiting" => query.cmd \in TestCommands
  /\ ~loop => query.cmd = "tests_done" /\ (to_test # <<>> \/ test_pc = "done")
  /\ sock[Cmd] \in Seq(ClientMessages) /\ buf[Cmd] \in Seq(ClientMessages)
  /\ pc = "check" => call = NoCall

\* The inductive invariant
DebtInv == HandlerInv /\ QueryInv /\ \E p \in Places : DebtAt(p)

Slots == {"call", "requester", "screen", "postponed"}

\* The debt stays where it is, or goes from one slot to another or is paid.
Settled(p, q) == q = p \/ (p \in Slots /\ q \in Slots \cup {"answer"})
-----------------------------------------------------------------------------
(* The handlers                                                              *)

LEMMA NamesDistinct ==
  /\ Test # Cmd /\ Test # None /\ Cmd # None
  /\ NoCall.fd = None /\ NoCall.cmd = None
  /\ None \notin {"clear_serial_buffer", "set_tags_to_assert",
                  "set_assert_screen_timeout", "check_asserted_screen"}
BY DEF Test, Cmd, None, NoCall, BackendCalls

\* What a query of autotest finds when it is taken from the socket
Taken ==
  /\ HandlerTypeOK /\ HandlerInv /\ loop
  /\ call = NoCall
  /\ HeldAt("socket")

LEMMA DebtPaid ==
  ASSUME to_test = <<>>, NEW token, NEW ret, SendResponse(Test, token, ret),
         call'.fd # Test, backend_requester' # Test, ~tags', postponed_answer_fd' # Test
  PROVE  HeldAt("answer")'
<1>1. to_test' # <<>> /\ Len(to_test') = 1
  BY DEF SendResponse, Delivered
<1> QED
  BY <1>1 DEF HeldAt

LEMMA DebtRespond ==
  ASSUME Taken, NEW m, NEW ret, RespondOnly(Test, m, ret),
         UNCHANGED <<requesterVars, screenVars, call, loop, died>>
  PROVE  HandlerInv' /\ HeldAt("answer")' /\ loop'
<1>1. HandlerInv' /\ loop'
  BY DEF Taken, HandlerInv, RespondOnly, CallInv, SlotInv, PausedIffHeld, requesterVars,
         screenVars, pauseVars
<1>2. /\ SendResponse(Test, m.token, ret)
      /\ UNCHANGED <<call, backend_requester, tags, postponed_answer_fd>>
  BY DEF RespondOnly, requesterVars, screenVars, pauseVars
<1> QED
  BY <1>1, <1>2, DebtPaid DEF Taken, HeldAt

LEMMA DebtPause ==
  ASSUME Taken, NEW m, NEW reason, reason # NotPaused, PauseNow(Test, m, reason),
         UNCHANGED <<requesterVars, screenVars, call, loop, died>>
  PROVE  HandlerInv' /\ HeldAt("postponed")' /\ loop'
BY NamesDistinct
   DEF Taken, HandlerInv, PauseNow, HoldAnswer, CallInv, SlotInv, HeldAt,
       PausedIffHeld, requesterVars, screenVars

\* A command of autotest leaves the debt with exactly one of the slots, or it is
\* answered. tests_done ends the loop with its answer.
LEMMA DebtOfTest ==
  ASSUME Taken, NEW m \in Messages, m.cmd \in TestCommands, ProcessCommand(Test, m)
  PROVE  /\ HandlerInv'
         /\ \E p \in {"call", "requester", "postponed", "answer"} : HeldAt(p)'
         /\ ~loop' => m.cmd = "tests_done" /\ to_test' # <<>>
<1> USE MessageTyped, NamesDistinct DEF HandlerInv, Taken
<1>1. CASE BackendCommand(Test, m)
  <2>1. CASE PostponeBackendCommand(Test, m, reason_for_pause)
    BY <1>1, <2>1
       DEF BackendCommand, PostponeBackendCommand, HoldAnswer, CallInv, SlotInv,
           HeldAt, PausedIffHeld, requesterVars, screenVars
  <2>2. CASE ForwardToBackend(Test, m, reason_for_pause) /\ ContinueUnpaused(reason_for_pause)
    BY <1>1, <2>2
       DEF BackendCommand, ForwardToBackend, ContinueUnpaused, CallInv, SlotInv,
           HeldAt, PausedIffHeld, requesterVars, screenVars
  <2>3. ~BackendQueueMissing(reason_for_pause)
    BY DEF BackendQueueMissing, SlotInv, HeldAt
  <2> QED
    BY <1>1, <2>1, <2>2, <2>3 DEF BackendCommand
<1>2. CASE CheckScreen(Test, m)
  <2>1. CASE PostponeBackendCommand(Test, m, reason_for_pause)
    BY <1>2, <2>1
       DEF CheckScreen, PostponeBackendCommand, HoldAnswer, CallInv, SlotInv,
           HeldAt, PausedIffHeld, requesterVars, screenVars
  <2>2. CASE StartScreenCheck(Test, m, reason_for_pause) /\ ContinueUnpaused(reason_for_pause)
    BY <1>2, <2>2
       DEF CheckScreen, StartScreenCheck, CallBackend, ContinueUnpaused, CallInv,
           SlotInv, HeldAt, PausedIffHeld, requesterVars
  <2> QED
    BY <1>2, <2>1, <2>2 DEF CheckScreen
<1>3. CASE ReportTimeout(Test, m)
  <2>1. "screen_mismatch" # NotPaused
    BY DEF NotPaused
  <2> QED
    BY <1>3, <2>1, DebtRespond, DebtPause DEF ReportTimeout
<1>4. CASE PauseTestExecution(Test, m)
  <2>1. m.arg # NotPaused
    BY <1>4 DEF PauseTestExecution, ArgsOf, Settings, NotPaused
  <2> QED
    BY <1>4, <2>1, DebtRespond, DebtPause DEF PauseTestExecution
<1>5. CASE SetCurrentTest(Test, m)
  BY <1>5
     DEF SetCurrentTest, CallBackend, CallInv, SlotInv, HeldAt, PausedIffHeld,
         requesterVars, screenVars, pauseVars
<1>6. ~ResumeTestExecution(Test, m) /\ ~Setting(Test, m) /\ ~SetAssertScreenTimeout(Test, m)
  BY DEF TestCommands, PureQueries, Settings, ResumeTestExecution, Setting,
         SetAssertScreenTimeout
<1>7. CASE PureQuery(Test, m)
  BY <1>7, DebtRespond DEF PureQuery
<1>8. CASE TestsDone(Test, m)
  BY <1>8
     DEF TestsDone, ReleaseAnswer, HoldAnswer, SendResponse, Delivered, CallInv,
         SlotInv, HeldAt, PausedIffHeld
<1> QED
  BY <1>1, <1>2, <1>3, <1>4, <1>5, <1>6, <1>7, <1>8 DEF ProcessCommand

LEMMA DebtOfClient ==
  ASSUME HandlerTypeOK, HandlerInv, call = NoCall,
         NEW p \in Places, HeldAt(p), p = "postponed" => loop,
         NEW m \in Messages, m.cmd \in DeveloperCommands, ProcessCommand(Cmd, m)
  PROVE  HandlerInv' /\ loop' = loop /\ \E q \in Places : HeldAt(q)' /\ Settled(p, q)
<1> USE MessageTyped, NamesDistinct DEF HandlerInv
<1>1. ASSUME NEW ret, RespondOnly(Cmd, m, ret),
             UNCHANGED <<requesterVars, screenVars, call, loop, died>>
      PROVE  HandlerInv' /\ HeldAt(p)' /\ loop' = loop
  BY <1>1
     DEF RespondOnly, SendResponse, Delivered, CallInv, SlotInv, HeldAt,
         PausedIffHeld, requesterVars, screenVars, pauseVars
<1>0. HeldAt(p)' => \E q \in Places : HeldAt(q)' /\ Settled(p, q)
  BY Zenon DEF Settled
<1>2. ~BackendCommand(Cmd, m) /\ ~CheckScreen(Cmd, m) /\ ~ReportTimeout(Cmd, m)
      /\ ~SetCurrentTest(Cmd, m) /\ ~TestsDone(Cmd, m)
  BY DEF DeveloperCommands, PureQueries, Settings, BackendCommand, CheckScreen,
         ReportTimeout, SetCurrentTest, TestsDone
<1>3. CASE Setting(Cmd, m) \/ PureQuery(Cmd, m)
  BY <1>0, <1>1, <1>3 DEF Setting, PureQuery
<1>4. CASE PauseTestExecution(Cmd, m)
  <2>1. m.arg # NotPaused
    BY <1>4 DEF PauseTestExecution, ArgsOf, Settings, NotPaused
  <2>2. CASE PauseNow(Cmd, m, m.arg) /\ reason_for_pause = NotPaused
    <3>1. postponed_answer_fd # Test
      BY <2>2 DEF SlotInv, PausedIffHeld, HeldAt
    <3>2. HandlerInv' /\ HeldAt(p)' /\ loop' = loop
      BY <1>4, <2>1, <2>2, <3>1
         DEF PauseTestExecution, PauseNow, HoldAnswer, CallInv, SlotInv, HeldAt,
             PausedIffHeld, requesterVars, screenVars
    <3> QED
      BY <1>0, <3>2
  <2> QED
    BY <1>0, <1>1, <1>4, <2>2 DEF PauseTestExecution
<1>5. CASE SetAssertScreenTimeout(Cmd, m)
  <2>1. HandlerInv' /\ HeldAt(p)' /\ loop' = loop
    BY <1>5
       DEF SetAssertScreenTimeout, CallBackend, CallInv, SlotInv, HeldAt,
           PausedIffHeld, requesterVars, screenVars, pauseVars
  <2> QED
    BY <1>0, <2>1
<1>6. CASE ResumeTestExecution(Cmd, m)
  <2>1. CASE ResumeNothing(Cmd, m)
    <3>1. HandlerInv' /\ HeldAt(p)' /\ loop' = loop
      BY <2>1
         DEF ResumeNothing, SendResponse, Delivered, CallInv, SlotInv, HeldAt,
             PausedIffHeld, requesterVars, screenVars
    <3> QED
      BY <1>0, <3>1
  <2>2. CASE ResumeAnswer(Cmd, m)
    <3>1. HandlerInv' /\ loop' = loop
      BY <2>2
         DEF ResumeAnswer, ReleaseAnswer, HoldAnswer, CallInv, SlotInv,
             PausedIffHeld, requesterVars, screenVars
    <3>2. CASE postponed_answer_fd = Test
      <4>1. p = "postponed" /\ to_test = <<>>
        BY <3>2 DEF HeldAt
      <4>2. HeldAt("answer")'
        BY <2>2, <3>2, <4>1
           DEF ResumeAnswer, ReleaseAnswer, HoldAnswer, Delivered, HeldAt,
               requesterVars, screenVars
      <4> QED
        BY <3>1, <4>1, <4>2 DEF Settled, Slots, Places
    <3>3. CASE postponed_answer_fd # Test
      <4>1. HeldAt(p)'
        BY <2>2, <3>3
           DEF ResumeAnswer, ReleaseAnswer, HoldAnswer, Delivered, HeldAt,
               requesterVars, screenVars
      <4> QED
        BY <1>0, <3>1, <4>1
    <3> QED
      BY <3>2, <3>3
  <2>3. CASE ResumeCommand(Cmd, m)
    <3>1. /\ postponed_answer_fd = Test /\ p = "postponed" /\ loop
          /\ postponed_command.cmd \in {"backend", "check_screen"}
          /\ backend_requester = None
          /\ to_test' = to_test
      BY <2>3 DEF ResumeCommand, SlotInv, HeldAt, SendResponse, Delivered
    <3>2. CASE PostponeBackendCommand(Test, postponed_command, NotPaused)
      <4>1. HandlerInv' /\ HeldAt(p)' /\ loop' = loop
        BY <3>1, <3>2
           DEF PostponeBackendCommand, HoldAnswer, CallInv, SlotInv, HeldAt,
               PausedIffHeld, requesterVars, screenVars
      <4> QED
        BY <1>0, <4>1
    <3>3. CASE /\ ForwardToBackend(Test, postponed_command, NotPaused)
               /\ reason_for_pause' = NotPaused /\ ReleaseAnswer
      <4>1. HandlerInv' /\ HeldAt("requester")' /\ loop' = loop
        BY <3>1, <3>3
           DEF ForwardToBackend, ReleaseAnswer, HoldAnswer, CallInv, SlotInv, HeldAt,
               PausedIffHeld, requesterVars, screenVars
      <4> QED
        BY <3>1, <4>1 DEF Settled, Slots, Places
    <3>4. CASE /\ StartScreenCheck(Test, postponed_command, NotPaused)
               /\ reason_for_pause' = NotPaused /\ ReleaseAnswer
      <4>1. HandlerInv' /\ HeldAt("call")' /\ loop' = loop
        BY <3>1, <3>4
           DEF StartScreenCheck, CallBackend, ReleaseAnswer, HoldAnswer, CallInv,
               SlotInv, HeldAt, PausedIffHeld, requesterVars
      <4> QED
        BY <3>1, <4>1 DEF Settled, Slots, Places
    <3>5. ~BackendQueueMissing(NotPaused)
      BY <3>1 DEF BackendQueueMissing
    <3> QED
      BY <2>3, <3>1, <3>2, <3>3, <3>4, <3>5 DEF ResumeCommand
  <2> QED
    BY <1>6, <2>1, <2>2, <2>3 DEF ResumeTestExecution
<1> QED
  BY <1>2, <1>3, <1>4, <1>5, <1>6 DEF ProcessCommand

LEMMA DebtOfReply ==
  ASSUME HandlerTypeOK, HandlerInv, NEW p \in Places, HeldAt(p), SendToBackendRequester
  PROVE  HandlerInv' /\ loop' = loop /\ \E q \in Places : HeldAt(q)' /\ Settled(p, q)
<1> USE NamesDistinct DEF HandlerInv
<1>1. HandlerInv' /\ loop' = loop
  BY DEF SendToBackendRequester, CallInv, SlotInv, PausedIffHeld, pauseVars, screenVars
<1>2. CASE backend_requester = Test
  <2>1. p = "requester" /\ to_test = <<>>
    BY <1>2 DEF HeldAt
  <2>a. SendResponse(Test, backend_requester_token, "rsp")
    BY <1>2 DEF SendToBackendRequester
  <2>b. /\ UNCHANGED <<call, tags, postponed_answer_fd>>
        /\ backend_requester' = None
    BY DEF SendToBackendRequester, pauseVars, screenVars
  <2>2. HeldAt("answer")'
    BY <2>1, <2>a, <2>b, DebtPaid DEF HeldAt
  <2> QED
    BY <1>1, <2>1, <2>2 DEF Settled, Slots, Places
<1>3. CASE backend_requester # Test
  <2>1. HeldAt(p)'
    BY <1>3 DEF SendToBackendRequester, SlotInv, HeldAt, pauseVars, screenVars
  <2> QED
    BY <1>1, <2>1, Zenon DEF Settled
<1> QED
  BY <1>2, <1>3

LEMMA DebtOfCheck ==
  ASSUME HandlerTypeOK, HandlerInv, NEW p \in Places, HeldAt(p), call = NoCall,
         CheckAssertedScreen
  PROVE  HandlerInv' /\ loop' = loop /\ HeldAt(p)'
BY NamesDistinct
   DEF HandlerInv, CheckAssertedScreen, CallBackend, CallInv, SlotInv, HeldAt,
       PausedIffHeld, requesterVars, pauseVars, screenVars

LEMMA DebtOfCall ==
  ASSUME HandlerTypeOK, HandlerInv, call # NoCall, NEW verdict \in Verdicts,
         NEW p \in Places, HeldAt(p), p = "call" => loop, FinishCall(verdict)
  PROVE  HandlerInv' /\ loop' = loop /\ \E q \in Places : HeldAt(q)' /\ Settled(p, q)
<1> USE NamesDistinct DEF HandlerInv
<1>1. call.cmd \in BackendCalls
  BY DEF HandlerTypeOK, OutputTypeOK, Calls
<1>2. HeldAt(p)' => \E q \in Places : HeldAt(q)' /\ Settled(p, q)
  BY Zenon DEF Settled
<1>3. loop' = loop /\ call' = NoCall /\ died' = died
  BY DEF FinishCall
<1>4. CASE call.cmd = "clear_serial_buffer"
  <2>1. p = "call" /\ call.fd = Test /\ loop /\ EnterTest(Test, call.msg) /\ to_test = <<>>
    BY <1>4 DEF FinishCall, CallInv, HeldAt
  <2>2. /\ UNCHANGED <<backend_requester, tags>> /\ call'.fd # Test
        /\ \/ /\ reason_for_pause' = NotPaused /\ reason_for_pause = NotPaused
              /\ UNCHANGED <<postponed_answer_fd, postponed_command>>
              /\ SendResponse(Test, call.msg.token, "ok")
           \/ /\ reason_for_pause' # NotPaused
              /\ postponed_answer_fd' = Test /\ postponed_command' = NoCommand
              /\ UNCHANGED to_test
    BY <1>3, <2>1
       DEF FinishCall, EnterTest, HoldAnswer, requesterVars, screenVars, NotPaused
  <2>3. HandlerInv'
    BY <1>3, <2>1, <2>2 DEF CallInv, SlotInv, PausedIffHeld
  <2>4. HeldAt("answer")' \/ HeldAt("postponed")'
    <3>1. CASE SendResponse(Test, call.msg.token, "ok") /\ UNCHANGED postponed_answer_fd
      BY <2>1, <2>2, <3>1, DebtPaid DEF HeldAt
    <3>2. CASE postponed_answer_fd' = Test /\ UNCHANGED to_test
      BY <2>1, <2>2, <3>2 DEF HeldAt
    <3> QED
      BY <2>2, <3>1, <3>2
  <2> QED
    BY <1>3, <2>1, <2>3, <2>4 DEF Settled, Slots, Places
<1>5. CASE call.cmd = "set_tags_to_assert"
  <2>1. p = "call"
    BY <1>5 DEF CallInv, HeldAt
  <2>2. HandlerInv'
    BY <1>3, <1>5 DEF FinishCall, CallInv, SlotInv, PausedIffHeld, requesterVars, pauseVars
  <2>3. HeldAt("screen")'
    BY <1>3, <1>5, <2>1 DEF FinishCall, HeldAt, requesterVars, pauseVars
  <2> QED
    BY <1>3, <2>1, <2>2, <2>3 DEF Settled, Slots, Places
<1>6. CASE call.cmd = "set_assert_screen_timeout"
  <2>1. HandlerInv'
    BY <1>3, <1>6
       DEF FinishCall, RespondOnly, CallInv, SlotInv, PausedIffHeld, requesterVars,
           pauseVars, screenVars
  <2>2. HeldAt(p)'
    BY <1>3, <1>6
       DEF FinishCall, RespondOnly, SendResponse, Delivered, CallInv, HeldAt,
           requesterVars, pauseVars, screenVars
  <2> QED
    BY <1>2, <1>3, <2>1, <2>2
<1>7. CASE call.cmd = "check_asserted_screen"
  <2>1. p = "screen" /\ ScreenVerdict(verdict) /\ to_test = <<>>
    BY <1>7 DEF FinishCall, CallInv, HeldAt
  <2>2. HandlerInv'
    BY <1>3, <1>7 DEF FinishCall, CallInv, SlotInv, PausedIffHeld, requesterVars, pauseVars
  <2>3. /\ UNCHANGED <<backend_requester, postponed_answer_fd>> /\ call'.fd # Test
        /\ \/ UNCHANGED <<tags, to_test>>
           \/ ~tags' /\ SendResponse(Test, active_check_screen_token, verdict)
    BY <1>3, <1>7, <2>1 DEF FinishCall, ScreenVerdict, requesterVars, pauseVars, screenVars
  <2>4. CASE UNCHANGED <<tags, to_test>>
    BY <1>3, <2>1, <2>2, <2>3, <2>4 DEF HeldAt, Settled, Slots, Places
  <2>5. CASE ~tags' /\ SendResponse(Test, active_check_screen_token, verdict)
    <3>1. HeldAt("answer")'
      BY <2>1, <2>3, <2>5, DebtPaid DEF HeldAt
    <3> QED
      BY <1>3, <2>1, <2>2, <3>1 DEF Settled, Slots, Places
  <2> QED
    BY <2>3, <2>4, <2>5
<1> QED
  BY <1>1, <1>4, <1>5, <1>6, <1>7 DEF BackendCalls
-----------------------------------------------------------------------------
(* The invariant                                                             *)

LEMMA DebtInit == Init => DebtInv
<1> SUFFICES ASSUME Init PROVE DebtInv
  OBVIOUS
<1> USE NamesDistinct DEF Init, HandlerInit
<1>1. HandlerInv
  BY DEF HandlerInv, CallInv, SlotInv, PausedIffHeld
<1>2. /\ sock[Test] = <<>> /\ buf[Test] = <<>>
      /\ sock[Cmd] = <<>> /\ buf[Cmd] = <<>>
  BY FdsDistinct
<1>3. <<>> \in Seq(ClientMessages)
  OBVIOUS
<1>4. QueryInv
  BY <1>2, <1>3 DEF QueryInv
<1>5. DebtAt("nobody")
  BY <1>2 DEF DebtAt, HeldAt
<1> QED
  BY <1>1, <1>4, <1>5 DEF DebtInv, Places

\* A step that settles the debt and leaves the channel of the test alone
LEMMA DebtMoves ==
  ASSUME DebtInv, NEW p \in Places, DebtAt(p), NEW q \in Places,
         HandlerInv', HeldAt(q)', Settled(p, q), loop' = loop,
         UNCHANGED <<test_pc, query>>,
         sock'[Test] = sock[Test], buf'[Test] = buf[Test],
         sock'[Cmd] \in Seq(ClientMessages), buf'[Cmd] \in Seq(ClientMessages),
         pc' = "check" => call' = NoCall
  PROVE  DebtInv'
<1>1. q = p \/ (p # "nobody" /\ q # "nobody" /\ p # "socket" /\ q # "socket"
                /\ p # "answer")
  BY DEF Settled, Slots
<1>2. DebtAt(q)'
  BY <1>1 DEF DebtAt
<1>3. ~loop => query.cmd = "tests_done" /\ (to_test' # <<>> \/ test_pc = "done")
  BY <1>1 DEF DebtInv, QueryInv, DebtAt, HeldAt
<1>4. QueryInv'
  BY <1>3 DEF DebtInv, QueryInv
<1> QED
  BY <1>2, <1>4 DEF DebtInv

\* Nothing of the handlers changes.
LEMMA DebtStays ==
  ASSUME DebtInv, UNCHANGED <<handlerVars, test_pc, query>>,
         sock'[Test] = sock[Test], buf'[Test] = buf[Test],
         sock'[Cmd] \in Seq(ClientMessages), buf'[Cmd] \in Seq(ClientMessages),
         pc' = "check" => call = NoCall
  PROVE  DebtInv'
<1>1. PICK p \in Places : DebtAt(p)
  BY DEF DebtInv
<1>2. HandlerInv'
  BY DEF DebtInv, HandlerInv, CallInv, SlotInv, PausedIffHeld, handlerVars, pauseVars,
         requesterVars, screenVars
<1>3. HeldAt(p)' /\ UNCHANGED <<call, loop>>
  BY <1>1 DEF DebtAt, HeldAt, handlerVars, pauseVars, requesterVars, screenVars
<1>4. Settled(p, p)
  BY DEF Settled
<1> QED
  BY <1>1, <1>2, <1>3, <1>4, DebtMoves

\* While the loop has ended, nobody but the answer is on its way.
LEMMA DebtWhileRunning ==
  ASSUME DebtInv, NEW p \in Places, DebtAt(p), p \notin {"answer", "nobody"}
  PROVE  loop
BY DEF DebtInv, QueryInv, DebtAt, HeldAt

LEMMA DebtAsk ==
  ASSUME TypeOK, DebtInv, NEW cmd \in TestCommands, NEW arg, Ask(cmd, arg)
  PROVE  DebtInv'
<1> DEFINE m == [cmd |-> cmd, token |-> <<Test, queries + 1>>, arg |-> arg]
<1>1. PICK p \in Places : DebtAt(p)
  BY DEF DebtInv
<1>2. p = "nobody" /\ sock[Test] = <<>>
  BY <1>1 DEF DebtAt, Ask
<1>3. HandlerInv'
  BY DEF DebtInv, HandlerInv, CallInv, SlotInv, PausedIffHeld, handlerVars, pauseVars,
         requesterVars, screenVars, Ask
<1>4. HeldAt("socket")' /\ UNCHANGED <<call, loop, to_test, buf, pc>>
  BY <1>1, <1>2
     DEF DebtAt, HeldAt, Ask, handlerVars, pauseVars, requesterVars, screenVars, loopVars
<1>5. sock'[Test] = <<m>> /\ sock'[Cmd] = sock[Cmd]
  BY <1>2, FdsDistinct DEF TypeOK, Channels, Ask, Send
<1>6. query' = m /\ test_pc' = "waiting" /\ test_pc = "ready"
  BY DEF Ask
<1>7. loop
  BY <1>1, <1>2, <1>6 DEF DebtInv, QueryInv, DebtAt, HeldAt
<1>8. QueryInv'
  BY <1>4, <1>5, <1>6, <1>7 DEF DebtInv, QueryInv
<1>9. DebtAt("socket")'
  BY <1>4, <1>5, <1>6 DEF DebtAt
<1> QED
  BY <1>3, <1>8, <1>9 DEF DebtInv, Places

LEMMA DebtReceive ==
  ASSUME TypeOK, DebtInv, ReceiveAnswer
  PROVE  DebtInv'
<1>1. PICK p \in Places : DebtAt(p)
  BY DEF DebtInv
<1>2. p = "answer" /\ sock[Test] = <<>>
  BY <1>1 DEF ReceiveAnswer, DebtAt, HeldAt
<1>3. to_test' = <<>>
  BY <1>1 DEF ReceiveAnswer, DebtAt, HeldAt, TypeOK, HandlerTypeOK, OutputTypeOK
<1>4. HandlerInv'
  BY DEF ReceiveAnswer, DebtInv, HandlerInv, CallInv, SlotInv, PausedIffHeld, pauseVars,
         requesterVars, screenVars
<1>5. HeldAt("nobody")'
  BY <1>1, <1>2, <1>3
     DEF ReceiveAnswer, DebtAt, HeldAt, pauseVars, requesterVars, screenVars
<1>6. /\ UNCHANGED <<sock, buf, query, loop, call, pc>>
      /\ test_pc' = IF query.cmd = "tests_done" THEN "done" ELSE "ready"
  BY DEF ReceiveAnswer, loopVars
<1>7. QueryInv'
  BY <1>3, <1>6 DEF DebtInv, QueryInv
<1>8. DebtAt("nobody")'
  BY <1>2, <1>5, <1>6 DEF DebtAt
<1> QED
  BY <1>4, <1>7, <1>8 DEF DebtInv, Places

LEMMA DebtAutotestStep ==
  ASSUME TypeOK, DebtInv, AutotestStep
  PROVE  DebtInv'
<1>1. ASSUME NEW cmd \in {"backend", "check_screen", "set_current_test",
                          "pause_test_execution", "status",
                          "is_configured_to_pause_on_timeout", "report_timeout",
                          "tests_done"}
      PROVE  cmd \in TestCommands
  BY DEF TestCommands, PureQueries
<1>2. ASSUME NEW cmd \in TestCommands, NEW arg, Ask(cmd, arg)
      PROVE  DebtInv'
  BY <1>2, DebtAsk
<1>3. CASE AskQuery
  BY <1>1, <1>2, <1>3 DEF AskQuery
<1>4. CASE AskAboutTimeout
  BY <1>1, <1>2, <1>4 DEF AskAboutTimeout
<1>5. CASE AskReportTimeout
  BY <1>1, <1>2, <1>5 DEF AskReportTimeout
<1>6. CASE AskTestsDone
  BY <1>1, <1>2, <1>6 DEF AskTestsDone
<1> QED
  BY <1>3, <1>4, <1>5, <1>6, DebtReceive DEF AutotestStep

LEMMA DebtClientSends ==
  ASSUME TypeOK, DebtInv, ClientSends
  PROVE  DebtInv'
<1>1. PICK cmd \in ClientCommands :
        \E arg \in ClientArgs(cmd) :
          Send(Cmd, [cmd |-> cmd, token |-> <<Cmd, sent + 1>>, arg |-> arg])
  BY DEF ClientSends
<1>2. PICK arg \in ClientArgs(cmd) :
        Send(Cmd, [cmd |-> cmd, token |-> <<Cmd, sent + 1>>, arg |-> arg])
  BY <1>1
<1> DEFINE m == [cmd |-> cmd, token |-> <<Cmd, sent + 1>>, arg |-> arg]
<1>3. arg \in ArgsOf(cmd) /\ arg \in Args
  BY DEF ClientArgs, ArgsOf, Settings, Args
<1>4. m \in ClientMessages
  BY <1>3, CommandsAssumption DEF ClientMessages, Messages, TypeOK, Tokens
<1>5. sock'[Test] = sock[Test] /\ sock'[Cmd] = Append(sock[Cmd], m)
  BY <1>2, FdsDistinct DEF Send, TypeOK, Channels
<1>6. sock'[Cmd] \in Seq(ClientMessages)
  BY <1>4, <1>5 DEF DebtInv, QueryInv
<1>7. UNCHANGED <<handlerVars, test_pc, query, buf, pc>>
  BY DEF ClientSends, testVars, loopVars
<1> QED
  BY <1>5, <1>6, <1>7, DebtStays DEF DebtInv, QueryInv

LEMMA DebtBackendStep ==
  ASSUME TypeOK, DebtInv, BackendStep
  PROVE  DebtInv'
<1>1. PICK p \in Places : DebtAt(p)
  BY DEF DebtInv
<1>2. /\ UNCHANGED <<configVars, pauseVars, requesterVars, screenVars, viewVars, call,
                     to_test, loop, died, test_pc, query, buf, pc>>
      /\ sock'[Test] = sock[Test] /\ sock'[Cmd] = sock[Cmd]
  BY FdsDistinct
     DEF BackendStep, BackendAnswersCall, BackendTakes, BackendReplies, Send, testVars,
         loopVars, handlerVars, TypeOK, Channels
<1>3. HandlerInv'
  BY <1>2 DEF DebtInv, HandlerInv, CallInv, SlotInv, PausedIffHeld, pauseVars,
              requesterVars, screenVars
<1>4. HeldAt(p)' /\ Settled(p, p)
  BY <1>1, <1>2 DEF DebtAt, HeldAt, pauseVars, requesterVars, screenVars, Settled
<1> QED
  BY <1>1, <1>2, <1>3, <1>4, DebtMoves DEF DebtInv, QueryInv

LEMMA DebtServeTest ==
  ASSUME TypeOK, DebtInv, ServeCommand(Test)
  PROVE  DebtInv'
<1>1. PICK p \in Places : DebtAt(p)
  BY DEF DebtInv
<1>2. ReadJson(Test) /\ Readable(Test) # <<>> /\ buf[Test] = <<>>
  BY DEF ServeCommand, ReadJson, DebtInv, QueryInv
<1>3. p = "socket" /\ sock[Test] = <<query>> /\ test_pc = "waiting"
  BY <1>1, <1>2 DEF Readable, DebtInv, QueryInv, DebtAt
<1>4. query \in Messages /\ query.cmd \in TestCommands
  <2>1. Head(sock[Test]) = query /\ sock[Test] # <<>>
    BY <1>3
  <2>2. query \in Messages
    BY <2>1, ChannelHead, FdsDistinct DEF TypeOK
  <2> QED
    BY <1>3, <2>2 DEF DebtInv, QueryInv
<1>5. loop
  BY <1>1, <1>3, DebtWhileRunning
<1>6. Taken
  BY <1>1, <1>3, <1>5 DEF Taken, ServeCommand, ServedNext, Idle, TypeOK, DebtInv, DebtAt
<1>7. ProcessCommand(Test, query)
  BY <1>2, <1>3 DEF ServeCommand, Readable
<1>8. /\ HandlerInv'
      /\ \E q \in {"call", "requester", "postponed", "answer"} : HeldAt(q)'
      /\ ~loop' => query.cmd = "tests_done" /\ to_test' # <<>>
  BY <1>4, <1>6, <1>7, DebtOfTest
<1>9. PICK q \in {"call", "requester", "postponed", "answer"} : HeldAt(q)'
  BY <1>8
<1>10. /\ sock'[Test] = <<>> /\ sock'[Cmd] = sock[Cmd]
       /\ buf'[Test] = <<>> /\ buf'[Cmd] = buf[Cmd]
  BY <1>2, <1>3, FdsDistinct DEF ReadJson, Readable, TypeOK, Channels
<1>11. UNCHANGED <<test_pc, query, pc>> /\ pc = "serve"
  BY DEF ServeCommand, ServedNext, testVars
<1>12. QueryInv'
  BY <1>8, <1>10, <1>11 DEF DebtInv, QueryInv
<1>13. DebtAt(q)'
  BY <1>3, <1>9, <1>10, <1>11 DEF DebtAt
<1> QED
  BY <1>8, <1>12, <1>13 DEF DebtInv, Places

LEMMA DebtServeClient ==
  ASSUME ClientCommands \subseteq DeveloperCommands, TypeOK, DebtInv, ServeCommand(Cmd)
  PROVE  DebtInv'
<1>1. PICK p \in Places : DebtAt(p)
  BY DEF DebtInv
<1> DEFINE m == Head(Readable(Cmd))
<1>2. Readable(Cmd) \in Seq(ClientMessages) /\ Readable(Cmd) # <<>>
  BY DEF ServeCommand, ReadJson, Readable, DebtInv, QueryInv
<1>3. m \in ClientMessages /\ Tail(Readable(Cmd)) \in Seq(ClientMessages)
  BY <1>2, HeadTyped
<1>4. m \in Messages /\ m.cmd \in DeveloperCommands
  BY <1>3 DEF ClientMessages
<1>5. p = "postponed" => loop
  BY <1>1, DebtWhileRunning
<1>6. HandlerTypeOK /\ HandlerInv /\ call = NoCall /\ HeldAt(p) /\ ProcessCommand(Cmd, m)
  BY <1>1 DEF ServeCommand, ServedNext, Idle, TypeOK, DebtInv, DebtAt
<1>7. HandlerInv' /\ loop' = loop /\ \E q \in Places : HeldAt(q)' /\ Settled(p, q)
  BY <1>4, <1>5, <1>6, DebtOfClient
<1>8. PICK q \in Places : HeldAt(q)' /\ Settled(p, q)
  BY <1>7
<1>9. /\ sock'[Test] = sock[Test] /\ buf'[Test] = buf[Test]
      /\ sock'[Cmd] \in {<<>>, sock[Cmd]} /\ buf'[Cmd] = Tail(Readable(Cmd))
  BY FdsDistinct DEF ServeCommand, ReadJson, TypeOK, Channels
<1>10. sock'[Cmd] \in Seq(ClientMessages)
  <2>1. <<>> \in Seq(ClientMessages)
    OBVIOUS
  <2> QED
    BY <1>9, <2>1 DEF DebtInv, QueryInv
<1>11. UNCHANGED <<test_pc, query, pc>> /\ pc = "serve"
  BY DEF ServeCommand, ServedNext, testVars
<1>12. buf'[Cmd] \in Seq(ClientMessages)
  BY <1>3, <1>9
<1>13. pc' # "check"
  BY <1>11
<1> QED
  BY <1>1, <1>7, <1>8, <1>9, <1>10, <1>11, <1>12, <1>13, DebtMoves

\* The channels of autotest and of the clients while the backend's are read
LEMMA ChannelsApart ==
  ASSUME TypeOK,
         \/ UNCHANGED <<sock, buf>>
         \/ ReadJson(BackendOut)
         \/ UNCHANGED sock /\ buf' = [buf EXCEPT ![BackendOut] = Tail(@)]
         \/ /\ buf' = [buf EXCEPT ![BackendOut] = sock[BackendOut]]
            /\ sock' = [sock EXCEPT ![BackendOut] = <<>>]
  PROVE  /\ sock'[Test] = sock[Test] /\ buf'[Test] = buf[Test]
         /\ sock'[Cmd] = sock[Cmd] /\ buf'[Cmd] = buf[Cmd]
BY FdsDistinct DEF ReadJson, TypeOK, Channels

LEMMA OtherChannels ==
  ASSUME TypeOK, DebtInv,
         \/ UNCHANGED <<sock, buf>>
         \/ ReadJson(BackendOut)
         \/ UNCHANGED sock /\ buf' = [buf EXCEPT ![BackendOut] = Tail(@)]
         \/ /\ buf' = [buf EXCEPT ![BackendOut] = sock[BackendOut]]
            /\ sock' = [sock EXCEPT ![BackendOut] = <<>>]
  PROVE  /\ sock'[Test] = sock[Test] /\ buf'[Test] = buf[Test]
         /\ sock'[Cmd] \in Seq(ClientMessages) /\ buf'[Cmd] \in Seq(ClientMessages)
BY ChannelsApart DEF DebtInv, QueryInv

LEMMA DebtReply ==
  ASSUME TypeOK, DebtInv, ServeBackend \/ ServeInterleaved
  PROVE  DebtInv'
<1>1. PICK p \in Places : DebtAt(p)
  BY DEF DebtInv
<1>2. HandlerInv' /\ loop' = loop /\ \E q \in Places : HeldAt(q)' /\ Settled(p, q)
  BY <1>1, DebtOfReply DEF ServeBackend, ServeInterleaved, TypeOK, DebtInv, DebtAt
<1>3. PICK q \in Places : HeldAt(q)' /\ Settled(p, q)
  BY <1>2
<1>4. ReadJson(BackendOut) \/ UNCHANGED <<sock, buf>>
  BY DEF ServeBackend, ServeInterleaved
<1>5. UNCHANGED <<test_pc, query>> /\ pc' # "check"
  BY DEF ServeBackend, ServeInterleaved, ServedNext, testVars
<1> QED
  BY <1>1, <1>2, <1>3, <1>4, <1>5, OtherChannels, DebtMoves

LEMMA DebtCheck ==
  ASSUME TypeOK, DebtInv, CheckNow
  PROVE  DebtInv'
<1>1. PICK p \in Places : DebtAt(p)
  BY DEF DebtInv
<1>2. HandlerInv' /\ loop' = loop /\ HeldAt(p)'
  BY <1>1, DebtOfCheck DEF CheckNow, TypeOK, DebtInv, QueryInv, DebtAt
<1>3. UNCHANGED <<sock, buf, test_pc, query>> /\ pc' # "check" /\ Settled(p, p)
  BY DEF CheckNow, testVars, Settled
<1> QED
  BY <1>1, <1>2, <1>3, OtherChannels, DebtMoves

LEMMA DebtReturn ==
  ASSUME TypeOK, DebtInv, CallReturns
  PROVE  DebtInv'
<1>1. PICK p \in Places : DebtAt(p)
  BY DEF DebtInv
<1> DEFINE verdict == Head(buf[BackendOut]).verdict
<1>2. verdict \in Verdicts
  BY ChannelHead, FdsDistinct DEF CallReturns, TypeOK, Replies
<1>3. p = "call" => loop
  BY <1>1, DebtWhileRunning
<1>4. HandlerTypeOK /\ HandlerInv /\ call # NoCall /\ HeldAt(p) /\ FinishCall(verdict)
  BY <1>1 DEF CallReturns, Idle, TypeOK, DebtInv, DebtAt
<1>5. HandlerInv' /\ loop' = loop /\ \E q \in Places : HeldAt(q)' /\ Settled(p, q)
  BY <1>2, <1>3, <1>4, DebtOfCall
<1>6. PICK q \in Places : HeldAt(q)' /\ Settled(p, q)
  BY <1>5
<1>7. UNCHANGED <<sock, test_pc, query>> /\ buf' = [buf EXCEPT ![BackendOut] = Tail(@)]
  BY DEF CallReturns, testVars
<1>8. call' = NoCall
  BY DEF CallReturns, FinishCall
<1> QED
  BY <1>1, <1>5, <1>6, <1>7, <1>8, OtherChannels, DebtMoves

LEMMA DebtLoopStep ==
  ASSUME ClientCommands \subseteq DeveloperCommands, TypeOK, DebtInv, LoopStep
  PROVE  DebtInv'
<1>1. CASE Select \/ CheckLater \/ EndOfServing \/ LoopEnds
  <2>1. /\ UNCHANGED <<handlerVars, sock, buf, test_pc, query>>
        /\ pc' = "check" => call = NoCall
    BY <1>1 DEF Select, CheckLater, EndOfServing, LoopEnds, Idle, testVars
  <2> QED
    BY <2>1, OtherChannels, DebtStays
<1>2. CASE CallSysread
  <2>1. /\ UNCHANGED <<handlerVars, test_pc, query, pc>>
        /\ buf' = [buf EXCEPT ![BackendOut] = sock[BackendOut]]
        /\ sock' = [sock EXCEPT ![BackendOut] = <<>>]
    BY <1>2 DEF CallSysread, loopVars, testVars
  <2> QED
    BY <2>1, OtherChannels, DebtStays DEF DebtInv, QueryInv
<1>3. CASE CallInterleaved
  <2>1. /\ UNCHANGED <<handlerVars, sock, test_pc, query, pc>>
        /\ buf' = [buf EXCEPT ![BackendOut] = Tail(@)]
    BY <1>3 DEF CallInterleaved, testVars
  <2> QED
    BY <2>1, OtherChannels, DebtStays DEF DebtInv, QueryInv
<1> QED
  BY <1>1, <1>2, <1>3, DebtServeTest, DebtServeClient, DebtReply, DebtCheck, DebtReturn
     DEF LoopStep

LEMMA DebtNext ==
  ASSUME ClientCommands \subseteq DeveloperCommands, TypeOK, DebtInv, [Next]_vars
  PROVE  DebtInv'
<1>1. CASE UNCHANGED vars
  <2>1. UNCHANGED <<handlerVars, sock, buf, test_pc, query, pc>>
    BY <1>1 DEF vars, loopVars, testVars
  <2> QED
    BY <2>1, OtherChannels, DebtStays DEF DebtInv, QueryInv
<1> QED
  BY <1>1, DebtAutotestStep, DebtClientSends, DebtBackendStep, DebtLoopStep DEF Next

LEMMA DebtUse ==
  ASSUME DebtInv
  PROVE  OneDebt /\ NoBackendQueueNeeded /\ PausedIffHeld
<1>1. PICK p \in Places : DebtAt(p)
  BY DEF DebtInv
<1>2. OnlyAt(p)
  BY <1>1 DEF DebtAt, HeldAt, OnlyAt
<1>3. Len(sock[Test]) <= 1
  <2>1. CASE sock[Test] = <<>>
    BY <2>1
  <2>2. CASE sock[Test] = <<query>>
    BY <2>2
  <2> QED
    BY <2>1, <2>2 DEF DebtInv, QueryInv
<1>4. OneDebt
  BY <1>1, <1>2, <1>3 DEF OneDebt, DebtAt, HeldAt, DebtInv, QueryInv
<1> QED
  BY <1>4 DEF DebtInv, HandlerInv, SlotInv, NoBackendQueueNeeded
-----------------------------------------------------------------------------
\* With clients that send the commands of the developer mode only, however many
\* and whenever, autotest is owed exactly one answer while it waits and none
\* otherwise (the slots of CommandHandler.pm).
THEOREM OneDebtHolds ==
  ASSUME ClientCommands \subseteq DeveloperCommands
  PROVE  Spec => []OneDebt
<1>1. TypeOK /\ DebtInv /\ [Next]_vars => DebtInv'
  BY DebtNext
<1>2. DebtInv => OneDebt
  BY DebtUse
<1> QED
  BY <1>1, <1>2, DebtInit, TypeCorrect, PTL DEF Spec

\* With such clients the handler of backend commands never finds its one slot
\* taken ('we need to implement a backend queue', CommandHandler.pm:162).
THEOREM OneSlotIsEnough ==
  ASSUME ClientCommands \subseteq DeveloperCommands
  PROVE  Spec => []NoBackendQueueNeeded
<1>1. TypeOK /\ DebtInv /\ [Next]_vars => DebtInv'
  BY DebtNext
<1>2. DebtInv => NoBackendQueueNeeded
  BY DebtUse
<1> QED
  BY <1>1, <1>2, DebtInit, TypeCorrect, PTL DEF Spec

-----------------------------------------------------------------------------
(* Refinement of QuerySession                                                *)

\* What autotest's waiting looks like from outside
AtWork == backend_requester = Test \/ tags \/ call.cmd = "set_tags_to_assert"

Answered == to_test # <<>>
Held == to_test = <<>> /\ postponed_answer_fd = Test
Started == to_test = <<>> /\ postponed_answer_fd # Test /\ AtWork
Pending == to_test = <<>> /\ postponed_answer_fd # Test /\ ~AtWork

Paused == reason_for_pause # NotPaused

LEMMA SessionIs ==
  /\ test_pc = "done" => Session = "over"
  /\ test_pc = "ready" => Session = "idle"
  /\ test_pc = "waiting" =>
       /\ Answered => Session = "answered"
       /\ Held => Session = "held"
       /\ Started => Session = "working"
       /\ Pending => Session = "asked"
BY DEF Session, Answered, Held, Started, Pending, AtWork

LEMMA SessionBecomes ==
  /\ test_pc' = "done" => Session' = "over"
  /\ test_pc' = "ready" => Session' = "idle"
  /\ test_pc' = "waiting" =>
       /\ Answered' => Session' = "answered"
       /\ Held' => Session' = "held"
       /\ Started' => Session' = "working"
       /\ Pending' => Session' = "asked"
BY DEF Session, Answered, Held, Started, Pending, AtWork

\* What the handlers do to the session of a query that waits
SessionMoves ==
  \/ Pending /\ Started' /\ ~Paused'
  \/ Held /\ Started' /\ ~Paused'
  \/ (Pending \/ Held) /\ Held' /\ Paused'
  \/ (Pending \/ Started) /\ Answered' /\ Paused' = Paused
  \/ Held /\ Answered' /\ Paused /\ ~Paused'
  \/ Pending /\ Pending'
  \/ Started /\ Started'
  \/ Answered /\ Answered'
  \/ Held /\ Held' /\ Paused' = Paused

\* A step in which autotest neither asks nor receives is a step of QuerySession.
LEMMA SessionStep ==
  ASSUME test_pc' = test_pc, test_pc \in {"ready", "waiting", "done"},
         test_pc = "waiting" => SessionMoves
  PROVE  [QS!Next]_(QS!vars)
<1> USE SessionIs, SessionBecomes
<1>1. CASE test_pc # "waiting"
  <2>1. Session' = Session /\ Session # "held"
    BY <1>1
  <2> QED
    BY <2>1 DEF QS!vars, QS!Next, QS!PauseOrResume
<1>2. CASE test_pc = "waiting"
  <2>1. CASE (Pending \/ Held) /\ Started' /\ ~Paused'
    BY <1>2, <2>1 DEF QS!vars, QS!Next, QS!Start, Paused
  <2>2. CASE (Pending \/ Held) /\ Held' /\ Paused'
    BY <1>2, <2>2 DEF QS!vars, QS!Next, QS!Hold, Paused
  <2>3. CASE (Pending \/ Started) /\ Answered' /\ Paused' = Paused
    BY <1>2, <2>3 DEF QS!vars, QS!Next, QS!Answer, Paused
  <2>4. CASE Held /\ Answered' /\ Paused /\ ~Paused'
    BY <1>2, <2>4 DEF QS!vars, QS!Next, QS!Answer, Paused
  <2>5. CASE \/ Pending /\ Pending'
             \/ Started /\ Started'
             \/ Answered /\ Answered'
    BY <1>2, <2>5 DEF QS!vars, QS!Next, QS!PauseOrResume
  <2>6. CASE Held /\ Held' /\ Paused' = Paused
    BY <1>2, <2>6 DEF QS!vars, Paused
  <2> QED
    BY <1>2, <2>1, <2>2, <2>3, <2>4, <2>5, <2>6 DEF SessionMoves
<1> QED
  BY <1>1, <1>2

\* Nothing that the session is made of changes.
LEMMA SessionStays ==
  ASSUME UNCHANGED <<to_test, postponed_answer_fd, backend_requester, tags, reason_for_pause>>,
         call'.cmd = "set_tags_to_assert" <=> call.cmd = "set_tags_to_assert"
  PROVE  SessionMoves
BY DEF SessionMoves, Pending, Held, Started, Answered, AtWork, Paused

LEMMA SessionAnswer ==
  ASSUME Pending \/ Started, NEW token, NEW ret, SendResponse(Test, token, ret),
         reason_for_pause' = reason_for_pause
  PROVE  SessionMoves
<1>1. to_test' # <<>>
  BY DEF SendResponse, Delivered, Pending, Started
<1> QED
  BY <1>1 DEF SessionMoves, Answered, Paused

LEMMA SessionHold ==
  ASSUME Pending \/ Held, to_test' = to_test, postponed_answer_fd' = Test,
         reason_for_pause' # NotPaused
  PROVE  SessionMoves
BY DEF SessionMoves, Pending, Held, Paused

LEMMA SessionStart ==
  ASSUME Pending \/ Held, to_test' = to_test, postponed_answer_fd' # Test, AtWork',
         reason_for_pause' = NotPaused
  PROVE  SessionMoves
BY DEF SessionMoves, Pending, Held, Started, Paused

LEMMA SessionOfTest ==
  ASSUME Taken, NEW m \in Messages, m.cmd \in TestCommands, ProcessCommand(Test, m)
  PROVE  SessionMoves
<1> USE MessageTyped, NamesDistinct
<1>0. /\ Pending /\ call = NoCall /\ call.cmd # "set_tags_to_assert"
      /\ postponed_answer_fd # Test /\ to_test = <<>>
  BY DEF Taken, HeldAt, Pending, AtWork
<1>1. ASSUME PostponeBackendCommand(Test, m, reason_for_pause), UNCHANGED to_test
      PROVE  SessionMoves
  BY <1>0, <1>1, SessionHold DEF PostponeBackendCommand, HoldAnswer
<1>2. CASE BackendCommand(Test, m)
  <2>1. CASE ForwardToBackend(Test, m, reason_for_pause) /\ ContinueUnpaused(reason_for_pause)
    <3>1. /\ to_test' = to_test /\ postponed_answer_fd' # Test /\ AtWork'
          /\ reason_for_pause' = NotPaused
      BY <1>0, <1>2, <2>1
         DEF BackendCommand, ForwardToBackend, ContinueUnpaused, AtWork, PauseReason
    <3> QED
      BY <1>0, <3>1, SessionStart
  <2>2. ~BackendQueueMissing(reason_for_pause)
    BY DEF BackendQueueMissing, Taken, HandlerInv, SlotInv, HeldAt
  <2> QED
    BY <1>1, <1>2, <2>1, <2>2 DEF BackendCommand
<1>3. CASE CheckScreen(Test, m)
  <2>1. CASE StartScreenCheck(Test, m, reason_for_pause) /\ ContinueUnpaused(reason_for_pause)
    <3>1. /\ to_test' = to_test /\ postponed_answer_fd' # Test /\ AtWork'
          /\ reason_for_pause' = NotPaused
      BY <1>0, <1>3, <2>1
         DEF CheckScreen, StartScreenCheck, CallBackend, ContinueUnpaused, AtWork, PauseReason
    <3> QED
      BY <1>0, <3>1, SessionStart
  <2> QED
    BY <1>1, <1>3, <2>1 DEF CheckScreen
<1>4. ASSUME NEW ret, RespondOnly(Test, m, ret)
      PROVE  SessionMoves
  BY <1>0, <1>4, SessionAnswer DEF RespondOnly, pauseVars
<1>5. ASSUME NEW reason, reason # NotPaused, PauseNow(Test, m, reason)
      PROVE  SessionMoves
  BY <1>0, <1>5, SessionHold DEF PauseNow, HoldAnswer
<1>6. CASE ReportTimeout(Test, m)
  <2>1. "screen_mismatch" # NotPaused
    BY DEF NotPaused
  <2> QED
    BY <1>4, <1>5, <1>6, <2>1 DEF ReportTimeout
<1>7. CASE PauseTestExecution(Test, m)
  <2>1. m.arg # NotPaused
    BY <1>7 DEF PauseTestExecution, ArgsOf, Settings, NotPaused
  <2> QED
    BY <1>4, <1>5, <1>7, <2>1 DEF PauseTestExecution
<1>8. CASE SetCurrentTest(Test, m)
  <2>1. call'.cmd # "set_tags_to_assert"
    BY <1>8 DEF SetCurrentTest, CallBackend
  <2> QED
    BY <1>0, <1>8, <2>1, SessionStays
       DEF SetCurrentTest, pauseVars, requesterVars, screenVars
<1>9. ~ResumeTestExecution(Test, m) /\ ~Setting(Test, m) /\ ~SetAssertScreenTimeout(Test, m)
  BY DEF TestCommands, PureQueries, Settings, ResumeTestExecution, Setting,
         SetAssertScreenTimeout
<1>10. CASE PureQuery(Test, m)
  BY <1>4, <1>10 DEF PureQuery
<1>11. CASE TestsDone(Test, m)
  BY <1>0, <1>11, SessionAnswer DEF TestsDone
<1> QED
  BY <1>2, <1>3, <1>6, <1>7, <1>8, <1>9, <1>10, <1>11 DEF ProcessCommand

\* What a waiting query is, by the place it is at
LEMMA SessionPlace ==
  ASSUME HandlerInv, NEW p \in Places \ {"nobody"}, HeldAt(p)
  PROVE  /\ p = "answer" => Answered
         /\ p = "postponed" => Held
         /\ p \in {"requester", "screen"} => Started
         /\ p = "socket" => Pending
         /\ p = "call" => IF call.cmd = "set_tags_to_assert" THEN Started ELSE Pending
         /\ p # "postponed" => postponed_answer_fd # Test
BY DEF HandlerInv, CallInv, HeldAt, Answered, Held, Started, Pending, AtWork, Places

LEMMA SessionOfClient ==
  ASSUME HandlerTypeOK, HandlerInv, call = NoCall,
         NEW p \in Places \ {"nobody"}, HeldAt(p), p = "postponed" => loop,
         NEW m \in Messages, m.cmd \in DeveloperCommands, ProcessCommand(Cmd, m)
  PROVE  SessionMoves
<1> USE MessageTyped, NamesDistinct
<1>1. ~BackendCommand(Cmd, m) /\ ~CheckScreen(Cmd, m) /\ ~ReportTimeout(Cmd, m)
      /\ ~SetCurrentTest(Cmd, m) /\ ~TestsDone(Cmd, m)
  BY DEF DeveloperCommands, PureQueries, Settings, BackendCommand, CheckScreen,
         ReportTimeout, SetCurrentTest, TestsDone
<1>2. call.cmd # "set_tags_to_assert"
  BY NamesDistinct
\* The session is the same, the pause may begin or end.
<1>3. ASSUME postponed_answer_fd # Test, postponed_answer_fd' # Test,
             UNCHANGED <<to_test, backend_requester, tags>>,
             call'.cmd # "set_tags_to_assert"
      PROVE  SessionMoves
  BY <1>2, <1>3 DEF SessionMoves, Pending, Held, Started, Answered, AtWork
<1>4. ASSUME NEW ret, RespondOnly(Cmd, m, ret), UNCHANGED <<requesterVars, screenVars, call>>
      PROVE  SessionMoves
  BY <1>4, SessionStays
     DEF RespondOnly, SendResponse, Delivered, pauseVars, requesterVars, screenVars
<1>5. CASE Setting(Cmd, m) \/ PureQuery(Cmd, m)
  BY <1>4, <1>5 DEF Setting, PureQuery
<1>6. CASE PauseTestExecution(Cmd, m)
  <2>1. CASE PauseNow(Cmd, m, m.arg) /\ reason_for_pause = NotPaused
    <3>1. postponed_answer_fd # Test
      BY <2>1 DEF HandlerInv, SlotInv, PausedIffHeld, HeldAt
    <3> QED
      BY <1>2, <1>3, <1>6, <2>1, <3>1
         DEF PauseTestExecution, PauseNow, HoldAnswer, requesterVars, screenVars
  <2> QED
    BY <1>4, <1>6, <2>1 DEF PauseTestExecution
<1>7. CASE SetAssertScreenTimeout(Cmd, m)
  <2>1. call'.cmd # "set_tags_to_assert"
    BY <1>7 DEF SetAssertScreenTimeout, CallBackend
  <2> QED
    BY <1>2, <1>7, <2>1, SessionStays
       DEF SetAssertScreenTimeout, pauseVars, requesterVars, screenVars
<1>8. CASE ResumeNothing(Cmd, m)
  BY <1>2, <1>3, <1>8
     DEF ResumeNothing, SendResponse, Delivered, requesterVars, screenVars
<1>9. CASE ResumeAnswer(Cmd, m)
  <2>1. CASE postponed_answer_fd # Test
    BY <1>2, <1>3, <1>9, <2>1
       DEF ResumeAnswer, ReleaseAnswer, HoldAnswer, Delivered, requesterVars, screenVars
  <2>2. CASE postponed_answer_fd = Test
    <3>1. Held /\ Paused
      BY <2>2, SessionPlace DEF HandlerInv, SlotInv, PausedIffHeld, HeldAt, Paused
    <3>2. to_test' # <<>> /\ ~Paused'
      BY <1>9, <2>2, <3>1 DEF ResumeAnswer, Delivered, Held, Paused
    <3> QED
      BY <3>1, <3>2 DEF SessionMoves, Answered
  <2> QED
    BY <2>1, <2>2
<1>10. CASE ResumeCommand(Cmd, m)
  <2>1. /\ postponed_answer_fd = Test /\ p = "postponed" /\ to_test' = to_test
        /\ backend_requester = None
    BY <1>10 DEF ResumeCommand, SendResponse, Delivered, HandlerInv, SlotInv, HeldAt
  <2>2. Held
    BY <2>1, SessionPlace
  <2>3. CASE PostponeBackendCommand(Test, postponed_command, NotPaused)
    BY <2>1, <2>2, <2>3, SessionHold DEF PostponeBackendCommand, HoldAnswer
  <2>4. CASE /\ \/ ForwardToBackend(Test, postponed_command, NotPaused)
                \/ StartScreenCheck(Test, postponed_command, NotPaused)
             /\ reason_for_pause' = NotPaused /\ ReleaseAnswer
    <3>1. AtWork' /\ postponed_answer_fd' # Test
      BY <2>4 DEF ForwardToBackend, StartScreenCheck, CallBackend, ReleaseAnswer, HoldAnswer,
                  AtWork
    <3> QED
      BY <2>1, <2>2, <2>4, <3>1, SessionStart
  <2>5. ~BackendQueueMissing(NotPaused)
    BY <2>1 DEF BackendQueueMissing
  <2> QED
    BY <1>10, <2>1, <2>3, <2>4, <2>5 DEF ResumeCommand
<1> QED
  BY <1>1, <1>5, <1>6, <1>7, <1>8, <1>9, <1>10 DEF ProcessCommand, ResumeTestExecution

LEMMA SessionOfReply ==
  ASSUME HandlerTypeOK, HandlerInv, NEW p \in Places \ {"nobody"}, HeldAt(p),
         SendToBackendRequester
  PROVE  SessionMoves
<1> USE NamesDistinct
<1>1. CASE backend_requester = Test
  <2>1. Started
    BY <1>1, SessionPlace DEF HeldAt
  <2>2. SendResponse(Test, backend_requester_token, "rsp")
    BY <1>1 DEF SendToBackendRequester
  <2> QED
    BY <2>1, <2>2, SessionAnswer DEF SendToBackendRequester, pauseVars
<1>2. CASE backend_requester = None
  BY <1>2, SessionStays DEF SendToBackendRequester, pauseVars, screenVars
<1> QED
  BY <1>1, <1>2 DEF HandlerInv, SlotInv

LEMMA SessionOfCheck ==
  ASSUME call = NoCall, CheckAssertedScreen
  PROVE  SessionMoves
<1>1. call'.cmd # "set_tags_to_assert" /\ call.cmd # "set_tags_to_assert"
  BY NamesDistinct DEF CheckAssertedScreen, CallBackend
<1> QED
  BY <1>1, SessionStays DEF CheckAssertedScreen, requesterVars, pauseVars, screenVars

LEMMA SessionOfCall ==
  ASSUME HandlerTypeOK, HandlerInv, call # NoCall, NEW verdict,
         NEW p \in Places \ {"nobody"}, HeldAt(p), FinishCall(verdict)
  PROVE  SessionMoves
<1> USE NamesDistinct
<1>1. call.cmd \in BackendCalls
  BY DEF HandlerTypeOK, OutputTypeOK, Calls
<1>2. call' = NoCall /\ backend_requester' = backend_requester
  BY DEF FinishCall, requesterVars
<1>3. CASE call.cmd = "clear_serial_buffer"
  <2>1. p = "call" /\ call.fd = Test /\ EnterTest(Test, call.msg)
    BY <1>3 DEF FinishCall, HandlerInv, CallInv, HeldAt
  <2>2. Pending
    BY <1>3, <2>1, SessionPlace
  <2>3. CASE SendResponse(Test, call.msg.token, "ok") /\ reason_for_pause' = NotPaused
    <3>1. reason_for_pause = NotPaused
      BY <2>1, <2>3 DEF EnterTest, NotPaused
    <3> QED
      BY <2>2, <2>3, <3>1, SessionAnswer
  <2>4. CASE /\ postponed_answer_fd' = Test /\ to_test' = to_test
             /\ reason_for_pause' # NotPaused
    BY <2>2, <2>4, SessionHold
  <2> QED
    BY <2>1, <2>3, <2>4 DEF EnterTest, HoldAnswer
<1>4. CASE call.cmd = "set_tags_to_assert"
  <2>1. Started /\ Started'
    <3>1. Started
      BY <1>4, SessionPlace DEF HandlerInv, CallInv, HeldAt
    <3>2. UNCHANGED <<to_test, postponed_answer_fd>> /\ tags'
      BY <1>4 DEF FinishCall, pauseVars
    <3> QED
      BY <3>1, <3>2 DEF Started, AtWork
  <2> QED
    BY <2>1 DEF SessionMoves
<1>5. CASE call.cmd = "set_assert_screen_timeout"
  <2>1. call.fd = Cmd
    BY <1>5 DEF HandlerInv, CallInv
  <2>2. UNCHANGED <<to_test, postponed_answer_fd, tags, reason_for_pause>>
    BY <1>5, <2>1
       DEF FinishCall, RespondOnly, SendResponse, Delivered, pauseVars, screenVars
  <2> QED
    BY <1>2, <1>5, <2>2, SessionStays
<1>6. CASE call.cmd = "check_asserted_screen"
  <2>1. tags /\ Started
    BY <1>6, SessionPlace DEF HandlerInv, CallInv, HeldAt
  <2>2. ScreenVerdict(verdict) /\ UNCHANGED <<postponed_answer_fd, reason_for_pause>>
    BY <1>6 DEF FinishCall, pauseVars
  <2>3. CASE SendResponse(Test, active_check_screen_token, verdict)
    BY <2>1, <2>2, <2>3, SessionAnswer
  <2>4. CASE UNCHANGED <<tags, to_test>>
    BY <1>2, <1>6, <2>2, <2>4, SessionStays
  <2> QED
    BY <2>2, <2>3, <2>4 DEF ScreenVerdict, screenVars
<1> QED
  BY <1>1, <1>3, <1>4, <1>5, <1>6 DEF BackendCalls

LEMMA SessionLoopStep ==
  ASSUME ClientCommands \subseteq DeveloperCommands, TypeOK, DebtInv, LoopStep,
         test_pc = "waiting"
  PROVE  SessionMoves
<1>1. PICK p \in Places : DebtAt(p)
  BY DEF DebtInv
<1>2. /\ p \in Places \ {"nobody"} /\ HeldAt(p) /\ HandlerInv /\ HandlerTypeOK
      /\ (p = "postponed" => loop)
  BY <1>1, DebtWhileRunning DEF DebtAt, DebtInv, TypeOK
<1>3. CASE Select \/ CheckLater \/ EndOfServing \/ LoopEnds \/ CallSysread \/ CallInterleaved
  BY <1>3, SessionStays
     DEF Select, CheckLater, EndOfServing, LoopEnds, CallSysread, CallInterleaved,
         handlerVars, pauseVars, requesterVars, screenVars
<1>4. CASE ServeCommand(Test)
  <2>1. /\ p = "socket" /\ sock[Test] = <<query>> /\ Readable(Test) = sock[Test]
        /\ ProcessCommand(Test, Head(Readable(Test))) /\ call = NoCall
    BY <1>1, <1>4
       DEF ServeCommand, ServedNext, Idle, ReadJson, Readable, DebtInv, QueryInv, DebtAt
  <2>2. Head(sock[Test]) = query /\ sock[Test] # <<>>
    BY <2>1
  <2>3. query \in Messages /\ query.cmd \in TestCommands
    BY <2>2, ChannelHead, FdsDistinct DEF TypeOK, DebtInv, QueryInv
  <2>4. Taken
    BY <1>1, <1>2, <2>1, DebtWhileRunning DEF Taken
  <2> QED
    BY <2>1, <2>2, <2>3, <2>4, SessionOfTest
<1>5. CASE ServeCommand(Cmd)
  <2> DEFINE m == Head(Readable(Cmd))
  <2>1. Readable(Cmd) \in Seq(ClientMessages) /\ Readable(Cmd) # <<>>
    BY <1>5 DEF ServeCommand, ReadJson, Readable, DebtInv, QueryInv
  <2>2. m \in Messages /\ m.cmd \in DeveloperCommands
    BY <2>1, HeadTyped DEF ClientMessages
  <2> QED
    BY <1>2, <1>5, <2>2, SessionOfClient DEF ServeCommand, ServedNext, Idle
<1>6. CASE ServeBackend \/ ServeInterleaved
  BY <1>2, <1>6, SessionOfReply DEF ServeBackend, ServeInterleaved
<1>7. CASE CheckNow
  BY <1>7, SessionOfCheck DEF CheckNow, DebtInv, QueryInv
<1>8. CASE CallReturns
  BY <1>2, <1>8, SessionOfCall DEF CallReturns, Idle
<1> QED
  BY <1>3, <1>4, <1>5, <1>6, <1>7, <1>8 DEF LoopStep

LEMMA SessionNext ==
  ASSUME ClientCommands \subseteq DeveloperCommands, TypeOK, DebtInv, [Next]_vars
  PROVE  [QS!Next]_(QS!vars)
<1>0. test_pc \in {"ready", "waiting", "done"}
  BY DEF TypeOK, TestTypeOK
<1>1. ASSUME NEW cmd, NEW arg, Ask(cmd, arg)
      PROVE  [QS!Next]_(QS!vars)
  <2>1. PICK p \in Places : DebtAt(p)
    BY DEF DebtInv
  <2>2. test_pc = "ready" /\ test_pc' = "waiting" /\ HeldAt("nobody")
    BY <1>1, <2>1 DEF Ask, DebtAt
  <2>3. Pending /\ Session = "idle"
    BY <2>2, SessionIs, NamesDistinct DEF HeldAt, Pending, AtWork, DebtInv, HandlerInv, CallInv
  <2>4. Pending' /\ reason_for_pause' = reason_for_pause
    BY <1>1, <2>3
       DEF Ask, handlerVars, pauseVars, requesterVars, screenVars, Pending, AtWork
  <2>5. Session' = "asked"
    BY <2>2, <2>4, SessionBecomes
  <2> QED
    BY <2>3, <2>4, <2>5 DEF QS!Next, QS!Ask
<1>2. CASE ReceiveAnswer
  <2>1. Session = "answered"
    BY <1>2, SessionIs DEF ReceiveAnswer, Answered
  <2>2. Session' \in {"idle", "over"} /\ reason_for_pause' = reason_for_pause
    BY <1>2, SessionBecomes DEF ReceiveAnswer, pauseVars
  <2> QED
    BY <2>1, <2>2 DEF QS!Next, QS!Receive
<1>3. CASE AutotestStep
  BY <1>1, <1>2, <1>3
     DEF AutotestStep, AskQuery, AskAboutTimeout, AskReportTimeout, AskTestsDone
<1>4. CASE UNCHANGED vars \/ ClientSends \/ BackendStep
  <2>1. UNCHANGED <<to_test, postponed_answer_fd, backend_requester, tags, call,
                    reason_for_pause, test_pc>>
    BY <1>4 DEF vars, ClientSends, BackendStep, BackendAnswersCall, BackendTakes,
                BackendReplies, handlerVars, pauseVars, requesterVars, screenVars, testVars
  <2>2. SessionMoves
    BY <2>1, SessionStays
  <2> QED
    BY <1>0, <2>1, <2>2, SessionStep
<1>5. CASE LoopStep
  <2>1. test_pc' = test_pc
    BY <1>5 DEF LoopStep, Select, ServeCommand, ServeBackend, ServeInterleaved, EndOfServing,
                CheckNow, CheckLater, CallSysread, CallInterleaved, CallReturns, LoopEnds,
                testVars
  <2> QED
    BY <1>0, <1>5, <2>1, SessionLoopStep, SessionStep
<1> QED
  BY <1>3, <1>4, <1>5 DEF Next

\* With the clients of the developer mode, however many and whenever they pause, set
\* breakpoints or resume, the main loop and its handlers implement QuerySession: each
\* query of autotest is answered once, none is started in a pause, and one that is
\* held back leaves the slot by a resume only.
THEOREM MainLoopServesQueries ==
  ASSUME ClientCommands \subseteq DeveloperCommands
  PROVE  Spec => QueriesServed
<1>1. Init => QS!Init
  BY SessionIs DEF Init, HandlerInit, QS!Init
<1>2. TypeOK /\ DebtInv /\ [Next]_vars => DebtInv'
  BY DebtNext
<1>3. TypeOK /\ DebtInv /\ [Next]_vars => [QS!Next]_(QS!vars)
  BY SessionNext
<1> QED
  BY <1>1, <1>2, <1>3, DebtInit, TypeCorrect, PTL DEF Spec, QueriesServed, QS!Spec
-----------------------------------------------------------------------------
(* Tokens and who is answered                                                *)

\* The number of client messages that are no longer in a channel
taken == sent - Len(buf[Cmd]) - Len(sock[Cmd])

\* The messages of clients are numbered in their order, across both places.
ClientInv ==
  /\ taken \in Nat
  /\ \A i \in DOMAIN buf[Cmd] :
       buf[Cmd][i].cmd \in ClientCommands /\ buf[Cmd][i].token = <<Cmd, taken + i>>
  /\ \A i \in DOMAIN sock[Cmd] :
       /\ sock[Cmd][i].cmd \in ClientCommands
       /\ sock[Cmd][i].token = <<Cmd, taken + Len(buf[Cmd]) + i>>

\* p is the only one that may hold the query of autotest or the answer to it.
\* Unlike the debt it may get lost: a client can take the slot of the postponed
\* command.
MayHold(p) ==
  /\ call.fd = Test => p = "call"
  /\ backend_requester = Test => p = "requester"
  /\ tags => p = "screen"
  /\ postponed_answer_fd = Test => p = "postponed"
  /\ to_test # <<>> => p = "answer"

OwedAt(p) ==
  /\ MayHold(p)
  /\ sock[Test] # <<>> => p = "socket"
  /\ p # "nobody" => test_pc = "waiting"

\* Wherever the query is, it has its token.
TokenInv ==
  /\ AnswerHasToken
  /\ Len(to_test) <= 1
  /\ call.fd = Test => call.msg.token = query.token
  /\ call.cmd = "set_tags_to_assert" =>
       call.fd = Test /\ active_check_screen_token = query.token
  /\ call.cmd = "check_asserted_screen" => tags
  /\ postponed_command.cmd = "check_screen" => postponed_answer_fd = Test
  /\ postponed_answer_fd = Test /\ postponed_command # NoCommand =>
       postponed_command.token = query.token

AskedInv ==
  /\ sock[Test] \in {<<>>, <<query>>} /\ buf[Test] = <<>>
  /\ test_pc = "waiting" => query.cmd \in TestCommands /\ query.token = <<Test, queries>>
  /\ pc = "check" => call = NoCall

\* The inductive invariant
OwnerInv == TokenInv /\ AskedInv /\ ClientInv /\ \E p \in Places : OwedAt(p)

TestOnly == "check_screen" \notin ClientCommands
-----------------------------------------------------------------------------
(* The handlers                                                              *)

\* No command of the backend may look like none.
LEMMA NoCommandIsNone ==
  /\ NoCommand.cmd # "check_screen" /\ NoCall.cmd # "set_tags_to_assert"
  /\ NoCall.cmd # "check_asserted_screen"
BY DEF NoCommand, NoCall, None

LEMMA TokenPaid ==
  ASSUME to_test = <<>>, NEW token, token = query.token, NEW ret,
         SendResponse(Test, token, ret), query' = query
  PROVE  Len(to_test') = 1 /\ Head(to_test').token = query'.token
BY DEF SendResponse, Delivered

\* An answer to autotest takes the place of what was owed.
LEMMA TokenAnswer ==
  ASSUME TokenInv, to_test = <<>>, NEW token, token = query.token, NEW ret,
         SendResponse(Test, token, ret), query' = query,
         call' = NoCall, backend_requester' # Test, ~tags', postponed_answer_fd' # Test,
         postponed_command'.cmd # "check_screen"
  PROVE  TokenInv' /\ MayHold("answer")'
<1>1. Len(to_test') = 1 /\ Head(to_test').token = query'.token
  BY TokenPaid
<1> QED
  BY <1>1, NamesDistinct, NoCommandIsNone DEF TokenInv, AnswerHasToken, MayHold

\* What a query of autotest finds when it is taken from the socket
Asked ==
  /\ HandlerTypeOK /\ TokenInv /\ MayHold("socket")
  /\ call = NoCall
  /\ query \in Messages /\ query.cmd \in TestCommands

LEMMA TokenRespond ==
  ASSUME Asked, query' = query, NEW ret, RespondOnly(Test, query, ret),
         UNCHANGED <<requesterVars, screenVars, call>>
  PROVE  TokenInv' /\ MayHold("answer")'
<1>1. postponed_command.cmd # "check_screen"
  BY DEF Asked, TokenInv, MayHold
<1>2. /\ SendResponse(Test, query.token, ret)
      /\ UNCHANGED <<call, backend_requester, tags, postponed_answer_fd, postponed_command>>
  BY DEF RespondOnly, requesterVars, screenVars, pauseVars
<1> QED
  BY <1>1, <1>2, TokenAnswer DEF Asked, MayHold

\* The answer is held back, with the command or without.
LEMMA TokenHold ==
  ASSUME Asked, query' = query, NEW command \in {query, NoCommand},
         HoldAnswer(Test, query.token, command),
         UNCHANGED <<requesterVars, screenVars, call, to_test>>
  PROVE  TokenInv' /\ MayHold("postponed")'
BY NamesDistinct, NoCommandIsNone
   DEF Asked, HoldAnswer, TokenInv, AnswerHasToken, MayHold, requesterVars, screenVars

\* A command of autotest goes to one slot, or it is answered.
LEMMA TokenOfTest ==
  ASSUME Asked, query' = query, ProcessCommand(Test, query)
  PROVE  /\ TokenInv'
         /\ \E p \in {"socket", "call", "requester", "postponed", "answer"} : MayHold(p)'
<1> USE MessageTyped, NamesDistinct, NoCommandIsNone
<1>1. ASSUME PostponeBackendCommand(Test, query, reason_for_pause), UNCHANGED to_test
      PROVE  TokenInv' /\ MayHold("postponed")'
  BY <1>1, TokenHold DEF PostponeBackendCommand
<1>2. CASE BackendCommand(Test, query)
  <2>1. CASE ForwardToBackend(Test, query, reason_for_pause) /\ ContinueUnpaused(reason_for_pause)
    <3>1. TokenInv' /\ MayHold("requester")'
      BY <1>2, <2>1
         DEF BackendCommand, ForwardToBackend, ContinueUnpaused, Asked, TokenInv,
             AnswerHasToken, MayHold, screenVars
    <3> QED
      BY <3>1
  <2>2. CASE BackendQueueMissing(reason_for_pause) /\ ContinueUnpaused(reason_for_pause)
    <3>1. TokenInv' /\ MayHold("socket")'
      BY <1>2, <2>2
         DEF BackendCommand, BackendQueueMissing, ContinueUnpaused, Asked, TokenInv,
             AnswerHasToken, MayHold, screenVars, requesterVars
    <3> QED
      BY <3>1
  <2> QED
    BY <1>1, <1>2, <2>1, <2>2 DEF BackendCommand
<1>3. CASE CheckScreen(Test, query)
  <2>1. CASE StartScreenCheck(Test, query, reason_for_pause) /\ ContinueUnpaused(reason_for_pause)
    <3>1. TokenInv' /\ MayHold("call")'
      BY <1>3, <2>1
         DEF CheckScreen, StartScreenCheck, CallBackend, ContinueUnpaused, Asked, TokenInv,
             AnswerHasToken, MayHold, requesterVars
    <3> QED
      BY <3>1
  <2> QED
    BY <1>1, <1>3, <2>1 DEF CheckScreen
<1>4. ASSUME NEW reason, PauseNow(Test, query, reason),
             UNCHANGED <<requesterVars, screenVars, call>>
      PROVE  TokenInv' /\ MayHold("postponed")'
  BY <1>4, TokenHold DEF PauseNow
<1>5. CASE ReportTimeout(Test, query)
  BY <1>4, <1>5, TokenRespond DEF ReportTimeout
<1>6. CASE PauseTestExecution(Test, query)
  BY <1>4, <1>6, TokenRespond DEF PauseTestExecution
<1>7. CASE SetCurrentTest(Test, query)
  <2>1. TokenInv' /\ MayHold("call")'
    BY <1>7
       DEF SetCurrentTest, CallBackend, Asked, TokenInv, AnswerHasToken, MayHold,
           requesterVars, screenVars, pauseVars
  <2> QED
    BY <2>1
<1>8. /\ ~ResumeTestExecution(Test, query) /\ ~Setting(Test, query)
      /\ ~SetAssertScreenTimeout(Test, query)
  BY DEF Asked, TestCommands, PureQueries, Settings, ResumeTestExecution, Setting,
         SetAssertScreenTimeout
<1>9. CASE PureQuery(Test, query)
  BY <1>9, TokenRespond DEF PureQuery
<1>10. CASE TestsDone(Test, query)
  <2>1. TokenInv' /\ MayHold("answer")'
    BY <1>10, TokenAnswer
       DEF TestsDone, ReleaseAnswer, HoldAnswer, Asked, MayHold
  <2> QED
    BY <2>1
<1> QED
  BY <1>2, <1>3, <1>5, <1>6, <1>7, <1>8, <1>9, <1>10 DEF ProcessCommand

\* What p may hold is still there, lost, or has gone from slot to slot or been paid.
LEMMA TokenOfClient ==
  ASSUME HandlerTypeOK, TokenInv, NEW p \in Places, MayHold(p), call = NoCall,
         query' = query, NEW m \in Messages, m.cmd # "check_screen",
         ProcessCommand(Cmd, m)
  PROVE  TokenInv' /\ \E q \in Places : MayHold(q)' /\ Settled(p, q)
<1> USE MessageTyped, NamesDistinct, NoCommandIsNone
<1>0. MayHold(p)' => \E q \in Places : MayHold(q)' /\ Settled(p, q)
  BY Zenon DEF Settled
<1>1. CASE BackendCommand(Cmd, m)
  <2>1. CASE PostponeBackendCommand(Cmd, m, reason_for_pause)
    <3>1. TokenInv' /\ MayHold(p)'
      BY <1>1, <2>1
         DEF BackendCommand, PostponeBackendCommand, HoldAnswer, TokenInv, AnswerHasToken,
             MayHold, requesterVars, screenVars
    <3> QED
      BY <1>0, <3>1
  <2>2. CASE ForwardToBackend(Cmd, m, reason_for_pause) /\ ContinueUnpaused(reason_for_pause)
    <3>1. TokenInv' /\ MayHold(p)'
      BY <1>1, <2>2
         DEF BackendCommand, ForwardToBackend, ContinueUnpaused, TokenInv, AnswerHasToken,
             MayHold, screenVars
    <3> QED
      BY <1>0, <3>1
  <2>3. CASE BackendQueueMissing(reason_for_pause) /\ ContinueUnpaused(reason_for_pause)
    <3>1. TokenInv' /\ MayHold(p)'
      BY <1>1, <2>3
         DEF BackendCommand, BackendQueueMissing, ContinueUnpaused, TokenInv, AnswerHasToken,
             MayHold, requesterVars, screenVars
    <3> QED
      BY <1>0, <3>1
  <2> QED
    BY <1>1, <2>1, <2>2, <2>3 DEF BackendCommand
<1>2. ~CheckScreen(Cmd, m)
  BY DEF CheckScreen
<1>3. ASSUME NEW ret, RespondOnly(Cmd, m, ret), UNCHANGED <<requesterVars, screenVars, call>>
      PROVE  TokenInv' /\ MayHold(p)'
  BY <1>3
     DEF RespondOnly, SendResponse, Delivered, TokenInv, AnswerHasToken, MayHold,
         requesterVars, screenVars, pauseVars
<1>4. ASSUME NEW reason, PauseNow(Cmd, m, reason),
             UNCHANGED <<requesterVars, screenVars, call>>
      PROVE  TokenInv' /\ MayHold(p)'
  BY <1>4
     DEF PauseNow, HoldAnswer, TokenInv, AnswerHasToken, MayHold, requesterVars, screenVars
<1>5. CASE ReportTimeout(Cmd, m)
  BY <1>0, <1>3, <1>4, <1>5 DEF ReportTimeout
<1>6. CASE PauseTestExecution(Cmd, m)
  BY <1>0, <1>3, <1>4, <1>6 DEF PauseTestExecution
<1>7. CASE SetCurrentTest(Cmd, m) \/ SetAssertScreenTimeout(Cmd, m)
  <2>1. TokenInv' /\ MayHold(p)'
    BY <1>7
       DEF SetCurrentTest, SetAssertScreenTimeout, CallBackend, TokenInv, AnswerHasToken,
           MayHold, requesterVars, screenVars, pauseVars
  <2> QED
    BY <1>0, <2>1
<1>8. CASE Setting(Cmd, m) \/ PureQuery(Cmd, m)
  BY <1>0, <1>3, <1>8 DEF Setting, PureQuery
<1>9. CASE TestsDone(Cmd, m)
  <2>1. TokenInv' /\ MayHold(p)'
    BY <1>9
       DEF TestsDone, ReleaseAnswer, HoldAnswer, SendResponse, Delivered, TokenInv,
           AnswerHasToken, MayHold
  <2> QED
    BY <1>0, <2>1
<1>10. CASE ResumeNothing(Cmd, m)
  <2>1. TokenInv' /\ MayHold(p)'
    BY <1>10
       DEF ResumeNothing, SendResponse, Delivered, TokenInv, AnswerHasToken, MayHold,
           requesterVars, screenVars
  <2> QED
    BY <1>0, <2>1
<1>11. CASE ResumeAnswer(Cmd, m)
  <2>1. /\ UNCHANGED <<backend_requester, backend_requester_token, tags,
                       active_check_screen_token, call>>
        /\ postponed_answer_fd' = None /\ postponed_command' = NoCommand
    BY <1>11 DEF ResumeAnswer, ReleaseAnswer, HoldAnswer, requesterVars, screenVars
  <2>2. CASE postponed_answer_fd = Test
    <3>1. p = "postponed" /\ to_test = <<>> /\ postponed_token = query.token
      BY <2>2 DEF MayHold, TokenInv, AnswerHasToken
    <3>2. to_test' = Append(<<>>, [token |-> postponed_token, ret |-> "resumed"])
      BY <1>11, <2>2, <3>1 DEF ResumeAnswer, Delivered
    <3>3. Len(to_test') = 1 /\ Head(to_test').token = query'.token
      BY <3>1, <3>2
    <3>4. backend_requester # Test /\ ~tags /\ call = NoCall
      BY <2>2, <3>1 DEF MayHold
    <3>5. TokenInv' /\ MayHold("answer")'
      BY <2>1, <3>3, <3>4 DEF TokenInv, AnswerHasToken, MayHold
    <3> QED
      BY <3>1, <3>5 DEF Settled, Slots, Places
  <2>3. CASE postponed_answer_fd # Test
    <3>1. to_test' = to_test
      BY <1>11, <2>3 DEF ResumeAnswer, Delivered
    <3>2. TokenInv' /\ MayHold(p)'
      BY <2>1, <2>3, <3>1 DEF TokenInv, AnswerHasToken, MayHold
    <3> QED
      BY <1>0, <3>2
  <2> QED
    BY <2>2, <2>3
<1>12. CASE ResumeCommand(Cmd, m)
  <2> DEFINE fd == postponed_answer_fd
  <2>1. /\ to_test' = to_test /\ fd # None /\ postponed_command # NoCommand
        /\ postponed_command \in Messages
    BY <1>12
       DEF ResumeCommand, SendResponse, Delivered, HandlerTypeOK, PauseTypeOK
  <2>2. fd = Test => p = "postponed" /\ postponed_command.token = query.token
    BY <2>1 DEF TokenInv, MayHold
  <2>3. CASE PostponeBackendCommand(fd, postponed_command, NotPaused)
    <3>1. TokenInv' /\ MayHold(p)'
      BY <2>1, <2>2, <2>3
         DEF PostponeBackendCommand, HoldAnswer, TokenInv, AnswerHasToken, MayHold,
             requesterVars, screenVars
    <3> QED
      BY <1>0, <3>1
  <2>4. CASE ForwardToBackend(fd, postponed_command, NotPaused) /\ ReleaseAnswer
    <3>1. CASE fd = Test
      <4>1. TokenInv' /\ MayHold("requester")'
        BY <2>1, <2>2, <2>4, <3>1
           DEF ForwardToBackend, ReleaseAnswer, HoldAnswer, TokenInv, AnswerHasToken,
               MayHold, screenVars
      <4> QED
        BY <2>2, <3>1, <4>1 DEF Settled, Slots, Places
    <3>2. CASE fd # Test
      <4>1. TokenInv' /\ MayHold(p)'
        BY <2>1, <2>4, <3>2
           DEF ForwardToBackend, ReleaseAnswer, HoldAnswer, TokenInv, AnswerHasToken,
               MayHold, screenVars
      <4> QED
        BY <1>0, <4>1
    <3> QED
      BY <3>1, <3>2
  <2>5. CASE BackendQueueMissing(NotPaused) /\ ReleaseAnswer
    <3>1. TokenInv' /\ MayHold(p)'
      BY <2>1, <2>5
         DEF BackendQueueMissing, ReleaseAnswer, HoldAnswer, TokenInv, AnswerHasToken,
             MayHold, screenVars, requesterVars
    <3> QED
      BY <1>0, <3>1
  <2>6. CASE /\ postponed_command.cmd = "check_screen"
             /\ StartScreenCheck(fd, postponed_command, NotPaused) /\ ReleaseAnswer
    <3>1. fd = Test
      BY <2>6 DEF TokenInv
    <3>2. TokenInv' /\ MayHold("call")'
      BY <2>1, <2>2, <2>6, <3>1
         DEF StartScreenCheck, CallBackend, ReleaseAnswer, HoldAnswer, TokenInv,
             AnswerHasToken, MayHold, requesterVars
    <3> QED
      BY <2>2, <3>1, <3>2 DEF Settled, Slots, Places
  <2> QED
    BY <1>12, <2>3, <2>4, <2>5, <2>6 DEF ResumeCommand
<1> QED
  BY <1>1, <1>2, <1>5, <1>6, <1>7, <1>8, <1>9, <1>10, <1>11, <1>12
     DEF ProcessCommand, ResumeTestExecution

LEMMA TokenOfReply ==
  ASSUME HandlerTypeOK, TokenInv, NEW p \in Places, MayHold(p), query' = query,
         SendToBackendRequester
  PROVE  TokenInv' /\ \E q \in Places : MayHold(q)' /\ Settled(p, q)
<1> USE NamesDistinct, NoCommandIsNone
<1>1. UNCHANGED <<call, tags, active_check_screen_token, postponed_answer_fd,
                  postponed_token, postponed_command>> /\ backend_requester' = None
  BY DEF SendToBackendRequester, pauseVars, screenVars
<1>2. CASE backend_requester = Test
  <2>1. p = "requester" /\ to_test = <<>>
    BY <1>2 DEF MayHold
  <2>2. backend_requester_token = query.token
    BY <1>2 DEF TokenInv, AnswerHasToken
  <2>3. SendResponse(Test, backend_requester_token, "rsp")
    BY <1>2 DEF SendToBackendRequester
  <2>4. Len(to_test') = 1 /\ Head(to_test').token = query'.token
    BY <2>1, <2>2, <2>3, TokenPaid
  <2>5. TokenInv' /\ MayHold("answer")'
    BY <1>1, <2>1, <2>4 DEF TokenInv, AnswerHasToken, MayHold
  <2> QED
    BY <2>1, <2>5 DEF Settled, Slots, Places
<1>3. CASE backend_requester # Test
  <2>1. to_test' = to_test
    BY <1>3 DEF SendToBackendRequester, SendResponse, Delivered
  <2>2. TokenInv' /\ MayHold(p)'
    BY <1>1, <2>1 DEF TokenInv, AnswerHasToken, MayHold
  <2> QED
    BY <2>2, Zenon DEF Settled
<1> QED
  BY <1>2, <1>3

LEMMA TokenOfCheck ==
  ASSUME TokenInv, NEW p \in Places, MayHold(p), call = NoCall, query' = query,
         CheckAssertedScreen
  PROVE  TokenInv' /\ MayHold(p)'
BY NamesDistinct
   DEF CheckAssertedScreen, CallBackend, TokenInv, AnswerHasToken, MayHold,
       requesterVars, pauseVars, screenVars

LEMMA TokenOfCall ==
  ASSUME HandlerTypeOK, TokenInv, call # NoCall, NEW verdict \in Verdicts,
         NEW p \in Places, MayHold(p), query' = query, FinishCall(verdict)
  PROVE  TokenInv' /\ \E q \in Places : MayHold(q)' /\ Settled(p, q)
<1> USE NamesDistinct, NoCommandIsNone
<1>1. call.cmd \in BackendCalls
  BY DEF HandlerTypeOK, OutputTypeOK, Calls
<1>2. MayHold(p)' => \E q \in Places : MayHold(q)' /\ Settled(p, q)
  BY Zenon DEF Settled
<1>3. call' = NoCall /\ UNCHANGED <<backend_requester, backend_requester_token>>
  BY DEF FinishCall, requesterVars
<1>4. CASE call.cmd = "clear_serial_buffer"
  <2>1. EnterTest(call.fd, call.msg)
    BY <1>4 DEF FinishCall
  <2>2. UNCHANGED <<tags, active_check_screen_token>>
    BY <2>1 DEF EnterTest, screenVars
  <2>3. \/ /\ UNCHANGED <<postponed_answer_fd, postponed_token, postponed_command>>
           /\ SendResponse(call.fd, call.msg.token, "ok")
        \/ /\ HoldAnswer(call.fd, call.msg.token, NoCommand)
           /\ UNCHANGED to_test
    BY <2>1 DEF EnterTest
  <2>4. CASE call.fd = Test
    <3>1. p = "call" /\ to_test = <<>> /\ call.msg.token = query.token
          /\ backend_requester # Test /\ ~tags /\ postponed_answer_fd # Test
      BY <2>4 DEF MayHold, TokenInv
    <3>2. CASE /\ UNCHANGED <<postponed_answer_fd, postponed_token, postponed_command>>
               /\ SendResponse(call.fd, call.msg.token, "ok")
      <4>1. Len(to_test') = 1 /\ Head(to_test').token = query'.token
        BY <2>4, <3>1, <3>2, TokenPaid
      <4>2. TokenInv' /\ MayHold("answer")'
        BY <1>3, <2>2, <3>1, <3>2, <4>1 DEF TokenInv, AnswerHasToken, MayHold
      <4> QED
        BY <3>1, <4>2 DEF Settled, Slots, Places
    <3>3. CASE /\ HoldAnswer(call.fd, call.msg.token, NoCommand)
               /\ UNCHANGED to_test
      <4>1. TokenInv' /\ MayHold("postponed")'
        BY <1>3, <2>2, <2>4, <3>1, <3>3 DEF HoldAnswer, TokenInv, AnswerHasToken, MayHold
      <4> QED
        BY <3>1, <4>1 DEF Settled, Slots, Places
    <3> QED
      BY <2>3, <3>2, <3>3
  <2>5. CASE call.fd # Test
    <3>1. TokenInv' /\ MayHold(p)'
      BY <1>3, <2>2, <2>3, <2>5
         DEF SendResponse, Delivered, HoldAnswer, TokenInv, AnswerHasToken, MayHold
    <3> QED
      BY <1>2, <3>1
  <2> QED
    BY <2>4, <2>5
<1>5. CASE call.cmd = "set_tags_to_assert"
  <2>1. p = "call" /\ to_test = <<>>
    BY <1>5 DEF TokenInv, MayHold
  <2>2. TokenInv' /\ MayHold("screen")'
    BY <1>3, <1>5, <2>1 DEF FinishCall, TokenInv, AnswerHasToken, MayHold, pauseVars
  <2> QED
    BY <2>1, <2>2 DEF Settled, Slots, Places
<1>6. CASE call.cmd = "set_assert_screen_timeout"
  <2>1. /\ SendResponse(call.fd, call.msg.token, "ok")
        /\ UNCHANGED <<tags, active_check_screen_token, postponed_answer_fd,
                       postponed_token, postponed_command>>
    BY <1>6 DEF FinishCall, RespondOnly, screenVars, pauseVars
  <2>2. CASE call.fd = Test
    <3>1. p = "call" /\ to_test = <<>> /\ call.msg.token = query.token
          /\ backend_requester # Test /\ ~tags /\ postponed_answer_fd # Test
      BY <2>2 DEF MayHold, TokenInv
    <3>2. Len(to_test') = 1 /\ Head(to_test').token = query'.token
      BY <2>1, <2>2, <3>1, TokenPaid
    <3>3. TokenInv' /\ MayHold("answer")'
      BY <1>3, <2>1, <3>1, <3>2 DEF TokenInv, AnswerHasToken, MayHold
    <3> QED
      BY <3>1, <3>3 DEF Settled, Slots, Places
  <2>3. CASE call.fd # Test
    <3>1. TokenInv' /\ MayHold(p)'
      BY <1>3, <2>1, <2>3 DEF SendResponse, Delivered, TokenInv, AnswerHasToken, MayHold
    <3> QED
      BY <1>2, <3>1
  <2> QED
    BY <2>2, <2>3
<1>7. CASE call.cmd = "check_asserted_screen"
  <2>1. tags /\ p = "screen" /\ to_test = <<>> /\ active_check_screen_token = query.token
    BY <1>7 DEF TokenInv, AnswerHasToken, MayHold
  <2>2. /\ UNCHANGED <<postponed_answer_fd, postponed_token, postponed_command>>
        /\ \/ UNCHANGED <<tags, active_check_screen_token, to_test>>
           \/ ~tags' /\ SendResponse(Test, active_check_screen_token, verdict)
    BY <1>7 DEF FinishCall, ScreenVerdict, pauseVars, screenVars
  <2>3. CASE UNCHANGED <<tags, active_check_screen_token, to_test>>
    <3>1. TokenInv' /\ MayHold(p)'
      BY <1>3, <2>1, <2>2, <2>3 DEF TokenInv, AnswerHasToken, MayHold
    <3> QED
      BY <1>2, <3>1
  <2>4. CASE ~tags' /\ SendResponse(Test, active_check_screen_token, verdict)
    <3>1. Len(to_test') = 1 /\ Head(to_test').token = query'.token
      BY <2>1, <2>4, TokenPaid
    <3>2. TokenInv' /\ MayHold("answer")'
      BY <1>3, <2>1, <2>2, <2>4, <3>1 DEF TokenInv, AnswerHasToken, MayHold
    <3> QED
      BY <2>1, <3>2 DEF Settled, Slots, Places
  <2> QED
    BY <2>2, <2>3, <2>4
<1> QED
  BY <1>1, <1>4, <1>5, <1>6, <1>7 DEF BackendCalls
-----------------------------------------------------------------------------
(* The messages of the clients                                               *)

LEMMA ClientStays ==
  ASSUME ClientInv, sock'[Cmd] = sock[Cmd], buf'[Cmd] = buf[Cmd], sent' = sent
  PROVE  ClientInv' /\ taken' = taken
BY DEF ClientInv, taken

LEMMA Counting ==
  \A n, b, k \in Nat : /\ (n + 1) - b - (k + 1) = n - b - k
                       /\ n + 1 = (n - b - k) + b + (k + 1)
OBVIOUS

LEMMA ClientNumbers ==
  ASSUME TypeOK, ClientInv, ClientSends
  PROVE  ClientInv' /\ taken' = taken
<1>1. PICK cmd \in ClientCommands :
        \E arg \in ClientArgs(cmd) :
          Send(Cmd, [cmd |-> cmd, token |-> <<Cmd, sent + 1>>, arg |-> arg])
  BY DEF ClientSends
<1>2. PICK arg \in ClientArgs(cmd) :
        Send(Cmd, [cmd |-> cmd, token |-> <<Cmd, sent + 1>>, arg |-> arg])
  BY <1>1
<1> DEFINE m == [cmd |-> cmd, token |-> <<Cmd, sent + 1>>, arg |-> arg]
<1>3. sock'[Cmd] = Append(sock[Cmd], m) /\ buf'[Cmd] = buf[Cmd] /\ sent' = sent + 1
  BY <1>2, FdsDistinct DEF Send, TypeOK, Channels, ClientSends
<1>4. sock[Cmd] \in Seq(Messages) /\ buf[Cmd] \in Seq(Messages) /\ sent \in Nat
  BY DEF TypeOK, Channels
<1>5. /\ Len(sock'[Cmd]) = Len(sock[Cmd]) + 1
      /\ DOMAIN sock'[Cmd] = 1..(Len(sock[Cmd]) + 1)
      /\ \A i \in 1..Len(sock[Cmd]) : sock'[Cmd][i] = sock[Cmd][i]
      /\ sock'[Cmd][Len(sock[Cmd]) + 1] = m
  BY <1>3, <1>4
<1> DEFINE b == Len(buf[Cmd])
           k == Len(sock[Cmd])
<1>6. taken' = taken /\ sent + 1 = taken + b + (k + 1)
  <2>1. b \in Nat /\ k \in Nat /\ taken = sent - b - k
    BY <1>4 DEF taken
  <2>2. taken' = (sent + 1) - b - (k + 1)
    BY <1>3, <1>5 DEF taken
  <2>3. (sent + 1) - b - (k + 1) = sent - b - k /\ sent + 1 = (sent - b - k) + b + (k + 1)
    BY <1>4, <2>1, Counting
  <2> QED
    BY <2>1, <2>2, <2>3, Zenon
<1>7. ASSUME NEW i \in DOMAIN sock'[Cmd]
      PROVE  /\ sock'[Cmd][i].cmd \in ClientCommands
             /\ sock'[Cmd][i].token = <<Cmd, taken + Len(buf[Cmd]) + i>>
  <2>1. CASE i \in DOMAIN sock[Cmd]
    BY <1>4, <1>5, <2>1 DEF ClientInv
  <2>2. CASE i = k + 1
    <3>1. sock'[Cmd][i] = m
      BY <1>5, <2>2
    <3> QED
      BY <1>6, <2>2, <3>1
  <2> QED
    BY <1>4, <1>5, <2>1, <2>2
<1> QED
  BY <1>3, <1>6, <1>7 DEF ClientInv

\* Taking the next message counts one.
LEMMA ClientTakes ==
  ASSUME TypeOK, ClientInv, ReadJson(Cmd), sent' = sent
  PROVE  /\ ClientInv' /\ taken' = taken + 1
         /\ Head(Readable(Cmd)) \in Messages
         /\ Head(Readable(Cmd)).cmd \in ClientCommands
         /\ Head(Readable(Cmd)).token = <<Cmd, taken + 1>>
<1> DEFINE s == Readable(Cmd)
<1>1. /\ s \in Seq(Messages) /\ s # <<>> /\ taken \in Nat
      /\ sock[Cmd] \in Seq(Messages) /\ buf[Cmd] \in Seq(Messages) /\ sent \in Nat
  BY DEF ReadJson, Readable, TypeOK, Channels, ClientInv
<1>2. \A i \in DOMAIN s : s[i].cmd \in ClientCommands /\ s[i].token = <<Cmd, taken + i>>
  <2>1. CASE buf[Cmd] # <<>>
    BY <2>1 DEF Readable, ClientInv
  <2>2. CASE buf[Cmd] = <<>>
    <3>1. s = sock[Cmd] /\ Len(buf[Cmd]) = 0
      BY <2>2 DEF Readable
    <3> QED
      BY <1>1, <3>1 DEF ClientInv
  <2> QED
    BY <2>1, <2>2
<1>3. /\ Len(s) \in Nat /\ Len(s) >= 1 /\ DOMAIN s = 1..Len(s) /\ Head(s) = s[1]
      /\ Head(s) \in Messages
      /\ Len(Tail(s)) = Len(s) - 1 /\ DOMAIN Tail(s) = 1..(Len(s) - 1)
      /\ \A i \in 1..(Len(s) - 1) : Tail(s)[i] = s[i + 1]
  BY <1>1
<1>4. Head(s).cmd \in ClientCommands /\ Head(s).token = <<Cmd, taken + 1>>
  BY <1>2, <1>3
<1>5. ASSUME NEW i \in DOMAIN Tail(s)
      PROVE  Tail(s)[i].cmd \in ClientCommands /\ Tail(s)[i].token = <<Cmd, taken + 1 + i>>
  <2>1. i + 1 \in DOMAIN s /\ Tail(s)[i] = s[i + 1] /\ i \in Nat
    BY <1>3
  <2>2. taken + (i + 1) = taken + 1 + i
    BY <1>1, <2>1
  <2> QED
    BY <1>2, <2>1, <2>2
<1>6. buf'[Cmd] = Tail(s) /\ sock'[Cmd] = IF buf[Cmd] # <<>> THEN sock[Cmd] ELSE <<>>
  BY FdsDistinct DEF ReadJson, TypeOK, Channels
<1>7. CASE buf[Cmd] # <<>>
  <2>1. s = buf[Cmd] /\ sock'[Cmd] = sock[Cmd]
    BY <1>6, <1>7 DEF Readable
  <2>2. taken' = taken + 1 /\ taken' + Len(buf'[Cmd]) = taken + Len(buf[Cmd])
    <3> DEFINE b == Len(buf[Cmd])
               k == Len(sock[Cmd])
    <3>1. b \in Nat /\ k \in Nat /\ taken = sent - b - k /\ Len(buf'[Cmd]) = b - 1
      BY <1>1, <1>3, <1>6, <2>1 DEF taken
    <3>2. taken' = sent - (b - 1) - k
      BY <2>1, <3>1 DEF taken
    <3> QED
      BY <1>1, <3>1, <3>2
  <2>3. \A i \in DOMAIN buf'[Cmd] :
          buf'[Cmd][i].cmd \in ClientCommands /\ buf'[Cmd][i].token = <<Cmd, taken' + i>>
    BY <1>5, <1>6, <2>2
  <2>4. \A i \in DOMAIN sock'[Cmd] :
          /\ sock'[Cmd][i].cmd \in ClientCommands
          /\ sock'[Cmd][i].token = <<Cmd, taken' + Len(buf'[Cmd]) + i>>
    BY <2>1, <2>2 DEF ClientInv
  <2>5. taken' \in Nat
    BY <1>1, <2>2
  <2>6. ClientInv'
    BY <2>3, <2>4, <2>5, Zenon DEF ClientInv
  <2> QED
    BY <1>3, <1>4, <2>2, <2>6
<1>8. CASE buf[Cmd] = <<>>
  <2>1. s = sock[Cmd] /\ sock'[Cmd] = <<>> /\ Len(buf[Cmd]) = 0 /\ Len(sock'[Cmd]) = 0
    BY <1>6, <1>8 DEF Readable
  <2>2. taken' = taken + 1
    <3> DEFINE k == Len(sock[Cmd])
    <3>1. k \in Nat /\ taken = sent - 0 - k /\ Len(buf'[Cmd]) = k - 1
      BY <1>1, <1>3, <1>6, <2>1 DEF taken
    <3>2. taken' = sent - (k - 1) - 0
      BY <2>1, <3>1 DEF taken
    <3> QED
      BY <1>1, <3>1, <3>2
  <2>3. DOMAIN sock'[Cmd] = {}
    BY <2>1
  <2> QED
    BY <1>1, <1>3, <1>4, <1>5, <1>6, <2>2, <2>3 DEF ClientInv
<1> QED
  BY <1>7, <1>8
-----------------------------------------------------------------------------
(* The invariant                                                             *)

LEMMA OwnerInit == Init => OwnerInv
<1> SUFFICES ASSUME Init PROVE OwnerInv
  OBVIOUS
<1> USE NamesDistinct, NoCommandIsNone DEF Init, HandlerInit
<1>1. TokenInv
  <2>1. Len(to_test) <= 1 /\ to_test = <<>>
    OBVIOUS
  <2> QED
    BY <2>1 DEF TokenInv, AnswerHasToken
<1>2. /\ sock[Test] = <<>> /\ buf[Test] = <<>>
      /\ sock[Cmd] = <<>> /\ buf[Cmd] = <<>>
  BY FdsDistinct
<1>3. AskedInv
  BY <1>2 DEF AskedInv
<1>4. ClientInv
  <2>1. Len(sock[Cmd]) = 0 /\ Len(buf[Cmd]) = 0 /\ DOMAIN sock[Cmd] = {}
        /\ DOMAIN buf[Cmd] = {}
    BY <1>2
  <2>2. taken = 0
    BY <2>1 DEF taken
  <2> QED
    BY <2>1, <2>2 DEF ClientInv
<1>5. OwedAt("nobody")
  BY <1>2 DEF OwedAt, MayHold
<1> QED
  BY <1>1, <1>3, <1>4, <1>5 DEF OwnerInv, Places

\* A step of the handlers that leaves the channel of the test alone
LEMMA OwnerMoves ==
  ASSUME OwnerInv, NEW p \in Places, OwedAt(p), NEW q \in Places,
         TokenInv', MayHold(q)', Settled(p, q), ClientInv',
         UNCHANGED <<test_pc, query, queries>>,
         sock'[Test] = sock[Test], buf'[Test] = buf[Test],
         pc' = "check" => call' = NoCall
  PROVE  OwnerInv'
<1>1. OwedAt(q)'
  BY DEF OwedAt, Settled, Slots
<1>2. AskedInv'
  BY DEF OwnerInv, AskedInv
<1> QED
  BY <1>1, <1>2 DEF OwnerInv

\* Nothing of the handlers changes.
LEMMA OwnerStays ==
  ASSUME OwnerInv, ClientInv',
         UNCHANGED <<configVars, pauseVars, requesterVars, screenVars, call, to_test,
                     test_pc, query, queries>>,
         sock'[Test] = sock[Test], buf'[Test] = buf[Test],
         pc' = "check" => call = NoCall
  PROVE  OwnerInv'
<1>1. PICK p \in Places : OwedAt(p)
  BY DEF OwnerInv
<1>2. TokenInv'
  BY DEF OwnerInv, TokenInv, AnswerHasToken, pauseVars, requesterVars, screenVars
<1>3. MayHold(p)' /\ call' = call
  BY <1>1 DEF OwedAt, MayHold, pauseVars, requesterVars, screenVars
<1>4. Settled(p, p)
  BY DEF Settled
<1> QED
  BY <1>1, <1>2, <1>3, <1>4, OwnerMoves

LEMMA OwnerAsk ==
  ASSUME TypeOK, OwnerInv, NEW cmd \in TestCommands, NEW arg, Ask(cmd, arg)
  PROVE  OwnerInv'
<1> DEFINE m == [cmd |-> cmd, token |-> <<Test, queries + 1>>, arg |-> arg]
<1>1. PICK p \in Places : OwedAt(p)
  BY DEF OwnerInv
<1>2. p = "nobody" /\ sock[Test] = <<>>
  BY <1>1 DEF OwedAt, Ask
<1>3. sock'[Test] = <<m>> /\ sock'[Cmd] = sock[Cmd]
  BY <1>2, FdsDistinct DEF TypeOK, Channels, Ask, Send
<1>4. /\ UNCHANGED <<handlerVars, pc, buf, sent>>
      /\ query' = m /\ queries' = queries + 1 /\ test_pc' = "waiting"
  BY DEF Ask, loopVars
<1>5. /\ call.fd # Test /\ backend_requester # Test /\ ~tags
      /\ postponed_answer_fd # Test /\ to_test = <<>>
  BY <1>1, <1>2 DEF OwedAt, MayHold
<1>6. UNCHANGED <<call, backend_requester, backend_requester_token, tags,
                  active_check_screen_token, postponed_answer_fd, postponed_token,
                  postponed_command, to_test>>
  BY <1>4 DEF handlerVars, pauseVars, requesterVars, screenVars
<1>7. TokenInv'
  BY <1>5, <1>6, NamesDistinct DEF OwnerInv, TokenInv, AnswerHasToken
<1>8. OwedAt("socket")'
  BY <1>4, <1>5, <1>6 DEF OwedAt, MayHold
<1>9. AskedInv'
  BY <1>3, <1>4, <1>6 DEF OwnerInv, AskedInv
<1>10. ClientInv'
  BY <1>3, <1>4, ClientStays DEF OwnerInv
<1> QED
  BY <1>7, <1>8, <1>9, <1>10 DEF OwnerInv, Places

LEMMA OwnerReceive ==
  ASSUME TypeOK, OwnerInv, ReceiveAnswer
  PROVE  OwnerInv'
<1>1. PICK p \in Places : OwedAt(p)
  BY DEF OwnerInv
<1>2. p = "answer" /\ sock[Test] = <<>>
  BY <1>1 DEF ReceiveAnswer, OwedAt, MayHold
<1>3. to_test' = <<>> /\ Len(to_test') <= 1
  BY DEF ReceiveAnswer, OwnerInv, TokenInv, TypeOK, HandlerTypeOK, OutputTypeOK
<1>4. UNCHANGED <<call, backend_requester, backend_requester_token, tags,
                  active_check_screen_token, postponed_answer_fd, postponed_token,
                  postponed_command, sock, buf, query, queries, pc, sent>>
      /\ test_pc' # "waiting"
  BY DEF ReceiveAnswer, loopVars, pauseVars, requesterVars, screenVars
<1>5. TokenInv'
  BY <1>3, <1>4 DEF OwnerInv, TokenInv, AnswerHasToken
<1>6. OwedAt("nobody")'
  BY <1>1, <1>2, <1>3, <1>4 DEF OwedAt, MayHold
<1>7. AskedInv'
  BY <1>4 DEF OwnerInv, AskedInv
<1>8. ClientInv'
  BY <1>4, ClientStays DEF OwnerInv
<1> QED
  BY <1>5, <1>6, <1>7, <1>8 DEF OwnerInv, Places

LEMMA OwnerAutotestStep ==
  ASSUME TypeOK, OwnerInv, AutotestStep
  PROVE  OwnerInv'
<1>1. ASSUME NEW cmd \in {"backend", "check_screen", "set_current_test",
                          "pause_test_execution", "status",
                          "is_configured_to_pause_on_timeout", "report_timeout",
                          "tests_done"}
      PROVE  cmd \in TestCommands
  BY DEF TestCommands, PureQueries
<1>2. ASSUME NEW cmd \in TestCommands, NEW arg, Ask(cmd, arg)
      PROVE  OwnerInv'
  BY <1>2, OwnerAsk
<1>3. CASE AskQuery
  BY <1>1, <1>2, <1>3 DEF AskQuery
<1>4. CASE AskAboutTimeout
  BY <1>1, <1>2, <1>4 DEF AskAboutTimeout
<1>5. CASE AskReportTimeout
  BY <1>1, <1>2, <1>5 DEF AskReportTimeout
<1>6. CASE AskTestsDone
  BY <1>1, <1>2, <1>6 DEF AskTestsDone
<1> QED
  BY <1>3, <1>4, <1>5, <1>6, OwnerReceive DEF AutotestStep

LEMMA OwnerClientSends ==
  ASSUME TypeOK, OwnerInv, ClientSends
  PROVE  OwnerInv'
<1>1. ClientInv'
  BY ClientNumbers DEF OwnerInv
<1>2. /\ UNCHANGED <<handlerVars, test_pc, query, queries, buf, pc>>
      /\ sock'[Test] = sock[Test]
  BY FdsDistinct DEF ClientSends, Send, testVars, loopVars, TypeOK, Channels
<1>3. UNCHANGED <<configVars, pauseVars, requesterVars, screenVars, call, to_test>>
  BY <1>2 DEF handlerVars
<1> QED
  BY <1>1, <1>2, <1>3, OwnerStays DEF OwnerInv, AskedInv

LEMMA OwnerBackendStep ==
  ASSUME TypeOK, OwnerInv, BackendStep
  PROVE  OwnerInv'
<1>1. /\ UNCHANGED <<configVars, pauseVars, requesterVars, screenVars, call, to_test,
                     test_pc, query, queries, buf, pc, sent>>
      /\ sock'[Test] = sock[Test] /\ sock'[Cmd] = sock[Cmd]
  BY FdsDistinct
     DEF BackendStep, BackendAnswersCall, BackendTakes, BackendReplies, Send, testVars,
         loopVars, handlerVars, TypeOK, Channels
<1>2. ClientInv'
  BY <1>1, ClientStays DEF OwnerInv
<1> QED
  BY <1>1, <1>2, OwnerStays DEF OwnerInv, AskedInv

LEMMA OwnerServeTest ==
  ASSUME TypeOK, OwnerInv, ServeCommand(Test)
  PROVE  OwnerInv'
<1>1. PICK p \in Places : OwedAt(p)
  BY DEF OwnerInv
<1>2. ReadJson(Test) /\ Readable(Test) # <<>> /\ buf[Test] = <<>>
  BY DEF ServeCommand, ReadJson, OwnerInv, AskedInv
<1>3. p = "socket" /\ sock[Test] = <<query>> /\ test_pc = "waiting"
  BY <1>1, <1>2 DEF Readable, OwnerInv, AskedInv, OwedAt
<1>4. query \in Messages /\ query.cmd \in TestCommands
  <2>1. Head(sock[Test]) = query /\ sock[Test] # <<>>
    BY <1>3
  <2>2. query \in Messages
    BY <2>1, ChannelHead, FdsDistinct DEF TypeOK
  <2> QED
    BY <1>3, <2>2 DEF OwnerInv, AskedInv
<1>5. Asked
  BY <1>1, <1>3, <1>4
     DEF Asked, ServeCommand, ServedNext, Idle, TypeOK, OwnerInv, OwedAt
<1>6. ProcessCommand(Test, query)
  BY <1>2, <1>3 DEF ServeCommand, Readable
<1>7. UNCHANGED <<test_pc, query, queries, pc, sent>> /\ pc = "serve"
  BY DEF ServeCommand, ServedNext, testVars
<1>8. /\ TokenInv'
      /\ \E q \in {"socket", "call", "requester", "postponed", "answer"} : MayHold(q)'
  BY <1>5, <1>6, <1>7, TokenOfTest
<1>9. PICK q \in {"socket", "call", "requester", "postponed", "answer"} : MayHold(q)'
  BY <1>8
<1>10. /\ sock'[Test] = <<>> /\ sock'[Cmd] = sock[Cmd]
       /\ buf'[Test] = <<>> /\ buf'[Cmd] = buf[Cmd]
  BY <1>2, <1>3, FdsDistinct DEF ReadJson, Readable, TypeOK, Channels
<1>11. AskedInv'
  BY <1>7, <1>10 DEF OwnerInv, AskedInv
<1>12. ClientInv'
  BY <1>7, <1>10, ClientStays DEF OwnerInv
<1>13. OwedAt(q)'
  BY <1>3, <1>7, <1>9, <1>10 DEF OwedAt
<1> QED
  BY <1>8, <1>11, <1>12, <1>13 DEF OwnerInv, Places

LEMMA OwnerServeClient ==
  ASSUME TestOnly, TypeOK, OwnerInv, ServeCommand(Cmd)
  PROVE  OwnerInv'
<1> DEFINE m == Head(Readable(Cmd))
<1>1. PICK p \in Places : OwedAt(p)
  BY DEF OwnerInv
<1>2. UNCHANGED <<test_pc, query, queries, pc, sent>> /\ pc = "serve" /\ call = NoCall
  BY DEF ServeCommand, ServedNext, Idle, testVars
<1>3. ReadJson(Cmd) /\ ProcessCommand(Cmd, m)
  BY DEF ServeCommand
<1>4. ClientInv' /\ m \in Messages /\ m.cmd # "check_screen"
  BY <1>2, <1>3, ClientTakes DEF OwnerInv, TestOnly
<1>5. TokenInv' /\ \E q \in Places : MayHold(q)' /\ Settled(p, q)
  BY <1>1, <1>2, <1>3, <1>4, TokenOfClient DEF TypeOK, OwnerInv, OwedAt
<1>6. PICK q \in Places : MayHold(q)' /\ Settled(p, q)
  BY <1>5
<1>7. sock'[Test] = sock[Test] /\ buf'[Test] = buf[Test]
  BY <1>3, FdsDistinct DEF ReadJson, TypeOK, Channels
<1> QED
  BY <1>1, <1>2, <1>4, <1>5, <1>6, <1>7, OwnerMoves

LEMMA OwnerLoopStep ==
  ASSUME TestOnly, TypeOK, OwnerInv, LoopStep
  PROVE  OwnerInv'
<1>1. PICK p \in Places : OwedAt(p)
  BY DEF OwnerInv
<1> DEFINE Apart == /\ sock'[Test] = sock[Test] /\ buf'[Test] = buf[Test]
                    /\ sock'[Cmd] = sock[Cmd] /\ buf'[Cmd] = buf[Cmd]
           Rest == UNCHANGED <<test_pc, query, queries, sent>>
<1>2. Apart /\ Rest => ClientInv'
  BY ClientStays DEF OwnerInv
<1>3. ASSUME UNCHANGED handlerVars, Apart, Rest, pc' = "check" => call = NoCall
      PROVE  OwnerInv'
  <2>1. UNCHANGED <<configVars, pauseVars, requesterVars, screenVars, call, to_test>>
    BY <1>3 DEF handlerVars
  <2> QED
    BY <1>2, <1>3, <2>1, OwnerStays
<1>4. CASE Select \/ CheckLater \/ EndOfServing \/ LoopEnds
  <2>1. /\ UNCHANGED <<handlerVars, sock, buf>> /\ Rest
        /\ pc' = "check" => call = NoCall
    BY <1>4 DEF Select, CheckLater, EndOfServing, LoopEnds, Idle, testVars
  <2> QED
    BY <1>3, <2>1, ChannelsApart
<1>5. CASE CallSysread
  <2>1. /\ UNCHANGED <<handlerVars, pc>> /\ Rest
        /\ buf' = [buf EXCEPT ![BackendOut] = sock[BackendOut]]
        /\ sock' = [sock EXCEPT ![BackendOut] = <<>>]
    BY <1>5 DEF CallSysread, loopVars, testVars
  <2> QED
    BY <1>3, <2>1, ChannelsApart DEF OwnerInv, AskedInv
<1>6. CASE CallInterleaved
  <2>1. /\ UNCHANGED <<handlerVars, sock, pc>> /\ Rest
        /\ buf' = [buf EXCEPT ![BackendOut] = Tail(@)]
    BY <1>6 DEF CallInterleaved, testVars
  <2> QED
    BY <1>3, <2>1, ChannelsApart DEF OwnerInv, AskedInv
<1>7. CASE ServeBackend \/ ServeInterleaved
  <2>1. /\ ReadJson(BackendOut) \/ UNCHANGED <<sock, buf>>
        /\ Rest /\ pc' # "check" /\ SendToBackendRequester
    BY <1>7 DEF ServeBackend, ServeInterleaved, ServedNext, testVars
  <2>2. TokenInv' /\ \E q \in Places : MayHold(q)' /\ Settled(p, q)
    BY <1>1, <2>1, TokenOfReply DEF TypeOK, OwnerInv, OwedAt
  <2>3. PICK q \in Places : MayHold(q)' /\ Settled(p, q)
    BY <2>2
  <2> QED
    BY <1>1, <1>2, <2>1, <2>2, <2>3, ChannelsApart, OwnerMoves
<1>8. CASE CheckNow
  <2>1. UNCHANGED <<sock, buf>> /\ Rest /\ pc' # "check" /\ CheckAssertedScreen
        /\ call = NoCall
    BY <1>8 DEF CheckNow, testVars, OwnerInv, AskedInv
  <2>2. TokenInv' /\ MayHold(p)' /\ Settled(p, p)
    BY <1>1, <2>1, TokenOfCheck DEF OwnerInv, OwedAt, Settled
  <2> QED
    BY <1>1, <1>2, <2>1, <2>2, ChannelsApart, OwnerMoves
<1>9. CASE CallReturns
  <2> DEFINE verdict == Head(buf[BackendOut]).verdict
  <2>1. verdict \in Verdicts
    BY <1>9, ChannelHead, FdsDistinct DEF CallReturns, TypeOK, Replies
  <2>2. /\ UNCHANGED sock /\ buf' = [buf EXCEPT ![BackendOut] = Tail(@)]
        /\ Rest /\ FinishCall(verdict) /\ call # NoCall /\ call' = NoCall
    BY <1>9 DEF CallReturns, Idle, testVars, FinishCall
  <2>3. TokenInv' /\ \E q \in Places : MayHold(q)' /\ Settled(p, q)
    BY <1>1, <2>1, <2>2, TokenOfCall DEF TypeOK, OwnerInv, OwedAt
  <2>4. PICK q \in Places : MayHold(q)' /\ Settled(p, q)
    BY <2>3
  <2> QED
    BY <1>1, <1>2, <2>2, <2>3, <2>4, ChannelsApart, OwnerMoves
<1> QED
  BY <1>4, <1>5, <1>6, <1>7, <1>8, <1>9, OwnerServeTest, OwnerServeClient DEF LoopStep

LEMMA OwnerNext ==
  ASSUME TestOnly, TypeOK, OwnerInv, [Next]_vars
  PROVE  OwnerInv'
<1>1. CASE UNCHANGED vars
  <2>1. UNCHANGED <<configVars, pauseVars, requesterVars, screenVars, call, to_test,
                    test_pc, query, queries, sock, buf, pc, sent>>
    BY <1>1 DEF vars, handlerVars, loopVars, testVars
  <2>2. ClientInv'
    BY <2>1, ClientStays DEF OwnerInv
  <2> QED
    BY <2>1, <2>2, OwnerStays DEF OwnerInv, AskedInv
<1> QED
  BY <1>1, OwnerAutotestStep, OwnerClientSends, OwnerBackendStep, OwnerLoopStep DEF Next

LEMMA OwnerAlways ==
  ASSUME TestOnly
  PROVE  Spec => []OwnerInv
<1>1. TypeOK /\ OwnerInv /\ [Next]_vars => OwnerInv'
  BY OwnerNext
<1> QED
  BY <1>1, OwnerInit, TypeCorrect, PTL DEF Spec

\* Whatever clients send, as long as it is not check_screen, and however much: every
\* answer on its way to autotest has the token of the query autotest waits with,
\* so that query_isotovideo may take it without a look at the token.
THEOREM AnswersAreOwn ==
  ASSUME TestOnly
  PROVE  Spec => []AnswerHasToken
<1>1. OwnerInv => AnswerHasToken
  BY DEF OwnerInv, TokenInv
<1> QED
  BY <1>1, OwnerAlways, PTL
-----------------------------------------------------------------------------
(* The test in a pause                                                       *)

\* A command of a client that leaves the query held back sends the backend nothing
\* but its own command, or a call for it.
LEMMA HeldOfClient ==
  ASSUME NEW m, postponed_answer_fd = Test, postponed_answer_fd' = Test,
         ProcessCommand(Cmd, m)
  PROVE  /\ to_test' = to_test
         /\ \/ to_backend' = to_backend
            \/ \E r : to_backend' = Append(to_backend, r) /\ r.token \in {m.token, CallToken}
<1> USE NamesDistinct
<1>1. CASE BackendCommand(Cmd, m)
  BY <1>1 DEF BackendCommand, PostponeBackendCommand, HoldAnswer, ForwardToBackend,
              BackendQueueMissing
<1>2. CASE CheckScreen(Cmd, m)
  BY <1>2 DEF CheckScreen, PostponeBackendCommand, HoldAnswer, StartScreenCheck, CallBackend
<1>3. CASE SetCurrentTest(Cmd, m) \/ SetAssertScreenTimeout(Cmd, m)
  BY <1>3 DEF SetCurrentTest, SetAssertScreenTimeout, CallBackend
<1>4. CASE ReportTimeout(Cmd, m) \/ PauseTestExecution(Cmd, m)
  BY <1>4 DEF ReportTimeout, PauseTestExecution, RespondOnly, SendResponse, Delivered,
              PauseNow, HoldAnswer
<1>5. CASE Setting(Cmd, m) \/ PureQuery(Cmd, m)
  BY <1>5 DEF Setting, PureQuery, RespondOnly, SendResponse, Delivered
<1>6. ~TestsDone(Cmd, m)
  BY DEF TestsDone, ReleaseAnswer, HoldAnswer
<1>7. CASE ResumeTestExecution(Cmd, m)
  <2>1. ~ResumeNothing(Cmd, m) /\ ~ResumeAnswer(Cmd, m)
    BY DEF ResumeNothing, ResumeAnswer, ReleaseAnswer, HoldAnswer
  <2>2. CASE ResumeCommand(Cmd, m)
    BY <2>2 DEF ResumeCommand, SendResponse, Delivered, PostponeBackendCommand,
                ReleaseAnswer, HoldAnswer
  <2> QED
    BY <1>7, <2>1, <2>2 DEF ResumeTestExecution
<1> QED
  BY <1>1, <1>2, <1>3, <1>4, <1>5, <1>6, <1>7 DEF ProcessCommand

LEMMA HeldLoopStep ==
  ASSUME TypeOK, OwnerInv, LoopStep, postponed_answer_fd = Test, postponed_answer_fd' = Test
  PROVE  /\ to_test' = to_test
         /\ \/ to_backend' = to_backend
            \/ \E r : to_backend' = Append(to_backend, r) /\ r.token # query.token
<1>1. /\ sock[Test] = <<>> /\ buf[Test] = <<>> /\ call.fd # Test
      /\ backend_requester # Test /\ ~tags /\ query.token = <<Test, queries>>
  BY DEF OwnerInv, OwedAt, MayHold, AskedInv
<1>2. CASE Select \/ CheckLater \/ EndOfServing \/ LoopEnds \/ CallSysread \/ CallInterleaved
  BY <1>2 DEF Select, CheckLater, EndOfServing, LoopEnds, CallSysread, CallInterleaved,
              handlerVars
<1>3. ~ServeCommand(Test) /\ ~CheckNow
  BY <1>1 DEF ServeCommand, ReadJson, Readable, CheckNow, CheckAssertedScreen
<1>4. CASE ServeCommand(Cmd)
  <2> DEFINE m == Head(Readable(Cmd))
  <2>1. ReadJson(Cmd) /\ ProcessCommand(Cmd, m) /\ sent' = sent
    BY <1>4 DEF ServeCommand
  <2>2. m.token = <<Cmd, taken + 1>>
    BY <2>1, ClientTakes DEF OwnerInv
  <2>3. m.token # query.token /\ CallToken # query.token
    BY <1>1, <2>2 DEF CallToken, Test, Cmd
  <2> QED
    BY <2>1, <2>3, HeldOfClient
<1>5. CASE ServeBackend \/ ServeInterleaved
  BY <1>1, <1>5
     DEF ServeBackend, ServeInterleaved, SendToBackendRequester, SendResponse, Delivered
<1>6. CASE CallReturns
  <2>1. PICK verdict : FinishCall(verdict)
    BY <1>6 DEF CallReturns
  <2>2. to_backend' = to_backend
    BY <2>1 DEF FinishCall
  <2>3. call.cmd # "check_asserted_screen"
    BY <1>1 DEF OwnerInv, TokenInv
  <2>4. to_test' = to_test
    BY <1>1, <2>1, <2>3
       DEF FinishCall, EnterTest, RespondOnly, SendResponse, Delivered
  <2> QED
    BY <2>2, <2>4
<1> QED
  BY <1>2, <1>3, <1>4, <1>5, <1>6 DEF LoopStep

\* As long as autotest's query stays held back, whatever clients send but
\* check_screen, autotest gets no answer and none of its commands goes to the backend.
THEOREM PauseHoldsTest ==
  ASSUME TestOnly
  PROVE  Spec => HeldTestStands
<1> DEFINE Stands == postponed_answer_fd = Test /\ postponed_answer_fd' = Test
                       => /\ to_test' = to_test
                          /\ \A i \in DOMAIN to_backend' \ DOMAIN to_backend :
                               to_backend'[i].token # query.token
<1>1. ASSUME TypeOK, OwnerInv, [Next]_vars
      PROVE  Stands
  <2> SUFFICES ASSUME postponed_answer_fd = Test, postponed_answer_fd' = Test
               PROVE  /\ to_test' = to_test
                      /\ \A i \in DOMAIN to_backend' \ DOMAIN to_backend :
                           to_backend'[i].token # query.token
    OBVIOUS
  <2>1. to_backend \in Seq(Requests)
    BY <1>1 DEF TypeOK, HandlerTypeOK, OutputTypeOK
  <2>2. test_pc = "waiting" /\ to_test = <<>>
    BY <1>1 DEF OwnerInv, OwedAt, MayHold
  <2>3. /\ to_test' = to_test
        /\ \/ to_backend' = to_backend
           \/ to_backend # <<>> /\ to_backend' = Tail(to_backend)
           \/ \E r : to_backend' = Append(to_backend, r) /\ r.token # query.token
    <3>1. CASE UNCHANGED vars \/ ClientSends
      BY <3>1 DEF vars, handlerVars, ClientSends
    <3>2. ~AutotestStep
      BY <2>2 DEF AutotestStep, AskQuery, AskAboutTimeout, AskReportTimeout, AskTestsDone,
                  Ask, ReceiveAnswer
    <3>3. CASE BackendStep
      BY <3>3 DEF BackendStep, BackendAnswersCall, BackendTakes, BackendReplies, handlerVars
    <3> QED
      BY <1>1, <3>1, <3>2, <3>3, HeldLoopStep DEF Next
  <2>4. CASE to_backend' = to_backend
    BY <2>3, <2>4
  <2>5. CASE to_backend # <<>> /\ to_backend' = Tail(to_backend)
    <3>1. DOMAIN to_backend' \subseteq DOMAIN to_backend
      BY <2>1, <2>5
    <3> QED
      BY <2>3, <3>1
  <2>6. ASSUME NEW r, to_backend' = Append(to_backend, r), r.token # query.token
        PROVE  \A i \in DOMAIN to_backend' \ DOMAIN to_backend :
                 to_backend'[i].token # query.token
    <3>1. /\ DOMAIN to_backend' = 1..(Len(to_backend) + 1)
          /\ DOMAIN to_backend = 1..Len(to_backend) /\ Len(to_backend) \in Nat
          /\ to_backend'[Len(to_backend) + 1] = r
      BY <2>1, <2>6
    <3>2. \A i \in DOMAIN to_backend' \ DOMAIN to_backend : i = Len(to_backend) + 1
      BY <3>1
    <3> QED
      BY <2>6, <3>1, <3>2
  <2> QED
    BY <2>3, <2>4, <2>5, <2>6
<1>2. Spec => []TypeOK /\ []OwnerInv
  BY TypeCorrect, OwnerAlways, PTL
<1>3. TypeOK /\ OwnerInv /\ [Next]_vars => [Stands]_vars
  BY <1>1
<1> QED
  BY <1>2, <1>3, PTL DEF Spec, HeldTestStands
-----------------------------------------------------------------------------
(* The way of a command through the backend                                  *)

TokensIn(s) == { s[i].token : i \in DOMAIN s }
Unique(s) == \A i, j \in DOMAIN s : s[i].token = s[j].token => i = j

LEMMA TokensEmpty == TokensIn(<<>>) = {} /\ Unique(<<>>)
<1>1. DOMAIN <<>> = {}
  OBVIOUS
<1> QED
  BY <1>1, Zenon DEF TokensIn, Unique

LEMMA TokensNone ==
  ASSUME NEW S, NEW s \in Seq(S), TokensIn(s) = {}
  PROVE  s = <<>>
<1>1. Len(s) \in Nat /\ DOMAIN s = 1..Len(s)
  OBVIOUS
<1>2. DOMAIN s = {}
  BY Zenon DEF TokensIn
<1> QED
  BY <1>1, <1>2

LEMMA TokensAppend ==
  ASSUME NEW S, NEW s \in Seq(S), NEW m \in S, Unique(s), m.token \notin TokensIn(s)
  PROVE  TokensIn(Append(s, m)) = TokensIn(s) \cup {m.token} /\ Unique(Append(s, m))
<1> DEFINE t == Append(s, m)
<1>1. /\ Len(s) \in Nat /\ DOMAIN s = 1..Len(s) /\ DOMAIN t = 1..(Len(s) + 1)
      /\ \A i \in 1..Len(s) : t[i] = s[i]
      /\ t[Len(s) + 1] = m
  OBVIOUS
<1>2. DOMAIN t = DOMAIN s \cup {Len(s) + 1} /\ Len(s) + 1 \notin DOMAIN s
  BY <1>1
<1>3. \A i \in DOMAIN s : t[i] = s[i]
  BY <1>1
<1> HIDE DEF t
<1>4. TokensIn(t) = TokensIn(s) \cup {m.token}
  BY <1>1, <1>2, <1>3 DEF TokensIn
<1>5. \A i \in DOMAIN s : s[i].token # m.token
  BY DEF TokensIn
<1>6. Unique(t)
  BY <1>1, <1>2, <1>3, <1>5, Zenon DEF Unique
<1> QED
  BY <1>4, <1>6 DEF t

LEMMA TokensTail ==
  ASSUME NEW S, NEW s \in Seq(S), s # <<>>, Unique(s)
  PROVE  /\ TokensIn(Tail(s)) = TokensIn(s) \ {Head(s).token} /\ Unique(Tail(s))
         /\ Head(s).token \in TokensIn(s)
<1> DEFINE t == Tail(s)
<1>1. /\ Len(s) \in Nat /\ Len(s) >= 1 /\ DOMAIN s = 1..Len(s)
      /\ DOMAIN t = 1..(Len(s) - 1) /\ Head(s) = s[1]
      /\ \A i \in 1..(Len(s) - 1) : t[i] = s[i + 1]
  OBVIOUS
<1> HIDE DEF t
<1>2. /\ 1 \in DOMAIN s
      /\ \A i \in DOMAIN t : i + 1 \in DOMAIN s /\ i + 1 # 1 /\ t[i] = s[i + 1]
  BY <1>1
<1>3. \A j \in DOMAIN s : j = 1 \/ (j - 1 \in DOMAIN t /\ t[j - 1] = s[j])
  BY <1>1
<1>4. Unique(t)
  <2> SUFFICES ASSUME NEW i \in DOMAIN t, NEW j \in DOMAIN t, t[i].token = t[j].token
               PROVE  i = j
    BY DEF Unique
  <2>1. i + 1 = j + 1
    BY <1>2 DEF Unique
  <2> QED
    BY <1>1, <2>1
<1>5. TokensIn(t) \subseteq TokensIn(s) \ {s[1].token}
  <2> SUFFICES ASSUME NEW i \in DOMAIN t
               PROVE  t[i].token \in TokensIn(s) \ {s[1].token}
    BY DEF TokensIn
  <2>1. s[i + 1].token # s[1].token
    BY <1>2 DEF Unique
  <2> QED
    BY <1>2, <2>1 DEF TokensIn
<1>6. TokensIn(s) \ {s[1].token} \subseteq TokensIn(t)
  <2> SUFFICES ASSUME NEW j \in DOMAIN s, s[j].token # s[1].token
               PROVE  s[j].token \in TokensIn(t)
    BY DEF TokensIn
  <2>1. j - 1 \in DOMAIN t /\ t[j - 1] = s[j]
    BY <1>3
  <2> QED
    BY <2>1 DEF TokensIn
<1>7. s[1].token \in TokensIn(s)
  BY <1>2 DEF TokensIn
<1> QED
  BY <1>1, <1>4, <1>5, <1>6, <1>7 DEF t

\* Where a forwarded command or the reply to it may be, and a call of a handler
ForwardPlaces == {"none", "sent", "working", "sock", "buf", "interleaved"}
CallPlaces == {"none", "sent", "sock", "buf"}

TokensAt(f, c, at) ==
  (IF f = at THEN {backend_requester_token} ELSE {}) \cup
  (IF c = at THEN {call.token} ELSE {})

\* The forwarded command is at f and nowhere else, the call at c.
PathAt(f, c) ==
  /\ f = "none" <=> backend_requester = None
  /\ c = "none" <=> call = NoCall
  /\ TokensIn(to_backend) = TokensAt(f, c, "sent") /\ Unique(to_backend)
  /\ working = TokensAt(f, c, "working")
  /\ TokensIn(sock[BackendOut]) = TokensAt(f, c, "sock") /\ Unique(sock[BackendOut])
  /\ TokensIn(buf[BackendOut]) = TokensAt(f, c, "buf") /\ Unique(buf[BackendOut])
  /\ TokensIn(interleaved) = TokensAt(f, c, "interleaved") /\ Unique(interleaved)
  /\ \A i \in DOMAIN to_backend :
       IF to_backend[i].cmd = "backend"
       THEN f = "sent" /\ to_backend[i].token = backend_requester_token
       ELSE c = "sent" /\ to_backend[i].token = call.token

PathInv ==
  loop =>
    /\ backend_requester # None /\ call # NoCall => backend_requester_token # call.token
    /\ \E f \in ForwardPlaces, c \in CallPlaces : PathAt(f, c)

\* The clients' commands that have been processed
SpentTokens == {Cmd} \X (1..taken)

\* The slots for commands hold tokens of clients only from such commands.
SpentInv ==
  loop =>
    /\ backend_requester = Cmd => backend_requester_token \in SpentTokens
    /\ postponed_answer_fd = Cmd /\ postponed_command # NoCommand =>
         postponed_command.token \in SpentTokens

LEMMA RequesterTokens ==
  ASSUME OwnerInv, SpentInv, loop
  PROVE  /\ backend_requester = Test => backend_requester_token = <<Test, queries>>
         /\ backend_requester = Cmd => backend_requester_token \in SpentTokens
         /\ backend_requester \in {Test, Cmd} =>
              backend_requester_token # CallToken /\ backend_requester_token # NoToken
<1>1. backend_requester = Test => backend_requester_token = <<Test, queries>>
  BY DEF OwnerInv, OwedAt, MayHold, TokenInv, AnswerHasToken, AskedInv
<1> QED
  BY <1>1 DEF SpentInv, SpentTokens, CallToken, NoToken, Test, Cmd, None

\* What a handler may do with the commands for the backend, while the loop goes on
Stays == UNCHANGED <<backend_requester, backend_requester_token, call, to_backend>>

Forwards(fd, token) ==
  /\ backend_requester = None /\ backend_requester' = fd /\ backend_requester_token' = token
  /\ to_backend' = Append(to_backend, [cmd |-> "backend", token |-> token])
  /\ call' = call

CallsWith(token) ==
  /\ call'.cmd \in BackendCalls /\ call'.token = token
  /\ to_backend' = Append(to_backend, [cmd |-> call'.cmd, token |-> token])
  /\ UNCHANGED <<backend_requester, backend_requester_token>>

\* What a handler may do with the postponed command
Keeps(fd, m) ==
  \/ UNCHANGED <<postponed_answer_fd, postponed_command>>
  \/ postponed_command' = NoCommand
  \/ postponed_answer_fd' = fd /\ postponed_command' = m

LEMMA CallPath ==
  ASSUME NEW cmd \in BackendCalls, NEW token, NEW fd, NEW m, CallBackend(cmd, token, fd, m),
         UNCHANGED requesterVars
  PROVE  CallsWith(token)
BY DEF CallBackend, CallsWith, requesterVars

LEMMA PostponePath ==
  ASSUME NEW fd, NEW m, NEW reason, PostponeBackendCommand(fd, m, reason)
  PROVE  Stays /\ postponed_answer_fd' = fd /\ postponed_command' = m
BY DEF PostponeBackendCommand, HoldAnswer, Stays, requesterVars

LEMMA ForwardPath ==
  ASSUME NEW fd, NEW m, NEW reason, ForwardToBackend(fd, m, reason)
  PROVE  Forwards(fd, m.token)
BY DEF ForwardToBackend, Forwards

LEMMA ScreenPath ==
  ASSUME NEW fd, NEW m, NEW reason, StartScreenCheck(fd, m, reason)
  PROVE  CallsWith(m.token)
BY CallPath DEF StartScreenCheck, BackendCalls

LEMMA HandlerPath ==
  ASSUME HandlerTypeOK, NEW fd \in {Test, Cmd}, NEW m \in Messages,
         ProcessCommand(fd, m), loop'
  PROVE  /\ Keeps(fd, m)
         /\ \/ Stays
            \/ Forwards(fd, m.token)
            \/ /\ Forwards(postponed_answer_fd, postponed_command.token)
               /\ postponed_answer_fd # None /\ postponed_command # NoCommand
            \/ CallsWith(CallToken)
            \/ CallsWith(m.token)
            \/ /\ CallsWith(postponed_command.token)
               /\ postponed_command.cmd = "check_screen"
<1> USE NamesDistinct
<1> USE DEF Keeps
<1>1. CASE BackendCommand(fd, m)
  BY <1>1, PostponePath, ForwardPath
     DEF BackendCommand, BackendQueueMissing, ContinueUnpaused
<1>2. CASE CheckScreen(fd, m)
  BY <1>2, PostponePath, ScreenPath DEF CheckScreen, ContinueUnpaused
<1>3. CASE SetCurrentTest(fd, m) \/ SetAssertScreenTimeout(fd, m)
  <2>1. "clear_serial_buffer" \in BackendCalls /\ "set_assert_screen_timeout" \in BackendCalls
    BY DEF BackendCalls
  <2> QED
    BY <1>3, <2>1, CallPath DEF SetCurrentTest, SetAssertScreenTimeout, pauseVars
<1>4. CASE ReportTimeout(fd, m) \/ PauseTestExecution(fd, m)
  BY <1>4 DEF ReportTimeout, PauseTestExecution, RespondOnly, PauseNow, HoldAnswer, Keeps,
              Stays, requesterVars, pauseVars
<1>5. CASE Setting(fd, m) \/ PureQuery(fd, m)
  BY <1>5 DEF Setting, PureQuery, RespondOnly, Keeps, Stays, requesterVars, pauseVars
<1>6. ~TestsDone(fd, m)
  BY DEF TestsDone
<1>7. CASE ResumeTestExecution(fd, m)
  <2>1. CASE ResumeNothing(fd, m) \/ ResumeAnswer(fd, m)
    BY <2>1 DEF ResumeNothing, ResumeAnswer, ReleaseAnswer, HoldAnswer, Keeps, Stays,
                requesterVars
  <2>2. CASE ResumeCommand(fd, m)
    BY <2>2, PostponePath, ForwardPath, ScreenPath
       DEF ResumeCommand, ReleaseAnswer, HoldAnswer, BackendQueueMissing
  <2> QED
    BY <1>7, <2>1, <2>2 DEF ResumeTestExecution
<1> QED
  BY <1>1, <1>2, <1>3, <1>4, <1>5, <1>6, <1>7 DEF ProcessCommand

\* Nothing of the way changes.
LEMMA PathStays ==
  ASSUME PathInv, Stays, loop' => loop,
         UNCHANGED <<working, interleaved>>, sock'[BackendOut] = sock[BackendOut],
         buf'[BackendOut] = buf[BackendOut]
  PROVE  PathInv'
<1>1. ASSUME NEW f \in ForwardPlaces, NEW c \in CallPlaces, PathAt(f, c)
      PROVE  PathAt(f, c)'
  BY <1>1 DEF PathAt, TokensAt, Stays
<1> QED
  BY <1>1 DEF PathInv, Stays

LEMMA SpentStays ==
  ASSUME SpentInv, loop' => loop, taken' = taken,
         backend_requester' = None \/ UNCHANGED <<backend_requester, backend_requester_token>>,
         postponed_answer_fd' # Cmd \/ postponed_command' = NoCommand
           \/ UNCHANGED <<postponed_answer_fd, postponed_command>>
  PROVE  SpentInv'
BY NamesDistinct DEF SpentInv, SpentTokens

\* The loop status is never set back.
LEMMA RanBefore ==
  ASSUME NEW fd, NEW m, ProcessCommand(fd, m), loop'
  PROVE  loop
<1>1. BackendCommand(fd, m) => loop
  BY DEF BackendCommand, PostponeBackendCommand, ForwardToBackend, BackendQueueMissing
<1>2. CheckScreen(fd, m) => loop
  BY DEF CheckScreen, PostponeBackendCommand, StartScreenCheck
<1>3. ResumeTestExecution(fd, m) => loop
  BY DEF ResumeTestExecution, ResumeNothing, ResumeAnswer, ResumeCommand,
         PostponeBackendCommand, ForwardToBackend, BackendQueueMissing, StartScreenCheck
<1> QED
  BY <1>1, <1>2, <1>3
     DEF ProcessCommand, ReportTimeout, PauseTestExecution, SetCurrentTest, Setting,
         PureQuery, SetAssertScreenTimeout, TestsDone

\* A command is forwarded, the backend has no other.
LEMMA PathForward ==
  ASSUME TypeOK, PathInv, loop, call = NoCall,
         NEW fd \in {Test, Cmd}, NEW token \in Tokens, Forwards(fd, token),
         UNCHANGED <<working, interleaved>>, sock'[BackendOut] = sock[BackendOut],
         buf'[BackendOut] = buf[BackendOut]
  PROVE  PathInv'
<1>1. PICK f \in ForwardPlaces, c \in CallPlaces : PathAt(f, c)
  BY DEF PathInv
<1>2. f = "none" /\ c = "none"
  BY <1>1 DEF PathAt, Forwards
<1> DEFINE r == [cmd |-> "backend", token |-> token]
<1>3. to_backend \in Seq(Requests) /\ r \in Requests
  BY DEF TypeOK, HandlerTypeOK, OutputTypeOK, Requests, AllTokens
<1>4. /\ TokensIn(to_backend) = {} /\ Unique(to_backend) /\ to_backend = <<>>
      /\ working = {} /\ TokensIn(sock[BackendOut]) = {} /\ TokensIn(buf[BackendOut]) = {}
      /\ TokensIn(interleaved) = {}
  <2>1. TokensAt("none", "none", "sent") = {} /\ TokensAt("none", "none", "working") = {}
        /\ TokensAt("none", "none", "sock") = {} /\ TokensAt("none", "none", "buf") = {}
        /\ TokensAt("none", "none", "interleaved") = {}
    BY DEF TokensAt
  <2>2. TokensIn(to_backend) = {} /\ Unique(to_backend)
    BY <1>1, <1>2, <2>1, Zenon DEF PathAt
  <2>3. to_backend = <<>>
    BY <1>3, <2>2, TokensNone
  <2> QED
    BY <1>1, <1>2, <2>1, <2>2, <2>3, Zenon DEF PathAt
<1>5. TokensIn(to_backend') = {token} /\ Unique(to_backend')
  <2>1. Unique(to_backend) /\ r.token = token /\ token \notin TokensIn(to_backend)
    BY <1>4
  <2>2. TokensIn(to_backend') = TokensIn(to_backend) \cup {token} /\ Unique(to_backend')
    BY <1>3, <2>1, TokensAppend DEF Forwards
  <2> QED
    BY <1>4, <2>2
<1>6. /\ TokensAt("sent", "none", "sent")' = {token} /\ TokensAt("sent", "none", "working")' = {}
      /\ TokensAt("sent", "none", "sock")' = {} /\ TokensAt("sent", "none", "buf")' = {}
      /\ TokensAt("sent", "none", "interleaved")' = {}
  BY DEF TokensAt, Forwards
<1>7. \A i \in DOMAIN to_backend' : to_backend'[i] = r
  BY <1>3, <1>4 DEF Forwards
<1>8. backend_requester' # None /\ call' = NoCall /\ backend_requester_token' = token
  BY NamesDistinct DEF Forwards
<1>9. PathAt("sent", "none")'
  <2>1. /\ working' = {} /\ TokensIn(sock[BackendOut])' = {} /\ TokensIn(buf[BackendOut])' = {}
        /\ TokensIn(interleaved)' = {}
        /\ Unique(sock[BackendOut])' /\ Unique(buf[BackendOut])' /\ Unique(interleaved)'
    BY <1>1, <1>4 DEF PathAt
  <2>2. "sent" # "none"
    OBVIOUS
  <2>3. \A i \in DOMAIN to_backend' :
         to_backend'[i].cmd = "backend" /\ to_backend'[i].token = backend_requester_token'
    BY <1>7, <1>8
  <2> QED
    BY <1>5, <1>6, <1>8, <2>1, <2>2, <2>3 DEF PathAt
<1> QED
  BY <1>8, <1>9 DEF PathInv, ForwardPlaces, CallPlaces

\* A handler calls the backend, with a token that the forwarded command does not have.
LEMMA PathCall ==
  ASSUME TypeOK, PathInv, loop, call = NoCall,
         NEW token \in AllTokens, CallsWith(token),
         backend_requester # None => backend_requester_token # token,
         UNCHANGED <<working, interleaved>>, sock'[BackendOut] = sock[BackendOut],
         buf'[BackendOut] = buf[BackendOut]
  PROVE  PathInv'
<1>1. PICK f \in ForwardPlaces, c \in CallPlaces : PathAt(f, c)
  BY DEF PathInv
<1>2. c = "none"
  BY <1>1 DEF PathAt
<1> DEFINE r == [cmd |-> call'.cmd, token |-> token]
<1>3. to_backend \in Seq(Requests) /\ r \in Requests /\ r.cmd # "backend"
  BY DEF TypeOK, HandlerTypeOK, OutputTypeOK, Requests, CallsWith, BackendCalls
<1>4. TokensIn(to_backend) = IF f = "sent" THEN {backend_requester_token} ELSE {}
  BY <1>1, <1>2 DEF PathAt, TokensAt
<1>5. token \notin TokensIn(to_backend)
  BY <1>1, <1>4 DEF PathAt
<1>6. TokensIn(to_backend') = TokensIn(to_backend) \cup {token} /\ Unique(to_backend')
  <2>1. Unique(to_backend) /\ r.token = token
    BY <1>1 DEF PathAt
  <2> QED
    BY <1>3, <1>5, <2>1, TokensAppend DEF CallsWith
<1>7. /\ TokensAt(f, "sent", "sent")' = TokensIn(to_backend')
      /\ TokensAt(f, "sent", "working")' = TokensAt(f, c, "working")
      /\ TokensAt(f, "sent", "sock")' = TokensAt(f, c, "sock")
      /\ TokensAt(f, "sent", "buf")' = TokensAt(f, c, "buf")
      /\ TokensAt(f, "sent", "interleaved")' = TokensAt(f, c, "interleaved")
  BY <1>2, <1>4, <1>6 DEF TokensAt, CallsWith
<1>8. \A i \in DOMAIN to_backend' :
        (i \in DOMAIN to_backend /\ to_backend'[i] = to_backend[i]) \/ to_backend'[i] = r
  BY <1>3 DEF CallsWith
<1>9. \A i \in DOMAIN to_backend :
        f = "sent" /\ to_backend[i].token = backend_requester_token
        /\ to_backend[i].cmd = "backend"
  BY <1>1, <1>2 DEF PathAt
<1>10. call' # NoCall /\ call'.token = token
       /\ UNCHANGED <<backend_requester, backend_requester_token>>
  BY NamesDistinct DEF CallsWith, BackendCalls
<1>11. \A i \in DOMAIN to_backend' :
         IF to_backend'[i].cmd = "backend"
         THEN f = "sent" /\ to_backend'[i].token = backend_requester_token'
         ELSE to_backend'[i].token = call'.token
  BY <1>3, <1>8, <1>9, <1>10
<1>12. PathAt(f, "sent")'
  BY <1>1, <1>6, <1>7, <1>10, <1>11 DEF PathAt
<1> QED
  BY <1>10, <1>12 DEF PathInv, CallPlaces

LEMMA PathServe ==
  ASSUME TypeOK, OwnerInv, SpentInv, PathInv, loop',
         NEW fd \in {Test, Cmd}, NEW m \in Messages,
         fd = Test => m.token = <<Test, queries>> /\ backend_requester # Test,
         fd = Cmd => m.token = <<Cmd, taken + 1>> /\ taken' = taken + 1 /\ taken \in Nat,
         fd = Test => taken' = taken,
         call = NoCall, ProcessCommand(fd, m),
         UNCHANGED <<working, interleaved>>, sock'[BackendOut] = sock[BackendOut],
         buf'[BackendOut] = buf[BackendOut]
  PROVE  PathInv' /\ SpentInv'
<1>1. loop
  BY RanBefore
<1>2. /\ backend_requester = Test => backend_requester_token = <<Test, queries>>
      /\ backend_requester = Cmd => backend_requester_token \in SpentTokens
      /\ backend_requester \in {Test, Cmd} => backend_requester_token # CallToken
  BY <1>1, RequesterTokens
<1>3. backend_requester \in {Test, Cmd, None} /\ postponed_answer_fd \in {Test, Cmd, None}
      /\ postponed_command \in Messages \cup {NoCommand} /\ HandlerTypeOK
  BY DEF TypeOK, HandlerTypeOK, SlotTypeOK, PauseTypeOK
<1>4. SpentTokens \subseteq SpentTokens' /\ (fd = Cmd => m.token \in SpentTokens')
  <2>1. CASE fd = Test
    BY <2>1, NamesDistinct DEF SpentTokens
  <2>2. CASE fd = Cmd
    <3>1. taken \in Nat /\ taken' = taken + 1
      BY <2>2
    <3>2. 1..taken \subseteq 1..(taken + 1) /\ taken + 1 \in 1..(taken + 1)
      BY <3>1
    <3>3. m.token = <<Cmd, taken + 1>> /\ fd # Test
      BY <2>2, NamesDistinct
    <3>4. SpentTokens' = {Cmd} \X (1..(taken + 1))
      BY <3>1 DEF SpentTokens
    <3> QED
      BY <3>2, <3>3, <3>4 DEF SpentTokens
  <2> QED
    BY <2>1, <2>2
<1>5. Keeps(fd, m)
  BY <1>3, HandlerPath
<1>6. postponed_answer_fd' = Cmd /\ postponed_command' # NoCommand =>
        postponed_command'.token \in SpentTokens'
  BY <1>1, <1>4, <1>5 DEF Keeps, SpentInv
<1>7. m.token \in Tokens /\ m.token \in AllTokens /\ CallToken \in AllTokens
  BY MessageTyped, TokensTyped
<1>8. CASE Stays
  <2>1. PathInv'
    BY <1>1, <1>8, PathStays
  <2> QED
    BY <1>1, <1>4, <1>6, <1>8, <2>1 DEF SpentInv, Stays
<1>9. ASSUME NEW g \in {Test, Cmd}, NEW token \in Tokens, Forwards(g, token),
             g = Cmd => token \in SpentTokens'
      PROVE  PathInv' /\ SpentInv'
  <2>1. PathInv'
    BY <1>1, <1>9, PathForward
  <2> QED
    BY <1>6, <1>9, <2>1 DEF SpentInv, Forwards
<1>10. CASE /\ Forwards(postponed_answer_fd, postponed_command.token)
            /\ postponed_answer_fd # None /\ postponed_command # NoCommand
  <2>1. postponed_command.token \in Tokens
    BY <1>3, <1>10, MessageTyped
  <2>2. postponed_answer_fd = Cmd => postponed_command.token \in SpentTokens'
    BY <1>1, <1>4, <1>10 DEF SpentInv
  <2> QED
    BY <1>3, <1>9, <1>10, <2>1, <2>2
<1>11. ASSUME NEW token \in AllTokens, CallsWith(token),
              backend_requester # None => backend_requester_token # token
       PROVE  PathInv' /\ SpentInv'
  <2>1. PathInv'
    BY <1>1, <1>11, PathCall
  <2> QED
    BY <1>1, <1>4, <1>6, <1>11, <2>1 DEF SpentInv, CallsWith
<1>12. CASE CallsWith(m.token)
  <2>1. backend_requester # None => backend_requester_token # m.token
    BY <1>2, <1>3, NamesDistinct DEF SpentTokens, OwnerInv, ClientInv
  <2> QED
    BY <1>7, <1>11, <1>12, <2>1
<1>13. CASE CallsWith(postponed_command.token) /\ postponed_command.cmd = "check_screen"
  <2>1. postponed_command \in Messages /\ postponed_answer_fd = Test
    BY <1>3, <1>13, NoCommandIsNone DEF OwnerInv, TokenInv
  <2>2. postponed_command.token = <<Test, queries>> /\ backend_requester # Test
    BY <2>1, MessageTyped DEF OwnerInv, TokenInv, OwedAt, MayHold, AskedInv
  <2>3. backend_requester # None => backend_requester_token # postponed_command.token
    BY <1>2, <1>3, <2>2, NamesDistinct DEF SpentTokens
  <2> QED
    BY <1>11, <1>13, <2>1, <2>3, MessageTyped, TokensTyped
<1> QED
  <2>1. CASE Forwards(fd, m.token)
    BY <1>4, <1>7, <1>9, <2>1
  <2>2. CASE CallsWith(CallToken)
    BY <1>2, <1>3, <1>7, <1>11, <2>2
  <2> QED
    BY <1>3, <1>8, <1>10, <1>12, <1>13, <2>1, <2>2, HandlerPath

\* The reply of the forwarded command is taken from a sequence with nothing else.
LEMMA PathTaken ==
  ASSUME TypeOK, OwnerInv, PathInv, loop, call = NoCall,
         \/ /\ Readable(BackendOut) # <<>> /\ interleaved' = interleaved
            /\ buf'[BackendOut] = Tail(Readable(BackendOut))
            /\ sock'[BackendOut] = IF buf[BackendOut] # <<>> THEN sock[BackendOut] ELSE <<>>
         \/ /\ interleaved # <<>> /\ interleaved' = Tail(interleaved)
            /\ sock'[BackendOut] = sock[BackendOut] /\ buf'[BackendOut] = buf[BackendOut],
         backend_requester' = None, UNCHANGED <<call, to_backend, working>>
  PROVE  PathInv'
<1>1. PICK f \in ForwardPlaces, c \in CallPlaces : PathAt(f, c)
  BY DEF PathInv
<1>2. c = "none"
  BY <1>1 DEF PathAt
<1>3. sock[BackendOut] \in Seq(Replies) /\ buf[BackendOut] \in Seq(Replies)
      /\ interleaved \in Seq(Replies)
  BY DEF TypeOK, Channels, LoopTypeOK
<1>4. \A at \in {"sent", "working", "sock", "buf", "interleaved"} :
        /\ TokensAt(f, c, at) = IF f = at THEN {backend_requester_token} ELSE {}
        /\ TokensAt("none", "none", at)' = {}
  BY <1>2 DEF TokensAt
<1>5. ASSUME NEW s \in Seq(Replies), NEW at \in {"sock", "buf", "interleaved"},
             TokensIn(s) = TokensAt(f, c, at), Unique(s)
      PROVE  /\ s # <<>> => f = at /\ TokensIn(Tail(s)) = {} /\ Unique(Tail(s))
             /\ f # at => TokensIn(s) = {}
  <2>1. TokensIn(s) = IF f = at THEN {backend_requester_token} ELSE {}
    BY <1>4, <1>5
  <2> QED
    BY <1>5, <2>1, TokensTail
<1>6. /\ TokensIn(sock[BackendOut])' = {} /\ Unique(sock[BackendOut])'
      /\ TokensIn(buf[BackendOut])' = {} /\ Unique(buf[BackendOut])'
      /\ TokensIn(interleaved)' = {} /\ Unique(interleaved)'
      /\ f \in {"sock", "buf", "interleaved"}
  <2>1. /\ TokensIn(sock[BackendOut]) = TokensAt(f, c, "sock") /\ Unique(sock[BackendOut])
        /\ TokensIn(buf[BackendOut]) = TokensAt(f, c, "buf") /\ Unique(buf[BackendOut])
        /\ TokensIn(interleaved) = TokensAt(f, c, "interleaved") /\ Unique(interleaved)
    BY <1>1 DEF PathAt
  <2>2. CASE /\ interleaved # <<>> /\ interleaved' = Tail(interleaved)
             /\ sock'[BackendOut] = sock[BackendOut] /\ buf'[BackendOut] = buf[BackendOut]
    BY <1>3, <1>5, <2>1, <2>2
  <2>3. CASE /\ Readable(BackendOut) # <<>> /\ interleaved' = interleaved
             /\ buf'[BackendOut] = Tail(Readable(BackendOut))
             /\ sock'[BackendOut] = IF buf[BackendOut] # <<>> THEN sock[BackendOut] ELSE <<>>
    <3>1. CASE buf[BackendOut] # <<>>
      BY <1>3, <1>5, <2>1, <2>3, <3>1 DEF Readable
    <3>2. CASE buf[BackendOut] = <<>>
      BY <1>3, <1>5, <2>1, <2>3, <3>2, TokensEmpty DEF Readable
    <3> QED
      BY <3>1, <3>2
  <2> QED
    BY <2>2, <2>3
<1>7. TokensIn(to_backend) = {} /\ working = {}
  BY <1>1, <1>4, <1>6 DEF PathAt
<1>8. to_backend = <<>> /\ Unique(to_backend)
  BY <1>1, <1>7, TokensNone DEF PathAt, TypeOK, HandlerTypeOK, OutputTypeOK
<1>9. \A i \in DOMAIN to_backend : FALSE
  BY <1>8
<1>10. PathAt("none", "none")'
  BY <1>4, <1>6, <1>7, <1>8, <1>9 DEF PathAt
<1> QED
  BY <1>10 DEF PathInv, ForwardPlaces, CallPlaces

LEMMA PathClientsAndTest ==
  ASSUME TypeOK, OwnerInv, PathInv, SpentInv, AutotestStep \/ ClientSends
  PROVE  PathInv' /\ SpentInv'
<1>1. UNCHANGED <<configVars, pauseVars, requesterVars, call, to_backend, loop, interleaved,
                  buf, working>>
  BY DEF AutotestStep, AskQuery, AskAboutTimeout, AskReportTimeout, AskTestsDone, Ask,
         ReceiveAnswer, ClientSends, handlerVars, loopVars
<1>2. sock'[BackendOut] = sock[BackendOut]
  BY FdsDistinct
     DEF AutotestStep, AskQuery, AskAboutTimeout, AskReportTimeout, AskTestsDone, Ask, Send,
         ReceiveAnswer, ClientSends, TypeOK, Channels
<1>3. taken' = taken
  <2>1. CASE ClientSends
    BY <2>1, ClientNumbers DEF OwnerInv
  <2>2. CASE AutotestStep
    <3>1. sent' = sent /\ sock'[Cmd] = sock[Cmd] /\ buf'[Cmd] = buf[Cmd]
      BY <2>2, FdsDistinct
         DEF AutotestStep, AskQuery, AskAboutTimeout, AskReportTimeout, AskTestsDone, Ask,
             Send, ReceiveAnswer, TypeOK, Channels
    <3> QED
      BY <3>1, ClientStays DEF OwnerInv
  <2> QED
    BY <2>1, <2>2
<1>4. Stays /\ UNCHANGED <<loop, working, interleaved, postponed_answer_fd, postponed_command>>
  BY <1>1 DEF Stays, requesterVars, pauseVars
<1>5. PathInv'
  BY <1>1, <1>2, <1>4, PathStays
<1> QED
  BY <1>3, <1>4, <1>5, SpentStays DEF Stays

\* The backend takes a command, and what it sends is not on its way yet.
LEMMA PathBackendStep ==
  ASSUME TypeOK, OwnerInv, PathInv, SpentInv, BackendStep
  PROVE  PathInv' /\ SpentInv'
<1>1. /\ UNCHANGED <<pauseVars, backend_requester, backend_requester_token, call, loop,
                     interleaved, buf, sent>>
      /\ sock'[Cmd] = sock[Cmd]
  BY FdsDistinct
     DEF BackendStep, BackendAnswersCall, BackendTakes, BackendReplies, Send, loopVars,
         handlerVars, requesterVars, TypeOK, Channels
<1>2. SpentInv'
  <2>1. taken' = taken
    BY <1>1, ClientStays DEF OwnerInv
  <2> QED
    BY <1>1, <2>1, SpentStays DEF pauseVars
<1> SUFFICES ASSUME loop
             PROVE  PathInv'
  BY <1>1, <1>2 DEF PathInv
<1>3. PICK f \in ForwardPlaces, c \in CallPlaces : PathAt(f, c)
  BY DEF PathInv
<1>4. backend_requester # None /\ call # NoCall => backend_requester_token # call.token
  BY DEF PathInv
<1>5. ASSUME NEW g \in ForwardPlaces, NEW d \in CallPlaces, PathAt(g, d)'
      PROVE  PathInv'
  BY <1>1, <1>4, <1>5 DEF PathInv
<1>6. to_backend \in Seq(Requests) /\ sock[BackendOut] \in Seq(Replies)
  BY DEF TypeOK, HandlerTypeOK, OutputTypeOK, Channels
<1>7. ASSUME to_backend # <<>>, to_backend' = Tail(to_backend)
      PROVE  /\ TokensIn(to_backend') = TokensIn(to_backend) \ {Head(to_backend).token}
             /\ Unique(to_backend')
             /\ \A i \in DOMAIN to_backend' :
                  \E j \in DOMAIN to_backend : to_backend'[i] = to_backend[j]
             /\ IF Head(to_backend).cmd = "backend"
                THEN f = "sent" /\ Head(to_backend).token = backend_requester_token
                ELSE c = "sent" /\ Head(to_backend).token = call.token
  <2>1. Unique(to_backend)
    BY <1>3 DEF PathAt
  <2>2. 1 \in DOMAIN to_backend /\ Head(to_backend) = to_backend[1]
    BY <1>6, <1>7
  <2>3. \A i \in DOMAIN to_backend' :
          \E j \in DOMAIN to_backend : to_backend'[i] = to_backend[j]
    <3> TAKE i \in DOMAIN to_backend'
    <3>1. i + 1 \in DOMAIN to_backend /\ to_backend'[i] = to_backend[i + 1]
      BY <1>6, <1>7
    <3> QED
      BY <3>1
  <2>4. IF to_backend[1].cmd = "backend"
        THEN f = "sent" /\ to_backend[1].token = backend_requester_token
        ELSE c = "sent" /\ to_backend[1].token = call.token
    BY <1>3, <2>2 DEF PathAt
  <2> QED
    BY <1>6, <1>7, <2>1, <2>2, <2>3, <2>4, TokensTail<1>8. CASE \E verdict \in Verdicts : BackendAnswersCall(verdict)
  <2>1. PICK verdict \in Verdicts : BackendAnswersCall(verdict)
    BY <1>8
  <2> DEFINE r == [token |-> Head(to_backend).token, verdict |-> verdict]
  <2>2. /\ to_backend # <<>> /\ to_backend' = Tail(to_backend) /\ working' = working
        /\ Head(to_backend).cmd # "backend"
        /\ sock'[BackendOut] = Append(sock[BackendOut], r)
    BY <2>1, FdsDistinct DEF BackendAnswersCall, Send, TypeOK, Channels, BackendCalls
  <2>3. c = "sent" /\ Head(to_backend).token = call.token
    BY <1>7, <2>2
  <2>4. /\ TokensIn(to_backend) = TokensAt(f, "sent", "sent")
        /\ TokensIn(sock[BackendOut]) = TokensAt(f, "sent", "sock")
        /\ call # NoCall /\ (f # "none" => call.token # backend_requester_token)
    BY <1>3, <1>4, <2>3 DEF PathAt
  <2>5. r \in Replies /\ r.token = call.token
    <3>1. Head(to_backend) \in Requests
      BY <1>6, <2>2
    <3> QED
      BY <2>3, <3>1 DEF Replies, Requests
  <2>6. r.token \notin TokensIn(sock[BackendOut]) /\ Unique(sock[BackendOut])
    BY <1>3, <2>4, <2>5 DEF TokensAt, PathAt
  <2>7. TokensIn(sock'[BackendOut]) = TokensIn(sock[BackendOut]) \cup {call.token}
        /\ Unique(sock'[BackendOut])
    BY <1>6, <2>2, <2>5, <2>6, TokensAppend
  <2>8. /\ TokensIn(to_backend') = TokensAt(f, "sock", "sent")
        /\ TokensIn(sock'[BackendOut]) = TokensAt(f, "sock", "sock")
        /\ working' = TokensAt(f, "sock", "working")
        /\ TokensIn(buf[BackendOut]) = TokensAt(f, "sock", "buf")
        /\ TokensIn(interleaved) = TokensAt(f, "sock", "interleaved")
    BY <1>3, <1>7, <2>2, <2>3, <2>4, <2>7 DEF TokensAt, PathAt
  <2>9. ASSUME NEW i \in DOMAIN to_backend'
        PROVE  to_backend'[i].cmd = "backend" /\ f = "sent"
               /\ to_backend'[i].token = backend_requester_token
    <3>1. to_backend'[i].token \in TokensIn(to_backend')
      BY DEF TokensIn
    <3>2. to_backend'[i].token # call.token
      BY <1>7, <2>2, <2>3, <3>1
    <3> QED
      BY <1>3, <1>7, <2>2, <3>2 DEF PathAt
  <2>10. PathAt(f, "sock")'
    BY <1>1, <1>3, <1>7, <2>2, <2>4, <2>7, <2>8, <2>9 DEF PathAt, TokensAt
  <2> QED
    BY <1>5, <2>10 DEF CallPlaces
<1>9. CASE BackendTakes
  <2>1. /\ to_backend # <<>> /\ to_backend' = Tail(to_backend) /\ sock' = sock
        /\ Head(to_backend).cmd = "backend"
        /\ working' = working \cup {Head(to_backend).token}
    BY <1>9 DEF BackendTakes
  <2>2. f = "sent" /\ Head(to_backend).token = backend_requester_token
    BY <1>7, <2>1
  <2>3. c # "none" => call.token # backend_requester_token
    BY <1>3, <1>4, <2>2 DEF PathAt
  <2>4. /\ TokensIn(to_backend') = TokensAt("working", c, "sent")
        /\ TokensIn(sock[BackendOut]) = TokensAt("working", c, "sock")
        /\ working' = TokensAt("working", c, "working")
        /\ TokensIn(buf[BackendOut]) = TokensAt("working", c, "buf")
        /\ TokensIn(interleaved) = TokensAt("working", c, "interleaved")
    BY <1>3, <1>7, <2>1, <2>2, <2>3 DEF TokensAt, PathAt, CallPlaces
  <2>5. ASSUME NEW i \in DOMAIN to_backend'
        PROVE  to_backend'[i].cmd # "backend" /\ c = "sent"
               /\ to_backend'[i].token = call.token
    <3>1. to_backend'[i].token \in TokensIn(to_backend')
      BY DEF TokensIn
    <3>2. to_backend'[i].token # backend_requester_token
      BY <1>7, <2>1, <2>2, <3>1
    <3> QED
      BY <1>3, <1>7, <2>1, <3>2 DEF PathAt
  <2>6. PathAt("working", c)'
    BY <1>1, <1>3, <1>7, <2>1, <2>2, <2>4, <2>5 DEF PathAt, TokensAt
  <2> QED
    BY <1>5, <2>6 DEF ForwardPlaces
<1>10. CASE BackendReplies
  <2>1. PICK token \in working :
          /\ working' = working \ {token}
          /\ Send(BackendOut, [token |-> token, verdict |-> "nothing"])
    BY <1>10 DEF BackendReplies
  <2> DEFINE r == [token |-> token, verdict |-> "nothing"]
  <2>2. to_backend' = to_backend /\ sock'[BackendOut] = Append(sock[BackendOut], r)
    BY <1>10, <2>1, FdsDistinct DEF BackendReplies, Send, handlerVars, TypeOK, Channels
  <2>3. f = "working" /\ token = backend_requester_token /\ backend_requester # None
    BY <1>3, <2>1 DEF PathAt, TokensAt, CallPlaces
  <2>4. c # "none" => call.token # backend_requester_token
    BY <1>3, <1>4, <2>3 DEF PathAt
  <2>5. r \in Replies /\ r.token = token
    BY <2>1 DEF Replies, TypeOK, Verdicts
  <2>6. r.token \notin TokensIn(sock[BackendOut]) /\ Unique(sock[BackendOut])
    BY <1>3, <2>3, <2>4, <2>5 DEF TokensAt, PathAt
  <2>7. TokensIn(sock'[BackendOut]) = TokensIn(sock[BackendOut]) \cup {token}
        /\ Unique(sock'[BackendOut])
    BY <1>6, <2>2, <2>5, <2>6, TokensAppend
  <2>8. /\ TokensIn(to_backend) = TokensAt("sock", c, "sent")
        /\ TokensIn(sock'[BackendOut]) = TokensAt("sock", c, "sock")
        /\ working' = TokensAt("sock", c, "working")
        /\ TokensIn(buf[BackendOut]) = TokensAt("sock", c, "buf")
        /\ TokensIn(interleaved) = TokensAt("sock", c, "interleaved")
    BY <1>3, <2>1, <2>3, <2>7 DEF TokensAt, PathAt, CallPlaces
  <2>9. PathAt("sock", c)'
    BY <1>1, <1>3, <2>2, <2>3, <2>7, <2>8 DEF PathAt, TokensAt
  <2> QED
    BY <1>5, <2>9 DEF ForwardPlaces
<1> QED
  BY <1>8, <1>9, <1>10 DEF BackendStep

LEMMA PathServeCommand ==
  ASSUME TypeOK, OwnerInv, PathInv, SpentInv, NEW fd \in {Test, Cmd}, ServeCommand(fd)
  PROVE  PathInv' /\ SpentInv'
<1> DEFINE m == Head(Readable(fd))
<1>1. /\ ReadJson(fd) /\ ProcessCommand(fd, m) /\ call = NoCall
      /\ UNCHANGED <<working, interleaved, sent>>
  BY DEF ServeCommand, ServedNext, Idle
<1>2. /\ sock'[BackendOut] = sock[BackendOut] /\ buf'[BackendOut] = buf[BackendOut]
      /\ fd = Test => sock'[Cmd] = sock[Cmd] /\ buf'[Cmd] = buf[Cmd]
  BY <1>1, FdsDistinct DEF ReadJson, TypeOK, Channels
<1> SUFFICES ASSUME loop'
             PROVE  PathInv' /\ SpentInv'
  BY DEF PathInv, SpentInv
<1>3. CASE fd = Cmd
  <2>1. m \in Messages /\ m.token = <<Cmd, taken + 1>> /\ taken' = taken + 1 /\ taken \in Nat
    BY <1>1, <1>3, ClientTakes DEF OwnerInv, ClientInv
  <2> QED
    BY <1>1, <1>2, <1>3, <2>1, NamesDistinct, PathServe
<1>4. CASE fd = Test
  <2>1. Readable(Test) # <<>> /\ buf[Test] = <<>> /\ sock[Test] \in {<<>>, <<query>>}
    BY <1>1, <1>4 DEF ReadJson, OwnerInv, AskedInv
  <2>2. sock[Test] = <<query>> /\ m = query /\ sock[Test] # <<>> /\ m = Head(sock[Test])
    BY <1>4, <2>1 DEF Readable
  <2>3. m \in Messages
    BY <2>2, ChannelHead, FdsDistinct DEF TypeOK
  <2>4. query.token = <<Test, queries>> /\ backend_requester # Test
    BY <2>2 DEF OwnerInv, OwedAt, MayHold, AskedInv
  <2>5. taken' = taken
    BY <1>1, <1>2, <1>4, ClientStays DEF OwnerInv
  <2> QED
    BY <1>1, <1>2, <1>4, <2>2, <2>3, <2>4, <2>5, NamesDistinct, PathServe
<1> QED
  BY <1>3, <1>4

LEMMA PathReply ==
  ASSUME TypeOK, OwnerInv, PathInv, SpentInv, ServeBackend \/ ServeInterleaved
  PROVE  PathInv' /\ SpentInv'
<1>1. /\ call = NoCall /\ backend_requester' = None
      /\ UNCHANGED <<call, to_backend, loop, working, postponed_answer_fd, postponed_command>>
  BY DEF ServeBackend, ServeInterleaved, ServedNext, Idle, SendToBackendRequester, pauseVars
<1>2. taken' = taken
  <2>1. ReadJson(BackendOut) \/ UNCHANGED <<sock, buf>>
    BY DEF ServeBackend, ServeInterleaved
  <2>2. sent' = sent
    BY DEF ServeBackend, ServeInterleaved
  <2> QED
    BY <2>1, <2>2, ChannelsApart, ClientStays DEF OwnerInv
<1>3. SpentInv'
  BY <1>1, <1>2, SpentStays
<1>4. ASSUME loop
      PROVE  PathInv'
  <2>1. CASE ServeBackend
    <3>1. /\ Readable(BackendOut) # <<>> /\ interleaved' = interleaved
          /\ buf'[BackendOut] = Tail(Readable(BackendOut))
          /\ sock'[BackendOut] = IF buf[BackendOut] # <<>> THEN sock[BackendOut] ELSE <<>>
      BY <2>1, FdsDistinct DEF ServeBackend, ReadJson, TypeOK, Channels
    <3> QED
      BY <1>1, <1>4, <3>1, PathTaken
  <2>2. CASE ServeInterleaved
    <3>1. /\ interleaved # <<>> /\ interleaved' = Tail(interleaved)
          /\ sock'[BackendOut] = sock[BackendOut] /\ buf'[BackendOut] = buf[BackendOut]
      BY <2>2 DEF ServeInterleaved
    <3> QED
      BY <1>1, <1>4, <3>1, PathTaken
  <2> QED
    BY <2>1, <2>2
<1> QED
  BY <1>1, <1>3, <1>4 DEF PathInv

LEMMA PathCheck ==
  ASSUME TypeOK, OwnerInv, PathInv, SpentInv, CheckNow
  PROVE  PathInv' /\ SpentInv'
<1>1. /\ UNCHANGED <<backend_requester, backend_requester_token, loop, working, interleaved,
                     sock, buf, sent, postponed_answer_fd, postponed_command>>
      /\ CallBackend("check_asserted_screen", CallToken, None, NoCommand)
      /\ call = NoCall
  BY DEF CheckNow, CheckAssertedScreen, requesterVars, pauseVars, OwnerInv, AskedInv
<1>2. SpentInv'
  BY <1>1, ClientStays, SpentStays DEF OwnerInv
<1>3. CallsWith(CallToken)
  BY <1>1, CallPath DEF BackendCalls, requesterVars
<1>4. ASSUME loop
      PROVE  PathInv'
  <2>1. backend_requester # None => backend_requester_token # CallToken
    BY <1>4, RequesterTokens DEF TypeOK, HandlerTypeOK, SlotTypeOK
  <2> QED
    BY <1>1, <1>3, <1>4, <2>1, PathCall, TokensTyped
<1> QED
  BY <1>1, <1>2, <1>4 DEF PathInv

\* While a call waits, the replies move on.
LEMMA PathWaiting ==
  ASSUME TypeOK, OwnerInv, PathInv, SpentInv, CallSysread \/ CallInterleaved \/ CallReturns
  PROVE  PathInv' /\ SpentInv'
<1>1. /\ UNCHANGED <<backend_requester, backend_requester_token, to_backend, loop, working,
                     sent>>
      /\ call # NoCall
  BY DEF CallSysread, CallInterleaved, CallReturns, FinishCall, Idle, handlerVars, requesterVars
<1>2. \/ UNCHANGED sock /\ buf' = [buf EXCEPT ![BackendOut] = Tail(@)]
      \/ /\ buf' = [buf EXCEPT ![BackendOut] = sock[BackendOut]]
         /\ sock' = [sock EXCEPT ![BackendOut] = <<>>]
  BY DEF CallSysread, CallInterleaved, CallReturns
<1>3. taken' = taken
  BY <1>1, <1>2, ChannelsApart, ClientStays DEF OwnerInv
<1>4. postponed_answer_fd' # Cmd \/ postponed_command' = NoCommand
        \/ UNCHANGED <<postponed_answer_fd, postponed_command>>
  BY DEF CallSysread, CallInterleaved, CallReturns, FinishCall, EnterTest, HoldAnswer,
         RespondOnly, handlerVars, pauseVars
<1>5. SpentInv'
  BY <1>1, <1>3, <1>4, SpentStays
<1> SUFFICES ASSUME loop
             PROVE  PathInv'
  BY <1>1, <1>5 DEF PathInv
<1>6. PICK f \in ForwardPlaces, c \in CallPlaces : PathAt(f, c)
  BY DEF PathInv
<1>7. c # "none" /\ (f # "none" => backend_requester_token # call.token)
  BY <1>1, <1>6 DEF PathInv, PathAt
<1>8. /\ TokensIn(to_backend) = TokensAt(f, c, "sent") /\ Unique(to_backend)
      /\ working = TokensAt(f, c, "working")
      /\ TokensIn(sock[BackendOut]) = TokensAt(f, c, "sock") /\ Unique(sock[BackendOut])
      /\ TokensIn(buf[BackendOut]) = TokensAt(f, c, "buf") /\ Unique(buf[BackendOut])
      /\ TokensIn(interleaved) = TokensAt(f, c, "interleaved") /\ Unique(interleaved)
  BY <1>6 DEF PathAt
<1>9. sock[BackendOut] \in Seq(Replies) /\ buf[BackendOut] \in Seq(Replies)
      /\ interleaved \in Seq(Replies)
  BY DEF TypeOK, Channels, LoopTypeOK
<1>10. CASE CallSysread
  <2>1. /\ buf[BackendOut] = <<>> /\ buf'[BackendOut] = sock[BackendOut]
        /\ sock'[BackendOut] = <<>> /\ UNCHANGED <<call, interleaved>>
    BY <1>10, FdsDistinct DEF CallSysread, TypeOK, Channels, handlerVars, loopVars
  <2>2. f # "buf" /\ c # "buf"
    BY <1>8, <2>1, TokensEmpty DEF TokensAt
  <2> DEFINE g == IF f = "sock" THEN "buf" ELSE f
             d == IF c = "sock" THEN "buf" ELSE c
  <2>3. /\ TokensIn(to_backend) = TokensAt(g, d, "sent")
        /\ working = TokensAt(g, d, "working")
        /\ {} = TokensAt(g, d, "sock")
        /\ TokensIn(sock[BackendOut]) = TokensAt(g, d, "buf")
        /\ TokensIn(interleaved) = TokensAt(g, d, "interleaved")
    BY <1>8, <2>2 DEF TokensAt
  <2>4. PathAt(g, d)'
    BY <1>1, <1>6, <1>8, <2>1, <2>3, TokensEmpty DEF PathAt, TokensAt
  <2> QED
    BY <1>1, <1>7, <2>1, <2>4 DEF PathInv, ForwardPlaces, CallPlaces
<1>11. ASSUME buf[BackendOut] # <<>>, buf' = [buf EXCEPT ![BackendOut] = Tail(@)]
       PROVE  /\ TokensIn(buf'[BackendOut])
                    = TokensAt(f, c, "buf") \ {Head(buf[BackendOut]).token}
              /\ Unique(buf'[BackendOut])
              /\ Head(buf[BackendOut]).token \in TokensAt(f, c, "buf")
              /\ Head(buf[BackendOut]) \in Replies
  <2>1. buf'[BackendOut] = Tail(buf[BackendOut])
    BY <1>11, FdsDistinct DEF TypeOK, Channels
  <2> QED
    BY <1>8, <1>9, <1>11, <2>1, TokensTail
<1>12. CASE CallInterleaved
  <2> DEFINE r == Head(buf[BackendOut])
  <2>1. /\ buf[BackendOut] # <<>> /\ buf' = [buf EXCEPT ![BackendOut] = Tail(@)]
        /\ r.token # call.token /\ interleaved' = Append(interleaved, r)
        /\ UNCHANGED <<call, sock>>
    BY <1>12 DEF CallInterleaved, handlerVars
  <2>2. f = "buf" /\ r.token = backend_requester_token /\ r \in Replies
    BY <1>11, <2>1 DEF TokensAt
  <2>3. TokensIn(interleaved) = {}
    BY <1>8, <2>2 DEF TokensAt, CallPlaces
  <2>4. TokensIn(interleaved') = {backend_requester_token} /\ Unique(interleaved')
    <3>1. r.token \notin TokensIn(interleaved)
      BY <2>3
    <3>2. TokensIn(interleaved') = TokensIn(interleaved) \cup {r.token} /\ Unique(interleaved')
      BY <1>8, <1>9, <2>1, <2>2, <3>1, TokensAppend
    <3> QED
      BY <2>2, <2>3, <3>2
  <2>5. /\ TokensIn(to_backend) = TokensAt("interleaved", c, "sent")
        /\ working = TokensAt("interleaved", c, "working")
        /\ TokensIn(sock[BackendOut]) = TokensAt("interleaved", c, "sock")
        /\ TokensIn(buf'[BackendOut]) = TokensAt("interleaved", c, "buf")
        /\ TokensIn(interleaved') = TokensAt("interleaved", c, "interleaved")
    BY <1>7, <1>8, <1>11, <2>1, <2>2, <2>4 DEF TokensAt, CallPlaces
  <2>6. \A i \in DOMAIN to_backend : to_backend[i].cmd # "backend"
    BY <1>6, <2>2 DEF PathAt
  <2>7. PathAt("interleaved", c)'
    BY <1>1, <1>6, <1>8, <1>11, <2>1, <2>2, <2>4, <2>5, <2>6 DEF PathAt, TokensAt
  <2> QED
    BY <1>1, <1>7, <2>1, <2>2, <2>7 DEF PathInv, ForwardPlaces
<1>13. CASE CallReturns
  <2>1. /\ buf[BackendOut] # <<>> /\ buf' = [buf EXCEPT ![BackendOut] = Tail(@)]
        /\ Head(buf[BackendOut]).token = call.token /\ call' = NoCall
        /\ UNCHANGED <<interleaved, sock>>
    BY <1>13 DEF CallReturns, FinishCall, loopVars
  <2>2. c = "buf"
    BY <1>7, <1>11, <2>1 DEF TokensAt
  <2>3. /\ TokensIn(to_backend) = TokensAt(f, "none", "sent")'
        /\ working = TokensAt(f, "none", "working")'
        /\ TokensIn(sock[BackendOut]) = TokensAt(f, "none", "sock")'
        /\ TokensIn(buf'[BackendOut]) = TokensAt(f, "none", "buf")'
        /\ TokensIn(interleaved) = TokensAt(f, "none", "interleaved")'
    BY <1>1, <1>7, <1>8, <1>11, <2>1, <2>2 DEF TokensAt
  <2>4. \A i \in DOMAIN to_backend : to_backend[i].cmd = "backend"
    BY <1>6, <2>2 DEF PathAt
  <2>5. PathAt(f, "none")'
    BY <1>1, <1>6, <1>8, <1>11, <2>1, <2>3, <2>4 DEF PathAt
  <2> QED
    BY <2>1, <2>5 DEF PathInv, CallPlaces
<1> QED
  BY <1>10, <1>12, <1>13

LEMMA PathNext ==
  ASSUME TypeOK, OwnerInv, PathInv, SpentInv, [Next]_vars
  PROVE  PathInv' /\ SpentInv'
<1>1. CASE UNCHANGED vars \/ Select \/ CheckLater \/ EndOfServing \/ LoopEnds
  <2>1. UNCHANGED <<handlerVars, interleaved, sock, buf, working, sent>>
    BY <1>1 DEF vars, loopVars, Select, CheckLater, EndOfServing, LoopEnds
  <2>2. Stays /\ UNCHANGED <<loop, postponed_answer_fd, postponed_command>>
    BY <2>1 DEF Stays, handlerVars, requesterVars, pauseVars
  <2>3. taken' = taken
    BY <2>1, ClientStays DEF OwnerInv
  <2> QED
    BY <2>1, <2>2, <2>3, PathStays, SpentStays DEF Stays
<1>2. CASE ServeCommand(Test) \/ ServeCommand(Cmd)
  BY <1>2, PathServeCommand
<1> QED
  BY <1>1, <1>2, PathClientsAndTest, PathBackendStep, PathReply, PathCheck, PathWaiting
     DEF Next, LoopStep

LEMMA PathInit == Init => PathInv /\ SpentInv
<1> SUFFICES ASSUME Init PROVE PathInv /\ SpentInv
  OBVIOUS
<1> USE DEF Init, HandlerInit
<1>1. SpentInv
  BY NamesDistinct DEF SpentInv
<1>2. sock[BackendOut] = <<>> /\ buf[BackendOut] = <<>>
  BY FdsDistinct
<1>3. \A at \in {"sent", "working", "sock", "buf", "interleaved"} :
        TokensAt("none", "none", at) = {}
  BY DEF TokensAt
<1>4. \A i \in DOMAIN to_backend : FALSE
  OBVIOUS
<1>5. PathAt("none", "none")
  BY <1>2, <1>3, <1>4, TokensEmpty DEF PathAt
<1> QED
  BY <1>1, <1>5 DEF PathInv, ForwardPlaces, CallPlaces

LEMMA PathUse ==
  ASSUME TypeOK, OwnerInv, PathInv, SpentInv
  PROVE  ReplyIsForRequester
<1> SUFFICES ASSUME loop
             PROVE  ReplyIsForRequester
  BY DEF ReplyIsForRequester
<1>1. PICK f \in ForwardPlaces, c \in CallPlaces : PathAt(f, c)
  BY DEF PathInv
<1> DEFINE R == backend_requester_token
           At(p) == IF f = p THEN {R} ELSE {}
<1>2. f # "none" => R # call.token
  <2>1. f # "none" => R # NoToken
    BY <1>1, RequesterTokens DEF PathAt, TypeOK, HandlerTypeOK, SlotTypeOK
  <2>2. NoCall.token = NoToken
    BY DEF NoCall
  <2> QED
    BY <1>1, <2>1, <2>2 DEF PathInv, PathAt
<1>3. ASSUME NEW s, NEW p \in {"sock", "buf", "interleaved"}, TokensIn(s) = TokensAt(f, c, p)
      PROVE  Replied(s) = At(p)
  <2>1. Replied(s) = TokensIn(s) \ {call.token}
    BY Zenon DEF Replied, TokensIn
  <2> QED
    BY <1>2, <1>3, <2>1 DEF TokensAt, ForwardPlaces
<1>4. ForwardedTokens = At("sent")
  <2>1. ForwardedTokens \subseteq At("sent")
    BY <1>1 DEF ForwardedTokens, PathAt
  <2>2. ASSUME f = "sent"
        PROVE  R \in ForwardedTokens
    <3>1. PICK i \in DOMAIN to_backend : to_backend[i].token = R
      BY <1>1, <2>2 DEF PathAt, TokensAt, TokensIn
    <3>2. to_backend[i].cmd = "backend"
      BY <1>1, <1>2, <2>2, <3>1 DEF PathAt
    <3> QED
      BY <3>1, <3>2 DEF ForwardedTokens
  <2> QED
    BY <2>1, <2>2
<1>5. /\ working = At("working")
      /\ Replied(sock[BackendOut]) = At("sock") /\ Replied(buf[BackendOut]) = At("buf")
      /\ Replied(interleaved) = At("interleaved")
  <2>1. working = At("working")
    BY <1>1 DEF PathAt, TokensAt, CallPlaces
  <2> QED
    BY <1>1, <1>3, <2>1 DEF PathAt
<1> DEFINE places == << ForwardedTokens, working, Replied(sock[BackendOut]),
                        Replied(buf[BackendOut]), Replied(interleaved) >>
           used == { i \in DOMAIN places : places[i] # {} }
<1>6. /\ DOMAIN places = 1..5
      /\ places[1] = At("sent") /\ places[2] = At("working") /\ places[3] = At("sock")
      /\ places[4] = At("buf") /\ places[5] = At("interleaved")
  BY <1>4, <1>5
<1> HIDE DEF places
<1>7. CASE f = "none"
  <2>1. used = {}
    BY <1>6, <1>7
  <2> QED
    BY <1>1, <1>7, <2>1 DEF ReplyIsForRequester, PathAt, places
<1>8. ASSUME NEW n \in 1..5,
             \A i \in 1..5 : places[i] = IF i = n THEN {R} ELSE {}, f # "none"
      PROVE  ReplyIsForRequester
  <2>1. used = {n} /\ places[n] = {R} /\ n \in DOMAIN places
    BY <1>6, <1>8
  <2> QED
    BY <1>1, <1>8, <2>1, Zenon DEF ReplyIsForRequester, PathAt, places
<1>9. CASE f = "sent"
  BY <1>6, <1>8, <1>9
<1>10. CASE f = "working"
  BY <1>6, <1>8, <1>10
<1>11. CASE f = "sock"
  BY <1>6, <1>8, <1>11
<1>12. CASE f = "buf"
  BY <1>6, <1>8, <1>12
<1>13. CASE f = "interleaved"
  BY <1>6, <1>8, <1>13
<1> QED
  BY <1>7, <1>9, <1>10, <1>11, <1>12, <1>13 DEF ForwardPlaces

\* send_to_backend_requester takes whatever reply comes for the requester of the
\* moment. With clients that send anything but check_screen - also commands for the
\* backend, also in the middle of a handler's own call - that is the right one: the
\* requester's command or the reply to it is at exactly one place and no other is.
THEOREM RepliesReachRequester ==
  ASSUME TestOnly
  PROVE  Spec => []ReplyIsForRequester
<1>1. TypeOK /\ OwnerInv /\ PathInv /\ SpentInv /\ [Next]_vars => PathInv' /\ SpentInv'
  BY PathNext
<1>2. TypeOK /\ OwnerInv /\ PathInv /\ SpentInv => ReplyIsForRequester
  BY PathUse
<1> QED
  BY <1>1, <1>2, PathInit, OwnerAlways, TypeCorrect, PTL DEF Spec
=============================================================================
