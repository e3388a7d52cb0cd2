---------------------------- MODULE CaptureProofs ----------------------------
(***************************************************************************)
(* Proofs about CaptureLoop: where a command is until it is answered,       *)
(* although handlers are nested in each other and replies are postponed.    *)
(***************************************************************************)
EXTENDS CaptureLoop, SequenceTheorems, TLAPS

USE TimesAssumption, BoundsAssumption, ScreensAssumption
    DEF TimesAssumption, BoundsAssumption, ScreensAssumption

\* What is sent: the driver only sends commands of its own.
Sent == { cmd \in Commands : cmd.token[1] = Driver => cmd.kind \in DriverKinds }

\* The places of commands: in the pipe (level 0); with a suspended handler, its own
\* command at 0 and those of its list from 1 on; in the list that is handled, one
\* level above; the postponed command at level -1.
Waiting == wait_change.active \/ wait_still.active
Top == Len(frames) + 1

IsPlace(i, j) ==
  \/ i = -1 /\ j = 0 /\ Waiting
  \/ i = 0 /\ j \in 1..Len(cmdpipe)
  \/ i \in 1..Len(frames) /\ j \in 0..Len(frames[i].rest)
  \/ i = Top /\ j \in 1..Len(batch)

TokenAt(i, j) ==
  IF i = -1 THEN postponed_cmd_token
  ELSE IF i = 0 THEN cmdpipe[j].token
  ELSE IF i = Top THEN batch[j].token
  ELSE IF j = 0 THEN frames[i].cmd.token
  ELSE frames[i].rest[j].token

Levels == Int
Indices == Nat

\* What is at a place is the last command of its requester, and not answered; ...
HeldIsOpen ==
  \A i \in Levels, j \in Indices : IsPlace(i, j) =>
    \E r \in Requesters : /\ asked[r] > 0
                          /\ TokenAt(i, j) = <<r, asked[r]>>
                          /\ <<r, asked[r]>> \notin ReplyTokens
\* ... it is at no other place; ...
HeldOnce ==
  \A i, k \in Levels, j, l \in Indices :
    IsPlace(i, j) /\ IsPlace(k, l) /\ TokenAt(i, j) = TokenAt(k, l) => i = k /\ j = l
\* ... and each command that is not answered is at a place.
OpenIsHeld ==
  \A r \in Requesters :
    ~Answered(r) =>
      \E i \in Levels, j \in Indices : IsPlace(i, j) /\ TokenAt(i, j) = <<r, asked[r]>>
RepliesArePast ==
  \A r \in Requesters, n \in Nat : <<r, n>> \in ReplyTokens => n <= asked[r]

HeldInv == HeldIsOpen /\ HeldOnce /\ OpenIsHeld /\ RepliesArePast

OrderInv ==
  /\ cmdpipe \in Seq(Sent) /\ batch \in Seq(Sent)
  /\ \A i \in DOMAIN frames : frames[i].rest \in Seq(Sent)
  /\ pc \in {"capture", "select"} => batch = <<>>
  /\ ~(wait_change.active /\ wait_still.active)
  /\ Waiting => postponed_cmd_token[1] = Forwarded

\* QUIT is the last message, and it is sent once.
QuitInv ==
  /\ QuitToken \in ReplyTokens => pc \in {"quit_sent", "exited"}
  /\ pc \in {"quitting", "quit_sent", "exited"} => term_ignored

StillInv ==
  wait_still.active =>
    /\ reference_screenshot = last_image
    /\ wait_still.still <= same_for
    /\ wait_still.stilltime <= MaxStill
-----------------------------------------------------------------------------
(* Types                                                                     *)

LEMMA MaxStillIs ==
  MaxStill \in StillTimes /\ MaxStill \in Nat /\ \A n \in StillTimes : n <= MaxStill
BY DEF MaxStill

LEMMA FirstAndRest ==
  ASSUME NEW S, NEW s \in Seq(S), s # <<>>
  PROVE  /\ Head(s) \in S /\ Head(s) = s[1] /\ Tail(s) \in Seq(S)
         /\ Len(s) \in Nat \ {0} /\ Len(Tail(s)) = Len(s) - 1
         /\ \A i \in 1..Len(Tail(s)) : Tail(s)[i] = s[i + 1]
BY HeadTailProperties

LEMMA Appended ==
  ASSUME NEW S, NEW s \in Seq(S), NEW e \in S
  PROVE  /\ Append(s, e) \in Seq(S) /\ Len(Append(s, e)) = Len(s) + 1
         /\ \A i \in 1..Len(s) : Append(s, e)[i] = s[i]
         /\ Append(s, e)[Len(s) + 1] = e
BY AppendProperties

LEMMA WithoutLast ==
  ASSUME NEW S, NEW s \in Seq(S), s # <<>>
  PROVE  /\ SubSeq(s, 1, Len(s) - 1) \in Seq(S)
         /\ Len(SubSeq(s, 1, Len(s) - 1)) = Len(s) - 1
         /\ Len(s) \in Nat \ {0} /\ s[Len(s)] \in S
         /\ \A i \in 1..(Len(s) - 1) : SubSeq(s, 1, Len(s) - 1)[i] = s[i]
<1> DEFINE n == Len(s)
<1>1. n \in Nat \ {0} /\ s[n] \in S
  OBVIOUS
<1> DEFINE m == n - 1
<1>2. m \in 0..n /\ 1 \in 1..(n + 1)
  BY <1>1
<1> HIDE DEF m
<1>3. /\ SubSeq(s, 1, m) \in Seq(S) /\ Len(SubSeq(s, 1, m)) = m
      /\ \A i \in 1..m : SubSeq(s, 1, m)[i] = s[i]
  BY <1>2, SubSeqProperties
<1> QED
  BY <1>1, <1>3 DEF m

LEMMA WaitsTyped ==
  /\ NoWait \in Waits /\ ~NoWait.active
  /\ \A cmd \in Commands : StartWait(cmd) \in Waits /\ StartWait(cmd).active
  /\ \A wait \in Waits : Older(wait) \in Waits /\ Older(wait).active = wait.active
<1>1. \A cmd \in Commands : cmd.timeout \in Nat /\ cmd.stilltime \in Nat
  <2>1. Timeouts \cup {0} \subseteq Nat /\ StillTimes \cup {0} \subseteq Nat
    OBVIOUS
  <2> QED
    BY <2>1 DEF Commands
<1>2. \A m, n \in Nat : Least(m, n) \in Nat
  BY DEF Least
<1>3. NoWait \in Waits /\ ~NoWait.active
  BY DEF NoWait, Waits
<1>4. \A cmd \in Commands : StartWait(cmd) \in Waits /\ StartWait(cmd).active
  BY <1>1 DEF StartWait, Waits
<1>5. ASSUME NEW wait \in Waits
      PROVE  Older(wait) \in Waits /\ Older(wait).active = wait.active
  <2>1. /\ wait.elapsed \in Nat /\ wait.timeout \in Nat /\ wait.still \in Nat
        /\ wait.stilltime \in Nat /\ wait.active \in BOOLEAN
    BY DEF Waits
  <2>2. wait.elapsed + 1 \in Nat /\ wait.timeout + 1 \in Nat /\ wait.still + 1 \in Nat
    BY <2>1
  <2>3. /\ Least(wait.elapsed + 1, wait.timeout + 1) \in Nat
        /\ Least(wait.still + 1, wait.stilltime) \in Nat
    BY <1>2, <2>1, <2>2
  <2> QED
    BY <2>1, <2>3 DEF Older, Waits
<1> QED
  BY <1>3, <1>4, <1>5

LEMMA TypeInit == Init => TypeOK
<1> SUFFICES ASSUME Init PROVE TypeOK
  OBVIOUS
<1>1. /\ cmdpipe \in Seq(Commands) /\ rsppipe \in Seq(Replies \cup {Quit})
      /\ batch \in Seq(Commands) /\ frames \in Seq(Frames)
  BY EmptySeq DEF Init
<1>2. wait_change \in Waits /\ wait_still \in Waits
  BY WaitsTyped DEF Init
<1>3. same_for \in 0..MaxStill
  BY MaxStillIs DEF Init
<1>4. /\ pc = "capture" /\ term_ignored = FALSE /\ due = FALSE
      /\ asked \in [Requesters -> 0..MaxCommands]
  BY DEF Init
<1>5. /\ screen \in Screens /\ last_image \in Screens /\ reference_screenshot \in Screens
      /\ postponed_cmd_token = QuitToken
  BY DEF Init
<1> QED
  BY <1>1, <1>2, <1>3, <1>4, <1>5 DEF TypeOK

LEMMA ImageTyped ==
  ASSUME TypeOK
  PROVE  Image \in Screens
BY DEF TypeOK, Image

\* What replies with a token
LEMMA SendTyped ==
  ASSUME TypeOK, NEW token \in Tokens, NEW timed_out, timed_out = TRUE \/ timed_out = FALSE,
         Send(token, timed_out)
  PROVE  /\ rsppipe' \in Seq(Replies \cup {Quit})
         /\ ReplyTokens' = ReplyTokens \cup {token}
<1> DEFINE reply == [token |-> token, timed_out |-> timed_out]
<1>1. reply \in Replies \cup {Quit} /\ reply.token = token /\ rsppipe' = Append(rsppipe, reply)
  BY DEF Replies, Send
<1> HIDE DEF reply
<1>2. rsppipe \in Seq(Replies \cup {Quit})
  BY DEF TypeOK
<1>3. /\ rsppipe' \in Seq(Replies \cup {Quit}) /\ Len(rsppipe') = Len(rsppipe) + 1
      /\ \A i \in 1..Len(rsppipe) : rsppipe'[i] = rsppipe[i]
      /\ rsppipe'[Len(rsppipe) + 1] = reply
  BY <1>1, <1>2, Appended
<1>4. Len(rsppipe) \in Nat /\ DOMAIN rsppipe = 1..Len(rsppipe) /\ DOMAIN rsppipe' = 1..Len(rsppipe')
  BY <1>2, <1>3
<1>5. 1..Len(rsppipe') = 1..Len(rsppipe) \cup {Len(rsppipe) + 1}
  BY <1>3, <1>4
<1> QED
  BY <1>1, <1>3, <1>4, <1>5 DEF ReplyTokens

\* A wait that is over, or a command that is handled
LEMMA TokensTyped ==
  ASSUME TypeOK, HeldInv
  PROVE  /\ Waiting => postponed_cmd_token \in Tokens
         /\ batch # <<>> => Head(batch) \in Commands /\ Head(batch).token \in Tokens
         /\ frames # <<>> => Innermost \in Frames /\ Innermost.cmd.token \in Tokens
<1>1. Waiting => postponed_cmd_token \in Tokens
  <2> SUFFICES ASSUME Waiting PROVE postponed_cmd_token \in Tokens
    OBVIOUS
  <2>1. IsPlace(-1, 0) /\ TokenAt(-1, 0) = postponed_cmd_token
    BY DEF IsPlace, TokenAt
  <2>2. -1 \in Levels /\ 0 \in Indices
    BY DEF Levels, Indices
  <2>3. PICK r \in Requesters : asked[r] > 0 /\ TokenAt(-1, 0) = <<r, asked[r]>>
    BY <2>1, <2>2 DEF HeldInv, HeldIsOpen
  <2>4. asked[r] \in 1..MaxCommands
    BY <2>3 DEF TypeOK
  <2> QED
    BY <2>1, <2>3, <2>4 DEF Tokens
<1>2. batch # <<>> => Head(batch) \in Commands /\ Head(batch).token \in Tokens
  <2>1. batch # <<>> => Head(batch) \in Commands
    BY FirstAndRest DEF TypeOK
  <2> QED
    BY <2>1 DEF Commands
<1>3. frames # <<>> => Innermost \in Frames /\ Innermost.cmd.token \in Tokens
  <2>1. frames # <<>> => Innermost \in Frames
    BY WithoutLast DEF TypeOK, Innermost
  <2> QED
    BY <2>1 DEF Frames, Commands
<1> QED
  BY <1>1, <1>2, <1>3

LEMMA SendCommandTyped ==
  ASSUME TypeOK, NEW r \in Requesters, NEW kind \in Kinds, NEW timeout \in Timeouts \cup {0},
         NEW stilltime \in StillTimes \cup {0}, SendCommand(r, kind, timeout, stilltime)
  PROVE  TypeOK'
<1> DEFINE cmd == [token |-> <<r, asked[r] + 1>>, kind |-> kind,
                   timeout |-> timeout, stilltime |-> stilltime]
<1>1. asked[r] \in 0..MaxCommands /\ asked[r] < MaxCommands
  BY DEF SendCommand, TypeOK
<1>2. asked[r] + 1 \in 1..MaxCommands
  BY <1>1
<1>3. cmd \in Commands
  BY <1>2 DEF Commands, Tokens
<1>4. /\ cmdpipe' = Append(cmdpipe, cmd) /\ asked' = [asked EXCEPT ![r] = @ + 1]
      /\ UNCHANGED <<pc, rsppipe, batch, frames, waitVars, imageVars, term_ignored>>
  BY DEF SendCommand
<1> HIDE DEF cmd
<1>5. cmdpipe' \in Seq(Commands)
  BY <1>3, <1>4, Appended DEF TypeOK
<1>6. asked' \in [Requesters -> 0..MaxCommands]
  BY <1>2, <1>4 DEF TypeOK
<1> QED
  BY <1>4, <1>5, <1>6 DEF TypeOK, waitVars, imageVars

LEMMA TickTyped ==
  ASSUME TypeOK, Tick
  PROVE  TypeOK'
<1>1. wait_change' \in Waits /\ wait_still' \in Waits
  BY WaitsTyped DEF Tick, TypeOK
<1>2. frames' \in Seq(Frames)
  <2> DEFINE older(i) == [frames[i] EXCEPT !.left = IF @ = 0 THEN 0 ELSE @ - 1]
  <2>1. ASSUME NEW i \in 1..Len(frames) PROVE older(i) \in Frames
    <3>1. frames[i] \in Frames
      BY DEF TypeOK
    <3>2. frames[i].left \in Nat
      BY <3>1 DEF Frames
    <3>3. (IF frames[i].left = 0 THEN 0 ELSE frames[i].left - 1) \in Nat
      BY <3>2
    <3> QED
      BY <3>1, <3>3 DEF Frames
  <2>2. frames' = [i \in 1..Len(frames) |-> older(i)] /\ Len(frames) \in Nat
    BY DEF Tick, TypeOK
  <2> HIDE DEF older
  <2> QED
    BY <2>1, <2>2, IsASeq
<1>3. same_for' \in 0..MaxStill
  BY MaxStillIs DEF Tick, TypeOK, Least
<1> QED
  BY <1>1, <1>2, <1>3 DEF Tick, TypeOK

LEMMA CaptureTyped ==
  ASSUME TypeOK, HeldInv, CaptureAndCheck
  PROVE  TypeOK'
<1>1. last_image' \in Screens /\ Image \in Screens
  BY ImageTyped DEF CaptureAndCheck, Capture
<1>2. same_for' \in 0..MaxStill /\ due' \in BOOLEAN
  <2>1. same_for' \in {0, same_for} /\ due' = FALSE
    BY DEF CaptureAndCheck, Capture
  <2>2. same_for \in 0..MaxStill /\ 0 \in 0..MaxStill
    BY MaxStillIs DEF TypeOK
  <2> QED
    BY <2>1, <2>2
<1>3. /\ pc' = "select"
      /\ UNCHANGED <<cmdpipe, batch, frames, postponed_cmd_token, screen, term_ignored, asked>>
  BY DEF CaptureAndCheck
<1>4. /\ rsppipe' \in Seq(Replies \cup {Quit})
      /\ wait_change' \in Waits /\ wait_still' \in Waits
      /\ reference_screenshot' \in Screens
  <2>1. CASE ChangeIsOver /\ CheckForScreenChange
    <3>1. Waiting /\ postponed_cmd_token \in Tokens
      BY <2>1, TokensTyped DEF ChangeIsOver, Waiting
    <3>2. rsppipe' \in Seq(Replies \cup {Quit})
      <4> DEFINE late == wait_change.elapsed > wait_change.timeout
      <4>1. late = TRUE \/ late = FALSE
        BY DEF TypeOK, Waits
      <4> QED
        BY <2>1, <3>1, <4>1, SendTyped DEF CheckForScreenChange
    <3> QED
      BY <2>1, <3>2, WaitsTyped DEF CheckForScreenChange, TypeOK
  <2>2. CASE wait_still.active /\ CheckForStillScreen
    <3>1. postponed_cmd_token \in Tokens
      BY <2>2, TokensTyped DEF Waiting
    <3>2. CASE StillIsOver /\ Send(postponed_cmd_token, ~IsStill) /\ wait_still' = NoWait
      <4>1. (~IsStill) = TRUE \/ (~IsStill) = FALSE
        OBVIOUS
      <4>2. rsppipe' \in Seq(Replies \cup {Quit})
        BY <3>1, <3>2, <4>1, SendTyped
      <4> QED
        BY <1>1, <2>2, <3>2, <4>2, WaitsTyped DEF CheckForStillScreen, TypeOK
    <3>3. CASE wait_still' = [wait_still EXCEPT !.still = StillAge] /\ UNCHANGED rsppipe
      <4>1. wait_still' \in Waits
        BY <3>3 DEF StillAge, Waits, TypeOK
      <4> QED
        BY <1>1, <2>2, <3>3, <4>1 DEF CheckForStillScreen, TypeOK
    <3> QED
      BY <2>2, <3>2, <3>3 DEF CheckForStillScreen
  <2>3. CASE UNCHANGED <<rsppipe, wait_change, wait_still, reference_screenshot>>
    BY <2>3 DEF TypeOK
  <2> QED
    BY <2>1, <2>2, <2>3 DEF CaptureAndCheck
<1> QED
  BY <1>1, <1>2, <1>3, <1>4 DEF TypeOK

LEMMA HandleTyped ==
  ASSUME TypeOK, HeldInv,
         \/ HandlePlain \/ HandleSelectConsole \/ HandleSetReference
         \/ HandleWaitScreenChange \/ HandleWaitStillScreen
  PROVE  TypeOK'
<1>1. /\ batch # <<>> /\ Head(batch) \in Commands /\ Head(batch).token \in Tokens
      /\ Tail(batch) \in Seq(Commands)
  <2>1. batch # <<>>
    BY DEF HandlePlain, HandleSelectConsole, HandleSetReference, HandleWaitScreenChange,
       HandleWaitStillScreen, Handles
  <2> QED
    BY <2>1, TokensTyped, FirstAndRest DEF TypeOK
<1>2. StartWait(Head(batch)) \in Waits
  BY <1>1, WaitsTyped
<1>3. CASE HandlePlain
  <2>1. rsppipe' \in Seq(Replies \cup {Quit})
    BY <1>1, <1>3, SendTyped DEF HandlePlain
  <2> QED
    BY <1>1, <1>3, <2>1 DEF HandlePlain, TypeOK, waitVars, imageVars
<1>4. CASE HandleSetReference
  <2>1. rsppipe' \in Seq(Replies \cup {Quit})
    BY <1>1, <1>4, SendTyped DEF HandleSetReference
  <2> QED
    BY <1>1, <1>4, <2>1 DEF HandleSetReference, TypeOK, waitVars
<1>5. CASE HandleWaitScreenChange
  BY <1>1, <1>2, <1>5 DEF HandleWaitScreenChange, TypeOK, imageVars
<1>6. CASE HandleWaitStillScreen
  BY <1>1, <1>2, <1>6 DEF HandleWaitStillScreen, TypeOK
<1>7. CASE HandleSelectConsole
  <2>1. rsppipe' \in Seq(Replies \cup {Quit})
    BY <1>1, <1>7, SendTyped DEF HandleSelectConsole
  <2>2. last_image' \in Screens /\ same_for' \in 0..MaxStill
    BY <1>7, MaxStillIs DEF HandleSelectConsole, TypeOK
  <2> QED
    BY <1>1, <1>7, <2>1, <2>2 DEF HandleSelectConsole, TypeOK, waitVars
<1> QED
  BY <1>3, <1>4, <1>5, <1>6, <1>7

LEMMA KeysTyped ==
  ASSUME TypeOK, HeldInv, HandleKeys \/ NextKey \/ KeysDone
  PROVE  TypeOK'
<1>1. CASE HandleKeys
  <2>1. batch # <<>> /\ Head(batch) \in Commands /\ Tail(batch) \in Seq(Commands)
    BY <1>1, TokensTyped, FirstAndRest DEF HandleKeys, Handles, TypeOK
  <2>2. PICK rounds \in 0..MaxRounds :
          frames' = Append(frames, [cmd |-> Head(batch), left |-> 1,
                                    rounds |-> rounds, rest |-> Tail(batch)])
    BY <1>1 DEF HandleKeys
  <2>3. [cmd |-> Head(batch), left |-> 1, rounds |-> rounds, rest |-> Tail(batch)] \in Frames
    BY <2>1 DEF Frames
  <2>4. frames' \in Seq(Frames)
    BY <2>2, <2>3, Appended DEF TypeOK
  <2>5. batch' \in Seq(Commands)
    BY <1>1, EmptySeq DEF HandleKeys
  <2> QED
    BY <1>1, <2>4, <2>5 DEF HandleKeys, TypeOK, waitVars, imageVars
<1>2. CASE NextKey
  <2> DEFINE n == Len(frames)
             next == [frames[n] EXCEPT !.rounds = @ - 1, !.left = 1]
  <2>1. frames # <<>> /\ frames[n] \in Frames /\ frames[n].rounds > 0 /\ n \in 1..Len(frames)
    BY <1>2, WithoutLast DEF NextKey, NestedTimeIsUp, Innermost, TypeOK
  <2>2. next \in Frames
    <3>1. frames[n].rounds - 1 \in Nat
      BY <2>1 DEF Frames
    <3> QED
      BY <2>1, <3>1 DEF Frames
  <2>3. frames' = [frames EXCEPT ![n] = next]
    BY <1>2, <2>1 DEF NextKey, Frames, TypeOK
  <2> HIDE DEF next, n
  <2>4. frames' \in Seq(Frames)
    BY <2>1, <2>2, <2>3 DEF TypeOK
  <2> QED
    BY <1>2, <2>4 DEF NextKey, TypeOK, waitVars, imageVars
<1>3. CASE KeysDone
  <2>1. frames # <<>>
    BY <1>3 DEF KeysDone, NestedTimeIsUp
  <2>2. frames' \in Seq(Frames)
    BY <1>3, <2>1, WithoutLast DEF KeysDone, TypeOK
  <2>3. batch' \in Seq(Commands)
    BY <1>3, <2>1, TokensTyped DEF KeysDone, Frames
  <2>4. rsppipe' \in Seq(Replies \cup {Quit})
    BY <1>3, <2>1, TokensTyped, SendTyped DEF KeysDone
  <2> QED
    BY <1>3, <2>2, <2>3, <2>4 DEF KeysDone, TypeOK, waitVars, imageVars
<1> QED
  BY <1>1, <1>2, <1>3

LEMMA NextTyped ==
  ASSUME TypeOK, HeldInv, Next
  PROVE  TypeOK'
<1>1. CASE IsotovideoSends
  BY <1>1, SendCommandTyped
     DEF IsotovideoSends, Requesters, Forwarded, Driver, Kinds, ForwardedKinds, DriverKinds
<1>2. CASE ReadCommands
  BY <1>2, EmptySeq DEF ReadCommands, TypeOK, waitVars, imageVars
<1>3. CASE SendQuit
  <2>1. rsppipe' \in Seq(Replies \cup {Quit})
    BY <1>3, Appended DEF SendQuit, TypeOK
  <2> QED
    BY <1>3, <2>1 DEF SendQuit, TypeOK, waitVars, imageVars
<1>4. CASE \/ SelectTimesOut \/ HandleStopVm \/ EndOfBatch \/ StopVm \/ DisarmSigterm
           \/ Exit \/ Terminate
  BY <1>4 DEF SelectTimesOut, HandleStopVm, EndOfBatch, StopVm, DisarmSigterm, Exit,
     Terminate, TypeOK, waitVars, imageVars
<1>5. CASE ScreenChanges
  BY <1>5 DEF ScreenChanges, TypeOK, waitVars
<1> QED
  BY <1>1, <1>2, <1>3, <1>4, <1>5, TickTyped, CaptureTyped, HandleTyped, KeysTyped
     DEF Next, ProcessStep
-----------------------------------------------------------------------------
(* How the places change                                                     *)

\* The command at place (a, b), if that is a place, is answered; f and g say for each
\* place of the next state from which place its command comes.
Moves(f, g, a, b) ==
  /\ asked' = asked
  /\ a \in Levels /\ b \in Indices
  /\ ReplyTokens' = ReplyTokens \cup (IF IsPlace(a, b) THEN {TokenAt(a, b)} ELSE {})
  /\ \A i \in Levels, j \in Indices : IsPlace(i, j)' =>
       /\ f[i][j] \in Levels /\ g[i][j] \in Indices /\ IsPlace(f[i][j], g[i][j])
       /\ TokenAt(i, j)' = TokenAt(f[i][j], g[i][j])
       /\ ~(f[i][j] = a /\ g[i][j] = b)
  /\ \A i, k \in Levels, j, l \in Indices :
       IsPlace(i, j)' /\ IsPlace(k, l)' /\ f[i][j] = f[k][l] /\ g[i][j] = g[k][l]
         => i = k /\ j = l
  /\ \A i \in Levels, j \in Indices : IsPlace(i, j) /\ ~(i = a /\ j = b) =>
       \E k \in Levels, l \in Indices : IsPlace(k, l)' /\ f[k][l] = i /\ g[k][l] = j

LEMMA PlacesChange ==
  ASSUME HeldInv, NEW f, NEW g, NEW a, NEW b, Moves(f, g, a, b)
  PROVE  HeldInv'
<1> DEFINE gone == IF IsPlace(a, b) THEN {TokenAt(a, b)} ELSE {}
<1>1. ASSUME NEW i \in Levels, NEW j \in Indices, IsPlace(i, j)'
      PROVE  /\ f[i][j] \in Levels /\ g[i][j] \in Indices /\ IsPlace(f[i][j], g[i][j])
             /\ TokenAt(i, j)' = TokenAt(f[i][j], g[i][j])
             /\ TokenAt(i, j)' \notin gone
  <2>1. /\ f[i][j] \in Levels /\ g[i][j] \in Indices /\ IsPlace(f[i][j], g[i][j])
        /\ TokenAt(i, j)' = TokenAt(f[i][j], g[i][j])
        /\ ~(f[i][j] = a /\ g[i][j] = b)
    BY <1>1 DEF Moves
  <2>2. a \in Levels /\ b \in Indices
    BY DEF Moves
  <2> QED
    BY <2>1, <2>2 DEF HeldInv, HeldOnce
<1>2. /\ asked' = asked /\ ReplyTokens' = ReplyTokens \cup gone
      /\ gone # {} => a \in Levels /\ b \in Indices /\ IsPlace(a, b)
      /\ \A token \in gone : token = TokenAt(a, b)
  BY DEF Moves
<1>3. ASSUME NEW i \in Levels, NEW j \in Indices, IsPlace(i, j), TokenAt(i, j) \notin gone
      PROVE  \E k \in Levels, l \in Indices : IsPlace(k, l)' /\ f[k][l] = i /\ g[k][l] = j
  BY <1>3 DEF Moves
<1> HIDE DEF gone
<1>4. ASSUME NEW i \in Levels, NEW j \in Indices, IsPlace(i, j)'
      PROVE  \E r \in Requesters : /\ asked'[r] > 0
                                   /\ TokenAt(i, j)' = <<r, asked'[r]>>
                                   /\ <<r, asked'[r]>> \notin ReplyTokens'
  <2>1. PICK r \in Requesters : /\ asked[r] > 0
                                /\ TokenAt(f[i][j], g[i][j]) = <<r, asked[r]>>
                                /\ <<r, asked[r]>> \notin ReplyTokens
    BY <1>1, <1>4 DEF HeldInv, HeldIsOpen
  <2> QED
    BY <1>1, <1>2, <1>4, <2>1
<1>5. ASSUME NEW i \in Levels, NEW j \in Indices, NEW k \in Levels, NEW l \in Indices,
             IsPlace(i, j)', IsPlace(k, l)', TokenAt(i, j)' = TokenAt(k, l)'
      PROVE  i = k /\ j = l
  <2>1. f[i][j] = f[k][l] /\ g[i][j] = g[k][l]
    BY <1>1, <1>5 DEF HeldInv, HeldOnce
  <2> QED
    BY <1>5, <2>1 DEF Moves
<1>6. ASSUME NEW r \in Requesters, asked'[r] # 0, <<r, asked'[r]>> \notin ReplyTokens'
      PROVE  \E i \in Levels, j \in Indices :
               IsPlace(i, j)' /\ TokenAt(i, j)' = <<r, asked'[r]>>
  <2>1. PICK i \in Levels, j \in Indices : IsPlace(i, j) /\ TokenAt(i, j) = <<r, asked[r]>>
    BY <1>2, <1>6 DEF HeldInv, OpenIsHeld, Answered
  <2>2. TokenAt(i, j) \notin gone
    BY <1>2, <1>6, <2>1
  <2>3. PICK k \in Levels, l \in Indices : IsPlace(k, l)' /\ f[k][l] = i /\ g[k][l] = j
    BY <1>3, <2>1, <2>2
  <2>4. TokenAt(k, l)' = <<r, asked'[r]>>
    BY <1>1, <1>2, <2>1, <2>3
  <2> QED
    BY <2>3, <2>4
<1>7. ASSUME NEW r \in Requesters, NEW n \in Nat, <<r, n>> \in ReplyTokens'
      PROVE  n <= asked'[r]
  <2>1. CASE <<r, n>> \in ReplyTokens
    BY <1>2, <2>1 DEF HeldInv, RepliesArePast
  <2>2. CASE <<r, n>> \in gone
    <3>1. a \in Levels /\ b \in Indices /\ IsPlace(a, b) /\ <<r, n>> = TokenAt(a, b)
      BY <1>2, <2>2
    <3>2. PICK q \in Requesters : TokenAt(a, b) = <<q, asked[q]>>
      <4>1. a \in Levels /\ b \in Indices /\ IsPlace(a, b)
        BY <3>1
      <4> QED
        BY <4>1 DEF HeldInv, HeldIsOpen
    <3>3. r = q /\ n = asked[r]
      BY <3>1, <3>2
    <3> QED
      BY <1>2, <3>3
  <2> QED
    BY <1>2, <1>7, <2>1, <2>2
<1> QED
  BY <1>4, <1>5, <1>6, <1>7
     DEF HeldInv, HeldIsOpen, HeldOnce, OpenIsHeld, RepliesArePast, Answered
-----------------------------------------------------------------------------
(* The order of things                                                       *)

LEMMA PlaceOfHead ==
  ASSUME TypeOK, batch # <<>>
  PROVE  IsPlace(Top, 1) /\ TokenAt(Top, 1) = Head(batch).token /\ Top \in Nat \ {0}
<1>1. Len(batch) \in Nat \ {0} /\ Head(batch) = batch[1] /\ Len(frames) \in Nat
  BY FirstAndRest DEF TypeOK
<1>2. 1 \in 1..Len(batch) /\ Top \in Nat \ {0}
  BY <1>1 DEF Top
<1> QED
  BY <1>1, <1>2 DEF IsPlace, TokenAt

\* isotovideo has one command of autotest at a time: none waits while another is
\* handled, ...
LEMMA OneForwarded ==
  ASSUME TypeOK, HeldInv, OrderInv, batch # <<>>, Head(batch).token[1] = Forwarded
  PROVE  ~Waiting
<1> SUFFICES ASSUME Waiting PROVE FALSE
  OBVIOUS
<1>1. IsPlace(-1, 0) /\ TokenAt(-1, 0)[1] = Forwarded
  BY DEF IsPlace, TokenAt, OrderInv
<1>2. IsPlace(Top, 1) /\ TokenAt(Top, 1)[1] = Forwarded /\ Top \in Nat
  BY PlaceOfHead
<1>3. -1 \in Levels /\ Top \in Levels /\ 0 \in Indices /\ 1 \in Indices
  BY <1>2 DEF Levels, Indices
<1>4. PICK r \in Requesters : TokenAt(-1, 0) = <<r, asked[r]>>
  BY <1>1, <1>3 DEF HeldInv, HeldIsOpen
<1>5. PICK q \in Requesters : TokenAt(Top, 1) = <<q, asked[q]>>
  BY <1>2, <1>3 DEF HeldInv, HeldIsOpen
<1>6. TokenAt(-1, 0) = TokenAt(Top, 1)
  BY <1>1, <1>2, <1>4, <1>5
<1>7. -1 = Top
  BY <1>1, <1>2, <1>3, <1>6 DEF HeldInv, HeldOnce
<1> QED
  BY <1>2, <1>7

\* ... and the driver does not wait for screens.
LEMMA OneWait ==
  ASSUME TypeOK, HeldInv, OrderInv, batch # <<>>, Head(batch).kind \notin DriverKinds
  PROVE  Head(batch).token[1] = Forwarded /\ ~Waiting
<1>1. Head(batch).token[1] = Forwarded
  <2>1. Head(batch) \in Sent
    BY FirstAndRest DEF OrderInv
  <2> QED
    BY <2>1 DEF Sent, Commands, Tokens, Requesters
<1> QED
  BY <1>1, OneForwarded

LEMMA OrderInit == Init => OrderInv
<1> SUFFICES ASSUME Init PROVE OrderInv
  OBVIOUS
<1>1. cmdpipe \in Seq(Sent) /\ batch \in Seq(Sent) /\ batch = <<>>
  BY EmptySeq DEF Init
<1>2. DOMAIN frames = {} /\ ~Waiting
  BY WaitsTyped DEF Init, Waiting
<1> QED
  BY <1>1, <1>2, WaitsTyped DEF OrderInv, Init, Waiting

LEMMA OrderNext ==
  ASSUME TypeOK, HeldInv, OrderInv, Next
  PROVE  OrderInv'
<1> USE DEF waitVars, imageVars
<1>1. ASSUME NEW r \in Requesters, NEW kind \in Kinds, NEW timeout \in Timeouts \cup {0},
             NEW stilltime \in StillTimes \cup {0}, SendCommand(r, kind, timeout, stilltime),
             r = Driver => kind \in DriverKinds
      PROVE  OrderInv'
  <2> DEFINE cmd == [token |-> <<r, asked[r] + 1>>, kind |-> kind,
                     timeout |-> timeout, stilltime |-> stilltime]
  <2>1. asked[r] + 1 \in 1..MaxCommands
    BY <1>1 DEF SendCommand, TypeOK
  <2>2. cmd \in Sent
    BY <1>1, <2>1 DEF Sent, Commands, Tokens
  <2>3. cmdpipe' = Append(cmdpipe, cmd) /\ UNCHANGED <<pc, batch, frames, waitVars>>
    BY <1>1 DEF SendCommand
  <2> HIDE DEF cmd
  <2>4. cmdpipe' \in Seq(Sent)
    BY <2>2, <2>3, Appended DEF OrderInv
  <2> QED
    BY <2>3, <2>4 DEF OrderInv, Waiting
<1>2. CASE IsotovideoSends
  BY <1>1, <1>2
     DEF IsotovideoSends, Requesters, Forwarded, Driver, Kinds, ForwardedKinds, DriverKinds
<1>3. CASE Tick
  <2>1. /\ DOMAIN frames' = DOMAIN frames
        /\ \A i \in DOMAIN frames : frames'[i].rest = frames[i].rest
    <3>1. \A i \in DOMAIN frames : frames[i] \in Frames
      BY DEF TypeOK
    <3> QED
      BY <1>3, <3>1 DEF Tick, Frames
  <2>2. wait_change'.active = wait_change.active /\ wait_still'.active = wait_still.active
    BY <1>3, WaitsTyped DEF Tick, TypeOK
  <2>3. UNCHANGED <<pc, cmdpipe, batch, postponed_cmd_token>>
    BY <1>3 DEF Tick
  <2> QED
    BY <2>1, <2>2, <2>3 DEF OrderInv, Waiting
<1>4. CASE CaptureAndCheck
  <2>1. UNCHANGED <<cmdpipe, batch, frames, postponed_cmd_token>> /\ pc = "capture"
    BY <1>4 DEF CaptureAndCheck
  <2>2. /\ wait_change'.active => wait_change.active
        /\ wait_still'.active => wait_still.active
    <3>1. wait_change' \in {wait_change, NoWait}
      BY <1>4 DEF CaptureAndCheck, CheckForScreenChange, CheckForStillScreen
    <3>2. \/ wait_still' \in {wait_still, NoWait}
          \/ wait_still' = [wait_still EXCEPT !.still = StillAge]
      BY <1>4 DEF CaptureAndCheck, CheckForScreenChange, CheckForStillScreen
    <3>3. wait_still \in Waits
      BY DEF TypeOK
    <3> QED
      BY <3>1, <3>2, <3>3, WaitsTyped DEF Waits
  <2> QED
    BY <2>1, <2>2 DEF OrderInv, Waiting
<1>5. CASE HandlePlain \/ HandleSelectConsole \/ HandleSetReference
  <2>1. batch # <<>> /\ pc = "handle" /\ batch' = Tail(batch)
        /\ UNCHANGED <<pc, cmdpipe, frames, wait_change, wait_still, postponed_cmd_token>>
    BY <1>5 DEF HandlePlain, HandleSelectConsole, HandleSetReference, Handles
  <2>2. batch' \in Seq(Sent)
    BY <2>1, FirstAndRest DEF OrderInv
  <2> QED
    BY <2>1, <2>2 DEF OrderInv, Waiting
<1>6. CASE HandleWaitScreenChange \/ HandleWaitStillScreen
  <2>1. batch # <<>> /\ pc = "handle" /\ batch' = Tail(batch)
        /\ UNCHANGED <<pc, cmdpipe, frames>> /\ postponed_cmd_token' = Head(batch).token
    BY <1>6 DEF HandleWaitScreenChange, HandleWaitStillScreen, Handles
  <2>2. Head(batch).kind \notin DriverKinds
    BY <1>6 DEF HandleWaitScreenChange, HandleWaitStillScreen, Handles, DriverKinds
  <2>3. ~Waiting /\ Head(batch).token[1] = Forwarded
    BY <2>1, <2>2, OneWait
  <2>4. batch' \in Seq(Sent)
    BY <2>1, FirstAndRest DEF OrderInv
  <2>5. UNCHANGED wait_still \/ UNCHANGED wait_change
    BY <1>6 DEF HandleWaitScreenChange, HandleWaitStillScreen
  <2> QED
    BY <2>1, <2>3, <2>4, <2>5 DEF OrderInv, Waiting
<1>7. CASE HandleKeys
  <2>1. batch # <<>>
    BY <1>7 DEF HandleKeys, Handles
  <2>2. PICK rounds \in 0..MaxRounds :
          frames' = Append(frames, [cmd |-> Head(batch), left |-> 1,
                                    rounds |-> rounds, rest |-> Tail(batch)])
    BY <1>7 DEF HandleKeys
  <2> DEFINE frame == [cmd |-> Head(batch), left |-> 1, rounds |-> rounds,
                       rest |-> Tail(batch)]
  <2>3. frame \in Frames /\ frame.rest \in Seq(Sent)
    <3>1. Head(batch) \in Commands /\ Tail(batch) \in Seq(Commands) /\ Tail(batch) \in Seq(Sent)
      BY <2>1, FirstAndRest DEF TypeOK, OrderInv
    <3> QED
      BY <3>1 DEF Frames
  <2> HIDE DEF frame
  <2>4. /\ frames' \in Seq(Frames) /\ Len(frames') = Len(frames) + 1
        /\ \A i \in 1..Len(frames) : frames'[i] = frames[i]
        /\ frames'[Len(frames) + 1] = frame
    BY <2>2, <2>3, Appended DEF TypeOK, frame
  <2>5. \A i \in DOMAIN frames' : frames'[i].rest \in Seq(Sent)
    <3> SUFFICES ASSUME NEW i \in 1..(Len(frames) + 1) PROVE frames'[i].rest \in Seq(Sent)
      BY <2>4
    <3>1. Len(frames) \in Nat /\ DOMAIN frames = 1..Len(frames)
      BY DEF TypeOK
    <3>2. i \in 1..Len(frames) \/ i = Len(frames) + 1
      BY <3>1
    <3> QED
      BY <2>3, <2>4, <3>1, <3>2 DEF OrderInv
  <2>6. batch' = <<>> /\ batch' \in Seq(Sent) /\ pc' = "capture" /\ UNCHANGED <<cmdpipe, waitVars>>
    BY <1>7, EmptySeq DEF HandleKeys
  <2> QED
    BY <2>5, <2>6 DEF OrderInv, Waiting
<1>8. CASE NextKey
  <2>1. /\ DOMAIN frames' = DOMAIN frames
        /\ \A i \in DOMAIN frames : frames'[i].rest = frames[i].rest
    <3>1. \A i \in DOMAIN frames : frames[i] \in Frames
      BY DEF TypeOK
    <3> QED
      BY <1>8, <3>1 DEF NextKey, Frames
  <2> QED
    BY <1>8, <2>1 DEF NextKey, OrderInv, Waiting
<1>9. CASE KeysDone
  <2>1. frames # <<>>
    BY <1>9 DEF KeysDone, NestedTimeIsUp
  <2> DEFINE n == Len(frames)
  <2>2. /\ frames' = SubSeq(frames, 1, n - 1)
        /\ batch' = frames[n].rest /\ pc' = "handle" /\ UNCHANGED <<cmdpipe, waitVars>>
    BY <1>9 DEF KeysDone, Innermost
  <2>3. /\ frames' \in Seq(Frames) /\ Len(frames') = n - 1 /\ n \in Nat \ {0}
        /\ \A i \in 1..(n - 1) : frames'[i] = frames[i]
    BY <2>1, <2>2, WithoutLast DEF TypeOK
  <2>4. \A i \in 1..n : frames[i].rest \in Seq(Sent)
    BY DEF OrderInv, TypeOK
  <2>5. \A i \in DOMAIN frames' : frames'[i].rest \in Seq(Sent)
    <3> SUFFICES ASSUME NEW i \in 1..(n - 1) PROVE frames'[i].rest \in Seq(Sent)
      BY <2>3
    <3>1. i \in 1..n
      BY <2>3
    <3> QED
      BY <2>3, <2>4, <3>1
  <2>6. batch' \in Seq(Sent)
    BY <2>2, <2>3, <2>4
  <2> QED
    BY <2>2, <2>5, <2>6 DEF OrderInv, Waiting
<1>10. CASE ReadCommands
  <2>1. batch' = cmdpipe /\ cmdpipe' = <<>> /\ pc' = "handle" /\ UNCHANGED <<frames, waitVars>>
    BY <1>10 DEF ReadCommands
  <2>2. cmdpipe' \in Seq(Sent)
    BY <2>1, EmptySeq
  <2> QED
    BY <2>1, <2>2 DEF OrderInv, Waiting
<1>11. CASE \/ SelectTimesOut \/ HandleStopVm \/ EndOfBatch \/ StopVm \/ DisarmSigterm
            \/ SendQuit \/ Exit \/ Terminate \/ ScreenChanges
  BY <1>11 DEF SelectTimesOut, HandleStopVm, EndOfBatch, StopVm, DisarmSigterm, SendQuit, Exit,
     Terminate, ScreenChanges, OrderInv, Waiting
<1> QED
  BY <1>2, <1>3, <1>4, <1>5, <1>6, <1>7, <1>8, <1>9, <1>10, <1>11 DEF Next, ProcessStep
-----------------------------------------------------------------------------
(* Each command stays at one place until it is answered                       *)

LEMMA Sizes ==
  ASSUME TypeOK
  PROVE  /\ Len(cmdpipe) \in Nat /\ Len(batch) \in Nat /\ Len(frames) \in Nat
         /\ Top \in Nat \ {0} /\ Top = Len(frames) + 1
         /\ \A i \in 1..Len(frames) : /\ frames[i] \in Frames
                                      /\ Len(frames[i].rest) \in Nat
<1>1. Len(cmdpipe) \in Nat /\ Len(batch) \in Nat /\ Len(frames) \in Nat
  BY DEF TypeOK
<1>2. \A i \in 1..Len(frames) : frames[i] \in Frames
  BY DEF TypeOK
<1>3. \A frame \in Frames : Len(frame.rest) \in Nat
  BY DEF Frames
<1> QED
  BY <1>1, <1>2, <1>3 DEF Top

LEMMA HeldInit == Init => HeldInv
<1> SUFFICES ASSUME Init PROVE HeldInv
  OBVIOUS
<1>1. /\ Len(cmdpipe) = 0 /\ Len(batch) = 0 /\ Len(frames) = 0 /\ ~Waiting
      /\ ReplyTokens = {} /\ \A r \in Requesters : asked[r] = 0
  BY WaitsTyped DEF Init, Waiting, ReplyTokens
<1>2. \A i \in Levels, j \in Indices : ~IsPlace(i, j)
  BY <1>1 DEF IsPlace, Top, Levels, Indices
<1>3. \A r \in Requesters : Answered(r)
  BY <1>1 DEF Answered
<1> QED
  BY <1>1, <1>2, <1>3 DEF HeldInv, HeldIsOpen, HeldOnce, OpenIsHeld, RepliesArePast

\* Steps that only concern the screen, the clock or where the process is
LEMMA HeldKept ==
  ASSUME TypeOK, HeldInv,
         UNCHANGED <<asked, cmdpipe, batch, postponed_cmd_token, ReplyTokens>>,
         Waiting' <=> Waiting, Len(frames') = Len(frames),
         \A i \in 1..Len(frames) :
           frames'[i].cmd = frames[i].cmd /\ frames'[i].rest = frames[i].rest
  PROVE  HeldInv'
<1> DEFINE f == [i \in Levels |-> [j \in Indices |-> i]]
           g == [i \in Levels |-> [j \in Indices |-> j]]
<1>1. \A i \in Levels, j \in Indices :
        /\ f[i][j] = i /\ g[i][j] = j
        /\ IsPlace(i, j)' <=> IsPlace(i, j)
        /\ IsPlace(i, j) => TokenAt(i, j)' = TokenAt(i, j)
  BY Sizes DEF IsPlace, TokenAt, Top, Levels, Indices
<1>2. -2 \in Levels /\ 0 \in Indices /\ ~IsPlace(-2, 0)
  BY Sizes DEF IsPlace, Levels, Indices
<1> HIDE DEF f, g
<1>3. Moves(f, g, -2, 0)
  BY <1>1, <1>2 DEF Moves
<1> QED
  BY <1>3, PlacesChange

LEMMA HeldServed ==
  ASSUME TypeOK, HeldInv, HandlePlain \/ HandleSelectConsole \/ HandleSetReference
  PROVE  HeldInv'
<1> DEFINE m == Len(batch)
<1>1. /\ batch # <<>> /\ batch' = Tail(batch) /\ Send(Head(batch).token, FALSE)
      /\ UNCHANGED <<cmdpipe, frames, wait_change, wait_still, postponed_cmd_token, asked>>
  BY DEF HandlePlain, HandleSelectConsole, HandleSetReference, Handles, waitVars
<1>2. /\ IsPlace(Top, 1) /\ TokenAt(Top, 1) = Head(batch).token /\ Top \in Nat \ {0}
      /\ Head(batch).token \in Tokens
  BY <1>1, PlaceOfHead, TokensTyped
<1>3. ReplyTokens' = ReplyTokens \cup {TokenAt(Top, 1)}
  BY <1>1, <1>2, SendTyped
<1>4. /\ m \in Nat \ {0} /\ Len(batch') = m - 1
      /\ \A j \in 1..(m - 1) : batch'[j] = batch[j + 1]
  BY <1>1, FirstAndRest DEF TypeOK
<1>5. (Waiting' <=> Waiting) /\ Top' = Top
  BY <1>1 DEF Waiting, Top
<1> DEFINE f == [i \in Levels |-> [j \in Indices |-> i]]
           g == [i \in Levels |-> [j \in Indices |-> IF i = Top THEN j + 1 ELSE j]]
<1>6. \A i \in Levels, j \in Indices :
        /\ f[i][j] = i /\ g[i][j] = IF i = Top THEN j + 1 ELSE j
        /\ g[i][j] \in Indices
  BY DEF Levels, Indices
<1> HIDE DEF f, g
<1>7. ASSUME NEW i \in Levels, NEW j \in Indices, IsPlace(i, j)'
      PROVE  /\ IsPlace(f[i][j], g[i][j])
             /\ TokenAt(i, j)' = TokenAt(f[i][j], g[i][j])
             /\ ~(f[i][j] = Top /\ g[i][j] = 1)
  <2>1. CASE i = Top
    <3>1. i # -1 /\ i # 0 /\ i \notin 1..Len(frames) /\ j \in 1..(m - 1)
      BY <1>1, <1>2, <1>4, <1>5, <1>7, <2>1, Sizes DEF IsPlace, Levels, Indices
    <3>2. j + 1 \in 1..m /\ j + 1 # 1 /\ batch'[j] = batch[j + 1]
      BY <1>4, <3>1
    <3> QED
      BY <1>5, <1>6, <2>1, <3>1, <3>2 DEF IsPlace, TokenAt
  <2>2. CASE i # Top
    BY <1>1, <1>5, <1>6, <1>7, <2>2, Sizes DEF IsPlace, TokenAt, Levels, Indices
  <2> QED
    BY <2>1, <2>2
<1>8. ASSUME NEW i \in Levels, NEW j \in Indices, IsPlace(i, j), ~(i = Top /\ j = 1)
      PROVE  \E k \in Levels, l \in Indices : IsPlace(k, l)' /\ f[k][l] = i /\ g[k][l] = j
  <2>1. CASE i = Top
    <3>1. j - 1 \in Indices /\ IsPlace(i, j - 1)' /\ j - 1 + 1 = j
      BY <1>1, <1>2, <1>4, <1>5, <1>8, <2>1, Sizes DEF IsPlace, Levels, Indices
    <3> QED
      BY <1>6, <2>1, <3>1
  <2>2. CASE i # Top
    <3>1. IsPlace(i, j)'
      BY <1>1, <1>2, <1>5, <1>8, <2>2, Sizes DEF IsPlace, Levels, Indices
    <3> QED
      BY <1>6, <2>2, <3>1
  <2> QED
    BY <2>1, <2>2
<1>9. \A i, k \in Levels, j, l \in Indices :
        f[i][j] = f[k][l] /\ g[i][j] = g[k][l] => i = k /\ j = l
  BY <1>6 DEF Indices
<1>10. Top \in Levels /\ 1 \in Indices
  BY <1>2 DEF Levels, Indices
<1>11. Moves(f, g, Top, 1)
  BY <1>1, <1>2, <1>3, <1>6, <1>7, <1>8, <1>9, <1>10 DEF Moves
<1> QED
  BY <1>11, PlacesChange

\* The command and the rest of its list go to a new frame.
LEMMA HeldInFrame ==
  ASSUME TypeOK, HeldInv, HandleKeys
  PROVE  HeldInv'
<1> DEFINE m == Len(batch)
<1>1. /\ batch # <<>> /\ batch' = <<>>
      /\ UNCHANGED <<cmdpipe, rsppipe, wait_change, wait_still, postponed_cmd_token, asked>>
  BY DEF HandleKeys, Handles, waitVars
<1>2. PICK rounds \in 0..MaxRounds :
        frames' = Append(frames, [cmd |-> Head(batch), left |-> 1,
                                  rounds |-> rounds, rest |-> Tail(batch)])
  BY DEF HandleKeys
<1> DEFINE frame == [cmd |-> Head(batch), left |-> 1, rounds |-> rounds,
                     rest |-> Tail(batch)]
<1>3. /\ m \in Nat \ {0} /\ Head(batch) = batch[1] /\ Len(Tail(batch)) = m - 1
      /\ \A j \in 1..(m - 1) : Tail(batch)[j] = batch[j + 1]
      /\ Head(batch) \in Commands /\ Tail(batch) \in Seq(Commands)
  BY <1>1, FirstAndRest DEF TypeOK
<1>4. frame \in Frames /\ frame.cmd = batch[1] /\ frame.rest = Tail(batch)
  BY <1>3 DEF Frames
<1> HIDE DEF frame
<1>5. /\ Len(frames') = Len(frames) + 1
      /\ \A i \in 1..Len(frames) : frames'[i] = frames[i]
      /\ frames'[Len(frames) + 1] = frame
  BY <1>2, <1>4, Appended DEF TypeOK, frame
<1>6. /\ Top' = Top + 1 /\ frames'[Top] = frame /\ Len(batch') = 0
      /\ Len(frame.rest) = m - 1
      /\ Top \in Nat \ {0} /\ Top = Len(frames) + 1 /\ Len(frames) \in Nat
  BY <1>1, <1>3, <1>4, <1>5, Sizes DEF Top
<1>7. (Waiting' <=> Waiting) /\ ReplyTokens' = ReplyTokens
  BY <1>1 DEF Waiting, ReplyTokens
<1> DEFINE f == [i \in Levels |-> [j \in Indices |-> i]]
           g == [i \in Levels |-> [j \in Indices |-> IF i = Top THEN j + 1 ELSE j]]
<1>8. \A i \in Levels, j \in Indices :
        /\ f[i][j] = i /\ g[i][j] = IF i = Top THEN j + 1 ELSE j
        /\ g[i][j] \in Indices
  BY DEF Levels, Indices
<1> HIDE DEF f, g
<1>9. ASSUME NEW i \in Levels, NEW j \in Indices, IsPlace(i, j)'
      PROVE  /\ IsPlace(f[i][j], g[i][j])
             /\ TokenAt(i, j)' = TokenAt(f[i][j], g[i][j])
  <2>1. CASE i = Top
    <3>1. i # -1 /\ i # 0 /\ i # Top' /\ j \in 0..(m - 1)
      <4>1. i # -1 /\ i # 0 /\ i # Top'
        BY <1>6, <2>1
      <4>2. j \in 0..Len(frames'[Top].rest)
        BY <1>9, <2>1, <4>1 DEF IsPlace
      <4> QED
        BY <1>6, <4>1, <4>2
    <3>2. j + 1 \in 1..m
      BY <1>3, <3>1
    <3>3. TokenAt(i, j)' = batch[j + 1].token
      <4>1. CASE j = 0
        BY <1>3, <1>4, <1>6, <2>1, <3>1, <4>1 DEF TokenAt
      <4>2. CASE j # 0
        <5>1. j \in 1..(m - 1)
          BY <1>3, <3>1, <4>2
        <5> QED
          BY <1>3, <1>4, <1>6, <2>1, <3>1, <4>2, <5>1 DEF TokenAt
      <4> QED
        BY <4>1, <4>2
    <3> QED
      BY <1>8, <2>1, <3>1, <3>2, <3>3 DEF IsPlace, TokenAt
  <2>2. CASE i # Top
    <3>1. i # Top'
      <4>1. i # Top' \/ j \notin 1..Len(batch')
        BY <1>6 DEF Indices
      <4>2. i = Top' => i # -1 /\ i # 0 /\ i \notin 1..Len(frames')
        BY <1>5, <1>6
      <4> QED
        BY <1>9, <4>1, <4>2 DEF IsPlace
    <3>2. i \in 1..Len(frames') => i \in 1..Len(frames) /\ frames'[i] = frames[i]
      BY <1>5, <1>6, <2>2 DEF Levels
    <3> QED
      BY <1>1, <1>7, <1>8, <1>9, <2>2, <3>1, <3>2 DEF IsPlace, TokenAt
  <2> QED
    BY <2>1, <2>2
<1>10. ASSUME NEW i \in Levels, NEW j \in Indices, IsPlace(i, j)
       PROVE  \E k \in Levels, l \in Indices : IsPlace(k, l)' /\ f[k][l] = i /\ g[k][l] = j
  <2>1. CASE i = Top
    <3>1. i # -1 /\ i # 0 /\ i \notin 1..Len(frames)
      BY <1>6, <2>1
    <3>2. j \in 1..m
      BY <1>10, <3>1 DEF IsPlace
    <3>3. j - 1 \in Indices /\ j - 1 \in 0..(m - 1) /\ j - 1 + 1 = j
      BY <1>3, <3>2 DEF Indices
    <3>4. i \in 1..Len(frames')
      BY <1>5, <1>6, <2>1
    <3>5. IsPlace(i, j - 1)'
      BY <1>6, <2>1, <3>3, <3>4 DEF IsPlace
    <3> QED
      BY <1>8, <2>1, <3>3, <3>5
  <2>2. CASE i # Top
    <3>1. i \in 1..Len(frames) => i \in 1..Len(frames') /\ frames'[i] = frames[i]
      BY <1>5, <1>6
    <3>2. IsPlace(i, j)'
      BY <1>1, <1>7, <1>10, <2>2, <3>1 DEF IsPlace
    <3> QED
      BY <1>8, <2>2, <3>2
  <2> QED
    BY <2>1, <2>2
<1>11. \A i, k \in Levels, j, l \in Indices :
         f[i][j] = f[k][l] /\ g[i][j] = g[k][l] => i = k /\ j = l
  BY <1>8 DEF Indices
<1>12. -2 \in Levels /\ 0 \in Indices /\ ~IsPlace(-2, 0)
  BY Sizes DEF IsPlace, Levels, Indices
<1>13. Moves(f, g, -2, 0)
  BY <1>1, <1>7, <1>8, <1>9, <1>10, <1>11, <1>12 DEF Moves
<1> QED
  BY <1>13, PlacesChange

\* The handler of the innermost frame replies, and the rest of its list is handled.
LEMMA HeldFromFrame ==
  ASSUME TypeOK, HeldInv, OrderInv, KeysDone
  PROVE  HeldInv'
<1> DEFINE n == Len(frames)
<1>1. /\ frames # <<>> /\ frames' = SubSeq(frames, 1, n - 1) /\ batch = <<>>
      /\ batch' = frames[n].rest /\ Send(frames[n].cmd.token, FALSE)
      /\ UNCHANGED <<cmdpipe, wait_change, wait_still, postponed_cmd_token, asked>>
  BY DEF KeysDone, NestedTimeIsUp, Innermost, waitVars, OrderInv
<1>2. /\ n \in Nat \ {0} /\ Len(frames') = n - 1
      /\ \A i \in 1..(n - 1) : frames'[i] = frames[i]
      /\ frames[n].cmd.token \in Tokens
  BY <1>1, WithoutLast, TokensTyped DEF TypeOK, Innermost
<1>3. /\ Top = n + 1 /\ Top' = n /\ Len(batch) = 0 /\ Len(frames[n].rest) \in Nat
  <2>1. n \in 1..n
    BY <1>2
  <2> QED
    BY <1>1, <1>2, <2>1, Sizes DEF Top
<1>4. IsPlace(n, 0) /\ TokenAt(n, 0) = frames[n].cmd.token
  BY <1>2, <1>3 DEF IsPlace, TokenAt
<1>5. ReplyTokens' = ReplyTokens \cup {TokenAt(n, 0)}
  BY <1>1, <1>2, <1>4, SendTyped
<1>6. Waiting' <=> Waiting
  BY <1>1 DEF Waiting
<1> DEFINE f == [i \in Levels |-> [j \in Indices |-> i]]
           g == [i \in Levels |-> [j \in Indices |-> j]]
<1>7. \A i \in Levels, j \in Indices : f[i][j] = i /\ g[i][j] = j
  OBVIOUS
<1> HIDE DEF f, g
<1>8. ASSUME NEW i \in Levels, NEW j \in Indices, IsPlace(i, j)'
      PROVE  IsPlace(i, j) /\ TokenAt(i, j)' = TokenAt(i, j) /\ ~(i = n /\ j = 0)
  <2>1. CASE i = n
    <3>1. i # -1 /\ i # 0 /\ i \notin 1..Len(frames') /\ i # Top
      BY <1>2, <1>3, <2>1
    <3>2. j \in 1..Len(frames[n].rest)
      BY <1>1, <1>8, <3>1 DEF IsPlace
    <3>3. j # 0 /\ j \in 0..Len(frames[n].rest) /\ i \in 1..Len(frames)
      BY <1>2, <1>3, <2>1, <3>2
    <3> QED
      BY <1>1, <1>3, <2>1, <3>1, <3>3 DEF IsPlace, TokenAt
  <2>2. CASE i # n
    <3>1. i \in 1..Len(frames') => i \in 1..Len(frames) /\ frames'[i] = frames[i] /\ i # Top
      BY <1>2, <1>3
    <3>2. i # Top' /\ -1 # Top /\ 0 # Top
      BY <1>2, <1>3, <2>2
    <3>3. i = -1 \/ i = 0 => i # Top
      BY <3>2
    <3> QED
      BY <1>1, <1>6, <1>8, <2>2, <3>1, <3>2, <3>3 DEF IsPlace, TokenAt
  <2> QED
    BY <2>1, <2>2
<1>9. ASSUME NEW i \in Levels, NEW j \in Indices, IsPlace(i, j), ~(i = n /\ j = 0)
      PROVE  IsPlace(i, j)'
  <2>1. i # Top
    <3>1. Top # -1 /\ Top # 0 /\ Top \notin 1..Len(frames) /\ 1..Len(batch) = {}
      BY <1>2, <1>3
    <3> QED
      BY <1>9, <3>1 DEF IsPlace
  <2>2. CASE i = n
    <3>1. i # -1 /\ i # 0
      BY <1>2, <2>2
    <3>2. j \in 0..Len(frames[n].rest)
      BY <1>9, <2>1, <2>2, <3>1 DEF IsPlace
    <3>3. j \in 1..Len(frames[n].rest)
      BY <1>3, <1>9, <2>2, <3>2
    <3> QED
      BY <1>1, <1>3, <2>2, <3>3 DEF IsPlace
  <2>3. CASE i # n
    <3>1. i \in 1..Len(frames) => i \in 1..Len(frames') /\ frames'[i] = frames[i]
      BY <1>2, <2>3
    <3> QED
      BY <1>1, <1>6, <1>9, <2>1, <2>3, <3>1 DEF IsPlace
  <2> QED
    BY <2>2, <2>3
<1>10. n \in Levels /\ 0 \in Indices
  BY <1>2 DEF Levels, Indices
<1>11. Moves(f, g, n, 0)
  BY <1>1, <1>4, <1>5, <1>7, <1>8, <1>9, <1>10 DEF Moves
<1> QED
  BY <1>11, PlacesChange

\* A command that waits is the only one that does: it is postponed.
LEMMA HeldPostponed ==
  ASSUME TypeOK, HeldInv, OrderInv, HandleWaitScreenChange \/ HandleWaitStillScreen
  PROVE  HeldInv'
<1> DEFINE m == Len(batch)
<1>1. /\ batch # <<>> /\ batch' = Tail(batch) /\ Head(batch).kind \notin DriverKinds
      /\ postponed_cmd_token' = Head(batch).token
      /\ UNCHANGED <<cmdpipe, rsppipe, frames, asked>>
  BY DEF HandleWaitScreenChange, HandleWaitStillScreen, Handles, DriverKinds
<1>2. /\ m \in Nat \ {0} /\ Head(batch) = batch[1] /\ Len(batch') = m - 1
      /\ \A j \in 1..(m - 1) : batch'[j] = batch[j + 1]
      /\ Head(batch) \in Commands
  BY <1>1, FirstAndRest DEF TypeOK
<1>3. ~Waiting /\ Waiting'
  <2>1. ~Waiting
    BY <1>1, OneWait
  <2>2. wait_change' = StartWait(Head(batch)) \/ wait_still' = StartWait(Head(batch))
    BY DEF HandleWaitScreenChange, HandleWaitStillScreen
  <2> QED
    BY <1>2, <2>1, <2>2, WaitsTyped DEF Waiting
<1>4. ReplyTokens' = ReplyTokens /\ Top' = Top /\ Top \in Nat \ {0} /\ Top = Len(frames) + 1
  BY <1>1, Sizes DEF ReplyTokens, Top
<1> DEFINE f == [i \in Levels |-> [j \in Indices |-> IF i = -1 THEN Top ELSE i]]
           g == [i \in Levels |-> [j \in Indices |->
                   IF i = -1 THEN 1 ELSE IF i = Top THEN j + 1 ELSE j]]
<1>5. \A i \in Levels, j \in Indices :
        /\ f[i][j] = (IF i = -1 THEN Top ELSE i)
        /\ g[i][j] = (IF i = -1 THEN 1 ELSE IF i = Top THEN j + 1 ELSE j)
        /\ f[i][j] \in Levels /\ g[i][j] \in Indices
  BY <1>4 DEF Levels, Indices
<1> HIDE DEF f, g
<1>6. /\ Top # -1 /\ Top # 0 /\ Top \notin 1..Len(frames) /\ -1 # 0
      /\ -1 \notin 1..Len(frames) /\ 0 \notin 1..Len(frames)
  BY <1>4, Sizes
<1>7. ASSUME NEW i \in Levels, NEW j \in Indices, IsPlace(i, j)'
      PROVE  /\ IsPlace(f[i][j], g[i][j])
             /\ TokenAt(i, j)' = TokenAt(f[i][j], g[i][j])
             /\ i = -1 => j = 0
             /\ i = Top => j \in 1..(m - 1)
  <2>1. CASE i = -1
    <3>1. f[i][j] = Top /\ g[i][j] = 1 /\ j = 0
      BY <1>4, <1>5, <1>6, <1>7, <1>1, <2>1 DEF IsPlace
    <3>2. TokenAt(i, j)' = batch[1].token
      BY <1>1, <1>2, <2>1 DEF TokenAt
    <3>3. 1 \in 1..m
      BY <1>2
    <3> QED
      BY <1>6, <2>1, <3>1, <3>2, <3>3 DEF IsPlace, TokenAt
  <2>2. CASE i = Top
    <3>1. j \in 1..(m - 1)
      BY <1>1, <1>2, <1>4, <1>6, <1>7, <2>2 DEF IsPlace
    <3>2. j + 1 \in 1..m /\ batch'[j] = batch[j + 1]
      BY <1>2, <3>1
    <3>3. f[i][j] = Top /\ g[i][j] = j + 1
      BY <1>5, <1>6, <2>2
    <3> QED
      BY <1>4, <1>6, <2>2, <3>1, <3>2, <3>3 DEF IsPlace, TokenAt
  <2>3. CASE i # -1 /\ i # Top
    BY <1>1, <1>4, <1>5, <1>7, <2>3 DEF IsPlace, TokenAt
  <2> QED
    BY <2>1, <2>2, <2>3
<1>8. ASSUME NEW i \in Levels, NEW j \in Indices, IsPlace(i, j)
      PROVE  \E k \in Levels, l \in Indices : IsPlace(k, l)' /\ f[k][l] = i /\ g[k][l] = j
  <2>1. CASE i = Top /\ j = 1
    <3>1. -1 \in Levels /\ 0 \in Indices /\ IsPlace(-1, 0)'
      BY <1>3 DEF IsPlace, Levels, Indices
    <3> QED
      BY <1>5, <2>1, <3>1
  <2>2. CASE i = Top /\ j # 1
    <3>1. j \in 1..m
      BY <1>6, <1>8, <2>2 DEF IsPlace
    <3>2. j - 1 \in Indices /\ j - 1 \in 1..(m - 1) /\ j - 1 + 1 = j
      BY <1>2, <2>2, <3>1 DEF Indices
    <3>3. IsPlace(i, j - 1)'
      BY <1>2, <1>4, <2>2, <3>2 DEF IsPlace
    <3> QED
      BY <1>5, <1>6, <2>2, <3>2, <3>3
  <2>3. CASE i # Top
    <3>1. i # -1 /\ IsPlace(i, j)'
      BY <1>1, <1>3, <1>6, <1>8, <2>3 DEF IsPlace
    <3> QED
      BY <1>5, <2>3, <3>1
  <2> QED
    BY <2>1, <2>2, <2>3
<1>9. ASSUME NEW i \in Levels, NEW j \in Indices, NEW k \in Levels, NEW l \in Indices,
             IsPlace(i, j)', IsPlace(k, l)', f[i][j] = f[k][l], g[i][j] = g[k][l]
      PROVE  i = k /\ j = l
  <2>1. /\ i = -1 => j = 0
        /\ k = -1 => l = 0
        /\ i = Top => j \in 1..(m - 1)
        /\ k = Top => l \in 1..(m - 1)
    BY <1>7, <1>9
  <2>2. j \in Nat /\ l \in Nat
    BY DEF Indices
  <2>3. /\ j \in 1..(m - 1) => j + 1 # 1
        /\ l \in 1..(m - 1) => l + 1 # 1
        /\ j + 1 = l + 1 => j = l
    BY <2>2
  <2> QED
    BY <1>5, <1>6, <1>9, <2>1, <2>3
<1>10. -2 \in Levels /\ 0 \in Indices /\ ~IsPlace(-2, 0)
  BY Sizes DEF IsPlace, Levels, Indices
<1>11. Moves(f, g, -2, 0)
  BY <1>1, <1>4, <1>5, <1>7, <1>8, <1>9, <1>10 DEF Moves
<1> QED
  BY <1>11, PlacesChange

\* All commands of the pipe become the list that is handled.
LEMMA HeldRead ==
  ASSUME TypeOK, HeldInv, OrderInv, ReadCommands
  PROVE  HeldInv'
<1>1. /\ batch = <<>> /\ batch' = cmdpipe /\ cmdpipe' = <<>>
      /\ UNCHANGED <<rsppipe, frames, wait_change, wait_still, postponed_cmd_token, asked>>
  BY DEF ReadCommands, OrderInv, waitVars
<1>2. /\ ReplyTokens' = ReplyTokens /\ Top' = Top /\ (Waiting' <=> Waiting)
      /\ Len(batch) = 0 /\ Len(cmdpipe') = 0 /\ Len(cmdpipe) \in Nat
  BY <1>1, Sizes DEF ReplyTokens, Top, Waiting
<1> DEFINE f == [i \in Levels |-> [j \in Indices |-> IF i = Top THEN 0 ELSE i]]
           g == [i \in Levels |-> [j \in Indices |-> j]]
<1>3. \A i \in Levels, j \in Indices :
        f[i][j] = (IF i = Top THEN 0 ELSE i) /\ g[i][j] = j /\ f[i][j] \in Levels
  BY DEF Levels
<1> HIDE DEF f, g
<1>4. /\ Top # -1 /\ Top # 0 /\ Top \notin 1..Len(frames) /\ -1 # 0
      /\ -1 \notin 1..Len(frames) /\ 0 \notin 1..Len(frames)
      /\ 1..Len(batch) = {} /\ 1..Len(cmdpipe') = {}
  BY <1>2, Sizes
<1>5. ASSUME NEW i \in Levels, NEW j \in Indices, IsPlace(i, j)'
      PROVE  IsPlace(f[i][j], g[i][j]) /\ TokenAt(i, j)' = TokenAt(f[i][j], g[i][j]) /\ i # 0
  <2>1. i # 0
    BY <1>1, <1>2, <1>4, <1>5 DEF IsPlace
  <2>2. CASE i = Top
    BY <1>1, <1>2, <1>3, <1>4, <1>5, <2>2 DEF IsPlace, TokenAt
  <2>3. CASE i # Top
    BY <1>1, <1>2, <1>3, <1>5, <2>1, <2>3 DEF IsPlace, TokenAt
  <2> QED
    BY <2>1, <2>2, <2>3
<1>6. ASSUME NEW i \in Levels, NEW j \in Indices, IsPlace(i, j)
      PROVE  \E k \in Levels, l \in Indices : IsPlace(k, l)' /\ f[k][l] = i /\ g[k][l] = j
  <2>1. i # Top
    BY <1>4, <1>6 DEF IsPlace
  <2>2. CASE i = 0
    <3>1. PICK top \in Levels : top = Top
      BY Sizes DEF Levels
    <3>2. j \in 1..Len(cmdpipe)
      BY <1>4, <1>6, <2>1, <2>2 DEF IsPlace
    <3>3. IsPlace(top, j)'
      BY <1>1, <1>2, <3>1, <3>2 DEF IsPlace
    <3>4. f[top][j] = i /\ g[top][j] = j
      BY <1>3, <2>2, <3>1
    <3> QED
      BY <3>1, <3>3, <3>4
  <2>3. CASE i # 0
    <3>1. IsPlace(i, j)'
      BY <1>1, <1>2, <1>6, <2>1, <2>3 DEF IsPlace
    <3> QED
      BY <1>3, <2>1, <3>1
  <2> QED
    BY <2>2, <2>3
<1>7. ASSUME NEW i \in Levels, NEW j \in Indices, NEW k \in Levels, NEW l \in Indices,
             IsPlace(i, j)', IsPlace(k, l)', f[i][j] = f[k][l], g[i][j] = g[k][l]
      PROVE  i = k /\ j = l
  BY <1>3, <1>5, <1>7
<1>8. -2 \in Levels /\ 0 \in Indices /\ ~IsPlace(-2, 0)
  BY Sizes DEF IsPlace, Levels, Indices
<1>9. Moves(f, g, -2, 0)
  BY <1>1, <1>2, <1>3, <1>5, <1>6, <1>7, <1>8 DEF Moves
<1> QED
  BY <1>9, PlacesChange

\* A requester sends when its last command is answered: nothing of it is anywhere.
LEMMA HeldSent ==
  ASSUME TypeOK, HeldInv, NEW r \in Requesters, NEW kind, NEW timeout, NEW stilltime,
         SendCommand(r, kind, timeout, stilltime)
  PROVE  HeldInv'
<1> DEFINE cmd == [token |-> <<r, asked[r] + 1>>, kind |-> kind,
                   timeout |-> timeout, stilltime |-> stilltime]
           m == Len(cmdpipe)
<1>1. /\ Answered(r) /\ asked' = [asked EXCEPT ![r] = asked[r] + 1]
      /\ cmdpipe' = Append(cmdpipe, cmd) /\ cmd.token = <<r, asked[r] + 1>>
      /\ UNCHANGED <<rsppipe, batch, frames, wait_change, wait_still, postponed_cmd_token>>
  BY DEF SendCommand, waitVars
<1> HIDE DEF cmd
<1>2. /\ Len(cmdpipe') = m + 1 /\ m \in Nat /\ cmdpipe'[m + 1] = cmd
      /\ \A j \in 1..m : cmdpipe'[j] = cmdpipe[j]
  <2>1. cmdpipe \in Seq(Commands \cup {cmd})
    BY DEF TypeOK
  <2> QED
    BY <1>1, <2>1, Appended
<1>3. /\ ReplyTokens' = ReplyTokens /\ Top' = Top /\ (Waiting' <=> Waiting)
      /\ Top \in Nat \ {0}
  BY <1>1, Sizes DEF ReplyTokens, Top, Waiting
<1>4. /\ asked \in [Requesters -> Nat] /\ asked'[r] = asked[r] + 1
      /\ \A q \in Requesters \ {r} : asked'[q] = asked[q]
  BY <1>1 DEF TypeOK
<1>5. <<r, asked[r] + 1>> \notin ReplyTokens
  BY <1>4 DEF HeldInv, RepliesArePast
<1>6. ASSUME NEW i \in Levels, NEW j \in Indices
      PROVE  /\ IsPlace(i, j)' <=> IsPlace(i, j) \/ (i = 0 /\ j = m + 1)
             /\ IsPlace(i, j) => TokenAt(i, j)' = TokenAt(i, j) /\ ~(i = 0 /\ j = m + 1)
             /\ i = 0 /\ j = m + 1 => TokenAt(i, j)' = <<r, asked[r] + 1>>
  <2>1. CASE i = 0
    <3>1. Top # 0 /\ 0 \notin 1..Len(frames) /\ -1 # 0
      BY <1>3, Sizes
    <3>2. IsPlace(0, j)' <=> j \in 1..(m + 1)
      BY <1>1, <1>2, <1>3, <3>1 DEF IsPlace
    <3>3. IsPlace(0, j) <=> j \in 1..m
      BY <3>1 DEF IsPlace
    <3>4. j \in 1..(m + 1) <=> j \in 1..m \/ j = m + 1
      BY <1>2
    <3>5. j \in 1..m => j # m + 1 /\ cmdpipe'[j] = cmdpipe[j]
      BY <1>2
    <3>6. TokenAt(0, j)' = cmdpipe'[j].token /\ TokenAt(0, j) = cmdpipe[j].token
      BY DEF TokenAt
    <3> QED
      BY <1>1, <1>2, <2>1, <3>2, <3>3, <3>4, <3>5, <3>6
  <2>2. CASE i # 0
    BY <1>1, <1>3, <2>2 DEF IsPlace, TokenAt
  <2> QED
    BY <2>1, <2>2
<1>7. ASSUME NEW i \in Levels, NEW j \in Indices, IsPlace(i, j)
      PROVE  \E q \in Requesters \ {r} : /\ asked[q] > 0 /\ TokenAt(i, j) = <<q, asked[q]>>
                                         /\ <<q, asked[q]>> \notin ReplyTokens
  <2>1. PICK q \in Requesters : /\ asked[q] > 0 /\ TokenAt(i, j) = <<q, asked[q]>>
                                /\ <<q, asked[q]>> \notin ReplyTokens
    BY <1>7 DEF HeldInv, HeldIsOpen
  <2>2. ~(asked[r] > 0 /\ <<r, asked[r]>> \notin ReplyTokens)
    <3>1. asked[r] = 0 \/ <<r, asked[r]>> \in ReplyTokens
      BY <1>1 DEF Answered
    <3> QED
      BY <3>1
  <2>3. q # r
    BY <2>1, <2>2
  <2> QED
    BY <2>1, <2>3
<1>8. HeldIsOpen'
  <2> SUFFICES ASSUME NEW i \in Levels, NEW j \in Indices, IsPlace(i, j)'
               PROVE  \E q \in Requesters : /\ asked'[q] > 0
                                            /\ TokenAt(i, j)' = <<q, asked'[q]>>
                                            /\ <<q, asked'[q]>> \notin ReplyTokens'
    BY DEF HeldIsOpen
  <2>1. CASE IsPlace(i, j)
    <3>1. PICK q \in Requesters \ {r} : /\ asked[q] > 0 /\ TokenAt(i, j) = <<q, asked[q]>>
                                        /\ <<q, asked[q]>> \notin ReplyTokens
      BY <1>7, <2>1
    <3> QED
      BY <1>3, <1>4, <1>6, <2>1, <3>1
  <2>2. CASE i = 0 /\ j = m + 1
    <3>1. TokenAt(i, j)' = <<r, asked'[r]>> /\ <<r, asked'[r]>> \notin ReplyTokens'
      BY <1>3, <1>4, <1>5, <1>6, <2>2
    <3>2. asked'[r] > 0
      BY <1>4
    <3> QED
      BY <3>1, <3>2
  <2> QED
    BY <1>6, <2>1, <2>2
<1>9. HeldOnce'
  <2> SUFFICES ASSUME NEW i \in Levels, NEW j \in Indices, NEW k \in Levels, NEW l \in Indices,
                      IsPlace(i, j)', IsPlace(k, l)', TokenAt(i, j)' = TokenAt(k, l)'
               PROVE  i = k /\ j = l
    BY DEF HeldOnce
  <2>1. CASE IsPlace(i, j) /\ IsPlace(k, l)
    BY <1>6, <2>1 DEF HeldInv, HeldOnce
  <2>2. CASE IsPlace(i, j) /\ k = 0 /\ l = m + 1
    <3>1. PICK q \in Requesters \ {r} : TokenAt(i, j) = <<q, asked[q]>>
      BY <1>7, <2>2
    <3> QED
      BY <1>6, <2>2, <3>1
  <2>3. CASE IsPlace(k, l) /\ i = 0 /\ j = m + 1
    <3>1. PICK q \in Requesters \ {r} : TokenAt(k, l) = <<q, asked[q]>>
      BY <1>7, <2>3
    <3> QED
      BY <1>6, <2>3, <3>1
  <2> QED
    BY <1>6, <2>1, <2>2, <2>3
<1>10. OpenIsHeld'
  <2> SUFFICES ASSUME NEW q \in Requesters, asked'[q] # 0, <<q, asked'[q]>> \notin ReplyTokens'
               PROVE  \E i \in Levels, j \in Indices :
                        IsPlace(i, j)' /\ TokenAt(i, j)' = <<q, asked'[q]>>
    BY DEF OpenIsHeld, Answered
  <2>1. CASE q = r
    <3>1. 0 \in Levels /\ m + 1 \in Indices
      BY <1>2 DEF Levels, Indices
    <3> QED
      BY <1>4, <1>6, <2>1, <3>1
  <2>2. CASE q # r
    <3>1. ~Answered(q)
      BY <1>3, <1>4, <2>2 DEF Answered
    <3>2. PICK i \in Levels, j \in Indices : IsPlace(i, j) /\ TokenAt(i, j) = <<q, asked[q]>>
      BY <3>1 DEF HeldInv, OpenIsHeld
    <3> QED
      BY <1>4, <1>6, <2>2, <3>2
  <2> QED
    BY <2>1, <2>2
<1>11. RepliesArePast'
  BY <1>3, <1>4 DEF HeldInv, RepliesArePast
<1> QED
  BY <1>8, <1>9, <1>10, <1>11 DEF HeldInv

\* do_capture answers the postponed command, and no other.
LEMMA HeldCapture ==
  ASSUME TypeOK, HeldInv, OrderInv, CaptureAndCheck
  PROVE  HeldInv'
<1>1. UNCHANGED <<cmdpipe, batch, frames, postponed_cmd_token, asked>>
  BY DEF CaptureAndCheck
<1>2. ASSUME NEW timed_out, timed_out = TRUE \/ timed_out = FALSE,
             Send(postponed_cmd_token, timed_out), Waiting, ~Waiting'
      PROVE  HeldInv'
  <2>1. IsPlace(-1, 0) /\ TokenAt(-1, 0) = postponed_cmd_token
    BY <1>2 DEF IsPlace, TokenAt
  <2>2. ReplyTokens' = ReplyTokens \cup {TokenAt(-1, 0)}
    BY <1>2, <2>1, TokensTyped, SendTyped
  <2> DEFINE f == [i \in Levels |-> [j \in Indices |-> i]]
             g == [i \in Levels |-> [j \in Indices |-> j]]
  <2>3. \A i \in Levels, j \in Indices : f[i][j] = i /\ g[i][j] = j
    OBVIOUS
  <2> HIDE DEF f, g
  <2>4. Top' = Top /\ Top # -1 /\ -1 \notin 1..Len(frames) /\ -1 # 0
    BY <1>1, Sizes DEF Top
  <2>5. \A i \in Levels, j \in Indices :
          /\ IsPlace(i, j)' => IsPlace(i, j) /\ TokenAt(i, j)' = TokenAt(i, j) /\ i # -1
          /\ IsPlace(i, j) /\ ~(i = -1 /\ j = 0) => IsPlace(i, j)'
    BY <1>1, <1>2, <2>4 DEF IsPlace, TokenAt
  <2>6. -1 \in Levels /\ 0 \in Indices
    BY DEF Levels, Indices
  <2>7. Moves(f, g, -1, 0)
    BY <1>1, <2>1, <2>2, <2>3, <2>5, <2>6 DEF Moves
  <2> QED
    BY <2>7, PlacesChange
<1>3. ASSUME UNCHANGED rsppipe, Waiting' <=> Waiting
      PROVE  HeldInv'
  BY <1>1, <1>3, HeldKept DEF ReplyTokens
<1>4. CASE ChangeIsOver /\ CheckForScreenChange
  <2> DEFINE late == wait_change.elapsed > wait_change.timeout
  <2>1. late = TRUE \/ late = FALSE
    BY DEF TypeOK, Waits
  <2>2. Send(postponed_cmd_token, late) /\ Waiting /\ ~Waiting'
    BY <1>4, WaitsTyped DEF ChangeIsOver, CheckForScreenChange, Waiting, OrderInv
  <2> QED
    BY <1>2, <2>1, <2>2
<1>5. CASE wait_still.active /\ CheckForStillScreen
  <2>1. Waiting /\ ~wait_change.active /\ UNCHANGED wait_change
    BY <1>5 DEF CheckForStillScreen, Waiting, OrderInv
  <2>2. CASE Send(postponed_cmd_token, ~IsStill) /\ wait_still' = NoWait
    <3>1. ~Waiting'
      BY <2>1, <2>2, WaitsTyped DEF Waiting
    <3>2. (~IsStill) = TRUE \/ (~IsStill) = FALSE
      OBVIOUS
    <3> QED
      BY <1>2, <2>1, <2>2, <3>1, <3>2
  <2>3. CASE wait_still' = [wait_still EXCEPT !.still = StillAge] /\ UNCHANGED rsppipe
    <3>1. wait_still'.active = wait_still.active
      BY <2>3 DEF TypeOK, Waits
    <3> QED
      BY <1>3, <2>1, <2>3, <3>1 DEF Waiting
  <2> QED
    BY <1>5, <2>2, <2>3 DEF CheckForStillScreen
<1>6. CASE UNCHANGED <<rsppipe, wait_change, wait_still>>
  BY <1>3, <1>6 DEF Waiting
<1> QED
  BY <1>4, <1>5, <1>6 DEF CaptureAndCheck

LEMMA HeldNext ==
  ASSUME TypeOK, HeldInv, OrderInv, Next
  PROVE  HeldInv'
<1> USE DEF waitVars, imageVars
<1>1. CASE \/ SelectTimesOut \/ HandleStopVm \/ EndOfBatch \/ StopVm \/ DisarmSigterm
           \/ Exit \/ Terminate \/ ScreenChanges
  <2>1. UNCHANGED <<cmdpipe, rsppipe, batch, frames, wait_change, wait_still,
                    postponed_cmd_token, asked>>
    BY <1>1 DEF SelectTimesOut, HandleStopVm, EndOfBatch, StopVm, DisarmSigterm, Exit,
       Terminate, ScreenChanges
  <2> QED
    BY <2>1, HeldKept DEF Waiting, ReplyTokens
<1>2. CASE SendQuit
  <2>1. UNCHANGED <<cmdpipe, batch, frames, wait_change, wait_still,
                    postponed_cmd_token, asked>>
    BY <1>2 DEF SendQuit
  <2>2. ReplyTokens' = ReplyTokens \cup {QuitToken}
    <3>1. /\ Len(rsppipe') = Len(rsppipe) + 1 /\ rsppipe' \in Seq(Replies \cup {Quit})
          /\ \A i \in 1..Len(rsppipe) : rsppipe'[i] = rsppipe[i]
          /\ rsppipe'[Len(rsppipe) + 1] = Quit
      BY <1>2, Appended DEF SendQuit, TypeOK
    <3>2. /\ Len(rsppipe) \in Nat /\ DOMAIN rsppipe = 1..Len(rsppipe)
          /\ DOMAIN rsppipe' = 1..Len(rsppipe')
      BY <3>1 DEF TypeOK
    <3>3. 1..Len(rsppipe') = 1..Len(rsppipe) \cup {Len(rsppipe) + 1}
      BY <3>1, <3>2
    <3> QED
      BY <3>1, <3>2, <3>3 DEF ReplyTokens, Quit
  <2>3. \A r \in Requesters, n \in Nat : <<r, n>> \in ReplyTokens' <=> <<r, n>> \in ReplyTokens
    BY <2>2 DEF QuitToken, Requesters, Forwarded, Driver
  <2>4. asked \in [Requesters -> Nat]
    BY DEF TypeOK
  <2>5. \A i \in Levels, j \in Indices :
          (IsPlace(i, j)' <=> IsPlace(i, j)) /\ TokenAt(i, j)' = TokenAt(i, j)
    BY <2>1 DEF IsPlace, TokenAt, Waiting, Top
  <2>6. HeldIsOpen'
    BY <2>1, <2>3, <2>4, <2>5 DEF HeldInv, HeldIsOpen
  <2>7. HeldOnce'
    BY <2>5 DEF HeldInv, HeldOnce
  <2>8. OpenIsHeld'
    BY <2>1, <2>3, <2>4, <2>5 DEF HeldInv, OpenIsHeld, Answered
  <2>9. RepliesArePast'
    BY <2>1, <2>3 DEF HeldInv, RepliesArePast
  <2> QED
    BY <2>6, <2>7, <2>8, <2>9 DEF HeldInv
<1>3. CASE Tick
  <2>1. /\ Len(frames') = Len(frames)
        /\ \A i \in 1..Len(frames) :
             frames'[i].cmd = frames[i].cmd /\ frames'[i].rest = frames[i].rest
    <3>1. \A i \in 1..Len(frames) : frames[i] \in Frames
      BY Sizes
    <3>2. Len(frames) \in Nat /\ DOMAIN frames = 1..Len(frames)
      BY DEF TypeOK
    <3> QED
      BY <1>3, <3>1, <3>2 DEF Tick, Frames
  <2>2. Waiting' <=> Waiting
    BY <1>3, WaitsTyped DEF Tick, TypeOK, Waiting
  <2>3. UNCHANGED <<cmdpipe, rsppipe, batch, postponed_cmd_token, asked>>
    BY <1>3 DEF Tick
  <2> QED
    BY <2>1, <2>2, <2>3, HeldKept DEF ReplyTokens
<1>4. CASE NextKey
  <2>1. /\ Len(frames') = Len(frames)
        /\ \A i \in 1..Len(frames) :
             frames'[i].cmd = frames[i].cmd /\ frames'[i].rest = frames[i].rest
    <3>1. \A i \in 1..Len(frames) : frames[i] \in Frames
      BY Sizes
    <3>2. frames \in Seq(Frames) /\ DOMAIN frames = 1..Len(frames)
      BY DEF TypeOK
    <3> QED
      BY <1>4, <3>1, <3>2 DEF NextKey, Frames
  <2>2. UNCHANGED <<cmdpipe, rsppipe, batch, postponed_cmd_token, asked, wait_change,
                    wait_still>>
    BY <1>4 DEF NextKey
  <2> QED
    BY <2>1, <2>2, HeldKept DEF ReplyTokens, Waiting
<1>5. CASE IsotovideoSends
  BY <1>5, HeldSent DEF IsotovideoSends, Requesters
<1> QED
  BY <1>1, <1>2, <1>3, <1>4, <1>5, HeldServed, HeldInFrame, HeldFromFrame, HeldPostponed,
     HeldRead, HeldCapture DEF Next, ProcessStep
-----------------------------------------------------------------------------
(* The invariant                                                             *)

LEMMA QuitInit == Init => QuitInv
BY DEF Init, QuitInv, ReplyTokens

LEMMA QuitNext ==
  ASSUME TypeOK, HeldInv, QuitInv, Next
  PROVE  QuitInv'
<1> USE DEF waitVars, imageVars
<1>1. ASSUME NEW token \in Tokens, NEW timed_out, timed_out = TRUE \/ timed_out = FALSE,
             Send(token, timed_out)
      PROVE  QuitToken \in ReplyTokens' => QuitToken \in ReplyTokens
  <2>1. ReplyTokens' = ReplyTokens \cup {token}
    BY <1>1, SendTyped
  <2>2. token # QuitToken
    BY DEF Tokens, Requesters, Forwarded, Driver, QuitToken
  <2> QED
    BY <2>1, <2>2
<1>2. CASE CaptureAndCheck
  <2>1. QuitToken \in ReplyTokens' => QuitToken \in ReplyTokens
    <3>1. CASE ChangeIsOver /\ CheckForScreenChange
      <4> DEFINE late == wait_change.elapsed > wait_change.timeout
      <4>1. late = TRUE \/ late = FALSE
        BY DEF TypeOK, Waits
      <4> QED
        BY <1>1, <3>1, <4>1, TokensTyped DEF ChangeIsOver, CheckForScreenChange, Waiting
    <3>2. CASE wait_still.active /\ CheckForStillScreen
      <4>1. CASE Send(postponed_cmd_token, ~IsStill)
        <5>1. (~IsStill) = TRUE \/ (~IsStill) = FALSE
          OBVIOUS
        <5> QED
          BY <1>1, <3>2, <4>1, <5>1, TokensTyped DEF Waiting
      <4>2. CASE UNCHANGED rsppipe
        BY <4>2 DEF ReplyTokens
      <4> QED
        BY <3>2, <4>1, <4>2 DEF CheckForStillScreen
    <3>3. CASE UNCHANGED rsppipe
      BY <3>3 DEF ReplyTokens
    <3> QED
      BY <1>2, <3>1, <3>2, <3>3 DEF CaptureAndCheck
  <2> QED
    BY <1>2, <2>1 DEF CaptureAndCheck, QuitInv
<1>3. CASE HandlePlain \/ HandleSelectConsole \/ HandleSetReference
  <2>1. Head(batch).token \in Tokens /\ Send(Head(batch).token, FALSE)
        /\ pc = "handle" /\ UNCHANGED <<pc, term_ignored>>
    BY <1>3, TokensTyped DEF HandlePlain, HandleSelectConsole, HandleSetReference, Handles
  <2>2. QuitToken \in ReplyTokens' => QuitToken \in ReplyTokens
    BY <1>1, <2>1
  <2> QED
    BY <2>1, <2>2 DEF QuitInv
<1>4. CASE KeysDone
  <2>1. Innermost.cmd.token \in Tokens /\ Send(Innermost.cmd.token, FALSE)
        /\ pc = "capture" /\ pc' = "handle" /\ UNCHANGED term_ignored
    BY <1>4, TokensTyped DEF KeysDone, NestedTimeIsUp
  <2>2. QuitToken \in ReplyTokens' => QuitToken \in ReplyTokens
    BY <1>1, <2>1
  <2> QED
    BY <2>1, <2>2 DEF QuitInv
<1>5. CASE SendQuit
  BY <1>5 DEF SendQuit, QuitInv
<1>6. CASE \/ SelectTimesOut \/ ReadCommands \/ HandleKeys \/ HandleWaitScreenChange
           \/ HandleWaitStillScreen \/ HandleStopVm \/ EndOfBatch \/ NextKey \/ StopVm
           \/ DisarmSigterm \/ Exit \/ Terminate \/ ScreenChanges \/ Tick \/ IsotovideoSends
  <2>1. UNCHANGED rsppipe
    BY <1>6 DEF SelectTimesOut, ReadCommands, HandleKeys, HandleWaitScreenChange,
       HandleWaitStillScreen, HandleStopVm, EndOfBatch, NextKey, StopVm, DisarmSigterm, Exit,
       Terminate, ScreenChanges, Tick, IsotovideoSends, SendCommand
  <2>2. ReplyTokens' = ReplyTokens
    BY <2>1 DEF ReplyTokens
  <2> QED
    BY <1>6, <2>2 DEF SelectTimesOut, ReadCommands, HandleKeys, HandleWaitScreenChange,
       HandleWaitStillScreen, HandleStopVm, EndOfBatch, NextKey, StopVm, DisarmSigterm, Exit,
       Terminate, ScreenChanges, Tick, IsotovideoSends, SendCommand, Handles, QuitInv
<1> QED
  BY <1>2, <1>3, <1>4, <1>5, <1>6 DEF Next, ProcessStep

LEMMA StillInit == Init => StillInv
BY WaitsTyped DEF Init, StillInv

\* What a wait for a still screen does with a new screenshot
LEMMA StillCapture ==
  ASSUME TypeOK, OrderInv, StillInv, CaptureAndCheck, wait_still.active
  PROVE  /\ CheckForStillScreen
         /\ StillAge <= same_for' /\ same_for' \in Nat /\ wait_still.stilltime \in Nat
         /\ reference_screenshot' = last_image'
<1>1. CheckForStillScreen /\ Capture
  BY DEF CaptureAndCheck, ChangeIsOver, OrderInv
<1>2. /\ wait_still.still \in Nat /\ wait_still.stilltime \in Nat
      /\ same_for \in Nat /\ MaxStill \in Nat
  BY MaxStillIs DEF TypeOK, Waits
<1>3. /\ same_for' = IF Image # last_image THEN 0 ELSE same_for
      /\ last_image' = Image /\ reference_screenshot' = Image
  BY <1>1 DEF Capture, CheckForStillScreen
<1>4. reference_screenshot = last_image /\ wait_still.still <= same_for
  BY DEF StillInv
<1>5. StillAge <= same_for'
  <2>1. CASE Image # last_image
    BY <1>2, <1>3, <1>4, <2>1 DEF StillAge, Changed
  <2>2. CASE Image = last_image
    BY <1>2, <1>3, <1>4, <2>2 DEF StillAge, Changed
  <2> QED
    BY <2>1, <2>2
<1> QED
  BY <1>1, <1>2, <1>3, <1>5

LEMMA StillNext ==
  ASSUME TypeOK, HeldInv, OrderInv, StillInv, Next
  PROVE  StillInv'
<1> USE DEF waitVars, imageVars
<1>1. /\ wait_still \in Waits /\ same_for \in Nat /\ MaxStill \in Nat
      /\ wait_still.still \in Nat /\ wait_still.stilltime \in Nat
  BY MaxStillIs DEF TypeOK, Waits
<1>2. CASE CaptureAndCheck
  <2>1. CASE wait_still.active
    <3>1. /\ CheckForStillScreen /\ StillAge <= same_for'
          /\ reference_screenshot' = last_image'
      BY <1>2, <2>1, StillCapture
    <3>2. CASE wait_still' = NoWait
      BY <3>2, WaitsTyped DEF StillInv
    <3>3. CASE wait_still' = [wait_still EXCEPT !.still = StillAge]
      <4>1. wait_still'.still = StillAge /\ wait_still'.stilltime = wait_still.stilltime
        BY <1>1, <3>3 DEF Waits
      <4> QED
        BY <2>1, <3>1, <4>1 DEF StillInv
    <3> QED
      BY <3>1, <3>2, <3>3 DEF CheckForStillScreen
  <2>2. CASE ~wait_still.active
    <3>1. UNCHANGED wait_still
      BY <1>2, <2>2 DEF CaptureAndCheck, CheckForScreenChange
    <3> QED
      BY <2>2, <3>1 DEF StillInv
  <2> QED
    BY <2>1, <2>2
<1>3. CASE Tick
  <2>1. CASE ~wait_still.active
    BY <1>3, <2>1, WaitsTyped DEF Tick, TypeOK, StillInv
  <2>2. CASE wait_still.active
    <3>1. /\ wait_still' = [wait_still EXCEPT !.elapsed = Least(@ + 1, wait_still.timeout + 1),
                                            !.still = Least(@ + 1, wait_still.stilltime)]
          /\ same_for' = Least(same_for + 1, MaxStill)
          /\ UNCHANGED <<reference_screenshot, last_image>>
      BY <1>3, <2>2 DEF Tick, Older
    <3>2. /\ wait_still'.still = Least(wait_still.still + 1, wait_still.stilltime)
          /\ wait_still'.stilltime = wait_still.stilltime
      BY <1>1, <3>1 DEF Waits
    <3>3. wait_still.still <= same_for /\ wait_still.stilltime <= MaxStill
      BY <2>2 DEF StillInv
    <3>4. wait_still'.still <= same_for'
      BY <1>1, <3>1, <3>2, <3>3 DEF Least
    <3> QED
      BY <2>2, <3>1, <3>2, <3>4 DEF StillInv
  <2> QED
    BY <2>1, <2>2
<1>4. CASE HandleWaitStillScreen
  <2>1. Head(batch) \in Commands /\ wait_still' = StartWait(Head(batch))
        /\ reference_screenshot' = last_image /\ UNCHANGED <<last_image, same_for>>
    BY <1>4, FirstAndRest DEF HandleWaitStillScreen, Handles, TypeOK
  <2>2. wait_still'.still = 0 /\ wait_still'.stilltime = Head(batch).stilltime
    BY <2>1 DEF StartWait
  <2>3. Head(batch).stilltime \in StillTimes \cup {0}
    BY <2>1 DEF Commands
  <2>4. Head(batch).stilltime <= MaxStill
    <3>1. CASE Head(batch).stilltime \in StillTimes
      BY <3>1, MaxStillIs
    <3>2. CASE Head(batch).stilltime = 0
      BY <1>1, <3>2
    <3> QED
      BY <2>3, <3>1, <3>2
  <2> QED
    BY <1>1, <2>1, <2>2, <2>4 DEF StillInv
<1>5. CASE HandleSetReference
  BY <1>5 DEF HandleSetReference, StillInv
<1>6. CASE UNCHANGED <<wait_still, reference_screenshot, last_image, same_for>>
  BY <1>6 DEF StillInv
<1>8. CASE HandleSelectConsole
  <2>1. batch # <<>> /\ Head(batch).token[1] = Forwarded /\ UNCHANGED wait_still
    BY <1>8 DEF HandleSelectConsole, Handles
  <2>2. ~Waiting
    BY <2>1, OneForwarded
  <2> QED
    BY <2>1, <2>2 DEF StillInv, Waiting
<1>7. CASE \/ SelectTimesOut \/ ReadCommands \/ HandlePlain \/ HandleKeys
           \/ HandleWaitScreenChange \/ HandleStopVm \/ EndOfBatch \/ NextKey \/ KeysDone
           \/ StopVm \/ DisarmSigterm \/ SendQuit \/ Exit \/ Terminate \/ IsotovideoSends
           \/ ScreenChanges
  <2>1. UNCHANGED <<wait_still, reference_screenshot, last_image, same_for>>
    BY <1>7 DEF SelectTimesOut, ReadCommands, HandlePlain, HandleKeys, HandleWaitScreenChange,
       HandleStopVm, EndOfBatch, NextKey, KeysDone, StopVm, DisarmSigterm, SendQuit, Exit,
       Terminate, IsotovideoSends, SendCommand, ScreenChanges
  <2> QED
    BY <1>6, <2>1
<1> QED
  BY <1>2, <1>3, <1>4, <1>5, <1>7, <1>8 DEF Next, ProcessStep

IInv == TypeOK /\ HeldInv /\ OrderInv /\ QuitInv /\ StillInv

LEMMA Stuttering ==
  ASSUME IInv, UNCHANGED vars
  PROVE  IInv'
<1> USE DEF vars, waitVars, imageVars
<1>1. TypeOK'
  BY DEF IInv, TypeOK
<1>2. HeldInv'
  BY HeldKept DEF IInv, Waiting, ReplyTokens
<1>3. OrderInv'
  BY DEF IInv, OrderInv, Waiting
<1>4. QuitInv' /\ StillInv'
  BY DEF IInv, QuitInv, StillInv, ReplyTokens
<1> QED
  BY <1>1, <1>2, <1>3, <1>4 DEF IInv

LEMMA Invariance == Spec => []IInv
<1>1. Init => IInv
  BY TypeInit, HeldInit, OrderInit, QuitInit, StillInit DEF IInv
<1>2. IInv /\ [Next]_vars => IInv'
  <2> SUFFICES ASSUME IInv, [Next]_vars PROVE IInv'
    OBVIOUS
  <2>1. CASE Next
    BY <2>1, NextTyped, HeldNext, OrderNext, QuitNext, StillNext DEF IInv
  <2>2. CASE UNCHANGED vars
    BY <2>2, Stuttering
  <2> QED
    BY <2>1, <2>2
<1> QED
  BY <1>1, <1>2, PTL DEF Spec

\* The state of the backend process has its type.
THEOREM TypeCorrect == Spec => []TypeOK
<1>1. IInv => TypeOK
  BY DEF IInv
<1> QED
  BY <1>1, Invariance, PTL
-----------------------------------------------------------------------------
(* What follows                                                              *)

LEMMA PlacesOfTokens ==
  ASSUME TypeOK, NEW token
  PROVE  /\ token \in InPipe <=> \E j \in Indices : IsPlace(0, j) /\ TokenAt(0, j) = token
         /\ token \in InBatch <=> \E j \in Indices : IsPlace(Top, j) /\ TokenAt(Top, j) = token
         /\ token \in InFrames <=>
              \E i \in 1..Len(frames), j \in Indices : IsPlace(i, j) /\ TokenAt(i, j) = token
         /\ token \in InWaits <=> IsPlace(-1, 0) /\ TokenAt(-1, 0) = token
<1>1. /\ Top # -1 /\ Top # 0 /\ Top \notin 1..Len(frames) /\ -1 # 0
      /\ -1 \notin 1..Len(frames) /\ 0 \notin 1..Len(frames)
  BY Sizes
<1>2. /\ DOMAIN cmdpipe = 1..Len(cmdpipe) /\ DOMAIN batch = 1..Len(batch)
      /\ DOMAIN frames = 1..Len(frames)
      /\ \A i \in DOMAIN frames : DOMAIN frames[i].rest = 1..Len(frames[i].rest)
  <2>1. \A frame \in Frames : frame.rest \in Seq(Commands)
    BY DEF Frames
  <2> QED
    BY <2>1, Sizes DEF TypeOK
<1>3. /\ 1..Len(cmdpipe) \subseteq Indices /\ 1..Len(batch) \subseteq Indices
      /\ \A i \in 1..Len(frames) : 0..Len(frames[i].rest) \subseteq Indices
  BY Sizes DEF Indices
<1>4. \A j \in Indices : /\ IsPlace(0, j) <=> j \in 1..Len(cmdpipe)
                         /\ TokenAt(0, j) = cmdpipe[j].token
                         /\ IsPlace(Top, j) <=> j \in 1..Len(batch)
                         /\ TokenAt(Top, j) = batch[j].token
  BY <1>1 DEF IsPlace, TokenAt
<1>5. ASSUME NEW i \in 1..Len(frames), NEW j \in Indices
      PROVE  /\ IsPlace(i, j) <=> j \in 0..Len(frames[i].rest)
             /\ TokenAt(i, j) = IF j = 0 THEN frames[i].cmd.token ELSE frames[i].rest[j].token
  BY <1>1 DEF IsPlace, TokenAt
<1>6. token \in InPipe <=> \E j \in Indices : IsPlace(0, j) /\ TokenAt(0, j) = token
  BY <1>2, <1>3, <1>4 DEF InPipe
<1>7. token \in InBatch <=> \E j \in Indices : IsPlace(Top, j) /\ TokenAt(Top, j) = token
  BY <1>2, <1>3, <1>4 DEF InBatch
<1>8. ASSUME token \in InFrames
      PROVE  \E i \in 1..Len(frames), j \in Indices : IsPlace(i, j) /\ TokenAt(i, j) = token
  <2>1. CASE \E i \in DOMAIN frames : token = frames[i].cmd.token
    <3>1. PICK i \in 1..Len(frames) : token = frames[i].cmd.token
      BY <1>2, <2>1
    <3>2. 0 \in Indices /\ 0 \in 0..Len(frames[i].rest)
      BY Sizes DEF Indices
    <3> QED
      BY <1>5, <3>1, <3>2
  <2>2. CASE \E i \in DOMAIN frames : \E j \in DOMAIN frames[i].rest :
               token = frames[i].rest[j].token
    <3>1. PICK i \in 1..Len(frames) : \E j \in 1..Len(frames[i].rest) :
            token = frames[i].rest[j].token
      BY <1>2, <2>2
    <3>2. PICK j \in 1..Len(frames[i].rest) : token = frames[i].rest[j].token
      BY <3>1
    <3>3. j \in Indices /\ j \in 0..Len(frames[i].rest) /\ j # 0
      BY Sizes DEF Indices
    <3> QED
      BY <1>5, <3>2, <3>3
  <2> QED
    BY <1>8, <2>1, <2>2 DEF InFrames
<1>9. ASSUME NEW i \in 1..Len(frames), NEW j \in Indices, IsPlace(i, j), TokenAt(i, j) = token
      PROVE  token \in InFrames
  <2>1. CASE j = 0
    BY <1>2, <1>5, <1>9, <2>1 DEF InFrames
  <2>2. CASE j # 0
    <3>1. j \in 1..Len(frames[i].rest)
      BY <1>5, <1>9, <2>2, Sizes
    <3> QED
      BY <1>2, <1>5, <1>9, <2>2, <3>1 DEF InFrames
  <2> QED
    BY <2>1, <2>2
<1>10. token \in InWaits <=> IsPlace(-1, 0) /\ TokenAt(-1, 0) = token
  BY <1>1 DEF InWaits, IsPlace, TokenAt, Waiting
<1> QED
  BY <1>6, <1>7, <1>8, <1>9, <1>10

LEMMA HeldNotLost ==
  ASSUME TypeOK, HeldInv, OrderInv
  PROVE  NoCommandLost
<1> SUFFICES ASSUME NEW r \in Requesters, ~Answered(r)
             PROVE  LET places == <<InPipe, InBatch, InFrames, InWaits>>
                    IN  \E i \in DOMAIN places : \A j \in DOMAIN places :
                          <<r, asked[r]>> \in places[j] <=> j = i
  BY DEF NoCommandLost, OrderInv
<1> DEFINE token == <<r, asked[r]>>
           places == <<InPipe, InBatch, InFrames, InWaits>>
<1>1. PICK i \in Levels, j \in Indices : IsPlace(i, j) /\ TokenAt(i, j) = token
  BY DEF HeldInv, OpenIsHeld
<1> HIDE DEF token
<1>2. \A k \in Levels, l \in Indices : IsPlace(k, l) /\ TokenAt(k, l) = token => k = i /\ l = j
  BY <1>1 DEF HeldInv, HeldOnce
<1>3. /\ Top # -1 /\ Top # 0 /\ Top \notin 1..Len(frames)
      /\ -1 \notin 1..Len(frames) /\ 0 \notin 1..Len(frames)
      /\ Top \in Levels /\ 0 \in Levels /\ -1 \in Levels /\ 0 \in Indices
      /\ 1..Len(frames) \subseteq Levels
  BY Sizes DEF Levels, Indices
<1>4. /\ token \in InPipe => i = 0
      /\ token \in InBatch => i = Top
      /\ token \in InFrames => i \in 1..Len(frames)
      /\ token \in InWaits => i = -1
  <2>1. token \in InPipe => i = 0
    BY <1>2, <1>3, PlacesOfTokens
  <2>2. token \in InBatch => i = Top
    BY <1>2, <1>3, PlacesOfTokens
  <2>3. token \in InFrames => i \in 1..Len(frames)
    BY <1>2, <1>3, PlacesOfTokens
  <2>4. token \in InWaits => i = -1
    BY <1>2, <1>3, PlacesOfTokens
  <2> QED
    BY <2>1, <2>2, <2>3, <2>4
<1>5. /\ i = 0 => token \in InPipe
      /\ i = Top => token \in InBatch
      /\ i \in 1..Len(frames) => token \in InFrames
      /\ i = -1 => token \in InWaits
  <2>1. i = 0 => token \in InPipe
    BY <1>1, PlacesOfTokens
  <2>2. i = Top => token \in InBatch
    BY <1>1, PlacesOfTokens
  <2>3. i \in 1..Len(frames) => token \in InFrames
    BY <1>1, PlacesOfTokens
  <2>4. i = -1 => token \in InWaits
    <3>1. i = -1 => j = 0
      BY <1>1, <1>3 DEF IsPlace
    <3> QED
      BY <1>1, <3>1, PlacesOfTokens
  <2> QED
    BY <2>1, <2>2, <2>3, <2>4
<1>6. i = -1 \/ i = 0 \/ i = Top \/ i \in 1..Len(frames)
  BY <1>1 DEF IsPlace
<1>7. /\ DOMAIN places = 1..4 /\ places[1] = InPipe /\ places[2] = InBatch
      /\ places[3] = InFrames /\ places[4] = InWaits
  OBVIOUS
<1> HIDE DEF places
<1>8. \E k \in 1..4 : \A l \in 1..4 : token \in places[l] <=> l = k
  <2>1. \A l \in 1..4 : l = 1 \/ l = 2 \/ l = 3 \/ l = 4
    OBVIOUS
  <2>2. CASE i = 0
    BY <1>3, <1>4, <1>5, <1>7, <2>1, <2>2
  <2>3. CASE i = Top
    BY <1>3, <1>4, <1>5, <1>7, <2>1, <2>3
  <2>4. CASE i \in 1..Len(frames)
    BY <1>3, <1>4, <1>5, <1>7, <2>1, <2>4
  <2>5. CASE i = -1
    BY <1>3, <1>4, <1>5, <1>7, <2>1, <2>5
  <2> QED
    BY <1>6, <2>2, <2>3, <2>4, <2>5
<1> QED
  BY <1>7, <1>8 DEF places, token

\* A command that is not answered is at exactly one place, however deep the handlers
\* are nested and however many commands came in one list: none is lost, and none is
\* handled twice.
THEOREM CommandsAreHeld == Spec => []NoCommandLost
<1>1. IInv => NoCommandLost
  BY HeldNotLost DEF IInv
<1> QED
  BY <1>1, Invariance, PTL

\* wait_still_screen succeeds only if the screenshots have been the same for the time
\* it asked for, also if nested loops took some of them.
THEOREM StillnessIsMeasured == Spec => StillIsStill
<1>1. ASSUME IInv, [Next]_vars
      PROVE  [ wait_still.active /\ ~wait_still'.active
                 => \/ rsppipe'[Len(rsppipe')].timed_out
                    \/ same_for' >= wait_still.stilltime ]_vars
  <2> SUFFICES ASSUME TypeOK, OrderInv, StillInv, Next, wait_still.active,
                      ~wait_still'.active, ~rsppipe'[Len(rsppipe')].timed_out
               PROVE  same_for' >= wait_still.stilltime
    BY <1>1 DEF IInv
  <2> USE DEF waitVars, imageVars
  <2>1. CaptureAndCheck
    <3>1. CASE HandleWaitStillScreen
      <4>1. Head(batch) \in Commands
        BY <3>1, FirstAndRest DEF HandleWaitStillScreen, Handles, TypeOK
      <4>2. wait_still' = StartWait(Head(batch))
        BY <3>1 DEF HandleWaitStillScreen
      <4> QED
        BY <4>1, <4>2, WaitsTyped
    <3>2. CASE Tick
      BY <3>2, WaitsTyped DEF Tick, TypeOK
    <3>3. CASE UNCHANGED wait_still
      BY <3>3
    <3> QED
      BY <3>1, <3>2, <3>3
         DEF Next, ProcessStep, SelectTimesOut, ReadCommands, HandlePlain, HandleSelectConsole,
         HandleSetReference, HandleKeys, HandleWaitScreenChange, HandleStopVm, EndOfBatch, NextKey, KeysDone,
         StopVm, DisarmSigterm, SendQuit, Exit, Terminate, IsotovideoSends, SendCommand,
         ScreenChanges
  <2>2. /\ CheckForStillScreen /\ StillAge <= same_for'
        /\ same_for' \in Nat /\ wait_still.stilltime \in Nat
    BY <2>1, StillCapture
  <2>3. wait_still' # [wait_still EXCEPT !.still = StillAge]
    BY DEF TypeOK, Waits
  <2>4. Send(postponed_cmd_token, ~IsStill)
    BY <2>2, <2>3 DEF CheckForStillScreen
  <2>5. ASSUME ~IsStill PROVE FALSE
    <3> DEFINE reply == [token |-> postponed_cmd_token, timed_out |-> TRUE]
    <3>1. (~IsStill) = TRUE
      BY <2>5, Zenon
    <3>2. rsppipe' = Append(rsppipe, reply)
      BY <2>4, <3>1 DEF Send
    <3>3. rsppipe \in Seq(Replies \cup {Quit} \cup {reply}) /\ reply.timed_out
      BY DEF TypeOK
    <3> HIDE DEF reply
    <3>4. Len(rsppipe') = Len(rsppipe) + 1 /\ rsppipe'[Len(rsppipe) + 1] = reply
      BY <3>2, <3>3, Appended
    <3> QED
      BY <3>3, <3>4
  <2>6. IsStill
    BY <2>5
  <2>7. StillAge \in Nat
    BY DEF StillAge, TypeOK, Waits
  <2> QED
    BY <2>2, <2>6, <2>7 DEF IsStill
<1> QED
  BY <1>1, Invariance, PTL DEF Spec, StillIsStill
-----------------------------------------------------------------------------
(* The promise of the backend                                                *)

AskedTokens == UNION { {r} \X (1..asked[r]) : r \in Requesters }
SaidTokens == [i \in DOMAIN rsppipe |-> rsppipe[i].token]

LEMMA AskedIs ==
  ASSUME TypeOK
  PROVE  \A r \in Requesters, n \in Nat : <<r, n>> \in AskedTokens <=> n \in 1..asked[r]
BY DEF AskedTokens

LEMMA SaidIs ==
  ASSUME TypeOK
  PROVE  /\ SaidTokens \in Seq(Tokens \cup {QuitToken}) /\ Len(SaidTokens) = Len(rsppipe)
         /\ \A i \in 1..Len(rsppipe) : SaidTokens[i] = rsppipe[i].token
         /\ { SaidTokens[i] : i \in DOMAIN SaidTokens } = ReplyTokens
<1>1. DOMAIN rsppipe = 1..Len(rsppipe) /\ Len(rsppipe) \in Nat
  BY DEF TypeOK
<1>2. \A i \in 1..Len(rsppipe) : rsppipe[i].token \in Tokens \cup {QuitToken}
  <2>1. \A e \in Replies \cup {Quit} : e.token \in Tokens \cup {QuitToken}
    BY DEF Replies, Quit
  <2> QED
    BY <2>1 DEF TypeOK
<1>3. SaidTokens = [i \in 1..Len(rsppipe) |-> rsppipe[i].token]
  BY <1>1 DEF SaidTokens
<1>4. SaidTokens \in Seq(Tokens \cup {QuitToken})
  BY <1>1, <1>2, <1>3, IsASeq
<1>5. DOMAIN SaidTokens = 1..Len(rsppipe)
  BY <1>3
<1>6. Len(SaidTokens) = Len(rsppipe)
  BY <1>1, <1>4, <1>5
<1>7. { SaidTokens[i] : i \in DOMAIN SaidTokens } = ReplyTokens
  BY <1>1, <1>3, <1>5 DEF ReplyTokens
<1> QED
  BY <1>3, <1>4, <1>6, <1>7

LEMMA SaidMore ==
  ASSUME TypeOK, TypeOK', NEW e \in Replies \cup {Quit}, rsppipe' = Append(rsppipe, e)
  PROVE  SaidTokens' = Append(SaidTokens, e.token)
<1> DEFINE n == Len(rsppipe)  more == Append(SaidTokens, e.token)
<1>1. /\ Len(rsppipe') = n + 1 /\ \A i \in 1..n : rsppipe'[i] = rsppipe[i]
      /\ rsppipe'[n + 1] = e /\ n \in Nat
  BY Appended DEF TypeOK
<1>2. /\ SaidTokens \in Seq(Tokens \cup {QuitToken}) /\ Len(SaidTokens) = n
      /\ \A i \in 1..n : SaidTokens[i] = rsppipe[i].token
  BY SaidIs
<1>3. e.token \in Tokens \cup {QuitToken}
  BY DEF Replies, Quit
<1>4. /\ more \in Seq(Tokens \cup {QuitToken}) /\ Len(more) = n + 1
      /\ \A i \in 1..n : more[i] = SaidTokens[i]
      /\ more[n + 1] = e.token
  BY <1>2, <1>3, Appended
<1> HIDE DEF more
<1>5. SaidTokens' = [i \in DOMAIN rsppipe' |-> rsppipe'[i].token]
  BY DEF SaidTokens
<1>6. DOMAIN rsppipe' = 1..(n + 1)
  BY <1>1 DEF TypeOK
<1>7. \A i \in 1..(n + 1) : rsppipe'[i].token = more[i]
  <2>1. \A i \in 1..(n + 1) : i \in 1..n \/ i = n + 1
    BY <1>1
  <2> QED
    BY <1>1, <1>2, <1>4, <2>1
<1>8. more = [i \in 1..(n + 1) |-> more[i]]
  BY <1>1, <1>4
<1>9. SaidTokens' = [i \in 1..(n + 1) |-> more[i]]
  BY <1>5, <1>6, <1>7
<1> QED
  BY <1>8, <1>9 DEF more

\* What the process says is a reply to a command that is asked and not answered, ...
LEMMA ReplyStep ==
  ASSUME IInv, TypeOK', NEW i \in Levels, NEW j \in Indices, IsPlace(i, j),
         NEW timed_out, timed_out = TRUE \/ timed_out = FALSE,
         Send(TokenAt(i, j), timed_out), UNCHANGED asked,
         pc \in {"capture", "handle"}
  PROVE  BS!Next
<1> DEFINE token == TokenAt(i, j)
<1>1. PICK r \in Requesters : /\ asked[r] > 0 /\ token = <<r, asked[r]>>
                              /\ token \notin ReplyTokens
  BY DEF IInv, HeldInv, HeldIsOpen
<1> HIDE DEF token
<1>2. asked[r] \in 1..MaxCommands /\ asked[r] \in 1..asked[r] /\ asked[r] \in Nat
  BY <1>1 DEF IInv, TypeOK
<1>3. token \in Tokens /\ token \in AskedTokens
  BY <1>1, <1>2, AskedIs DEF IInv, Tokens
<1>4. SaidTokens' = Append(SaidTokens, token)
  <2> DEFINE e == [token |-> token, timed_out |-> timed_out]
  <2>1. e \in Replies \cup {Quit} /\ rsppipe' = Append(rsppipe, e) /\ e.token = token
    BY <1>3 DEF Replies, Send, token
  <2> HIDE DEF e
  <2> QED
    BY <2>1, SaidMore DEF IInv
<1>5. QuitToken \notin ReplyTokens
  BY DEF IInv, QuitInv
<1>6. { SaidTokens[k] : k \in DOMAIN SaidTokens } = ReplyTokens
  BY SaidIs DEF IInv
<1>7. AskedTokens' = AskedTokens
  BY DEF AskedTokens
<1>8. PICK reply \in Tokens : reply = token
  BY <1>3
<1>9. BS!Reply(reply)
  BY <1>1, <1>3, <1>4, <1>5, <1>6, <1>7, <1>8
     DEF BS!Reply, BS!Running, BS!Replied, AskedTokens, SaidTokens
<1> QED
  BY <1>9 DEF BS!Next

\* ... a command that is sent has a new token, ...
LEMMA AskStep ==
  ASSUME IInv, NEW r \in Requesters, NEW kind, NEW timeout, NEW stilltime,
         SendCommand(r, kind, timeout, stilltime)
  PROVE  BS!Next
<1> DEFINE n == asked[r] + 1
           token == <<r, n>>
<1>1. /\ n \in 1..MaxCommands /\ asked' = [asked EXCEPT ![r] = n]
      /\ asked \in [Requesters -> Nat] /\ n \in Nat /\ UNCHANGED rsppipe
  BY DEF SendCommand, IInv, TypeOK
<1>2. token \in Tokens /\ token \notin AskedTokens
  BY <1>1, AskedIs DEF IInv, Tokens
<1>3. AskedTokens' = AskedTokens \cup {token}
  <2>1. /\ \A q \in Requesters \ {r} : asked'[q] = asked[q]
        /\ asked'[r] = n /\ 1..n = 1..asked[r] \cup {n}
    BY <1>1
  <2>2. AskedTokens' = UNION { {q} \X (1..asked'[q]) : q \in Requesters }
    BY DEF AskedTokens
  <2>3. ASSUME NEW t PROVE t \in AskedTokens' <=> t \in AskedTokens \cup {token}
    <3>1. t \in AskedTokens' <=> \E q \in Requesters : t \in {q} \X (1..asked'[q])
      BY <2>2
    <3>2. t \in AskedTokens <=> \E q \in Requesters : t \in {q} \X (1..asked[q])
      BY DEF AskedTokens
    <3>3. \A q \in Requesters \ {r} : {q} \X (1..asked'[q]) = {q} \X (1..asked[q])
      BY <2>1
    <3>4. t \in {r} \X (1..asked'[r]) <=> t \in {r} \X (1..asked[r]) \/ t = token
      BY <2>1
    <3> QED
      BY <3>1, <3>2, <3>3, <3>4
  <2> QED
    BY <2>3
<1>4. SaidTokens' = SaidTokens
  BY <1>1 DEF SaidTokens
<1> HIDE DEF token
<1>5. PICK new \in Tokens : new = token
  BY <1>2
<1>6. BS!Ask(new)
  BY <1>2, <1>3, <1>4, <1>5 DEF BS!Ask, AskedTokens, SaidTokens
<1> QED
  BY <1>6 DEF BS!Next

\* ... and QUIT is said once.
LEMMA QuitStep ==
  ASSUME IInv, TypeOK', SendQuit
  PROVE  BS!Next
<1>1. pc = "quitting" /\ rsppipe' = Append(rsppipe, Quit) /\ UNCHANGED asked
  BY DEF SendQuit
<1>2. SaidTokens' = Append(SaidTokens, QuitToken)
  <2>1. Quit \in Replies \cup {Quit} /\ Quit.token = QuitToken
    BY DEF Quit
  <2> QED
    BY <1>1, <2>1, SaidMore DEF IInv
<1>3. QuitToken \notin { SaidTokens[k] : k \in DOMAIN SaidTokens }
  BY <1>1, SaidIs DEF IInv, QuitInv
<1>4. AskedTokens' = AskedTokens
  BY <1>1 DEF AskedTokens
<1>5. BS!Quit
  BY <1>2, <1>3, <1>4 DEF BS!Quit, BS!Running, BS!Replied, AskedTokens, SaidTokens
<1> QED
  BY <1>5 DEF BS!Next

LEMMA ServiceStep ==
  ASSUME IInv, IInv', [Next]_vars
  PROVE  [BS!Next]_(BS!vars)
<1> USE DEF waitVars, imageVars
<1>1. ASSUME UNCHANGED <<asked, rsppipe>> PROVE UNCHANGED BS!vars
  BY <1>1 DEF BS!vars
<1>2. CASE CaptureAndCheck
  <2>1. pc = "capture" /\ UNCHANGED asked
    BY <1>2 DEF CaptureAndCheck
  <2>2. ASSUME Waiting
        PROVE  -1 \in Levels /\ 0 \in Indices /\ IsPlace(-1, 0) /\ TokenAt(-1, 0) = postponed_cmd_token
    BY <2>2 DEF IsPlace, TokenAt, Levels, Indices
  <2>3. CASE ChangeIsOver /\ CheckForScreenChange
    <3> DEFINE late == wait_change.elapsed > wait_change.timeout
    <3>1. late = TRUE \/ late = FALSE
      BY DEF IInv, TypeOK, Waits
    <3>2. Send(postponed_cmd_token, late) /\ Waiting
      BY <2>3 DEF ChangeIsOver, CheckForScreenChange, Waiting
    <3> QED
      BY <2>1, <2>2, <3>1, <3>2, ReplyStep DEF IInv
  <2>4. CASE wait_still.active /\ CheckForStillScreen
    <3>1. CASE Send(postponed_cmd_token, ~IsStill)
      <4>1. (~IsStill) = TRUE \/ (~IsStill) = FALSE
        OBVIOUS
      <4>2. Waiting
        BY <2>4 DEF Waiting
      <4> QED
        BY <2>1, <2>2, <3>1, <4>1, <4>2, ReplyStep DEF IInv
    <3>2. CASE UNCHANGED rsppipe
      BY <1>1, <2>1, <3>2
    <3> QED
      BY <2>4, <3>1, <3>2 DEF CheckForStillScreen
  <2>5. CASE UNCHANGED rsppipe
    BY <1>1, <2>1, <2>5
  <2> QED
    BY <1>2, <2>3, <2>4, <2>5 DEF CaptureAndCheck
<1>3. CASE HandlePlain \/ HandleSelectConsole \/ HandleSetReference
  <2>1. /\ batch # <<>> /\ pc = "handle" /\ Send(Head(batch).token, FALSE) /\ UNCHANGED asked
    BY <1>3 DEF HandlePlain, HandleSelectConsole, HandleSetReference, Handles
  <2>2. PICK top \in Levels : top = Top
    BY Sizes DEF Levels, IInv
  <2>3. 1 \in Indices /\ IsPlace(top, 1) /\ TokenAt(top, 1) = Head(batch).token
    BY <2>1, <2>2, PlaceOfHead DEF IInv, Indices
  <2> QED
    BY <2>1, <2>3, ReplyStep DEF IInv
<1>4. CASE KeysDone
  <2>1. /\ frames # <<>> /\ pc = "capture" /\ Send(frames[Len(frames)].cmd.token, FALSE)
        /\ UNCHANGED asked
    BY <1>4 DEF KeysDone, NestedTimeIsUp, Innermost
  <2>2. PICK n \in Levels : n = Len(frames) /\ n \in Nat \ {0}
    BY <2>1, WithoutLast DEF Levels, IInv, TypeOK
  <2>3. 0 \in Indices /\ IsPlace(n, 0) /\ TokenAt(n, 0) = frames[n].cmd.token
    <3>1. Len(frames[n].rest) \in Nat /\ Top = n + 1 /\ n \in 1..n
      BY <2>2, Sizes DEF IInv
    <3> QED
      BY <2>2, <3>1 DEF IsPlace, TokenAt, Indices
  <2> QED
    BY <2>1, <2>2, <2>3, ReplyStep DEF IInv
<1>5. CASE IsotovideoSends
  BY <1>5, AskStep DEF IsotovideoSends, Requesters
<1>6. CASE SendQuit
  BY <1>6, QuitStep DEF IInv
<1>7. CASE \/ SelectTimesOut \/ ReadCommands \/ HandleKeys \/ HandleWaitScreenChange
           \/ HandleWaitStillScreen \/ HandleStopVm \/ EndOfBatch \/ NextKey \/ StopVm
           \/ DisarmSigterm \/ Exit \/ Terminate \/ ScreenChanges \/ Tick \/ UNCHANGED vars
  <2>1. UNCHANGED <<asked, rsppipe>>
    BY <1>7 DEF SelectTimesOut, ReadCommands, HandleKeys, HandleWaitScreenChange,
       HandleWaitStillScreen, HandleStopVm, EndOfBatch, NextKey, StopVm, DisarmSigterm, Exit,
       Terminate, ScreenChanges, Tick, vars
  <2> QED
    BY <1>1, <2>1
<1> QED
  BY <1>2, <1>3, <1>4, <1>5, <1>6, <1>7 DEF Next, ProcessStep

\* The backend answers each command at most once, with its own token, and says QUIT
\* once, as the last thing: the process implements BackendService.
THEOREM ServiceIsKept == Spec => BackendServed
<1>1. Init => BS!Init
  <2> SUFFICES ASSUME Init PROVE BS!Init
    OBVIOUS
  <2>1. AskedTokens = {}
    BY DEF Init, AskedTokens
  <2>2. SaidTokens = <<>>
    <3>1. DOMAIN rsppipe = {}
      BY DEF Init
    <3> QED
      BY <3>1 DEF SaidTokens
  <2> QED
    BY <2>1, <2>2 DEF BS!Init, AskedTokens, SaidTokens
<1>2. IInv /\ IInv' /\ [Next]_vars => [BS!Next]_(BS!vars)
  BY ServiceStep
<1> QED
  BY <1>1, <1>2, Invariance, PTL DEF Spec, BackendServed, BS!Spec
=============================================================================
