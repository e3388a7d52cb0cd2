---------------------------- MODULE VideoProofs ----------------------------
(***************************************************************************)
(* Proofs about VideoPipeline: the queues of the encoders, and what the     *)
(* encoder finds in its pipe.                                               *)
(***************************************************************************)
EXTENDS VideoPipeline, SequenceTheorems, WellFoundedInduction, TLAPS

USE PipesAssumption, SizesAssumption, FailuresAssumption
    DEF PipesAssumption, SizesAssumption, FailuresAssumption, Internal, External
-----------------------------------------------------------------------------
(* Buffers and parts                                                         *)

LEMMA Filling ==
  ASSUME NEW S, NEW s \in Seq(S), NEW e \in S
  PROVE  Append(s, e) # <<>>
BY AppendProperties

LEMMA Joined ==
  ASSUME NEW S, NEW s \in Seq(S), NEW t \in Seq(S)
  PROVE  /\ s \o t \in Seq(S) /\ Len(s \o t) = Len(s) + Len(t)
         /\ \A k \in 1..Len(s) : (s \o t)[k] = s[k]
         /\ \A k \in 1..Len(t) : (s \o t)[Len(s) + k] = t[k]
BY ConcatProperties

LEMMA SizeBounds == ASSUME NEW b PROVE Size(b) \in 1..DataSize
BY DEF Size

LEMMA PartTyped ==
  ASSUME NEW b \in Buffers, NEW i \in 1..Size(b)
  PROVE  Part(b, i) \in AllParts
<1>1. i \in 1..DataSize
  BY SizeBounds
<1> QED
  BY <1>1 DEF Part, AllParts, Buffers

LEMMA PartsTyped ==
  ASSUME NEW b \in Buffers
  PROVE  Parts(b) \in Seq(AllParts) /\ Len(Parts(b)) = Size(b)
<1>1. Size(b) \in Nat
  BY SizeBounds
<1>2. \A i \in 1..Size(b) : Part(b, i) \in AllParts
  BY PartTyped
<1> QED
  BY <1>1, <1>2, IsASeq DEF Parts

LEMMA ImageTyped ==
  ASSUME NEW frame \in 1..MaxFrames
  PROVE  Image(frame) \in Buffers /\ Size(Image(frame)) = DataSize
BY DEF Image, Buffers, Kinds, Size

LEMMA CommandTyped ==
  ASSUME TypeOK, video_frame_number < MaxFrames, NEW kind \in {"R", "E"}
  PROVE  Command(kind) \in Buffers /\ NewFrame \in 1..MaxFrames
BY DEF Command, Buffers, Kinds, NewFrame, TypeOK
-----------------------------------------------------------------------------
(* Types                                                                     *)

\* Between the two halves of an update
Halfway ==
  /\ pc = "enqueue" => /\ video_encoders
                       /\ last_image_data # NoFrame
                       /\ video_frame_number < MaxFrames
  /\ pc = "account" => queue[written.pipe] # <<>>

Filled == { p \in Pipes : queue[p] # <<>> }

\* What select waits for, in the loop and when the rest is passed on
Watched ==
  /\ pc = "loop" \/ (pc = "account" /\ video_encoders) => selected = Filled
  /\ pc = "loop" => video_encoders
  /\ pc \in {"flush", "await"} => ~video_encoders
  /\ pc # "exited" /\ ~video_encoders => Filled \subseteq remaining
  /\ pc = "await" => remaining = {}

QueueInv == TypeOK /\ Halfway /\ Watched

LEMMA QueueInit == Init => QueueInv
<1> SUFFICES ASSUME Init PROVE QueueInv
  OBVIOUS
<1>1. queue \in [Pipes -> Seq(Buffers)] /\ \A p \in Pipes : queue[p] = <<>>
  BY EmptySeq DEF Init
<1>2. received \in [Pipes -> Seq(AllParts)] /\ stream \in [Pipes -> Seq(AllParts)]
  BY EmptySeq DEF Init
<1>3. write_offset \in [Pipes -> 0..(DataSize - 1)]
  BY DEF Init
<1>4. written \in [pipe : Pipes, count : 0..DataSize]
  BY DEF Init, NothingWritten
<1>5. TypeOK
  <2>1. /\ video_frame_number \in 0..MaxFrames /\ last_image_data \in 0..MaxFrames
        /\ sigterms \in 0..Sigterms
    BY DEF Init, NoFrame
  <2>2. /\ pc = "loop" /\ video_encoders = TRUE /\ awaited = FALSE
        /\ selected = {} /\ remaining = {} /\ hanging = {}
    BY DEF Init
  <2> QED
    BY <1>1, <1>2, <1>3, <1>4, <2>1, <2>2 DEF TypeOK
<1> QED
  BY <1>1, <1>5 DEF Init, QueueInv, Halfway, Watched, Filled

LEMMA StopTyped ==
  ASSUME QueueInv, Stop, pc # "exited", UNCHANGED sigterms \/ sigterms' \in 0..Sigterms
  PROVE  QueueInv'
<1> USE DEF queueVars, frameVars
<1>1. TypeOK'
  BY DEF Stop, QueueInv, TypeOK
<1> QED
  BY <1>1 DEF Stop, QueueInv, Halfway, Watched, Filled

LEMMA RepeatTyped ==
  ASSUME QueueInv, EnqueueRepeat
  PROVE  QueueInv'
<1> DEFINE pushed == [p \in Pipes |-> IF p = Internal THEN Command("R")
                                      ELSE Image(last_image_data)]
<1>1. last_image_data \in 1..MaxFrames
  BY DEF EnqueueRepeat, QueueInv, TypeOK, NoFrame
<1>2. \A p \in Pipes : pushed[p] \in Buffers
  BY <1>1, CommandTyped, ImageTyped DEF EnqueueRepeat, Screenshot, QueueInv
<1>3. /\ queue' = [p \in Pipes |-> Append(queue[p], pushed[p])]
      /\ stream' = [p \in Pipes |-> stream[p] \o Parts(pushed[p])]
  BY DEF EnqueueRepeat
<1> HIDE DEF pushed
<1>4. queue' \in [Pipes -> Seq(Buffers)]
  BY <1>2, <1>3 DEF QueueInv, TypeOK
<1>5. stream' \in [Pipes -> Seq(AllParts)]
  <2>1. \A p \in Pipes : stream[p] \o Parts(pushed[p]) \in Seq(AllParts)
    BY <1>2, PartsTyped, ConcatProperties DEF QueueInv, TypeOK
  <2> QED
    BY <1>3, <2>1
<1>6. TypeOK'
  <2>1. video_frame_number' \in 0..MaxFrames
    BY DEF EnqueueRepeat, Screenshot, NewFrame, QueueInv, TypeOK
  <2>2. /\ selected' = Pipes
        /\ UNCHANGED <<pc, write_offset, last_image_data, written, stopVars,
                       outsideVars, received>>
    BY DEF EnqueueRepeat
  <2> QED
    BY <1>4, <1>5, <2>1, <2>2 DEF QueueInv, TypeOK, stopVars, outsideVars
<1>7. Filled' = Pipes
  <2>1. \A p \in Pipes : queue'[p] # <<>>
    <3>1. SUFFICES ASSUME NEW p \in Pipes PROVE Append(queue[p], pushed[p]) # <<>>
      BY <1>3
    <3>2. queue[p] \in Seq(Buffers) /\ pushed[p] \in Buffers
      BY <1>2 DEF QueueInv, TypeOK
    <3> QED
      BY <3>2, Filling
  <2> QED
    BY <2>1 DEF Filled
<1> QED
  BY <1>6, <1>7 DEF EnqueueRepeat, Screenshot, QueueInv, Halfway, Watched, stopVars

LEMMA CommandPushed ==
  ASSUME QueueInv, EnqueueCommand
  PROVE  QueueInv'
<1>1. /\ Command("E") \in Buffers /\ NewFrame \in 1..MaxFrames /\ Image(NewFrame) \in Buffers
  BY CommandTyped, ImageTyped DEF EnqueueCommand, Screenshot, QueueInv
<1>2. queue' \in [Pipes -> Seq(Buffers)]
  BY <1>1 DEF EnqueueCommand, QueueInv, TypeOK
<1>3. stream' \in [Pipes -> Seq(AllParts)]
  <2> DEFINE first(p) == IF p = Internal THEN Parts(Command("E")) ELSE <<>>
  <2>1. \A p \in Pipes : first(p) \in Seq(AllParts)
    BY <1>1, PartsTyped, EmptySeq
  <2>2. stream' = [p \in Pipes |-> stream[p] \o first(p) \o Parts(Image(NewFrame))]
    BY DEF EnqueueCommand
  <2> HIDE DEF first
  <2>3. \A p \in Pipes : stream[p] \o first(p) \o Parts(Image(NewFrame)) \in Seq(AllParts)
    BY <1>1, <2>1, PartsTyped, ConcatProperties DEF QueueInv, TypeOK
  <2> QED
    BY <2>2, <2>3
<1>4. TypeOK'
  BY <1>1, <1>2, <1>3 DEF EnqueueCommand, QueueInv, TypeOK, stopVars, outsideVars
<1> QED
  BY <1>1, <1>4
     DEF EnqueueCommand, Screenshot, QueueInv, Halfway, Watched, stopVars, NoFrame

LEMMA ImagePushed ==
  ASSUME QueueInv, EnqueueImage
  PROVE  QueueInv'
<1>1. last_image_data \in 1..MaxFrames /\ NewFrame \in 1..MaxFrames
  BY DEF EnqueueImage, QueueInv, Halfway, TypeOK, NoFrame, NewFrame
<1>2. Image(last_image_data) \in Buffers
  BY <1>1, ImageTyped
<1>3. queue' \in [Pipes -> Seq(Buffers)]
  BY <1>2 DEF EnqueueImage, QueueInv, TypeOK
<1>4. TypeOK'
  BY <1>1, <1>3 DEF EnqueueImage, QueueInv, TypeOK, stopVars, outsideVars
<1>5. Filled' = Pipes
  <2>1. \A p \in Pipes : queue'[p] = Append(queue[p], Image(last_image_data))
    BY DEF EnqueueImage
  <2>2. \A p \in Pipes : Append(queue[p], Image(last_image_data)) # <<>>
    BY <1>2, Filling DEF QueueInv, TypeOK
  <2> QED
    BY <2>1, <2>2 DEF Filled
<1> QED
  BY <1>4, <1>5 DEF EnqueueImage, QueueInv, Halfway, Watched, stopVars

LEMMA PartsWrittenTyped ==
  ASSUME TypeOK, NEW p \in Pipes, queue[p] # <<>>, NEW count \in 1..Unwritten(p)
  PROVE  /\ PartsWritten(p, count) \in Seq(AllParts)
         /\ Len(PartsWritten(p, count)) = count
         /\ count \in 1..DataSize
<1> DEFINE b == Head(queue[p])
<1>1. b \in Buffers
  BY DEF TypeOK
<1>2. /\ Size(b) \in 1..DataSize /\ write_offset[p] \in 0..(DataSize - 1)
      /\ Unwritten(p) = Size(b) - write_offset[p]
  BY SizeBounds DEF TypeOK, Unwritten
<1>3. count \in 1..DataSize /\ write_offset[p] + count <= Size(b)
  BY <1>2
<1>4. \A i \in 1..count : write_offset[p] + i \in 1..Size(b)
  BY <1>2, <1>3
<1>5. \A i \in 1..count : Part(b, write_offset[p] + i) \in AllParts
  BY <1>1, <1>4, PartTyped
<1> QED
  BY <1>3, <1>5, IsASeq DEF PartsWritten

LEMMA SyswriteTyped ==
  ASSUME QueueInv, NEW p \in Pipes, Syswrite(p), pc \in {"loop", "flush"}
  PROVE  QueueInv'
<1>1. PICK count \in 1..Unwritten(p) :
        /\ received' = [received EXCEPT ![p] = @ \o PartsWritten(p, count)]
        /\ written' = [pipe |-> p, count |-> count]
  BY DEF Syswrite
<1>2. PartsWritten(p, count) \in Seq(AllParts) /\ count \in 1..DataSize
  BY PartsWrittenTyped DEF Syswrite, QueueInv
<1>3. received' \in [Pipes -> Seq(AllParts)]
  BY <1>1, <1>2, ConcatProperties DEF QueueInv, TypeOK
<1>4. TypeOK'
  <2>1. written' \in [pipe : Pipes, count : 0..DataSize]
    <3>1. count \in 0..DataSize
      BY <1>2, SizesAssumption
    <3> QED
      BY <1>1, <3>1
  <2>2. TypeOK /\ pc' = "account"
    BY DEF Syswrite, QueueInv
  <2>3. UNCHANGED <<queueVars, frameVars, stopVars, outsideVars>>
    BY DEF Syswrite
  <2> QED
    BY <1>3, <2>1, <2>2, <2>3 DEF TypeOK, queueVars, frameVars, stopVars, outsideVars
<1> QED
  BY <1>1, <1>4 DEF Syswrite, QueueInv, Halfway, Watched, Filled, queueVars, stopVars

\* Account for what was written of the buffer of a pipe
LEMMA AccountTyped ==
  ASSUME QueueInv, Account
  PROVE  QueueInv'
<1> DEFINE p == written.pipe
           done == { q \in {p} : queue'[q] = <<>> }
<1>1. p \in Pipes /\ queue[p] # <<>> /\ written.count \in 0..DataSize
  BY DEF Account, QueueInv, TypeOK, Halfway
<1>2. /\ AccountForBuffer(p) \/ AccountForPart(p)
      /\ selected' = selected \ done /\ remaining' = remaining \ done
      /\ written' = NothingWritten
      /\ pc = "account" /\ pc' = IF video_encoders THEN "loop" ELSE "flush"
      /\ UNCHANGED <<video_frame_number, last_image_data, stream, video_encoders,
                     awaited, hanging, sigterms, received>>
  BY DEF Account, frameVars, outsideVars
<1>3. /\ queue' \in [Pipes -> Seq(Buffers)]
      /\ write_offset' \in [Pipes -> 0..(DataSize - 1)]
      /\ \A q \in Pipes \ {p} : queue'[q] = queue[q]
  <2>1. CASE AccountForBuffer(p)
    <3>1. Tail(queue[p]) \in Seq(Buffers)
      BY <1>1, HeadTailProperties DEF QueueInv, TypeOK
    <3> QED
      BY <1>1, <2>1, <3>1 DEF AccountForBuffer, QueueInv, TypeOK
  <2>2. CASE AccountForPart(p)
    <3>1. /\ Size(Head(queue[p])) \in 1..DataSize /\ write_offset[p] \in 0..(DataSize - 1)
          /\ written.count < Size(Head(queue[p])) - write_offset[p]
      BY <1>1, <2>2, SizeBounds DEF AccountForPart, Unwritten, QueueInv, TypeOK
    <3>2. write_offset[p] + written.count \in 0..(DataSize - 1)
      BY <1>1, <3>1
    <3> QED
      BY <1>1, <2>2, <3>2 DEF AccountForPart, QueueInv, TypeOK
  <2> QED
    BY <1>2, <2>1, <2>2
<1>4. TypeOK'
  <2>1. written' \in [pipe : Pipes, count : 0..DataSize]
    BY <1>2 DEF NothingWritten
  <2>2. selected' \subseteq Pipes /\ remaining' \subseteq Pipes
    BY <1>2 DEF QueueInv, TypeOK
  <2>3. pc' \in {"loop", "flush"}
    BY <1>2
  <2> QED
    BY <1>2, <1>3, <2>1, <2>2, <2>3 DEF QueueInv, TypeOK
<1>5. video_encoders => selected' = Filled'
  <2>1. video_encoders => selected = Filled
    BY <1>2 DEF QueueInv, Watched
  <2>2. selected' = selected \ done
    BY <1>2
  <2> QED
    BY <1>1, <1>3, <2>1, <2>2 DEF Filled
<1>6. ~video_encoders => Filled' \subseteq remaining'
  <2>1. ~video_encoders => Filled \subseteq remaining
    BY <1>2 DEF QueueInv, Watched
  <2>2. remaining' = remaining \ done
    BY <1>2
  <2> QED
    BY <1>1, <1>3, <2>1, <2>2 DEF Filled
<1> QED
  BY <1>2, <1>4, <1>5, <1>6 DEF QueueInv, Halfway, Watched

\* Steps of the backend, alone or beside the encoder
LEMMA NextTyped ==
  ASSUME QueueInv, Next
  PROVE  QueueInv'
<1> USE DEF queueVars, frameVars, stopVars, outsideVars
<1>1. CASE StopVm \/ Sigterm \/ PassingTimesOut
  <2>1. Stop /\ pc # "exited"
    BY <1>1 DEF StopVm, Sigterm, PassingTimesOut
  <2>2. UNCHANGED sigterms \/ sigterms' \in 0..Sigterms
    BY <1>1 DEF StopVm, Sigterm, PassingTimesOut, QueueInv, TypeOK
  <2> QED
    BY <2>1, <2>2, StopTyped
<1>2. CASE AllPassed \/ EncodersEnd
  <2>1. TypeOK'
    BY <1>2 DEF AllPassed, EncodersEnd, QueueInv, TypeOK
  <2> QED
    BY <1>2, <2>1 DEF AllPassed, EncodersEnd, QueueInv, Halfway, Watched, Filled
<1>3. ASSUME NEW p \in Pipes, WriteInLoop(p) \/ WriteRemaining(p) PROVE QueueInv'
  <2>1. Syswrite(p)
    BY <1>3 DEF WriteInLoop, WriteRemaining
  <2>2. pc \in {"loop", "flush"}
    BY <1>3 DEF WriteInLoop, WriteRemaining
  <2> QED
    BY <2>1, <2>2, SyswriteTyped
<1>4. ASSUME NEW p \in Pipes, EncoderHangs(p) PROVE QueueInv'
  <2>1. TypeOK'
    BY <1>4 DEF EncoderHangs, QueueInv, TypeOK
  <2> QED
    BY <1>4, <2>1 DEF EncoderHangs, QueueInv, Halfway, Watched, Filled
<1> QED
  BY <1>1, <1>2, <1>3, <1>4, RepeatTyped, CommandPushed, ImagePushed, AccountTyped DEF Next
-----------------------------------------------------------------------------
(* The stream of an encoder                                                  *)

\* r is what an encoder got of its stream s; taken parts of the head of its queue q
\* are among it, the buffers of q follow in s where start says, and then the parts c
\* whose buffer is not in the queue yet.
Laid(start, q, taken, r, s, c) ==
  /\ start \in [1..(Len(q) + 1) -> 0..Len(s)]
  /\ \A i \in 1..Len(q) :
       /\ start[i + 1] = start[i] + Size(q[i])
       /\ \A k \in 1..Size(q[i]) : s[start[i] + k] = Part(q[i], k)
  /\ Len(s) = start[Len(q) + 1] + Len(c)
  /\ \A k \in 1..Len(c) : s[start[Len(q) + 1] + k] = c[k]
  /\ taken \in Nat
  /\ taken > 0 => q # <<>> /\ taken <= Size(Head(q))
  /\ Len(r) = start[1] + taken
  /\ \A k \in 1..Len(r) : r[k] = s[k]

Streamed(q, taken, r, s, c) == \E start : Laid(start, q, taken, r, s, c)

LEMMA StreamedNothing == Streamed(<<>>, 0, <<>>, <<>>, <<>>)
<1> DEFINE start == [i \in {1} |-> 0]
<1>1. /\ Len(<<>>) = 0 /\ start \in [1..1 -> 0..0] /\ start[1] = 0
  OBVIOUS
<1>2. Laid(start, <<>>, 0, <<>>, <<>>, <<>>)
  BY <1>1 DEF Laid
<1> QED
  BY <1>2 DEF Streamed

LEMMA Inside ==
  ASSUME NEW a \in Nat, NEW size \in Nat, NEW end \in Nat, a + size <= end, NEW k \in 1..size
  PROVE  a + k \in 1..end
OBVIOUS

LEMMA LaidInside ==
  ASSUME NEW q \in Seq(Buffers), NEW taken, NEW r \in Seq(AllParts),
         NEW s \in Seq(AllParts), NEW c \in Seq(AllParts), NEW start,
         Laid(start, q, taken, r, s, c)
  PROVE  /\ Len(q) \in Nat /\ Len(r) \in Nat /\ Len(s) \in Nat /\ Len(c) \in Nat
         /\ \A i \in 1..(Len(q) + 1) : start[i] \in Nat /\ start[i] <= Len(s)
         /\ \A i \in 1..Len(q) : \A k \in 1..Size(q[i]) : start[i] + k \in 1..Len(s)
         /\ \A k \in 1..Len(c) : start[Len(q) + 1] + k \in 1..Len(s)
         /\ Len(r) <= Len(s)
<1> DEFINE n == Len(q)
           l == Len(s)
<1>1. n \in Nat /\ Len(r) \in Nat /\ l \in Nat /\ Len(c) \in Nat
  OBVIOUS
<1>2. /\ start \in [1..(n + 1) -> 0..l]
      /\ \A i \in 1..n : start[i + 1] = start[i] + Size(q[i])
      /\ l = start[n + 1] + Len(c)
      /\ taken \in Nat /\ Len(r) = start[1] + taken
      /\ taken > 0 => q # <<>> /\ taken <= Size(Head(q))
  BY DEF Laid
<1>3. q # <<>> => n >= 1 /\ Head(q) = q[1]
  OBVIOUS
<1> HIDE DEF n, l
<1>4. \A i \in 1..(n + 1) : start[i] \in Nat /\ start[i] <= l
  BY <1>1, <1>2
<1>5. ASSUME NEW i \in 1..n
      PROVE  /\ Size(q[i]) \in Nat /\ start[i] + Size(q[i]) <= l
             /\ \A k \in 1..Size(q[i]) : start[i] + k \in 1..l
  <2>1. Size(q[i]) \in Nat /\ i \in 1..(n + 1) /\ i + 1 \in 1..(n + 1)
    BY <1>1, SizeBounds
  <2>2. start[i] \in Nat /\ start[i] + Size(q[i]) <= l
    BY <1>2, <1>4, <2>1
  <2> QED
    BY <1>1, <2>1, <2>2, Inside
<1>6. \A k \in 1..Len(c) : start[n + 1] + k \in 1..l
  <2>1. start[n + 1] \in Nat /\ start[n + 1] + Len(c) <= l
    BY <1>1, <1>2, <1>4
  <2> QED
    BY <1>1, <2>1, Inside
<1>7. Len(r) <= l
  <2>1. start[1] \in Nat /\ start[1] <= l
    BY <1>1, <1>4
  <2>2. CASE taken = 0
    BY <1>2, <2>1, <2>2
  <2>3. CASE taken > 0
    <3>1. 1 \in 1..n /\ taken <= Size(q[1])
      BY <1>1, <1>2, <1>3, <2>3
    <3>2. Size(q[1]) \in Nat /\ start[1] + Size(q[1]) <= l
      BY <1>5, <3>1
    <3> QED
      BY <1>1, <1>2, <2>1, <3>1, <3>2
  <2> QED
    BY <1>2, <2>2, <2>3
<1> QED
  BY <1>1, <1>4, <1>5, <1>6, <1>7 DEF n, l

\* The stream goes on.
LEMMA StreamGrows ==
  ASSUME NEW q \in Seq(Buffers), NEW taken, NEW r \in Seq(AllParts),
         NEW s \in Seq(AllParts), NEW c \in Seq(AllParts), NEW d \in Seq(AllParts),
         Streamed(q, taken, r, s, c)
  PROVE  Streamed(q, taken, r, s \o d, c \o d)
<1>1. PICK start : Laid(start, q, taken, r, s, c)
  BY DEF Streamed
<1> DEFINE S == s \o d
           C == c \o d
           n == Len(q)
<1>2. /\ Len(d) \in Nat
      /\ Len(S) = Len(s) + Len(d) /\ Len(C) = Len(c) + Len(d)
      /\ \A k \in 1..Len(s) : S[k] = s[k]
      /\ \A k \in 1..Len(d) : S[Len(s) + k] = d[k]
      /\ \A k \in 1..Len(c) : C[k] = c[k]
      /\ \A k \in 1..Len(d) : C[Len(c) + k] = d[k]
  BY ConcatProperties
<1> HIDE DEF S, C
<1>3. /\ n \in Nat /\ Len(r) \in Nat /\ Len(s) \in Nat /\ Len(c) \in Nat
      /\ \A i \in 1..(n + 1) : start[i] \in Nat /\ start[i] <= Len(s)
      /\ \A i \in 1..n : \A k \in 1..Size(q[i]) : start[i] + k \in 1..Len(s)
      /\ \A k \in 1..Len(c) : start[n + 1] + k \in 1..Len(s)
      /\ Len(r) <= Len(s)
  BY <1>1, LaidInside
<1> HIDE DEF n
<1>4. /\ start \in [1..(n + 1) -> 0..Len(s)]
      /\ \A i \in 1..n : \A k \in 1..Size(q[i]) : s[start[i] + k] = Part(q[i], k)
      /\ Len(s) = start[n + 1] + Len(c)
      /\ \A k \in 1..Len(c) : s[start[n + 1] + k] = c[k]
      /\ \A k \in 1..Len(r) : r[k] = s[k]
  BY <1>1 DEF Laid, n
<1>5. start \in [1..(n + 1) -> 0..Len(S)]
  BY <1>2, <1>3, <1>4
<1>6. \A i \in 1..n : \A k \in 1..Size(q[i]) : S[start[i] + k] = Part(q[i], k)
  BY <1>2, <1>3, <1>4
<1>7. ASSUME NEW k \in 1..Len(C)
      PROVE  S[start[n + 1] + k] = C[k]
  <2>1. CASE k <= Len(c)
    <3>1. k \in 1..Len(c)
      BY <1>2, <1>3, <2>1
    <3> QED
      BY <1>2, <1>3, <1>4, <3>1
  <2>2. CASE k > Len(c)
    <3>1. n + 1 \in 1..(n + 1)
      BY <1>3
    <3>2. k - Len(c) \in 1..Len(d) /\ k = Len(c) + (k - Len(c))
          /\ start[n + 1] + k = Len(s) + (k - Len(c))
      BY <1>2, <1>3, <1>4, <2>2, <3>1
    <3> QED
      BY <1>2, <3>2
  <2> QED
    BY <1>2, <1>3, <2>1, <2>2
<1>8. \A k \in 1..Len(r) : r[k] = S[k]
  BY <1>2, <1>3, <1>4
<1>9. Len(S) = start[n + 1] + Len(C)
  <2>1. n + 1 \in 1..(n + 1)
    BY <1>3
  <2> QED
    BY <1>2, <1>3, <1>4, <2>1
<1>10. Laid(start, q, taken, r, S, C)
  BY <1>1, <1>5, <1>6, <1>7, <1>8, <1>9 DEF Laid, n
<1> QED
  BY <1>10 DEF Streamed, S, C

\* The parts of a buffer and what comes after them
LEMMA PartsThen ==
  ASSUME NEW b \in Buffers, NEW c \in Seq(AllParts)
  PROVE  /\ Len(Parts(b) \o c) = Size(b) + Len(c) /\ Size(b) \in Nat
         /\ \A k \in 1..Size(b) : (Parts(b) \o c)[k] = Part(b, k)
         /\ \A k \in 1..Len(c) : (Parts(b) \o c)[Size(b) + k] = c[k]
<1>1. /\ Parts(b) \in Seq(AllParts) /\ Len(Parts(b)) = Size(b) /\ Size(b) \in Nat
      /\ \A k \in 1..Size(b) : Parts(b)[k] = Part(b, k)
  <2>1. \A k \in 1..Size(b) : Parts(b)[k] = Part(b, k)
    BY DEF Parts
  <2> QED
    BY <2>1, PartsTyped, SizeBounds
<1>2. /\ Len(Parts(b) \o c) = Len(Parts(b)) + Len(c)
      /\ \A k \in 1..Len(Parts(b)) : (Parts(b) \o c)[k] = Parts(b)[k]
      /\ \A k \in 1..Len(c) : (Parts(b) \o c)[Len(Parts(b)) + k] = c[k]
  <2>1. \A p \in Seq(AllParts) :
          /\ Len(p \o c) = Len(p) + Len(c)
          /\ \A k \in 1..Len(p) : (p \o c)[k] = p[k]
          /\ \A k \in 1..Len(c) : (p \o c)[Len(p) + k] = c[k]
    BY Joined
  <2> QED
    BY <2>1, PartsTyped
<1> QED
  BY <1>1, <1>2

\* The next parts become a buffer of the queue.
LEMMA StreamQueued ==
  ASSUME NEW q \in Seq(Buffers), NEW taken, NEW r \in Seq(AllParts),
         NEW s \in Seq(AllParts), NEW c \in Seq(AllParts), NEW b \in Buffers,
         Streamed(q, taken, r, s, Parts(b) \o c)
  PROVE  Streamed(Append(q, b), taken, r, s, c)
<1> DEFINE Q == Append(q, b)
           C == Parts(b) \o c
           n == Len(q)
<1>1. PICK start : Laid(start, q, taken, r, s, C)
  BY DEF Streamed
<1>2. /\ Len(C) = Size(b) + Len(c) /\ Size(b) \in Nat
      /\ \A k \in 1..Size(b) : C[k] = Part(b, k)
      /\ \A k \in 1..Len(c) : C[Size(b) + k] = c[k]
  BY PartsThen
<1>3. C \in Seq(AllParts)
  BY PartsTyped, ConcatProperties
<1> HIDE DEF C
<1>4. /\ n \in Nat /\ Len(r) \in Nat /\ Len(s) \in Nat /\ Len(c) \in Nat
      /\ \A i \in 1..(n + 1) : start[i] \in Nat /\ start[i] <= Len(s)
  <2>1. Len(c) \in Nat
    OBVIOUS
  <2> QED
    BY <1>1, <1>3, <2>1, LaidInside
<1>5. /\ Len(Q) = n + 1 /\ Q[n + 1] = b /\ \A i \in 1..n : Q[i] = q[i]
      /\ q # <<>> => Head(Q) = Head(q)
      /\ Q # <<>>
  BY AppendProperties
<1> HIDE DEF n, Q
<1>6. /\ \A i \in 1..n : start[i + 1] = start[i] + Size(q[i])
      /\ \A i \in 1..n : \A k \in 1..Size(q[i]) : s[start[i] + k] = Part(q[i], k)
      /\ Len(s) = start[n + 1] + Len(C)
      /\ \A k \in 1..Len(C) : s[start[n + 1] + k] = C[k]
      /\ taken \in Nat
      /\ taken > 0 => q # <<>> /\ taken <= Size(Head(q))
      /\ Len(r) = start[1] + taken
      /\ \A k \in 1..Len(r) : r[k] = s[k]
  BY <1>1 DEF Laid, n
<1> DEFINE next == [i \in 1..(n + 2) |-> IF i = n + 2 THEN start[n + 1] + Size(b)
                                         ELSE start[i]]
<1>7. start[n + 1] \in Nat /\ start[n + 1] + Size(b) + Len(c) = Len(s)
  <2>1. n + 1 \in 1..(n + 1)
    BY <1>4
  <2>2. start[n + 1] \in Nat /\ Len(s) = start[n + 1] + (Size(b) + Len(c))
    BY <1>2, <1>4, <1>6, <2>1
  <2> QED
    BY <1>2, <1>4, <2>2
<1>8. /\ next \in [1..(n + 2) -> 0..Len(s)]
      /\ next[n + 2] = start[n + 1] + Size(b)
      /\ \A i \in 1..(n + 1) : next[i] = start[i]
  BY <1>2, <1>4, <1>7
<1> HIDE DEF next
<1>9. ASSUME NEW i \in 1..(n + 1)
      PROVE  /\ next[i + 1] = next[i] + Size(Q[i])
             /\ \A k \in 1..Size(Q[i]) : s[next[i] + k] = Part(Q[i], k)
  <2>1. CASE i = n + 1
    <3>1. \A k \in 1..Size(b) : s[start[n + 1] + k] = Part(b, k)
      BY <1>2, <1>4, <1>6
    <3>2. next[i] = start[n + 1] /\ next[i + 1] = start[n + 1] + Size(b) /\ Q[i] = b
      BY <1>4, <1>5, <1>8, <2>1
    <3> QED
      BY <3>1, <3>2
  <2>2. CASE i # n + 1
    <3>1. i \in 1..n /\ i + 1 \in 1..(n + 1)
      BY <1>4, <2>2
    <3>2. /\ start[i + 1] = start[i] + Size(q[i])
          /\ \A k \in 1..Size(q[i]) : s[start[i] + k] = Part(q[i], k)
      BY <1>6, <3>1
    <3>3. Q[i] = q[i] /\ next[i] = start[i] /\ next[i + 1] = start[i + 1]
      BY <1>5, <1>8, <3>1
    <3> QED
      BY <3>2, <3>3
  <2> QED
    BY <2>1, <2>2
<1>10. ASSUME NEW k \in 1..Len(c)
       PROVE  s[next[n + 2] + k] = c[k]
  <2>1. Size(b) + k \in 1..Len(C)
    BY <1>2, <1>4
  <2>2. next[n + 2] + k = start[n + 1] + (Size(b) + k)
    BY <1>2, <1>4, <1>7, <1>8
  <2> QED
    BY <1>2, <1>6, <2>1, <2>2
<1>11. Len(Q) + 1 = n + 2 /\ next[1] = start[1] /\ Len(s) = next[n + 2] + Len(c)
  BY <1>2, <1>4, <1>5, <1>7, <1>8
<1>12. Laid(next, Q, taken, r, s, c)
  BY <1>5, <1>6, <1>8, <1>9, <1>10, <1>11 DEF Laid
<1> QED
  BY <1>12 DEF Streamed, Q

\* Some parts of the head are written.
LEMMA StreamWritten ==
  ASSUME NEW q \in Seq(Buffers), NEW taken, NEW r \in Seq(AllParts),
         NEW s \in Seq(AllParts), NEW c \in Seq(AllParts), Streamed(q, taken, r, s, c),
         q # <<>>, NEW w \in Seq(AllParts), taken + Len(w) <= Size(Head(q)),
         \A k \in 1..Len(w) : w[k] = Part(Head(q), taken + k)
  PROVE  Streamed(q, taken + Len(w), r \o w, s, c)
<1>1. PICK start : Laid(start, q, taken, r, s, c)
  BY DEF Streamed
<1> DEFINE n == Len(q)
           R == r \o w
<1>2. /\ n \in Nat /\ Len(r) \in Nat /\ Len(s) \in Nat /\ Len(c) \in Nat
      /\ \A i \in 1..(n + 1) : start[i] \in Nat
  BY <1>1, LaidInside
<1>3. /\ Len(w) \in Nat /\ Len(R) = Len(r) + Len(w)
      /\ \A k \in 1..Len(r) : R[k] = r[k]
      /\ \A k \in 1..Len(w) : R[Len(r) + k] = w[k]
  BY ConcatProperties
<1> HIDE DEF R
<1>4. n >= 1 /\ Head(q) = q[1]
  OBVIOUS
<1>5. /\ \A k \in 1..Size(q[1]) : s[start[1] + k] = Part(q[1], k)
      /\ taken \in Nat /\ Len(r) = start[1] + taken
      /\ \A k \in 1..Len(r) : r[k] = s[k]
  BY <1>1, <1>2, <1>4 DEF Laid
<1>6. Size(q[1]) \in Nat /\ start[1] \in Nat /\ taken + Len(w) <= Size(q[1])
  <2>1. 1 \in 1..(n + 1) /\ Size(q[1]) \in Nat
    BY <1>2, <1>4, SizeBounds
  <2>2. taken + Len(w) <= Size(q[1])
    BY <1>4
  <2> QED
    BY <1>2, <2>1, <2>2
<1>10. \A k \in 1..Len(w) : w[k] = Part(q[1], taken + k)
  BY <1>4
<1> HIDE DEF n
<1>7. ASSUME NEW k \in 1..Len(R)
      PROVE  R[k] = s[k]
  <2>1. CASE k <= Len(r)
    <3>1. k \in 1..Len(r)
      BY <1>2, <2>1
    <3> QED
      BY <1>3, <1>5, <3>1
  <2>2. CASE k > Len(r)
    <3>0. k - Len(r) \in 1..Len(w) /\ k = Len(r) + (k - Len(r))
      BY <1>2, <1>3, <2>2
    <3>1. PICK j \in 1..Len(w) : k = Len(r) + j
      BY <3>0
    <3> DEFINE size == Size(q[1])
               first == start[1]
               len == Len(w)
    <3>5. /\ taken \in Nat /\ first \in Nat /\ size \in Nat /\ len \in Nat
          /\ taken + len <= size /\ Len(r) = first + taken /\ j \in 1..len
      BY <1>3, <1>5, <1>6, <3>1
    <3> HIDE DEF size, first, len
    <3>6. taken + j \in 1..size /\ k = first + (taken + j)
      BY <3>1, <3>5
    <3>2. taken + j \in 1..Size(q[1]) /\ k = start[1] + (taken + j)
      BY <3>6 DEF size, first
    <3>3. R[k] = w[j]
      BY <1>3, <3>1
    <3>4. w[j] = Part(q[1], taken + j) /\ s[start[1] + (taken + j)] = Part(q[1], taken + j)
      BY <1>5, <1>10, <3>1, <3>2
    <3> QED
      BY <3>2, <3>3, <3>4
  <2> QED
    BY <1>2, <1>3, <2>1, <2>2
<1>8. taken + Len(w) \in Nat /\ Len(R) = start[1] + (taken + Len(w))
  BY <1>3, <1>5, <1>6
<1>9. Laid(start, q, taken + Len(w), R, s, c)
  BY <1>1, <1>7, <1>8 DEF Laid
<1> QED
  BY <1>9 DEF Streamed, R

\* The head is done.
LEMMA StreamDone ==
  ASSUME NEW q \in Seq(Buffers), NEW r \in Seq(AllParts),
         NEW s \in Seq(AllParts), NEW c \in Seq(AllParts), q # <<>>,
         Streamed(q, Size(Head(q)), r, s, c)
  PROVE  Streamed(Tail(q), 0, r, s, c)
<1>1. PICK start : Laid(start, q, Size(Head(q)), r, s, c)
  BY DEF Streamed
<1> DEFINE n == Len(q)
           Q == Tail(q)
<1>2. /\ n \in Nat /\ Len(s) \in Nat
      /\ \A i \in 1..(n + 1) : start[i] \in Nat /\ start[i] <= Len(s)
  BY <1>1, LaidInside
<1>3. /\ n >= 1 /\ Head(q) = q[1] /\ Len(Q) = n - 1
      /\ \A i \in 1..(n - 1) : Q[i] = q[i + 1]
  BY HeadTailProperties
<1> HIDE DEF Q
<1>4. /\ \A i \in 1..n : start[i + 1] = start[i] + Size(q[i])
      /\ \A i \in 1..n : \A k \in 1..Size(q[i]) : s[start[i] + k] = Part(q[i], k)
      /\ Len(s) = start[n + 1] + Len(c)
      /\ \A k \in 1..Len(c) : s[start[n + 1] + k] = c[k]
      /\ Len(r) = start[1] + Size(q[1])
      /\ \A k \in 1..Len(r) : r[k] = s[k]
  BY <1>1, <1>3 DEF Laid
<1> HIDE DEF n
<1> DEFINE next == [i \in 1..n |-> start[i + 1]]
<1>5. /\ next \in [1..n -> 0..Len(s)]
      /\ \A i \in 1..n : next[i] = start[i + 1]
  BY <1>2
<1> HIDE DEF next
<1>6. ASSUME NEW i \in 1..(n - 1)
      PROVE  /\ next[i + 1] = next[i] + Size(Q[i])
             /\ \A k \in 1..Size(Q[i]) : s[next[i] + k] = Part(Q[i], k)
  <2>1. PICK j \in 1..n : j = i + 1
    BY <1>2
  <2>2. i \in 1..n
    BY <1>2
  <2>3. next[i] = start[j] /\ next[j] = start[j + 1] /\ Q[i] = q[j]
    BY <1>3, <1>5, <2>1, <2>2
  <2> QED
    BY <1>4, <2>1, <2>3
<1>7. /\ next[n] = start[n + 1] /\ next[1] = start[2] /\ start[2] = start[1] + Size(q[1])
      /\ Len(Q) + 1 = n
  <2>1. n \in 1..n /\ 1 \in 1..n /\ 1 + 1 = 2
    BY <1>2, <1>3
  <2>2. next[1] = start[2] /\ start[2] = start[1] + Size(q[1])
    BY <1>4, <1>5, <2>1
  <2>3. next[n] = start[n + 1]
    BY <1>5, <2>1
  <2>4. Len(Q) + 1 = n
    BY <1>2, <1>3
  <2> QED
    BY <2>2, <2>3, <2>4
<1>8. Len(r) = next[1] + 0
  <2>1. 1 + 1 \in 1..(n + 1) /\ 1 + 1 = 2
    BY <1>2, <1>3
  <2>2. start[2] \in Nat
    BY <1>2, <2>1
  <2> QED
    BY <1>4, <1>7, <2>2
<1>9. Laid(next, Q, 0, r, s, c)
  <2>1. Len(Q) \in Nat /\ Len(Q) + 1 = n /\ Len(Q) = n - 1
    BY <1>2, <1>7
  <2>2. next \in [1..(Len(Q) + 1) -> 0..Len(s)]
    BY <1>5, <2>1
  <2>3. \A i \in 1..Len(Q) :
          /\ next[i + 1] = next[i] + Size(Q[i])
          /\ \A k \in 1..Size(Q[i]) : s[next[i] + k] = Part(Q[i], k)
    BY <1>6, <2>1
  <2>4. /\ Len(s) = next[Len(Q) + 1] + Len(c)
        /\ \A k \in 1..Len(c) : s[next[Len(Q) + 1] + k] = c[k]
    BY <1>4, <1>7, <2>1
  <2>5. \A k \in 1..Len(r) : r[k] = s[k]
    BY <1>4
  <2>6. 0 \in Nat /\ ~(0 > 0)
    OBVIOUS
  <2> HIDE DEF Q
  <2> QED
    BY ONLY <1>8, <2>2, <2>3, <2>4, <2>5, <2>6 DEF Laid
<1> QED
  BY <1>9 DEF Streamed, Q

\* What has been read is the beginning of the stream, and with an empty queue all of it.
LEMMA StreamRead ==
  ASSUME NEW q \in Seq(Buffers), NEW taken, NEW r \in Seq(AllParts),
         NEW s \in Seq(AllParts), NEW c \in Seq(AllParts), Streamed(q, taken, r, s, c)
  PROVE  /\ IsPrefix(r, s)
         /\ q = <<>> /\ c = <<>> => r = s
<1>1. PICK start : Laid(start, q, taken, r, s, c)
  BY DEF Streamed
<1>2. Len(r) \in Nat /\ Len(s) \in Nat /\ Len(r) <= Len(s)
  BY <1>1, LaidInside
<1>3. \A k \in 1..Len(r) : r[k] = s[k]
  BY <1>1 DEF Laid
<1>4. IsPrefix(r, s)
  <2>1. SubSeq(r, 1, Len(r)) = r
    BY SubSeqFull
  <2> DEFINE t == SubSeq(s, 1, Len(r))
  <2>2. t \in Seq(AllParts) /\ Len(t) = Len(r) /\ \A k \in 1..Len(r) : t[k] = s[k]
    BY <1>2, SubSeqProperties
  <2> HIDE DEF t
  <2>3. t = r
    BY <1>2, <1>3, <2>2, SeqEqual
  <2> QED
    BY <1>2, <2>1, <2>3 DEF IsPrefix, t
<1>5. ASSUME q = <<>>, c = <<>> PROVE r = s
  <2>1. Len(q) = 0 /\ Len(c) = 0
    BY <1>5
  <2>2. 1 \in 1..(Len(q) + 1) /\ Len(q) + 1 = 1
    BY <2>1
  <2>3. start[1] \in Nat /\ Len(s) = start[1] + 0 /\ Len(r) = start[1] + taken /\ taken \in Nat
    BY <1>1, <2>1, <2>2, LaidInside DEF Laid
  <2>4. Len(r) = Len(s)
    BY <1>2, <2>3
  <2> QED
    BY <1>3, <2>4, SeqEqual
<1> QED
  BY <1>4, <1>5

\* The parts of a buffer are to come; they are in the queue; both at once.
LEMMA StreamComing ==
  ASSUME NEW q \in Seq(Buffers), NEW taken, NEW r \in Seq(AllParts),
         NEW s \in Seq(AllParts), NEW b \in Buffers, Streamed(q, taken, r, s, <<>>)
  PROVE  Streamed(q, taken, r, s \o Parts(b), Parts(b))
<1> DEFINE d == Parts(b)
           none == <<>>
<1>1. d \in Seq(AllParts) /\ none \in Seq(AllParts) /\ none \o d = d
  BY PartsTyped, EmptySeq, ConcatEmptySeq
<1>2. Streamed(q, taken, r, s, none)
  OBVIOUS
<1> HIDE DEF d, none
<1>3. Streamed(q, taken, r, s \o d, none \o d)
  BY <1>1, <1>2, StreamGrows
<1> QED
  BY <1>1, <1>3 DEF d

LEMMA StreamCame ==
  ASSUME NEW q \in Seq(Buffers), NEW taken, NEW r \in Seq(AllParts),
         NEW s \in Seq(AllParts), NEW b \in Buffers, Streamed(q, taken, r, s, Parts(b))
  PROVE  Streamed(Append(q, b), taken, r, s, <<>>)
<1> DEFINE none == <<>>
<1>1. none \in Seq(AllParts) /\ Parts(b) \o none = Parts(b)
  BY PartsTyped, EmptySeq, ConcatEmptySeq
<1> HIDE DEF none
<1>2. Streamed(q, taken, r, s, Parts(b) \o none)
  BY <1>1
<1>3. Streamed(Append(q, b), taken, r, s, none)
  BY <1>1, <1>2, StreamQueued
<1> QED
  BY <1>3 DEF none

LEMMA StreamPushed ==
  ASSUME NEW q \in Seq(Buffers), NEW taken, NEW r \in Seq(AllParts),
         NEW s \in Seq(AllParts), NEW b \in Buffers, Streamed(q, taken, r, s, <<>>)
  PROVE  Streamed(Append(q, b), taken, r, s \o Parts(b), <<>>)
<1>1. Streamed(q, taken, r, s \o Parts(b), Parts(b))
  BY StreamComing
<1>2. s \o Parts(b) \in Seq(AllParts)
  BY PartsTyped, ConcatProperties
<1> QED
  BY <1>1, <1>2, StreamCame
-----------------------------------------------------------------------------
(* Each encoder gets its stream                                              *)

\* The parts of the head of the queue that are in the pipe
Taken(p) ==
  write_offset[p] + (IF pc = "account" /\ written.pipe = p THEN written.count ELSE 0)

\* The image that follows a command E
Coming == IF pc = "enqueue" THEN Parts(Image(last_image_data)) ELSE <<>>

StreamInv ==
  \A p \in Pipes : Streamed(queue[p], Taken(p), received[p], stream[p], Coming)

LEMMA StreamInit == Init => StreamInv
<1> SUFFICES ASSUME Init, NEW p \in Pipes
             PROVE  Streamed(queue[p], Taken(p), received[p], stream[p], Coming)
  BY DEF StreamInv
<1>1. /\ queue[p] = <<>> /\ received[p] = <<>> /\ stream[p] = <<>> /\ Coming = <<>>
      /\ Taken(p) = 0
  BY DEF Init, Taken, Coming
<1> QED
  BY <1>1, StreamedNothing

\* What a step leaves alone stays in its place.
LEMMA StreamKept ==
  ASSUME QueueInv, StreamInv, UNCHANGED <<queue, write_offset, received, stream>>,
         pc \notin {"enqueue", "account"}, pc' \notin {"enqueue", "account"}
  PROVE  StreamInv'
<1> SUFFICES ASSUME NEW p \in Pipes
             PROVE  Streamed(queue'[p], Taken(p)', received'[p], stream'[p], Coming')
  BY DEF StreamInv
<1>1. /\ queue'[p] = queue[p] /\ received'[p] = received[p] /\ stream'[p] = stream[p]
      /\ Taken(p)' = Taken(p) /\ Coming' = Coming
  BY DEF Taken, Coming
<1>2. Streamed(queue[p], Taken(p), received[p], stream[p], Coming)
  BY DEF StreamInv
<1> QED
  BY <1>1, <1>2

LEMMA StreamStands ==
  ASSUME StreamInv,
         UNCHANGED <<pc, queue, write_offset, written, last_image_data, received, stream>>
  PROVE  StreamInv'
<1> SUFFICES ASSUME NEW p \in Pipes
             PROVE  Streamed(queue'[p], Taken(p)', received'[p], stream'[p], Coming')
  BY DEF StreamInv
<1>1. Taken(p)' = Taken(p)
  BY DEF Taken
<1>2. Coming' = Coming
  BY DEF Coming
<1> QED
  BY <1>1, <1>2 DEF StreamInv

LEMMA PipeTyped ==
  ASSUME QueueInv, NEW p \in Pipes
  PROVE  /\ queue[p] \in Seq(Buffers)
         /\ received[p] \in Seq(AllParts) /\ stream[p] \in Seq(AllParts)
         /\ write_offset[p] \in Nat
BY DEF QueueInv, TypeOK

LEMMA RepeatStreams ==
  ASSUME QueueInv, StreamInv, EnqueueRepeat
  PROVE  StreamInv'
<1> DEFINE pushed == [p \in Pipes |-> IF p = Internal THEN Command("R")
                                      ELSE Image(last_image_data)]
<1>1. last_image_data \in 1..MaxFrames
  BY DEF EnqueueRepeat, QueueInv, TypeOK, NoFrame
<1>2. \A p \in Pipes : pushed[p] \in Buffers
  BY <1>1, CommandTyped, ImageTyped DEF EnqueueRepeat, Screenshot, QueueInv
<1>3. /\ queue' = [p \in Pipes |-> Append(queue[p], pushed[p])]
      /\ stream' = [p \in Pipes |-> stream[p] \o Parts(pushed[p])]
      /\ pc = "loop"
      /\ UNCHANGED <<pc, write_offset, written, received>>
  BY DEF EnqueueRepeat, Screenshot
<1> HIDE DEF pushed
<1> SUFFICES ASSUME NEW p \in Pipes
             PROVE  Streamed(queue'[p], Taken(p)', received'[p], stream'[p], Coming')
  BY DEF StreamInv
<1>4. Taken(p)' = Taken(p) /\ received'[p] = received[p] /\ Coming = <<>> /\ Coming' = <<>>
  BY <1>3 DEF Taken, Coming
<1>5. queue'[p] = Append(queue[p], pushed[p]) /\ stream'[p] = stream[p] \o Parts(pushed[p])
  BY <1>3
<1>6. Streamed(queue[p], Taken(p), received[p], stream[p], <<>>)
  BY <1>4 DEF StreamInv
<1>7. Streamed(Append(queue[p], pushed[p]), Taken(p), received[p],
               stream[p] \o Parts(pushed[p]), <<>>)
  BY <1>2, <1>6, PipeTyped, StreamPushed
<1> QED
  BY <1>4, <1>5, <1>7

\* The image of the command E is in the stream before it is in the queue.
LEMMA CommandStreams ==
  ASSUME QueueInv, StreamInv, EnqueueCommand
  PROVE  StreamInv'
<1> DEFINE e == Command("E")
           b == Image(NewFrame)
<1>1. e \in Buffers /\ b \in Buffers
  BY CommandTyped, ImageTyped DEF EnqueueCommand, Screenshot, QueueInv
<1>2. /\ pc = "loop" /\ pc' = "enqueue" /\ UNCHANGED <<write_offset, written, received>>
      /\ Coming' = Parts(b)
  BY DEF EnqueueCommand, Screenshot, Coming
<1>3. /\ queue' = [queue EXCEPT ![Internal] = Append(@, e)]
      /\ stream' = [p \in Pipes |->
                      stream[p] \o (IF p = Internal THEN Parts(e) ELSE <<>>) \o Parts(b)]
  BY DEF EnqueueCommand
<1> HIDE DEF e, b
<1> SUFFICES ASSUME NEW p \in Pipes
             PROVE  Streamed(queue'[p], Taken(p)', received'[p], stream'[p], Coming')
  BY DEF StreamInv
<1>4. Taken(p)' = Taken(p) /\ received'[p] = received[p] /\ Coming = <<>>
  BY <1>2 DEF Taken, Coming
<1>5. Streamed(queue[p], Taken(p), received[p], stream[p], <<>>)
  BY <1>4 DEF StreamInv
<1>6. CASE p = Internal
  <2>1. queue'[p] = Append(queue[p], e) /\ stream'[p] = stream[p] \o Parts(e) \o Parts(b)
    BY <1>3, <1>6 DEF QueueInv, TypeOK
  <2> DEFINE q == Append(queue[p], e)
             s == stream[p] \o Parts(e)
  <2>2. q \in Seq(Buffers) /\ s \in Seq(AllParts)
    BY <1>1, PipeTyped, PartsTyped, AppendProperties, ConcatProperties
  <2>3. Streamed(q, Taken(p), received[p], s, <<>>)
    BY <1>1, <1>5, PipeTyped, StreamPushed
  <2> HIDE DEF q, s
  <2>4. Streamed(q, Taken(p), received[p], s \o Parts(b), Parts(b))
    BY <1>1, <2>2, <2>3, PipeTyped, StreamComing
  <2> QED
    BY <1>2, <1>4, <2>1, <2>4 DEF q, s
<1>7. CASE p # Internal
  <2>1. queue'[p] = queue[p]
    BY <1>3, <1>7 DEF QueueInv, TypeOK
  <2>2. stream'[p] = stream[p] \o <<>> \o Parts(b)
    BY <1>3, <1>7
  <2>3. stream[p] \o <<>> = stream[p]
    BY PipeTyped, ConcatEmptySeq
  <2>4. Streamed(queue[p], Taken(p), received[p], stream[p] \o Parts(b), Parts(b))
    BY <1>1, <1>5, PipeTyped, StreamComing
  <2> QED
    BY <1>2, <1>4, <2>1, <2>2, <2>3, <2>4
<1> QED
  BY <1>6, <1>7

LEMMA ImageStreams ==
  ASSUME QueueInv, StreamInv, EnqueueImage
  PROVE  StreamInv'
<1> DEFINE b == Image(last_image_data)
<1>1. b \in Buffers
  BY ImageTyped DEF EnqueueImage, QueueInv, Halfway, TypeOK, NoFrame
<1>2. /\ pc = "enqueue" /\ pc' = "loop" /\ UNCHANGED <<write_offset, written, received, stream>>
      /\ Coming = Parts(b)
      /\ queue' = [p \in Pipes |-> Append(queue[p], b)]
  BY DEF EnqueueImage, Coming
<1> HIDE DEF b
<1> SUFFICES ASSUME NEW p \in Pipes
             PROVE  Streamed(queue'[p], Taken(p)', received'[p], stream'[p], Coming')
  BY DEF StreamInv
<1>3. /\ Taken(p)' = Taken(p) /\ received'[p] = received[p] /\ stream'[p] = stream[p]
      /\ Coming' = <<>> /\ queue'[p] = Append(queue[p], b)
  BY <1>2 DEF Taken, Coming
<1>4. Streamed(queue[p], Taken(p), received[p], stream[p], Parts(b))
  BY <1>2 DEF StreamInv
<1>5. Streamed(Append(queue[p], b), Taken(p), received[p], stream[p], <<>>)
  BY <1>1, <1>4, PipeTyped, StreamCame
<1> QED
  BY <1>3, <1>5

LEMMA SyswriteStreams ==
  ASSUME QueueInv, StreamInv, NEW pipe \in Pipes, Syswrite(pipe), pc \in {"loop", "flush"}
  PROVE  StreamInv'
<1>1. PICK count \in 1..Unwritten(pipe) :
        /\ received' = [received EXCEPT ![pipe] = @ \o PartsWritten(pipe, count)]
        /\ written' = [pipe |-> pipe, count |-> count]
  BY DEF Syswrite
<1>2. /\ queue[pipe] # <<>> /\ pc' = "account"
      /\ UNCHANGED <<queue, write_offset, stream, last_image_data>>
  BY DEF Syswrite, queueVars, frameVars
<1> SUFFICES ASSUME NEW p \in Pipes
             PROVE  Streamed(queue'[p], Taken(p)', received'[p], stream'[p], Coming')
  BY DEF StreamInv
<1>3. /\ Coming = <<>> /\ Coming' = <<>> /\ Taken(p) = write_offset[p]
  BY <1>2, PipeTyped DEF Taken, Coming
<1>4. Streamed(queue[p], write_offset[p], received[p], stream[p], <<>>)
  BY <1>3 DEF StreamInv
<1>5. CASE p # pipe
  <2>1. Taken(p)' = write_offset[p] /\ received'[p] = received[p]
    BY <1>1, <1>2, <1>5, PipeTyped DEF Taken, QueueInv, TypeOK
  <2> QED
    BY <1>2, <1>3, <1>4, <2>1
<1>6. CASE p = pipe
  <2> DEFINE w == PartsWritten(p, count)
             none == <<>>
             taken == write_offset[p]
  <2>1. w \in Seq(AllParts) /\ Len(w) = count /\ count \in 1..DataSize
    BY <1>2, <1>6, PartsWrittenTyped DEF QueueInv
  <2>2. taken + Len(w) <= Size(Head(queue[p]))
    <3>1. Size(Head(queue[p])) \in Nat /\ taken \in Nat /\ count \in Nat
      BY <2>1, SizeBounds, PipeTyped
    <3>2. count <= Size(Head(queue[p])) - taken
      BY <1>1, <1>6, <3>1 DEF Unwritten
    <3> QED
      BY <2>1, <3>1, <3>2
  <2>3. \A k \in 1..Len(w) : w[k] = Part(Head(queue[p]), taken + k)
    BY <2>1 DEF PartsWritten
  <2>4. none \in Seq(AllParts)
    BY EmptySeq
  <2>5. /\ Streamed(queue[p], taken, received[p], stream[p], none)
        /\ queue[p] # <<>>
    BY <1>2, <1>4, <1>6
  <2>6. received'[p] = received[p] \o w /\ Taken(p)' = taken + Len(w)
    BY <1>1, <1>2, <1>6, <2>1 DEF Taken, QueueInv, TypeOK
  <2> HIDE DEF w, none, taken
  <2>7. Streamed(queue[p], taken + Len(w), received[p] \o w, stream[p], none)
    BY <2>1, <2>2, <2>3, <2>4, <2>5, PipeTyped, StreamWritten
  <2>8. Streamed(queue[p], taken + Len(w), received[p] \o w, stream[p], <<>>)
    BY <2>7 DEF none
  <2> QED
    BY <1>2, <1>3, <2>6, <2>8
<1> QED
  BY <1>5, <1>6

LEMMA AccountStreams ==
  ASSUME QueueInv, StreamInv, Account
  PROVE  StreamInv'
<1> DEFINE pipe == written.pipe
<1>1. /\ pc = "account" /\ pc' \in {"loop", "flush"}
      /\ AccountForBuffer(pipe) \/ AccountForPart(pipe)
      /\ UNCHANGED <<received, stream>>
  BY DEF Account, frameVars
<1>2. pipe \in Pipes /\ queue[pipe] # <<>> /\ written.count \in Nat
  BY <1>1 DEF QueueInv, TypeOK, Halfway
<1> SUFFICES ASSUME NEW p \in Pipes
             PROVE  Streamed(queue'[p], Taken(p)', received'[p], stream'[p], Coming')
  BY DEF StreamInv
<1>3. /\ Coming = <<>> /\ Coming' = <<>> /\ write_offset'[p] \in Nat
      /\ Taken(p)' = write_offset'[p]
  <2>1. write_offset'[p] \in Nat
    BY AccountTyped DEF QueueInv, TypeOK
  <2> QED
    BY <1>1, <2>1 DEF Taken, Coming
<1>4. Streamed(queue[p], Taken(p), received[p], stream[p], <<>>)
  BY <1>3 DEF StreamInv
<1>5. CASE p # pipe
  <2>1. queue'[p] = queue[p] /\ write_offset'[p] = write_offset[p] /\ Taken(p) = write_offset[p]
    BY <1>1, <1>5, PipeTyped DEF AccountForBuffer, AccountForPart, Taken, QueueInv, TypeOK
  <2> QED
    BY <1>1, <1>3, <1>4, <2>1
<1>6. CASE p = pipe /\ AccountForPart(pipe)
  <2>1. queue'[p] = queue[p] /\ write_offset'[p] = Taken(p)
    BY <1>1, <1>6 DEF AccountForPart, Taken, QueueInv, TypeOK
  <2> QED
    BY <1>1, <1>3, <1>4, <2>1
<1>7. CASE p = pipe /\ AccountForBuffer(pipe)
  <2> DEFINE size == Size(Head(queue[p]))
             none == <<>>
  <2>1. queue'[p] = Tail(queue[p]) /\ write_offset'[p] = 0
    BY <1>1, <1>7 DEF AccountForBuffer, QueueInv, TypeOK
  <2>2. Taken(p) = size
    <3>0. written.count = size - write_offset[p]
      BY <1>7 DEF AccountForBuffer, Unwritten
    <3>1. size \in Nat /\ write_offset[p] \in Nat /\ written.count = size - write_offset[p]
      BY <3>0, SizeBounds, PipeTyped
    <3>2. Taken(p) = write_offset[p] + written.count
      BY <1>1, <1>7 DEF Taken
    <3> QED
      BY <1>2, <3>1, <3>2
  <2>3. none \in Seq(AllParts)
    BY EmptySeq
  <2>4. Streamed(queue[p], size, received[p], stream[p], none) /\ queue[p] # <<>>
    BY <1>2, <1>4, <1>7, <2>2
  <2> HIDE DEF none
  <2>5. Streamed(Tail(queue[p]), 0, received[p], stream[p], none)
    BY <2>3, <2>4, PipeTyped, StreamDone
  <2>6. Streamed(Tail(queue[p]), 0, received[p], stream[p], <<>>)
    BY <2>5 DEF none
  <2> QED
    BY <1>1, <1>3, <2>1, <2>6
<1> QED
  BY <1>1, <1>5, <1>6, <1>7

\* No SIGTERM came in the middle of an update.
Undisturbed == InUpdates => sigterms = 0

LEMMA UndisturbedBefore ==
  ASSUME QueueInv, PipelineNext, Undisturbed'
  PROVE  Undisturbed
<1>1. sigterms \in Nat
  BY DEF QueueInv, TypeOK
<1>2. sigterms' = sigterms \/ sigterms' = sigterms + 1
  BY DEF PipelineNext, EncoderSteps, OthersStep, vars, outsideVars, NotAccepting, BackendSteps,
     Next, EnqueueRepeat, EnqueueCommand, EnqueueImage, Account, StopVm, Sigterm,
     PassingTimesOut, AllPassed, EncodersEnd, WriteInLoop, WriteRemaining, Syswrite,
     EncoderHangs
<1> QED
  BY <1>1, <1>2 DEF Undisturbed

LEMMA NextStreams ==
  ASSUME QueueInv, StreamInv, Next, Undisturbed'
  PROVE  StreamInv'
<1> USE DEF queueVars, frameVars, stopVars, outsideVars
<1>1. CASE StopVm \/ Sigterm \/ PassingTimesOut
  <2>0. ASSUME Sigterm PROVE ~InUpdates
    BY <2>0 DEF Sigterm, Undisturbed, QueueInv, TypeOK
  <2>1. Stop /\ pc \notin {"enqueue", "account"}
    BY <1>1, <2>0 DEF StopVm, Sigterm, PassingTimesOut
  <2>2. /\ UNCHANGED <<queue, write_offset, received, stream>>
        /\ pc' \notin {"enqueue", "account"}
    BY <2>1 DEF Stop
  <2> QED
    BY <2>1, <2>2, StreamKept
<1>2. CASE AllPassed \/ EncodersEnd
  <2>1. /\ UNCHANGED <<queue, write_offset, received, stream>>
        /\ pc \notin {"enqueue", "account"} /\ pc' \notin {"enqueue", "account"}
    BY <1>2 DEF AllPassed, EncodersEnd
  <2> QED
    BY <2>1, StreamKept
<1>3. ASSUME NEW p \in Pipes, WriteInLoop(p) \/ WriteRemaining(p) PROVE StreamInv'
  <2>1. Syswrite(p)
    BY <1>3 DEF WriteInLoop, WriteRemaining
  <2>2. pc \in {"loop", "flush"}
    BY <1>3 DEF WriteInLoop, WriteRemaining
  <2> QED
    BY <2>1, <2>2, SyswriteStreams
<1>4. ASSUME NEW p \in Pipes, EncoderHangs(p) PROVE StreamInv'
  <2>1. UNCHANGED <<pc, queue, write_offset, written, last_image_data, received, stream>>
    BY <1>4 DEF EncoderHangs
  <2> QED
    BY <2>1, StreamStands
<1> QED
  BY <1>1, <1>2, <1>3, <1>4, RepeatStreams, CommandStreams, ImageStreams, AccountStreams
     DEF Next
-----------------------------------------------------------------------------
(* The backend beside the internal encoder                                   *)

\* The encoder reads and dies, and the backend notices: the queues stay.
LEMMA PipelineTyped ==
  ASSUME QueueInv, PipelineNext
  PROVE  QueueInv'
<1> USE DEF queueVars, frameVars, stopVars, outsideVars
<1>1. CASE EncoderSteps
  <2>1. TypeOK'
    BY <1>1 DEF EncoderSteps, QueueInv, TypeOK
  <2> QED
    BY <1>1, <2>1 DEF EncoderSteps, QueueInv, Halfway, Watched, Filled
<1>2. CASE OthersStep
  <2>1. TypeOK'
    BY <1>2 DEF OthersStep, vars, QueueInv, TypeOK
  <2> QED
    BY <1>2, <2>1 DEF OthersStep, vars, QueueInv, Halfway, Watched, Filled
<1>3. CASE NotAccepting
  BY <1>3, StopTyped DEF NotAccepting
<1>4. CASE BackendSteps
  BY <1>4, NextTyped DEF BackendSteps
<1> QED
  BY <1>1, <1>2, <1>3, <1>4 DEF PipelineNext

LEMMA PipelineStreams ==
  ASSUME QueueInv, StreamInv, PipelineNext, Undisturbed'
  PROVE  StreamInv'
<1> USE DEF queueVars, frameVars, stopVars, outsideVars
<1>1. CASE EncoderSteps \/ OthersStep
  <2>1. UNCHANGED <<pc, queue, write_offset, written, last_image_data, received, stream>>
    BY <1>1 DEF EncoderSteps, OthersStep, vars
  <2> QED
    BY <2>1, StreamStands
<1>2. CASE NotAccepting
  <2>1. Stop /\ pc \notin {"enqueue", "account"}
    BY <1>2 DEF NotAccepting
  <2>2. /\ UNCHANGED <<queue, write_offset, received, stream>>
        /\ pc' \notin {"enqueue", "account"}
    BY <2>1 DEF Stop
  <2> QED
    BY <2>1, <2>2, StreamKept
<1>3. CASE BackendSteps
  BY <1>3, NextStreams DEF BackendSteps
<1> QED
  BY <1>1, <1>2, <1>3 DEF PipelineNext

LEMMA QueueStutter ==
  ASSUME QueueInv, UNCHANGED pipelineVars
  PROVE  QueueInv'
<1> USE DEF pipelineVars, vars, queueVars, frameVars, stopVars, outsideVars
<1>1. TypeOK'
  BY DEF QueueInv, TypeOK
<1> QED
  BY <1>1 DEF QueueInv, Halfway, Watched, Filled

LEMMA StreamStutter ==
  ASSUME StreamInv, UNCHANGED pipelineVars
  PROVE  StreamInv'
BY StreamStands DEF pipelineVars, vars, queueVars, frameVars

\* The queues have their types and the backend selects exactly the pipes whose
\* queue has a buffer, whatever the encoders do and even if SIGTERM comes in the
\* middle of an update (select_read and select_write in baseclass.pm).
THEOREM PipesAreWatched == PipelineSpec => [](TypeOK /\ SelectedIffData)
<1>1. PipelineInit => QueueInv
  BY QueueInit DEF PipelineInit
<1>2. QueueInv /\ [PipelineNext]_pipelineVars => QueueInv'
  BY PipelineTyped, QueueStutter
<1>3. QueueInv => TypeOK /\ SelectedIffData
  BY DEF QueueInv, Watched, SelectedIffData, Filled
<1> QED
  BY <1>1, <1>2, <1>3, PTL DEF PipelineSpec

LEMMA StreamIntactInv ==
  ASSUME QueueInv, StreamInv
  PROVE  StreamIntact /\ RemainingPassed
<1>1. \A p \in Pipes : /\ IsPrefix(received[p], stream[p])
                       /\ queue[p] = <<>> /\ Coming = <<>> => received[p] = stream[p]
  <2> SUFFICES ASSUME NEW p \in Pipes
               PROVE  /\ IsPrefix(received[p], stream[p])
                      /\ queue[p] = <<>> /\ Coming = <<>> => received[p] = stream[p]
    OBVIOUS
  <2> DEFINE c == Coming
  <2>1. Streamed(queue[p], Taken(p), received[p], stream[p], c)
    BY DEF StreamInv
  <2>2. c \in Seq(AllParts)
    <3>1. CASE pc = "enqueue"
      <4>1. Image(last_image_data) \in Buffers
        BY <3>1, ImageTyped DEF QueueInv, Halfway, TypeOK, NoFrame
      <4> QED
        BY <3>1, <4>1, PartsTyped DEF Coming
    <3>2. CASE pc # "enqueue"
      BY <3>2, EmptySeq DEF Coming
    <3> QED
      BY <3>1, <3>2
  <2> HIDE DEF c
  <2>3. /\ IsPrefix(received[p], stream[p])
        /\ queue[p] = <<>> /\ c = <<>> => received[p] = stream[p]
    BY <2>1, <2>2, PipeTyped, StreamRead
  <2> QED
    BY <2>3 DEF c
<1>2. StreamIntact
  BY <1>1 DEF StreamIntact
<1>3. RemainingPassed
  <2> SUFFICES ASSUME pc = "await" PROVE received = stream
    BY DEF RemainingPassed
  <2>1. Filled = {} /\ Coming = <<>>
    BY DEF QueueInv, Watched, Coming
  <2>2. \A p \in Pipes : received[p] = stream[p]
    BY <1>1, <2>1 DEF Filled
  <2>3. /\ received = [p \in Pipes |-> received[p]]
        /\ stream = [p \in Pipes |-> stream[p]]
    BY DEF QueueInv, TypeOK
  <2> QED
    BY <2>2, <2>3
<1> QED
  BY <1>2, <1>3

LEMMA StreamsInv == PipelineSpec => [](QueueInv /\ (Undisturbed => StreamInv))
<1>1. PipelineInit => QueueInv /\ StreamInv
  BY QueueInit, StreamInit DEF PipelineInit
<1>2. ASSUME QueueInv, Undisturbed => StreamInv, [PipelineNext]_pipelineVars
      PROVE  QueueInv' /\ (Undisturbed' => StreamInv')
  <2>1. CASE PipelineNext
    BY <1>2, <2>1, PipelineTyped, UndisturbedBefore, PipelineStreams
  <2>2. CASE UNCHANGED pipelineVars
    <3>1. Undisturbed' => Undisturbed
      BY <2>2 DEF Undisturbed, pipelineVars, vars, outsideVars
    <3> QED
      BY <1>2, <2>2, <3>1, QueueStutter, StreamStutter
  <2> QED
    BY <1>2, <2>1, <2>2
<1> QED
  BY <1>1, <1>2, PTL DEF PipelineSpec

\* An encoder gets its commands and images in order, no part twice and none left
\* out, however the pipes take the buffers apart (_encoder_write_offset of
\* baseclass.pm), unless SIGTERM comes in the middle of the update of a queue.
THEOREM StreamsAreIntact == PipelineSpec => [](Undisturbed => StreamIntact)
<1>1. QueueInv /\ (Undisturbed => StreamInv) => (Undisturbed => StreamIntact)
  BY StreamIntactInv
<1> QED
  BY <1>1, StreamsInv, PTL

\* When the pipes are closed in order, each encoder has got its whole stream
\* (_stop_video_encoder, 'pass remaining video frames'), with the same exception.
THEOREM NothingRemains == PipelineSpec => [](Undisturbed => RemainingPassed)
<1>1. QueueInv /\ (Undisturbed => StreamInv) => (Undisturbed => RemainingPassed)
  BY StreamIntactInv
<1> QED
  BY <1>1, StreamsInv, PTL
-----------------------------------------------------------------------------
(* The screens that a stream stands for                                     *)

\* A step of the fold of ScreensOf
Show(screens, item) ==
  IF item[2] = "R" THEN Append(screens, Last(screens))
  ELSE IF item[2] = "image" /\ item[3] = DataSize THEN Append(screens, item[1])
  ELSE screens

\* The recursion of that fold: its last item is added to the screens of the others.
Read(q, g, s) == IF s = {} THEN <<>> ELSE Show(g[s \ {Max(s)}], q[Max(s)])

LEMMA ScreensAre ==
  ASSUME NEW q
  PROVE  V!ScreensOf(q) = (CHOOSE g : g = [s \in SUBSET (DOMAIN q) |-> Read(q, g, s)])[DOMAIN q]
BY DEF V!ScreensOf, V!FoldLeft, V!MapThenFoldSet, V!Last, V!Max, Last, Max, Read, Show

\* What stands for induction here: a least counterexample
LEMMA LeastNumber ==
  ASSUME NEW S \in SUBSET Nat, S # {}
  PROVE  \E n \in S : \A m \in S : n <= m
<1>1. PICK n \in S : \A m \in S : <<m, n>> \notin OpToRel(<, Nat)
  BY WFMin, NatLessThanWellFounded
<1>2. \A m \in S : ~(m < n)
  BY <1>1 DEF OpToRel
<1> QED
  BY <1>2

LEMMA Greatest ==
  ASSUME NEW n \in Nat, NEW s \in SUBSET (1..n), s # {}
  PROVE  Max(s) \in s /\ \A i \in s : i <= Max(s)
<1> DEFINE Bounds == { b \in Nat : \A i \in s : i <= b }
<1>1. n \in Bounds
  OBVIOUS
<1>2. Bounds \in SUBSET Nat /\ Bounds # {}
  BY <1>1
<1>3. PICK b \in Bounds : \A m \in Bounds : b <= m
  <2> HIDE DEF Bounds
  <2> QED
    BY <1>2, LeastNumber
<1>4. b \in s
  <2>1. SUFFICES ASSUME b \notin s PROVE FALSE
    OBVIOUS
  <2>2. \A i \in s : i <= b - 1
    BY <1>3, <2>1
  <2>3. b - 1 \in Nat
    <3>1. PICK i \in s : TRUE
      OBVIOUS
    <3>2. i \in Nat /\ i <= b - 1 /\ b \in Nat
      BY <1>3, <2>2, <3>1
    <3> QED
      BY <3>2
  <2>4. b - 1 \in Bounds
    BY <2>2, <2>3
  <2>5. b \in Nat
    BY <1>3
  <2> HIDE DEF Bounds
  <2>6. b <= b - 1
    BY <1>3, <2>4
  <2> QED
    BY <2>3, <2>5, <2>6
<1>5. b \in s /\ \A i \in s : b >= i
  BY <1>3, <1>4
<1>6. Max(s) \in s /\ \A i \in s : Max(s) >= i
  BY <1>5 DEF Max
<1> QED
  BY <1>6

\* The recursion has a solution.
LEMMA ReadingExists ==
  ASSUME NEW n \in Nat, NEW q
  PROVE  \E g : g = [s \in SUBSET (1..n) |-> Read(q, g, s)]
<1> DEFINE Upto(g, m) == [s \in SUBSET (1..n) |->
                            IF s \subseteq 1..m THEN Read(q, g, s) ELSE <<>>]
           Failing == { m \in Nat : ~ \E g : g = Upto(g, m) }
<1>1. 0 \notin Failing
  <2> DEFINE g == [s \in SUBSET (1..n) |-> <<>>]
  <2>1. ASSUME NEW s \in SUBSET (1..n)
        PROVE  g[s] = IF s \subseteq 1..0 THEN Read(q, g, s) ELSE <<>>
    BY DEF Read
  <2>2. g = Upto(g, 0)
    <3>1. \A s \in SUBSET (1..n) : g[s] = Upto(g, 0)[s]
      BY <2>1
    <3> QED
      BY <3>1
  <2> QED
    BY <2>2
<1>2. ASSUME NEW m \in Nat, m + 1 \in Failing
      PROVE  m \in Failing
  <2>1. SUFFICES ASSUME m \notin Failing PROVE FALSE
    OBVIOUS
  <2>2. PICK g : g = Upto(g, m)
    BY <2>1
  <2> DEFINE h == Upto(g, m + 1)
  <2>3. ASSUME NEW s \in SUBSET (1..n), s \subseteq 1..(m + 1)
        PROVE  Read(q, g, s) = Read(q, h, s)
    <3>1. CASE s = {}
      BY <3>1 DEF Read
    <3>2. CASE s # {}
      <4> DEFINE t == s \ {Max(s)}
      <4>1. t \in SUBSET (1..n) /\ t \subseteq 1..m
        <5>1. Max(s) \in s /\ \A i \in s : i <= Max(s)
          BY <3>2, Greatest
        <5> DEFINE x == Max(s)
        <5> HIDE DEF x
        <5>2. ASSUME NEW i \in s, i # x PROVE i \in 1..m
          <6>1. i \in 1..(m + 1) /\ x \in 1..(m + 1) /\ i <= x
            BY <2>3, <5>1 DEF x
          <6> QED
            BY <5>2, <6>1
        <5> QED
          BY <5>2 DEF x
      <4>2. g[t] = Read(q, g, t)
        <5> HIDE DEF t
        <5> QED
          BY <2>2, <4>1
      <4>3. h[t] = Read(q, g, t)
        <5>1. t \subseteq 1..(m + 1)
          BY <4>1
        <5> HIDE DEF t
        <5> QED
          BY <4>1, <5>1
      <4> HIDE DEF h
      <4> QED
        BY <3>2, <4>2, <4>3 DEF Read
    <3> QED
      BY <3>1, <3>2
  <2>4. h = Upto(h, m + 1)
    <3>1. \A s \in SUBSET (1..n) : h[s] = IF s \subseteq 1..(m + 1) THEN Read(q, h, s) ELSE <<>>
      BY <2>3
    <3>2. h = [s \in SUBSET (1..n) |-> h[s]]
      OBVIOUS
    <3> HIDE DEF h
    <3> QED
      BY <3>1, <3>2
  <2> HIDE DEF h
  <2> QED
    BY <1>2, <2>4
<1>3. Failing = {}
  <2>1. Failing \in SUBSET Nat
    OBVIOUS
  <2> HIDE DEF Failing
  <2>2. SUFFICES ASSUME Failing # {} PROVE FALSE
    OBVIOUS
  <2>3. PICK m \in Failing : \A k \in Failing : m <= k
    BY <2>1, <2>2, LeastNumber
  <2>4. m # 0 /\ m \in Nat
    BY <1>1, <2>1
  <2>5. m - 1 \in Nat /\ (m - 1) + 1 = m
    BY <2>4
  <2>6. m - 1 \in Failing
    BY <1>2, <2>5
  <2> QED
    BY <2>3, <2>4, <2>6
<1>4. PICK g : g = Upto(g, n)
  BY <1>3
<1>5. g = [s \in SUBSET (1..n) |-> Read(q, g, s)]
  <2>1. \A s \in SUBSET (1..n) : g[s] = Read(q, g, s)
    BY <1>4
  <2>2. g = [s \in SUBSET (1..n) |-> g[s]]
    BY <1>4
  <2> QED
    BY <2>1, <2>2
<1> QED
  BY <1>5

Reading(q) == CHOOSE g : g = [s \in SUBSET (DOMAIN q) |-> Read(q, g, s)]

LEMMA ReadingIs ==
  ASSUME NEW n \in Nat, NEW q, DOMAIN q = 1..n, NEW s \in SUBSET (1..n)
  PROVE  Reading(q)[s] = Read(q, Reading(q), s)
<1>1. \E g : g = [t \in SUBSET (1..n) |-> Read(q, g, t)]
  BY ReadingExists
<1>2. Reading(q) = [t \in SUBSET (1..n) |-> Read(q, Reading(q), t)]
  BY <1>1 DEF Reading
<1> QED
  BY <1>2

LEMMA LastRead ==
  ASSUME NEW n \in Nat, NEW k \in 1..n
  PROVE  /\ 1..k \in SUBSET (1..n) /\ 1..k # {}
         /\ Max(1..k) = k /\ (1..k) \ {k} = 1..(k - 1)
<1>1. 1..k \in SUBSET (1..n) /\ k \in 1..k /\ (1..k) \ {k} = 1..(k - 1)
  OBVIOUS
<1> DEFINE m == Max(1..k)
<1>2. m \in 1..k /\ \A i \in 1..k : i <= m
  BY <1>1, Greatest
<1> HIDE DEF m
<1>3. m = k
  BY <1>1, <1>2
<1> QED
  BY <1>1, <1>3 DEF m

LEMMA ReadingStep ==
  ASSUME NEW n \in Nat, NEW q, DOMAIN q = 1..n
  PROVE  /\ Reading(q)[1..0] = <<>>
         /\ \A k \in 1..n : Reading(q)[1..k] = Show(Reading(q)[1..(k - 1)], q[k])
<1>1. Reading(q)[1..0] = <<>>
  <2>1. 1..0 = {} /\ {} \in SUBSET (1..n)
    OBVIOUS
  <2>2. Reading(q)[{}] = Read(q, Reading(q), {})
    BY <2>1, ReadingIs
  <2> QED
    BY <2>1, <2>2 DEF Read
<1>2. ASSUME NEW k \in 1..n
      PROVE  Reading(q)[1..k] = Show(Reading(q)[1..(k - 1)], q[k])
  <2> DEFINE g == Reading(q)
             s == 1..k
             t == 1..(k - 1)
  <2>1. s \in SUBSET (1..n) /\ s # {} /\ Max(s) = k /\ s \ {k} = t
    BY LastRead
  <2>2. g[s] = Read(q, g, s)
    BY <2>1, ReadingIs
  <2> HIDE DEF g, s, t
  <2>3. g[s] = Show(g[t], q[k])
    BY <2>1, <2>2 DEF Read
  <2> QED
    BY <2>3 DEF g, s, t
<1> QED
  BY <1>1, <1>2

\* The screens of the first items do not depend on those that follow.
LEMMA SameReading ==
  ASSUME NEW n \in Nat, NEW m \in Nat, n <= m, NEW q, NEW r,
         DOMAIN q = 1..n, DOMAIN r = 1..m, \A i \in 1..n : q[i] = r[i]
  PROVE  Reading(q)[1..n] = Reading(r)[1..n]
<1> DEFINE Other == { k \in 0..n : Reading(q)[1..k] # Reading(r)[1..k] }
<1>1. SUFFICES ASSUME Other # {} PROVE FALSE
  OBVIOUS
<1>2. PICK k \in Other : \A j \in Other : k <= j
  <2>1. Other \in SUBSET Nat
    OBVIOUS
  <2> HIDE DEF Other
  <2> QED
    BY <1>1, <2>1, LeastNumber
<1>3. k \in 0..n /\ Reading(q)[1..k] # Reading(r)[1..k]
  OBVIOUS
<1>4. k # 0
  BY <1>3, ReadingStep
<1>5. k \in 1..n /\ k \in 1..m /\ k - 1 \in 0..n /\ ~(k <= k - 1)
  BY <1>3, <1>4
<1>6. Reading(q)[1..(k - 1)] = Reading(r)[1..(k - 1)]
  BY <1>2, <1>5
<1>7. /\ Reading(q)[1..k] = Show(Reading(q)[1..(k - 1)], q[k])
      /\ Reading(r)[1..k] = Show(Reading(r)[1..(k - 1)], r[k])
      /\ q[k] = r[k]
  BY <1>5, ReadingStep
<1> HIDE DEF Other
<1> QED
  BY <1>3, <1>6, <1>7

LEMMA ScreensOfNothing == V!ScreensOf(<<>>) = <<>>
<1>1. DOMAIN <<>> = 1..0
  OBVIOUS
<1>2. Reading(<<>>)[1..0] = <<>>
  BY <1>1, ReadingStep
<1> QED
  BY <1>1, <1>2, ScreensAre DEF Reading

LEMMA ScreensOfMore ==
  ASSUME NEW S, NEW q \in Seq(S), NEW x \in S
  PROVE  V!ScreensOf(Append(q, x)) = Show(V!ScreensOf(q), x)
<1> DEFINE n == Len(q)
           r == Append(q, x)
<1>1. /\ n \in Nat /\ n + 1 \in Nat /\ n <= n + 1 /\ n + 1 \in 1..(n + 1) /\ (n + 1) - 1 = n
      /\ DOMAIN q = 1..n /\ DOMAIN r = 1..(n + 1)
      /\ \A i \in 1..n : q[i] = r[i]
      /\ r[n + 1] = x
  BY AppendProperties
<1> HIDE DEF n, r
<1>2. V!ScreensOf(q) = Reading(q)[1..n] /\ V!ScreensOf(r) = Reading(r)[1..(n + 1)]
  BY <1>1, ScreensAre DEF Reading
<1>3. Reading(q)[1..n] = Reading(r)[1..n]
  BY <1>1, SameReading
<1>4. Reading(r)[1..(n + 1)] = Show(Reading(r)[1..((n + 1) - 1)], r[n + 1])
  BY <1>1, ReadingStep
<1> QED
  BY <1>1, <1>2, <1>3, <1>4 DEF r

\* The screens of the first items of a stream
Seen(s, n) == V!ScreensOf(SubSeq(s, 1, n))

\* Beginnings of sequences
LEMMA FirstItems ==
  ASSUME NEW S, NEW s \in Seq(S), NEW n \in Nat, n <= Len(s)
  PROVE  /\ SubSeq(s, 1, n) \in Seq(S) /\ Len(SubSeq(s, 1, n)) = n
         /\ \A i \in 1..n : SubSeq(s, 1, n)[i] = s[i]
<1>1. n \in 0..Len(s)
  OBVIOUS
<1>2. SubSeq(s, 1, n) = [i \in 1..n |-> s[i]]
  OBVIOUS
<1>3. \A i \in 1..n : s[i] \in S
  BY <1>1
<1>4. SubSeq(s, 1, n) \in Seq(S)
  BY <1>2, <1>3, IsASeq
<1>5. Len(SubSeq(s, 1, n)) = n
  BY <1>2, <1>4
<1> QED
  BY <1>2, <1>4, <1>5

LEMMA SeenNothing ==
  ASSUME NEW S, NEW s \in Seq(S)
  PROVE  Seen(s, 0) = <<>>
<1>1. SubSeq(s, 1, 0) = <<>>
  OBVIOUS
<1> QED
  BY <1>1, ScreensOfNothing DEF Seen

LEMMA SeenMore ==
  ASSUME NEW S, NEW s \in Seq(S), NEW n \in Nat, n < Len(s)
  PROVE  Seen(s, n + 1) = Show(Seen(s, n), s[n + 1])
<1> DEFINE q == SubSeq(s, 1, n)
           r == SubSeq(s, 1, n + 1)
           x == s[n + 1]
<1>1. Len(s) \in Nat /\ n + 1 \in Nat /\ n <= Len(s) /\ n + 1 <= Len(s) /\ n + 1 \in 1..Len(s)
  OBVIOUS
<1>2. /\ q \in Seq(S) /\ Len(q) = n /\ \A i \in 1..n : q[i] = s[i]
      /\ r \in Seq(S) /\ Len(r) = n + 1 /\ \A i \in 1..(n + 1) : r[i] = s[i]
      /\ x \in S
  BY <1>1, FirstItems
<1> HIDE DEF q, r, x
<1>3. /\ Append(q, x) \in Seq(S) /\ Len(Append(q, x)) = n + 1
      /\ \A i \in 1..n : Append(q, x)[i] = q[i]
      /\ Append(q, x)[n + 1] = x
  BY <1>2, AppendProperties
<1>4. \A i \in 1..(n + 1) : r[i] = Append(q, x)[i]
  BY <1>2, <1>3 DEF x
<1>5. r = Append(q, x)
  BY <1>2, <1>3, <1>4, SeqEqual
<1>6. V!ScreensOf(Append(q, x)) = Show(V!ScreensOf(q), x)
  BY <1>2, ScreensOfMore
<1> QED
  BY <1>5, <1>6 DEF Seen, q, r, x

LEMMA SeenAll ==
  ASSUME NEW S, NEW s \in Seq(S)
  PROVE  Seen(s, Len(s)) = V!ScreensOf(s)
<1>1. SubSeq(s, 1, Len(s)) = s
  OBVIOUS
<1> QED
  BY <1>1 DEF Seen

\* What an encoder has read it has read, also when the stream goes on.
LEMMA SeenStays ==
  ASSUME NEW S, NEW s \in Seq(S), NEW r \in Seq(S), NEW n \in Nat, n <= Len(s), n <= Len(r),
         \A i \in 1..n : r[i] = s[i]
  PROVE  SubSeq(r, 1, n) = SubSeq(s, 1, n) /\ Seen(r, n) = Seen(s, n)
<1>1. SubSeq(r, 1, n) = SubSeq(s, 1, n)
  <2>1. /\ SubSeq(s, 1, n) \in Seq(S) /\ Len(SubSeq(s, 1, n)) = n
        /\ SubSeq(r, 1, n) \in Seq(S) /\ Len(SubSeq(r, 1, n)) = n
        /\ \A i \in 1..n : SubSeq(r, 1, n)[i] = SubSeq(s, 1, n)[i]
    BY FirstItems
  <2> QED
    BY <2>1, SeqEqual
<1> QED
  BY <1>1 DEF Seen
-----------------------------------------------------------------------------
(* The frames that a video shows                                            *)

\* A step of FlattenSeq
Join(q, g, i) == IF i = 1 THEN q[i] ELSE g[i - 1] \o q[i]
Joining(q) == CHOOSE g : g = [i \in 1..Len(q) |-> Join(q, g, i)]

LEMMA FlattenAre ==
  ASSUME NEW q
  PROVE  V!FlattenSeq(q) = IF Len(q) = 0 THEN q ELSE Joining(q)[Len(q)]
BY DEF V!FlattenSeq, Joining, Join

\* The recursion of FlattenSeq has a solution, too.
LEMMA JoiningExists ==
  ASSUME NEW n \in Nat, NEW q
  PROVE  \E g : g = [i \in 1..n |-> Join(q, g, i)]
<1> DEFINE Upto(g, m) == [i \in 1..n |-> IF i <= m THEN Join(q, g, i) ELSE <<>>]
           Failing == { m \in Nat : ~ \E g : g = Upto(g, m) }
<1>1. 0 \notin Failing
  <2> DEFINE g == [i \in 1..n |-> <<>>]
  <2>1. g = Upto(g, 0)
    <3>1. \A i \in 1..n : ~(i <= 0)
      OBVIOUS
    <3> QED
      BY <3>1
  <2> QED
    BY <2>1
<1>2. ASSUME NEW m \in Nat, m + 1 \in Failing
      PROVE  m \in Failing
  <2>1. SUFFICES ASSUME m \notin Failing PROVE FALSE
    OBVIOUS
  <2>2. PICK g : g = Upto(g, m)
    BY <2>1
  <2> DEFINE h == Upto(g, m + 1)
  <2>3. ASSUME NEW i \in 1..n, i <= m + 1
        PROVE  Join(q, g, i) = Join(q, h, i)
    <3>1. CASE i = 1
      BY <3>1 DEF Join
    <3>2. CASE i # 1
      <4>1. i - 1 \in 1..n /\ i - 1 <= m /\ i - 1 <= m + 1
        BY <2>3, <3>2
      <4>2. g[i - 1] = Join(q, g, i - 1)
        BY <2>2, <4>1
      <4>3. h[i - 1] = Join(q, g, i - 1)
        BY <4>1
      <4> HIDE DEF h
      <4> QED
        BY <3>2, <4>2, <4>3 DEF Join
    <3> QED
      BY <3>1, <3>2
  <2>4. h = Upto(h, m + 1)
    <3>1. \A i \in 1..n : h[i] = IF i <= m + 1 THEN Join(q, h, i) ELSE <<>>
      BY <2>3
    <3>2. h = [i \in 1..n |-> h[i]]
      OBVIOUS
    <3> HIDE DEF h
    <3> QED
      BY <3>1, <3>2
  <2> HIDE DEF h
  <2> QED
    BY <1>2, <2>4
<1>3. Failing = {}
  <2>1. Failing \in SUBSET Nat
    OBVIOUS
  <2> HIDE DEF Failing
  <2>2. SUFFICES ASSUME Failing # {} PROVE FALSE
    OBVIOUS
  <2>3. PICK m \in Failing : \A k \in Failing : m <= k
    BY <2>1, <2>2, LeastNumber
  <2>4. m # 0 /\ m \in Nat
    BY <1>1, <2>1
  <2>5. m - 1 \in Nat /\ (m - 1) + 1 = m
    BY <2>4
  <2>6. m - 1 \in Failing
    BY <1>2, <2>5
  <2> QED
    BY <2>3, <2>4, <2>6
<1>4. PICK g : g = Upto(g, n)
  BY <1>3
<1>5. g = [i \in 1..n |-> Join(q, g, i)]
  <2>1. \A i \in 1..n : g[i] = Join(q, g, i)
    BY <1>4
  <2>2. g = [i \in 1..n |-> g[i]]
    BY <1>4
  <2> QED
    BY <2>1, <2>2
<1> QED
  BY <1>5

LEMMA JoiningIs ==
  ASSUME NEW q, Len(q) \in Nat, NEW i \in 1..Len(q)
  PROVE  Joining(q)[i] = Join(q, Joining(q), i)
<1>1. \E g : g = [j \in 1..Len(q) |-> Join(q, g, j)]
  BY JoiningExists
<1>2. Joining(q) = [j \in 1..Len(q) |-> Join(q, Joining(q), j)]
  BY <1>1 DEF Joining
<1> QED
  BY <1>2

LEMMA SameJoining ==
  ASSUME NEW q, NEW r, NEW n \in Nat, NEW m \in Nat, Len(q) = n, Len(r) = m, n <= m,
         \A i \in 1..n : q[i] = r[i]
  PROVE  \A i \in 1..n : Joining(q)[i] = Joining(r)[i]
<1> DEFINE Other == { k \in 1..n : Joining(q)[k] # Joining(r)[k] }
<1>1. SUFFICES ASSUME Other # {} PROVE FALSE
  OBVIOUS
<1>2. PICK k \in Other : \A j \in Other : k <= j
  <2>1. Other \in SUBSET Nat
    OBVIOUS
  <2> HIDE DEF Other
  <2> QED
    BY <1>1, <2>1, LeastNumber
<1>3. k \in 1..n /\ k \in 1..m /\ Joining(q)[k] # Joining(r)[k] /\ q[k] = r[k]
  OBVIOUS
<1>4. Joining(q)[k] = Join(q, Joining(q), k) /\ Joining(r)[k] = Join(r, Joining(r), k)
  BY <1>3, JoiningIs
<1>5. k # 1
  BY <1>3, <1>4 DEF Join
<1>6. k - 1 \in 1..n /\ ~(k <= k - 1)
  BY <1>3, <1>5
<1>7. Joining(q)[k - 1] = Joining(r)[k - 1]
  BY <1>2, <1>6
<1> HIDE DEF Other
<1> QED
  BY <1>3, <1>4, <1>5, <1>7 DEF Join

LEMMA FlattenOfMore ==
  ASSUME NEW S, NEW q \in Seq(Seq(S)), NEW x \in Seq(S)
  PROVE  V!FlattenSeq(Append(q, x)) = V!FlattenSeq(q) \o x
<1> DEFINE n == Len(q)
           r == Append(q, x)
<1>1. /\ n \in Nat /\ n + 1 \in Nat /\ n <= n + 1 /\ n + 1 \in 1..(n + 1) /\ (n + 1) - 1 = n
      /\ n + 1 # 0 /\ (n # 0 => n \in 1..n /\ n + 1 # 1) /\ (n = 0 => q = <<>>)
      /\ Len(r) = n + 1 /\ Len(q) = n
      /\ \A i \in 1..n : r[i] = q[i]
      /\ r[n + 1] = x
  BY AppendProperties
<1> HIDE DEF n, r
<1>2. V!FlattenSeq(r) = Joining(r)[n + 1]
  BY <1>1, FlattenAre
<1>3. Joining(r)[n + 1] = Join(r, Joining(r), n + 1)
  BY <1>1, JoiningIs
<1>4. CASE n = 0
  <2>1. V!FlattenSeq(q) = <<>>
    BY <1>1, <1>4, FlattenAre
  <2>2. <<>> \o x = x
    BY ConcatEmptySeq
  <2>3. n + 1 = 1
    BY <1>4
  <2>4. Join(r, Joining(r), n + 1) = x
    BY <1>1, <2>3 DEF Join
  <2> QED
    BY <1>2, <1>3, <2>1, <2>2, <2>4 DEF r
<1>5. CASE n # 0
  <2>1. V!FlattenSeq(q) = Joining(q)[n]
    BY <1>1, <1>5, FlattenAre
  <2>2. Joining(q)[n] = Joining(r)[n]
    <3> DEFINE m == n + 1
    <3>1. n \in Nat /\ m \in Nat /\ Len(q) = n /\ Len(r) = m /\ n <= m /\ \A i \in 1..n : q[i] = r[i]
      BY <1>1
    <3> HIDE DEF m
    <3>2. \A i \in 1..n : Joining(q)[i] = Joining(r)[i]
      BY <3>1, SameJoining
    <3> QED
      BY <1>1, <1>5, <3>2
  <2>3. Join(r, Joining(r), n + 1) = Joining(r)[n] \o x
    BY <1>1, <1>5 DEF Join
  <2> QED
    BY <1>2, <1>3, <2>1, <2>2, <2>3 DEF r
<1> QED
  BY <1>4, <1>5

LEMMA FunctionIsSeq ==
  ASSUME NEW S, NEW n \in Nat, NEW f \in [1..n -> S]
  PROVE  f \in Seq(S) /\ Len(f) = n
OBVIOUS

\* The frames that a packet of the video shows
Copies(frame, count) == [n \in 1..count |-> frame]

LEMMA CopiesTyped ==
  ASSUME NEW S, NEW frame \in S, NEW count \in Nat
  PROVE  Copies(frame, count) \in Seq(S) /\ Len(Copies(frame, count)) = count
         /\ \A n \in 1..count : Copies(frame, count)[n] = frame
<1>1. Copies(frame, count) \in [1..count -> S]
  BY DEF Copies
<1>2. \A n \in 1..count : Copies(frame, count)[n] = frame
  BY DEF Copies
<1> HIDE DEF Copies
<1>3. Copies(frame, count) \in Seq(S) /\ Len(Copies(frame, count)) = count
  BY <1>1, FunctionIsSeq
<1> QED
  BY <1>2, <1>3

LEMMA ShownNothing == V!Shown(<<>>) = <<>>
<1> DEFINE c == [i \in DOMAIN <<>> |-> [n \in 1..(<<>>[i].dup + 1) |-> <<>>[i].frame]]
<1>1. c = <<>> /\ Len(c) = 0
  OBVIOUS
<1>2. V!Shown(<<>>) = V!FlattenSeq(c)
  BY DEF V!Shown
<1> HIDE DEF c
<1> QED
  BY <1>1, <1>2, FlattenAre

\* A packet adds its frame, once and as often as its count says.
LEMMA ShownMore ==
  ASSUME NEW v \in Seq(V!Packets), NEW frame \in V!Frames, NEW dup \in Nat,
         V!Shown(v) \in Seq(V!Frames)
  PROVE  /\ Append(v, [frame |-> frame, dup |-> dup]) \in Seq(V!Packets)
         /\ V!Shown(Append(v, [frame |-> frame, dup |-> dup]))
              = V!Shown(v) \o Copies(frame, dup + 1)
         /\ V!Shown(v) \o Copies(frame, dup + 1) \in Seq(V!Frames)
<1> DEFINE p == [frame |-> frame, dup |-> dup]
           n == Len(v)
           w == Append(v, p)
           c(u) == [i \in DOMAIN u |-> Copies(u[i].frame, u[i].dup + 1)]
<1>1. p \in V!Packets /\ p.frame = frame /\ p.dup = dup
  BY DEF V!Packets
<1>2. /\ w \in Seq(V!Packets) /\ DOMAIN v = 1..n /\ n \in Nat /\ Len(w) = n + 1
      /\ DOMAIN w = 1..(n + 1)
      /\ (\A i \in 1..n : w[i] = v[i]) /\ w[n + 1] = p
  BY <1>1, AppendProperties
<1>3. \A u : V!Shown(u) = V!FlattenSeq(c(u))
  BY DEF V!Shown, Copies
<1>4. \A u \in Seq(V!Packets) : \A i \in 1..Len(u) :
        Copies(u[i].frame, u[i].dup + 1) \in Seq(V!Frames)
  <2> SUFFICES ASSUME NEW u \in Seq(V!Packets), NEW i \in 1..Len(u)
               PROVE  Copies(u[i].frame, u[i].dup + 1) \in Seq(V!Frames)
    OBVIOUS
  <2>1. u[i] \in V!Packets
    OBVIOUS
  <2>2. u[i].frame \in V!Frames /\ u[i].dup + 1 \in Nat
    BY <2>1 DEF V!Packets
  <2> QED
    BY <2>2, CopiesTyped
<1>5. c(v) \in [1..n -> Seq(V!Frames)] /\ c(w) \in [1..(n + 1) -> Seq(V!Frames)]
  BY <1>2, <1>4
<1>6. /\ (\A i \in 1..n : c(w)[i] = c(v)[i])
      /\ c(w)[n + 1] = Copies(frame, dup + 1)
  BY <1>1, <1>2
<1>7. Copies(frame, dup + 1) \in Seq(V!Frames)
  BY CopiesTyped
<1> DEFINE x == Copies(frame, dup + 1)
           cv == c(v)
           cw == c(w)
<1>8. V!Shown(v) = V!FlattenSeq(cv) /\ V!Shown(w) = V!FlattenSeq(cw)
  BY <1>3
<1> HIDE DEF c, x, w, n, p, cv, cw
<1>9. /\ cv \in Seq(Seq(V!Frames)) /\ Len(cv) = n
      /\ cw \in Seq(Seq(V!Frames)) /\ Len(cw) = n + 1
  BY <1>2, <1>5, FunctionIsSeq DEF cv, cw
<1>10. cw = Append(cv, x)
  <2>1. /\ Append(cv, x) \in Seq(Seq(V!Frames)) /\ Len(Append(cv, x)) = n + 1
        /\ \A i \in 1..n : Append(cv, x)[i] = cv[i]
        /\ Append(cv, x)[n + 1] = x
    BY <1>7, <1>9, AppendProperties DEF x
  <2>2. \A i \in 1..(n + 1) : cw[i] = Append(cv, x)[i]
    BY <1>2, <1>6, <2>1 DEF x, cv, cw
  <2> QED
    BY <1>9, <2>1, <2>2, SeqEqual
<1>11. V!FlattenSeq(Append(cv, x)) = V!FlattenSeq(cv) \o x
  BY <1>7, <1>9, FlattenOfMore DEF x
<1>12. V!Shown(v) \o x \in Seq(V!Frames)
  BY <1>7, ConcatProperties DEF x
<1> QED
  BY <1>2, <1>8, <1>10, <1>11, <1>12 DEF x, w, p

LEMMA CopiesOneMore ==
  ASSUME NEW S, NEW frame \in S, NEW count \in Nat
  PROVE  Copies(frame, count + 1) = Append(Copies(frame, count), frame)
<1> DEFINE c == Copies(frame, count)
           d == Copies(frame, count + 1)
<1>0. count + 1 \in Nat
  OBVIOUS
<1>1. /\ c \in Seq(S) /\ Len(c) = count /\ \A n \in 1..count : c[n] = frame
      /\ d \in Seq(S) /\ Len(d) = count + 1 /\ \A n \in 1..(count + 1) : d[n] = frame
  BY <1>0, CopiesTyped
<1> HIDE DEF c, d
<1>2. /\ Append(c, frame) \in Seq(S) /\ Len(Append(c, frame)) = count + 1
      /\ \A n \in 1..count : Append(c, frame)[n] = c[n]
      /\ Append(c, frame)[count + 1] = frame
  BY <1>1, AppendProperties
<1>3. \A n \in 1..(count + 1) : d[n] = Append(c, frame)[n]
  BY <1>1, <1>2
<1>4. d = Append(c, frame)
  BY <1>1, <1>2, <1>3, SeqEqual
<1> QED
  BY <1>4 DEF c, d

LEMMA NoCopies == ASSUME NEW frame PROVE Copies(frame, 0) = <<>>
BY DEF Copies

LEMMA AppendLast ==
  ASSUME NEW S, NEW s \in Seq(S), NEW e \in S
  PROVE  /\ Append(s, e) \in Seq(S) /\ Append(s, e) # <<>> /\ Last(Append(s, e)) = e
         /\ Len(Append(s, e)) = Len(s) + 1
BY AppendProperties DEF Last

LEMMA JoinedMore ==
  ASSUME NEW S, NEW s \in Seq(S), NEW t \in Seq(S), NEW e \in S
  PROVE  s \o Append(t, e) = Append(s \o t, e)
<1>1. <<e>> \in Seq(S) /\ Append(t, e) = t \o <<e>>
  BY AppendIsConcat
<1>2. s \o t \in Seq(S)
  BY ConcatProperties
<1>3. Append(s \o t, e) = (s \o t) \o <<e>>
  BY <1>2, AppendIsConcat
<1> QED
  BY <1>1, <1>3, ConcatAssociative

\* One more copy on the way is one more screen.
LEMMA OneMore ==
  ASSUME NEW S, NEW s \in Seq(S), NEW frame \in S, NEW count \in Nat
  PROVE  s \o Copies(frame, count + 1) = Append(s \o Copies(frame, count), frame)
<1>1. Copies(frame, count) \in Seq(S)
  BY CopiesTyped
<1>2. Copies(frame, count + 1) = Append(Copies(frame, count), frame)
  BY CopiesOneMore
<1> DEFINE c == Copies(frame, count)
<1>3. c \in Seq(S)
  BY <1>1
<1> HIDE DEF c
<1>4. s \o Append(c, frame) = Append(s \o c, frame)
  BY <1>3, JoinedMore
<1> QED
  BY <1>2, <1>4 DEF c

LEMMA OneCopy ==
  ASSUME NEW S, NEW s \in Seq(S), NEW frame \in S
  PROVE  s \o Copies(frame, 1) = Append(s, frame)
<1>1. 0 \in Nat /\ 0 + 1 = 1
  OBVIOUS
<1>2. s \o Copies(frame, 1) = Append(s \o Copies(frame, 0), frame)
  BY <1>1, OneMore
<1>3. s \o <<>> = s
  BY ConcatEmptySeq
<1> QED
  BY <1>2, <1>3, NoCopies
-----------------------------------------------------------------------------
(* Streams of commands                                                      *)

\* The next item is a command: an image or a command R is complete.
CommandNext(s, n) ==
  n = 0 \/ s[n][2] = "R" \/ (s[n][2] = "image" /\ s[n][3] = DataSize)

\* The parts of the image come after the command at i.
HasImage(s, i) ==
  /\ i + DataSize <= Len(s)
  /\ \A j \in 1..DataSize :
       s[i + j][1] = s[i][1] /\ s[i + j][2] = "image" /\ s[i + j][3] = j

\* What the encoder can rely on: the first command is E, and each E has its image.
WellFormed(s) ==
  /\ \A i \in 1..Len(s) : s[i][2] = "E" => HasImage(s, i)
  /\ \A n \in 0..(Len(s) - 1) : CommandNext(s, n) => s[n + 1][2] # "image"
  /\ s # <<>> => s[1][2] # "R"
  /\ CommandNext(s, Len(s))

\* What a command adds to the screens
LEMMA CommandSeen ==
  ASSUME NEW s \in Seq(AllParts), NEW n \in Nat, n < Len(s)
  PROVE  /\ s[n + 1][2] = "E" => Seen(s, n + 1) = Seen(s, n)
         /\ s[n + 1][2] = "R" => Seen(s, n + 1) = Append(Seen(s, n), Last(Seen(s, n)))
BY SeenMore DEF Show

\* An image in parts is one screen.
LEMMA ImageSeen ==
  ASSUME NEW s \in Seq(AllParts), NEW n \in 1..Len(s), s[n][2] = "E", HasImage(s, n)
  PROVE  Seen(s, n + DataSize) = Append(Seen(s, n), s[n][1])
<1>1. n \in Nat /\ DataSize \in Nat \ {0} /\ Len(s) \in Nat
  OBVIOUS
<1>2. n + DataSize <= Len(s)
  BY DEF HasImage
<1>3. \A j \in 1..DataSize :
        s[n + j][1] = s[n][1] /\ s[n + j][2] = "image" /\ s[n + j][3] = j
  BY DEF HasImage
<1>4. ASSUME NEW j \in 1..DataSize
      PROVE  Seen(s, n + j) = IF j = DataSize THEN Append(Seen(s, n + (j - 1)), s[n][1])
                              ELSE Seen(s, n + (j - 1))
  <2> DEFINE m == n + (j - 1)
  <2>1. m \in Nat /\ m < Len(s) /\ m + 1 = n + j
    BY <1>1, <1>2
  <2> HIDE DEF m
  <2>2. Seen(s, n + j) = Show(Seen(s, m), s[n + j])
    BY <2>1, SeenMore
  <2>3. s[n + j][1] = s[n][1] /\ s[n + j][2] = "image" /\ s[n + j][3] = j
    BY <1>3
  <2> DEFINE item == s[n + j]
  <2> HIDE DEF item
  <2>4. item[2] # "R" /\ item[2] = "image" /\ item[3] = j /\ item[1] = s[n][1]
    BY <2>3 DEF item
  <2>5. Show(Seen(s, m), item) = IF j = DataSize THEN Append(Seen(s, m), s[n][1])
                                 ELSE Seen(s, m)
    BY <2>4 DEF Show
  <2> QED
    BY <2>2, <2>5 DEF item, m
<1> DEFINE Other == { j \in 0..(DataSize - 1) : Seen(s, n + j) # Seen(s, n) }
<1>5. ASSUME Other # {} PROVE FALSE
  <2>1. PICK j \in Other : \A i \in Other : j <= i
    <3>1. Other \in SUBSET Nat
      OBVIOUS
    <3> HIDE DEF Other
    <3> QED
      BY <1>5, <3>1, LeastNumber
  <2>2. j \in 0..(DataSize - 1) /\ Seen(s, n + j) # Seen(s, n)
    OBVIOUS
  <2>3. j # 0
    BY <1>1, <2>2
  <2>4. j - 1 \in 0..(DataSize - 1) /\ ~(j <= j - 1) /\ j \in 1..DataSize /\ j # DataSize
    BY <1>1, <2>2, <2>3
  <2>5. Seen(s, n + (j - 1)) = Seen(s, n)
    BY <2>1, <2>4
  <2>6. Seen(s, n + j) = Seen(s, n + (j - 1))
    BY <1>4, <2>4
  <2> QED
    BY <2>2, <2>5, <2>6
<1>6. DataSize - 1 \in 0..(DataSize - 1) /\ DataSize \in 1..DataSize
  BY <1>1
<1>7. Seen(s, n + (DataSize - 1)) = Seen(s, n)
  BY <1>5, <1>6
<1>8. Seen(s, n + DataSize) = Append(Seen(s, n + (DataSize - 1)), s[n][1])
  BY <1>4, <1>6
<1> QED
  BY <1>7, <1>8

LEMMA WellFormedNothing == WellFormed(<<>>)
BY DEF WellFormed, CommandNext


\* What comes with a command
OneRepeat(d) == Len(d) = 1 /\ d[1][2] = "R"
NewImage(d, frame) ==
  /\ Len(d) = DataSize + 1
  /\ d[1][1] = frame /\ d[1][2] = "E"
  /\ \A j \in 1..DataSize :
       d[j + 1][1] = frame /\ d[j + 1][2] = "image" /\ d[j + 1][3] = j

\* What is well formed at the beginning of a stream stays so.
LEMMA FormedBefore ==
  ASSUME NEW s \in Seq(AllParts), NEW t \in Seq(AllParts), WellFormed(s),
         Len(s) <= Len(t), \A i \in 1..Len(s) : t[i] = s[i]
  PROVE  /\ \A i \in 1..Len(s) : t[i][2] = "E" => HasImage(t, i)
         /\ \A m \in 0..(Len(s) - 1) : CommandNext(t, m) => t[m + 1][2] # "image"
         /\ s # <<>> => t[1][2] # "R"
         /\ CommandNext(t, Len(s))
<1>1. Len(s) \in Nat /\ Len(t) \in Nat
  OBVIOUS
<1>2. ASSUME NEW i \in 1..Len(s), t[i][2] = "E"
      PROVE  HasImage(t, i)
  <2>1. HasImage(s, i)
    BY <1>2 DEF WellFormed
  <2>2. i + DataSize <= Len(s)
    BY <2>1 DEF HasImage
  <2>3. i + DataSize <= Len(t)
    BY <1>1, <2>2
  <2>4. ASSUME NEW j \in 1..DataSize
        PROVE  t[i + j][1] = t[i][1] /\ t[i + j][2] = "image" /\ t[i + j][3] = j
    <3>1. i + j \in 1..Len(s)
      BY <1>1, <2>2
    <3>2. t[i + j] = s[i + j] /\ t[i] = s[i]
      BY <3>1
    <3>3. s[i + j][1] = s[i][1] /\ s[i + j][2] = "image" /\ s[i + j][3] = j
      BY <2>1 DEF HasImage
    <3> QED
      BY <3>2, <3>3
  <2> QED
    BY <2>3, <2>4 DEF HasImage
<1>3. ASSUME NEW m \in 0..Len(s), CommandNext(t, m)
      PROVE  CommandNext(s, m)
  <2>1. m # 0 => m \in 1..Len(s)
    BY <1>1
  <2> QED
    BY <1>3, <2>1 DEF CommandNext
<1>4. ASSUME NEW m \in 0..(Len(s) - 1), CommandNext(t, m)
      PROVE  t[m + 1][2] # "image"
  <2>1. m \in 0..Len(s) /\ m + 1 \in 1..Len(s)
    BY <1>1
  <2>2. CommandNext(s, m)
    BY <1>3, <1>4, <2>1
  <2>3. s[m + 1][2] # "image"
    BY <2>2 DEF WellFormed
  <2> QED
    BY <2>1, <2>3
<1>5. s # <<>> => t[1][2] # "R"
  <2> SUFFICES ASSUME s # <<>> PROVE t[1][2] # "R"
    OBVIOUS
  <2>1. 1 \in 1..Len(s)
    OBVIOUS
  <2>2. s[1][2] # "R"
    BY DEF WellFormed
  <2> QED
    BY <2>1, <2>2
<1>6. CommandNext(t, Len(s))
  <2>1. CommandNext(s, Len(s))
    BY DEF WellFormed
  <2>2. Len(s) # 0 => Len(s) \in 1..Len(s)
    BY <1>1
  <2> QED
    BY <2>1, <2>2 DEF CommandNext
<1> QED
  BY <1>2, <1>4, <1>5, <1>6

LEMMA SeenBefore ==
  ASSUME NEW s \in Seq(AllParts), NEW t \in Seq(AllParts),
         Len(s) <= Len(t), \A i \in 1..Len(s) : t[i] = s[i]
  PROVE  Seen(t, Len(s)) = V!ScreensOf(s)
<1>1. Len(s) \in Nat /\ Len(s) <= Len(s)
  OBVIOUS
<1>2. Seen(t, Len(s)) = Seen(s, Len(s))
  BY <1>1, SeenStays
<1> QED
  BY <1>2, SeenAll

\* The two ways in which the stream grows
LEMMA RepeatFormed ==
  ASSUME NEW s \in Seq(AllParts), WellFormed(s), s # <<>>,
         NEW d \in Seq(AllParts), OneRepeat(d)
  PROVE  /\ WellFormed(s \o d)
         /\ V!ScreensOf(s \o d) = Append(V!ScreensOf(s), Last(V!ScreensOf(s)))
<1> DEFINE n == Len(s)
           t == s \o d
<1>1. /\ n \in Nat /\ n # 0 /\ n <= n + 1 /\ n + 1 \in Nat /\ (n + 1) - 1 = n /\ n < n + 1
      /\ t \in Seq(AllParts) /\ Len(t) = n + 1
      /\ \A i \in 1..n : t[i] = s[i]
      /\ t[n + 1] = d[1]
  <2>1. /\ t \in Seq(AllParts) /\ Len(t) = n + Len(d)
        /\ \A i \in 1..n : t[i] = s[i]
        /\ \A k \in 1..Len(d) : t[n + k] = d[k]
    BY Joined
  <2>2. n \in Nat /\ n # 0
    OBVIOUS
  <2>3. Len(d) = 1
    BY DEF OneRepeat
  <2> HIDE DEF n, t
  <2>4. 1 \in 1..Len(d)
    BY <2>3
  <2> QED
    BY <2>1, <2>2, <2>3, <2>4
<1>2. /\ \A i \in 1..n : t[i][2] = "E" => HasImage(t, i)
      /\ \A m \in 0..(n - 1) : CommandNext(t, m) => t[m + 1][2] # "image"
      /\ t[1][2] # "R"
  BY <1>1, FormedBefore
<1>3. Seen(t, n) = V!ScreensOf(s)
  BY <1>1, SeenBefore
<1> HIDE DEF n, t
<1>4. t[n + 1][2] = "R"
  BY <1>1 DEF OneRepeat
<1>5. ASSUME NEW i \in 1..(n + 1), t[i][2] = "E" PROVE HasImage(t, i)
  <2>1. i \in 1..n
    BY <1>1, <1>4, <1>5
  <2> QED
    BY <1>2, <1>5, <2>1
<1>6. ASSUME NEW m \in 0..n, CommandNext(t, m) PROVE t[m + 1][2] # "image"
  <2>1. m = n \/ m \in 0..(n - 1)
    BY <1>1
  <2> QED
    BY <1>2, <1>4, <1>6, <2>1
<1>7. CommandNext(t, n + 1)
  BY <1>4 DEF CommandNext
<1>8. WellFormed(t)
  BY <1>1, <1>2, <1>5, <1>6, <1>7 DEF WellFormed
<1>9. Seen(t, n + 1) = V!ScreensOf(t)
  BY <1>1, SeenAll
<1>10. Seen(t, n + 1) = Append(Seen(t, n), Last(Seen(t, n)))
  BY <1>1, <1>4, CommandSeen
<1> QED
  BY <1>3, <1>8, <1>9, <1>10 DEF t

LEMMA ImageFormed ==
  ASSUME NEW s \in Seq(AllParts), WellFormed(s), NEW d \in Seq(AllParts), NEW frame,
         NewImage(d, frame)
  PROVE  /\ WellFormed(s \o d)
         /\ V!ScreensOf(s \o d) = Append(V!ScreensOf(s), frame)
<1> DEFINE n == Len(s)
           t == s \o d
           e == n + 1
           l == n + DataSize + 1
<1>1. /\ n \in Nat /\ DataSize \in Nat \ {0} /\ l \in Nat /\ n <= l
      /\ t \in Seq(AllParts) /\ Len(t) = l
      /\ \A i \in 1..n : t[i] = s[i]
      /\ t[e][1] = frame /\ t[e][2] = "E"
      /\ \A j \in 1..DataSize :
           t[e + j][1] = frame /\ t[e + j][2] = "image" /\ t[e + j][3] = j
  <2>1. /\ t \in Seq(AllParts) /\ Len(t) = n + Len(d)
        /\ \A i \in 1..n : t[i] = s[i]
        /\ \A k \in 1..Len(d) : t[n + k] = d[k]
    BY Joined
  <2>2. n \in Nat /\ DataSize \in Nat \ {0} /\ l \in Nat /\ n <= l
    OBVIOUS
  <2>3. Len(d) = DataSize + 1
    BY DEF NewImage
  <2> HIDE DEF n, t
  <2>4. t[e][1] = frame /\ t[e][2] = "E"
    <3>1. 1 \in 1..Len(d)
      BY <2>2, <2>3
    <3>2. t[e] = d[1]
      BY <2>1, <3>1
    <3> QED
      BY <3>2 DEF NewImage
  <2>5. ASSUME NEW j \in 1..DataSize
        PROVE  t[e + j][1] = frame /\ t[e + j][2] = "image" /\ t[e + j][3] = j
    <3>1. j + 1 \in 1..Len(d) /\ n + (j + 1) = e + j
      BY <2>2, <2>3
    <3>2. t[e + j] = d[j + 1]
      BY <2>1, <3>1
    <3> QED
      BY <3>2 DEF NewImage
  <2>6. n + Len(d) = l
    BY <2>2, <2>3
  <2> QED
    BY <2>1, <2>2, <2>4, <2>5, <2>6
<1>0. t \in Seq(AllParts) /\ n <= Len(t) /\ \A i \in 1..n : t[i] = s[i]
  <2> HIDE DEF n, t
  <2> QED
    BY <1>1
<1>2. /\ \A i \in 1..n : t[i][2] = "E" => HasImage(t, i)
      /\ \A m \in 0..(n - 1) : CommandNext(t, m) => t[m + 1][2] # "image"
      /\ s # <<>> => t[1][2] # "R"
  BY <1>0, FormedBefore
<1>3. Seen(t, n) = V!ScreensOf(s)
  BY <1>0, SeenBefore
<1>4. s = <<>> => n = 0
  OBVIOUS
<1> HIDE DEF n, t
<1>5. HasImage(t, e)
  <2>1. e + DataSize <= Len(t)
    BY <1>1
  <2>2. \A j \in 1..DataSize :
          t[e + j][1] = t[e][1] /\ t[e + j][2] = "image" /\ t[e + j][3] = j
    BY <1>1
  <2> QED
    BY <2>1, <2>2 DEF HasImage
<1>6. /\ e = n + 1 /\ e \in 1..l /\ e + DataSize = l
      /\ \A i \in 1..l : i \in 1..n \/ i = e \/ (i - e \in 1..DataSize /\ i = e + (i - e))
  BY <1>1
<1> HIDE DEF e, l
<1>7. ASSUME NEW i \in 1..l, i - e \in 1..DataSize, i = e + (i - e)
      PROVE  t[i][1] = frame /\ t[i][2] = "image" /\ t[i][3] = i - e
  <2> DEFINE j == i - e
  <2>1. j \in 1..DataSize /\ i = e + j
    BY <1>7
  <2> HIDE DEF j
  <2>2. t[i][1] = frame /\ t[i][2] = "image" /\ t[i][3] = j
    BY <1>1, <2>1
  <2> QED
    BY <2>2 DEF j
<1>8. ASSUME NEW i \in 1..l, t[i][2] = "E" PROVE HasImage(t, i)
  <2>1. i \in 1..n \/ i = e
    BY <1>6, <1>7, <1>8
  <2> QED
    BY <1>2, <1>5, <1>8, <2>1
<1>9. ASSUME NEW m \in 0..(l - 1), CommandNext(t, m) PROVE t[m + 1][2] # "image"
  <2>1. CASE m \in 0..(n - 1)
    BY <1>2, <1>9, <2>1
  <2>2. CASE m = n
    BY <1>1, <1>6, <2>2
  <2>3. CASE m = e
    <3>1. m # 0 /\ t[m][2] = "E"
      BY <1>1, <1>6, <2>3
    <3> QED
      BY <1>9, <3>1 DEF CommandNext
  <2>4. CASE m - e \in 1..DataSize
    <3>1. m \in 1..l /\ m = e + (m - e) /\ m # 0 /\ m - e # DataSize
      BY <1>1, <1>6, <2>4
    <3>2. t[m][2] = "image" /\ t[m][3] = m - e
      BY <1>7, <2>4, <3>1
    <3> QED
      BY <1>9, <3>1, <3>2 DEF CommandNext
  <2>5. m \in 0..(n - 1) \/ m = n \/ m = e \/ m - e \in 1..DataSize
    BY <1>1, <1>6
  <2> QED
    BY <2>1, <2>2, <2>3, <2>4, <2>5
<1>10. t[1][2] # "R"
  <2>1. CASE n = 0
    BY <1>1, <1>6, <2>1
  <2>2. CASE n # 0
    BY <1>2, <1>4, <2>2
  <2> QED
    BY <2>1, <2>2
<1>11. CommandNext(t, l)
  <2>1. l \in 1..l /\ l - e = DataSize /\ l - e \in 1..DataSize /\ l = e + (l - e)
    BY <1>1, <1>6
  <2>2. t[l][2] = "image" /\ t[l][3] = DataSize
    BY <1>7, <2>1
  <2> QED
    BY <2>2 DEF CommandNext
<1>12. WellFormed(t)
  BY <1>1, <1>8, <1>9, <1>10, <1>11 DEF WellFormed
<1>13. Seen(t, e) = Seen(t, n)
  <2>1. n < Len(t)
    BY <1>1, <1>6
  <2> QED
    BY <1>1, <1>6, <2>1, CommandSeen
<1>14. Seen(t, l) = Append(Seen(t, e), t[e][1])
  <2>1. e \in 1..Len(t)
    BY <1>1, <1>6
  <2>2. Seen(t, e + DataSize) = Append(Seen(t, e), t[e][1])
    BY <1>1, <1>5, <2>1, ImageSeen
  <2> QED
    BY <1>6, <2>2
<1>15. Seen(t, l) = V!ScreensOf(t)
  BY <1>1, SeenAll
<1> QED
  BY <1>1, <1>3, <1>12, <1>13, <1>14, <1>15 DEF t
-----------------------------------------------------------------------------
(* What the backend announces                                               *)

Items == stream[Internal]

\* The number of screens that the stream stands for, and that there is one to repeat
Announced == video_frame_number + (IF pc = "enqueue" THEN 1 ELSE 0)
CommandsInv ==
  /\ WellFormed(Items)
  /\ V!ScreensOf(Items) \in Seq(V!Frames)
  /\ Len(V!ScreensOf(Items)) = Announced
  /\ last_image_data # NoFrame => Announced > 0

LEMMA CommandsInit == Init => CommandsInv
<1> SUFFICES ASSUME Init PROVE CommandsInv
  OBVIOUS
<1>1. Items = <<>> /\ Announced = 0 /\ last_image_data = NoFrame
  BY DEF Init, Items, Announced
<1>2. V!ScreensOf(Items) \in Seq(V!Frames) /\ Len(V!ScreensOf(Items)) = 0
  BY <1>1, ScreensOfNothing, EmptySeq
<1> QED
  BY <1>1, <1>2, WellFormedNothing DEF CommandsInv

LEMMA CommandsKept ==
  ASSUME CommandsInv, UNCHANGED <<stream, video_frame_number, last_image_data>>,
         pc' = "enqueue" <=> pc = "enqueue"
  PROVE  CommandsInv'
<1>1. Items' = Items
  BY DEF Items
<1>2. Announced' = Announced
  BY DEF Announced
<1> QED
  BY <1>1, <1>2 DEF CommandsInv

LEMMA ItemsTyped == ASSUME QueueInv PROVE Items \in Seq(AllParts) /\ Items = stream[Internal]
BY PipeTyped DEF Items

LEMMA RepeatCommanded ==
  ASSUME QueueInv, CommandsInv, EnqueueRepeat
  PROVE  CommandsInv'
<1> DEFINE d == Parts(Command("R"))
           screens == V!ScreensOf(Items)
<1>1. /\ pc = "loop" /\ pc' = "loop" /\ last_image_data # NoFrame
      /\ video_frame_number' = video_frame_number + 1
      /\ UNCHANGED last_image_data
      /\ video_frame_number \in Nat
  BY DEF EnqueueRepeat, Screenshot, NewFrame, QueueInv, TypeOK
<1>2. Items' = Items \o d
  BY DEF EnqueueRepeat, Items
<1>3. d \in Seq(AllParts) /\ OneRepeat(d)
  <2>1. Command("R") \in Buffers
    BY CommandTyped DEF EnqueueRepeat, Screenshot, QueueInv
  <2>2. d = [i \in 1..1 |-> <<NewFrame, "R", i>>]
    BY DEF Parts, Part, Command, Size
  <2>3. Len(d) = 1 /\ d[1][2] = "R"
    BY <2>2
  <2> QED
    BY <2>1, <2>3, PartsTyped DEF OneRepeat
<1>4. /\ Announced = video_frame_number /\ Announced' = Announced + 1
      /\ screens \in Seq(V!Frames) /\ Len(screens) = Announced /\ Announced > 0
      /\ WellFormed(Items)
  BY <1>1 DEF CommandsInv, Announced
<1>5. Items # <<>>
  BY <1>4, ScreensOfNothing
<1> HIDE DEF d, screens
<1>6. WellFormed(Items') /\ V!ScreensOf(Items') = Append(screens, Last(screens))
  BY <1>2, <1>3, <1>4, <1>5, ItemsTyped, RepeatFormed DEF screens
<1>7. Last(screens) \in V!Frames
  <2>1. Len(screens) \in 1..Len(screens)
    BY <1>4
  <2> QED
    BY <1>4, <2>1, ElementOfSeq DEF Last
<1>8. /\ Append(screens, Last(screens)) \in Seq(V!Frames)
      /\ Len(Append(screens, Last(screens))) = Len(screens) + 1
  BY <1>4, <1>7, AppendProperties
<1>9. Announced' > 0 /\ Len(V!ScreensOf(Items')) = Announced'
  BY <1>1, <1>4, <1>6, <1>8
<1> QED
  BY <1>6, <1>8, <1>9 DEF CommandsInv

LEMMA ImageCommanded ==
  ASSUME QueueInv, CommandsInv, EnqueueCommand
  PROVE  CommandsInv'
<1> DEFINE e == Parts(Command("E"))
           i == Parts(Image(NewFrame))
           screens == V!ScreensOf(Items)
<1>1. /\ pc = "loop" /\ pc' = "enqueue" /\ UNCHANGED video_frame_number
      /\ video_frame_number \in Nat
  BY DEF EnqueueCommand, Screenshot, QueueInv, TypeOK
<1>2. Items' = Items \o e \o i
  BY DEF EnqueueCommand, Items
<1>3. NewFrame \in 1..MaxFrames /\ Command("E") \in Buffers /\ Image(NewFrame) \in Buffers
  BY CommandTyped, ImageTyped DEF EnqueueCommand, Screenshot, QueueInv
<1>4. e \in Seq(AllParts) /\ i \in Seq(AllParts)
  BY <1>3, PartsTyped
<1>5. Len(e) = 1 /\ e[1][1] = NewFrame /\ e[1][2] = "E"
  <2>1. e = [k \in 1..1 |-> <<NewFrame, "E", k>>]
    BY DEF Parts, Part, Command, Size
  <2> QED
    BY <2>1
<1>6. /\ Len(i) = DataSize
      /\ \A j \in 1..DataSize : i[j][1] = NewFrame /\ i[j][2] = "image" /\ i[j][3] = j
  <2>1. Len(i) = DataSize
    BY <1>3, PartsTyped, ImageTyped
  <2>2. i = [k \in 1..DataSize |-> <<NewFrame, "image", k>>]
    BY DEF Parts, Part, Image, Size
  <2> QED
    BY <2>1, <2>2
<1> DEFINE d == e \o i
<1> HIDE DEF e, i, screens
<1>7. d \in Seq(AllParts) /\ NewImage(d, NewFrame)
  <2>1. /\ d \in Seq(AllParts) /\ Len(d) = Len(e) + Len(i)
        /\ \A k \in 1..Len(e) : d[k] = e[k]
        /\ \A k \in 1..Len(i) : d[Len(e) + k] = i[k]
    BY <1>4, Joined
  <2> HIDE DEF d
  <2>2. Len(d) = DataSize + 1 /\ d[1] = e[1]
    BY <1>5, <1>6, <2>1
  <2>3. ASSUME NEW j \in 1..DataSize
        PROVE  d[j + 1][1] = NewFrame /\ d[j + 1][2] = "image" /\ d[j + 1][3] = j
    <3>1. d[1 + j] = i[j] /\ 1 + j = j + 1
      BY <1>5, <1>6, <2>1
    <3> QED
      BY <1>6, <3>1
  <2> QED
    BY <1>5, <2>1, <2>2, <2>3 DEF NewImage
<1>8. Items' = Items \o d
  <2>1. (Items \o e) \o i = Items \o (e \o i)
    BY <1>4, ItemsTyped, ConcatAssociative
  <2> QED
    BY <1>2, <2>1
<1>9. /\ Announced = video_frame_number /\ Announced' = Announced + 1
      /\ screens \in Seq(V!Frames) /\ Len(screens) = Announced /\ WellFormed(Items)
  BY <1>1 DEF CommandsInv, Announced, screens
<1> HIDE DEF d
<1>10. WellFormed(Items') /\ V!ScreensOf(Items') = Append(screens, NewFrame)
  BY <1>7, <1>8, <1>9, ItemsTyped, ImageFormed DEF screens
<1>11. /\ Append(screens, NewFrame) \in Seq(V!Frames)
       /\ Len(Append(screens, NewFrame)) = Len(screens) + 1
  <2>1. NewFrame \in V!Frames
    BY <1>3 DEF V!Frames
  <2> QED
    BY <1>9, <2>1, AppendProperties
<1>12. Announced' > 0 /\ Len(V!ScreensOf(Items')) = Announced'
  BY <1>1, <1>9, <1>10, <1>11
<1> QED
  BY <1>10, <1>11, <1>12 DEF CommandsInv

LEMMA ImageQueued ==
  ASSUME QueueInv, CommandsInv, EnqueueImage
  PROVE  CommandsInv'
<1>1. Items' = Items /\ UNCHANGED last_image_data
  BY DEF EnqueueImage, Items
<1>2. Announced' = Announced
  BY DEF EnqueueImage, Announced, NewFrame, QueueInv, TypeOK
<1> QED
  BY <1>1, <1>2 DEF CommandsInv

LEMMA NextCommanded ==
  ASSUME QueueInv, CommandsInv, Next, Undisturbed'
  PROVE  CommandsInv'
<1> USE DEF queueVars, frameVars, stopVars, outsideVars
<1>1. CASE StopVm \/ Sigterm \/ PassingTimesOut
  <2>0. ASSUME Sigterm PROVE ~InUpdates
    BY <2>0 DEF Sigterm, Undisturbed, QueueInv, TypeOK
  <2>1. Stop /\ pc \notin {"enqueue", "account"}
    BY <1>1, <2>0 DEF StopVm, Sigterm, PassingTimesOut
  <2>2. UNCHANGED <<stream, video_frame_number, last_image_data>> /\ pc' # "enqueue"
    BY <2>1 DEF Stop
  <2> QED
    BY <2>1, <2>2, CommandsKept
<1>2. CASE AllPassed \/ EncodersEnd \/ Account
  <2>1. /\ UNCHANGED <<stream, video_frame_number, last_image_data>>
        /\ pc # "enqueue" /\ pc' # "enqueue"
    BY <1>2 DEF AllPassed, EncodersEnd, Account
  <2> QED
    BY <2>1, CommandsKept
<1>3. ASSUME NEW p \in Pipes, WriteInLoop(p) \/ WriteRemaining(p) \/ EncoderHangs(p)
      PROVE  CommandsInv'
  <2>1. /\ UNCHANGED <<stream, video_frame_number, last_image_data>>
        /\ pc' = "enqueue" <=> pc = "enqueue"
    BY <1>3 DEF WriteInLoop, WriteRemaining, Syswrite, EncoderHangs
  <2> QED
    BY <2>1, CommandsKept
<1> QED
  BY <1>1, <1>2, <1>3, RepeatCommanded, ImageCommanded, ImageQueued DEF Next

LEMMA PipelineCommanded ==
  ASSUME QueueInv, CommandsInv, PipelineNext, Undisturbed'
  PROVE  CommandsInv'
<1> USE DEF queueVars, frameVars, stopVars, outsideVars
<1>1. CASE EncoderSteps \/ OthersStep
  <2>1. /\ UNCHANGED <<stream, video_frame_number, last_image_data>>
        /\ pc' = "enqueue" <=> pc = "enqueue"
    BY <1>1 DEF EncoderSteps, OthersStep, vars
  <2> QED
    BY <2>1, CommandsKept
<1>2. CASE NotAccepting
  <2>1. Stop /\ pc \notin {"enqueue", "account"}
    BY <1>2 DEF NotAccepting
  <2>2. UNCHANGED <<stream, video_frame_number, last_image_data>> /\ pc' # "enqueue"
    BY <2>1 DEF Stop
  <2> QED
    BY <2>1, <2>2, CommandsKept
<1>3. CASE BackendSteps
  BY <1>3, NextCommanded DEF BackendSteps
<1> QED
  BY <1>1, <1>2, <1>3 DEF PipelineNext

LEMMA CommandsStutter ==
  ASSUME CommandsInv, UNCHANGED pipelineVars
  PROVE  CommandsInv'
BY CommandsKept DEF pipelineVars, vars, queueVars, frameVars
-----------------------------------------------------------------------------
(* What the encoder makes of it                                             *)

\* What the encoder has read
Screens == Seen(Items, consumed)

\* It has not seen an image yet, ...
NothingRead == consumed = 0 /\ repeat = -1 /\ video = <<>>

\* ... or the last one is in the planes and is still to be written.
LastPending ==
  /\ consumed > 0
  /\ repeat \in 0..(keyframe_frequency - 1)
  /\ Screens # <<>>
  /\ ycbcr = Last(Screens)
  /\ last_frame_image = ycbcr /\ ycbcr # V!Nothing
  /\ V!Shown(video) \o V!Pending = Screens

Encoded ==
  /\ V!Shown(video) \in Seq(V!Frames)
  /\ Screens \in Seq(V!Frames)
  /\ encoder_pc = "start" => NothingRead
  /\ encoder_pc = "line" => NothingRead \/ LastPending
  /\ encoder_pc \in {"png", "link"} => LastPending
  /\ encoder_pc = "data" => repeat = -1 /\ V!Shown(video) = Screens
  /\ encoder_pc = "done" /\ consumed > 0 => V!Shown(video) = Screens

EncoderInv ==
  /\ EncoderTypeOK
  /\ encoder_pc \in {"start", "line", "png", "link"} => CommandNext(Items, consumed)
  /\ encoder_pc = "data" => consumed > 0 /\ Items[consumed][2] = "E"
  /\ encoder_pc = "done" => PipeIsClosed /\ consumed = Len(received[Internal])
  /\ encoder_pc = "link" => ~last_frame_converted
  /\ last_frame_converted => last_png = last_frame_image
  /\ output_video => Encoded

\* The encoder reads what the backend announced.
LEMMA WhatIsRead ==
  ASSUME QueueInv, StreamInv
  PROVE  /\ received[Internal] \in Seq(AllParts) /\ Len(received[Internal]) <= Len(Items)
         /\ \A k \in 1..Len(received[Internal]) : received[Internal][k] = Items[k]
<1> DEFINE r == received[Internal]
<1>1. r \in Seq(AllParts) /\ Items \in Seq(AllParts)
  BY PipeTyped, ItemsTyped
<1>2. IsPrefix(r, Items)
  BY StreamIntactInv DEF StreamIntact, Items
<1> HIDE DEF r
<1>3. Len(r) \in Nat /\ Len(r) <= Len(r) /\ Len(r) <= Len(Items)
  BY <1>1, <1>2 DEF IsPrefix
<1>4. SubSeq(r, 1, Len(r)) = SubSeq(Items, 1, Len(r))
  BY <1>2 DEF IsPrefix
<1>5. \A k \in 1..Len(r) : SubSeq(r, 1, Len(r))[k] = r[k]
  BY <1>1, <1>3, FirstItems
<1>6. \A k \in 1..Len(r) : SubSeq(Items, 1, Len(r))[k] = Items[k]
  BY <1>1, <1>3, FirstItems
<1>7. \A k \in 1..Len(r) : r[k] = Items[k]
  BY <1>4, <1>5, <1>6
<1> QED
  BY <1>1, <1>3, <1>7 DEF r

LEMMA EncoderInit ==
  ASSUME PipelineInit
  PROVE  EncoderInv
<1>1. Items = <<>> /\ received[Internal] = <<>>
  BY DEF PipelineInit, Init, Items
<1>2. /\ encoder_pc = "start" /\ consumed = 0 /\ repeat = -1 /\ video = <<>> /\ ycbcr = 0
      /\ output_video \in BOOLEAN /\ last_frame_image = 0 /\ last_frame_converted = FALSE
      /\ last_png = 0 /\ live_log = FALSE /\ toggles = 0 /\ image = 0
  BY OptionsAssumption DEF PipelineInit, V!Init, V!Nothing, OptionsAssumption
<1>3. EncoderTypeOK
  <2>1. video \in Seq(V!Packets) /\ 0 \in V!Frames /\ Len(received[Internal]) = 0
    BY <1>1, <1>2, EmptySeq DEF V!Frames
  <2>2. 0 \in 0..MaxToggles
    BY OptionsAssumption DEF OptionsAssumption
  <2>3. consumed \in 0..Len(received[Internal]) /\ repeat \in Int /\ repeat >= -1
    BY <1>2, <2>1
  <2>4. output_video \in BOOLEAN /\ last_frame_converted \in BOOLEAN /\ live_log \in BOOLEAN
    BY <1>2
  <2>5. ycbcr \in V!Frames /\ last_frame_image \in V!Frames /\ last_png \in V!Frames
        /\ image \in V!Frames /\ toggles \in 0..MaxToggles
    BY <1>2, <2>1, <2>2
  <2>6. encoder_pc \in {"start", "line", "data", "png", "link", "done", "failed", "killed"}
    BY <1>2
  <2> QED
    BY <2>1, <2>3, <2>4, <2>5, <2>6 DEF EncoderTypeOK, V!TypeOK
<1>4. Screens = <<>> /\ V!Shown(video) = <<>> /\ <<>> \in Seq(V!Frames)
  <2>1. Items \in Seq(AllParts)
    BY <1>1, EmptySeq
  <2> QED
    BY <1>2, <2>1, SeenNothing, ShownNothing, EmptySeq DEF Screens
<1>5. Encoded
  BY <1>2, <1>4 DEF Encoded, NothingRead
<1> QED
  BY <1>2, <1>3, <1>5 DEF EncoderInv, CommandNext

\* A packet is written.
LEMMA FramesWritten ==
  ASSUME EncoderTypeOK, V!Shown(video) \in Seq(V!Frames), V!WriteFrame
  PROVE  /\ V!DupCount(repeat) \in Nat
         /\ video' \in Seq(V!Packets)
         /\ V!Shown(video') = V!Shown(video) \o Copies(ycbcr, V!DupCount(repeat) + 1)
         /\ V!Shown(video') \in Seq(V!Frames)
<1>1. V!DupCount(repeat) \in Nat
  BY KeyframeAssumption DEF V!DupCount, KeyframeAssumption
<1>2. video \in Seq(V!Packets) /\ ycbcr \in V!Frames
  BY DEF EncoderTypeOK, V!TypeOK
<1>3. video' = Append(video, [frame |-> ycbcr, dup |-> V!DupCount(repeat)])
  BY DEF V!WriteFrame
<1> QED
  BY <1>1, <1>2, <1>3, ShownMore

LEMMA PacketWritten ==
  ASSUME EncoderTypeOK, V!WriteFrame
  PROVE  video' \in Seq(V!Packets)
<1>1. V!DupCount(repeat) \in Nat
  BY KeyframeAssumption DEF V!DupCount, KeyframeAssumption
<1>2. [frame |-> ycbcr, dup |-> V!DupCount(repeat)] \in V!Packets /\ video \in Seq(V!Packets)
  BY <1>1 DEF EncoderTypeOK, V!TypeOK, V!Packets
<1> QED
  BY <1>2, AppendProperties DEF V!WriteFrame

LEMMA EncoderTyped ==
  ASSUME QueueInv, EncoderTypeOK, V!Step, UNCHANGED received
  PROVE  EncoderTypeOK'
<1> USE DEF V!videoVars, V!pngVars, V!outsideVars
<1> DEFINE r == received[Internal]
<1>1. r \in Seq(AllParts) /\ Len(r) \in Nat
  BY PipeTyped
<1>2. \A k \in 1..Len(r) : r[k][1] \in V!Frames
  <2> SUFFICES ASSUME NEW k \in 1..Len(r) PROVE r[k][1] \in V!Frames
    OBVIOUS
  <2>1. r[k] \in AllParts
    BY <1>1
  <2> QED
    BY <2>1 DEF AllParts, V!Frames
<1>3. received' = received
  OBVIOUS
<1>4. /\ encoder_pc \in {"start", "line", "data", "png", "link", "done", "failed", "killed"}
      /\ consumed \in 0..Len(r)
      /\ output_video \in BOOLEAN
      /\ repeat \in Int /\ repeat >= -1
      /\ ycbcr \in V!Frames
      /\ video \in Seq(V!Packets)
      /\ last_frame_image \in V!Frames
      /\ last_frame_converted \in BOOLEAN
      /\ last_png \in V!Frames
      /\ live_log \in BOOLEAN
      /\ toggles \in 0..MaxToggles
      /\ image \in V!Frames
  BY DEF EncoderTypeOK, V!TypeOK
<1> SUFFICES
      /\ encoder_pc' \in {"start", "line", "data", "png", "link", "done", "failed", "killed"}
      /\ consumed' \in 0..Len(r)
      /\ output_video' \in BOOLEAN
      /\ repeat' \in Int /\ repeat' >= -1
      /\ ycbcr' \in V!Frames
      /\ video' \in Seq(V!Packets)
      /\ last_frame_image' \in V!Frames
      /\ last_frame_converted' \in BOOLEAN
      /\ last_png' \in V!Frames
      /\ live_log' \in BOOLEAN
      /\ toggles' \in 0..MaxToggles
      /\ image' \in V!Frames
  BY <1>3 DEF EncoderTypeOK, V!TypeOK
<1>5. 0 \in V!Frames
  BY DEF V!Frames
<1>6. CASE V!ReadLine
  <2>1. consumed < Len(r) /\ consumed' = consumed + 1
    BY <1>6 DEF V!ReadLine
  <2>2. video' \in Seq(V!Packets)
    BY <1>4, <1>6, PacketWritten DEF V!ReadLine
  <2>3. repeat' \in Int /\ repeat' >= -1
    BY <1>4, <1>6 DEF V!ReadLine, V!RepeatAfter
  <2> QED
    BY <1>1, <1>4, <1>6, <2>1, <2>2, <2>3 DEF V!ReadLine
<1>7. CASE V!ReadImage
  <2>1. consumed + DataSize <= Len(r) /\ consumed' = consumed + DataSize
    BY <1>7 DEF V!ReadImage
  <2>2. consumed' \in 0..Len(r) /\ consumed + 1 \in 1..Len(r)
    BY <1>1, <1>4, <2>1
  <2>3. r[consumed + 1][1] \in V!Frames
    BY <1>2, <2>2
  <2>4. last_frame_image' \in V!Frames /\ ycbcr' \in V!Frames
    BY <1>4, <1>7, <2>3 DEF V!ReadImage
  <2>5. /\ encoder_pc' = "png" /\ repeat' = 0 /\ last_frame_converted' = FALSE
        /\ UNCHANGED <<output_video, video, last_png, live_log, toggles, image>>
    BY <1>7 DEF V!ReadImage, V!Converted
  <2>6. last_frame_converted' \in BOOLEAN /\ output_video' \in BOOLEAN /\ live_log' \in BOOLEAN
    BY <1>4, <2>5
  <2> QED
    BY <1>4, <2>2, <2>4, <2>5, <2>6
<1>8. CASE V!WritePng \/ V!LinkPng
  BY <1>4, <1>5, <1>8 DEF V!WritePng, V!LinkPng, V!Nothing
<1>9. CASE V!Finish
  <2>1. video' \in Seq(V!Packets)
    BY <1>4, <1>9, PacketWritten DEF V!Finish
  <2> QED
    BY <1>4, <1>9, <2>1 DEF V!Finish
<1>10. CASE V!Start \/ V!StartFails \/ V!EncodingError \/ V!DataEnds \/ V!NoPng
  BY <1>4, <1>10 DEF V!Start, V!StartFails, V!EncodingError, V!DataEnds, V!NoPng
<1> QED
  BY <1>6, <1>7, <1>8, <1>9, <1>10 DEF V!Step

\* What is pending is written in full.
LEMMA PendingWritten ==
  ASSUME EncoderTypeOK, LastPending, V!Shown(video) \in Seq(V!Frames), V!WriteFrame
  PROVE  V!Shown(video') = Screens /\ V!Shown(video') \in Seq(V!Frames)
<1>1. V!DupCount(repeat) = repeat
  BY DEF LastPending, V!DupCount
<1>2. V!Pending = Copies(ycbcr, repeat + 1)
  BY DEF V!Pending, Copies
<1>3. V!Shown(video') = V!Shown(video) \o Copies(ycbcr, V!DupCount(repeat) + 1)
      /\ V!Shown(video') \in Seq(V!Frames)
  BY FramesWritten
<1>4. V!Shown(video) \o V!Pending = Screens
  BY DEF LastPending
<1> QED
  BY <1>1, <1>2, <1>3, <1>4

LEMMA NothingShown ==
  ASSUME QueueInv, NothingRead
  PROVE  Screens = <<>> /\ V!Shown(video) = <<>> /\ <<>> \in Seq(V!Frames)
BY ItemsTyped, SeenNothing, ShownNothing, EmptySeq DEF NothingRead, Screens

\* The item that the encoder reads as a command is one.
LEMMA CommandRead ==
  ASSUME QueueInv, StreamInv, CommandsInv, EncoderInv, V!ReadLine
  PROVE  /\ consumed \in Nat /\ consumed < Len(Items) /\ consumed' = consumed + 1
         /\ received[Internal][consumed + 1] = Items[consumed + 1]
         /\ Items[consumed + 1][2] \in {"E", "R"}
         /\ consumed = 0 => Items[consumed + 1][2] = "E"
<1>1. /\ consumed < Len(received[Internal]) /\ consumed' = consumed + 1
      /\ encoder_pc = "line" /\ received[Internal][consumed + 1][2] \in {"E", "R"}
  BY DEF V!ReadLine
<1>2. consumed \in 0..Len(received[Internal])
  BY DEF EncoderInv, EncoderTypeOK, V!TypeOK
<1>3. /\ received[Internal] \in Seq(AllParts) /\ Len(received[Internal]) <= Len(Items)
      /\ \A k \in 1..Len(received[Internal]) : received[Internal][k] = Items[k]
      /\ Items \in Seq(AllParts)
  BY WhatIsRead, ItemsTyped
<1>4. Len(received[Internal]) \in Nat /\ Len(Items) \in Nat
  BY <1>3
<1>5. consumed \in Nat /\ consumed < Len(Items) /\ consumed + 1 \in 1..Len(received[Internal])
  BY <1>1, <1>2, <1>3, <1>4
<1>6. received[Internal][consumed + 1] = Items[consumed + 1]
  BY <1>3, <1>5
<1>7. consumed = 0 => Items[consumed + 1][2] # "R"
  <2> SUFFICES ASSUME consumed = 0 PROVE Items[consumed + 1][2] # "R"
    OBVIOUS
  <2>1. Items # <<>> /\ consumed + 1 = 1
    BY <1>5
  <2>2. Items # <<>> => Items[1][2] # "R"
    BY DEF CommandsInv, WellFormed
  <2> QED
    BY <2>1, <2>2
<1> QED
  BY <1>1, <1>5, <1>6, <1>7

\* A command: what is pending is written, or there is one more of it.
LEMMA LineEncoded ==
  ASSUME QueueInv, StreamInv, CommandsInv, EncoderInv, V!ReadLine, UNCHANGED stream,
         output_video
  PROVE  Encoded'
<1> USE DEF V!videoVars, V!pngVars, V!outsideVars
<1> DEFINE kind == Items[consumed + 1][2]
<1>1. /\ consumed \in Nat /\ consumed < Len(Items) /\ consumed' = consumed + 1
      /\ received[Internal][consumed + 1][2] = kind
      /\ kind \in {"E", "R"} /\ (consumed = 0 => kind = "E")
  BY CommandRead
<1>2. Items' = Items /\ Screens' = Seen(Items, consumed + 1) /\ Items \in Seq(AllParts)
  BY <1>1, ItemsTyped DEF Items, Screens
<1>3. /\ kind = "E" => Screens' = Screens
      /\ kind = "R" => Screens' = Append(Screens, Last(Screens))
  BY <1>1, <1>2, CommandSeen DEF Screens
<1>4. /\ encoder_pc = "line"
      /\ kind = "E" => encoder_pc' = "data" /\ repeat' = V!RepeatAfter(kind)
      /\ kind = "R" => encoder_pc' = "png" /\ repeat' = V!RepeatAfter(kind) + 1
      /\ IF V!MustWrite(kind) THEN V!WriteFrame ELSE UNCHANGED video
      /\ UNCHANGED <<ycbcr, last_frame_image>>
  BY <1>1 DEF V!ReadLine
<1> HIDE DEF kind
<1>5. /\ EncoderTypeOK
      /\ NothingRead \/ LastPending
      /\ V!Shown(video) \in Seq(V!Frames) /\ Screens \in Seq(V!Frames)
      /\ repeat \in Int /\ ycbcr \in V!Frames
  BY <1>4 DEF EncoderInv, Encoded, EncoderTypeOK, V!TypeOK
<1>6. CASE kind = "E" /\ NothingRead
  <2>1. ~V!MustWrite(kind) /\ V!RepeatAfter(kind) = -1
    BY <1>5, <1>6 DEF V!MustWrite, V!RepeatAfter, NothingRead
  <2>2. repeat' = -1 /\ video' = video /\ Screens' = Screens /\ encoder_pc' = "data"
    BY <1>3, <1>4, <1>6, <2>1
  <2>3. V!Shown(video') = Screens' /\ V!Shown(video') \in Seq(V!Frames)
        /\ Screens' \in Seq(V!Frames)
    BY <1>5, <1>6, <2>2, NothingShown
  <2> QED
    BY <2>2, <2>3 DEF Encoded
<1>7. CASE kind = "E" /\ LastPending
  <2>1. V!MustWrite(kind) /\ V!RepeatAfter(kind) = -1
    BY <1>5, <1>7 DEF V!MustWrite, V!RepeatAfter, LastPending
  <2>2. repeat' = -1 /\ V!WriteFrame /\ Screens' = Screens /\ encoder_pc' = "data"
    BY <1>3, <1>4, <1>7, <2>1
  <2>3. V!Shown(video') = Screens' /\ V!Shown(video') \in Seq(V!Frames)
        /\ Screens' \in Seq(V!Frames)
    BY <1>5, <1>7, <2>2, PendingWritten
  <2> QED
    BY <2>2, <2>3 DEF Encoded
<1>8. CASE kind = "R" /\ LastPending
  <2>1. /\ Screens # <<>> /\ ycbcr = Last(Screens) /\ last_frame_image = ycbcr
        /\ ycbcr # V!Nothing
        /\ repeat \in 0..(keyframe_frequency - 1)
        /\ V!Shown(video) \o Copies(ycbcr, repeat + 1) = Screens
    BY <1>8 DEF LastPending, V!Pending, Copies
  <2>2. Screens' = Append(Screens, ycbcr) /\ encoder_pc' = "png"
    BY <1>3, <1>4, <1>8, <2>1
  <2>3. Screens' \in Seq(V!Frames) /\ Screens' # <<>> /\ Last(Screens') = ycbcr
    BY <1>5, <2>2, AppendLast
  <2>4. V!MustWrite(kind) <=> repeat >= keyframe_frequency - 1
    BY <1>5, <1>8, <2>1 DEF V!MustWrite
  <2>5. /\ repeat' \in 0..(keyframe_frequency - 1)
        /\ V!Shown(video') \o Copies(ycbcr, repeat' + 1) = Screens'
        /\ V!Shown(video') \in Seq(V!Frames)
    <3>1. CASE repeat >= keyframe_frequency - 1
      <4>1. repeat' = 0 /\ V!WriteFrame
        BY <1>4, <1>8, <2>4, <3>1 DEF V!RepeatAfter
      <4>2. V!Shown(video') = Screens /\ V!Shown(video') \in Seq(V!Frames)
        BY <1>5, <1>8, <4>1, PendingWritten
      <4>3. Screens \o Copies(ycbcr, 1) = Append(Screens, ycbcr)
        BY <1>5, OneCopy
      <4>4. repeat' + 1 = 1 /\ repeat' \in 0..(keyframe_frequency - 1)
        BY <4>1, KeyframeAssumption DEF KeyframeAssumption
      <4> QED
        BY <2>2, <4>2, <4>3, <4>4
    <3>2. CASE ~(repeat >= keyframe_frequency - 1)
      <4>1. repeat' = repeat + 1 /\ video' = video
        BY <1>4, <1>8, <2>4, <3>2 DEF V!RepeatAfter
      <4>2. repeat' \in 0..(keyframe_frequency - 1) /\ repeat' \in Nat
        BY <2>1, <3>2, <4>1, KeyframeAssumption DEF KeyframeAssumption
      <4>3. V!Shown(video) \o Copies(ycbcr, repeat' + 1)
              = Append(V!Shown(video) \o Copies(ycbcr, repeat'), ycbcr)
        BY <1>5, <4>2, OneMore
      <4> QED
        BY <1>5, <2>1, <2>2, <4>1, <4>2, <4>3
    <3> QED
      BY <3>1, <3>2
  <2>6. LastPending'
    <3>1. V!Pending' = Copies(ycbcr, repeat' + 1)
      BY <1>4 DEF V!Pending, Copies
    <3>2. consumed' > 0
      BY <1>1
    <3> QED
      BY <1>4, <2>1, <2>3, <2>5, <3>1, <3>2 DEF LastPending
  <2> QED
    BY <2>2, <2>3, <2>5, <2>6 DEF Encoded
<1>9. ~(kind = "R" /\ NothingRead)
  BY <1>1 DEF NothingRead
<1> QED
  BY <1>1, <1>5, <1>6, <1>7, <1>8, <1>9

LEMMA LineRead ==
  ASSUME QueueInv, StreamInv, CommandsInv, EncoderInv, V!ReadLine,
         UNCHANGED <<pc, received, stream>>
  PROVE  EncoderInv'
<1> USE DEF V!videoVars, V!pngVars, V!outsideVars
<1>1. EncoderTypeOK'
  BY EncoderTyped DEF EncoderInv, V!Step
<1>2. /\ consumed \in Nat /\ consumed' = consumed + 1
      /\ received[Internal][consumed + 1] = Items[consumed + 1]
  BY CommandRead
<1>3. Items' = Items
  BY DEF Items
<1>4. /\ output_video' = output_video
      /\ UNCHANGED <<last_frame_converted, last_png, last_frame_image>>
      /\ \/ encoder_pc' = "data" /\ Items[consumed + 1][2] = "E"
         \/ encoder_pc' = "png" /\ Items[consumed + 1][2] = "R"
  BY <1>2 DEF V!ReadLine
<1>5. encoder_pc' = "png" => CommandNext(Items', consumed')
  BY <1>2, <1>3, <1>4 DEF CommandNext
<1>6. encoder_pc' = "data" => consumed' > 0 /\ Items'[consumed'][2] = "E"
  BY <1>2, <1>3, <1>4
<1>7. output_video' => Encoded'
  BY <1>4, LineEncoded
<1>8. last_frame_converted' => last_png' = last_frame_image'
  BY <1>4 DEF EncoderInv
<1> QED
  BY <1>1, <1>4, <1>5, <1>6, <1>7, <1>8 DEF EncoderInv

\* An image: it is the last one now, and nothing else is pending.
LEMMA ImageRead ==
  ASSUME QueueInv, StreamInv, CommandsInv, EncoderInv, V!ReadImage,
         UNCHANGED <<pc, received, stream>>
  PROVE  EncoderInv'
<1> USE DEF V!videoVars, V!pngVars, V!outsideVars
<1> DEFINE r == received[Internal]
           n == consumed
           frame == Items[n][1]
<1>1. EncoderTypeOK'
  BY EncoderTyped DEF EncoderInv, V!Step
<1>2. /\ r \in Seq(AllParts) /\ Len(r) <= Len(Items) /\ Items \in Seq(AllParts)
      /\ \A k \in 1..Len(r) : r[k] = Items[k]
  BY WhatIsRead, ItemsTyped
<1>3. /\ encoder_pc = "data" /\ n + DataSize <= Len(r) /\ consumed' = n + DataSize
      /\ n \in 0..Len(r) /\ n > 0 /\ Items[n][2] = "E"
      /\ encoder_pc' = "png" /\ last_frame_converted' = FALSE /\ repeat' = 0
      /\ last_frame_image' = IF output_video \/ live_log THEN r[n + 1][1] ELSE last_frame_image
      /\ ycbcr' = IF output_video THEN r[n + 1][1] ELSE ycbcr
      /\ UNCHANGED <<output_video, video, last_png>>
  BY DEF V!ReadImage, V!Converted, EncoderInv, EncoderTypeOK, V!TypeOK
<1>4. /\ n \in Nat /\ Len(r) \in Nat /\ n + 1 \in 1..Len(r) /\ n \in 1..Len(Items)
      /\ n + DataSize <= Len(Items) /\ n + DataSize > 0 /\ DataSize \in 1..DataSize
      /\ 1 \in 1..DataSize
  <2>1. Len(r) \in Nat /\ Len(Items) \in Nat
    BY <1>2
  <2> HIDE DEF r
  <2> QED
    BY <1>2, <1>3, <2>1
<1>5. HasImage(Items, n)
  BY <1>3, <1>4 DEF CommandsInv, WellFormed
<1>6. r[n + 1][1] = frame
  <2>1. r[n + 1] = Items[n + 1]
    BY <1>2, <1>4
  <2>2. Items[n + 1][1] = frame
    BY <1>4, <1>5 DEF HasImage
  <2> QED
    BY <2>1, <2>2
<1>7. CommandNext(Items, n + DataSize)
  BY <1>4, <1>5 DEF HasImage, CommandNext
<1>8. Items' = Items
  BY DEF Items
<1>9. ASSUME output_video PROVE Encoded'
  <2>1. Screens' = Append(Screens, frame)
    <3>1. Seen(Items, n + DataSize) = Append(Seen(Items, n), frame)
      BY <1>2, <1>3, <1>4, <1>5, ImageSeen
    <3> QED
      BY <1>3, <1>8, <3>1 DEF Screens
  <2>2. ycbcr' = frame /\ last_frame_image' = frame /\ frame \in V!Frames
    BY <1>1, <1>3, <1>6, <1>9 DEF EncoderTypeOK, V!TypeOK
  <2>3. V!Shown(video) = Screens /\ Screens \in Seq(V!Frames)
    BY <1>3, <1>9 DEF EncoderInv, Encoded
  <2>10. frame # V!Nothing
    <3>1. Items[n] \in AllParts
      BY <1>2, <1>4, ElementOfSeq
    <3>2. frame \in 1..MaxFrames
      BY <3>1 DEF AllParts
    <3> HIDE DEF frame
    <3> QED
      BY <3>2 DEF V!Nothing
  <2> HIDE DEF frame
  <2>4. Screens' \in Seq(V!Frames) /\ Screens' # <<>> /\ Last(Screens') = frame
    BY <2>1, <2>2, <2>3, AppendLast
  <2>5. V!Pending' = Copies(frame, 1)
    BY <1>3, <2>2 DEF V!Pending, Copies
  <2>6. Screens \o Copies(frame, 1) = Append(Screens, frame)
    BY <2>2, <2>3, OneCopy
  <2>7. V!Shown(video') = Screens /\ V!Shown(video') \in Seq(V!Frames)
    BY <1>3, <2>3
  <2>8. repeat' \in 0..(keyframe_frequency - 1) /\ consumed' > 0
    BY <1>3, <1>4, KeyframeAssumption DEF KeyframeAssumption
  <2>9. LastPending'
    BY <2>1, <2>2, <2>4, <2>5, <2>6, <2>7, <2>8, <2>10 DEF LastPending
  <2> QED
    BY <1>3, <2>4, <2>7, <2>9 DEF Encoded
<1>10. CommandNext(Items', consumed')
  BY <1>3, <1>7, <1>8
<1> QED
  BY <1>1, <1>3, <1>9, <1>10 DEF EncoderInv

\* The picture for the live log
LEMMA PngWritten ==
  ASSUME QueueInv, EncoderInv, V!WritePng \/ V!LinkPng \/ V!NoPng \/ V!Start,
         UNCHANGED <<pc, received, stream>>
  PROVE  EncoderInv'
<1> USE DEF V!videoVars, V!pngVars, V!outsideVars
<1>1. EncoderTypeOK'
  BY EncoderTyped DEF EncoderInv, V!Step
<1>2. Items' = Items
  BY DEF Items
<1>3. UNCHANGED <<consumed, output_video, repeat, ycbcr, video, last_frame_image>>
  BY DEF V!WritePng, V!LinkPng, V!NoPng, V!Start
<1>4. \/ encoder_pc \in {"png", "link"} /\ encoder_pc' \in {"link", "line"}
      \/ encoder_pc = "start" /\ encoder_pc' = "line"
  BY DEF V!WritePng, V!LinkPng, V!NoPng, V!Start
<1>5. /\ last_frame_converted' => last_png' = last_frame_image'
      /\ encoder_pc' = "link" => ~last_frame_converted'
  BY DEF V!WritePng, V!LinkPng, V!NoPng, V!Start, V!PngIsDue, EncoderInv
<1>6. CommandNext(Items', consumed')
  BY <1>2, <1>3, <1>4 DEF EncoderInv
<1>7. ASSUME output_video PROVE Encoded'
  <2>1. Screens' = Screens /\ V!Pending' = V!Pending
    BY <1>2, <1>3 DEF Screens, V!Pending
  <2>2. (NothingRead => NothingRead') /\ (LastPending => LastPending')
    BY <1>3, <2>1 DEF NothingRead, LastPending
  <2>3. encoder_pc = "start" => NothingRead
    BY <1>7 DEF EncoderInv, Encoded
  <2>4. encoder_pc \in {"png", "link"} => LastPending
    BY <1>7 DEF EncoderInv, Encoded
  <2>5. V!Shown(video') \in Seq(V!Frames) /\ Screens' \in Seq(V!Frames)
    BY <1>3, <1>7, <2>1 DEF EncoderInv, Encoded
  <2> QED
    BY <1>4, <2>2, <2>3, <2>4, <2>5 DEF Encoded
<1> QED
  BY <1>1, <1>3, <1>4, <1>5, <1>6, <1>7 DEF EncoderInv

\* The last frame is sent.
LEMMA EncoderFinishes ==
  ASSUME QueueInv, EncoderInv, V!Finish, UNCHANGED <<pc, received, stream>>
  PROVE  EncoderInv'
<1> USE DEF V!videoVars, V!pngVars, V!outsideVars
<1>1. EncoderTypeOK'
  BY EncoderTyped DEF EncoderInv, V!Step
<1>2. /\ encoder_pc = "line" /\ encoder_pc' = "done"
      /\ PipeIsClosed /\ consumed = Len(received[Internal])
      /\ output_video => V!WriteFrame
      /\ UNCHANGED <<consumed, output_video, last_frame_image, last_frame_converted, last_png>>
  BY DEF V!Finish
<1>3. ASSUME output_video PROVE Encoded'
  <2>1. /\ NothingRead \/ LastPending
        /\ V!Shown(video) \in Seq(V!Frames) /\ Screens \in Seq(V!Frames) /\ EncoderTypeOK
    BY <1>2, <1>3 DEF EncoderInv, Encoded
  <2>2. Screens' = Screens
    BY <1>2 DEF Screens, Items
  <2>3. V!Shown(video') \in Seq(V!Frames)
    BY <1>2, <1>3, <2>1, FramesWritten
  <2>4. consumed > 0 => V!Shown(video') = Screens
    BY <1>2, <1>3, <2>1, PendingWritten DEF NothingRead
  <2> QED
    BY <1>2, <2>1, <2>2, <2>3, <2>4 DEF Encoded
<1>4. PipeIsClosed' /\ consumed' = Len(received'[Internal])
  BY <1>2 DEF PipeIsClosed
<1>5. last_frame_converted' => last_png' = last_frame_image'
  BY <1>2 DEF EncoderInv
<1> QED
  BY <1>1, <1>2, <1>3, <1>4, <1>5 DEF EncoderInv

LEMMA EncoderFails ==
  ASSUME QueueInv, EncoderInv, V!StartFails \/ V!EncodingError \/ V!DataEnds,
         UNCHANGED <<pc, received, stream>>
  PROVE  EncoderInv'
<1> USE DEF V!videoVars, V!pngVars, V!outsideVars
<1>1. EncoderTypeOK'
  BY EncoderTyped DEF EncoderInv, V!Step
<1>2. /\ encoder_pc' = "failed"
      /\ UNCHANGED <<consumed, output_video, video, last_frame_image, last_frame_converted,
                     last_png>>
  BY DEF V!StartFails, V!EncodingError, V!DataEnds
<1>3. Screens' = Screens
  BY <1>2 DEF Screens, Items
<1>4. output_video => Encoded'
  BY <1>2, <1>3 DEF EncoderInv, Encoded
<1>5. last_frame_converted' => last_png' = last_frame_image'
  BY <1>2 DEF EncoderInv
<1> QED
  BY <1>1, <1>2, <1>4, <1>5 DEF EncoderInv

LEMMA EncoderReads ==
  ASSUME QueueInv, StreamInv, CommandsInv, EncoderInv, EncoderSteps
  PROVE  EncoderInv'
<1>1. V!Step /\ UNCHANGED <<pc, received, stream>>
  BY DEF EncoderSteps, frameVars
<1> QED
  BY <1>1, LineRead, ImageRead, PngWritten, EncoderFinishes, EncoderFails DEF V!Step
-----------------------------------------------------------------------------
(* The encoder beside the backend                                           *)

\* The one stream continues the other.
Continues(s, t) == Len(s) <= Len(t) /\ \A k \in 1..Len(s) : t[k] = s[k]

LEMMA JoinedContinues ==
  ASSUME NEW s \in Seq(AllParts), NEW d \in Seq(AllParts)
  PROVE  s \o d \in Seq(AllParts) /\ Continues(s, s \o d)
<1>1. Len(s) \in Nat /\ Len(d) \in Nat
  OBVIOUS
<1>2. /\ s \o d \in Seq(AllParts) /\ Len(s \o d) = Len(s) + Len(d)
      /\ \A k \in 1..Len(s) : (s \o d)[k] = s[k]
  BY Joined
<1>3. Len(s) <= Len(s \o d)
  BY <1>1, <1>2
<1> QED
  BY <1>2, <1>3 DEF Continues

LEMMA SameContinues ==
  ASSUME NEW s \in Seq(AllParts)
  PROVE  Continues(s, s)
BY DEF Continues

LEMMA NextContinues ==
  ASSUME QueueInv, Next
  PROVE  /\ Continues(Items, Items')
         /\ Continues(received[Internal], received'[Internal])
         /\ PipeIsClosed => PipeIsClosed' /\ received' = received
<1> USE DEF queueVars, frameVars, stopVars, outsideVars
<1>0. /\ Items \in Seq(AllParts) /\ received[Internal] \in Seq(AllParts)
      /\ Continues(Items, Items) /\ Continues(received[Internal], received[Internal])
  BY ItemsTyped, PipeTyped, SameContinues
<1>1. CASE StopVm \/ Sigterm \/ PassingTimesOut
  <2>1. Stop
    BY <1>1 DEF StopVm, Sigterm, PassingTimesOut
  <2>2. Items' = Items /\ received' = received
    BY <2>1 DEF Stop, Items
  <2>3. PipeIsClosed => PipeIsClosed'
    <3> SUFFICES ASSUME PipeIsClosed PROVE PipeIsClosed'
      OBVIOUS
    <3>1. pc = "await"
      BY <1>1 DEF PipeIsClosed, StopVm, Sigterm, PassingTimesOut
    <3>2. ~video_encoders
      BY <3>1 DEF QueueInv, Watched
    <3>3. pc' = "exited"
      BY <2>1, <3>2 DEF Stop
    <3> QED
      BY <3>3 DEF PipeIsClosed
  <2> QED
    BY <1>0, <2>2, <2>3
<1>2. CASE AllPassed \/ EncodersEnd \/ Account
  <2>1. Items' = Items /\ received' = received
    BY <1>2 DEF AllPassed, EncodersEnd, Account, Items
  <2>2. PipeIsClosed => PipeIsClosed'
    BY <1>2 DEF AllPassed, EncodersEnd, Account, PipeIsClosed
  <2> QED
    BY <1>0, <2>1, <2>2
<1>3. ASSUME NEW p \in Pipes, EncoderHangs(p)
      PROVE  Items' = Items /\ received' = received /\ (PipeIsClosed => PipeIsClosed')
  BY <1>3 DEF EncoderHangs, Items, PipeIsClosed
<1>4. ASSUME NEW p \in Pipes, WriteInLoop(p) \/ WriteRemaining(p)
      PROVE  /\ Items' = Items /\ ~PipeIsClosed
             /\ Continues(received[Internal], received'[Internal])
  <2>1. Syswrite(p) /\ pc \in {"loop", "flush"}
    BY <1>4 DEF WriteInLoop, WriteRemaining
  <2>2. Items' = Items /\ ~PipeIsClosed
    BY <2>1 DEF Syswrite, Items, PipeIsClosed
  <2>3. PICK count \in 1..Unwritten(p) :
          received' = [received EXCEPT ![p] = @ \o PartsWritten(p, count)]
    BY <2>1 DEF Syswrite
  <2>4. CASE p = Internal
    <3>1. PartsWritten(p, count) \in Seq(AllParts)
      BY <2>1, PartsWrittenTyped DEF Syswrite, QueueInv
    <3>2. received'[Internal] = received[Internal] \o PartsWritten(p, count)
      BY <2>3, <2>4 DEF QueueInv, TypeOK
    <3> QED
      BY <1>0, <2>2, <3>1, <3>2, JoinedContinues
  <2>5. CASE p # Internal
    <3>1. received'[Internal] = received[Internal]
      BY <2>3, <2>5 DEF QueueInv, TypeOK
    <3> QED
      BY <1>0, <2>2, <3>1
  <2> QED
    BY <2>4, <2>5
<1>5. CASE EnqueueRepeat
  <2>1. Parts(Command("R")) \in Seq(AllParts)
    BY <1>5, CommandTyped, PartsTyped DEF EnqueueRepeat, Screenshot, QueueInv
  <2>2. /\ Items' = Items \o Parts(Command("R"))
        /\ received' = received /\ ~PipeIsClosed
    BY <1>5 DEF EnqueueRepeat, Screenshot, Items, PipeIsClosed
  <2> QED
    BY <1>0, <2>1, <2>2, JoinedContinues
<1>6. CASE EnqueueCommand
  <2> DEFINE e == Parts(Command("E"))
             i == Parts(Image(NewFrame))
             d == e \o i
  <2>1. e \in Seq(AllParts) /\ i \in Seq(AllParts)
    BY <1>6, CommandTyped, ImageTyped, PartsTyped DEF EnqueueCommand, Screenshot, QueueInv
  <2>2. /\ Items' = (Items \o e) \o i
        /\ received' = received /\ ~PipeIsClosed
    BY <1>6 DEF EnqueueCommand, Screenshot, Items, PipeIsClosed
  <2> HIDE DEF e, i
  <2>3. d \in Seq(AllParts) /\ Items' = Items \o d
    <3>1. e \o i \in Seq(AllParts)
      BY <2>1, ConcatProperties
    <3>2. Items \in Seq(AllParts)
      BY <1>0
    <3>3. (Items \o e) \o i = Items \o (e \o i)
      BY <2>1, <3>2, ConcatAssociative
    <3> QED
      BY <2>2, <3>1, <3>3
  <2> HIDE DEF d
  <2>4. Continues(Items, Items \o d)
    BY <1>0, <2>3, JoinedContinues
  <2> QED
    BY <1>0, <2>2, <2>3, <2>4
<1>7. CASE EnqueueImage
  BY <1>0, <1>7 DEF EnqueueImage, Items, PipeIsClosed
<1> QED
  BY <1>0, <1>1, <1>2, <1>3, <1>4, <1>5, <1>6, <1>7 DEF Next

\* While the encoder waits, what it has read and made stays as it is.
LEMMA EncoderWaits ==
  ASSUME QueueInv, StreamInv, EncoderInv, EncoderTypeOK', QueueInv',
         Continues(Items, Items'),
         PipeIsClosed => PipeIsClosed' /\ received' = received,
         UNCHANGED <<consumed, output_video, repeat, ycbcr, video, last_frame_image,
                     last_frame_converted, last_png>>,
         encoder_pc' = encoder_pc \/ encoder_pc' = "killed"
  PROVE  EncoderInv'
<1>1. Items \in Seq(AllParts) /\ Items' \in Seq(AllParts)
  <2>1. Items' = stream'[Internal]
    BY DEF Items
  <2> QED
    BY <2>1, ItemsTyped DEF QueueInv, TypeOK
<1>2. /\ consumed \in Nat /\ consumed <= Len(Items) /\ consumed <= Len(Items')
      /\ \A k \in 1..consumed : Items'[k] = Items[k]
      /\ consumed # 0 => Items'[consumed] = Items[consumed]
  <2>1. consumed \in 0..Len(received[Internal])
    BY DEF EncoderInv, EncoderTypeOK, V!TypeOK
  <2>2. received[Internal] \in Seq(AllParts) /\ Len(received[Internal]) <= Len(Items)
    BY WhatIsRead
  <2>3. Len(received[Internal]) \in Nat /\ Len(Items) \in Nat /\ Len(Items') \in Nat
    BY <1>1, <2>2
  <2>4. Len(Items) <= Len(Items') /\ \A k \in 1..Len(Items) : Items'[k] = Items[k]
    BY DEF Continues
  <2>5. consumed \in Nat /\ consumed <= Len(Items) /\ consumed <= Len(Items')
    BY <2>1, <2>2, <2>3, <2>4
  <2>6. \A k \in 1..consumed : k \in 1..Len(Items)
    BY <2>3, <2>5
  <2>7. consumed # 0 => consumed \in 1..Len(Items)
    BY <2>3, <2>5
  <2> QED
    BY <2>4, <2>5, <2>6, <2>7
<1>3. Screens' = Screens
  <2>1. Seen(Items', consumed) = Seen(Items, consumed)
    BY <1>1, <1>2, SeenStays
  <2> QED
    BY <2>1 DEF Screens
<1>4. CommandNext(Items, consumed) => CommandNext(Items', consumed')
  BY <1>2 DEF CommandNext
<1>5. encoder_pc' = "data" => consumed' > 0 /\ Items'[consumed'][2] = "E"
  <2> SUFFICES ASSUME encoder_pc' = "data"
               PROVE  consumed' > 0 /\ Items'[consumed'][2] = "E"
    OBVIOUS
  <2>1. consumed > 0 /\ Items[consumed][2] = "E"
    BY DEF EncoderInv
  <2> QED
    BY <1>2, <2>1
<1>6. encoder_pc' = "done" => PipeIsClosed' /\ consumed' = Len(received'[Internal])
  BY DEF EncoderInv
<1>7. /\ encoder_pc' = "link" => ~last_frame_converted'
      /\ last_frame_converted' => last_png' = last_frame_image'
  BY DEF EncoderInv
<1>8. ASSUME output_video PROVE Encoded'
  <2>1. Encoded
    BY <1>8 DEF EncoderInv
  <2>2. V!Pending' = V!Pending
    BY DEF V!Pending
  <2>3. (NothingRead => NothingRead') /\ (LastPending => LastPending')
    BY <1>3, <2>2 DEF NothingRead, LastPending
  <2>4. encoder_pc' = "killed" => Encoded'
    BY <1>3, <2>1 DEF Encoded
  <2>5. encoder_pc' = encoder_pc => Encoded'
    BY <1>3, <2>1, <2>3 DEF Encoded
  <2> QED
    BY <2>4, <2>5
<1>9. encoder_pc' \in {"start", "line", "png", "link"} => CommandNext(Items', consumed')
  BY <1>4 DEF EncoderInv
<1> QED
  BY <1>5, <1>6, <1>7, <1>8, <1>9 DEF EncoderInv

LEMMA TypedBeside ==
  ASSUME QueueInv, QueueInv', EncoderTypeOK,
         Continues(received[Internal], received'[Internal]),
         UNCHANGED <<consumed, output_video, repeat, ycbcr, video, last_frame_image,
                     last_frame_converted, last_png, live_log, toggles, image>>,
         encoder_pc' = encoder_pc \/ encoder_pc' = "killed"
  PROVE  EncoderTypeOK'
<1>1. Len(received[Internal]) \in Nat /\ Len(received'[Internal]) \in Nat
  <2>1. received[Internal] \in Seq(AllParts) /\ received'[Internal] \in Seq(AllParts)
    BY DEF QueueInv, TypeOK
  <2> QED
    BY <2>1
<1>2. Len(received[Internal]) <= Len(received'[Internal])
  BY DEF Continues
<1>3. consumed' \in 0..Len(received'[Internal])
  BY <1>1, <1>2 DEF EncoderTypeOK, V!TypeOK
<1> QED
  BY <1>3 DEF EncoderTypeOK, V!TypeOK

\* Types of the encoder, also after SIGTERM in the middle of an update
LEMMA EncoderStaysTyped ==
  ASSUME QueueInv, EncoderTypeOK, [PipelineNext]_pipelineVars
  PROVE  EncoderTypeOK'
<1> USE DEF queueVars, frameVars, stopVars, outsideVars
<1>1. QueueInv'
  BY PipelineTyped, QueueStutter
<1>2. CASE EncoderSteps
  BY <1>2, EncoderTyped DEF EncoderSteps
<1>3. CASE OthersStep
  <2>1. received' = received /\ V!Others
    BY <1>3 DEF OthersStep, vars
  <2>2. /\ UNCHANGED <<consumed, output_video, repeat, ycbcr, video, last_frame_image,
                       last_frame_converted, last_png, encoder_pc>>
        /\ \/ toggles < MaxToggles /\ toggles' = toggles + 1 /\ live_log' = ~live_log
              /\ image' = image
           \/ UNCHANGED <<toggles, live_log>> /\ image' = last_png
    BY <2>1 DEF V!Others, V!ToggleLiveLog, V!View, V!videoVars, V!pngVars
  <2>3. /\ MaxToggles \in Nat /\ toggles \in 0..MaxToggles /\ live_log \in BOOLEAN
        /\ last_png \in V!Frames /\ image \in V!Frames
    BY OptionsAssumption DEF EncoderTypeOK, V!TypeOK, OptionsAssumption
  <2>4. toggles' \in 0..MaxToggles /\ image' \in V!Frames
    BY <2>2, <2>3
  <2>5. live_log' \in BOOLEAN
    BY <2>2, <2>3, Zenon
  <2> QED
    BY <2>1, <2>2, <2>4, <2>5 DEF EncoderTypeOK, V!TypeOK
<1>4. CASE NotAccepting \/ UNCHANGED pipelineVars
  <2>1. received' = received /\ UNCHANGED encoderVars
    BY <1>4 DEF NotAccepting, Stop, pipelineVars, vars
  <2>2. Continues(received[Internal], received'[Internal])
    BY <2>1, PipeTyped, SameContinues
  <2> QED
    BY <1>1, <2>1, <2>2, TypedBeside DEF encoderVars
<1>5. CASE BackendSteps
  <2>1. Next /\ (V!Kill \/ UNCHANGED encoderVars)
    BY <1>5 DEF BackendSteps
  <2>2. Continues(received[Internal], received'[Internal])
    BY <2>1, NextContinues
  <2>3. /\ UNCHANGED <<consumed, output_video, repeat, ycbcr, video, last_frame_image,
                       last_frame_converted, last_png, live_log, toggles, image>>
        /\ encoder_pc' = encoder_pc \/ encoder_pc' = "killed"
    BY <2>1 DEF V!Kill, encoderVars, V!videoVars, V!pngVars, V!outsideVars
  <2> QED
    BY <1>1, <2>2, <2>3, TypedBeside
<1> QED
  BY <1>2, <1>3, <1>4, <1>5 DEF PipelineNext

\* Steps of the backend and of those who watch
LEMMA BackendBeside ==
  ASSUME QueueInv, StreamInv, EncoderInv, PipelineNext, ~EncoderSteps
  PROVE  EncoderInv'
<1> USE DEF queueVars, frameVars, stopVars, outsideVars
<1>1. QueueInv' /\ EncoderTypeOK'
  BY PipelineTyped, EncoderStaysTyped DEF EncoderInv
<1>2. CASE OthersStep \/ NotAccepting
  <2>1. Items' = Items /\ received' = received
    BY <1>2 DEF OthersStep, vars, NotAccepting, Stop, Items
  <2>2. PipeIsClosed => PipeIsClosed'
    BY <1>2 DEF OthersStep, vars, NotAccepting, PipeIsClosed
  <2>3. Continues(Items, Items')
    BY <2>1, ItemsTyped, SameContinues
  <2>4. UNCHANGED <<consumed, output_video, repeat, ycbcr, video, last_frame_image,
                    last_frame_converted, last_png, encoder_pc>>
    BY <1>2 DEF OthersStep, NotAccepting, encoderVars, V!Others, V!ToggleLiveLog, V!View,
       V!videoVars, V!pngVars
  <2> QED
    BY <1>1, <2>1, <2>2, <2>3, <2>4, EncoderWaits
<1>3. CASE BackendSteps
  <2>1. Next /\ (V!Kill \/ UNCHANGED encoderVars)
    BY <1>3 DEF BackendSteps
  <2>2. /\ Continues(Items, Items')
        /\ PipeIsClosed => PipeIsClosed' /\ received' = received
    BY <2>1, NextContinues
  <2>3. /\ UNCHANGED <<consumed, output_video, repeat, ycbcr, video, last_frame_image,
                       last_frame_converted, last_png>>
        /\ encoder_pc' = encoder_pc \/ encoder_pc' = "killed"
    BY <2>1 DEF V!Kill, encoderVars, V!videoVars, V!pngVars, V!outsideVars
  <2> QED
    BY <1>1, <2>2, <2>3, EncoderWaits
<1> QED
  BY <1>2, <1>3 DEF PipelineNext

LEMMA EncoderStutter ==
  ASSUME QueueInv, StreamInv, EncoderInv, UNCHANGED pipelineVars
  PROVE  EncoderInv'
<1>1. QueueInv' /\ EncoderTypeOK'
  BY QueueStutter, EncoderStaysTyped DEF EncoderInv
<1>2. UNCHANGED <<pc, received, stream>> /\ UNCHANGED encoderVars
  BY DEF pipelineVars, vars, queueVars, frameVars
<1>3. Items' = Items /\ received' = received /\ (PipeIsClosed => PipeIsClosed')
  BY <1>2 DEF Items, PipeIsClosed
<1>4. Continues(Items, Items')
  BY <1>3, ItemsTyped, SameContinues
<1>5. UNCHANGED <<encoder_pc, consumed, output_video, repeat, ycbcr, video,
                  last_frame_image, last_frame_converted, last_png>>
  BY <1>2 DEF encoderVars
<1> QED
  BY <1>1, <1>3, <1>4, <1>5, EncoderWaits

\* The encoder has its types, whatever comes through the pipe: a packet of the video
\* is never written with a count out of range (DupCount), and never more is read than
\* was written.
THEOREM EncoderIsTyped == PipelineSpec => []EncoderTypeOK
<1>1. PipelineInit => QueueInv /\ EncoderTypeOK
  BY QueueInit, EncoderInit DEF PipelineInit, EncoderInv
<1>2. QueueInv /\ EncoderTypeOK /\ [PipelineNext]_pipelineVars
        => QueueInv' /\ EncoderTypeOK'
  BY PipelineTyped, QueueStutter, EncoderStaysTyped
<1> QED
  BY <1>1, <1>2, PTL DEF PipelineSpec

\* The inductive invariant of the pipeline
PipelineInv == StreamInv /\ CommandsInv /\ EncoderInv

LEMMA PipelineInvHolds == PipelineSpec => [](QueueInv /\ (Undisturbed => PipelineInv))
<1>1. PipelineInit => QueueInv /\ PipelineInv
  BY QueueInit, StreamInit, CommandsInit, EncoderInit DEF PipelineInit, PipelineInv
<1>2. ASSUME QueueInv, Undisturbed => PipelineInv, [PipelineNext]_pipelineVars
      PROVE  QueueInv' /\ (Undisturbed' => PipelineInv')
  <2>1. CASE PipelineNext
    <3>1. QueueInv'
      BY <1>2, <2>1, PipelineTyped
    <3>2. ASSUME Undisturbed' PROVE PipelineInv'
      <4>1. StreamInv /\ CommandsInv /\ EncoderInv
        BY <1>2, <2>1, <3>2, UndisturbedBefore DEF PipelineInv
      <4>2. StreamInv' /\ CommandsInv'
        BY <1>2, <2>1, <3>2, <4>1, PipelineStreams, PipelineCommanded
      <4>3. EncoderInv'
        BY <1>2, <2>1, <4>1, EncoderReads, BackendBeside
      <4> QED
        BY <4>2, <4>3 DEF PipelineInv
    <3> QED
      BY <3>1, <3>2
  <2>2. CASE UNCHANGED pipelineVars
    <3>1. Undisturbed' => Undisturbed
      BY <2>2 DEF Undisturbed, pipelineVars, vars, outsideVars
    <3>2. QueueInv'
      BY <1>2, <2>2, QueueStutter
    <3>3. PipelineInv => StreamInv' /\ CommandsInv' /\ EncoderInv'
      BY <1>2, <2>2, StreamStutter, CommandsStutter, EncoderStutter DEF PipelineInv
    <3> QED
      BY <1>2, <3>1, <3>2, <3>3 DEF PipelineInv
  <2> QED
    BY <1>2, <2>1, <2>2
<1> QED
  BY <1>1, <1>2, PTL DEF PipelineSpec

\* What the encoder has read is the same in its pipe and in the stream.
LEMMA ReadInPipe ==
  ASSUME QueueInv, PipelineInv
  PROVE  /\ V!ScreensOf(SubSeq(received[Internal], 1, consumed)) = Screens
         /\ consumed \in Nat
<1>1. /\ received[Internal] \in Seq(AllParts) /\ Len(received[Internal]) <= Len(Items)
      /\ \A k \in 1..Len(received[Internal]) : received[Internal][k] = Items[k]
      /\ Items \in Seq(AllParts)
  BY WhatIsRead, ItemsTyped DEF PipelineInv
<1>2. consumed \in 0..Len(received[Internal])
  BY DEF PipelineInv, EncoderInv, EncoderTypeOK, V!TypeOK
<1>3. Len(received[Internal]) \in Nat /\ Len(Items) \in Nat
  BY <1>1
<1>4. consumed \in Nat /\ consumed <= Len(received[Internal]) /\ consumed <= Len(Items)
      /\ \A k \in 1..consumed : k \in 1..Len(received[Internal])
  BY <1>1, <1>2, <1>3
<1>5. \A k \in 1..consumed : Items[k] = received[Internal][k]
  BY <1>1, <1>4
<1>6. Seen(Items, consumed) = Seen(received[Internal], consumed)
  BY <1>1, <1>4, <1>5, SeenStays
<1> QED
  BY <1>4, <1>6 DEF Screens, Seen

\* The video has each screen of the commands so far, in order and none twice, but
\* for what is pending (TH_ENCCTL_SET_DUP_COUNT and repeat in videoencoder.cpp),
\* unless SIGTERM came in the middle of the update of a queue.
THEOREM VideoIsTrue == PipelineSpec => [](Undisturbed => VideoFollowsCommands)
<1>1. ASSUME QueueInv, PipelineInv PROVE VideoFollowsCommands
  <2> SUFFICES ASSUME output_video, encoder_pc \in {"line", "png", "link"}
               PROVE  V!Shown(video) \o V!Pending = Screens
    BY <1>1, ReadInPipe DEF VideoFollowsCommands, V!VideoFollowsCommands
  <2>1. NothingRead \/ LastPending
    BY <1>1 DEF PipelineInv, EncoderInv, Encoded
  <2>2. CASE LastPending
    BY <2>2 DEF LastPending
  <2>3. CASE NothingRead
    <3>1. Screens = <<>> /\ V!Shown(video) = <<>> /\ <<>> \in Seq(V!Frames)
      BY <1>1, <2>3, NothingShown
    <3>2. V!Pending = <<>>
      BY <2>3, NoCopies DEF NothingRead, V!Pending, Copies
    <3>3. <<>> \o <<>> = <<>>
      BY <3>1, ConcatEmptySeq
    <3> QED
      BY <3>1, <3>2, <3>3
  <2> QED
    BY <2>1, <2>2, <2>3
<1>2. QueueInv /\ (Undisturbed => PipelineInv) => (Undisturbed => VideoFollowsCommands)
  BY <1>1
<1> QED
  BY <1>2, PipelineInvHolds, PTL

\* A finished video that got all of its frames has one for each screenshot, so that
\* the captions of video_time.vtt fit (enqueue_screenshot and the end of main in
\* videoencoder.cpp), with the same exception.
THEOREM CaptionsAreTrue == PipelineSpec => [](Undisturbed => CaptionsMatch)
<1>1. ASSUME QueueInv, PipelineInv PROVE CaptionsMatch
  <2> SUFFICES ASSUME output_video, encoder_pc = "done", received = stream,
                      video_frame_number > 0
               PROVE  /\ V!Shown(video) = V!ScreensOf(Items)
                      /\ Len(V!Shown(video)) = video_frame_number
    BY DEF CaptionsMatch, Items
  <2>1. /\ PipeIsClosed /\ consumed = Len(Items)
        /\ consumed > 0 => V!Shown(video) = Screens
    BY <1>1 DEF PipelineInv, EncoderInv, Encoded, Items
  <2>2. Announced = video_frame_number /\ Len(V!ScreensOf(Items)) = Announced
    <3>1. pc # "enqueue" /\ video_frame_number \in Nat
      BY <1>1, <2>1 DEF PipeIsClosed, QueueInv, TypeOK
    <3>2. Announced = video_frame_number
      BY <3>1 DEF Announced
    <3> QED
      BY <1>1, <3>2 DEF PipelineInv, CommandsInv
  <2>3. Screens = V!ScreensOf(Items)
    BY <1>1, <2>1, ItemsTyped, SeenAll DEF Screens
  <2>4. consumed > 0
    <3>1. consumed \in Nat
      BY <1>1, ReadInPipe
    <3>2. CASE consumed = 0
      <4>1. Screens = <<>>
        BY <1>1, <3>2, ItemsTyped, SeenNothing DEF Screens
      <4>2. Len(<<>>) = 0
        OBVIOUS
      <4> QED
        BY <2>2, <2>3, <4>1, <4>2
    <3> QED
      BY <3>1, <3>2
  <2> QED
    BY <2>1, <2>2, <2>3, <2>4
<1>2. QueueInv /\ (Undisturbed => PipelineInv) => (Undisturbed => CaptionsMatch)
  BY <1>1
<1> QED
  BY <1>2, PipelineInvHolds, PTL

\* When a command is done while live_log exists, last.png shows the last image, in
\* a run that no SIGTERM disturbs (last_frame_converted in videoencoder.cpp).
THEOREM PngIsTrue == PipelineSpec /\ []Undisturbed => LastPngIsCurrent
<1>1. ASSUME QueueInv, PipelineInv, [PipelineNext]_pipelineVars, output_video,
             encoder_pc' = "line", encoder_pc = "link" \/ (encoder_pc = "png" /\ live_log)
      PROVE  last_png' = V!LastScreen
  <2>1. V!LastScreen = Last(Screens)
    BY <1>1, ReadInPipe DEF V!LastScreen, V!Last, Last
  <2>2. /\ Screens # <<>> /\ last_frame_image = Last(Screens) /\ EncoderInv
        /\ last_frame_image # V!Nothing
    BY <1>1 DEF PipelineInv, EncoderInv, Encoded, LastPending
  <2>3. EncoderSteps
    <3>1. encoder_pc' # encoder_pc
      BY <1>1
    <3> QED
      BY <1>1, <3>1 DEF pipelineVars, encoderVars, PipelineNext, OthersStep, NotAccepting,
         BackendSteps, V!Kill, V!Others, V!ToggleLiveLog, V!View
  <2>4. V!LinkPng \/ V!NoPng
    BY <1>1, <2>3 DEF EncoderSteps, V!Step, V!Start, V!StartFails, V!ReadLine,
       V!EncodingError, V!ReadImage, V!DataEnds, V!WritePng, V!Finish
  <2>5. CASE V!LinkPng
    BY <2>1, <2>2, <2>5 DEF V!LinkPng
  <2>6. CASE V!NoPng
    <3>1. last_frame_image # 0
      BY <2>2 DEF V!Nothing
    <3>2. last_frame_converted
      BY <1>1, <2>6, <3>1 DEF V!NoPng, V!PngIsDue, V!Nothing
    <3> QED
      BY <2>1, <2>2, <2>6, <3>2 DEF V!NoPng, V!pngVars, EncoderInv
  <2> QED
    BY <2>4, <2>5, <2>6
<1>2. QueueInv /\ (Undisturbed => PipelineInv) /\ Undisturbed /\ [PipelineNext]_pipelineVars
        => [ /\ output_video
             /\ encoder_pc' = "line"
             /\ encoder_pc = "link" \/ (encoder_pc = "png" /\ live_log)
             => last_png' = V!LastScreen ]_V!vars
  BY <1>1
<1> QED
  BY <1>2, PipelineInvHolds, PTL DEF PipelineSpec, LastPngIsCurrent, V!LastPngIsCurrent
=============================================================================
