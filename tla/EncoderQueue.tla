---------------------------- MODULE EncoderQueue ----------------------------
(***************************************************************************)
(* How the backend passes screenshots to the video encoders: each has a     *)
(* queue of buffers and a pipe that takes a part of a buffer at a time,     *)
(* while the capture loop goes on. When the backend stops, what is left in  *)
(* the queues is passed on and the encoders get time to finish.             *)
(*                                                                          *)
(* The handler of SIGTERM runs between any two operations and never returns.*)
(***************************************************************************)
EXTENDS Naturals, Sequences, SequencesExt

CONSTANTS
  Pipes,        \* {Internal} or {Internal, External}
  DataSize,     \* the pipe takes image data in up to this many parts
  Sigterms,     \* bound: how often SIGTERM comes
  InUpdates,    \* whether SIGTERM comes in the middle of an update of a queue
  EncodersHang, \* whether an encoder may stop to read
  MaxFrames     \* bound: number of screenshots

Internal == "encoder_pipe"
External == "external_video_encoder_cmd_pipe"

ASSUME PipesAssumption == Internal \in Pipes /\ Pipes \subseteq {Internal, External}
ASSUME SizesAssumption == DataSize \in Nat \ {0} /\ MaxFrames \in Nat
ASSUME FailuresAssumption ==
  Sigterms \in Nat /\ InUpdates \in BOOLEAN /\ EncodersHang \in BOOLEAN

\* A buffer: the command R (repeat), the command E, or the image that follows E
Kinds == {"R", "E", "image"}
Buffers == [frame : 1..MaxFrames, kind : Kinds]
Size(buffer) == IF buffer.kind = "image" THEN DataSize ELSE 1
Part(buffer, i) == <<buffer.frame, buffer.kind, i>>
Parts(buffer) == [i \in 1..Size(buffer) |-> Part(buffer, i)]
AllParts == (1..MaxFrames) \X Kinds \X (1..DataSize)

VARIABLES
  pc,
  queue,               \* video_frame_data, external_video_encoder_image_data
  write_offset,        \* _encoder_write_offset
  selected,            \* the pipes in select_read and select_write
  video_frame_number,
  last_image_data,     \* the frame of the last image, or NoFrame
  written,             \* result of a syswrite that is not yet accounted for
  video_encoders,      \* FALSE once they are taken over by _stop_video_encoder
  remaining,           \* _stop_video_encoder: pipes with frames left
  awaited,             \* the encoders had their time to finish
  hanging,             \* encoders that have stopped to read
  sigterms,            \* number of SIGTERMs so far
  received,            \* what each encoder got
  stream               \* history: what each encoder is to get

queueVars == <<queue, write_offset, selected>>
frameVars == <<video_frame_number, last_image_data, stream>>
stopVars == <<video_encoders, remaining, awaited>>
outsideVars == <<hanging, sigterms>>
vars == <<pc, queueVars, frameVars, written, stopVars, outsideVars, received>>

NoFrame == 0
NothingWritten == [pipe |-> Internal, count |-> 0]

TypeOK ==
  /\ pc \in {"loop", "enqueue", "account", "flush", "await", "exited"}
  /\ queue \in [Pipes -> Seq(Buffers)]
  /\ write_offset \in [Pipes -> 0..(DataSize - 1)]
  /\ selected \subseteq Pipes
  /\ video_frame_number \in 0..MaxFrames
  /\ last_image_data \in 0..MaxFrames
  /\ written \in [pipe : Pipes, count : 0..DataSize]
  /\ video_encoders \in BOOLEAN
  /\ remaining \subseteq Pipes
  /\ awaited \in BOOLEAN
  /\ hanging \subseteq Pipes
  /\ sigterms \in 0..Sigterms
  /\ received \in [Pipes -> Seq(AllParts)]
  /\ stream \in [Pipes -> Seq(AllParts)]

Init ==
  /\ pc = "loop"
  /\ queue = [p \in Pipes |-> <<>>]
  /\ write_offset = [p \in Pipes |-> 0]
  /\ selected = {}
  /\ video_frame_number = 0
  /\ last_image_data = NoFrame
  /\ written = NothingWritten
  /\ video_encoders = TRUE
  /\ remaining = {}
  /\ awaited = FALSE
  /\ hanging = {}
  /\ sigterms = 0
  /\ received = [p \in Pipes |-> <<>>]
  /\ stream = [p \in Pipes |-> <<>>]
-----------------------------------------------------------------------------
(* enqueue_screenshot                                                        *)

NewFrame == video_frame_number + 1
Image(frame) == [frame |-> frame, kind |-> "image"]
Command(kind) == [frame |-> NewFrame, kind |-> kind]

Screenshot ==
  /\ pc = "loop"
  /\ video_frame_number < MaxFrames

\* The screen is (nearly) the same as in the last image; the first screenshot
\* has no last one and counts as different.
EnqueueRepeat ==
  /\ Screenshot
  /\ last_image_data # NoFrame
  /\ LET pushed == [p \in Pipes |-> IF p = Internal THEN Command("R")
                                    ELSE Image(last_image_data)]
     IN  /\ queue' = [p \in Pipes |-> Append(queue[p], pushed[p])]
         /\ stream' = [p \in Pipes |-> stream[p] \o Parts(pushed[p])]
  /\ selected' = Pipes
  /\ video_frame_number' = NewFrame
  /\ UNCHANGED <<pc, write_offset, last_image_data, written, stopVars,
                 outsideVars, received>>

\* A new image: first the command ...
EnqueueCommand ==
  /\ Screenshot
  /\ last_image_data' = NewFrame
  /\ queue' = [queue EXCEPT ![Internal] = Append(@, Command("E"))]
  /\ stream' = [p \in Pipes |->
                  stream[p] \o (IF p = Internal THEN Parts(Command("E")) ELSE <<>>)
                            \o Parts(Image(NewFrame))]
  /\ pc' = "enqueue"
  /\ UNCHANGED <<write_offset, selected, video_frame_number, written, stopVars,
                 outsideVars, received>>

\* Mutant: the pipes are not selected again.
EnqueueImage_bug ==
  /\ pc = "enqueue"
  /\ queue' = [p \in Pipes |-> Append(queue[p], Image(last_image_data))]
  /\ video_frame_number' = NewFrame
  /\ pc' = "loop"
  /\ UNCHANGED <<write_offset, selected, last_image_data, stream, written,
                 stopVars, outsideVars, received>>

\* ... and then the image, for both encoders.
EnqueueImage ==
  /\ pc = "enqueue"
  /\ queue' = [p \in Pipes |-> Append(queue[p], Image(last_image_data))]
  /\ selected' = Pipes
  /\ video_frame_number' = NewFrame
  /\ pc' = "loop"
  /\ UNCHANGED <<write_offset, last_image_data, stream, written, stopVars,
                 outsideVars, received>>
-----------------------------------------------------------------------------
(* _write_buffered_data_to_file_handle                                       *)

Unwritten(p) == Size(Head(queue[p])) - write_offset[p]

\* Mutant: the offset of the part written before is not used.
PartsWritten_bug(p, count) ==
  [i \in 1..count |-> Part(Head(queue[p]), i)]

PartsWritten(p, count) ==
  [i \in 1..count |-> Part(Head(queue[p]), write_offset[p] + i)]

\* syswrite: a pipe that is ready takes at least one part.
Syswrite(p) ==
  /\ p \notin hanging
  /\ queue[p] # <<>>
  /\ \E count \in 1..Unwritten(p) :
       /\ received' = [received EXCEPT ![p] = @ \o PartsWritten(p, count)]
       /\ written' = [pipe |-> p, count |-> count]
  /\ pc' = "account"
  /\ UNCHANGED <<queueVars, frameVars, stopVars, outsideVars>>

\* The capture loop serves the pipes that select() reports, ...
WriteInLoop(p) ==
  /\ pc = "loop"
  /\ p \in selected
  /\ Syswrite(p)

\* ... and either the buffer is done or the offset moves.
AccountForBuffer(p) ==
  /\ written.count = Unwritten(p)
  /\ queue' = [queue EXCEPT ![p] = Tail(@)]
  /\ write_offset' = [write_offset EXCEPT ![p] = 0]

AccountForPart(p) ==
  /\ written.count < Unwritten(p)
  /\ write_offset' = [write_offset EXCEPT ![p] = @ + written.count]
  /\ UNCHANGED queue

Account ==
  /\ pc = "account"
  /\ LET p == written.pipe
         done == { q \in {p} : queue'[q] = <<>> }
     IN  /\ AccountForBuffer(p) \/ AccountForPart(p)
         /\ selected' = selected \ done
         /\ remaining' = remaining \ done
  /\ written' = NothingWritten
  /\ pc' = IF video_encoders THEN "loop" ELSE "flush"
  /\ UNCHANGED <<frameVars, video_encoders, awaited, outsideVars, received>>
-----------------------------------------------------------------------------
(* _stop_video_encoder                                                       *)

\* stop_vm takes the encoders over; if that was done before, it goes on to the
\* end of the process.
Stop ==
  /\ video_encoders' = FALSE
  /\ \/ /\ video_encoders
        /\ remaining' = { p \in Pipes : queue[p] # <<>> }
        /\ pc' = "flush"
     \/ /\ ~video_encoders
        /\ pc' = "exited"
        /\ UNCHANGED remaining
  /\ UNCHANGED <<queueVars, frameVars, written, awaited, hanging, received>>

StopVm ==
  /\ pc = "loop"
  /\ Stop
  /\ UNCHANGED sigterms

Sigterm ==
  /\ pc # "exited"
  /\ InUpdates \/ pc \notin {"enqueue", "account"}
  /\ sigterms < Sigterms
  /\ sigterms' = sigterms + 1
  /\ Stop

WriteRemaining(p) ==
  /\ pc = "flush"
  /\ p \in remaining
  /\ Syswrite(p)

\* 'timeout exceeded': the die calls the die handler of the process first, which
\* calls stop_vm.
PassingTimesOut ==
  /\ pc = "flush"
  /\ remaining # {}
  /\ remaining \subseteq hanging
  /\ Stop
  /\ UNCHANGED sigterms

\* Mutant: the first buffer of each queue is enough.
AllPassed_bug ==
  /\ pc = "flush"
  /\ \A p \in remaining : Len(queue[p]) < 2
  /\ pc' = "await"
  /\ UNCHANGED <<queueVars, frameVars, written, stopVars, outsideVars, received>>

AllPassed ==
  /\ pc = "flush"
  /\ remaining = {}
  /\ pc' = "await"
  /\ UNCHANGED <<queueVars, frameVars, written, stopVars, outsideVars, received>>

\* The encoders terminate, or are killed after a while.
EncodersEnd ==
  /\ pc = "await"
  /\ awaited' = TRUE
  /\ pc' = "exited"
  /\ UNCHANGED <<queueVars, frameVars, written, video_encoders, remaining,
                 outsideVars, received>>

EncoderHangs(p) ==
  /\ EncodersHang
  /\ p \notin hanging
  /\ pc # "exited"
  /\ hanging' = hanging \cup {p}
  /\ UNCHANGED <<pc, queueVars, frameVars, written, stopVars, sigterms, received>>
-----------------------------------------------------------------------------
Next ==
  \/ EnqueueRepeat \/ EnqueueCommand \/ EnqueueImage \/ Account
  \/ StopVm \/ Sigterm \/ PassingTimesOut \/ AllPassed \/ EncodersEnd
  \/ \E p \in Pipes : WriteInLoop(p) \/ WriteRemaining(p) \/ EncoderHangs(p)

Spec == Init /\ [][Next]_vars

\* Each round of the capture loop serves every pipe that is ready, and so does
\* each round of _stop_video_encoder.
Fairness ==
  /\ WF_vars(EnqueueImage) /\ WF_vars(Account) /\ WF_vars(AllPassed)
  /\ \A p \in Pipes : SF_vars(WriteInLoop(p)) /\ SF_vars(WriteRemaining(p))

FairSpec == Spec /\ Fairness
-----------------------------------------------------------------------------
\* 'the head buffer is kept in place and written from a tracked offset'
\* (baseclass.pm:150): an encoder gets the bytes in order, none twice, none left
\* out; also if SIGTERM comes, unless it interrupts an update of a queue.
StreamIntact == \A p \in Pipes : IsPrefix(received[p], stream[p])

\* 'pass remaining video frames to the video encoder' (baseclass.pm:422): when
\* the pipes are closed, each encoder has got all of its frames.
RemainingPassed == pc = "await" => received = stream

\* A pipe is selected exactly while it has a buffer: otherwise the loop spins on
\* a pipe without data, or data waits for ever.
SelectedIffData ==
  pc = "loop" => selected = { p \in Pipes : queue[p] # <<>> }

\* 'give the video encoder processes time to finalize the video'
\* (baseclass.pm:448), also after 'Unable to pass remaining frames'.
EncodersAwaited == pc = "exited" => awaited

\* Every frame gets to its encoder, unless an encoder hangs or SIGTERM ends the
\* process while it passes the rest.
FramesDelivered ==
  \A p \in Pipes, n \in 1..(MaxFrames * (DataSize + 1)) :
    Len(stream[p]) >= n
      ~> \/ Len(received[p]) >= n
         \/ hanging # {}
         \/ sigterms > 0 /\ pc = "exited"
=============================================================================
