---------------------------- MODULE VideoPipeline ----------------------------
(***************************************************************************)
(* The way of a screenshot into the video: EncoderQueue writes to the pipe, *)
(* VideoEncoder reads from it at its own pace.  The backend waits for the   *)
(* encoder when it has closed the pipe, and kills it after a while.         *)
(***************************************************************************)
EXTENDS EncoderQueue

CONSTANTS keyframe_frequency, OutputVideo, MayFail, MaxToggles

ASSUME KeyframeAssumption == keyframe_frequency \in Nat \ {0}
ASSUME OptionsAssumption ==
  OutputVideo \subseteq BOOLEAN /\ MayFail \in BOOLEAN /\ MaxToggles \in Nat

VARIABLES
  encoder_pc, consumed, output_video, repeat, ycbcr, video,
  last_frame_image, last_frame_converted, last_png, live_log, toggles, image

PipeIsClosed == pc \in {"await", "exited"}

V == INSTANCE VideoEncoder WITH
       stdin <- received[Internal], eof <- PipeIsClosed, pc <- encoder_pc

encoderVars ==
  <<encoder_pc, consumed, output_video, repeat, ycbcr, video, last_frame_image,
    last_frame_converted, last_png, live_log, toggles, image>>
pipelineVars == <<vars, encoderVars>>

PipelineInit == Init /\ V!Init

\* The internal encoder reads, writes the video and the picture. When it is gone
\* it reads no more, but the pipe then reports an error.
EncoderSteps ==
  /\ UNCHANGED <<pc, queueVars, frameVars, written, stopVars, sigterms, received>>
  /\ Internal \notin hanging
  /\ V!Step
  /\ hanging' = IF encoder_pc' = "failed" THEN hanging \cup {Internal} ELSE hanging

OthersStep ==
  /\ UNCHANGED vars
  /\ V!Others

\* 'Encoder not accepting data': the die ends in stop_vm.
NotAccepting ==
  /\ encoder_pc = "failed"
  /\ \/ pc = "loop" /\ Internal \in selected
     \/ pc = "flush" /\ Internal \in remaining
  /\ Stop
  /\ UNCHANGED <<sigterms, encoderVars>>

\* When the time to finish is over, an encoder that still runs is killed.
BackendSteps ==
  /\ Next
  /\ IF awaited' # awaited /\ ~V!Ended THEN V!Kill ELSE UNCHANGED encoderVars

PipelineNext == EncoderSteps \/ OthersStep \/ NotAccepting \/ BackendSteps

PipelineSpec ==
  /\ PipelineInit /\ [][PipelineNext]_pipelineVars
  /\ Fairness /\ WF_pipelineVars(EncoderSteps)
-----------------------------------------------------------------------------
\* The caption n of video_time.vtt is for the frame n of the video
\* (format_vtt_timestamp): if nothing went wrong on the way, the finished video
\* has one frame for each screenshot, in their order.
CaptionsMatch ==
  /\ output_video
  /\ encoder_pc = "done"
  /\ received = stream
  /\ video_frame_number > 0
  => /\ V!Shown(video) = V!ScreensOf(stream[Internal])
     /\ Len(V!Shown(video)) = video_frame_number

\* 'Closing the pipe should cause the video encoder to terminate'
\* (baseclass.pm:449), unless it hangs.
EncoderTerminates == PipeIsClosed ~> V!Ended \/ hanging # {}

VideoFollowsCommands == V!VideoFollowsCommands
LastPngIsCurrent == V!LastPngIsCurrent
ProducedPngIsLast == V!ProducedPngIsLast
ViewerGoesForward == V!ViewerGoesForward
EncoderTypeOK == V!TypeOK
=============================================================================
