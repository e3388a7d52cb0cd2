---------------------------- MODULE VideoEncoder ----------------------------
(***************************************************************************)
(* videoencoder: reads commands and images from its standard input, writes  *)
(* a Theora video, and while the file live_log exists keeps qemuscreenshot/ *)
(* last.png at the last image.  debugviewer shows that picture.             *)
(*                                                                          *)
(* Standard input belongs to the writer of the pipe: it is a sequence that  *)
(* only grows, of items <<frame, kind, i>> as in EncoderQueue; the image of *)
(* a frame comes in DataSize parts.                                         *)
(***************************************************************************)
EXTENDS Integers, Sequences, SequencesExt

CONSTANTS
  DataSize,
  MaxFrames,          \* bound: number of frames
  keyframe_frequency,
  OutputVideo,        \* possible values of output_video: FALSE is the option -n
  MayFail,            \* whether opening the file or encoding may fail
  MaxToggles          \* bound: how often live_log comes or goes

VARIABLES
  stdin,                 \* what the writer has put into the pipe so far
  eof,                   \* it has closed the pipe
  pc,
  consumed,              \* number of items read
  output_video,
  repeat,
  ycbcr,                 \* the frame in the planes, or Nothing: not initialised
  video,                 \* the packets of the video
  last_frame_image,      \* the frame of the decoded image, or Nothing
  last_frame_converted,
  last_png,              \* the frame last.png shows, or Nothing: it is missing
  live_log,              \* whether the file live_log exists
  toggles,
  image                  \* debugviewer: the picture on the screen

videoVars == <<repeat, ycbcr, video>>
pngVars == <<last_frame_image, last_frame_converted, last_png>>
outsideVars == <<live_log, toggles, image>>
vars == <<stdin, eof, pc, consumed, output_video, videoVars, pngVars, outsideVars>>

Nothing == 0
Frames == 0..MaxFrames
Packets == [frame : Frames, dup : Nat]

TypeOK ==
  /\ pc \in {"start", "line", "data", "png", "link", "done", "failed", "killed"}
  /\ consumed \in 0..Len(stdin)
  /\ output_video \in BOOLEAN
  /\ repeat \in Int /\ repeat >= -1
  /\ ycbcr \in Frames
  /\ video \in Seq(Packets)
  /\ last_frame_image \in Frames
  /\ last_frame_converted \in BOOLEAN
  /\ last_png \in Frames
  /\ live_log \in BOOLEAN
  /\ toggles \in 0..MaxToggles
  /\ image \in Frames

Init ==
  /\ pc = "start"
  /\ consumed = 0
  /\ output_video \in OutputVideo
  /\ repeat = -1
  /\ ycbcr = Nothing
  /\ video = <<>>
  /\ last_frame_image = Nothing
  /\ last_frame_converted = FALSE
  /\ last_png = Nothing
  /\ live_log = FALSE
  /\ toggles = 0
  /\ image = Nothing

Ended == pc \in {"done", "failed", "killed"}

\* Options, output file, codec and headers of the stream.
Start ==
  /\ pc = "start"
  /\ pc' = "line"
  /\ UNCHANGED <<stdin, eof, consumed, output_video, videoVars, pngVars, outsideVars>>

StartFails ==
  /\ pc = "start"
  /\ MayFail
  /\ pc' = "failed"
  /\ UNCHANGED <<stdin, eof, consumed, output_video, videoVars, pngVars, outsideVars>>
-----------------------------------------------------------------------------
(* The commands                                                              *)

\* TH_ENCCTL_SET_DUP_COUNT: a count that is out of range is refused or raised
\* to 0, and then the frame is not repeated.
DupCount(count) == IF count \in 0..(keyframe_frequency - 1) THEN count ELSE 0

\* theora_write_frame, if it does not fail
WriteFrame == video' = Append(video, [frame |-> ycbcr, dup |-> DupCount(repeat)])

MustWrite(kind) ==
  /\ repeat >= keyframe_frequency - 1 \/ kind # "R"
  /\ output_video
  /\ repeat >= 0

\* Mutant: the count is not reset after the frame was written early.
RepeatAfter_bug(kind) == repeat

RepeatAfter(kind) == IF MustWrite(kind) THEN -1 ELSE repeat

ReadLine ==
  /\ pc = "line"
  /\ consumed < Len(stdin)
  /\ consumed' = consumed + 1
  /\ LET kind == stdin[consumed + 1][2]
     IN  /\ IF MustWrite(kind) THEN WriteFrame ELSE UNCHANGED video
         /\ \/ /\ kind = "E"
               /\ pc' = "data"
               /\ repeat' = RepeatAfter(kind)
            \/ /\ kind = "R"
               /\ pc' = "png"
               /\ repeat' = RepeatAfter(kind) + 1
  /\ UNCHANGED <<stdin, eof, output_video, ycbcr, pngVars, outsideVars>>

\* 'Encoding error.'
EncodingError ==
  /\ pc = "line"
  /\ MayFail
  /\ consumed < Len(stdin)
  /\ MustWrite(stdin[consumed + 1][2])
  /\ pc' = "failed"
  /\ UNCHANGED <<stdin, eof, consumed, output_video, videoVars, pngVars, outsideVars>>

\* Mutant: the new image does not count as one to convert.
Converted_bug == last_frame_converted
Converted == FALSE

\* fread returns when all of the image is there. It is decoded if the video or
\* the live log needs it.
ReadImage ==
  /\ pc = "data"
  /\ consumed + DataSize <= Len(stdin)
  /\ consumed' = consumed + DataSize
  /\ last_frame_converted' = Converted
  /\ repeat' = 0
  /\ LET frame == stdin[consumed + 1][1]
     IN  /\ last_frame_image' =
              IF output_video \/ live_log THEN frame ELSE last_frame_image
         /\ ycbcr' = IF output_video THEN frame ELSE ycbcr
  /\ pc' = "png"
  /\ UNCHANGED <<stdin, eof, output_video, video, last_png, outsideVars>>

\* Mutant: an image that is there in part is still waited for.
DataEnds_bug ==
  /\ pc = "data"
  /\ eof
  /\ consumed = Len(stdin)
  /\ pc' = "failed"
  /\ UNCHANGED <<stdin, eof, consumed, output_video, videoVars, pngVars, outsideVars>>

\* 'Unexpected end of data'
DataEnds ==
  /\ pc = "data"
  /\ eof
  /\ consumed + DataSize > Len(stdin)
  /\ pc' = "failed"
  /\ UNCHANGED <<stdin, eof, consumed, output_video, videoVars, pngVars, outsideVars>>
-----------------------------------------------------------------------------
(* The picture for the live log                                              *)

PngIsDue == ~last_frame_converted /\ last_frame_image # Nothing /\ live_log

\* The PNG is written under a name of its own, the old link is removed ...
WritePng ==
  /\ pc = "png"
  /\ PngIsDue
  /\ last_png' = Nothing
  /\ pc' = "link"
  /\ UNCHANGED <<stdin, eof, consumed, output_video, videoVars,
                 last_frame_image, last_frame_converted, outsideVars>>

\* ... and the new one made.
LinkPng ==
  /\ pc = "link"
  /\ last_png' = last_frame_image
  /\ last_frame_converted' = TRUE
  /\ pc' = "line"
  /\ UNCHANGED <<stdin, eof, consumed, output_video, videoVars,
                 last_frame_image, outsideVars>>

NoPng ==
  /\ pc = "png"
  /\ ~PngIsDue
  /\ pc' = "line"
  /\ UNCHANGED <<stdin, eof, consumed, output_video, videoVars, pngVars, outsideVars>>

\* Mutant: the last frame is not sent.
Finish_bug ==
  /\ pc = "line" /\ eof /\ consumed = Len(stdin)
  /\ pc' = "done"
  /\ UNCHANGED <<stdin, eof, consumed, output_video, videoVars, pngVars, outsideVars>>

\* 'send last frame': an error of this call is ignored.
Finish ==
  /\ pc = "line"
  /\ eof
  /\ consumed = Len(stdin)
  /\ IF output_video THEN WriteFrame ELSE UNCHANGED video
  /\ pc' = "done"
  /\ UNCHANGED <<stdin, eof, consumed, output_video, repeat, ycbcr, pngVars, outsideVars>>

\* SIGKILL
Kill ==
  /\ ~Ended
  /\ pc' = "killed"
  /\ UNCHANGED <<stdin, eof, consumed, output_video, videoVars, pngVars, outsideVars>>

\* Someone starts or stops to watch.
ToggleLiveLog ==
  /\ toggles < MaxToggles
  /\ toggles' = toggles + 1
  /\ live_log' = ~live_log
  /\ UNCHANGED <<stdin, eof, pc, consumed, output_video, videoVars, pngVars, image>>

\* A round of debugviewer: a picture that cannot be read leaves the old one.
View ==
  /\ last_png # Nothing
  /\ image' = last_png
  /\ UNCHANGED <<stdin, eof, pc, consumed, output_video, videoVars, pngVars,
                 live_log, toggles>>

\* What the encoder does by itself
Step ==
  \/ Start \/ StartFails \/ ReadLine \/ EncodingError \/ ReadImage \/ DataEnds
  \/ WritePng \/ LinkPng \/ NoPng \/ Finish

Others == ToggleLiveLog \/ View
-----------------------------------------------------------------------------
\* The screens that the items stand for: one per image and one per repetition.
ScreensOf(items) ==
  LET Show(screens, item) ==
        IF item[2] = "R" THEN Append(screens, Last(screens))
        ELSE IF item[2] = "image" /\ item[3] = DataSize THEN Append(screens, item[1])
        ELSE screens
  IN  FoldLeft(Show, <<>>, items)

\* The frames a player shows
Shown(packets) ==
  FlattenSeq([i \in DOMAIN packets |->
                [n \in 1..(packets[i].dup + 1) |-> packets[i].frame]])

Pending == [n \in 1..(repeat + 1) |-> ycbcr]

\* 'Repeat last frame' (videoencoder.cpp:30): what is in the video and what is
\* still pending are the screens of the commands so far, each once and in order.
VideoFollowsCommands ==
  /\ output_video
  /\ pc \in {"line", "png", "link"}
  => Shown(video) \o Pending = ScreensOf(SubSeq(stdin, 1, consumed))

LastScreen == Last(ScreensOf(SubSeq(stdin, 1, consumed)))

\* When a command is done while live_log exists, last.png shows the last image.
\* (Where the video is encoded too, so that every image is decoded.)
LastPngIsCurrent ==
  [][ /\ output_video
      /\ pc' = "line"
      /\ pc = "link" \/ (pc = "png" /\ live_log)
      => last_png' = LastScreen ]_vars

\* 'If the file "live_log" exists the last PNG for the live log is produced'
\* (videoencoder.cpp:32), also with the option -n: a picture that is produced is
\* that of the last image.
ProducedPngIsLast == pc = "link" => last_frame_image = LastScreen

\* The viewer never goes blank and never shows an older picture again.
ViewerGoesForward == [][image' >= image]_image
=============================================================================
