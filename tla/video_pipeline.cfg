SPECIFICATION PipelineSpec
CONSTANTS
  Pipes = {"encoder_pipe"}
  DataSize = 2
  Sigterms = 1
  InUpdates = FALSE
  EncodersHang = TRUE
  MaxFrames = 3
  keyframe_frequency = 2
  OutputVideo = {TRUE, FALSE}
  MayFail = TRUE
  MaxToggles = 2
CHECK_DEADLOCK FALSE
INVARIANTS StreamIntact RemainingPassed VideoFollowsCommands CaptionsMatch
PROPERTIES LastPngIsCurrent FramesDelivered EncoderTerminates
