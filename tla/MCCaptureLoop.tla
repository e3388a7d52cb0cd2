--------------------------- MODULE MCCaptureLoop ---------------------------
(* Instances of CaptureLoop for TLC                                          *)
EXTENDS CaptureLoop
=============================================================================
