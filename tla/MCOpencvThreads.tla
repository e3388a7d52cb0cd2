--------------------------- MODULE MCOpencvThreads ---------------------------
(* Instances of OpencvThreads for TLC                                        *)
EXTENDS OpencvThreads

MCRequests == -1..5
=============================================================================
