-------------------------- MODULE MCQemuSnapshots --------------------------
(* Instances of QemuSnapshots for TLC                                        *)
EXTENDS QemuSnapshots
=============================================================================
