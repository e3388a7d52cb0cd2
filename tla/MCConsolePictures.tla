-------------------------- MODULE MCConsolePictures --------------------------
(* The two decoders of consoles/VNC.pm: a connection is one to an ikvm, whose *)
(* rectangles are in the encoding of ast2100, or one to another server.       *)
EXTENDS MCVncFramebuffer, MCAst2100

VARIABLE ikvm

PicturesInit == ikvm \in BOOLEAN /\ VncInit /\ Init

PicturesNext ==
  \/ ~ikvm /\ VncNext /\ UNCHANGED <<ikvm, vars>>
  \/ ikvm /\ Next /\ UNCHANGED <<ikvm, vncVars>>

PicturesSpec == PicturesInit /\ [][PicturesNext]_<<ikvm, vncVars, vars>>
=============================================================================
