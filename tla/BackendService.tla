--------------------------- MODULE BackendService ---------------------------
(***************************************************************************)
(* What the backend process promises the isotovideo process: each command   *)
(* is answered at most once, with its own token, and QUIT is the last thing *)
(* the backend ever says. The order of the answers is left open.            *)
(***************************************************************************)
EXTENDS Sequences

CONSTANTS Tokens, QuitToken

VARIABLES
  asked,     \* tokens of the commands sent to the backend
  replies    \* tokens of the messages sent by the backend, in order

vars == <<asked, replies>>

Init == asked = {} /\ replies = <<>>

Replied == { replies[i] : i \in DOMAIN replies }
Running == QuitToken \notin Replied

Ask(token) ==
  /\ token \notin asked
  /\ asked' = asked \cup {token}
  /\ UNCHANGED replies

Reply(token) ==
  /\ Running
  /\ token \in asked \ Replied
  /\ replies' = Append(replies, token)
  /\ UNCHANGED asked

Quit ==
  /\ Running
  /\ replies' = Append(replies, QuitToken)
  /\ UNCHANGED asked

Next == Quit \/ \E token \in Tokens : Ask(token) \/ Reply(token)

Spec == Init /\ [][Next]_vars
=============================================================================
