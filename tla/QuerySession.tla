---------------------------- MODULE QuerySession ----------------------------
(***************************************************************************)
(* What isotovideo promises autotest about one query after the other: a     *)
(* query is answered once; while the test execution is paused none is       *)
(* started in the backend; and a query held back by a pause stays held back *)
(* until the execution is resumed.                                          *)
(***************************************************************************)

VARIABLES
  session,   \* the state of the last query of autotest
  paused     \* whether the test execution is paused

vars == <<session, paused>>

TypeOK ==
  /\ session \in {"idle", "asked", "working", "held", "answered", "over"}
  /\ paused \in BOOLEAN

Init == session = "idle" /\ paused = FALSE

Ask ==
  /\ session = "idle"
  /\ session' = "asked"
  /\ UNCHANGED paused

\* The backend starts to work on the query: never in a pause, but the step that
\* resumes the execution may start the query that was held back.
Start ==
  /\ session \in {"asked", "held"}
  /\ session' = "working"
  /\ ~paused'

\* The query is held back, by a pause that begins or by one there is already.
\* A resume may end in the next pause at once.
Hold ==
  /\ session \in {"asked", "held"}
  /\ session' = "held"
  /\ paused'

\* A pause does not stop the answer to a query that was not held back.
Answer ==
  /\ session \in {"asked", "working", "held"}
  /\ session = "held" => paused /\ ~paused'
  /\ session # "held" => UNCHANGED paused
  /\ session' = "answered"

Receive ==
  /\ session = "answered"
  /\ session' \in {"idle", "over"}
  /\ UNCHANGED paused

\* A client pauses or resumes the execution with no query held back.
PauseOrResume ==
  /\ session # "held"
  /\ paused' = ~paused
  /\ UNCHANGED session

Next == Ask \/ Start \/ Hold \/ Answer \/ Receive \/ PauseOrResume

Spec == Init /\ [][Next]_vars
=============================================================================
