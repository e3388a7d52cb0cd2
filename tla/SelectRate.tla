----------------------------- MODULE SelectRate -----------------------------
(***************************************************************************)
(* check_select_rate (backend/baseclass.pm): the watchdog of do_capture for *)
(* half-open sockets. select() reports such a socket as readable again and  *)
(* again; if every handle met within a window was met too often, the        *)
(* capture loop ends with an error that names a handle.                     *)
(***************************************************************************)
EXTENDS Naturals, Sequences, FiniteSets

CONSTANTS
  Handles,           \* file descriptor numbers
  wait_time_limit,   \* length of a window
  hits_limit,        \* hits in a window that are too many
  MaxTime, MaxHits   \* bounds: time, and hits altogether

VARIABLES
  now,
  window,      \* buckets->{TIME}: the start of the window, or Never
  bucket,      \* buckets->{BUCKET}: hits per handle, 0 if it is no key
  blamed,      \* the handle of the error, or NoHandle
  hits         \* history: all hits so far as <<handle, time>>

vars == <<now, window, bucket, blamed, hits>>

Never == MaxTime + 1
NoHandle == 0        \* no file descriptor of the capture loop

TypeOK ==
  /\ now \in 0..MaxTime
  /\ window \in 0..Never
  /\ bucket \in [Handles -> 0..MaxHits]
  /\ blamed \in Handles \cup {NoHandle}
  /\ hits \in Seq(Handles \X (0..MaxTime))
  /\ hits = <<>> <=> window = Never

Init ==
  /\ now = 0
  /\ window = Never
  /\ bucket = [id \in Handles |-> 0]
  /\ blamed = NoHandle
  /\ hits = <<>>

lower_limit == IF window = Never THEN now ELSE window
upper_limit == lower_limit + wait_time_limit
Keys == { id \in Handles : bucket[id] > 0 }

Elapse ==
  /\ now < MaxTime
  /\ now' = now + 1
  /\ UNCHANGED <<window, bucket, blamed, hits>>

Hit(id) ==
  /\ blamed = NoHandle
  /\ Len(hits) < MaxHits
  /\ hits' = Append(hits, <<id, now>>)
  /\ UNCHANGED now

CountInWindow(id) ==
  /\ Hit(id)
  /\ now <= upper_limit
  /\ window' = lower_limit
  /\ bucket' = [bucket EXCEPT ![id] = @ + 1]
  /\ UNCHANGED blamed

\* The window is over and some handle stayed below the limit.
NewWindow(id) ==
  /\ Hit(id)
  /\ now > upper_limit
  /\ \E key \in Keys : bucket[key] < hits_limit
  /\ window' = now
  /\ bucket' = [key \in Handles |-> IF key = id THEN 1 ELSE 0]
  /\ UNCHANGED blamed

\* No handle did: do_capture throws, for the handle of the moment.
Blame(id) ==
  /\ Hit(id)
  /\ now > upper_limit
  /\ \A key \in Keys : bucket[key] >= hits_limit
  /\ window' = now
  /\ blamed' = id
  /\ UNCHANGED bucket

Next == Elapse \/ \E id \in Handles : CountInWindow(id) \/ NewWindow(id) \/ Blame(id)

Spec == Init /\ [][Next]_vars
-----------------------------------------------------------------------------
\* The hits of a handle from a time on, up to the end of the window that starts
\* there
HitsFrom(id, start) ==
  Cardinality({ i \in DOMAIN hits : /\ hits[i][1] = id
                                    /\ hits[i][2] >= start
                                    /\ hits[i][2] <= start + wait_time_limit })

\* The error is only thrown if some handle was really met hits_limit times within
\* wait_time_limit: a slow socket that is read for long never adds up to it.
OnlyRealRates ==
  blamed # NoHandle =>
    \E id \in Handles, i \in DOMAIN hits : HitsFrom(id, hits[i][2]) >= hits_limit

\* A handle that is always met hits_limit times within wait_time_limit, and is the
\* only one that is met, is found after two windows, whatever was met before.
Spins(id, start, end) ==
  /\ \E i \in DOMAIN hits : hits[i][2] = end
  /\ \A u \in start..(end - wait_time_limit) :
       HitsFrom(id, u) >= hits_limit /\ \E i \in DOMAIN hits : hits[i][2] = u
  /\ \A i \in DOMAIN hits : hits[i][2] \in start..end => hits[i][1] = id

SpinningIsFound ==
  \A id \in Handles, start \in 0..MaxTime :
    Spins(id, start, start + 2 * wait_time_limit + 2) => blamed # NoHandle

\* 'The amount of times, the select should return the same fileno during the
\* _CHKSEL_RATE_WAIT_TIME seconds' (doc/backend_vars.md:37): the handle that the
\* error names was met that often.
BlamedHandleIsBusy == blamed # NoHandle => bucket[blamed] >= hits_limit
=============================================================================
