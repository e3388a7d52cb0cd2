------------------------------- MODULE MinVec -------------------------------
(***************************************************************************)
(* minVec: one pass over the errors of all locations, which keeps those     *)
(* that are not much worse than the best one.                               *)
(***************************************************************************)
EXTENDS Integers, Sequences

CONSTANT Slack     \* 10: what a good location may be above the best one

ASSUME SlackAssumption == Slack \in Nat

VARIABLES
  result,          \* the errors of all locations, row by row
  at,              \* the location it looks at
  min,
  res              \* the good locations so far

minVecVars == <<result, at, min, res>>

\* The error at some location is the bound to begin with.
MinVecInit ==
  /\ result \in Seq(Nat)
  /\ \E center \in DOMAIN result : min = result[center] + Slack
  /\ at = 1
  /\ res = <<>>

\* Mutant: a much better location does not drop those found before.
Better_bug(error) == min' = error + Slack /\ res' = Append(res, at)
Better(error) == min' = error + Slack /\ res' = <<at>>

\* A round of the loop
Scan ==
  /\ at <= Len(result)
  /\ at' = at + 1
  /\ LET error == result[at]
     IN  \/ error > min /\ UNCHANGED <<min, res>>
         \/ error + Slack < min /\ Better(error)
         \/ /\ error <= min /\ error + Slack >= min
            /\ res' = Append(res, at)
            /\ UNCHANGED min
  /\ UNCHANGED result

ScanEnded == at > Len(result)

MinVecSpec == MinVecInit /\ [][Scan]_minVecVars

\* 'we try to the find the best locations - possibly more' (tinycv_impl.cc:118):
\* when the pass is over there is a location, and all are as good as the best
\* one up to Slack.
MinsAreGood ==
  ScanEnded =>
    /\ res # <<>>
    /\ \A i \in DOMAIN res : \A l \in DOMAIN result : result[res[i]] <= result[l] + Slack
=============================================================================
