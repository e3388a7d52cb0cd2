--------------------------- MODULE MCNeedleSearch ---------------------------
(* Instances of NeedleSearch for TLC                                         *)
EXTENDS NeedleSearch

\* Two rows, with something bright at several places; one is too small.
MCScreens ==
  { <<<<0, 1, 0, 0, 1, 0, 0, 0>>, <<0, 0, 0, 0, 0, 0, 0, 0>>>>,
    <<<<0, 1, 0, 1, 0, 0, 1, 0>>, <<0, 0, 0, 0, 0, 0, 0, 1>>>>,
    <<<<1, 0, 1, 0>>>> }

Plain == <<<<0, 1, 0, 0, 1, 0, 0, 0>>, <<0, 0, 0, 0, 0, 0, 0, 0>>>>
Small == <<<<1, 0, 0, 0>>, <<0, 0, 0, 1>>>>
Tall == <<<<1, 0>>, <<0, 0>>, <<0, 1>>>>

\* Two areas of one image, an area to look for everywhere, one out of range.
MCNeedles ==
  { [name |-> "plain", picture |-> Plain, area |-> Rect(1, 0, 1, 1), margin |-> 1,
     exclude |-> {}],
    [name |-> "plain", picture |-> Plain, area |-> Rect(4, 0, 1, 2), margin |-> 2,
     exclude |-> {}],
    [name |-> "small", picture |-> Small, area |-> Rect(1, 0, 2, 1), margin |-> 8,
     exclude |-> {Rect(4, 0, 2, 2), Rect(7, 0, 2, 1)}],
    [name |-> "tall", picture |-> Tall, area |-> Rect(0, 1, 2, 2), margin |-> 0,
     exclude |-> {}] }
=============================================================================
