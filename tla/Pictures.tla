------------------------------ MODULE Pictures ------------------------------
(***************************************************************************)
(* Pictures (cv::Mat) as sequences of rows, and rectangles (cv::Rect).      *)
(* Coordinates begin with 0.                                                *)
(***************************************************************************)
EXTENDS Integers, Sequences

Smaller(m, n) == IF m < n THEN m ELSE n
Larger(m, n) == IF m < n THEN n ELSE m

\* Something is there, and all rows are as long as the first.
IsPicture(pic) ==
  /\ pic \in Seq(Seq(Nat)) /\ pic # <<>> /\ pic[1] # <<>>
  /\ \A row \in DOMAIN pic : Len(pic[row]) = Len(pic[1])

Rows(pic) == Len(pic)
Cols(pic) == IF pic = <<>> THEN 0 ELSE Len(pic[1])
Pixel(pic, x, y) == pic[y + 1][x + 1]
Picture(width, height, Value(_, _)) ==
  [row \in 1..height |-> [col \in 1..width |-> Value(col - 1, row - 1)]]

Rect(x, y, width, height) == [x |-> x, y |-> y, width |-> width, height |-> height]
NoRect == Rect(0, 0, 0, 0)
Area(r) == r.width * r.height
Covers(r, s) ==
  /\ r.x <= s.x /\ s.x + s.width <= r.x + r.width
  /\ r.y <= s.y /\ s.y + s.height <= r.y + r.height
Has(r, x, y) == x \in r.x..(r.x + r.width - 1) /\ y \in r.y..(r.y + r.height - 1)
Whole(pic) == Rect(0, 0, Cols(pic), Rows(pic))
InRange(pic, r) ==
  r.x >= 0 /\ r.y >= 0 /\ r.y + r.height <= Rows(pic) /\ r.x + r.width <= Cols(pic)

\* The least rectangle around both (operator |=)
Union(r, s) ==
  IF Area(r) = 0 THEN s
  ELSE LET x == Smaller(r.x, s.x)
           y == Smaller(r.y, s.y)
       IN  Rect(x, y, Larger(r.x + r.width, s.x + s.width) - x,
                      Larger(r.y + r.height, s.y + s.height) - y)
=============================================================================
