------------------------------ MODULE Colours ------------------------------
(***************************************************************************)
(* rgb_to_yuv: the colours of a picture as those of a video.                *)
(***************************************************************************)
EXTENDS Integers

Levels == 0..255

\* Both programs cut what is not a level.
clamp(d) == IF d < 0 THEN 0 ELSE IF d > 255 THEN 255 ELSE d

\* Large numbers are written in thousands, for the provers.
K(thousands, rest) == thousands * 1000 + rest
LargestInt == K(K(2147, 483), 647)

\* rgb_to_yuv before clamp: sums in multiples of the parts of a level.
YSum(r, g, b) == K(65, 481) * r + K(128, 553) * g + K(24, 966) * b + K(K(4, 207), 500)
USum(r, g, b) == K(99, 232) * b - K(33, 488) * r - K(65, 744) * g + K(K(29, 32), 5)
VSum(r, g, b) == K(157, 24) * r - K(131, 488) * g - K(25, 536) * b + K(K(45, 940), 35)
Y(r, g, b) == YSum(r, g, b) \div K(255, 0)
U(r, g, b) == USum(r, g, b) \div K(225, 930)
V(r, g, b) == VSum(r, g, b) \div K(357, 510)
=============================================================================
