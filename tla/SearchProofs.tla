---------------------------- MODULE SearchProofs ----------------------------
(***************************************************************************)
(* Proofs about NeedleSearch: minVec keeps good locations only, whatever    *)
(* the errors are; the original location is always one of those compared,   *)
(* whatever the sizes of the screen, the needle and its area are; what was  *)
(* prepared for earlier searches is of the image of now; and the location   *)
(* found is as good as the best one.                                        *)
(***************************************************************************)
EXTENDS NeedleSearch, SequenceTheorems, FiniteSetTheorems, WellFoundedInduction, TLAPS

\* What is kept is within the bound, the bound within Slack of all that was
\* seen, and nothing is kept only while the location of the bound is ahead.
ScanInv ==
  /\ result \in Seq(Nat)
  /\ at \in 1..(Len(result) + 1)
  /\ min \in Nat
  /\ res \in Seq(Nat)
  /\ \A i \in DOMAIN res : res[i] \in DOMAIN result /\ result[res[i]] <= min
  /\ \A l \in DOMAIN result : l < at => min <= result[l] + Slack
  /\ \/ res # <<>>
     \/ \E center \in DOMAIN result : center >= at /\ min = result[center] + Slack

LEMMA ScanInvInit == MinVecInit => ScanInv
<1> SUFFICES ASSUME MinVecInit PROVE ScanInv
  OBVIOUS
<1>1. result \in Seq(Nat) /\ at = 1 /\ res = <<>>
  BY DEF MinVecInit
<1>2. PICK center \in DOMAIN result : min = result[center] + Slack
  BY DEF MinVecInit
<1>3. center >= at /\ min \in Nat
  BY <1>1, <1>2, SlackAssumption
<1>4. res \in Seq(Nat) /\ DOMAIN res = {}
  BY <1>1
<1>5. at \in 1..(Len(result) + 1)
  BY <1>1
<1> QED
  BY <1>1, <1>2, <1>3, <1>4, <1>5 DEF ScanInv

\* A sequence of numbers with one more at the end
LEMMA Appended ==
  ASSUME NEW s \in Seq(Nat), NEW n \in Nat
  PROVE  /\ Append(s, n) \in Seq(Nat) /\ Len(Append(s, n)) = Len(s) + 1
         /\ DOMAIN Append(s, n) = 1..(Len(s) + 1) /\ Append(s, n)[Len(s) + 1] = n
         /\ \A i \in DOMAIN s : Append(s, n)[i] = s[i]
<1>1. Append(s, n) \in Seq(Nat) /\ Len(Append(s, n)) = Len(s) + 1 /\ DOMAIN s = 1..Len(s)
  OBVIOUS
<1>2. Append(s, n)[Len(s) + 1] = n
  OBVIOUS
<1>3. \A i \in 1..Len(s) : Append(s, n)[i] = s[i]
  OBVIOUS
<1>4. DOMAIN Append(s, n) = 1..Len(Append(s, n))
  BY <1>1
<1> QED
  BY <1>1, <1>2, <1>3, <1>4

LEMMA ScanInvNext == ScanInv /\ Scan => ScanInv'
<1> SUFFICES ASSUME ScanInv, Scan PROVE ScanInv'
  OBVIOUS
<1> DEFINE error == result[at]
<1>1. /\ result' = result /\ result \in Seq(Nat) /\ at \in DOMAIN result
      /\ error \in Nat /\ at' = at + 1 /\ at' \in 1..(Len(result) + 1)
      /\ min \in Nat /\ res \in Seq(Nat) /\ Slack \in Nat /\ at \in Nat
  BY SlackAssumption DEF ScanInv, Scan
<1>2. CASE error > min /\ UNCHANGED <<min, res>>
  <2>1. \A l \in DOMAIN result : l < at' => min <= result[l] + Slack
    BY <1>1, <1>2 DEF ScanInv
  <2>2. ASSUME NEW center \in DOMAIN result, center >= at, min = result[center] + Slack
        PROVE  center >= at'
    BY <1>1, <1>2, <2>2
  <2> QED
    BY <1>1, <1>2, <2>1, <2>2 DEF ScanInv
<1>3. CASE error + Slack < min /\ Better(error)
  <2>1. min' = error + Slack /\ res' = <<at>> /\ min' < min
    BY <1>3 DEF Better
  <2>2. res' \in Seq(Nat) /\ res' # <<>> /\ DOMAIN res' = {1} /\ res'[1] = at
    BY <1>1, <2>1
  <2>5. min' \in Nat /\ \A i \in DOMAIN res' : i = 1
    BY <1>1, <2>1, <2>2
  <2>3. \A i \in DOMAIN res' : res'[i] \in DOMAIN result /\ result[res'[i]] <= min'
    BY <1>1, <2>1, <2>2
  <2>4. \A l \in DOMAIN result : l < at' => min' <= result[l] + Slack
    <3>1. \A l \in DOMAIN result : l < at => min <= result[l] + Slack
      BY DEF ScanInv
    <3>2. SUFFICES ASSUME NEW l \in DOMAIN result, l < at' PROVE min' <= result[l] + Slack
      OBVIOUS
    <3>3. l \in Nat /\ result[l] \in Nat
      BY <1>1
    <3>4. l < at \/ l = at
      BY <1>1, <3>2, <3>3
    <3>5. CASE l < at
      BY <1>1, <2>1, <3>1, <3>3, <3>5
    <3>6. CASE l = at
      BY <1>1, <2>1, <3>6
    <3> QED
      BY <3>4, <3>5, <3>6
  <2> QED
    BY <1>1, <2>1, <2>2, <2>3, <2>4, <2>5 DEF ScanInv
<1>4. CASE /\ error <= min /\ error + Slack >= min
           /\ res' = Append(res, at)
           /\ UNCHANGED min
  <2>1. /\ res' \in Seq(Nat) /\ Len(res') = Len(res) + 1
        /\ DOMAIN res' = 1..(Len(res) + 1) /\ res'[Len(res) + 1] = at
        /\ \A i \in DOMAIN res : res'[i] = res[i]
    BY <1>1, <1>4, Appended
  <2>2. res' # <<>>
    BY <1>1, <2>1
  <2>3. \A i \in DOMAIN res' : i \in DOMAIN res \/ i = Len(res) + 1
    BY <1>1, <2>1
  <2>4. \A i \in DOMAIN res' : res'[i] \in DOMAIN result /\ result[res'[i]] <= min
    BY <1>1, <1>4, <2>1, <2>3 DEF ScanInv
  <2>5. \A l \in DOMAIN result : l < at' => min <= result[l] + Slack
    BY <1>1, <1>4 DEF ScanInv
  <2> QED
    BY <1>1, <1>4, <2>1, <2>2, <2>4, <2>5 DEF ScanInv
<1> QED
  BY <1>2, <1>3, <1>4 DEF Scan

LEMMA ScanInvGood == ScanInv => MinsAreGood
<1> SUFFICES ASSUME ScanInv, ScanEnded PROVE MinsAreGood
  BY DEF MinsAreGood
<1>1. \A l \in DOMAIN result : l < at /\ result[l] \in Nat
  BY DEF ScanInv, ScanEnded
<1>2. res # <<>>
  BY <1>1 DEF ScanInv
<1>3. \A i \in DOMAIN res : \A l \in DOMAIN result : result[res[i]] <= result[l] + Slack
  BY <1>1, SlackAssumption DEF ScanInv
<1> QED
  BY <1>2, <1>3 DEF MinsAreGood

\* minVec, for all errors: there is a location in the end, and each is as good
\* as the best one up to Slack.
THEOREM MinVecIsGood == MinVecSpec => []MinsAreGood
<1>1. MinVecInit => ScanInv
  BY ScanInvInit
<1>2. ScanInv /\ [Scan]_minVecVars => ScanInv'
  BY ScanInvNext DEF minVecVars, ScanInv
<1>3. ScanInv => MinsAreGood
  BY ScanInvGood
<1> QED
  BY <1>1, <1>2, <1>3, PTL DEF MinVecSpec

-----------------------------------------------------------------------------
LEMMA ProductMonotone ==
  ASSUME NEW m \in Nat, NEW n \in Nat, NEW k \in Nat, m <= n
  PROVE  m * k <= n * k
<1>1. PICK d \in Nat : n = m + d
  BY n - m \in Nat
<1>2. n * k = m * k + d * k /\ d * k \in Nat /\ m * k \in Nat
  BY <1>1
<1> QED
  BY <1>2

LEMMA DivBounds ==
  ASSUME NEW p \in Nat, NEW d \in Nat \ {0}
  PROVE  /\ p \div d \in Nat
         /\ d * (p \div d) <= p
         /\ p < d * (p \div d) + d
  OBVIOUS

\* The scaled area ends within the screen if the area does in both pictures.
LEMMA ScaledInside ==
  ASSUME NEW x \in Nat, NEW length \in Nat, NEW size \in Nat, NEW of \in Nat \ {0},
         x + length <= size, x + length <= of
  PROVE  Scale(x, size, of) \in Nat /\ Scale(x, size, of) + length <= size
<1> DEFINE s == (x * size) \div of
<1>1. x * size \in Nat
  OBVIOUS
<1>2. s \in Nat /\ of * s <= x * size
  BY <1>1, DivBounds
<1>3. Scale(x, size, of) = s
  BY DEF Scale
<1>4. s + length <= size
  <2>1. SUFFICES ASSUME size < s + length PROVE FALSE
    BY <1>2
  <2>2. CASE size <= of
    <3>1. s >= x + 1
      BY <2>1, <1>2
    <3>2. (x + 1) * of <= s * of
      BY <3>1, <1>2, ProductMonotone
    <3>3. size * x <= of * x
      BY <2>2, ProductMonotone
    <3>4. (x + 1) * of = of * x + of /\ s * of = of * s /\ x * size = size * x
          /\ of * x \in Nat
      BY <1>2
    <3> QED
      BY <1>2, <3>2, <3>3, <3>4
  <2>3. CASE of < size
    <3>1. PICK g \in Nat : of = x + length + g
      BY of - (x + length) \in Nat
    <3>2. PICK h \in Nat : s = size + 1 + h - length
      BY <2>1, <1>2, s + length - size - 1 \in Nat
    <3>3. of - length \in Nat /\ s - (size - length) \in Nat /\ of - length >= x
      BY <2>3, <3>1, <3>2
    <3>4. x * size <= (of - length) * size
      BY <3>3, ProductMonotone
    <3>5. of * (size - length + 1) <= of * s
      <4>1. size - length \in Nat /\ size - length + 1 <= s
        BY <2>1, <2>3, <3>1, <1>2
      <4>2. (size - length + 1) * of <= s * of
        BY <4>1, <1>2, ProductMonotone
      <4> QED
        BY <4>1, <4>2, <1>2
    <3>6. length * of <= length * size
      BY <2>3, ProductMonotone
    <3>7. of * (size - length + 1) = of * size - length * of + of
      OBVIOUS
    <3>8. (of - length) * size = of * size - length * size
      OBVIOUS
    <3>9. of * size \in Nat /\ length * of \in Nat /\ length * size \in Nat /\ of * s \in Nat
          /\ x * size \in Nat
      BY <1>2
    <3> QED
      BY <1>2, <3>4, <3>5, <3>6, <3>7, <3>8, <3>9
  <2> QED
    BY <2>2, <2>3
<1> QED
  BY <1>2, <1>3, <1>4

\* search_TEMPLATE reads the error at the original location without a test
\* (tinycv_impl.cc:226): it is inside the matrix, in each direction.
THEOREM OriginalIsCompared ==
  ASSUME NEW x \in Nat, NEW length \in Nat \ {0}, NEW margin \in Nat,
         NEW size \in Nat, NEW of \in Nat \ {0},
         x + length <= size, x + length <= of
  PROVE  LET scaled == Scale(x, size, of)
             from == Begin(scaled, margin)
             count == End(scaled, length, margin, size) - from - length + 1
         IN  scaled - from \in 0..(count - 1)
<1> DEFINE scaled == Scale(x, size, of)
           from == Begin(scaled, margin)
           to == End(scaled, length, margin, size)
<1>1. scaled \in Nat /\ scaled + length <= size
  BY ScaledInside
<1>2. from \in Nat /\ from <= scaled
  BY <1>1 DEF Begin, Larger
<1>3. to \in Nat /\ scaled + length <= to
  BY <1>1 DEF End, Smaller
<1> QED
  BY <1>1, <1>2, <1>3
-----------------------------------------------------------------------------
(* The prepared images                                                       *)

\* Has a number of rows and of columns
Sized(pic) == Cols(pic) \in Nat /\ Rows(pic) \in Nat

LEMMA PictureSized ==
  ASSUME NEW pic \in Seq(Seq(Nat))
  PROVE  Sized(pic)
<1>1. pic # <<>> => pic[1] \in Seq(Nat)
  OBVIOUS
<1> QED
  BY <1>1 DEF Sized, Cols, Rows

\* A row of a picture, and all of them
LEMMA RowsCounted ==
  ASSUME NEW n \in Nat, NEW f, f = [i \in 1..n |-> f[i]]
  PROVE  f \in Seq({f[i] : i \in 1..n}) /\ Len(f) = n /\ (f = <<>> <=> n = 0)
<1>1. f \in Seq({f[i] : i \in 1..n}) /\ Len(f) = n
  BY IsASeq
<1> QED
  BY <1>1

\* What Picture returns
LEMMA PictureFilled ==
  ASSUME NEW width \in Nat, NEW height \in Nat, NEW pic,
         pic = [row \in 1..height |-> pic[row]],
         \A row \in 1..height : pic[row] = [col \in 1..width |-> pic[row][col]]
  PROVE  Sized(pic)
<1>1. Len(pic) = height /\ (pic = <<>> <=> height = 0)
  BY RowsCounted
<1>2. height # 0 => Len(pic[1]) = width
  <2>0. height # 0 => 1 \in 1..height
    OBVIOUS
  <2>1. height # 0 => pic[1] = [col \in 1..width |-> pic[1][col]]
    BY <2>0, Zenon
  <2> QED
    BY <2>1, RowsCounted
<1> QED
  BY <1>1, <1>2 DEF Sized, Cols, Rows

\* The screenshot has memory of its own, the images are pictures, and a gray copy
\* is that of the image of now, wherever it counts as blurred.
Current(image) ==
  image.preped # <<>> =>
    \A x \in 0..(Cols(image.img) - 1), y \in 0..(Rows(image.img) - 1) :
      Has(image.prep_roi, x, y) => Pixel(image.preped, x, y) = Blurred(image.img, x, y)

Kept(image) ==
  /\ image = [img |-> image.img, preped |-> image.preped, prep_roi |-> image.prep_roi]
  /\ Sized(image.img)
  /\ Current(image)

PrepInv ==
  /\ shared = FALSE
  /\ framebuffer \in Screens
  /\ images = [name \in Names |-> images[name]]
  /\ \A name \in Names : Kept(images[name])
  /\ target \in {"screen", "copy"}
  /\ pc # "idle" => needle \in Needles

LEMMA NewIsKept ==
  ASSUME NEW pic, Sized(pic)
  PROVE  Kept(NewImage(pic))
BY DEF Kept, Current, NewImage

LEMMA PrepIsKept ==
  ASSUME PrepInv, NEW name \in Names, NEW roi
  PROVE  Kept(Prep(name, roi)) /\ Prep(name, roi).img = images[name].img
<1> DEFINE image == images[name]
           pic == image.img
           both == Union(image.prep_roi, roi)
           all == IF Area(Whole(pic)) <= 2 * Area(both) THEN Whole(pic) ELSE both
           gray == Picture(Cols(pic), Rows(pic), LAMBDA x, y :
                           IF Has(all, x, y) THEN Blurred(pic, x, y)
                           ELSE 16 * Pixel(pic, x, y))
<1>1. Kept(image) /\ Sized(pic)
  BY DEF PrepInv, Kept
<1>2. CASE IsPreped(image, roi)
  BY <1>1, <1>2 DEF Prep
<1>3. CASE ~IsPreped(image, roi)
  <2>1. Content(name) = pic
    BY DEF Content, PrepInv
  <2>2. Prep(name, roi) = [image EXCEPT !.prep_roi = all, !.preped = gray]
    BY <1>3, <2>1 DEF Prep, Gray, Picture
  <2>3. \A x \in 0..(Cols(pic) - 1), y \in 0..(Rows(pic) - 1) :
          Has(all, x, y) => Pixel(gray, x, y) = Blurred(pic, x, y)
    <3> SUFFICES ASSUME NEW x \in 0..(Cols(pic) - 1), NEW y \in 0..(Rows(pic) - 1),
                        Has(all, x, y)
                 PROVE  Pixel(gray, x, y) = Blurred(pic, x, y)
      OBVIOUS
    <3> HIDE DEF all
    <3>1. /\ x + 1 \in 1..Cols(pic) /\ y + 1 \in 1..Rows(pic)
          /\ (x + 1) - 1 = x /\ (y + 1) - 1 = y
      BY <1>1 DEF Sized
    <3> QED
      BY <3>1 DEF Picture, Pixel
  <2> HIDE DEF all, gray
  <2>4. /\ Prep(name, roi) = [img |-> pic, preped |-> gray, prep_roi |-> all]
    BY <1>1, <2>2 DEF Kept
  <2> QED
    BY <1>1, <2>3, <2>4 DEF Kept, Current
<1> QED
  BY <1>2, <1>3

LEMMA ScaledSized == ASSUME NEW pic PROVE Sized(Scaled(pic))
<1>1. Xres \in Nat /\ Yres \in Nat
  BY ScreensAssumption
<1>2. Sized(Resized(pic))
  <2> DEFINE p == Resized(pic)
  <2>1. /\ p = [row \in 1..Yres |-> p[row]]
        /\ \A row \in 1..Yres : p[row] = [col \in 1..Xres |-> p[row][col]]
    BY DEF Resized, Picture
  <2> HIDE DEF p
  <2>2. Sized(p)
    BY <1>1, <2>1, PictureFilled
  <2> QED
    BY <2>2 DEF p
<1>3. CASE ~(Rows(pic) > Yres \/ Cols(pic) > Xres)
  <2> DEFINE p == Scaled(pic)
  <2>1. /\ p = [row \in 1..Yres |-> p[row]]
        /\ \A row \in 1..Yres : p[row] = [col \in 1..Xres |-> p[row][col]]
    BY <1>3 DEF Scaled, Picture
  <2> HIDE DEF p
  <2>2. Sized(p)
    BY <1>1, <2>1, PictureFilled
  <2> QED
    BY <2>2 DEF p
<1> QED
  BY <1>2, <1>3 DEF Scaled

LEMMA ReplacedSized ==
  ASSUME NEW pic, Sized(pic), NEW areas
  PROVE  Sized(ReplaceRects(pic, areas))
<1> DEFINE p == ReplaceRects(pic, areas)
           width == Cols(pic)
           height == Rows(pic)
<1>1. width \in Nat /\ height \in Nat
  BY DEF Sized
<1>2. /\ p = [row \in 1..height |-> p[row]]
      /\ \A row \in 1..height : p[row] = [col \in 1..width |-> p[row][col]]
  BY DEF ReplaceRects, Picture
<1> HIDE DEF p, width, height
<1>3. Sized(p)
  BY <1>1, <1>2, PictureFilled
<1> QED
  BY <1>3 DEF p

LEMMA PrepInit == Init => PrepInv
<1> SUFFICES ASSUME Init PROVE PrepInv
  OBVIOUS
<1>1. ASSUME NEW name \in Names PROVE Kept(images[name])
  <2>1. CASE name \in {"screen", "copy"}
    <3>1. images[name] = NewImage(<<>>) /\ Sized(<<>>)
      BY <2>1 DEF Init, Sized, Cols, Rows
    <3> QED
      BY <3>1, NewIsKept
  <2>2. CASE name \notin {"screen", "copy"}
    <3> DEFINE needles == CHOOSE n \in Needles : n.name = name
    <3>1. \E n \in Needles : n.name = name
      BY <2>2 DEF Names
    <3>2. needles \in Needles
      BY <3>1
    <3>3. images[name] = NewImage(needles.picture)
      BY <2>2 DEF Init
    <3> HIDE DEF needles
    <3>4. Sized(needles.picture)
      BY <3>2, NeedlesAssumption, PictureSized DEF IsPicture
    <3> QED
      BY <3>3, <3>4, NewIsKept
  <2> QED
    BY <2>1, <2>2
<1>2. images = [name \in Names |-> images[name]]
  BY DEF Init
<1> QED
  BY <1>1, <1>2 DEF Init, PrepInv

\* An image is made anew.
LEMMA MadeIsKept ==
  ASSUME PrepInv, NEW name \in Names, NEW pic, Sized(pic),
         images' = [images EXCEPT ![name] = NewImage(pic)]
  PROVE  /\ images' = [n \in Names |-> images'[n]]
         /\ \A n \in Names : Kept(images'[n])
<1>1. images' = [n \in Names |-> IF n = name THEN NewImage(pic) ELSE images[n]]
  BY DEF PrepInv
<1> QED
  BY <1>1, NewIsKept DEF PrepInv

\* Each step keeps what the search relies on.
LEMMA PrepNext ==
  ASSUME PrepInv, Next
  PROVE  PrepInv'
<1> USE DEF searchVars
<1>1. CASE Update
  <2>1. \A name \in Names : Kept(images'[name])
    BY <1>1 DEF Update, PrepInv
  <2> QED
    BY <1>1, <2>1 DEF Update, PrepInv
<1>2. CASE Capture
  <2> DEFINE pic == Scaled(framebuffer)
  <2>1. images' = [images EXCEPT !["screen"] = NewImage(pic)] /\ Sized(pic) /\ "screen" \in Names
    BY <1>2, ScaledSized DEF Capture, Names
  <2> HIDE DEF pic
  <2>2. /\ images' = [n \in Names |-> images'[n]]
        /\ \A n \in Names : Kept(images'[n])
    BY <2>1, MadeIsKept
  <2> QED
    BY <1>2, <2>2 DEF Capture, Shares, PrepInv
<1>3. ASSUME NEW n \in Needles, Search(n) PROVE PrepInv'
  <2>1. CASE n.exclude = {}
    <3>1. UNCHANGED images /\ target' = "screen"
      BY <1>3, <2>1 DEF Search
    <3> QED
      BY <1>3, <3>1 DEF Search, PrepInv
  <2>2. CASE n.exclude # {}
    <3> DEFINE pic == ReplaceRects(Content("screen"), n.exclude)
    <3>1. "screen" \in Names /\ "copy" \in Names
      BY DEF Names
    <3>2. Sized(Content("screen"))
      BY <3>1 DEF Content, PrepInv, Kept
    <3>3. images' = [images EXCEPT !["copy"] = NewImage(pic)] /\ Sized(pic) /\ target' = "copy"
      BY <1>3, <2>2, <3>2, ReplacedSized DEF Search
    <3> HIDE DEF pic
    <3>4. /\ images' = [name \in Names |-> images'[name]]
          /\ \A name \in Names : Kept(images'[name])
      BY <3>1, <3>3, MadeIsKept
    <3> QED
      BY <1>3, <3>3, <3>4 DEF Search, PrepInv
  <2> QED
    BY <2>1, <2>2
<1>4. CASE Match
  <2> DEFINE scene == Prep(target, SceneRoi)
             object == Prep(needle.name, a)
  <2>1. target \in Names /\ needle \in Needles /\ needle.name \in Names
    BY <1>4 DEF Match, PrepInv, Names
  <2>2. Kept(scene) /\ Kept(object)
    BY <2>1, PrepIsKept
  <2>3. images' = [images EXCEPT ![target] = scene, ![needle.name] = object]
    BY <1>4 DEF Match
  <2> HIDE DEF scene, object
  <2>4. images' = [name \in Names |-> IF name = needle.name THEN object
                                      ELSE IF name = target THEN scene ELSE images[name]]
    BY <2>1, <2>3 DEF PrepInv
  <2>5. \A name \in Names : Kept(images'[name])
    BY <2>2, <2>4 DEF PrepInv
  <2>6. images' = [name \in Names |-> images'[name]]
    BY <2>4
  <2> QED
    BY <1>4, <2>1, <2>5, <2>6 DEF Match, PrepInv
<1>5. CASE Fail \/ FindMins \/ Choose \/ NextNeedle
  BY <1>5 DEF Fail, FindMins, Choose, NextNeedle, PrepInv
<1> QED
  BY <1>1, <1>2, <1>3, <1>4, <1>5 DEF Next

LEMMA PrepStutter ==
  ASSUME PrepInv, UNCHANGED vars
  PROVE  PrepInv'
BY DEF vars, PrepInv

\* A gray copy that was prepared by an earlier search is still that of the image,
\* for all pictures, needles and searches before (Image::prep).
THEOREM PreparedIsCurrent == Spec => []PrepIsCurrent
<1>1. PrepInv => PrepIsCurrent
  <2> SUFFICES ASSUME PrepInv, NEW name \in Names, images[name].preped # <<>>,
                      NEW x \in 0..(Cols(Content(name)) - 1),
                      NEW y \in 0..(Rows(Content(name)) - 1),
                      Has(images[name].prep_roi, x, y)
               PROVE  Pixel(images[name].preped, x, y) = Blurred(Content(name), x, y)
    BY DEF PrepIsCurrent
  <2>1. Content(name) = images[name].img /\ Current(images[name])
    BY DEF PrepInv, Content, Kept
  <2> QED
    BY <2>1 DEF Current
<1>2. PrepInv /\ [Next]_vars => PrepInv'
  BY PrepNext, PrepStutter
<1> QED
  BY <1>1, <1>2, PrepInit, PTL DEF Spec

\* What was captured stays as it was while the console draws into its own picture
\* (image_scale and enqueue_screenshot: the memory is never shared).
THEOREM ScreenshotIsOwn == Spec => ScreenshotStands
<1>1. PrepInv /\ PrepInv' => (images' = images => Content("screen")' = Content("screen"))
  BY DEF PrepInv, Content
<1>2. PrepInv /\ [Next]_vars => PrepInv'
  BY PrepNext, PrepStutter
<1> QED
  BY <1>1, <1>2, PrepInit, PTL DEF Spec, ScreenshotStands
-----------------------------------------------------------------------------
(* Sums                                                                      *)

LEMMA LeastNumber ==
  ASSUME NEW S \in SUBSET Nat, S # {}
  PROVE  \E n \in S : \A m \in S : n <= m
<1>1. PICK n \in S : \A m \in S : <<m, n>> \notin OpToRel(<, Nat)
  BY WFMin, NatLessThanWellFounded
<1>2. \A m \in S : ~(m < n)
  BY <1>1 DEF OpToRel
<1> QED
  BY <1>2

\* The element that is added next, and what that adds to the sum of the others
Pick(s) == CHOOSE i \in s : TRUE
Added(f, g, s) == IF s = {} THEN 0 ELSE f[Pick(s)] + g[s \ {Pick(s)}]

LEMMA PickIsSmaller ==
  ASSUME NEW S, IsFiniteSet(S), NEW s \in SUBSET S, s # {}
  PROVE  /\ Pick(s) \in S /\ s \ {Pick(s)} \in SUBSET S
         /\ Cardinality(s) \in Nat /\ Cardinality(s \ {Pick(s)}) \in Nat
         /\ Cardinality(s \ {Pick(s)}) = Cardinality(s) - 1
<1>1. Pick(s) \in s
  BY DEF Pick
<1>2. IsFiniteSet(s)
  BY FS_Subset
<1>3. IsFiniteSet(s \ {Pick(s)}) /\ Cardinality(s \ {Pick(s)}) = Cardinality(s) - 1
  BY <1>1, <1>2, FS_RemoveElement
<1> QED
  BY <1>1, <1>2, <1>3, FS_CardinalityType

\* The sum over each set of indices is defined: the recursion of SumFunction has a
\* solution.
LEMMA SumExists ==
  ASSUME NEW S, IsFiniteSet(S), NEW f \in [S -> Nat]
  PROVE  \E g \in [SUBSET S -> Nat] : \A s \in SUBSET S : g[s] = Added(f, g, s)
<1> DEFINE IsSum(g, n) ==
             \A s \in SUBSET S : Cardinality(s) < n => g[s] = Added(f, g, s)
           Failing == { n \in Nat : ~ \E g \in [SUBSET S -> Nat] : IsSum(g, n) }
<1>0. \A s \in SUBSET S : Cardinality(s) \in Nat /\ Cardinality(s) <= Cardinality(S)
  BY FS_Subset, FS_CardinalityType
<1>1. ASSUME NEW n \in Failing, \A m \in Failing : n <= m
      PROVE  FALSE
  <2>1. n # 0
    <3>1. IsSum([s \in SUBSET S |-> 0], 0)
      BY <1>0
    <3> QED
      BY <3>1
  <2>2. n - 1 \in Nat /\ n - 1 \notin Failing
    <3>1. n \in Nat
      OBVIOUS
    <3>2. n - 1 \in Nat /\ ~(n <= n - 1)
      BY <2>1, <3>1
    <3> HIDE DEF Failing
    <3> QED
      BY <1>1, <3>2
  <2>3. PICK g \in [SUBSET S -> Nat] : IsSum(g, n - 1)
    BY <2>2
  <2> DEFINE h == [s \in SUBSET S |-> IF Cardinality(s) < n THEN Added(f, g, s) ELSE 0]
  <2>4. ASSUME NEW s \in SUBSET S
        PROVE  Added(f, g, s) \in Nat
    <3>1. s # {} => Pick(s) \in S /\ s \ {Pick(s)} \in SUBSET S
      BY PickIsSmaller
    <3> QED
      BY <3>1 DEF Added
  <2>5. h \in [SUBSET S -> Nat]
    BY <2>4
  <2>6. ASSUME NEW s \in SUBSET S, Cardinality(s) < n
        PROVE  h[s] = Added(f, h, s)
    <3>1. h[s] = Added(f, g, s)
      BY <2>6
    <3>2. CASE s = {}
      BY <3>1, <3>2 DEF Added
    <3>3. CASE s # {}
      <4> DEFINE t == s \ {Pick(s)}
      <4>1. t \in SUBSET S /\ Cardinality(t) < n - 1 /\ Cardinality(t) < n
        BY <1>0, <2>2, <2>6, <3>3, PickIsSmaller
      <4>2. g[t] = Added(f, g, t) /\ h[t] = Added(f, g, t)
        BY <2>3, <4>1
      <4> QED
        BY <3>1, <3>3, <4>2 DEF Added
    <3> QED
      BY <3>2, <3>3
  <2> HIDE DEF h
  <2>7. IsSum(h, n)
    BY <2>6
  <2> QED
    BY <2>5, <2>7
<1>2. Failing = {}
  <2> HIDE DEF Failing
  <2>1. Failing \in SUBSET Nat
    BY DEF Failing
  <2> QED
    BY <1>1, <2>1, LeastNumber
<1>3. Cardinality(S) + 1 \in Nat
  BY FS_CardinalityType
<1>4. PICK g \in [SUBSET S -> Nat] : IsSum(g, Cardinality(S) + 1)
  BY <1>2, <1>3
<1>5. \A s \in SUBSET S : Cardinality(s) < Cardinality(S) + 1
  BY <1>0, <1>3
<1> QED
  BY <1>4, <1>5

\* The sum of natural numbers is one.
LEMMA SumIsNatural ==
  ASSUME NEW S, IsFiniteSet(S), NEW f \in [S -> Nat]
  PROVE  SumFunction(f) \in Nat
<1> DEFINE Step(g) == [s \in SUBSET S |-> Added(f, g, s)]
           sum == CHOOSE g : g = Step(g)
<1>1. SumFunction(f) = sum[S]
  BY DEF SumFunction, SumFunctionOnSet, FoldFunctionOnSet, MapThenFoldSet, Added, Pick
<1>2. PICK g \in [SUBSET S -> Nat] : \A s \in SUBSET S : g[s] = Added(f, g, s)
  BY SumExists
<1>3. g = Step(g)
  BY <1>2
<1>4. sum = Step(sum)
  BY <1>3
<1> HIDE DEF sum
<1>5. \A s \in SUBSET S : sum[s] = Added(f, sum, s)
  BY <1>4
<1> DEFINE Failing == { n \in Nat : \E s \in SUBSET S : Cardinality(s) = n /\ sum[s] \notin Nat }
<1>6. ASSUME NEW n \in Failing, \A m \in Failing : n <= m
      PROVE  FALSE
  <2>1. PICK s \in SUBSET S : Cardinality(s) = n /\ sum[s] \notin Nat
    OBVIOUS
  <2>2. s # {}
    <3>1. sum[s] = Added(f, sum, s)
      BY <1>5
    <3>2. s = {} => Added(f, sum, s) = 0
      BY DEF Added
    <3> QED
      BY <2>1, <3>1, <3>2
  <2> DEFINE t == s \ {Pick(s)}
  <2>3. Pick(s) \in S /\ t \in SUBSET S /\ Cardinality(t) \in Nat /\ Cardinality(t) = n - 1 /\ n \in Nat
    BY <2>1, <2>2, PickIsSmaller
  <2>4. Cardinality(t) \notin Failing
    <3> HIDE DEF Failing, t
    <3> QED
      BY <1>6, <2>3
  <2>5. sum[t] \in Nat
    BY <2>3, <2>4
  <2>6. sum[s] = f[Pick(s)] + sum[t]
    BY <1>5, <2>2 DEF Added
  <2>7. f[Pick(s)] \in Nat
    BY <2>3
  <2> HIDE DEF t
  <2> QED
    BY <2>1, <2>5, <2>6, <2>7
<1>7. Failing = {}
  <2> HIDE DEF Failing
  <2>1. Failing \in SUBSET Nat
    BY DEF Failing
  <2> QED
    BY <1>6, <2>1, LeastNumber
<1>8. Cardinality(S) \in Nat
  BY FS_CardinalityType
<1>9. sum[S] \in Nat
  BY <1>7, <1>8
<1> QED
  BY <1>1, <1>9

LEMMA SquareIsNatural == ASSUME NEW i \in Int PROVE i * i \in Nat
<1>1. CASE i \in Nat
  BY <1>1
<1>2. CASE -i \in Nat
  <2>1. i * i = (-i) * (-i)
    OBVIOUS
  <2> QED
    BY <1>2, <2>1
<1> QED
  BY <1>1, <1>2
-----------------------------------------------------------------------------
(* Pictures                                                                  *)

LEMMA PictureShape ==
  ASSUME NEW pic, IsPicture(pic)
  PROVE  /\ Cols(pic) \in Nat \ {0} /\ Rows(pic) \in Nat \ {0}
         /\ \A x \in 0..(Cols(pic) - 1), y \in 0..(Rows(pic) - 1) : Pixel(pic, x, y) \in Nat
<1>1. /\ pic \in Seq(Seq(Nat)) /\ pic # <<>> /\ pic[1] \in Seq(Nat) /\ pic[1] # <<>>
      /\ \A row \in 1..Len(pic) : pic[row] \in Seq(Nat) /\ Len(pic[row]) = Len(pic[1])
  BY DEF IsPicture
<1>2. Cols(pic) = Len(pic[1]) /\ Rows(pic) = Len(pic) /\ Len(pic) \in Nat \ {0}
      /\ Len(pic[1]) \in Nat \ {0}
  BY <1>1 DEF Cols, Rows
<1>3. ASSUME NEW x \in 0..(Cols(pic) - 1), NEW y \in 0..(Rows(pic) - 1)
      PROVE  Pixel(pic, x, y) \in Nat
  <2>1. y + 1 \in 1..Len(pic) /\ x + 1 \in 1..Len(pic[y + 1])
    BY <1>1, <1>2
  <2>2. pic[y + 1] \in Seq(Nat)
    BY <1>1, <2>1
  <2> QED
    BY <2>1, <2>2 DEF Pixel
<1> QED
  BY <1>2, <1>3

LEMMA FunctionIsSeq ==
  ASSUME NEW S, NEW n \in Nat, NEW f \in [1..n -> S]
  PROVE  f \in Seq(S) /\ Len(f) = n /\ DOMAIN f = 1..n
<1>1. f \in Seq(S)
  OBVIOUS
<1>2. DOMAIN f = 1..n /\ DOMAIN f = 1..Len(f) /\ Len(f) \in Nat
  BY <1>1
<1> QED
  BY <1>1, <1>2

\* What Picture returns, with the values in it
LEMMA PictureMade ==
  ASSUME NEW width \in Nat \ {0}, NEW height \in Nat \ {0}, NEW pic,
         pic = [row \in 1..height |-> pic[row]],
         \A row \in 1..height : pic[row] = [col \in 1..width |-> pic[row][col]],
         \A row \in 1..height, col \in 1..width : pic[row][col] \in Nat
  PROVE  IsPicture(pic) /\ Cols(pic) = width /\ Rows(pic) = height
<1>1. ASSUME NEW row \in 1..height
      PROVE  pic[row] \in Seq(Nat) /\ Len(pic[row]) = width
  <2>1. pic[row] = [col \in 1..width |-> pic[row][col]]
    BY Zenon
  <2>2. \A col \in 1..width : pic[row][col] \in Nat
    OBVIOUS
  <2> DEFINE line == pic[row]
  <2> HIDE DEF line
  <2>3. line = [col \in 1..width |-> line[col]] /\ \A col \in 1..width : line[col] \in Nat
    BY <2>1, <2>2 DEF line
  <2>4. line \in [1..width -> Nat]
    BY <2>3
  <2>5. line \in Seq(Nat) /\ Len(line) = width
    BY <2>4, FunctionIsSeq
  <2> QED
    BY <2>5 DEF line
<1>2. \A row \in 1..height : pic[row] \in Seq(Nat)
  BY <1>1
<1>3. pic \in [1..height -> Seq(Nat)]
  BY <1>2
<1>4. pic \in Seq(Seq(Nat)) /\ Len(pic) = height /\ DOMAIN pic = 1..height /\ 1 \in 1..height
  BY <1>3
<1>5. pic # <<>> /\ pic[1] # <<>>
  BY <1>1, <1>4
<1> QED
  BY <1>1, <1>4, <1>5 DEF IsPicture, Cols, Rows

LEMMA QuotientBelow ==
  ASSUME NEW x \in Nat, NEW n \in Nat, NEW m \in Nat \ {0}, x < m, n # 0
  PROVE  (x * n) \div m \in 0..(n - 1)
<1> DEFINE q == (x * n) \div m
<1>1. x * n \in Nat
  OBVIOUS
<1>2. q \in Nat /\ m * q <= x * n
  BY <1>1, DivBounds
<1>3. x * n < m * n
  <2>1. (x + 1) * n <= m * n
    BY ProductMonotone
  <2>2. (x + 1) * n = x * n + n
    OBVIOUS
  <2> QED
    BY <1>1, <2>1, <2>2
<1>4. SUFFICES ASSUME q >= n PROVE FALSE
  BY <1>2
<1>5. n * m <= q * m
  BY <1>2, <1>4, ProductMonotone
<1>6. n * m = m * n /\ q * m = m * q
  BY <1>2
<1> HIDE DEF q
<1> QED
  BY <1>1, <1>2, <1>3, <1>5, <1>6

LEMMA ScaledIsPicture ==
  ASSUME NEW pic, IsPicture(pic)
  PROVE  IsPicture(Scaled(pic))
<1>1. Xres \in Nat \ {0} /\ Yres \in Nat \ {0}
  BY ScreensAssumption
<1>2. CASE Rows(pic) > Yres \/ Cols(pic) > Xres
  <2> DEFINE p == Resized(pic)
  <2>1. /\ p = [row \in 1..Yres |-> p[row]]
        /\ \A row \in 1..Yres : p[row] = [col \in 1..Xres |-> p[row][col]]
    BY DEF Resized, Picture
  <2>2. ASSUME NEW row \in 1..Yres, NEW col \in 1..Xres
        PROVE  p[row][col] \in Nat
    <3> DEFINE x == ((col - 1) * Cols(pic)) \div Xres
               y == ((row - 1) * Rows(pic)) \div Yres
    <3>1. p[row][col] = Pixel(pic, x, y)
      BY DEF Resized, Picture
    <3>2. /\ x \in 0..(Cols(pic) - 1) /\ y \in 0..(Rows(pic) - 1)
      <4>1. col - 1 \in Nat /\ col - 1 < Xres /\ row - 1 \in Nat /\ row - 1 < Yres
        BY <1>1
      <4> QED
        BY <1>1, <4>1, PictureShape, QuotientBelow
    <3> HIDE DEF x, y, p
    <3> QED
      BY <3>1, <3>2, PictureShape
  <2> HIDE DEF p
  <2>3. IsPicture(p)
    BY <1>1, <2>1, <2>2, PictureMade
  <2> QED
    BY <1>2, <2>3 DEF Scaled, p
<1>3. CASE ~(Rows(pic) > Yres \/ Cols(pic) > Xres)
  <2> DEFINE p == Scaled(pic)
  <2>1. /\ p = [row \in 1..Yres |-> p[row]]
        /\ \A row \in 1..Yres : p[row] = [col \in 1..Xres |-> p[row][col]]
    BY <1>3 DEF Scaled, Picture
  <2>2. ASSUME NEW row \in 1..Yres, NEW col \in 1..Xres
        PROVE  p[row][col] \in Nat
    <3>1. p[row][col] = IF col - 1 < Cols(pic) /\ row - 1 < Rows(pic)
                        THEN Pixel(pic, col - 1, row - 1) ELSE Background
      BY <1>3 DEF Scaled, Picture
    <3>2. /\ col - 1 < Cols(pic) => col - 1 \in 0..(Cols(pic) - 1)
          /\ row - 1 < Rows(pic) => row - 1 \in 0..(Rows(pic) - 1)
      BY <1>1, PictureShape
    <3> HIDE DEF p
    <3> QED
      BY <3>1, <3>2, PictureShape DEF Background
  <2> HIDE DEF p
  <2>3. IsPicture(p)
    BY <1>1, <2>1, <2>2, PictureMade
  <2> QED
    BY <2>3 DEF p
<1> QED
  BY <1>2, <1>3

LEMMA ReplacedIsPicture ==
  ASSUME NEW pic, IsPicture(pic), NEW areas
  PROVE  IsPicture(ReplaceRects(pic, areas))
<1> DEFINE p == ReplaceRects(pic, areas)
           width == Cols(pic)
           height == Rows(pic)
<1>1. width \in Nat \ {0} /\ height \in Nat \ {0}
  BY PictureShape
<1>2. /\ p = [row \in 1..height |-> p[row]]
      /\ \A row \in 1..height : p[row] = [col \in 1..width |-> p[row][col]]
  BY DEF ReplaceRects, Picture
<1>3. ASSUME NEW row \in 1..height, NEW col \in 1..width
      PROVE  p[row][col] \in Nat
  <2>1. p[row][col] \in {0, Pixel(pic, col - 1, row - 1)}
    BY DEF ReplaceRects, Picture
  <2>2. col - 1 \in 0..(width - 1) /\ row - 1 \in 0..(height - 1)
    BY <1>1
  <2>3. Pixel(pic, col - 1, row - 1) \in Nat
    BY <2>2, PictureShape
  <2> HIDE DEF p
  <2> QED
    BY <2>1, <2>3
<1> HIDE DEF p, width, height
<1>4. IsPicture(p)
  BY <1>1, <1>2, <1>3, PictureMade
<1> QED
  BY <1>4 DEF p

\* Every blurred pixel is a number, at the edges too.
LEMMA BlurredIsNatural ==
  ASSUME NEW pic, IsPicture(pic),
         NEW x \in 0..(Cols(pic) - 1), NEW y \in 0..(Rows(pic) - 1)
  PROVE  Blurred(pic, x, y) \in Nat
<1> DEFINE S == (-1..1) \X (-1..1)
           f == [d \in S |->
                   Weight(d[1]) * Weight(d[2])
                   * Pixel(pic, Reflected(x + d[1], Cols(pic)), Reflected(y + d[2], Rows(pic)))]
<1>1. IsFiniteSet(S)
  <2>1. IsFiniteSet(-1..1)
    BY -1 \in Int /\ 1 \in Int, FS_Interval
  <2> QED
    BY <2>1, FS_Product
<1>2. ASSUME NEW d \in S PROVE f[d] \in Nat
  <2>1. /\ d[1] \in -1..1 /\ d[2] \in -1..1
        /\ Cols(pic) \in Nat \ {0} /\ Rows(pic) \in Nat \ {0}
    BY PictureShape
  <2>2. Reflected(x + d[1], Cols(pic)) \in 0..(Cols(pic) - 1)
    BY <2>1 DEF Reflected
  <2>3. Reflected(y + d[2], Rows(pic)) \in 0..(Rows(pic) - 1)
    BY <2>1 DEF Reflected
  <2>4. Pixel(pic, Reflected(x + d[1], Cols(pic)), Reflected(y + d[2], Rows(pic))) \in Nat
    BY <2>2, <2>3, PictureShape
  <2>5. Weight(d[1]) * Weight(d[2]) \in Nat
    BY DEF Weight
  <2> QED
    BY <2>4, <2>5
<1>3. f \in [S -> Nat]
  BY <1>2
<1> HIDE DEF S, f
<1>4. SumFunction(f) \in Nat
  BY <1>1, <1>3, SumIsNatural
<1> QED
  BY <1>4 DEF Blurred, S, f

\* A picture that is blurred everywhere
LEMMA BlurredPixels ==
  ASSUME NEW pic, IsPicture(pic),
         NEW x \in 0..(Cols(pic) - 1), NEW y \in 0..(Rows(pic) - 1)
  PROVE  Pixel(BlurredPicture(pic), x, y) = Blurred(pic, x, y)
<1>1. x + 1 \in 1..Cols(pic) /\ y + 1 \in 1..Rows(pic) /\ (x + 1) - 1 = x /\ (y + 1) - 1 = y
  BY PictureShape
<1> QED
  BY <1>1 DEF BlurredPicture, Picture, Pixel
-----------------------------------------------------------------------------
(* Where the needle is compared                                              *)

\* A location of a matrix, as a number and as a row and a column
LEMMA LocationCounted ==
  ASSUME NEW width \in Nat \ {0}, NEW height \in Nat \ {0},
         NEW x \in 0..(width - 1), NEW y \in 0..(height - 1)
  PROVE  y * width + x + 1 \in 1..(width * height)
<1>1. (y + 1) * width <= height * width
  BY ProductMonotone
<1>2. (y + 1) * width = y * width + width /\ height * width = width * height
      /\ y * width \in Nat /\ width * height \in Nat
  OBVIOUS
<1> QED
  BY <1>1, <1>2

LEMMA LocationPlaced ==
  ASSUME NEW width \in Nat \ {0}, NEW height \in Nat \ {0}, NEW k \in 1..(width * height)
  PROVE  (k - 1) % width \in 0..(width - 1) /\ (k - 1) \div width \in 0..(height - 1)
<1> DEFINE q == (k - 1) \div width
           r == (k - 1) % width
<1>1. k - 1 \in Nat /\ k - 1 < width * height
  <2>1. width * height \in Nat
    OBVIOUS
  <2> QED
    BY <2>1
<1>2. q \in Nat /\ width * q <= k - 1 /\ r \in 0..(width - 1)
  BY <1>1, DivBounds
<1>3. q < height
  <2>1. SUFFICES ASSUME height <= q PROVE FALSE
    BY <1>2
  <2>2. height * width <= q * width
    BY <1>2, <2>1, ProductMonotone
  <2>3. height * width = width * height /\ q * width = width * q
    BY <1>2
  <2> HIDE DEF q
  <2> QED
    BY <1>1, <1>2, <2>2, <2>3
<1> QED
  BY <1>2, <1>3

\* One direction of the part of the screen that is searched
LEMMA RangeCompared ==
  ASSUME NEW x \in Nat, NEW length \in Nat \ {0}, NEW margin \in Nat,
         NEW size \in Nat, NEW of \in Nat \ {0},
         x + length <= size, x + length <= of
  PROVE  LET scaled == Scale(x, size, of)
             from == Begin(scaled, margin)
             to == End(scaled, length, margin, size)
         IN  /\ scaled \in Nat /\ from \in Nat /\ to \in Nat
             /\ to <= size
             /\ to - from - length + 1 \in Nat \ {0}
             /\ scaled - from \in 0..(to - from - length)
<1> DEFINE scaled == Scale(x, size, of)
           from == Begin(scaled, margin)
           to == End(scaled, length, margin, size)
<1>1. scaled \in Nat /\ scaled + length <= size
  BY ScaledInside
<1>2. from \in Nat /\ from <= scaled
  BY <1>1 DEF Begin, Larger
<1>3. to \in Nat /\ scaled + length <= to /\ to <= size
  BY <1>1 DEF End, Smaller
<1> HIDE DEF scaled, from, to
<1>4. to - from - length + 1 \in Nat \ {0} /\ scaled - from \in 0..(to - from - length)
  BY <1>1, <1>2, <1>3
<1> QED
  BY <1>1, <1>2, <1>3, <1>4 DEF scaled, from, to

\* The search has an area of a needle that fits into the screen.
Placeable ==
  /\ needle \in Needles
  /\ IsPicture(Scene)
  /\ Object = needle.picture
  /\ InRange(Scene, a)

\* The part that is searched lies within the screen and has room for the area;
\* each location is in it, and the original one is a location.
LEMMA Placement ==
  ASSUME Placeable
  PROVE  /\ a.x \in Nat /\ a.y \in Nat /\ a.width \in Nat \ {0} /\ a.height \in Nat \ {0}
         /\ InRange(Object, a) /\ IsPicture(Object)
         /\ scene_x \in Nat /\ scene_y \in Nat
         /\ SceneRoi.width \in Nat /\ SceneRoi.height \in Nat
         /\ SceneRoi.x = scene_x /\ SceneRoi.y = scene_y
         /\ scene_x + SceneRoi.width <= Cols(Scene)
         /\ scene_y + SceneRoi.height <= Rows(Scene)
         /\ result_width \in Nat \ {0} /\ result_height \in Nat \ {0}
         /\ result_width = SceneRoi.width - a.width + 1
         /\ result_height = SceneRoi.height - a.height + 1
         /\ Center \in Locations
         /\ \A k \in Locations : /\ PointOf(k).x \in 0..(result_width - 1)
                                 /\ PointOf(k).y \in 0..(result_height - 1)
<1>1. /\ a.x \in Nat /\ a.y \in Nat /\ a.width \in Nat \ {0} /\ a.height \in Nat \ {0}
      /\ needle.margin \in Nat
      /\ InRange(Object, a) /\ IsPicture(Object) /\ IsPicture(Scene) /\ InRange(Scene, a)
  BY NeedlesAssumption DEF NeedlesAssumption, Placeable, a
<1>2. /\ Cols(Scene) \in Nat \ {0} /\ Rows(Scene) \in Nat \ {0}
      /\ Cols(Object) \in Nat \ {0} /\ Rows(Object) \in Nat \ {0}
  BY <1>1, PictureShape
<1>3. /\ a.x + a.width <= Cols(Scene) /\ a.x + a.width <= Cols(Object)
      /\ a.y + a.height <= Rows(Scene) /\ a.y + a.height <= Rows(Object)
  BY <1>1 DEF InRange
<1> DEFINE to_x == End(scaled_x, a.width, needle.margin, Cols(Scene))
           to_y == End(scaled_y, a.height, needle.margin, Rows(Scene))
<1>4. /\ scaled_x \in Nat /\ scene_x \in Nat /\ to_x \in Nat /\ to_x <= Cols(Scene)
      /\ to_x - scene_x - a.width + 1 \in Nat \ {0}
      /\ scaled_x - scene_x \in 0..(to_x - scene_x - a.width)
  <2> HIDE DEF a, Scene, Object
  <2> QED
    BY <1>1, <1>2, <1>3, RangeCompared DEF scaled_x, scene_x
<1>5. /\ scaled_y \in Nat /\ scene_y \in Nat /\ to_y \in Nat /\ to_y <= Rows(Scene)
      /\ to_y - scene_y - a.height + 1 \in Nat \ {0}
      /\ scaled_y - scene_y \in 0..(to_y - scene_y - a.height)
  BY <1>1, <1>2, <1>3, RangeCompared DEF scaled_y, scene_y
<1>6. /\ SceneRoi.x = scene_x /\ SceneRoi.y = scene_y
      /\ SceneRoi.width = to_x - scene_x /\ SceneRoi.height = to_y - scene_y
  BY DEF SceneRoi, Rect
<1> HIDE DEF to_x, to_y
<1>7. /\ result_width = SceneRoi.width - a.width + 1
      /\ result_height = SceneRoi.height - a.height + 1
  BY DEF result_width, result_height
<1>8. /\ result_width \in Nat \ {0} /\ result_height \in Nat \ {0}
      /\ SceneRoi.width \in Nat /\ SceneRoi.height \in Nat
      /\ scene_x + SceneRoi.width <= Cols(Scene) /\ scene_y + SceneRoi.height <= Rows(Scene)
      /\ scaled_x - scene_x \in 0..(result_width - 1)
      /\ scaled_y - scene_y \in 0..(result_height - 1)
  BY <1>1, <1>2, <1>4, <1>5, <1>6, <1>7
<1>9. Center \in Locations
  BY <1>8, LocationCounted DEF Center, Locations
<1>10. ASSUME NEW k \in Locations
       PROVE  PointOf(k).x \in 0..(result_width - 1) /\ PointOf(k).y \in 0..(result_height - 1)
  BY <1>8, LocationPlaced DEF PointOf, Locations
<1> QED
  BY <1>1, <1>4, <1>5, <1>6, <1>7, <1>8, <1>9, <1>10
-----------------------------------------------------------------------------
(* The errors                                                                *)

\* The error of an area of the object against the scene from a point on
ErrorAt(scene, object, area, x, y) ==
  SumFunction(
    [d \in (0..(area.width - 1)) \X (0..(area.height - 1)) |->
       LET diff == Pixel(scene, x + d[1], y + d[2]) - Pixel(object, area.x + d[1], area.y + d[2])
       IN  diff * diff])

LEMMA SseIsError ==
  ASSUME NEW scene, NEW object, NEW k
  PROVE  Sse(scene, object, k)
         = ErrorAt(scene, object, a, scene_x + PointOf(k).x, scene_y + PointOf(k).y)
BY DEF Sse, ErrorAt

\* It depends on the pixels compared only.
LEMMA ErrorsAgree ==
  ASSUME NEW scene1, NEW scene2, NEW object1, NEW object2, NEW area, NEW x, NEW y,
         \A i \in 0..(area.width - 1), j \in 0..(area.height - 1) :
           /\ Pixel(scene1, x + i, y + j) = Pixel(scene2, x + i, y + j)
           /\ Pixel(object1, area.x + i, area.y + j) = Pixel(object2, area.x + i, area.y + j)
  PROVE  ErrorAt(scene1, object1, area, x, y) = ErrorAt(scene2, object2, area, x, y)
<1> DEFINE S == (0..(area.width - 1)) \X (0..(area.height - 1))
           Error(scene, object) ==
             [d \in S |->
                (Pixel(scene, x + d[1], y + d[2]) - Pixel(object, area.x + d[1], area.y + d[2]))
                * (Pixel(scene, x + d[1], y + d[2]) - Pixel(object, area.x + d[1], area.y + d[2]))]
<1>1. ASSUME NEW d \in S
      PROVE  /\ Pixel(scene1, x + d[1], y + d[2]) = Pixel(scene2, x + d[1], y + d[2])
             /\ Pixel(object1, area.x + d[1], area.y + d[2])
                = Pixel(object2, area.x + d[1], area.y + d[2])
  BY d[1] \in 0..(area.width - 1), d[2] \in 0..(area.height - 1)
<1>2. Error(scene1, object1) = Error(scene2, object2)
  BY <1>1
<1>3. /\ ErrorAt(scene1, object1, area, x, y) = SumFunction(Error(scene1, object1))
      /\ ErrorAt(scene2, object2, area, x, y) = SumFunction(Error(scene2, object2))
  BY DEF ErrorAt
<1> HIDE DEF Error
<1> QED
  BY <1>2, <1>3

LEMMA ErrorIsNatural ==
  ASSUME NEW scene, NEW object, NEW area, NEW x, NEW y,
         area.width \in Nat, area.height \in Nat,
         \A i \in 0..(area.width - 1), j \in 0..(area.height - 1) :
           Pixel(scene, x + i, y + j) \in Int /\ Pixel(object, area.x + i, area.y + j) \in Int
  PROVE  ErrorAt(scene, object, area, x, y) \in Nat
<1> DEFINE S == (0..(area.width - 1)) \X (0..(area.height - 1))
           diff(d) == Pixel(scene, x + d[1], y + d[2]) - Pixel(object, area.x + d[1], area.y + d[2])
           f == [d \in S |-> diff(d) * diff(d)]
<1>1. ASSUME NEW d \in S PROVE f[d] \in Nat
  <2>1. diff(d) \in Int
    BY d[1] \in 0..(area.width - 1), d[2] \in 0..(area.height - 1)
  <2>2. f[d] = diff(d) * diff(d)
    OBVIOUS
  <2> HIDE DEF diff, f
  <2> QED
    BY <2>1, <2>2, SquareIsNatural
<1>2. f \in [S -> Nat]
  BY <1>1
<1>3. IsFiniteSet(S)
  <2>1. IsFiniteSet(0..(area.width - 1)) /\ IsFiniteSet(0..(area.height - 1))
    BY 0 \in Int /\ area.width - 1 \in Int /\ area.height - 1 \in Int, FS_Interval
  <2> QED
    BY <2>1, FS_Product
<1>4. ErrorAt(scene, object, area, x, y) = SumFunction(f)
  BY DEF ErrorAt
<1> HIDE DEF S, f
<1> QED
  BY <1>2, <1>3, <1>4, SumIsNatural

\* The pixels of the scene that are compared are in the part that is searched.
LEMMA ScenePixels ==
  ASSUME Placeable, NEW k \in Locations,
         NEW i \in 0..(a.width - 1), NEW j \in 0..(a.height - 1)
  PROVE  LET x == scene_x + PointOf(k).x + i
             y == scene_y + PointOf(k).y + j
         IN  /\ x \in 0..(Cols(Scene) - 1) /\ y \in 0..(Rows(Scene) - 1)
             /\ Has(SceneRoi, x, y)
<1> DEFINE px == PointOf(k).x
           py == PointOf(k).y
<1>1. px \in 0..(result_width - 1) /\ py \in 0..(result_height - 1)
  BY Placement
<1>2. /\ a.width \in Nat /\ a.height \in Nat /\ scene_x \in Nat /\ scene_y \in Nat
      /\ SceneRoi.width \in Nat /\ SceneRoi.height \in Nat
      /\ SceneRoi.x = scene_x /\ SceneRoi.y = scene_y
      /\ scene_x + SceneRoi.width <= Cols(Scene) /\ scene_y + SceneRoi.height <= Rows(Scene)
      /\ result_width = SceneRoi.width - a.width + 1
      /\ result_height = SceneRoi.height - a.height + 1
  BY Placement
<1>3. Cols(Scene) \in Nat /\ Rows(Scene) \in Nat
  BY PictureShape DEF Placeable
<1> HIDE DEF px, py
<1> QED
  BY <1>1, <1>2, <1>3 DEF Has, px, py

LEMMA ObjectPixels ==
  ASSUME Placeable, NEW i \in 0..(a.width - 1), NEW j \in 0..(a.height - 1)
  PROVE  /\ a.x + i \in 0..(Cols(Object) - 1) /\ a.y + j \in 0..(Rows(Object) - 1)
         /\ Has(a, a.x + i, a.y + j)
<1>1. /\ a.x \in Nat /\ a.y \in Nat /\ a.width \in Nat /\ a.height \in Nat
      /\ a.x + a.width <= Cols(Object) /\ a.y + a.height <= Rows(Object)
  BY Placement DEF InRange
<1>2. Cols(Object) \in Nat /\ Rows(Object) \in Nat
  BY Placement, PictureShape
<1> QED
  BY <1>1, <1>2 DEF Has

LEMMA FreshErrorIsNatural ==
  ASSUME Placeable, NEW k \in Locations
  PROVE  FreshError(k) \in Nat
<1> DEFINE x == scene_x + PointOf(k).x
           y == scene_y + PointOf(k).y
<1>1. ASSUME NEW i \in 0..(a.width - 1), NEW j \in 0..(a.height - 1)
      PROVE  /\ Pixel(BlurredPicture(Scene), x + i, y + j) \in Int
             /\ Pixel(BlurredPicture(Object), a.x + i, a.y + j) \in Int
  <2>1. Pixel(BlurredPicture(Scene), x + i, y + j) \in Nat
    <3>1. x + i \in 0..(Cols(Scene) - 1) /\ y + j \in 0..(Rows(Scene) - 1) /\ IsPicture(Scene)
      BY ScenePixels DEF Placeable
    <3> HIDE DEF x, y
    <3> QED
      BY <3>1, BlurredPixels, BlurredIsNatural
  <2>2. Pixel(BlurredPicture(Object), a.x + i, a.y + j) \in Nat
    BY ObjectPixels, Placement, BlurredPixels, BlurredIsNatural
  <2> QED
    BY <2>1, <2>2
<1>2. FreshError(k) = ErrorAt(BlurredPicture(Scene), BlurredPicture(Object), a, x, y)
  BY SseIsError DEF FreshError
<1>3. a.width \in Nat /\ a.height \in Nat
  BY Placement
<1> HIDE DEF x, y
<1> QED
  BY <1>1, <1>2, <1>3, ErrorIsNatural
-----------------------------------------------------------------------------
(* What is prepared                                                          *)

IntRect == [x : Int, y : Int, width : Int, height : Int]

LEMMA UnionCovers ==
  ASSUME NEW r \in IntRect, NEW s \in IntRect
  PROVE  Union(r, s) \in IntRect /\ Covers(Union(r, s), s)
<1>1. CASE Area(r) = 0
  BY <1>1 DEF IntRect, Union, Covers
<1>2. CASE Area(r) # 0
  <2> DEFINE x == Smaller(r.x, s.x)
             y == Smaller(r.y, s.y)
             to_x == Larger(r.x + r.width, s.x + s.width)
             to_y == Larger(r.y + r.height, s.y + s.height)
  <2>1. Union(r, s) = Rect(x, y, to_x - x, to_y - y)
    BY <1>2 DEF Union
  <2>2. /\ x \in Int /\ y \in Int /\ to_x \in Int /\ to_y \in Int
        /\ x <= s.x /\ y <= s.y /\ s.x + s.width <= to_x /\ s.y + s.height <= to_y
    BY DEF IntRect, Smaller, Larger
  <2> HIDE DEF x, y, to_x, to_y
  <2> QED
    BY <2>1, <2>2 DEF IntRect, Covers, Rect
<1> QED
  BY <1>1, <1>2

\* What covers a part has the points of it.
LEMMA CoversHas ==
  ASSUME NEW r \in IntRect, NEW s \in IntRect, Covers(r, s), NEW x, NEW y, Has(s, x, y)
  PROVE  Has(r, x, y)
BY DEF IntRect, Covers, Has

\* After Image::prep the part asked for is blurred, all of it.
LEMMA PrepCovers ==
  ASSUME PrepInv, NEW name \in Names, IsPicture(images[name].img),
         images[name].prep_roi \in IntRect,
         NEW roi \in IntRect, InRange(images[name].img, roi)
  PROVE  /\ Prep(name, roi).preped # <<>>
         /\ Prep(name, roi).prep_roi \in IntRect
         /\ Covers(Prep(name, roi).prep_roi, roi)
<1> DEFINE image == images[name]
           pic == image.img
           both == Union(image.prep_roi, roi)
           all == IF Area(Whole(pic)) <= 2 * Area(both) THEN Whole(pic) ELSE both
           gray == Picture(Cols(pic), Rows(pic), LAMBDA x, y :
                           IF Has(all, x, y) THEN Blurred(pic, x, y)
                           ELSE 16 * Pixel(pic, x, y))
<1>1. Cols(pic) \in Nat \ {0} /\ Rows(pic) \in Nat \ {0}
  BY PictureShape
<1>2. CASE IsPreped(image, roi)
  BY <1>2 DEF Prep, IsPreped
<1>3. CASE ~IsPreped(image, roi)
  <2>1. Content(name) = pic
    BY DEF Content, PrepInv
  <2>2. Prep(name, roi) = [image EXCEPT !.prep_roi = all, !.preped = gray]
    BY <1>3, <2>1 DEF Prep, Gray, Picture
  <2>3. gray # <<>>
    <3>1. gray = [row \in 1..Rows(pic) |-> gray[row]]
      BY DEF Picture
    <3> HIDE DEF gray
    <3> QED
      BY <1>1, <3>1, RowsCounted
  <2>4. both \in IntRect /\ Covers(both, roi)
    BY UnionCovers
  <2>5. Whole(pic) \in IntRect /\ Covers(Whole(pic), roi)
    BY <1>1 DEF Whole, Rect, IntRect, InRange, Covers
  <2>6. all \in IntRect /\ Covers(all, roi)
    <3> HIDE DEF both
    <3> QED
      BY <2>4, <2>5
  <2> HIDE DEF all, gray
  <2>7. image = [img |-> image.img, preped |-> image.preped, prep_roi |-> image.prep_roi]
    BY DEF PrepInv, Kept
  <2>8. Prep(name, roi) = [img |-> pic, preped |-> gray, prep_roi |-> all]
    BY <2>2, <2>7
  <2> QED
    BY <2>3, <2>6, <2>8
<1> QED
  BY <1>2, <1>3

\* So its gray copy is the picture blurred afresh there.
LEMMA PrepIsFresh ==
  ASSUME PrepInv, NEW name \in Names, IsPicture(images[name].img),
         images[name].prep_roi \in IntRect,
         NEW roi \in IntRect, InRange(images[name].img, roi),
         NEW x \in 0..(Cols(images[name].img) - 1), NEW y \in 0..(Rows(images[name].img) - 1),
         Has(roi, x, y)
  PROVE  Pixel(Prep(name, roi).preped, x, y) = Pixel(BlurredPicture(images[name].img), x, y)
<1> DEFINE image == Prep(name, roi)
           pic == images[name].img
<1>1. /\ Current(image) /\ image.img = pic
  BY PrepIsKept DEF Kept
<1>2. /\ image.preped # <<>> /\ image.prep_roi \in IntRect /\ Covers(image.prep_roi, roi)
  BY PrepCovers
<1> HIDE DEF image
<1>3. Has(image.prep_roi, x, y)
  BY <1>2, CoversHas
<1>4. Pixel(image.preped, x, y) = Blurred(pic, x, y)
  BY <1>1, <1>2, <1>3 DEF Current
<1> QED
  BY <1>4, BlurredPixels DEF image
-----------------------------------------------------------------------------
(* The location found                                                        *)

\* The images hold pictures, those of the needles the pictures of the needles; the
\* errors are those of the pictures blurred afresh while minVec goes through them.
Pictured ==
  /\ \A name \in Names : images[name].prep_roi \in IntRect
  /\ \A name \in {"screen", "copy"} : images[name].img = <<>> \/ IsPicture(images[name].img)
  /\ \A n \in Needles : images[n.name].img = n.picture
  /\ pc # "idle" => images[target].img # <<>>

Compared == result = [k \in Locations |-> FreshError(k)]

Scanned == pc = "scan" => Placeable /\ Compared /\ ScanInv

FoundInv == PrepInv /\ Pictured /\ Scanned /\ FoundIsGood

\* While the two pictures and the needle are the same, so is where it is compared,
\* and what that gives.
LEMMA SearchStays ==
  ASSUME Scene' = Scene, Object' = Object, needle' = needle
  PROVE  /\ Placeable' <=> Placeable
         /\ Locations' = Locations
         /\ \A k : FreshError(k)' = FreshError(k) /\ Found(k)' = Found(k)
<1>1. a' = a
  BY DEF a
<1>2. Placeable' <=> Placeable
  BY <1>1 DEF Placeable
<1>3. scaled_x' = scaled_x /\ scaled_y' = scaled_y
  BY <1>1 DEF scaled_x, scaled_y
<1>4. scene_x' = scene_x /\ scene_y' = scene_y
  BY <1>3 DEF scene_x, scene_y
<1>5. SceneRoi' = SceneRoi
  BY <1>1, <1>3, <1>4 DEF SceneRoi
<1>6. result_width' = result_width /\ result_height' = result_height
  BY <1>1, <1>5 DEF result_width, result_height
<1>7. Locations' = Locations
  BY <1>6 DEF Locations
<1>8. ASSUME NEW k
      PROVE  FreshError(k)' = FreshError(k) /\ Found(k)' = Found(k)
  <2>1. PointOf(k)' = PointOf(k)
    BY <1>6 DEF PointOf
  <2>2. Found(k)' = Found(k)
    BY <1>4, <2>1 DEF Found
  <2>3. FreshError(k)' = FreshError(k)
    <3>1. FreshError(k) = ErrorAt(BlurredPicture(Scene), BlurredPicture(Object), a,
                                  scene_x + PointOf(k).x, scene_y + PointOf(k).y)
      BY SseIsError DEF FreshError
    <3>2. FreshError(k)' = ErrorAt(BlurredPicture(Scene'), BlurredPicture(Object'), a',
                                   scene_x' + PointOf(k)'.x, scene_y' + PointOf(k)'.y)
      BY DEF FreshError, Sse, ErrorAt
    <3> QED
      BY <1>1, <1>4, <2>1, <3>1, <3>2
  <2> QED
    BY <2>2, <2>3
<1> QED
  BY <1>2, <1>7, <1>8

\* The errors that Match computes are those of the pictures blurred afresh.
LEMMA MatchCompares ==
  ASSUME PrepInv, Pictured, Placeable, target \in Names, needle.name \in Names,
         Scene = images[target].img, Object = images[needle.name].img,
         NEW k \in Locations
  PROVE  Sse(Prep(target, SceneRoi).preped, Prep(needle.name, a).preped, k) = FreshError(k)
<1> DEFINE scene == Prep(target, SceneRoi).preped
           object == Prep(needle.name, a).preped
           x == scene_x + PointOf(k).x
           y == scene_y + PointOf(k).y
<1>1. /\ IsPicture(Scene) /\ IsPicture(Object)
      /\ images[target].prep_roi \in IntRect /\ images[needle.name].prep_roi \in IntRect
  BY Placement DEF Placeable, Pictured
<1>2. a \in IntRect /\ InRange(Object, a)
  BY Placement, NeedlesAssumption DEF Placeable, IntRect, a
<1>3. SceneRoi \in IntRect /\ InRange(Scene, SceneRoi)
  BY Placement DEF SceneRoi, Rect, IntRect, InRange
<1>4. ASSUME NEW i \in 0..(a.width - 1), NEW j \in 0..(a.height - 1)
      PROVE  /\ Pixel(scene, x + i, y + j) = Pixel(BlurredPicture(Scene), x + i, y + j)
             /\ Pixel(object, a.x + i, a.y + j) = Pixel(BlurredPicture(Object), a.x + i, a.y + j)
  <2>1. /\ x + i \in 0..(Cols(Scene) - 1) /\ y + j \in 0..(Rows(Scene) - 1)
        /\ Has(SceneRoi, x + i, y + j)
    BY ScenePixels
  <2>2. /\ a.x + i \in 0..(Cols(Object) - 1) /\ a.y + j \in 0..(Rows(Object) - 1)
        /\ Has(a, a.x + i, a.y + j)
    BY ObjectPixels
  <2> HIDE DEF x, y
  <2>3. Pixel(scene, x + i, y + j) = Pixel(BlurredPicture(Scene), x + i, y + j)
    BY <1>1, <1>3, <2>1, PrepIsFresh
  <2>4. Pixel(object, a.x + i, a.y + j) = Pixel(BlurredPicture(Object), a.x + i, a.y + j)
    BY <1>1, <1>2, <2>2, PrepIsFresh
  <2> QED
    BY <2>3, <2>4
<1>5. /\ Sse(scene, object, k) = ErrorAt(scene, object, a, x, y)
      /\ FreshError(k) = ErrorAt(BlurredPicture(Scene), BlurredPicture(Object), a, x, y)
  BY SseIsError DEF FreshError
<1> HIDE DEF scene, object, x, y
<1>6. ErrorAt(scene, object, a, x, y)
      = ErrorAt(BlurredPicture(Scene), BlurredPicture(Object), a, x, y)
  BY <1>4, ErrorsAgree
<1> QED
  BY <1>5, <1>6 DEF scene, object

LEMMA Searching ==
  ASSUME PrepInv, Pictured, pc # "idle"
  PROVE  /\ target \in Names /\ needle \in Needles /\ needle.name \in Names
         /\ target \in {"screen", "copy"} /\ needle.name # target
         /\ Scene = images[target].img /\ IsPicture(Scene)
         /\ Object = needle.picture /\ IsPicture(Object)
<1>1. /\ target \in {"screen", "copy"} /\ target \in Names
      /\ needle \in Needles /\ needle.name \in Names
  BY DEF PrepInv, Names
<1>2. needle.name # target /\ IsPicture(needle.picture)
  BY <1>1, NeedlesAssumption DEF NeedlesAssumption
<1>3. Scene = images[target].img
  BY DEF PrepInv, Scene, Content
<1>4. IsPicture(Scene)
  BY <1>1, <1>3 DEF Pictured
<1>5. Object = needle.picture
  BY <1>1 DEF Pictured, Object
<1> QED
  BY <1>1, <1>2, <1>3, <1>4, <1>5

LEMMA PicturedInit == Init => Pictured
<1> SUFFICES ASSUME Init PROVE Pictured
  OBVIOUS
<1>1. ASSUME NEW name \in Names PROVE images[name].prep_roi \in IntRect
  BY DEF Init, NewImage, NoRect, Rect, IntRect
<1>2. ASSUME NEW name \in {"screen", "copy"} PROVE images[name].img = <<>>
  BY DEF Init, NewImage, Names
<1>3. ASSUME NEW n \in Needles PROVE images[n.name].img = n.picture
  <2> DEFINE m == CHOOSE m \in Needles : m.name = n.name
  <2>1. m \in Needles /\ m.name = n.name
    OBVIOUS
  <2>2. n.name \in Names /\ n.name \notin {"screen", "copy"}
    BY NeedlesAssumption DEF NeedlesAssumption, Names
  <2>3. images[n.name] = NewImage(m.picture)
    BY <2>2 DEF Init
  <2> HIDE DEF m
  <2>4. m.picture = n.picture
    BY <2>1, NeedlesAssumption DEF NeedlesAssumption
  <2> QED
    BY <2>3, <2>4 DEF NewImage
<1> QED
  BY <1>1, <1>2, <1>3 DEF Init, Pictured

\* A screenshot or a copy is made anew.
LEMMA MadeIsPictured ==
  ASSUME PrepInv, Pictured, NEW name \in {"screen", "copy"}, NEW pic, IsPicture(pic),
         images' = [images EXCEPT ![name] = NewImage(pic)]
  PROVE  /\ \A m \in Names : images'[m].prep_roi \in IntRect
         /\ \A m \in {"screen", "copy"} : images'[m].img = <<>> \/ IsPicture(images'[m].img)
         /\ \A n \in Needles : images'[n.name].img = n.picture
         /\ images'[name].img # <<>>
<1>1. /\ name \in Names /\ "screen" \in Names /\ "copy" \in Names
      /\ \A n \in Needles : n.name \in Names /\ n.name # name
  BY NeedlesAssumption DEF NeedlesAssumption, Names
<1>2. /\ images' = [m \in Names |-> IF m = name THEN NewImage(pic) ELSE images[m]]
  BY DEF PrepInv
<1>3. NewImage(pic).img = pic /\ NewImage(pic).prep_roi \in IntRect /\ pic # <<>>
  BY DEF NewImage, NoRect, Rect, IntRect, IsPicture
<1> QED
  BY <1>1, <1>2, <1>3 DEF Pictured

\* What Match does to the images
LEMMA MatchPrepares ==
  ASSUME PrepInv, Pictured, Match
  PROVE  /\ images' = [name \in Names |->
                         IF name = needle.name THEN Prep(needle.name, a)
                         ELSE IF name = target THEN Prep(target, SceneRoi) ELSE images[name]]
         /\ \A name \in Names : images'[name].img = images[name].img
         /\ Placeable /\ PrepInv'
         /\ Scene' = Scene /\ Object' = Object /\ needle' = needle
<1>1. /\ target \in Names /\ needle \in Needles /\ needle.name \in Names
      /\ needle.name # target
      /\ IsPicture(Scene) /\ Object = needle.picture
  BY Searching DEF Match
<1>2. /\ images' = [name \in Names |->
                      IF name = needle.name THEN Prep(needle.name, a)
                      ELSE IF name = target THEN Prep(target, SceneRoi) ELSE images[name]]
  BY <1>1 DEF Match, PrepInv
<1>3. /\ Prep(needle.name, a).img = images[needle.name].img
      /\ Prep(target, SceneRoi).img = images[target].img
  BY <1>1, PrepIsKept
<1>4. \A name \in Names : images'[name].img = images[name].img
  BY <1>2, <1>3
<1>5. Placeable
  BY <1>1 DEF Placeable, Match, OutOfRange
<1>6. PrepInv'
  BY PrepNext DEF Next
<1>7. Scene' = Scene /\ Object' = Object /\ needle' = needle
  BY <1>1, <1>4 DEF Match, PrepInv, Scene, Object, Content
<1> QED
  BY <1>2, <1>4, <1>5, <1>6, <1>7

LEMMA PicturedNext ==
  ASSUME PrepInv, Pictured, Next
  PROVE  Pictured'
<1> USE DEF searchVars
<1>1. CASE Update
  BY <1>1 DEF Update, Pictured
<1>2. CASE Capture
  <2> DEFINE pic == Scaled(framebuffer)
  <2>1. images' = [images EXCEPT !["screen"] = NewImage(pic)]
    BY <1>2 DEF Capture
  <2>2. IsPicture(pic)
    BY ScreensAssumption, ScaledIsPicture DEF PrepInv
  <2> HIDE DEF pic
  <2>3. /\ \A m \in Names : images'[m].prep_roi \in IntRect
        /\ \A m \in {"screen", "copy"} : images'[m].img = <<>> \/ IsPicture(images'[m].img)
        /\ \A n \in Needles : images'[n.name].img = n.picture
    BY <2>1, <2>2, MadeIsPictured
  <2> QED
    BY <1>2, <2>3 DEF Capture, Pictured
<1>3. ASSUME NEW n \in Needles, Search(n) PROVE Pictured'
  <2>1. Content("screen") = images["screen"].img /\ Content("screen") # <<>>
    BY <1>3 DEF Search, Content, PrepInv
  <2>2. CASE n.exclude = {}
    <3>1. UNCHANGED images /\ target' = "screen"
      BY <1>3, <2>2 DEF Search
    <3> QED
      BY <2>1, <3>1 DEF Pictured
  <2>3. CASE n.exclude # {}
    <3> DEFINE pic == ReplaceRects(Content("screen"), n.exclude)
    <3>1. images' = [images EXCEPT !["copy"] = NewImage(pic)] /\ target' = "copy"
      BY <1>3, <2>3 DEF Search
    <3>2. IsPicture(pic)
      BY <2>1, ReplacedIsPicture DEF Pictured
    <3> HIDE DEF pic
    <3>3. /\ \A m \in Names : images'[m].prep_roi \in IntRect
          /\ \A m \in {"screen", "copy"} : images'[m].img = <<>> \/ IsPicture(images'[m].img)
          /\ \A m \in Needles : images'[m.name].img = m.picture
          /\ images'["copy"].img # <<>>
      BY <3>1, <3>2, MadeIsPictured
    <3> QED
      BY <3>1, <3>3 DEF Pictured
  <2> QED
    BY <2>2, <2>3
<1>4. CASE Match
  <2>1. /\ images' = [name \in Names |->
                        IF name = needle.name THEN Prep(needle.name, a)
                        ELSE IF name = target THEN Prep(target, SceneRoi) ELSE images[name]]
        /\ \A name \in Names : images'[name].img = images[name].img
        /\ Placeable
    BY <1>4, MatchPrepares
  <2>2. /\ target \in Names /\ needle \in Needles /\ needle.name \in Names
        /\ Scene = images[target].img /\ IsPicture(Scene)
        /\ Object = images[needle.name].img /\ IsPicture(Object)
    BY <1>4, Searching DEF Match, Object
  <2>3. Prep(needle.name, a).prep_roi \in IntRect
    <3>1. a \in IntRect /\ InRange(Object, a)
      BY <2>1, Placement, NeedlesAssumption DEF Placeable, IntRect, a
    <3> QED
      BY <2>2, <3>1, PrepCovers DEF Pictured
  <2>4. Prep(target, SceneRoi).prep_roi \in IntRect
    <3>1. SceneRoi \in IntRect /\ InRange(Scene, SceneRoi)
      BY <2>1, Placement DEF SceneRoi, Rect, IntRect, InRange
    <3> QED
      BY <2>2, <3>1, PrepCovers DEF Pictured
  <2>5. \A name \in Names : images'[name].prep_roi \in IntRect
    BY <2>1, <2>3, <2>4 DEF Pictured
  <2>6. /\ "screen" \in Names /\ "copy" \in Names
        /\ \A n \in Needles : n.name \in Names
    BY DEF Names
  <2>7. target' = target /\ images[target].img # <<>>
    BY <1>4 DEF Match, Pictured
  <2> QED
    BY <2>1, <2>2, <2>5, <2>6, <2>7 DEF Pictured
<1>5. CASE Fail \/ FindMins \/ Choose \/ NextNeedle
  BY <1>5 DEF Fail, FindMins, Choose, NextNeedle, Pictured
<1> QED
  BY <1>1, <1>2, <1>3, <1>4, <1>5 DEF Next

\* The images are left alone.
LEMMA SearchUntouched ==
  ASSUME UNCHANGED <<framebuffer, shared, images, needle, target>>
  PROVE  Scene' = Scene /\ Object' = Object /\ needle' = needle
BY DEF Scene, Object, Content

\* A location whose error is that of the best one up to Slack makes the result good.
LEMMA GoodWhenFound ==
  ASSUME Scene' = Scene, Object' = Object, needle' = needle,
         NEW k \in Locations, found' = Found(k),
         \A l \in Locations : FreshError(k) <= FreshError(l) + Slack
  PROVE  FoundIsGood'
<1>1. /\ Locations' = Locations
      /\ \A l : FreshError(l)' = FreshError(l) /\ Found(l)' = Found(l)
  BY SearchStays
<1>2. FoundAt(k)'
  BY <1>1 DEF FoundAt
<1>3. \A l \in Locations' : FreshError(k)' <= FreshError(l)' + Slack
  BY <1>1
<1> QED
  BY <1>1, <1>2, <1>3 DEF FoundIsGood

LEMMA MatchFinds ==
  ASSUME PrepInv, Pictured, Match
  PROVE  Scanned' /\ FoundIsGood'
<1>1. /\ images' = [name \in Names |->
                      IF name = needle.name THEN Prep(needle.name, a)
                      ELSE IF name = target THEN Prep(target, SceneRoi) ELSE images[name]]
      /\ Placeable
      /\ Scene' = Scene /\ Object' = Object /\ needle' = needle
  BY MatchPrepares
<1>2. /\ target \in Names /\ needle.name \in Names /\ needle.name # target
      /\ Scene = images[target].img /\ Object = images[needle.name].img
  BY Searching DEF Match, Object
<1>3. /\ Placeable' /\ Locations' = Locations
      /\ \A k : FreshError(k)' = FreshError(k) /\ Found(k)' = Found(k)
  BY <1>1, SearchStays
<1>4. result' = [k \in Locations |-> FreshError(k)]
  <2>1. result' = [k \in Locations |->
                     Sse(Prep(target, SceneRoi).preped, Prep(needle.name, a).preped, k)]
    BY <1>1, <1>2 DEF Match, Locations
  <2>2. \A k \in Locations :
          Sse(Prep(target, SceneRoi).preped, Prep(needle.name, a).preped, k) = FreshError(k)
    BY <1>1, <1>2, MatchCompares
  <2> QED
    BY <2>1, <2>2
<1>5. Compared'
  BY <1>3, <1>4 DEF Compared
<1>6. Center \in Locations /\ \A k \in Locations : FreshError(k) \in Nat
  BY <1>1, Placement, FreshErrorIsNatural
<1>7. Slack \in Nat
  BY SlackAssumption
<1>8. CASE result'[Center] = 0
  <2>1. found' = Found(Center) /\ pc' = "found"
    BY <1>8 DEF Match
  <2>2. FreshError(Center) = 0
    BY <1>4, <1>6, <1>8
  <2>3. \A l \in Locations : FreshError(Center) <= FreshError(l) + Slack
    BY <1>6, <1>7, <2>2
  <2> QED
    BY <1>1, <1>6, <2>1, <2>3, GoodWhenFound DEF Scanned
<1>9. CASE result'[Center] # 0
  <2>1. /\ pc' = "scan" /\ at' = 1 /\ res' = <<>> /\ min' = result'[Center] + Slack
    BY <1>9 DEF Match
  <2>2. result' \in Seq(Nat) /\ Center \in DOMAIN result'
    <3>1. result_width \in Nat /\ result_height \in Nat
      BY <1>1, Placement
    <3>2. result_width * result_height \in Nat
      BY <3>1
    <3> DEFINE n == result_width * result_height
    <3>3. Locations = 1..n
      BY DEF Locations
    <3> HIDE DEF n
    <3> QED
      BY <1>4, <1>6, <3>2, <3>3 DEF n
  <2>3. MinVecInit'
    BY <2>1, <2>2 DEF MinVecInit
  <2>4. ScanInv'
    BY <2>3, ScanInvInit, PTL
  <2> QED
    BY <1>3, <1>5, <2>1, <2>4 DEF Scanned, FoundIsGood
<1> QED
  BY <1>8, <1>9

LEMMA ChooseFinds ==
  ASSUME PrepInv, Pictured, Scanned, Choose
  PROVE  FoundIsGood'
<1>1. /\ Placeable /\ Compared /\ MinsAreGood /\ ScanEnded
      /\ Scene' = Scene /\ Object' = Object /\ needle' = needle
  BY ScanInvGood, SearchUntouched DEF Choose, Scanned
<1>2. PICK i \in DOMAIN res : found' = Found(res[i])
  BY DEF Choose
<1>3. /\ res[i] \in DOMAIN result
      /\ \A l \in DOMAIN result : result[res[i]] <= result[l] + Slack
  BY <1>1 DEF MinsAreGood, ScanInv, Choose, Scanned
<1>4. DOMAIN result = Locations /\ \A k \in Locations : result[k] = FreshError(k)
  BY <1>1 DEF Compared
<1>5. /\ res[i] \in Locations
      /\ \A l \in Locations : FreshError(res[i]) <= FreshError(l) + Slack
  BY <1>3, <1>4
<1> QED
  BY <1>1, <1>2, <1>5, GoodWhenFound

LEMMA FoundInit == Init => FoundInv
<1>1. Init => Scanned /\ FoundIsGood
  BY DEF Init, Scanned, FoundIsGood
<1> QED
  BY <1>1, PrepInit, PicturedInit DEF FoundInv

LEMMA FoundNext ==
  ASSUME FoundInv, Next
  PROVE  FoundInv'
<1>1. PrepInv /\ Pictured /\ Scanned /\ FoundIsGood
  BY DEF FoundInv
<1>2. PrepInv' /\ Pictured'
  BY <1>1, PrepNext, PicturedNext
<1>3. Scanned' /\ FoundIsGood'
  <2>1. CASE Update \/ Capture \/ NextNeedle \/ \E n \in Needles : Search(n)
    <3>1. pc' \in {"idle", "search"}
      BY <2>1 DEF Update, Capture, NextNeedle, Search
    <3> QED
      BY <3>1 DEF Scanned, FoundIsGood
  <2>2. CASE Fail
    BY <2>2 DEF Fail, NotFound, Scanned, FoundIsGood
  <2>3. CASE Match
    BY <1>1, <2>3, MatchFinds
  <2>4. CASE FindMins
    <3>1. Scene' = Scene /\ Object' = Object /\ needle' = needle /\ pc = "scan" /\ pc' = "scan"
      BY <2>4, SearchUntouched DEF FindMins
    <3>2. Placeable' /\ Compared'
      <4>1. /\ Placeable /\ Compared /\ result' = result
        BY <1>1, <2>4, <3>1 DEF Scanned, FindMins, Scan
      <4>2. /\ Placeable' /\ Locations' = Locations
            /\ \A k : FreshError(k)' = FreshError(k)
        BY <3>1, <4>1, SearchStays
      <4> QED
        BY <4>1, <4>2 DEF Compared
    <3>3. ScanInv'
      BY <1>1, <2>4, <3>1, ScanInvNext DEF Scanned, FindMins
    <3> QED
      BY <3>1, <3>2, <3>3 DEF Scanned, FoundIsGood
  <2>5. CASE Choose
    <3>1. FoundIsGood'
      BY <1>1, <2>5, ChooseFinds
    <3> QED
      BY <2>5, <3>1 DEF Choose, Scanned
  <2> QED
    BY <2>1, <2>2, <2>3, <2>4, <2>5 DEF Next
<1> QED
  BY <1>2, <1>3 DEF FoundInv

LEMMA FoundStutter ==
  ASSUME FoundInv, UNCHANGED vars
  PROVE  FoundInv'
<1>1. PrepInv' /\ Pictured'
  BY PrepStutter DEF vars, FoundInv, Pictured
<1>2. Scene' = Scene /\ Object' = Object /\ needle' = needle
  BY SearchUntouched DEF vars
<1>3. /\ Placeable' <=> Placeable
      /\ Locations' = Locations
      /\ \A k : FreshError(k)' = FreshError(k) /\ Found(k)' = Found(k)
  BY <1>2, SearchStays
<1>4. Scanned'
  <2>1. ScanInv => ScanInv'
    BY DEF vars, ScanInv
  <2>2. Compared => Compared'
    BY <1>3 DEF vars, Compared
  <2> QED
    BY <1>3, <2>1, <2>2 DEF vars, FoundInv, Scanned
<1>5. FoundIsGood'
  <2>1. pc' = pc /\ found' = found /\ FoundIsGood
    BY DEF vars, FoundInv
  <2>2. \A k : FoundAt(k)' <=> FoundAt(k)
    BY <1>3, <2>1 DEF FoundAt
  <2> QED
    BY <1>3, <2>1, <2>2 DEF FoundIsGood
<1> QED
  BY <1>1, <1>4, <1>5 DEF FoundInv

\* The location that search_TEMPLATE returns is as good as the best one up to Slack,
\* measured on pictures that are blurred afresh: for all screens, needles and sizes,
\* and whatever was prepared for the searches before (tinycv_impl.cc:118).
THEOREM FoundIsBest == Spec => []FoundIsGood
<1>1. FoundInv /\ [Next]_vars => FoundInv'
  BY FoundNext, FoundStutter
<1>2. FoundInv => FoundIsGood
  BY DEF FoundInv
<1> QED
  BY <1>1, <1>2, FoundInit, PTL DEF Spec
=============================================================================
