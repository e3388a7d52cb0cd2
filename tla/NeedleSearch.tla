---------------------------- MODULE NeedleSearch ----------------------------
(***************************************************************************)
(* The pictures of the backend and the search for needles in them: a screen *)
(* that its console changes in place, the last screenshot, a copy of it     *)
(* without the excluded area, and the images of the needles, which live on  *)
(* from search to search.  Each image keeps a gray copy, blurred where it   *)
(* was searched so far.  Colours are left out: a pixel is its gray value.   *)
(***************************************************************************)
EXTENDS Integers, Sequences, Functions, Pictures, MinVec

CONSTANTS
  Screens,       \* pictures the console may show
  Xres, Yres,    \* size of a screenshot
  Needles,       \* records [name, picture, area, margin, exclude]
  MaxUpdates     \* bound: changes of the screen

NoNeedle == [name |-> "none"]

ASSUME ScreensAssumption ==
  /\ \A pic \in Screens : IsPicture(pic)
  /\ Xres \in Nat \ {0} /\ Yres \in Nat \ {0}

\* An area has pixels (matchTemplate takes no others) and belongs to the picture of its
\* needle; a name stands for one picture.
ASSUME NeedlesAssumption ==
  \A n \in Needles :
    /\ IsPicture(n.picture) /\ InRange(n.picture, n.area)
    /\ n.area \in [x : Nat, y : Nat, width : Nat \ {0}, height : Nat \ {0}]
    /\ n.margin \in Nat
    /\ n.name \notin {"screen", "copy"}
    /\ \A other \in Needles : other.name = n.name => other.picture = n.picture

VARIABLES
  framebuffer,   \* the picture of the console, changed in place
  shared,        \* whether the last screenshot uses the memory of the framebuffer
  images,        \* images[name] = [img, preped, prep_roi]
  pc,            \* step of search_TEMPLATE
  needle,        \* the needle that is searched ...
  target,        \* ... and the image in which
  found,         \* result of the search
  updates

vars == <<framebuffer, shared, images, pc, needle, target, result, at, min, res, found, updates>>
searchVars == <<needle, target, result, at, min, res, found>>

Names == {n.name : n \in Needles} \cup {"screen", "copy"}
NewImage(picture) == [img |-> picture, preped |-> <<>>, prep_roi |-> NoRect]

Init ==
  /\ framebuffer \in Screens
  /\ shared = FALSE
  /\ images = [name \in Names |->
                 IF name \in {"screen", "copy"} THEN NewImage(<<>>)
                 ELSE NewImage((CHOOSE n \in Needles : n.name = name).picture)]
  /\ pc = "idle"
  /\ needle = NoNeedle
  /\ target = "screen"
  /\ result = <<>>
  /\ at = 1
  /\ min = 0
  /\ res = <<>>
  /\ found = <<>>
  /\ updates = 0
-----------------------------------------------------------------------------
(* The screen                                                                *)

Content(name) == IF name = "screen" /\ shared THEN framebuffer ELSE images[name].img

\* External: the console draws into its picture.
Update ==
  /\ pc = "idle"
  /\ updates < MaxUpdates
  /\ updates' = updates + 1
  /\ framebuffer' \in Screens \ {framebuffer}
  /\ UNCHANGED <<shared, images, pc, searchVars>>

\* External: cv::resize, by the nearest pixel.
Resized(pic) ==
  Picture(Xres, Yres, LAMBDA x, y :
    Pixel(pic, (x * Cols(pic)) \div Xres, (y * Rows(pic)) \div Yres))

Background == 120

\* image_scale: a smaller picture is padded.
Scaled(pic) ==
  IF Rows(pic) > Yres \/ Cols(pic) > Xres
  THEN Resized(pic)
  ELSE Picture(Xres, Yres, LAMBDA x, y :
         IF x < Cols(pic) /\ y < Rows(pic) THEN Pixel(pic, x, y) ELSE Background)

\* Mutant: the test is for the size of the picture given, so that one of the
\* right size is not copied.
Shares_bug(pic) == Rows(pic) = Yres /\ Cols(pic) = Xres

\* The last case, which shares the memory, is never reached: the new image is
\* still empty when its size is tested.
Shares(pic) == FALSE

\* enqueue_screenshot with an image that differs from the last one
Capture ==
  /\ pc = "idle"
  /\ Content("screen") # Scaled(framebuffer)
  /\ images' = [images EXCEPT !["screen"] = NewImage(Scaled(framebuffer))]
  /\ shared' = Shares(framebuffer)
  /\ UNCHANGED <<framebuffer, pc, searchVars, updates>>
-----------------------------------------------------------------------------
(* Preparing an image                                                        *)

\* External: cv::GaussianBlur, up to a factor. A row or column outside is the
\* reflected one inside.
Reflected(i, n) ==
  IF n = 1 THEN 0 ELSE IF i < 0 THEN -i ELSE IF i >= n THEN 2 * (n - 1) - i ELSE i
Weight(d) == IF d = 0 THEN 2 ELSE 1
Blurred(pic, x, y) ==
  SumFunction(
    [d \in (-1..1) \X (-1..1) |->
       Weight(d[1]) * Weight(d[2])
       * Pixel(pic, Reflected(x + d[1], Cols(pic)), Reflected(y + d[2], Rows(pic)))])

IsPreped(image, roi) == image.preped # <<>> /\ Covers(image.prep_roi, roi)

\* Mutant: the gray copy that exists is blurred once more.
Gray_bug(image, pic) == IF image.preped = <<>> THEN pic ELSE image.preped
Gray(image, pic) == pic

\* Image::prep: the picture is converted again, and blurred in the union of the
\* areas so far, or everywhere if that is half of it.
Prep(name, roi) ==
  LET image == images[name]
      pic == Gray(image, Content(name))
      both == Union(image.prep_roi, roi)
      all == IF Area(Whole(pic)) <= 2 * Area(both) THEN Whole(pic) ELSE both
  IN  IF IsPreped(image, roi) THEN image
      ELSE [image EXCEPT
              !.prep_roi = all,
              !.preped = Picture(Cols(pic), Rows(pic), LAMBDA x, y :
                           IF Has(all, x, y) THEN Blurred(pic, x, y)
                           ELSE 16 * Pixel(pic, x, y))]
-----------------------------------------------------------------------------
(* The search                                                                *)

\* image_replacerect, for each area: one out of range is left alone. 0 stands for
\* the gray value of the colour that fills it.
ReplaceRects(pic, areas) ==
  Picture(Cols(pic), Rows(pic), LAMBDA x, y :
    IF \E r \in areas : InRange(pic, r) /\ Has(r, x, y) THEN 0 ELSE Pixel(pic, x, y))

\* search_: an area to exclude is replaced in a copy.
Search(n) ==
  /\ pc = "idle"
  /\ Content("screen") # <<>>
  /\ needle' = n
  /\ IF n.exclude = {}
     THEN /\ target' = "screen"
          /\ UNCHANGED images
     ELSE /\ target' = "copy"
          /\ images' = [images EXCEPT !["copy"] =
                          NewImage(ReplaceRects(Content("screen"), n.exclude))]
  /\ pc' = "search"
  /\ UNCHANGED <<framebuffer, shared, result, at, min, res, found, updates>>

a == needle.area
Scene == Content(target)
Object == images[needle.name].img

\* The needle may be made for a screen of another size.
Scale(position, size, of) == (position * size) \div of
scaled_x == Scale(a.x, Cols(Scene), Cols(Object))
scaled_y == Scale(a.y, Rows(Scene), Rows(Object))

\* Where in the scene the object is looked for
Begin(position, margin) == Larger(0, position - margin)
End(position, length, margin, size) == Smaller(size, position + length + margin)
scene_x == Begin(scaled_x, needle.margin)
scene_y == Begin(scaled_y, needle.margin)
SceneRoi ==
  Rect(scene_x, scene_y,
       End(scaled_x, a.width, needle.margin, Cols(Scene)) - scene_x,
       End(scaled_y, a.height, needle.margin, Rows(Scene)) - scene_y)

result_width == SceneRoi.width - a.width + 1
result_height == SceneRoi.height - a.height + 1

\* Locations are counted row by row from 1; a point is relative to SceneRoi.
PointOf(k) == [x |-> (k - 1) % result_width, y |-> (k - 1) \div result_width]
Center == (scaled_y - scene_y) * result_width + (scaled_x - scene_x) + 1

\* External: cv::matchTemplate with TM_SQDIFF
Sse(scene, object, k) ==
  SumFunction(
    [d \in (0..(a.width - 1)) \X (0..(a.height - 1)) |->
       LET diff == Pixel(scene, scene_x + PointOf(k).x + d[1], scene_y + PointOf(k).y + d[2])
                   - Pixel(object, a.x + d[1], a.y + d[2])
       IN  diff * diff])

OutOfRange == ~InRange(Scene, a) \/ result_width <= 0 \/ result_height <= 0

NotFound == [x |-> 0, y |-> 0, ok |-> FALSE]
Found(k) == [x |-> PointOf(k).x + scene_x, y |-> PointOf(k).y + scene_y, ok |-> TRUE]

Fail ==
  /\ pc = "search"
  /\ OutOfRange
  /\ found' = NotFound
  /\ pc' = "found"
  /\ UNCHANGED <<framebuffer, shared, images, needle, target, result, at, min, res, updates>>

\* Both images are prepared and compared at every location. If there is no
\* error at the original one, that is it.
Match ==
  /\ pc = "search"
  /\ ~OutOfRange
  /\ images' = [images EXCEPT ![target] = Prep(target, SceneRoi),
                              ![needle.name] = Prep(needle.name, a)]
  /\ result' = [k \in 1..(result_width * result_height) |->
                  Sse(images'[target].preped, images'[needle.name].preped, k)]
  /\ IF result'[Center] = 0
     THEN /\ found' = Found(Center)
          /\ pc' = "found"
          /\ UNCHANGED <<at, min, res>>
     ELSE /\ pc' = "scan"
          /\ at' = 1
          /\ min' = result'[Center] + Slack
          /\ res' = <<>>
          /\ UNCHANGED found
  /\ UNCHANGED <<framebuffer, shared, needle, target, updates>>

FindMins ==
  /\ pc = "scan"
  /\ Scan
  /\ UNCHANGED <<framebuffer, shared, images, pc, needle, target, found, updates>>

\* SortByClose: the distance to the original, squared
Distance(k) ==
  LET dx == scaled_x - PointOf(k).x
      dy == scaled_y - PointOf(k).y
  IN  dx * dx + dy * dy

\* The closest of the good locations, one of them if there are several.
Choose ==
  /\ pc = "scan"
  /\ ScanEnded
  /\ \E i \in DOMAIN res :
       /\ \A j \in DOMAIN res : Distance(res[i]) <= Distance(res[j])
       /\ found' = Found(res[i])
  /\ pc' = "found"
  /\ UNCHANGED <<framebuffer, shared, images, needle, target, result, at, min, res, updates>>

NextNeedle ==
  /\ pc = "found"
  /\ pc' = "idle"
  /\ needle' = NoNeedle /\ target' = "screen"
  /\ result' = <<>> /\ at' = 1 /\ min' = 0 /\ res' = <<>> /\ found' = <<>>
  /\ UNCHANGED <<framebuffer, shared, images, updates>>

Next ==
  \/ Update \/ Capture
  \/ \E n \in Needles : Search(n)
  \/ Fail \/ Match \/ FindMins \/ Choose \/ NextNeedle

Spec == Init /\ [][Next]_vars
-----------------------------------------------------------------------------
\* A gray copy that is kept belongs to the picture of now, and is blurred
\* wherever it counts as such, whatever was searched before.
PrepIsCurrent ==
  \A name \in Names :
    LET image == images[name]
    IN  image.preped # <<>> =>
          \A x \in 0..(Cols(Content(name)) - 1), y \in 0..(Rows(Content(name)) - 1) :
            Has(image.prep_roi, x, y) =>
              Pixel(image.preped, x, y) = Blurred(Content(name), x, y)

\* The screenshot does not change after it was taken, while the console draws.
ScreenshotStands == [][images' = images => Content("screen")' = Content("screen")]_vars

BlurredPicture(pic) == Picture(Cols(pic), Rows(pic), LAMBDA x, y : Blurred(pic, x, y))

FreshError(k) == Sse(BlurredPicture(Scene), BlurredPicture(Object), k)

Locations == 1..(result_width * result_height)
FoundAt(k) == found.x = Found(k).x /\ found.y = Found(k).y

\* 'we try to find the best locations - possibly more' (tinycv_impl.cc:118): the
\* location found is as good as the best one, up to Slack, when both pictures
\* are blurred afresh.
FoundIsGood ==
  pc = "found" /\ found.ok =>
    \E k \in Locations :
      /\ FoundAt(k)
      /\ \A l \in Locations : FreshError(k) <= FreshError(l) + Slack

\* The bound that minVec begins with belongs to a location: the original one is
\* among those compared.
MinsFound == pc = "scan" => MinsAreGood /\ Center \in DOMAIN result

OffsetOf(k) ==
  LET dx == Found(k).x - scaled_x
      dy == Found(k).y - scaled_y
  IN  dx * dx + dy * dy

\* 'Used to sort a list of points to find the closest to the original'
\* (tinycv_impl.cc:146).
ClosestIsTaken ==
  pc = "found" /\ found.ok /\ res # <<>> =>
    \E i \in DOMAIN res :
      /\ FoundAt(res[i])
      /\ \A j \in DOMAIN res : OffsetOf(res[i]) <= OffsetOf(res[j])
=============================================================================
