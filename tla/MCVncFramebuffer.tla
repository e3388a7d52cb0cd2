-------------------------- MODULE MCVncFramebuffer --------------------------
(* Instances of VncFramebuffer for TLC, with a server that encodes pictures. *)
EXTENDS VncFramebuffer, SequencesExt, FiniteSetsExt, TLC

\* Formats by their maxima and shifts of red, green and blue
Format(bytes, swap, masks, shifts) ==
  [bytes_per_pixel |-> bytes, do_endian_conversion |-> swap, true_colour |-> bytes # 1,
   red_mask |-> masks[1], green_mask |-> masks[2], blue_mask |-> masks[3],
   red_shift |-> shifts[1], green_shift |-> shifts[2], blue_shift |-> shifts[3]]

\* Formats of %supported_depths, and those a server may have, in the other byte order:
\* the high three bytes of four, and 16 bits with six for green
MCInfos ==
  { Format(4, FALSE, <<255, 255, 255>>, <<16, 8, 0>>), Format(4, TRUE, <<255, 255, 255>>, <<24, 16, 8>>),
    Format(2, FALSE, <<31, 31, 31>>, <<10, 5, 0>>), Format(2, TRUE, <<31, 63, 31>>, <<11, 5, 0>>),
    Format(1, FALSE, <<8, 8, 4>>, <<5, 2, 0>>) }

\* A server's format in which blue and red have changed places
BgrInfos == { Format(4, FALSE, <<255, 255, 255>>, <<0, 8, 16>>) }

\* One whose colours are not in three bytes
WideInfos == { Format(4, FALSE, <<255, 255, 255>>, <<24, 8, 0>>) }

MCColourMaps ==
  { [i \in 0..255 |-> <<10 * i, i, 0>>], [i \in 0..255 |-> <<i, 20 * i, 1>>] }

\* Values of pixels that no two formats show alike
Values(f) == IF f.bytes_per_pixel = 4
             THEN IF InLowBytes(f) THEN <<66051, 255, 8454143, 4096, 1048576>>
                  ELSE <<16909056, 65280, 1073807104, 1048576, 268435456>>
             ELSE IF f.bytes_per_pixel = 2 THEN <<2113, 31, 31744, 992, 1057>>
             ELSE <<1, 2, 3, 0, 0>>

\* Pictures of 4 x 2 pixels: numbers of values
Drawings ==
  { <<<<1, 1, 1, 1>>, <<1, 1, 1, 1>>>>,
    <<<<1, 2, 1, 2>>, <<2, 1, 2, 1>>>>,
    <<<<2, 2, 2, 1>>, <<2, 2, 1, 1>>>>,
    <<<<3, 1, 1, 3>>, <<1, 1, 1, 2>>>> }

TallDrawing == <<<<2, 2, 1, 1>>, <<2, 1, 1, 1>>>>

DigitsOf(n, length) == [i \in 1..length |-> (n \div 256 ^ (i - 1)) % 256]
Bytes(f, n, length) ==
  IF f.do_endian_conversion /\ length > 1 THEN Reverse(DigitsOf(n, length)) ELSE DigitsOf(n, length)
PixelBytes(f, n) == Bytes(f, n, f.bytes_per_pixel)
CpixelBytes(f, n) == Bytes(f, CpixelValue(f, n), CpixelLength(f))
Cpixels(f, values) == FlattenSeq([i \in DOMAIN values |-> CpixelBytes(f, values[i])])

LengthBytes(n) == [i \in 1..((n - 1) \div RunMax) |-> RunMax] \o <<(n - 1) % RunMax>>

\* Runs <<value, length>> of a sequence
RunsOf(values) ==
  FoldLeft(LAMBDA runs, v :
             IF runs # <<>> /\ Last(runs)[1] = v
             THEN Front(runs) \o << <<v, Last(runs)[2] + 1>> >>
             ELSE Append(runs, <<v, 1>>),
           <<>>, values)

IndexIn(palette, v) == CHOOSE i \in 0..(Len(palette) - 1) : palette[i + 1] = v
NumberOf(bits, bpp) ==
  FoldLeft(LAMBDA n, i : n * 2 ^ bpp + i, 0,
           [i \in 1..(8 \div bpp) |-> IF i \in DOMAIN bits THEN bits[i] ELSE 0])
PackedRow(palette, row, bpp) ==
  LET each == 8 \div bpp
  IN  [b \in 1..((Len(row) + each - 1) \div each) |->
        NumberOf([i \in 1..Smaller(each, Len(row) - (b - 1) * each) |->
                    IndexIn(palette, row[(b - 1) * each + i])], bpp)]

Palette(f, way) ==
  SubSeq(Values(f), 1, IF way = "packed1" THEN 2 ELSE IF way = "packed2" THEN 3 ELSE 5)

\* The bytes of a tile, a sequence of rows, in one of the ways: what comes before
\* the runs, and each run
TileHead(f, rows, way) ==
  LET all == FlattenSeq(rows)
      palette == Palette(f, way)
      bpp == IF way = "packed1" THEN 1 ELSE IF way = "packed2" THEN 2 ELSE 4
  IN  CASE way = "raw" -> <<0>> \o Cpixels(f, all)
        [] way = "solid" -> <<1>> \o CpixelBytes(f, all[1])
        [] way = "runs" -> <<128>>
        [] way = "palette" -> <<128 + Len(palette)>> \o Cpixels(f, palette)
        [] OTHER -> <<Len(palette)>> \o Cpixels(f, palette)
                    \o FlattenSeq([j \in DOMAIN rows |-> PackedRow(palette, rows[j], bpp)])
RunPieces(f, rows, way) ==
  LET runs == RunsOf(FlattenSeq(rows))
      index(i) == IndexIn(Palette(f, way), runs[i][1])
  IN  CASE way = "runs" ->
             [i \in DOMAIN runs |-> CpixelBytes(f, runs[i][1]) \o LengthBytes(runs[i][2])]
        [] way = "palette" ->
             [i \in DOMAIN runs |-> IF runs[i][2] = 1 THEN <<index(i)>>
                                    ELSE <<128 + index(i)>> \o LengthBytes(runs[i][2])]
        [] OTHER -> <<>>
TileBytes(f, rows, way) == TileHead(f, rows, way) \o FlattenSeq(RunPieces(f, rows, way))

\* Where the runs of a tile at an offset begin, by their first pixels
RunStarts(f, rows, way, o) ==
  LET runs == RunsOf(FlattenSeq(rows))
      pieces == RunPieces(f, rows, way)
      first(i) == FoldLeft(LAMBDA n, r : n + r[2], 0, SubSeq(runs, 1, i - 1))
      begin(i) == FoldLeft(LAMBDA n, p : n + Len(p), o + Len(TileHead(f, rows, way)),
                           SubSeq(pieces, 1, i - 1))
  IN  [k \in { first(i) : i \in DOMAIN pieces } |->
         begin(CHOOSE i \in DOMAIN pieces : first(i) = k)]

Ways == {"raw", "solid", "runs", "palette", "packed1", "packed2", "packed4"}
Fits(f, rows, way) ==
  LET used == ToSet(FlattenSeq(rows))
  IN  CASE way = "solid" -> Cardinality(used) = 1
        [] way = "packed1" -> used \subseteq {Values(f)[1], Values(f)[2]}
        [] way = "packed2" -> used \subseteq {Values(f)[1], Values(f)[2], Values(f)[3]}
        [] OTHER -> TRUE

Part(values, c1, c2) == [j \in DOMAIN values |-> SubSeq(values[j], c1, c2)]
Message(px, py, w, h, encoding, data, values) ==
  [x |-> px, y |-> py, w |-> w, h |-> h, encoding |-> encoding, data |-> data, values |-> values]

\* Tiles are [px, py, rows].
Cut(values) ==
  LET w == Len(values[1])
      h == Len(values)
      at(px, py) == [px |-> px, py |-> py,
                     rows |-> Part(SubSeq(values, py + 1, Smaller(py + TileSize, h)),
                                   px + 1, Smaller(px + TileSize, w))]
  IN  <<at(0, 0)>> \o (IF w > TileSize THEN <<at(TileSize, 0)>> ELSE <<>>)
      \o (IF h > TileSize THEN <<at(0, TileSize)>> ELSE <<>>)

Rectangle(f, px, py, values, ways) ==
  LET tiles == Cut(values)
      bytes == [i \in DOMAIN tiles |-> TileBytes(f, tiles[i].rows, ways[i])]
      begin(i) == FoldLeft(LAMBDA n, b : n + Len(b), 0, SubSeq(bytes, 1, i - 1))
      At(a, b) == CHOOSE i \in DOMAIN tiles : tiles[i].px = a /\ tiles[i].py = b
      lefts == { tiles[i].px : i \in DOMAIN tiles }
      tops(a) == { tiles[i].py : i \in { n \in DOMAIN tiles : tiles[n].px = a } }
  IN  Message(px, py, Len(values[1]), Len(values), "zrle", FlattenSeq(bytes), values)
      @@ [tiles |-> [a \in lefts |-> [b \in tops(a) |-> begin(At(a, b))]],
          runs |-> [a \in lefts |-> [b \in tops(a) |->
                     RunStarts(f, tiles[At(a, b)].rows, ways[At(a, b)], begin(At(a, b)))]]]

\* Each picture in two tiles, side by side or one above the other, and its left
\* part in one
Screens(f) ==
  { [j \in 1..2 |-> [i \in 1..w |-> Values(f)[d[j][i]]]] : d \in Drawings, w \in {2, 4} }
  \cup { [j \in 1..4 |-> [i \in 1..2 |-> Values(f)[TallDrawing[i][j]]]] }
Zrle(f) ==
  UNION { { Rectangle(f, Smaller(1, 4 - Len(values[1])), 0, values, ways) :
              ways \in { two \in Ways \X Ways :
                           \A i \in 1..2 :
                             IF i \in DOMAIN Cut(values) THEN Fits(f, Cut(values)[i].rows, two[i])
                             ELSE two[i] = "raw" } } :
          values \in Screens(f) }

Simple(f) ==
  LET values(d) == [j \in 1..2 |-> [i \in 1..3 |-> Values(f)[d[j][i]]]]
      same(v) == [j \in 1..2 |-> [i \in 1..2 |-> v]]
  IN  { Message(1, 0, 3, 2, "raw",
                FlattenSeq([k \in 1..6 |-> PixelBytes(f, FlattenSeq(values(d))[k])]), values(d)) :
          d \in Drawings }
      \cup { Message(0, 0, 2, 2, "fill", PixelBytes(f, v), same(v)) : v \in {Values(f)[1], Values(f)[2]} }
      \cup { Message(px, 0, 0, 0, "block", <<31, 0, 224, 3, 0, 124, 33, 4, 0, 0, 1, 0, 31, 0, 0, 124, 2, 2>>,
                     <<>>) : px \in 0..2 }

\* Evaluated once
AllUpdates == [f \in Infos |-> Zrle(f) \cup Simple(f)]
MCUpdates(f) == AllUpdates[f]
=============================================================================
