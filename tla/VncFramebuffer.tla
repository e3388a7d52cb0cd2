--------------------------- MODULE VncFramebuffer ---------------------------
(***************************************************************************)
(* The picture of a VNC console: rectangles of the server, in one of        *)
(* several encodings, are drawn into the framebuffer.  A rectangle in ZRLE  *)
(* is a row of rows of tiles, each encoded in its own way; the decoder      *)
(* walks through the bytes with one offset.  Sizes of the protocol (64 for  *)
(* a tile, 255 for the byte that continues a length, 16 for a block of      *)
(* ikvm) are constants.  The server is external: Updates holds what it may  *)
(* send, each with the pixel values it means by it.                         *)
(***************************************************************************)
EXTENDS Integers, Sequences, Pictures

CONSTANTS
  Infos,           \* VNCInfo: pixel formats of VNC.pm's own, or those of the server
  ColourMaps,      \* colour maps that the server may set
  Width, Height,   \* size of the framebuffer to begin with
  Updates(_),      \* Updates(info): [x, y, w, h, encoding, data, values, tiles, runs]
  MaxUpdates,      \* bound: number of updates
  TileSize, RunMax, BlockSize

\* Only a format of one byte has a colour map (%supported_depths); its maxima and
\* shifts are not used.
ASSUME InfoAssumption == \A f \in Infos :
  /\ f.bytes_per_pixel \in {1, 2, 4}
  /\ f.do_endian_conversion \in BOOLEAN
  /\ f.true_colour <=> f.bytes_per_pixel # 1
  /\ f.true_colour => \A mask \in {f.red_mask, f.green_mask, f.blue_mask} :
                        \E bits \in 0..8 : mask = 2 ^ bits - 1
ASSUME SizesAssumption == {TileSize, RunMax, BlockSize, Width, Height} \subseteq Nat \ {0}
-----------------------------------------------------------------------------
(* External: what a server sends. The bytes of a rectangle stand for its      *)
(* values; beside them is kept where tiles (tiles) and runs (runs) begin.     *)

\* A CPIXEL of 4 bytes, of which only the low or only the high three hold colours,
\* comes without the other one.
Components(f) ==
  {<<f.red_shift, f.red_mask>>, <<f.green_shift, f.green_mask>>, <<f.blue_shift, f.blue_mask>>}
InLowBytes(f) == \A c \in Components(f) : c[1] < 24 /\ c[2] < 2 ^ (24 - c[1])
InHighBytes(f) == \A c \in Components(f) : c[1] >= 8
CpixelLength(f) ==
  IF f.bytes_per_pixel = 4 /\ (InLowBytes(f) \/ InHighBytes(f)) THEN 3 ELSE f.bytes_per_pixel
CpixelValue(f, value) ==
  IF f.bytes_per_pixel = 4 /\ ~InLowBytes(f) /\ InHighBytes(f) THEN value \div 256 ELSE value

Value(u, i, j) == u.values[j + 1][i + 1]

\* At an offset is the number of so many bytes.
IsNumber(f, data, o, length, value) ==
  LET Digit(i) == data[1 + (IF f.do_endian_conversion THEN o + length - 1 - i ELSE o + i)]
  IN  /\ o + length <= Len(data)
      /\ value = IF length = 1 THEN data[o + 1]
                 ELSE IF length = 2 THEN Digit(0) + 256 * Digit(1)
                 ELSE IF length = 3 THEN Digit(0) + 256 * (Digit(1) + 256 * Digit(2))
                 ELSE Digit(0) + 256 * (Digit(1) + 256 * (Digit(2) + 256 * Digit(3)))

IsCpixel(f, u, o, i, j) ==
  IsNumber(f, u.data, o, CpixelLength(f), CpixelValue(f, Value(u, i, j)))

TileWidth(u, px) == Smaller(TileSize, u.w - px)
TileHeight(u, py) == Smaller(TileSize, u.h - py)
TileArea(u, px, py) == TileWidth(u, px) * TileHeight(u, py)

\* Tiles have their corner at px, py. Behind the bytes of a tile is the next one,
\* or the end.
TileBegins(u, px, py, o) == px \in DOMAIN u.tiles /\ py \in DOMAIN u.tiles[px] /\ u.tiles[px][py] = o
TileEnds(u, px, py, o) ==
  IF px + TileSize < u.w THEN TileBegins(u, px + TileSize, py, o)
  ELSE IF py + TileSize < u.h THEN TileBegins(u, 0, py + TileSize, o)
  ELSE o = Len(u.data)

IsRaw(f, u, px, py, o) ==
  /\ u.data[o + 1] = 0
  /\ \A i \in 0..(TileWidth(u, px) - 1), j \in 0..(TileHeight(u, py) - 1) :
       IsCpixel(f, u, o + 1 + (j * TileWidth(u, px) + i) * CpixelLength(f), px + i, py + j)
  /\ TileEnds(u, px, py, o + 1 + TileArea(u, px, py) * CpixelLength(f))

IsSolid(f, u, px, py, o) ==
  /\ u.data[o + 1] = 1
  /\ \A i \in 0..(TileWidth(u, px) - 1), j \in 0..(TileHeight(u, py) - 1) :
       IsCpixel(f, u, o + 1, px + i, py + j)
  /\ TileEnds(u, px, py, o + 1 + CpixelLength(f))

\* Rows of indices of 1, 2 or 4 bits, each filled up to whole bytes
IndexBits(colours) == IF colours > 4 THEN 4 ELSE IF colours > 2 THEN 2 ELSE 1
IndexRow(u, px, bits) == (TileWidth(u, px) * bits + 7) \div 8
Index(u, px, rows, bits, i, j) ==
  (u.data[1 + rows + j * IndexRow(u, px, bits) + (i * bits) \div 8]
     \div 2 ^ (8 - bits - ((i * bits) % 8))) % 2 ^ bits

IsPacked(f, u, px, py, o) ==
  LET colours == u.data[o + 1]
      bits == IndexBits(colours)
      rows == o + 1 + colours * CpixelLength(f)
  IN  /\ colours \in (2..127) \cup {129}
      /\ \A i \in 0..(TileWidth(u, px) - 1), j \in 0..(TileHeight(u, py) - 1) :
           IsCpixel(f, u, o + 1 + Index(u, px, rows, bits, i, j) * CpixelLength(f), px + i, py + j)
      /\ rows + TileHeight(u, py) * IndexRow(u, px, bits) <= Len(u.data)
      /\ TileEnds(u, px, py, rows + TileHeight(u, py) * IndexRow(u, px, bits))

\* One more than the sum of the bytes: those that continue it, and the last one
IsLength(u, o, continued, length) ==
  /\ o + continued < Len(u.data)
  /\ \A m \in 0..(continued - 1) : u.data[o + m + 1] = RunMax
  /\ u.data[o + continued + 1] # RunMax
  /\ length = 1 + continued * RunMax + u.data[o + continued + 1]

\* Pixels first..first+length-1 of a tile, which have the colour at an offset
IsRun(f, u, px, py, first, length, o) ==
  \A i \in 0..(TileWidth(u, px) - 1), j \in 0..(TileHeight(u, py) - 1) :
    j * TileWidth(u, px) + i \in first..(first + length - 1) => IsCpixel(f, u, o, px + i, py + j)

\* Behind a run is the next one, or the end of the tile.
RunBegins(u, px, py, first, o) ==
  IF first < TileArea(u, px, py)
  THEN first \in DOMAIN u.runs[px][py] /\ u.runs[px][py][first] = o
  ELSE first = TileArea(u, px, py) /\ TileEnds(u, px, py, o)

IsPlainRun(f, u, px, py, first, o) ==
  \E continued \in 0..Len(u.data), length \in 1..(TileArea(u, px, py) - first) :
    LET end == o + CpixelLength(f)
    IN  /\ IsLength(u, end, continued, length)
        /\ IsRun(f, u, px, py, first, length, o)
        /\ RunBegins(u, px, py, first + length, end + continued + 1)

IsPlainRuns(f, u, px, py, o) ==
  /\ u.data[o + 1] = 128
  /\ RunBegins(u, px, py, 0, o + 1)
  /\ \A first \in DOMAIN u.runs[px][py] :
       /\ first \in 0..(TileArea(u, px, py) - 1) /\ u.runs[px][py][first] \in Nat
       /\ IsPlainRun(f, u, px, py, first, u.runs[px][py][first])

\* One pixel, or with a length if the high bit says so
IsPaletteRun(f, u, px, py, palette, first, o) ==
  LET colour == palette + (u.data[o + 1] % 128) * CpixelLength(f)
  IN  IF u.data[o + 1] < 128
      THEN /\ IsRun(f, u, px, py, first, 1, colour)
           /\ RunBegins(u, px, py, first + 1, o + 1)
      ELSE \E continued \in 0..Len(u.data), length \in 1..(TileArea(u, px, py) - first) :
             /\ IsLength(u, o + 1, continued, length)
             /\ IsRun(f, u, px, py, first, length, colour)
             /\ RunBegins(u, px, py, first + length, o + continued + 2)

IsPaletteRuns(f, u, px, py, o) ==
  /\ u.data[o + 1] \in 130..255
  /\ RunBegins(u, px, py, 0, o + 1 + (u.data[o + 1] - 128) * CpixelLength(f))
  /\ \A first \in DOMAIN u.runs[px][py] :
       /\ first \in 0..(TileArea(u, px, py) - 1)
       /\ u.runs[px][py][first] \in 0..(Len(u.data) - 1)
       /\ IsPaletteRun(f, u, px, py, o + 1, first, u.runs[px][py][first])

IsZrle(f, u) ==
  /\ TileBegins(u, 0, 0, 0)
  /\ \A px \in DOMAIN u.tiles : \A py \in DOMAIN u.tiles[px] :
       LET o == u.tiles[px][py]
       IN  /\ px \in 0..(u.w - 1) /\ py \in 0..(u.h - 1) /\ o \in 0..(Len(u.data) - 1)
           /\ \/ IsRaw(f, u, px, py, o) \/ IsSolid(f, u, px, py, o) \/ IsPacked(f, u, px, py, o)
              \/ IsPlainRuns(f, u, px, py, o) \/ IsPaletteRuns(f, u, px, py, o)

\* A rectangle that is drawn at once is inside the screen.
IsUpdate(f, u) ==
  /\ u.encoding \in {"raw", "fill", "block", "zrle"}
  /\ u.data \in Seq(0..255) /\ u.x \in Nat /\ u.y \in Nat
  /\ u.encoding # "block" =>
       /\ {u.w, u.h} \subseteq Nat \ {0}
       /\ \A i \in 0..(u.w - 1), j \in 0..(u.h - 1) : Value(u, i, j) \in Nat
  /\ u.encoding \in {"raw", "fill"} =>
       /\ u.x + u.w <= Width /\ u.y + u.h <= Height
       /\ \A i \in 0..(u.w - 1), j \in 0..(u.h - 1) :
            IsNumber(f, u.data,
                     IF u.encoding = "fill" THEN 0 ELSE (j * u.w + i) * f.bytes_per_pixel,
                     f.bytes_per_pixel, Value(u, i, j))
  /\ u.encoding = "zrle" => IsZrle(f, u)

ASSUME UpdatesAssumption == \A f \in Infos : \A u \in Updates(f) : IsUpdate(f, u)
-----------------------------------------------------------------------------

VARIABLES
  info,            \* the pixel format of the connection
  framebuffer,
  colour_map,
  stage,           \* "idle", "received", "tile", "runs" (of a tile) or "done"
  update,          \* the rectangle that is drawn
  offset,          \* bytes of it that were read
  x, y,            \* the tile
  tile_start,      \* where the tile with the runs begins: its sub_encoding
  pixels_drawn,    \* pixels of this tile that are drawn
  updates          \* number of updates

vncVars == <<info, framebuffer, colour_map, stage, update, offset, x, y, tile_start, pixels_drawn,
             updates>>

NoUpdate == [encoding |-> "none"]
Black == <<0, 0, 0>>
NewPicture(width, height) == Picture(width, height, LAMBDA i, j : Black)

VncInit ==
  /\ info \in Infos
  /\ framebuffer = NewPicture(Width, Height)
  /\ colour_map \in ColourMaps
  /\ stage = "idle"
  /\ update = NoUpdate
  /\ offset = 0 /\ x = 0 /\ y = 0 /\ tile_start = 0 /\ pixels_drawn = 0
  /\ updates = 0
-----------------------------------------------------------------------------
(* Reading pixels                                                            *)

\* A byte behind the end, which the decoder does not test for, is any; 0 here.
Byte(o) == IF o < Len(update.data) THEN update.data[o + 1] ELSE 0

\* Numbers are those of a host with the least byte first, or swapped.
Number(o, length) ==
  LET Digit(i) == Byte(IF info.do_endian_conversion THEN o + length - 1 - i ELSE o + i)
  IN  IF length = 1 THEN Byte(o)
      ELSE IF length = 2 THEN Digit(0) + 256 * Digit(1)
      ELSE Digit(0) + 256 * (Digit(1) + 256 * (Digit(2) + 256 * Digit(3)))

Component(pixel, shift, mask) == ((pixel \div 2 ^ shift) % (mask + 1)) * (256 \div (mask + 1))

Colour(pixel) ==
  <<Component(pixel, info.blue_shift, info.blue_mask),
    Component(pixel, info.green_shift, info.green_mask),
    Component(pixel, info.red_shift, info.red_mask)>>

PixelSize == info.bytes_per_pixel
ReadPixel(o) ==
  IF PixelSize = 1 /\ ~info.true_colour THEN colour_map[Byte(o)]
  ELSE Colour(Number(o, PixelSize))

\* Of four bytes three are read, whatever the shifts of the format are.
CpixelSize == IF PixelSize = 4 THEN 3 ELSE PixelSize
ReadCpixel(o) ==
  IF PixelSize = 1 THEN colour_map[Byte(o)]
  ELSE IF PixelSize = 2 THEN Colour(Number(o, 2))
  ELSE IF info.do_endian_conversion THEN <<Byte(o + 2), Byte(o + 1), Byte(o)>>
  ELSE <<Byte(o), Byte(o + 1), Byte(o + 2)>>
-----------------------------------------------------------------------------
(* Rectangles that are drawn at once                                         *)

UpdateRect == Rect(update.x, update.y, update.w, update.h)

\* The part r of the picture, with a colour for each pixel of it, row by row
Drawn(picture, r, PixelAt(_)) ==
  Picture(Cols(picture), Rows(picture), LAMBDA i, j :
    IF Has(r, i, j) THEN PixelAt((j - r.y) * r.width + (i - r.x)) ELSE Pixel(picture, i, j))

DrawAtOnce(r, PixelAt(_)) ==
  /\ framebuffer' = Drawn(framebuffer, r, PixelAt)
  /\ stage' = "done"
  /\ UNCHANGED <<info, colour_map, update, offset, x, y, tile_start, pixels_drawn, updates>>

\* image_map_raw_data
Raw ==
  /\ stage = "received" /\ update.encoding = "raw"
  /\ DrawAtOnce(UpdateRect, LAMBDA k : ReadPixel(k * PixelSize))

\* image_fill_pixel: a rectangle that is out of range is not drawn.
Fill ==
  /\ stage = "received" /\ update.encoding = "fill"
  /\ DrawAtOnce(IF InRange(framebuffer, UpdateRect) THEN UpdateRect ELSE NoRect,
                LAMBDA k : ReadPixel(0))

\* Two bytes, five bits for each colour
Rgb555(k) ==
  LET pixel == Byte(2 * k) + 256 * Byte(2 * k + 1)
  IN  <<(pixel % 32) * 8, ((pixel \div 32) % 32) * 8, ((pixel \div 1024) % 32) * 8>>

\* A block of ikvm is a picture of its own, cut at the edges and blended in.
Block ==
  /\ stage = "received" /\ update.encoding = "block"
  /\ LET block == Drawn(NewPicture(BlockSize, BlockSize), Rect(0, 0, BlockSize, BlockSize), Rgb555)
         left == update.x * BlockSize
         top == update.y * BlockSize
         cut == Rect(left, top, Smaller(BlockSize, Larger(0, Cols(framebuffer) - left)),
                                Smaller(BlockSize, Larger(0, Rows(framebuffer) - top)))
     IN  DrawAtOnce(cut, LAMBDA k : Pixel(block, k % cut.width, k \div cut.width))
-----------------------------------------------------------------------------
(* ZRLE                                                                      *)

tile_width == Smaller(TileSize, update.x + update.w - x)
tile_height == Smaller(TileSize, update.y + update.h - y)
Tile == Rect(x, y, tile_width, tile_height)
TilePixels == tile_width * tile_height

\* A framebuffer that is too small is replaced by one that is all black.
Grown ==
  LET max_x == Larger(update.x + update.w, Cols(framebuffer))
      max_y == Larger(update.y + update.h, Rows(framebuffer))
  IN  IF Cols(framebuffer) < max_x \/ Rows(framebuffer) < max_y
      THEN NewPicture(max_x, max_y)
      ELSE framebuffer

StartZrle ==
  /\ stage = "received" /\ update.encoding = "zrle"
  /\ framebuffer' = Grown
  /\ offset' = 0
  /\ x' = update.x /\ y' = update.y
  /\ stage' = "tile"
  /\ UNCHANGED <<info, colour_map, update, tile_start, pixels_drawn, updates>>

\* Pixels first..last-1 of the tile, in one of the colours
DrawTile(first, last, PixelAt(_)) ==
  framebuffer' = Picture(Cols(framebuffer), Rows(framebuffer), LAMBDA i, j :
    LET k == (j - y) * tile_width + (i - x)
    IN  IF Has(Tile, i, j) /\ k \in first..(last - 1) THEN PixelAt(k)
        ELSE Pixel(framebuffer, i, j))

\* Tiles go from left to right, then to the next row of tiles.
NextTile ==
  LET row_ends == x + TileSize >= update.x + update.w
  IN  /\ x' = IF row_ends THEN update.x ELSE x + TileSize
      /\ y' = IF row_ends THEN y + TileSize ELSE y
      /\ stage' = IF row_ends /\ y + TileSize >= update.y + update.h THEN "done" ELSE "tile"
      /\ UNCHANGED <<tile_start, pixels_drawn>>

WholeTile(length, PixelAt(_)) ==
  /\ DrawTile(0, TilePixels, PixelAt)
  /\ offset' = offset + 1 + length
  /\ NextTile
  /\ UNCHANGED <<info, colour_map, update, updates>>

AtTile(subs) ==
  /\ stage = "tile"
  /\ offset < Len(update.data)
  /\ Byte(offset) \in subs

RawTile ==
  /\ AtTile({0})
  /\ WholeTile(TilePixels * CpixelSize, LAMBDA k : ReadCpixel(offset + 1 + k * CpixelSize))

SolidTile ==
  /\ AtTile({1})
  /\ WholeTile(CpixelSize, LAMBDA k : ReadCpixel(offset + 1))

\* Mutant: a row that ends inside of a byte does not end it.
RowBytes_bug(palette_bpp) == (tile_width * palette_bpp) \div 8

\* Rows of indices begin with a new byte.
RowBytes(palette_bpp) == (tile_width * palette_bpp + 7) \div 8

PackedTile ==
  /\ AtTile((2..127) \cup {129})
  /\ LET palette_size == Byte(offset)
         palette_bpp == IF palette_size > 4 THEN 4 ELSE IF palette_size > 2 THEN 2 ELSE 1
         indices == offset + 1 + palette_size * CpixelSize
         bit(k) == (k % tile_width) * palette_bpp
         byte(k) == Byte(indices + (k \div tile_width) * RowBytes(palette_bpp) + bit(k) \div 8)
         index(k) == (byte(k) \div 2 ^ (8 - palette_bpp - (bit(k) % 8))) % 2 ^ palette_bpp
     IN  WholeTile(palette_size * CpixelSize + tile_height * RowBytes(palette_bpp),
                   LAMBDA k : ReadCpixel(offset + 1 + index(k) * CpixelSize))

PaletteSize(sub) == IF sub >= 130 THEN sub - 128 ELSE 0

StartRuns ==
  /\ AtTile((128..255) \ {129})
  /\ tile_start' = offset
  /\ offset' = offset + 1 + PaletteSize(Byte(offset)) * CpixelSize
  /\ pixels_drawn' = 0
  /\ stage' = "runs"
  /\ UNCHANGED <<info, framebuffer, colour_map, update, x, y, updates>>

\* Bytes of a length: those that continue it, and the last one.
Continued(o) == CHOOSE n \in 0..Len(update.data) :
                  Byte(o + n) # RunMax /\ \A m \in 0..(n - 1) : Byte(o + m) = RunMax

\* Mutant: the length is not one more than the sum.
RunLength_bug(o) == Continued(o) * RunMax + Byte(o + Continued(o))

\* One more than the sum of the bytes
RunLength(o) == 1 + Continued(o) * RunMax + Byte(o + Continued(o))
RunBytes(o) == Continued(o) + 1

DrawRun(length, bytes, colour) ==
  /\ DrawTile(pixels_drawn, pixels_drawn + length, LAMBDA k : colour)
  /\ offset' = offset + bytes
  /\ IF pixels_drawn + length >= TilePixels
     THEN NextTile
     ELSE pixels_drawn' = pixels_drawn + length /\ UNCHANGED <<stage, x, y, tile_start>>
  /\ UNCHANGED <<info, colour_map, update, updates>>

PlainRun ==
  /\ stage = "runs" /\ Byte(tile_start) = 128
  /\ LET o == offset + CpixelSize
     IN  DrawRun(RunLength(o), CpixelSize + RunBytes(o), ReadCpixel(offset))

PaletteColour == ReadCpixel(tile_start + 1 + (Byte(offset) % 128) * CpixelSize)

\* A colour of the palette for one pixel, or with a length if the high bit says so
PalettePixel ==
  /\ stage = "runs" /\ Byte(tile_start) # 128 /\ Byte(offset) < 128
  /\ DrawRun(1, 1, PaletteColour)

PaletteRun ==
  /\ stage = "runs" /\ Byte(tile_start) # 128 /\ Byte(offset) >= 128
  /\ DrawRun(RunLength(offset + 1), 1 + RunBytes(offset + 1), PaletteColour)
-----------------------------------------------------------------------------
\* External: the server sends a rectangle, or a new colour map.
Receive ==
  /\ stage \in {"idle", "done"}
  /\ updates < MaxUpdates
  /\ updates' = updates + 1
  /\ update' \in Updates(info)
  /\ stage' = "received"
  /\ offset' = 0 /\ x' = 0 /\ y' = 0 /\ tile_start' = 0 /\ pixels_drawn' = 0
  /\ UNCHANGED <<info, framebuffer, colour_map>>

SetColours ==
  /\ stage = "done"
  /\ colour_map' \in ColourMaps \ {colour_map}
  /\ stage' = "idle"
  /\ update' = NoUpdate
  /\ UNCHANGED <<info, framebuffer, offset, x, y, tile_start, pixels_drawn, updates>>

VncNext ==
  \/ Receive \/ SetColours
  \/ Raw \/ Fill \/ Block
  \/ StartZrle \/ RawTile \/ SolidTile \/ PackedTile
  \/ StartRuns \/ PlainRun \/ PalettePixel \/ PaletteRun

VncSpec == VncInit /\ [][VncNext]_vncVars
-----------------------------------------------------------------------------
\* What the server means by a pixel value
Meaning(value) == IF info.true_colour THEN Colour(value) ELSE colour_map[value]

\* The decoder reads as many bytes of a CPIXEL as the server sends.
CpixelsAsRead == CpixelLength(info) = CpixelSize

\* Three bytes that are read are the colours the server means by them.
ColoursAsRead ==
  PixelSize = 4 =>
    /\ info.blue_shift \in {0, 8}
    /\ info.green_shift = info.blue_shift + 8 /\ info.red_shift = info.blue_shift + 16
    /\ info.red_mask = 255 /\ info.green_mask = 255 /\ info.blue_mask = 255

\* The whole rectangle shows what the server meant.
RectangleShown ==
  \A i \in 0..(update.w - 1), j \in 0..(update.h - 1) :
    Pixel(framebuffer, update.x + i, update.y + j) = Meaning(update.values[j + 1][i + 1])

\* When a rectangle is done it shows what the server meant, in whatever way the
\* server has cut and encoded it; in ZRLE, if its colours are those of the three
\* bytes.
ShowsScreen ==
  stage = "done" /\ update.encoding # "block" /\ (update.encoding = "zrle" => ColoursAsRead) =>
    RectangleShown

\* What VNC.pm asks for: without a depth of its own it takes 'server's values for
\* *_max and *_shift' (VNC.pm:379), and a rectangle shows what the server meant by
\* them.
ShownAsAsked == stage = "done" /\ update.encoding # "block" => RectangleShown

\* Neither 'not enough bytes for zrle' (tinycv_impl.cc:829) nor 'not read enough
\* data' (VNC.pm:942): when the last tile is drawn all bytes were read, and only
\* then. All runs of a tile together are the tile.
AllDataRead ==
  CpixelsAsRead =>
    /\ stage = "done" /\ update.encoding = "zrle" => offset = Len(update.data)
    /\ stage = "tile" => offset < Len(update.data)
    /\ stage = "runs" => pixels_drawn < TilePixels

\* Outside of the rectangle nothing changes, unless the framebuffer grows.
OthersKept ==
  [][ Rows(framebuffer') = Rows(framebuffer) /\ Cols(framebuffer') = Cols(framebuffer) =>
        \A i \in 0..(Cols(framebuffer) - 1), j \in 0..(Rows(framebuffer) - 1) :
          \/ Pixel(framebuffer', i, j) = Pixel(framebuffer, i, j)
          \/ update.encoding = "block"
          \/ Has(UpdateRect, i, j) ]_vncVars
=============================================================================
