------------------------------- MODULE Ast2100 -------------------------------
(***************************************************************************)
(* decode_ast2100: the pictures of an ikvm console come as a stream of bits *)
(* in 32-bit words, in which blocks of the screen follow each other: either *)
(* the Huffman codes of a discrete cosine transform, or pixels that choose  *)
(* from a palette.  Palette, positions and the sums of the first            *)
(* coefficients live on from block to block.                                *)
(*                                                                          *)
(* The arithmetic on floats (idct and the conversion to RGB) is abstracted: *)
(* a pixel is the triple of values of a palette, or the coefficients of its *)
(* block and its place.  The size of a block (8), the width of the fast     *)
(* table (10) and the Huffman tables are constants.                         *)
(***************************************************************************)
EXTENDS Integers, Sequences, SequencesExt, Pictures

CONSTANTS
  McuSize,
  DECBITS,
  Tables,          \* Tables[m] = [dc, ac]: the tables [lengths, vals] of component m
  ScreenWidth, ScreenHeight,
  Messages,        \* [data, blocks]: bytes, and the blocks [x, y, pixels] they mean
  MaxMessages      \* bound: number of messages

ASSUME AstAssumption == {McuSize, DECBITS, ScreenWidth, ScreenHeight} \subseteq Nat \ {0}

VARIABLES
  pic,
  screen,          \* what the server shows
  message,
  behind,          \* what is read behind the end of the message
  messages,        \* number of messages
  pc,
  in,              \* the register of bits: [bits, left, po]
  mcux, mcuy,      \* position of the block
  ctrl,            \* bits for a pixel of a block with a palette
  m,               \* component of a block with coefficients
  dct,             \* its coefficients so far
  odc,             \* sums of the first coefficients
  lookup, palette,
  out              \* pixels of a block with a palette so far

vars == <<pic, screen, message, behind, messages, pc, in, mcux, mcuy, ctrl, m, dct, odc,
          lookup, palette, out>>

Channels == 1..3
BlockPixels == McuSize * McuSize
Blank == <<0, 0, 0>>
Register == 32

NewReader == [bits |-> <<>>, left |-> 0, po |-> 0]
NewPalette == [i \in 0..3 |-> <<IF i = 0 THEN -128 ELSE IF i = 1 THEN 127
                                ELSE IF i = 2 THEN 0 ELSE 64, 0, 0>>]
NewBlock == dct' = [c \in Channels |-> <<>>] /\ out' = <<>>

Init ==
  /\ pic = Picture(ScreenWidth, ScreenHeight, LAMBDA i, j : Blank)
  /\ screen = pic
  /\ message = [data |-> <<>>, blocks |-> <<>>]
  /\ behind = 0
  /\ messages = 0
  /\ pc = "done"
  /\ in = NewReader
  /\ mcux = 0 /\ mcuy = 0 /\ ctrl = 0 /\ m = 1
  /\ dct = [c \in Channels |-> <<>>]
  /\ odc = [c \in Channels |-> 0]
  /\ lookup = [i \in 0..3 |-> i]
  /\ palette = NewPalette
  /\ out = <<>>
-----------------------------------------------------------------------------
(* The reader of bits                                                        *)

Swapped(po) == (po \div 4) * 4 + (3 - (po % 4))

\* The header of 4 bytes is not part of the stream. The register is filled past
\* the end of the message: those bytes can be anything.
ByteAt(po) ==
  IF 4 + Swapped(po) < Len(message.data) THEN message.data[4 + Swapped(po) + 1] ELSE behind
BitsOf(n, length) == [i \in 1..length |-> (n \div 2 ^ (length - i)) % 2]
BitsValue(bits) == FoldLeft(LAMBDA n, bit : 2 * n + bit, 0, bits)
LastOf(s, n) == SubSeq(s, Larger(0, Len(s) - n) + 1, Len(s))

\* fillbits: bytes until more than 24 bits are there
BytesToFill(reader) == ((24 - reader.left) \div 8) + 1

Filled(reader, n) ==
  IF reader.left >= n THEN reader
  ELSE LET count == BytesToFill(reader)
           more == FlattenSeq([i \in 1..count |-> BitsOf(ByteAt(reader.po + i - 1), 8)])
       IN  [bits |-> LastOf(reader.bits \o more, Register),
            left |-> reader.left + 8 * count,
            po |-> reader.po + count]

\* GETBITS: the value and the reader after it
GetBits(reader, n) ==
  LET filled == Filled(reader, n)
      from == Len(filled.bits) - filled.left
  IN  [value |-> BitsValue(SubSeq(filled.bits, from + 1, from + n)),
       in |-> [filled EXCEPT !.left = @ - n]]

UngetBits(reader, n) == [reader EXCEPT !.left = @ + n]
-----------------------------------------------------------------------------
(* Huffman codes                                                             *)

MaxLength(table) == Len(table.lengths)

\* dec_makehuff: codes of one length are successive numbers, and so are those
\* of the next length, with a bit appended.
FirstCode(table) ==
  LET first[length \in 1..MaxLength(table)] ==
        IF length = 1 THEN 0 ELSE 2 * (first[length - 1] + table.lengths[length - 1])
  IN  first
ValPtr(table, length) == FoldLeft(LAMBDA n, k : n + k, 0, SubSeq(table.lengths, 1, length - 1))
MaxCode(table, length) == FirstCode(table)[length] + table.lengths[length]

Run(val) == val \div 16
Size(val) == val % 16

\* Bits that begin with 0 are negative.
Extended(bits, size) == IF size > 0 /\ bits < 2 ^ (size - 1) THEN bits + 1 - 2 ^ size ELSE bits

CodesOf(table, length) == FirstCode(table)[length]..(MaxCode(table, length) - 1)
ValOf(table, length, code) ==
  table.vals[ValPtr(table, length) + code - FirstCode(table)[length] + 1]

\* llvals: what DECBITS bits begin with: a code with all bits of its number, a
\* code, or no code because it is longer.
Beginning(bits, length) == bits \div 2 ^ (DECBITS - length)
Entry(bits, length, val) ==
  LET rest == DECBITS - length - Size(val)
  IN  IF rest >= 0
      THEN [kind |-> "both", run |-> Run(val), unget |-> rest,
            value |-> Extended((bits \div 2 ^ rest) % 2 ^ Size(val), Size(val))]
      ELSE [kind |-> "code", run |-> Run(val), unget |-> DECBITS - length, size |-> Size(val)]

Llval(table, bits) ==
  LET code == SelectInSeq([l \in 1..Smaller(DECBITS, MaxLength(table)) |-> Beginning(bits, l)
                                                                         \in CodesOf(table, l)],
                          LAMBDA found : found)
  IN  IF code = 0 THEN [kind |-> "none"]
      ELSE Entry(bits, code, ValOf(table, code, Beginning(bits, code)))

\* The number that follows a code
ReceiveBits(run, size, got) == [run |-> run, value |-> Extended(got.value, size), in |-> got.in]

\* dec_rec2: the length of a code that begins with the DECBITS bits and goes on
LongCode(bits, n, got) == bits * 2 ^ (n - DECBITS) + got.value
LongLength(table, bits, reader) ==
  LET fits == [l \in 1..MaxLength(table) |->
                 l > DECBITS /\ LongCode(bits, l, GetBits(reader, l - DECBITS)) < MaxCode(table, l)]
  IN  SelectInSeq(fits, LAMBDA fit : fit)

LongVal(table, bits, length, got) ==
  LET val == ValOf(table, length, LongCode(bits, length, got))
  IN  ReceiveBits(Run(val), Size(val), GetBits(got.in, Size(val)))

\* Without a code, what was taken from the register is not put back.
DecRec2(table, bits, length, reader) ==
  IF length = 0
  THEN [run |-> bits, value |-> 0,
        in |-> [GetBits(reader, MaxLength(table) + 1 - DECBITS).in EXCEPT !.left = reader.left]]
  ELSE LongVal(table, bits, length, GetBits(reader, length - DECBITS))

\* DEC_REC
Decoded(table, got, ll) ==
  CASE ll.kind = "both" -> [run |-> ll.run, value |-> ll.value, in |-> UngetBits(got.in, ll.unget)]
    [] ll.kind = "code" -> ReceiveBits(ll.run, ll.size, GetBits(UngetBits(got.in, ll.unget), ll.size))
    [] ll.kind = "none" ->
         DecRec2(table, got.value, LongLength(table, got.value, got.in), got.in)
DecRecFrom(table, got) == Decoded(table, got, Llval(table, got.value))
DecRec(table, reader) == DecRecFrom(table, GetBits(reader, DECBITS))
-----------------------------------------------------------------------------
(* Blocks                                                                    *)

\* The pixels of a block that are on the screen; then the next position.
PutBlock(PixelAt(_)) ==
  /\ pic' = Picture(ScreenWidth, ScreenHeight, LAMBDA i, j :
       IF Has(Rect(mcux * McuSize, mcuy * McuSize, McuSize, McuSize), i, j)
       THEN PixelAt((j - mcuy * McuSize) * McuSize + (i - mcux * McuSize))
       ELSE Pixel(pic, i, j))
  /\ LET row_ends == (mcux + 1) * McuSize >= ScreenWidth
         next_row == IF row_ends THEN mcuy + 1 ELSE mcuy
     IN  /\ mcux' = IF row_ends THEN 0 ELSE mcux + 1
         /\ mcuy' = IF next_row * McuSize >= ScreenHeight THEN 0 ELSE next_row
  /\ pc' = "ctrl"
  /\ NewBlock

Position(value, reader) ==
  IF value >= 8
  THEN LET first == GetBits(reader, 8)
           second == GetBits(first.in, 8)
       IN  [x |-> first.value, y |-> second.value, in |-> second.in]
  ELSE [x |-> mcux, y |-> mcuy, in |-> reader]

ReadCtrl ==
  /\ pc = "ctrl"
  /\ LET got == GetBits(in, 4)
         position == Position(got.value, got.in)
     IN  IF got.value = 9
         THEN pc' = "done" /\ in' = got.in /\ UNCHANGED <<mcux, mcuy, ctrl>>
         ELSE /\ in' = position.in
              /\ mcux' = position.x /\ mcuy' = position.y
              /\ ctrl' = (got.value % 8) - 5
              /\ pc' = IF got.value % 8 = 0 THEN "dc"
                       ELSE IF got.value % 8 \in 5..7 THEN "palette"
                       ELSE "exit"
  /\ m' = 1
  /\ NewBlock
  /\ UNCHANGED <<pic, screen, message, behind, messages, odc, lookup, palette>>

\* What is not in the list is 0.
Coefficients(list) == [i \in {j \in DOMAIN list : list[j] # 0} |-> list[i]]

\* The value of a pixel in a transformed block
Idct(lists, k) == [coefficients |-> [c \in Channels |-> Coefficients(lists[c])], place |-> k]

DecodeDc ==
  /\ pc = "dc"
  /\ LET rec == DecRec(Tables[m].dc, in)
     IN  /\ in' = rec.in
         /\ odc' = [odc EXCEPT ![m] = @ + rec.value]
  /\ dct' = [dct EXCEPT ![m] = <<odc'[m]>>]
  /\ pc' = "ac"
  /\ UNCHANGED <<pic, screen, message, behind, messages, mcux, mcuy, ctrl, m, lookup, palette, out>>

\* A number after a run of zeros, up to the end of the block
DecodeAc ==
  /\ pc = "ac"
  /\ LET rec == DecRec(Tables[m].ac, in)
         zeros == [i \in 1..rec.run |-> 0]
         ends == rec.value = 0 /\ rec.run = 0
         list == IF ends THEN dct[m] ELSE dct[m] \o zeros \o <<rec.value>>
         lists == [dct EXCEPT ![m] = list]
     IN  /\ in' = rec.in
         /\ IF ~ends /\ Len(list) < BlockPixels
            THEN dct' = lists /\ UNCHANGED <<pic, pc, m, mcux, mcuy, out>>
            ELSE IF m < 3
            THEN /\ dct' = lists
                 /\ m' = m + 1
                 /\ pc' = "dc"
                 /\ UNCHANGED <<pic, mcux, mcuy, out>>
            ELSE PutBlock(LAMBDA k : Idct(lists, k)) /\ UNCHANGED m
  /\ UNCHANGED <<screen, message, behind, messages, ctrl, odc, lookup, palette>>

\* Mutant: the entry goes to the place in the list of this block.
Place_bug(number, idx) == number
Place(number, idx) == idx

\* The colours of a block: entries of the palette, some of them new. m counts them.
ReadColour ==
  /\ pc = "palette"
  /\ LET set == GetBits(in, 1)
         idx == GetBits(set.in, 2)
         cy == GetBits(idx.in, 8)
         cb == GetBits(cy.in, 8)
         cr == GetBits(cb.in, 8)
         colour == <<cy.value - 128, cb.value - 128, cr.value - 128>>
     IN  /\ in' = IF set.value = 1 THEN cr.in ELSE idx.in
         /\ palette' = IF set.value = 1
                       THEN [palette EXCEPT ![Place(m - 1, idx.value)] = colour] ELSE palette
         /\ lookup' = [lookup EXCEPT ![m - 1] = idx.value]
  /\ IF m < 2 ^ ctrl
     THEN m' = m + 1 /\ UNCHANGED <<pic, mcux, mcuy, pc, dct, out>>
     ELSE IF ctrl > 0
     THEN pc' = "pixels" /\ UNCHANGED <<pic, mcux, mcuy, m, dct, out>>
     ELSE PutBlock(LAMBDA k : palette'[lookup'[0]]) /\ UNCHANGED m
  /\ UNCHANGED <<screen, message, behind, messages, ctrl, odc>>

ReadIndex ==
  /\ pc = "pixels"
  /\ LET got == GetBits(in, ctrl)
         pixels == Append(out, palette[lookup[got.value]])
     IN  /\ in' = got.in
         /\ IF Len(pixels) < BlockPixels
            THEN out' = pixels /\ UNCHANGED <<pic, mcux, mcuy, pc, dct>>
            ELSE PutBlock(LAMBDA k : pixels[k + 1])
  /\ UNCHANGED <<screen, message, behind, messages, ctrl, m, odc, lookup, palette>>
-----------------------------------------------------------------------------
HighQuality == SubSeq(message'.data, 1, 4) = <<11, 11, 1, 188>>

\* 'bad data len (not divisible by 4)': the process exits.
WholeWords == Len(message'.data) % 4 = 0

Shown(picture, blocks) ==
  FoldLeft(LAMBDA shown, b :
             Picture(ScreenWidth, ScreenHeight, LAMBDA i, j :
               IF Has(Rect(b.x * McuSize, b.y * McuSize, McuSize, McuSize), i, j)
               THEN b.pixels[(j - b.y * McuSize) * McuSize + (i - b.x * McuSize) + 1]
               ELSE Pixel(shown, i, j)),
           picture, blocks)

\* External: the server shows some blocks and sends them. A message of another
\* quality is not decoded, and one that is not of whole words ends the process.
Start ==
  /\ pc = "done"
  /\ messages < MaxMessages
  /\ messages' = messages + 1
  /\ message' \in Messages
  /\ behind' \in {0, 255}
  /\ screen' = IF WholeWords /\ HighQuality THEN Shown(screen, message'.blocks) ELSE screen
  /\ pc' = IF ~WholeWords THEN "exit" ELSE IF HighQuality THEN "ctrl" ELSE "done"
  /\ in' = NewReader
  /\ mcux' = 0 /\ mcuy' = 0 /\ ctrl' = 0 /\ m' = 1
  /\ odc' = [c \in Channels |-> 0]
  /\ lookup' = [i \in 0..3 |-> i]
  /\ palette' = NewPalette
  /\ NewBlock
  /\ UNCHANGED pic

Next == Start \/ ReadCtrl \/ DecodeDc \/ DecodeAc \/ ReadColour \/ ReadIndex

Spec == Init /\ [][Next]_vars
-----------------------------------------------------------------------------
\* After a message the picture is that of the server: each code was taken for
\* what it stands, bit after bit, and each block put to its position.
PictureIsScreen == pc = "done" => pic = screen

\* What is given back to the register is still in it, and a code that no table
\* has ('unknown ctrl') is never met in the stream of a server.
RegisterHolds ==
  /\ in.left <= Len(in.bits) /\ Len(in.bits) <= Register
  /\ pc = "exit" => Len(message.data) % 4 # 0
=============================================================================
