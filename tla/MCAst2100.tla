----------------------------- MODULE MCAst2100 -----------------------------
(* An instance of Ast2100 for TLC, with a server that encodes blocks.       *)
EXTENDS Ast2100, TLC

\* Codes of 1 to 5 bits for the differences of the first coefficients (the
\* values are sizes), and of 2 to 6 bits for the others (runs and sizes).
DcTable == [lengths |-> <<1, 1, 1, 0, 1>>, vals |-> <<0, 1, 3, 2>>]
AcTable == [lengths |-> <<0, 2, 1, 0, 1, 1>>, vals |-> <<0, 1, 18, 240, 3>>]
MCTables == [c \in Channels |-> [dc |-> DcTable, ac |-> AcTable]]

\* The codes that a server writes for these values
DcCode == (0 :> <<0>>) @@ (1 :> <<1, 0>>) @@ (3 :> <<1, 1, 0>>) @@ (2 :> <<1, 1, 1, 0, 0>>)
AcCode == (0 :> <<0, 0>>) @@ (1 :> <<0, 1>>) @@ (18 :> <<1, 0, 0>>)
          @@ (240 :> <<1, 0, 1, 0, 0>>) @@ (3 :> <<1, 0, 1, 0, 1, 0>>)

SizeOf(n) == CHOOSE size \in 0..8 :
  /\ -(2 ^ size) < n /\ n < 2 ^ size
  /\ size > 0 => \/ n <= -(2 ^ (size - 1))
                 \/ n >= 2 ^ (size - 1)
NumberBits(n) == BitsOf(IF n < 0 THEN n + 2 ^ SizeOf(n) - 1 ELSE n, SizeOf(n))
DcBits(n) == DcCode[SizeOf(n)] \o NumberBits(n)
AcBits(run, n) == AcCode[16 * run + SizeOf(n)] \o NumberBits(n)

\* Blocks of a server: at a place of their own (at # <<>>) or the next one.
Coded(at, dc, acs) == [kind |-> "dct", at |-> at, dc |-> dc, acs |-> acs]
Colours(at, colours, indices) ==
  [kind |-> "palette", at |-> at, colours |-> colours, indices |-> indices]
Old(idx) == [idx |-> idx, colour |-> <<>>]
New(idx, colour) == [idx |-> idx, colour |-> colour]

\* Bits for a pixel: 1, 2 or 4 colours
PixelBits(b) == IF Len(b.colours) = 4 THEN 2 ELSE Len(b.colours) - 1
CtrlBits(b) ==
  LET kind == IF b.kind = "dct" THEN 0 ELSE 5 + PixelBits(b)
  IN  IF b.at = <<>> THEN BitsOf(kind, 4)
      ELSE BitsOf(8 + kind, 4) \o BitsOf(b.at[1], 8) \o BitsOf(b.at[2], 8)
ColourBits(e) ==
  (IF e.colour = <<>> THEN <<0>> ELSE <<1>>) \o BitsOf(e.idx, 2)
  \o FlattenSeq([i \in 1..Len(e.colour) |-> BitsOf(e.colour[i], 8)])
\* The last run of a component is not followed by an end if the block is full.
AcsBits(acs) ==
  FlattenSeq([i \in 1..Len(acs) |-> AcBits(acs[i][1], acs[i][2])])
  \o (IF FoldLeft(LAMBDA n, ac : n + ac[1] + 1, 1, acs) = BlockPixels THEN <<>> ELSE AcCode[0])
BlockBits(b) ==
  CtrlBits(b) \o
  (IF b.kind = "dct" THEN FlattenSeq([c \in Channels |-> DcBits(b.dc[c]) \o AcsBits(b.acs[c])])
   ELSE FlattenSeq([i \in 1..Len(b.colours) |-> ColourBits(b.colours[i])])
        \o FlattenSeq([i \in 1..(IF PixelBits(b) = 0 THEN 0 ELSE BlockPixels) |->
                         BitsOf(b.indices[i], PixelBits(b))]))

\* 32 bits make a word, whose bytes are sent in the order of the least first.
Words(bits) ==
  FlattenSeq([w \in 1..((Len(bits) + 31) \div 32) |->
    [i \in 1..4 |-> BitsValue([k \in 1..8 |-> LET n == 32 * (w - 1) + 8 * (4 - i) + k
                                             IN  IF n <= Len(bits) THEN bits[n] ELSE 0])]])
Encoded(list) ==
  <<11, 11, 1, 188>> \o Words(FlattenSeq([i \in 1..Len(list) |-> BlockBits(list[i])]) \o BitsOf(9, 4))

\* What the blocks show: colours that are set, sums and places go on from block
\* to block.
BlocksInARow == (ScreenWidth + McuSize - 1) \div McuSize
AllBlocks == BlocksInARow * ((ScreenHeight + McuSize - 1) \div McuSize)
Nonzero(n, acs) ==
  LET nth(i) == FoldLeft(LAMBDA k, ac : k + ac[1] + 1, 1, SubSeq(acs, 1, i))
      given == [i \in {1} \cup {nth(i) : i \in 1..Len(acs)} |->
                  IF i = 1 THEN n ELSE acs[CHOOSE j \in 1..Len(acs) : nth(j) = i][2]]
  IN  [i \in {j \in DOMAIN given : given[j] # 0} |-> given[i]]
BlocksMeant(list) ==
  LET first == [place |-> 0, odc |-> [c \in Channels |-> 0], palette |-> NewPalette, blocks |-> <<>>]
      With(s, b) ==
        LET place == IF b.at = <<>> THEN s.place % AllBlocks ELSE b.at[2] * BlocksInARow + b.at[1]
            odc2 == IF b.kind = "dct" THEN [c \in Channels |-> s.odc[c] + b.dc[c]] ELSE s.odc
            palette2 == IF b.kind = "dct" THEN s.palette
                        ELSE FoldLeft(LAMBDA p, e : IF e.colour = <<>> THEN p
                               ELSE [p EXCEPT ![e.idx] = [c \in Channels |-> e.colour[c] - 128]],
                               s.palette, b.colours)
            pixels == [k \in 1..BlockPixels |->
              IF b.kind = "dct"
              THEN [coefficients |-> [c \in Channels |-> Nonzero(odc2[c], b.acs[c])], place |-> k - 1]
              ELSE palette2[b.colours[IF PixelBits(b) = 0 THEN 1 ELSE b.indices[k] + 1].idx]]
        IN  [place |-> place + 1, odc |-> odc2, palette |-> palette2,
             blocks |-> Append(s.blocks, [x |-> place % BlocksInARow, y |-> place \div BlocksInARow,
                                          pixels |-> pixels])]
  IN  FoldLeft(With, first, list).blocks

Stream(list) == [data |-> Encoded(list), blocks |-> BlocksMeant(list)]

None == <<>>
Two == [k \in 1..BlockPixels |-> (k \div 3) % 2]
Four == [k \in 1..BlockPixels |-> (k * k + k \div 4) % 4]

MCMessages ==
  { \* sums of first coefficients over blocks, a full block, a block of other sizes
    Stream(<< Coded(None, <<1, -3, 0>>, << <<<<0, 1>>, <<1, -2>>>>, None, <<<<0, -7>>>> >>),
               Coded(None, <<-6, 2, 5>>, << <<<<15, 0>>, <<0, -1>>, <<1, 3>>, <<1, 2>>, <<1, -3>>, <<0, 1>>>>,
                                           <<<<0, 4>>, <<0, 1>>>>, None >>),
               Coded(<<1, 1>>, <<7, 0, -1>>, <<None, <<<<1, 3>>>>, None>>) >>),
    \* colours that are kept from block to block
    Stream(<< Colours(<<1, 0>>, <<New(2, <<10, 20, 30>>)>>, None),
               Colours(None, <<Old(2), New(1, <<255, 0, 1>>)>>, Two),
               Colours(None, <<Old(3), Old(1), New(0, <<1, 2, 3>>), Old(2)>>, Four),
               Colours(<<0, 0>>, <<Old(0), Old(0)>>, Two) >>),
    \* the places begin again behind the last one
    Stream(<< Colours(<<0, 1>>, <<Old(1)>>, None),
               Coded(None, <<0, 3, 1>>, <<None, None, None>>),
               Colours(None, <<Old(3)>>, None),
               Coded(None, <<2, -3, 1>>, << <<<<0, 7>>>>, None, None >>) >>),
    \* a new colour alone
    Stream(<< Colours(None, <<New(3, <<7, 8, 9>>)>>, None) >>),
    \* another quality, and a length that is not one of whole words
    [data |-> <<7, 7, 1, 164, 0, 0, 0, 9>>, blocks |-> <<>>],
    [data |-> <<11, 11, 1, 188, 0, 9>>, blocks |-> <<>>] }
=============================================================================
