---------------------------- MODULE NativeProofs ----------------------------
(***************************************************************************)
(* Proofs about the programs in C++: the colours of the video encoder; the  *)
(* picture of a sound (Spectrogram), for sounds of every length whose rate  *)
(* is twice the greatest frequency or more (they are recorded with 44100    *)
(* Hz); the threads of OpenCV (OpencvThreads): if wait() returns only when  *)
(* notified, every thread of the pool is made while the signals are         *)
(* blocked, for every number of threads, of processors and of searches; and *)
(* the picture of a VNC console (VncFramebuffer), for every server that     *)
(* keeps to the encodings.                                                  *)
(***************************************************************************)
EXTENDS Colours, Spectrogram, OpencvThreads, VncFramebuffer, FiniteSetTheorems,
        SequenceTheorems, TLAPS

(* The colours of the video                                                  *)

\* A number divided by a positive one, rounded down
LEMMA DivBounds ==
  ASSUME NEW p \in Int, NEW d \in Nat \ {0}
  PROVE  /\ p \div d \in Int
         /\ d * (p \div d) <= p
         /\ p < d * (p \div d) + d
  OBVIOUS

\* A quotient is in a range if what is divided is.
LEMMA QuotientInRange ==
  ASSUME NEW d \in Nat \ {0}, NEW end \in Nat, NEW sum \in Int,
         16 * d <= sum, sum < end * d
  PROVE  sum \div d \in 16..(end - 1)
<1> DEFINE q == sum \div d
<1>1. q \in Int /\ d * q <= sum /\ sum < d * q + d
  BY DivBounds
<1> HIDE DEF q
<1>2. q >= 16
  <2>1. SUFFICES ASSUME q + 1 <= 16 PROVE FALSE
    BY <1>1
  <2>2. d * (q + 1) <= d * 16 /\ d * (q + 1) = d * q + d
    BY <1>1, <2>1
  <2> QED
    BY <1>1, <2>2
<1>3. q < end
  <2>1. SUFFICES ASSUME end <= q PROVE FALSE
    BY <1>1
  <2>2. d * end <= d * q /\ d * end = end * d
    BY <1>1, <2>1
  <2> QED
    BY <1>1, <2>2
<1> QED
  BY <1>1, <1>2, <1>3 DEF q

LEMMA Multiple ==
  ASSUME NEW k \in Nat, NEW level \in Levels
  PROVE  k * level \in Int /\ 0 <= k * level /\ k * level <= k * 255
  BY DEF Levels

\* The sums fit in an int, and none that is divided is negative (C++ rounds to
\* 0, and \div down).
LEMMA YSumFits ==
  ASSUME NEW r \in Levels, NEW g \in Levels, NEW b \in Levels
  PROVE  /\ YSum(r, g, b) \in Int /\ YSum(r, g, b) <= LargestInt
         /\ 16 * K(255, 0) <= YSum(r, g, b) /\ YSum(r, g, b) < 236 * K(255, 0)
<1> DEFINE k == K(K(4, 207), 500)
           top == K(65, 481) * 255 + K(128, 553) * 255 + K(24, 966) * 255 + k
<1>1. {K(65, 481), K(128, 553), K(24, 966), k, LargestInt, K(255, 0)} \subseteq Nat
  BY DEF K, LargestInt
<1>2. 16 * K(255, 0) <= k
  BY DEF K
<1>3. top < 236 * K(255, 0) /\ top <= LargestInt
  BY DEF K, LargestInt
<1> HIDE DEF k
<1>4. /\ YSum(r, g, b) = K(65, 481) * r + K(128, 553) * g + K(24, 966) * b + k
  BY DEF YSum, k
<1> DEFINE p1 == K(65, 481) * r
           p2 == K(128, 553) * g
           p3 == K(24, 966) * b
<1>5. p1 \in Int /\ 0 <= p1 /\ p1 <= K(65, 481) * 255
  BY <1>1, Multiple
<1>6. p2 \in Int /\ 0 <= p2 /\ p2 <= K(128, 553) * 255
  BY <1>1, Multiple
<1>7. p3 \in Int /\ 0 <= p3 /\ p3 <= K(24, 966) * 255
  BY <1>1, Multiple
<1>8. YSum(r, g, b) = p1 + p2 + p3 + k
  BY <1>4
<1> HIDE DEF p1, p2, p3
<1>9. YSum(r, g, b) \in Int /\ k <= YSum(r, g, b) /\ YSum(r, g, b) <= top
  BY <1>1, <1>5, <1>6, <1>7, <1>8
<1>10. 16 * K(255, 0) \in Int /\ 236 * K(255, 0) \in Int /\ top \in Int
  BY <1>1
<1> HIDE DEF top
<1> QED
  BY <1>1, <1>2, <1>3, <1>9, <1>10

LEMMA USumFits ==
  ASSUME NEW r \in Levels, NEW g \in Levels, NEW b \in Levels
  PROVE  /\ USum(r, g, b) \in Int /\ USum(r, g, b) <= LargestInt
         /\ 16 * K(225, 930) <= USum(r, g, b) /\ USum(r, g, b) < 241 * K(225, 930)
<1> DEFINE k == K(K(29, 32), 5)
           low == k - K(33, 488) * 255 - K(65, 744) * 255
           top == K(99, 232) * 255 + k
<1>1. {K(99, 232), K(33, 488), K(65, 744), k, LargestInt, K(225, 930)} \subseteq Nat
  BY DEF K, LargestInt
<1>2. 16 * K(225, 930) <= low
  BY DEF K
<1>3. top < 241 * K(225, 930) /\ top <= LargestInt
  BY DEF K, LargestInt
<1> HIDE DEF k
<1> DEFINE p1 == K(99, 232) * b
           p2 == K(33, 488) * r
           p3 == K(65, 744) * g
<1>5. p1 \in Int /\ 0 <= p1 /\ p1 <= K(99, 232) * 255
  BY <1>1, Multiple
<1>6. p2 \in Int /\ 0 <= p2 /\ p2 <= K(33, 488) * 255
  BY <1>1, Multiple
<1>7. p3 \in Int /\ 0 <= p3 /\ p3 <= K(65, 744) * 255
  BY <1>1, Multiple
<1>8. USum(r, g, b) = p1 - p2 - p3 + k
  BY DEF USum, k
<1> HIDE DEF p1, p2, p3
<1>9. USum(r, g, b) \in Int /\ low <= USum(r, g, b) /\ USum(r, g, b) <= top
  BY <1>1, <1>5, <1>6, <1>7, <1>8
<1>10. 16 * K(225, 930) \in Int /\ 241 * K(225, 930) \in Int /\ top \in Int /\ low \in Int
  BY <1>1
<1> HIDE DEF top, low
<1> QED
  BY <1>1, <1>2, <1>3, <1>9, <1>10

LEMMA VSumFits ==
  ASSUME NEW r \in Levels, NEW g \in Levels, NEW b \in Levels
  PROVE  /\ VSum(r, g, b) \in Int /\ VSum(r, g, b) <= LargestInt
         /\ 16 * K(357, 510) <= VSum(r, g, b) /\ VSum(r, g, b) < 241 * K(357, 510)
<1> DEFINE k == K(K(45, 940), 35)
           low == k - K(131, 488) * 255 - K(25, 536) * 255
           top == K(157, 24) * 255 + k
<1>1. {K(157, 24), K(131, 488), K(25, 536), k, LargestInt, K(357, 510)} \subseteq Nat
  BY DEF K, LargestInt
<1>2. 16 * K(357, 510) <= low
  BY DEF K
<1>3. top < 241 * K(357, 510) /\ top <= LargestInt
  BY DEF K, LargestInt
<1> HIDE DEF k
<1> DEFINE p1 == K(157, 24) * r
           p2 == K(131, 488) * g
           p3 == K(25, 536) * b
<1>5. p1 \in Int /\ 0 <= p1 /\ p1 <= K(157, 24) * 255
  BY <1>1, Multiple
<1>6. p2 \in Int /\ 0 <= p2 /\ p2 <= K(131, 488) * 255
  BY <1>1, Multiple
<1>7. p3 \in Int /\ 0 <= p3 /\ p3 <= K(25, 536) * 255
  BY <1>1, Multiple
<1>8. VSum(r, g, b) = p1 - p2 - p3 + k
  BY DEF VSum, k
<1> HIDE DEF p1, p2, p3
<1>9. VSum(r, g, b) \in Int /\ low <= VSum(r, g, b) /\ VSum(r, g, b) <= top
  BY <1>1, <1>5, <1>6, <1>7, <1>8
<1>10. 16 * K(357, 510) \in Int /\ 241 * K(357, 510) \in Int /\ top \in Int /\ low \in Int
  BY <1>1
<1> HIDE DEF top, low
<1> QED
  BY <1>1, <1>2, <1>3, <1>9, <1>10

\* The levels of a pixel for the video are in the range of BT.601, and no sum
\* overflows an int: clamp (videoencoder.cpp) never cuts one.
THEOREM VideoLevels ==
  ASSUME NEW r \in Levels, NEW g \in Levels, NEW b \in Levels
  PROVE  /\ {YSum(r, g, b), USum(r, g, b), VSum(r, g, b)} \subseteq 0..LargestInt
         /\ Y(r, g, b) \in 16..235 /\ clamp(Y(r, g, b)) = Y(r, g, b)
         /\ U(r, g, b) \in 16..240 /\ clamp(U(r, g, b)) = U(r, g, b)
         /\ V(r, g, b) \in 16..240 /\ clamp(V(r, g, b)) = V(r, g, b)
<1>1. {K(255, 0), K(225, 930), K(357, 510), LargestInt} \subseteq Nat \ {0}
  BY DEF K, LargestInt
<1>2. Y(r, g, b) \in 16..235
  <2> DEFINE d == K(255, 0)
  <2>1. /\ YSum(r, g, b) \in Int /\ 16 * d <= YSum(r, g, b)
        /\ YSum(r, g, b) < 236 * d
    BY YSumFits
  <2>2. d \in Nat \ {0}
    BY <1>1
  <2> HIDE DEF d
  <2>3. YSum(r, g, b) \div d \in 16..(236 - 1)
    BY <2>1, <2>2, QuotientInRange
  <2> QED
    BY <2>3 DEF Y, d
<1>3. U(r, g, b) \in 16..240
  <2> DEFINE d == K(225, 930)
  <2>1. /\ USum(r, g, b) \in Int /\ 16 * d <= USum(r, g, b)
        /\ USum(r, g, b) < 241 * d
    BY USumFits
  <2>2. d \in Nat \ {0}
    BY <1>1
  <2> HIDE DEF d
  <2>3. USum(r, g, b) \div d \in 16..(241 - 1)
    BY <2>1, <2>2, QuotientInRange
  <2> QED
    BY <2>3 DEF U, d
<1>4. V(r, g, b) \in 16..240
  <2> DEFINE d == K(357, 510)
  <2>1. /\ VSum(r, g, b) \in Int /\ 16 * d <= VSum(r, g, b)
        /\ VSum(r, g, b) < 241 * d
    BY VSumFits
  <2>2. d \in Nat \ {0}
    BY <1>1
  <2> HIDE DEF d
  <2>3. VSum(r, g, b) \div d \in 16..(241 - 1)
    BY <2>1, <2>2, QuotientInRange
  <2> QED
    BY <2>3 DEF V, d
<1>5. \A n \in 16..240 : clamp(n) = n
  BY DEF clamp
<1>6. {YSum(r, g, b), USum(r, g, b), VSum(r, g, b)} \subseteq 0..LargestInt
  BY <1>1, YSumFits, USumFits, VSumFits
<1> QED
  BY <1>2, <1>3, <1>4, <1>5, <1>6
-----------------------------------------------------------------------------
(* The picture of a sound                                                    *)

Sounds ==
  /\ SampleRates \subseteq {rate \in Nat : rate >= 6400}
  /\ Frames \subseteq Nat
  /\ {cols, freqs, scale_factor} \subseteq Nat \ {0}
  /\ max_freq = 3200

\* What the loops keep: chunks are not more than counted, and what is drawn
\* begins and ends with chunks, no more than fit in the picture.
Inv ==
  /\ samplerate \in SampleRates /\ frames \in Frames
  /\ points \in Seq(Values)
  /\ i \in Nat \ {0}
  /\ phase # "transform" =>
       /\ Len(points) >= times
       /\ first_non_silence \in Nat /\ last_non_silence \in Int
       /\ last_non_silence < times \/ last_non_silence <= first_non_silence
       /\ last_non_silence - first_non_silence <= cols
  /\ PixelsInside

LEMMA DivNat ==
  ASSUME NEW p \in Nat, NEW d \in Nat \ {0}
  PROVE  /\ p \div d \in Nat
         /\ d * (p \div d) <= p
         /\ p < d * (p \div d) + d
  OBVIOUS

\* A quotient, rounded up, is the least number that is not smaller.
LEMMA CeilIsLeast ==
  ASSUME NEW n \in Nat, NEW d \in Nat \ {0}, NEW k \in Nat, n <= k * d
  PROVE  Ceil(n, d) \in Nat /\ Ceil(n, d) <= k /\ n <= Ceil(n, d) * d
<1> DEFINE c == (n + d - 1) \div d
<1>1. n + d - 1 \in Nat
  OBVIOUS
<1>2. c \in Nat /\ d * c <= n + d - 1 /\ n + d - 1 < d * c + d
  BY <1>1, DivNat
<1>3. d * c = c * d /\ n <= c * d
  BY <1>2
<1>4. c <= k
  <2>1. SUFFICES ASSUME c >= k + 1 PROVE FALSE
    BY <1>2
  <2>2. d * c >= d * (k + 1)
    BY <1>2, <2>1
  <2>3. d * (k + 1) = k * d + d
    OBVIOUS
  <2> QED
    BY <1>2, <2>2, <2>3
<1> QED
  BY <1>2, <1>3, <1>4 DEF Ceil

\* Windows are of 64 samples at least, and a transform takes two of them, or
\* one less.
LEMMA WindowSizes ==
  ASSUME NEW rate \in Nat, rate >= 6400, samplerate = rate
  PROVE  /\ window_size \in Nat /\ window_size >= 64
         /\ nDftSamples \in Nat /\ nDftSamples <= 2 * window_size
         /\ nDftSamples * 50 <= rate
         /\ nDftSamples \div 2 >= 64
<1>1. window_size \in Nat /\ 100 * window_size <= rate /\ rate < 100 * window_size + 100
  BY DivNat DEF window_size
<1>2. overlap \in Nat /\ 2 * overlap <= window_size /\ window_size < 2 * overlap + 2
  BY <1>1, DivNat DEF overlap
<1>3. nDftSamples = window_size + overlap * 2 /\ nDftSamples \in Nat
  BY <1>1, <1>2 DEF nDftSamples
<1>4. window_size >= 64 /\ nDftSamples >= 128
  BY <1>1, <1>2, <1>3
<1>5. nDftSamples \div 2 \in Nat /\ nDftSamples < 2 * (nDftSamples \div 2) + 2
  BY <1>3, DivNat
<1>6. nDftSamples \div 2 >= 64
  BY <1>3, <1>4, <1>5
<1>7. nDftSamples <= 2 * window_size /\ nDftSamples * 50 <= rate
  BY <1>1, <1>2, <1>3
<1> QED
  BY <1>1, <1>3, <1>4, <1>6, <1>7

\* The value of a frequency is one of those kept of a chunk, and so is the one
\* before it.
LEMMA BinsInside ==
  ASSUME Sounds, Inv, NEW freq \in Nat, freq < freqs
  PROVE  Bin(freq) \in 0..(last_bin - 1)
<1> DEFINE n == nDftSamples
           rate == samplerate
<1>1. /\ rate \in Nat \ {0} /\ rate >= 6400
      /\ freqs \in Nat \ {0} /\ max_freq = 3200
  BY DEF Sounds, Inv
<1>2. n \in Nat /\ n * 50 <= rate /\ n \div 2 >= 64 /\ n \div 2 \in Nat
  BY <1>1, WindowSizes, DivNat
<1> HIDE DEF n, rate
<1> DEFINE a == freq * (3200 * n)
           d == freqs * rate
           top == Ceil(3200 * n, rate)
<1>3. 3200 * n \in Nat /\ 3200 * n <= 64 * rate
  BY <1>1, <1>2
<1>4. top \in Nat /\ top <= 64 /\ 3200 * n <= top * rate
  BY <1>1, <1>3, CeilIsLeast
<1>5. a \in Nat /\ d \in Nat \ {0} /\ top * d = freqs * (top * rate)
  BY <1>1, <1>3, <1>4
<1>6. a <= freqs * (3200 * n)
  BY <1>1, <1>3
<1>7. freqs * (3200 * n) <= freqs * (top * rate)
  BY <1>1, <1>3, <1>4
<1>8. a <= top * d
  BY <1>3, <1>4, <1>5, <1>6, <1>7, <1>1
<1> HIDE DEF a, d, top
<1>9. Ceil(a, d) \in Nat /\ Ceil(a, d) <= top
  BY <1>4, <1>5, <1>8, CeilIsLeast
<1>10. Bin(freq) = Ceil(a, d)
  <2>1. freq * max_freq * n = a
    BY <1>1, <1>2 DEF a
  <2> QED
    BY <2>1 DEF Bin, n, rate, d
<1>11. last_bin = Smaller(1 + top, 1 + n \div 2)
  BY <1>1 DEF last_bin, n, rate, top
<1>12. last_bin \in Nat /\ top <= last_bin - 1
  BY <1>2, <1>4, <1>11 DEF Smaller
<1>13. top \in Nat
  BY <1>4 DEF top
<1> QED
  BY <1>9, <1>10, <1>12, <1>13

LEMMA TimesIsInt == Sounds /\ Inv => times \in Int
<1> SUFFICES ASSUME Sounds, Inv PROVE times \in Int
  OBVIOUS
<1>1. samplerate \in Nat /\ samplerate >= 6400 /\ frames \in Nat
  BY DEF Sounds, Inv
<1>2. window_size \in Nat \ {0}
  BY <1>1, WindowSizes
<1>3. frames \div window_size \in Int
  BY <1>1, <1>2
<1> QED
  BY <1>3 DEF times

\* SamplesInside follows from the counted chunks.
LEMMA ChunksAreInside ==
  ASSUME Sounds, Inv, NEW t \in Nat, t < times
  PROVE  From(t) + nDftSamples <= frames
<1> DEFINE w == window_size
           q == frames \div w
<1>1. samplerate \in Nat /\ samplerate >= 6400 /\ frames \in Nat
  BY DEF Sounds, Inv
<1>2. w \in Nat \ {0} /\ nDftSamples \in Nat /\ nDftSamples <= 2 * w
  BY <1>1, WindowSizes
<1> HIDE DEF w
<1>3. q \in Nat /\ w * q <= frames
  BY <1>1, <1>2, DivNat
<1>4. times <= q - 1
  BY <1>3 DEF times, w
<1>5. t + 2 <= q
  BY <1>3, <1>4, TimesIsInt
<1>6. w * (t + 2) <= w * q
  BY <1>2, <1>3, <1>5
<1>7. w * (t + 2) = t * w + 2 * w /\ t * w \in Nat
  BY <1>2
<1>8. From(t) = t * w
  BY DEF From, w
<1> QED
  BY <1>1, <1>2, <1>3, <1>6, <1>7, <1>8

LEMMA InitInv == Sounds /\ SpectrogramInit => Inv
<1> SUFFICES ASSUME Sounds, SpectrogramInit PROVE Inv
  OBVIOUS
<1>1. <<>> \in Seq(Values)
  OBVIOUS
<1>2. PixelsInside
  BY DEF SpectrogramInit, PixelsInside
<1> QED
  BY <1>1, <1>2 DEF SpectrogramInit, Inv

\* A frequency's rows are in the picture.
LEMMA RowsInside ==
  ASSUME Sounds, NEW freq \in Nat \ {0}, freq < freqs, NEW j \in 0..(scale_factor - 1)
  PROVE  Top(freq) + j \in 0..(height - 1)
<1>1. scale_factor \in Nat \ {0} /\ freqs \in Nat \ {0} /\ height = freqs * scale_factor
  BY DEF Sounds, height
<1>2. freq * scale_factor <= (freqs - 1) * scale_factor
  BY <1>1
<1>3. (freqs - 1) * scale_factor = height - scale_factor /\ height \in Nat
  BY <1>1
<1>4. freq * scale_factor >= scale_factor /\ freq * scale_factor \in Nat
  BY <1>1
<1> QED
  BY <1>1, <1>2, <1>3, <1>4 DEF Top

LEMMA TransformInv == Sounds /\ Inv /\ Transform => Inv'
<1> SUFFICES ASSUME Sounds, Inv, Transform PROVE Inv'
  OBVIOUS
<1>1. PICK value \in Values : points' = Append(points, value)
  BY DEF Transform
<1>2. /\ phase' = "transform"
      /\ UNCHANGED <<samplerate, frames, i, drawn>>
  BY DEF Transform, sound
<1>3. points' \in Seq(Values) /\ Len(points') = Len(points) + 1 /\ Len(points) \in Nat
  BY <1>1 DEF Inv
<1>4. height' = height /\ last_bin' = last_bin
  BY <1>2 DEF height, last_bin, nDftSamples, overlap, window_size
<1>5. PixelsInside'
  <2> SUFFICES ASSUME NEW p \in drawn
               PROVE  /\ p.y \in 0..(height - 1) /\ p.x \in 0..(cols - 1)
                      /\ p.time_pos \in 0..(Len(points') - 1)
                      /\ p.bin \in 0..(last_bin - 1)
    BY <1>2, <1>4 DEF PixelsInside
  <2>1. /\ p.y \in 0..(height - 1) /\ p.x \in 0..(cols - 1)
        /\ p.time_pos \in 0..(Len(points) - 1)
        /\ p.bin \in 0..(last_bin - 1)
    BY DEF Inv, PixelsInside
  <2>2. p.time_pos \in 0..(Len(points') - 1)
    BY <2>1, <1>3
  <2> QED
    BY <2>1, <2>2
<1> QED
  BY <1>2, <1>3, <1>5 DEF Inv

LEMMA CutSilenceInv == Sounds /\ Inv /\ CutSilence => Inv'
<1> SUFFICES ASSUME Sounds, Inv, CutSilence PROVE Inv'
  OBVIOUS
<1>1. PICK first \in 0..Larger(0, times), last \in {times - 1} \cup 0..(times - 1) :
        /\ first_non_silence' = first
        /\ last_non_silence' = IF last - first > cols THEN cols + first ELSE last
  BY DEF CutSilence
<1>2. /\ phase' = "draw" /\ Len(points) >= times
      /\ UNCHANGED <<samplerate, frames, points, i, drawn>>
  BY DEF CutSilence, sound
<1>3. times' = times /\ height' = height /\ last_bin' = last_bin
  BY <1>2 DEF times, height, last_bin, nDftSamples, overlap, window_size
<1>4. PixelsInside'
  BY <1>2, <1>3 DEF Inv, PixelsInside
<1>5. times \in Int /\ cols \in Nat
  BY TimesIsInt DEF Sounds
<1>6. first \in Nat /\ last \in Int /\ last < times
  BY <1>1, <1>5
<1>7. /\ first_non_silence' \in Nat /\ last_non_silence' \in Int
      /\ last_non_silence' < times
      /\ last_non_silence' - first_non_silence' <= cols
  BY <1>1, <1>5, <1>6
<1>8. samplerate' \in SampleRates /\ frames' \in Frames /\ points' \in Seq(Values)
      /\ i' \in Nat \ {0}
  BY <1>2 DEF Inv
<1> QED
  BY <1>2, <1>3, <1>4, <1>7, <1>8 DEF Inv

LEMMA DrawInv == Sounds /\ Inv /\ Draw => Inv'
<1> SUFFICES ASSUME Sounds, Inv, Draw PROVE Inv'
  OBVIOUS
<1>1. /\ phase = "draw" /\ i < freqs /\ i' = i + 1
      /\ UNCHANGED <<samplerate, frames, phase, points, first_non_silence, last_non_silence>>
  BY DEF Draw, sound
<1>2. times' = times /\ height' = height /\ last_bin' = last_bin
  BY <1>1 DEF times, height, last_bin, nDftSamples, overlap, window_size
<1>3. /\ i \in Nat \ {0} /\ points \in Seq(Values) /\ Len(points) >= times
      /\ first_non_silence \in Nat /\ last_non_silence \in Int
      /\ last_non_silence < times \/ last_non_silence <= first_non_silence
      /\ last_non_silence - first_non_silence <= cols
  BY <1>1 DEF Inv
<1>4. times \in Int /\ cols \in Nat /\ Len(points) \in Nat
  BY <1>3, TimesIsInt DEF Sounds
<1>5. PixelsInside'
  <2> SUFFICES ASSUME NEW p \in drawn'
               PROVE  /\ p.y \in 0..(height - 1) /\ p.x \in 0..(cols - 1)
                      /\ p.time_pos \in 0..(Len(points) - 1)
                      /\ p.bin \in 0..(last_bin - 1)
    BY <1>1, <1>2 DEF PixelsInside
  <2>1. CASE p \in drawn
    BY <2>1 DEF Inv, PixelsInside
  <2>2. CASE p \notin drawn
    <3>1. PICK j \in 0..(scale_factor - 1), t \in first_non_silence..(last_non_silence - 1) :
            p = [y |-> Top(i) + j, x |-> t - first_non_silence, time_pos |-> t, bin |-> Bin(i)]
      BY <2>2 DEF Draw
    <3>2. p.y = Top(i) + j /\ p.x = t - first_non_silence /\ p.time_pos = t /\ p.bin = Bin(i)
      BY <3>1
    <3>3. p.y \in 0..(height - 1)
      BY <1>1, <1>3, <3>2, RowsInside
    <3>4. p.x \in 0..(cols - 1) /\ p.time_pos \in 0..(Len(points) - 1)
      BY <1>3, <1>4, <3>2
    <3>5. p.bin \in 0..(last_bin - 1)
      BY <1>1, <1>3, <3>2, BinsInside
    <3> QED
      BY <3>3, <3>4, <3>5
  <2> QED
    BY <2>1, <2>2
<1>6. samplerate' \in SampleRates /\ frames' \in Frames /\ i' \in Nat \ {0}
  BY <1>1, <1>3 DEF Inv
<1> QED
  BY <1>1, <1>2, <1>3, <1>5, <1>6 DEF Inv

LEMMA UnchangedInv == Sounds /\ Inv /\ (Write \/ UNCHANGED spectrogramVars) => Inv'
<1> SUFFICES ASSUME Sounds, Inv, Write \/ UNCHANGED spectrogramVars PROVE Inv'
  OBVIOUS
<1>1. /\ UNCHANGED <<samplerate, frames, points, first_non_silence, last_non_silence, i, drawn>>
      /\ phase' # "transform" => phase # "transform"
  BY DEF Write, sound, spectrogramVars
<1>2. times' = times /\ height' = height /\ last_bin' = last_bin
  BY <1>1 DEF times, height, last_bin, nDftSamples, overlap, window_size
<1>3. PixelsInside'
  BY <1>1, <1>2 DEF Inv, PixelsInside
<1> QED
  BY <1>1, <1>2, <1>3 DEF Inv

\* For every sound snd2png reads samples, values and pixels that are there only
\* (snd2png.cpp: the loops over times, freqs and the columns have no checks).
THEOREM AllIsInside ==
  ASSUME Sounds
  PROVE  SpectrogramSpec => [](SamplesInside /\ PixelsInside)
<1>1. SpectrogramInit => Inv
  BY InitInv
<1>2. Inv /\ [SpectrogramNext]_spectrogramVars => Inv'
  BY TransformInv, CutSilenceInv, DrawInv, UnchangedInv DEF SpectrogramNext
<1>3. Inv => SamplesInside /\ PixelsInside
  <2> SUFFICES ASSUME Inv PROVE SamplesInside
    BY DEF Inv
  <2>1. Len(points) \in Nat
    BY DEF Inv
  <2> QED
    BY <2>1, ChunksAreInside DEF SamplesInside
<1> QED
  BY <1>1, <1>2, <1>3, PTL DEF SpectrogramSpec
-----------------------------------------------------------------------------
(* The threads of OpenCV                                                     *)

\* Bodies are taken, being entered, or entered; those who entered are still
\* there until the last one comes; then the pool has enough threads.
Bodies ==
  /\ thread_count \in Nat
  /\ bodies \in Nat
  /\ step \in {"loop", "returned"} =>
       bodies + Cardinality(At("lock")) + threads_spawned = thread_count

Waiting ==
  /\ threads_spawned < thread_count =>
       /\ Cardinality(At("waiting")) = threads_spawned
       /\ At("woken") = {}
  /\ At("waiting") # {} => threads_spawned < thread_count
  /\ \A t \in Threads : pc[t] # "free" => t \in pool \cup {Main}

Complete ==
  /\ step = "start" => threads_spawned = 0 /\ thread_count = 0 /\ At("free") = Threads
  /\ step = "loop" => blocked
  /\ step # "start" /\ threads_spawned = thread_count => Cardinality(pool) + 1 >= thread_count
  /\ step \in {"returned", "running", "search"} =>
       threads_spawned = thread_count /\ At("free") = Threads

PoolInv == TypeOK /\ Bodies /\ Waiting /\ Complete /\ exposed = {}

LEMMA ThreadsFinite ==
  /\ IsFiniteSet(Threads)
  /\ Cardinality({}) = 0
  /\ \A S \in SUBSET Threads : IsFiniteSet(S) /\ Cardinality(S) \in Nat
<1>1. IsFiniteSet(Threads)
  BY ThreadsAssumption, FS_AddElement DEF Threads
<1>2. \A S \in SUBSET Threads : IsFiniteSet(S)
  BY <1>1, FS_Subset
<1> QED
  BY <1>1, <1>2, FS_CardinalityType, FS_EmptySet

LEMMA Remove ==
  ASSUME NEW S \in SUBSET Threads, NEW t \in S
  PROVE  Cardinality(S \ {t}) = Cardinality(S) - 1 /\ Cardinality(S) >= 1
<1>1. IsFiniteSet(S) /\ IsFiniteSet(S \ {t}) /\ Cardinality(S \ {t}) \in Nat /\ Cardinality(S) \in Nat
  BY ThreadsFinite
<1>2. Cardinality(S \ {t}) = Cardinality(S) - 1
  BY <1>1, FS_RemoveElement
<1> QED
  BY <1>1, <1>2

LEMMA Add ==
  ASSUME NEW S \in SUBSET Threads, NEW t \in Threads, t \notin S
  PROVE  Cardinality(S \cup {t}) = Cardinality(S) + 1
  BY ThreadsFinite, FS_AddElement

\* The threads of the loop are workers of the pool and Main.
LEMMA PoolAndMain ==
  ASSUME TypeOK, NEW S \in SUBSET (pool \cup {Main})
  PROVE  Cardinality(S) <= Cardinality(pool) + 1
<1>1. pool \in SUBSET Threads /\ pool \cup {Main} \in SUBSET Threads
  BY DEF TypeOK, Threads
<1>2. Main \notin pool /\ Main \in Threads
  BY ThreadsAssumption DEF TypeOK, Threads
<1>3. Cardinality(pool \cup {Main}) = Cardinality(pool) + 1
  BY <1>1, <1>2, Add
<1> QED
  BY <1>1, <1>3, ThreadsFinite, FS_Subset

LEMMA PoolInvInit == Init => PoolInv
<1> SUFFICES ASSUME Init PROVE PoolInv
  OBVIOUS
<1>7. blocked \in BOOLEAN
  BY DEF Init
<1>8. pc \in [Threads -> {"free", "lock", "waiting", "woken"}]
  BY DEF Init
<1>1. TypeOK
  BY <1>7, <1>8 DEF Init, TypeOK
<1>2. At("lock") = {} /\ At("waiting") = {} /\ At("woken") = {} /\ At("free") = Threads
  BY DEF Init, At
<1>3. Bodies
  BY DEF Init, Bodies
<1>4. Waiting
  BY <1>2 DEF Init, Waiting
<1>5. Complete
  BY <1>2 DEF Init, Complete
<1>6. exposed = {}
  BY DEF Init
<1> QED
  BY <1>1, <1>3, <1>4, <1>5, <1>6 DEF PoolInv

LEMMA CallKeeps == PoolInv /\ Call => PoolInv'
<1> SUFFICES ASSUME PoolInv, Call PROVE PoolInv'
  OBVIOUS
<1>1. thread_count' \in Nat
  BY NumbersAssumption
  DEF Call, PoolInv, TypeOK, DefaultThreadCount, AtLeastOne, Least
<1>2. pc' = pc /\ pool' = pool /\ exposed' = exposed /\ request' = request
  BY DEF Call
<1>3. TypeOK'
  BY <1>1, <1>2 DEF Call, PoolInv, TypeOK
<1>4. \A t \in Threads : pc[t] = "free"
  BY DEF Call, PoolInv, Complete, At
<1>5. At("lock")' = {} /\ At("waiting")' = {} /\ At("woken")' = {}
  BY <1>2, <1>4 DEF At
<1>6. Bodies'
  BY <1>1, <1>5, ThreadsFinite DEF Call, Bodies
<1>7. Waiting'
  BY <1>1, <1>2, <1>4, <1>5, ThreadsFinite DEF Call, Waiting
<1>8. Cardinality(pool) \in Nat
  BY ThreadsFinite DEF PoolInv, TypeOK, Threads
<1>9. Complete'
  BY <1>1, <1>2, <1>8 DEF Call, Complete
<1> QED
  BY <1>2, <1>3, <1>6, <1>7, <1>9 DEF PoolInv

LEMMA TakeKeeps ==
  ASSUME PoolInv, NEW t \in Threads, Take(t)
  PROVE  PoolInv'
<1>1. /\ pool \subseteq pool' /\ pool' \subseteq Workers
      /\ t \in pool' \cup {Main}
      /\ exposed' = {}
  BY DEF Take, Joins, MayBeMade, Made, PoolInv, TypeOK, Complete
<1>2. /\ pc' = [pc EXCEPT ![t] = "lock"] /\ pc[t] = "free"
      /\ pc \in [Threads -> {"free", "lock", "waiting", "woken"}]
  BY DEF Take, PoolInv, TypeOK
<1>3. /\ At("lock")' = At("lock") \cup {t} /\ t \notin At("lock")
      /\ At("waiting")' = At("waiting") /\ At("woken")' = At("woken")
  BY <1>2 DEF At
<1>4. Cardinality(At("lock")') = Cardinality(At("lock")) + 1
  BY <1>3, Add DEF At
<1>5. Cardinality(At("lock")) \in Nat
  BY ThreadsFinite DEF At
<1>6. TypeOK'
  BY <1>1, <1>2 DEF Take, PoolInv, TypeOK
<1>7. Bodies'
  BY <1>4, <1>5 DEF Take, PoolInv, Bodies, TypeOK
<1>8. Waiting'
  BY <1>1, <1>2, <1>3 DEF Take, PoolInv, Waiting
<1>9. threads_spawned # thread_count
  BY <1>5 DEF Take, PoolInv, Bodies, TypeOK
<1>10. Complete'
  BY <1>9 DEF Take, PoolInv, Complete
<1> QED
  BY <1>1, <1>6, <1>7, <1>8, <1>10 DEF PoolInv

LEMMA ArriveKeeps ==
  ASSUME PoolInv, NEW t \in Threads, Arrive(t)
  PROVE  PoolInv'
<1> DEFINE N == thread_count
<1>1. /\ pc[t] = "lock" /\ t \in At("lock") /\ t \notin At("waiting")
      /\ pc \in [Threads -> {"free", "lock", "waiting", "woken"}]
      /\ threads_spawned \in Nat /\ N \in Nat /\ bodies \in Nat
      /\ At("lock") \in SUBSET Threads /\ At("waiting") \in SUBSET Threads
  BY DEF Arrive, PoolInv, TypeOK, Bodies, At
<1>2. Cardinality(At("lock") \ {t}) = Cardinality(At("lock")) - 1 /\ Cardinality(At("lock")) >= 1
  BY <1>1, Remove
<1>3. Cardinality(At("lock")) \in Nat /\ Cardinality(At("waiting")) \in Nat
  BY <1>1, ThreadsFinite
<1>4. step = "loop"
  BY <1>1 DEF PoolInv, TypeOK, Complete, At
<1>5. threads_spawned < N /\ threads_spawned + 1 <= N
  BY <1>1, <1>2, <1>3, <1>4 DEF PoolInv, Bodies
<1>6. Cardinality(At("waiting")) = threads_spawned /\ At("woken") = {}
  BY <1>5 DEF PoolInv, Waiting
<1>7. At("lock")' = At("lock") \ {t}
  BY <1>1 DEF Arrive, At
<1>8. TypeOK'
  BY <1>1 DEF Arrive, PoolInv, TypeOK
<1>13. /\ thread_count' = thread_count /\ bodies' = bodies
       /\ threads_spawned' = threads_spawned + 1
  BY DEF Arrive
<1>9. Bodies'
  <2>1. bodies + Cardinality(At("lock")) + threads_spawned = thread_count
    BY <1>4 DEF PoolInv, Bodies
  <2>2. bodies' + Cardinality(At("lock")') + threads_spawned' = thread_count'
    BY <1>1, <1>2, <1>3, <1>7, <1>13, <2>1
  <2> QED
    BY <1>1, <1>13, <2>2 DEF Bodies
<1>12. exposed' = {}
  BY DEF Arrive, PoolInv
<1>10. CASE IsLast
  <2>1. At("waiting")' = {}
    BY <1>1, <1>10 DEF Arrive, At
  <2>2. threads_spawned' = N
    BY <1>1, <1>5, <1>10 DEF Arrive, IsLast
  <2>3. \A u \in Threads : pc'[u] # "free" => pc[u] # "free"
    BY <1>1, <1>10 DEF Arrive
  <2>4. Waiting'
    BY <1>1, <2>1, <2>2, <2>3 DEF Arrive, PoolInv, Waiting
  <2>5. At("waiting") \cup {t} \in SUBSET (pool \cup {Main})
    BY <1>1 DEF PoolInv, Waiting, At
  <2>6. Cardinality(At("waiting") \cup {t}) = N
    BY <1>1, <1>6, <2>2, Add DEF Arrive
  <2>7. Cardinality(pool) + 1 >= N
    BY <2>5, <2>6, PoolAndMain, <1>1, ThreadsFinite DEF PoolInv
  <2>8. Complete'
    BY <2>2, <2>7, <1>1, <1>4, <1>5 DEF Arrive, PoolInv, Complete
  <2> QED
    BY <1>8, <1>9, <1>12, <2>4, <2>8 DEF PoolInv
<1>11. CASE ~IsLast
  <2>1. threads_spawned' < N
    BY <1>1, <1>11 DEF Arrive, IsLast
  <2>2. pc' = [pc EXCEPT ![t] = "waiting"]
    BY <1>11 DEF Arrive
  <2>3. At("waiting")' = At("waiting") \cup {t} /\ At("woken")' = {}
    BY <1>1, <1>6, <2>2 DEF At
  <2>4. Cardinality(At("waiting")') = threads_spawned'
    BY <1>1, <1>6, <2>3, Add DEF Arrive
  <2>5. \A u \in Threads : pc'[u] # "free" => u \in pool' \cup {Main}
    BY <1>1, <2>2 DEF Arrive, PoolInv, Waiting
  <2>6. Waiting'
    BY <2>1, <2>3, <2>4, <2>5 DEF Arrive, Waiting
  <2>7. Complete'
    BY <2>1, <1>1, <1>4, <1>5 DEF Arrive, PoolInv, Complete
  <2> QED
    BY <1>8, <1>9, <1>12, <2>6, <2>7 DEF PoolInv
<1> QED
  BY <1>10, <1>11

LEMMA WakeUpKeeps ==
  ASSUME SpuriousWakeups = FALSE, PoolInv, NEW t \in Threads, WakeUp(t)
  PROVE  PoolInv'
<1>1. /\ pc[t] = "woken" /\ pc' = [pc EXCEPT ![t] = "free"]
      /\ pc \in [Threads -> {"free", "lock", "waiting", "woken"}]
  BY DEF WakeUp, PoolInv, TypeOK
<1>2. /\ At("lock")' = At("lock") /\ At("waiting")' = At("waiting")
      /\ At("woken")' \subseteq At("woken")
  BY <1>1 DEF At
<1>3. step = "loop"
  BY <1>1 DEF PoolInv, TypeOK, Complete, At
<1>4. TypeOK'
  BY <1>1 DEF WakeUp, PoolInv, TypeOK
<1>5. Bodies'
  BY <1>2 DEF WakeUp, PoolInv, Bodies
<1>6. Waiting'
  BY <1>1, <1>2 DEF WakeUp, PoolInv, Waiting
<1>7. Complete'
  BY <1>3 DEF WakeUp, PoolInv, Complete
<1> QED
  BY <1>4, <1>5, <1>6, <1>7 DEF WakeUp, PoolInv

\* When the pool is complete no thread is made.
LEMMA NoneIsMade ==
  ASSUME PoolInv, step = "search", NEW t \in Threads, Joins(t)
  PROVE  UNCHANGED <<pool, exposed>>
<1>1. Cardinality(pool) + 1 >= thread_count
  BY DEF PoolInv, Complete
<1>2. Cardinality(pool) \in Nat /\ thread_count \in Nat /\ SoftLimit \in Nat
  BY ThreadsFinite, NumbersAssumption
  DEF PoolInv, TypeOK, Bodies, Threads, SoftLimit, AtLeastOne
<1>3. Least(thread_count, SoftLimit) <= thread_count /\ Least(thread_count, SoftLimit) \in Nat
  BY <1>2 DEF Least
<1>4. ~MayBeMade(t)
  BY <1>1, <1>2, <1>3 DEF MayBeMade
<1> QED
  BY <1>4 DEF Joins

LEMMA SearchKeeps ==
  ASSUME PoolInv, Search \/ SearchReturns \/ \E t \in Threads : TakeStripe(t)
  PROVE  PoolInv'
<1>1. step \in {"running", "search"} /\ step' \in {"running", "search"}
  BY DEF Search, SearchReturns, TakeStripe
<1>2. /\ UNCHANGED <<request, thread_count, blocked, pc, threads_spawned>>
      /\ UNCHANGED <<pool, exposed>>
  BY NoneIsMade DEF Search, SearchReturns, TakeStripe
<1>3. Cardinality(Threads) \in Nat
  BY ThreadsFinite
<1>4. bodies' \in Nat
  BY <1>3 DEF Search, SearchReturns, TakeStripe, PoolInv, Bodies
<1>5. At("waiting")' = At("waiting") /\ At("woken")' = At("woken") /\ At("free")' = At("free")
  BY <1>2 DEF At
<1>6. TypeOK'
  BY <1>1, <1>2, <1>4 DEF PoolInv, TypeOK
<1>7. Bodies'
  BY <1>1, <1>2, <1>4 DEF PoolInv, Bodies
<1>8. Waiting'
  BY <1>2, <1>5 DEF PoolInv, Waiting
<1>9. Complete'
  BY <1>1, <1>2, <1>5 DEF PoolInv, Complete
<1> QED
  BY <1>2, <1>6, <1>7, <1>8, <1>9 DEF PoolInv

LEMMA MainKeeps == PoolInv /\ (LoopReturns \/ Unblock) => PoolInv'
<1>1. ASSUME PoolInv, LoopReturns PROVE PoolInv'
  <2>1. At("lock") = {} /\ At("lock")' = At("lock") /\ At("waiting")' = At("waiting")
        /\ At("woken")' = At("woken") /\ At("free") = Threads /\ At("free")' = At("free")
    BY <1>1 DEF LoopReturns, At
  <2>2. threads_spawned = thread_count
    BY <1>1, <2>1, ThreadsFinite DEF LoopReturns, PoolInv, Bodies, TypeOK
  <2>3. TypeOK'
    BY <1>1 DEF LoopReturns, PoolInv, TypeOK
  <2>4. Bodies'
    BY <1>1, <2>1 DEF LoopReturns, PoolInv, Bodies
  <2>5. Waiting'
    BY <1>1, <2>1 DEF LoopReturns, PoolInv, Waiting
  <2>6. Complete'
    BY <1>1, <2>1, <2>2 DEF LoopReturns, PoolInv, Complete
  <2> QED
    BY <1>1, <2>3, <2>4, <2>5, <2>6 DEF LoopReturns, PoolInv
<1>2. ASSUME PoolInv, Unblock PROVE PoolInv'
  <2>1. At("lock")' = At("lock") /\ At("waiting")' = At("waiting") /\ At("woken")' = At("woken")
        /\ At("free")' = At("free")
    BY <1>2 DEF Unblock, At
  <2>3. TypeOK'
    BY <1>2 DEF Unblock, PoolInv, TypeOK
  <2>4. Bodies'
    BY <1>2, <2>1 DEF Unblock, PoolInv, Bodies
  <2>5. Waiting'
    BY <1>2, <2>1 DEF Unblock, PoolInv, Waiting
  <2>6. Complete'
    BY <1>2, <2>1 DEF Unblock, PoolInv, Complete
  <2> QED
    BY <1>2, <2>3, <2>4, <2>5, <2>6 DEF Unblock, PoolInv
<1> QED
  BY <1>1, <1>2

LEMMA StutterKeeps == PoolInv /\ UNCHANGED vars => PoolInv'
<1> SUFFICES ASSUME PoolInv, UNCHANGED vars PROVE PoolInv'
  OBVIOUS
<1>1. At("lock")' = At("lock") /\ At("waiting")' = At("waiting") /\ At("woken")' = At("woken")
      /\ At("free")' = At("free")
  BY DEF vars, At
<1> QED
  BY <1>1 DEF vars, PoolInv, TypeOK, Bodies, Waiting, Complete

\* If wait() returns only when it was notified, every thread that OpenCV ever
\* makes was made while the signals were blocked, and the pool is complete when
\* create_opencv_threads returns.
THEOREM ThreadsAreSafe ==
  ASSUME SpuriousWakeups = FALSE
  PROVE  Spec => [](SignalsBlocked /\ PoolIsComplete /\ AllBusyAtOnce)
<1>1. Init => PoolInv
  BY PoolInvInit
<1>2. PoolInv /\ [Next]_vars => PoolInv'
  BY CallKeeps, TakeKeeps, ArriveKeeps, WakeUpKeeps, SearchKeeps, MainKeeps, StutterKeeps
  DEF Next, ThreadStep
<1>3. PoolInv => SignalsBlocked /\ PoolIsComplete /\ AllBusyAtOnce
  BY DEF PoolInv, Complete, Waiting, SignalsBlocked, PoolIsComplete, AllBusyAtOnce
<1> QED
  BY <1>1, <1>2, <1>3, PTL DEF Spec
-----------------------------------------------------------------------------
(* The picture of a VNC console (VncFramebuffer)                             *)

\* Columns of the rectangle to the left of the tile, and rows above it
Left == x - update.x
Above == y - update.y

\* The colours the decoder reads for a value in ZRLE: of four bytes, the three that
\* are sent
ThreeBytes(n) == <<n % 256, (n \div 256) % 256, (n \div 65536) % 256>>
Shown(value) ==
  IF PixelSize = 4 THEN ThreeBytes(CpixelValue(info, value)) ELSE Meaning(value)

\* A pixel of the rectangle shows its value.
Shows(s, t) ==
  Pixel(framebuffer, update.x + s, update.y + t) = Shown(Value(update, s, t))

\* The framebuffer never shrinks.
ScreenInv ==
  /\ Cols(framebuffer) \in Nat /\ Cols(framebuffer) >= Width
  /\ Rows(framebuffer) \in Nat /\ Rows(framebuffer) >= Height

\* A tile is drawn that begins at o; those to its left and above it are finished.
TileInv(o) ==
  /\ update.encoding = "zrle"
  /\ update.x + update.w <= Cols(framebuffer) /\ update.y + update.h <= Rows(framebuffer)
  /\ x \in Int /\ y \in Int
  /\ TileBegins(update, Left, Above, o)
  /\ \A s \in 0..(update.w - 1), t \in 0..(update.h - 1) :
       t < Above \/ (t < Above + TileSize /\ s < Left) => Shows(s, t)

\* The next run begins at the offset; those before it are drawn.
RunsInv ==
  /\ pixels_drawn \in 0..(TileArea(update, Left, Above) - 1)
  /\ \/ IsPlainRuns(info, update, Left, Above, tile_start)
     \/ IsPaletteRuns(info, update, Left, Above, tile_start)
  /\ RunBegins(update, Left, Above, pixels_drawn, offset)
  /\ \A s \in 0..(TileWidth(update, Left) - 1), t \in 0..(TileHeight(update, Above) - 1) :
       t * TileWidth(update, Left) + s < pixels_drawn => Shows(Left + s, Above + t)

\* A rectangle in ZRLE is drawn up to here as the server has cut it.
ZrleInv ==
  /\ stage = "tile" => TileInv(offset)
  /\ stage = "runs" => TileInv(tile_start) /\ RunsInv
  /\ stage = "done" /\ update.encoding = "zrle" =>
       /\ offset = Len(update.data)
       /\ \A s \in 0..(update.w - 1), t \in 0..(update.h - 1) : Shows(s, t)

VncInv ==
  /\ info \in Infos
  /\ ScreenInv
  /\ stage \in {"idle", "received", "tile", "runs", "done"}
  /\ stage # "idle" => update \in Updates(info)
  /\ stage \in {"tile", "runs"} => update.encoding = "zrle"
  /\ stage = "done" /\ update.encoding \in {"raw", "fill"} => RectangleShown
  /\ CpixelsAsRead => ZrleInv

\* What the decoder reads at an offset is the number that is there.
LEMMA BytesAreRead ==
  ASSUME update.data \in Seq(0..255), NEW o \in Nat, NEW length \in Nat,
         o + length <= Len(update.data)
  PROVE  \A s \in 0..(length - 1) :
           Byte(o + s) = update.data[o + s + 1] /\ Byte(o + s) \in 0..255
<1>1. Len(update.data) \in Nat
  OBVIOUS
<1>2. \A s \in 0..(length - 1) :
        o + s < Len(update.data) /\ o + s + 1 \in 1..Len(update.data)
  BY <1>1
<1>3. \A k \in 1..Len(update.data) : update.data[k] \in 0..255
  BY ElementOfSeq
<1> QED
  BY <1>2, <1>3 DEF Byte

LEMMA NumberIsRead ==
  ASSUME update.data \in Seq(0..255), NEW o \in Nat, NEW length \in {1, 2, 4}, NEW value,
         info.do_endian_conversion \in BOOLEAN,
         IsNumber(info, update.data, o, length, value)
  PROVE  Number(o, length) = value
<1>1. o + length <= Len(update.data) /\ length \in Nat
  BY DEF IsNumber
<1>2. \A s \in 0..(length - 1) : Byte(o + s) = update.data[o + s + 1]
  BY <1>1, BytesAreRead
<1>3. CASE length = 1
  BY <1>2, <1>3 DEF Number, IsNumber
<1>4. CASE length = 2
  BY <1>2, <1>4 DEF Number, IsNumber
<1>5. CASE length = 4
  <2>1. /\ Byte(o) = update.data[o + 1] /\ Byte(o + 1) = update.data[o + 2]
        /\ Byte(o + 2) = update.data[o + 3] /\ Byte(o + 3) = update.data[o + 4]
    BY <1>2, <1>5
  <2>2. CASE info.do_endian_conversion
    BY <1>5, <2>1, <2>2 DEF Number, IsNumber
  <2>3. CASE ~info.do_endian_conversion
    BY <1>5, <2>1, <2>3 DEF Number, IsNumber
  <2> QED
    BY <2>2, <2>3
<1> QED
  BY <1>3, <1>4, <1>5

\* A number of three digits to the base 256, and that these are its digits
OfDigits(a, b, c) == a + 256 * (b + 256 * c)

LEMMA ThreeDigits ==
  ASSUME NEW a \in 0..255, NEW b \in 0..255, NEW c \in 0..255
  PROVE  ThreeBytes(OfDigits(a, b, c)) = <<a, b, c>>
<1> DEFINE n == a + 256 * (b + 256 * c)
<1>1. n % 256 = a /\ n \div 256 = b + 256 * c
  OBVIOUS
<1>2. (b + 256 * c) % 256 = b
  OBVIOUS
<1>3. n \div 65536 = c
  OBVIOUS
<1>4. c % 256 = c
  OBVIOUS
<1> QED
  BY <1>1, <1>2, <1>3, <1>4 DEF ThreeBytes, OfDigits

\* The three bytes of a CPIXEL are read in the order in which they are sent.
LEMMA ThreeBytesAreRead ==
  ASSUME update.data \in Seq(0..255), NEW o \in Nat, NEW value,
         IsNumber(info, update.data, o, 3, value)
  PROVE  ThreeBytes(value) = IF info.do_endian_conversion
                             THEN <<Byte(o + 2), Byte(o + 1), Byte(o)>>
                             ELSE <<Byte(o), Byte(o + 1), Byte(o + 2)>>
<1>1. o + 3 <= Len(update.data)
  BY DEF IsNumber
<1>2. /\ Byte(o) = update.data[o + 1] /\ Byte(o + 1) = update.data[o + 2]
      /\ Byte(o + 2) = update.data[o + 3]
  <2>1. \A k \in 0..(3 - 1) : Byte(o + k) = update.data[o + k + 1]
    BY <1>1, BytesAreRead
  <2>2. 0 \in 0..(3 - 1) /\ 1 \in 0..(3 - 1) /\ 2 \in 0..(3 - 1)
    OBVIOUS
  <2>3. o + 0 = o /\ o + 1 + 1 = o + 2 /\ o + 2 + 1 = o + 3
    OBVIOUS
  <2> QED
    BY <2>1, <2>2, <2>3, Zenon
<1>5. Byte(o) \in 0..255 /\ Byte(o + 1) \in 0..255 /\ Byte(o + 2) \in 0..255
  <2>1. \A k \in 0..(3 - 1) : Byte(o + k) \in 0..255
    BY <1>1, BytesAreRead
  <2>2. 0 \in 0..(3 - 1) /\ 1 \in 0..(3 - 1) /\ 2 \in 0..(3 - 1)
    OBVIOUS
  <2>3. o + 0 = o
    OBVIOUS
  <2> QED
    BY <2>1, <2>2, <2>3, Zenon
<1>6. /\ ThreeBytes(OfDigits(Byte(o + 2), Byte(o + 1), Byte(o)))
             = <<Byte(o + 2), Byte(o + 1), Byte(o)>>
      /\ ThreeBytes(OfDigits(Byte(o), Byte(o + 1), Byte(o + 2)))
             = <<Byte(o), Byte(o + 1), Byte(o + 2)>>
  <2> DEFINE p == Byte(o)
             q == Byte(o + 1)
             r == Byte(o + 2)
  <2>1. p \in 0..255 /\ q \in 0..255 /\ r \in 0..255
    BY <1>5
  <2> HIDE DEF p, q, r
  <2>2. ThreeBytes(OfDigits(r, q, p)) = <<r, q, p>>
    BY <2>1, ThreeDigits, Zenon
  <2>3. ThreeBytes(OfDigits(p, q, r)) = <<p, q, r>>
    BY <2>1, ThreeDigits, Zenon
  <2> QED
    BY <2>2, <2>3, Zenon DEF p, q, r
<1>3. CASE info.do_endian_conversion
  <2>1. 1 + (o + 3 - 1 - 0) = o + 3 /\ 1 + (o + 3 - 1 - 1) = o + 2 /\ 1 + (o + 3 - 1 - 2) = o + 1
    OBVIOUS
  <2>2. value = update.data[o + 3] + 256 * (update.data[o + 2] + 256 * update.data[o + 1])
    BY <1>3, <2>1 DEF IsNumber
  <2>3. value = OfDigits(Byte(o + 2), Byte(o + 1), Byte(o))
    BY <1>2, <2>2 DEF OfDigits
  <2> QED
    BY <1>3, <1>6, <2>3, Zenon
<1>4. CASE ~info.do_endian_conversion
  <2>1. 1 + (o + 0) = o + 1 /\ 1 + (o + 1) = o + 2 /\ 1 + (o + 2) = o + 3
    OBVIOUS
  <2>2. value = update.data[o + 1] + 256 * (update.data[o + 2] + 256 * update.data[o + 3])
    BY <1>4, <2>1 DEF IsNumber
  <2>3. value = OfDigits(Byte(o), Byte(o + 1), Byte(o + 2))
    BY <1>2, <2>2 DEF OfDigits
  <2> QED
    BY <1>4, <1>6, <2>3, Zenon
<1> QED
  BY <1>3, <1>4

LEMMA PixelIsRead ==
  ASSUME info \in Infos, update.data \in Seq(0..255), NEW o \in Nat, NEW value,
         IsNumber(info, update.data, o, PixelSize, value)
  PROVE  ReadPixel(o) = Meaning(value)
<1>1. PixelSize \in {1, 2, 4}
  BY InfoAssumption DEF PixelSize
<1>2. info.do_endian_conversion \in BOOLEAN /\ (info.true_colour <=> PixelSize # 1)
  BY InfoAssumption DEF PixelSize
<1>3. Number(o, PixelSize) = value
  BY <1>1, <1>2, NumberIsRead
<1>4. CASE PixelSize = 1
  <2>1. Byte(o) = value
    BY <1>3, <1>4 DEF Number
  <2> QED
    BY <1>2, <1>4, <2>1 DEF ReadPixel, Meaning
<1>5. CASE PixelSize # 1
  BY <1>2, <1>3, <1>5 DEF ReadPixel, Meaning
<1> QED
  BY <1>4, <1>5

LEMMA CpixelIsRead ==
  ASSUME CpixelsAsRead, info \in Infos, update.data \in Seq(0..255), NEW o \in Nat,
         NEW s, NEW t, IsCpixel(info, update, o, s, t)
  PROVE  ReadCpixel(o) = Shown(Value(update, s, t))
<1> DEFINE value == Value(update, s, t)
           sent == CpixelValue(info, value)
           length == CpixelLength(info)
<1>1. PixelSize \in {1, 2, 4} /\ PixelSize = info.bytes_per_pixel
  BY InfoAssumption DEF PixelSize
<1>2. info.do_endian_conversion \in BOOLEAN /\ (info.true_colour <=> PixelSize # 1)
  BY InfoAssumption DEF PixelSize
<1>3. IsNumber(info, update.data, o, length, sent)
  BY DEF IsCpixel
<1>7. length = CpixelSize /\ (PixelSize # 4 => sent = value)
  BY <1>1 DEF CpixelsAsRead, CpixelValue
<1> HIDE DEF value, sent, length
<1>4. CASE PixelSize = 1
  <2>1. length = 1 /\ sent = value
    BY <1>4, <1>7 DEF CpixelSize
  <2>2. Number(o, 1) = value
    BY <1>2, <1>3, <2>1, NumberIsRead
  <2>3. Byte(o) = value
    BY <2>2 DEF Number
  <2> QED
    BY <1>2, <1>4, <2>3 DEF ReadCpixel, Shown, Meaning, value
<1>5. CASE PixelSize = 2
  <2>1. length = 2 /\ sent = value
    BY <1>5, <1>7 DEF CpixelSize
  <2>2. Number(o, 2) = value
    BY <1>2, <1>3, <2>1, NumberIsRead
  <2> QED
    BY <1>2, <1>5, <2>2 DEF ReadCpixel, Shown, Meaning, value
<1>6. CASE PixelSize = 4
  <2>1. length = 3
    BY <1>6, <1>7 DEF CpixelSize
  <2>2. IsNumber(info, update.data, o, 3, sent)
    BY <1>3, <2>1
  <2>3. Shown(value) = ThreeBytes(sent)
    BY <1>6 DEF Shown, sent
  <2>4. ThreeBytes(sent) = IF info.do_endian_conversion
                           THEN <<Byte(o + 2), Byte(o + 1), Byte(o)>>
                           ELSE <<Byte(o), Byte(o + 1), Byte(o + 2)>>
    BY <2>2, ThreeBytesAreRead, Zenon
  <2>5. ReadCpixel(o) = IF info.do_endian_conversion
                        THEN <<Byte(o + 2), Byte(o + 1), Byte(o)>>
                        ELSE <<Byte(o), Byte(o + 1), Byte(o + 2)>>
    BY <1>6 DEF ReadCpixel
  <2> QED
    BY <2>3, <2>4, <2>5, Zenon DEF value
<1> QED
  BY <1>1, <1>4, <1>5, <1>6

LEMMA RowByRow ==
  ASSUME NEW w \in Nat \ {0}, NEW h \in Nat \ {0}, NEW s \in 0..(w - 1), NEW t \in 0..(h - 1)
  PROVE  /\ t * w + s \in 0..(w * h - 1)
         /\ (t * w + s) % w = s
         /\ (t * w + s) \div w = t
<1>1. t * w + s \in 0..(w * h - 1)
  <2>1. t * w <= (h - 1) * w /\ (h - 1) * w = w * h - w /\ t * w \in Nat
    OBVIOUS
  <2> QED
    BY <2>1
<1>2. (t * w + s) \div w = t
  OBVIOUS
<1>3. (t * w + s) % w = s
  OBVIOUS
<1> QED
  BY <1>1, <1>2, <1>3

LEMMA UpdateIs ==
  ASSUME VncInv, stage # "idle"
  PROVE  IsUpdate(info, update) /\ update.data \in Seq(0..255)
<1>1. info \in Infos /\ update \in Updates(info)
  BY DEF VncInv
<1>2. IsUpdate(info, update)
  BY <1>1, UpdatesAssumption
<1> QED
  BY <1>2 DEF IsUpdate

\* Every tile is inside the rectangle, and its bytes are those of one kind of tile.
LEMMA CornerInside ==
  ASSUME NEW f, NEW u, IsUpdate(f, u), u.encoding = "zrle",
         NEW px, NEW py, NEW o, TileBegins(u, px, py, o)
  PROVE  /\ u.x \in Nat /\ u.y \in Nat /\ u.w \in Nat \ {0} /\ u.h \in Nat \ {0}
         /\ px \in 0..(u.w - 1) /\ py \in 0..(u.h - 1) /\ o \in 0..(Len(u.data) - 1)
         /\ \/ IsRaw(f, u, px, py, o) \/ IsSolid(f, u, px, py, o) \/ IsPacked(f, u, px, py, o)
            \/ IsPlainRuns(f, u, px, py, o) \/ IsPaletteRuns(f, u, px, py, o)
<1>1. u.x \in Nat /\ u.y \in Nat /\ u.w \in Nat \ {0} /\ u.h \in Nat \ {0}
  BY DEF IsUpdate
<1>2. IsZrle(f, u)
  BY DEF IsUpdate
<1>3. px \in DOMAIN u.tiles /\ py \in DOMAIN u.tiles[px] /\ u.tiles[px][py] = o
  BY DEF TileBegins
<1> QED
  BY <1>1, <1>2, <1>3 DEF IsZrle

LEMMA TileSizes ==
  ASSUME NEW u, u.w \in Nat \ {0}, u.h \in Nat \ {0},
         NEW px \in 0..(u.w - 1), NEW py \in 0..(u.h - 1)
  PROVE  /\ TileWidth(u, px) \in Nat \ {0} /\ TileWidth(u, px) <= TileSize
         /\ px + TileWidth(u, px) <= u.w
         /\ TileHeight(u, py) \in Nat \ {0} /\ TileHeight(u, py) <= TileSize
         /\ py + TileHeight(u, py) <= u.h
         /\ px + TileSize < u.w => TileWidth(u, px) = TileSize
         /\ px + TileSize >= u.w => px + TileWidth(u, px) = u.w
         /\ py + TileSize < u.h => TileHeight(u, py) = TileSize
         /\ py + TileSize >= u.h => py + TileHeight(u, py) = u.h
<1>1. TileSize \in Nat \ {0}
  BY SizesAssumption
<1> QED
  BY <1>1 DEF TileWidth, TileHeight, Smaller

\* The tile that is drawn
LEMMA TileIs ==
  ASSUME VncInv, stage # "idle", NEW o, TileInv(o)
  PROVE  /\ update.x \in Nat /\ update.y \in Nat
         /\ update.w \in Nat \ {0} /\ update.h \in Nat \ {0}
         /\ Left \in 0..(update.w - 1) /\ Above \in 0..(update.h - 1)
         /\ x = update.x + Left /\ y = update.y + Above
         /\ tile_width = TileWidth(update, Left) /\ tile_height = TileHeight(update, Above)
         /\ TilePixels = TileArea(update, Left, Above)
         /\ TilePixels \in Nat \ {0}
         /\ o \in 0..(Len(update.data) - 1)
<1>1. IsUpdate(info, update)
  BY UpdateIs
<1>2. update.encoding = "zrle" /\ TileBegins(update, Left, Above, o) /\ x \in Int /\ y \in Int
  BY DEF TileInv
<1>3. /\ update.x \in Nat /\ update.y \in Nat
      /\ update.w \in Nat \ {0} /\ update.h \in Nat \ {0}
      /\ Left \in 0..(update.w - 1) /\ Above \in 0..(update.h - 1)
      /\ o \in 0..(Len(update.data) - 1)
  BY <1>1, <1>2, CornerInside
<1>4. x = update.x + Left /\ y = update.y + Above
  <2>1. \A a, b \in Int : a = b + (a - b)
    OBVIOUS
  <2>2. update.x \in Int /\ update.y \in Int
    BY <1>3
  <2> QED
    BY <1>2, <2>1, <2>2, Zenon DEF Left, Above
<1>5. /\ update.x + update.w - x = update.w - Left
      /\ update.y + update.h - y = update.h - Above
  <2>1. \A a, b, c, d \in Int : d = a + c => a + b - d = b - c
    OBVIOUS
  <2>2. update.x \in Int /\ update.w \in Int /\ Left \in Int /\ x \in Int
    BY <1>2, <1>3
  <2>3. update.y \in Int /\ update.h \in Int /\ Above \in Int /\ y \in Int
    BY <1>2, <1>3
  <2> QED
    BY <1>4, <2>1, <2>2, <2>3
<1>6. tile_width = TileWidth(update, Left) /\ tile_height = TileHeight(update, Above)
  BY <1>5 DEF tile_width, tile_height, TileWidth, TileHeight
<1>7. TileWidth(update, Left) \in Nat \ {0} /\ TileHeight(update, Above) \in Nat \ {0}
  BY <1>3, TileSizes
<1>8. TilePixels = TileArea(update, Left, Above)
  BY <1>6 DEF TilePixels, TileArea
<1>9. TilePixels \in Nat \ {0}
  <2>1. \A a, b \in Nat \ {0} : a * b \in Nat \ {0}
    OBVIOUS
  <2> QED
    BY <1>6, <1>7, <2>1 DEF TilePixels
<1> QED
  BY <1>3, <1>4, <1>6, <1>8, <1>9

LEMMA ShownAfter ==
  ASSUME UNCHANGED <<info, colour_map>>, NEW value
  PROVE  Shown(value)' = Shown(value)
BY DEF Shown, Meaning, Colour, PixelSize

LEMMA ShowsAfter ==
  ASSUME UNCHANGED <<info, colour_map, update>>, NEW s, NEW t
  PROVE  Shows(s, t)' <=>
           Pixel(framebuffer', update.x + s, update.y + t) = Shown(Value(update, s, t))
BY ShownAfter DEF Shows

\* Pixels first..last-1 of the tile are drawn, and no others.
TilePainted(first, last) ==
  /\ Cols(framebuffer') = Cols(framebuffer) /\ Rows(framebuffer') = Rows(framebuffer)
  /\ \A s \in 0..(update.w - 1), t \in 0..(update.h - 1) :
       \/ Pixel(framebuffer', update.x + s, update.y + t)
            = Pixel(framebuffer, update.x + s, update.y + t)
       \/ /\ s \in Left..(Left + tile_width - 1) /\ t \in Above..(Above + tile_height - 1)
          /\ (t - Above) * tile_width + (s - Left) \in first..(last - 1)
  /\ \A s \in 0..(tile_width - 1), t \in 0..(tile_height - 1) :
       t * tile_width + s \in first..(last - 1) =>
         Pixel(framebuffer', x + s, y + t) = Shown(Value(update, Left + s, Above + t))

\* The picture with the colours c for the pixels first..last-1 of the tile
Painted(first, last, c) ==
  Picture(Cols(framebuffer), Rows(framebuffer), LAMBDA a, b :
    LET k == (b - y) * tile_width + (a - x)
    IN  IF Has(Tile, a, b) /\ k \in first..(last - 1) THEN c[k] ELSE Pixel(framebuffer, a, b))

LEMMA Painting ==
  ASSUME VncInv, stage # "idle", NEW o, TileInv(o), NEW first \in Nat, NEW last \in Nat, NEW c,
         framebuffer' = Painted(first, last, c),
         \A s \in 0..(tile_width - 1), t \in 0..(tile_height - 1) :
           t * tile_width + s \in first..(last - 1) =>
             c[t * tile_width + s] = Shown(Value(update, Left + s, Above + t))
  PROVE  TilePainted(first, last)
<1> DEFINE w == Cols(framebuffer)
           h == Rows(framebuffer)
           Nth(a, b) == (b - y) * tile_width + (a - x)
           InTile(a, b) == Has(Tile, a, b) /\ Nth(a, b) \in first..(last - 1)
<1>1. /\ w \in Nat \ {0} /\ h \in Nat \ {0}
      /\ update.x + update.w <= w /\ update.y + update.h <= h
  BY SizesAssumption DEF VncInv, ScreenInv, TileInv
<1>2. framebuffer' = [row \in 1..h |-> [col \in 1..w |->
        IF InTile(col - 1, row - 1) THEN c[Nth(col - 1, row - 1)]
        ELSE Pixel(framebuffer, col - 1, row - 1)]]
  BY DEF Picture, Painted
<1> HIDE DEF w, h, InTile, Nth
<1>3. Rows(framebuffer') = h /\ Cols(framebuffer') = w
  <2>1. Len(framebuffer') = h
    BY <1>1, <1>2
  <2>2. 1 \in 1..h /\ framebuffer' # <<>>
    BY <1>1, <2>1
  <2>3. Len(framebuffer'[1]) = w
    BY <1>1, <1>2, <2>2
  <2> QED
    BY <2>1, <2>2, <2>3 DEF Rows, Cols
<1>4. ASSUME NEW a \in 0..(w - 1), NEW b \in 0..(h - 1)
      PROVE  Pixel(framebuffer', a, b) =
               IF InTile(a, b) THEN c[Nth(a, b)] ELSE Pixel(framebuffer, a, b)
  <2>1. a + 1 \in 1..w /\ b + 1 \in 1..h /\ a + 1 - 1 = a /\ b + 1 - 1 = b
    BY <1>1
  <2>2. framebuffer'[b + 1][a + 1] =
          IF InTile(a, b) THEN c[Nth(a, b)] ELSE Pixel(framebuffer, a, b)
    BY <1>2, <2>1
  <2> QED
    BY <2>2 DEF Pixel
<1>5. /\ update.x \in Nat /\ update.y \in Nat
      /\ update.w \in Nat \ {0} /\ update.h \in Nat \ {0}
      /\ Left \in 0..(update.w - 1) /\ Above \in 0..(update.h - 1)
      /\ x = update.x + Left /\ y = update.y + Above
      /\ tile_width = TileWidth(update, Left) /\ tile_height = TileHeight(update, Above)
  BY TileIs
<1>6. /\ tile_width \in Nat \ {0} /\ Left + tile_width <= update.w
      /\ tile_height \in Nat \ {0} /\ Above + tile_height <= update.h
  BY <1>5, TileSizes
<1>7. \A a, b : Has(Tile, a, b) <=> a \in x..(x + tile_width - 1) /\ b \in y..(y + tile_height - 1)
  BY DEF Has, Tile, Rect
<1>8. ASSUME NEW s \in 0..(update.w - 1), NEW t \in 0..(update.h - 1)
      PROVE  \/ Pixel(framebuffer', update.x + s, update.y + t)
                  = Pixel(framebuffer, update.x + s, update.y + t)
             \/ /\ s \in Left..(Left + tile_width - 1) /\ t \in Above..(Above + tile_height - 1)
                /\ (t - Above) * tile_width + (s - Left) \in first..(last - 1)
  <2> DEFINE a == update.x + s
             b == update.y + t
  <2>1. a \in 0..(w - 1) /\ b \in 0..(h - 1)
    BY <1>1, <1>5
  <2>2. CASE ~InTile(a, b)
    BY <1>4, <2>1, <2>2
  <2>3. CASE InTile(a, b)
    <3>1. Has(Tile, a, b) /\ Nth(a, b) \in first..(last - 1)
      BY <2>3 DEF InTile
    <3>2. s \in Left..(Left + tile_width - 1) /\ t \in Above..(Above + tile_height - 1)
      BY <1>5, <1>6, <1>7, <3>1
    <3>3. b - y = t - Above /\ a - x = s - Left
      BY <1>5
    <3> QED
      BY <3>1, <3>2, <3>3 DEF Nth
  <2> QED
    BY <2>2, <2>3
<1>9. ASSUME NEW s \in 0..(tile_width - 1), NEW t \in 0..(tile_height - 1),
             t * tile_width + s \in first..(last - 1)
      PROVE  Pixel(framebuffer', x + s, y + t) = Shown(Value(update, Left + s, Above + t))
  <2> DEFINE a == x + s
             b == y + t
  <2>1. a \in 0..(w - 1) /\ b \in 0..(h - 1)
    BY <1>1, <1>5, <1>6
  <2>2. Has(Tile, a, b)
    BY <1>5, <1>6, <1>7
  <2>3. b - y = t /\ a - x = s
    BY <1>5, <1>6
  <2>4. Nth(a, b) = t * tile_width + s
    BY <2>3 DEF Nth
  <2>5. InTile(a, b)
    BY <1>9, <2>2, <2>4 DEF InTile
  <2>6. Pixel(framebuffer', a, b) = c[t * tile_width + s]
    BY <1>4, <2>1, <2>4, <2>5
  <2> QED
    BY <1>9, <2>6
<1> QED
  BY <1>3, <1>8, <1>9 DEF TilePainted, w, h

\* The tile is finished: the next one, or the end of the rectangle.
LEMMA TileDone ==
  ASSUME CpixelsAsRead, VncInv, stage \in {"tile", "runs"}, NEW o, TileInv(o), NextTile,
         UNCHANGED <<info, colour_map, update>>, NEW first \in Nat, NEW last \in Nat,
         TilePixels <= last, TilePainted(first, last),
         \A s \in 0..(tile_width - 1), t \in 0..(tile_height - 1) :
           t * tile_width + s < first => Shows(Left + s, Above + t),
         TileEnds(update, Left, Above, offset')
  PROVE  VncInv'
<1>0. stage # "idle"
  OBVIOUS
<1>1. /\ update.x \in Nat /\ update.y \in Nat
      /\ update.w \in Nat \ {0} /\ update.h \in Nat \ {0}
      /\ Left \in 0..(update.w - 1) /\ Above \in 0..(update.h - 1)
      /\ x = update.x + Left /\ y = update.y + Above
      /\ tile_width = TileWidth(update, Left) /\ tile_height = TileHeight(update, Above)
      /\ TilePixels = TileArea(update, Left, Above)
  BY <1>0, TileIs
<1>2. /\ tile_width \in Nat \ {0} /\ tile_width <= TileSize /\ Left + tile_width <= update.w
      /\ tile_height \in Nat \ {0} /\ tile_height <= TileSize /\ Above + tile_height <= update.h
      /\ Left + TileSize < update.w => tile_width = TileSize
      /\ Left + TileSize >= update.w => Left + tile_width = update.w
      /\ Above + TileSize < update.h => tile_height = TileSize
      /\ Above + TileSize >= update.h => Above + tile_height = update.h
      /\ TileSize \in Nat \ {0}
  BY <1>1, TileSizes, SizesAssumption
<1>3. ASSUME NEW s \in 0..(tile_width - 1), NEW t \in 0..(tile_height - 1),
             NEW p, NEW q, p = Left + s, q = Above + t
      PROVE  Shows(p, q)'
  <2> DEFINE k == t * tile_width + s
  <2>1. k \in 0..(tile_width * tile_height - 1)
    <3>1. t * tile_width <= (tile_height - 1) * tile_width /\ t * tile_width \in Nat
      BY <1>2
    <3>2. (tile_height - 1) * tile_width = tile_width * tile_height - tile_width
      BY <1>2
    <3> QED
      BY <1>2, <3>1, <3>2
  <2>2. TilePixels = tile_width * tile_height /\ tile_width * tile_height \in Nat
    BY <1>2 DEF TilePixels
  <2>3. /\ p \in 0..(update.w - 1) /\ q \in 0..(update.h - 1)
        /\ update.x + p = x + s /\ update.y + q = y + t
        /\ p - Left = s /\ q - Above = t
    BY <1>1, <1>2, <1>3
  <2>4. (q - Above) * tile_width + (p - Left) = k
    BY <2>3
  <2> HIDE DEF k
  <2>5. k < last /\ k \in Nat
    BY <2>1, <2>2
  <2>6. Shows(p, q)' <=>
          Pixel(framebuffer', update.x + p, update.y + q) = Shown(Value(update, p, q))
    BY ShowsAfter
  <2>7. CASE k >= first
    <3>1. k \in first..(last - 1)
      BY <2>5, <2>7
    <3>2. Pixel(framebuffer', x + s, y + t) = Shown(Value(update, Left + s, Above + t))
      BY <3>1 DEF TilePainted, k
    <3> QED
      BY <1>3, <2>3, <2>6, <3>2
  <2>8. CASE k < first
    <3>1. Shows(p, q)
      BY <1>3, <2>8 DEF k
    <3>2. ~(k \in first..(last - 1))
      BY <2>5, <2>8
    <3>3. Pixel(framebuffer', update.x + p, update.y + q)
            = Pixel(framebuffer, update.x + p, update.y + q)
      BY <2>3, <2>4, <3>2 DEF TilePainted
    <3> QED
      BY <2>6, <3>1, <3>3 DEF Shows
  <2> QED
    BY <2>5, <2>7, <2>8
<1>4. ASSUME NEW s \in 0..(update.w - 1), NEW t \in 0..(update.h - 1),
             t < Above \/ (t < Above + TileSize /\ s < Left + TileSize)
      PROVE  Shows(s, t)'
  <2>1. CASE s \in Left..(Left + tile_width - 1) /\ t \in Above..(Above + tile_height - 1)
    <3>1. /\ s - Left \in 0..(tile_width - 1) /\ t - Above \in 0..(tile_height - 1)
          /\ Left + (s - Left) = s /\ Above + (t - Above) = t
      BY <1>1, <1>2, <2>1
    <3>2. PICK a \in 0..(tile_width - 1), b \in 0..(tile_height - 1) :
            s = Left + a /\ t = Above + b
      BY <3>1
    <3> QED
      BY <1>3, <3>2
  <2>2. CASE ~(s \in Left..(Left + tile_width - 1) /\ t \in Above..(Above + tile_height - 1))
    <3>1. t < Above \/ (t < Above + TileSize /\ s < Left)
      BY <1>1, <1>2, <1>4, <2>2
    <3>2. Shows(s, t)
      BY <3>1 DEF TileInv
    <3>3. Pixel(framebuffer', update.x + s, update.y + t)
            = Pixel(framebuffer, update.x + s, update.y + t)
      BY <2>2 DEF TilePainted
    <3> QED
      BY <3>2, <3>3, ShowsAfter DEF Shows
  <2> QED
    BY <2>1, <2>2
<1>5. /\ ScreenInv' /\ info' \in Infos /\ update' \in Updates(info')
      /\ update'.encoding = "zrle"
  BY <1>0 DEF VncInv, ScreenInv, TilePainted, TileInv
<1>6. /\ update.encoding = "zrle"
      /\ update.x + update.w <= Cols(framebuffer') /\ update.y + update.h <= Rows(framebuffer')
  BY DEF TileInv, TilePainted
<1>7. CASE Left + TileSize < update.w
  <2>1. stage' = "tile" /\ x' = x + TileSize /\ y' = y
    BY <1>1, <1>2, <1>7 DEF NextTile
  <2>2. Left' = Left + TileSize /\ Above' = Above
    BY <1>1, <1>2, <2>1 DEF Left, Above
  <2>3. TileBegins(update, Left', Above', offset')
    BY <1>7, <2>2 DEF TileEnds
  <2>4. \A s \in 0..(update.w - 1), t \in 0..(update.h - 1) :
          t < Above' \/ (t < Above' + TileSize /\ s < Left') => Shows(s, t)'
    BY <1>4, <2>2
  <2>5. x' \in Int /\ y' \in Int
    BY <1>1, <1>2, <2>1
  <2>6. TileInv(offset)'
    BY <1>6, <2>3, <2>4, <2>5 DEF TileInv
  <2> QED
    BY <1>5, <2>1, <2>6 DEF VncInv, ZrleInv
<1>8. CASE Left + TileSize >= update.w /\ Above + TileSize < update.h
  <2>1. stage' = "tile" /\ x' = update.x /\ y' = y + TileSize
    BY <1>1, <1>2, <1>8 DEF NextTile
  <2>2. Left' = 0 /\ Above' = Above + TileSize
    BY <1>1, <1>2, <2>1 DEF Left, Above
  <2>3. TileBegins(update, Left', Above', offset')
    BY <1>1, <1>2, <1>8, <2>2 DEF TileEnds
  <2>4. \A s \in 0..(update.w - 1), t \in 0..(update.h - 1) :
          t < Above' \/ (t < Above' + TileSize /\ s < Left') => Shows(s, t)'
    <3>1. \A s \in 0..(update.w - 1), t \in 0..(update.h - 1) :
            t < Above + TileSize /\ s < Left + TileSize => Shows(s, t)'
      BY <1>4
    <3> QED
      BY <1>1, <1>2, <1>8, <2>2, <3>1
  <2>5. x' \in Int /\ y' \in Int
    BY <1>1, <1>2, <2>1
  <2>6. TileInv(offset)'
    BY <1>6, <2>3, <2>4, <2>5 DEF TileInv
  <2> QED
    BY <1>5, <2>1, <2>6 DEF VncInv, ZrleInv
<1>9. CASE Left + TileSize >= update.w /\ Above + TileSize >= update.h
  <2>1. stage' = "done"
    BY <1>1, <1>2, <1>9 DEF NextTile
  <2>2. offset' = Len(update.data)
    <3>1. ~(Left + TileSize < update.w) /\ ~(Above + TileSize < update.h)
      BY <1>1, <1>2, <1>9
    <3> QED
      BY <3>1 DEF TileEnds
  <2>3. \A s \in 0..(update.w - 1), t \in 0..(update.h - 1) : Shows(s, t)'
    <3> TAKE s \in 0..(update.w - 1), t \in 0..(update.h - 1)
    <3>1. t < Above + TileSize /\ s < Left + TileSize
      BY <1>1, <1>2, <1>9
    <3> QED
      BY <1>4, <3>1
  <2> QED
    BY <1>5, <2>1, <2>2, <2>3 DEF VncInv, ZrleInv
<1> QED
  BY <1>1, <1>2, <1>7, <1>8, <1>9

LEMMA WholeTileDone ==
  ASSUME CpixelsAsRead, VncInv, stage = "tile", NextTile, UNCHANGED <<info, colour_map, update>>,
         NEW c, framebuffer' = Painted(0, TilePixels, c),
         \A s \in 0..(tile_width - 1), t \in 0..(tile_height - 1) :
           c[t * tile_width + s] = Shown(Value(update, Left + s, Above + t)),
         TileEnds(update, Left, Above, offset')
  PROVE  VncInv'
<1>1. TileInv(offset)
  BY DEF VncInv, ZrleInv
<1>2. TilePixels \in Nat
  BY <1>1, TileIs
<1>3. TilePainted(0, TilePixels)
  BY <1>1, <1>2, Painting
<1>4. /\ tile_width \in Nat \ {0} /\ tile_width = TileWidth(update, Left)
      /\ tile_height \in Nat \ {0} /\ tile_height = TileHeight(update, Above)
  BY <1>1, TileIs, TileSizes
<1>5. \A s \in 0..(tile_width - 1), t \in 0..(tile_height - 1) : ~(t * tile_width + s < 0)
  <2> TAKE s \in 0..(tile_width - 1), t \in 0..(tile_height - 1)
  <2>1. t * tile_width \in Nat /\ s \in Nat
    BY <1>4
  <2> QED
    BY <2>1
<1> QED
  BY <1>1, <1>2, <1>3, <1>5, TileDone

\* The first byte of a tile says how it is encoded.
LEMMA KindOfTile ==
  ASSUME VncInv, stage # "idle", NEW o, TileInv(o)
  PROVE  /\ o \in 0..(Len(update.data) - 1) /\ Byte(o) = update.data[o + 1]
         /\ Byte(o) = 0 => IsRaw(info, update, Left, Above, o)
         /\ Byte(o) = 1 => IsSolid(info, update, Left, Above, o)
         /\ Byte(o) \in (2..127) \cup {129} => IsPacked(info, update, Left, Above, o)
         /\ Byte(o) = 128 => IsPlainRuns(info, update, Left, Above, o)
         /\ Byte(o) \in 130..255 => IsPaletteRuns(info, update, Left, Above, o)
<1>1. o \in 0..(Len(update.data) - 1)
  BY TileIs
<1>2. Byte(o) = update.data[o + 1]
  BY <1>1 DEF Byte
<1>3. \/ IsRaw(info, update, Left, Above, o) \/ IsSolid(info, update, Left, Above, o)
      \/ IsPacked(info, update, Left, Above, o)
      \/ IsPlainRuns(info, update, Left, Above, o) \/ IsPaletteRuns(info, update, Left, Above, o)
  BY UpdateIs, CornerInside DEF TileInv
<1>4. /\ IsRaw(info, update, Left, Above, o) => update.data[o + 1] = 0
      /\ IsSolid(info, update, Left, Above, o) => update.data[o + 1] = 1
      /\ IsPacked(info, update, Left, Above, o) => update.data[o + 1] \in (2..127) \cup {129}
      /\ IsPlainRuns(info, update, Left, Above, o) => update.data[o + 1] = 128
      /\ IsPaletteRuns(info, update, Left, Above, o) => update.data[o + 1] \in 130..255
  BY DEF IsRaw, IsSolid, IsPacked, IsPlainRuns, IsPaletteRuns
<1>5. Byte(o) = 0 => IsRaw(info, update, Left, Above, o)
  BY <1>2, <1>3, <1>4
<1>6. Byte(o) = 1 => IsSolid(info, update, Left, Above, o)
  BY <1>2, <1>3, <1>4
<1>7. Byte(o) \in (2..127) \cup {129} => IsPacked(info, update, Left, Above, o)
  <2>1. SUFFICES ASSUME Byte(o) \in (2..127) \cup {129} PROVE IsPacked(info, update, Left, Above, o)
    OBVIOUS
  <2>2. Byte(o) # 0 /\ Byte(o) # 1 /\ Byte(o) # 128 /\ Byte(o) \notin 130..255
    BY <2>1
  <2> QED
    BY <1>2, <1>3, <1>4, <2>2
<1>8. Byte(o) = 128 => IsPlainRuns(info, update, Left, Above, o)
  BY <1>2, <1>3, <1>4
<1>9. Byte(o) \in 130..255 => IsPaletteRuns(info, update, Left, Above, o)
  <2>1. SUFFICES ASSUME Byte(o) \in 130..255 PROVE IsPaletteRuns(info, update, Left, Above, o)
    OBVIOUS
  <2>2. Byte(o) # 0 /\ Byte(o) # 1 /\ Byte(o) # 128 /\ Byte(o) \notin (2..127) \cup {129}
    BY <2>1
  <2> QED
    BY <1>2, <1>3, <1>4, <2>2
<1> QED
  BY <1>1, <1>2, <1>5, <1>6, <1>7, <1>8, <1>9

LEMMA LengthOfCpixel ==
  ASSUME CpixelsAsRead, info \in Infos
  PROVE  CpixelSize \in 1..3 /\ CpixelSize = CpixelLength(info)
BY InfoAssumption DEF CpixelsAsRead, CpixelSize, PixelSize

LEMMA RawTileDone ==
  ASSUME CpixelsAsRead, VncInv, RawTile
  PROVE  VncInv'
<1> DEFINE c == [k \in 0..(TilePixels - 1) |-> ReadCpixel(offset + 1 + k * CpixelSize)]
<1>1. /\ stage = "tile" /\ Byte(offset) = 0 /\ NextTile
      /\ UNCHANGED <<info, colour_map, update>>
      /\ offset' = offset + 1 + TilePixels * CpixelSize
  BY DEF RawTile, AtTile, WholeTile
<1>2. TileInv(offset) /\ info \in Infos
  BY <1>1 DEF VncInv, ZrleInv
<1>3. framebuffer' = Painted(0, TilePixels, c)
  BY <1>1 DEF RawTile, WholeTile, DrawTile, Painted, Picture
<1>4. /\ tile_width = TileWidth(update, Left) /\ tile_height = TileHeight(update, Above)
      /\ TilePixels = TileArea(update, Left, Above) /\ TilePixels = tile_width * tile_height
      /\ tile_width \in Nat \ {0} /\ tile_height \in Nat \ {0}
      /\ update.data \in Seq(0..255) /\ offset \in Nat
  <2>1. update.data \in Seq(0..255) /\ stage # "idle"
    BY <1>1, UpdateIs
  <2>2. /\ tile_width = TileWidth(update, Left) /\ tile_height = TileHeight(update, Above)
        /\ TilePixels = TileArea(update, Left, Above) /\ offset \in 0..(Len(update.data) - 1)
        /\ update.w \in Nat \ {0} /\ update.h \in Nat \ {0}
        /\ Left \in 0..(update.w - 1) /\ Above \in 0..(update.h - 1)
    BY <1>2, <2>1, TileIs
  <2>3. tile_width \in Nat \ {0} /\ tile_height \in Nat \ {0}
    BY <2>2, TileSizes
  <2>4. TilePixels = tile_width * tile_height
    BY DEF TilePixels
  <2> QED
    BY <2>1, <2>2, <2>3, <2>4
<1>5. CpixelSize \in 1..3 /\ CpixelSize = CpixelLength(info)
  BY <1>2, LengthOfCpixel
<1>6. IsRaw(info, update, Left, Above, offset)
  BY <1>1, <1>2, KindOfTile
<1>7. TileEnds(update, Left, Above, offset')
  BY <1>1, <1>4, <1>5, <1>6 DEF IsRaw
<1>8. ASSUME NEW s \in 0..(tile_width - 1), NEW t \in 0..(tile_height - 1)
      PROVE  c[t * tile_width + s] = Shown(Value(update, Left + s, Above + t))
  <2> DEFINE k == t * tile_width + s
             o == offset + 1 + k * CpixelSize
  <2>1. k \in 0..(tile_width * tile_height - 1)
    BY <1>4, RowByRow
  <2>2. IsCpixel(info, update, o, Left + s, Above + t)
    BY <1>4, <1>5, <1>6 DEF IsRaw
  <2> HIDE DEF k
  <2>3. o \in Nat
    <3>1. k \in Nat /\ CpixelSize \in Nat
      <4>1. k \in Nat
        BY <2>1
      <4> QED
        BY <1>5, <4>1
    <3>2. k * CpixelSize \in Nat
      BY <3>1
    <3>3. offset \in Nat
      BY <1>4
    <3> QED
      BY <3>2, <3>3
  <2>4. ReadCpixel(o) = Shown(Value(update, Left + s, Above + t))
    BY <1>2, <1>4, <2>2, <2>3, CpixelIsRead
  <2>5. c[k] = ReadCpixel(o)
    BY <1>4, <2>1
  <2> QED
    BY <2>4, <2>5 DEF k
<1> HIDE DEF c
<1> QED
  BY <1>1, <1>3, <1>7, <1>8, WholeTileDone

LEMMA SolidTileDone ==
  ASSUME CpixelsAsRead, VncInv, SolidTile
  PROVE  VncInv'
<1> DEFINE c == [k \in 0..(TilePixels - 1) |-> ReadCpixel(offset + 1)]
<1>1. /\ stage = "tile" /\ Byte(offset) = 1 /\ NextTile
      /\ UNCHANGED <<info, colour_map, update>>
      /\ offset' = offset + 1 + CpixelSize
  BY DEF SolidTile, AtTile, WholeTile
<1>2. TileInv(offset) /\ info \in Infos
  BY <1>1 DEF VncInv, ZrleInv
<1>3. framebuffer' = Painted(0, TilePixels, c)
  BY <1>1 DEF SolidTile, WholeTile, DrawTile, Painted, Picture
<1>4. /\ tile_width = TileWidth(update, Left) /\ tile_height = TileHeight(update, Above)
      /\ TilePixels = tile_width * tile_height
      /\ tile_width \in Nat \ {0} /\ tile_height \in Nat \ {0}
      /\ update.data \in Seq(0..255) /\ offset \in Nat
  <2>1. update.data \in Seq(0..255) /\ stage # "idle"
    BY <1>1, UpdateIs
  <2>2. /\ tile_width = TileWidth(update, Left) /\ tile_height = TileHeight(update, Above)
        /\ TilePixels = TileArea(update, Left, Above) /\ offset \in 0..(Len(update.data) - 1)
        /\ update.w \in Nat \ {0} /\ update.h \in Nat \ {0}
        /\ Left \in 0..(update.w - 1) /\ Above \in 0..(update.h - 1)
    BY <1>2, <2>1, TileIs
  <2>3. tile_width \in Nat \ {0} /\ tile_height \in Nat \ {0}
    BY <2>2, TileSizes
  <2>4. TilePixels = tile_width * tile_height
    BY DEF TilePixels
  <2> QED
    BY <2>1, <2>2, <2>3, <2>4
<1>5. CpixelSize = CpixelLength(info)
  BY <1>2, LengthOfCpixel
<1>6. IsSolid(info, update, Left, Above, offset)
  BY <1>1, <1>2, KindOfTile
<1>7. TileEnds(update, Left, Above, offset')
  BY <1>1, <1>5, <1>6 DEF IsSolid
<1>8. ASSUME NEW s \in 0..(tile_width - 1), NEW t \in 0..(tile_height - 1)
      PROVE  c[t * tile_width + s] = Shown(Value(update, Left + s, Above + t))
  <2> DEFINE k == t * tile_width + s
  <2>1. k \in 0..(tile_width * tile_height - 1)
    BY <1>4, RowByRow
  <2>2. IsCpixel(info, update, offset + 1, Left + s, Above + t)
    BY <1>4, <1>6 DEF IsSolid
  <2>3. ReadCpixel(offset + 1) = Shown(Value(update, Left + s, Above + t))
    BY <1>2, <1>4, <2>2, CpixelIsRead
  <2> HIDE DEF k
  <2>4. c[k] = ReadCpixel(offset + 1)
    BY <1>4, <2>1
  <2> QED
    BY <2>3, <2>4 DEF k
<1> HIDE DEF c
<1> QED
  BY <1>1, <1>3, <1>7, <1>8, WholeTileDone

LEMMA PowersOfTwo == \A e \in 0..7 : 2 ^ e \in Nat \ {0}
<1>1. /\ 2 ^ 0 = 1 /\ 2 ^ 1 = 2 /\ 2 ^ 2 = 4 /\ 2 ^ 3 = 8
      /\ 2 ^ 4 = 16 /\ 2 ^ 5 = 32 /\ 2 ^ 6 = 64 /\ 2 ^ 7 = 128
  OBVIOUS
<1> TAKE e \in 0..7
<1>2. e = 0 \/ e = 1 \/ e = 2 \/ e = 3 \/ e = 4 \/ e = 5 \/ e = 6 \/ e = 7
  OBVIOUS
<1>4. CASE e = 0
  BY <1>1, <1>4
<1>5. CASE e = 1
  BY <1>1, <1>5
<1>6. CASE e = 2
  BY <1>1, <1>6
<1>7. CASE e = 3
  BY <1>1, <1>7
<1>8. CASE e = 4
  BY <1>1, <1>8
<1>9. CASE e = 5
  BY <1>1, <1>9
<1>10. CASE e = 6
  BY <1>1, <1>10
<1>11. CASE e = 7
  BY <1>1, <1>11
<1> QED
  BY <1>2, <1>4, <1>5, <1>6, <1>7, <1>8, <1>9, <1>10, <1>11

\* The bits of an index are in one byte, and the byte is one of its row.
LEMMA IndexInRow ==
  ASSUME NEW w \in Nat \ {0}, NEW s \in 0..(w - 1), NEW bits \in {1, 2, 4}
  PROVE  /\ 8 - bits - ((s * bits) % 8) \in 0..7
         /\ (s * bits) \div 8 \in 0..(((w * bits + 7) \div 8) - 1)
         /\ (w * bits + 7) \div 8 \in Nat
<1>1. CASE bits = 1
  BY <1>1
<1>2. CASE bits = 2
  BY <1>2
<1>3. CASE bits = 4
  BY <1>3
<1> QED
  BY <1>1, <1>2, <1>3

LEMMA IndexIsNatural ==
  ASSUME NEW byte \in Nat, NEW e \in 0..7, NEW bits \in {1, 2, 4}
  PROVE  (byte \div 2 ^ e) % 2 ^ bits \in Nat
<1>1. 2 ^ 1 = 2 /\ 2 ^ 2 = 4 /\ 2 ^ 4 = 16
  OBVIOUS
<1>2. PICK d \in Nat \ {0} : d = 2 ^ e
  BY PowersOfTwo
<1>3. byte \div d \in Int
  OBVIOUS
<1>4. CASE bits = 1
  BY <1>1, <1>2, <1>3, <1>4
<1>5. CASE bits = 2
  BY <1>1, <1>2, <1>3, <1>5
<1>6. CASE bits = 4
  BY <1>1, <1>2, <1>3, <1>6
<1> QED
  BY <1>4, <1>5, <1>6

\* The decoder reads the indices of the tile.
IndicesAreRead(rows, bits) ==
  \A s \in 0..(TileWidth(update, Left) - 1), t \in 0..(TileHeight(update, Above) - 1) :
    /\ Index(update, Left, rows, bits, s, t) =
         (Byte(rows + t * IndexRow(update, Left, bits) + (s * bits) \div 8)
            \div 2 ^ (8 - bits - ((s * bits) % 8))) % 2 ^ bits
    /\ Index(update, Left, rows, bits, s, t) \in Nat

LEMMA IndexIsRead ==
  ASSUME VncInv, stage # "idle", NEW o, TileInv(o), NEW rows \in Nat, NEW bits \in {1, 2, 4},
         rows + TileHeight(update, Above) * IndexRow(update, Left, bits) <= Len(update.data)
  PROVE  IndicesAreRead(rows, bits)
<1> SUFFICES ASSUME NEW s \in 0..(TileWidth(update, Left) - 1),
                    NEW t \in 0..(TileHeight(update, Above) - 1)
             PROVE  /\ Index(update, Left, rows, bits, s, t) =
                         (Byte(rows + t * IndexRow(update, Left, bits) + (s * bits) \div 8)
                            \div 2 ^ (8 - bits - ((s * bits) % 8))) % 2 ^ bits
                    /\ Index(update, Left, rows, bits, s, t) \in Nat
  BY DEF IndicesAreRead
<1> DEFINE w == TileWidth(update, Left)
           h == TileHeight(update, Above)
           row == IndexRow(update, Left, bits)
           b == (s * bits) \div 8
           p == rows + t * row + b
           e == 8 - bits - ((s * bits) % 8)
<1>1. w \in Nat \ {0} /\ h \in Nat \ {0}
  BY TileIs, TileSizes
<1>2. e \in 0..7 /\ b \in 0..(row - 1) /\ row \in Nat
  BY <1>1, IndexInRow DEF IndexRow
<1>3. t \in 0..(h - 1) /\ rows + h * row <= Len(update.data) /\ Len(update.data) \in Nat
  BY UpdateIs
<1>4. update.data \in Seq(0..255)
  BY UpdateIs
<1>5. Index(update, Left, rows, bits, s, t) =
        (update.data[1 + rows + t * row + b] \div 2 ^ e) % 2 ^ bits
  BY DEF Index
<1> HIDE DEF w, h, row, b, e
<1>6. p \in Nat /\ p < Len(update.data) /\ 1 + rows + t * row + b = p + 1
  <2>1. t * row \in Nat /\ t * row <= (h - 1) * row /\ (h - 1) * row = h * row - row
    BY <1>1, <1>2, <1>3
  <2>2. PICK m \in Nat, n \in Nat : m = t * row /\ n = h * row
    BY <1>1, <1>2, <1>3
  <2>3. m <= n - row /\ rows + n <= Len(update.data) /\ b < row /\ b \in Nat
    BY <1>2, <1>3, <2>1, <2>2
  <2>4. /\ rows + m + b \in Nat /\ rows + m + b < Len(update.data)
        /\ 1 + rows + m + b = rows + m + b + 1
    BY <1>2, <1>3, <2>3
  <2> QED
    BY <2>2, <2>4
<1> HIDE DEF p
<1>7. Byte(p) = update.data[p + 1] /\ Byte(p) \in 0..255
  <2>1. p + 1 \in 1..Len(update.data)
    BY <1>3, <1>6
  <2>2. update.data[p + 1] \in 0..255
    BY <1>4, <2>1, ElementOfSeq
  <2> QED
    BY <1>6, <2>2 DEF Byte
<1>8. Index(update, Left, rows, bits, s, t) = (Byte(p) \div 2 ^ e) % 2 ^ bits
  <2>1. update.data[1 + rows + t * row + b] = Byte(p)
    BY <1>6, <1>7
  <2> QED
    BY <1>5, <2>1, Zenon
<1>9. (Byte(p) \div 2 ^ e) % 2 ^ bits \in Nat
  <2>1. \A n \in 0..255 : n \in Nat
    OBVIOUS
  <2>2. Byte(p) \in Nat
    BY <1>7, <2>1, Zenon
  <2>3. e \in 0..7
    BY <1>2, Zenon
  <2>4. PICK byte \in Nat : byte = Byte(p)
    BY <2>2, Zenon
  <2>5. PICK n \in 0..7 : n = e
    BY <2>3, Zenon
  <2>6. (byte \div 2 ^ n) % 2 ^ bits \in Nat
    BY IndexIsNatural
  <2> QED
    BY <2>4, <2>5, <2>6, Zenon
<1> QED
  BY <1>8, <1>9 DEF p, row, b, e

LEMMA PackedTileDone ==
  ASSUME CpixelsAsRead, VncInv, PackedTile
  PROVE  VncInv'
<1> DEFINE colours == Byte(offset)
           bits == IF colours > 4 THEN 4 ELSE IF colours > 2 THEN 2 ELSE 1
           rows == offset + 1 + colours * CpixelSize
           bit(k) == (k % tile_width) * bits
           byte(k) == Byte(rows + (k \div tile_width) * RowBytes(bits) + bit(k) \div 8)
           index(k) == (byte(k) \div 2 ^ (8 - bits - (bit(k) % 8))) % 2 ^ bits
           c == [k \in 0..(TilePixels - 1) |-> ReadCpixel(offset + 1 + index(k) * CpixelSize)]
<1>1. /\ stage = "tile" /\ colours \in (2..127) \cup {129} /\ NextTile
      /\ UNCHANGED <<info, colour_map, update>>
      /\ offset' = offset + 1 + (colours * CpixelSize + tile_height * RowBytes(bits))
  BY DEF PackedTile, AtTile, WholeTile
<1>2. TileInv(offset) /\ info \in Infos /\ stage # "idle"
  BY <1>1 DEF VncInv, ZrleInv
<1>3. framebuffer' = Painted(0, TilePixels, c)
  BY <1>1 DEF PackedTile, WholeTile, DrawTile, Painted, Picture
<1>4. /\ tile_width = TileWidth(update, Left) /\ tile_height = TileHeight(update, Above)
      /\ TilePixels = tile_width * tile_height
      /\ tile_width \in Nat \ {0} /\ tile_height \in Nat \ {0}
      /\ update.w \in Nat \ {0} /\ update.h \in Nat \ {0}
      /\ Left \in 0..(update.w - 1) /\ Above \in 0..(update.h - 1)
  BY <1>1, <1>2, TileIs, TileSizes DEF TilePixels
<1>5. update.data \in Seq(0..255) /\ offset \in Nat /\ Len(update.data) \in Nat
  BY <1>1, <1>2, TileIs, UpdateIs
<1>6. CpixelSize \in 1..3 /\ CpixelSize = CpixelLength(info)
  BY <1>2, LengthOfCpixel
<1>7. /\ IsPacked(info, update, Left, Above, offset) /\ colours = update.data[offset + 1]
  BY <1>1, <1>2, KindOfTile
<1>8. /\ bits \in {1, 2, 4} /\ bits = IndexBits(colours) /\ colours \in Nat
      /\ RowBytes(bits) = IndexRow(update, Left, bits)
  <2>1. colours \in Nat
    BY <1>1
  <2> QED
    BY <1>4, <2>1 DEF IndexBits, RowBytes, IndexRow
<1>9. rows \in Nat /\ rows = offset + 1 + colours * CpixelLength(info)
  <2>1. colours * CpixelSize \in Nat
    BY <1>6, <1>8
  <2> QED
    BY <1>5, <1>6, <2>1
<1>10. /\ TileEnds(update, Left, Above, rows + tile_height * IndexRow(update, Left, bits))
       /\ rows + tile_height * IndexRow(update, Left, bits) <= Len(update.data)
       /\ \A s \in 0..(tile_width - 1), t \in 0..(tile_height - 1) :
            IsCpixel(info, update,
                     offset + 1 + Index(update, Left, rows, bits, s, t) * CpixelSize,
                     Left + s, Above + t)
  BY <1>4, <1>6, <1>7, <1>8, <1>9 DEF IsPacked
<1>11. TileEnds(update, Left, Above, offset')
  <2>1. tile_height * IndexRow(update, Left, bits) \in Nat
    <3>1. \A w \in Nat \ {0} : (w * bits + 7) \div 8 \in Nat
      BY <1>8
    <3>2. IndexRow(update, Left, bits) \in Nat
      BY <1>4, <3>1 DEF IndexRow
    <3> QED
      BY <1>4, <3>2
  <2>2. colours * CpixelSize \in Nat
    BY <1>6, <1>8
  <2>3. offset' = rows + tile_height * IndexRow(update, Left, bits)
    BY <1>1, <1>5, <1>8, <2>1, <2>2
  <2> QED
    BY <1>10, <2>3
<1> HIDE DEF colours, bits, rows
<1>12. ASSUME NEW s \in 0..(tile_width - 1), NEW t \in 0..(tile_height - 1)
       PROVE  c[t * tile_width + s] = Shown(Value(update, Left + s, Above + t))
  <2> DEFINE k == t * tile_width + s
             n == Index(update, Left, rows, bits, s, t)
             o == offset + 1 + n * CpixelSize
  <2>1. k \in 0..(tile_width * tile_height - 1) /\ k % tile_width = s /\ k \div tile_width = t
    <3>1. k \in 0..(tile_width * tile_height - 1)
      BY <1>4, RowByRow, Zenon
    <3>2. PICK w \in Nat \ {0} : w = tile_width
      BY <1>4
    <3>3. t \in Nat /\ s \in 0..(w - 1)
      BY <1>4, <3>2
    <3>4. (t * w + s) % w = s
      BY <3>3
    <3>5. (t * w + s) \div w = t
      BY <3>3
    <3> QED
      BY <3>1, <3>2, <3>4, <3>5
  <2>2. /\ n = (Byte(rows + t * IndexRow(update, Left, bits) + (s * bits) \div 8)
                  \div 2 ^ (8 - bits - ((s * bits) % 8))) % 2 ^ bits
        /\ n \in Nat
    <3>1. s \in 0..(TileWidth(update, Left) - 1) /\ t \in 0..(TileHeight(update, Above) - 1)
      BY <1>4
    <3>2. rows + TileHeight(update, Above) * IndexRow(update, Left, bits) <= Len(update.data)
      BY <1>4, <1>10
    <3>3. rows \in Nat /\ bits \in {1, 2, 4}
      BY <1>8, <1>9
    <3>4. IndicesAreRead(rows, bits)
      BY <1>2, <3>2, <3>3, IndexIsRead
    <3> QED
      BY <3>1, <3>4 DEF IndicesAreRead
  <2>3. IsCpixel(info, update, o, Left + s, Above + t)
    BY <1>10
  <2> HIDE DEF k
  <2>4. index(k) = n
    BY <1>8, <2>1, <2>2
  <2> HIDE DEF n, index
  <2>5. o \in Nat
    <3>1. n * CpixelSize \in Nat
      BY <1>6, <2>2
    <3> QED
      BY <1>5, <3>1
  <2>6. ReadCpixel(o) = Shown(Value(update, Left + s, Above + t))
    BY <1>2, <1>5, <2>3, <2>5, CpixelIsRead
  <2>7. c[k] = ReadCpixel(o)
    BY <1>4, <2>1, <2>4
  <2> QED
    BY <2>6, <2>7 DEF k
<1> HIDE DEF c
<1> QED
  BY <1>1, <1>3, <1>11, <1>12, WholeTileDone

LEMMA LengthIsRead ==
  ASSUME update.data \in Seq(0..255), NEW o \in Nat, NEW n \in 0..Len(update.data), NEW length,
         IsLength(update, o, n, length)
  PROVE  Continued(o) = n /\ RunLength(o) = length /\ RunBytes(o) = n + 1
<1>1. /\ Len(update.data) \in Nat /\ n \in Nat /\ o + (n + 1) <= Len(update.data)
      /\ update.data[o + n + 1] # RunMax
      /\ length = 1 + n * RunMax + update.data[o + n + 1]
      /\ \A m \in 0..(n - 1) : update.data[o + m + 1] = RunMax
  BY DEF IsLength
<1>2. \A m \in 0..n : Byte(o + m) = update.data[o + m + 1]
  <2>1. PICK bytes \in Nat : bytes = n + 1
    BY <1>1
  <2>2. o + bytes <= Len(update.data)
    BY <1>1, <2>1
  <2>3. \A m \in 0..(bytes - 1) : Byte(o + m) = update.data[o + m + 1]
    BY <2>2, BytesAreRead
  <2>4. bytes - 1 = n
    BY <1>1, <2>1
  <2> QED
    BY <2>3, <2>4
<1>3. Byte(o + n) = update.data[o + n + 1]
  <2>1. n \in 0..n
    BY <1>1
  <2> QED
    BY <1>2, <2>1
<1>4. \A m \in 0..(n - 1) : Byte(o + m) = RunMax
  <2>1. \A m \in 0..(n - 1) : m \in 0..n /\ update.data[o + m + 1] = RunMax
    BY <1>1
  <2> QED
    BY <1>2, <2>1
<1>5. Continued(o) = n
  <2> DEFINE Ends(k) == Byte(o + k) # RunMax /\ \A m \in 0..(k - 1) : Byte(o + m) = RunMax
  <2>1. Ends(n)
    BY <1>1, <1>3, <1>4
  <2>2. ASSUME NEW k \in 0..Len(update.data), Ends(k)
        PROVE  k = n
    <3>1. ~(k < n)
      <4>1. k < n => k \in 0..(n - 1)
        OBVIOUS
      <4> QED
        BY <1>4, <2>2, <4>1
    <3>2. ~(n < k)
      <4>1. n < k => n \in 0..(k - 1)
        OBVIOUS
      <4> QED
        BY <2>1, <2>2, <4>1
    <3> QED
      BY <1>1, <3>1, <3>2
  <2>3. Continued(o) = CHOOSE k \in 0..Len(update.data) : Ends(k)
    BY DEF Continued
  <2> HIDE DEF Ends
  <2> QED
    BY <2>1, <2>2, <2>3
<1> QED
  BY <1>1, <1>3, <1>5 DEF RunLength, RunBytes

LEMMA RunsAre ==
  ASSUME CpixelsAsRead, VncInv, stage = "runs"
  PROVE  /\ TileInv(tile_start) /\ RunsInv /\ info \in Infos /\ stage # "idle"
         /\ tile_width = TileWidth(update, Left) /\ tile_height = TileHeight(update, Above)
         /\ TilePixels = TileArea(update, Left, Above) /\ TilePixels \in Nat
         /\ update.data \in Seq(0..255) /\ tile_start \in Nat
         /\ pixels_drawn \in 0..(TilePixels - 1)
         /\ pixels_drawn \in DOMAIN update.runs[Left][Above]
         /\ offset = update.runs[Left][Above][pixels_drawn]
<1>1. TileInv(tile_start) /\ RunsInv /\ info \in Infos /\ stage # "idle"
  BY DEF VncInv, ZrleInv
<1>2. /\ tile_width = TileWidth(update, Left) /\ tile_height = TileHeight(update, Above)
      /\ TilePixels = TileArea(update, Left, Above) /\ TilePixels \in Nat
      /\ tile_start \in Nat
  BY <1>1, TileIs
<1>3. update.data \in Seq(0..255)
  BY <1>1, UpdateIs
<1>4. pixels_drawn \in 0..(TilePixels - 1) /\ RunBegins(update, Left, Above, pixels_drawn, offset)
  BY <1>1, <1>2 DEF RunsInv
<1>5. pixels_drawn < TileArea(update, Left, Above)
  BY <1>2, <1>4
<1> QED
  BY <1>1, <1>2, <1>3, <1>4, <1>5 DEF RunBegins

\* The pixels first..last-1 of the tile have this colour.
RunHas(first, last, colour) ==
  \A s \in 0..(tile_width - 1), t \in 0..(tile_height - 1) :
    t * tile_width + s \in first..(last - 1) => colour = Shown(Value(update, Left + s, Above + t))

\* A run is drawn: the next one begins, or the tile is finished.
LEMMA RunDone ==
  ASSUME CpixelsAsRead, VncInv, stage = "runs", NEW length \in Nat \ {0}, NEW last,
         last = pixels_drawn + length, last <= TilePixels, NEW bytes, NEW colour,
         DrawRun(length, bytes, colour),
         RunHas(pixels_drawn, last, colour),
         RunBegins(update, Left, Above, last, offset + bytes)
  PROVE  VncInv'
<1> DEFINE c == [k \in pixels_drawn..(last - 1) |-> colour]
<1>1. /\ UNCHANGED <<info, colour_map, update>> /\ offset' = offset + bytes
      /\ IF last >= TilePixels
         THEN NextTile
         ELSE pixels_drawn' = last /\ UNCHANGED <<stage, x, y, tile_start>>
  BY DEF DrawRun
<1>2. /\ TileInv(tile_start) /\ RunsInv /\ info \in Infos /\ stage # "idle"
      /\ tile_width = TileWidth(update, Left) /\ tile_height = TileHeight(update, Above)
      /\ TilePixels = TileArea(update, Left, Above) /\ TilePixels \in Nat
      /\ pixels_drawn \in 0..(TilePixels - 1)
  BY RunsAre
<1>3. framebuffer' = Painted(pixels_drawn, last, c)
  BY DEF DrawRun, DrawTile, Painted, Picture
<1>4. pixels_drawn \in Nat /\ last \in Nat /\ last <= TilePixels
  BY <1>2
<1>5. \A s \in 0..(tile_width - 1), t \in 0..(tile_height - 1) :
        t * tile_width + s \in pixels_drawn..(last - 1) =>
          c[t * tile_width + s] = Shown(Value(update, Left + s, Above + t))
  <2>1. \A k \in pixels_drawn..(last - 1) : c[k] = colour
    OBVIOUS
  <2> HIDE DEF c
  <2> TAKE s \in 0..(tile_width - 1), t \in 0..(tile_height - 1)
  <2> HAVE t * tile_width + s \in pixels_drawn..(last - 1)
  <2>2. c[t * tile_width + s] = colour
    BY <2>1, Zenon
  <2>3. colour = Shown(Value(update, Left + s, Above + t))
    BY Zenon DEF RunHas
  <2> QED
    BY <2>2, <2>3, Zenon
<1>6. RunBegins(update, Left, Above, last, offset')
  BY <1>1
<1> HIDE DEF c
<1>7. TilePainted(pixels_drawn, last)
  BY <1>2, <1>3, <1>4, <1>5, Painting
<1>8. \A s \in 0..(tile_width - 1), t \in 0..(tile_height - 1) :
        t * tile_width + s < pixels_drawn => Shows(Left + s, Above + t)
  BY <1>2 DEF RunsInv
<1>9. CASE last >= TilePixels
  <2>1. TileEnds(update, Left, Above, offset')
    <3>1. ~(last < TileArea(update, Left, Above))
      BY <1>2, <1>4, <1>9
    <3> QED
      BY <1>6, <3>1 DEF RunBegins
  <2>2. NextTile
    BY <1>1, <1>9
  <2> QED
    BY <1>1, <1>2, <1>4, <1>7, <1>8, <1>9, <2>1, <2>2, TileDone
<1>11. /\ update.x \in Nat /\ update.y \in Nat /\ Left \in Nat /\ Above \in Nat
       /\ update.w \in Nat /\ update.h \in Nat
       /\ x = update.x + Left /\ y = update.y + Above
       /\ tile_width \in Nat /\ Left + tile_width <= update.w
       /\ tile_height \in Nat /\ Above + tile_height <= update.h
  <2>1. /\ update.x \in Nat /\ update.y \in Nat
        /\ update.w \in Nat \ {0} /\ update.h \in Nat \ {0}
        /\ Left \in 0..(update.w - 1) /\ Above \in 0..(update.h - 1)
        /\ x = update.x + Left /\ y = update.y + Above
    BY <1>2, TileIs
  <2>2. /\ tile_width \in Nat /\ Left + tile_width <= update.w
        /\ tile_height \in Nat /\ Above + tile_height <= update.h
    BY <1>2, <2>1, TileSizes
  <2> QED
    BY <2>1, <2>2
<1>10. CASE ~(last >= TilePixels)
  <2>1. pixels_drawn' = last /\ UNCHANGED <<stage, x, y, tile_start>>
    BY <1>1, <1>10
  <2>2. Left' = Left /\ Above' = Above
    BY <1>1, <2>1 DEF Left, Above
  <2>3. last \in 0..(TilePixels - 1)
    BY <1>2, <1>4, <1>10
  <2>4. ASSUME NEW s \in 0..(tile_width - 1), NEW t \in 0..(tile_height - 1),
               t * tile_width + s < last
        PROVE  Shows(Left + s, Above + t)'
    <3> DEFINE k == t * tile_width + s
    <3>0. /\ update.x \in Nat /\ update.y \in Nat /\ Left \in Nat /\ Above \in Nat
          /\ update.w \in Nat /\ update.h \in Nat
          /\ x = update.x + Left /\ y = update.y + Above
          /\ tile_width \in Nat /\ Left + tile_width <= update.w
          /\ tile_height \in Nat /\ Above + tile_height <= update.h
      BY <1>11
    <3>1. k \in Nat
      BY <3>0
    <3>7. PICK p \in Nat, q \in Nat : p = Left + s /\ q = Above + t
      BY <3>0
    <3>8. SUFFICES Shows(p, q)'
      BY <2>2, <3>7
    <3>2. p - Left = s /\ q - Above = t
      BY <3>0, <3>7
    <3>3. /\ p \in 0..(update.w - 1) /\ q \in 0..(update.h - 1)
          /\ update.x + p = x + s /\ update.y + q = y + t
      BY <3>0, <3>7
    <3>4. Shows(p, q)' <=>
            Pixel(framebuffer', update.x + p, update.y + q) = Shown(Value(update, p, q))
      BY <1>1, ShowsAfter
    <3>5. CASE k < pixels_drawn
      <4>1. Shows(p, q)
        BY <1>8, <3>5, <3>7
      <4>2. ~((q - Above) * tile_width + (p - Left) \in pixels_drawn..(last - 1))
        BY <1>4, <3>1, <3>2, <3>5
      <4>3. Pixel(framebuffer', update.x + p, update.y + q)
              = Pixel(framebuffer, update.x + p, update.y + q)
        BY <1>7, <3>3, <4>2 DEF TilePainted
      <4> QED
        BY <3>4, <4>1, <4>3 DEF Shows
    <3>6. CASE ~(k < pixels_drawn)
      <4>1. k \in pixels_drawn..(last - 1)
        BY <1>4, <2>4, <3>1, <3>6
      <4>2. Pixel(framebuffer', x + s, y + t) = Shown(Value(update, p, q))
        BY <1>7, <3>7, <4>1 DEF TilePainted
      <4> QED
        BY <3>3, <3>4, <4>2
    <3> QED
      BY <3>5, <3>6
  <2>5. TileInv(tile_start)'
    <3>1. \A s \in 0..(update.w - 1), t \in 0..(update.h - 1) :
            t < Above \/ (t < Above + TileSize /\ s < Left) => Shows(s, t)'
      <4> TAKE s \in 0..(update.w - 1), t \in 0..(update.h - 1)
      <4> HAVE t < Above \/ (t < Above + TileSize /\ s < Left)
      <4>1. Shows(s, t)
        BY <1>2 DEF TileInv
      <4>2. Left \in Nat /\ Above \in Nat
        BY <1>2, TileIs
      <4>3. ~(s \in Left..(Left + tile_width - 1) /\ t \in Above..(Above + tile_height - 1))
        BY <4>2
      <4>4. Pixel(framebuffer', update.x + s, update.y + t)
              = Pixel(framebuffer, update.x + s, update.y + t)
        BY <1>7, <4>3 DEF TilePainted
      <4> QED
        BY <1>1, <4>1, <4>4, ShowsAfter DEF Shows
    <3> QED
      BY <1>1, <1>2, <1>7, <2>1, <2>2, <3>1 DEF TileInv, TilePainted
  <2>6. RunsInv'
    <3>1. /\ tile_start' = tile_start /\ pixels_drawn' = last
          /\ info' = info /\ update' = update /\ offset' = offset'
      BY <1>1, <2>1
    <3>2. last \in 0..(TileArea(update, Left, Above) - 1)
      BY <1>2, <2>3
    <3>3. \/ IsPlainRuns(info, update, Left, Above, tile_start)
          \/ IsPaletteRuns(info, update, Left, Above, tile_start)
      BY <1>2 DEF RunsInv
    <3> QED
      BY <1>2, <1>6, <2>2, <2>4, <3>1, <3>2, <3>3 DEF RunsInv
  <2>7. ScreenInv' /\ info' \in Infos /\ update' \in Updates(info') /\ stage' = "runs"
    BY <1>1, <1>2, <1>7, <2>1 DEF VncInv, ScreenInv, TilePainted
  <2>8. update'.encoding = "zrle"
    BY <2>5 DEF TileInv
  <2> QED
    BY <2>5, <2>6, <2>7, <2>8 DEF VncInv, ZrleInv
<1> QED
  BY <1>9, <1>10

LEMMA StartRunsDone ==
  ASSUME CpixelsAsRead, VncInv, StartRuns
  PROVE  VncInv'
<1>1. /\ stage = "tile" /\ Byte(offset) \in (128..255) \ {129}
      /\ tile_start' = offset /\ pixels_drawn' = 0 /\ stage' = "runs"
      /\ offset' = offset + 1 + PaletteSize(Byte(offset)) * CpixelSize
      /\ UNCHANGED <<info, framebuffer, colour_map, update, x, y>>
  BY DEF StartRuns, AtTile
<1>2. TileInv(offset) /\ info \in Infos /\ stage # "idle"
  BY <1>1 DEF VncInv, ZrleInv
<1>3. /\ offset \in Nat /\ TilePixels \in Nat \ {0} /\ TilePixels = TileArea(update, Left, Above)
      /\ tile_width \in Nat /\ tile_width = TileWidth(update, Left)
      /\ tile_height \in Nat /\ tile_height = TileHeight(update, Above)
  BY <1>2, TileIs, TileSizes
<1>4. CpixelSize \in Nat /\ CpixelSize = CpixelLength(info)
  <2>1. CpixelSize \in 1..3 /\ CpixelSize = CpixelLength(info)
    BY <1>2, LengthOfCpixel
  <2> QED
    BY <2>1
<1>5. Left' = Left /\ Above' = Above
  BY <1>1 DEF Left, Above
<1>6. \A s, t : Shows(s, t)' <=> Shows(s, t)
  BY <1>1, ShownAfter DEF Shows
<1>7. /\ RunBegins(update, Left, Above, 0, offset')
      /\ \/ IsPlainRuns(info, update, Left, Above, offset)
         \/ IsPaletteRuns(info, update, Left, Above, offset)
  <2>1. CASE Byte(offset) = 128
    <3>1. IsPlainRuns(info, update, Left, Above, offset)
      BY <1>2, <2>1, KindOfTile
    <3>2. offset' = offset + 1
      <4>1. PaletteSize(Byte(offset)) = 0
        BY <2>1 DEF PaletteSize
      <4>2. 0 * CpixelSize = 0
        BY <1>4
      <4> QED
        BY <1>1, <1>3, <4>1, <4>2
    <3> QED
      BY <3>1, <3>2 DEF IsPlainRuns
  <2>2. CASE Byte(offset) \in 130..255
    <3>1. IsPaletteRuns(info, update, Left, Above, offset) /\ Byte(offset) = update.data[offset + 1]
      BY <1>2, <2>2, KindOfTile
    <3>2. PaletteSize(Byte(offset)) = Byte(offset) - 128
      BY <2>2 DEF PaletteSize
    <3> QED
      BY <1>1, <1>4, <3>1, <3>2 DEF IsPaletteRuns
  <2> QED
    BY <1>1, <2>1, <2>2
<1>8. TileInv(tile_start)'
  BY <1>1, <1>2, <1>5, <1>6 DEF TileInv
<1>9. RunsInv'
  <2>1. 0 \in 0..(TileArea(update, Left, Above) - 1)
    BY <1>3
  <2>2. ASSUME NEW s \in 0..(tile_width - 1), NEW t \in 0..(tile_height - 1)
        PROVE  ~(t * tile_width + s < 0)
    <3>1. t * tile_width \in Nat /\ s \in Nat
      BY <1>3
    <3> QED
      BY <3>1
  <2>3. \A s \in 0..(TileWidth(update, Left) - 1), t \in 0..(TileHeight(update, Above) - 1) :
          ~(t * TileWidth(update, Left) + s < 0)
    BY <1>3, <2>2
  <2>4. pixels_drawn' = 0 /\ tile_start' = offset /\ info' = info /\ update' = update
    BY <1>1
  <2> QED
    BY <1>5, <1>7, <2>1, <2>3, <2>4 DEF RunsInv
<1> QED
  BY <1>1, <1>2, <1>8, <1>9 DEF VncInv, ScreenInv, ZrleInv

\* The colour of a run is the value of all of its pixels.
LEMMA ColourOfRun ==
  ASSUME CpixelsAsRead, VncInv, stage = "runs", NEW o \in Nat,
         NEW first \in Nat, NEW length \in Nat, NEW last \in Nat,
         last = first + length, IsRun(info, update, Left, Above, first, length, o)
  PROVE  RunHas(first, last, ReadCpixel(o))
<1>1. /\ info \in Infos /\ update.data \in Seq(0..255)
      /\ tile_width = TileWidth(update, Left) /\ tile_height = TileHeight(update, Above)
  BY RunsAre
<1>2. ASSUME NEW s \in 0..(tile_width - 1), NEW t \in 0..(tile_height - 1),
             t * tile_width + s \in first..(last - 1)
      PROVE  ReadCpixel(o) = Shown(Value(update, Left + s, Above + t))
  <2>1. IsCpixel(info, update, o, Left + s, Above + t)
    <3>1. s \in 0..(TileWidth(update, Left) - 1) /\ t \in 0..(TileHeight(update, Above) - 1)
      BY <1>1
    <3>2. t * TileWidth(update, Left) + s \in first..(first + length - 1)
      <4>1. tile_width = TileWidth(update, Left)
        BY <1>1
      <4>2. t * TileWidth(update, Left) + s = t * tile_width + s
        BY <4>1
      <4>3. t * tile_width + s \in first..(first + length - 1)
        BY <1>2
      <4> QED
        BY <4>2, <4>3, Zenon
    <3> QED
      BY <3>1, <3>2, Zenon DEF IsRun
  <2> QED
    BY <1>1, <2>1, CpixelIsRead
<1> QED
  BY <1>2, Zenon DEF RunHas

LEMMA PlainRunDone ==
  ASSUME CpixelsAsRead, VncInv, PlainRun
  PROVE  VncInv'
<1> DEFINE end == offset + CpixelSize
<1>1. /\ stage = "runs" /\ Byte(tile_start) = 128
      /\ DrawRun(RunLength(end), CpixelSize + RunBytes(end), ReadCpixel(offset))
  BY DEF PlainRun
<1>2. /\ TileInv(tile_start) /\ info \in Infos /\ stage # "idle"
      /\ tile_width = TileWidth(update, Left) /\ tile_height = TileHeight(update, Above)
      /\ TilePixels = TileArea(update, Left, Above) /\ TilePixels \in Nat
      /\ update.data \in Seq(0..255)
      /\ pixels_drawn \in 0..(TilePixels - 1)
      /\ pixels_drawn \in DOMAIN update.runs[Left][Above]
      /\ offset = update.runs[Left][Above][pixels_drawn]
  BY <1>1, RunsAre
<1>3. IsPlainRuns(info, update, Left, Above, tile_start)
  BY <1>1, <1>2, KindOfTile
<1>4. offset \in Nat /\ IsPlainRun(info, update, Left, Above, pixels_drawn, offset)
  BY <1>2, <1>3 DEF IsPlainRuns
<1>5. CpixelSize \in Nat /\ CpixelSize = CpixelLength(info)
  <2>1. CpixelSize \in 1..3 /\ CpixelSize = CpixelLength(info)
    BY <1>2, LengthOfCpixel
  <2> QED
    BY <2>1
<1>6. end \in Nat
  BY <1>4, <1>5
<1>7. PICK continued \in 0..Len(update.data), length \in 1..(TilePixels - pixels_drawn) :
        /\ IsLength(update, end, continued, length)
        /\ IsRun(info, update, Left, Above, pixels_drawn, length, offset)
        /\ RunBegins(update, Left, Above, pixels_drawn + length, end + continued + 1)
  BY <1>2, <1>4, <1>5 DEF IsPlainRun
<1>8. RunLength(end) = length /\ RunBytes(end) = continued + 1
  BY <1>2, <1>6, <1>7, LengthIsRead
<1>9. /\ length \in Nat \ {0} /\ pixels_drawn + length <= TilePixels
      /\ pixels_drawn + length \in Nat
  BY <1>2
<1>10. offset + (CpixelSize + (continued + 1)) = end + continued + 1
  <2>1. continued \in Nat
    <3>1. Len(update.data) \in Nat
      BY <1>2
    <3> QED
      BY <3>1
  <2> QED
    BY <1>4, <1>5, <2>1
<1> HIDE DEF end
<1>11. PICK last \in Nat : last = pixels_drawn + length
  BY <1>9
<1>12. PICK colour : colour = ReadCpixel(offset)
  OBVIOUS
<1>13. PICK bytes : bytes = CpixelSize + (continued + 1)
  OBVIOUS
<1>14. DrawRun(length, bytes, colour)
  BY <1>1, <1>8, <1>12, <1>13
<1>15. RunHas(pixels_drawn, last, colour)
  <2>1. pixels_drawn \in Nat /\ length \in Nat
    BY <1>2, <1>9
  <2>2. RunHas(pixels_drawn, last, ReadCpixel(offset))
    BY <1>1, <1>4, <1>7, <1>11, <2>1, ColourOfRun
  <2> QED
    BY <1>12, <2>2
<1>16. RunBegins(update, Left, Above, last, offset + bytes)
  BY <1>7, <1>10, <1>11, <1>13
<1> QED
  BY <1>1, <1>9, <1>11, <1>14, <1>15, <1>16, RunDone

\* The colour is one of the palette of the tile.
LEMMA PaletteRunIs ==
  ASSUME CpixelsAsRead, VncInv, stage = "runs", Byte(tile_start) # 128
  PROVE  /\ IsPaletteRun(info, update, Left, Above, tile_start + 1, pixels_drawn, offset)
         /\ offset \in 0..(Len(update.data) - 1) /\ Byte(offset) = update.data[offset + 1]
         /\ tile_start + 1 + (Byte(offset) % 128) * CpixelLength(info) \in Nat
         /\ CpixelSize = CpixelLength(info)
<1>1. /\ TileInv(tile_start) /\ RunsInv /\ info \in Infos /\ stage # "idle"
      /\ update.data \in Seq(0..255) /\ tile_start \in Nat
      /\ pixels_drawn \in DOMAIN update.runs[Left][Above]
      /\ offset = update.runs[Left][Above][pixels_drawn]
  BY RunsAre
<1>2. Byte(tile_start) = update.data[tile_start + 1]
  BY <1>1, KindOfTile
<1>3. IsPaletteRuns(info, update, Left, Above, tile_start)
  <2>1. ~IsPlainRuns(info, update, Left, Above, tile_start)
    BY <1>2 DEF IsPlainRuns
  <2> QED
    BY <1>1, <2>1 DEF RunsInv
<1>4. /\ IsPaletteRun(info, update, Left, Above, tile_start + 1, pixels_drawn, offset)
      /\ offset \in 0..(Len(update.data) - 1)
  BY <1>1, <1>3 DEF IsPaletteRuns
<1>5. Byte(offset) = update.data[offset + 1] /\ Byte(offset) \in 0..255
  <2>1. Len(update.data) \in Nat
    BY <1>1
  <2>4. offset \in 0..(Len(update.data) - 1)
    BY <1>4, Zenon
  <2>2. offset < Len(update.data) /\ offset + 1 \in 1..Len(update.data)
    BY <2>1, <2>4
  <2>3. update.data[offset + 1] \in 0..255
    BY <1>1, <2>2, ElementOfSeq, Zenon
  <2> QED
    BY <2>2, <2>3 DEF Byte
<1>6. CpixelSize = CpixelLength(info) /\ CpixelLength(info) \in 1..3
  BY <1>1, LengthOfCpixel
<1>7. tile_start + 1 + (Byte(offset) % 128) * CpixelLength(info) \in Nat
  <2>1. Byte(offset) % 128 \in Nat /\ CpixelLength(info) \in Nat
    BY <1>5, <1>6
  <2>2. (Byte(offset) % 128) * CpixelLength(info) \in Nat
    BY <2>1
  <2> QED
    BY <1>1, <2>2
<1> QED
  BY <1>4, <1>5, <1>6, <1>7

LEMMA PalettePixelDone ==
  ASSUME CpixelsAsRead, VncInv, PalettePixel
  PROVE  VncInv'
<1> DEFINE o == tile_start + 1 + (Byte(offset) % 128) * CpixelLength(info)
<1>1. /\ stage = "runs" /\ Byte(tile_start) # 128 /\ Byte(offset) < 128
      /\ DrawRun(1, 1, PaletteColour)
  BY DEF PalettePixel
<1>2. TilePixels \in Nat /\ pixels_drawn \in 0..(TilePixels - 1)
  BY <1>1, RunsAre
<1>3. /\ IsPaletteRun(info, update, Left, Above, tile_start + 1, pixels_drawn, offset)
      /\ Byte(offset) = update.data[offset + 1]
      /\ o \in Nat /\ CpixelSize = CpixelLength(info)
  BY <1>1, PaletteRunIs
<1>4. /\ IsRun(info, update, Left, Above, pixels_drawn, 1, o)
      /\ RunBegins(update, Left, Above, pixels_drawn + 1, offset + 1)
  BY <1>1, <1>3 DEF IsPaletteRun
<1>5. PaletteColour = ReadCpixel(o)
  BY <1>3 DEF PaletteColour
<1> HIDE DEF o
<1>6. PICK last \in Nat : last = pixels_drawn + 1
  BY <1>2
<1>7. last <= TilePixels
  BY <1>2, <1>6
<1>8. PICK colour : colour = PaletteColour
  OBVIOUS
<1>9. DrawRun(1, 1, colour)
  BY <1>1, <1>8
<1>10. RunHas(pixels_drawn, last, colour)
  <2>1. pixels_drawn \in Nat
    BY <1>2
  <2>2. RunHas(pixels_drawn, last, ReadCpixel(o))
    BY <1>1, <1>3, <1>4, <1>6, <2>1, ColourOfRun
  <2> QED
    BY <1>5, <1>8, <2>2
<1>11. RunBegins(update, Left, Above, last, offset + 1)
  BY <1>4, <1>6
<1> QED
  BY <1>1, <1>6, <1>7, <1>9, <1>10, <1>11, RunDone

LEMMA PaletteRunDone ==
  ASSUME CpixelsAsRead, VncInv, PaletteRun
  PROVE  VncInv'
<1> DEFINE o == tile_start + 1 + (Byte(offset) % 128) * CpixelLength(info)
<1>1. /\ stage = "runs" /\ Byte(tile_start) # 128 /\ ~(Byte(offset) < 128)
      /\ DrawRun(RunLength(offset + 1), 1 + RunBytes(offset + 1), PaletteColour)
  <2>1. /\ stage = "runs" /\ Byte(tile_start) # 128 /\ Byte(offset) >= 128
        /\ DrawRun(RunLength(offset + 1), 1 + RunBytes(offset + 1), PaletteColour)
    BY DEF PaletteRun
  <2>2. Byte(offset) \in 0..255
    <3>1. /\ offset \in 0..(Len(update.data) - 1) /\ Byte(offset) = update.data[offset + 1]
          /\ update.data \in Seq(0..255)
      BY <2>1, PaletteRunIs, RunsAre
    <3>2. Len(update.data) \in Nat
      BY <3>1
    <3>3. offset + 1 \in 1..Len(update.data)
      BY <3>1, <3>2
    <3>4. update.data[offset + 1] \in 0..255
      BY <3>1, <3>3, ElementOfSeq
    <3> QED
      BY <3>1, <3>4
  <2>3. ~(Byte(offset) < 128)
    BY <2>1, <2>2
  <2> QED
    BY <2>1, <2>3
<1>2. /\ TilePixels \in Nat /\ pixels_drawn \in 0..(TilePixels - 1)
      /\ TilePixels = TileArea(update, Left, Above) /\ update.data \in Seq(0..255)
  BY <1>1, RunsAre
<1>3. /\ IsPaletteRun(info, update, Left, Above, tile_start + 1, pixels_drawn, offset)
      /\ offset \in 0..(Len(update.data) - 1) /\ Byte(offset) = update.data[offset + 1]
      /\ o \in Nat /\ CpixelSize = CpixelLength(info)
  BY <1>1, PaletteRunIs
<1>4. PICK continued \in 0..Len(update.data), length \in 1..(TilePixels - pixels_drawn) :
        /\ IsLength(update, offset + 1, continued, length)
        /\ IsRun(info, update, Left, Above, pixels_drawn, length, o)
        /\ RunBegins(update, Left, Above, pixels_drawn + length, offset + continued + 2)
  BY <1>1, <1>2, <1>3 DEF IsPaletteRun
<1>5. PaletteColour = ReadCpixel(o)
  BY <1>3 DEF PaletteColour
<1> HIDE DEF o
<1>6. RunLength(offset + 1) = length /\ RunBytes(offset + 1) = continued + 1
  <2>1. PICK end \in Nat : end = offset + 1
    BY <1>3
  <2>2. IsLength(update, end, continued, length)
    BY <1>4, <2>1
  <2> QED
    BY <1>2, <2>1, <2>2, LengthIsRead
<1>7. /\ length \in Nat \ {0} /\ pixels_drawn + length <= TilePixels
      /\ pixels_drawn + length \in Nat
  BY <1>2
<1>8. PICK last \in Nat : last = pixels_drawn + length
  BY <1>7
<1>9. PICK colour : colour = PaletteColour
  OBVIOUS
<1>10. PICK bytes : bytes = 1 + (continued + 1)
  OBVIOUS
<1>11. DrawRun(length, bytes, colour)
  BY <1>1, <1>6, <1>9, <1>10
<1>12. RunHas(pixels_drawn, last, colour)
  <2>1. pixels_drawn \in Nat /\ length \in Nat
    BY <1>2, <1>7
  <2>2. RunHas(pixels_drawn, last, ReadCpixel(o))
    BY <1>1, <1>3, <1>4, <1>8, <2>1, ColourOfRun
  <2> QED
    BY <1>5, <1>9, <2>2
<1>13. RunBegins(update, Left, Above, last, offset + bytes)
  <2>1. continued \in Nat /\ offset \in Nat
    <3>1. Len(update.data) \in Nat
      BY <1>2
    <3> QED
      BY <1>3, <3>1
  <2>2. offset + bytes = offset + continued + 2
    BY <1>10, <2>1
  <2> QED
    BY <1>4, <1>8, <2>2
<1> QED
  BY <1>1, <1>7, <1>8, <1>11, <1>12, <1>13, RunDone

\* The picture with the colours c for the pixels of the rectangle
Covered(c) ==
  Picture(Cols(framebuffer), Rows(framebuffer), LAMBDA a, b :
    IF Has(UpdateRect, a, b) THEN c[(b - update.y) * update.w + (a - update.x)]
    ELSE Pixel(framebuffer, a, b))

\* A rectangle is drawn at once.
LEMMA RectangleDone ==
  ASSUME VncInv, stage # "idle", update.encoding \in {"raw", "fill"}, NEW c,
         framebuffer' = Covered(c), stage' = "done", UNCHANGED <<info, colour_map, update>>,
         \A s \in 0..(update.w - 1), t \in 0..(update.h - 1) :
           c[t * update.w + s] = Meaning(Value(update, s, t))
  PROVE  VncInv'
<1> DEFINE w == Cols(framebuffer)
           h == Rows(framebuffer)
           Nth(a, b) == (b - update.y) * update.w + (a - update.x)
           Inside(a, b) == Has(UpdateRect, a, b)
<1>1. IsUpdate(info, update) /\ info \in Infos /\ update \in Updates(info)
  BY UpdateIs DEF VncInv
<1>2. /\ update.x \in Nat /\ update.y \in Nat
      /\ update.w \in Nat \ {0} /\ update.h \in Nat \ {0}
      /\ update.x + update.w <= Width /\ update.y + update.h <= Height
  BY <1>1 DEF IsUpdate
<1>3. /\ w \in Nat \ {0} /\ h \in Nat \ {0} /\ w >= Width /\ h >= Height
      /\ Width \in Nat /\ Height \in Nat
  BY SizesAssumption DEF VncInv, ScreenInv
<1>4. framebuffer' = [row \in 1..h |-> [col \in 1..w |->
        IF Inside(col - 1, row - 1) THEN c[Nth(col - 1, row - 1)]
        ELSE Pixel(framebuffer, col - 1, row - 1)]]
  BY DEF Picture, Covered
<1>5. \A a, b : Inside(a, b) <=> /\ a \in update.x..(update.x + update.w - 1)
                                /\ b \in update.y..(update.y + update.h - 1)
  BY DEF Has, UpdateRect, Rect
<1> HIDE DEF w, h, Inside, Nth
<1>6. Rows(framebuffer') = h /\ Cols(framebuffer') = w
  <2>1. Len(framebuffer') = h
    BY <1>3, <1>4
  <2>2. 1 \in 1..h /\ framebuffer' # <<>>
    BY <1>3, <2>1
  <2>3. Len(framebuffer'[1]) = w
    BY <1>3, <1>4, <2>2
  <2> QED
    BY <2>1, <2>2, <2>3 DEF Rows, Cols
<1>7. ASSUME NEW s \in 0..(update.w - 1), NEW t \in 0..(update.h - 1)
      PROVE  Pixel(framebuffer', update.x + s, update.y + t) = Meaning(Value(update, s, t))
  <2> DEFINE a == update.x + s
             b == update.y + t
  <2>1. /\ a + 1 \in 1..w /\ b + 1 \in 1..h /\ a + 1 - 1 = a /\ b + 1 - 1 = b
        /\ a \in update.x..(update.x + update.w - 1) /\ b \in update.y..(update.y + update.h - 1)
    BY <1>2, <1>3
  <2>2. Inside(a, b)
    BY <1>5, <2>1
  <2>3. b - update.y = t /\ a - update.x = s
    BY <1>2
  <2>4. Nth(a, b) = t * update.w + s
    BY <2>3 DEF Nth
  <2> HIDE DEF a, b
  <2>5. framebuffer'[b + 1][a + 1] = c[Nth(a, b)]
    BY <1>4, <2>1, <2>2
  <2>6. Pixel(framebuffer', a, b) = c[t * update.w + s]
    BY <2>4, <2>5 DEF Pixel
  <2> QED
    BY <2>6 DEF a, b
<1>8. \A v : Meaning(v)' = Meaning(v)
  BY DEF Meaning, Colour
<1>9. RectangleShown'
  BY <1>7, <1>8 DEF RectangleShown, Value
<1>10. ScreenInv' /\ info' \in Infos /\ update' \in Updates(info')
  BY <1>1, <1>3, <1>6 DEF ScreenInv
<1> QED
  BY <1>9, <1>10 DEF VncInv, ZrleInv

LEMMA RawDone ==
  ASSUME VncInv, Raw
  PROVE  VncInv'
<1> DEFINE c == [k \in Int |-> ReadPixel(k * PixelSize)]
<1>1. /\ stage = "received" /\ update.encoding = "raw" /\ stage' = "done"
      /\ UNCHANGED <<info, colour_map, update>>
  BY DEF Raw, DrawAtOnce
<1>2. IsUpdate(info, update) /\ update.data \in Seq(0..255) /\ info \in Infos
  BY <1>1, UpdateIs DEF VncInv
<1>3. /\ update.x \in Nat /\ update.y \in Nat
      /\ update.w \in Nat \ {0} /\ update.h \in Nat \ {0}
      /\ \A s \in 0..(update.w - 1), t \in 0..(update.h - 1) :
           IsNumber(info, update.data, (t * update.w + s) * info.bytes_per_pixel,
                    info.bytes_per_pixel, Value(update, s, t))
  BY <1>1, <1>2 DEF IsUpdate
<1>4. \A s \in 0..(update.w - 1), t \in 0..(update.h - 1) : t * update.w + s \in Nat
  BY <1>3
<1>5. framebuffer' = Covered(c)
  <2> DEFINE w == Cols(framebuffer)
             h == Rows(framebuffer)
             Nth(a, b) == (b - update.y) * update.w + (a - update.x)
             Inside(a, b) == Has(UpdateRect, a, b)
             P(a, b) == Pixel(framebuffer, a, b)
             R(k) == ReadPixel(k * PixelSize)
  <2>1. \A a, b \in Int : Nth(a, b) \in Int
    BY <1>3
  <2>2. w \in Nat /\ h \in Nat
    BY DEF VncInv, ScreenInv
  <2>3. framebuffer' = [row \in 1..h |-> [col \in 1..w |->
          IF Inside(col - 1, row - 1) THEN R(Nth(col - 1, row - 1)) ELSE P(col - 1, row - 1)]]
    BY DEF Raw, DrawAtOnce, Drawn, Picture, UpdateRect, Rect
  <2>4. Covered(c) = [row \in 1..h |-> [col \in 1..w |->
          IF Inside(col - 1, row - 1) THEN c[Nth(col - 1, row - 1)] ELSE P(col - 1, row - 1)]]
    BY DEF Covered, Picture
  <2>5. \A k \in Int : c[k] = R(k)
    OBVIOUS
  <2>6. \A a, b \in Int : c[Nth(a, b)] = R(Nth(a, b))
    BY <2>1, <2>5
  <2>7. \A row \in 1..h, col \in 1..w : row - 1 \in Int /\ col - 1 \in Int
    BY <2>2
  <2> HIDE DEF w, h, Nth, Inside, P, R, c
  <2>8. \A row \in 1..h, col \in 1..w : c[Nth(col - 1, row - 1)] = R(Nth(col - 1, row - 1))
    BY <2>6, <2>7
  <2> QED
    BY <2>3, <2>4, <2>8
<1>6. PixelSize \in Nat /\ PixelSize = info.bytes_per_pixel
  <2>1. PixelSize \in {1, 2, 4} /\ PixelSize = info.bytes_per_pixel
    BY <1>2, InfoAssumption DEF PixelSize
  <2> QED
    BY <2>1
<1>7. ASSUME NEW s \in 0..(update.w - 1), NEW t \in 0..(update.h - 1)
      PROVE  c[t * update.w + s] = Meaning(Value(update, s, t))
  <2>1. PICK k \in Nat : k = t * update.w + s
    BY <1>4
  <2>2. PICK o \in Nat : o = k * PixelSize
    BY <1>6
  <2>3. IsNumber(info, update.data, o, PixelSize, Value(update, s, t))
    BY <1>3, <1>6, <2>1, <2>2
  <2>4. ReadPixel(o) = Meaning(Value(update, s, t))
    BY <1>2, <2>3, PixelIsRead
  <2> QED
    BY <2>1, <2>2, <2>4
<1> HIDE DEF c
<1> QED
  BY <1>1, <1>5, <1>7, RectangleDone

LEMMA FillDone ==
  ASSUME VncInv, Fill
  PROVE  VncInv'
<1> DEFINE c == [k \in Int |-> ReadPixel(0)]
<1>1. /\ stage = "received" /\ update.encoding = "fill" /\ stage' = "done"
      /\ UNCHANGED <<info, colour_map, update>>
  BY DEF Fill, DrawAtOnce
<1>2. IsUpdate(info, update) /\ update.data \in Seq(0..255) /\ info \in Infos
  BY <1>1, UpdateIs DEF VncInv
<1>3. /\ update.x \in Nat /\ update.y \in Nat
      /\ update.w \in Nat \ {0} /\ update.h \in Nat \ {0}
      /\ update.x + update.w <= Width /\ update.y + update.h <= Height
      /\ \A s \in 0..(update.w - 1), t \in 0..(update.h - 1) :
           IsNumber(info, update.data, 0, PixelSize, Value(update, s, t))
  BY <1>1, <1>2 DEF IsUpdate, PixelSize
<1>4. \A s \in 0..(update.w - 1), t \in 0..(update.h - 1) : t * update.w + s \in Int
  BY <1>3
<1>5. framebuffer' = Covered(c)
  <2> DEFINE w == Cols(framebuffer)
             h == Rows(framebuffer)
             Nth(a, b) == (b - update.y) * update.w + (a - update.x)
             Inside(a, b) == Has(UpdateRect, a, b)
             P(a, b) == Pixel(framebuffer, a, b)
  <2>1. \A a, b \in Int : Nth(a, b) \in Int
    BY <1>3
  <2>2. w \in Nat /\ h \in Nat /\ w >= Width /\ h >= Height
    BY DEF VncInv, ScreenInv
  <2>3. InRange(framebuffer, UpdateRect)
    BY <1>3, <2>2, SizesAssumption DEF InRange, UpdateRect, Rect
  <2>4. framebuffer' = [row \in 1..h |-> [col \in 1..w |->
          IF Inside(col - 1, row - 1) THEN ReadPixel(0) ELSE P(col - 1, row - 1)]]
    BY <2>3 DEF Fill, DrawAtOnce, Drawn, Picture
  <2>5. Covered(c) = [row \in 1..h |-> [col \in 1..w |->
          IF Inside(col - 1, row - 1) THEN c[Nth(col - 1, row - 1)] ELSE P(col - 1, row - 1)]]
    BY DEF Covered, Picture
  <2>6. \A a, b \in Int : c[Nth(a, b)] = ReadPixel(0)
    BY <2>1
  <2>7. \A row \in 1..h, col \in 1..w : row - 1 \in Int /\ col - 1 \in Int
    BY <2>2
  <2> HIDE DEF w, h, Nth, Inside, P, c
  <2>8. \A row \in 1..h, col \in 1..w : c[Nth(col - 1, row - 1)] = ReadPixel(0)
    BY <2>6, <2>7
  <2> QED
    BY <2>4, <2>5, <2>8
<1>6. ASSUME NEW s \in 0..(update.w - 1), NEW t \in 0..(update.h - 1)
      PROVE  c[t * update.w + s] = Meaning(Value(update, s, t))
  <2>1. ReadPixel(0) = Meaning(Value(update, s, t))
    BY <1>2, <1>3, PixelIsRead
  <2> QED
    BY <1>4, <2>1
<1> HIDE DEF c
<1> QED
  BY <1>1, <1>5, <1>6, RectangleDone

\* A picture has the size it is made with.
LEMMA PictureSize ==
  ASSUME NEW pic, NEW w \in Nat \ {0}, NEW h \in Nat \ {0}, NEW rows,
         pic = [row \in 1..h |-> [col \in 1..w |-> rows[row][col]]]
  PROVE  Cols(pic) = w /\ Rows(pic) = h
<1>1. Len(pic) = h
  OBVIOUS
<1>2. 1 \in 1..h /\ pic # <<>>
  BY <1>1
<1>3. Len(pic[1]) = w
  BY <1>2
<1> QED
  BY <1>1, <1>2, <1>3 DEF Cols, Rows

LEMMA BlockDone ==
  ASSUME VncInv, Block
  PROVE  VncInv'
<1>1. /\ stage = "received" /\ update.encoding = "block" /\ stage' = "done"
      /\ UNCHANGED <<info, colour_map, update>>
  BY DEF Block, DrawAtOnce
<1>2. Cols(framebuffer') = Cols(framebuffer) /\ Rows(framebuffer') = Rows(framebuffer)
  <2> DEFINE block == Drawn(NewPicture(BlockSize, BlockSize), Rect(0, 0, BlockSize, BlockSize),
                           Rgb555)
             left == update.x * BlockSize
             top == update.y * BlockSize
             cut == Rect(left, top, Smaller(BlockSize, Larger(0, Cols(framebuffer) - left)),
                                    Smaller(BlockSize, Larger(0, Rows(framebuffer) - top)))
             w == Cols(framebuffer)
             h == Rows(framebuffer)
             P(a, b) == IF Has(cut, a, b)
                        THEN LET k == (b - cut.y) * cut.width + (a - cut.x)
                             IN  Pixel(block, k % cut.width, k \div cut.width)
                        ELSE Pixel(framebuffer, a, b)
             rows == [row \in 1..h |-> [col \in 1..w |-> P(col - 1, row - 1)]]
  <2>1. framebuffer' = rows
    BY DEF Block, DrawAtOnce, Drawn, Picture
  <2>2. w \in Nat \ {0} /\ h \in Nat \ {0}
    BY SizesAssumption DEF VncInv, ScreenInv
  <2> HIDE DEF w, h, P
  <2>3. rows = [row \in 1..h |-> [col \in 1..w |-> rows[row][col]]]
    OBVIOUS
  <2> HIDE DEF rows
  <2> QED
    BY <2>1, <2>2, <2>3, PictureSize DEF w, h
<1> QED
  BY <1>1, <1>2 DEF VncInv, ScreenInv, ZrleInv

LEMMA StartZrleDone ==
  ASSUME VncInv, StartZrle
  PROVE  VncInv'
<1>1. /\ stage = "received" /\ update.encoding = "zrle" /\ stage' = "tile"
      /\ UNCHANGED <<info, colour_map, update>>
      /\ framebuffer' = Grown /\ offset' = 0 /\ x' = update.x /\ y' = update.y
  BY DEF StartZrle
<1>2. IsUpdate(info, update) /\ info \in Infos /\ update \in Updates(info)
  BY <1>1, UpdateIs DEF VncInv
<1>3. /\ update.x \in Nat /\ update.y \in Nat
      /\ update.w \in Nat \ {0} /\ update.h \in Nat \ {0}
      /\ TileBegins(update, 0, 0, 0)
  BY <1>1, <1>2 DEF IsUpdate, IsZrle
<1>4. Left' = 0 /\ Above' = 0 /\ x' \in Int /\ y' \in Int
  BY <1>1, <1>3 DEF Left, Above
<1>5. /\ ScreenInv'
      /\ update.x + update.w <= Cols(framebuffer') /\ update.y + update.h <= Rows(framebuffer')
  <2> DEFINE w == Larger(update.x + update.w, Cols(framebuffer))
             h == Larger(update.y + update.h, Rows(framebuffer))
             rows == [row \in 1..h |-> [col \in 1..w |-> Black]]
  <2>1. ScreenInv /\ Width \in Nat \ {0} /\ Height \in Nat \ {0}
    BY SizesAssumption DEF VncInv
  <2>2. /\ w \in Nat \ {0} /\ h \in Nat \ {0}
        /\ w >= update.x + update.w /\ w >= Cols(framebuffer)
        /\ h >= update.y + update.h /\ h >= Rows(framebuffer)
    BY <1>3, <2>1 DEF ScreenInv, Larger
  <2>3. CASE Cols(framebuffer) < w \/ Rows(framebuffer) < h
    <3>1. framebuffer' = rows
      BY <1>1, <2>3 DEF Grown, NewPicture, Picture
    <3>2. rows = [row \in 1..h |-> [col \in 1..w |-> rows[row][col]]]
      OBVIOUS
    <3> HIDE DEF w, h, rows
    <3>3. Cols(framebuffer') = w /\ Rows(framebuffer') = h
      <4>1. w \in Nat \ {0} /\ h \in Nat \ {0}
        BY <2>2
      <4> QED
        BY <3>1, <3>2, <4>1, PictureSize
    <3> QED
      BY <2>1, <2>2, <3>3, <1>3 DEF ScreenInv
  <2>4. CASE ~(Cols(framebuffer) < w \/ Rows(framebuffer) < h)
    <3>1. framebuffer' = framebuffer
      BY <1>1, <2>4 DEF Grown
    <3> HIDE DEF w, h
    <3> QED
      BY <1>3, <2>1, <2>2, <2>4, <3>1 DEF ScreenInv
  <2> QED
    BY <2>3, <2>4
<1>6. TileInv(offset)'
  <2>1. \A s \in 0..(update.w - 1), t \in 0..(update.h - 1) :
          ~(t < 0 \/ (t < 0 + TileSize /\ s < 0))
    BY <1>3
  <2> QED
    BY <1>1, <1>3, <1>4, <1>5, <2>1 DEF TileInv
<1> QED
  BY <1>1, <1>2, <1>5, <1>6 DEF VncInv, ZrleInv

LEMMA ScreenAtFirst == VncInit => VncInv
<1> SUFFICES ASSUME VncInit PROVE VncInv
  OBVIOUS
<1>1. info \in Infos /\ stage = "idle" /\ framebuffer = NewPicture(Width, Height)
  BY DEF VncInit
<1>2. Width \in Nat \ {0} /\ Height \in Nat \ {0}
  BY SizesAssumption
<1>3. Cols(framebuffer) = Width /\ Rows(framebuffer) = Height
  <2> DEFINE rows == [row \in 1..Height |-> [col \in 1..Width |-> Black]]
  <2>1. framebuffer = rows
    BY <1>1 DEF NewPicture, Picture
  <2>2. rows = [row \in 1..Height |-> [col \in 1..Width |-> rows[row][col]]]
    OBVIOUS
  <2> HIDE DEF rows
  <2> QED
    BY <1>2, <2>1, <2>2, PictureSize
<1> QED
  BY <1>1, <1>2, <1>3 DEF VncInv, ScreenInv, ZrleInv

\* Whatever the decoder reads, a tile keeps the size of the framebuffer.
LEMMA TileKeepsSize ==
  ASSUME VncInv, stage \in {"tile", "runs"}, NEW first, NEW last, NEW P(_),
         DrawTile(first, last, P)
  PROVE  ScreenInv'
<1> DEFINE w == Cols(framebuffer)
           h == Rows(framebuffer)
           PixelAt(a, b) == LET k == (b - y) * tile_width + (a - x)
                            IN  IF Has(Tile, a, b) /\ k \in first..(last - 1) THEN P(k)
                                ELSE Pixel(framebuffer, a, b)
           rows == [row \in 1..h |-> [col \in 1..w |-> PixelAt(col - 1, row - 1)]]
<1>1. framebuffer' = rows
  BY DEF DrawTile, Picture
<1>2. w \in Nat \ {0} /\ h \in Nat \ {0}
  BY SizesAssumption DEF VncInv, ScreenInv
<1> HIDE DEF w, h, PixelAt
<1>3. rows = [row \in 1..h |-> [col \in 1..w |-> rows[row][col]]]
  OBVIOUS
<1> HIDE DEF rows
<1>4. Cols(framebuffer') = w /\ Rows(framebuffer') = h
  BY <1>1, <1>2, <1>3, PictureSize
<1> QED
  BY <1>4 DEF VncInv, ScreenInv, w, h

\* Where the server sends other bytes than the decoder expects, nothing more is said
\* of a rectangle in ZRLE.
LEMMA UnreadTile ==
  ASSUME ~CpixelsAsRead, VncInv, stage \in {"tile", "runs"}, ScreenInv',
         stage' \in {"tile", "runs", "done"}, UNCHANGED <<info, update>>
  PROVE  VncInv'
<1>1. ~CpixelsAsRead'
  BY DEF CpixelsAsRead, CpixelSize, PixelSize
<1> QED
  BY <1>1 DEF VncInv

LEMMA ScreenStep ==
  ASSUME VncInv, [VncNext]_vncVars
  PROVE  VncInv'
<1>1. CASE Receive
  <2>1. /\ stage' = "received" /\ update' \in Updates(info) /\ info' = info
        /\ framebuffer' = framebuffer
    BY <1>1 DEF Receive
  <2> QED
    BY <2>1 DEF VncInv, ScreenInv, ZrleInv
<1>2. CASE SetColours
  <2>1. stage' = "idle" /\ info' = info /\ framebuffer' = framebuffer
    BY <1>2 DEF SetColours
  <2> QED
    BY <2>1 DEF VncInv, ScreenInv, ZrleInv
<1>3. CASE Raw
  BY <1>3, RawDone
<1>4. CASE Fill
  BY <1>4, FillDone
<1>5. CASE Block
  BY <1>5, BlockDone
<1>6. CASE StartZrle
  BY <1>6, StartZrleDone
<1>7. CASE RawTile /\ CpixelsAsRead
  BY <1>7, RawTileDone
<1>8. CASE SolidTile /\ CpixelsAsRead
  BY <1>8, SolidTileDone
<1>9. CASE PackedTile /\ CpixelsAsRead
  BY <1>9, PackedTileDone
<1>10. CASE StartRuns /\ CpixelsAsRead
  BY <1>10, StartRunsDone
<1>11. CASE PlainRun /\ CpixelsAsRead
  BY <1>11, PlainRunDone
<1>12. CASE PalettePixel /\ CpixelsAsRead
  BY <1>12, PalettePixelDone
<1>13. CASE PaletteRun /\ CpixelsAsRead
  BY <1>13, PaletteRunDone
<1>14. CASE UNCHANGED vncVars
  <2>1. UNCHANGED <<info, framebuffer, colour_map, stage, update, offset, x, y, tile_start,
                    pixels_drawn>>
    BY <1>14 DEF vncVars
  <2>2. \A s, t : Shows(s, t)' <=> Shows(s, t)
    BY <2>1, ShownAfter DEF Shows
  <2>3. Left' = Left /\ Above' = Above
    BY <2>1 DEF Left, Above
  <2>4. \A o : TileInv(o)' <=> TileInv(o)
    BY <2>1, <2>2, <2>3 DEF TileInv
  <2>5. RunsInv' <=> RunsInv
    BY <2>1, <2>2, <2>3 DEF RunsInv
  <2>6. ZrleInv' <=> ZrleInv
    BY <2>1, <2>2, <2>4, <2>5 DEF ZrleInv
  <2>7. RectangleShown' <=> RectangleShown
    BY <2>1 DEF RectangleShown, Meaning, Colour
  <2>8. CpixelsAsRead' <=> CpixelsAsRead
    BY <2>1 DEF CpixelsAsRead, CpixelSize, PixelSize
  <2> QED
    BY <2>1, <2>6, <2>7, <2>8 DEF VncInv, ScreenInv
<1>15. CASE /\ RawTile \/ SolidTile \/ PackedTile \/ StartRuns \/ PlainRun \/ PalettePixel \/ PaletteRun
           /\ ~CpixelsAsRead
  <2>1. stage \in {"tile", "runs"} /\ UNCHANGED <<info, update>>
    BY <1>15 DEF RawTile, SolidTile, PackedTile, StartRuns, PlainRun, PalettePixel, PaletteRun,
                 AtTile, WholeTile, DrawRun
  <2>2. stage' \in {"tile", "runs", "done"}
    BY <1>15, <2>1 DEF RawTile, SolidTile, PackedTile, StartRuns, PlainRun, PalettePixel, PaletteRun,
                 WholeTile, DrawRun, NextTile
  <2>3. ScreenInv'
    <3>1. CASE StartRuns
      BY <3>1 DEF StartRuns, VncInv, ScreenInv
    <3>2. CASE RawTile
      BY <2>1, <3>2, TileKeepsSize DEF RawTile, WholeTile
    <3>3. CASE SolidTile
      BY <2>1, <3>3, TileKeepsSize DEF SolidTile, WholeTile
    <3>4. CASE PackedTile
      BY <2>1, <3>4, TileKeepsSize DEF PackedTile, WholeTile
    <3>5. CASE PlainRun
      BY <2>1, <3>5, TileKeepsSize DEF PlainRun, DrawRun
    <3>6. CASE PalettePixel
      BY <2>1, <3>6, TileKeepsSize DEF PalettePixel, DrawRun
    <3>7. CASE PaletteRun
      BY <2>1, <3>7, TileKeepsSize DEF PaletteRun, DrawRun
    <3> QED
      BY <1>15, <3>1, <3>2, <3>3, <3>4, <3>5, <3>6, <3>7
  <2> QED
    BY <1>15, <2>1, <2>2, <2>3, UnreadTile
<1> QED
  BY <1>1, <1>2, <1>3, <1>4, <1>5, <1>6, <1>7, <1>8, <1>9, <1>10, <1>11, <1>12, <1>13, <1>14,
     <1>15 DEF VncNext

LEMMA ScreenIsDrawn == VncSpec => []VncInv
<1>1. VncInv /\ [VncNext]_vncVars => VncInv'
  BY ScreenStep
<1> QED
  BY <1>1, ScreenAtFirst, PTL DEF VncSpec

\* If the colours are where the decoder takes them to be, it reads what is sent, and
\* shows what is meant.
LEMMA ColoursAreMeant ==
  ASSUME info \in Infos, ColoursAsRead
  PROVE  CpixelsAsRead /\ \A value \in Nat : Shown(value) = Meaning(value)
<1>1. PixelSize \in {1, 2, 4} /\ PixelSize = info.bytes_per_pixel
      /\ (info.true_colour <=> PixelSize # 1)
  BY InfoAssumption DEF PixelSize
<1>2. CASE PixelSize # 4
  BY <1>1, <1>2 DEF CpixelsAsRead, CpixelSize, CpixelLength, Shown
<1>3. CASE PixelSize = 4
  <2>1. /\ info.blue_shift \in {0, 8}
        /\ info.green_shift = info.blue_shift + 8 /\ info.red_shift = info.blue_shift + 16
        /\ info.red_mask = 255 /\ info.green_mask = 255 /\ info.blue_mask = 255
    BY <1>3 DEF ColoursAsRead
  <2>2. 2 ^ 0 = 1 /\ 2 ^ 8 = 256 /\ 2 ^ 16 = 65536 /\ 2 ^ 24 = 16777216
    OBVIOUS
  <2>3. 255 + 1 = 256 /\ 256 \div 256 = 1
    OBVIOUS
  <2>4. CASE info.blue_shift = 0
    <3>1. InLowBytes(info)
      <4>1. Components(info) = {<<16, 255>>, <<8, 255>>, <<0, 255>>}
        BY <2>1, <2>4 DEF Components
      <4>2. \A c \in Components(info) : c[2] = 255 /\ (c[1] = 0 \/ c[1] = 8 \/ c[1] = 16)
        BY <4>1
      <4>3. ASSUME NEW c \in Components(info)
            PROVE  c[1] < 24 /\ c[2] < 2 ^ (24 - c[1])
        <5>1. c[2] = 255 /\ (c[1] = 0 \/ c[1] = 8 \/ c[1] = 16)
          BY <4>2
        <5>2. CASE c[1] = 0
          <6>1. 24 - c[1] = 24 /\ c[1] < 24
            BY <5>2
          <6>2. 255 < 2 ^ 24
            OBVIOUS
          <6> QED
            BY <5>1, <6>1, <6>2, Zenon
        <5>3. CASE c[1] = 8
          <6>1. 24 - c[1] = 16 /\ c[1] < 24
            BY <5>3
          <6>2. 255 < 2 ^ 16
            OBVIOUS
          <6> QED
            BY <5>1, <6>1, <6>2, Zenon
        <5>4. CASE c[1] = 16
          <6>1. 24 - c[1] = 8 /\ c[1] < 24
            BY <5>4
          <6>2. 255 < 2 ^ 8
            OBVIOUS
          <6> QED
            BY <5>1, <6>1, <6>2, Zenon
        <5> QED
          BY <5>1, <5>2, <5>3, <5>4
      <4> QED
        BY <4>3 DEF InLowBytes
    <3>2. CpixelLength(info) = 3 /\ \A value : CpixelValue(info, value) = value
      BY <1>1, <1>3, <3>1 DEF CpixelLength, CpixelValue
    <3>3. ASSUME NEW value \in Nat
          PROVE  Colour(value) = ThreeBytes(value)
      <4>1. value \div 1 = value
        OBVIOUS
      <4>2. /\ Component(value, 0, 255) = value % 256
            /\ Component(value, 8, 255) = (value \div 256) % 256
            /\ Component(value, 16, 255) = (value \div 65536) % 256
        BY <2>2, <2>3, <4>1 DEF Component
      <4> QED
        BY <2>1, <2>4, <4>2 DEF Colour, ThreeBytes
    <3> QED
      BY <1>1, <1>3, <3>2, <3>3 DEF CpixelsAsRead, CpixelSize, Shown, Meaning
  <2>5. CASE info.blue_shift = 8
    <3>1. InHighBytes(info) /\ ~InLowBytes(info)
      <4>1. Components(info) = {<<24, 255>>, <<16, 255>>, <<8, 255>>}
        BY <2>1, <2>5 DEF Components
      <4>2. \A c \in Components(info) : c[1] = 24 \/ c[1] = 16 \/ c[1] = 8
        BY <4>1
      <4>3. <<24, 255>> \in Components(info) /\ <<24, 255>>[1] = 24
        BY <4>1
      <4> QED
        BY <4>2, <4>3 DEF InHighBytes, InLowBytes
    <3>2. CpixelLength(info) = 3 /\ \A value : CpixelValue(info, value) = value \div 256
      BY <1>1, <1>3, <3>1 DEF CpixelLength, CpixelValue
    <3>3. ASSUME NEW value \in Nat
          PROVE  Colour(value) = ThreeBytes(value \div 256)
      <4>1. /\ (value \div 256) \div 256 = value \div 65536
            /\ (value \div 256) \div 65536 = value \div 16777216
        OBVIOUS
      <4>2. /\ Component(value, 8, 255) = (value \div 256) % 256
            /\ Component(value, 16, 255) = (value \div 65536) % 256
            /\ Component(value, 24, 255) = (value \div 16777216) % 256
        BY <2>2, <2>3 DEF Component
      <4> QED
        BY <2>1, <2>5, <4>1, <4>2 DEF Colour, ThreeBytes
    <3> QED
      BY <1>1, <1>3, <3>2, <3>3 DEF CpixelsAsRead, CpixelSize, Shown, Meaning
  <2> QED
    BY <2>1, <2>4, <2>5
<1> QED
  BY <1>2, <1>3

\* A rectangle shows what the server meant, whatever way it has cut it into tiles
\* and runs and encoded them, whatever the sizes and the format; in ZRLE, of four
\* bytes only three that are blue, green and red, as read_cpixel takes them to be.
THEOREM ScreenIsShown == VncSpec => []ShowsScreen
<1>1. VncInv => ShowsScreen
  <2> SUFFICES ASSUME VncInv, stage = "done", update.encoding # "block",
                      update.encoding = "zrle" => ColoursAsRead
               PROVE  RectangleShown
    BY DEF ShowsScreen
  <2>1. info \in Infos /\ IsUpdate(info, update)
    BY UpdateIs DEF VncInv
  <2>2. CASE update.encoding # "zrle"
    BY <2>1, <2>2 DEF VncInv, IsUpdate
  <2>3. CASE update.encoding = "zrle"
    <3>1. CpixelsAsRead /\ \A value \in Nat : Shown(value) = Meaning(value)
      BY <2>1, <2>3, ColoursAreMeant
    <3>2. \A s \in 0..(update.w - 1), t \in 0..(update.h - 1) :
            Value(update, s, t) \in Nat /\ Shows(s, t)
      BY <2>1, <2>3, <3>1 DEF IsUpdate, VncInv, ZrleInv
    <3> QED
      BY <3>1, <3>2 DEF RectangleShown, Shows, Value
  <2> QED
    BY <2>2, <2>3
<1> QED
  BY <1>1, ScreenIsDrawn, PTL

\* The decoder stops at the end of what the server sent, and never reads behind it.
THEOREM DataIsRead == VncSpec => []AllDataRead
<1>1. VncInv => AllDataRead
  <2> SUFFICES ASSUME VncInv, CpixelsAsRead
               PROVE  /\ stage = "done" /\ update.encoding = "zrle" => offset = Len(update.data)
                      /\ stage = "tile" => offset < Len(update.data)
                      /\ stage = "runs" => pixels_drawn < TilePixels
    BY DEF AllDataRead
  <2>1. stage = "done" /\ update.encoding = "zrle" => offset = Len(update.data)
    BY DEF VncInv, ZrleInv
  <2>2. ASSUME stage = "tile"
        PROVE  offset < Len(update.data)
    <3>1. TileInv(offset) /\ stage # "idle"
      BY <2>2 DEF VncInv, ZrleInv
    <3>2. offset \in 0..(Len(update.data) - 1) /\ Len(update.data) \in Nat
      BY <3>1, TileIs, UpdateIs
    <3> QED
      BY <3>2
  <2>3. ASSUME stage = "runs"
        PROVE  pixels_drawn < TilePixels
    <3>1. TilePixels \in Nat /\ pixels_drawn \in 0..(TilePixels - 1)
      BY <2>3, RunsAre
    <3> QED
      BY <3>1
  <2> QED
    BY <2>1, <2>2, <2>3
<1> QED
  BY <1>1, ScreenIsDrawn, PTL
=============================================================================
