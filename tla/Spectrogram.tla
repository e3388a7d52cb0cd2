---------------------------- MODULE Spectrogram ----------------------------
(***************************************************************************)
(* snd2png: the picture of a recorded sound.  Chunks of 10 ms are           *)
(* transformed, silence at both ends is cut, and a column is drawn for each *)
(* chunk, from the frequencies of the voice.                                *)
(*                                                                          *)
(* The transformation is abstracted to the greatest value of a chunk, that  *)
(* can be any; of a pixel only the values it is drawn from are kept.        *)
(***************************************************************************)
EXTENDS Integers, Sequences, Pictures

CONSTANTS
  SampleRates, Frames,   \* sounds: rates in Hz and lengths
  Values,                \* greatest values of chunks
  cols,                  \* of the picture (1024)
  freqs,                 \* frequencies of the picture (256)
  scale_factor,          \* rows for a frequency (3)
  max_freq               \* in Hz (3200)

VARIABLES
  samplerate, frames,    \* of the sound
  phase,
  points,                \* greatest values of the chunks
  first_non_silence, last_non_silence,
  i,                     \* frequency that is drawn next
  drawn                  \* pixels: [y, x, time_pos, bin]

spectrogramVars == <<samplerate, frames, phase, points, first_non_silence, last_non_silence, i, drawn>>
sound == <<samplerate, frames>>

height == freqs * scale_factor
window_size == samplerate \div 100
overlap == window_size \div 2
nDftSamples == window_size + overlap * 2

times ==
  LET chunks == frames \div window_size - 1
  IN  IF chunks * window_size + overlap > frames THEN chunks - 1 ELSE chunks

Ceil(n, d) == (n + d - 1) \div d

\* fft_bw is the rate divided by the number of samples.
last_bin == Smaller(1 + Ceil(max_freq * nDftSamples, samplerate), 1 + nDftSamples \div 2)
Bin(freq) == Ceil(freq * max_freq * nDftSamples, freqs * samplerate)

\* Samples of a chunk are those from there on
From(time_pos) == time_pos * window_size

IsMax(max) ==
  /\ \A k \in DOMAIN points : points[k] <= max
  /\ max = 0 \/ \E k \in DOMAIN points : points[k] = max
max_value == CHOOSE max \in Values \cup {0} : IsMax(max)

IsLoud(time_pos) == points[time_pos + 1] * 10 > max_value
LoudTimes == {t \in 0..(times - 1) : IsLoud(t)}

SpectrogramInit ==
  /\ samplerate \in SampleRates
  /\ frames \in Frames
  /\ phase = "transform"
  /\ points = <<>>
  /\ first_non_silence = 0 /\ last_non_silence = 0
  /\ i = 1
  /\ drawn = {}

Transform ==
  /\ phase = "transform"
  /\ Len(points) < times
  /\ \E value \in Values : points' = Append(points, value)
  /\ UNCHANGED <<sound, phase, first_non_silence, last_non_silence, i, drawn>>

FirstLoud(t) == /\ t \in LoudTimes
                /\ \A u \in LoudTimes : t <= u
LastLoud(t) == /\ t \in LoudTimes
               /\ \A u \in LoudTimes : u <= t

\* The loops stop at the end (or the beginning) when all is silent.
CutSilence ==
  /\ phase = "transform"
  /\ Len(points) >= times
  /\ \E first \in 0..Larger(0, times), last \in {times - 1} \cup 0..(times - 1) :
       /\ FirstLoud(first) \/ (LoudTimes = {} /\ first = Larger(0, times))
       /\ LastLoud(last) \/ (LoudTimes = {} /\ last = Smaller(0, times - 1))
       /\ first_non_silence' = first
       /\ last_non_silence' = IF last - first > cols THEN cols + first ELSE last
  /\ phase' = "draw"
  /\ UNCHANGED <<sound, points, i, drawn>>

Top(freq) == height - 1 - freq * scale_factor

\* The rows of a frequency, from the lowest one (the last row) on
Draw ==
  /\ phase = "draw"
  /\ i < freqs
  /\ drawn' = drawn \cup
       {[y |-> Top(i) + j, x |-> t - first_non_silence, time_pos |-> t, bin |-> Bin(i)] :
          j \in 0..(scale_factor - 1), t \in first_non_silence..(last_non_silence - 1)}
  /\ i' = i + 1
  /\ UNCHANGED <<sound, phase, points, first_non_silence, last_non_silence>>

Write ==
  /\ phase = "draw"
  /\ i >= freqs
  /\ phase' = "written"
  /\ UNCHANGED <<sound, points, first_non_silence, last_non_silence, i, drawn>>

SpectrogramNext == Transform \/ CutSilence \/ Draw \/ Write

SpectrogramSpec == SpectrogramInit /\ [][SpectrogramNext]_spectrogramVars
-----------------------------------------------------------------------------
\* A chunk has all of its samples in the sound: chunks overlap, so that the
\* last one reads half a window behind its own.
SamplesInside ==
  phase = "transform" /\ Len(points) < times => From(Len(points)) + nDftSamples <= frames

\* Pixels are in the picture, and are drawn from chunks and values that exist.
PixelsInside ==
  \A p \in drawn :
    /\ p.y \in 0..(height - 1) /\ p.x \in 0..(cols - 1)
    /\ p.time_pos \in 0..(Len(points) - 1)
    /\ p.bin \in 0..(last_bin - 1)

\* Values are divided by the greatest one: nothing is drawn of a silent sound.
DivisorIsNotZero == drawn # {} => max_value > 0

\* What is loud is in the picture, unless the picture is full or it is the
\* last chunk, in columns that follow the time.
LoudIsDrawn ==
  phase = "written" =>
    \A t \in LoudTimes :
      \/ \E p \in drawn : p.time_pos = t
      \/ t >= first_non_silence + cols
      \/ t = last_non_silence
=============================================================================
