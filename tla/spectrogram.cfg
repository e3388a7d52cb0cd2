SPECIFICATION SpectrogramSpec
CONSTANTS
  SampleRates = {6400, 6500}
  Frames = {0, 63, 64, 130, 320, 455}
  Values = {0, 1, 9, 10}
  cols = 2
  freqs = 8
  scale_factor = 3
  max_freq = 3200
INVARIANTS SamplesInside PixelsInside DivisorIsNotZero LoudIsDrawn
CHECK_DEADLOCK FALSE
