\* Two slots, a batch of four tokens, each of the mixes by itself; a cache of
\* three cells with an attention window of two; four prompts for two slots.
CONSTANTS
  NSlots = 2
  Seqs <- TwoSlots
  NBatch = 4
  MaxDecoded = 2
  Mixes <- SoundMixes
  NCells = 3
  NSwa = 2
  NUbatch = 1
  MaxPos = 3
  MaxStore = 2
  NSlotsOfCache = 2
  Prompts <- MCPrompts
  KvSize = 8
  Similarity = 20
  SizeLimits = {0, 6}
  Parts = {"batch", "cells", "prompts"}
SPECIFICATION MemorySpec
INVARIANTS BatchSound KvConsistent CacheSound
PROPERTIES NoNeedlessError SampledOnce  IterationEnds DecodeKeeps CacheUseful
