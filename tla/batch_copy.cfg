\* Two completions of a prompt, in a cache that is too small for all.
CONSTANTS
  NSlots = 2
  Seqs <- TwoSlots
  NBatch = 4
  MaxDecoded = 2
  Mixes <- CopyMixes
  NCells = 3
  NSwa = 2
  NUbatch = 1
  MaxPos = 3
  MaxStore = 2
  NSlotsOfCache = 2
  Prompts <- MCPrompts
  KvSize = 8
  Similarity = 20
  SizeLimits = {0, 6}
  Parts = {"batch"}
SPECIFICATION MemorySpec
PROPERTY ChildGetsWholePrompt
