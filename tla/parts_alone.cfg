CONSTANTS
  Capacity = 2
  MaxAdds = 5
  Handlers = {h1, h2, h3}
  Loop = loop0
  Patient = TRUE
  MaxChunks = 3
  Tokens = {"s", "t", "e", "f", "m", "n", "u"}
  Incomplete = {"u"}
  StartTag <- MCStartTag
  EndTag <- MCEndTag
  Forced <- MCForced
  Cases <- MCCases
  MaxBlock = 8
  m1 = m1
  m2 = m2
  Names = {m1, m2}
  Presets = {"p", "q"}
  Clashing = {"q"}
  NoPreset = "none"
  Askers = {x}
  Reloaders = {r1, r2}
  MaxEdits = 1
  PoolSize = 3
  Ops <- MCOps
  RowChunks = 8
  MaxGraphs = 2
SPECIFICATION PartsSpec
CHECK_DEADLOCK FALSE
INVARIANTS
  PartsTypeOK
  WakeRequested ReloadSound PoolSound
PROPERTIES
  LogKept FlushReturnsIfRoom
  SleepServes PipeIsStream PipeEnds  ReloadServes PoolServes
