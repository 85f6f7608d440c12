CONSTANTS
  Star = Star
  Slash = Slash
  Query = Query
  Letters = {a, z}
  GlobLetters = {a}
  MaxGlob = 4
  MaxPath = 4
  Dot = Dot
  Percent = Percent
  EscDot = EscDot
  EscSlash = EscSlash
  EscQuery = EscQuery
  EscPercent = EscPercent
  EscBad = EscBad
  MaxTarget = 5
  Byte = {x, y}
  Marker = Marker
  MaxSecret = 4
  MaxBody = 9
  MaxChunk = 4
SPECIFICATION FilterSpec
CHECK_DEADLOCK FALSE
INVARIANTS SubsumesIsInclusion CanonicalIsAnchored ChunksDoNotMatter
