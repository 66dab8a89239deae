SPECIFICATION Spec
CONSTANTS
  Requests = {1, 2}
  Manifests <- MCManifests
  Timeline <- MCTimeline
  StartNumber <- MCStart
  Hash <- MCHash
  NoHash = "none"
  Prefix <- MCPrefix
  StreamOf <- MCFile
  Size <- MCSize
  Headers <- MCHeaders
  ProbeAnswers = {"head", "total", "length", "unknown", "silent", "fails"}
  MaxSegments = 2
  NoMap = NoMap
INVARIANTS TypeOK RepliesAreSlices RangesAreAnswered CachedMapsFit
PROPERTY RequestsEnd
