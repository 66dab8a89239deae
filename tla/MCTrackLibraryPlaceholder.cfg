CONSTANTS
  Mirrors = {m1, m2}
  Tracks = {t}
  Albums = {a}
  AlbumOf <- MCAlbumOf
  Artists = {r}
  ArtistOf <- MCArtistOf
  UnknownAlbum = unknown
  Jobs = {j1, j2}
  Requests <- TrackRequests
  NoItem = none

SPECIFICATION Spec
SYMMETRY Interchangeable
CHECK_DEADLOCK FALSE
INVARIANT PlaceholdersStayOut
