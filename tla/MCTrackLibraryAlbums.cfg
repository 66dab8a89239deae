CONSTANTS
  Mirrors = {m1, m2}
  Tracks = {t1, t2}
  Albums = {a}
  AlbumOf <- MCAlbumOf
  Artists = {r}
  ArtistOf <- MCArtistOf
  UnknownAlbum = unknown
  Jobs = {j1, j2}
  Requests <- AlbumRequests
  NoItem = none

SPECIFICATION Spec
SYMMETRY Interchangeable
CHECK_DEADLOCK FALSE
INVARIANTS
  OneAlbumRow
  StarsAreListed
  QuietUnstarClears
PROPERTIES
  CompleteAlbumsStay
