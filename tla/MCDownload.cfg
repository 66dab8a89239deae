SPECIFICATION Spec
CONSTANTS
  j1 = j1
  j2 = j2
  t1 = t1
  Jobs <- MCJobs
  Tracks <- MCTracks
  Album <- MCAlbum
  Attempts = 2
  StreamQuality = "HIGH"
  Requested <- MCRequested
  Formats <- MCFormats
  ExtOf <- MCExtOf
  Segmented <- MCFormats
  Hashed = {}
  Pieces = 2
  Inodes = {1, 2, 3, 4, 5, 6, 7, 8, 9}
  MaxCrashes = 1
SYMMETRY MCSymmetry
VIEW MCView
INVARIANTS TypeOK SoloDownloadsAreAsServed NoLitter OnlyRequestedQualities
PROPERTY JobsAdvance
