SPECIFICATION MCSpec
CONSTANTS
  Item = {1, 2}
  Name = {a, b, c}
  Grace = 1
  MaxArtists = 3
  MaxNow = 3
  MaxChanges = 2
  Track = {1, 2}
  Title = {t, u}
  Folder = {"f", "g"}
  MBID = {"m", "n"}
  TagMBID = {"m"}
  MaxRows = 3
  MaxOps = 3
PROPERTIES ArtistsHold AlbumsHold
SYMMETRY Names
CHECK_DEADLOCK FALSE
