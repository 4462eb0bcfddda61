SPECIFICATION MCSpec
CONSTANTS
  File = {f1, f2}
  Path = {p1, p2, p3}
  Slot = {s1}
  Pid = {e1}
  Jid = {j1}
  NoFile = NoFile
  NoPath = NoPath
  IOFaults = FALSE
  DBFaults = FALSE
  UserActs = FALSE
  UserRaces = FALSE
  PlansWait = {"delete"}
  Modes = {"trash", "permanent"}
  AudioFile = {1, 2, 3, 4}
  AudioOf <- MCAudioOf
  RecordingOf <- MCRecordingOf
  QualityOf <- MCQualityOf
  CodecOf <- MCCodecOf
  LengthsOf <- MCLengthsOf
  ReadingsOf <- MCReadingsOf
  MaxRows = 6
  MaxReads = 2
  MaxListens = 2
  MaxActs = 3
  Arrivals = {"a", "B"}
  Oversized = {"B"}
  Scalable = {"B"}
  Tracks = {"t1"}
  Albums = {"al"}
  Groups = {"rg"}
  Others = {}
  AlbumOf <- MCAlbumOf
  GroupOf <- MCGroupOf
  Roles = {"front", "back"}
  Slots <- MCSlots
  Requests <- MCRequests
  MemoryMax = 1
  MaxArtOps = 3
  Callers = {"c1", "c2"}
  Pictures <- MCPictures
  Sizes = {100, 200}
  Ladder = {128, 256}
  Weight <- MCWeight
  MemMax = 2
  MemBytes = 300
  FailMax = 1
  MaxThumbOps = 4
SYMMETRY Symmetry
INVARIANTS CatalogMatchesDisk BooksHold ThumbsHold
PROPERTIES FilesNamed PidsKept ArtStands
