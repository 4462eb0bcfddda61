SPECIFICATION MCSpec
CONSTANTS
  Item = {i1, i2}
  File = {f1, f2}
  NoFile = NoFile
  PageRows = 1
  Keeps = {1}
  MaxTick = 1
  MaxRestores = 1
  Thread = {t1}
  MaxEntries = 1
  Kinds = {"shared", "own"}
  ItemId = {1, 2, 3, 4}
  ArtistId = {1, 2}
  AlbumId = {1, 2}
  WordsOf <- MCWords
  MatchKeyOf <- MCMatchKey
  FoldOf <- MCFold
  OldFoldOf <- MCOldFold
  TierOne <- MCTierOne
  ShelfStart <- MCShelfStart
  NewItems <- MCNewItems
  NewTitles <- MCNewTitles
  NewNames <- MCNewNames
  NewPlaces <- MCNewPlaces
  Questions <- MCQuestions
  FetchPerLimit = 2
  FetchMin = 1
  FetchMax = 3
  SortKeyBatch = 2
  IndexBatch = 2
  MaxEdits = 2
  MaxFixes = 2
  MaxFixFaults = 1
  MaxSearches = 1
SYMMETRY MCSymmetry
INVARIANTS PathsHold SearchHolds
CHECK_DEADLOCK FALSE
