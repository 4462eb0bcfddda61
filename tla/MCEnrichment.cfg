SPECIFICATION MCSpec
CONSTANTS
  Row = {1, 2}
  Providers <- MCProviders
  Serves <- MCServes
  TripAfter = 1
  Limit = 0
  OwedWindow = 2
  RetryAfter = 2
  Forcing = {0, 1, 9}
  MaxHands = 1
  TablesRun = {"artist", "release_group", "album", "book", "track"}
  Managed <- MCManaged
  MediaOf <- MCMediaOf
  TagsOf <- MCTagsOf
  StagedOrder <- MCStagedOrder
  Asks <- MCAsks
  Foreign = "zz"
  CatalogAtStart <- MCCatalogAtStart
  MaxApplies = 2
  MaxMeddling = 1
  Items = {"a", "b"}
  FirstItems = {"a"}
  OwnFile = {"a"}
  Acquisitions <- MCAcquisitions
  Events <- MCEvents
  OriginTags <- MCOriginTags
  MaxOrigins = 3
INVARIANT RowsAskedRight
PROPERTIES PassesKeep ImportsHold RecordsHold
CHECK_DEADLOCK FALSE
