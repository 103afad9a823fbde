SPECIFICATION BuilderSpec
CONSTANTS
  Kinds = {"plain", "late"}
  Releases <- MCReleases
  Refuses <- MCRefuses
  Undecodable <- MCUndecodable
  MaxEvents = 2
  PageEvents = 1
  MaxDeletedRows = 2
  MaxSliceFailures = 2
  MaxBuilderFailures = 2
  MaxLog = 4
  MaxStarts = 3
  MaxFaults = 2
INVARIANT
  RowsAreThePrefix
  PendingIsScheduled
PROPERTIES
  ServedNeverRegresses
  ChangesAnnounced
CHECK_DEADLOCK FALSE
