SPECIFICATION CatalogSpec
CONSTANTS
  Names <- MCNames
  Contents <- MCContents
  Lower <- MCLower
  Wide = {"u"}
  Queries <- MCQueries
  MaxArchives = 2
  MaxCalls = 3
INVARIANTS SearchFinds CommandsAgree DiffAgrees NothingLeft
CHECK_DEADLOCK FALSE
