SPECIFICATION MCSpec
CONSTANTS
  Searcher = {s1, s2}
  Query <- MCQuery
  Offers <- MCOffers
  Enabled = {"mcp_registry", "service", "github"}
  Footprint <- MCFootprint
  Catalogs <- MCCatalogs
  Repo = {"A"}
  VerifiedCap = 2
  ColdMissCap = 5
  CandidateLimit = 2
  PerSource = 4
  MaxSearches = 2
  MaxFaults = 1
  MaxMoves = 1
INVARIANTS
  TypeOK
  ShownIsEntitled
  ShownCanBeOpened
  NeverBlank
  CandidatesAreAccountedFor
  OneRowPerRepository
  ShownInOrder
SYMMETRY Symmetry
