SPECIFICATION AppSpec
CONSTANTS
  Providers = {"openai", "gateway", "local"}
  Gateways = {"gateway"}
  Keyless = {"local"}
  Models = {"m"}
  Listing <- MCListing
  Routes <- MCRoutes
  Stored = {"openai"}
  MaxUses = 3
  Names = {"s", "t"}
  MaxParts = 4
INVARIANTS AppTypeOK OneAnswerPerLine StoredKeyWasTested TranscriptIsFaithful
PROPERTIES LinesAreAnswered ResolvesWhereTyped
CHECK_DEADLOCK FALSE
