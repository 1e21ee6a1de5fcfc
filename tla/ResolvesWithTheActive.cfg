SPECIFICATION AppSpec
CONSTANTS
  Providers = {"openai", "gateway", "local"}
  Gateways = {"gateway"}
  Keyless = {"local"}
  Models = {"m"}
  Listing <- MCListing
  Routes <- MCRoutes
  Stored = {"openai"}
  MaxUses = 3
  Names = {"s", "t"}
  MaxParts = 4
PROPERTY ResolvesWithTheActive
CHECK_DEADLOCK FALSE
