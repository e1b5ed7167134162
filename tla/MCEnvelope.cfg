SPECIFICATION Spec
CONSTANTS
  Compilable <- Patterns
  None = "none"
  RuleFiles <- Files
  Requests <- Clients
  GeoDB <- Records
  NoGeo = "none"
  BatchSize = 2
  MaxEvents = 3
  MaxTime = 2
INVARIANTS
  ScoreIsSumOfCategories
  GeoIsTheSources
  LookupsAreBounded
  BundleIsComplete
