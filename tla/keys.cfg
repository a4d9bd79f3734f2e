SPECIFICATION MetricsSpec
CONSTANTS
  Keys = {k1}
  Requests = {q1}
  Scopes <- SomeScopes
  MaxSamples = 12
INVARIANTS TypeOK PrintedKeyStored ServedWithinScope HolderIsServed PercentilesHonest
PROPERTY RevokedKeyStaysOut
