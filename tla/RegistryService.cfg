SPECIFICATION Spec
CONSTANTS
  Addresses = {a1, a2, a3, a4}
  NotFound = NotFound
  IndexModulus = 3
  MaxConfigured = 3
INVARIANTS
  TypeOK
  IndexIsAvailableInRange
  MetadataIndexAgrees
  QueriesFindTheirRegistry
