SPECIFICATION Spec
CONSTANTS
  Schema <- GeneratedSchema
  Unsafe = 2147483647
INVARIANTS
  DecodesWhatWasEncoded
  ReaderStaysInMessage
  JSONKeepsWhatIsKnown
CHECK_DEADLOCK FALSE
