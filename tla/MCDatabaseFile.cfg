SPECIFICATION DatabaseSpec
CONSTANTS
  Inputs <- MCInputs
  Targets <- MCTargets
  MaxPayload = 400
  Databases <- MCDatabases
  Length <- MCLength
  PathOf <- MCPathOf
  Core = 3
  MapSide = 1
  Codes = 16
  ByteValues = 2
  Precision = 256
  ScaleDigits = 17
  Unit = 256
  Millimeters = 10
  Tolerance = 8192
INVARIANTS
  ReaderAccepts
  PacksFilled
  FileOpens
  TilesDecode
