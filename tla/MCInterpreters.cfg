SPECIFICATION MCSpec
CONSTANTS
  None = None
  CacheSize = 1
  Arm64 = TRUE
  MaxStubLen = 4
  Langs = {"hotspot", "v8", "python", "ruby", "perl", "php"}
  Reused = {"nm", "heaps", "stubs", "other", "code", "h", "f", "name", "cop", "dasm_buf"}
  Unreadable = {"nm", "f", "g", "bytecode", "name", "text", "cop", "heaps", "structs"}
  Updates = {0, 2, 5}
  MaxTrace = 2
  MaxWork = 4
  MaxWrites = 2
  MaxProcesses = 2
  Formats = {"hotspot", "v8", "baseline", "lnotab", "linetable", "locations", "ruby25", "ruby26"}
  CodePos = {0, 2, 40}
  Lines = {1, 6, 100}
  MaxEntries = 3
  ImmediateTable = 3
  SmallBlock = 2
  Block = 8
INVARIANTS MetadataSent  CookieGuards DetachDeletes LineIsRight
CHECK_DEADLOCK FALSE
