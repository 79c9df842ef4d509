SPECIFICATION Spec
CONSTANTS
  Arguments <- MCArguments
  DirArguments <- MCDirArguments
  MCPageSizes = {128, 256}
  MCSizes = {1, 256, 384}
  HdrSize = 300
  SigSize = 256
  PrefixSizes = {0, 3, 4}
  MaxPrefix = 3
  Overrides = {0, 128}
  AddrSpace = 16
  KernelOffset = 2
  MaxFiles = 4
  Listings <- MCListings
  PageSize = 256
  HeaderSize = 12
  EntrySize = 32
  WordSize = 4
INVARIANTS RoundTrip AddressesSurvive BlobsInsideBlock TreesSurvive
CHECK_DEADLOCK FALSE
