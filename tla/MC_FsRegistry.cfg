CONSTANTS
  Threads = {t1, t2}
  VolNames = {v1}
  Handles = {h1, h2}
  UEFI = TRUE
  LIBZIP = TRUE
  NULL = NULL
SYMMETRY Symm
SPECIFICATION Spec
INVARIANT TypeOK
INVARIANT VolumeDriverRegistered
INVARIANT OpenCountExact
PROPERTY ImplementsRegistrySpec
