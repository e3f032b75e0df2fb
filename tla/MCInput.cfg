SPECIFICATION Spec
CONSTANTS
  MaxKeys = 4
  MaxShells = 2
CHECK_DEADLOCK FALSE
INVARIANTS
  TypeOK
  OneConsumer
  LateKeysAreKept
PROPERTIES
  KeysInSequence
  MenuComesBack
  NothingLeaks
