\* Malformed jumps in any sub, on the programs of MCEntryBlock.cfg.
CONSTANTS
  a1 = a1
  a2 = a2
  Addr <- MCAddr
  NumSubs = 2
  MaxBlocks = 3
  Jmps <- MCJmps
SPECIFICATION Spec
CHECK_DEADLOCK FALSE
INVARIANT MalformedInputFatal
