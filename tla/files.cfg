\* One invocation at a time, dying anywhere, on a disk that may be full.
SPECIFICATION Spec
CONSTANTS
  Proc = {p1}
  Inode = {i1, i2, i3}
  MaxWallet = 3
  MaxEdits = 3
  Faults = {"crash", "full"}
INVARIANTS TypeOK Readable NoInheritedRecords
PROPERTIES LedgerSpec
SYMMETRY InodeSymmetry
