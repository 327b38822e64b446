SPECIFICATION FairSpec
CONSTANTS
  Users = {u1, u2}
  Drivers = {"hello", "memtrack", "ptw", "tlb", "rsvd", "irq", "driver_pci", "mmio", "portio", "platform"}
INVARIANT TypeOK
INVARIANT LedgerBalanced
INVARIANT FileKeepsModule
INVARIANT HookHasModule
PROPERTY StaleOnlyInRemove
PROPERTY InterruptAnswered
