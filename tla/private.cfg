SPECIFICATION Spec
CONSTANTS
  t1 = t1 t2 = t2 h1 = h1 h2 = h2 k0 = k0 k1 = k1 garbage = garbage
  Threads = {t1, t2}
  Handles = {h1, h2}
  HandleOf <- Private
  Mappers = {}
  Keys = {k0, k1}
  ZeroKey = k0
  Data <- MCData
  Crypt <- MCCrypt
  Msg <- MCMsg
  Junk = garbage
  Slots = {s1}
  Bufs = {b1, b2}
  None = None
  Calls <- MixedModes
  Faults = {"live", "nomem", "copyin", "dmamap", "copyout"}
  Signals = FALSE
  SMP = TRUE
  SharedLine = FALSE
CHECK_DEADLOCK FALSE
INVARIANT TypeOK
INVARIANT SemaphoreExcludes
INVARIANT ResultCorrect
INVARIANT FailureKeepsMessage
INVARIANT EngineServesHolder
INVARIANT BuffersOwned
INVARIANT MappingsOwned
PROPERTY InputStable
PROPERTY ServiceSpec
SYMMETRY BufSymmetry
