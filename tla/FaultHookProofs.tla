--------------------------- MODULE FaultHookProofs ---------------------------
(***************************************************************************)
(* Proofs about FaultHook, for any set of processes and addresses, when a  *)
(* process starts only while no other runs (Alone): the page survives      *)
(* its own reserved bit, the bit and the hook are gone after close, and    *)
(* only the end of a killed process can make the module store to an entry  *)
(* that is no longer there.                                                *)
(* However many run at once, no bit outlives the memory it is set in.      *)
(***************************************************************************)
EXTENDS FaultHook, Integers, TLAPS

-----------------------------------------------------------------------------
(* The inductive invariant.                                                *)

Gone == {"out", "oops"}

\* After the read and until close the globals are those of the process.
Using == {"access", "fault", "hooked", "close"}

OneAtATime ==
    \A p, q \in Processes : pc[p] \notin Gone /\ pc[q] \notin Gone => p = q

AddressIsMine ==
    \A p \in Processes : pc[p] \in Using \cup {"written"} => gptr = PageOf[p]

EntryIsMine == \A p \in Processes : pc[p] \in Using => gpte = p

BitsInUse == \A p \in rsvd : pc[p] \in Using

AloneInv ==
    /\ TypeOK
    /\ OneAtATime
    /\ AddressIsMine
    /\ EntryIsMine
    /\ BitsInUse
    /\ HookWhileOpen
    /\ AccessSurvives

USE DEF Places, Open, Live, Dying, Gone, Using

-----------------------------------------------------------------------------
(* Types.                                                                  *)

\* The demo's own step keeps its types.
LEMMA DemoType ==
    ASSUME TypeOK, [Next]_vars
    PROVE  TypeOK'
<1> USE PageAssumption, NullAssumption DEF TypeOK
<1>1. CASE UNCHANGED vars
  BY <1>1 DEF vars
<1>2. ASSUME NEW p \in Processes, DemoOpen(p)
      PROVE  TypeOK'
  BY <1>2 DEF DemoOpen, Go, HookAtOpen
<1>3. ASSUME NEW p \in Processes, DemoWrite(p)
      PROVE  TypeOK'
  BY <1>3 DEF DemoWrite, Go
<1>4. ASSUME NEW p \in Processes, DemoRead(p)
      PROVE  TypeOK'
  BY <1>4 DEF DemoRead, Go, GetPte, Alive
<1>5. ASSUME NEW p \in Processes, DemoRelease(p)
      PROVE  TypeOK'
  BY <1>5 DEF DemoRelease, Released, Alive
<1>6. ASSUME NEW p \in Processes, Access(p)
      PROVE  TypeOK'
  BY <1>6 DEF Access, Go
<1>7. ASSUME NEW p \in Processes, Fault(p)
      PROVE  TypeOK'
  BY <1>7 DEF Fault, Go
<1>8. ASSUME NEW p \in Processes, CallHook(p)
      PROVE  TypeOK'
  BY <1>8 DEF CallHook, Go, Clear, Alive
<1>9. ASSUME NEW p \in Processes, Munmap(p)
      PROVE  TypeOK'
  BY <1>9 DEF Munmap, Go
<1>10. ASSUME NEW p \in Processes, Die(p)
       PROVE  TypeOK'
  BY <1>10 DEF Die, Go
<1> QED
  BY <1>1, <1>2, <1>3, <1>4, <1>5, <1>6, <1>7, <1>8, <1>9, <1>10
  DEF Next, Process

\* The demo has its types whether or not its processes run one at a time.
THEOREM DemoTypes == Spec => []TypeOK
<1>1. Init => TypeOK
  BY DEF Init, TypeOK
<1>2. TypeOK /\ [Next]_vars => TypeOK'
  BY DemoType
<1> QED
  BY <1>1, <1>2, PTL DEF Spec

-----------------------------------------------------------------------------
\* The globals are free and the processes out: the invariant holds at first.
LEMMA AloneInit == Init => AloneInv
BY NullAssumption
   DEF Init, AloneInv, TypeOK, OneAtATime, AddressIsMine, EntryIsMine,
       BitsInUse, HookWhileOpen, AccessSurvives

\* A step moves one process, the one that runs.
LEMMA AloneNext ==
    ASSUME Alone, AloneInv, [Next]_vars
    PROVE  AloneInv'
<1> USE PageAssumption, NullAssumption
    DEF AloneInv, TypeOK, OneAtATime, AddressIsMine, EntryIsMine, BitsInUse,
        HookWhileOpen, AccessSurvives
<1>1. CASE UNCHANGED vars
  BY <1>1 DEF vars
<1>2. ASSUME NEW p \in Processes, DemoOpen(p)
      PROVE  AloneInv'
  BY <1>2 DEF DemoOpen, Go, HookAtOpen
<1>3. ASSUME NEW p \in Processes, DemoWrite(p)
      PROVE  AloneInv'
  BY <1>3 DEF DemoWrite, Go
<1>4. ASSUME NEW p \in Processes, DemoRead(p)
      PROVE  AloneInv'
  <2>1. gptr = PageOf[p] /\ gpte' = p /\ p # None
    BY <1>4 DEF DemoRead, Go, GetPte
  <2> QED
    BY <1>4, <2>1 DEF DemoRead, Go
<1>5. ASSUME NEW p \in Processes, DemoRelease(p)
      PROVE  AloneInv'
  <2>1. pc[p] = "close" => gpte = p
    BY <1>5 DEF DemoRelease
  <2> QED
    BY <1>5, <2>1 DEF DemoRelease, Released
<1>6. ASSUME NEW p \in Processes, Access(p)
      PROVE  AloneInv'
  BY <1>6 DEF Access, Go
<1>7. ASSUME NEW p \in Processes, Fault(p)
      PROVE  AloneInv'
  <2>1. hook
    BY <1>7 DEF Fault, Go
  <2> QED
    BY <1>7, <2>1 DEF Fault, Go
<1>8. ASSUME NEW p \in Processes, CallHook(p)
      PROVE  AloneInv'
  <2>1. gptr = PageOf[p] /\ gpte = p /\ p # None
    BY <1>8 DEF CallHook, Go
  <2> QED
    BY <1>8, <2>1 DEF CallHook, Go, Clear
<1>9. ASSUME NEW p \in Processes, Munmap(p)
      PROVE  AloneInv'
  BY <1>9 DEF Munmap, Go
<1>10. ASSUME NEW p \in Processes, Die(p)
       PROVE  AloneInv'
  BY <1>10 DEF Die, Go
<1> QED
  BY <1>1, <1>2, <1>3, <1>4, <1>5, <1>6, <1>7, <1>8, <1>9, <1>10
  DEF Next, Process

\* The globals serve one process at a time, for any number of processes.
THEOREM AloneInvariant == ASSUME Alone PROVE Spec => []AloneInv
<1>1. AloneInv /\ [Next]_vars => AloneInv'
  BY AloneNext
<1> QED
  BY AloneInit, <1>1, PTL DEF Spec

-----------------------------------------------------------------------------
\* No process is killed for the reserved bit: when it faults the hook is set
\* and knows its address and its entry.
THEOREM PageSurvives == ASSUME Alone PROVE Spec => []AccessSurvives
<1>1. AloneInv => AccessSurvives
  BY DEF AloneInv
<1> QED
  BY AloneInvariant, <1>1, PTL

\* demo_release takes the bit from the page it was set on.
THEOREM ReleaseUndoes == ASSUME Alone PROVE Spec => []BitUndone
<1>1. AloneInv => BitUndone
  BY DEF AloneInv, BitsInUse, BitUndone
<1> QED
  BY AloneInvariant, <1>1, PTL

\* The hook is set exactly from open to release.
THEOREM HookFollowsDevice == ASSUME Alone PROVE Spec => []HookWhileOpen
<1>1. AloneInv => HookWhileOpen
  BY DEF AloneInv
<1> QED
  BY AloneInvariant, <1>1, PTL

\* What demo_read, the hook and demo_release after close store to is an
\* entry of the process that runs; only the release of a killed process,
\* whose memory is gone, stores elsewhere.
THEOREM StoresStayInside == ASSUME Alone PROVE Spec => StrayOnlyAtExit
<1> DEFINE Step == stray' # stray =>
                     \E p \in Processes : pc[p] \in Dying /\ pc'[p] = "out"
<1>1. ASSUME AloneInv, [Next]_vars
      PROVE  [Step]_vars
  <2> SUFFICES ASSUME stray' # stray
               PROVE  \E p \in Processes : pc[p] \in Dying /\ pc'[p] = "out"
    OBVIOUS
  <2> USE <1>1, PageAssumption, NullAssumption
      DEF AloneInv, TypeOK, AddressIsMine, EntryIsMine, Alive
  <2>1. ASSUME NEW p \in Processes, DemoRead(p)
        PROVE  FALSE
    <3>1. gpte' = p /\ pc[p] = "written"
      BY <2>1 DEF DemoRead, Go, GetPte
    <3> QED
      BY <2>1, <3>1 DEF DemoRead
  <2>2. ASSUME NEW p \in Processes, CallHook(p)
        PROVE  FALSE
    <3>1. gpte = p /\ pc[p] = "hooked"
      BY <2>2 DEF CallHook, Go
    <3> QED
      BY <2>2, <3>1 DEF CallHook
  <2>3. ASSUME NEW p \in Processes, DemoRelease(p)
        PROVE  pc[p] \in Dying /\ pc'[p] = "out"
    <3>1. pc[p] # "close"
      BY <2>3 DEF DemoRelease
    <3> QED
      BY <2>3, <3>1 DEF DemoRelease
  <2>4. \E p \in Processes : DemoRead(p) \/ CallHook(p) \/ DemoRelease(p)
    BY DEF Next, Process, DemoOpen, DemoWrite, Access, Fault, Munmap, Die, vars
  <2> QED
    BY <2>1, <2>2, <2>3, <2>4
<1> QED
  BY AloneInvariant, <1>1, PTL DEF Spec, StrayOnlyAtExit

-----------------------------------------------------------------------------
\* The steps the store to the page may still take: the bit is found set at
\* most once.
StoreSteps(p) ==
    CASE pc[p] = "access" -> IF p \in rsvd THEN 4 ELSE 1
      [] pc[p] = "fault"  -> 3
      [] OTHER            -> 2

StoreAdvances(p) ==
    pc[p] \in {"access", "fault", "hooked"} =>
        \/ pc'[p] \notin {"access", "fault", "hooked"}
        \/ pc'[p] = pc[p] /\ (p \in rsvd' <=> p \in rsvd)
        \/ StoreSteps(p)' < StoreSteps(p)

\* The handler does not take the fault for ever: each step of the store, the
\* fault and the hook comes nearer to the end, as the hook takes the bit of
\* the entry that faults and nobody sets it again.
THEOREM StoreShortens ==
    ASSUME Alone PROVE Spec => [][\A p \in Processes : StoreAdvances(p)]_vars
<1>1. ASSUME AloneInv, Next, NEW p \in Processes,
             pc[p] \in {"access", "fault", "hooked"}
      PROVE  StoreAdvances(p)
  <2>1. /\ \A q \in Processes : pc[q] \notin Gone => q = p
        /\ gpte = p /\ p # None /\ hook
        /\ pc \in [Processes -> Places]
    BY <1>1, NullAssumption
       DEF AloneInv, OneAtATime, EntryIsMine, TypeOK, HookWhileOpen
  <2>2. Access(p) \/ Fault(p) \/ CallHook(p) \/ Die(p)
    <3>1. PICK q \in Processes : DemoOpen(q) \/ Process(q) \/ Die(q)
      BY <1>1 DEF Next
    <3>2. ~ DemoOpen(q)
      BY <1>1 DEF DemoOpen
    <3>3. pc[q] \notin Gone
      <4>1. CASE Process(q)
        BY <4>1 DEF Process, DemoWrite, DemoRead, DemoRelease, Access, Fault,
           CallHook, Munmap, Go
      <4> QED
        BY <3>1, <3>2, <4>1 DEF Die, Go
    <3>4. q = p
      BY <2>1, <3>3
    <3>5. ~ (DemoWrite(p) \/ DemoRead(p) \/ DemoRelease(p) \/ Munmap(p))
      BY <1>1 DEF DemoWrite, DemoRead, DemoRelease, Munmap, Go
    <3> QED
      BY <3>1, <3>2, <3>4, <3>5 DEF Process
  <2>3. CASE Access(p)
    <3>1. CASE pc'[p] = "close"
      BY <3>1 DEF StoreAdvances
    <3>2. CASE p \in rsvd /\ pc[p] = "access" /\ pc'[p] = "fault"
      BY <3>2 DEF StoreAdvances, StoreSteps
    <3> QED
      BY <2>1, <2>3, <3>1, <3>2 DEF Access, Go
  <2>4. CASE Fault(p)
    <3>1. pc[p] = "fault" /\ pc'[p] = "hooked"
      BY <2>1, <2>4 DEF Fault, Go
    <3> QED
      BY <3>1 DEF StoreAdvances, StoreSteps
  <2>5. CASE CallHook(p)
    <3>1. CASE pc[p] = "hooked" /\ pc'[p] = "access" /\ p \notin rsvd'
      BY <3>1 DEF StoreAdvances, StoreSteps
    <3>2. CASE pc'[p] = "badpte"
      BY <3>2 DEF StoreAdvances
    <3> QED
      BY <2>1, <2>5, <3>1, <3>2 DEF CallHook, Go, Clear
  <2>6. CASE Die(p)
    BY <2>1, <2>6 DEF Die, Go, StoreAdvances
  <2> QED
    BY <2>2, <2>3, <2>4, <2>5, <2>6
<1>2. AloneInv /\ [Next]_vars
        => [\A p \in Processes : StoreAdvances(p)]_vars
  BY <1>1 DEF StoreAdvances
<1> QED
  BY AloneInvariant, <1>2, PTL DEF Spec

-----------------------------------------------------------------------------
\* However the processes overlap, a reserved bit is set only in the memory
\* of a process that still has it and has read the device: none is left in a
\* page table that the kernel takes down.
BitsHaveMemory ==
    \A p \in rsvd : pc[p] \in {"access", "fault", "hooked", "close", "munmap"}

THEOREM BitsDieWithMemory == Spec => []BitsHaveMemory
<1>1. Init => BitsHaveMemory
  BY DEF Init, BitsHaveMemory
<1>2. ASSUME TypeOK, BitsHaveMemory, NEW p \in Processes,
             DemoOpen(p) \/ Process(p) \/ Die(p)
      PROVE  BitsHaveMemory'
  <2> USE <1>2 DEF TypeOK, BitsHaveMemory
  <2>1. ASSUME DemoOpen(p) \/ DemoWrite(p) \/ Access(p) PROVE BitsHaveMemory'
    BY <2>1 DEF DemoOpen, DemoWrite, Access, Go
  <2>2. ASSUME DemoRead(p) PROVE BitsHaveMemory'
    <3>1. gpte' \in {p, None}
      BY <2>2 DEF DemoRead, GetPte
    <3> QED
      BY <2>2, <3>1 DEF DemoRead, Go
  <2>3. ASSUME DemoRelease(p) PROVE BitsHaveMemory'
    BY <2>3 DEF DemoRelease, Released
  <2>4. ASSUME Fault(p) \/ Munmap(p) \/ Die(p) PROVE BitsHaveMemory'
    BY <2>4 DEF Fault, Munmap, Die, Go
  <2>5. ASSUME CallHook(p) PROVE BitsHaveMemory'
    BY <2>5 DEF CallHook, Go, Clear
  <2> QED
    BY <2>1, <2>2, <2>3, <2>4, <2>5 DEF Process
<1>3. TypeOK /\ BitsHaveMemory /\ [Next]_vars => BitsHaveMemory'
  BY <1>2 DEF Next, vars, BitsHaveMemory
<1> QED
  BY <1>1, <1>3, DemoTypes, PTL DEF Spec
=============================================================================
