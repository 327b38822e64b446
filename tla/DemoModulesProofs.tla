-------------------------- MODULE DemoModulesProofs --------------------------
(***************************************************************************)
(* Proofs about DemoModules, for any number of processes that open the     *)
(* files and any choice of modules: the types; that a file opened while    *)
(* its module was up, and the kernel's fault hook, keep the module, where  *)
(* the count of references is the heart of both; and that loading and      *)
(* unloading balance, with the handler's view of it.  For the last the     *)
(* tables of the modules are gone through first, then the machine that     *)
(* walks them.                                                             *)
(***************************************************************************)
EXTENDS DemoModules, FiniteSetTheorems, TLAPS

-----------------------------------------------------------------------------
(* The inductive invariant.                                                *)

Opened == {u \in Users : user[u] = "open"}

\* While the module lends out references there is one for each open file.
RefsCounted ==
    stage \in {"load", "undo", "live"} => refs = Cardinality(Opened)

\* A module that is out has no processes in it and no device number.
OutIsEmpty ==
    stage = "out" =>
        (\A u \in Users : user[u] \notin Inside) /\ "chrdev" \notin held

\* Files opened while the module was up are closed before it goes down.
OpenedUp == stage # "live" => \A u \in Opened : since[u] # "live"

FilesInv ==
    /\ TypeOK
    /\ RefsCounted
    /\ OutIsEmpty
    /\ OpenedUp
    /\ FileKeepsModule
    /\ HookHasModule

USE DEF Inside, Places

\* The number of open files is a number, at most that of the processes.
LEMMA OpenedFinite ==
    /\ IsFiniteSet(Opened) /\ Cardinality(Opened) \in 0 .. Cardinality(Users)
    /\ Cardinality(Opened) = 0 <=> Opened = {}
<1>1. IsFiniteSet(Opened) /\ Cardinality(Opened) <= Cardinality(Users)
  BY UsersAssumption, FS_Subset DEF Opened
<1> QED
  BY <1>1, UsersAssumption, FS_CardinalityType, FS_EmptySet

-----------------------------------------------------------------------------
LEMMA FilesInit == Init => FilesInv
<1> SUFFICES ASSUME Init
             PROVE  FilesInv
  OBVIOUS
<1>1. "hello" \in Modules
  BY DEF Modules, LoadOf
<1>2. 0 \in 0 .. Cardinality(Users)
  BY UsersAssumption, FS_CardinalityType
<1>3. Opened = {}
  BY DEF Init, Opened
<1> QED
  BY <1>1, <1>2, <1>3
  DEF Init, FilesInv, TypeOK, RefsCounted, OutIsEmpty, OpenedUp,
      FileKeepsModule, HookHasModule, Opened

\* A process whose open asks for its reference.
LEMMA GetKeeps ==
    ASSUME FilesInv, NEW u \in Users, GetModule(u)
    PROVE  FilesInv'
<1> USE DEF FilesInv
<1>1. /\ user' = [user EXCEPT ![u] = "open"] /\ user[u] = "unheld"
      /\ since' = [since EXCEPT ![u] = stage] /\ refs' = TryModuleGet
      /\ UNCHANGED <<hook, loading, device, irqs>>
  BY DEF GetModule, SetUser
<1>2. /\ user \in [Users -> Inside \cup Places]
      /\ refs \in 0 .. Cardinality(Users)
      /\ stage # "out"
  BY <1>1 DEF TypeOK, OutIsEmpty
<1>3. Opened' = Opened \cup {u} /\ u \notin Opened
  BY <1>1, <1>2 DEF Opened
<1>4. /\ Cardinality(Opened') = Cardinality(Opened) + 1
      /\ Cardinality(Opened') <= Cardinality(Users)
  <2>1. Cardinality(Opened') = Cardinality(Opened) + 1
    BY <1>3, OpenedFinite, FS_AddElement
  <2>2. Opened' \subseteq Users
    BY DEF Opened
  <2> QED
    BY <2>1, <2>2, UsersAssumption, FS_Subset
<1>5. /\ user'[u] = "open" /\ since'[u] = stage
      /\ \A v \in Users \ {u} : user'[v] = user[v] /\ since'[v] = since[v]
  BY <1>1, <1>2 DEF TypeOK
<1>6. refs' \in 0 .. Cardinality(Users)
  <2>1. CASE stage \in {"load", "undo", "live"}
    BY <1>1, <1>4, <2>1, OpenedFinite, UsersAssumption, FS_CardinalityType
    DEF RefsCounted, TryModuleGet
  <2>2. CASE stage \notin {"load", "undo", "live"}
    BY <1>1, <1>2, <2>2 DEF TryModuleGet
  <2> QED
    BY <2>1, <2>2
<1>7. TypeOK'
  <2>1. /\ since' \in [Users -> {"out", "load", "undo", "live", "unload",
                                 "managed"}]
        /\ user' \in [Users -> Inside \cup Places]
    BY <1>1 DEF TypeOK
  <2> QED
    BY <1>1, <1>6, <2>1 DEF TypeOK, loading, device, irqs
<1>8. RefsCounted'
  BY <1>1, <1>4 DEF RefsCounted, TryModuleGet, loading
<1>9. OutIsEmpty' /\ OpenedUp'
  BY <1>1, <1>2, <1>3, <1>5 DEF OutIsEmpty, OpenedUp, Opened, loading
<1>10. FileKeepsModule'
  BY <1>5 DEF FileKeepsModule
<1>11. HookHasModule'
  BY <1>1, <1>2, <1>5 DEF HookHasModule, TypeOK, loading
<1> QED
  BY <1>7, <1>8, <1>9, <1>10, <1>11

\* A process that closes its file gives its reference back.
LEMMA ReleaseKeeps ==
    ASSUME FilesInv, NEW u \in Users, DemoRelease(u)
    PROVE  FilesInv'
<1> USE DEF FilesInv
<1>1. /\ user' = [user EXCEPT ![u] = "leaving"] /\ user[u] = "open"
      /\ refs' = ModulePut
      /\ hook' = IF mod = "rsvd" THEN {} ELSE hook
      /\ UNCHANGED <<since, loading, device, irqs>>
  BY DEF DemoRelease, SetUser, HookAfter
<1>2. /\ user \in [Users -> Inside \cup Places]
      /\ refs \in 0 .. Cardinality(Users)
      /\ Cardinality(Users) \in Nat
      /\ stage # "out"
  BY <1>1, UsersAssumption, FS_CardinalityType DEF TypeOK, OutIsEmpty
<1>3. Opened' = Opened \ {u} /\ u \in Opened
  BY <1>1, <1>2 DEF Opened
<1>4. Cardinality(Opened') = Cardinality(Opened) - 1 /\ Cardinality(Opened) > 0
  <2>1. Cardinality(Opened') = Cardinality(Opened) - 1
    BY <1>3, OpenedFinite, FS_RemoveElement
  <2> QED
    BY <1>3, <2>1, OpenedFinite
<1>5. TypeOK'
  <2>1. refs' \in 0 .. Cardinality(Users)
    BY <1>1, <1>2 DEF ModulePut
  <2>2. user' \in [Users -> Inside \cup Places] /\ hook' \subseteq Users
    BY <1>1, <1>2 DEF TypeOK
  <2> QED
    BY <1>1, <2>1, <2>2 DEF TypeOK, loading, device, irqs
<1>6. RefsCounted'
  BY <1>1, <1>4 DEF RefsCounted, ModulePut, loading
<1>7. /\ user'[u] = "leaving"
      /\ \A v \in Users \ {u} : user'[v] = user[v]
  BY <1>1, <1>2
<1>8. OutIsEmpty' /\ OpenedUp' /\ FileKeepsModule'
  BY <1>1, <1>2, <1>3, <1>7
  DEF OutIsEmpty, OpenedUp, FileKeepsModule, loading
<1>9. HookHasModule'
  <2>1. CASE mod = "rsvd"
    BY <1>1, <2>1 DEF HookHasModule
  <2>2. CASE mod # "rsvd"
    BY <1>1, <1>7, <2>2 DEF HookHasModule, TypeOK, loading
  <2> QED
    BY <2>1, <2>2
<1> QED
  BY <1>5, <1>6, <1>8, <1>9

\* A step of a process that neither gets a reference nor gives one back; in
\* demo_open it sets the hook.
LEMMA OtherUserKeeps ==
    ASSUME FilesInv, NEW u \in Users,
           Find(u) \/ ChrdevOpen(u) \/ DemoOpen(u) \/ Returned(u)
    PROVE  FilesInv'
<1> USE DEF FilesInv
<1> DEFINE a == user[u]
           b == user'[u]
<1>1. /\ user \in [Users -> Inside \cup Places]
      /\ since \in [Users -> {"out", "load", "undo", "live", "unload",
                              "managed"}]
      /\ hook \subseteq Users
  BY DEF TypeOK
<1>2. /\ user' \in [Users -> Inside \cup Places]
      /\ since' \in [Users -> {"out", "load", "undo", "live", "unload",
                               "managed"}]
      /\ \A v \in Users \ {u} : user'[v] = user[v] /\ since'[v] = since[v]
      /\ UNCHANGED <<refs, loading, device, irqs>>
  BY <1>1 DEF Find, ChrdevOpen, DemoOpen, Returned, SetUser
<1>3. /\ a \in {"out", "found", "called", "leaving"}
      /\ b \in {"out", "found", "called", "unheld"}
      /\ b \in Inside => stage # "out"
  BY <1>1 DEF Find, ChrdevOpen, DemoOpen, Returned, SetUser, OutIsEmpty
<1>4. \/ hook' = hook
      \/ hook' = {u} /\ mod = "rsvd" /\ b = "unheld"
  BY <1>1 DEF Find, ChrdevOpen, DemoOpen, Returned, SetUser
<1> HIDE DEF a, b
<1>5. Opened' = Opened
  BY <1>2, <1>3 DEF Opened, a, b
<1>6. TypeOK'
  BY <1>1, <1>2, <1>4 DEF TypeOK, loading, device, irqs
<1>7. RefsCounted'
  BY <1>2, <1>5 DEF RefsCounted, loading
<1>8. OutIsEmpty'
  BY <1>2, <1>3 DEF OutIsEmpty, loading, b
<1>9. OpenedUp'
  <2>1. \A v \in Opened : since'[v] = since[v]
    BY <1>2, <1>3 DEF Opened, a
  <2> QED
    BY <1>2, <1>5, <2>1 DEF OpenedUp, loading
<1>10. FileKeepsModule'
  BY <1>2, <1>3 DEF FileKeepsModule, b
<1>11. HookHasModule'
  <2>1. CASE hook' = hook
    <3>1. u \notin hook
      BY <1>3 DEF HookHasModule, a
    <3> QED
      BY <1>1, <1>2, <2>1, <3>1 DEF HookHasModule, loading
  <2>2. CASE hook' = {u} /\ mod = "rsvd" /\ b = "unheld"
    BY <1>2, <1>3, <2>2 DEF HookHasModule, loading, b
  <2> QED
    BY <1>4, <2>1, <2>2
<1> QED
  BY <1>6, <1>7, <1>8, <1>9, <1>10, <1>11

\* Loading and unloading, but for the end of the module.
LEMMA LoaderTypes ==
    ASSUME TypeOK,
           \/ \E m \in Drivers : Load(m)
           \/ LoadStep \/ LoadFails \/ Loaded \/ Unload \/ UndoStep
           \/ FreeManaged
    PROVE  TypeOK'
<1>1. ASSUME NEW m \in Drivers, Load(m)
      PROVE  TypeOK'
  <2>1. 0 \in 0 .. Cardinality(Users) /\ m \in Modules
    BY UsersAssumption, FS_CardinalityType, DriversAssumption
  <2>2. stale' \in BOOLEAN
    BY <1>1 DEF Load
  <2>3. /\ mod' = m /\ refs' = 0 /\ stage' = "load"
        /\ UNCHANGED <<held, leaked, user, since, hook, device, handler>>
    BY <1>1 DEF Load
  <2> QED
    BY <2>1, <2>2, <2>3 DEF TypeOK, device
<1>2. CASE LoadStep
  <2>1. held' \subseteq Resources
    BY <1>2 DEF LoadStep, TypeOK
  <2>2. threw' \in {0, 1} /\ val' \in {0, 1280}
    BY <1>2 DEF LoadStep, HelloIoWrite, HelloMmioWrite, TypeOK
  <2> QED
    BY <1>2, <2>1, <2>2 DEF LoadStep, files, irqs, TypeOK
<1>3. CASE LoadFails \/ Loaded \/ Unload
  <2>1. /\ stage' \in {"undo", "live", "unload"}
        /\ UNCHANGED <<mod, held, leaked, files, device, irqs>>
    BY <1>3 DEF LoadFails, Loaded, Unload
  <2> QED
    BY <2>1 DEF files, device, irqs, TypeOK
<1>4. CASE UndoStep \/ FreeManaged
  <2>1. held' \subseteq held /\ stage' \in {stage, "managed"}
    BY <1>4 DEF UndoStep, FreeManaged
  <2> QED
    BY <1>4, <2>1 DEF UndoStep, FreeManaged, files, device, irqs, TypeOK
<1> QED
  BY <1>1, <1>2, <1>3, <1>4

LEMMA LoaderKeeps ==
    ASSUME FilesInv,
           \/ \E m \in Drivers : Load(m)
           \/ LoadStep \/ LoadFails \/ Loaded \/ Unload \/ UndoStep
           \/ FreeManaged
    PROVE  FilesInv'
<1> USE DEF FilesInv
<1>1. /\ UNCHANGED <<user, since, hook>>
      /\ stage' # "out"
      /\ stage' = "live" => stage \in {"load", "live"}
      /\ stage' \in {"load", "undo"} => stage \in {"load", "undo", "out"}
      /\ stage' # stage /\ stage = "live" => refs = 0
      /\ stage = "out" => stage' = "load" /\ refs' = 0
      /\ stage # "out" => refs' = refs /\ mod' = mod
  BY DEF Load, LoadStep, LoadFails, Loaded, Unload, UndoStep, FreeManaged, files
<1>2. Opened' = Opened /\ Cardinality(Opened') = Cardinality(Opened)
  BY <1>1 DEF Opened
<1>3. TypeOK'
  BY LoaderTypes
<1>4. RefsCounted'
  <2>1. CASE stage = "out"
    <3>1. Opened = {}
      BY <2>1 DEF OutIsEmpty, Opened
    <3> QED
      BY <1>1, <1>2, <2>1, <3>1, OpenedFinite DEF RefsCounted
  <2>2. CASE stage # "out"
    BY <1>1, <1>2, <2>2 DEF RefsCounted
  <2> QED
    BY <2>1, <2>2
<1>5. OutIsEmpty'
  BY <1>1 DEF OutIsEmpty
<1>6. OpenedUp'
  <2>1. CASE stage # "live"
    BY <1>1, <1>2, <2>1 DEF OpenedUp
  <2>2. CASE stage = "live" /\ stage' # stage
    BY <1>1, <1>2, <2>2, OpenedFinite DEF OpenedUp, RefsCounted
  <2> QED
    BY <2>1, <2>2 DEF OpenedUp
<1>7. FileKeepsModule' /\ HookHasModule'
  BY <1>1 DEF FileKeepsModule, HookHasModule, OutIsEmpty, TypeOK
<1> QED
  BY <1>3, <1>4, <1>5, <1>6, <1>7

\* The end of the module strands the files that are open, and catches the
\* processes in its text.
LEMMA GoneKeeps == FilesInv /\ Gone => FilesInv'
<1> SUFFICES ASSUME FilesInv, Gone
             PROVE  FilesInv'
  OBVIOUS
<1> USE DEF FilesInv
<1>1. /\ stage = "managed" /\ stage' = "out"
      /\ held' = held \cap {"irq"}
      /\ user' = [u \in Users |-> After(user[u])]
      /\ leaked' = leaked \cup ({mod} \X (held \ {"irq", "ports"}))
      /\ UNCHANGED <<mod, todo, refs, since, hook, device, irqs>>
  BY DEF Gone
<1>2. ASSUME NEW u \in Users
      PROVE  /\ user'[u] \in Places
             /\ user'[u] = "stranded" <=> u \in Opened \/ user[u] = "stranded"
             /\ user[u] \in {"unheld", "dangling"} => user'[u] = "dangling"
  <2>1. user'[u] = After(user[u]) /\ user[u] \in Inside \cup Places
    BY <1>1 DEF TypeOK
  <2> QED
    BY <2>1 DEF After, Opened
<1>3. Opened' = {}
  BY <1>2 DEF Opened
<1>4. TypeOK'
  <2>1. leaked' \subseteq (Modules \cup {"hello_tic"}) \X
                             (Resources \cup {"dma_buf"})
    BY <1>1 DEF TypeOK
  <2>2. user' \in [Users -> Inside \cup Places]
    BY <1>1, <1>2
  <2> QED
    BY <1>1, <2>1, <2>2 DEF TypeOK, device, irqs
<1>5. RefsCounted' /\ OutIsEmpty' /\ OpenedUp'
  BY <1>1, <1>2, <1>3 DEF RefsCounted, OutIsEmpty, OpenedUp
<1>6. FileKeepsModule'
  BY <1>1, <1>2 DEF FileKeepsModule, OpenedUp
<1>7. HookHasModule'
  BY <1>1, <1>2 DEF HookHasModule, OpenedUp, Opened, TypeOK
<1> QED
  BY <1>4, <1>5, <1>6, <1>7

LEMMA FilesNext == FilesInv /\ [Next]_vars => FilesInv'
<1> SUFFICES ASSUME FilesInv, [Next]_vars
             PROVE  FilesInv'
  OBVIOUS
<1>1. ASSUME UNCHANGED <<mod, stage, held, files>>, TypeOK'
      PROVE  FilesInv'
  BY <1>1
  DEF FilesInv, files, RefsCounted, OutIsEmpty, OpenedUp, FileKeepsModule,
      HookHasModule, Opened
<1>2. CASE UNCHANGED vars
  BY <1>1, <1>2 DEF vars, loading, files, device, irqs, FilesInv, TypeOK
<1>3. CASE Realize \/ Uninit \/ Handler \/ TestInterrupt
  <2>1. UNCHANGED <<mod, stage, held, files>>
    BY <1>3 DEF Realize, Uninit, Handler, HandlerReads, HandlerAcks,
                TestInterrupt, loading
  <2>2. TypeOK'
    <3>1. CASE Realize
      <4>1. leaked' \subseteq (Modules \cup {"hello_tic"}) \X
                                 (Resources \cup {"dma_buf"})
        BY <3>1 DEF Realize, FilesInv, TypeOK
      <4>2. plugged' \in BOOLEAN
        <5>1. plugged' = TRUE \/ plugged' = plugged
          BY <3>1, Zenon DEF Realize
        <5>2. plugged \in BOOLEAN
          BY DEF FilesInv, TypeOK
        <5> QED
          BY <5>1, <5>2, Zenon
      <4>3. threw' \in {0, 1} /\ val' \in {0, 1280}
        BY <3>1 DEF Realize, FilesInv, TypeOK
      <4>4. UNCHANGED <<mod, stage, todo, held, narrow, files, irqs>>
        BY <3>1 DEF Realize
      <4> QED
        BY <4>1, <4>2, <4>3, <4>4 DEF files, irqs, FilesInv, TypeOK
    <3>2. CASE Uninit
      <4>1. plugged' \in BOOLEAN
        BY <3>2, Zenon DEF Uninit
      <4>2. threw' \in {0, 1}
        BY <3>2 DEF Uninit
      <4>3. UNCHANGED <<val, narrow, loading, files, irqs>>
        BY <3>2 DEF Uninit
      <4> QED
        BY <4>1, <4>2, <4>3 DEF loading, files, irqs, FilesInv, TypeOK
    <3>3. CASE HandlerReads
      BY <3>3 DEF HandlerReads, UsesInfo, loading, files, device, FilesInv,
                  TypeOK
    <3>4. CASE HandlerAcks
      BY <3>4 DEF HandlerAcks, UsesInfo, HelloIoWrite, loading, files,
                  FilesInv, TypeOK
    <3>5. CASE TestInterrupt
      BY <3>5 DEF TestInterrupt, loading, files, device, FilesInv, TypeOK
    <3> QED
      BY <1>3, <3>1, <3>2, <3>3, <3>4, <3>5 DEF Handler
  <2> QED
    BY <1>1, <2>1, <2>2
<1> QED
  BY <1>2, <1>3, GetKeeps, ReleaseKeeps, OtherUserKeeps, LoaderKeeps,
     GoneKeeps
  DEF Next, Loader

-----------------------------------------------------------------------------
(* The tables: what a load or an unload has to give back.                  *)

StepNames ==
    Resources \cup {"id", "line", "raise", "drvdata", "number", "touch"}

\* What the first n of the steps have acquired.
Acquired(steps, n) == {steps[i] : i \in 1 .. n} \cap Resources

\* The steps of list from place a on give back what is in h: each has it to
\* give, once, and they leave only what the kernel frees, the address of
\* the ports, and the device mem_tracker forgets.
GivesBack(list, a, h, m) ==
    /\ \A i \in a .. Len(list) : list[i] \in h /\ list[i] # "ports"
    /\ \A i, j \in a .. Len(list) : list[i] = list[j] => i = j
    /\ \A r \in h \ (Managed \cup {"ports"}) :
          \/ m = "memtrack" /\ r = "device"
          \/ \E i \in a .. Len(list) : list[i] = r

\* Each step that can fail has its place in undo.
UndoFits(steps, fails, undo, m) ==
    \A n \in 1 .. Len(steps) : steps[n] \in DOMAIN fails =>
        /\ fails[steps[n]] \in 1 .. Len(undo) + 1
        /\ GivesBack(undo, fails[steps[n]], Acquired(steps, n - 1), m)

\* A PCI driver requests its interrupt with info complete, and no step after
\* that can fail.
IrqLast(steps, fails, m) ==
    \A n \in 1 .. Len(steps) : steps[n] = "irq" =>
        /\ m \in {"irq", "driver_pci"}
        /\ {"info", "ports"} \subseteq Acquired(steps, n)
        /\ \A k \in n + 1 .. Len(steps) : steps[k] \notin DOMAIN fails

Fits(steps, fails, undo, unload, m) ==
    /\ {steps, undo, unload} \subseteq Seq(StepNames)
    /\ UndoFits(steps, fails, undo, m)
    /\ GivesBack(unload, 1, Acquired(steps, Len(steps)), m)
    /\ m \in PciDrivers => IrqLast(steps, fails, m)

TableFits(m) == Fits(LoadOf[m].steps, LoadOf[m].fails, LoadOf[m].undo,
                     UnloadOf[m], m)

LEMMA HelloFits == TableFits("hello")
<1>1. /\ LoadOf["hello"] = [steps |-> <<>>, fails |-> <<>>, undo |-> <<>>]
      /\ UnloadOf["hello"] = <<>>
  BY DEF LoadOf, UnloadOf, Hello, Loads
<1>2. Acquired(<<>>, 0) = {}
  BY DEF Acquired
<1> QED
  BY <1>1, <1>2 DEF TableFits, Fits, UndoFits, GivesBack, PciDrivers

\* mem_tracker, with a fourth step whose failure takes the third's label.
LEMMA MemtrackFits ==
    ASSUME NEW steps, steps = <<"chrdev", "class", "device", "sysfs">>,
           NEW undo, undo = <<"class", "chrdev">>,
           NEW unload, unload = <<"device", "class", "chrdev", "sysfs">>
    PROVE  Fits(steps, MemtrackFails, undo, unload, "memtrack")
<1>1. /\ Acquired(steps, 0) = {}
      /\ Acquired(steps, 1) = {"chrdev"}
      /\ Acquired(steps, 2) = {"chrdev", "class"}
      /\ Acquired(steps, 3) = {"chrdev", "class", "device"}
      /\ Acquired(steps, 4) = {"chrdev", "class", "device", "sysfs"}
  BY DEF Acquired, Resources
<1>2. /\ GivesBack(undo, 3, Acquired(steps, 0), "memtrack")
      /\ GivesBack(undo, 2, Acquired(steps, 1), "memtrack")
      /\ GivesBack(undo, 1, Acquired(steps, 2), "memtrack")
      /\ GivesBack(undo, 1, Acquired(steps, 3), "memtrack")
  BY <1>1 DEF GivesBack
<1>3. GivesBack(unload, 1, Acquired(steps, 4), "memtrack")
  BY <1>1 DEF GivesBack
<1>4. ASSUME NEW n \in 1 .. 4
      PROVE  /\ MemtrackFails[steps[n]] \in 1 .. 3
             /\ GivesBack(undo, MemtrackFails[steps[n]],
                          Acquired(steps, n - 1), "memtrack")
  <2>1. n = 1 \/ n = 2 \/ n = 3 \/ n = 4
    OBVIOUS
  <2>2. CASE n = 1
    BY <1>2, <2>2 DEF MemtrackFails, MemtrackFailsAt
  <2>3. CASE n = 2
    BY <1>2, <2>3 DEF MemtrackFails, MemtrackFailsAt
  <2>4. CASE n = 3
    BY <1>2, <2>4 DEF MemtrackFails, MemtrackFailsAt
  <2>5. CASE n = 4
    BY <1>2, <2>5 DEF MemtrackFails, MemtrackFailsAt
  <2> QED
    BY <2>1, <2>2, <2>3, <2>4, <2>5
<1>5. Len(steps) = 4 /\ Len(undo) = 2
  OBVIOUS
<1>6. UndoFits(steps, MemtrackFails, undo, "memtrack")
  BY <1>4, <1>5 DEF UndoFits
<1>7. {steps, undo, unload} \subseteq Seq(StepNames)
  BY DEF StepNames, Resources
<1> QED
  BY <1>3, <1>5, <1>6, <1>7 DEF Fits, PciDrivers

\* The other three character devices.
LEMMA DemosFit ==
    ASSUME NEW steps, steps = <<"chrdev", "class", "device">>,
           NEW undo, undo = <<"class", "chrdev">>,
           NEW unload, unload = <<"device", "class", "chrdev">>,
           NEW m \in {"ptw", "tlb", "rsvd"}
    PROVE  Fits(steps, DemoFails, undo, unload, m)
<1>1. /\ Acquired(steps, 0) = {}
      /\ Acquired(steps, 1) = {"chrdev"}
      /\ Acquired(steps, 2) = {"chrdev", "class"}
      /\ Acquired(steps, 3) = {"chrdev", "class", "device"}
  BY DEF Acquired, Resources
<1>2. /\ GivesBack(undo, 3, Acquired(steps, 0), m)
      /\ GivesBack(undo, 2, Acquired(steps, 1), m)
      /\ GivesBack(undo, 1, Acquired(steps, 2), m)
  BY <1>1 DEF GivesBack
<1>3. GivesBack(unload, 1, Acquired(steps, 3), m)
  BY <1>1 DEF GivesBack
<1>4. ASSUME NEW n \in 1 .. 3
      PROVE  /\ DemoFails[steps[n]] \in 1 .. 3
             /\ GivesBack(undo, DemoFails[steps[n]],
                          Acquired(steps, n - 1), m)
  <2>1. n = 1 \/ n = 2 \/ n = 3
    OBVIOUS
  <2>2. CASE n = 1
    BY <1>2, <2>2 DEF DemoFails
  <2>3. CASE n = 2
    BY <1>2, <2>3 DEF DemoFails
  <2>4. CASE n = 3
    BY <1>2, <2>4 DEF DemoFails
  <2> QED
    BY <2>1, <2>2, <2>3, <2>4
<1>5. Len(steps) = 3 /\ Len(undo) = 2
  OBVIOUS
<1>6. UndoFits(steps, DemoFails, undo, m)
  BY <1>4, <1>5 DEF UndoFits
<1>7. {steps, undo, unload} \subseteq Seq(StepNames)
  BY DEF StepNames, Resources
<1>8. m \notin PciDrivers
  BY DEF PciDrivers
<1> QED
  BY <1>3, <1>5, <1>6, <1>7, <1>8 DEF Fits

\* The platform driver acquires nothing the kernel does not free.
LEMMA PlatformFits ==
    ASSUME NEW steps, steps = <<"regs", "number", "irq", "touch">>,
           NEW fails, fails = [regs |-> 1, number |-> 1, irq |-> 1]
    PROVE  Fits(steps, fails, <<>>, <<>>, "platform")
<1>1. \A n \in 0 .. 4 : Acquired(steps, n) \subseteq Managed
  BY DEF Acquired, Resources, Managed
<1>2. \A n \in 0 .. 4 : GivesBack(<<>>, 1, Acquired(steps, n), "platform")
  BY <1>1 DEF GivesBack
<1>3. Len(steps) = 4 /\ \A s \in DOMAIN fails : fails[s] = 1
  OBVIOUS
<1>4. UndoFits(steps, fails, <<>>, "platform")
  BY <1>2, <1>3 DEF UndoFits
<1>5. {steps, <<>>} \subseteq Seq(StepNames)
  BY DEF StepNames, Resources
<1> QED
  BY <1>2, <1>3, <1>4, <1>5 DEF Fits, PciDrivers

PciFails == [info |-> 5, enabled |-> 4, regions |-> 3, mapping |-> 2,
             line |-> 1, irq |-> 1]

LEMMA PciFailsAre ==
    /\ DOMAIN PciFails = {"info", "enabled", "regions", "mapping", "line",
                          "irq"}
    /\ PciFails["info"] = 5 /\ PciFails["enabled"] = 4
    /\ PciFails["regions"] = 3 /\ PciFails["mapping"] = 2
    /\ PciFails["line"] = 1 /\ PciFails["irq"] = 1
BY DEF PciFails

PciUndo   == <<"mapping", "regions", "enabled", "info">>
PciUnload == <<"regions", "enabled", "mapping", "info">>

\* What the PCI drivers begin with, and its end.
PciHeld == {"info", "enabled", "regions", "ports", "mapping"}

LEMMA PciListsAre ==
    Len(PciUndo) = 4 /\ {PciUndo, PciUnload} \subseteq Seq(StepNames)
BY DEF PciUndo, PciUnload, StepNames, Resources

LEMMA PciListsGiveBack ==
    ASSUME NEW m \in PciDrivers
    PROVE  /\ GivesBack(PciUndo, 5, {}, m)
           /\ GivesBack(PciUndo, 4, {"info"}, m)
           /\ GivesBack(PciUndo, 3, {"info", "enabled"}, m)
           /\ GivesBack(PciUndo, 2,
                        {"info", "enabled", "regions", "ports"}, m)
           /\ GivesBack(PciUndo, 1, PciHeld, m)
           /\ GivesBack(PciUnload, 1, PciHeld, m)
           /\ GivesBack(PciUnload, 1, PciHeld \cup {"irq"}, m)
<1>1. GivesBack(PciUnload, 1, PciHeld \cup {"irq"}, m)
  BY DEF GivesBack, PciUnload, PciHeld, Managed
<1> QED
  BY <1>1 DEF GivesBack, PciUndo, PciUnload, PciHeld

\* The two that request the interrupt do it near the end.
IrqSteps == <<"info", "enabled", "regions", "ports", "mapping", "line", "irq",
              "raise", "drvdata">>

LEMMA PciIrqFits ==
    ASSUME NEW m \in {"irq", "driver_pci"}
    PROVE  Fits(IrqSteps, PciFails, PciUndo, PciUnload, m)
<1>1. m \in PciDrivers
  BY DEF PciDrivers
<1>2. /\ Acquired(IrqSteps, 0) = {}
      /\ Acquired(IrqSteps, 1) = {"info"}
      /\ Acquired(IrqSteps, 2) = {"info", "enabled"}
      /\ Acquired(IrqSteps, 4) = {"info", "enabled", "regions", "ports"}
      /\ Acquired(IrqSteps, 5) = PciHeld
      /\ Acquired(IrqSteps, 6) = PciHeld
      /\ Acquired(IrqSteps, 7) = PciHeld \cup {"irq"}
      /\ Acquired(IrqSteps, 9) = PciHeld \cup {"irq"}
  BY DEF Acquired, Resources, PciHeld, IrqSteps
<1>3. Len(IrqSteps) = 9 /\ IrqSteps \in Seq(StepNames)
  BY DEF StepNames, Resources, IrqSteps
<1>4. UndoFits(IrqSteps, PciFails, PciUndo, m)
  <2> SUFFICES ASSUME NEW n \in 1 .. 9, IrqSteps[n] \in DOMAIN PciFails
               PROVE  /\ PciFails[IrqSteps[n]] \in 1 .. 5
                      /\ GivesBack(PciUndo, PciFails[IrqSteps[n]],
                                   Acquired(IrqSteps, n - 1), m)
    BY <1>3, PciListsAre DEF UndoFits
  <2>1. \/ n = 1 /\ IrqSteps[n] = "info"
        \/ n = 2 /\ IrqSteps[n] = "enabled"
        \/ n = 3 /\ IrqSteps[n] = "regions"
        \/ n = 5 /\ IrqSteps[n] = "mapping"
        \/ n = 6 /\ IrqSteps[n] = "line"
        \/ n = 7 /\ IrqSteps[n] = "irq"
    BY PciFailsAre DEF IrqSteps
  <2>2. /\ GivesBack(PciUndo, 5, Acquired(IrqSteps, 0), m)
        /\ GivesBack(PciUndo, 4, Acquired(IrqSteps, 1), m)
        /\ GivesBack(PciUndo, 3, Acquired(IrqSteps, 2), m)
        /\ GivesBack(PciUndo, 2, Acquired(IrqSteps, 4), m)
        /\ GivesBack(PciUndo, 1, Acquired(IrqSteps, 5), m)
        /\ GivesBack(PciUndo, 1, Acquired(IrqSteps, 6), m)
    BY <1>1, <1>2, PciListsGiveBack
  <2> QED
    BY <2>1, <2>2, PciFailsAre
<1>5. IrqLast(IrqSteps, PciFails, m)
  <2>1. \A n \in 1 .. 9 : IrqSteps[n] = "irq" => n = 7
    BY DEF IrqSteps
  <2>2. \A k \in 8 .. 9 : IrqSteps[k] \notin DOMAIN PciFails
    BY PciFailsAre DEF IrqSteps
  <2> QED
    BY <1>2, <1>3, <2>1, <2>2 DEF IrqLast, PciHeld
<1> QED
  BY <1>1, <1>2, <1>3, <1>4, <1>5, PciListsAre, PciListsGiveBack DEF Fits

\* The other two never request it.
PlainSteps(sixth) == <<"info", "enabled", "regions", "ports", "mapping",
                       sixth, "drvdata">>

LEMMA PciPlainFits ==
    ASSUME NEW m \in {"mmio", "portio"}, NEW sixth \in {"id", "raise"}
    PROVE  Fits(PlainSteps(sixth), PciFails, PciUndo, PciUnload, m)
<1> DEFINE steps == PlainSteps(sixth)
<1> HIDE DEF steps
<1>1. m \in PciDrivers
  BY DEF PciDrivers
<1>2. /\ Acquired(steps, 0) = {}
      /\ Acquired(steps, 1) = {"info"}
      /\ Acquired(steps, 2) = {"info", "enabled"}
      /\ Acquired(steps, 4) = {"info", "enabled", "regions", "ports"}
      /\ Acquired(steps, 7) = PciHeld
  BY DEF Acquired, Resources, PciHeld, PlainSteps, steps
<1>3. Len(steps) = 7 /\ steps \in Seq(StepNames)
  BY DEF StepNames, Resources, PlainSteps, steps
<1>4. UndoFits(steps, PciFails, PciUndo, m)
  <2> SUFFICES ASSUME NEW n \in 1 .. 7, steps[n] \in DOMAIN PciFails
               PROVE  /\ PciFails[steps[n]] \in 1 .. 5
                      /\ GivesBack(PciUndo, PciFails[steps[n]],
                                   Acquired(steps, n - 1), m)
    BY <1>3, PciListsAre DEF UndoFits
  <2>1. \/ n = 1 /\ steps[n] = "info"
        \/ n = 2 /\ steps[n] = "enabled"
        \/ n = 3 /\ steps[n] = "regions"
        \/ n = 5 /\ steps[n] = "mapping"
    BY PciFailsAre DEF PlainSteps, steps
  <2>2. /\ GivesBack(PciUndo, 5, Acquired(steps, 0), m)
        /\ GivesBack(PciUndo, 4, Acquired(steps, 1), m)
        /\ GivesBack(PciUndo, 3, Acquired(steps, 2), m)
        /\ GivesBack(PciUndo, 2, Acquired(steps, 4), m)
    BY <1>1, <1>2, PciListsGiveBack
  <2> QED
    BY <2>1, <2>2, PciFailsAre
<1>5. IrqLast(steps, PciFails, m)
  <2>1. \A n \in 1 .. 7 : steps[n] # "irq"
    BY DEF PlainSteps, steps
  <2> QED
    BY <1>3, <2>1 DEF IrqLast
<1>6. Fits(steps, PciFails, PciUndo, PciUnload, m)
  BY <1>1, <1>2, <1>3, <1>4, <1>5, PciListsAre, PciListsGiveBack DEF Fits
<1> QED
  BY <1>6 DEF steps

\* Every module's tables fit.
LEMMA TablesFit == \A m \in Modules : TableFits(m)
<1> SUFFICES ASSUME NEW m \in Modules
             PROVE  TableFits(m)
  OBVIOUS
<1>1. \/ m = "hello" \/ m = "memtrack" \/ m \in {"ptw", "tlb", "rsvd"}
      \/ m \in PciDrivers \/ m = "platform"
  BY DEF Modules, LoadOf, PciDrivers
<1>2. CASE m = "memtrack"
  BY <1>2, MemtrackFits
  DEF TableFits, LoadOf, UnloadOf, MemtrackInit, MemtrackCleanup, Loads
<1>3. CASE m \in {"ptw", "tlb", "rsvd"}
  BY <1>3, DemosFit
  DEF TableFits, LoadOf, UnloadOf, PtwInit, PtwCleanup, TlbInit, TlbCleanup,
      RsvdInit, RsvdCleanup, Loads
<1>4. CASE m \in PciDrivers
  <2>1. /\ LoadOf[m].fails = PciFails /\ LoadOf[m].undo = PciUndo
        /\ UnloadOf[m] = PciUnload
    BY <1>4
    DEF PciDrivers, LoadOf, UnloadOf, IrqProbe, IrqRemove, DriverPciProbe,
        DriverPciRemove, MmioProbe, MmioRemove, PortioProbe, PortioRemove,
        PciLoads, PciFails, PciUndo, PciUnload, Loads
  <2>2. CASE m \in {"irq", "driver_pci"}
    <3>1. LoadOf[m].steps = IrqSteps
      BY <2>2 DEF LoadOf, IrqProbe, DriverPciProbe, PciLoads, Loads, IrqSteps
    <3> QED
      BY <2>1, <2>2, <3>1, PciIrqFits DEF TableFits
  <2>3. CASE m = "mmio"
    <3>1. LoadOf[m].steps = PlainSteps("id")
      BY <2>3 DEF LoadOf, MmioProbe, PciLoads, Loads, PlainSteps
    <3> QED
      BY <2>1, <2>3, <3>1, PciPlainFits DEF TableFits
  <2>4. CASE m = "portio"
    <3>1. LoadOf[m].steps = PlainSteps("raise")
      BY <2>4 DEF LoadOf, PortioProbe, PciLoads, Loads, PlainSteps
    <3> QED
      BY <2>1, <2>4, <3>1, PciPlainFits DEF TableFits
  <2> QED
    BY <1>4, <2>2, <2>3, <2>4 DEF PciDrivers
<1>5. CASE m = "platform"
  BY <1>5, PlatformFits
  DEF TableFits, LoadOf, UnloadOf, PlatformProbe, PlatformRemove, Loads
<1> QED
  BY <1>1, <1>2, <1>3, <1>4, <1>5, HelloFits

-----------------------------------------------------------------------------
(* The ledger: held is what the steps done have acquired, or what the      *)
(* steps left give back.                                                   *)

Steps == LoadOf[mod].steps

Passed == Len(Steps) - Len(todo)

LoadAcquires ==
    stage = "load" =>
        /\ Passed \in 0 .. Len(Steps)
        /\ \A i \in 1 .. Len(todo) : todo[i] = Steps[Passed + i]
        /\ held = Acquired(Steps, Passed)

LiveHoldsAll == stage = "live" => held = Acquired(Steps, Len(Steps))

UndoGivesBack ==
    /\ stage \in {"undo", "unload", "managed"} => GivesBack(todo, 1, held, mod)
    /\ stage = "managed" => todo = <<>>

OutHoldsNothing == stage = "out" => held = {} /\ handler = "idle"

LeftBehind ==
    leaked \subseteq {<<"memtrack", "device">>, <<"hello_tic", "dma_buf">>}

\* A PCI driver has its interrupt requested, or its handler running, when
\* it has its info, or is on its way out.
IrqHasInfo ==
    /\ mod \in PciDrivers /\ "irq" \in held =>
          /\ mod \in {"irq", "driver_pci"}
          /\ stage \in {"load", "live", "unload", "managed"}
    /\ handler = "ack" =>
          /\ mod \in {"irq", "driver_pci"}
          /\ \/ stage \in {"unload", "managed"}
             \/ stage \in {"load", "live"} /\ "irq" \in held

LedgerInv ==
    /\ mod \in Modules /\ todo \in Seq(StepNames)
    /\ LoadAcquires
    /\ LiveHoldsAll
    /\ UndoGivesBack
    /\ OutHoldsNothing
    /\ LeftBehind
    /\ IrqHasInfo

LEMMA LedgerInit == Init => LedgerInv
<1>1. "hello" \in Modules /\ <<>> \in Seq(StepNames)
  BY DEF Modules, LoadOf
<1> QED
  BY <1>1
  DEF Init, LedgerInv, LoadAcquires, LiveHoldsAll, UndoGivesBack,
      OutHoldsNothing, LeftBehind, IrqHasInfo

\* The rest of a list that gives back gives back.
LEMMA RestGivesBack ==
    ASSUME NEW list \in Seq(StepNames), NEW a \in 1 .. Len(list) + 1,
           NEW h, NEW m, GivesBack(list, a, h, m)
    PROVE  /\ SubSeq(list, a, Len(list)) \in Seq(StepNames)
           /\ GivesBack(SubSeq(list, a, Len(list)), 1, h, m)
<1> DEFINE rest == SubSeq(list, a, Len(list))
<1>1. /\ rest \in Seq(StepNames) /\ Len(rest) = Len(list) - a + 1
      /\ \A i \in 1 .. Len(rest) : rest[i] = list[a + i - 1]
  OBVIOUS
<1>2. \A i \in 1 .. Len(rest) : a + i - 1 \in a .. Len(list)
  BY <1>1
<1>3. \A i \in a .. Len(list) :
         i - a + 1 \in 1 .. Len(rest) /\ rest[i - a + 1] = list[i]
  BY <1>1
<1> HIDE DEF rest
<1>4. GivesBack(rest, 1, h, m)
  <2>1. \A i \in 1 .. Len(rest) : rest[i] \in h /\ rest[i] # "ports"
    BY <1>1, <1>2 DEF GivesBack
  <2>2. ASSUME NEW i \in 1 .. Len(rest), NEW j \in 1 .. Len(rest),
               rest[i] = rest[j]
        PROVE  i = j
    <3>1. list[a + i - 1] = list[a + j - 1]
      BY <1>1, <2>2
    <3>2. a + i - 1 = a + j - 1
      BY <1>2, <3>1 DEF GivesBack
    <3> QED
      BY <3>2
  <2>3. ASSUME NEW r \in h \ (Managed \cup {"ports"})
        PROVE  \/ m = "memtrack" /\ r = "device"
               \/ \E i \in 1 .. Len(rest) : rest[i] = r
    <3>1. CASE m = "memtrack" /\ r = "device"
      BY <3>1
    <3>2. CASE \E i \in a .. Len(list) : list[i] = r
      <4>1. PICK i \in a .. Len(list) : list[i] = r
        BY <3>2
      <4> QED
        BY <1>3, <4>1
    <3> QED
      BY <2>3, <3>1, <3>2 DEF GivesBack
  <2> QED
    BY <2>1, <2>2, <2>3 DEF GivesBack
<1> QED
  BY <1>1, <1>4 DEF rest

\* A step of it takes its own resource, and no other list entry's.
LEMMA StepGivesBack ==
    ASSUME NEW list \in Seq(StepNames), list # <<>>,
           NEW h, NEW m, GivesBack(list, 1, h, m)
    PROVE  /\ Head(list) \in h /\ Tail(list) \in Seq(StepNames)
           /\ GivesBack(Tail(list), 1, h \ Gives(Head(list)), m)
<1> DEFINE rest == Tail(list)
<1>1. /\ rest \in Seq(StepNames) /\ Len(list) \in Nat \ {0}
      /\ Len(rest) = Len(list) - 1 /\ Head(list) = list[1]
      /\ \A i \in 1 .. Len(rest) : rest[i] = list[i + 1]
  OBVIOUS
<1>2. \A i \in 1 .. Len(rest) : i + 1 \in 1 .. Len(list) /\ i + 1 # 1
  BY <1>1
<1>3. 1 \in 1 .. Len(list)
  BY <1>1
<1>4. Head(list) \in h
  BY <1>1, <1>3 DEF GivesBack
<1>5. /\ Head(list) \in Gives(Head(list))
      /\ Gives(Head(list)) \subseteq {Head(list), "ports"}
  BY DEF Gives
<1> HIDE DEF rest
<1>6. GivesBack(rest, 1, h \ Gives(Head(list)), m)
  <2>1. \A i \in 1 .. Len(rest) :
           rest[i] \in h \ Gives(Head(list)) /\ rest[i] # "ports"
    BY <1>1, <1>2, <1>3, <1>5 DEF GivesBack
  <2>2. \A i, j \in 1 .. Len(rest) : rest[i] = rest[j] => i = j
    BY <1>1, <1>2 DEF GivesBack
  <2>3. ASSUME NEW r \in h \ Gives(Head(list)), r \notin Managed \cup {"ports"}
        PROVE  \/ m = "memtrack" /\ r = "device"
               \/ \E i \in 1 .. Len(rest) : rest[i] = r
    <3>1. CASE \E i \in 1 .. Len(list) : list[i] = r
      <4>1. PICK i \in 1 .. Len(list) : list[i] = r
        BY <3>1
      <4>2. i # 1
        BY <1>1, <1>5, <2>3, <4>1
      <4>3. i - 1 \in 1 .. Len(rest) /\ rest[i - 1] = r
        BY <1>1, <4>1, <4>2
      <4> QED
        BY <4>3
    <3>2. CASE m = "memtrack" /\ r = "device"
      BY <3>2
    <3> QED
      BY <2>3, <3>1, <3>2 DEF GivesBack
  <2> QED
    BY <2>1, <2>2, <2>3 DEF GivesBack
<1> QED
  BY <1>1, <1>4, <1>6 DEF rest

\* What a module in its load has, its next step included.
LEMMA LoadLedger ==
    ASSUME LedgerInv, stage = "load"
    PROVE  /\ Steps \in Seq(StepNames) /\ Passed \in 0 .. Len(Steps)
           /\ held = Acquired(Steps, Passed)
           /\ todo = <<>> => Passed = Len(Steps)
           /\ todo # <<>> =>
                 /\ Passed + 1 \in 1 .. Len(Steps)
                 /\ Head(todo) = Steps[Passed + 1]
                 /\ Tail(todo) \in Seq(StepNames)
                 /\ Len(Tail(todo)) = Len(todo) - 1
                 /\ \A i \in 1 .. Len(Tail(todo)) :
                       Tail(todo)[i] = todo[i + 1]
<1>1. TableFits(mod) /\ todo \in Seq(StepNames)
  BY TablesFit DEF LedgerInv
<1>2. Steps \in Seq(StepNames)
  BY <1>1 DEF TableFits, Fits, Steps
<1>3. /\ Passed \in 0 .. Len(Steps)
      /\ held = Acquired(Steps, Passed)
      /\ \A i \in 1 .. Len(todo) : todo[i] = Steps[Passed + i]
  BY DEF LedgerInv, LoadAcquires
<1>4. Len(Steps) \in Nat /\ Len(todo) \in Nat
  BY <1>1, <1>2
<1>5. todo = <<>> => Passed = Len(Steps)
  BY <1>4 DEF Passed
<1>6. ASSUME todo # <<>>
      PROVE  /\ Passed + 1 \in 1 .. Len(Steps)
             /\ Head(todo) = Steps[Passed + 1]
             /\ Tail(todo) \in Seq(StepNames)
             /\ Len(Tail(todo)) = Len(todo) - 1
             /\ \A i \in 1 .. Len(Tail(todo)) : Tail(todo)[i] = todo[i + 1]
  <2>1. /\ Len(todo) > 0 /\ Head(todo) = todo[1]
        /\ Tail(todo) \in Seq(StepNames)
        /\ Len(Tail(todo)) = Len(todo) - 1
        /\ \A i \in 1 .. Len(Tail(todo)) : Tail(todo)[i] = todo[i + 1]
    BY <1>1, <1>6
  <2>2. Passed + 1 \in 1 .. Len(Steps)
    BY <1>3, <1>4, <2>1 DEF Passed
  <2> QED
    BY <1>3, <1>4, <2>1, <2>2
<1> QED
  BY <1>2, <1>3, <1>5, <1>6

\* What is acquired grows by the step, or not at all.
LEMMA AcquiredGrows ==
    ASSUME NEW steps \in Seq(StepNames), NEW n \in 0 .. Len(steps) - 1
    PROVE  Acquired(steps, n + 1) =
               Acquired(steps, n) \cup ({steps[n + 1]} \cap Resources)
<1>1. \A i : i \in 1 .. n + 1 <=> i \in 1 .. n \/ i = n + 1
  OBVIOUS
<1> QED
  BY <1>1 DEF Acquired

\* A PCI driver that has its interrupt while it is loaded or live has its
\* info, and nothing left that can fail.
LEMMA IrqAmongSteps ==
    ASSUME LedgerInv, stage \in {"load", "live"},
           mod \in PciDrivers, "irq" \in held
    PROVE  /\ mod \in {"irq", "driver_pci"}
           /\ {"info", "ports"} \subseteq held
           /\ stage = "load" /\ todo # <<>> =>
                 Head(todo) \notin DOMAIN LoadOf[mod].fails
<1> DEFINE n == IF stage = "load" THEN Passed ELSE Len(Steps)
<1>1. IrqLast(Steps, LoadOf[mod].fails, mod) /\ Steps \in Seq(StepNames)
  BY TablesFit DEF LedgerInv, TableFits, Fits, Steps
<1>2. n \in 0 .. Len(Steps) /\ held = Acquired(Steps, n)
  BY <1>1, LoadLedger DEF LedgerInv, LiveHoldsAll
<1>3. PICK i \in 1 .. n : Steps[i] = "irq"
  BY <1>2 DEF Acquired
<1>4. i \in 1 .. Len(Steps) /\ Len(Steps) \in Nat
  BY <1>1, <1>2
<1>5. /\ mod \in {"irq", "driver_pci"}
      /\ {"info", "ports"} \subseteq Acquired(Steps, i)
      /\ \A k \in i + 1 .. Len(Steps) :
            Steps[k] \notin DOMAIN LoadOf[mod].fails
  BY <1>1, <1>3, <1>4 DEF IrqLast
<1>6. Acquired(Steps, i) \subseteq held
  BY <1>2, <1>3 DEF Acquired
<1>7. ASSUME stage = "load", todo # <<>>
      PROVE  Head(todo) \notin DOMAIN LoadOf[mod].fails
  <2>1. n = Passed /\ Passed + 1 \in 1 .. Len(Steps)
        /\ Head(todo) = Steps[Passed + 1]
    BY <1>7, LoadLedger
  <2>2. Passed + 1 \in i + 1 .. Len(Steps)
    BY <1>2, <1>3, <1>4, <2>1
  <2> QED
    BY <1>5, <2>1, <2>2
<1> QED
  BY <1>5, <1>6, <1>7

-----------------------------------------------------------------------------
LEMMA LedgerLoad ==
    ASSUME LedgerInv, NEW m \in Drivers, Load(m)
    PROVE  LedgerInv'
<1>1. /\ stage = "out" /\ stage' = "load" /\ mod' = m
      /\ todo' = LoadOf[m].steps
      /\ UNCHANGED <<held, leaked, handler>>
  BY DEF Load
<1>2. held = {} /\ handler = "idle"
  BY <1>1 DEF LedgerInv, OutHoldsNothing
<1>3. m \in Modules /\ LoadOf[m].steps \in Seq(StepNames)
  BY DriversAssumption, TablesFit DEF TableFits, Fits
<1>4. LoadAcquires'
  <2>1. Steps' = LoadOf[m].steps /\ Passed' = 0
    BY <1>1, <1>3 DEF Steps, Passed
  <2>2. Acquired(LoadOf[m].steps, 0) = {}
    BY DEF Acquired
  <2>3. Len(LoadOf[m].steps) \in Nat
    BY <1>3
  <2>4. \A i \in 1 .. Len(todo') : todo'[i] = Steps'[Passed' + i]
    BY <1>1, <2>1, <2>3
  <2> QED
    BY <1>1, <1>2, <2>1, <2>2, <2>3, <2>4 DEF LoadAcquires
<1> QED
  BY <1>1, <1>2, <1>3, <1>4
  DEF LedgerInv, LiveHoldsAll, UndoGivesBack, OutHoldsNothing, LeftBehind,
      IrqHasInfo

LEMMA LedgerLoadStep ==
    ASSUME LedgerInv, LoadStep
    PROVE  LedgerInv'
<1>1. /\ stage = "load" /\ todo # <<>> /\ todo' = Tail(todo)
      /\ held' = held \cup ({Head(todo)} \cap Resources)
      /\ UNCHANGED <<mod, stage, leaked, handler>>
  BY DEF LoadStep, irqs
<1>2. /\ Steps \in Seq(StepNames) /\ Passed \in 0 .. Len(Steps)
      /\ held = Acquired(Steps, Passed)
      /\ Passed + 1 \in 1 .. Len(Steps) /\ Head(todo) = Steps[Passed + 1]
      /\ Tail(todo) \in Seq(StepNames)
      /\ Len(Tail(todo)) = Len(todo) - 1
      /\ \A i \in 1 .. Len(Tail(todo)) : Tail(todo)[i] = todo[i + 1]
      /\ \A i \in 1 .. Len(todo) : todo[i] = Steps[Passed + i]
      /\ Len(todo) \in Nat /\ Len(Steps) \in Nat
  BY <1>1, LoadLedger DEF LedgerInv, LoadAcquires
<1>3. Steps' = Steps /\ Passed' = Passed + 1
  BY <1>1, <1>2 DEF Steps, Passed
<1>4. held' = Acquired(Steps, Passed + 1)
  BY <1>1, <1>2, AcquiredGrows
<1>5. LoadAcquires'
  <2>1. \A i \in 1 .. Len(todo') : todo'[i] = Steps[Passed + 1 + i]
    <3> SUFFICES ASSUME NEW i \in 1 .. Len(todo')
                 PROVE  todo'[i] = Steps[Passed + 1 + i]
      OBVIOUS
    <3>1. i + 1 \in 1 .. Len(todo) /\ todo'[i] = todo[i + 1]
      BY <1>1, <1>2
    <3> QED
      BY <1>2, <3>1
  <2> QED
    BY <1>1, <1>2, <1>3, <1>4, <2>1 DEF LoadAcquires
<1>6. IrqHasInfo'
  <2>1. mod \in PciDrivers /\ "irq" \in held' => mod \in {"irq", "driver_pci"}
    <3> SUFFICES ASSUME mod \in PciDrivers, "irq" \in held'
                 PROVE  mod \in {"irq", "driver_pci"}
      OBVIOUS
    <3>1. IrqLast(Steps, LoadOf[mod].fails, mod)
      BY TablesFit DEF LedgerInv, TableFits, Fits, Steps
    <3>2. \E i \in 1 .. Passed + 1 : Steps[i] = "irq"
      BY <1>4 DEF Acquired
    <3> QED
      BY <1>2, <3>1, <3>2 DEF IrqLast
  <2> QED
    BY <1>1, <2>1 DEF LedgerInv, IrqHasInfo
<1> QED
  BY <1>1, <1>2, <1>5, <1>6
  DEF LedgerInv, LiveHoldsAll, UndoGivesBack, OutHoldsNothing, LeftBehind

LEMMA LedgerLoadFails ==
    ASSUME LedgerInv, LoadFails
    PROVE  LedgerInv'
<1> DEFINE plan == LoadOf[mod]
           a    == plan.fails[Head(todo)]
<1>1. /\ stage = "load" /\ todo # <<>> /\ stage' = "undo"
      /\ Head(todo) \in DOMAIN plan.fails
      /\ todo' = SubSeq(plan.undo, a, Len(plan.undo))
      /\ UNCHANGED <<mod, held, leaked, handler>>
  BY DEF LoadFails, irqs
<1>2. /\ Passed + 1 \in 1 .. Len(Steps) /\ Head(todo) = Steps[Passed + 1]
      /\ held = Acquired(Steps, Passed) /\ Passed \in 0 .. Len(Steps)
  BY <1>1, LoadLedger
<1>3. UndoFits(Steps, plan.fails, plan.undo, mod)
      /\ plan.undo \in Seq(StepNames)
  BY TablesFit DEF LedgerInv, TableFits, Fits, Steps
<1>4. a \in 1 .. Len(plan.undo) + 1 /\ GivesBack(plan.undo, a, held, mod)
  <2>1. Passed + 1 - 1 = Passed
    BY <1>2
  <2> QED
    BY <1>1, <1>2, <1>3, <2>1 DEF UndoFits
<1>5. todo' \in Seq(StepNames) /\ GivesBack(todo', 1, held, mod)
  BY <1>1, <1>3, <1>4, RestGivesBack
<1>6. IrqHasInfo'
  <2>1. ~ (mod \in PciDrivers /\ "irq" \in held)
    BY <1>1, IrqAmongSteps
  <2>2. handler # "ack"
    BY <1>1, <2>1 DEF LedgerInv, IrqHasInfo, PciDrivers
  <2> QED
    BY <1>1, <2>1, <2>2 DEF IrqHasInfo
<1> QED
  BY <1>1, <1>5, <1>6
  DEF LedgerInv, LoadAcquires, LiveHoldsAll, UndoGivesBack, OutHoldsNothing,
      LeftBehind

LEMMA LedgerLive ==
    ASSUME LedgerInv, Loaded \/ Unload
    PROVE  LedgerInv'
<1>1. UNCHANGED <<mod, held, leaked, handler>>
  BY DEF Loaded, Unload, irqs
<1>2. CASE Loaded
  <2>1. stage = "load" /\ stage' = "live" /\ todo = <<>> /\ todo' = todo
    BY <1>2 DEF Loaded
  <2>2. held = Acquired(Steps, Len(Steps)) /\ Steps' = Steps
    BY <1>1, <2>1, LoadLedger DEF Steps
  <2> QED
    BY <1>1, <2>1, <2>2
    DEF LedgerInv, LoadAcquires, LiveHoldsAll, UndoGivesBack,
        OutHoldsNothing, LeftBehind, IrqHasInfo
<1>3. CASE Unload
  <2>1. stage = "live" /\ stage' = "unload" /\ todo' = UnloadOf[mod]
    BY <1>3 DEF Unload
  <2>2. /\ UnloadOf[mod] \in Seq(StepNames)
        /\ GivesBack(UnloadOf[mod], 1, Acquired(Steps, Len(Steps)), mod)
    BY TablesFit DEF LedgerInv, TableFits, Fits, Steps
  <2>3. held = Acquired(Steps, Len(Steps))
    BY <2>1 DEF LedgerInv, LiveHoldsAll
  <2> QED
    BY <1>1, <2>1, <2>2, <2>3
    DEF LedgerInv, LoadAcquires, LiveHoldsAll, UndoGivesBack,
        OutHoldsNothing, LeftBehind, IrqHasInfo
<1> QED
  BY <1>2, <1>3

LEMMA LedgerUndo ==
    ASSUME LedgerInv, UndoStep \/ FreeManaged
    PROVE  LedgerInv'
<1>1. /\ UNCHANGED <<mod, leaked, handler>>
      /\ held' \subseteq held
      /\ stage \in {"undo", "unload", "managed"}
      /\ stage' \in {stage, "managed"}
  BY DEF UndoStep, FreeManaged, irqs
<1>2. todo \in Seq(StepNames) /\ GivesBack(todo, 1, held, mod)
  BY <1>1 DEF LedgerInv, UndoGivesBack
<1>3. todo' \in Seq(StepNames) /\ UndoGivesBack'
  <2>1. CASE UndoStep /\ todo # <<>>
    <3>1. /\ todo' = Tail(todo) /\ held' = held \ Gives(Head(todo))
          /\ stage' = stage /\ stage \in {"undo", "unload"} /\ mod' = mod
      BY <2>1 DEF UndoStep
    <3>2. /\ Tail(todo) \in Seq(StepNames)
          /\ GivesBack(Tail(todo), 1, held \ Gives(Head(todo)), mod)
      BY <1>2, <2>1, StepGivesBack
    <3> QED
      BY <3>1, <3>2 DEF UndoGivesBack
  <2>2. CASE UndoStep /\ todo = <<>>
    <3>1. /\ todo' = todo /\ held' = held /\ mod' = mod
      BY <2>2 DEF UndoStep
    <3> QED
      BY <1>2, <2>2, <3>1 DEF UndoGivesBack
  <2>3. CASE FreeManaged
    <3>1. /\ stage = "managed" /\ stage' = stage /\ todo' = todo /\ mod' = mod
          /\ held \ held' \subseteq Managed /\ todo = <<>>
      BY <2>3 DEF FreeManaged, Managed, LedgerInv, UndoGivesBack
    <3>2. GivesBack(<<>>, 1, held', mod)
      BY <1>1, <1>2, <3>1 DEF GivesBack
    <3> QED
      BY <1>2, <3>1, <3>2 DEF UndoGivesBack
  <2> QED
    BY <2>1, <2>2, <2>3
<1>4. IrqHasInfo'
  BY <1>1 DEF LedgerInv, IrqHasInfo
<1> QED
  BY <1>1, <1>3, <1>4
  DEF LedgerInv, LoadAcquires, LiveHoldsAll, OutHoldsNothing, LeftBehind

LEMMA LedgerGone ==
    ASSUME LedgerInv, Gone
    PROVE  LedgerInv'
<1>1. /\ stage = "managed" /\ held \cap Managed = {} /\ handler = "idle"
      /\ stage' = "out" /\ held' = held \cap {"irq"}
      /\ leaked' = leaked \cup ({mod} \X (held \ {"irq", "ports"}))
      /\ UNCHANGED <<mod, todo, handler>>
  BY DEF Gone, irqs, Managed
<1>2. todo = <<>> /\ GivesBack(<<>>, 1, held, mod)
  BY <1>1 DEF LedgerInv, UndoGivesBack
<1>3. \A r \in held \ {"ports"} : mod = "memtrack" /\ r = "device"
  BY <1>1, <1>2 DEF GivesBack
<1>4. held' = {}
  BY <1>1 DEF Managed
<1>5. LeftBehind'
  BY <1>1, <1>3 DEF LedgerInv, LeftBehind
<1> QED
  BY <1>1, <1>2, <1>4, <1>5
  DEF LedgerInv, LoadAcquires, LiveHoldsAll, UndoGivesBack, OutHoldsNothing,
      IrqHasInfo

\* The handlers and the device leave the ledger alone.
LEMMA LedgerHandler ==
    ASSUME LedgerInv,
           Realize \/ Uninit \/ HandlerReads \/ HandlerAcks \/ TestInterrupt
    PROVE  LedgerInv'
<1>1. UNCHANGED <<mod, stage, todo, held>>
  BY DEF Realize, Uninit, HandlerReads, HandlerAcks, TestInterrupt, loading
<1>2. LoadAcquires' /\ LiveHoldsAll' /\ UndoGivesBack'
  BY <1>1
  DEF LedgerInv, LoadAcquires, LiveHoldsAll, UndoGivesBack, Steps, Passed
<1>3. LeftBehind'
  BY DEF LedgerInv, LeftBehind, Realize, Uninit, HandlerReads, HandlerAcks,
         TestInterrupt, loading
<1>4. OutHoldsNothing' /\ IrqHasInfo'
  <2>1. CASE Realize \/ Uninit
    BY <1>1, <2>1
    DEF Realize, Uninit, irqs, LedgerInv, OutHoldsNothing, IrqHasInfo
  <2>2. CASE HandlerReads
    <3>1. "irq" \in held /\ mod \in PciDrivers
      BY <2>2 DEF HandlerReads
    <3> QED
      BY <1>1, <3>1 DEF LedgerInv, OutHoldsNothing, IrqHasInfo
  <2>3. CASE HandlerAcks
    BY <1>1, <2>3 DEF HandlerAcks, LedgerInv, OutHoldsNothing, IrqHasInfo
  <2>4. CASE TestInterrupt
    BY <1>1, <2>4 DEF TestInterrupt, LedgerInv, OutHoldsNothing, IrqHasInfo
  <2> QED
    BY <2>1, <2>2, <2>3, <2>4
<1> QED
  BY <1>1, <1>2, <1>3, <1>4 DEF LedgerInv

LEMMA LedgerNext == LedgerInv /\ [Next]_vars => LedgerInv'
<1> SUFFICES ASSUME LedgerInv, [Next]_vars
             PROVE  LedgerInv'
  OBVIOUS
<1>1. ASSUME UNCHANGED <<loading, handler>>
      PROVE  LedgerInv'
  BY <1>1
  DEF LedgerInv, loading, LoadAcquires, LiveHoldsAll, UndoGivesBack,
      OutHoldsNothing, LeftBehind, IrqHasInfo, Steps, Passed
<1>2. CASE UNCHANGED vars
  BY <1>1, <1>2 DEF vars, irqs
<1>3. ASSUME NEW u \in Users,
             \/ Find(u) \/ ChrdevOpen(u) \/ DemoOpen(u) \/ GetModule(u)
             \/ DemoRelease(u) \/ Returned(u)
      PROVE  LedgerInv'
  BY <1>1, <1>3
  DEF Find, ChrdevOpen, DemoOpen, GetModule, DemoRelease, Returned, irqs
<1> QED
  BY <1>2, <1>3, LedgerLoad, LedgerLoadStep, LedgerLoadFails, LedgerLive,
     LedgerUndo, LedgerGone, LedgerHandler
  DEF Next, Loader, Handler

-----------------------------------------------------------------------------
(* Theorems.                                                               *)

\* The invariant holds whatever modules come and go, and whoever opens them.
THEOREM FilesInvariant == Spec => []FilesInv
BY FilesInit, FilesNext, PTL DEF Spec

\* Every state is of its type; in particular the references to a module are
\* never more than the processes.
THEOREM ModuleTypes == Spec => []TypeOK
<1>1. FilesInv => TypeOK
  BY DEF FilesInv
<1> QED
  BY <1>1, FilesInvariant, PTL

\* Though open does not look whether it has got its reference, a file whose
\* open asked for it while the module was up keeps the module's text until it
\* is closed.
THEOREM FilesKeepModules == Spec => []FileKeepsModule
<1>1. FilesInv => FileKeepsModule
  BY DEF FilesInv
<1> QED
  BY <1>1, FilesInvariant, PTL

\* The fault hook outlives its module only by a process that was caught in
\* its open between the setting of the hook and try_module_get, or whose
\* try_module_get came too late; the hook of any other is in a module that
\* is there.
THEOREM HookKeepsModule == Spec => []HookHasModule
<1>1. FilesInv => HookHasModule
  BY DEF FilesInv
<1> QED
  BY <1>1, FilesInvariant, PTL

\* The ledger's invariant holds whatever modules come and go, whichever of
\* their steps fails, and wherever the interrupt comes.
THEOREM LedgerInvariant == Spec => []LedgerInv
BY LedgerInit, LedgerNext, PTL DEF Spec

\* Every label and every remove gives back only what was acquired, and all of
\* it, but for mem_tracker's device and the buffer of hello_tic's msi_init.
THEOREM LedgersBalance == Spec => []LedgerBalanced
<1>1. ASSUME LedgerInv
      PROVE  LedgerBalanced
  <2>1. ASSUME stage \in {"undo", "unload"}, todo # <<>>
        PROVE  Head(todo) \in held
    BY <1>1, <2>1, StepGivesBack DEF LedgerInv, UndoGivesBack
  <2> QED
    BY <1>1, <2>1 DEF LedgerInv, LeftBehind, LedgerBalanced
<1> QED
  BY <1>1, LedgerInvariant, PTL

\* The handler uses a freed info, or one it has not got yet, only while one of
\* the two drivers that request the interrupt is being removed.
THEOREM StaleOnlyWhenRemoved == Spec => StaleOnlyInRemove
<1>1. ASSUME LedgerInv, [Next]_vars, ~ stale, stale'
      PROVE  mod \in {"irq", "driver_pci"} /\ stage \in {"unload", "managed"}
  <2>1. /\ HandlerReads \/ HandlerAcks
        /\ ~ {"info", "ports"} \subseteq held
    <3>1. ASSUME UNCHANGED stale
          PROVE  FALSE
      BY <1>1, <3>1
    <3>2. ~ (\E m \in Drivers : Load(m))
      BY <1>1 DEF Load
    <3>3. ~ (Realize \/ Uninit \/ Unload \/ Loader \/ TestInterrupt)
      BY <3>1
      DEF Realize, Uninit, Unload, Loader, LoadStep, LoadFails, Loaded,
          UndoStep, FreeManaged, Gone, TestInterrupt, irqs
    <3>4. ~ (\E u \in Users :
               \/ Find(u) \/ ChrdevOpen(u) \/ DemoOpen(u) \/ GetModule(u)
               \/ DemoRelease(u) \/ Returned(u))
      BY <3>1
      DEF Find, ChrdevOpen, DemoOpen, GetModule, DemoRelease, Returned, irqs
    <3>5. HandlerReads \/ HandlerAcks
      BY <1>1, <3>1, <3>2, <3>3, <3>4 DEF Next, Handler, vars, irqs
    <3> QED
      BY <1>1, <3>5 DEF HandlerReads, HandlerAcks, UsesInfo
  <2>2. /\ mod \in {"irq", "driver_pci"}
        /\ \/ stage \in {"unload", "managed"}
           \/ stage \in {"load", "live"} /\ "irq" \in held
    BY <1>1, <2>1 DEF LedgerInv, IrqHasInfo, HandlerReads, HandlerAcks
  <2>3. mod \in PciDrivers
    BY <2>2 DEF PciDrivers
  <2> QED
    BY <1>1, <2>1, <2>2, <2>3, IrqAmongSteps
<1> QED
  BY <1>1, LedgerInvariant, PTL DEF Spec, StaleOnlyInRemove
=============================================================================
