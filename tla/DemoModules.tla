----------------------------- MODULE DemoModules -----------------------------
(***************************************************************************)
(* The kernel modules of src/bechmark-test/Demo, loaded and unloaded one   *)
(* at a time: the character devices of part1, the drivers of part2, and    *)
(* the emulated PCI device (hello_tic.c) those drivers share.              *)
(*                                                                         *)
(* What a module does when it is loaded and unloaded is a table; one       *)
(* machine walks the tables.  held is the ledger of what the running       *)
(* module has acquired, leaked what earlier ones have left behind.  The    *)
(* counter device_opened, which nothing reads, is left out, as are the     *)
(* reads and writes of the devices, which print.                           *)
(***************************************************************************)
EXTENDS Integers, FiniteSets, Sequences

CONSTANTS
    Users,   \* processes that open the node of a character device
    Drivers  \* the modules that are loaded, a subset of Modules

-----------------------------------------------------------------------------
(* The tables.  A step of loading that can fail goes on in undo, from the  *)
(* place fails gives it; a place behind the end is an early return.        *)

Loads(steps, fails, undo) == [steps |-> steps, fails |-> fails, undo |-> undo]

Hello == Loads(<<>>, <<>>, <<>>)

MemtrackFailsAt(sysfs) ==
    [chrdev |-> 3, class |-> 2, device |-> 1, sysfs |-> sysfs]

\* With the bug a failing sysfs group leaves by the last label.
BugMemtrackFails == MemtrackFailsAt(3)

\* A failing sysfs group takes the label of a failing device.
MemtrackFails == MemtrackFailsAt(1)

MemtrackInit ==
    Loads(<<"chrdev", "class", "device", "sysfs">>,
          MemtrackFails, <<"class", "chrdev">>)

MemtrackCleanup == <<"device", "class", "chrdev", "sysfs">>

DemoFails == [chrdev |-> 3, class |-> 2, device |-> 1]

PtwInit ==
    Loads(<<"chrdev", "class", "device">>,
          DemoFails, <<"class", "chrdev">>)

PtwCleanup == <<"device", "class", "chrdev">>

TlbInit ==
    Loads(<<"chrdev", "class", "device">>,
          DemoFails, <<"class", "chrdev">>)

TlbCleanup == <<"device", "class", "chrdev">>

RsvdInit ==
    Loads(<<"chrdev", "class", "device">>,
          DemoFails, <<"class", "chrdev">>)

RsvdCleanup == <<"device", "class", "chrdev">>

\* What the four PCI drivers begin with, and their common labels.
PciLoads(tail) ==
    Loads(<<"info", "enabled", "regions", "ports", "mapping">> \o tail,
          [info |-> 5, enabled |-> 4, regions |-> 3, mapping |-> 2,
           line |-> 1, irq |-> 1],
          <<"mapping", "regions", "enabled", "info">>)

IrqProbe == PciLoads(<<"line", "irq", "raise", "drvdata">>)

IrqRemove == <<"regions", "enabled", "mapping", "info">>

DriverPciProbe == PciLoads(<<"line", "irq", "raise", "drvdata">>)

DriverPciRemove == <<"regions", "enabled", "mapping", "info">>

\* mmio.c writes a register, portio.c raises the interrupt; neither
\* requests it.
MmioProbe == PciLoads(<<"id", "drvdata">>)

MmioRemove == <<"regions", "enabled", "mapping", "info">>

PortioProbe == PciLoads(<<"raise", "drvdata">>)

PortioRemove == <<"regions", "enabled", "mapping", "info">>

PlatformProbe ==
    Loads(<<"regs", "number", "irq", "touch">>,
          [regs |-> 1, number |-> 1, irq |-> 1], <<>>)

PlatformRemove == <<>>

LoadOf ==
    [hello |-> Hello, memtrack |-> MemtrackInit, ptw |-> PtwInit,
     tlb |-> TlbInit, rsvd |-> RsvdInit, irq |-> IrqProbe,
     driver_pci |-> DriverPciProbe, mmio |-> MmioProbe,
     portio |-> PortioProbe, platform |-> PlatformProbe]

UnloadOf ==
    [hello |-> <<>>, memtrack |-> MemtrackCleanup, ptw |-> PtwCleanup,
     tlb |-> TlbCleanup, rsvd |-> RsvdCleanup, irq |-> IrqRemove,
     driver_pci |-> DriverPciRemove, mmio |-> MmioRemove,
     portio |-> PortioRemove, platform |-> PlatformRemove]

Modules == DOMAIN LoadOf
PciDrivers == {"irq", "driver_pci", "mmio", "portio"}
CharDevices == {"memtrack", "ptw", "tlb", "rsvd"}

ASSUME DriversAssumption == Drivers \subseteq Modules
ASSUME UsersAssumption == IsFiniteSet(Users)

\* The steps that acquire something; "ports" is the address kept in info.
Resources ==
    {"chrdev", "class", "device", "sysfs", "info", "enabled", "regions",
     "ports", "mapping", "irq", "regs"}

-----------------------------------------------------------------------------
VARIABLES
    mod,      \* the module loaded, or the last one
    stage,    \* "out", "load", "undo", "live", "unload", "managed"
    todo,     \* the rest of the steps of load, undo or unload
    held,     \* what the module has acquired
    leaked,   \* <<module, resource>>: left behind for ever
    refs,     \* references to the module
    user,     \* user[u]: "out", "found", "called", "unheld", "open",
              \* "leaving", or, by the end of the module, "caught" in its
              \* text, "dangling" there before it had its reference, or
              \* "stranded" with an open file
    since,    \* since[u]: the stage in which u's open asked for a reference
    hook,     \* who has set rsvd_fault_hook, {} when it is NULL
    plugged,  \* whether the PCI device is there
    threw,    \* its irq status, and the level of its interrupt line
    val,      \* its register val
    narrow,   \* whether the emulator accepts accesses below 4 bytes
    handler,  \* the interrupt handler: "idle", "ack" or "busy"
    stale     \* whether the handler has used info before or after its time

loading == <<mod, stage, todo, held, leaked>>
files   == <<refs, user, since, hook>>
device  == <<plugged, threw, val, narrow>>
irqs    == <<handler, stale>>
vars    == <<loading, files, device, irqs>>

\* The places of a process in the files of the module that is there, and
\* others.
Inside == {"called", "unheld", "open", "leaving"}
Places == {"out", "found", "caught", "dangling", "stranded"}

TypeOK ==
    /\ mod \in Modules
    /\ stage \in {"out", "load", "undo", "live", "unload", "managed"}
    /\ held \subseteq Resources
    /\ leaked \subseteq (Modules \cup {"hello_tic"}) \X
                            (Resources \cup {"dma_buf"})
    /\ refs \in 0 .. Cardinality(Users)
    /\ user \in [Users -> Inside \cup Places]
    /\ since \in [Users -> {"out", "load", "undo", "live", "unload",
                            "managed"}]
    /\ hook \subseteq Users
    /\ plugged \in BOOLEAN
    /\ threw \in {0, 1}
    /\ val \in {0, 1280}
    /\ narrow \in BOOLEAN
    /\ handler \in {"idle", "ack", "busy"}
    /\ stale \in BOOLEAN

Init ==
    /\ mod = "hello" /\ stage = "out" /\ todo = <<>>
    /\ held = {} /\ leaked = {}
    /\ refs = 0 /\ hook = {}
    /\ user = [u \in Users |-> "out"]
    /\ since = [u \in Users |-> "out"]
    /\ plugged = FALSE /\ threw = 0 /\ val = 0 /\ narrow \in BOOLEAN
    /\ handler = "idle" /\ stale = FALSE

-----------------------------------------------------------------------------
(* The emulated device, hello_tic.c.                                       *)

\* A failing msi_init returns with the buffer allocated: exit is not called
\* for a device that was not realized.
Realize ==
    /\ ~ plugged
    /\ \/ /\ plugged' = TRUE
          /\ threw' = 0
          /\ val' = 0
          /\ UNCHANGED leaked
       \/ /\ leaked' = leaked \cup {<<"hello_tic", "dma_buf">>}
          /\ UNCHANGED <<plugged, threw, val>>
    /\ UNCHANGED <<mod, stage, todo, held, narrow, files, irqs>>

\* The guest lets the device go when no driver is bound to it.
Uninit ==
    /\ plugged
    /\ mod \in PciDrivers => stage = "out"
    /\ plugged' = FALSE
    /\ threw' = 0
    /\ UNCHANGED <<val, narrow, loading, files, irqs>>

\* With the bug any write to the port raises the interrupt.
BugIoWrite(value) == 1

\* The register the port write sets, and with it the interrupt line.
HelloIoWrite(value) == IF value # 0 THEN 1 ELSE 0

\* The comment says "change the id"; what changes is val.
HelloMmioWrite(value) == value

\* The port is declared with accesses of 4 bytes: emulators before 5.1
\* accept the one-byte write of the drivers, later ones drop it.
Accepts(size) == size = 4 \/ narrow

-----------------------------------------------------------------------------
(* Loading and unloading.                                                  *)

Load(m) ==
    /\ stage = "out"
    /\ m \in PciDrivers => plugged
    /\ mod' = m
    /\ stage' = "load"
    /\ todo' = LoadOf[m].steps
    /\ refs' = 0
    /\ stale' = FALSE
    /\ UNCHANGED <<held, leaked, user, since, hook, device, handler>>

\* One step of init_module or probe.  A resource of this name that an
\* earlier module has left behind is in the way.
LoadStep ==
    /\ stage = "load" /\ todo # <<>>
    /\ <<mod, Head(todo)>> \notin leaked
    /\ todo' = Tail(todo)
    /\ held' = held \cup ({Head(todo)} \cap Resources)
    /\ threw' = IF Head(todo) = "raise" /\ Accepts(1)
                THEN HelloIoWrite(1) ELSE threw
    /\ val' = IF Head(todo) = "id" THEN HelloMmioWrite(1280) ELSE val
    /\ UNCHANGED <<mod, stage, leaked, plugged, narrow, files, irqs>>

LoadFails ==
    LET plan == LoadOf[mod] IN
    /\ stage = "load" /\ todo # <<>>
    /\ Head(todo) \in DOMAIN plan.fails
    /\ stage' = "undo"
    /\ todo' = SubSeq(plan.undo, plan.fails[Head(todo)], Len(plan.undo))
    /\ UNCHANGED <<mod, held, leaked, files, device, irqs>>

Loaded ==
    /\ stage = "load" /\ todo = <<>>
    /\ stage' = "live"
    /\ UNCHANGED <<mod, todo, held, leaked, files, device, irqs>>

\* rmmod; the kernel refuses while there are references.
Unload ==
    /\ stage = "live"
    /\ refs = 0
    /\ stage' = "unload"
    /\ todo' = UnloadOf[mod]
    /\ UNCHANGED <<mod, held, leaked, files, device, irqs>>

\* The address of the ports goes with the info it is kept in.
Gives(s) == IF s = "info" THEN {"info", "ports"} ELSE {s}

UndoStep ==
    /\ stage \in {"undo", "unload"}
    /\ IF todo # <<>>
       THEN /\ todo' = Tail(todo)
            /\ held' = held \ Gives(Head(todo))
            /\ UNCHANGED stage
       ELSE /\ stage' = "managed"
            /\ UNCHANGED <<todo, held>>
    /\ UNCHANGED <<mod, leaked, files, device, irqs>>

\* With the bug the interrupt is requested without devm.
BugManaged == {"regs"}

\* What devm_request_irq and devm_ioremap_resource leave to the kernel,
\* which frees it when probe has failed or remove has returned.
Managed == {"irq", "regs"}

\* The interrupt was requested last and goes first.
FreeManaged ==
    /\ stage = "managed"
    /\ held \cap Managed # {}
    /\ held' = IF "irq" \in held \cap Managed THEN held \ {"irq"}
               ELSE held \ {"regs"}
    /\ UNCHANGED <<mod, stage, todo, leaked, files, device, irqs>>

\* Where the end of the module's text leaves a process: a file that is still
\* open has its operations there, and a process may be on its way into
\* demo_open, in it without a reference, or on its way out of demo_release.
After(place) ==
    CASE place = "open"                  -> "stranded"
      [] place = "unheld"                -> "dangling"
      [] place \in {"called", "leaving"} -> "caught"
      [] OTHER                           -> place

\* Freeing the interrupt has waited for a running handler.
Gone ==
    /\ stage = "managed"
    /\ held \cap Managed = {}
    /\ "irq" \in Managed => handler = "idle"
    /\ stage' = "out"
    /\ leaked' = leaked \cup ({mod} \X (held \ {"irq", "ports"}))
    /\ held' = held \cap {"irq"}
    /\ user' = [u \in Users |-> After(user[u])]
    /\ UNCHANGED <<mod, todo, refs, since, hook, device, irqs>>

-----------------------------------------------------------------------------
(* The files of a character device.                                        *)

SetUser(u, a, b) == user[u] = a /\ user' = [user EXCEPT ![u] = b]

\* The name is looked up; the device may go before it is opened.
Find(u) ==
    /\ "device" \in held
    /\ SetUser(u, "out", "found")
    /\ UNCHANGED <<refs, since, hook, loading, device, irqs>>

\* With the bug open takes no reference.
BugTryModuleGet == refs

\* A module that is being unloaded lends out no more references, which
\* open does not look at.
TryModuleGet == IF stage \in {"load", "undo", "live"} THEN refs + 1 ELSE refs

\* chrdev_open finds the device and calls the module's open: fops names no
\* owner, so that the kernel takes no reference of its own.
ChrdevOpen(u) ==
    /\ SetUser(u, "found", IF "chrdev" \in held THEN "called" ELSE "out")
    /\ UNCHANGED <<refs, since, hook, loading, device, irqs>>

\* demo_open as far as the hook, which the others have not.
DemoOpen(u) ==
    /\ SetUser(u, "called", "unheld")
    /\ hook' = IF mod = "rsvd" THEN {u} ELSE hook
    /\ UNCHANGED <<refs, since, loading, device, irqs>>

\* The rest of it, which takes the reference, or does not get one.
GetModule(u) ==
    /\ SetUser(u, "unheld", "open")
    /\ refs' = TryModuleGet
    /\ since' = [since EXCEPT ![u] = stage]
    /\ UNCHANGED <<hook, loading, device, irqs>>

\* With the bug a reference too many is given back all the same.
BugModulePut == refs - 1

\* module_put; the kernel warns of a reference too many and keeps 0.
ModulePut == IF refs > 0 THEN refs - 1 ELSE 0

\* With the bug the hook stays set.
BugHookAfter == hook

HookAfter == IF mod = "rsvd" THEN {} ELSE hook

\* It gives up the reference, and is in the module's text still.
DemoRelease(u) ==
    /\ SetUser(u, "open", "leaving")
    /\ refs' = ModulePut
    /\ hook' = HookAfter
    /\ UNCHANGED <<since, loading, device, irqs>>

\* The rest of demo_release, in the module's text but without a reference.
Returned(u) ==
    /\ SetUser(u, "leaving", "out")
    /\ since' = [since EXCEPT ![u] = "out"]
    /\ UNCHANGED <<refs, hook, loading, device, irqs>>

-----------------------------------------------------------------------------
(* The interrupt handlers.  The line is shared: a handler is also called   *)
(* for the interrupts of other devices.                                    *)

UsesInfo == stale' = (stale \/ ~ {"info", "ports"} \subseteq held)

HelloIoRead == threw

\* Without its info the handler reads some port, which may say anything.
HandlerReads ==
    /\ "irq" \in held /\ mod \in PciDrivers
    /\ handler = "idle"
    /\ UsesInfo
    /\ handler' \in IF stale' THEN {"idle", "ack"}
                    ELSE IF HelloIoRead # 0 THEN {"ack"} ELSE {"idle"}
    /\ UNCHANGED <<loading, files, device>>

HandlerAcks ==
    /\ handler = "ack"
    /\ UsesInfo
    /\ threw' \in IF stale' THEN {threw, HelloIoWrite(0)}
                  ELSE {HelloIoWrite(0)}
    /\ handler' = "idle"
    /\ UNCHANGED <<loading, files, plugged, val, narrow>>

\* driver_platform.c: the handler prints and touches nothing.
TestInterrupt ==
    /\ \/ "irq" \in held /\ mod = "platform" /\ handler = "idle"
          /\ handler' = "busy"
       \/ handler = "busy" /\ handler' = "idle"
    /\ UNCHANGED <<stale, loading, files, device>>

-----------------------------------------------------------------------------
Loader ==
    \/ LoadStep \/ LoadFails \/ Loaded \/ UndoStep \/ FreeManaged \/ Gone

Handler == HandlerReads \/ HandlerAcks

Next ==
    \/ Realize \/ Uninit \/ Unload \/ Loader \/ Handler \/ TestInterrupt
    \/ \E m \in Drivers : Load(m)
    \/ \E u \in Users :
          \/ Find(u) \/ ChrdevOpen(u) \/ DemoOpen(u) \/ GetModule(u)
          \/ DemoRelease(u) \/ Returned(u)

Spec == Init /\ [][Next]_vars

\* insmod and rmmod go on once started, and an interrupt that is asserted
\* reaches the handler that is installed for its line.
FairSpec == Spec /\ WF_vars(Loader) /\ WF_vars(Handler)

-----------------------------------------------------------------------------
(* Properties.                                                             *)

\* Whichever step of a load fails, its labels give back only what it had
\* and all it had, and so does an unload; with two exceptions the code does
\* make: mem_tracker's device, when its sysfs group fails, and the buffer of
\* a device that is not realized.
LedgerBalanced ==
    /\ leaked \subseteq {<<"memtrack", "device">>, <<"hello_tic", "dma_buf">>}
    /\ stage \in {"undo", "unload"} /\ todo # <<>> => Head(todo) \in held

\* The handler may run from the request of the interrupt until the kernel
\* frees it, after remove: it finds its info complete at all times but
\* between remove's kfree of it and that.
StaleOnlyInRemove ==
    [][~ stale /\ stale' =>
         /\ mod \in {"irq", "driver_pci"}
         /\ stage \in {"unload", "managed"}]_vars

\* A file whose open asked for its reference while its module was up keeps
\* the module's text: only those that asked while it was loaded or unloaded
\* can lose it.
FileKeepsModule ==
    \A u \in Users : user[u] = "stranded" => since[u] # "live"

\* The kernel's fault hook points into a module that is loaded and has the
\* file of the process that set it, unless that process has lost the module:
\* in its open, between the setting of the hook and try_module_get, or
\* because try_module_get came too late.
HookHasModule ==
    \A u \in hook :
        \/ stage # "out" /\ mod = "rsvd" /\ user[u] \in {"unheld", "open"}
        \/ user[u] = "dangling"
        \/ user[u] = "stranded" /\ since[u] # "live"

\* An interrupt that is asserted, be it by a driver that never handled it
\* and is gone, is answered by the first driver that stays with a handler.
InterruptAnswered ==
    threw = 1 /\ "irq" \in held /\ mod \in PciDrivers
        ~> threw = 0 \/ "irq" \notin held
=============================================================================
