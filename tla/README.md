# The CryptoCard driver and library in TLA+

TLA+ modules, TLC configurations and TLAPS proofs for the CryptoCard project:
a Linux character-device driver for a PCI encryption card
(`src/drivers/cryptocard_mod.c`), the user library on top of it
(`src/src/crypter.c`), and the kernel-module demos that come with them
(`src/bechmark-test/Demo`).

`PROJECT.json` lists the components, the runs, the source lines behind every
definition, the hazards, the findings and the theorems. This file explains
them.

## 1. The system

### Components

| Component | State | Operations |
|---|---|---|
| `pci_write` (driver, 336-486) | the semaphore `wsem`, the wait queue, the card's registers, the buffer pointer `job.msg` | one `write()`: check, `vmalloc`, copy in, `down`, key, MMIO window or DMA mapping, trigger, wait (interrupt or polling), unmap, copy out, `up`, `vfree`; nine ways out |
| ioctls, `open`, `release` (267-334, 488-512) | one `struct job` per open file: key, direction, DMA or MMIO, interrupt or polling, mapped or not | `SET_KEY___`, `SET_CONFIG`, `SET_ENCRYP`, `SET_MMAP__`; a fresh job on open, freed on release |
| Interrupt handler (241-265) | the status it has read | read the status, wake the sleepers if it is exactly `0x001` or `0x100`, acknowledge |
| `cryptocard_probe`, `cryptocard_remove` (115-224) | the global `mycryptodev` and the resources it stands for | nine acquisitions in order with seven error labels; the reverse walk of remove |
| `pci_mmap` (229-238) | - | maps BAR 0 into the process |
| Library: `encrypt`, `decrypt` (`crypter.c` 42-100) | `addr`, `length` of the loop | two ioctls, then one `write()` per piece of at most 32 KB |
| Library: the rest (17-33, 108-169) | - | handles, `set_key`, `set_config`, `map_card`, `unmap_card` |
| The card (not in `src/`) | key, DMA address, window, engine, busy bits, interrupt status | fetch the input, write the result over it, raise the interrupt |
| Reserved-bit demo (`Demo/part1/rsvd`) | the module's `gptr`, `gpte` and the kernel's `rsvd_fault_hook` | open, write an address, read (sets the reserved bit of its entry), release, the hook, the branch of the page-fault handler that calls it |
| Patched page-fault handler (`Demo/part1/rsvd/fault.c`) | the address space's `mmap_sem` and areas, the faults in flight | classify a fault, find and check its area, retry, end it by a return, a signal or an oops |
| Other modules of part 1 (`hello.c`, `mem_tracker.c`, two `btplus.c`) | class, device, major number, sysfs group, references | `init_module` with its error labels, `cleanup_module`, open, release |
| Drivers of part 2 (`irq.c`, `driver_pci.c`, `mmio.c`, `portio.c`, `driver_platform.c`) | `info` and what probe acquires | probe with its error labels, remove, an interrupt handler |
| QEMU device of part 2 (`hello_tic.c`) | `threw_irq`, `val`, the interrupt line | realize, uninit, port and memory registers |
| Tests and benchmarks | - | user programs: several processes with handles of their own, one key or several, all four modes, mapped messages |

### How they interact

A thread calls `encrypt` or `decrypt`; the library issues two ioctls and a
series of `write()` calls on the thread's handle. The ioctls change the
`struct job` of the handle without any lock. `pci_write` puts its kernel buffer
into that same job, takes the driver's single semaphore and drives the card's
registers. The card works on its own and raises an interrupt; the handler
wakes everybody in the wait queue; who is awake tests the card's busy bit. A
process that has mapped the card writes and reads its window with no call at
all. Probe and remove make and take away everything the others use.

### What is hard

* The handler wakes first and acknowledges afterwards: on a multiprocessor the
  next operation fits in between.
* A signal ends the wait of a call while the card works on.
* The buffer pointer is in the job, shared by the users of a handle, and
  written outside the semaphore.
* Every way out of `pci_write` has to undo what was done and nothing else:
  semaphore, buffer, DMA mapping.
* The polling modes and the sleeping modes mix, on one status register.
* Probe may fail at any stage with the handler already running; remove meets
  running calls and a running handler.
* The reserved-bit demo keeps one address, one entry and one hook for any
  number of processes, and a killed process loses its memory before its files.
* The page-fault handler takes `mmap_sem`, may lose it in `handle_mm_fault`,
  and leaves by more than a dozen ways; while it waits, areas change.
* The handlers of part 2 are requested with devm and freed after remove; a
  character device is opened by a process that has found its node before an
  unload.

What makes each component correct:

* `pci_write` and the handler: one holder at a time; a successful call has
  processed its own message under its own key; a failed call left the message
  alone; no buffer and no mapping leaks; the card's input stands still while
  the card may read it; every call returns.
* The library: every byte of a message is processed exactly once, no piece
  reaches beyond it, a failure leaves whole pieces and at most one torn one.
* Probe and remove: the ledger of resources balances; neither handler nor
  calls run without the card; nobody can open an incomplete device.
* The page-fault handler: `mmap_sem` is given up exactly once; a page is made
  only where the access is allowed at that moment; nobody waits for a lock he
  may hold; only faults without an excuse end in an oops or a signal; every
  fault ends.
* The demo modules: the ledger of each load balances; neither an open file nor
  the kernel's hook outlives its module, but in the windows of open and release
  that section 4 names; a handler does not outlive its data; an asserted
  interrupt is answered.
* The fault demo: the faulting store is completed; the bit and the hook are
  taken back; no store goes to a freed page table, except by the release of a
  killed process.

## 2. The modules

| Module | Models | Built on |
|---|---|---|
| `CryptoCard` | the card as the driver uses it | |
| `CryptoDev` | driver, handler, user threads, one `write()` per call | extends `CryptoCard`, instantiates `CardService` |
| `CardService` | the abstract service: ask, answer or refuse | |
| `MCCryptoDev` | constants of the `CryptoDev` runs | extends `CryptoDev` |
| `CrypterLib` | the loop of `encrypt`/`decrypt` | |
| `CardLifecycle` | probe, remove, handler and open files | |
| `FaultHook` | the reserved-bit demo | |
| `PageFault` | the page-fault handler, threads and their areas | extends `FaultHook` |
| `MCPageFault` | constants of the `faults` run | extends `PageFault` |
| `DemoModules` | the ten demo modules and the QEMU device | |
| `CryptoDevProofs`, `PrivateCallsProofs`, `CardServiceProofs`, `CrypterLibProofs`, `CardLifecycleProofs`, `FaultHookProofs`, `PageFaultProofs`, `DemoModulesProofs` | theorems | the modules they are about |

### CryptoCard

The card is external: its registers are read off the driver's accesses, and
its behaviour off the assignment text. One engine; a trigger of a busy card is
ignored; the input is latched in one step (`Fetch`) and the result written,
the busy bit cleared and the interrupt raised in another (`Finish`). A message
is one value of `Data`, `Crypt[e, k, d]` its processing. DMA mappings are
`Slots`; `bus[s]` is what the device sees there.

### CryptoDev

`pc[t]` says at which kernel step of its call a thread is; steps are cut
wherever another thread, the handler or the card can see the difference.

| Action | Code |
|---|---|
| `Reopen` | `close_handle`, `create_handle`; `pci_release`, `pci_open` |
| `SetKey`, `SetDMA`, `SetIntr` | `set_key`, `set_config` and their ioctls |
| `Encrypt`, `SetMmap` | the two ioctls of `encrypt`/`decrypt` |
| `Enter`, `Alloc`, `CopyIn` | 344-372, up to the semaphore |
| `Down` | 374-377, with `ERESTARTSYS` |
| `WriteKey`, `LoadRegion`, `MapDma`, `Start` | 379-395, 422-447: key, window or mapping, trigger |
| `Wait`, `SignalWakes`, `Spin` | `wait_event_interruptible` and the polling loops |
| `DrainRegion`, `DrainDma` | 415-421, 466-471: copy out, unmap |
| `Up`, `FreeMsg`, `Return` | the labels `out_up`, `out_free`, and back to the user (or again, after `ERESTARTSYS`) |
| `IrqRead`, `IrqWake`, `IrqAck` | the three steps of the handler |

`Faults` chooses which kernel calls may fail, `Signals` whether signals come,
`SMP` whether threads run while the handler does, `SharedLine` whether the
handler is also called for other devices. `Mappers` are the threads that pass
a pointer into the mapped window. A null or freed buffer is handled as what it
is: a store to it changes nobody's buffer, a load returns anything, a null
load ends the thread in place `oops` with the semaphore held.

Operators named `Bug...` stand beside the definitions they vary: each is a
plausible mistake in that piece of code, and `PROJECT.json` says which
property finds it. No specification uses them.

### CardService

What a caller may rely on: a call is answered once, with its message processed
as asked or with an error and the message unchanged (torn if the fault was in
copying it out). `CryptoDev` implements it: `Stage(t)` maps places to stages,
`want` is `ask`, `view` is `Seen`: the user's buffer, or the window for a caller
that keeps its message there and has its answer. The answer appears in the step
that copies it out; everything before is a stutter, the card's work in the window
included.

### CrypterLib

A byte is modelled by how often it has been encrypted less how often it has
been decrypted, so "processed exactly once" is a statement about numbers. One
`Write` step is one `write()`, which the driver carries out or fails. A failing
one may have overwritten any part of its piece (`Torn`): nothing when it fails
early, some bytes when `copy_to_user` faults (`Tear` in `CardService`), and, for
a mapped message, what the card had done when a signal ended the wait; what the
card does to such a message later is in `CryptoDev` only. For a mapped message
the driver ignores the pointer and works on the first bytes of the window
(`Piece`).

### CardLifecycle

Probe and remove are walks over two tables: `Stages` (what each stage acquires
and what follows) with `FailLabel` (where it goes when it fails), and `Unwind`
(what each label and each statement of remove gives back). `held` is the
ledger. The handler and the open files take their steps in between. `free_irq`
waits for a running handler. `Unbind` allows unbinding with a file open, which
`rmmod` refuses (`fops.owner`).

### FaultHook

Processes run `mmap_tlb.c` again and again: open, write the address, read,
store to the page, close, unmap. The store may fault or, by a stale
translation, not. `Fault` is the branch in the patched `fault.c`, `CallHook`
the module's hook. A process may be killed between its calls (`Mortal`); its
memory goes at once, its file is released afterwards, and other processes may
run in between. `Alone` says that a process starts only when no other runs.

### PageFault

A fault is a record of what decides its way: the kind of address, the bits of
the error code, the mode, whether the instruction has an exception-table
entry, its bytes, and so on. `area` is what `find_vma` returns for the address;
`Map` and `Unmap` are a thread that holds `mmap_sem` for writing and changes
it, and may itself fault by mistake (`Mistake`).

| Action | Code |
|---|---|
| `DoPageFault` | 1488-1500, a fault arrives |
| `KernelSpace` | 1250-1270: kmmio, `vmalloc_fault`, `spurious_fault`, kprobes, or the end; no lock |
| `UserSpace` | 1283-1327: kprobes, the reserved bit and its hook (`Rsvd`), SMAP, faults disabled |
| `DownReadTrylock`, `DownRead` | 1352-1359: the lock, or the excuse `MayWait` to wait for it; the label `retry` |
| `FindVma` | 1369-1405: area, growth of the stack, `access_error` |
| `HandleMmFault`, `Unpark` | 1423: done, retry without the lock, or the lock given up for a while |
| `Retry` | 1426-1447: once, unless a fatal signal is pending |
| `UpRead` | 1449-1467 and `mm_fault_error` |

The ends are operators that say "return", "signal" or "dead" of a fault:
`NoContext`, `BadAreaNosemaphore`, `DoSigbus`, `MmFaultError`; `IsPrefetch` is
the scan of the instruction's prefixes, a recursive function over its bytes.
Steps are cut where another thread can see the lock or the area. The demo's
processes are those of `FaultHook`, beside the threads; they share the hook
and its globals with `Rsvd`, where test and call of the hook are one step
(`FaultHook` has them apart).

Abstracted: the `si_code` and pkey of a signal and the signal that
`sig_on_uaccess_err` makes of a fixup, the f00f erratum and the 32-bit
variants, `page_fault_pid` and all printing and accounting.

### DemoModules

One machine loads and unloads modules; what a module does is a table, read off
its `init_module` or `probe` (`MemtrackInit`, `IrqProbe`, ...: the steps in
order, where each goes when it fails, the labels) and its `cleanup_module` or
`remove`. `held` is the ledger of the module, `leaked` what earlier ones left
behind; a leftover name is in the way of the next load.

| Action | Code |
|---|---|
| `Load`, `LoadStep`, `LoadFails`, `Loaded` | `insmod`; the steps of `init_module` or `probe` |
| `Unload`, `UndoStep` | `rmmod`; labels, `cleanup_module`, `remove` |
| `FreeManaged`, `Gone` | what devm leaves to the kernel; the module's text goes |
| `Find`, `ChrdevOpen` | the kernel finds the node, then the device, and calls the module's open |
| `DemoOpen`, `GetModule` | open up to the setting of the hook (`rsvd/btplus.c` 47-51), and from `try_module_get` on |
| `DemoRelease`, `Returned` | release up to `module_put`, and its last lines |
| `HandlerReads`, `HandlerAcks`, `TestInterrupt` | the interrupt handlers of `irq.c` and `driver_pci.c`, and of `driver_platform.c` |
| `Realize`, `Uninit` | the QEMU device comes and goes |

A process on its way into open, in it before `try_module_get`, or on its way
out of release has no reference: an unload that ends there leaves it in text
that is gone (`After`: "caught", or "dangling" once it has set the hook). On a
kernel without preemption `free_module` waits for such a process; the model is
of a preemptible one, which does not. `hook` is the process that set the fault
hook last.

The device's port answers accesses of four bytes and the drivers write one
byte (`outb`): whether the emulator lets that pass is the choice `narrow`
(`Accepts`). Left out: reads and writes of the devices, which walk page tables
or count TLB misses and print, the sysfs attributes, and the counter
`device_opened`, which nothing reads.

## 3. The runs

| Run | Instance | Result |
|---|---|---|
| `private` | two threads, a handle each, SMP, every kernel call may fail; `t1` MMIO+interrupt or DMA+polling, `t2` the opposite pair | holds: types, exclusion, results, failures, ownership of buffers and mappings, stable input, refinement of `CardService` |
| `uniprocessor` | no SMP; `t1` in all four modes, `t2` in the two that sleep | holds: no sleeper without a wakeup due, every call returns; no deadlock |
| `signals` | SMP, signals, both threads sleep for the card | holds: buffer ownership (exclusion and unharmed messages under signals are theorems) |
| `mapped` | `t1` passes a mapped pointer in all modes, `t2` uses DMA | holds: refinement of `CardService`, no null buffer used |
| `lost_wakeup` | SMP, both threads sleep | **violated**: a call never returns |
| `interrupted` | as `signals` | **violated**: a wrong result is reported as success |
| `shared_handle` | two threads, one handle | **violated**: a wrong result is reported as success |
| `library` | `BUFFERSIZE = 2`, 5 bytes, nesting 1, any `write()` may fail | holds: whole messages, at most one torn piece after a failure, pieces inside, termination |
| `library_mapped` | the same | **violated**: a mapped message larger than the buffer |
| `lifecycle` | two files, no unbinding of an open device | holds: ledger, handler, calls, open |
| `faults` | two threads, 26 faults, 7 areas, SMAP; three demo processes, two of them with the same address, one at a time, kills | holds: `mmap_sem`, checked accesses, safe waits, deserved ends, every fault ends; the demo's store completes, bit and hook are taken back, no stray store before exit |
| `demos` | all ten modules, two users, both kinds of emulator | holds: ledger with two named leftovers, files and hook lose the module only by an open or release that an unload overtakes, the handler's data is stale only inside remove, interrupts are answered |

### Bounds

* *Two threads.* All contention is for one semaphore, one wait queue, one
  card; a third thread would be another waiter. The proofs are for any number.
* *One bus address.* Only the holder of the semaphore maps, so a second one
  would be unused; and one is enough for the out-of-addresses path.
* *Two kernel buffers.* One per thread: a leak is seen at once as the lack of
  a buffer (`BuffersOwned` sees it before).
* *Symbolic data.* A message is the name of its thread, a result a term that
  says direction, key and message; anything processed twice, torn or mixed is
  `garbage`. The two threads differ in message, key and direction, so any
  mix-up shows.
* *Modes.* `private` gives each thread two modes, so that both kinds of
  operation and both kinds of wait meet each other with every fault;
  `uniprocessor` and `mapped` take one thread through all that apply.
* *Library.* Two and a half buffers: empty, shorter than, equal to and longer
  than one piece, whole and broken last pieces. `MaxDepth` bounds how often
  the user encrypts in a row.
* *Lifecycle.* Two files: one inside a call while another opens or closes.
* *Faults.* One fault for each branch the handler takes (`MCFaults`): of user
  and kernel, with and without exception entry, prefetch, errata, each test
  before the lock, each kernel address, each excuse without an exception-table
  entry to hide it. `MCAreas`: none, one above the
  address, a stack above and over it, no rights, read only, a closed key. Two
  threads: one in the handler while the other maps, or faults with the lock
  held. `Apart`: once the demo has begun, the threads take only reserved-bit
  faults, and no area is mapped then, which keeps the product of the two small;
  no thread faults at a demo address. The proofs need neither `Apart` nor
  `Smap`, and say what they assume of the addresses.
* *Fault demo.* Three processes on two pages: same address and different
  address.
* *Demo modules.* All of them. Two users: one holds a file while another finds
  or leaves; the tables are finite, and do not depend on `Users`.
* Buffers are interchangeable (`BufSymmetry`); symmetry is used only in runs
  without liveness.

### Deadlock

The multiprocessor runs of `CryptoDev` set `CHECK_DEADLOCK FALSE`: the lost
wakeup below does stop the system, and that is the subject of `lost_wakeup`.
`uniprocessor`, `library`, `lifecycle` and `demos` check deadlock. In `faults`
all processes may be lost in `demo_release` (a release without a read stores
through a null pointer) and all threads may die, after which nothing runs.

### Fairness

* `CryptoDev`: strong fairness of a thread's kernel steps and of its `down`,
  because on a uniprocessor the handler preempts threads again and again and
  the kernel's semaphore serves its waiters in order; weak fairness of the
  handler (a raised interrupt is delivered) and of the card (it finishes what
  it started). Nobody has to make a call, and no signal has to come.
* `CrypterLib`: weak fairness of the call's own steps, not of making a call.
* `FaultHook`: weak fairness of each process that has opened the device; it
  owes no opening and no kill.
* `PageFault`: strong fairness of each thread inside the handler - processors
  run on, and the semaphore queues its waiters, so that a thread that waits
  for `mmap_sem` gets it though others take it in between - and of the release
  of `mmap_sem` by who holds it for writing. No fault, no mapping and no signal
  has to come. `handle_mm_fault` may ask for a retry every time.
* `DemoModules`: weak fairness of a load or unload once begun, and of the
  handler (an asserted interrupt is delivered). Nobody has to load a module.

## 4. What the code does against its documentation

* `lost_wakeup` - the acknowledgement at line 262 follows the wakeup at 254 or
  257. On another processor the woken call ends, the next one triggers, the
  card finishes and raises the same bit, and line 262 clears it. The second
  caller sleeps with the semaphore held; everybody else sleeps behind it.
* `interrupted` - a signal during the wait (398, 448) releases the semaphore
  over a busy card. The next trigger is ignored, the next caller takes the end
  of the old operation for its own, and copies out a wrong result. On the DMA
  path the mapping is not undone either.
* `shared_handle` - `job.msg` is written at 364 before the semaphore is taken:
  of two threads on one handle the second overwrites the first's pointer.
* `library_mapped` - every piece of a mapped message is processed at the start
  of the window, so a message above 32 KB has its first piece processed once
  per piece.

Besides, four places where the code does what nothing promises it will not:

* With `Alone = FALSE`, two processes in the reserved-bit demo at once,
  `BitUndone`, `HookWhileOpen` and `AccessSurvives` fail: `demo_release` clears
  the bit of the entry read last and takes the hook from every opener.
* `StrayOnlyAtExit` names the one store of the demo into a freed page table:
  `demo_release` of a killed process, whose memory goes before its files.
* `StaleOnlyInRemove` and `LedgerBalanced` name what the demos of part 2 and
  `mem_tracker.c` do: the handler may run on freed `info` while remove ends;
  the device of a failed sysfs group and the buffer of a failed `msi_init`
  stay.
* An unload can overtake a process in the text of its module: in open before
  `try_module_get`, or in release after `module_put` (place "caught"). Between
  lines 51 and 52 of `rsvd/btplus.c` it leaves the fault hook in a module that
  is gone (place "dangling"), and so does a file whose `try_module_get` came
  too late. `HookHasModule` names these two cases and excludes all others.

## 5. What is proved

Eight modules of proofs, for every value of the constants that satisfies the
named assumptions of the modules.

**Types and exclusion** (`CryptoDevProofs`: `TypeCorrect`, `MutualExclusion`)
hold for every instance: signals, shared handles, mapped pointers and all faults
included. `TypeOK` is not inductive alone: that `DrainDma` unmaps a real slot
needs `DmaHeld` (between `MapDma` and the end of the operation the thread on
the DMA branch has a slot), and `DmaHeld` needs exclusion to know that the
address register still holds that slot. `TypeInv` is the conjunction of the
three.

**Sleeping and waking** (`CryptoDevProofs`: `SleepersAreServed`) is proved for
every instance without SMP, shared handles, signals and a shared interrupt
line included; it is the counterpart of the run `lost_wakeup`. `SleeperServed`
speaks of one sleeper, but a sleeper's interrupt is due to an operation that
some thread started, so `WakeInv` adds two facts about the engine: while it is
busy, no interrupt is raised and a running handler has read an empty status
(`NoneRaised`); and it works without an interrupt only for a thread that polls
its status (`PollerWatches`), so that nobody who tests the status and finds the
card busy goes to sleep on an operation that will not interrupt. A thread runs
only while the handler is idle and nothing is raised (`Running`), which is all
that the proof uses of the uniprocessor.

**Whom the card works for.** What a call can rely on comes in layers, each
with its invariant, and each theorem asks for the layers it needs and no more.

| invariant | says | asks for | gives |
|---|---|---|---|
| `HeldInv` (`CryptoDevProofs`) | a busy card works for a thread that waits for it, and the mappings are those of the calls that hold one (`EngineHeld`, `HeldBy`, `BusInv`) | `WaitsUndisturbed` | `MappingsBelongToCalls` |
| `BuffersInv` (`PrivateCallsProofs`) | a call has its buffer from `alloc` to `free` (`OwnInv`), and with a mapped pointer none (`BufferOK`) | `PrivateHandles` | `BuffersBelongToCalls`, `NullIsNeverUsed` |
| `ServedInv` | job, key register and engine are set as the call inside has asked | both of these | `CardServesHolder` |
| `CallOK`, `CardOK` | the message is where the place of the call says, and so is the answer | `Orderly`: both, and `WindowOwned` | `ResultsAreCorrect`, `FailuresKeepWindow`, `InputIsStable` |

`WaitsUndisturbed`: where signals come, calls poll the card, for a signal at
the semaphore does no harm and one in the wait is the finding `interrupted`.
That a call that polls is never at the sleeping places is an invariant of its
own (`NobodySleeps`). `PrivateHandles`: each thread has its own handle; the
finding `shared_handle` is what happens otherwise. `WindowOwned`: who passes a
pointer into the window has the window for itself, the others using DMA.
`CallsInv` is the conjunction of the layers. Its proof goes by who moves: a
step of another thread does not disturb a call (`CallOKOthers`, `CardOthers`;
`OffWindow` for the window), a step of its own takes it to the next place.
`FailuresKeepMessages` asks only for ordinary memory and holds on shared
handles and with any signals, for the message is the thread's (`KeptBy`).

**Waiting** (`PrivateCallsProofs`: `NobodyWaitsForNobody`), on private handles
and either a single processor or calls that poll: when every call is held back
at the semaphore, in its sleep or in its polling loop, the card is at work or
the interrupt is being served. `Blocked` lists the guards that can hold a call
back, so this is the absence of deadlock without `ENABLED`; it joins exclusion
(who waits at the semaphore waits for a holder), `NullIsNeverUsed` (no holder
is lost) and `SleepersAreServed` (no holder sleeps for ever). On a
multiprocessor with sleeping calls it does not hold: `lost_wakeup`.

**Refinement** (`CardServiceProofs`: `ImplementsService`): under `Orderly`
every step of `CryptoDev` is a step of `CardService` or a stutter.

**The library** (`CrypterLibProofs`) for every buffer and message size: the
invariant `Progress` says that before each piece exactly the bytes below
`addr` are processed, `addr + length = size` and `addr` is a multiple of
`BUFFERSIZE`; after a failure the bytes of the piece at `addr` are processed or
not, each for itself (`TornPiece`, `FailuresTearOnePiece`).
`LongMappedNeverWhole` proves the finding of `library_mapped` for
every size: no mapped message longer than the buffer is ever processed whole,
because all pieces fall on the first `BUFFERSIZE` bytes (`TailUntouched`).
`LoopShrinks` is the safety half of termination: each round ends the call or
leaves a rest shorter by one buffer and not empty.

**Probe and remove** (`CardLifecycleProofs`) for any set of files: the ledger
is a function of the place (`LedgerInv`), which every edge of the two tables
preserves; the handler runs only with the interrupt requested; and, without
forced unbinding, calls are inside only while the device is complete
(`FileInv`).

**The fault demo** (`FaultHookProofs`) for any processes and addresses, when
they run one at a time: the globals are those of the process that runs
(`AddressIsMine`, `EntryIsMine`), and reserved bits exist only between read
and release (`BitsInUse`). `StoreShortens` bounds the store to the page: the
fault is taken at most once for a bit, as the hook clears the bit that faulted.
Two theorems need no `Alone`: `DemoTypes`, and `BitsDieWithMemory`, by which a
reserved bit, misdirected or not, never outlives the memory it is set in.

**The page-fault handler** (`PageFaultProofs`) for any threads, faults, areas
and processes. `HandlerInvariant` adds to the types that a thread between
taking and release is a reader and no other is (`SemBalanced`), that a writer
is at a place of its own, that a fault past the lock is of a user address with
faults enabled, claimed by no tracer and without a reserved bit, and that who
waits may wait. `AccessesChecked`, `WaitsAreSafe` and the action property
`EndsAreDeserved` follow. The last is stated from the fault and the memory, not
from what the handler has computed (`TablesAllow`, `Traced`, `Refused`): a
handler that dropped the test for a stale translation, for a tracer, for a
prefetch or an erratum, or that gave up where memory was not refused, would
break it (`StepDeserved`, one case per place).
`FaultsShorten` is the safety half of `FaultsEnd`: `StepsLeft` decreases with
every step of a thread in the handler, whatever the others do, so that a fault
takes at most thirteen steps, one retry included, and only waiting for
`mmap_sem` can make it last.
`HandlerLeavesDemo`, under the hypothesis `Foreign` (no reserved-bit fault of
a thread at a demo address), maps every step of the composition to a step of
`FaultHook` or a stutter; with it `DemoAmongFaults` carries the theorems about
the demo over.

**The demo modules** (`DemoModulesProofs`) for any finite set of users:
`FilesInvariant` relates the reference count to the files whose open asked for
one while the module was up, which are all that a later release gives back;
hence an unload waits for them (`FilesKeepModules`). For the hook it follows
its setter from open to release: nobody else's end of the file can leave it
set (`HookKeepsModule`). The ledgers (`LedgersBalance`) are proved in two parts.
The tables are read once: `TablesFit` says of every module that each label
gives back what was acquired before the step that jumps to it, in steps that
hold it, and that no step fails once the interrupt is requested. Then the machine: `LedgerInv` says
what is held at each place of a load, a live module and an unwinding, for any
table that fits. `StaleOnlyWhenRemoved` follows from it, because a handler is
there only while the interrupt is held, and `info` then too, unless the
module is being removed.

Every safety property of the passing runs is stated by a theorem. Only
model-checked: liveness (`CallsReturn` of driver and library, `AccessReturns`,
`FaultsEnd`, `InterruptAnswered`) and with it the absence of deadlock, which
are beyond this prover. The theorems give the safety half of most: for the
driver `MutualExclusion`, `SleepersAreServed` and `NobodyWaitsForNobody`, for
the library `LoopShrinks`, for the handler and the demo `FaultsShorten` and
`StoreShortens`. What `IsPrefetch` computes is a
recursive function: its outcome is used by the proofs, its scan is not
reasoned about.

## 6. What is not modelled

* Faults of the ioctls' `copy_from_user`: the library passes the address of a
  local variable.
* `is_not_live` is one choice at the entry of `pci_write`, not a read of a
  register.
* A second card on the same driver (the global `mycryptodev` is overwritten).
* A card that never finishes: the polling loops have no bound.
* Access to the mapped window while another thread works by MMIO; the
  assignment excludes it.
* `map_card`, `unmap_card`, `pci_mmap`: address arithmetic around one `mmap`,
  with no step of another actor in between. The window starts `0xA8` bytes into
  the mapping while the accepted size is 1 MB, and `MAP_FAILED` is not tested.
* The page-table walks and the TLB counters of part 1: they read, compute and
  print. The sysfs attributes of `mem_tracker.c`: one integer.
* Two demo modules loaded at once, and the 32-bit page-fault handler.
* The hook called for a reserved-bit fault of another process at the demo's
  address: `Rsvd` models it, `Foreign` and the run's addresses exclude it, for
  the hook then clears the demo's entry under its owner.
* Tests and benchmarks are user programs; they chose the instances. Build
  files, the `.bak` files and generated code have no behaviour of their own.

## 7. Plan

Done, in this order: the card and the driver, the abstract service, the
library, probe and remove, the fault demo, the page-fault handler around it,
the demo modules and their device, and the proofs of each.

Left, in order of what it would add:

1. A second card for `CardLifecycle`, with the global `mycryptodev`
   overwritten.
2. The library's pieces on top of `CardService`: the loop of `CrypterLib` with
   the calls of several threads in between.
3. What of the fault demo holds with several processes at once, beyond
   `BitsDieWithMemory`.

## 8. Running

    tlc -config private.cfg MCCryptoDev.tla
    tlapm PrivateCallsProofs.tla

Each run's module and configuration are in `PROJECT.json`.
