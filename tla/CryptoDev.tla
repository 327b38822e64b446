------------------------------ MODULE CryptoDev ------------------------------
(***************************************************************************)
(* The cryptocard_mod character device driver (src/drivers/                *)
(* cryptocard_mod.c), its interrupt handler, and the user threads that     *)
(* reach it through encrypt/decrypt of src/src/crypter.c, one write() per  *)
(* call (the loop over 32 KB chunks is module CrypterLib's subject).       *)
(*                                                                         *)
(* A handle is an open struct file with its struct job; several threads    *)
(* may share one.  Each thread runs its call one kernel step at a time;    *)
(* the steps are cut where another thread, the handler or the card can     *)
(* see the difference.                                                     *)
(***************************************************************************)
EXTENDS CryptoCard

CONSTANTS
    Threads,   \* user threads
    Handles,   \* open files of the device
    HandleOf,  \* HandleOf[t]: the handle thread t calls with
    Mappers,   \* threads that pass a pointer into the mapped card memory
    Msg,       \* Msg[t]: the message thread t wants processed
    Bufs,      \* kernel buffers vmalloc can return
    ZeroKey,   \* the key of a fresh job
    Junk,      \* the content of memory nobody has written
    Calls,     \* Calls[t]: what thread t may ask for, one write() each
    Faults,    \* which calls of the kernel may fail
    Signals,   \* whether signals may interrupt a sleeping thread
    SMP,       \* whether threads run while the handler does
    SharedLine \* whether another device raises the same interrupt line

\* Direction, key, and the DMA and interrupt settings of a call.
CallTypes == [enc : BOOLEAN, key : Keys, isM : BOOLEAN, isI : BOOLEAN]

ASSUME HandleAssumption == HandleOf \in [Threads -> Handles]
ASSUME DataAssumption ==
    Msg \in [Threads -> Data] /\ Junk \in Data /\ ZeroKey \in Keys
ASSUME BufAssumption == None \notin Bufs
ASSUME CallAssumption ==
    Mappers \subseteq Threads /\ Calls \in [Threads -> SUBSET CallTypes]
ASSUME SwitchAssumption ==
    /\ Faults \subseteq {"live", "nomem", "copyin", "dmamap", "copyout"}
    /\ {Signals, SMP, SharedLine} \subseteq BOOLEAN

VARIABLES
    job,     \* job[h]: the struct job of handle h
    wsem,    \* the count of the semaphore wsem
    heap,    \* heap[b]: content of kernel buffer b, None when it is free
    pc,      \* pc[t]: where thread t is
    via,     \* via[t]: the branch of pci_write thread t took
    dma,     \* dma[t]: the slot (dma_handle) and buffer t has mapped
    ask,     \* ask[t]: what the current call of t was asked to do
    ubuf,    \* ubuf[t]: the user buffer of thread t
    ret,     \* ret[t]: the result of t's call
    irqpc,   \* where the interrupt handler is
    irqst    \* the status the handler has read

devVars == <<job, wsem, heap, pc, via, dma, ask, ubuf, ret,
             irqpc, irqst>>
vars == <<cardVars, devVars>>

Jobs == [isE : BOOLEAN, isM : BOOLEAN, isI : BOOLEAN, isNotMM : BOOLEAN,
         keyab : Keys, msg : Bufs \cup {None}]
DmaHandles == [at : Slots \cup {None}, buf : Bufs \cup {None}]
Unmapped == [at |-> None, buf |-> None]

Waiting == {"wait", "asleep", "spin"}

\* Where a thread is between down and up; "oops" is the end of a thread
\* that used a null buffer with the semaphore held.
Inside == {"key", "load", "start", "wait", "asleep", "spin", "drain", "up",
           "oops"}
Outside == {"user", "set_mmap", "write", "alloc", "copyin", "down", "free",
            "return"}

Codes == {"ok", "EINVAL", "ENODEV", "ENOMEM", "EAGAIN", "EPERM",
          "ERESTARTSYS", "EINTR"}

TypeOK ==
    /\ CardTypeOK
    /\ job \in [Handles -> Jobs]
    /\ wsem \in {0, 1}
    /\ heap \in [Bufs -> Data \cup {None}]
    /\ pc \in [Threads -> Inside \cup Outside]
    /\ via \in [Threads -> Vias]
    /\ dma \in [Threads -> DmaHandles]
    /\ ask \in [Threads -> [enc : BOOLEAN, key : Keys]]
    /\ ubuf \in [Threads -> Data]
    /\ ret \in [Threads -> Codes]
    /\ irqpc \in {"idle", "wake", "ack"}
    /\ irqst \in SUBSET Vias

NewJob == [isE |-> TRUE, isM |-> TRUE, isI |-> FALSE, isNotMM |-> FALSE,
           keyab |-> ZeroKey, msg |-> None]

Init ==
    /\ CardInit(ZeroKey, Junk)
    /\ job = [h \in Handles |-> NewJob]
    /\ wsem = 1
    /\ heap = [b \in Bufs |-> None]
    /\ pc = [t \in Threads |-> "user"]
    /\ via = [t \in Threads |-> "MMIO"]
    /\ dma = [t \in Threads |-> Unmapped]
    /\ ask = [t \in Threads |-> [enc |-> TRUE, key |-> ZeroKey]]
    /\ ubuf = [t \in Threads |-> Msg[t]]
    /\ ret = [t \in Threads |-> "ok"]
    /\ irqpc = "idle"
    /\ irqst = {}

-----------------------------------------------------------------------------
J(t) == job[HandleOf[t]]

\* On a single processor a raised interrupt is served before the next
\* instruction of any thread.
Running == SMP \/ (irqpc = "idle" /\ isr = {})

\* Thread t leaves place a for place b.
Go(t, a, b) == Running /\ pc[t] = a /\ pc' = [pc EXCEPT ![t] = b]

\* The same with the result of the call.
Fail(t, a, b, code) == Go(t, a, b) /\ ret' = [ret EXCEPT ![t] = code]

SetJob(t, j) == job' = [job EXCEPT ![HandleOf[t]] = j]

-----------------------------------------------------------------------------
(* User side: handles, their configuration, and calls of the library.      *)

\* close_handle, then create_handle: pci_release frees the job and pci_open
\* makes a fresh one.  The kernel releases a file when no call uses it.
Reopen(h) ==
    /\ \A t \in Threads : HandleOf[t] = h => pc[t] = "user"
    /\ job' = [job EXCEPT ![h] = NewJob]
    /\ UNCHANGED <<cardVars, wsem, heap, pc, via, dma, ask, ubuf, ret, irqpc,
                   irqst>>

\* The library's set_key and set_config: ioctls SET_KEY___ and SET_CONFIG.
Configure(t, j) ==
    /\ Running
    /\ pc[t] = "user"
    /\ SetJob(t, j)
    /\ UNCHANGED <<cardVars, wsem, heap, pc, via, dma, ask, ubuf, ret,
                   irqpc, irqst>>

SetKey(t, c)  == Configure(t, [J(t) EXCEPT !.keyab = c.key])
SetDMA(t, c)  == Configure(t, [J(t) EXCEPT !.isM = c.isM])
SetIntr(t, c) == Configure(t, [J(t) EXCEPT !.isI = c.isI])

\* encrypt (c.enc) or decrypt: the user has stored its message at the
\* address it passes, and the first ioctl is SET_ENCRYP.
Encrypt(t, c) ==
    /\ J(t).keyab = c.key /\ J(t).isM = c.isM /\ J(t).isI = c.isI
    /\ Go(t, "user", "set_mmap")
    /\ SetJob(t, [J(t) EXCEPT !.isE = c.enc])
    /\ ask' = [ask EXCEPT ![t] = [enc |-> c.enc, key |-> c.key]]
    /\ region' = IF t \in Mappers THEN Msg[t] ELSE region
    /\ UNCHANGED <<keyReg, addrReg, bus, phase, op, work, isr, wsem, heap,
                   via, dma, ubuf, ret, irqpc, irqst>>

\* The second ioctl of encrypt and decrypt, SET_MMAP__.
SetMmap(t) ==
    /\ Go(t, "set_mmap", "write")
    /\ SetJob(t, [J(t) EXCEPT !.isNotMM = t \notin Mappers])
    /\ UNCHANGED <<cardVars, wsem, heap, via, dma, ask, ubuf, ret,
                   irqpc, irqst>>

-----------------------------------------------------------------------------
(* pci_write.                                                              *)

\* A job cannot use DMA on a pointer into the card.  In the variant with a
\* bug the test looks at the wrong value of isM.
BugMappedDma(t) == ~ J(t).isNotMM /\ J(t).isM

MappedDma(t) == ~ J(t).isNotMM /\ ~ J(t).isM

\* Entry checks; a mapped pointer needs no kernel buffer.
Enter(t) ==
    /\ \/ /\ MappedDma(t)
          /\ Fail(t, "write", "return", "EINVAL")
       \/ /\ ~ MappedDma(t)
          /\ "live" \in Faults
          /\ Fail(t, "write", "return", "ENODEV")
       \/ /\ ~ MappedDma(t)
          /\ Go(t, "write", IF J(t).isNotMM THEN "alloc" ELSE "down")
          /\ UNCHANGED ret
    /\ UNCHANGED <<cardVars, job, wsem, heap, via, dma, ask, ubuf,
                   irqpc, irqst>>

FreeBufs == {b \in Bufs : heap[b] = None}

Alloc(t) ==
    /\ \/ \E b \in FreeBufs :
            /\ Go(t, "alloc", "copyin")
            /\ heap' = [heap EXCEPT ![b] = Junk]
            /\ SetJob(t, [J(t) EXCEPT !.msg = b])
            /\ UNCHANGED ret
       \/ /\ "nomem" \in Faults \/ FreeBufs = {}
          /\ Fail(t, "alloc", "return", "ENOMEM")
          /\ SetJob(t, [J(t) EXCEPT !.msg = None])
          /\ UNCHANGED heap
    /\ UNCHANGED <<cardVars, wsem, via, dma, ask, ubuf, irqpc, irqst>>

\* A store through a pointer that is null or freed hits nobody's buffer.
Store(b, d) == IF b # None /\ heap[b] # None THEN [heap EXCEPT ![b] = d]
               ELSE heap

\* What a load through b may return, from memory with content h.
LoadFrom(h, b) == IF b # None /\ h[b] # None THEN {h[b]} ELSE Data

Load(b) == LoadFrom(heap, b)

\* With the bug it leaves by the label out_up.
BugCopyInFails(t) ==
    /\ "copyin" \in Faults \/ J(t).msg = None
    /\ Fail(t, "copyin", "up", "EAGAIN")

CopyInFails(t) ==
    /\ "copyin" \in Faults \/ J(t).msg = None
    /\ Fail(t, "copyin", "free", "EAGAIN")

CopyIn(t) ==
    /\ \/ /\ J(t).msg # None
          /\ Go(t, "copyin", "down")
          /\ heap' = Store(J(t).msg, ubuf[t])
          /\ UNCHANGED ret
       \/ CopyInFails(t) /\ UNCHANGED heap
    /\ UNCHANGED <<cardVars, job, wsem, via, dma, ask, ubuf, irqpc,
                   irqst>>

\* With the bug the count is tested but not taken.
BugDownTakes(t) ==
    /\ wsem > 0
    /\ wsem' = wsem
    /\ Go(t, "down", "key")

DownTakes(t) ==
    /\ wsem > 0
    /\ wsem' = wsem - 1
    /\ Go(t, "down", "key")

\* With the bug it returns at once.
BugDownInterrupted(t) ==
    /\ wsem = 0
    /\ Signals
    /\ Fail(t, "down", "return", "ERESTARTSYS")

DownInterrupted(t) ==
    /\ wsem = 0
    /\ Signals
    /\ Fail(t, "down", "free", "ERESTARTSYS")

Down(t) ==
    /\ \/ DownTakes(t) /\ UNCHANGED ret
       \/ DownInterrupted(t) /\ UNCHANGED wsem
    /\ UNCHANGED <<cardVars, job, heap, via, dma, ask, ubuf, irqpc,
                   irqst>>

WriteKey(t) ==
    /\ Go(t, "key", "load")
    /\ keyReg' = J(t).keyab
    /\ via' = [via EXCEPT ![t] = IF J(t).isM THEN "MMIO" ELSE "DMA"]
    /\ UNCHANGED <<addrReg, region, bus, phase, op, work, isr, job,
                   wsem, heap, dma, ask, ubuf, ret, irqpc, irqst>>

\* MMIO: the message goes into the window, unless the user put it there.
LoadRegion(t) ==
    /\ via[t] = "MMIO"
    /\ \/ /\ ~ J(t).isNotMM
          /\ Go(t, "load", "start")
          /\ UNCHANGED region
       \/ /\ J(t).isNotMM /\ J(t).msg # None
          /\ Go(t, "load", "start")
          /\ \E d \in Load(J(t).msg) : region' = d
       \/ /\ J(t).isNotMM /\ J(t).msg = None
          /\ Go(t, "load", "oops")
          /\ UNCHANGED region
    /\ UNCHANGED <<keyReg, addrReg, bus, phase, op, work, isr, job,
                   wsem, heap, via, dma, ask, ubuf, ret, irqpc, irqst>>

FreeSlots == {s \in Slots : bus[s] = None}

\* With the bug it leaves by the label out_free.
BugMapFails(t) ==
    /\ "dmamap" \in Faults \/ FreeSlots = {}
    /\ Fail(t, "load", "free", "EPERM")

MapFails(t) ==
    /\ "dmamap" \in Faults \/ FreeSlots = {}
    /\ Fail(t, "load", "up", "EPERM")

\* DMA: the buffer is mapped and its bus address given to the card.
MapDma(t) ==
    /\ via[t] = "DMA"
    /\ \/ \E s \in FreeSlots :
            /\ Go(t, "load", "start")
            /\ \E d \in Load(J(t).msg) : bus' = [bus EXCEPT ![s] = d]
            /\ dma' = [dma EXCEPT ![t] = [at |-> s, buf |-> J(t).msg]]
            /\ WriteDmaAddr(s)
            /\ UNCHANGED ret
       \/ MapFails(t) /\ UNCHANGED <<bus, dma, addrReg>>
    /\ UNCHANGED <<keyReg, region, phase, op, work, isr, job, wsem,
                   heap, via, ask, ubuf, irqpc, irqst>>

\* With the bug the direction bit is missing.
BugCommand(t) == Trigger(via[t], TRUE, J(t).isI)

\* The value written to the status or the command register.
Command(t) == Trigger(via[t], J(t).isE, J(t).isI)

Start(t) ==
    /\ Go(t, "start", IF J(t).isI THEN "wait" ELSE "spin")
    /\ Command(t)
    /\ UNCHANGED <<keyReg, addrReg, region, bus, work, isr, job, wsem,
                   heap, via, dma, ask, ubuf, ret, irqpc, irqst>>

\* With the bug every wait looks at the MMIO status register.
BugDone(t) == ~ BusyBit("MMIO")

\* What pci_write waits for: the busy bit of its own kind of operation.
Done(t) == ~ BusyBit(via[t])

Interrupted(t) ==
    ~ Done(t) /\ Signals /\ Fail(t, "wait", "up", "ERESTARTSYS")

\* wait_event_interruptible: the condition is read, and read again after
\* every wakeup; a signal counts only while the condition is false.
Wait(t) ==
    /\ \/ /\ Done(t)
          /\ Go(t, "wait", "drain")
          /\ UNCHANGED ret
       \/ /\ ~ Done(t)
          /\ Go(t, "wait", "asleep")
          /\ UNCHANGED ret
       \/ Interrupted(t)
    /\ UNCHANGED <<cardVars, job, wsem, heap, via, dma, ask, ubuf,
                   irqpc, irqst>>

\* A signal makes a sleeping thread look at the condition again.
SignalWakes(t) ==
    /\ Signals
    /\ Go(t, "asleep", "wait")
    /\ UNCHANGED <<cardVars, job, wsem, heap, via, dma, ask, ubuf, ret,
                   irqpc, irqst>>

\* The busy-waiting loops.
Spin(t) ==
    /\ Done(t)
    /\ Go(t, "spin", "drain")
    /\ UNCHANGED <<cardVars, job, wsem, heap, via, dma, ask, ubuf, ret,
                   irqpc, irqst>>

\* With the bug the error code is the one err starts with.
BugCopyOut(t, d) ==
    \/ /\ Go(t, "drain", "up")
       /\ ubuf' = [ubuf EXCEPT ![t] = d]
       /\ UNCHANGED ret
    \/ /\ "copyout" \in Faults
       /\ Fail(t, "drain", "up", "EPERM")
       /\ \E torn \in {ubuf[t], Junk} : ubuf' = [ubuf EXCEPT ![t] = torn]

\* copy_to_user of d into the caller's buffer; a fault may leave it torn.
CopyOut(t, d) ==
    \/ /\ Go(t, "drain", "up")
       /\ ubuf' = [ubuf EXCEPT ![t] = d]
       /\ UNCHANGED ret
    \/ /\ "copyout" \in Faults
       /\ Fail(t, "drain", "up", "EAGAIN")
       /\ \E torn \in {ubuf[t], Junk} : ubuf' = [ubuf EXCEPT ![t] = torn]

\* The end of an MMIO operation: the result stays in the window for a
\* mapped pointer, and goes to the user through the buffer otherwise.
DrainRegion(t) ==
    /\ via[t] = "MMIO"
    /\ \/ /\ ~ J(t).isNotMM
          /\ Go(t, "drain", "up")
          /\ UNCHANGED <<heap, ubuf, ret>>
       \/ /\ J(t).isNotMM /\ J(t).msg # None
          /\ heap' = Store(J(t).msg, region)
          /\ \E d \in LoadFrom(heap', J(t).msg) : CopyOut(t, d)
       \/ /\ J(t).isNotMM /\ J(t).msg = None
          /\ Go(t, "drain", "oops")
          /\ UNCHANGED <<heap, ubuf, ret>>
    /\ UNCHANGED <<cardVars, job, wsem, via, dma, ask, irqpc, irqst>>

\* With the bug the bus address is never given back.
BugUnmap(t) ==
    /\ UNCHANGED bus
    /\ dma' = [dma EXCEPT ![t] = Unmapped]

Unmap(t) ==
    /\ bus' = [bus EXCEPT ![dma[t].at] = None]
    /\ dma' = [dma EXCEPT ![t] = Unmapped]

\* The end of a DMA operation: unmapping hands the result to the buffer
\* that was mapped, and the job's buffer goes to the user.
DrainDma(t) ==
    /\ via[t] = "DMA" /\ pc[t] = "drain"
    /\ Unmap(t)
    /\ heap' = Store(dma[t].buf, bus[dma[t].at])
    /\ \/ /\ J(t).msg # None
          /\ \E d \in LoadFrom(heap', J(t).msg) : CopyOut(t, d)
       \/ /\ J(t).msg = None
          /\ Go(t, "drain", "oops")
          /\ UNCHANGED <<ubuf, ret>>
    /\ UNCHANGED <<keyReg, addrReg, region, phase, op, work, isr, job,
                   wsem, via, ask, irqpc, irqst>>

Up(t) ==
    /\ Go(t, "up", "free")
    /\ wsem' = wsem + 1
    /\ dma' = [dma EXCEPT ![t] = Unmapped]
    /\ UNCHANGED <<cardVars, job, heap, via, ask, ubuf, ret, irqpc,
                   irqst>>

\* With the bug a failed call keeps its buffer.
BugHasBuffer(t) == J(t).isNotMM /\ J(t).msg # None /\ ret[t] = "ok"

HasBuffer(t) == J(t).isNotMM /\ J(t).msg # None

FreeMsg(t) ==
    /\ Go(t, "free", "return")
    /\ heap' = IF HasBuffer(t) THEN [heap EXCEPT ![J(t).msg] = None]
               ELSE heap
    /\ SetJob(t, [J(t) EXCEPT !.msg = None])
    /\ UNCHANGED <<cardVars, wsem, via, dma, ask, ubuf, ret, irqpc,
                   irqst>>

\* Back in the library.  After ERESTARTSYS the kernel calls pci_write
\* again with the same arguments, or the call fails with EINTR; else the
\* user takes the result and puts its next message in the buffer.
Return(t) ==
    /\ \/ /\ ret[t] # "ERESTARTSYS"
          /\ Fail(t, "return", "user", "ok")
          /\ ubuf' = [ubuf EXCEPT ![t] = Msg[t]]
       \/ /\ ret[t] = "ERESTARTSYS"
          /\ Fail(t, "return", "write", "ok")
          /\ UNCHANGED ubuf
       \/ /\ ret[t] = "ERESTARTSYS"
          /\ Fail(t, "return", "return", "EINTR")
          /\ UNCHANGED ubuf
    /\ UNCHANGED <<cardVars, job, wsem, heap, via, dma, ask, irqpc, irqst>>

-----------------------------------------------------------------------------
(* pci_irq_handle.                                                         *)

IrqRead ==
    /\ irqpc = "idle"
    /\ isr # {} \/ SharedLine
    /\ irqst' = isr
    /\ irqpc' = "wake"
    /\ UNCHANGED <<cardVars, job, wsem, heap, pc, via, dma, ask, ubuf,
                   ret>>

\* With the bug the status of a DMA operation is compared with 0x10.
BugWakes(status) == status = {"MMIO"}

\* Only a status of exactly one kind wakes the sleepers.
Wakes(status) == status \in {{"MMIO"}, {"DMA"}}

IrqWake ==
    /\ irqpc = "wake"
    /\ irqpc' = "ack"
    /\ pc' = IF Wakes(irqst)
             THEN [t \in Threads |-> IF pc[t] = "asleep" THEN "wait"
                                     ELSE pc[t]]
             ELSE pc
    /\ UNCHANGED <<cardVars, job, wsem, heap, via, dma, ask, ubuf, ret,
                   irqst>>

IrqAck ==
    /\ irqpc = "ack"
    /\ irqpc' = "idle"
    /\ Acknowledge(irqst)
    /\ UNCHANGED <<keyReg, addrReg, region, bus, phase, op, work, job,
                   wsem, heap, pc, via, dma, ask, ubuf, ret, irqst>>

-----------------------------------------------------------------------------
User(t) ==
    \E c \in Calls[t] :
        SetKey(t, c) \/ SetDMA(t, c) \/ SetIntr(t, c) \/ Encrypt(t, c)

Kernel(t) ==
    \/ SetMmap(t) \/ Enter(t) \/ Alloc(t) \/ CopyIn(t)
    \/ WriteKey(t) \/ LoadRegion(t) \/ MapDma(t) \/ Start(t)
    \/ Wait(t) \/ Spin(t)
    \/ DrainRegion(t) \/ DrainDma(t)
    \/ Up(t) \/ FreeMsg(t) \/ Return(t)

Irq == IrqRead \/ IrqWake \/ IrqAck

Card == Engine /\ UNCHANGED devVars

Next ==
    \/ \E h \in Handles : Reopen(h)
    \/ \E t \in Threads : User(t) \/ Down(t) \/ Kernel(t) \/ SignalWakes(t)
    \/ Irq
    \/ Card

Spec == Init /\ [][Next]_vars

\* The scheduler runs every runnable thread again and again (on a single
\* processor between two runs of the handler, hence strong fairness), the
\* kernel's semaphore serves its waiters in order, a raised interrupt is
\* delivered, and the card finishes what it started.  Nobody owes a call
\* or a signal.
Fairness ==
    /\ \A t \in Threads : SF_vars(Kernel(t)) /\ SF_vars(Down(t))
    /\ WF_vars(Irq)
    /\ WF_vars(Card)

FairSpec == Spec /\ Fairness

-----------------------------------------------------------------------------
(* Properties.                                                             *)

Holders == {t \in Threads : pc[t] \in Inside}

\* down and up bracket every use of the card's registers, on every error
\* path of pci_write: the count says whether a thread is between them, and
\* at most one is.
SemaphoreExcludes ==
    /\ wsem = IF Holders = {} THEN 1 ELSE 0
    /\ \A t, u \in Holders : t = u

\* What thread t finds at the address it passed to the call.
View(t) == IF t \in Mappers THEN region ELSE ubuf[t]

Answer(t) == Crypt[ask[t].enc, ask[t].key, Msg[t]]

\* A call that reports success has processed the caller's message, once,
\* in the direction and under the key that were set when it was made,
\* whatever other threads made the card do meanwhile.
ResultCorrect ==
    \A t \in Threads :
        pc[t] = "return" /\ ret[t] = "ok" => View(t) = Answer(t)

\* A call that fails leaves the caller's message as it was, so that it can
\* be made again; only EAGAIN, a fault while copying, may tear it.
FailureKeepsMessage ==
    \A t \in Threads :
        pc[t] = "return" /\ ret[t] \notin {"ok", "EAGAIN"} => View(t) = Msg[t]

\* No call reads or writes through a buffer pointer it has not got: a
\* pointer into the card never reaches the code that uses the buffer.
NullNeverUsed == \A t \in Threads : pc[t] # "oops"

\* The engine works for the thread that holds the semaphore and waits for
\* it, on that thread's direction, key and mapping; so nobody finds it busy
\* with work of a call that is over.
EngineServesHolder ==
    Busy => \E t \in Threads :
                /\ pc[t] \in Waiting
                /\ op.via = via[t] /\ op.enc = ask[t].enc
                /\ keyReg = ask[t].key
                /\ op.slot = IF via[t] = "DMA" THEN dma[t].at ELSE None

\* The kernel buffers in use are those of the calls in flight, each with
\* its own: no path of pci_write leaks one or frees one it does not own.
InFlight == {t \in Threads : pc[t] \in (Inside \cup {"copyin", "down", "free"})
                             /\ J(t).isNotMM}

BuffersOwned ==
    /\ {b \in Bufs : heap[b] # None} = {J(t).msg : t \in InFlight}
    /\ \A t, u \in InFlight : J(t).msg = J(u).msg => t = u

\* The bus addresses in use are those of the calls in flight: a mapping is
\* undone on every way out of pci_write that made it.
MappingsOwned ==
    {s \in Slots : bus[s] # None} =
        {dma[t].at : t \in {u \in Threads : dma[u].at # None}}

\* The card's input does not change under an operation that has been
\* triggered and not yet fetched it: key, operation, and the window or the
\* mapped buffer it will read.
InputStable ==
    [][phase = "armed" /\ phase' = "armed" =>
        /\ keyReg' = keyReg /\ op' = op
        /\ op.via = "MMIO" => region' = region
        /\ op.via = "DMA" => bus'[op.slot] = bus[op.slot]]_vars

\* A wakeup is on its way to thread t: the engine works on t's kind of
\* operation and will raise the interrupt, or it has raised its bit alone,
\* and the handler's next look at the status is still to come or has it.
WakeupDue(t) ==
    \/ BusyBit(via[t]) /\ op.irq
    \/ /\ isr = {via[t]}
       /\ irqpc = "wake" => irqst \in {{}, isr}
       /\ irqpc = "ack" => irqst = {}

\* No thread sleeps with nobody left to wake it, whoever else's operation the
\* engine was busy with when it started its own.
SleeperServed == \A t \in Threads : pc[t] = "asleep" => WakeupDue(t)

\* Every call comes back to its caller: no wakeup is lost, no waiter is
\* left at the semaphore.
CallsReturn == \A t \in Threads : pc[t] # "user" ~> pc[t] = "user"

\* The driver and the card implement the service callers rely on.
Stage(t) ==
    IF pc[t] = "user" THEN "idle"
    ELSE IF pc[t] \notin {"up", "free", "return"} THEN "asked"
    ELSE IF ret[t] = "ok" THEN "served" ELSE "refused"

\* What the caller sees at its address: one that keeps its message in the
\* window looks there again when the call is answered.
Seen(t) == IF Stage(t) \in {"served", "refused"} THEN View(t) ELSE ubuf[t]

Service == INSTANCE CardService
               WITH stage <- [t \in Threads |-> Stage(t)],
                    want <- ask, view <- [t \in Threads |-> Seen(t)]

ServiceSpec == Service!Spec
=============================================================================
