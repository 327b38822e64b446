------------------------------ MODULE PageFault ------------------------------
(***************************************************************************)
(* The patched page-fault handler, src/bechmark-test/Demo/part1/rsvd/      *)
(* fault.c, beside the demo whose hook it calls (module FaultHook).        *)
(*                                                                         *)
(* Threads share one address space: its mmap_sem, and the area that        *)
(* find_vma finds for the address they fault on, which a thread that holds *)
(* mmap_sem for writing may change.  A fault is a record of what the       *)
(* hardware reports and what the handler can find out about its origin:    *)
(*                                                                         *)
(*   space   "user", "vmalloc" or "kernel": where the address is           *)
(*   bits    of the error code: P (present), W (write), U (user),          *)
(*           R (reserved bit), I (fetch), K (protection key)               *)
(*   user    whether user_mode(regs)                                       *)
(*   fix     whether the instruction has an exception-table entry          *)
(*   off     whether faults are disabled, or there is no mm                *)
(*   ac      whether the kernel has opened user memory (EFLAGS.AC)         *)
(*   near    whether the address is not far below the stack pointer        *)
(*   traced  "none", or what takes the fault: "kmmio", "kprobe" or, for a  *)
(*           fetch of the user, "vsyscall"                                 *)
(*   entry   the rights of a kernel address, {} when not present           *)
(*   master  what init_mm has for a vmalloc address: "none", no top-level  *)
(*           entry, "empty", no page below it, or "mapped"                 *)
(*   guard   whether it is the guard page of the kernel stack              *)
(*   quirk   whether it is the erratum the CPU model is known for          *)
(*   code    the bytes of the instruction                                  *)
(*   page    the page of the address                                       *)
(***************************************************************************)
EXTENDS FaultHook, Integers, Sequences

CONSTANTS
    Threads,  \* threads of one address space
    Faults,   \* the faults they may take
    Areas,    \* what find_vma may return
    Smap,     \* whether the CPU keeps the kernel from user memory
    Apart     \* bound: once the demo has begun, which it does in a memory
              \* without areas, no faults but its own and those of other
              \* reserved bits are handled

Bits == {"P", "W", "U", "R", "I", "K"}

FaultRecords ==
    [space : {"user", "vmalloc", "kernel"}, bits : SUBSET Bits,
     user : BOOLEAN, fix : BOOLEAN, off : BOOLEAN, ac : BOOLEAN,
     near : BOOLEAN, traced : {"none", "kmmio", "kprobe", "vsyscall"},
     entry : SUBSET {"P", "W", "I"}, master : {"none", "empty", "mapped"},
     guard : BOOLEAN, quirk : BOOLEAN, code : Seq(0 .. 255), page : Pages]

\* An access of the user is made in user mode; the converse is not so.
ASSUME FaultsAssumption ==
    /\ Faults \subseteq FaultRecords
    /\ \A f \in Faults : "U" \in f.bits => f.user

\* An area lies over the address or above it, may grow down, and allows
\* reads and writes; with "key" its protection key is open.
AreaRecords ==
    [over : BOOLEAN, grows : BOOLEAN, may : SUBSET {"r", "w"}, key : BOOLEAN]

ASSUME AreasAssumption ==
    /\ None \in Areas
    /\ Areas \ {None} \subseteq AreaRecords
    /\ \A a \in Areas \ {None} : a.grows => [a EXCEPT !.over = TRUE] \in Areas
ASSUME ThreadsAssumption ==
    None \notin Threads /\ None \notin FaultRecords /\ None \notin AreaRecords
ASSUME ModeAssumption == Smap \in BOOLEAN /\ Apart \in BOOLEAN

VARIABLES
    at,       \* at[t]: where thread t is
    fault,    \* fault[t]: the fault it is in
    tried,    \* tried[t]: whether FAULT_FLAG_ALLOW_RETRY is cleared
    area,     \* the area of the address
    readers,  \* the threads that hold mmap_sem for reading
    writer    \* the thread that holds it for writing

handling == <<at, fault, tried>>
memory   == <<area, readers, writer>>
hvars    == <<handling, memory>>
allvars  == <<vars, hvars>>

Locked  == {"find", "handling", "handled"}
Handler == Locked \cup {"entry", "try", "down", "retry", "parked"}
Outside == {"user", "map", "signal", "dead"}

HandlerTypeOK ==
    /\ TypeOK
    /\ at \in [Threads -> Handler \cup Outside]
    /\ fault \in [Threads -> FaultRecords \cup {None}]
    /\ \A t \in Threads : at[t] \in Handler => fault[t] # None
    /\ tried \in [Threads -> BOOLEAN]
    /\ area \in Areas
    /\ readers \subseteq Threads
    /\ writer \in Threads \cup {None}

HandlerInit ==
    /\ Init
    /\ at = [t \in Threads |-> "user"]
    /\ fault = [t \in Threads |-> None]
    /\ tried = [t \in Threads |-> FALSE]
    /\ area \in Areas
    /\ readers = {} /\ writer = None

Move(t, b) == at' = [at EXCEPT ![t] = b] /\ UNCHANGED <<fault, tried>>

\* The handler returns, sends a signal to the thread, or kills it.
EndAs(t, place) ==
    /\ at' = [at EXCEPT ![t] = place]
    /\ fault' = [fault EXCEPT ![t] = None]
    /\ tried' = [tried EXCEPT ![t] = FALSE]

Back(t) == IF writer = t THEN "map" ELSE "user"

-----------------------------------------------------------------------------
(* Is the instruction a prefetch, on which some CPUs report faults they    *)
(* should not?                                                             *)

\* The first line is the segment prefixes, then REX, 64 to 67, F0, F2, F3.
IsPrefix(op) ==
    LET hi == op \div 16
        lo == op % 16
    IN  \/ hi \in {2, 3} /\ lo % 8 = 6
        \/ hi = 4
        \/ hi = 6 /\ lo \div 4 = 1
        \/ hi = 15 /\ (lo = 0 \/ lo \div 2 = 1)

MaxInstr == 15

\* A byte that cannot be read ends the scan; so does the first byte that is
\* no prefix, which must be 0F, and 0D or 18 behind it.
IsPrefetch(f) ==
    LET readable(i) == i <= Len(f.code)
        prefetch[i \in 1 .. (MaxInstr + 1)] ==
            /\ i <= MaxInstr
            /\ readable(i)
            /\ IF IsPrefix(f.code[i]) THEN prefetch[i + 1]
               ELSE /\ f.code[i] = 15
                    /\ readable(i + 1)
                    /\ f.code[i + 1] \in {13, 24}
    IN  "I" \notin f.bits /\ prefetch[1]

-----------------------------------------------------------------------------
(* Where a fault that cannot be handled ends.                              *)

\* The K8 jumps to an address whose upper half is lost.
IsErrata93(f) == f.quirk /\ f.space = "user"

\* The K8 in compatibility mode jumps above 4 GB.
IsErrata100(f) == f.quirk /\ f.user

\* The vsyscall page is not mapped: the call is emulated.
Vsyscall(f) == f.traced = "vsyscall" /\ "I" \in f.bits /\ f.space = "kernel"

\* A kernel fault: its exception-table entry, the guard page of the stack,
\* the excuses, the oops.
NoContext(f) ==
    IF f.fix THEN "return"
    ELSE IF f.guard THEN "dead"
    ELSE IF IsPrefetch(f) \/ IsErrata93(f) THEN "return"
    ELSE "dead"

\* A user fault is excused or gets SIGSEGV.
BadAreaNosemaphore(f) ==
    IF "U" \in f.bits
    THEN IF IsPrefetch(f) \/ IsErrata100(f) \/ Vsyscall(f) THEN "return"
         ELSE "signal"
    ELSE NoContext(f)

DoSigbus(f) ==
    IF "U" \notin f.bits THEN NoContext(f)
    ELSE IF IsPrefetch(f) THEN "return" ELSE "signal"

\* What handle_mm_fault could not do; fatal is a SIGKILL that is pending.
MmFaultError(f, error, fatal) ==
    IF fatal /\ "U" \notin f.bits THEN NoContext(f)
    ELSE IF error = "oom"
    THEN IF "U" \notin f.bits THEN NoContext(f) ELSE "return"
    ELSE IF error = "sigbus" THEN DoSigbus(f)
    ELSE BadAreaNosemaphore(f)

End(t, outcome) ==
    EndAs(t, IF outcome = "return" THEN Back(t) ELSE outcome)

-----------------------------------------------------------------------------
(* A fault at a kernel address takes no lock.                              *)

Kmmio(f) == f.traced = "kmmio"
Kprobes(f) == f.traced = "kprobe" /\ ~ f.user

\* The top-level entry is copied from init_mm's tables, and the access made
\* again if there is a page below it.
VmallocFault(f) == f.space = "vmalloc" /\ f.master = "mapped"

SpuriousFaultCheck(f) ==
    /\ "W" \in f.bits => "W" \in f.entry
    /\ "I" \in f.bits => "I" \in f.entry

\* With the bug the tables are not looked at: the fault is always believed.
BugSpuriousFault(f) == FALSE

\* Only writes to a read-only and fetches from a no-execute entry.
SpuriousFault(f) ==
    /\ f.bits \in {{"W", "P"}, {"I", "P"}}
    /\ "P" \in f.entry
    /\ SpuriousFaultCheck(f)

KernelSpace(t) ==
    LET f == fault[t]
        unmapped == f.bits \cap {"R", "U", "P"} = {}
    IN
    /\ at[t] = "entry" /\ f.space # "user"
    /\ End(t, IF \/ Kmmio(f)
                 \/ unmapped /\ VmallocFault(f)
                 \/ SpuriousFault(f)
                 \/ Kprobes(f)
              THEN "return"
              ELSE BadAreaNosemaphore(f))
    /\ UNCHANGED <<memory, vars>>

-----------------------------------------------------------------------------
(* A fault at a user address.                                              *)

SmapViolation(f) ==
    Smap /\ "U" \notin f.bits /\ ~ (~ f.user /\ f.ac)

\* pgtable_bad, unless a hook there is takes the fault: fault_hook compares
\* the address only, whoever's it is.
Rsvd(t) ==
    LET accepts == hook /\ gptr = fault[t].page /\ gpte # None IN
    /\ End(t, IF accepts THEN "return" ELSE "dead")
    /\ rsvd' = IF accepts THEN Clear ELSE rsvd
    /\ stray' = (stray \/ (accepts /\ ~ Alive(gpte)))
    /\ UNCHANGED <<pc, gptr, gpte, hook>>

Wanted(f) == IF f.user THEN [f EXCEPT !.bits = @ \cup {"U"}] ELSE f

\* What is settled before mmap_sem is tried.
UserSpace(t) ==
    LET f == fault[t] IN
    /\ at[t] = "entry" /\ f.space = "user"
    /\ IF Kmmio(f) \/ Kprobes(f) THEN End(t, "return") /\ UNCHANGED vars
       ELSE IF "R" \in f.bits THEN Rsvd(t)
       ELSE /\ IF SmapViolation(f) \/ f.off
               THEN End(t, BadAreaNosemaphore(f))
               ELSE /\ at' = [at EXCEPT ![t] = "try"]
                    /\ fault' = [fault EXCEPT ![t] = Wanted(f)]
                    /\ UNCHANGED tried
            /\ UNCHANGED vars
    /\ UNCHANGED <<memory>>

\* With the bug a fault from anywhere in the kernel waits for the lock.
BugMayWait(f) == TRUE

\* Kernel code waits only where an exception-table entry says that it may
\* touch user memory: code that faults by mistake may hold mmap_sem.
MayWait(f) == "U" \in f.bits \/ f.fix

DownReadTrylock(t) ==
    /\ at[t] = "try"
    /\ IF writer = None
       THEN Move(t, "find") /\ readers' = readers \cup {t}
       ELSE /\ UNCHANGED readers
            /\ IF MayWait(fault[t]) THEN Move(t, "down")
               ELSE End(t, BadAreaNosemaphore(fault[t]))
    /\ UNCHANGED <<area, writer, vars>>

\* With the bug a retry goes on with the area it had found.
BugDownReadTo(t) == IF tried[t] THEN "handling" ELSE "find"

\* The label retry: stands before find_vma.
DownReadTo(t) == "find"

DownRead(t) ==
    /\ at[t] = "down"
    /\ writer = None
    /\ Move(t, DownReadTo(t))
    /\ readers' = readers \cup {t}
    /\ UNCHANGED <<area, writer, vars>>

AccessError(f, a) ==
    \/ "K" \in f.bits \/ ~ a.key
    \/ IF "W" \in f.bits THEN "w" \notin a.may
       ELSE "P" \in f.bits \/ a.may = {}

\* Is there an area below which the stack may grow to the address?
Expandable(f) ==
    /\ area # None
    /\ ~ area.over => area.grows /\ ("U" \in f.bits => f.near)

\* __bad_area: the lock goes before the signal.
BadArea(t) ==
    /\ readers' = readers \ {t}
    /\ End(t, BadAreaNosemaphore(fault[t]))
    /\ UNCHANGED area

\* find_vma, the growth of the stack, which may fail, and the check of the
\* access.
FindVma(t) ==
    /\ at[t] = "find"
    /\ IF ~ Expandable(fault[t]) THEN BadArea(t)
       ELSE \/ ~ area.over /\ BadArea(t)
            \/ /\ AccessError(fault[t], area)
               /\ readers' = readers \ {t}
               /\ End(t, BadAreaNosemaphore(fault[t]))
               /\ area' = [area EXCEPT !.over = TRUE]
            \/ /\ ~ AccessError(fault[t], area)
               /\ Move(t, "handling")
               /\ area' = [area EXCEPT !.over = TRUE]
               /\ UNCHANGED readers
    /\ UNCHANGED <<writer, vars>>

\* handle_mm_fault: it is done, or asks for a retry and has given up the
\* lock, or gives it up for a while (userfaultfd).
HandleMmFault(t) ==
    /\ at[t] = "handling"
    /\ \/ Move(t, "handled") /\ UNCHANGED readers
       \/ /\ \E b \in {"retry", "parked"} : Move(t, b)
          /\ readers' = readers \ {t}
    /\ UNCHANGED <<area, writer, vars>>

Unpark(t) ==
    /\ at[t] = "parked"
    /\ writer = None
    /\ Move(t, "handled")
    /\ readers' = readers \cup {t}
    /\ UNCHANGED <<area, writer, vars>>

\* With the bugs a retry gives the lock up again, or may be repeated.
BugRetryReaders(t) == readers \cup {t}

RetryReaders(t) == readers

BugTriedOnce(t) == FALSE

TriedOnce(t) == TRUE

\* At most one retry; with a fatal signal none.
Retry(t) ==
    LET f == fault[t] IN
    /\ at[t] = "retry"
    /\ \/ /\ ~ tried[t]
          /\ at' = [at EXCEPT ![t] = "down"]
          /\ tried' = [tried EXCEPT ![t] = TriedOnce(t)]
          /\ UNCHANGED fault
       \/ End(t, IF f.user THEN "return" ELSE NoContext(f))
    /\ readers' = RetryReaders(t)
    /\ UNCHANGED <<area, writer, vars>>

\* With the bug an error keeps the lock.
BugUpRead(t, error) == IF error = "none" THEN readers \ {t} ELSE readers

UpReadOn(t, error) == readers \ {t}

\* up_read, then what handle_mm_fault has answered.
UpRead(t) ==
    /\ at[t] = "handled"
    /\ \E error \in {"none", "oom", "sigbus", "sigsegv"}, fatal \in BOOLEAN :
          /\ readers' = UpReadOn(t, error)
          /\ End(t, IF error = "none" THEN "return"
                    ELSE MmFaultError(fault[t], error, fatal))
    /\ UNCHANGED <<area, writer, vars>>

-----------------------------------------------------------------------------
(* The threads, and the kernel around the handler.                         *)

\* Kernel code that holds mmap_sem touches no user memory on purpose: a
\* fault it takes is a mistake.
Mistake(f) == ~ f.user /\ ~ f.fix

\* Has the demo not begun?
DemoOut == gptr = None /\ \A p \in Processes : pc[p] = "out"

DoPageFault(t) ==
    /\ at[t] \in {"user", "map"}
    /\ \E f \in Faults :
          /\ at[t] = "map" => Mistake(f)
          /\ Apart => DemoOut \/ "R" \in f.bits
          /\ fault' = [fault EXCEPT ![t] = f]
    /\ at' = [at EXCEPT ![t] = "entry"]
    /\ UNCHANGED <<tried, memory, vars>>

\* mmap, munmap, mprotect, pkey_mprotect.
Map(t) ==
    /\ at[t] = "user"
    /\ Apart => DemoOut
    /\ readers = {} /\ writer = None
    /\ writer' = t
    /\ area' \in Areas
    /\ Move(t, "map")
    /\ UNCHANGED <<readers, vars>>

Unmap(t) ==
    /\ at[t] = "map"
    /\ writer' = None
    /\ Move(t, "user")
    /\ UNCHANGED <<area, readers, vars>>

\* A handler of the signal, or the end of the process, of which nothing
\* more is heard.
Signalled(t) ==
    /\ at[t] = "signal"
    /\ Move(t, Back(t))
    /\ UNCHANGED <<memory, vars>>

Handle(t) ==
    \/ KernelSpace(t) \/ UserSpace(t) \/ DownReadTrylock(t) \/ FindVma(t)
    \/ HandleMmFault(t) \/ Retry(t) \/ UpRead(t)

Quiet == area = None /\ \A t \in Threads : at[t] = "user"

Demo ==
    /\ \E p \in Processes :
          (DemoOpen(p) /\ (Apart => Quiet)) \/ Process(p) \/ Die(p)
    /\ UNCHANGED hvars

HandlerNext ==
    \/ \E t \in Threads :
          \/ DoPageFault(t) \/ Handle(t) \/ DownRead(t) \/ Unpark(t)
          \/ Map(t) \/ Unmap(t) \/ Signalled(t)
    \/ Demo

HandlerSpec == HandlerInit /\ [][HandlerNext]_allvars

\* The processors run on; a thread that waits for mmap_sem gets it in its
\* turn (the semaphore queues), and who holds it for writing gives it up.
Run(t) == Handle(t) \/ DownRead(t) \/ Unpark(t)

HandlerFairSpec ==
    /\ HandlerSpec
    /\ \A t \in Threads : SF_allvars(Run(t))
    /\ SF_allvars(\E t \in Threads : Unmap(t))
    /\ \A p \in Processes : WF_allvars(Process(p) /\ UNCHANGED hvars)

-----------------------------------------------------------------------------
(* Properties.                                                             *)

\* mmap_sem is held for reading by the threads between its taking and its
\* release and by no others, on every way through the handler: a retry and
\* an error release it once ("the mmap_sem has been unlocked").  A writer is
\* alone.
SemBalanced ==
    /\ readers = {t \in Threads : at[t] \in Locked}
    /\ writer # None => readers = {}

\* A page is made for an access only in an area that exists and allows it,
\* at the moment it is made and whatever was found before a retry.
AccessChecked ==
    \A t \in Threads : at[t] = "handling" =>
        area # None /\ area.over /\ ~ AccessError(fault[t], area)

\* No thread waits for a lock it holds, none waits that must not sleep, and
\* none for the fault of a kernel address ("we MUST NOT take any locks").
WaitsSafely ==
    \A t \in Threads : at[t] = "down" =>
        /\ writer # t
        /\ ~ fault[t].off
        /\ fault[t].space = "user"

\* Does kmmio or a kprobe claim the fault?
Traced(f) == f.traced = "kmmio" \/ (f.traced = "kprobe" /\ ~ f.user)

\* Do the kernel's own tables allow the access, so that making it again
\* succeeds: init_mm's has the page that a process lacks, or the entry has
\* the rights that a stale translation denied?
TablesAllow(f) ==
    /\ f.space # "user"
    /\ \/ /\ f.space = "vmalloc" /\ f.master = "mapped"
          /\ f.bits \cap {"P", "R", "U"} = {}
       \/ f.bits \in {{"W", "P"}, {"I", "P"}} /\ f.bits \subseteq f.entry

\* Has memory been refused to t: no user memory may be touched there, its
\* area cannot be looked for, or is none that allows the access, or
\* handle_mm_fault has failed?
Refused(t) ==
    CASE at[t] = "entry" -> fault[t].space = "user" =>
                                SmapViolation(fault[t]) \/ fault[t].off
      [] at[t] = "try"   -> writer # None
      [] at[t] = "find"  -> \/ area = None \/ ~ area.over
                            \/ AccessError(fault[t], area)
      [] OTHER           -> at[t] \in {"retry", "handled"}

\* A reserved bit in a user's entry, which is bad unless the hook takes it.
Corrupt(f) == f.space = "user" /\ "R" \in f.bits

DeathDeserved(t) ==
    LET f == fault[t] IN
    /\ ~ Traced(f)
    /\ IF Corrupt(f) THEN ~ (hook /\ gptr = f.page /\ gpte # None)
       ELSE /\ "U" \notin f.bits /\ ~ f.fix
            /\ ~ TablesAllow(f)
            /\ f.guard \/ ~ (IsPrefetch(f) \/ IsErrata93(f))
            /\ Refused(t)

\* do_sigbus knows of the prefetch only.
SignalDeserved(t) ==
    LET f == fault[t] IN
    /\ "U" \in f.bits
    /\ ~ Traced(f) /\ ~ Corrupt(f) /\ ~ IsPrefetch(f)
    /\ at[t] # "handled" => ~ IsErrata100(f) /\ ~ Vsyscall(f)
    /\ Refused(t)

EndsAsDeserved(t) ==
    /\ at[t] # "dead" /\ at'[t] = "dead" => DeathDeserved(t)
    /\ at[t] # "signal" /\ at'[t] = "signal" => SignalDeserved(t)

\* The kernel dies of a fault only when no tracer claims it and either its
\* user's entry has a reserved bit and no hook takes it, or the access was
\* the kernel's and has been refused, no exception-table entry was there for
\* it, neither the kernel's tables nor the page-table entry allowed it, and
\* no erratum excuses it (or it hit the guard page of the stack).  A signal
\* is sent only for an access of the user that has been refused, that is
\* none of a tracer, no prefetch, no erratum and no emulated vsyscall.
EndDeserved == [][\A t \in Threads : EndsAsDeserved(t)]_allvars

\* Every fault ends, unless a thread has died with mmap_sem held.
FaultsEnd ==
    \A t \in Threads :
        at[t] \in Handler ~>
            \/ at[t] \notin Handler
            \/ writer # None /\ at[writer] = "dead"
=============================================================================
