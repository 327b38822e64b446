------------------------------ MODULE FaultHook ------------------------------
(***************************************************************************)
(* The reserved-bit demo (src/bechmark-test/Demo/part1/rsvd): processes    *)
(* that run mmap_tlb.c, the module btplus.c they open, and the branch of   *)
(* the patched page-fault handler (fault.c) that calls the module's hook.  *)
(*                                                                         *)
(* The module keeps one address, one page-table entry and one hook for all *)
(* of its openers.  A process has one page, so its page-table entry is     *)
(* named by the process.                                                   *)
(***************************************************************************)
CONSTANTS
    Processes,  \* processes that run mmap_tlb.c, again and again
    Pages,      \* virtual pages
    PageOf,     \* PageOf[p]: the page mmap gives to process p
    None,       \* the null pointer
    Alone,      \* whether a process starts only when no other is running
    Mortal      \* whether processes may be killed at any time

ASSUME PageAssumption == PageOf \in [Processes -> Pages]
ASSUME NullAssumption == None \notin Processes /\ None \notin Pages
ASSUME SwitchAssumption == Alone \in BOOLEAN /\ Mortal \in BOOLEAN

VARIABLES
    pc,     \* pc[p]: where process p is
    gptr,   \* the page of the address written to the device
    gpte,   \* the page-table entry of the last read
    rsvd,   \* the entries with the reserved bit set
    hook,   \* whether rsvd_fault_hook is set
    stray   \* whether an entry was stored to after its table was freed

vars == <<pc, gptr, gpte, rsvd, hook, stray>>

\* "access", "fault" and "hooked" are the store to the page and the fault it
\* takes; "badpte" is a process the fault handler kills, "killed" one that
\* is killed otherwise; "oops" is a process lost in demo_release, by a
\* store through the null pointer.
Dying  == {"badpte", "killed"}
Live   == {"written", "access", "fault", "hooked", "close", "munmap"}
Open   == {"opened"} \cup (Live \ {"munmap"}) \cup Dying
Places == Open \cup {"out", "munmap", "oops"}

TypeOK ==
    /\ pc \in [Processes -> Places]
    /\ gptr \in Pages \cup {None}
    /\ gpte \in Processes \cup {None}
    /\ rsvd \in SUBSET Processes
    /\ hook \in BOOLEAN
    /\ stray \in BOOLEAN

Init ==
    /\ pc = [p \in Processes |-> "out"]
    /\ gptr = None
    /\ gpte = None
    /\ rsvd = {}
    /\ hook = FALSE
    /\ stray = FALSE

Go(p, a, b) == pc[p] = a /\ pc' = [pc EXCEPT ![p] = b]

-----------------------------------------------------------------------------
(* The module.                                                             *)

\* With the bug the hook is left to the first read.
BugHookAtOpen == hook

HookAtOpen == TRUE

DemoOpen(p) ==
    /\ Alone => \A q \in Processes : pc[q] \in {"out", "oops"}
    /\ Go(p, "out", "opened")
    /\ hook' = HookAtOpen
    /\ UNCHANGED <<gptr, gpte, rsvd, stray>>

\* mmap, then write: the address of the page.
DemoWrite(p) ==
    /\ Go(p, "opened", "written")
    /\ gptr' = PageOf[p]
    /\ UNCHANGED <<gpte, rsvd, hook, stray>>

\* With the first bug an entry found earlier is kept, with the second the
\* address is kept for the entry.
BugGetPte(p)     == IF gpte # None THEN gpte
                    ELSE IF gptr = PageOf[p] THEN p ELSE None
BugGetAddress(p) == gptr

\* The entry of gptr in the memory of the process that reads.
GetPte(p) == IF gptr = PageOf[p] THEN p ELSE None

\* Is the entry's page table still there?
Alive(e) == e \in Processes /\ pc[e] \in Live

\* A null entry is stored through: the kernel ends the process, as a
\* signal does.
DemoRead(p) ==
    /\ gpte' = GetPte(p)
    /\ IF gpte' # None
       THEN /\ Go(p, "written", "access")
            /\ rsvd' = rsvd \cup {gpte'}
            /\ stray' = (stray \/ ~ Alive(gpte'))
       ELSE /\ Go(p, "written", "killed")
            /\ rsvd' = rsvd \ {p}
            /\ UNCHANGED stray
    /\ UNCHANGED <<gptr, hook>>

\* With the first bug the hook stays set, with the second the bit does.
BugReleased  == [hook |-> hook, rsvd |-> rsvd \ {gpte}]
BugBitStays  == [hook |-> FALSE, rsvd |-> rsvd]

\* What demo_release makes of the hook and of the reserved bits.
Released == [hook |-> FALSE, rsvd |-> rsvd \ {gpte}]

\* close, or the end of a process that is killed: the kernel gives up its
\* memory first and its files after, and another process may come.
DemoRelease(p) ==
    /\ pc[p] \in {"close"} \cup Dying
    /\ pc' = [pc EXCEPT ![p] = IF gpte = None THEN "oops"
                             ELSE IF @ = "close" THEN "munmap" ELSE "out"]
    /\ hook' = Released.hook
    /\ rsvd' = IF gpte = None THEN rsvd \ {p} ELSE Released.rsvd
    /\ stray' = (stray \/ (gpte # None /\ ~ Alive(gpte)))
    /\ UNCHANGED <<gptr, gpte>>

-----------------------------------------------------------------------------
(* The store to the page.  The module does not flush the TLB: a stale      *)
(* translation lets the store pass with the reserved bit set.              *)

Access(p) ==
    /\ \/ Go(p, "access", "close")
       \/ p \in rsvd /\ Go(p, "access", "fault")
    /\ UNCHANGED <<gptr, gpte, rsvd, hook, stray>>

\* The handler tests the hook, then calls it; without one the process is
\* killed for a corrupted page table.
Fault(p) ==
    /\ Go(p, "fault", IF hook THEN "hooked" ELSE "badpte")
    /\ rsvd' = IF hook THEN rsvd ELSE rsvd \ {p}
    /\ UNCHANGED <<gptr, gpte, hook, stray>>

\* With the bug the hook accepts the fault and leaves the bit.
BugClear == rsvd

Clear == rsvd \ {gpte}

\* fault_hook: if the address is the one written, the bit of the entry
\* goes and the store is tried again.
CallHook(p) ==
    /\ IF gptr = PageOf[p] /\ gpte # None
       THEN /\ Go(p, "hooked", "access")
            /\ rsvd' = Clear
            /\ stray' = (stray \/ ~ Alive(gpte))
       ELSE /\ Go(p, "hooked", "badpte")
            /\ rsvd' = rsvd \ {p}
            /\ UNCHANGED stray
    /\ UNCHANGED <<gptr, gpte, hook>>

Munmap(p) ==
    /\ Go(p, "munmap", "out")
    /\ rsvd' = rsvd \ {p}
    /\ UNCHANGED <<gptr, gpte, hook, stray>>

\* A signal kills the process between two of its calls.
Die(p) ==
    /\ Mortal
    /\ \E a \in {"opened", "written", "access", "close"} : Go(p, a, "killed")
    /\ rsvd' = rsvd \ {p}
    /\ UNCHANGED <<gptr, gpte, hook, stray>>

-----------------------------------------------------------------------------
Process(p) ==
    \/ DemoWrite(p) \/ DemoRead(p) \/ DemoRelease(p)
    \/ Access(p) \/ Fault(p) \/ CallHook(p) \/ Munmap(p)

Next == \E p \in Processes : DemoOpen(p) \/ Process(p) \/ Die(p)

Spec == Init /\ [][Next]_vars

\* A process that has opened the device runs on; nobody has to open it.
FairSpec == Spec /\ \A p \in Processes : WF_vars(Process(p))

-----------------------------------------------------------------------------
(* Properties.                                                             *)

\* Nobody is killed for the reserved bit the module itself has set.
AccessSurvives == \A p \in Processes : pc[p] # "badpte"

\* After close the page is as it was: demo_release undoes the bit ("RES bit
\* undo. Going to access NOW").
BitUndone == \A p \in Processes : pc[p] = "munmap" => p \notin rsvd

\* The hook is set exactly while the device is open: no fault of an opener
\* finds it missing, none comes to the module after the last close.
HookWhileOpen == hook <=> \E p \in Processes : pc[p] \in Open

\* The module keeps the entry from one read to the next, but stores to it
\* only while the process it belongs to has its memory: the device is closed
\* before the page is unmapped ("Should be before munmap").  The exception
\* is the release of a killed process, whose memory goes before its files.
StrayOnlyAtExit ==
    [][stray' # stray =>
         \E p \in Processes : pc[p] \in Dying /\ pc'[p] = "out"]_vars

\* The store to the page ends: the fault is not taken for ever.
AccessReturns ==
    \A p \in Processes : pc[p] = "access" ~> pc[p] \in {"close"} \cup Dying
=============================================================================
