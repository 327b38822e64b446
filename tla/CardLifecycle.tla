---------------------------- MODULE CardLifecycle ----------------------------
(***************************************************************************)
(* Binding the driver to the card and unbinding it: cryptocard_probe with  *)
(* its chain of error labels, cryptocard_remove, the interrupt handler     *)
(* that may run as soon as the interrupt is requested, and the open files  *)
(* whose calls use what probe set up (src/drivers/cryptocard_mod.c).       *)
(*                                                                         *)
(* Probe and remove are walks over the tables below; held is the ledger of *)
(* what has been acquired and not given back.                              *)
(***************************************************************************)
CONSTANTS
    Files,   \* open files of the device, at most
    Unbind   \* whether the driver may be unbound while a file is open

VARIABLES
    at,       \* where probe or remove is; "unbound" or "bound" when neither
    held,     \* the set of Resources the driver has acquired
    ready,    \* whether the wait queue and the semaphore are initialised
    irq,      \* the handler: "off", "read" or "wake"
    pending,  \* the card's interrupt: "none", "ours", or "left" by an
              \* earlier binding
    file      \* file[f]: "closed", "open" or "inside" a call

vars == <<at, held, ready, irq, pending, file>>

\* The stages of probe, each with the one that follows; "verify" and "init"
\* acquire nothing, and "global" is the pointers in mycryptodev.
StagesEnding(afterGlobal, afterInit, afterCdev) ==
    [space |-> "cdevmem", cdevmem |-> "enabled", enabled |-> "regions",
     regions |-> "iomap", iomap |-> "verify", verify |-> "irq",
     irq |-> "chrdev", chrdev |-> "global", global |-> afterGlobal,
     init |-> afterInit, cdev |-> afterCdev]

\* With the bug the queue and the semaphore are initialised after cdev_add.
BugStages == StagesEnding("cdev", "bound", "init")

Stages == StagesEnding("init", "cdev", "bound")

Resources == DOMAIN Stages \ {"verify", "init"}

\* Where each stage goes when it fails; "global" and "init" cannot.
FailTo(irqLabel) ==
    [space |-> "unbound", cdevmem |-> "out_space", enabled |-> "out_err",
     regions |-> "out_disable", iomap |-> "out_unrequest",
     verify |-> "out_iounmap", irq |-> irqLabel,
     chrdev |-> "out_irqfree", cdev |-> "out_chrdev"]

\* With the bug a failing request_irq takes the label above its own.
BugFailLabel == FailTo("out_irqfree")

FailLabel == FailTo("out_iounmap")

\* What each label of probe and each statement of remove gives back, and
\* where it falls through to; one and two are what remove gives back at
\* its third and fourth statement.
Undo(gives, next) == [gives |-> gives, next |-> next]

UndoInOrder(one, two) ==
    [out_chrdev    |-> Undo({"global", "chrdev"}, "out_irqfree"),
     out_irqfree   |-> Undo({"irq"}, "out_iounmap"),
     out_iounmap   |-> Undo({"iomap"}, "out_unrequest"),
     out_unrequest |-> Undo({"regions"}, "out_disable"),
     out_disable   |-> Undo({"enabled"}, "out_err"),
     out_err       |-> Undo({"cdevmem", "space"}, "unbound"),
     out_space     |-> Undo({"space"}, "unbound"),
     rm_cdev       |-> Undo({"cdev"}, "rm_chrdev"),
     rm_chrdev     |-> Undo({"chrdev"}, "rm_third"),
     rm_third      |-> Undo({one}, "rm_fourth"),
     rm_fourth     |-> Undo({two}, "rm_regions"),
     rm_regions    |-> Undo({"regions"}, "rm_disable"),
     rm_disable    |-> Undo({"enabled"}, "rm_free"),
     rm_free       |-> Undo({"cdevmem", "space"}, "rm_global"),
     rm_global     |-> Undo({"global"}, "unbound")]

\* With the bug remove unmaps the registers while the handler may run.
BugUnwind == UndoInOrder("iomap", "irq")

Unwind == UndoInOrder("irq", "iomap")

Init ==
    /\ at = "unbound"
    /\ held = {}
    /\ ready = FALSE
    /\ irq = "off"
    /\ pending = "none"
    /\ file = [f \in Files |-> "closed"]

-----------------------------------------------------------------------------
(* cryptocard_probe and cryptocard_remove.                                 *)

Probe ==
    /\ at = "unbound"
    /\ at' = "space"
    /\ UNCHANGED <<held, ready, irq, pending, file>>

Acquire ==
    /\ at \in DOMAIN Stages
    /\ at' = Stages[at]
    /\ held' = held \cup ({at} \cap Resources)
    /\ ready' = (ready \/ at = "init")
    /\ UNCHANGED <<irq, pending, file>>

StageFails ==
    /\ at \in DOMAIN FailLabel
    /\ at' = FailLabel[at]
    /\ UNCHANGED <<held, ready, irq, pending, file>>

\* free_irq waits for a running handler.
Release ==
    /\ at \in DOMAIN Unwind
    /\ "irq" \in Unwind[at].gives => irq = "off"
    /\ at' = Unwind[at].next
    /\ held' = held \ Unwind[at].gives
    /\ UNCHANGED <<ready, irq, pending, file>>

\* With the bug fops has no owner, and open files do not count.
BugRemovable == TRUE

\* An open file is a reference to the module (fops.owner), so that rmmod
\* waits; unbinding through sysfs, or pulling the card, does not.
Removable == Unbind \/ \A f \in Files : file[f] = "closed"

Remove ==
    /\ at = "bound"
    /\ Removable
    /\ at' = "rm_cdev"
    /\ pending' = IF pending = "ours" THEN "left" ELSE pending
    /\ UNCHANGED <<held, ready, irq, file>>

\* The module is unloaded and loaded again: its static data is zero again.
Reload ==
    /\ at = "unbound"
    /\ \A f \in Files : file[f] = "closed"
    /\ ready' = FALSE
    /\ UNCHANGED <<at, held, irq, pending, file>>

-----------------------------------------------------------------------------
(* pci_irq_handle; another device may share the line.                      *)

\* Without mycryptodev.configspace the handler returns at once.
IrqEnter ==
    /\ irq = "off"
    /\ "irq" \in held
    /\ "global" \in held
    /\ irq' = "read"
    /\ UNCHANGED <<at, held, ready, pending, file>>

IrqRead ==
    /\ irq = "read"
    /\ irq' = IF pending = "none" THEN "off" ELSE "wake"
    /\ UNCHANGED <<at, held, ready, pending, file>>

IrqWake ==
    /\ irq = "wake"
    /\ irq' = "off"
    /\ pending' = "none"
    /\ UNCHANGED <<at, held, ready, file>>

\* The card finishes an operation some call has started.
Raise ==
    /\ \E f \in Files : file[f] = "inside"
    /\ pending' = "ours"
    /\ UNCHANGED <<at, held, ready, irq, file>>

-----------------------------------------------------------------------------
(* Open files.                                                             *)

SetFile(f, a, b) ==
    /\ file[f] = a
    /\ file' = [file EXCEPT ![f] = b]
    /\ UNCHANGED <<at, held, ready, irq, pending>>

\* A module that is being unloaded lends out no more references.
Open(f) ==
    /\ "cdev" \in held
    /\ at = "rm_cdev" => Unbind
    /\ SetFile(f, "closed", "open")

\* pci_write reads mycryptodev.configspace once and keeps the pointer; with
\* no card it refuses.
Enter(f) == "global" \in held /\ SetFile(f, "open", "inside")

Leave(f) == SetFile(f, "inside", "open")
Close(f) == SetFile(f, "open", "closed")

-----------------------------------------------------------------------------
Next ==
    \/ Probe \/ Acquire \/ StageFails \/ Release \/ Remove \/ Reload
    \/ IrqEnter \/ IrqRead \/ IrqWake \/ Raise
    \/ \E f \in Files : Open(f) \/ Enter(f) \/ Leave(f) \/ Close(f)

Spec == Init /\ [][Next]_vars

-----------------------------------------------------------------------------
(* Properties.                                                             *)

\* Whichever stage of probe fails, and whenever remove runs, the error
\* labels give back exactly what has been acquired: nothing is left when
\* the driver is unbound, nothing is missing when it is bound, and no
\* label gives back what it has not got.
LedgerBalanced ==
    /\ at = "unbound" => held = {}
    /\ at = "bound" => held = Resources
    /\ at \in DOMAIN Unwind => Unwind[at].gives \subseteq held

CardMapped == {"space", "iomap"} \subseteq held

\* The handler, which may run from request_irq to free_irq, touches the
\* registers only while they are mapped.
HandlerFindsCard == irq # "off" => CardMapped

\* A call that has got past its entry check has the card until it returns.
CallsFindCard == \A f \in Files : file[f] = "inside" => CardMapped

\* Nobody can open the device before it is complete, the wait queue and
\* the semaphore included; so the interrupts of its operations find a queue.
OpenOnlyComplete ==
    /\ "cdev" \in held => ready /\ {"irq", "global"} \subseteq held
    /\ irq = "wake" /\ pending = "ours" => ready
=============================================================================
