------------------------- MODULE CardLifecycleProofs -------------------------
(***************************************************************************)
(* Theorems about CardLifecycle, for any number of open files.             *)
(***************************************************************************)
EXTENDS CardLifecycle, TLAPS

\* What is held once probe has got so far.
Got1 == {"space"}
Got2 == Got1 \cup {"cdevmem"}
Got3 == Got2 \cup {"enabled"}
Got4 == Got3 \cup {"regions"}
Got5 == Got4 \cup {"iomap"}
Got6 == Got5 \cup {"irq"}
Got7 == Got6 \cup {"chrdev"}
Got8 == Got7 \cup {"global"}
Got9 == Got8 \cup {"cdev"}

\* What is held at each place of probe, of its labels and of remove.
Ledger ==
    [unbound |-> {}, space |-> {}, cdevmem |-> Got1, enabled |-> Got2,
     regions |-> Got3, iomap |-> Got4, verify |-> Got5, irq |-> Got5,
     chrdev |-> Got6, global |-> Got7, init |-> Got8, cdev |-> Got8,
     bound |-> Got9,
     out_chrdev |-> Got8, out_irqfree |-> Got6, out_iounmap |-> Got5,
     out_unrequest |-> Got4, out_disable |-> Got3, out_err |-> Got2,
     out_space |-> Got1,
     rm_cdev |-> Got9, rm_chrdev |-> Got8,
     rm_third |-> Got8 \ {"chrdev"}, rm_fourth |-> Got5 \cup {"global"},
     rm_regions |-> Got4 \cup {"global"},
     rm_disable |-> Got3 \cup {"global"}, rm_free |-> Got2 \cup {"global"},
     rm_global |-> {"global"}]

LedgerInv == at \in DOMAIN Ledger /\ held = Ledger[at]

LEMMA ResourcesAre ==
    Resources = {"space", "cdevmem", "enabled", "regions", "iomap", "irq",
                 "chrdev", "global", "cdev"}
BY DEF Resources, Stages, StagesEnding

LEMMA GotsGrow ==
    /\ {} \cup ({"space"} \cap Resources) = Got1
    /\ Got1 \cup ({"cdevmem"} \cap Resources) = Got2
    /\ Got2 \cup ({"enabled"} \cap Resources) = Got3
    /\ Got3 \cup ({"regions"} \cap Resources) = Got4
    /\ Got4 \cup ({"iomap"} \cap Resources) = Got5
    /\ Got5 \cup ({"verify"} \cap Resources) = Got5
    /\ Got5 \cup ({"irq"} \cap Resources) = Got6
    /\ Got6 \cup ({"chrdev"} \cap Resources) = Got7
    /\ Got7 \cup ({"global"} \cap Resources) = Got8
    /\ Got8 \cup ({"init"} \cap Resources) = Got8
    /\ Got8 \cup ({"cdev"} \cap Resources) = Got9
BY ResourcesAre
   DEF Got1, Got2, Got3, Got4, Got5, Got6, Got7, Got8, Got9

\* Every edge of probe's walk keeps the ledger.
LEMMA AcquireKeeps ==
    \A s \in DOMAIN Stages :
        /\ s \in DOMAIN Ledger /\ Stages[s] \in DOMAIN Ledger
        /\ Ledger[Stages[s]] = Ledger[s] \cup ({s} \cap Resources)
BY GotsGrow DEF Stages, StagesEnding, Ledger

LEMMA FailKeeps ==
    \A s \in DOMAIN FailLabel :
        /\ s \in DOMAIN Ledger /\ FailLabel[s] \in DOMAIN Ledger
        /\ Ledger[FailLabel[s]] = Ledger[s]
BY DEF FailLabel, FailTo, Ledger

LEMMA GotsShrink ==
    /\ Got8 \ {"global", "chrdev"} = Got6
    /\ Got6 \ {"irq"} = Got5
    /\ Got5 \ {"iomap"} = Got4
    /\ Got4 \ {"regions"} = Got3
    /\ Got3 \ {"enabled"} = Got2
    /\ Got2 \ {"cdevmem", "space"} = {}
    /\ Got1 \ {"space"} = {}
    /\ Got9 \ {"cdev"} = Got8
    /\ (Got8 \ {"chrdev"}) \ {"irq"} = Got5 \cup {"global"}
    /\ (Got5 \cup {"global"}) \ {"iomap"} = Got4 \cup {"global"}
    /\ (Got4 \cup {"global"}) \ {"regions"} = Got3 \cup {"global"}
    /\ (Got3 \cup {"global"}) \ {"enabled"} = Got2 \cup {"global"}
    /\ (Got2 \cup {"global"}) \ {"cdevmem", "space"} = {"global"}
    /\ {"global"} \ {"global"} = {}
BY DEF Got1, Got2, Got3, Got4, Got5, Got6, Got7, Got8, Got9

LEMMA UnwindKeeps ==
    \A s \in DOMAIN Unwind :
        /\ s \in DOMAIN Ledger /\ Unwind[s].next \in DOMAIN Ledger
        /\ Ledger[Unwind[s].next] = Ledger[s] \ Unwind[s].gives
BY GotsShrink DEF Unwind, UndoInOrder, Undo, Ledger

LEMMA GotsOwn ==
    /\ {"global", "chrdev"} \subseteq Got8
    /\ {"irq"} \subseteq Got6
    /\ {"iomap"} \subseteq Got5
    /\ {"regions"} \subseteq Got4
    /\ {"enabled"} \subseteq Got3
    /\ {"cdevmem", "space"} \subseteq Got2
    /\ {"space"} \subseteq Got1
    /\ {"cdev"} \subseteq Got9
    /\ {"chrdev"} \subseteq Got8
    /\ {"irq"} \subseteq Got8 \ {"chrdev"}
BY DEF Got1, Got2, Got3, Got4, Got5, Got6, Got7, Got8, Got9

LEMMA UnwindOwns ==
    \A s \in DOMAIN Unwind : Unwind[s].gives \subseteq Ledger[s]
BY GotsOwn DEF Unwind, UndoInOrder, Undo, Ledger

LEMMA WholeLedger == Got9 = Resources
BY ResourcesAre DEF Got1, Got2, Got3, Got4, Got5, Got6, Got7, Got8, Got9

-----------------------------------------------------------------------------
LEMMA LedgerInit == Init => LedgerInv
BY DEF Init, LedgerInv, Ledger

LEMMA LedgerStep == ASSUME LedgerInv, [Next]_vars PROVE LedgerInv'
<1> USE DEF LedgerInv
<1>1. CASE Probe
  BY <1>1 DEF Probe, Ledger
<1>2. CASE Acquire
  BY <1>2, AcquireKeeps DEF Acquire
<1>3. CASE StageFails
  BY <1>3, FailKeeps DEF StageFails
<1>4. CASE Release
  BY <1>4, UnwindKeeps DEF Release
<1>5. CASE Remove
  BY <1>5 DEF Remove, Ledger
<1>6. CASE UNCHANGED <<at, held>>
  BY <1>6
<1>7. QED
  BY <1>1, <1>2, <1>3, <1>4, <1>5, <1>6
     DEF Next, vars, Reload, IrqEnter, IrqRead, IrqWake, Raise, Open, Enter,
         Leave, Close, SetFile

LEMMA LedgerAlways == Spec => []LedgerInv
BY LedgerInit, LedgerStep, PTL DEF Spec

LEMMA LedgerEnough == LedgerInv => LedgerBalanced
<1> SUFFICES ASSUME LedgerInv PROVE LedgerBalanced
  OBVIOUS
<1>1. Ledger["unbound"] = {} /\ Ledger["bound"] = Got9
  BY DEF Ledger
<1>2. at \in DOMAIN Unwind => Unwind[at].gives \subseteq held
  BY UnwindOwns DEF LedgerInv
<1>3. QED
  BY <1>1, <1>2, WholeLedger DEF LedgerInv, LedgerBalanced

\* However probe fails and whenever the driver is removed, the labels of
\* cryptocard_probe and the statements of cryptocard_remove give back what
\* was acquired, all of it and nothing else, with files open or not.
THEOREM NothingLeaks == Spec => []LedgerBalanced
BY LedgerAlways, LedgerEnough, PTL

-----------------------------------------------------------------------------
(* The interrupt handler.                                                  *)

LEMMA IrqNeedsCard == LedgerInv /\ "irq" \in held => CardMapped
<1>1. \A s \in DOMAIN Ledger :
        "irq" \in Ledger[s] => {"space", "iomap"} \subseteq Ledger[s]
  <2>1. \A g \in {{}, Got1, Got2, Got3, Got4, Got5, Got4 \cup {"global"},
                   Got3 \cup {"global"}, Got2 \cup {"global"},
                   Got5 \cup {"global"}, {"global"}} : "irq" \notin g
    BY DEF Got1, Got2, Got3, Got4, Got5
  <2>2. \A g \in {Got6, Got7, Got8, Got9, Got8 \ {"chrdev"}} :
            {"space", "iomap"} \subseteq g
    BY DEF Got1, Got2, Got3, Got4, Got5, Got6, Got7, Got8, Got9
  <2>3. QED
    BY <2>1, <2>2 DEF Ledger
<1>2. QED
  BY <1>1 DEF LedgerInv, CardMapped

HandlerInv == irq # "off" => "irq" \in held

LEMMA HandlerStep == ASSUME HandlerInv, [Next]_vars PROVE HandlerInv'
BY DEF HandlerInv, Next, vars, Probe, Acquire, StageFails, Release, Remove,
       Reload, IrqEnter, IrqRead, IrqWake, Raise, Open, Enter, Leave, Close,
       SetFile

\* Whenever the handler runs, between request_irq and free_irq, in probe,
\* in its labels or in remove, the registers it reads are mapped.
THEOREM HandlerSafe == Spec => []HandlerFindsCard
<1>1. Init => HandlerInv
  BY DEF Init, HandlerInv
<1>2. LedgerInv /\ HandlerInv => HandlerFindsCard
  BY IrqNeedsCard DEF HandlerInv, HandlerFindsCard
<1>3. QED
  BY <1>1, <1>2, HandlerStep, LedgerAlways, PTL DEF Spec

-----------------------------------------------------------------------------
(* Open files, when the driver is not unbound under them.                  *)

FileInv ==
    /\ file \in [Files -> {"closed", "open", "inside"}]
    /\ \A f \in Files : file[f] # "closed" => at = "bound"
    /\ at \in {"cdev", "bound", "rm_cdev"} => ready
    /\ pending = "ours" => at = "bound"

LEMMA CdevPlaces ==
    LedgerInv /\ "cdev" \in held => at \in {"bound", "rm_cdev"}
<1>1. \A g \in {{}, Got1, Got2, Got3, Got4, Got5, Got6, Got7, Got8,
                 Got8 \ {"chrdev"}, Got5 \cup {"global"},
                 Got4 \cup {"global"}, Got3 \cup {"global"},
                 Got2 \cup {"global"}, {"global"}} : "cdev" \notin g
  BY DEF Got1, Got2, Got3, Got4, Got5, Got6, Got7, Got8
<1>2. QED
  BY <1>1 DEF LedgerInv, Ledger

LEMMA BoundHas ==
    LedgerInv /\ at \in {"bound", "rm_cdev"} =>
        held = Resources /\ CardMapped
<1>1. Ledger["bound"] = Got9 /\ Ledger["rm_cdev"] = Got9
  BY DEF Ledger
<1>2. QED
  BY <1>1, WholeLedger, ResourcesAre DEF LedgerInv, CardMapped

LEMMA StageEdges ==
    \A s \in DOMAIN Stages :
        /\ Stages[s] # "rm_cdev"
        /\ Stages[s] = "cdev" => s = "init"
        /\ Stages[s] = "bound" => s = "cdev"
BY DEF Stages, StagesEnding

LEMMA FileStep ==
    ASSUME ~ Unbind, LedgerInv, FileInv, [Next]_vars
    PROVE  FileInv'
<1> USE DEF FileInv
<1>1. CASE Probe
  BY <1>1 DEF Probe
<1>2. CASE Acquire
  <2>1. at \notin {"bound", "rm_cdev"}
    BY <1>2 DEF Acquire, Stages, StagesEnding
  <2>2. /\ at' # "rm_cdev"
        /\ at' = "cdev" => at = "init"
        /\ at' = "bound" => at = "cdev"
    BY <1>2, StageEdges DEF Acquire
  <2>3. QED
    BY <1>2, <2>1, <2>2 DEF Acquire
<1>3. CASE StageFails
  <2>1. at # "bound" /\ at' \notin {"cdev", "bound", "rm_cdev"}
    BY <1>3 DEF StageFails, FailLabel, FailTo
  <2>2. QED
    BY <1>3, <2>1 DEF StageFails
<1>4. CASE Release
  <2>1. at # "bound" /\ at' \notin {"cdev", "bound", "rm_cdev"}
    BY <1>4 DEF Release, Unwind, UndoInOrder, Undo
  <2>2. QED
    BY <1>4, <2>1 DEF Release
<1>5. CASE Remove
  BY <1>5 DEF Remove, Removable
<1>6. CASE Reload
  BY <1>6 DEF Reload
<1>7. CASE IrqEnter \/ IrqRead \/ IrqWake \/ Raise
  BY <1>7 DEF IrqEnter, IrqRead, IrqWake, Raise
<1>8. ASSUME NEW f \in Files, Open(f) PROVE FileInv'
  BY <1>8, CdevPlaces DEF Open, SetFile
<1>9. ASSUME NEW f \in Files, Enter(f) \/ Leave(f) \/ Close(f) PROVE FileInv'
  BY <1>9 DEF Enter, Leave, Close, SetFile
<1>10. CASE UNCHANGED vars
  BY <1>10 DEF vars
<1>11. QED
  BY <1>1, <1>2, <1>3, <1>4, <1>5, <1>6, <1>7, <1>8, <1>9, <1>10 DEF Next

LEMMA FilesAlways == ASSUME ~ Unbind PROVE Spec => []FileInv
<1>1. Init => FileInv
  BY DEF Init, FileInv
<1>2. LedgerInv /\ FileInv /\ [Next]_vars => FileInv'
  BY FileStep
<1>3. QED
  BY <1>1, <1>2, LedgerAlways, PTL DEF Spec

\* As long as nobody unbinds the driver under an open file, a call that has
\* passed pci_write's entry check has the card until it returns.
THEOREM CallsSafe == ASSUME ~ Unbind PROVE Spec => []CallsFindCard
<1>1. LedgerInv /\ FileInv => CallsFindCard
  BY BoundHas DEF FileInv, CallsFindCard
<1>2. QED
  BY <1>1, FilesAlways, LedgerAlways, PTL

\* The device can be opened, and interrupts of its operations handled, only
\* when wait queue, semaphore, interrupt and pointers are in place.
THEOREM OpenSafe == ASSUME ~ Unbind PROVE Spec => []OpenOnlyComplete
<1>1. LedgerInv /\ FileInv => OpenOnlyComplete
  BY CdevPlaces, BoundHas, ResourcesAre DEF FileInv, OpenOnlyComplete
<1>2. QED
  BY <1>1, FilesAlways, LedgerAlways, PTL
=============================================================================
