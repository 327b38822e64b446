--------------------------- MODULE PageFaultProofs ---------------------------
(***************************************************************************)
(* Proofs about PageFault, for any threads, faults and areas: the          *)
(* semaphore is balanced on every way through the handler, pages are made  *)
(* for allowed accesses only, nobody waits who must not, and a fault ends  *)
(* in death or in a signal only where it has to.  When no other fault with *)
(* a reserved bit has an address of the demo, the whole system is one of   *)
(* the demo's behaviours, and what FaultHookProofs shows holds in it.      *)
(***************************************************************************)
EXTENDS PageFault, FaultHookProofs

-----------------------------------------------------------------------------
(* The inductive invariant.                                                *)

\* Behind the entry the address is a user's, faults are handled, no tracer
\* claims this one and its page tables are sound.
Settled ==
    \A t \in Threads : at[t] \in Handler =>
        /\ "U" \in fault[t].bits => fault[t].user
        /\ at[t] # "entry" =>
              /\ fault[t].space = "user" /\ ~ fault[t].off
              /\ ~ Traced(fault[t]) /\ "R" \notin fault[t].bits

\* Who holds mmap_sem for writing is in the handler by mistake only, and not
\* beyond the attempt to take it.
WriterStays ==
    \A t \in Threads : writer = t =>
        \/ at[t] \in {"map", "signal", "dead"}
        \/ at[t] \in {"entry", "try"} /\ Mistake(fault[t])

HandlerInv ==
    /\ HandlerTypeOK
    /\ SemBalanced
    /\ AccessChecked
    /\ Settled
    /\ WriterStays

USE DEF Handler, Locked, Outside

-----------------------------------------------------------------------------
(* Lemmas about what the handler decides.                                  *)

\* What the verdict on fault f may be: death of the kernel's own accesses
\* without an exception-table entry or an excuse, a signal for the user's.
Deserved(f, verdict) ==
    /\ verdict \in {"return", "signal", "dead"}
    /\ verdict = "dead" =>
          /\ "U" \notin f.bits /\ ~ f.fix
          /\ f.guard \/ ~ (IsPrefetch(f) \/ IsErrata93(f))
    /\ verdict = "signal" => "U" \in f.bits /\ ~ IsPrefetch(f)

\* Every way a fault that cannot be handled ends is deserved.
LEMMA VerdictsDeserved ==
    ASSUME NEW f, NEW error, NEW fatal
    PROVE  /\ Deserved(f, "return")
           /\ "U" \notin f.bits => Deserved(f, NoContext(f))
           /\ Deserved(f, BadAreaNosemaphore(f))
           /\ BadAreaNosemaphore(f) = "signal" =>
                ~ IsErrata100(f) /\ ~ Vsyscall(f)
           /\ Deserved(f, MmFaultError(f, error, fatal))
<1>1. "U" \notin f.bits => Deserved(f, NoContext(f))
  BY DEF Deserved, NoContext
<1>2. /\ Deserved(f, BadAreaNosemaphore(f))
      /\ BadAreaNosemaphore(f) = "signal" =>
           ~ IsErrata100(f) /\ ~ Vsyscall(f)
  BY <1>1 DEF Deserved, BadAreaNosemaphore, NoContext
<1>3. Deserved(f, DoSigbus(f))
  BY <1>1 DEF Deserved, DoSigbus
<1>4. Deserved(f, "return")
  BY DEF Deserved
<1> QED
  BY <1>1, <1>2, <1>3, <1>4 DEF MmFaultError

\* A user-mode fault counts as the user's; nothing else changes.
LEMMA WantedIsFault ==
    ASSUME NEW f \in FaultRecords
    PROVE  /\ Wanted(f) \in FaultRecords
           /\ Wanted(f).space = f.space /\ Wanted(f).off = f.off
           /\ Wanted(f).user = f.user /\ Wanted(f).fix = f.fix
           /\ "U" \in Wanted(f).bits <=> "U" \in f.bits \/ f.user
           /\ "R" \in Wanted(f).bits <=> "R" \in f.bits
           /\ Traced(Wanted(f)) = Traced(f)
BY DEF FaultRecords, Wanted, Bits, Traced

\* The growth of a stack takes no right away from an area.
LEMMA GrowthKeepsRights ==
    ASSUME NEW a \in Areas \ {None}, NEW f
    PROVE  /\ [a EXCEPT !.over = TRUE].over
           /\ AccessError(f, [a EXCEPT !.over = TRUE]) = AccessError(f, a)
           /\ a.over \/ a.grows => [a EXCEPT !.over = TRUE] \in Areas \ {None}
           /\ a.over => [a EXCEPT !.over = TRUE] = a
<1>1. a \in AreaRecords
  BY AreasAssumption
<1>2. PICK b : b = [a EXCEPT !.over = TRUE]
  OBVIOUS
<1>3. b.over /\ b.may = a.may /\ b.key = a.key
  BY <1>1, <1>2 DEF AreaRecords
<1>4. a.over => b = a
  BY <1>1, <1>2 DEF AreaRecords
<1>5. a.grows => b \in Areas
  BY <1>2, AreasAssumption
<1>6. b # None
  BY <1>1, <1>2, ThreadsAssumption DEF AreaRecords
<1> QED
  BY <1>2, <1>3, <1>4, <1>5, <1>6 DEF AccessError
-----------------------------------------------------------------------------
(* Steps of one thread.                                                    *)

\* A thread at place a goes to place b of the handler, with f its fault.
LEMMA MoveTypes ==
    ASSUME HandlerTypeOK, NEW t \in Threads,
           NEW b \in Handler \cup Outside,
           NEW f \in FaultRecords \cup {None}, NEW r \in BOOLEAN,
           b \in Handler => f # None,
           at' = [at EXCEPT ![t] = b], fault' = [fault EXCEPT ![t] = f],
           tried' = [tried EXCEPT ![t] = r],
           TypeOK', area' \in Areas, readers' \subseteq Threads,
           writer' \in Threads \cup {None}
    PROVE  HandlerTypeOK'
BY DEF HandlerTypeOK

\* Whatever the verdict, the thread leaves the handler and the semaphore.
LEMMA EndKeeps ==
    ASSUME HandlerInv, NEW t \in Threads, at[t] \in Handler,
           NEW verdict \in {"return", "signal", "dead"}, End(t, verdict),
           readers' = readers \ {t}, writer' = writer, TypeOK',
           \/ area' = area
           \/ area # None /\ area' = [area EXCEPT !.over = TRUE]
                          /\ area' \in Areas
    PROVE  HandlerInv'
<1> DEFINE b == IF verdict = "return" THEN Back(t) ELSE verdict
<1> USE DEF HandlerInv
<1>1. /\ b \in {"user", "map", "signal", "dead"}
      /\ b = "user" => writer # t
      /\ at' = [at EXCEPT ![t] = b] /\ fault' = [fault EXCEPT ![t] = None]
      /\ tried' = [tried EXCEPT ![t] = FALSE]
  BY DEF End, EndAs, Back
<1>2. at \in [Threads -> Handler \cup Outside]
  BY DEF HandlerTypeOK
<1>3. fault \in [Threads -> FaultRecords \cup {None}]
  BY DEF HandlerTypeOK
<1>4. /\ at'[t] = b
      /\ \A u \in Threads \ {t} : at'[u] = at[u] /\ fault'[u] = fault[u]
  BY <1>1, <1>2, <1>3
<1> HIDE DEF b
<1>5. HandlerTypeOK'
  <2>1. area' \in Areas /\ readers' \subseteq Threads
        /\ writer' \in Threads \cup {None}
    BY DEF HandlerTypeOK
  <2> QED
    BY <1>1, <2>1, MoveTypes
<1>6. SemBalanced'
  BY <1>1, <1>4 DEF SemBalanced
<1>7. AccessChecked'
  BY <1>1, <1>4, GrowthKeepsRights DEF AccessChecked, HandlerTypeOK
<1>8. Settled'
  BY <1>1, <1>4 DEF Settled
<1>9. WriterStays'
  BY <1>1, <1>4 DEF WriterStays
<1> QED
  BY <1>5, <1>6, <1>7, <1>8, <1>9

\* A thread that faults, or goes on in the handler with its fault and the
\* area as they are, if what holds at the new place does.
LEMMA MoveKeeps ==
    ASSUME HandlerInv, NEW t \in Threads, NEW b \in Handler \cup Outside,
           NEW f \in FaultRecords \cup {None}, NEW r \in BOOLEAN,
           at' = [at EXCEPT ![t] = b], fault' = [fault EXCEPT ![t] = f],
           tried' = [tried EXCEPT ![t] = r],
           readers' = IF b \in Locked THEN readers \cup {t} ELSE readers \ {t},
           writer' = writer, TypeOK',
           b \in Handler =>
               f # None /\ ("U" \in f.bits => f.user)
                        /\ (b # "entry" =>
                                /\ f.space = "user" /\ ~ f.off
                                /\ ~ Traced(f) /\ "R" \notin f.bits),
           b \in Locked => writer = None,
           writer = t => \/ b \in {"map", "signal", "dead"}
                         \/ b \in {"entry", "try"} /\ Mistake(f),
           \/ area' = area
           \/ area # None /\ area' = [area EXCEPT !.over = TRUE]
                          /\ area' \in Areas,
           b = "handling" =>
               area' # None /\ area'.over /\ ~ AccessError(f, area')
    PROVE  HandlerInv'
<1> USE DEF HandlerInv
<1>1. at \in [Threads -> Handler \cup Outside]
  BY DEF HandlerTypeOK
<1>2. fault \in [Threads -> FaultRecords \cup {None}]
  BY DEF HandlerTypeOK
<1>3. /\ at'[t] = b /\ fault'[t] = f
      /\ \A u \in Threads \ {t} : at'[u] = at[u] /\ fault'[u] = fault[u]
  BY <1>1, <1>2
<1>4. HandlerTypeOK'
  <2>1. area' \in Areas /\ readers' \subseteq Threads
        /\ writer' \in Threads \cup {None}
    BY DEF HandlerTypeOK
  <2> QED
    BY <2>1, MoveTypes
<1>5. SemBalanced'
  BY <1>3, ThreadsAssumption DEF SemBalanced
<1>6. AccessChecked'
  BY <1>3, GrowthKeepsRights DEF AccessChecked, HandlerTypeOK
<1>7. Settled'
  BY <1>3 DEF Settled
<1>8. WriterStays'
  BY <1>3 DEF WriterStays
<1> QED
  BY <1>4, <1>5, <1>6, <1>7, <1>8
-----------------------------------------------------------------------------
(* The invariant.                                                          *)

LEMMA InvInit == HandlerInit => HandlerInv
BY ThreadsAssumption
   DEF HandlerInit, Init, HandlerInv, HandlerTypeOK, TypeOK, SemBalanced,
       AccessChecked, Settled, WriterStays, Places, Open, Live, Dying

\* Steps before the semaphore is tried.
LEMMA EntryKeeps ==
    ASSUME HandlerInv, NEW t \in Threads, KernelSpace(t) \/ UserSpace(t)
    PROVE  HandlerInv'
<1> USE DEF HandlerInv
<1> DEFINE f == fault[t]
<1>1. /\ at[t] = "entry" /\ t \notin readers
      /\ f \in FaultRecords /\ ("U" \in f.bits => f.user)
      /\ writer = t => Mistake(f)
  BY DEF KernelSpace, UserSpace, SemBalanced, HandlerTypeOK, Settled,
         WriterStays
<1>2. readers' = readers \ {t} /\ writer' = writer /\ area' = area
  BY <1>1 DEF KernelSpace, UserSpace, memory
<1>3. ASSUME NEW verdict, End(t, verdict), Deserved(f, verdict), TypeOK'
      PROVE  HandlerInv'
  BY <1>1, <1>2, <1>3, EndKeeps DEF Deserved
<1>4. ASSUME UNCHANGED vars
      PROVE  TypeOK'
  BY <1>4 DEF vars, HandlerTypeOK, TypeOK
<1>5. CASE KernelSpace(t)
  BY <1>3, <1>4, <1>5, VerdictsDeserved DEF KernelSpace
<1>6. CASE UserSpace(t)
  <2>1. CASE Rsvd(t)
    <3>1. TypeOK'
      BY <2>1 DEF Rsvd, Clear, Alive, HandlerTypeOK, TypeOK
    <3>2. End(t, "return") \/ End(t, "dead")
      BY <2>1 DEF Rsvd
    <3> QED
      BY <1>1, <1>2, <3>1, <3>2, EndKeeps
  <2>2. CASE UNCHANGED vars /\ \E verdict : End(t, verdict) /\ Deserved(f, verdict)
    BY <1>3, <1>4, <2>2
  <2>3. CASE /\ UNCHANGED vars /\ ~ f.off /\ "R" \notin f.bits
             /\ ~ Kmmio(f) /\ ~ Kprobes(f)
             /\ at' = [at EXCEPT ![t] = "try"]
             /\ fault' = [fault EXCEPT ![t] = Wanted(f)]
             /\ tried' = tried
    <3> DEFINE w == Wanted(f)
    <3>1. w \in FaultRecords /\ ("U" \in w.bits => w.user)
          /\ w.space = "user" /\ ~ w.off
          /\ ~ Traced(w) /\ "R" \notin w.bits
          /\ w # None
      BY <1>1, <1>6, <2>3, WantedIsFault, ThreadsAssumption
      DEF UserSpace, Traced, Kmmio, Kprobes
    <3>2. writer = t => Mistake(w)
      BY <1>1, WantedIsFault DEF Mistake
    <3>3. tried' = [tried EXCEPT ![t] = tried[t]] /\ tried[t] \in BOOLEAN
      BY <2>3 DEF HandlerTypeOK
    <3>4. TypeOK'
      BY <1>4, <2>3
    <3> HIDE DEF w
    <3>5. fault' = [fault EXCEPT ![t] = w]
      BY <2>3 DEF w
    <3> QED
      BY <1>2, <2>3, <3>1, <3>2, <3>3, <3>4, <3>5, MoveKeeps
  <2> QED
    BY <1>6, <2>1, <2>2, <2>3, VerdictsDeserved DEF UserSpace
<1> QED
  BY <1>5, <1>6

\* Steps of a thread that tries the semaphore, waits for it, holds it, or has
\* lost it in handle_mm_fault.
LEMMA LockKeeps ==
    ASSUME HandlerInv, NEW t \in Threads,
           \/ DownReadTrylock(t) \/ DownRead(t) \/ FindVma(t)
           \/ HandleMmFault(t) \/ Unpark(t) \/ Retry(t) \/ UpRead(t)
    PROVE  HandlerInv'
<1> USE DEF HandlerInv
<1> DEFINE f == fault[t]
<1>1. /\ at[t] \in Handler \ {"entry"}
      /\ t \in readers <=> at[t] \in Locked
      /\ f \in FaultRecords /\ f # None /\ ("U" \in f.bits => f.user)
      /\ f.space = "user" /\ ~ f.off /\ ~ Traced(f) /\ "R" \notin f.bits
      /\ writer = t => at[t] = "try" /\ Mistake(f)
      /\ at[t] \in Locked => writer = None
  BY DEF DownReadTrylock, DownRead, FindVma, HandleMmFault, Unpark, Retry,
         UpRead, SemBalanced, HandlerTypeOK, Settled, WriterStays
<1>2. writer' = writer /\ UNCHANGED vars
  BY DEF DownReadTrylock, DownRead, FindVma, HandleMmFault, Unpark, Retry,
         UpRead
<1>3. TypeOK'
  BY <1>2 DEF vars, HandlerTypeOK, TypeOK
<1>4. ASSUME NEW verdict, End(t, verdict), Deserved(f, verdict),
             readers' = readers \ {t}, area' = area
      PROVE  HandlerInv'
  BY <1>1, <1>2, <1>3, <1>4, EndKeeps DEF Deserved
<1>5. ASSUME NEW b \in Handler \ {"entry", "handling"}, Move(t, b),
             readers' = IF b \in Locked THEN readers \cup {t}
                        ELSE readers \ {t},
             area' = area, b \in Locked => writer = None,
             writer = t => b = "try"
      PROVE  HandlerInv'
  <2>1. fault' = [fault EXCEPT ![t] = f]
        /\ tried' = [tried EXCEPT ![t] = tried[t]] /\ tried[t] \in BOOLEAN
    BY <1>5 DEF Move, HandlerTypeOK
  <2> HIDE DEF f
  <2> QED
    BY <1>1, <1>2, <1>3, <1>5, <2>1, MoveKeeps DEF Move
<1>6. CASE DownReadTrylock(t)
  <2>1. CASE writer = None
    <3>1. writer # t
      BY <2>1, ThreadsAssumption
    <3> QED
      BY <1>5, <1>6, <2>1, <3>1 DEF DownReadTrylock
  <2>2. CASE writer # None /\ MayWait(f)
    <3>1. writer # t
      BY <1>1, <2>2 DEF MayWait, Mistake
    <3> QED
      BY <1>1, <1>5, <1>6, <2>2, <3>1 DEF DownReadTrylock
  <2>3. CASE writer # None /\ ~ MayWait(f)
    BY <1>1, <1>4, <1>6, <2>3, VerdictsDeserved DEF DownReadTrylock
  <2> QED
    BY <2>1, <2>2, <2>3
<1>7. CASE DownRead(t) \/ Unpark(t)
  <2>1. writer # t
    BY <1>7, ThreadsAssumption DEF DownRead, Unpark
  <2> QED
    BY <1>5, <1>7, <2>1 DEF DownRead, Unpark, DownReadTo
<1>8. CASE FindVma(t)
  <2>1. at[t] = "find" /\ writer # t /\ writer = None
    BY <1>1, <1>8 DEF FindVma
  <2>2. CASE BadArea(t)
    BY <1>4, <2>2, VerdictsDeserved DEF BadArea
  <2>3. CASE ~ BadArea(t)
    <3>1. Expandable(f) /\ area' = [area EXCEPT !.over = TRUE]
      BY <1>8, <2>3 DEF FindVma
    <3>2. area \in Areas \ {None} /\ (area.over \/ area.grows)
      BY <3>1 DEF Expandable, HandlerTypeOK
    <3>3. /\ area' \in Areas /\ area' # None /\ area'.over
          /\ AccessError(f, area') = AccessError(f, area)
      BY <3>1, <3>2, GrowthKeepsRights
    <3>4. CASE AccessError(f, area)
      <4>1. /\ End(t, BadAreaNosemaphore(f))
            /\ readers' = readers \ {t}
        BY <1>8, <2>3, <3>1, <3>4 DEF FindVma
      <4>2. BadAreaNosemaphore(f) \in {"return", "signal", "dead"}
        BY VerdictsDeserved DEF Deserved
      <4> QED
        BY <1>1, <1>2, <1>3, <3>1, <3>2, <3>3, <4>1, <4>2, EndKeeps
    <3>5. CASE ~ AccessError(f, area)
      <4>1. Move(t, "handling") /\ readers' = readers
        BY <1>8, <2>3, <3>1, <3>5 DEF FindVma
      <4>2. fault' = [fault EXCEPT ![t] = f]
            /\ tried' = [tried EXCEPT ![t] = tried[t]] /\ tried[t] \in BOOLEAN
        BY <4>1 DEF Move, HandlerTypeOK
      <4>3. readers' = readers \cup {t}
        BY <1>1, <2>1, <4>1
      <4>4. at' = [at EXCEPT ![t] = "handling"]
        BY <4>1 DEF Move
      <4> HIDE DEF f
      <4> QED
        BY <1>1, <1>2, <1>3, <2>1, <3>1, <3>2, <3>3, <3>5, <4>2, <4>3, <4>4,
           MoveKeeps
    <3> QED
      BY <3>4, <3>5
  <2> QED
    BY <2>2, <2>3
<1>9. CASE HandleMmFault(t)
  <2>1. t \in readers /\ writer # t
    BY <1>1, <1>9, ThreadsAssumption DEF HandleMmFault
  <2> QED
    BY <1>1, <1>5, <1>9, <2>1 DEF HandleMmFault
<1>10. CASE Retry(t)
  <2>1. /\ t \notin readers /\ readers' = readers \ {t} /\ area' = area
        /\ writer # t
    BY <1>1, <1>10 DEF Retry, RetryReaders
  <2>2. ASSUME End(t, IF f.user THEN "return" ELSE NoContext(f))
        PROVE  HandlerInv'
    BY <1>1, <1>4, <2>1, <2>2, VerdictsDeserved
  <2>3. ASSUME at' = [at EXCEPT ![t] = "down"], fault' = fault,
               tried' = [tried EXCEPT ![t] = TRUE]
        PROVE  HandlerInv'
    <3>1. fault' = [fault EXCEPT ![t] = f]
      BY <2>3 DEF HandlerTypeOK
    <3> HIDE DEF f
    <3> QED
      BY <1>1, <1>2, <1>3, <2>1, <2>3, <3>1, MoveKeeps
  <2> QED
    BY <1>10, <2>2, <2>3 DEF Retry, TriedOnce
<1>11. CASE UpRead(t)
  BY <1>1, <1>4, <1>11, VerdictsDeserved DEF UpRead, UpReadOn
<1> QED
  BY <1>6, <1>7, <1>8, <1>9, <1>10, <1>11
\* Faults, changes of the memory and signals.
LEMMA ThreadKeeps ==
    ASSUME HandlerInv, NEW t \in Threads,
           DoPageFault(t) \/ Map(t) \/ Unmap(t) \/ Signalled(t)
    PROVE  HandlerInv'
<1> USE DEF HandlerInv
<1>1. UNCHANGED vars
  BY DEF DoPageFault, Map, Unmap, Signalled
<1>2. TypeOK'
  BY <1>1 DEF vars, HandlerTypeOK, TypeOK
<1>3. tried \in [Threads -> BOOLEAN] /\ t \notin readers
  BY DEF HandlerTypeOK, SemBalanced, DoPageFault, Map, Unmap, Signalled
<1>4. CASE DoPageFault(t)
  <2>1. PICK f \in Faults : /\ at[t] = "map" => Mistake(f)
                            /\ fault' = [fault EXCEPT ![t] = f]
    BY <1>4 DEF DoPageFault
  <2>2. f \in FaultRecords /\ f # None /\ ("U" \in f.bits => f.user)
    BY FaultsAssumption, ThreadsAssumption
  <2>3. writer = t => Mistake(f)
    BY <1>4, <2>1 DEF DoPageFault, WriterStays
  <2>4. /\ at' = [at EXCEPT ![t] = "entry"]
        /\ tried' = [tried EXCEPT ![t] = tried[t]] /\ tried[t] \in BOOLEAN
        /\ readers' = readers \ {t} /\ writer' = writer /\ area' = area
    BY <1>3, <1>4 DEF DoPageFault, memory
  <2> QED
    BY <1>2, <2>1, <2>2, <2>3, <2>4, MoveKeeps
<1>5. CASE Signalled(t)
  <2>1. Back(t) \in {"user", "map"} /\ (writer = t => Back(t) = "map")
    BY DEF Back
  <2>2. /\ at' = [at EXCEPT ![t] = Back(t)]
        /\ fault' = [fault EXCEPT ![t] = fault[t]]
        /\ fault[t] \in FaultRecords \cup {None}
        /\ tried' = [tried EXCEPT ![t] = tried[t]] /\ tried[t] \in BOOLEAN
        /\ readers' = readers \ {t} /\ writer' = writer /\ area' = area
    BY <1>3, <1>5 DEF Signalled, Move, memory, HandlerTypeOK
  <2> QED
    BY <1>2, <2>1, <2>2, MoveKeeps
<1>6. CASE Map(t)
  <2>1. /\ at' = [at EXCEPT ![t] = "map"] /\ at[t] = "user"
        /\ UNCHANGED <<fault, tried, readers>>
        /\ readers = {} /\ writer' = t /\ area' \in Areas
    BY <1>6 DEF Map, Move
  <2>2. \A u \in Threads : at'[u] = IF u = t THEN "map" ELSE at[u]
    BY <2>1 DEF HandlerTypeOK
  <2>3. \A u \in Threads : at[u] \notin Locked
    BY <2>1 DEF SemBalanced
  <2>4. HandlerTypeOK'
    BY <1>2, <2>1 DEF HandlerTypeOK
  <2>5. SemBalanced' /\ AccessChecked' /\ Settled' /\ WriterStays'
    BY <2>1, <2>2, <2>3 DEF SemBalanced, AccessChecked, Settled, WriterStays
  <2> QED
    BY <2>4, <2>5
<1>7. CASE Unmap(t)
  <2>1. /\ at' = [at EXCEPT ![t] = "user"] /\ at[t] = "map"
        /\ UNCHANGED <<fault, tried, area, readers>> /\ writer' = None
    BY <1>7 DEF Unmap, Move
  <2>2. \A u \in Threads : at'[u] = IF u = t THEN "user" ELSE at[u]
    BY <2>1 DEF HandlerTypeOK
  <2>3. HandlerTypeOK'
    BY <1>2, <2>1 DEF HandlerTypeOK
  <2>4. SemBalanced' /\ AccessChecked' /\ Settled' /\ WriterStays'
    BY <2>1, <2>2, ThreadsAssumption
    DEF SemBalanced, AccessChecked, Settled, WriterStays
  <2> QED
    BY <2>3, <2>4
<1> QED
  BY <1>4, <1>5, <1>6, <1>7

LEMMA InvNext == HandlerInv /\ [HandlerNext]_allvars => HandlerInv'
<1> SUFFICES ASSUME HandlerInv, [HandlerNext]_allvars
             PROVE  HandlerInv'
  OBVIOUS
<1>1. ASSUME UNCHANGED hvars, TypeOK'
      PROVE  HandlerInv'
  BY <1>1 DEF hvars, handling, memory, HandlerInv, HandlerTypeOK, SemBalanced,
              AccessChecked, Settled, WriterStays
<1>2. CASE UNCHANGED allvars
  BY <1>1, <1>2 DEF allvars, vars, TypeOK, HandlerInv, HandlerTypeOK
<1>3. CASE Demo
  <2>1. Next
    BY <1>3 DEF Demo, Next
  <2> QED
    BY <1>1, <1>3, <2>1, DemoType DEF Demo, HandlerInv, HandlerTypeOK
<1> QED
  BY <1>2, <1>3, EntryKeeps, LockKeeps, ThreadKeeps DEF HandlerNext, Handle

-----------------------------------------------------------------------------
(* Theorems.                                                               *)

\* The invariant holds for any number of threads and for all faults.
THEOREM HandlerInvariant == HandlerSpec => []HandlerInv
BY InvInit, InvNext, PTL DEF HandlerSpec

\* Every state is of its type.
THEOREM HandlerTypes == HandlerSpec => []HandlerTypeOK
<1>1. HandlerInv => HandlerTypeOK
  BY DEF HandlerInv
<1> QED
  BY <1>1, HandlerInvariant, PTL

\* On every way through the handler, with any number of retries refused or
\* granted, mmap_sem is released once for each time it is taken.
THEOREM SemaphoreBalanced == HandlerSpec => []SemBalanced
<1>1. HandlerInv => SemBalanced
  BY DEF HandlerInv
<1> QED
  BY <1>1, HandlerInvariant, PTL

\* The check of the access holds when the page is made, though the memory
\* may have changed before a retry and another thread may grow the stack.
THEOREM AccessesChecked == HandlerSpec => []AccessChecked
<1>1. HandlerInv => AccessChecked
  BY DEF HandlerInv
<1> QED
  BY <1>1, HandlerInvariant, PTL

\* No thread waits for a semaphore it holds itself, or where it must not
\* sleep.
THEOREM WaitsAreSafe == HandlerSpec => []WaitsSafely
<1>1. HandlerInv => WaitsSafely
  BY DEF HandlerInv, WaitsSafely, Settled, WriterStays
<1> QED
  BY <1>1, HandlerInvariant, PTL

\* A verdict passed behind the entry, where memory was refused.
LEMMA RefusalDeserved ==
    ASSUME HandlerInv, NEW t \in Threads, at[t] \in Handler \ {"entry"},
           Refused(t), NEW verdict, End(t, verdict),
           Deserved(fault[t], verdict),
           \/ at[t] = "handled"
           \/ verdict = "signal" =>
                ~ IsErrata100(fault[t]) /\ ~ Vsyscall(fault[t])
    PROVE  EndsAsDeserved(t)
<1> DEFINE f == fault[t]
<1>1. /\ at \in [Threads -> Handler \cup Outside]
      /\ f.space = "user" /\ ~ Traced(f) /\ "R" \notin f.bits
  BY DEF HandlerInv, HandlerTypeOK, Settled
<1>2. ~ Corrupt(f) /\ ~ TablesAllow(f)
  BY <1>1 DEF Corrupt, TablesAllow
<1>3. verdict = "dead" => DeathDeserved(t)
  BY <1>1, <1>2 DEF Deserved, DeathDeserved
<1>4. verdict = "signal" => SignalDeserved(t)
  BY <1>1, <1>2 DEF Deserved, SignalDeserved
<1> QED
  BY <1>1, <1>3, <1>4 DEF End, EndAs, Back, EndsAsDeserved

\* The verdict on a fault at the entry.
LEMMA EntryDeserved ==
    ASSUME HandlerInv, NEW t \in Threads, KernelSpace(t) \/ UserSpace(t)
    PROVE  EndsAsDeserved(t)
<1> DEFINE f == fault[t]
           v == BadAreaNosemaphore(f)
<1>1. /\ at \in [Threads -> Handler \cup Outside]
      /\ at[t] = "entry"
      /\ f \in FaultRecords
      /\ Deserved(f, v)
      /\ v = "signal" => ~ IsErrata100(f) /\ ~ Vsyscall(f)
  BY VerdictsDeserved DEF HandlerInv, HandlerTypeOK, KernelSpace, UserSpace
<1> HIDE DEF v
<1>2. ASSUME NEW b, b \notin {"dead", "signal"}, at' = [at EXCEPT ![t] = b]
      PROVE  EndsAsDeserved(t)
  BY <1>1, <1>2 DEF EndsAsDeserved
<1>3. ASSUME End(t, "return")
      PROVE  EndsAsDeserved(t)
  <2>1. Back(t) \notin {"dead", "signal"} /\ at' = [at EXCEPT ![t] = Back(t)]
    BY <1>3 DEF End, EndAs, Back
  <2> QED
    BY <1>2, <2>1
<1>4. ASSUME End(t, v), Refused(t), ~ Kmmio(f), ~ Kprobes(f), ~ Corrupt(f),
             ~ TablesAllow(f) \/ "U" \in f.bits
      PROVE  EndsAsDeserved(t)
  <2>1. ~ Traced(f)
    BY <1>4 DEF Traced, Kmmio, Kprobes
  <2>2. v = "dead" => DeathDeserved(t)
    BY <1>1, <1>4, <2>1 DEF Deserved, DeathDeserved
  <2>3. v = "signal" => SignalDeserved(t)
    BY <1>1, <1>4, <2>1 DEF Deserved, SignalDeserved
  <2> QED
    BY <1>1, <1>4, <2>2, <2>3 DEF End, EndAs, Back, EndsAsDeserved
<1>5. CASE KernelSpace(t)
  <2>1. CASE End(t, "return")
    BY <1>3, <2>1
  <2>2. CASE ~ End(t, "return")
    <3>1. /\ End(t, v) /\ f.space # "user" /\ ~ Kmmio(f) /\ ~ Kprobes(f)
          /\ ~ (f.bits \cap {"R", "U", "P"} = {} /\ VmallocFault(f))
          /\ ~ SpuriousFault(f)
      BY <1>5, <2>2 DEF KernelSpace, v
    <3>2. ~ TablesAllow(f)
      BY <1>1, <3>1
      DEF TablesAllow, VmallocFault, SpuriousFault, SpuriousFaultCheck
    <3>3. Refused(t) /\ ~ Corrupt(f)
      BY <1>1, <3>1 DEF Refused, Corrupt
    <3> QED
      BY <1>4, <3>1, <3>2, <3>3
  <2> QED
    BY <2>1, <2>2
<1>6. CASE UserSpace(t)
  <2>1. f.space = "user" /\ ~ TablesAllow(f)
    BY <1>6 DEF UserSpace, TablesAllow
  <2>2. CASE End(t, "return")
    BY <1>3, <2>2
  <2>3. CASE at' = [at EXCEPT ![t] = "try"]
    BY <1>2, <2>3
  <2>4. CASE Rsvd(t) /\ "R" \in f.bits /\ ~ Kmmio(f) /\ ~ Kprobes(f)
    <3>1. ~ Traced(f) /\ Corrupt(f)
      BY <2>1, <2>4 DEF Traced, Kmmio, Kprobes, Corrupt
    <3>2. CASE hook /\ gptr = f.page /\ gpte # None
      BY <1>3, <2>4, <3>2 DEF Rsvd
    <3>3. CASE ~ (hook /\ gptr = f.page /\ gpte # None)
      <4>1. DeathDeserved(t) /\ End(t, "dead")
        BY <2>4, <3>1, <3>3 DEF DeathDeserved, Rsvd
      <4> QED
        BY <1>1, <4>1 DEF End, EndAs, EndsAsDeserved
    <3> QED
      BY <3>2, <3>3
  <2>5. CASE /\ End(t, v) /\ "R" \notin f.bits /\ ~ Kmmio(f) /\ ~ Kprobes(f)
             /\ SmapViolation(f) \/ f.off
    <3>1. Refused(t) /\ ~ Corrupt(f)
      BY <1>1, <2>5 DEF Refused, Corrupt
    <3> QED
      BY <1>4, <2>1, <2>5, <3>1
  <2> QED
    BY <1>6, <2>2, <2>3, <2>4, <2>5 DEF UserSpace, v
<1> QED
  BY <1>5, <1>6

\* One step of a thread in the handler.
LEMMA StepDeserved ==
    ASSUME HandlerInv, NEW t \in Threads, Handle(t)
    PROVE  EndsAsDeserved(t)
<1> DEFINE f == fault[t]
<1>1. /\ at \in [Threads -> Handler \cup Outside]
      /\ at[t] \in Handler
      /\ "U" \in f.bits => f.user
  BY DEF HandlerInv, HandlerTypeOK, Settled, Handle, KernelSpace, UserSpace,
         DownReadTrylock, FindVma, HandleMmFault, Retry, UpRead
<1>2. ASSUME NEW b, b \notin {"dead", "signal"}, at' = [at EXCEPT ![t] = b]
      PROVE  EndsAsDeserved(t)
  BY <1>1, <1>2 DEF EndsAsDeserved
<1>3. CASE KernelSpace(t) \/ UserSpace(t)
  BY <1>3, EntryDeserved
<1>4. CASE DownReadTrylock(t)
  <2>1. CASE writer = None \/ MayWait(f)
    BY <1>2, <1>4, <2>1 DEF DownReadTrylock, Move
  <2>2. CASE writer # None /\ ~ MayWait(f)
    <3>1. Refused(t) /\ End(t, BadAreaNosemaphore(f))
      BY <1>4, <2>2 DEF DownReadTrylock, Refused
    <3> QED
      BY <1>1, <1>4, <3>1, VerdictsDeserved, RefusalDeserved
      DEF DownReadTrylock
  <2> QED
    BY <2>1, <2>2
<1>5. CASE FindVma(t)
  <2>1. CASE Move(t, "handling")
    BY <1>2, <2>1 DEF Move
  <2>2. CASE ~ Move(t, "handling")
    <3>1. Refused(t) /\ End(t, BadAreaNosemaphore(f))
      BY <1>5, <2>2 DEF FindVma, BadArea, Expandable, Refused
    <3> QED
      BY <1>1, <1>5, <3>1, VerdictsDeserved, RefusalDeserved DEF FindVma
  <2> QED
    BY <2>1, <2>2
<1>6. CASE HandleMmFault(t)
  BY <1>2, <1>6 DEF HandleMmFault, Move
<1>7. CASE Retry(t)
  <2>1. CASE at' = [at EXCEPT ![t] = "down"]
    BY <1>2, <2>1
  <2>2. CASE End(t, IF f.user THEN "return" ELSE NoContext(f))
    <3> DEFINE v == IF f.user THEN "return" ELSE NoContext(f)
    <3>1. Deserved(f, v) /\ v # "signal"
      BY <1>1, VerdictsDeserved DEF NoContext
    <3>2. Refused(t) /\ at[t] = "retry"
      BY <1>7 DEF Retry, Refused
    <3> HIDE DEF v
    <3>3. End(t, v)
      BY <2>2 DEF v
    <3> QED
      BY <3>1, <3>2, <3>3, RefusalDeserved
  <2> QED
    BY <1>7, <2>1, <2>2 DEF Retry
<1>8. CASE UpRead(t)
  <2>1. Refused(t) /\ at[t] = "handled"
    BY <1>8 DEF UpRead, Refused
  <2> QED
    BY <1>8, <2>1, VerdictsDeserved, RefusalDeserved DEF UpRead
<1> QED
  BY <1>3, <1>4, <1>5, <1>6, <1>7, <1>8 DEF Handle

\* A fault ends in death or in a signal only where no other end is left: the
\* memory is refused, no tracer claims it, no hook or exception-table entry
\* takes it, no table allows it and no erratum excuses it.
THEOREM EndsAreDeserved == HandlerSpec => EndDeserved
<1>1. ASSUME HandlerInv, HandlerNext, NEW t \in Threads
      PROVE  EndsAsDeserved(t)
  <2>1. at \in [Threads -> Handler \cup Outside]
    BY <1>1 DEF HandlerInv, HandlerTypeOK
  <2>2. CASE Handle(t)
    BY <1>1, <2>2, StepDeserved
  <2>3. CASE \E u \in Threads \ {t} : Handle(u)
    <3>1. at'[t] = at[t]
      BY <2>1, <2>3
      DEF Handle, KernelSpace, UserSpace, Rsvd, DownReadTrylock, FindVma,
          BadArea, HandleMmFault, Retry, UpRead, End, EndAs, Move
    <3> QED
      BY <3>1 DEF EndsAsDeserved
  <2>4. ASSUME NEW u \in Threads,
               \/ DoPageFault(u) \/ DownRead(u) \/ Unpark(u)
               \/ Map(u) \/ Unmap(u) \/ Signalled(u)
        PROVE  EndsAsDeserved(t)
    <3>1. \E b \in Handler \cup {"user", "map"} : at' = [at EXCEPT ![u] = b]
      BY <2>4
      DEF DoPageFault, DownRead, DownReadTo, Unpark, Map, Unmap, Signalled,
          Back, Move
    <3> QED
      BY <2>1, <3>1 DEF EndsAsDeserved
  <2>5. CASE Demo
    BY <2>5 DEF Demo, hvars, handling, EndsAsDeserved
  <2> QED
    BY <1>1, <2>2, <2>3, <2>4, <2>5 DEF HandlerNext
<1>2. HandlerInv /\ [HandlerNext]_allvars
        => [\A t \in Threads : EndsAsDeserved(t)]_allvars
  BY <1>1
<1> QED
  BY HandlerInvariant, <1>2, PTL DEF HandlerSpec, EndDeserved
-----------------------------------------------------------------------------
(* How long a fault can take: what FaultsEnd says under fairness needs a   *)
(* bound on the steps of a fault, whatever else happens in between.        *)

\* The steps a fault may still take; a second pass begins at "down".
StepsOf(place) ==
    CASE place = "entry"               -> 7
      [] place = "try"                 -> 6
      [] place = "down"                -> 5
      [] place = "find"                -> 4
      [] place = "handling"            -> 3
      [] place \in {"retry", "parked"} -> 2
      [] OTHER                         -> 1

StepsLeft(t) == StepsOf(at[t]) + (IF tried[t] THEN 0 ELSE 6)

\* A step in the handler comes nearer to its end or leaves it; another
\* thread, and the demo, leave the fault where it is.
Advances(t) ==
    at[t] \in Handler =>
        \/ at'[t] \notin Handler
        \/ at'[t] = at[t] /\ tried'[t] = tried[t]
        \/ StepsLeft(t)' < StepsLeft(t)

\* A step of the thread itself.
LEMMA OwnStepAdvances ==
    ASSUME HandlerInv, NEW t \in Threads,
           Handle(t) \/ DownRead(t) \/ Unpark(t)
    PROVE  Advances(t)
<1> DEFINE f == fault[t]
<1>1. /\ at \in [Threads -> Handler \cup Outside]
      /\ tried \in [Threads -> BOOLEAN]
  BY DEF HandlerInv, HandlerTypeOK
<1>2. ASSUME NEW verdict, End(t, verdict), Deserved(f, verdict)
      PROVE  Advances(t)
  BY <1>1, <1>2 DEF End, EndAs, Back, Deserved, Advances
<1>3. ASSUME NEW b \in Handler, at' = [at EXCEPT ![t] = b], tried' = tried,
             StepsOf(b) < StepsOf(at[t])
      PROVE  Advances(t)
  <2>1. at'[t] = b /\ tried'[t] = tried[t]
    BY <1>1, <1>3
  <2>2. StepsOf(b) \in Nat /\ StepsOf(at[t]) \in Nat
    BY DEF StepsOf
  <2> QED
    BY <1>3, <2>1, <2>2 DEF Advances, StepsLeft
<1>4. CASE KernelSpace(t)
  BY <1>2, <1>4, VerdictsDeserved DEF KernelSpace
<1>5. CASE UserSpace(t)
  <2>1. CASE Rsvd(t)
    BY <1>1, <2>1 DEF Rsvd, End, EndAs, Back, Advances
  <2>2. CASE at' = [at EXCEPT ![t] = "try"] /\ tried' = tried
    <3>1. StepsOf("try") < StepsOf(at[t])
      BY <1>5 DEF UserSpace, StepsOf
    <3> QED
      BY <1>3, <2>2, <3>1
  <2>3. CASE \E verdict : End(t, verdict) /\ Deserved(f, verdict)
    BY <1>2, <2>3
  <2> QED
    BY <1>5, <2>1, <2>2, <2>3, VerdictsDeserved DEF UserSpace
<1>6. CASE DownReadTrylock(t)
  <2>1. StepsOf("find") < StepsOf(at[t]) /\ StepsOf("down") < StepsOf(at[t])
    BY <1>6 DEF DownReadTrylock, StepsOf
  <2> QED
    BY <1>2, <1>3, <1>6, <2>1, VerdictsDeserved DEF DownReadTrylock, Move
<1>7. CASE DownRead(t)
  <2>1. StepsOf("find") < StepsOf(at[t])
    BY <1>7 DEF DownRead, StepsOf
  <2> QED
    BY <1>3, <1>7, <2>1 DEF DownRead, DownReadTo, Move
<1>8. CASE FindVma(t)
  <2>1. StepsOf("handling") < StepsOf(at[t])
    BY <1>8 DEF FindVma, StepsOf
  <2> QED
    BY <1>2, <1>3, <1>8, <2>1, VerdictsDeserved DEF FindVma, BadArea, Move
<1>9. CASE HandleMmFault(t)
  <2>1. \A b \in {"handled", "retry", "parked"} :
           StepsOf(b) < StepsOf(at[t])
    BY <1>9 DEF HandleMmFault, StepsOf
  <2> QED
    BY <1>3, <1>9, <2>1 DEF HandleMmFault, Move
<1>10. CASE Unpark(t)
  <2>1. StepsOf("handled") < StepsOf(at[t])
    BY <1>10 DEF Unpark, StepsOf
  <2> QED
    BY <1>3, <1>10, <2>1 DEF Unpark, Move
<1>11. CASE Retry(t)
  <2>1. CASE /\ ~ tried[t] /\ at' = [at EXCEPT ![t] = "down"]
             /\ tried' = [tried EXCEPT ![t] = TriedOnce(t)]
    <3>1. at[t] = "retry" /\ at'[t] = "down" /\ ~ tried[t] /\ tried'[t]
      BY <1>1, <1>11, <2>1 DEF Retry, TriedOnce
    <3>2. StepsLeft(t) = 8 /\ StepsLeft(t)' = 5
      BY <3>1 DEF StepsLeft, StepsOf
    <3> QED
      BY <3>2 DEF Advances
  <2>2. CASE End(t, IF f.user THEN "return" ELSE NoContext(f))
    <3>1. f.user \/ "U" \notin f.bits
      BY <1>11 DEF Retry, HandlerInv, Settled
    <3> QED
      BY <1>2, <2>2, <3>1, VerdictsDeserved
  <2> QED
    BY <1>11, <2>1, <2>2 DEF Retry
<1>12. CASE UpRead(t)
  BY <1>2, <1>12, VerdictsDeserved DEF UpRead
<1> QED
  BY <1>4, <1>5, <1>6, <1>7, <1>8, <1>9, <1>10, <1>11, <1>12 DEF Handle

\* A step of thread u leaves the place and the retry of thread t.
LEMMA OthersLeave ==
    ASSUME HandlerTypeOK, NEW t \in Threads, NEW u \in Threads \ {t},
           \/ DoPageFault(u) \/ Handle(u) \/ DownRead(u) \/ Unpark(u)
           \/ Map(u) \/ Unmap(u) \/ Signalled(u)
    PROVE  at'[t] = at[t] /\ tried'[t] = tried[t]
BY DEF HandlerTypeOK, Handle, KernelSpace, UserSpace, Rsvd, DownReadTrylock,
       FindVma, BadArea, HandleMmFault, Retry, UpRead, End, EndAs, Move,
       DoPageFault, DownRead, DownReadTo, Unpark, Map, Unmap, Signalled, Back

\* No fault takes more than thirteen steps of its thread, for any threads,
\* faults and areas: it is retried at most once, and never taken back to an
\* earlier place of the same pass.
THEOREM FaultsShorten == HandlerSpec => [][\A t \in Threads : Advances(t)]_allvars
<1>1. ASSUME HandlerInv, HandlerNext, NEW t \in Threads
      PROVE  Advances(t)
  <2>1. CASE Handle(t) \/ DownRead(t) \/ Unpark(t)
    BY <1>1, <2>1, OwnStepAdvances
  <2>2. CASE DoPageFault(t) \/ Map(t) \/ Unmap(t) \/ Signalled(t)
    BY <2>2 DEF DoPageFault, Map, Unmap, Signalled, Advances
  <2>3. ASSUME NEW u \in Threads \ {t},
               \/ DoPageFault(u) \/ Handle(u) \/ DownRead(u) \/ Unpark(u)
               \/ Map(u) \/ Unmap(u) \/ Signalled(u)
        PROVE  Advances(t)
    BY <1>1, <2>3, OthersLeave DEF HandlerInv, Advances
  <2>4. CASE Demo
    BY <2>4 DEF Demo, hvars, handling, Advances
  <2> QED
    BY <1>1, <2>1, <2>2, <2>3, <2>4 DEF HandlerNext
<1>2. HandlerInv /\ [HandlerNext]_allvars
        => [\A t \in Threads : Advances(t)]_allvars
  BY <1>1
<1> QED
  BY HandlerInvariant, <1>2, PTL DEF HandlerSpec
-----------------------------------------------------------------------------
(* The demo in the whole system.                                           *)

\* No other fault with a reserved bit has an address of the demo.
Foreign ==
    \A f \in Faults : "R" \in f.bits => \A p \in Processes : f.page # PageOf[p]

\* The module's address is of a process of the demo, and what the handler
\* finds at its entry is a fault as the hardware has reported it.
DemoAddress == gptr = None \/ \E p \in Processes : gptr = PageOf[p]

Reported == \A t \in Threads : at[t] = "entry" => fault[t] \in Faults

LEMMA ForeignInit == HandlerInit => DemoAddress /\ Reported
BY DEF HandlerInit, Init, DemoAddress, Reported

LEMMA ReportedNext ==
    ASSUME HandlerInv, Reported, [HandlerNext]_allvars
    PROVE  Reported'
<1> USE DEF HandlerInv
<1>1. /\ at \in [Threads -> Handler \cup Outside]
      /\ fault \in [Threads -> FaultRecords \cup {None}]
  BY DEF HandlerTypeOK
<1>2. CASE UNCHANGED hvars
  BY <1>2 DEF hvars, handling, Reported
<1>3. ASSUME NEW t \in Threads, DoPageFault(t)
      PROVE  Reported'
  BY <1>1, <1>3 DEF DoPageFault, Reported
<1>4. ASSUME NEW t \in Threads, NEW b, b # "entry", at' = [at EXCEPT ![t] = b],
             \A u \in Threads \ {t} : fault'[u] = fault[u]
      PROVE  Reported'
  BY <1>1, <1>4 DEF Reported
<1>5. ASSUME NEW t \in Threads,
             \/ Handle(t) \/ DownRead(t) \/ Unpark(t)
             \/ Map(t) \/ Unmap(t) \/ Signalled(t)
      PROVE  Reported'
  <2> DEFINE Goes == \E b : b # "entry" /\ at' = [at EXCEPT ![t] = b]
  <2>1. Goes
    <3>1. ASSUME NEW verdict, verdict # "entry", End(t, verdict)
          PROVE  Goes
      BY <3>1 DEF End, EndAs, Back
    <3>2. \A f : /\ NoContext(f) # "entry"
                 /\ BadAreaNosemaphore(f) # "entry"
                 /\ \A e, k : MmFaultError(f, e, k) # "entry"
      BY DEF NoContext, BadAreaNosemaphore, MmFaultError, DoSigbus
    <3>3. ASSUME NEW b, b # "entry", Move(t, b)
          PROVE  Goes
      BY <3>3 DEF Move
    <3>4. CASE KernelSpace(t) \/ DownReadTrylock(t) \/ FindVma(t)
      BY <3>1, <3>2, <3>3, <3>4
      DEF KernelSpace, DownReadTrylock, FindVma, BadArea
    <3>5. CASE UserSpace(t)
      BY <3>1, <3>2, <3>5 DEF UserSpace, Rsvd
    <3>6. CASE Retry(t) \/ UpRead(t)
      BY <3>1, <3>2, <3>6 DEF Retry, UpRead
    <3>7. Back(t) # "entry"
      BY DEF Back
    <3> QED
      BY <1>5, <3>3, <3>4, <3>5, <3>6, <3>7
      DEF Handle, HandleMmFault, DownRead, DownReadTo, Unpark, Map, Unmap,
          Signalled
  <2>2. \A u \in Threads \ {t} : fault'[u] = fault[u]
    BY <1>1, <1>5
    DEF Handle, KernelSpace, UserSpace, Rsvd, DownReadTrylock, FindVma, BadArea,
        HandleMmFault, Retry, UpRead, DownRead, Unpark, Map, Unmap, Signalled,
        Move, End, EndAs
  <2> QED
    BY <1>4, <2>1, <2>2
<1> QED
  BY <1>2, <1>3, <1>5 DEF HandlerNext, Demo, allvars

\* Where all such faults are foreign, a step of the handler is none of the
\* demo's.
LEMMA StepOfDemo ==
    ASSUME Foreign, HandlerTypeOK, DemoAddress, Reported,
           [HandlerNext]_allvars
    PROVE  [Next]_vars
<1>1. CASE Demo
  BY <1>1 DEF Demo, Next
<1>2. ASSUME NEW t \in Threads, UserSpace(t)
      PROVE  UNCHANGED vars
  <2>1. CASE "R" \in fault[t].bits /\ Rsvd(t)
    <3>1. gptr # fault[t].page
      BY <1>2, <2>1, FaultsAssumption, NullAssumption
      DEF UserSpace, Foreign, DemoAddress, Reported, FaultRecords
    <3> QED
      BY <2>1, <3>1 DEF Rsvd, vars, HandlerTypeOK, TypeOK
  <2> QED
    BY <1>2, <2>1 DEF UserSpace
<1> QED
  BY <1>1, <1>2
  DEF HandlerNext, Handle, KernelSpace, DownReadTrylock, FindVma, HandleMmFault,
      Retry, UpRead, DoPageFault, DownRead, Unpark, Map, Unmap, Signalled,
      allvars

LEMMA DemoAddressNext == DemoAddress /\ [Next]_vars => DemoAddress'
BY DEF DemoAddress, vars, Next, Process, DemoOpen, DemoWrite, DemoRead,
       DemoRelease, Access, Fault, CallHook, Munmap, Die

\* The whole system behaves, as far as the demo can see, as the demo does by
\* itself: no fault of another thread touches its page, its entry or its hook.
THEOREM HandlerLeavesDemo == ASSUME Foreign PROVE HandlerSpec => Spec
<1> DEFINE J == HandlerInv /\ DemoAddress /\ Reported
<1>1. HandlerInit => J /\ Init
  BY InvInit, ForeignInit DEF HandlerInit
<1>2. J /\ [HandlerNext]_allvars => [Next]_vars
  BY StepOfDemo DEF HandlerInv
<1>3. J /\ [HandlerNext]_allvars => J'
  BY <1>2, InvNext, ReportedNext, DemoAddressNext
<1> QED
  BY <1>1, <1>2, <1>3, PTL DEF HandlerSpec, Spec

\* With any faults going on beside it, a demo whose processes run one at a
\* time completes its faulting store, takes back its bit and its hook, and
\* stores to a freed table only in the release of a killed process.
THEOREM DemoAmongFaults ==
    ASSUME Foreign, Alone
    PROVE  HandlerSpec => /\ [](AccessSurvives /\ BitUndone /\ HookWhileOpen)
                          /\ StrayOnlyAtExit
BY HandlerLeavesDemo, PageSurvives, ReleaseUndoes, HookFollowsDevice,
   StoresStayInside, PTL

=============================================================================
