--------------------------- MODULE CryptoDevProofs ---------------------------
(***************************************************************************)
(* Theorems about CryptoDev, for every number of threads and handles, with *)
(* shared handles and mapped pointers, whatever the messages and faults.   *)
(* Types and exclusion hold with all signals and processors; that a        *)
(* sleeper is woken needs a single processor, and that the card works for  *)
(* a call that waits for it needs signals to come only where calls poll.   *)
(***************************************************************************)
EXTENDS CryptoDev, TLAPS

Assumptions ==
    /\ Crypt \in [BOOLEAN \X Keys \X Data -> Data]
    /\ None \notin Data /\ None \notin Slots /\ None \notin Bufs
    /\ HandleOf \in [Threads -> Handles]
    /\ Msg \in [Threads -> Data] /\ Junk \in Data /\ ZeroKey \in Keys
    /\ Mappers \subseteq Threads /\ Calls \in [Threads -> SUBSET CallTypes]

LEMMA AssumptionsHold == Assumptions
BY CryptAssumption, NoneAssumption, HandleAssumption, DataAssumption,
   BufAssumption, CallAssumption DEF Assumptions

-----------------------------------------------------------------------------
LEMMA TypingInit == Init => TypeOK
<1> SUFFICES ASSUME Init PROVE TypeOK
  OBVIOUS
<1> USE AssumptionsHold DEF Assumptions
<1>1. CardTypeOK
  BY DEF Init, CardInit, CardTypeOK, NoOp, Ops, Vias
<1>2. job \in [Handles -> Jobs]
  BY DEF Init, NewJob, Jobs
<1>3. QED
  BY <1>1, <1>2 DEF Init, TypeOK, Outside, Vias, DmaHandles, Unmapped, Codes

LEMMA TypingCard == ASSUME TypeOK, Card PROVE TypeOK'
<1> USE AssumptionsHold DEF Assumptions
<1>1. ASSUME Fetch, UNCHANGED devVars PROVE TypeOK'
  <2>1. \A d \in Input : d \in Data
    BY DEF Input, Mapped, TypeOK, CardTypeOK, Ops, Vias
  <2>2. PICK d \in Input : work' = Crypt[op.enc, keyReg, d]
    BY <1>1 DEF Fetch
  <2>3. op.enc \in BOOLEAN /\ keyReg \in Keys /\ d \in Data
    BY <2>1 DEF TypeOK, CardTypeOK, Ops
  <2>4. work' \in Data
    BY <2>2, <2>3
  <2>5. QED
    BY <1>1, <2>4 DEF Fetch, devVars, TypeOK, CardTypeOK
<1>2. ASSUME Finish, UNCHANGED devVars PROVE TypeOK'
  BY <1>2 DEF Finish, devVars, TypeOK, CardTypeOK, NoOp, Ops, Vias, Mapped
<1>3. QED
  BY <1>1, <1>2 DEF Card, Engine

-----------------------------------------------------------------------------
\* A thread that has made a DMA mapping finds it mapped until it undoes it:
\* nobody else is between down and up to undo it.
DmaPlaces == {"start", "wait", "asleep", "spin", "drain"}

DmaHeld ==
    \A t \in Threads :
        pc[t] \in DmaPlaces /\ via[t] = "DMA" =>
            dma[t].at \in Slots /\ bus[dma[t].at] # None

\* Types are inductive only with these two: up needs a count of 0, and
\* unmapping needs a mapped slot.
TypeInv == TypeOK /\ SemaphoreExcludes /\ DmaHeld

LEMMA JobType ==
    ASSUME TypeOK, NEW t \in Threads
    PROVE  J(t) \in Jobs /\ HandleOf[t] \in Handles
BY HandleAssumption DEF TypeOK, J

LEMMA SetJobType ==
    ASSUME TypeOK, NEW t \in Threads, NEW j \in Jobs, SetJob(t, j)
    PROVE  job' \in [Handles -> Jobs]
BY HandleAssumption DEF TypeOK, SetJob

LEMMA StoreType ==
    ASSUME TypeOK, NEW b \in Bufs \cup {None}, NEW d \in Data
    PROVE  Store(b, d) \in [Bufs -> Data \cup {None}]
BY DEF TypeOK, Store

LEMMA LoadType ==
    ASSUME NEW h \in [Bufs -> Data \cup {None}], NEW b \in Bufs \cup {None},
           NEW d \in LoadFrom(h, b)
    PROVE  d \in Data
BY DEF LoadFrom

LEMMA TypingSetMmap ==
    ASSUME TypeInv, NEW t \in Threads, SetMmap(t) PROVE TypeOK'
<1>1. pc' \in [Threads -> Inside \cup Outside] /\ ret' \in [Threads -> Codes]
  BY DEF TypeInv, TypeOK, SetMmap, Go, Fail, Inside,
         Outside, Codes
<1>2. job' \in [Handles -> Jobs]
  <2>1. [J(t) EXCEPT !.isNotMM = t \notin Mappers] \in Jobs
    BY JobType DEF TypeInv, Jobs
  <2>2. QED
    BY <2>1, SetJobType DEF TypeInv, SetMmap
<1>3. QED
  BY <1>1, <1>2 DEF TypeInv, TypeOK, CardTypeOK, cardVars, SetMmap

LEMMA TypingEnter ==
    ASSUME TypeInv, NEW t \in Threads, Enter(t) PROVE TypeOK'
<1>1. pc' \in [Threads -> Inside \cup Outside] /\ ret' \in [Threads -> Codes]
  BY DEF TypeInv, TypeOK, Enter, Go, Fail, Inside,
         Outside, Codes
<1>2. QED
  BY <1>1 DEF TypeInv, TypeOK, CardTypeOK, cardVars, Enter

LEMMA TypingAlloc ==
    ASSUME TypeInv, NEW t \in Threads, Alloc(t) PROVE TypeOK'
<1>1. pc' \in [Threads -> Inside \cup Outside] /\ ret' \in [Threads -> Codes]
  BY DEF TypeInv, TypeOK, Alloc, Go, Fail, Inside,
         Outside, Codes
<1>2. job' \in [Handles -> Jobs]
  <2>1. \A b \in Bufs \cup {None} : [J(t) EXCEPT !.msg = b] \in Jobs
    BY JobType DEF TypeInv, Jobs
  <2>2. QED
    BY <2>1, SetJobType DEF TypeInv, Alloc, FreeBufs
<1>3. heap' \in [Bufs -> Data \cup {None}]
  BY DataAssumption DEF TypeInv, TypeOK, Alloc, FreeBufs
<1>4. QED
  BY <1>1, <1>2, <1>3 DEF TypeInv, TypeOK, CardTypeOK, cardVars, Alloc

LEMMA TypingCopyIn ==
    ASSUME TypeInv, NEW t \in Threads, CopyIn(t) PROVE TypeOK'
<1>1. pc' \in [Threads -> Inside \cup Outside] /\ ret' \in [Threads -> Codes]
  BY DEF TypeInv, TypeOK, CopyIn, CopyInFails, Go, Fail, Inside,
         Outside, Codes
<1>2. heap' \in [Bufs -> Data \cup {None}]
  <2>1. J(t).msg \in Bufs \cup {None} /\ ubuf[t] \in Data
    BY JobType DEF TypeInv, TypeOK, Jobs
  <2>2. Store(J(t).msg, ubuf[t]) \in [Bufs -> Data \cup {None}]
    BY <2>1, StoreType DEF TypeInv
  <2>3. QED
    BY <2>2 DEF TypeInv, TypeOK, CopyIn, CopyInFails
<1>3. QED
  BY <1>1, <1>2 DEF TypeInv, TypeOK, CardTypeOK, cardVars, CopyIn

LEMMA TypingDown ==
    ASSUME TypeInv, NEW t \in Threads, Down(t) PROVE TypeOK'
<1>1. pc' \in [Threads -> Inside \cup Outside] /\ ret' \in [Threads -> Codes]
  BY DEF TypeInv, TypeOK, Down, DownTakes, DownInterrupted, Go, Fail, Inside,
         Outside, Codes
<1>2. wsem' \in {0, 1}
  BY DEF TypeInv, TypeOK, Down, DownTakes, DownInterrupted
<1>3. QED
  BY <1>1, <1>2 DEF TypeInv, TypeOK, CardTypeOK, cardVars, Down

LEMMA TypingWriteKey ==
    ASSUME TypeInv, NEW t \in Threads, WriteKey(t) PROVE TypeOK'
<1>1. pc' \in [Threads -> Inside \cup Outside] /\ ret' \in [Threads -> Codes]
  BY DEF TypeInv, TypeOK, WriteKey, Go, Fail, Inside,
         Outside, Codes
<1>2. keyReg' \in Keys /\ via' \in [Threads -> Vias]
  BY JobType DEF TypeInv, TypeOK, WriteKey, Jobs, Vias
<1>3. QED
  BY <1>1, <1>2 DEF TypeInv, TypeOK, CardTypeOK, cardVars, WriteKey

LEMMA TypingLoadRegion ==
    ASSUME TypeInv, NEW t \in Threads, LoadRegion(t) PROVE TypeOK'
<1>1. pc' \in [Threads -> Inside \cup Outside] /\ ret' \in [Threads -> Codes]
  BY DEF TypeInv, TypeOK, LoadRegion, Go, Fail, Inside,
         Outside, Codes
<1>2. region' \in Data
  <2>1. \A d \in Load(J(t).msg) : d \in Data
    BY JobType, LoadType DEF TypeInv, TypeOK, Jobs, Load
  <2>2. QED
    BY <2>1 DEF TypeInv, TypeOK, CardTypeOK, LoadRegion
<1>3. QED
  BY <1>1, <1>2 DEF TypeInv, TypeOK, CardTypeOK, cardVars, LoadRegion

LEMMA TypingMapDma ==
    ASSUME TypeInv, NEW t \in Threads, MapDma(t) PROVE TypeOK'
<1>1. pc' \in [Threads -> Inside \cup Outside] /\ ret' \in [Threads -> Codes]
  BY DEF TypeInv, TypeOK, MapDma, MapFails, Go, Fail, Inside,
         Outside, Codes
<1>2. bus' \in [Slots -> Data \cup {None}]
  <2>1. \A d \in Load(J(t).msg) : d \in Data
    BY JobType, LoadType DEF TypeInv, TypeOK, Jobs, Load
  <2>2. QED
    BY <2>1 DEF TypeInv, TypeOK, CardTypeOK, MapDma, FreeSlots
<1>3. dma' \in [Threads -> DmaHandles]
  <2>1. \A s \in Slots : [at |-> s, buf |-> J(t).msg] \in DmaHandles
    BY JobType DEF TypeInv, Jobs, DmaHandles
  <2>2. QED
    BY <2>1 DEF TypeInv, TypeOK, MapDma, FreeSlots
<1>4. addrReg' \in Slots \cup {None}
  BY DEF TypeInv, TypeOK, CardTypeOK, MapDma, FreeSlots, WriteDmaAddr
<1>5. QED
  BY <1>1, <1>2, <1>3, <1>4 DEF TypeInv, TypeOK, CardTypeOK, cardVars, MapDma

LEMMA TypingStart ==
    ASSUME TypeInv, NEW t \in Threads, Start(t) PROVE TypeOK'
<1>1. pc' \in [Threads -> Inside \cup Outside] /\ ret' \in [Threads -> Codes]
  BY DEF TypeInv, TypeOK, Start, Go, Fail, Inside,
         Outside, Codes
<1>2. phase' \in {"idle", "armed", "fetched"} /\ op' \in Ops
       /\ work' \in IF phase' = "fetched" THEN Data ELSE {None}
  BY JobType DEF TypeInv, TypeOK, CardTypeOK, Start, Command, Trigger, Jobs,
                 Ops, Busy
<1>3. QED
  BY <1>1, <1>2 DEF TypeInv, TypeOK, CardTypeOK, cardVars, Start

LEMMA TypingWait ==
    ASSUME TypeInv, NEW t \in Threads, Wait(t) PROVE TypeOK'
<1>1. pc' \in [Threads -> Inside \cup Outside] /\ ret' \in [Threads -> Codes]
  BY DEF TypeInv, TypeOK, Wait, Interrupted, Go, Fail, Inside,
         Outside, Codes
<1>2. QED
  BY <1>1 DEF TypeInv, TypeOK, CardTypeOK, cardVars, Wait

LEMMA TypingSignalWakes ==
    ASSUME TypeInv, NEW t \in Threads, SignalWakes(t) PROVE TypeOK'
<1>1. pc' \in [Threads -> Inside \cup Outside] /\ ret' \in [Threads -> Codes]
  BY DEF TypeInv, TypeOK, SignalWakes, Go, Fail, Inside,
         Outside, Codes
<1>2. QED
  BY <1>1 DEF TypeInv, TypeOK, CardTypeOK, cardVars, SignalWakes

LEMMA TypingSpin ==
    ASSUME TypeInv, NEW t \in Threads, Spin(t) PROVE TypeOK'
<1>1. pc' \in [Threads -> Inside \cup Outside] /\ ret' \in [Threads -> Codes]
  BY DEF TypeInv, TypeOK, Spin, Go, Fail, Inside,
         Outside, Codes
<1>2. QED
  BY <1>1 DEF TypeInv, TypeOK, CardTypeOK, cardVars, Spin

LEMMA TypingDrainRegion ==
    ASSUME TypeInv, NEW t \in Threads, DrainRegion(t) PROVE TypeOK'
<1>1. pc' \in [Threads -> Inside \cup Outside] /\ ret' \in [Threads -> Codes]
  BY DEF TypeInv, TypeOK, DrainRegion, CopyOut, Go, Fail, Inside,
         Outside, Codes
<1>2. heap' \in [Bufs -> Data \cup {None}]
  <2>1. J(t).msg \in Bufs \cup {None} /\ region \in Data
    BY JobType DEF TypeInv, TypeOK, CardTypeOK, Jobs
  <2>2. Store(J(t).msg, region) \in [Bufs -> Data \cup {None}]
    BY <2>1, StoreType DEF TypeInv
  <2>3. QED
    BY <2>2 DEF TypeInv, TypeOK, DrainRegion
<1>3. ubuf' \in [Threads -> Data]
  <2>1. \A d \in LoadFrom(heap', J(t).msg) : d \in Data
    BY <1>2, JobType, LoadType DEF TypeInv, Jobs
  <2>2. QED
    BY <2>1, DataAssumption DEF TypeInv, TypeOK, DrainRegion, CopyOut
<1>4. QED
  BY <1>1, <1>2, <1>3 DEF TypeInv, TypeOK, CardTypeOK, cardVars, DrainRegion

LEMMA TypingDrainDma ==
    ASSUME TypeInv, NEW t \in Threads, DrainDma(t) PROVE TypeOK'
<1>1. pc' \in [Threads -> Inside \cup Outside] /\ ret' \in [Threads -> Codes]
  BY DEF TypeInv, TypeOK, DrainDma, CopyOut, Go, Fail, Inside,
         Outside, Codes
<1>2. dma[t].at \in Slots /\ bus[dma[t].at] \in Data /\ dma[t].buf \in Bufs \cup {None}
  BY DEF TypeInv, DmaHeld, DmaPlaces, DrainDma, TypeOK, CardTypeOK, DmaHandles
<1>3. bus' \in [Slots -> Data \cup {None}] /\ dma' \in [Threads -> DmaHandles]
  BY <1>2 DEF TypeInv, TypeOK, CardTypeOK, DrainDma, Unmap, DmaHandles, Unmapped
<1>4. heap' \in [Bufs -> Data \cup {None}]
  BY <1>2, StoreType DEF TypeInv, DrainDma
<1>5. ubuf' \in [Threads -> Data]
  <2>1. \A d \in LoadFrom(heap', J(t).msg) : d \in Data
    BY <1>4, JobType, LoadType DEF TypeInv, Jobs
  <2>2. QED
    BY <2>1, DataAssumption DEF TypeInv, TypeOK, DrainDma, CopyOut
<1>6. QED
  BY <1>1, <1>2, <1>3, <1>4, <1>5
     DEF TypeInv, TypeOK, CardTypeOK, cardVars, DrainDma

LEMMA TypingUp ==
    ASSUME TypeInv, NEW t \in Threads, Up(t) PROVE TypeOK'
<1>1. pc' \in [Threads -> Inside \cup Outside] /\ ret' \in [Threads -> Codes]
  BY DEF TypeInv, TypeOK, Up, Go, Fail, Inside,
         Outside, Codes
<1>2. wsem' \in {0, 1}
  <2>1. t \in Holders
    BY DEF Up, Go, Holders, Inside
  <2>2. wsem = 0
    BY <2>1 DEF TypeInv, SemaphoreExcludes
  <2>3. QED
    BY <2>2 DEF Up
<1>3. dma' \in [Threads -> DmaHandles]
  BY DEF TypeInv, TypeOK, Up, DmaHandles, Unmapped
<1>4. QED
  BY <1>1, <1>2, <1>3 DEF TypeInv, TypeOK, CardTypeOK, cardVars, Up

LEMMA TypingFreeMsg ==
    ASSUME TypeInv, NEW t \in Threads, FreeMsg(t) PROVE TypeOK'
<1>1. pc' \in [Threads -> Inside \cup Outside] /\ ret' \in [Threads -> Codes]
  BY DEF TypeInv, TypeOK, FreeMsg, Go, Fail, Inside,
         Outside, Codes
<1>2. job' \in [Handles -> Jobs]
  <2>1. [J(t) EXCEPT !.msg = None] \in Jobs
    BY JobType DEF TypeInv, Jobs
  <2>2. QED
    BY <2>1, SetJobType DEF TypeInv, FreeMsg
<1>3. heap' \in [Bufs -> Data \cup {None}]
  BY JobType DEF TypeInv, TypeOK, FreeMsg
<1>4. QED
  BY <1>1, <1>2, <1>3 DEF TypeInv, TypeOK, CardTypeOK, cardVars, FreeMsg

LEMMA TypingReturn ==
    ASSUME TypeInv, NEW t \in Threads, Return(t) PROVE TypeOK'
<1>1. pc' \in [Threads -> Inside \cup Outside] /\ ret' \in [Threads -> Codes]
  BY DEF TypeInv, TypeOK, Return, Go, Fail, Inside,
         Outside, Codes
<1>2. ubuf' \in [Threads -> Data]
  BY DataAssumption DEF TypeInv, TypeOK, Return
<1>3. QED
  BY <1>1, <1>2 DEF TypeInv, TypeOK, CardTypeOK, cardVars, Return

LEMMA TypingUser ==
    ASSUME TypeInv, NEW t \in Threads, User(t) PROVE TypeOK'
<1>1. PICK c \in Calls[t] :
         SetKey(t, c) \/ SetDMA(t, c) \/ SetIntr(t, c) \/ Encrypt(t, c)
  BY DEF User
<1>2. c \in CallTypes
  BY CallAssumption
<1>3. ASSUME NEW j \in Jobs, Configure(t, j) PROVE TypeOK'
  <2>1. job' \in [Handles -> Jobs]
    BY <1>3, SetJobType DEF TypeInv, Configure
  <2>2. QED
    BY <1>3, <2>1 DEF TypeInv, TypeOK, CardTypeOK, cardVars, Configure
<1>4. /\ [J(t) EXCEPT !.keyab = c.key] \in Jobs
      /\ [J(t) EXCEPT !.isM = c.isM] \in Jobs
      /\ [J(t) EXCEPT !.isI = c.isI] \in Jobs
      /\ [J(t) EXCEPT !.isE = c.enc] \in Jobs
  BY <1>2, JobType DEF TypeInv, Jobs, CallTypes
<1>5. CASE Encrypt(t, c)
  <2>1. job' \in [Handles -> Jobs]
    BY <1>4, <1>5, SetJobType DEF TypeInv, Encrypt
  <2>2. pc' \in [Threads -> Inside \cup Outside]
    BY <1>5 DEF TypeInv, TypeOK, Encrypt, Go, Outside
  <2>3. region' \in Data
    BY <1>5, DataAssumption DEF TypeInv, TypeOK, CardTypeOK, Encrypt
  <2>4. ask' \in [Threads -> [enc : BOOLEAN, key : Keys]]
    BY <1>2, <1>5 DEF TypeInv, TypeOK, Encrypt, CallTypes
  <2>5. QED
    BY <1>5, <2>1, <2>2, <2>3, <2>4
       DEF TypeInv, TypeOK, CardTypeOK, Encrypt
<1>6. QED
  BY <1>1, <1>3, <1>4, <1>5 DEF SetKey, SetDMA, SetIntr

LEMMA TypingReopen ==
    ASSUME TypeInv, NEW h \in Handles, Reopen(h) PROVE TypeOK'
<1>1. NewJob \in Jobs
  BY DataAssumption DEF NewJob, Jobs
<1>2. job' \in [Handles -> Jobs]
  BY <1>1 DEF TypeInv, TypeOK, Reopen
<1>3. QED
  BY <1>2 DEF TypeInv, TypeOK, CardTypeOK, cardVars, Reopen

LEMMA TypingIrq == ASSUME TypeInv, Irq PROVE TypeOK'
<1>1. pc' \in [Threads -> Inside \cup Outside]
  BY DEF TypeInv, TypeOK, Irq, IrqRead, IrqWake, IrqAck, Inside, Outside
<1>2. isr' \in SUBSET Vias /\ irqst' \in SUBSET Vias
  BY DEF TypeInv, TypeOK, CardTypeOK, cardVars, Irq, IrqRead, IrqWake, IrqAck,
         Acknowledge
<1>3. QED
  BY <1>1, <1>2
     DEF TypeInv, TypeOK, CardTypeOK, cardVars, Irq, IrqRead, IrqWake, IrqAck

LEMMA TypingNext == ASSUME TypeInv, [Next]_vars PROVE TypeOK'
<1>1. ASSUME NEW h \in Handles, Reopen(h) PROVE TypeOK'
  BY <1>1, TypingReopen
<1>2. ASSUME NEW t \in Threads, User(t) \/ Down(t) \/ SignalWakes(t)
      PROVE  TypeOK'
  BY <1>2, TypingUser, TypingDown, TypingSignalWakes
<1>3. ASSUME NEW t \in Threads, Kernel(t) PROVE TypeOK'
  BY <1>3, TypingSetMmap, TypingEnter, TypingAlloc, TypingCopyIn,
     TypingWriteKey, TypingLoadRegion, TypingMapDma, TypingStart, TypingWait,
     TypingSpin, TypingDrainRegion, TypingDrainDma, TypingUp, TypingFreeMsg,
     TypingReturn DEF Kernel
<1>4. CASE Irq
  BY <1>4, TypingIrq
<1>5. CASE Card
  BY <1>5, TypingCard DEF TypeInv
<1>6. CASE UNCHANGED vars
  BY <1>6 DEF TypeInv, TypeOK, CardTypeOK, vars, cardVars, devVars
<1>7. QED
  BY <1>1, <1>2, <1>3, <1>4, <1>5, <1>6 DEF Next

-----------------------------------------------------------------------------
(* The semaphore.                                                          *)

SameSide == Holders' = Holders /\ wsem' = wsem

\* Every step of a call other than down and up stays on its side of the
\* semaphore: out_up and out_free are taken from the right places.
LEMMA StepStaysAside ==
    ASSUME TypeOK, NEW t \in Threads, Kernel(t) \/ SignalWakes(t), ~ Up(t)
    PROVE  SameSide
<1> USE DEF TypeOK, SameSide, Holders, Go, Fail, Inside
<1>1. CASE SetMmap(t)
  BY <1>1 DEF SetMmap
<1>2. CASE Enter(t)
  BY <1>2 DEF Enter
<1>3. CASE Alloc(t)
  BY <1>3 DEF Alloc
<1>4. CASE CopyIn(t)
  BY <1>4 DEF CopyIn, CopyInFails
<1>5. CASE WriteKey(t)
  BY <1>5 DEF WriteKey
<1>6. CASE LoadRegion(t)
  BY <1>6 DEF LoadRegion
<1>7. CASE MapDma(t)
  BY <1>7 DEF MapDma, MapFails
<1>8. CASE Start(t)
  BY <1>8 DEF Start
<1>9. CASE Wait(t)
  BY <1>9 DEF Wait, Interrupted
<1>10. CASE Spin(t)
  BY <1>10 DEF Spin
<1>11. CASE DrainRegion(t)
  BY <1>11 DEF DrainRegion, CopyOut
<1>12. CASE DrainDma(t)
  BY <1>12 DEF DrainDma, CopyOut
<1>13. CASE FreeMsg(t)
  BY <1>13 DEF FreeMsg
<1>14. CASE Return(t)
  BY <1>14 DEF Return
<1>15. CASE SignalWakes(t)
  BY <1>15 DEF SignalWakes
<1>16. QED
  BY <1>1, <1>2, <1>3, <1>4, <1>5, <1>6, <1>7, <1>8, <1>9, <1>10, <1>11,
     <1>12, <1>13, <1>14, <1>15 DEF Kernel

LEMMA OthersStayAside ==
    ASSUME TypeOK,
           \/ \E h \in Handles : Reopen(h)
           \/ \E t \in Threads : User(t)
           \/ Irq
           \/ Card
           \/ UNCHANGED vars
    PROVE  SameSide
<1>1. CASE \E h \in Handles : Reopen(h)
  BY <1>1 DEF Reopen, SameSide, Holders
<1>2. CASE \E t \in Threads : User(t)
  <2> PICK t \in Threads : User(t)
    BY <1>2
  <2>1. PICK c \in Calls[t] :
           SetKey(t, c) \/ SetDMA(t, c) \/ SetIntr(t, c) \/ Encrypt(t, c)
    BY DEF User
  <2>2. CASE SetKey(t, c) \/ SetDMA(t, c) \/ SetIntr(t, c)
    BY <2>2 DEF SetKey, SetDMA, SetIntr, Configure, SameSide, Holders
  <2>3. CASE Encrypt(t, c)
    <3>1. wsem' = wsem /\ pc[t] = "user"
          /\ pc' = [pc EXCEPT ![t] = "set_mmap"]
      BY <2>3 DEF Encrypt, Go
    <3>2. \A u \in Threads : pc'[u] \in Inside <=> pc[u] \in Inside
      BY <3>1 DEF Inside, TypeOK
    <3> QED
      BY <3>1, <3>2 DEF SameSide, Holders
  <2> QED
    BY <2>1, <2>2, <2>3
<1>3. CASE Irq
  BY <1>3 DEF Irq, IrqRead, IrqWake, IrqAck, SameSide, Holders, Inside, TypeOK
<1>4. CASE Card
  BY <1>4 DEF Card, devVars, SameSide, Holders
<1>5. CASE UNCHANGED vars
  BY <1>5 DEF vars, devVars, SameSide, Holders
<1>6. QED
  BY <1>1, <1>2, <1>3, <1>4, <1>5

LEMMA SemaphoreStep ==
    ASSUME TypeInv, [Next]_vars PROVE SemaphoreExcludes'
<1>1. CASE SameSide
  BY <1>1 DEF SameSide, TypeInv, SemaphoreExcludes
<1>2. ASSUME NEW t \in Threads, Down(t) PROVE SemaphoreExcludes'
  <2>1. CASE DownTakes(t)
    <3>1. Holders = {} /\ wsem' = 0
      BY <2>1 DEF DownTakes, TypeInv, TypeOK, SemaphoreExcludes
    <3>2. Holders' = {t}
      BY <2>1, <3>1 DEF DownTakes, Go, TypeInv, TypeOK, Holders, Inside
    <3>3. QED
      BY <3>1, <3>2 DEF SemaphoreExcludes
  <2>2. CASE DownInterrupted(t) /\ UNCHANGED wsem
    BY <1>1, <2>2 DEF DownInterrupted, Fail, Go, SameSide, TypeInv, TypeOK,
                      Holders, Inside
  <2>3. QED
    BY <1>2, <2>1, <2>2 DEF Down
<1>3. ASSUME NEW t \in Threads, Up(t) PROVE SemaphoreExcludes'
  <2>1. t \in Holders
    BY <1>3 DEF Up, Go, Holders, Inside
  <2>2. Holders = {t} /\ wsem' = 1
    BY <1>3, <2>1 DEF Up, TypeInv, SemaphoreExcludes
  <2>3. Holders' = {}
    BY <1>3, <2>2 DEF Up, Go, TypeInv, TypeOK, Holders, Inside
  <2>4. QED
    BY <2>2, <2>3 DEF SemaphoreExcludes
<1>4. QED
  BY <1>1, <1>2, <1>3, StepStaysAside, OthersStayAside DEF Next, TypeInv

\* Two threads between down and up are one.
LEMMA HolderUnique ==
    ASSUME TypeInv, NEW t \in Threads, NEW u \in Threads,
           pc[t] \in Inside, pc[u] \in Inside
    PROVE  t = u
BY DEF TypeInv, SemaphoreExcludes, Holders

-----------------------------------------------------------------------------
(* Mappings stay while they are used.                                      *)

\* Steps that make no mapping and undo none.
LEMMA MappingUntouched ==
    ASSUME TypeInv, NEW t \in Threads, UNCHANGED <<bus, dma>>,
           \E b \in Inside \cup Outside :
              /\ pc' = [pc EXCEPT ![t] = b]
              /\ b \in DmaPlaces /\ via[t] = "DMA" => pc[t] \in DmaPlaces,
           via' = via
    PROVE  DmaHeld'
BY DEF TypeInv, TypeOK, DmaHeld

LEMMA MappingKernel ==
    ASSUME TypeInv, NEW t \in Threads,
           Down(t) \/ Kernel(t) \/ SignalWakes(t)
    PROVE  DmaHeld'
<1>1. CASE SetMmap(t)
  <2>1. pc' = [pc EXCEPT ![t] = "write"] /\ UNCHANGED <<bus, dma, via>>
    BY <1>1 DEF SetMmap, Go, cardVars
  <2>2. "write" \in Outside /\ "write" \notin DmaPlaces
    BY DEF Outside, DmaPlaces
  <2>3. QED
    BY <2>1, <2>2, MappingUntouched
<1>2. CASE Enter(t)
  BY <1>2, MappingUntouched DEF Enter, Go, Fail, cardVars, Inside,
     Outside, DmaPlaces
<1>3. CASE Alloc(t)
  BY <1>3, MappingUntouched DEF Alloc, Go, Fail, cardVars, Inside,
     Outside, DmaPlaces
<1>4. CASE CopyIn(t)
  BY <1>4, MappingUntouched DEF CopyIn, CopyInFails, Go, Fail, cardVars, Inside,
     Outside, DmaPlaces
<1>5. CASE LoadRegion(t)
  BY <1>5, MappingUntouched DEF LoadRegion, Go, Fail, cardVars, Inside,
     Outside, DmaPlaces
<1>6. CASE Start(t)
  BY <1>6, MappingUntouched DEF Start, Go, Fail, cardVars, Inside,
     Outside, DmaPlaces
<1>7. CASE Wait(t)
  BY <1>7, MappingUntouched DEF Wait, Interrupted, Go, Fail, cardVars, Inside,
     Outside, DmaPlaces
<1>8. CASE Spin(t)
  BY <1>8, MappingUntouched DEF Spin, Go, Fail, cardVars, Inside,
     Outside, DmaPlaces
<1>9. CASE DrainRegion(t)
  BY <1>9, MappingUntouched DEF DrainRegion, CopyOut, Go, Fail, cardVars, Inside,
     Outside, DmaPlaces
<1>10. CASE FreeMsg(t)
  <2>1. pc' = [pc EXCEPT ![t] = "return"] /\ UNCHANGED <<bus, dma, via>>
    BY <1>10 DEF FreeMsg, Go, cardVars
  <2>2. "return" \in Outside /\ "return" \notin DmaPlaces
    BY DEF Outside, DmaPlaces
  <2>3. QED
    BY <2>1, <2>2, MappingUntouched
<1>11. CASE Return(t)
  BY <1>11, MappingUntouched DEF Return, Go, Fail, cardVars, Inside,
     Outside, DmaPlaces
<1>12. CASE SignalWakes(t)
  BY <1>12, MappingUntouched DEF SignalWakes, Go, Fail, cardVars, Inside,
     Outside, DmaPlaces
<1>13. CASE Down(t)
  BY <1>13, MappingUntouched DEF Down, DownTakes, DownInterrupted, Go, Fail, cardVars, Inside,
     Outside, DmaPlaces
<1>14. CASE WriteKey(t)
  BY <1>14 DEF WriteKey, Go, TypeInv, TypeOK, DmaHeld, DmaPlaces
<1>15. CASE MapDma(t)
  <2>1. CASE MapFails(t) /\ UNCHANGED <<bus, dma, addrReg>>
    BY <1>15, <2>1, MappingUntouched
       DEF MapDma, MapFails, Go, Fail, Inside, Outside, DmaPlaces
  <2>2. ASSUME NEW s \in FreeSlots,
               /\ Go(t, "load", "start")
               /\ \E d \in Load(J(t).msg) : bus' = [bus EXCEPT ![s] = d]
               /\ dma' = [dma EXCEPT ![t] = [at |-> s, buf |-> J(t).msg]]
        PROVE  DmaHeld'
    <3>1. bus'[s] # None /\ s \in Slots
      <4>1. \A d \in Load(J(t).msg) : d \in Data
        BY JobType, LoadType DEF TypeInv, TypeOK, Jobs, Load
      <4>2. QED
        BY <2>2, <4>1, NoneAssumption
           DEF FreeSlots, TypeInv, TypeOK, CardTypeOK
    <3>2. \A u \in Threads : u # t => pc[u] \notin Inside
      BY <2>2, HolderUnique DEF Go, Inside
    <3>3. QED
      BY <2>2, <3>1, <3>2
         DEF Go, Inside, DmaPlaces, TypeInv, TypeOK, DmaHeld, DmaHandles
  <2>3. QED
    BY <1>15, <2>1, <2>2 DEF MapDma
<1>16. CASE DrainDma(t)
  <2>1. \A u \in Threads : u # t => pc[u] \notin Inside
    BY <1>16, HolderUnique DEF DrainDma, Inside
  <2>2. pc'[t] \notin DmaPlaces /\ \A u \in Threads : u # t => pc'[u] = pc[u]
    BY <1>16 DEF DrainDma, CopyOut, Go, Fail, DmaPlaces, TypeInv, TypeOK
  <2>3. QED
    BY <2>1, <2>2 DEF DmaHeld, DmaPlaces, Inside
<1>17. CASE Up(t)
  BY <1>17 DEF Up, Go, cardVars, TypeInv, TypeOK, DmaHeld, DmaPlaces
<1>18. QED
  BY <1>1, <1>2, <1>3, <1>4, <1>5, <1>6, <1>7, <1>8, <1>9, <1>10, <1>11,
     <1>12, <1>13, <1>14, <1>15, <1>16, <1>17 DEF Kernel

LEMMA MappingStep == ASSUME TypeInv, [Next]_vars PROVE DmaHeld'
<1>1. CASE \E h \in Handles : Reopen(h)
  BY <1>1 DEF Reopen, cardVars, TypeInv, DmaHeld
<1>2. CASE \E t \in Threads : User(t)
  BY <1>2 DEF User, SetKey, SetDMA, SetIntr, Configure, Encrypt, Go, cardVars,
              TypeInv, TypeOK, DmaHeld, DmaPlaces
<1>3. CASE Irq
  BY <1>3 DEF Irq, IrqRead, IrqWake, IrqAck, cardVars, TypeInv, TypeOK,
              DmaHeld, DmaPlaces
<1>4. CASE Card
  BY <1>4, NoneAssumption DEF Card, Engine, Fetch, Finish, Mapped, devVars,
              TypeInv, TypeOK, CardTypeOK, DmaHeld
<1>5. CASE UNCHANGED vars
  BY <1>5 DEF vars, devVars, cardVars, TypeInv, DmaHeld
<1>6. QED
  BY <1>1, <1>2, <1>3, <1>4, <1>5, MappingKernel DEF Next

-----------------------------------------------------------------------------
LEMMA TypeInvInit == Init => TypeInv
<1> SUFFICES ASSUME Init PROVE TypeInv
  OBVIOUS
<1>1. TypeOK
  BY TypingInit
<1>2. Holders = {} /\ wsem = 1
  BY DEF Init, Holders, Inside
<1>3. DmaHeld
  BY DEF Init, DmaHeld, DmaPlaces
<1>4. QED
  BY <1>1, <1>2, <1>3 DEF TypeInv, SemaphoreExcludes

\* Every reachable state is well typed, at most one thread is between down
\* and up and the count says so, and the mapping of a DMA operation lasts
\* as long as the operation.
THEOREM TypeInvariant == Spec => []TypeInv
<1>1. TypeInv /\ [Next]_vars => TypeInv'
  BY TypingNext, SemaphoreStep, MappingStep DEF TypeInv
<1>2. QED
  BY <1>1, TypeInvInit, PTL DEF Spec

\* Type correctness of the driver and the card.
THEOREM TypeCorrect == Spec => []TypeOK
<1>1. TypeInv => TypeOK
  BY DEF TypeInv
<1>2. QED
  BY <1>1, TypeInvariant, PTL

\* The semaphore of pci_write excludes, on every path of every call, for
\* any number of threads, with shared handles, signals and faults.
THEOREM MutualExclusion == Spec => []SemaphoreExcludes
<1>1. TypeInv => SemaphoreExcludes
  BY DEF TypeInv
<1>2. QED
  BY <1>1, TypeInvariant, PTL

-----------------------------------------------------------------------------
(* Sleeping and waking on a single processor.                              *)

\* While the engine works no interrupt is raised, and a handler that runs
\* has come for another device's.
NoneRaised == Busy => isr = {} /\ (irqpc # "idle" => irqst = {})

\* The engine works without an interrupt only for a thread that polls.
PollerWatches ==
    Busy /\ ~ op.irq =>
        \E u \in Threads : pc[u] = "spin" /\ via[u] = op.via

WakeInv == TypeInv /\ NoneRaised /\ PollerWatches /\ SleeperServed

\* Steps that neither sleep nor leave a polling loop, away from the card.
LEMMA QuietStep ==
    ASSUME WakeInv, UNCHANGED <<phase, op, isr, irqpc, irqst, via>>,
           \A u \in Threads : /\ pc'[u] = "asleep" => pc[u] = "asleep"
                              /\ pc[u] = "spin" => pc'[u] = "spin"
    PROVE  NoneRaised' /\ PollerWatches' /\ SleeperServed'
BY DEF WakeInv, NoneRaised, PollerWatches, SleeperServed, WakeupDue, Busy,
       BusyBit

\* A thread that moves on, otherwise than into sleep or out of polling.
LEMMA QuietGo ==
    ASSUME WakeInv, UNCHANGED <<phase, op, isr, irqpc, irqst, via>>,
           NEW t \in Threads, NEW b \in (Inside \cup Outside) \ {"asleep"},
           pc' = [pc EXCEPT ![t] = b], pc[t] # "spin"
    PROVE  NoneRaised' /\ PollerWatches' /\ SleeperServed'
<1>1. pc \in [Threads -> Inside \cup Outside]
  BY DEF WakeInv, TypeInv, TypeOK
<1>2. \A u \in Threads : /\ pc'[u] = "asleep" => pc[u] = "asleep"
                         /\ pc[u] = "spin" => pc'[u] = "spin"
  BY <1>1
<1> QED
  BY <1>2, QuietStep

LEMMA WakeKernel ==
    ASSUME WakeInv, ~ SMP, NEW t \in Threads,
           Down(t) \/ Kernel(t) \/ SignalWakes(t)
    PROVE  NoneRaised' /\ PollerWatches' /\ SleeperServed'
<1>1. CASE SetMmap(t) \/ Enter(t) \/ Alloc(t) \/ CopyIn(t) \/ Down(t)
  BY <1>1, QuietGo
  DEF SetMmap, Enter, Alloc, CopyIn, CopyInFails, Down, DownTakes,
      DownInterrupted, Go, Fail, cardVars, Inside, Outside
<1>2. CASE LoadRegion(t) \/ MapDma(t)
  BY <1>2, QuietGo
  DEF LoadRegion, MapDma, MapFails, Go, Fail, cardVars, Inside, Outside
<1>3. CASE DrainRegion(t) \/ DrainDma(t)
  BY <1>3, QuietGo
  DEF DrainRegion, DrainDma, CopyOut, Go, Fail, cardVars, Inside, Outside
<1>4. CASE Up(t) \/ FreeMsg(t) \/ Return(t) \/ SignalWakes(t)
  BY <1>4, QuietGo
  DEF Up, FreeMsg, Return, SignalWakes, Go, Fail, cardVars, Inside, Outside
<1>5. pc \in [Threads -> Inside \cup Outside] /\ via \in [Threads -> Vias]
  BY DEF WakeInv, TypeInv, TypeOK
<1>6. CASE WriteKey(t)
  <2>1. \A u \in Threads : u # t => pc[u] \notin Inside
    BY <1>6, HolderUnique DEF WakeInv, WriteKey, Go, Inside
  <2>2. /\ pc[t] = "key" /\ pc' = [pc EXCEPT ![t] = "load"]
        /\ UNCHANGED <<phase, op, isr, irqpc, irqst>>
    BY <1>6 DEF WriteKey, Go
  <2>3. \A u \in Threads : pc[u] # "spin" /\ pc'[u] # "asleep"
    BY <1>5, <2>1, <2>2 DEF Inside
  <2> QED
    BY <2>2, <2>3
    DEF WakeInv, NoneRaised, PollerWatches, SleeperServed, Busy
<1>7. CASE Start(t)
  <2>1. \A u \in Threads : u # t => pc[u] \notin Inside
    BY <1>7, HolderUnique DEF WakeInv, Start, Go, Inside
  <2>2. /\ irqpc = "idle" /\ isr = {} /\ pc[t] = "start"
        /\ pc' = [pc EXCEPT ![t] = IF J(t).isI THEN "wait" ELSE "spin"]
        /\ UNCHANGED <<isr, irqpc, irqst, via>>
    BY <1>7 DEF Start, Go, Running
  <2>3. \A u \in Threads : pc[u] # "spin" /\ pc'[u] # "asleep"
    BY <1>5, <2>1, <2>2 DEF Inside
  <2>4. NoneRaised' /\ SleeperServed'
    BY <2>2, <2>3 DEF NoneRaised, SleeperServed
  <2>5. PollerWatches'
    <3>1. CASE Busy
      <4>1. op.irq /\ UNCHANGED <<phase, op>>
        BY <1>7, <2>3, <3>1
        DEF Start, Command, Trigger, WakeInv, PollerWatches
      <4> QED
        BY <4>1 DEF PollerWatches
    <3>2. CASE ~ Busy
      <4>1. op'.via = via[t] /\ op'.irq = J(t).isI
        BY <1>7, <3>2 DEF Start, Command, Trigger
      <4>2. ~ J(t).isI => pc'[t] = "spin"
        BY <1>5, <2>2
      <4> QED
        BY <2>2, <4>1, <4>2 DEF PollerWatches
    <3> QED
      BY <3>1, <3>2
  <2> QED
    BY <2>4, <2>5
<1>8. CASE Wait(t)
  <2>1. /\ UNCHANGED <<phase, op, isr, irqpc, irqst, via>>
        /\ pc[t] = "wait"
        /\ \/ \E b \in {"drain", "up"} : pc' = [pc EXCEPT ![t] = b]
           \/ ~ Done(t) /\ pc' = [pc EXCEPT ![t] = "asleep"]
    BY <1>8 DEF Wait, Interrupted, Go, Fail, cardVars
  <2>2. CASE \E b \in {"drain", "up"} : pc' = [pc EXCEPT ![t] = b]
    BY <2>1, <2>2, QuietGo DEF Inside
  <2>3. CASE ~ Done(t) /\ pc' = [pc EXCEPT ![t] = "asleep"]
    <3>1. \A u \in Threads : u # t => pc[u] \notin Inside
      BY <2>1, HolderUnique DEF WakeInv, Inside
    <3>2. \A u \in Threads : pc[u] # "spin"
      BY <2>1, <3>1 DEF Inside
    <3>3. BusyBit(via[t]) /\ op.irq
      BY <2>3, <3>2 DEF Done, BusyBit, WakeInv, PollerWatches
    <3>4. \A u \in Threads : pc'[u] = "asleep" => u = t
      BY <1>5, <2>3, <3>1 DEF Inside
    <3> QED
      BY <2>1, <3>3, <3>4
      DEF WakeInv, NoneRaised, PollerWatches, SleeperServed, WakeupDue, Busy,
          BusyBit
  <2> QED
    BY <2>1, <2>2, <2>3
<1>9. CASE Spin(t)
  <2>1. /\ Done(t) /\ pc[t] = "spin" /\ pc' = [pc EXCEPT ![t] = "drain"]
        /\ UNCHANGED <<phase, op, isr, irqpc, irqst, via>>
    BY <1>9 DEF Spin, Go, cardVars
  <2>2. ~ (Busy /\ op.via = via[t])
    BY <2>1 DEF Done, BusyBit
  <2>3. \A u \in Threads : pc'[u] = "asleep" => pc[u] = "asleep"
    BY <1>5, <2>1
  <2>4. Busy => op.irq
    <3>1. \A u \in Threads : pc[u] = "spin" => u = t
      BY <2>1, HolderUnique DEF WakeInv, Inside
    <3> QED
      BY <2>2, <3>1 DEF WakeInv, PollerWatches
  <2> QED
    BY <2>1, <2>3, <2>4
    DEF WakeInv, NoneRaised, PollerWatches, SleeperServed, WakeupDue, Busy,
        BusyBit
<1> QED
  BY <1>1, <1>2, <1>3, <1>4, <1>6, <1>7, <1>8, <1>9 DEF Kernel

\* The handler takes a bit away only after it has woken its sleeper.
LEMMA WakeIrq ==
    ASSUME WakeInv, Irq
    PROVE  NoneRaised' /\ PollerWatches' /\ SleeperServed'
<1>1. /\ pc \in [Threads -> Inside \cup Outside]
      /\ via \in [Threads -> Vias]
  BY DEF WakeInv, TypeInv, TypeOK
<1>2. CASE IrqRead
  BY <1>2
  DEF IrqRead, cardVars, WakeInv, NoneRaised, PollerWatches, SleeperServed,
      WakeupDue, Busy, BusyBit
<1>3. CASE IrqWake
  <2>1. /\ UNCHANGED <<phase, op, isr, irqst, via>>
        /\ irqpc = "wake" /\ irqpc' = "ack"
        /\ pc' = IF Wakes(irqst)
                 THEN [t \in Threads |-> IF pc[t] = "asleep" THEN "wait"
                                         ELSE pc[t]]
                 ELSE pc
    BY <1>3 DEF IrqWake, cardVars
  <2>2. \A u \in Threads : /\ pc'[u] = "asleep" => pc[u] = "asleep"
                           /\ pc'[u] = "spin" <=> pc[u] = "spin"
    BY <2>1
  <2>3. ASSUME NEW u \in Threads, pc'[u] = "asleep"
        PROVE  WakeupDue(u)'
    <3>1. pc[u] = "asleep" /\ ~ Wakes(irqst)
      BY <2>1, <2>2, <2>3
    <3>2. irqst # {via[u]}
      BY <1>1, <3>1 DEF Wakes, Vias
    <3>3. WakeupDue(u)
      BY <3>1 DEF WakeInv, SleeperServed
    <3> QED
      BY <2>1, <3>2, <3>3 DEF WakeupDue, Busy, BusyBit
  <2>4. NoneRaised' /\ PollerWatches'
    BY <2>1, <2>2 DEF WakeInv, NoneRaised, PollerWatches, Busy
  <2> QED
    BY <2>3, <2>4 DEF SleeperServed
<1>4. CASE IrqAck
  <2>1. /\ UNCHANGED <<phase, op, pc, via>>
        /\ irqpc = "ack" /\ irqpc' = "idle" /\ isr' = isr \ irqst
    BY <1>4 DEF IrqAck, Acknowledge
  <2> QED
    BY <2>1
    DEF WakeInv, NoneRaised, PollerWatches, SleeperServed, WakeupDue, Busy,
        BusyBit
<1> QED
  BY <1>2, <1>3, <1>4 DEF Irq

\* When the engine is done the bit it raises is the only one.
LEMMA WakeCard ==
    ASSUME WakeInv, Card
    PROVE  NoneRaised' /\ PollerWatches' /\ SleeperServed'
<1>1. UNCHANGED <<pc, via, irqpc, irqst>>
  BY DEF Card, devVars
<1>2. CASE Fetch
  BY <1>1, <1>2
  DEF Fetch, WakeInv, NoneRaised, PollerWatches, SleeperServed, WakeupDue,
      Busy, BusyBit
<1>3. CASE Finish
  <2>1. /\ Busy /\ ~ Busy'
        /\ isr' = IF op.irq THEN isr \cup {op.via} ELSE isr
    BY <1>3 DEF Finish, Busy
  <2>2. isr = {} /\ (irqpc # "idle" => irqst = {})
    BY <2>1 DEF WakeInv, NoneRaised
  <2>3. ASSUME NEW u \in Threads, pc'[u] = "asleep"
        PROVE  WakeupDue(u)'
    <3>1. WakeupDue(u)
      BY <1>1, <2>3 DEF WakeInv, SleeperServed
    <3>2. op.irq /\ op.via = via[u]
      BY <2>2, <3>1 DEF WakeupDue, BusyBit
    <3>3. isr' = {via'[u]}
      BY <1>1, <2>1, <2>2, <3>2
    <3> QED
      BY <1>1, <2>2, <3>3 DEF WakeupDue
  <2> QED
    BY <2>1, <2>3 DEF NoneRaised, PollerWatches, SleeperServed
<1> QED
  BY <1>2, <1>3 DEF Card, Engine

LEMMA WakeNext ==
    ASSUME WakeInv, ~ SMP, [Next]_vars
    PROVE  WakeInv'
<1>1. TypeInv'
  BY TypingNext, SemaphoreStep, MappingStep DEF WakeInv, TypeInv
<1>2. NoneRaised' /\ PollerWatches' /\ SleeperServed'
  <2>1. CASE UNCHANGED vars \/ \E h \in Handles : Reopen(h)
    BY <2>1, QuietStep DEF Reopen, vars, cardVars, devVars
  <2>2. ASSUME NEW t \in Threads, User(t)
        PROVE  NoneRaised' /\ PollerWatches' /\ SleeperServed'
    <3>1. CASE UNCHANGED <<cardVars, pc, via, irqpc, irqst>>
      BY <3>1, QuietStep DEF cardVars
    <3>2. ASSUME NEW c \in Calls[t], Encrypt(t, c)
          PROVE  NoneRaised' /\ PollerWatches' /\ SleeperServed'
      BY <3>2, QuietGo DEF Encrypt, Go, Outside
    <3> QED
      BY <2>2, <3>1, <3>2 DEF User, SetKey, SetDMA, SetIntr, Configure
  <2> QED
    BY <2>1, <2>2, WakeKernel, WakeIrq, WakeCard DEF Next
<1> QED
  BY <1>1, <1>2 DEF WakeInv

\* On a single processor no thread sleeps with nobody left to wake it, for any
\* number of threads, with shared handles, signals, mapped pointers, failing
\* calls and a shared interrupt line.
THEOREM SleepersAreServed == ~ SMP => (Spec => []SleeperServed)
<1> SUFFICES ASSUME ~ SMP
             PROVE  Spec => []SleeperServed
  OBVIOUS
<1>1. Init => WakeInv
  <2>1. Init => NoneRaised /\ PollerWatches /\ SleeperServed
    BY DEF Init, CardInit, NoneRaised, PollerWatches, SleeperServed, Busy
  <2> QED
    BY <2>1, TypeInvInit DEF WakeInv
<1>2. WakeInv /\ [Next]_vars => WakeInv'
  BY WakeNext
<1>3. WakeInv => SleeperServed
  BY DEF WakeInv
<1> QED
  BY <1>1, <1>2, <1>3, PTL DEF Spec
-----------------------------------------------------------------------------
(* Calls that poll.                                                        *)

\* No call sleeps until the interrupt.
Polling == \A t \in Threads : \A c \in Calls[t] : ~ c.isI

NobodySleeps ==
    /\ \A h \in Handles : ~ job[h].isI
    /\ \A t \in Threads : pc[t] \notin {"wait", "asleep"}

LEMMA AwakeKernel ==
    ASSUME TypeInv, NobodySleeps, NEW t \in Threads,
           Down(t) \/ Kernel(t) \/ SignalWakes(t)
    PROVE  NobodySleeps'
<1>1. TypeOK /\ J(t) \in Jobs /\ ~ J(t).isI /\ HandleOf[t] \in Handles
  BY JobType DEF TypeInv, NobodySleeps, J
<1>2. \A h \in Handles : ~ job'[h].isI
  <2>1. job \in [Handles -> Jobs]
    BY <1>1 DEF TypeOK
  <2>2. CASE job' = job
    BY <2>2 DEF NobodySleeps
  <2>3. ASSUME NEW j, SetJob(t, j), ~ j.isI
        PROVE  \A h \in Handles : ~ job'[h].isI
    BY <1>1, <2>1, <2>3 DEF SetJob, NobodySleeps
  <2>4. CASE SetMmap(t)
    <3>1. SetJob(t, [J(t) EXCEPT !.isNotMM = t \notin Mappers])
      BY <2>4 DEF SetMmap
    <3>2. ~ [J(t) EXCEPT !.isNotMM = t \notin Mappers].isI
      BY <1>1 DEF Jobs
    <3> QED
      BY <2>3, <3>1, <3>2
  <2>5. ASSUME NEW b, SetJob(t, [J(t) EXCEPT !.msg = b])
        PROVE  \A h \in Handles : ~ job'[h].isI
    <3>1. ~ [J(t) EXCEPT !.msg = b].isI
      BY <1>1 DEF Jobs
    <3> QED
      BY <2>3, <2>5, <3>1
  <2>6. CASE Alloc(t) \/ FreeMsg(t)
    BY <2>5, <2>6 DEF Alloc, FreeMsg
  <2> QED
    BY <2>2, <2>4, <2>6
    DEF Kernel, Enter, CopyIn, Down, WriteKey, LoadRegion, MapDma, Start,
        Wait, Spin, DrainRegion, DrainDma, Up, Return, SignalWakes
<1>3. \A u \in Threads : u # t => pc'[u] = pc[u]
  <2>1. pc \in [Threads -> Inside \cup Outside]
    BY <1>1 DEF TypeOK
  <2>2. CASE SetMmap(t) \/ Enter(t) \/ Alloc(t) \/ CopyIn(t) \/ Down(t)
    BY <2>1, <2>2
    DEF SetMmap, Enter, Alloc, CopyIn, CopyInFails, Down, DownTakes,
        DownInterrupted, Go, Fail
  <2>3. CASE WriteKey(t) \/ LoadRegion(t) \/ MapDma(t) \/ Start(t)
    BY <2>1, <2>3
    DEF WriteKey, LoadRegion, MapDma, MapFails, Start, Go, Fail
  <2>4. CASE Wait(t) \/ Spin(t) \/ SignalWakes(t)
    BY <2>1, <2>4 DEF Wait, Interrupted, Spin, SignalWakes, Go, Fail
  <2>5. CASE DrainRegion(t) \/ DrainDma(t)
    BY <2>1, <2>5 DEF DrainRegion, DrainDma, CopyOut, Go, Fail
  <2>6. CASE Up(t) \/ FreeMsg(t) \/ Return(t)
    BY <2>1, <2>6 DEF Up, FreeMsg, Return, Go, Fail
  <2> QED
    BY <2>2, <2>3, <2>4, <2>5, <2>6 DEF Kernel
<1>4. pc'[t] \notin {"wait", "asleep"}
  <2>1. pc[t] \notin {"wait", "asleep"} /\ pc \in [Threads -> Inside \cup Outside]
    BY <1>1 DEF NobodySleeps, TypeOK
  <2>2. CASE Start(t)
    BY <1>1, <2>1, <2>2 DEF Start, Go
  <2>3. CASE Enter(t)
    BY <2>1, <2>3 DEF Enter, Go, Fail
  <2>4. CASE SetMmap(t) \/ Alloc(t) \/ CopyIn(t) \/ Down(t) \/ WriteKey(t)
    BY <2>1, <2>4
    DEF SetMmap, Alloc, CopyIn, CopyInFails, Down, DownTakes,
        DownInterrupted, WriteKey, Go, Fail
  <2>5. CASE LoadRegion(t) \/ MapDma(t) \/ Wait(t) \/ Spin(t) \/ SignalWakes(t)
    BY <2>1, <2>5
    DEF LoadRegion, MapDma, MapFails, Wait, Interrupted, Spin, SignalWakes,
        Go, Fail
  <2>6. CASE DrainRegion(t) \/ DrainDma(t)
    BY <2>1, <2>6 DEF DrainRegion, DrainDma, CopyOut, Go, Fail
  <2>7. CASE Up(t) \/ FreeMsg(t) \/ Return(t)
    BY <2>1, <2>7 DEF Up, FreeMsg, Return, Go, Fail
  <2> QED
    BY <2>2, <2>3, <2>4, <2>5, <2>6, <2>7 DEF Kernel
<1> QED
  BY <1>2, <1>3, <1>4, <1>1 DEF NobodySleeps

LEMMA AwakeUser ==
    ASSUME Polling, TypeInv, NobodySleeps, NEW t \in Threads, User(t)
    PROVE  NobodySleeps'
<1>1. PICK c \in Calls[t] :
         SetKey(t, c) \/ SetDMA(t, c) \/ SetIntr(t, c) \/ Encrypt(t, c)
  BY DEF User
<1>2. ~ c.isI
  BY DEF Polling
<1>3. /\ job \in [Handles -> Jobs] /\ J(t) \in Jobs /\ ~ J(t).isI
      /\ HandleOf[t] \in Handles
  BY JobType DEF TypeInv, TypeOK, NobodySleeps, J
<1>4. PICK j : SetJob(t, j) /\ ~ j.isI
  <2>1. ~ [J(t) EXCEPT !.keyab = c.key].isI
    BY <1>3 DEF Jobs
  <2>2. ~ [J(t) EXCEPT !.isM = c.isM].isI
    BY <1>3 DEF Jobs
  <2>3. ~ [J(t) EXCEPT !.isI = c.isI].isI
    BY <1>2, <1>3 DEF Jobs
  <2>4. ~ [J(t) EXCEPT !.isE = c.enc].isI
    BY <1>3 DEF Jobs
  <2>5. CASE SetKey(t, c)
    BY <2>1, <2>5 DEF SetKey, Configure
  <2>6. CASE SetDMA(t, c)
    BY <2>2, <2>6 DEF SetDMA, Configure
  <2>7. CASE SetIntr(t, c)
    BY <2>3, <2>7 DEF SetIntr, Configure
  <2>8. CASE Encrypt(t, c)
    BY <2>4, <2>8 DEF Encrypt
  <2> QED
    BY <1>1, <2>5, <2>6, <2>7, <2>8
<1>5. \A h \in Handles : ~ job'[h].isI
  BY <1>3, <1>4 DEF SetJob, NobodySleeps
<1>6. pc' = pc \/ pc' = [pc EXCEPT ![t] = "set_mmap"]
  BY <1>1 DEF SetKey, SetDMA, SetIntr, Configure, Encrypt, Go
<1>7. \A u \in Threads : pc'[u] \notin {"wait", "asleep"}
  BY <1>6 DEF NobodySleeps, TypeInv, TypeOK
<1> QED
  BY <1>5, <1>7 DEF NobodySleeps

LEMMA AwakeNext ==
    ASSUME Polling, TypeInv, NobodySleeps, [Next]_vars PROVE NobodySleeps'
<1>1. CASE \E h \in Handles : Reopen(h)
  BY <1>1 DEF Reopen, NobodySleeps, NewJob, TypeInv, TypeOK
<1>2. CASE Irq
  BY <1>2 DEF Irq, IrqRead, IrqWake, IrqAck, NobodySleeps
<1>3. CASE Card \/ UNCHANGED vars
  BY <1>3 DEF Card, vars, devVars, NobodySleeps
<1> QED
  BY <1>1, <1>2, <1>3, AwakeKernel, AwakeUser DEF Next

\* Where all calls poll, nobody ever sleeps.
LEMMA PollersStayAwake == ASSUME Polling PROVE Spec => []NobodySleeps
<1>1. Init => NobodySleeps
  BY DEF Init, NobodySleeps, NewJob
<1>2. TypeInv /\ NobodySleeps /\ [Next]_vars => NobodySleeps'
  BY AwakeNext
<1> QED
  BY <1>1, <1>2, TypeInvariant, PTL DEF Spec

-----------------------------------------------------------------------------
(* Whom the card works for, with shared handles and mapped pointers.       *)

\* Where signals come, calls poll the card: a signal may end or restart a
\* call at the semaphore, but finds none asleep in its wait for the card.
WaitsUndisturbed == Signals => Polling

Mapping(t) == pc[t] \in DmaPlaces /\ via[t] = "DMA"

\* A thread has a mapping just while its operation lasts, and has given the
\* card its address when it starts it.
HeldBy(t) ==
    /\ dma[t].at # None <=> Mapping(t)
    /\ pc[t] = "start" /\ via[t] = "DMA" => addrReg = dma[t].at

BusInv == \A s \in Slots : bus[s] # None => \E t \in Threads : dma[t].at = s

\* A busy engine works on the branch and the mapping of a thread that waits
\* for it.
EngineHeld ==
    Busy => \E t \in Threads :
                /\ pc[t] \in Waiting
                /\ op.via = via[t]
                /\ op.slot = IF via[t] = "DMA" THEN dma[t].at ELSE None

HeldInv == (\A t \in Threads : HeldBy(t)) /\ BusInv /\ EngineHeld

LEMMA HeldInit == Init => HeldInv
BY DEF Init, CardInit, HeldInv, HeldBy, Mapping, DmaPlaces, Unmapped, BusInv,
       EngineHeld, Busy

\* Who is inside and does not wait has the card to itself.
LEMMA IdleAtWork ==
    ASSUME TypeInv, EngineHeld, NEW t \in Threads, pc[t] \in Inside \ Waiting
    PROVE  ~ Busy
<1> SUFFICES ASSUME Busy PROVE FALSE
  OBVIOUS
<1>1. PICK u \in Threads : pc[u] \in Waiting
  BY DEF EngineHeld
<1>2. u = t
  BY <1>1, HolderUnique DEF Waiting, Inside
<1> QED
  BY <1>1, <1>2

\* Who finds its busy bit clear finds the whole card idle.
LEMMA DoneIsIdle ==
    ASSUME TypeInv, EngineHeld, NEW t \in Threads, pc[t] \in Waiting, Done(t)
    PROVE  ~ Busy
<1> SUFFICES ASSUME Busy PROVE FALSE
  OBVIOUS
<1>1. PICK u \in Threads : pc[u] \in Waiting /\ op.via = via[u]
  BY DEF EngineHeld
<1>2. u = t
  BY <1>1, HolderUnique DEF Waiting, Inside
<1> QED
  BY <1>1, <1>2 DEF Done, BusyBit

\* Steps that touch neither the mappings nor the card, by which thread t
\* neither begins nor ends an operation.
LEMMA HeldMoves ==
    ASSUME TypeInv, HeldInv, NEW t \in Threads, NEW b,
           UNCHANGED <<addrReg, bus, phase, op, dma, via>>,
           pc' = [pc EXCEPT ![t] = b],
           via[t] = "DMA" => (b \in DmaPlaces <=> pc[t] \in DmaPlaces),
           via[t] = "DMA" => b # "start",
           Busy => (pc[t] \in Waiting => b \in Waiting)
    PROVE  HeldInv'
<1>1. pc \in [Threads -> Inside \cup Outside]
  BY DEF TypeInv, TypeOK
<1>2. pc'[t] = b /\ \A u \in Threads : u # t => pc'[u] = pc[u]
  BY <1>1
<1>3. ASSUME NEW u \in Threads PROVE HeldBy(u)'
  <2>1. HeldBy(u)
    BY DEF HeldInv
  <2>2. Mapping(u)' <=> Mapping(u)
    BY <1>2 DEF Mapping
  <2> QED
    BY <1>2, <2>1, <2>2 DEF HeldBy
<1>4. BusInv'
  BY DEF HeldInv, BusInv
<1>5. EngineHeld'
  BY <1>2 DEF HeldInv, EngineHeld, Busy
<1> QED
  BY <1>3, <1>4, <1>5 DEF HeldInv

LEMMA HeldQuiet ==
    ASSUME TypeInv, HeldInv, NEW t \in Threads,
           \/ SetMmap(t) \/ Enter(t) \/ Alloc(t) \/ CopyIn(t) \/ Down(t)
           \/ LoadRegion(t) \/ DrainRegion(t) \/ FreeMsg(t) \/ Return(t)
           \/ SignalWakes(t)
    PROVE  HeldInv'
<1> USE DEF Go, Fail, cardVars
<1>1. CASE SetMmap(t)
  BY <1>1, HeldMoves DEF SetMmap, DmaPlaces, Waiting
<1>2. CASE Enter(t)
  BY <1>2, HeldMoves DEF Enter, DmaPlaces, Waiting
<1>3. CASE Alloc(t)
  BY <1>3, HeldMoves DEF Alloc, DmaPlaces, Waiting
<1>4. CASE CopyIn(t)
  BY <1>4, HeldMoves DEF CopyIn, CopyInFails, DmaPlaces, Waiting
<1>5. CASE Down(t)
  BY <1>5, HeldMoves
  DEF Down, DownTakes, DownInterrupted, DmaPlaces, Waiting
<1>6. CASE LoadRegion(t)
  BY <1>6, HeldMoves DEF LoadRegion, DmaPlaces, Waiting
<1>7. CASE DrainRegion(t)
  BY <1>7, HeldMoves DEF DrainRegion, CopyOut, DmaPlaces, Waiting
<1>8. CASE FreeMsg(t)
  BY <1>8, HeldMoves DEF FreeMsg, DmaPlaces, Waiting
<1>9. CASE Return(t)
  BY <1>9, HeldMoves DEF Return, DmaPlaces, Waiting
<1>10. CASE SignalWakes(t)
  BY <1>10, HeldMoves DEF SignalWakes, DmaPlaces, Waiting
<1> QED
  BY <1>1, <1>2, <1>3, <1>4, <1>5, <1>6, <1>7, <1>8, <1>9, <1>10

LEMMA HeldWait ==
    ASSUME TypeInv, HeldInv, NEW t \in Threads, Wait(t) \/ Spin(t),
           ~ Interrupted(t)
    PROVE  HeldInv'
<1>1. pc[t] \in Waiting
  BY DEF Wait, Spin, Go, Waiting
<1>2. Done(t) => ~ Busy
  BY <1>1, DoneIsIdle DEF HeldInv
<1>3. UNCHANGED <<addrReg, bus, phase, op, dma, via>>
  BY DEF Wait, Spin, cardVars
<1>4. \/ Done(t) /\ pc' = [pc EXCEPT ![t] = "drain"]
      \/ pc' = [pc EXCEPT ![t] = "asleep"]
  BY DEF Wait, Spin, Go
<1>5. CASE Done(t) /\ pc' = [pc EXCEPT ![t] = "drain"]
  BY <1>1, <1>2, <1>3, <1>5, HeldMoves DEF DmaPlaces, Waiting
<1>6. CASE pc' = [pc EXCEPT ![t] = "asleep"]
  BY <1>1, <1>3, <1>6, HeldMoves DEF DmaPlaces, Waiting
<1> QED
  BY <1>4, <1>5, <1>6

\* While one thread is inside, a step of its own leaves the others without
\* a mapping.
LEMMA HeldOthers ==
    ASSUME TypeInv, HeldInv, NEW t \in Threads, pc[t] \in Inside,
           NEW u \in Threads, u # t, pc'[u] = pc[u], dma'[u] = dma[u]
    PROVE  HeldBy(u)' /\ dma[u].at = None
<1>1. pc[u] \notin Inside
  BY HolderUnique
<1>2. HeldBy(u)
  BY DEF HeldInv
<1> QED
  BY <1>1, <1>2 DEF HeldBy, Mapping, DmaPlaces, Inside

LEMMA HeldWriteKey ==
    ASSUME TypeInv, HeldInv, NEW t \in Threads, WriteKey(t)
    PROVE  HeldInv'
<1>1. /\ pc \in [Threads -> Inside \cup Outside] /\ HeldBy(t)
      /\ pc[t] = "key" /\ pc' = [pc EXCEPT ![t] = "load"]
      /\ UNCHANGED <<addrReg, bus, phase, op, dma>>
  BY DEF TypeInv, TypeOK, HeldInv, WriteKey, Go
<1>2. HeldBy(t)'
  BY <1>1 DEF HeldBy, Mapping, DmaPlaces
<1>3. \A u \in Threads : HeldBy(u)'
  BY <1>1, <1>2, HeldOthers DEF Inside
<1>4. BusInv'
  BY <1>1 DEF HeldInv, BusInv
<1>5. EngineHeld'
  BY <1>1, IdleAtWork DEF HeldInv, EngineHeld, Busy, Inside, Waiting
<1> QED
  BY <1>3, <1>4, <1>5 DEF HeldInv

LEMMA HeldMapDma ==
    ASSUME TypeInv, HeldInv, NEW t \in Threads, MapDma(t)
    PROVE  HeldInv'
<1>1. /\ TypeOK /\ HeldBy(t) /\ via[t] = "DMA" /\ pc[t] = "load"
      /\ UNCHANGED <<phase, op, via>>
  BY DEF TypeInv, HeldInv, MapDma, MapFails, Go, Fail
<1>2. ~ Busy /\ dma[t].at = None
  BY <1>1, IdleAtWork
  DEF HeldInv, HeldBy, Mapping, DmaPlaces, Inside, Waiting
<1>3. CASE MapFails(t) /\ UNCHANGED <<bus, dma, addrReg>>
  BY <1>1, <1>3, HeldMoves DEF MapFails, Fail, Go, DmaPlaces, Waiting
<1>4. ASSUME NEW s \in FreeSlots, Go(t, "load", "start"),
             \E d \in Load(J(t).msg) : bus' = [bus EXCEPT ![s] = d],
             dma' = [dma EXCEPT ![t] = [at |-> s, buf |-> J(t).msg]],
             WriteDmaAddr(s)
      PROVE  HeldInv'
  <2>1. s \in Slots /\ s # None /\ addrReg' = s
    BY <1>2, <1>4, NoneAssumption DEF FreeSlots, WriteDmaAddr
  <2>2. pc'[t] = "start" /\ \A u \in Threads : u # t => pc'[u] = pc[u]
    BY <1>1, <1>4 DEF TypeOK, Go
  <2>3. /\ dma'[t] = [at |-> s, buf |-> J(t).msg]
        /\ \A u \in Threads : u # t => dma'[u] = dma[u]
    BY <1>1, <1>4 DEF TypeOK
  <2>4. HeldBy(t)'
    BY <1>1, <2>1, <2>2, <2>3 DEF HeldBy, Mapping, DmaPlaces
  <2>5. \A u \in Threads : u # t => HeldBy(u)'
    BY <1>1, <2>2, <2>3, HeldOthers DEF Inside
  <2>6. \A x \in Slots : x # s => bus'[x] = bus[x]
    BY <1>1, <1>4 DEF TypeOK, CardTypeOK
  <2>7. ASSUME NEW x \in Slots, bus'[x] # None
        PROVE  \E u \in Threads : dma'[u].at = x
    <3>1. CASE x = s
      BY <2>3, <3>1
    <3>2. CASE x # s
      <4>1. PICK u \in Threads : dma[u].at = x
        BY <2>6, <2>7, <3>2 DEF HeldInv, BusInv
      <4>2. u # t
        BY <1>2, <4>1, NoneAssumption
      <4> QED
        BY <2>3, <4>1, <4>2
    <3> QED
      BY <3>1, <3>2
  <2>8. EngineHeld'
    BY <1>1, <1>2 DEF EngineHeld, Busy
  <2> QED
    BY <2>4, <2>5, <2>7, <2>8 DEF HeldInv, BusInv
<1> QED
  BY <1>3, <1>4 DEF MapDma

LEMMA HeldStart ==
    ASSUME TypeInv, HeldInv, NEW t \in Threads, Start(t)
    PROVE  HeldInv'
<1>1. /\ TypeOK /\ HeldBy(t) /\ pc[t] = "start"
      /\ UNCHANGED <<addrReg, bus, dma, via>>
  BY DEF TypeInv, HeldInv, Start, Go
<1>2. ~ Busy
  BY <1>1, IdleAtWork DEF HeldInv, Inside, Waiting
<1>3. /\ pc'[t] \in {"wait", "spin"}
      /\ \A u \in Threads : u # t => pc'[u] = pc[u]
  BY <1>1 DEF Start, Go, TypeOK
<1>4. /\ op'.via = via[t]
      /\ op'.slot = IF via[t] = "DMA" THEN dma[t].at ELSE None
  BY <1>1, <1>2 DEF Start, Command, Trigger, HeldBy
<1>5. HeldBy(t)'
  BY <1>1, <1>3 DEF HeldBy, Mapping, DmaPlaces
<1>6. \A u \in Threads : u # t => HeldBy(u)'
  BY <1>1, <1>3, HeldOthers DEF Inside
<1>7. BusInv'
  BY <1>1 DEF HeldInv, BusInv
<1>8. EngineHeld'
  BY <1>1, <1>3, <1>4 DEF EngineHeld, Waiting
<1> QED
  BY <1>5, <1>6, <1>7, <1>8 DEF HeldInv

LEMMA HeldDrainDma ==
    ASSUME TypeInv, HeldInv, NEW t \in Threads, DrainDma(t)
    PROVE  HeldInv'
<1>1. /\ TypeOK /\ HeldBy(t) /\ pc[t] = "drain" /\ dma[t].at \in Slots
      /\ UNCHANGED <<addrReg, phase, op, via>>
  BY DEF TypeInv, HeldInv, DmaHeld, DmaPlaces, DrainDma
<1>2. /\ pc'[t] \in {"up", "oops"}
      /\ \A u \in Threads : u # t => pc'[u] = pc[u]
  BY <1>1 DEF DrainDma, CopyOut, Go, Fail, TypeOK
<1>3. /\ dma'[t] = Unmapped
      /\ \A u \in Threads : u # t => dma'[u] = dma[u]
  BY <1>1 DEF DrainDma, Unmap, TypeOK
<1>4. /\ bus'[dma[t].at] = None
      /\ \A s \in Slots : s # dma[t].at => bus'[s] = bus[s]
  BY <1>1 DEF DrainDma, Unmap, TypeOK, CardTypeOK
<1>5. HeldBy(t)'
  BY <1>2, <1>3 DEF HeldBy, Mapping, DmaPlaces, Unmapped
<1>6. \A u \in Threads : u # t => HeldBy(u)'
  BY <1>1, <1>2, <1>3, HeldOthers DEF Inside
<1>7. ASSUME NEW s \in Slots, bus'[s] # None
      PROVE  \E u \in Threads : dma'[u].at = s
  <2>1. s # dma[t].at /\ bus[s] # None
    BY <1>4, <1>7
  <2>2. PICK u \in Threads : dma[u].at = s
    BY <2>1 DEF HeldInv, BusInv
  <2> QED
    BY <1>3, <2>1, <2>2
<1>8. EngineHeld'
  BY <1>1, IdleAtWork DEF HeldInv, EngineHeld, Busy, Inside, Waiting
<1> QED
  BY <1>5, <1>6, <1>7, <1>8 DEF HeldInv, BusInv

LEMMA HeldUp ==
    ASSUME TypeInv, HeldInv, NEW t \in Threads, Up(t)
    PROVE  HeldInv'
<1>1. /\ TypeOK /\ HeldBy(t) /\ pc[t] = "up"
      /\ UNCHANGED <<addrReg, bus, phase, op, via>>
  BY DEF TypeInv, HeldInv, Up, Go, cardVars
<1>2. /\ pc'[t] = "free" /\ dma'[t] = Unmapped
      /\ \A u \in Threads : u # t => pc'[u] = pc[u] /\ dma'[u] = dma[u]
  BY <1>1 DEF Up, Go, TypeOK
<1>3. dma[t].at = None
  BY <1>1 DEF HeldBy, Mapping, DmaPlaces
<1>4. HeldBy(t)'
  BY <1>2 DEF HeldBy, Mapping, DmaPlaces, Unmapped
<1>5. \A u \in Threads : u # t => HeldBy(u)'
  BY <1>1, <1>2, HeldOthers DEF Inside
<1>6. \A u \in Threads : dma'[u].at = dma[u].at
  BY <1>2, <1>3 DEF Unmapped
<1>7. BusInv'
  BY <1>1, <1>6 DEF HeldInv, BusInv
<1>8. EngineHeld'
  BY <1>1, IdleAtWork DEF HeldInv, EngineHeld, Busy, Inside, Waiting
<1> QED
  BY <1>4, <1>5, <1>7, <1>8 DEF HeldInv

\* Steps of nobody's call: the handler may wake sleepers, and the engine may
\* fetch its input.
LEMMA HeldStill ==
    ASSUME HeldInv, UNCHANGED <<addrReg, bus, op, dma, via>>, Busy' => Busy,
           \A u \in Threads :
               pc'[u] = pc[u] \/ (pc[u] = "asleep" /\ pc'[u] = "wait")
    PROVE  HeldInv'
<1>1. ASSUME NEW u \in Threads PROVE HeldBy(u)'
  BY DEF HeldInv, HeldBy, Mapping, DmaPlaces
<1>2. BusInv'
  BY DEF HeldInv, BusInv
<1>3. EngineHeld'
  BY DEF HeldInv, EngineHeld, Waiting
<1> QED
  BY <1>1, <1>2, <1>3 DEF HeldInv

LEMMA HeldCard == ASSUME TypeInv, HeldInv, Card PROVE HeldInv'
<1>1. UNCHANGED <<pc, via, dma, addrReg>>
  BY DEF Card, devVars, Engine, Fetch, Finish
<1>2. CASE Fetch
  BY <1>1, <1>2, HeldStill DEF Fetch, Busy
<1>3. CASE Finish
  <2>1. \A u \in Threads : HeldBy(u)'
    BY <1>1 DEF HeldInv, HeldBy, Mapping
  <2>2. \A s \in Slots : bus'[s] # None => bus[s] # None
    BY <1>3 DEF Finish, Mapped, TypeInv, TypeOK, CardTypeOK
  <2>3. BusInv'
    BY <1>1, <2>2 DEF HeldInv, BusInv
  <2>4. EngineHeld'
    BY <1>3 DEF Finish, EngineHeld, Busy
  <2> QED
    BY <2>1, <2>3, <2>4 DEF HeldInv
<1> QED
  BY <1>2, <1>3 DEF Card, Engine

LEMMA HeldUser ==
    ASSUME TypeInv, HeldInv, NEW t \in Threads, User(t) PROVE HeldInv'
<1>1. CASE UNCHANGED <<cardVars, pc, via, dma>>
  BY <1>1, HeldStill DEF cardVars, Busy
<1>2. ASSUME NEW c \in Calls[t], Encrypt(t, c) PROVE HeldInv'
  BY <1>2, HeldMoves DEF Encrypt, Go, DmaPlaces, Waiting
<1> QED
  BY <1>1, <1>2 DEF User, SetKey, SetDMA, SetIntr, Configure

LEMMA HeldNext ==
    ASSUME TypeInv, HeldInv, \A t \in Threads : ~ Interrupted(t), [Next]_vars
    PROVE  HeldInv'
<1>1. CASE UNCHANGED vars \/ \E h \in Handles : Reopen(h)
  BY <1>1, HeldStill DEF vars, devVars, cardVars, Reopen, Busy
<1>2. CASE Irq
  BY <1>2, HeldStill DEF Irq, IrqRead, IrqWake, IrqAck, cardVars, Busy
<1> QED
  BY <1>1, <1>2, HeldQuiet, HeldWait, HeldWriteKey, HeldMapDma,
     HeldStart, HeldDrainDma, HeldUp, HeldCard, HeldUser DEF Next, Kernel

\* Where no signal finds a call in its wait for the card, the card works for
\* a thread that waits for it, and the mappings are of the calls.
THEOREM HeldInvariant == ASSUME WaitsUndisturbed PROVE Spec => []HeldInv
<1>1. CASE Polling
  <2>1. NobodySleeps => \A t \in Threads : ~ Interrupted(t)
    BY DEF NobodySleeps, Interrupted, Fail, Go
  <2>2. TypeInv /\ NobodySleeps /\ HeldInv /\ [Next]_vars => HeldInv'
    BY <2>1, HeldNext
  <2> QED
    BY <1>1, <2>2, HeldInit, TypeInvariant, PollersStayAwake, PTL DEF Spec
<1>2. CASE ~ Polling
  <2>1. \A t \in Threads : ~ Interrupted(t)
    BY <1>2 DEF WaitsUndisturbed, Interrupted
  <2>2. TypeInv /\ HeldInv /\ [Next]_vars => HeldInv'
    BY <2>1, HeldNext
  <2> QED
    BY <2>2, HeldInit, TypeInvariant, PTL DEF Spec
<1> QED
  BY <1>1, <1>2

\* Every way out of pci_write undoes the DMA mapping it made, also on a
\* handle that other threads configure meanwhile and next to mapped pointers.
THEOREM MappingsBelongToCalls ==
    ASSUME WaitsUndisturbed PROVE Spec => []MappingsOwned
<1>1. ASSUME HeldInv, TypeInv PROVE MappingsOwned
  <2>1. ASSUME NEW t \in Threads, dma[t].at # None
        PROVE  dma[t].at \in Slots /\ bus[dma[t].at] # None
    BY <1>1, <2>1 DEF HeldInv, HeldBy, Mapping, TypeInv, DmaHeld
  <2>2. \A s \in Slots : s # None
    BY NoneAssumption
  <2> QED
    BY <1>1, <2>1, <2>2 DEF HeldInv, BusInv, MappingsOwned
<1> QED
  BY <1>1, HeldInvariant, TypeInvariant, PTL
=============================================================================
