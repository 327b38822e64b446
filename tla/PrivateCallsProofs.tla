-------------------------- MODULE PrivateCallsProofs --------------------------
(***************************************************************************)
(* What the calls of CryptoDev return, for any number of threads, each     *)
(* with a handle of its own, with nobody else at the window of a thread    *)
(* that passes a pointer into it, and with signals only where no call      *)
(* sleeps for the card; the runs interrupted and shared_handle show what   *)
(* happens otherwise.  The layers below need less: the buffers are kept in *)
(* order on handles of their own, the card works for the call inside       *)
(* whoever else is at the window, and a failed call leaves a message in    *)
(* ordinary memory on any handle.                                          *)
(***************************************************************************)
EXTENDS CryptoDevProofs

PrivateHandles == \A t, u \in Threads : HandleOf[t] = HandleOf[u] => t = u

\* While one thread keeps its message in the window, the others use DMA on
\* memory of their own.
WindowOwned ==
    \A t \in Mappers, u \in Threads :
        u # t => u \notin Mappers /\ \A c \in Calls[u] : ~ c.isM

Orderly == PrivateHandles /\ WindowOwned /\ WaitsUndisturbed

\* Places of a call that may have a kernel buffer, where its message is
\* still where its caller put it, and where its answer is decided.
InHand   == Inside \cup {"copyin", "down", "free"}
Asked    == {"set_mmap", "write", "alloc", "copyin", "down", "key", "load"}
Finished == {"up", "free", "return"}

-----------------------------------------------------------------------------
(* What a step of one thread leaves to the others.                         *)

Alone(t) ==
    \A u \in Threads : u # t =>
        /\ pc'[u] = pc[u] /\ via'[u] = via[u] /\ dma'[u] = dma[u]
        /\ ask'[u] = ask[u] /\ ubuf'[u] = ubuf[u] /\ ret'[u] = ret[u]
        /\ job'[HandleOf[u]] = job[HandleOf[u]]

LEMMA SetJobAlone ==
    ASSUME PrivateHandles, TypeOK, NEW t \in Threads, NEW j, SetJob(t, j),
           NEW u \in Threads, u # t
    PROVE  job'[HandleOf[u]] = job[HandleOf[u]]
BY HandleAssumption DEF PrivateHandles, SetJob, TypeOK

LEMMA UserAlone ==
    ASSUME PrivateHandles, TypeOK, NEW t \in Threads, User(t) PROVE Alone(t)
<1>1. PICK c \in Calls[t] :
         SetKey(t, c) \/ SetDMA(t, c) \/ SetIntr(t, c) \/ Encrypt(t, c)
  BY DEF User
<1>2. ASSUME NEW j, Configure(t, j) PROVE Alone(t)
  BY <1>2, SetJobAlone DEF Configure, Alone
<1>3. CASE Encrypt(t, c)
  BY <1>3, SetJobAlone DEF Encrypt, Go, Alone, TypeOK
<1>4. QED
  BY <1>1, <1>2, <1>3 DEF SetKey, SetDMA, SetIntr

LEMMA KernelAlone ==
    ASSUME PrivateHandles, TypeOK, NEW t \in Threads,
           Down(t) \/ Kernel(t) \/ SignalWakes(t)
    PROVE  Alone(t)
<1> USE DEF Alone, Go, Fail, TypeOK
<1>1. CASE SetMmap(t)
  BY <1>1, SetJobAlone DEF SetMmap
<1>2. CASE Enter(t)
  BY <1>2 DEF Enter
<1>3. CASE Alloc(t)
  BY <1>3, SetJobAlone DEF Alloc
<1>4. CASE CopyIn(t)
  BY <1>4 DEF CopyIn, CopyInFails
<1>5. CASE Down(t)
  BY <1>5 DEF Down, DownTakes, DownInterrupted
<1>6. CASE WriteKey(t)
  BY <1>6 DEF WriteKey
<1>7. CASE LoadRegion(t)
  BY <1>7 DEF LoadRegion
<1>8. CASE MapDma(t)
  BY <1>8 DEF MapDma, MapFails
<1>9. CASE Start(t)
  BY <1>9 DEF Start
<1>10. CASE Wait(t)
  BY <1>10 DEF Wait, Interrupted
<1>11. CASE Spin(t)
  BY <1>11 DEF Spin
<1>12. CASE DrainRegion(t)
  BY <1>12 DEF DrainRegion, CopyOut
<1>13. CASE DrainDma(t)
  BY <1>13 DEF DrainDma, CopyOut, Unmap
<1>14. CASE Up(t)
  BY <1>14 DEF Up
<1>15. CASE FreeMsg(t)
  BY <1>15, SetJobAlone DEF FreeMsg
<1>16. CASE Return(t)
  BY <1>16 DEF Return
<1>17. CASE SignalWakes(t)
  BY <1>17 DEF SignalWakes
<1>18. QED
  BY <1>1, <1>2, <1>3, <1>4, <1>5, <1>6, <1>7, <1>8, <1>9, <1>10, <1>11,
     <1>12, <1>13, <1>14, <1>15, <1>16, <1>17 DEF Kernel

-----------------------------------------------------------------------------
(* Buffers, with signals and mapped pointers: handles must be private but  *)
(* nothing else is asked.                                                  *)

LEMMA SetJobIs ==
    ASSUME TypeOK, NEW t \in Threads, NEW j, SetJob(t, j)
    PROVE  job'[HandleOf[t]] = j
BY HandleAssumption DEF SetJob, TypeOK

LEMMA StoreHere ==
    ASSUME TypeOK, NEW b \in Bufs, heap[b] # None, NEW d
    PROVE  /\ Store(b, d)[b] = d
           /\ \A x \in Bufs : x # b => Store(b, d)[x] = heap[x]
BY BufAssumption DEF Store, TypeOK

\* The buffer of t as it is before and after a step that stores into it.
LEMMA LoadHere ==
    ASSUME NEW h, NEW b \in Bufs, h[b] # None, NEW d \in LoadFrom(h, b)
    PROVE  d = h[b]
BY BufAssumption DEF LoadFrom

LEMMA MsgType ==
    ASSUME TypeOK, NEW t \in Threads
    PROVE  Msg[t] \in Data /\ Msg[t] # None /\ Junk # None
BY DataAssumption, NoneAssumption

LEMMA AnswerType ==
    ASSUME TypeOK, NEW t \in Threads
    PROVE  Answer(t) \in Data /\ Answer(t) # None
<1>1. ask[t].enc \in BOOLEAN /\ ask[t].key \in Keys /\ Msg[t] \in Data
  BY MsgType DEF TypeOK
<1>2. QED
  BY <1>1, CryptAssumption, NoneAssumption DEF Answer

LEMMA StoreKeeps ==
    ASSUME TypeOK, NEW b, NEW d \in Data, b \in Bufs \cup {None}
    PROVE  \A x \in Bufs : Store(b, d)[x] # None <=> heap[x] # None
BY NoneAssumption DEF Store, TypeOK

Holding(t) == pc[t] \in InHand /\ J(t).isNotMM

\* The call knows whether it has a buffer: it keeps a pointer only while it
\* has one, and a mapped pointer stays on the MMIO branch, which does not
\* look at it.
BufferOK(t) ==
    /\ pc[t] # "oops"
    /\ pc[t] \notin InHand => J(t).msg = None
    /\ pc[t] \in {"alloc", "copyin"} => J(t).isNotMM
    /\ pc[t] \in InHand /\ ~ J(t).isNotMM => J(t).isM /\ J(t).msg = None
    /\ pc[t] \in {"load"} \cup DmaPlaces /\ via[t] = "DMA" => J(t).isNotMM
    /\ pc[t] \in DmaPlaces /\ via[t] = "DMA" => dma[t].buf = J(t).msg

OwnInv ==
    /\ \A t \in Threads : Holding(t) =>
          J(t).msg \in Bufs /\ heap[J(t).msg] # None
    /\ \A t, u \in Threads :
          Holding(t) /\ Holding(u) /\ J(t).msg = J(u).msg => t = u
    /\ \A b \in Bufs : heap[b] # None =>
          \E t \in Threads : Holding(t) /\ J(t).msg = b

BuffersInv == OwnInv /\ \A t \in Threads : BufferOK(t)

LEMMA BuffersInit == Init => BuffersInv
<1> SUFFICES ASSUME Init PROVE BuffersInv
  OBVIOUS
<1>1. \A t \in Threads : J(t).msg = None
  BY HandleAssumption DEF Init, NewJob, J
<1>2. QED
  BY <1>1 DEF Init, BuffersInv, OwnInv, Holding, BufferOK, InHand, Inside,
              DmaPlaces

\* Another thread's step leaves the call's knowledge alone.
LEMMA BufferOKOthers ==
    ASSUME NEW t \in Threads, Alone(t), NEW u \in Threads, u # t, BufferOK(u)
    PROVE  BufferOK(u)' /\ (Holding(u)' <=> Holding(u)) /\ J(u)' = J(u)
BY DEF Alone, BufferOK, Holding, J, InHand, Inside, DmaPlaces

\* A step that neither allocates nor frees leaves the buffers to the calls.
LEMMA OwnSame ==
    ASSUME OwnInv,
           \A t \in Threads : /\ Holding(t)' <=> Holding(t)
                              /\ Holding(t) => J(t)'.msg = J(t).msg,
           \A b \in Bufs : heap'[b] # None <=> heap[b] # None
    PROVE  OwnInv'
BY DEF OwnInv

\* The same, when only thread t has moved.
LEMMA OwnMoved ==
    ASSUME BuffersInv, NEW t \in Threads, Alone(t), BufferOK(t)',
           Holding(t)' <=> Holding(t),
           Holding(t) => J(t)'.msg = J(t).msg,
           \A b \in Bufs : heap'[b] # None <=> heap[b] # None
    PROVE  BuffersInv'
<1>1. \A u \in Threads : u # t =>
          BufferOK(u)' /\ (Holding(u)' <=> Holding(u)) /\ J(u)' = J(u)
  BY BufferOKOthers DEF BuffersInv
<1>2. OwnInv'
  BY <1>1, OwnSame DEF BuffersInv
<1>3. QED
  BY <1>1, <1>2 DEF BuffersInv

LEMMA OwnAlloc ==
    ASSUME PrivateHandles, TypeInv, BuffersInv, NEW t \in Threads, Alloc(t)
    PROVE  BuffersInv'
<1>1. TypeOK /\ OwnInv /\ BufferOK(t) /\ Alone(t) /\ Junk # None
      /\ J(t) \in Jobs /\ pc[t] = "alloc"
  BY KernelAlone, MsgType, JobType
     DEF TypeInv, BuffersInv, Kernel, Alloc, Go, Fail
<1>2. ~ Holding(t) /\ J(t).isNotMM
  BY <1>1 DEF Holding, BufferOK, InHand, Inside
<1>3. via' = via /\ dma' = dma
  BY DEF Alloc
<1>4. ASSUME NEW b \in FreeBufs, Go(t, "alloc", "copyin"),
             heap' = [heap EXCEPT ![b] = Junk],
             SetJob(t, [J(t) EXCEPT !.msg = b])
      PROVE  BuffersInv'
  <2>1. /\ b \in Bufs /\ heap[b] = None /\ heap'[b] # None
        /\ \A x \in Bufs : x # b => heap'[x] = heap[x]
    BY <1>1, <1>4 DEF FreeBufs, TypeOK
  <2>2. J(t)'.msg = b /\ J(t)'.isNotMM /\ pc'[t] = "copyin"
    <3>1. job'[HandleOf[t]] = [J(t) EXCEPT !.msg = b]
      BY <1>1, <1>4, SetJobIs
    <3>2. QED
      BY <1>1, <1>2, <1>4, <3>1 DEF J, Jobs, Go, TypeOK
  <2>3. Holding(t)' /\ BufferOK(t)'
    BY <2>2 DEF Holding, BufferOK, InHand, Inside, DmaPlaces
  <2>4. \A u \in Threads : u # t =>
            /\ BufferOK(u)' /\ (Holding(u)' <=> Holding(u)) /\ J(u)' = J(u)
            /\ Holding(u) => J(u).msg \in Bufs /\ J(u).msg # b
    BY <1>1, <2>1, BufferOKOthers DEF BuffersInv, OwnInv
  <2>5. OwnInv'
    <3>1. \A u \in Threads : Holding(u)' =>
              J(u)'.msg \in Bufs /\ heap'[J(u)'.msg] # None
      BY <1>1, <2>1, <2>2, <2>4 DEF OwnInv
    <3>2. ASSUME NEW u \in Threads, NEW v \in Threads,
                 Holding(u)', Holding(v)', J(u)'.msg = J(v)'.msg
          PROVE  u = v
      BY <1>1, <2>2, <2>4, <3>2 DEF OwnInv
    <3>3. ASSUME NEW x \in Bufs, heap'[x] # None
          PROVE  \E u \in Threads : Holding(u)' /\ J(u)'.msg = x
      <4>1. CASE x = b
        BY <2>2, <2>3, <4>1
      <4>2. CASE x # b
        <5>1. PICK u \in Threads : Holding(u) /\ J(u).msg = x
          BY <1>1, <2>1, <3>3, <4>2 DEF OwnInv
        <5>2. u # t
          BY <1>2, <5>1
        <5>3. QED
          BY <2>4, <5>1, <5>2
      <4>3. QED
        BY <4>1, <4>2
    <3>4. QED
      BY <3>1, <3>2, <3>3 DEF OwnInv
  <2>6. QED
    BY <2>3, <2>4, <2>5 DEF BuffersInv
<1>5. CASE /\ Fail(t, "alloc", "return", "ENOMEM")
           /\ SetJob(t, [J(t) EXCEPT !.msg = None])
           /\ UNCHANGED heap
  <2>1. J(t)'.msg = None /\ pc'[t] = "return"
    <3>1. job'[HandleOf[t]] = [J(t) EXCEPT !.msg = None]
      BY <1>1, <1>5, SetJobIs
    <3>2. QED
      BY <1>1, <1>5, <3>1 DEF J, Jobs, Fail, Go, TypeOK
  <2>2. ~ Holding(t)' /\ BufferOK(t)'
    BY <2>1 DEF Holding, BufferOK, InHand, Inside, DmaPlaces
  <2>3. QED
    BY <1>1, <1>2, <1>5, <2>2, OwnMoved
<1>6. QED
  BY <1>4, <1>5 DEF Alloc

LEMMA OwnFree ==
    ASSUME PrivateHandles, TypeInv, BuffersInv, NEW t \in Threads, FreeMsg(t)
    PROVE  BuffersInv'
<1>1. TypeOK /\ OwnInv /\ BufferOK(t) /\ Alone(t) /\ J(t) \in Jobs
      /\ pc[t] = "free" /\ pc'[t] = "return"
  BY KernelAlone, JobType
     DEF TypeInv, BuffersInv, Kernel, FreeMsg, Go, TypeOK
<1>2. J(t)'.msg = None
  <2>1. job'[HandleOf[t]] = [J(t) EXCEPT !.msg = None]
    BY <1>1, SetJobIs DEF FreeMsg
  <2>2. QED
    BY <1>1, <2>1 DEF J, Jobs
<1>3. ~ Holding(t)' /\ BufferOK(t)'
  BY <1>1, <1>2 DEF Holding, BufferOK, InHand, Inside, DmaPlaces
<1>4. CASE ~ J(t).isNotMM
  <2>1. heap' = heap /\ ~ Holding(t)
    BY <1>4 DEF FreeMsg, HasBuffer, Holding
  <2>2. QED
    BY <1>1, <1>3, <2>1, OwnMoved
<1>5. CASE J(t).isNotMM
  <2>1. Holding(t) /\ J(t).msg \in Bufs
    BY <1>1, <1>5 DEF Holding, InHand, OwnInv
  <2>2. heap' = [heap EXCEPT ![J(t).msg] = None]
    BY <1>5, <2>1, BufAssumption DEF FreeMsg, HasBuffer
  <2>3. \A u \in Threads : u # t =>
          /\ BufferOK(u)' /\ (Holding(u)' <=> Holding(u)) /\ J(u)' = J(u)
          /\ Holding(u) => J(u).msg # J(t).msg
    BY <1>1, <2>1, BufferOKOthers DEF BuffersInv, OwnInv
  <2>4. \A b \in Bufs :
          /\ heap'[b] # None => b # J(t).msg /\ heap[b] # None
          /\ b # J(t).msg => heap'[b] = heap[b]
    BY <1>1, <2>1, <2>2 DEF TypeOK
  <2>5. ASSUME NEW b \in Bufs, heap'[b] # None
        PROVE  \E u \in Threads : Holding(u)' /\ J(u)'.msg = b
    <3>1. PICK u \in Threads : Holding(u) /\ J(u).msg = b
      BY <1>1, <2>4, <2>5 DEF OwnInv
    <3>2. u # t
      BY <2>4, <2>5, <3>1
    <3>3. QED
      BY <2>3, <3>1, <3>2
  <2>6. ASSUME NEW u \in Threads, Holding(u)'
        PROVE  J(u)'.msg \in Bufs /\ heap'[J(u)'.msg] # None
    BY <1>1, <1>3, <2>3, <2>4, <2>6 DEF OwnInv
  <2>7. ASSUME NEW u \in Threads, NEW v \in Threads,
               Holding(u)', Holding(v)', J(u)'.msg = J(v)'.msg
        PROVE  u = v
    BY <1>1, <1>3, <2>3, <2>7 DEF OwnInv
  <2>8. OwnInv'
    BY <2>5, <2>6, <2>7 DEF OwnInv
  <2>9. QED
    BY <1>3, <2>3, <2>8 DEF BuffersInv
<1>6. QED
  BY <1>4, <1>5

LEMMA OwnKernel ==
    ASSUME PrivateHandles, TypeInv, BuffersInv, NEW t \in Threads,
           Down(t) \/ Kernel(t) \/ SignalWakes(t)
    PROVE  BuffersInv'
<1>1. TypeOK /\ OwnInv /\ BufferOK(t) /\ Alone(t)
      /\ (Holding(t) => J(t).msg \in Bufs /\ J(t).msg # None)
  BY KernelAlone, BufAssumption DEF TypeInv, BuffersInv, OwnInv
<1>2. J(t) \in Jobs /\ J(t).msg \in Bufs \cup {None}
  BY <1>1, JobType DEF Jobs
<1>3. ASSUME J(t)' = J(t), BufferOK(t)',
             pc'[t] \in InHand <=> pc[t] \in InHand,
             \A b \in Bufs : heap'[b] # None <=> heap[b] # None
      PROVE  BuffersInv'
  BY <1>1, <1>3, OwnMoved DEF Holding
<1> USE DEF Go, Fail, InHand, Inside, TypeOK, DmaPlaces
<1>4. CASE SetMmap(t)
  <2>1. job'[HandleOf[t]] = [J(t) EXCEPT !.isNotMM = t \notin Mappers]
    BY <1>1, <1>4, SetJobIs DEF SetMmap
  <2>2. pc[t] = "set_mmap" /\ pc'[t] = "write" /\ heap' = heap
        /\ J(t)'.msg = None
    BY <1>1, <1>2, <1>4, <2>1 DEF SetMmap, BufferOK, Jobs, J
  <2>3. ~ Holding(t) /\ ~ Holding(t)' /\ BufferOK(t)'
    BY <2>2 DEF Holding, BufferOK
  <2>4. QED
    BY <1>1, <2>2, <2>3, OwnMoved
<1>5. CASE Enter(t)
  <2>1. /\ job' = job /\ heap' = heap /\ via' = via /\ dma' = dma
        /\ pc[t] = "write" /\ J(t).msg = None
    BY <1>1, <1>5 DEF Enter, BufferOK
  <2>2. \/ pc'[t] \in {"return", "alloc"} /\ (pc'[t] = "alloc" => J(t).isNotMM)
        \/ pc'[t] = "down" /\ ~ J(t).isNotMM /\ J(t).isM
    BY <1>1, <1>5 DEF Enter, MappedDma
  <2>3. ~ Holding(t) /\ ~ Holding(t)' /\ BufferOK(t)'
    BY <2>1, <2>2 DEF Holding, BufferOK, J
  <2>4. QED
    BY <1>1, <2>1, <2>3, OwnMoved
<1>6. CASE CopyIn(t)
  <2>1. \A x \in Bufs :
          Store(J(t).msg, ubuf[t])[x] # None <=> heap[x] # None
    BY <1>1, <1>2, StoreKeeps
  <2>2. BufferOK(t)' /\ J(t)' = J(t)
    BY <1>1, <1>6 DEF CopyIn, CopyInFails, J, BufferOK
  <2>3. QED
    BY <1>1, <1>3, <1>6, <2>1, <2>2 DEF CopyIn, CopyInFails
<1>7. CASE Down(t)
  BY <1>1, <1>3, <1>7 DEF Down, DownTakes, DownInterrupted, J, BufferOK
<1>8. CASE WriteKey(t)
  BY <1>1, <1>3, <1>8 DEF WriteKey, J, BufferOK
<1>9. CASE LoadRegion(t)
  <2>1. J(t).isNotMM => J(t).msg # None
    BY <1>1, <1>9 DEF LoadRegion, Holding
  <2>2. QED
    BY <1>1, <1>3, <1>9, <2>1 DEF LoadRegion, J, BufferOK
<1>10. CASE MapDma(t)
  <2>1. /\ job' = job /\ heap' = heap /\ via' = via /\ pc[t] = "load"
        /\ \/ pc'[t] = "up"
           \/ pc'[t] = "start" /\ dma'[t].buf = J(t).msg
    BY <1>1, <1>10 DEF MapDma, MapFails
  <2>2. BufferOK(t)' /\ J(t)' = J(t)
    BY <1>1, <1>10, <2>1 DEF MapDma, BufferOK, J
  <2>3. QED
    BY <1>3, <2>1, <2>2
<1>11. CASE Start(t)
  BY <1>1, <1>3, <1>11 DEF Start, J, BufferOK
<1>12. CASE Wait(t)
  BY <1>1, <1>3, <1>12 DEF Wait, Interrupted, J, BufferOK
<1>13. CASE Spin(t)
  BY <1>1, <1>3, <1>13 DEF Spin, J, BufferOK
<1>14. CASE DrainRegion(t)
  <2>1. \A x \in Bufs : Store(J(t).msg, region)[x] # None <=> heap[x] # None
    BY <1>1, <1>2, StoreKeeps DEF CardTypeOK
  <2>2. pc[t] = "drain"
    BY <1>14 DEF DrainRegion, CopyOut
  <2>3. J(t).isNotMM => J(t).msg # None
    BY <1>1, <2>2 DEF Holding
  <2>4. pc'[t] = "up" /\ job' = job /\ \A x \in Bufs :
            heap'[x] # None <=> heap[x] # None
    BY <1>1, <1>14, <2>1, <2>3 DEF DrainRegion, CopyOut
  <2>5. BufferOK(t)' /\ J(t)' = J(t)
    BY <1>1, <2>2, <2>4 DEF BufferOK, J
  <2>6. QED
    BY <1>3, <2>2, <2>4, <2>5
<1>15. CASE DrainDma(t)
  <2>1. /\ bus[dma[t].at] \in Data
        /\ dma[t].buf \in Bufs \cup {None}
    BY <1>15 DEF DrainDma, TypeInv, DmaHeld, CardTypeOK, DmaHandles
  <2>2. \A x \in Bufs :
          Store(dma[t].buf, bus[dma[t].at])[x] # None <=> heap[x] # None
    BY <1>1, <2>1, StoreKeeps
  <2>3. pc[t] = "drain" /\ J(t).msg # None
    BY <1>1, <1>15 DEF DrainDma, BufferOK, Holding
  <2>4. pc'[t] = "up" /\ job' = job
        /\ heap' = Store(dma[t].buf, bus[dma[t].at])
    BY <1>1, <1>15, <2>3 DEF DrainDma, CopyOut
  <2>5. BufferOK(t)' /\ J(t)' = J(t)
    BY <1>1, <2>3, <2>4 DEF BufferOK, J
  <2>6. QED
    BY <1>3, <2>2, <2>3, <2>4, <2>5
<1>16. CASE Up(t)
  BY <1>1, <1>3, <1>16 DEF Up, J, BufferOK
<1>17. CASE Return(t)
  BY <1>1, <1>3, <1>17 DEF Return, J, BufferOK
<1>18. CASE SignalWakes(t)
  BY <1>1, <1>3, <1>18 DEF SignalWakes, J, BufferOK
<1>19. QED
  BY <1>4, <1>5, <1>6, <1>7, <1>8, <1>9, <1>10, <1>11, <1>12, <1>13, <1>14,
     <1>15, <1>16, <1>17, <1>18, OwnAlloc, OwnFree DEF Kernel

LEMMA OwnUser ==
    ASSUME PrivateHandles, TypeInv, BuffersInv, NEW t \in Threads, User(t)
    PROVE  BuffersInv'
<1>1. TypeOK /\ BufferOK(t) /\ J(t) \in Jobs /\ Alone(t)
  BY UserAlone, JobType DEF TypeInv, BuffersInv
<1>2. PICK c \in Calls[t] :
         SetKey(t, c) \/ SetDMA(t, c) \/ SetIntr(t, c) \/ Encrypt(t, c)
  BY DEF User
<1>3. PICK j : /\ SetJob(t, j) /\ j.msg = J(t).msg
               /\ heap' = heap /\ via' = via /\ dma' = dma
               /\ pc[t] = "user" /\ pc'[t] \in {"user", "set_mmap"}
  <2>1. CASE SetKey(t, c)
    BY <1>1, <2>1 DEF SetKey, Configure, Jobs
  <2>2. CASE SetDMA(t, c)
    BY <1>1, <2>2 DEF SetDMA, Configure, Jobs
  <2>3. CASE SetIntr(t, c)
    BY <1>1, <2>3 DEF SetIntr, Configure, Jobs
  <2>4. CASE Encrypt(t, c)
    BY <1>1, <2>4 DEF Encrypt, Go, Jobs, TypeOK
  <2>5. QED
    BY <1>2, <2>1, <2>2, <2>3, <2>4
<1>4. J(t)'.msg = None
  <2>1. J(t).msg = None
    BY <1>1, <1>3 DEF BufferOK, InHand, Inside
  <2>2. job'[HandleOf[t]] = j
    BY <1>1, <1>3, SetJobIs
  <2>3. QED
    BY <1>3, <2>1, <2>2 DEF J
<1>5. ~ Holding(t) /\ ~ Holding(t)' /\ BufferOK(t)'
  BY <1>3, <1>4 DEF Holding, BufferOK, InHand, Inside, DmaPlaces
<1>6. QED
  BY <1>1, <1>3, <1>5, OwnMoved

LEMMA OwnReopen ==
    ASSUME TypeInv, BuffersInv, NEW h \in Handles, Reopen(h)
    PROVE  BuffersInv'
<1>1. /\ pc' = pc /\ heap' = heap /\ via' = via /\ dma' = dma
      /\ job' = [job EXCEPT ![h] = NewJob] /\ TypeOK
  BY DEF Reopen, TypeInv
<1>2. ASSUME NEW t \in Threads
      PROVE  /\ BufferOK(t)' /\ (Holding(t)' <=> Holding(t))
             /\ Holding(t) => J(t)'.msg = J(t).msg
  <2>1. BufferOK(t)
    BY DEF BuffersInv
  <2>2. CASE HandleOf[t] = h
    <3>1. pc[t] = "user" /\ J(t)'.msg = None
      BY <1>1, <2>2 DEF Reopen, J, NewJob, TypeOK
    <3>2. QED
      BY <1>1, <3>1 DEF BufferOK, Holding, InHand, Inside, DmaPlaces
  <2>3. CASE HandleOf[t] # h
    <3>1. J(t)' = J(t)
      BY <1>1, <2>3, HandleAssumption DEF J, TypeOK
    <3>2. QED
      BY <1>1, <2>1, <3>1 DEF BufferOK, Holding, InHand, Inside, DmaPlaces
  <2>4. QED
    BY <2>2, <2>3
<1>3. QED
  BY <1>1, <1>2, OwnSame DEF BuffersInv

\* The handler wakes sleepers, and otherwise the calls stand still.
LEMMA OwnIdle ==
    ASSUME BuffersInv, job' = job, heap' = heap, via' = via, dma' = dma,
           \A t \in Threads :
               pc'[t] = pc[t] \/ (pc[t] = "asleep" /\ pc'[t] = "wait")
    PROVE  BuffersInv'
<1>1. ASSUME NEW t \in Threads
      PROVE  /\ BufferOK(t)' /\ (Holding(t)' <=> Holding(t))
             /\ J(t)' = J(t)
  BY DEF BuffersInv, BufferOK, Holding, J, InHand, Inside, DmaPlaces
<1>2. QED
  BY <1>1, OwnSame DEF BuffersInv

LEMMA OwnNext ==
    ASSUME PrivateHandles, TypeInv, BuffersInv, [Next]_vars
    PROVE  BuffersInv'
<1>1. CASE Irq
  BY <1>1, OwnIdle DEF Irq, IrqRead, IrqWake, IrqAck, TypeInv, TypeOK
<1>2. CASE Card \/ UNCHANGED vars
  BY <1>2, OwnIdle DEF Card, devVars, vars
<1>3. QED
  BY <1>1, <1>2, OwnKernel, OwnUser, OwnReopen DEF Next

\* On a handle of its own a call has the buffer its job names from alloc to
\* free, and none otherwise.
THEOREM BuffersInvariant == ASSUME PrivateHandles PROVE Spec => []BuffersInv
<1>1. TypeInv /\ BuffersInv /\ [Next]_vars => BuffersInv'
  BY OwnNext
<1>2. QED
  BY <1>1, BuffersInit, TypeInvariant, PTL DEF Spec

\* No path of pci_write leaks a kernel buffer, frees one twice, or uses one
\* of another call: not with signals at every wait, nor when some threads
\* pass pointers into the card.
THEOREM BuffersBelongToCalls ==
    ASSUME PrivateHandles PROVE Spec => []BuffersOwned
<1>1. ASSUME BuffersInv PROVE BuffersOwned
  <2>1. \A t \in Threads : t \in InFlight <=> Holding(t)
    BY DEF InFlight, Holding, InHand
  <2>2. InFlight \subseteq Threads
    BY DEF InFlight
  <2>3. {b \in Bufs : heap[b] # None} = {J(t).msg : t \in InFlight}
    BY <1>1, <2>1, <2>2 DEF BuffersInv, OwnInv
  <2>4. QED
    BY <1>1, <2>1, <2>2, <2>3 DEF BuffersInv, OwnInv, BuffersOwned
<1>2. QED
  BY <1>1, BuffersInvariant, PTL

\* No call uses a buffer pointer it has not got, whatever the pointers the
\* users pass and wherever a signal comes.
THEOREM NullIsNeverUsed ==
    ASSUME PrivateHandles PROVE Spec => []NullNeverUsed
<1>1. BuffersInv => NullNeverUsed
  BY DEF BuffersInv, BufferOK, NullNeverUsed
<1>2. QED
  BY <1>1, BuffersInvariant, PTL

-----------------------------------------------------------------------------
(* Waiting.                                                                *)

\* What can hold a call back: the semaphore, its sleep, its polling loop, and
\* the null pointer after which a call takes no step.
Blocked(t) ==
    \/ pc[t] = "down" /\ wsem = 0
    \/ pc[t] = "asleep"
    \/ pc[t] = "spin" /\ ~ Done(t)
    \/ pc[t] = "oops"

\* When all calls are held back, the card is at work or the handler is
\* running or called for: they do not just wait for each other.
SomebodyWorks ==
    (\E t \in Threads : Blocked(t))
        /\ (\A t \in Threads : pc[t] # "user" => Blocked(t))
    => Busy \/ isr # {} \/ irqpc # "idle"

LEMMA BlockedWaitsForCard ==
    ASSUME SemaphoreExcludes, NullNeverUsed, NEW t \in Threads, Blocked(t),
           \A u \in Threads : pc[u] # "user" => Blocked(u)
    PROVE  \E u \in Threads : pc[u] = "asleep" \/ (pc[u] = "spin" /\ ~ Done(u))
<1>1. CASE pc[t] = "down" /\ wsem = 0
  <2>1. PICK u \in Threads : pc[u] \in Inside
    BY <1>1 DEF SemaphoreExcludes, Holders
  <2>2. Blocked(u)
    BY <2>1 DEF Inside
  <2> QED
    BY <2>1, <2>2 DEF Blocked, Inside, NullNeverUsed
<1> QED
  BY <1>1 DEF Blocked, NullNeverUsed

\* On a single processor, or where all calls poll, the threads never all wait
\* for each other at the semaphore, at a sleep nobody ends or in a loop
\* nobody lets go on, for any number of threads.
THEOREM NobodyWaitsForNobody ==
    ASSUME PrivateHandles, ~ SMP \/ Polling
    PROVE  Spec => []SomebodyWorks
<1>1. ASSUME SemaphoreExcludes, NullNeverUsed, SleeperServed PROVE SomebodyWorks
  <2> SUFFICES ASSUME NEW t \in Threads, Blocked(t),
                      \A u \in Threads : pc[u] # "user" => Blocked(u)
               PROVE  Busy \/ isr # {} \/ irqpc # "idle"
    BY DEF SomebodyWorks
  <2>1. PICK u \in Threads : pc[u] = "asleep" \/ (pc[u] = "spin" /\ ~ Done(u))
    BY <1>1, BlockedWaitsForCard
  <2>2. CASE pc[u] = "spin" /\ ~ Done(u)
    BY <2>2 DEF Done, BusyBit
  <2>3. CASE pc[u] = "asleep"
    BY <1>1, <2>3 DEF SleeperServed, WakeupDue, BusyBit
  <2> QED
    BY <2>1, <2>2, <2>3
<1>2. Spec => []SleeperServed
  <2>1. CASE ~ SMP
    BY <2>1, SleepersAreServed
  <2>2. CASE Polling
    <3>1. NobodySleeps => SleeperServed
      BY DEF NobodySleeps, SleeperServed
    <3> QED
      BY <2>2, <3>1, PollersStayAwake, PTL
  <2> QED
    BY <2>1, <2>2
<1> QED
  BY <1>1, <1>2, MutualExclusion, NullIsNeverUsed, PTL

-----------------------------------------------------------------------------
(* What the card is asked for, with mapped pointers: on a handle of its    *)
(* own a call gets the key and the direction it asked for.                 *)

\* From the call to its result the job says what was asked, inside the
\* semaphore the key register does, and at work so does the engine.
ServedBy(t) ==
    /\ pc[t] # "user" => J(t).isE = ask[t].enc /\ J(t).keyab = ask[t].key
    /\ pc[t] \in Inside \ {"key", "up"} => keyReg = ask[t].key
    /\ Busy /\ pc[t] \in Waiting => op.enc = ask[t].enc

ServedInv == \A t \in Threads : ServedBy(t)

LEMMA ServedInit == Init => ServedInv
BY DEF Init, CardInit, ServedInv, ServedBy, Inside, Busy

LEMMA ServesHolder ==
    ASSUME HeldInv, ServedInv PROVE EngineServesHolder
BY DEF HeldInv, EngineHeld, ServedInv, ServedBy, EngineServesHolder, Waiting,
       Inside

\* A step of one thread, to a thread that is outside or while the key
\* register and the operation stay.
LEMMA ServedOthers ==
    ASSUME NEW t \in Threads, Alone(t), NEW u \in Threads, u # t, ServedBy(u),
           \/ pc[u] \notin Inside
           \/ UNCHANGED <<keyReg, phase, op>>
    PROVE  ServedBy(u)'
BY DEF Alone, ServedBy, J, Busy, Waiting, Inside

\* A step of a call that writes neither the key nor a command.
LEMMA ServedMoves ==
    ASSUME ServedInv, NEW t \in Threads, Alone(t),
           UNCHANGED <<ask, keyReg, phase, op>>,
           J(t)'.isE = J(t).isE, J(t)'.keyab = J(t).keyab,
           pc[t] # "user",
           pc'[t] \in Inside \ {"key", "up"} => pc[t] \in Inside \ {"key", "up"},
           pc'[t] \in Waiting => pc[t] \in Waiting
    PROVE  ServedInv'
<1>1. ServedBy(t)'
  BY DEF ServedInv, ServedBy, Busy
<1> QED
  BY <1>1, ServedOthers DEF ServedInv

LEMMA ServedQuiet ==
    ASSUME PrivateHandles, TypeInv, ServedInv, NEW t \in Threads,
           Down(t) \/ Kernel(t) \/ SignalWakes(t), ~ WriteKey(t), ~ Start(t)
    PROVE  ServedInv'
<1>1. /\ TypeOK /\ Alone(t) /\ J(t) \in Jobs
      /\ pc \in [Threads -> Inside \cup Outside]
  BY KernelAlone, JobType DEF TypeInv, TypeOK
<1>2. ASSUME UNCHANGED <<ask, keyReg, phase, op>>, J(t)' = J(t),
             pc[t] # "user",
             pc'[t] \in Inside \ {"key", "up"}
                 => pc[t] \in Inside \ {"key", "up"},
             pc'[t] \in Waiting => pc[t] \in Waiting
      PROVE  ServedInv'
  BY <1>1, <1>2, ServedMoves
<1>3. ASSUME NEW j \in Jobs, SetJob(t, j), j.isE = J(t).isE,
             j.keyab = J(t).keyab
      PROVE  J(t)'.isE = J(t).isE /\ J(t)'.keyab = J(t).keyab
  BY <1>1, <1>3, SetJobIs DEF J
<1>4. \A b \in Bufs \cup {None} :
         LET j == [J(t) EXCEPT !.msg = b]
         IN  j \in Jobs /\ j.isE = J(t).isE /\ j.keyab = J(t).keyab
  BY <1>1 DEF Jobs
<1> USE DEF Go, Fail, cardVars, J, Inside, Waiting
<1>5. CASE SetMmap(t)
  <2>1. LET j == [J(t) EXCEPT !.isNotMM = t \notin Mappers]
        IN  j \in Jobs /\ j.isE = J(t).isE /\ j.keyab = J(t).keyab
    BY <1>1 DEF Jobs
  <2>2. J(t)'.isE = J(t).isE /\ J(t)'.keyab = J(t).keyab
    BY <1>3, <1>5, <2>1 DEF SetMmap
  <2>3. pc[t] = "set_mmap" /\ pc'[t] = "write"
        /\ UNCHANGED <<ask, keyReg, phase, op>>
    BY <1>1, <1>5 DEF SetMmap
  <2> QED
    BY <1>1, <2>2, <2>3, ServedMoves
<1>6. CASE Alloc(t)
  <2>1. J(t)'.isE = J(t).isE /\ J(t)'.keyab = J(t).keyab
    BY <1>3, <1>4, <1>6 DEF Alloc, FreeBufs
  <2>2. pc[t] = "alloc" /\ pc'[t] \in {"copyin", "return"}
        /\ UNCHANGED <<ask, keyReg, phase, op>>
    BY <1>1, <1>6 DEF Alloc
  <2> QED
    BY <1>1, <2>1, <2>2, ServedMoves
<1>7. CASE FreeMsg(t)
  <2>1. J(t)'.isE = J(t).isE /\ J(t)'.keyab = J(t).keyab
    BY <1>3, <1>4, <1>7 DEF FreeMsg
  <2>2. pc[t] = "free" /\ pc'[t] = "return"
        /\ UNCHANGED <<ask, keyReg, phase, op>>
    BY <1>1, <1>7 DEF FreeMsg
  <2> QED
    BY <1>1, <2>1, <2>2, ServedMoves
<1>8. CASE Enter(t) \/ CopyIn(t)
  BY <1>1, <1>2, <1>8 DEF Enter, CopyIn, CopyInFails
<1>9. CASE Down(t)
  BY <1>1, <1>2, <1>9 DEF Down, DownTakes, DownInterrupted
<1>10. CASE LoadRegion(t) \/ MapDma(t)
  BY <1>1, <1>2, <1>10 DEF LoadRegion, MapDma, MapFails
<1>11. CASE Wait(t) \/ Spin(t) \/ SignalWakes(t)
  BY <1>1, <1>2, <1>11 DEF Wait, Interrupted, Spin, SignalWakes
<1>12. CASE DrainRegion(t) \/ DrainDma(t)
  BY <1>1, <1>2, <1>12 DEF DrainRegion, DrainDma, CopyOut
<1>13. CASE Up(t) \/ Return(t)
  BY <1>1, <1>2, <1>13 DEF Up, Return
<1> QED
  BY <1>5, <1>6, <1>7, <1>8, <1>9, <1>10, <1>11, <1>12, <1>13 DEF Kernel

LEMMA ServedWriteKey ==
    ASSUME PrivateHandles, TypeInv, ServedInv, NEW t \in Threads, WriteKey(t)
    PROVE  ServedInv'
<1>1. /\ TypeOK /\ Alone(t) /\ ServedBy(t)
      /\ pc[t] = "key" /\ pc'[t] = "load"
      /\ UNCHANGED <<ask, job, phase, op>> /\ keyReg' = J(t).keyab
  BY KernelAlone DEF Kernel, TypeInv, TypeOK, ServedInv, WriteKey, Go
<1>2. ServedBy(t)'
  BY <1>1 DEF ServedBy, J, Waiting
<1>3. \A u \in Threads : u # t => pc[u] \notin Inside
  BY <1>1, HolderUnique DEF Inside
<1> QED
  BY <1>1, <1>2, <1>3, ServedOthers DEF ServedInv

LEMMA ServedStart ==
    ASSUME PrivateHandles, TypeInv, HeldInv, ServedInv, NEW t \in Threads,
           Start(t)
    PROVE  ServedInv'
<1>1. /\ TypeOK /\ Alone(t) /\ ServedBy(t)
      /\ pc[t] = "start" /\ pc'[t] \in {"wait", "spin"}
      /\ UNCHANGED <<ask, job, keyReg>>
  BY KernelAlone DEF Kernel, TypeInv, TypeOK, ServedInv, Start, Go
<1>2. ~ Busy
  BY <1>1, IdleAtWork DEF HeldInv, Inside, Waiting
<1>3. op'.enc = J(t).isE
  BY <1>2 DEF Start, Command, Trigger
<1>4. ServedBy(t)'
  BY <1>1, <1>3 DEF ServedBy, J, Inside
<1>5. \A u \in Threads : u # t => pc[u] \notin Inside
  BY <1>1, HolderUnique DEF Inside
<1> QED
  BY <1>1, <1>4, <1>5, ServedOthers DEF ServedInv

LEMMA ServedUser ==
    ASSUME PrivateHandles, TypeInv, ServedInv, NEW t \in Threads, User(t)
    PROVE  ServedInv'
<1>1. TypeOK /\ Alone(t) /\ J(t) \in Jobs
  BY UserAlone, JobType DEF TypeInv
<1>2. PICK c \in Calls[t] :
         SetKey(t, c) \/ SetDMA(t, c) \/ SetIntr(t, c) \/ Encrypt(t, c)
  BY DEF User
<1>3. UNCHANGED <<keyReg, phase, op>>
  BY <1>2 DEF SetKey, SetDMA, SetIntr, Configure, Encrypt, cardVars
<1>4. CASE SetKey(t, c) \/ SetDMA(t, c) \/ SetIntr(t, c)
  <2>1. pc'[t] = "user"
    BY <1>4 DEF SetKey, SetDMA, SetIntr, Configure
  <2> QED
    BY <1>1, <1>3, <2>1, ServedOthers DEF ServedInv, ServedBy, Inside, Waiting
<1>5. CASE Encrypt(t, c)
  <2>1. pc'[t] = "set_mmap" /\ ask'[t] = [enc |-> c.enc, key |-> c.key]
    BY <1>1, <1>5 DEF Encrypt, Go, TypeOK
  <2>2. job'[HandleOf[t]] = [J(t) EXCEPT !.isE = c.enc]
    BY <1>1, <1>5, SetJobIs DEF Encrypt
  <2>3. J(t)'.isE = c.enc /\ J(t)'.keyab = c.key
    BY <1>1, <1>5, <2>2 DEF Encrypt, Jobs, J
  <2>4. ServedBy(t)'
    BY <2>1, <2>3 DEF ServedBy, Inside, Waiting
  <2> QED
    BY <1>1, <1>3, <2>4, ServedOthers DEF ServedInv
<1> QED
  BY <1>2, <1>4, <1>5

LEMMA ServedReopen ==
    ASSUME TypeInv, ServedInv, NEW h \in Handles, Reopen(h)
    PROVE  ServedInv'
<1> SUFFICES ASSUME NEW t \in Threads PROVE ServedBy(t)'
  BY DEF ServedInv
<1>1. ServedBy(t) /\ UNCHANGED <<cardVars, pc, ask>>
  BY DEF ServedInv, Reopen
<1>2. CASE HandleOf[t] = h
  <2>1. pc[t] = "user"
    BY <1>2 DEF Reopen
  <2> QED
    BY <1>1, <2>1 DEF ServedBy, Inside, Waiting
<1>3. CASE HandleOf[t] # h
  <2>1. J(t)' = J(t)
    BY <1>3, HandleAssumption DEF Reopen, TypeInv, TypeOK, J
  <2> QED
    BY <1>1, <2>1 DEF ServedBy, Busy, cardVars
<1> QED
  BY <1>2, <1>3

\* The handler may wake sleepers, and the engine may fetch or finish.
LEMMA ServedStill ==
    ASSUME ServedInv, UNCHANGED <<keyReg, ask, job>>,
           Busy' => Busy /\ op' = op,
           \A u \in Threads :
               pc'[u] = pc[u] \/ (pc[u] = "asleep" /\ pc'[u] = "wait")
    PROVE  ServedInv'
<1> SUFFICES ASSUME NEW t \in Threads PROVE ServedBy(t)'
  BY DEF ServedInv
<1> QED
  BY DEF ServedInv, ServedBy, J, Inside, Waiting

LEMMA ServedNext ==
    ASSUME PrivateHandles, TypeInv, HeldInv, ServedInv, [Next]_vars
    PROVE  ServedInv'
<1>1. CASE Irq
  BY <1>1, ServedStill DEF Irq, IrqRead, IrqWake, IrqAck, cardVars, Busy
<1>2. CASE Card
  BY <1>2, ServedStill DEF Card, Engine, Fetch, Finish, devVars, Busy
<1>3. CASE UNCHANGED vars
  BY <1>3, ServedStill DEF vars, devVars, cardVars, Busy
<1> QED
  BY <1>1, <1>2, <1>3, ServedQuiet, ServedWriteKey, ServedStart, ServedUser,
     ServedReopen DEF Next

\* On handles of their own, and with nobody torn from the wait, key register
\* and engine are set as the call inside the semaphore has asked.
THEOREM ServedInvariant ==
    ASSUME PrivateHandles, WaitsUndisturbed PROVE Spec => []ServedInv
<1>1. TypeInv /\ HeldInv /\ ServedInv /\ [Next]_vars => ServedInv'
  BY ServedNext
<1> QED
  BY <1>1, ServedInit, TypeInvariant, HeldInvariant, PTL DEF Spec

\* While the card is busy, the thread that triggered it is still waiting for
\* it inside the semaphore, and the card works with its key and in its
\* direction; no call leaves the card working for nobody, whatever the others
\* do in the window.
THEOREM CardServesHolder ==
    ASSUME PrivateHandles, WaitsUndisturbed PROVE Spec => []EngineServesHolder
<1>1. HeldInv /\ ServedInv => EngineServesHolder
  BY ServesHolder
<1> QED
  BY <1>1, HeldInvariant, ServedInvariant, PTL

-----------------------------------------------------------------------------
(* The calls.                                                              *)

\* The call's own state: the job still says how the card is to be used, the
\* buffer holds the message, and the result goes with what the user finds.
CallOK(t) ==
    /\ pc[t] # "user" =>
          \E c \in Calls[t] : J(t).isM = c.isM /\ J(t).isI = c.isI
    /\ pc[t] \notin {"user", "set_mmap"} => (J(t).isNotMM <=> t \notin Mappers)
    /\ pc[t] \in {"load"} \cup DmaPlaces => (via[t] = "MMIO" <=> J(t).isM)
    /\ pc[t] \in {"wait", "asleep"} => J(t).isI
    /\ pc[t] \in {"down", "key", "load"} /\ J(t).isNotMM =>
          heap[J(t).msg] = Msg[t]
    /\ pc[t] \notin Finished => ret[t] = "ok" /\ ubuf[t] = Msg[t]
    /\ pc[t] \in Asked => View(t) = Msg[t]
    /\ pc[t] \in Finished =>
          /\ ret[t] = "ok" => View(t) = Answer(t)
          /\ ret[t] \notin {"ok", "EAGAIN"} => View(t) = Msg[t]
          /\ ret[t] = "ERESTARTSYS" => ubuf[t] = Msg[t]

\* Where the card reads and writes the message of t.
Place(t) == IF via[t] = "MMIO" THEN region ELSE bus[dma[t].at]

\* The message that the holder of the semaphore has given to the card, and
\* the answer it finds there when the card has done.
CardOK(t) ==
    /\ pc[t] = "start" => Place(t) = Msg[t]
    /\ pc[t] = "drain" => Place(t) = Answer(t)
    /\ pc[t] \in Waiting =>
          /\ phase = "armed" => Place(t) = Msg[t]
          /\ phase = "fetched" => work = Answer(t)
          /\ phase = "idle" => Place(t) = Answer(t)

CallsInv ==
    /\ BuffersInv
    /\ \A t \in Threads : CallOK(t)
    /\ \A t \in Threads : CardOK(t)
    /\ HeldInv
    /\ ServedInv

LEMMA CallsInit == ASSUME Init PROVE CallsInv
<1>1. BuffersInv
  BY BuffersInit
<1>2. \A t \in Threads : CallOK(t)
  BY DEF Init, CallOK, DmaPlaces, Asked, Finished
<1>3. \A t \in Threads : CardOK(t)
  BY DEF Init, CardOK, Waiting
<1>4. HeldInv /\ ServedInv
  BY HeldInit, ServedInit
<1>5. QED
  BY <1>1, <1>2, <1>3, <1>4 DEF CallsInv

\* No signal finds a call in its wait for the card.
LEMMA NoSignalHere ==
    ASSUME Orderly, CallsInv, NEW t \in Threads, pc[t] \in {"wait", "asleep"}
    PROVE  ~ Signals
<1>1. CallOK(t)
  BY DEF CallsInv
<1>2. QED
  BY <1>1 DEF CallOK, Orderly, WaitsUndisturbed, Polling

\* Who shares the card with a mapped message keeps off the window.
LEMMA OffWindow ==
    ASSUME Orderly, CallsInv, NEW t \in Threads, NEW u \in Threads, u # t,
           t \in Mappers
    PROVE  /\ u \notin Mappers
           /\ pc[u] \in {"load"} \cup DmaPlaces => via[u] # "MMIO"
<1>1. u \notin Mappers /\ \A c \in Calls[u] : ~ c.isM
  BY DEF Orderly, WindowOwned
<1>2. CallOK(u)
  BY DEF CallsInv
<1>3. QED
  BY <1>1, <1>2 DEF CallOK, DmaPlaces

LEMMA WindowAlone ==
    ASSUME Orderly, TypeInv, CallsInv, NEW t \in Threads,
           Down(t) \/ Kernel(t) \/ SignalWakes(t),
           NEW u \in Threads, u # t, u \in Mappers
    PROVE  region' = region
<1>1. CASE LoadRegion(t)
  BY <1>1, OffWindow DEF LoadRegion, Go
<1>2. CASE ~ LoadRegion(t)
  BY <1>2 DEF Kernel, SetMmap, Enter, Alloc, CopyIn, Down, WriteKey, MapDma,
              Start, Wait, Spin, DrainRegion, DrainDma, Up, FreeMsg, Return,
              SignalWakes, cardVars
<1>3. QED
  BY <1>1, <1>2

\* No step touches the buffer of another call.
LEMMA HeapAlone ==
    ASSUME TypeInv, BuffersInv, NEW t \in Threads,
           Down(t) \/ Kernel(t) \/ SignalWakes(t),
           NEW u \in Threads, u # t, Holding(u)
    PROVE  heap'[J(u).msg] = heap[J(u).msg]
<1>1. J(u).msg \in Bufs /\ heap[J(u).msg] # None /\ TypeOK
  BY DEF BuffersInv, OwnInv, TypeInv
<1>2. Holding(t) => /\ J(t).msg \in Bufs /\ heap[J(t).msg] # None
                    /\ J(t).msg # J(u).msg
  BY DEF BuffersInv, OwnInv
<1>3. BufferOK(t)
  BY DEF BuffersInv
<1>4. CASE UNCHANGED heap
  BY <1>4
<1>5. CASE Alloc(t)
  BY <1>1, <1>5 DEF Alloc, FreeBufs, TypeOK
<1>6. CASE CopyIn(t)
  <2>1. Holding(t)
    BY <1>3, <1>6
       DEF CopyIn, CopyInFails, Go, Fail, BufferOK, Holding, InHand
  <2>2. QED
    BY <1>1, <1>2, <1>6, <2>1, StoreHere DEF CopyIn
<1>7. CASE DrainRegion(t) /\ J(t).isNotMM
  <2>1. Holding(t)
    BY <1>7 DEF DrainRegion, CopyOut, Go, Fail, Holding, InHand, Inside
  <2>2. QED
    BY <1>1, <1>2, <1>7, <2>1, StoreHere DEF DrainRegion
<1>8. CASE DrainDma(t)
  <2>1. Holding(t) /\ dma[t].buf = J(t).msg
    BY <1>3, <1>8 DEF DrainDma, Holding, InHand, Inside, BufferOK, DmaPlaces
  <2>2. QED
    BY <1>1, <1>2, <1>8, <2>1, StoreHere DEF DrainDma
<1>9. CASE FreeMsg(t) /\ HasBuffer(t)
  <2>1. Holding(t)
    BY <1>9 DEF FreeMsg, HasBuffer, Go, Holding, InHand
  <2>2. QED
    BY <1>1, <1>2, <1>9, <2>1 DEF FreeMsg, TypeOK
<1>10. QED
  BY <1>4, <1>5, <1>6, <1>7, <1>8, <1>9
     DEF Kernel, SetMmap, Enter, Down, WriteKey, LoadRegion, MapDma, Start,
         Wait, Spin, Up, Return, SignalWakes, DrainRegion, FreeMsg

LEMMA CallOKOthers ==
    ASSUME CallsInv, NEW t \in Threads, Alone(t), NEW u \in Threads, u # t,
           Holding(u) => heap'[J(u).msg] = heap[J(u).msg],
           u \in Mappers => region' = region
    PROVE  CallOK(u)'
<1>1. /\ CallOK(u)
      /\ pc'[u] = pc[u] /\ ask'[u] = ask[u] /\ ubuf'[u] = ubuf[u]
      /\ ret'[u] = ret[u] /\ J(u)' = J(u) /\ via'[u] = via[u]
  BY DEF CallsInv, Alone, J
<1>2. View(u)' = View(u) /\ Answer(u)' = Answer(u)
  BY <1>1 DEF View, Answer
<1>3. pc[u] \in {"down", "key", "load"} /\ J(u).isNotMM => Holding(u)
  BY DEF Holding, InHand, Inside
<1>4. QED
  BY <1>1, <1>2, <1>3 DEF CallOK

\* The call keeps its own state in order, step by step: first the steps
\* that change neither the job nor the buffer nor what the user finds.
LEMMA CallOKMoves ==
    ASSUME Orderly, TypeInv, CallsInv, NEW t \in Threads,
           \/ Enter(t) \/ Down(t) \/ WriteKey(t) \/ LoadRegion(t)
           \/ MapDma(t) \/ Start(t) \/ Wait(t) \/ Spin(t) \/ Up(t)
           \/ SignalWakes(t)
    PROVE  CallOK(t)'
<1>1. /\ CallOK(t) /\ BufferOK(t) /\ TypeOK
      /\ pc[t] \in {"wait", "asleep"} => ~ Signals
  BY NoSignalHere DEF CallsInv, BuffersInv, TypeInv
<1>2. /\ pc \in [Threads -> Inside \cup Outside]
      /\ ret \in [Threads -> Codes] /\ via \in [Threads -> Vias]
  BY <1>1 DEF TypeOK
<1>3. /\ J(t)' = J(t) /\ heap' = heap /\ Answer(t)' = Answer(t)
      /\ ubuf' = ubuf
  BY DEF Enter, Down, WriteKey, LoadRegion, MapDma, Start, Wait, Spin, Up,
         SignalWakes, J, Answer
<1>4. View(t)' = View(t)
  <2>1. CASE LoadRegion(t)
    <3>1. t \in Mappers => ~ J(t).isNotMM
      BY <1>1, <2>1 DEF LoadRegion, Go, CallOK
    <3>2. QED
      BY <1>3, <2>1, <3>1 DEF LoadRegion, View
  <2>2. CASE ~ LoadRegion(t)
    BY <1>3, <2>2 DEF Enter, Down, WriteKey, MapDma, Start, Wait, Spin, Up,
                      SignalWakes, View, cardVars
  <2>3. QED
    BY <2>1, <2>2
<1> USE DEF Go, Fail, CallOK, Inside, DmaPlaces, Asked, Finished
<1>5. CASE Enter(t)
  BY <1>1, <1>2, <1>3, <1>4, <1>5 DEF Enter, BufferOK, InHand
<1>6. CASE Down(t)
  BY <1>1, <1>2, <1>3, <1>4, <1>6 DEF Down, DownTakes, DownInterrupted
<1>7. CASE WriteKey(t)
  BY <1>1, <1>2, <1>3, <1>4, <1>7 DEF WriteKey
<1>8. CASE LoadRegion(t)
  BY <1>1, <1>2, <1>3, <1>4, <1>8 DEF LoadRegion
<1>9. CASE MapDma(t)
  BY <1>1, <1>2, <1>3, <1>4, <1>9 DEF MapDma, MapFails
<1>10. CASE Start(t)
  BY <1>1, <1>2, <1>3, <1>4, <1>10 DEF Start
<1>11. CASE Wait(t)
  BY <1>1, <1>2, <1>3, <1>4, <1>11 DEF Wait, Interrupted
<1>12. CASE Spin(t)
  BY <1>1, <1>2, <1>3, <1>4, <1>12 DEF Spin
<1>13. CASE Up(t)
  BY <1>1, <1>2, <1>3, <1>4, <1>13 DEF Up
<1>14. CASE SignalWakes(t)
  BY <1>1, <1>14 DEF SignalWakes
<1>15. QED
  BY <1>5, <1>6, <1>7, <1>8, <1>9, <1>10, <1>11, <1>12, <1>13, <1>14

\* The steps that make, fill or free the buffer.
LEMMA CallOKBuffer ==
    ASSUME Orderly, TypeInv, CallsInv, NEW t \in Threads,
           SetMmap(t) \/ Alloc(t) \/ CopyIn(t) \/ FreeMsg(t) \/ Return(t)
    PROVE  CallOK(t)'
<1>1. CallOK(t) /\ BufferOK(t) /\ TypeOK /\ J(t) \in Jobs
  BY JobType DEF CallsInv, BuffersInv, TypeInv
<1>2. /\ pc \in [Threads -> Inside \cup Outside]
      /\ ret \in [Threads -> Codes] /\ ubuf \in [Threads -> Data]
  BY <1>1 DEF TypeOK
<1>3. UNCHANGED <<ask, via, region>> /\ Answer(t)' = Answer(t)
  BY DEF SetMmap, Alloc, CopyIn, FreeMsg, Return, Answer, cardVars
<1> USE DEF Go, Fail, CallOK, DmaPlaces, Asked, Finished, View
<1>4. CASE SetMmap(t)
  <2>1. job'[HandleOf[t]] = [J(t) EXCEPT !.isNotMM = t \notin Mappers]
    BY <1>1, <1>4, SetJobIs DEF SetMmap
  <2>2. /\ J(t)'.isM = J(t).isM /\ J(t)'.isI = J(t).isI
        /\ J(t)'.isNotMM = (t \notin Mappers)
    BY <1>1, <2>1 DEF J, Jobs
  <2>3. QED
    BY <1>1, <1>2, <1>3, <1>4, <2>2 DEF SetMmap
<1>5. ASSUME NEW b, SetJob(t, [J(t) EXCEPT !.msg = b])
      PROVE  /\ J(t)'.isM = J(t).isM /\ J(t)'.isI = J(t).isI
             /\ J(t)'.isNotMM = J(t).isNotMM
  <2>1. job'[HandleOf[t]] = [J(t) EXCEPT !.msg = b]
    BY <1>1, <1>5, SetJobIs
  <2>2. QED
    BY <1>1, <2>1 DEF J, Jobs
<1>6. CASE Alloc(t)
  <2>1. /\ J(t)'.isM = J(t).isM /\ J(t)'.isI = J(t).isI
        /\ J(t)'.isNotMM = J(t).isNotMM
    BY <1>5, <1>6 DEF Alloc
  <2>2. /\ pc[t] = "alloc" /\ ubuf' = ubuf
        /\ \/ pc'[t] = "copyin" /\ ret' = ret
           \/ pc'[t] = "return" /\ ret'[t] = "ENOMEM"
    BY <1>2, <1>6 DEF Alloc
  <2>3. View(t)' = View(t)
    BY <1>3, <2>2
  <2>4. QED
    BY <1>1, <1>3, <2>1, <2>2, <2>3
<1>7. CASE CopyIn(t)
  <2>1. J(t)' = J(t)
    BY <1>7 DEF CopyIn, J
  <2>2. CASE pc'[t] = "down"
    <3>1. pc[t] = "copyin" /\ heap' = Store(J(t).msg, ubuf[t])
      BY <1>2, <1>7, <2>2 DEF CopyIn, CopyInFails
    <3>2. J(t).msg \in Bufs /\ heap[J(t).msg] # None
      BY <1>1, <3>1
         DEF CallsInv, BuffersInv, OwnInv, BufferOK, Holding, InHand
    <3>3. heap'[J(t).msg] = Msg[t]
      BY <1>1, <3>1, <3>2, StoreHere
    <3>4. QED
      BY <1>1, <1>2, <1>3, <1>7, <2>1, <3>3 DEF CopyIn, CopyInFails
  <2>3. CASE CopyInFails(t)
    BY <1>1, <1>2, <1>3, <1>7, <2>1, <2>3 DEF CopyIn, CopyInFails
  <2>4. QED
    BY <1>2, <1>7, <2>2, <2>3 DEF CopyIn
<1>8. CASE FreeMsg(t)
  <2>1. /\ J(t)'.isM = J(t).isM /\ J(t)'.isI = J(t).isI
        /\ J(t)'.isNotMM = J(t).isNotMM
    BY <1>5, <1>8 DEF FreeMsg
  <2>2. QED
    BY <1>1, <1>2, <1>3, <1>8, <2>1 DEF FreeMsg
<1>9. CASE Return(t)
  <2>1. J(t)' = J(t)
    BY <1>9 DEF Return, J
  <2>2. QED
    BY <1>1, <1>2, <1>3, <1>9, <2>1 DEF Return
<1>10. QED
  BY <1>4, <1>6, <1>7, <1>8, <1>9

\* The steps that hand out the answer.
LEMMA CallOKDrain ==
    ASSUME TypeInv, CallsInv, NEW t \in Threads,
           DrainRegion(t) \/ DrainDma(t)
    PROVE  CallOK(t)' /\ pc'[t] = "up"
<1>1. /\ CallOK(t) /\ BufferOK(t) /\ TypeOK /\ CardOK(t)
      /\ (Holding(t) => J(t).msg \in Bufs /\ heap[J(t).msg] # None)
  BY DEF CallsInv, BuffersInv, OwnInv, TypeInv
<1>2. /\ pc \in [Threads -> Inside \cup Outside]
      /\ ret \in [Threads -> Codes] /\ ubuf \in [Threads -> Data]
  BY <1>1 DEF TypeOK
<1>3. pc[t] = "drain"
  BY DEF DrainRegion, DrainDma, CopyOut, Go, Fail
<1>4. Place(t) = Answer(t) /\ Answer(t) # None
  BY <1>1, <1>3, AnswerType DEF CardOK
<1>5. /\ J(t)' = J(t) /\ UNCHANGED <<ask, via, region>>
      /\ Answer(t)' = Answer(t)
  BY DEF DrainRegion, DrainDma, J, Answer, cardVars
<1>6. ASSUME CopyOut(t, Answer(t)), t \notin Mappers
      PROVE  CallOK(t)' /\ pc'[t] = "up"
  BY <1>1, <1>2, <1>3, <1>5, <1>6
     DEF CopyOut, CallOK, View, Go, Fail, Inside, DmaPlaces, Asked, Finished
<1>7. CASE DrainRegion(t) /\ ~ J(t).isNotMM
  <2>1. region = Answer(t) /\ t \in Mappers
    BY <1>1, <1>3, <1>4, <1>7 DEF DrainRegion, Place, CallOK
  <2>2. pc'[t] = "up" /\ UNCHANGED <<heap, ubuf, ret>>
    BY <1>2, <1>7 DEF DrainRegion, Go
  <2>3. QED
    BY <1>1, <1>3, <1>5, <2>1, <2>2
       DEF CallOK, View, DmaPlaces, Asked, Finished
<1>8. CASE DrainRegion(t) /\ J(t).isNotMM
  <2>1. /\ J(t).msg \in Bufs /\ heap[J(t).msg] # None /\ t \notin Mappers
        /\ J(t).msg # None
    BY <1>1, <1>3, <1>8, BufAssumption DEF Holding, InHand, Inside, CallOK
  <2>2. heap' = Store(J(t).msg, Answer(t))
    BY <1>4, <1>8, <2>1 DEF DrainRegion, Place
  <2>3. heap'[J(t).msg] = Answer(t)
    BY <1>1, <2>1, <2>2, StoreHere
  <2>4. CopyOut(t, Answer(t))
    BY <1>4, <1>8, <2>1, <2>3, LoadHere DEF DrainRegion
  <2>5. QED
    BY <1>6, <2>1, <2>4
<1>9. CASE DrainDma(t)
  <2>1. J(t).isNotMM /\ dma[t].buf = J(t).msg
    BY <1>1, <1>3, <1>9 DEF DrainDma, BufferOK, DmaPlaces
  <2>2. /\ J(t).msg \in Bufs /\ heap[J(t).msg] # None /\ t \notin Mappers
        /\ J(t).msg # None
    BY <1>1, <1>3, <2>1, BufAssumption DEF Holding, InHand, Inside, CallOK
  <2>3. heap' = Store(J(t).msg, Answer(t))
    BY <1>4, <1>9, <2>1 DEF DrainDma, Place
  <2>4. heap'[J(t).msg] = Answer(t)
    BY <1>1, <2>2, <2>3, StoreHere
  <2>5. CopyOut(t, Answer(t))
    BY <1>4, <1>9, <2>2, <2>4, LoadHere DEF DrainDma
  <2>6. QED
    BY <1>6, <2>2, <2>5
<1>10. QED
  BY <1>7, <1>8, <1>9

LEMMA CallOKOwn ==
    ASSUME Orderly, TypeInv, CallsInv, NEW t \in Threads,
           Down(t) \/ Kernel(t) \/ SignalWakes(t)
    PROVE  CallOK(t)'
BY CallOKMoves, CallOKBuffer, CallOKDrain DEF Kernel

LEMMA CallOKUser ==
    ASSUME Orderly, TypeInv, CallsInv, NEW t \in Threads, User(t)
    PROVE  /\ CallOK(t)' /\ UNCHANGED heap
           /\ t \in Mappers \/ UNCHANGED region
<1>1. CallOK(t) /\ TypeOK /\ J(t) \in Jobs
  BY JobType DEF CallsInv, TypeInv
<1>2. PICK c \in Calls[t] :
         SetKey(t, c) \/ SetDMA(t, c) \/ SetIntr(t, c) \/ Encrypt(t, c)
  BY DEF User
<1>3. ASSUME NEW j, Configure(t, j)
      PROVE  CallOK(t)' /\ UNCHANGED heap /\ UNCHANGED region
  BY <1>1, <1>3 DEF Configure, CallOK, DmaPlaces, Asked, Finished, cardVars
<1>4. CASE Encrypt(t, c)
  <2>1. job'[HandleOf[t]] = [J(t) EXCEPT !.isE = c.enc]
    BY <1>1, <1>4, SetJobIs DEF Encrypt
  <2>2. pc'[t] = "set_mmap" /\ ask'[t] = [enc |-> c.enc, key |-> c.key]
    BY <1>1, <1>4 DEF Encrypt, Go, TypeOK
  <2>3. J(t)'.isM = c.isM /\ J(t)'.isI = c.isI
    BY <1>1, <1>4, <2>1 DEF Encrypt, Jobs, J
  <2>4. /\ pc[t] = "user" /\ ret'[t] = ret[t] /\ ubuf'[t] = ubuf[t]
        /\ heap' = heap
        /\ region' = IF t \in Mappers THEN Msg[t] ELSE region
    BY <1>4 DEF Encrypt, Go
  <2>5. ret'[t] = "ok" /\ ubuf'[t] = Msg[t] /\ View(t)' = Msg[t]
    BY <1>1, <2>4 DEF CallOK, View, Finished
  <2>6. QED
    BY <1>2, <2>2, <2>3, <2>4, <2>5
       DEF CallOK, DmaPlaces, Asked, Finished
<1>5. QED
  BY <1>2, <1>3, <1>4 DEF SetKey, SetDMA, SetIntr

LEMMA CallOKReopen ==
    ASSUME TypeInv, CallsInv, NEW h \in Handles, Reopen(h),
           NEW t \in Threads
    PROVE  CallOK(t)'
<1>1. /\ CallOK(t) /\ pc' = pc /\ ask' = ask /\ ubuf' = ubuf /\ ret' = ret
      /\ heap' = heap /\ via' = via /\ region' = region
  BY DEF CallsInv, Reopen, cardVars
<1>2. CASE HandleOf[t] = h
  BY <1>1, <1>2 DEF Reopen, CallOK, DmaPlaces, Asked, Finished
<1>3. CASE HandleOf[t] # h
  <2>1. J(t)' = J(t)
    BY <1>3, HandleAssumption DEF Reopen, TypeInv, TypeOK, J
  <2>2. QED
    BY <1>1, <2>1 DEF CallOK, View, Answer
<1>4. QED
  BY <1>2, <1>3

LEMMA CallOKIrq ==
    ASSUME CallsInv, Irq, NEW t \in Threads PROVE CallOK(t)'
<1>1. /\ CallOK(t) /\ J(t)' = J(t) /\ ask' = ask /\ ubuf' = ubuf
      /\ ret' = ret /\ heap' = heap /\ via' = via /\ region' = region
  BY DEF CallsInv, Irq, IrqRead, IrqWake, IrqAck, J, cardVars
<1>2. pc'[t] = pc[t] \/ (pc[t] = "asleep" /\ pc'[t] = "wait")
  BY DEF Irq, IrqRead, IrqWake, IrqAck
<1>3. View(t)' = View(t) /\ Answer(t)' = Answer(t)
  BY <1>1 DEF View, Answer
<1>4. QED
  BY <1>1, <1>2, <1>3 DEF CallOK, DmaPlaces, Asked, Finished

\* The card writes the window for who waits for it, and the others have
\* nothing there.
LEMMA CallOKCard ==
    ASSUME Orderly, CallsInv, Card, NEW u \in Threads PROVE CallOK(u)'
<1>1. Busy /\ UNCHANGED devVars
  BY DEF Card, Engine, Fetch, Finish, Busy
<1>2. PICK t \in Threads : pc[t] \in Waiting /\ op.via = via[t]
  BY <1>1 DEF CallsInv, HeldInv, EngineHeld
<1>3. CallOK(u) /\ J(u)' = J(u) /\ Answer(u)' = Answer(u)
  BY <1>1 DEF CallsInv, devVars, J, Answer
<1>4. CASE u \notin Mappers \/ region' = region
  <2>1. View(u)' = View(u)
    BY <1>1, <1>4 DEF View, devVars
  <2>2. QED
    BY <1>1, <1>3, <2>1 DEF CallOK, devVars
<1>5. CASE u \in Mappers /\ region' # region
  <2>1. via[t] = "MMIO"
    BY <1>2, <1>5 DEF Card, Engine, Fetch, Finish
  <2>2. u = t
    BY <1>2, <1>5, <2>1, OffWindow DEF Waiting, DmaPlaces
  <2>3. QED
    BY <1>1, <1>2, <1>3, <2>2
       DEF CallOK, devVars, Waiting, Asked, Finished
<1>6. QED
  BY <1>4, <1>5

LEMMA CallOKSame ==
    ASSUME CallsInv, UNCHANGED vars, NEW t \in Threads PROVE CallOK(t)'
<1>1. UNCHANGED <<region, via, job, ask, heap, ubuf, ret, pc>>
  BY DEF vars, devVars, cardVars
<1>2. /\ J(t)' = J(t) /\ Answer(t)' = Answer(t)
      /\ View(t)' = View(t)
  BY <1>1 DEF J, Answer, View
<1>3. CallOK(t)
  BY DEF CallsInv
<1>4. QED
  BY <1>1, <1>2, <1>3 DEF CallOK

LEMMA CallOKStep ==
    ASSUME Orderly, TypeInv, CallsInv, [Next]_vars, NEW u \in Threads
    PROVE  CallOK(u)'
<1>1. ASSUME NEW t \in Threads, User(t) PROVE CallOK(u)'
  <2>1. Alone(t) /\ CallOK(t)' /\ heap' = heap
        /\ (t \in Mappers \/ region' = region)
    BY <1>1, UserAlone, CallOKUser DEF Orderly, TypeInv
  <2>2. u # t /\ u \in Mappers => t \notin Mappers
    BY OffWindow
  <2>3. QED
    BY <2>1, <2>2, CallOKOthers
<1>2. ASSUME NEW t \in Threads, Down(t) \/ Kernel(t) \/ SignalWakes(t)
      PROVE  CallOK(u)'
  <2>1. Alone(t) /\ CallOK(t)' /\ BuffersInv
    BY <1>2, KernelAlone, CallOKOwn DEF Orderly, TypeInv, CallsInv
  <2>2. QED
    BY <1>2, <2>1, HeapAlone, WindowAlone, CallOKOthers
<1>3. QED
  BY <1>1, <1>2, CallOKReopen, CallOKIrq, CallOKCard, CallOKSame DEF Next

-----------------------------------------------------------------------------
(* The message in the card.                                                *)

CardInv == \A t \in Threads : CardOK(t)

\* The engine works for the thread inside, while that thread waits.
LEMMA ServesOnly ==
    ASSUME TypeInv, CallsInv, NEW t \in Threads, pc[t] \in Inside, Busy
    PROVE  /\ pc[t] \in Waiting
           /\ op.via = via[t] /\ op.enc = ask[t].enc /\ keyReg = ask[t].key
           /\ op.slot = IF via[t] = "DMA" THEN dma[t].at ELSE None
<1>1. PICK u \in Threads :
         /\ pc[u] \in Waiting
         /\ op.via = via[u] /\ op.enc = ask[u].enc /\ keyReg = ask[u].key
         /\ op.slot = IF via[u] = "DMA" THEN dma[u].at ELSE None
  BY ServesHolder DEF CallsInv, EngineServesHolder
<1>2. u = t
  BY <1>1, HolderUnique DEF Waiting, Inside
<1>3. QED
  BY <1>1, <1>2

\* A step outside of the semaphore leaves the card alone, but for a message
\* that its caller keeps in the window.
LEMMA CardOutside ==
    ASSUME Orderly, CallsInv, NEW t \in Threads, Alone(t),
           UNCHANGED <<bus, phase, work>>,
           region' = region \/ t \in Mappers,
           pc[t] \notin Inside, pc'[t] \notin Inside \ {"key"}
    PROVE  CardInv'
<1>1. ASSUME NEW u \in Threads PROVE CardOK(u)'
  <2>1. CASE u = t
    BY <2>1 DEF CardOK, Waiting, Inside
  <2>2. CASE u # t
    <3>1. /\ pc'[u] = pc[u] /\ ask'[u] = ask[u] /\ via'[u] = via[u]
          /\ dma'[u] = dma[u]
      BY <2>2 DEF Alone
    <3>2. CardOK(u)
      BY DEF CallsInv
    <3>3. pc[u] \in DmaPlaces => Place(u)' = Place(u)
      BY <2>2, <3>1, OffWindow DEF Place
    <3>4. Answer(u)' = Answer(u)
      BY <3>1 DEF Answer
    <3>5. QED
      BY <3>1, <3>2, <3>3, <3>4 DEF CardOK, DmaPlaces, Waiting
  <2>3. QED
    BY <2>1, <2>2
<1>2. QED
  BY <1>1 DEF CardInv

\* While one thread is inside, the others keep off the card.
LEMMA CardOthers ==
    ASSUME TypeInv, NEW t \in Threads, pc[t] \in Inside, Alone(t),
           NEW u \in Threads, u # t
    PROVE  CardOK(u)'
<1>1. pc'[u] = pc[u] /\ pc[u] \notin Inside
  BY HolderUnique DEF Alone
<1>2. QED
  BY <1>1 DEF CardOK, Waiting, Inside

\* Steps inside by which the call has not yet given the card its message,
\* or has taken its answer.
LEMMA CardAside ==
    ASSUME Orderly, TypeInv, CallsInv, NEW t \in Threads,
           \/ WriteKey(t) \/ DrainRegion(t) \/ DrainDma(t) \/ Up(t)
           \/ MapDma(t) /\ MapFails(t)
    PROVE  CardInv'
<1>1. Alone(t) /\ pc \in [Threads -> Inside \cup Outside]
  BY KernelAlone DEF Kernel, Orderly, TypeInv, TypeOK
<1>2. pc[t] \in Inside
  BY DEF WriteKey, DrainRegion, DrainDma, CopyOut, Up, MapFails, Go, Fail,
         Inside
<1>3. pc'[t] \in {"load", "up", "free"}
  <2>1. CASE DrainRegion(t) \/ DrainDma(t)
    BY <2>1, CallOKDrain
  <2>2. CASE ~ (DrainRegion(t) \/ DrainDma(t))
    BY <1>1, <2>2 DEF WriteKey, Up, MapFails, Go, Fail
  <2> QED
    BY <2>1, <2>2
<1>4. CardOK(t)'
  BY <1>3 DEF CardOK, Waiting
<1> QED
  BY <1>1, <1>2, <1>4, CardOthers DEF CardInv

LEMMA CardLoadRegion ==
    ASSUME Orderly, TypeInv, CallsInv, NEW t \in Threads, LoadRegion(t)
    PROVE  CardInv'
<1>1. TypeOK /\ Alone(t) /\ CallOK(t)
  BY KernelAlone DEF TypeInv, CallsInv, Orderly, Kernel
<1>2. pc[t] = "load" /\ pc[t] \in Inside
  BY <1>1 DEF LoadRegion, Go, Inside
<1>3. pc'[t] = "start" /\ region' = Msg[t]
  <2>1. CASE J(t).isNotMM
    <3>1. /\ J(t).msg \in Bufs /\ heap[J(t).msg] = Msg[t]
          /\ heap[J(t).msg] # None
      BY <1>1, <1>2, <2>1
         DEF CallOK, CallsInv, BuffersInv, OwnInv, Holding, InHand
    <3>2. QED
      BY <1>1, <2>1, <3>1, LoadHere, BufAssumption
         DEF LoadRegion, Go, TypeOK, Load
  <2>2. CASE ~ J(t).isNotMM
    <3>1. region = Msg[t]
      BY <1>1, <1>2, <2>2 DEF CallOK, Asked, View
    <3>2. QED
      BY <1>1, <2>2, <3>1 DEF LoadRegion, Go, TypeOK
  <2>3. QED
    BY <2>1, <2>2
<1>4. CardOK(t)'
  BY <1>3 DEF LoadRegion, CardOK, Waiting, Place
<1>5. QED
  BY <1>1, <1>2, <1>4, CardOthers DEF CardInv

LEMMA CardMapDma ==
    ASSUME Orderly, TypeInv, CallsInv, NEW t \in Threads, MapDma(t)
    PROVE  CardInv'
<1>1. TypeOK /\ Alone(t) /\ CallOK(t)
  BY KernelAlone DEF TypeInv, CallsInv, Orderly, Kernel
<1>2. pc[t] = "load" /\ pc[t] \in Inside
  BY <1>1 DEF MapDma, MapFails, Go, Fail, Inside
<1>3. ASSUME NEW s \in FreeSlots, Go(t, "load", "start"),
             \E d \in Load(J(t).msg) : bus' = [bus EXCEPT ![s] = d],
             dma' = [dma EXCEPT ![t] = [at |-> s, buf |-> J(t).msg]]
      PROVE  CardInv'
  <2>1. /\ J(t).msg \in Bufs /\ heap[J(t).msg] # None
        /\ heap[J(t).msg] = Msg[t]
    <3>1. J(t).isNotMM
      BY <1>2 DEF MapDma, CallsInv, BuffersInv, BufferOK
    <3>2. QED
      BY <1>1, <1>2, <3>1
         DEF CallOK, CallsInv, BuffersInv, OwnInv, Holding, InHand
  <2>2. bus' = [bus EXCEPT ![s] = Msg[t]]
    BY <1>3, <2>1, LoadHere DEF Load
  <2>3. s \in Slots /\ bus'[s] = Msg[t] /\ dma'[t].at = s
    BY <1>1, <1>3, <2>2 DEF FreeSlots, TypeOK, CardTypeOK
  <2>4. pc'[t] = "start" /\ via'[t] = "DMA"
    BY <1>1, <1>3 DEF MapDma, Go, TypeOK
  <2>5. CardOK(t)'
    BY <2>3, <2>4 DEF CardOK, Waiting, Place
  <2>6. QED
    BY <1>1, <1>2, <2>5, CardOthers DEF CardInv
<1>4. QED
  BY <1>3, CardAside DEF MapDma

LEMMA CardStart ==
    ASSUME Orderly, TypeInv, CallsInv, NEW t \in Threads, Start(t)
    PROVE  CardInv'
<1>1. TypeOK /\ Alone(t) /\ CardOK(t)
  BY KernelAlone DEF TypeInv, CallsInv, Orderly, Kernel
<1>2. pc[t] = "start" /\ pc[t] \in Inside
  BY DEF Start, Go, Inside
<1>3. ~ Busy
  BY <1>2, ServesOnly DEF Waiting
<1>4. phase' = "armed" /\ pc'[t] \in {"wait", "spin"} /\ Place(t) = Msg[t]
  BY <1>1, <1>2, <1>3 DEF Start, Command, Trigger, Go, CardOK, TypeOK
<1>5. UNCHANGED <<region, bus, dma, via>>
  BY DEF Start
<1>6. CardOK(t)'
  BY <1>4, <1>5 DEF CardOK, Waiting, Place
<1>7. QED
  BY <1>1, <1>2, <1>6, CardOthers DEF CardInv

\* The holder leaves its wait only when its answer is in the card.
LEMMA CardWait ==
    ASSUME Orderly, TypeInv, CallsInv, NEW t \in Threads,
           Wait(t) \/ Spin(t)
    PROVE  CardInv'
<1>1. /\ TypeOK /\ Alone(t) /\ CardOK(t)
      /\ pc[t] = "wait" => ~ Signals
  BY KernelAlone, NoSignalHere DEF TypeInv, CallsInv, Orderly, Kernel
<1>2. pc[t] \in Waiting /\ pc[t] \in Inside
  BY <1>1 DEF Wait, Interrupted, Spin, Go, Fail, Waiting, Inside
<1>3. UNCHANGED <<cardVars, via, dma, ask>>
  BY DEF Wait, Spin
<1>4. \/ Done(t) /\ pc'[t] = "drain"
      \/ pc'[t] = "asleep"
  BY <1>1 DEF Wait, Interrupted, Spin, Go, Fail, TypeOK
<1>5. Done(t) => phase = "idle"
  BY <1>2, DoneIsIdle DEF CallsInv, HeldInv, Busy
<1>6. CardOK(t)'
  BY <1>1, <1>2, <1>3, <1>4, <1>5
     DEF CardOK, Waiting, Place, Answer, cardVars
<1>7. QED
  BY <1>1, <1>2, <1>6, CardOthers DEF CardInv

LEMMA CardKernel ==
    ASSUME Orderly, TypeInv, CallsInv, NEW t \in Threads,
           Down(t) \/ Kernel(t) \/ SignalWakes(t)
    PROVE  CardInv'
<1>1. /\ TypeOK /\ Alone(t)
      /\ pc[t] = "asleep" => ~ Signals
  BY KernelAlone, NoSignalHere DEF TypeInv, Orderly
<1>2. CASE Enter(t)
  <2>1. pc[t] \notin Inside /\ pc'[t] \notin Inside
    BY <1>1, <1>2 DEF Enter, Go, Fail, Inside, TypeOK
  <2>2. QED
    BY <1>1, <1>2, <2>1, CardOutside DEF Enter, cardVars
<1> USE DEF Go, Fail, Inside, TypeOK, cardVars
<1>3. CASE SetMmap(t)
  BY <1>1, <1>3, CardOutside DEF SetMmap
<1>4. CASE Alloc(t)
  BY <1>1, <1>4, CardOutside DEF Alloc
<1>5. CASE CopyIn(t)
  BY <1>1, <1>5, CardOutside DEF CopyIn, CopyInFails
<1>6. CASE Down(t)
  BY <1>1, <1>6, CardOutside DEF Down, DownTakes, DownInterrupted
<1>7. CASE FreeMsg(t)
  BY <1>1, <1>7, CardOutside DEF FreeMsg
<1>8. CASE Return(t)
  BY <1>1, <1>8, CardOutside DEF Return
<1>9. CASE SignalWakes(t)
  BY <1>1, <1>9 DEF SignalWakes
<1>10. QED
  BY <1>2, <1>3, <1>4, <1>5, <1>6, <1>7, <1>8, <1>9, CardAside,
     CardLoadRegion, CardMapDma, CardStart, CardWait DEF Kernel

LEMMA CardUser ==
    ASSUME Orderly, TypeInv, CallsInv, NEW t \in Threads, User(t)
    PROVE  CardInv'
<1>1. Alone(t)
  BY UserAlone DEF TypeInv, Orderly
<1>2. PICK c \in Calls[t] :
         SetKey(t, c) \/ SetDMA(t, c) \/ SetIntr(t, c) \/ Encrypt(t, c)
  BY DEF User
<1>3. /\ UNCHANGED <<bus, phase, work>>
      /\ region' = region \/ t \in Mappers
  BY <1>2 DEF SetKey, SetDMA, SetIntr, Configure, Encrypt, cardVars
<1>4. pc[t] = "user" /\ pc'[t] \in {"user", "set_mmap"}
  BY <1>2 DEF SetKey, SetDMA, SetIntr, Configure, Encrypt, Go, TypeInv, TypeOK
<1>5. QED
  BY <1>1, <1>3, <1>4, CardOutside DEF Inside

\* Steps of nobody's call: reopening a handle, and the handler, which may wake
\* sleepers.
LEMMA CardStill ==
    ASSUME CallsInv, UNCHANGED <<region, bus, phase, work, via, dma, ask>>,
           \A u \in Threads :
               pc'[u] = pc[u] \/ (pc[u] = "asleep" /\ pc'[u] = "wait")
    PROVE  CardInv'
<1>1. ASSUME NEW t \in Threads PROVE CardOK(t)'
  <2>1. CardOK(t) /\ Place(t)' = Place(t) /\ Answer(t)' = Answer(t)
    BY DEF CallsInv, Place, Answer
  <2> QED
    BY <2>1 DEF CardOK, Waiting
<1> QED
  BY <1>1 DEF CardInv

LEMMA CardEngine ==
    ASSUME TypeInv, CallsInv, Card PROVE CardInv'
<1>1. Busy /\ UNCHANGED devVars
  BY DEF Card, Engine, Fetch, Finish, Busy
<1>2. PICK t \in Threads : pc[t] \in Waiting
  BY <1>1 DEF CallsInv, HeldInv, EngineHeld
<1>3. /\ op.via = via[t] /\ op.enc = ask[t].enc /\ keyReg = ask[t].key
      /\ op.slot = IF via[t] = "DMA" THEN dma[t].at ELSE None
  BY <1>1, <1>2, ServesOnly DEF Waiting, Inside
<1>4. via[t] = "DMA" => dma[t].at \in Slots /\ bus[dma[t].at] # None
  BY <1>2 DEF TypeInv, DmaHeld, DmaPlaces, Waiting
<1>5. /\ UNCHANGED <<pc, via, dma, ask>>
      /\ CardOK(t) /\ Answer(t)' = Answer(t) /\ via[t] \in Vias
  BY <1>1 DEF devVars, CallsInv, Answer, TypeInv, TypeOK
<1>6. \A u \in Threads : u # t => CardOK(u)'
  BY <1>2, <1>5, HolderUnique DEF CardOK, Waiting, Inside
<1>7. CASE Fetch
  <2>1. phase = "armed" /\ phase' = "fetched" /\ UNCHANGED <<region, bus>>
    BY <1>7 DEF Fetch
  <2>2. Input = {Place(t)} /\ Place(t) = Msg[t]
    BY <1>2, <1>3, <1>4, <1>5, <2>1
       DEF Input, Mapped, Place, Vias, CardOK
  <2>3. work' = Answer(t)
    BY <1>3, <1>7, <2>2 DEF Fetch, Answer
  <2>4. CardOK(t)'
    BY <1>2, <1>5, <2>1, <2>3 DEF CardOK, Waiting
  <2>5. QED
    BY <1>6, <2>4 DEF CardInv
<1>8. CASE Finish
  <2>1. phase' = "idle" /\ work = Answer(t)
    BY <1>2, <1>5, <1>8 DEF Finish, CardOK
  <2>2. Place(t)' = Answer(t)
    <3>1. CASE via[t] = "MMIO"
      BY <1>3, <1>5, <1>8, <2>1, <3>1 DEF Finish, Place
    <3>2. CASE via[t] = "DMA"
      <4>1. bus' = [bus EXCEPT ![dma[t].at] = work]
        BY <1>3, <1>4, <1>8, <3>2 DEF Finish, Mapped
      <4>2. bus'[dma[t].at] = Answer(t)
        BY <1>4, <2>1, <3>2, <4>1 DEF TypeInv, TypeOK, CardTypeOK
      <4>3. QED
        BY <1>5, <3>2, <4>2 DEF Place
    <3>3. QED
      BY <1>5, <3>1, <3>2 DEF Vias
  <2>3. CardOK(t)'
    BY <1>2, <1>5, <2>1, <2>2 DEF CardOK, Waiting
  <2>4. QED
    BY <1>6, <2>3 DEF CardInv
<1>9. QED
  BY <1>7, <1>8 DEF Card, Engine

LEMMA CardStep ==
    ASSUME Orderly, TypeInv, CallsInv, [Next]_vars PROVE CardInv'
<1>1. CASE UNCHANGED vars \/ (\E h \in Handles : Reopen(h)) \/ Irq
  BY <1>1, CardStill
  DEF vars, devVars, cardVars, Reopen, Irq, IrqRead, IrqWake, IrqAck
<1> QED
  BY <1>1, CardKernel, CardUser, CardEngine DEF Next

LEMMA CallsNext ==
    ASSUME Orderly, TypeInv, CallsInv, [Next]_vars PROVE CallsInv'
<1>1. BuffersInv'
  BY OwnNext DEF Orderly, CallsInv
<1>2. \A t \in Threads : ~ Interrupted(t)
  BY NoSignalHere DEF Interrupted, Fail, Go
<1>3. HeldInv' /\ ServedInv'
  BY <1>2, HeldNext, ServedNext DEF CallsInv, Orderly
<1>4. QED
  BY <1>1, <1>3, CallOKStep, CardStep DEF CallsInv, CardInv

-----------------------------------------------------------------------------
\* What every reachable state of orderly calls satisfies.
THEOREM CallsInvariant == ASSUME Orderly PROVE Spec => []CallsInv
<1>1. TypeInv /\ CallsInv /\ [Next]_vars => CallsInv'
  BY CallsNext
<1>2. QED
  BY <1>1, CallsInit, TypeInvariant, PTL DEF Spec

\* A pci_write that returns success has processed the message of its caller
\* in the direction and under the key of its own handle, through the window
\* or by DMA, polled or by interrupt, in the caller's memory or in the window
\* it has mapped, whatever the other threads do.
THEOREM ResultsAreCorrect == ASSUME Orderly PROVE Spec => []ResultCorrect
<1>1. CallsInv => ResultCorrect
  BY DEF CallsInv, CallOK, ResultCorrect, Finished
<1>2. QED
  BY <1>1, CallsInvariant, PTL

\* A pci_write that fails leaves the message as it was, also the one its
\* caller keeps in the window.
THEOREM FailuresKeepWindow == ASSUME Orderly PROVE Spec => []FailureKeepsMessage
<1>1. CallsInv => FailureKeepsMessage
  BY DEF CallsInv, CallOK, FailureKeepsMessage, Finished
<1>2. QED
  BY <1>1, CallsInvariant, PTL

-----------------------------------------------------------------------------
(* The card's input.                                                       *)

InputKept ==
    phase = "armed" /\ phase' = "armed" =>
        /\ keyReg' = keyReg /\ op' = op
        /\ op.via = "MMIO" => region' = region
        /\ op.via = "DMA" => bus'[op.slot] = bus[op.slot]

LEMMA InputStep ==
    ASSUME Orderly, TypeInv, CallsInv, [Next]_vars PROVE InputKept
<1> SUFFICES ASSUME phase = "armed", phase' = "armed",
                    \/ ~ UNCHANGED <<keyReg, op, bus>>
                    \/ op.via = "MMIO" /\ region' # region
             PROVE  FALSE
  BY DEF InputKept
<1>1. Busy
  BY DEF Busy
<1>2. \A t \in Threads : pc[t] \in Inside => pc[t] \in Waiting
  BY <1>1, ServesOnly
<1>3. ASSUME NEW t \in Threads, Kernel(t) PROVE FALSE
  BY <1>2, <1>3
     DEF Kernel, SetMmap, Enter, Alloc, CopyIn, WriteKey, LoadRegion, MapDma,
         MapFails, Start, Wait, Spin, DrainRegion, DrainDma, Up, FreeMsg,
         Return, Go, Fail, Inside, Waiting, cardVars
<1>4. ASSUME NEW t \in Threads, User(t) PROVE FALSE
  <2>1. /\ pc[t] = "user" /\ t \in Mappers
        /\ UNCHANGED <<keyReg, op, bus>>
    BY <1>4 DEF User, SetKey, SetDMA, SetIntr, Configure, Encrypt, Go,
                cardVars
  <2>2. PICK u \in Threads : pc[u] \in Waiting /\ via[u] = "MMIO"
    BY <1>1, <2>1 DEF CallsInv, HeldInv, EngineHeld
  <2>3. u # t
    BY <2>1, <2>2 DEF Waiting
  <2>4. QED
    BY <2>1, <2>2, <2>3, OffWindow DEF Waiting, DmaPlaces
<1>5. CASE Irq
  BY <1>5 DEF Irq, IrqRead, IrqWake, IrqAck, cardVars
<1>6. CASE Card
  BY <1>6 DEF Card, Engine, Fetch, Finish
<1>7. QED
  BY <1>3, <1>4, <1>5, <1>6
     DEF Next, Reopen, Down, SignalWakes, cardVars, vars

\* Between the trigger and the fetch nobody changes the key, the operation
\* or the message the card is going to read.
THEOREM InputIsStable == ASSUME Orderly PROVE Spec => InputStable
<1>1. TypeInv /\ CallsInv /\ [Next]_vars => [InputKept]_vars
  BY InputStep
<1>2. QED
  BY <1>1, CallsInvariant, TypeInvariant, PTL DEF Spec, InputStable, InputKept

-----------------------------------------------------------------------------
(* What a failed call leaves, with signals and shared handles: the message *)
(* is of the thread, and only the copy-out touches it.                     *)

KeptBy(t) ==
    /\ pc[t] \notin Finished => ret[t] = "ok" /\ ubuf[t] = Msg[t]
    /\ pc[t] \in Finished /\ ret[t] \notin {"ok", "EAGAIN"} => ubuf[t] = Msg[t]

LEMMA KeptInit == Init => \A t \in Threads : KeptBy(t)
BY DEF Init, KeptBy, Finished

\* A step of thread t on pc, ret and ubuf keeps them in order for t, and
\* those of the other threads as they are.
Keeps(t) ==
    /\ KeptBy(t)'
    /\ \A u \in Threads : u # t =>
          pc'[u] = pc[u] /\ ret'[u] = ret[u] /\ ubuf'[u] = ubuf[u]

LEMMA KeptKernel ==
    ASSUME TypeInv, NEW t \in Threads, KeptBy(t),
           Down(t) \/ Kernel(t) \/ SignalWakes(t)
    PROVE  Keeps(t)
<1>1. /\ pc \in [Threads -> Inside \cup Outside]
      /\ ret \in [Threads -> Codes] /\ ubuf \in [Threads -> Data]
  BY DEF TypeInv, TypeOK
<1> USE DEF Go, Fail, KeptBy, Keeps, Finished
<1>2. CASE SetMmap(t) \/ Start(t) \/ WriteKey(t) \/ Spin(t) \/ Up(t)
           \/ SignalWakes(t) \/ FreeMsg(t)
  BY <1>1, <1>2 DEF SetMmap, Start, WriteKey, Spin, Up, SignalWakes, FreeMsg
<1>3. CASE Enter(t)
  BY <1>1, <1>3 DEF Enter
<1>4. CASE Alloc(t)
  BY <1>1, <1>4 DEF Alloc
<1>5. CASE CopyIn(t)
  BY <1>1, <1>5 DEF CopyIn, CopyInFails
<1>6. CASE Down(t)
  BY <1>1, <1>6 DEF Down, DownTakes, DownInterrupted
<1>7. CASE LoadRegion(t)
  BY <1>1, <1>7 DEF LoadRegion
<1>8. CASE MapDma(t)
  BY <1>1, <1>8 DEF MapDma, MapFails
<1>9. CASE Wait(t)
  BY <1>1, <1>9 DEF Wait, Interrupted
<1>10. ASSUME NEW d, CopyOut(t, d) PROVE Keeps(t)
  BY <1>1, <1>10 DEF CopyOut
<1>11. CASE DrainRegion(t)
  BY <1>1, <1>10, <1>11 DEF DrainRegion
<1>12. CASE DrainDma(t)
  BY <1>1, <1>10, <1>12 DEF DrainDma
<1>13. CASE Return(t)
  BY <1>1, <1>13 DEF Return
<1>14. QED
  BY <1>2, <1>3, <1>4, <1>5, <1>6, <1>7, <1>8, <1>9, <1>11, <1>12, <1>13
     DEF Kernel

LEMMA KeptNext ==
    ASSUME TypeInv, \A t \in Threads : KeptBy(t), [Next]_vars
    PROVE  \A t \in Threads : KeptBy(t)'
<1>1. ASSUME NEW t \in Threads, Down(t) \/ Kernel(t) \/ SignalWakes(t)
      PROVE  \A u \in Threads : KeptBy(u)'
  <2>1. Keeps(t)
    BY <1>1, KeptKernel
  <2>2. ASSUME NEW u \in Threads, u # t PROVE KeptBy(u)'
    BY <2>1, <2>2 DEF Keeps, KeptBy, Finished
  <2>3. QED
    BY <2>1, <2>2 DEF Keeps
<1>2. ASSUME NEW t \in Threads, User(t)
      PROVE  \A u \in Threads : KeptBy(u)'
  <2>1. /\ ret' = ret /\ ubuf' = ubuf
        /\ \A u \in Threads : pc'[u] \in Finished => pc[u] \in Finished
        /\ \A u \in Threads : pc[u] \in Finished => pc'[u] = pc[u]
    BY <1>2 DEF User, SetKey, SetDMA, SetIntr, Configure, Encrypt, Go,
                Finished, TypeInv, TypeOK
  <2>2. QED
    BY <2>1 DEF KeptBy
<1>3. ASSUME \/ \E h \in Handles : Reopen(h)
             \/ Irq \/ Card \/ UNCHANGED vars
      PROVE  \A u \in Threads : KeptBy(u)'
  <2>1. /\ ret' = ret /\ ubuf' = ubuf
        /\ \A u \in Threads :
              pc'[u] = pc[u] \/ (pc[u] = "asleep" /\ pc'[u] = "wait")
    BY <1>3 DEF Reopen, Irq, IrqRead, IrqWake, IrqAck, Card, devVars, vars
  <2>2. QED
    BY <2>1 DEF KeptBy, Finished
<1>4. QED
  BY <1>1, <1>2, <1>3 DEF Next

\* A pci_write that fails before it copies its answer out, on whichever of
\* its error paths or at whichever signal, leaves the message of its caller
\* as it was, even on a handle that is shared.
THEOREM FailuresKeepMessages ==
    ASSUME Mappers = {} PROVE Spec => []FailureKeepsMessage
<1>1. TypeInv /\ (\A t \in Threads : KeptBy(t)) /\ [Next]_vars
        => (\A t \in Threads : KeptBy(t))'
  BY KeptNext
<1>2. (\A t \in Threads : KeptBy(t)) => FailureKeepsMessage
  BY DEF KeptBy, Finished, FailureKeepsMessage, View
<1>3. QED
  BY <1>1, <1>2, KeptInit, TypeInvariant, PTL DEF Spec
=============================================================================
