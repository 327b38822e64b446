--------------------------- MODULE CardServiceProofs ---------------------------
(***************************************************************************)
(* CryptoDev implements CardService: for private handles, with nobody else *)
(* at the window of a mapped message, and with signals only where calls    *)
(* poll, every step of the driver, the handler and the card is a step of   *)
(* the service callers rely on, or none.                                   *)
(***************************************************************************)
EXTENDS PrivateCallsProofs

LEMMA ServiceInit == ASSUME Init PROVE Service!Init
<1>1. [t \in Threads |-> Stage(t)] = [t \in Threads |-> "idle"]
  BY DEF Init, Stage
<1>2. ask \in [Threads -> [enc : BOOLEAN, key : Keys]]
  BY DataAssumption DEF Init
<1>3. [t \in Threads |-> Seen(t)] = Msg
  <2>1. \A t \in Threads : Seen(t) = Msg[t]
    BY DEF Init, Seen, Stage
  <2>2. QED
    BY <2>1, DataAssumption
<1>4. QED
  BY <1>1, <1>2, <1>3 DEF Service!Init

\* The place of a call in the service, and what the caller sees there.
LEMMA StageHere ==
    ASSUME CallsInv, NEW t \in Threads
    PROVE  /\ pc[t] = "user" => Stage(t) = "idle"
           /\ pc[t] # "user" /\ pc[t] \notin Finished => Stage(t) = "asked"
           /\ pc[t] \in Finished /\ ret[t] = "ok" => Stage(t) = "served"
           /\ pc[t] \in Finished /\ ret[t] # "ok" => Stage(t) = "refused"
BY DEF Stage, Finished

LEMMA SeenHere ==
    ASSUME CallsInv, NEW t \in Threads
    PROVE  /\ pc[t] \notin Finished => Seen(t) = Msg[t]
           /\ pc[t] \in Finished =>
                 /\ Seen(t) = View(t)
                 /\ ret[t] = "ok" => Seen(t) = Answer(t)
                 /\ ret[t] \notin {"ok", "EAGAIN"} => Seen(t) = Msg[t]
<1>1. CallOK(t)
  BY DEF CallsInv
<1>2. pc[t] \in Finished <=> Stage(t) \in {"served", "refused"}
  BY DEF Stage, Finished
<1>3. QED
  BY <1>1, <1>2 DEF CallOK, Seen

\* What the service sees of a step that leaves one thread's call as it is.
LEMMA StageAlone ==
    ASSUME NEW t \in Threads, Alone(t), NEW u \in Threads, u # t
    PROVE  Stage(u)' = Stage(u)
BY DEF Alone, Stage

LEMMA SeenAlone ==
    ASSUME NEW t \in Threads, Alone(t), NEW u \in Threads, u # t,
           u \in Mappers => region' = region
    PROVE  Seen(u)' = Seen(u)
<1>1. View(u)' = View(u) /\ ubuf'[u] = ubuf[u]
  BY DEF Alone, View
<1>2. QED
  BY <1>1, StageAlone DEF Seen

\* A step that moves no call is none of the service.
LEMMA ServiceStutter ==
    ASSUME \A t \in Threads : Stage(t)' = Stage(t) /\ Seen(t)' = Seen(t),
           UNCHANGED ask
    PROVE  UNCHANGED Service!vars
BY DEF Service!vars

\* A step that is thread t's alone, to the service.
Only(t) ==
    \A u \in Threads : u # t => Stage(u)' = Stage(u) /\ Seen(u)' = Seen(u)

LEMMA ServiceMove ==
    ASSUME NEW t \in Threads, Only(t), NEW a, NEW b,
           Stage(t) = a, Stage(t)' = b
    PROVE  Service!Move(t, a, b)
BY DEF Only, Service!Move

LEMMA ServiceSees ==
    ASSUME NEW t \in Threads, Only(t), NEW d, Seen(t)' = d
    PROVE  [u \in Threads |-> Seen(u)]' =
              [[u \in Threads |-> Seen(u)] EXCEPT ![t] = d]
BY DEF Only

\* The answers a call may get, as steps of the service.
LEMMA ServiceReply ==
    ASSUME TypeOK', CallsInv, CallsInv', NEW t \in Threads, Only(t),
           UNCHANGED ask, Stage(t) = "asked", pc'[t] \in Finished
    PROVE  Service!Next
<1>1. Stage(t)' = IF ret'[t] = "ok" THEN "served" ELSE "refused"
  BY DEF Stage, Finished
<1>2. pc[t] \notin Finished /\ Seen(t) = Msg[t]
  BY SeenHere DEF Stage, Finished
<1>3. /\ ret'[t] = "ok" => Seen(t)' = Answer(t)'
      /\ ret'[t] \notin {"ok", "EAGAIN"} => Seen(t)' = Msg[t]
  BY <1>1 DEF CallsInv, CallOK, Seen
<1>4. CASE ret'[t] = "ok"
  <2>1. Seen(t)' = Answer(t)
    BY <1>3, <1>4 DEF Answer
  <2>2. [u \in Threads |-> Seen(u)]' =
           [[u \in Threads |-> Seen(u)] EXCEPT ![t] = Answer(t)]
    BY <2>1, ServiceSees
  <2>3. Service!Serve(t)
    BY <1>1, <1>4, <2>2, ServiceMove DEF Service!Serve, Service!Answer, Answer
  <2>4. QED
    BY <2>3 DEF Service!Next, Service!Reply
<1>5. CASE ret'[t] = "EAGAIN"
  <2>1. Service!Move(t, "asked", "refused")
    BY <1>1, <1>5, ServiceMove
  <2>2. Seen(t)' \in Data
    BY DEF Seen, View, TypeOK, CardTypeOK
  <2>3. [u \in Threads |-> Seen(u)]' =
           [[u \in Threads |-> Seen(u)] EXCEPT ![t] = Seen(t)']
    BY ServiceSees
  <2>4. Service!Tear(t)
    BY <2>1, <2>2, <2>3 DEF Service!Tear
  <2>5. QED
    BY <2>4 DEF Service!Next, Service!Reply
<1>6. CASE ret'[t] \notin {"ok", "EAGAIN"}
  <2>1. Service!Move(t, "asked", "refused")
    BY <1>1, <1>6, ServiceMove
  <2>2. [u \in Threads |-> Seen(u)]' = [u \in Threads |-> Seen(u)]
    BY <1>2, <1>3, <1>6 DEF Only
  <2>3. Service!Refuse(t)
    BY <2>1, <2>2 DEF Service!Refuse
  <2>4. QED
    BY <2>3 DEF Service!Next, Service!Reply
<1>7. QED
  BY <1>4, <1>5, <1>6

LEMMA ServiceKernel ==
    ASSUME Orderly, TypeInv, CallsInv, NEW t \in Threads,
           Down(t) \/ Kernel(t) \/ SignalWakes(t)
    PROVE  [Service!Next]_(Service!vars)
<1>1. [Next]_vars
  BY DEF Next
<1>2. /\ TypeOK /\ TypeOK' /\ Alone(t) /\ CallOK(t) /\ CallsInv'
      /\ pc[t] \in {"wait", "asleep"} => ~ Signals
  BY <1>1, TypingNext, CallsNext, KernelAlone, NoSignalHere
     DEF Orderly, TypeInv, CallsInv
<1>3. ask' = ask
  BY DEF Kernel, SetMmap, Enter, Alloc, CopyIn, Down, WriteKey, LoadRegion,
         MapDma, Start, Wait, Spin, DrainRegion, DrainDma, Up, FreeMsg,
         Return, SignalWakes
<1>4. Only(t)
  BY <1>2, StageAlone, SeenAlone, WindowAlone DEF Only
<1>5. ASSUME pc[t] # "user", pc[t] \notin Finished,
             pc'[t] # "user", pc'[t] \notin Finished
      PROVE  [Service!Next]_(Service!vars)
  <2>1. Stage(t)' = Stage(t) /\ Seen(t) = Msg[t]
    BY <1>5, SeenHere DEF Stage, Finished
  <2>2. Seen(t)' = Msg[t]
    BY <1>2, <1>5 DEF CallsInv, CallOK, Seen, Stage, Finished
  <2>3. QED
    BY <1>3, <1>4, <2>1, <2>2, ServiceStutter DEF Only
<1>6. ASSUME pc[t] # "user", pc[t] \notin Finished, pc'[t] \in Finished
      PROVE  [Service!Next]_(Service!vars)
  <2>1. Stage(t) = "asked"
    BY <1>6, StageHere
  <2>2. QED
    BY <1>2, <1>3, <1>4, <1>6, <2>1, ServiceReply
<1>7. ASSUME pc[t] \in Finished, pc'[t] \in Finished,
             UNCHANGED <<ret, ubuf, region>>
      PROVE  [Service!Next]_(Service!vars)
  <2>1. Stage(t)' = Stage(t) /\ Seen(t)' = Seen(t)
    BY <1>7 DEF Stage, Seen, View, Finished
  <2>2. QED
    BY <1>3, <1>4, <2>1, ServiceStutter DEF Only
<1> USE DEF Go, Fail, TypeOK, Finished
<1>8. CASE SetMmap(t)
  BY <1>2, <1>5, <1>8 DEF SetMmap
<1>9. CASE Enter(t)
  BY <1>2, <1>5, <1>6, <1>9 DEF Enter
<1>10. CASE Alloc(t)
  BY <1>2, <1>5, <1>6, <1>10 DEF Alloc
<1>11. CASE CopyIn(t)
  BY <1>2, <1>5, <1>6, <1>11 DEF CopyIn, CopyInFails
<1>12. CASE Down(t)
  BY <1>2, <1>5, <1>6, <1>12 DEF Down, DownTakes, DownInterrupted
<1>13. CASE WriteKey(t)
  BY <1>2, <1>5, <1>13 DEF WriteKey
<1>14. CASE LoadRegion(t)
  BY <1>2, <1>5, <1>14 DEF LoadRegion
<1>15. CASE MapDma(t)
  BY <1>2, <1>5, <1>6, <1>15 DEF MapDma, MapFails
<1>16. CASE Start(t)
  BY <1>2, <1>5, <1>16 DEF Start
<1>17. CASE Wait(t)
  BY <1>2, <1>5, <1>17 DEF Wait, Interrupted
<1>18. CASE Spin(t)
  BY <1>2, <1>5, <1>18 DEF Spin
<1>19. CASE DrainRegion(t) \/ DrainDma(t)
  <2>1. pc[t] = "drain"
    BY <1>19 DEF DrainRegion, DrainDma, CopyOut
  <2>2. pc'[t] = "up"
    BY <1>19, CallOKDrain
  <2>3. QED
    BY <1>6, <2>1, <2>2
<1>20. CASE Up(t)
  BY <1>2, <1>7, <1>20 DEF Up, cardVars
<1>21. CASE FreeMsg(t)
  BY <1>2, <1>7, <1>21 DEF FreeMsg, cardVars
<1>22. CASE Return(t)
  <2>1. pc[t] = "return" /\ Stage(t) \in {"served", "refused"}
    BY <1>22 DEF Return, Stage
  <2>2. CASE pc'[t] = "user"
    <3>1. Stage(t)' = "idle" /\ ubuf'[t] = Msg[t]
      BY <1>2, <1>22, <2>2 DEF Return, Stage
    <3>2. Seen(t)' = Msg[t]
      BY <3>1 DEF Seen
    <3>3. [u \in Threads |-> Seen(u)]' =
             [[u \in Threads |-> Seen(u)] EXCEPT ![t] = Msg[t]]
      BY <1>4, <3>2, ServiceSees
    <3>4. Service!Take(t)
      BY <1>3, <1>4, <2>1, <3>1, <3>3, ServiceMove DEF Service!Take
    <3>5. QED
      BY <3>4 DEF Service!Next
  <2>3. CASE pc'[t] # "user"
    <3>1. /\ ret[t] = "ERESTARTSYS" /\ ubuf' = ubuf /\ Seen(t) = Msg[t]
          /\ pc'[t] = "write" \/ (pc'[t] = "return" /\ ret'[t] = "EINTR")
      BY <1>2, <1>22, <2>1, <2>3, SeenHere DEF Return
    <3>2. Seen(t)' = Msg[t]
      BY <1>2, <3>1 DEF CallsInv, CallOK, Seen, Stage
    <3>3. [u \in Threads |-> Seen(u)]' = [u \in Threads |-> Seen(u)]
      BY <1>4, <3>1, <3>2 DEF Only
    <3>4. CASE pc'[t] = "write"
      <4>1. Stage(t) = "refused" /\ Stage(t)' = "asked"
        BY <2>1, <3>1, <3>4 DEF Stage
      <4>2. Service!Resume(t)
        BY <1>3, <1>4, <3>3, <4>1, ServiceMove DEF Service!Resume
      <4>3. QED
        BY <4>2 DEF Service!Next
    <3>5. CASE pc'[t] = "return" /\ ret'[t] = "EINTR"
      <4>1. Stage(t)' = Stage(t)
        BY <2>1, <3>1, <3>5 DEF Stage
      <4>2. QED
        BY <1>3, <1>4, <3>1, <3>2, <4>1, ServiceStutter DEF Only
    <3>6. QED
      BY <3>1, <3>4, <3>5
  <2>4. QED
    BY <2>2, <2>3
<1>23. CASE SignalWakes(t)
  BY <1>2, <1>23 DEF SignalWakes
<1>24. QED
  BY <1>8, <1>9, <1>10, <1>11, <1>12, <1>13, <1>14, <1>15, <1>16, <1>17,
     <1>18, <1>19, <1>20, <1>21, <1>22, <1>23 DEF Kernel

LEMMA ServiceUser ==
    ASSUME Orderly, TypeInv, CallsInv, NEW t \in Threads, User(t)
    PROVE  [Service!Next]_(Service!vars)
<1>1. Alone(t) /\ (t \in Mappers \/ region' = region)
  BY UserAlone, CallOKUser DEF Orderly, TypeInv
<1>2. PICK c \in Calls[t] :
         SetKey(t, c) \/ SetDMA(t, c) \/ SetIntr(t, c) \/ Encrypt(t, c)
  BY DEF User
<1>3. ASSUME NEW j, Configure(t, j) PROVE UNCHANGED Service!vars
  BY <1>3, ServiceStutter DEF Configure, Stage, Seen, View, cardVars
<1>4. CASE Encrypt(t, c)
  <2>1. Only(t)
    BY <1>1, StageAlone, SeenAlone, OffWindow DEF Only
  <2>2. Stage(t) = "idle" /\ Stage(t)' = "asked" /\ Seen(t)' = Seen(t)
    BY <1>4 DEF Encrypt, Go, Stage, Seen, TypeInv, TypeOK
  <2>3. /\ [enc |-> c.enc, key |-> c.key] \in [enc : BOOLEAN, key : Keys]
        /\ ask' = [ask EXCEPT ![t] = [enc |-> c.enc, key |-> c.key]]
    BY <1>4, CallAssumption DEF Encrypt, CallTypes
  <2>4. [u \in Threads |-> Seen(u)]' = [u \in Threads |-> Seen(u)]
    BY <2>1, <2>2 DEF Only
  <2>5. Service!Ask(t)
    BY <2>1, <2>2, <2>3, <2>4, ServiceMove DEF Service!Ask
  <2>6. QED
    BY <2>5 DEF Service!Next
<1>5. QED
  BY <1>2, <1>3, <1>4 DEF SetKey, SetDMA, SetIntr

LEMMA ServiceElse ==
    ASSUME \/ \E h \in Handles : Reopen(h)
           \/ Irq \/ UNCHANGED vars
    PROVE  UNCHANGED Service!vars
<1>1. UNCHANGED <<ask, ubuf, ret, region>>
  BY DEF Reopen, Irq, IrqRead, IrqWake, IrqAck, devVars, vars, cardVars
<1>2. \A t \in Threads :
        pc'[t] = pc[t] \/ (pc[t] = "asleep" /\ pc'[t] = "wait")
  BY DEF Reopen, Irq, IrqRead, IrqWake, IrqAck, devVars, vars
<1>3. \A t \in Threads : Stage(t)' = Stage(t) /\ Seen(t)' = Seen(t)
  BY <1>1, <1>2 DEF Stage, Seen, View
<1>4. QED
  BY <1>1, <1>3, ServiceStutter

\* The card writes the window only while the caller it serves is waiting and
\* does not look.
LEMMA ServiceCard ==
    ASSUME Orderly, CallsInv, Card PROVE UNCHANGED Service!vars
<1>1. Busy /\ UNCHANGED devVars
  BY DEF Card, Engine, Fetch, Finish, Busy
<1>2. PICK t \in Threads : pc[t] \in Waiting /\ op.via = via[t]
  BY <1>1 DEF CallsInv, HeldInv, EngineHeld
<1>3. region' # region => via[t] = "MMIO"
  BY <1>2 DEF Card, Engine, Fetch, Finish
<1>4. ASSUME NEW u \in Threads
      PROVE  Stage(u)' = Stage(u) /\ Seen(u)' = Seen(u)
  <2>1. Stage(u)' = Stage(u) /\ ubuf' = ubuf
    BY <1>1 DEF devVars, Stage
  <2>2. CASE u = t
    BY <1>2, <2>1, <2>2 DEF Seen, Stage, Waiting
  <2>3. CASE u # t
    <3>1. u \in Mappers => region' = region
      BY <1>2, <1>3, <2>3, OffWindow DEF Waiting, DmaPlaces
    <3>2. QED
      BY <2>1, <3>1 DEF Seen, View
  <2>4. QED
    BY <2>2, <2>3
<1>5. QED
  BY <1>1, <1>4, ServiceStutter DEF devVars

\* The driver, its interrupt handler and the card together are the service:
\* each write() is answered once, correctly or with an error that leaves the
\* message alone or torn, and nothing else a caller sees ever changes; for
\* messages in the callers' memory and for one in the mapped window.
THEOREM ImplementsService == ASSUME Orderly PROVE Spec => ServiceSpec
<1>1. TypeInv /\ CallsInv /\ [Next]_vars => [Service!Next]_(Service!vars)
  BY ServiceKernel, ServiceUser, ServiceElse, ServiceCard DEF Next
<1>2. QED
  BY <1>1, ServiceInit, CallsInvariant, TypeInvariant, PTL
     DEF Spec, ServiceSpec, Service!Spec
=============================================================================
