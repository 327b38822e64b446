--------------------------- MODULE CrypterLibProofs ---------------------------
(***************************************************************************)
(* Theorems about CrypterLib, for every buffer size, message size and      *)
(* nesting of calls.                                                       *)
(***************************************************************************)
EXTENDS CrypterLib, TLAPS

\* How far a call has come.  A mapped message that fits the buffer takes one
\* piece; for a longer one nothing is claimed.
Short == ~ call.isMapped \/ call.size <= BUFFERSIZE

\* The bytes below n are processed, those of the piece at n perhaps.
TornAt(n) ==
    \A i \in Bytes :
        \/ i < n /\ data[i] = before[i] + call.dir
        \/ ~ (i < n) /\ data[i] = before[i]
        \/ /\ ~ (i < n) /\ i < n + BUFFERSIZE /\ i < call.size
           /\ data[i] = before[i] + call.dir

Progress ==
    /\ pc = "ioctl" => data = before
    /\ pc = "loop" =>
        /\ addr + length = call.size
        /\ \E n \in Nat : addr = n * BUFFERSIZE
        /\ call.isMapped /\ Short => addr = 0
        /\ Short => Processed(addr)
    /\ pc = "return" /\ result = 0 /\ Short => Processed(call.size)
    /\ pc = "return" /\ result = ERROR /\ ~ call.isMapped =>
        /\ TornAt(addr)
        /\ addr <= call.size
        /\ \E n \in Nat : addr = n * BUFFERSIZE

Inv == TypeOK /\ Progress

LEMMA CallSize == call \in Calls => call.size \in 0 .. Capacity /\ call.size \in Nat
BY SizeAssumption DEF Calls

LEMMA InitInv == Init => Inv
BY SizeAssumption DEF Init, Inv, TypeOK, Progress, Calls, Bytes, ERROR

LEMMA CallInv == ASSUME Inv, NEW c \in Calls, Call(c) PROVE Inv'
BY DEF Inv, TypeOK, Progress, Call

LEMMA IoctlsInv == ASSUME Inv, Ioctls PROVE Inv'
<1>1. TypeOK'
  BY CallSize DEF Inv, TypeOK, Ioctls, Done, ERROR
<1>2. Processed(0)' /\ 0 = 0 * BUFFERSIZE
  BY SizeAssumption DEF Inv, Progress, Ioctls, Processed, Bytes, TypeOK
<1>3. CASE pc' = "loop" /\ UNCHANGED result
  BY <1>1, <1>2, <1>3, CallSize DEF Inv, Progress, Ioctls, TypeOK, Short
<1>4. CASE Done(ERROR)
  <2>1. TornAt(0)'
    BY <1>2 DEF TornAt, Processed
  <2>2. QED
    BY <1>1, <1>2, <1>4, <2>1, CallSize
       DEF Inv, Progress, Ioctls, TypeOK, Short, Done, ERROR
<1>5. QED
  BY <1>3, <1>4 DEF Ioctls

LEMMA ReturnInv == ASSUME Inv, Return PROVE Inv'
BY DEF Inv, TypeOK, Progress, Return

\* Processing the next piece extends the processed part by that piece.
LEMMA PieceExtends ==
    ASSUME Inv, NEW n \in Nat, UNCHANGED <<before, call>>,
           Processed(addr), Process(Piece(addr, n)),
           call.isMapped => addr = 0
    PROVE  /\ data' \in [Bytes -> Int]
           /\ \A i \in Bytes : data'[i] = IF i < addr + n
                                          THEN before'[i] + call'.dir
                                          ELSE before'[i]
<1>1. call.dir \in Int /\ addr \in Nat
  BY DEF Inv, TypeOK, Calls
<1>2. \A i \in Bytes : i \in Piece(addr, n) <=> addr <= i /\ i < addr + n
  BY <1>1, SizeAssumption DEF Piece, Bytes
<1>3. QED
  BY <1>1, <1>2, SizeAssumption DEF Process, Processed, Inv, TypeOK, Bytes

\* A torn piece leaves each of its bytes processed or not, and no other.
LEMMA TornPiece ==
    ASSUME Inv, NEW n \in Nat, n <= BUFFERSIZE, addr + n <= call.size,
           UNCHANGED <<before, call>>, ~ call.isMapped, Processed(addr),
           NEW part \in Torn(addr, n), Process(part)
    PROVE  \A i \in Bytes :
               \/ i < addr /\ data'[i] = before'[i] + call'.dir
               \/ ~ (i < addr) /\ data'[i] = before'[i]
               \/ /\ ~ (i < addr) /\ i < addr + BUFFERSIZE /\ i < call'.size
                  /\ data'[i] = before'[i] + call'.dir
<1> SUFFICES ASSUME NEW i \in Bytes
             PROVE  \/ i < addr /\ data'[i] = before[i] + call.dir
                    \/ ~ (i < addr) /\ data'[i] = before[i]
                    \/ /\ ~ (i < addr) /\ i < addr + BUFFERSIZE /\ i < call.size
                       /\ data'[i] = before[i] + call.dir
  OBVIOUS
<1>1. /\ addr \in Nat /\ i \in Int /\ call.size \in Nat
      /\ part \subseteq addr .. (addr + n - 1)
  BY CallSize, SizeAssumption DEF Inv, TypeOK, Bytes, Torn, Piece
<1>2. CASE i \in part
  <2>1. ~ (i < addr) /\ i < addr + BUFFERSIZE /\ i < call.size
    BY <1>1, <1>2, SizeAssumption
  <2>2. QED
    BY <1>2, <2>1 DEF Process, Processed
<1>3. CASE i \notin part
  BY <1>3 DEF Process, Processed
<1>4. QED
  BY <1>2, <1>3

LEMMA WriteInv == ASSUME Inv, Write PROVE Inv'
<1> DEFINE count == Count(length)
<1>1. /\ pc = "loop" /\ UNCHANGED <<before, call>>
      /\ length' = Rest(length)
  BY DEF Write
<1>2. /\ count \in Nat /\ count <= BUFFERSIZE
      /\ length' \in Nat /\ count + length' = length
      /\ length' > 0 => count = BUFFERSIZE
  BY <1>1, SizeAssumption DEF Inv, TypeOK, Count, Rest
<1>3. addr + length = call.size /\ call.size \in Nat
  BY <1>1, CallSize DEF Inv, TypeOK, Progress
<1>4. ASSUME Process(Piece(addr, count)), addr' = Step(addr, count),
             IF length' > 0 THEN UNCHANGED <<pc, result>> ELSE Done(0)
      PROVE  Inv'
  <2>1. data' \in [Bytes -> Int]
    BY <1>4 DEF Inv, TypeOK, Process, Calls
  <2>2. addr' = addr + count /\ addr' \in Nat
    BY <1>2, <1>4 DEF Step, Inv, TypeOK
  <2>3. TypeOK'
    BY <1>1, <1>2, <1>4, <2>1, <2>2 DEF Inv, TypeOK, Done
  <2>4. Short => \A i \in Bytes : data'[i] = IF i < addr'
                                            THEN before'[i] + call'.dir
                                            ELSE before'[i]
    <3>1. Short => Processed(addr) /\ (call.isMapped => addr = 0)
      BY <1>1 DEF Inv, Progress, Write
    <3>2. QED
      BY <1>1, <1>2, <1>4, <2>2, <3>1, PieceExtends
  <2>5. Short' <=> Short
    BY <1>1 DEF Short
  <2>6. CASE length' > 0
    <3>1. \E n \in Nat : addr' = n * BUFFERSIZE
      <4>1. PICK n \in Nat : addr = n * BUFFERSIZE
        BY <1>1 DEF Inv, Progress
      <4>2. addr' = (n + 1) * BUFFERSIZE
        BY <1>2, <2>2, <2>6, <4>1, SizeAssumption
      <4>3. QED
        BY <4>2
    <3>2. ~ (call.isMapped /\ Short)
      BY <1>1, <1>2, <1>3, <2>6 DEF Inv, Progress, Short, TypeOK
    <3>3. QED
      BY <1>1, <1>2, <1>3, <1>4, <2>2, <2>3, <2>4, <2>5, <2>6, <3>1, <3>2
         DEF Inv, Progress, Processed
  <2>7. CASE ~ (length' > 0)
    <3>1. addr' = call.size
      BY <1>2, <1>3, <2>2, <2>7
    <3>2. pc' = "return" /\ result' = 0
      BY <1>4, <2>7 DEF Done
    <3>3. Short' => Processed(call.size)'
      BY <1>1, <2>4, <2>5, <3>1 DEF Processed
    <3>4. QED
      BY <1>1, <2>3, <3>2, <3>3 DEF Inv, Progress, ERROR
  <2>8. QED
    BY <2>6, <2>7
<1>5. ASSUME NEW part \in Torn(addr, count), Process(part),
             Done(ERROR), UNCHANGED addr
      PROVE  Inv'
  <2>1. TypeOK'
    <3>1. data' \in [Bytes -> Int]
      BY <1>5 DEF Inv, TypeOK, Process, Calls
    <3>2. QED
      BY <1>1, <1>2, <1>5, <3>1 DEF Inv, TypeOK, Done
  <2>2. pc' = "return" /\ result' = ERROR
    BY <1>5 DEF Done
  <2>3. ~ call.isMapped => TornAt(addr)'
    BY <1>1, <1>2, <1>3, <1>5, TornPiece DEF Inv, Progress, Short, TornAt, TypeOK
  <2>4. QED
    BY <1>1, <1>2, <1>3, <1>5, <2>1, <2>2, <2>3
       DEF Inv, Progress, ERROR, TypeOK
<1>6. QED
  BY <1>4, <1>5 DEF Write

\* The loop invariant of encrypt and decrypt.
THEOREM LoopInvariant == Spec => []Inv
<1>1. Inv /\ [Next]_vars => Inv'
  <2> SUFFICES ASSUME Inv, [Next]_vars PROVE Inv'
    OBVIOUS
  <2>1. CASE UNCHANGED vars
    BY <2>1 DEF Inv, TypeOK, Progress, Short, Processed, TornAt, vars
  <2>2. QED
    BY <2>1, CallInv, IoctlsInv, WriteInv, ReturnInv DEF Next
<1>2. QED
  BY <1>1, InitInv, PTL DEF Spec

\* Offset and rest of the loop never go below zero, and the rest, unsigned
\* in the code, never wraps round: it is tested before the subtraction.
THEOREM LoopTypes == Spec => []TypeOK
<1>1. Inv => TypeOK
  BY DEF Inv
<1>2. QED
  BY <1>1, LoopInvariant, PTL

\* Whatever the sizes, a call that returns 0 has processed every byte of an
\* ordinary message, or of a mapped one that fits the buffer, exactly once.
THEOREM OrdinaryMessageWhole == Spec => []WholeOrdinaryMessage
<1>1. Inv => WholeOrdinaryMessage
  BY DEF Inv, Progress, Short, WholeOrdinaryMessage, WholeMessage
<1>2. QED
  BY <1>1, LoopInvariant, PTL

\* Whatever the sizes, the pieces stay inside the message and the buffer.
THEOREM PiecesStayInside == Spec => []PiecesInside
<1>1. Inv => PiecesInside
  BY SizeAssumption, CallSize DEF Inv, TypeOK, Progress, PiecesInside, Count
<1>2. QED
  BY <1>1, LoopInvariant, PTL

\* Whatever the sizes, a failed call leaves the pieces before the one it
\* failed at processed, that one torn, and the rest as it was.
THEOREM FailuresTearOnePiece == Spec => []FailureTearsOnePiece
<1>1. Inv => FailureTearsOnePiece
  <2> SUFFICES ASSUME Inv, pc = "return", result = ERROR, ~ call.isMapped
               PROVE  /\ addr <= call.size
                      /\ \E n \in 0 .. Capacity : addr = n * BUFFERSIZE
                      /\ \A i \in Bytes :
                             data[i] - before[i] \in
                                 IF i < addr THEN {call.dir}
                                 ELSE IF i < addr + BUFFERSIZE /\ i < call.size
                                 THEN {0, call.dir}
                                 ELSE {0}
    BY DEF FailureTearsOnePiece
  <2>1. TornAt(addr) /\ addr <= call.size
    BY DEF Inv, Progress
  <2>2. PICK n \in Nat : addr = n * BUFFERSIZE
    BY DEF Inv, Progress
  <2>3. n * BUFFERSIZE >= n
    BY SizeAssumption
  <2>4. n \in 0 .. Capacity
    BY <2>1, <2>2, <2>3, CallSize, SizeAssumption DEF Inv, TypeOK
  <2>5. ASSUME NEW i \in Bytes
        PROVE  data[i] - before[i] \in
                   IF i < addr THEN {call.dir}
                   ELSE IF i < addr + BUFFERSIZE /\ i < call.size
                   THEN {0, call.dir}
                   ELSE {0}
    <3>1. data[i] \in Int /\ before[i] \in Int /\ call.dir \in Int
      BY DEF Inv, TypeOK, Calls
    <3>2. QED
      BY <2>1, <3>1 DEF TornAt
  <2>6. QED
    BY <2>1, <2>2, <2>4, <2>5
<1>2. QED
  BY <1>1, LoopInvariant, PTL

-----------------------------------------------------------------------------
(* A mapped message that is longer than the driver's buffer.               *)

\* Every piece of a mapped message is the first bytes of the window, so what
\* lies beyond one buffer stays as it was while the call lasts.
TailUntouched ==
    call.isMapped /\ pc # "user" =>
        \A i \in Bytes : i >= BUFFERSIZE => data[i] = before[i]

LEMMA TailNext ==
    ASSUME Inv, TailUntouched, [Next]_vars PROVE TailUntouched'
<1>1. CASE Write
  <2>1. Count(length) \in Nat /\ Count(length) <= BUFFERSIZE
    BY SizeAssumption DEF Inv, TypeOK, Count
  <2>2. ASSUME call.isMapped, NEW part, Process(part),
               part \subseteq Piece(addr, Count(length)),
               NEW i \in Bytes, i >= BUFFERSIZE
        PROVE  data'[i] = data[i]
    <3>1. i \notin Piece(addr, Count(length))
      BY <2>1, <2>2, SizeAssumption DEF Piece, Bytes
    <3>2. QED
      BY <2>2, <3>1 DEF Process
  <2>3. \E part : part \subseteq Piece(addr, Count(length)) /\ Process(part)
    BY <1>1 DEF Write, Torn
  <2>4. QED
    BY <1>1, <2>2, <2>3 DEF Write, TailUntouched
<1>2. CASE \E c \in Calls : Call(c)
  BY <1>2 DEF Call, TailUntouched
<1>3. CASE Ioctls
  BY <1>3 DEF Ioctls, TailUntouched
<1>4. CASE Return \/ UNCHANGED vars
  BY <1>4 DEF Return, vars, TailUntouched
<1>5. QED
  BY <1>1, <1>2, <1>3, <1>4 DEF Next

\* encrypt and decrypt never process the whole of a mapped message that is
\* longer than the driver's buffer, whatever they return: what the run
\* library_mapped finds for one size holds for all.
THEOREM LongMappedNeverWhole ==
    Spec => [](pc = "return" /\ call.isMapped /\ call.size > BUFFERSIZE
               => ~ Processed(call.size))
<1>1. Init => TailUntouched
  BY DEF Init, TailUntouched
<1>2. ASSUME Inv, TailUntouched, pc = "return", call.isMapped,
             call.size > BUFFERSIZE, Processed(call.size)
      PROVE  FALSE
  <2>1. BUFFERSIZE \in Bytes /\ BUFFERSIZE < call.size
    BY <1>2, CallSize, SizeAssumption DEF Inv, TypeOK, Bytes
  <2>2. data[BUFFERSIZE] = before[BUFFERSIZE]
    BY <1>2, <2>1, SizeAssumption DEF TailUntouched
  <2>3. data[BUFFERSIZE] = before[BUFFERSIZE] + call.dir
    BY <1>2, <2>1 DEF Processed
  <2>4. before[BUFFERSIZE] \in Int /\ call.dir \in {1, -1}
    BY <1>2, <2>1 DEF Inv, TypeOK, Calls
  <2>5. QED
    BY <2>2, <2>3, <2>4
<1>3. QED
  BY <1>1, <1>2, TailNext, LoopInvariant, PTL DEF Spec

-----------------------------------------------------------------------------
\* Every round of the loop either ends the call or leaves a rest that is
\* shorter by one whole buffer and not empty: no more rounds than buffers in
\* the message.
THEOREM LoopShrinks ==
    Spec => [][Write => \/ pc' = "return"
                        \/ length' > 0 /\ length' + BUFFERSIZE = length]_vars
<1>1. ASSUME Inv, Write
      PROVE  pc' = "return" \/ (length' > 0 /\ length' + BUFFERSIZE = length)
  <2>1. length \in Nat /\ length' = Rest(length)
    BY <1>1 DEF Inv, TypeOK, Write
  <2>2. length' > 0 => length' + BUFFERSIZE = length
    BY <2>1, SizeAssumption DEF Rest
  <2>3. ~ (length' > 0) => pc' = "return"
    BY <1>1 DEF Write, Done
  <2>4. QED
    BY <2>2, <2>3
<1>2. QED
  BY <1>1, LoopInvariant, PTL DEF Spec
=============================================================================
