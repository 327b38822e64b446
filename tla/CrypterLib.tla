----------------------------- MODULE CrypterLib -----------------------------
(***************************************************************************)
(* The user library, src/src/crypter.c: encrypt and decrypt cut a message  *)
(* into pieces of at most BUFFERSIZE bytes and hand each to the driver     *)
(* with a write().  One thread, one handle; a write() is one step, which   *)
(* pci_write carries out or fails (module CryptoDev).  A write() that      *)
(* fails may have overwritten part of its piece.                           *)
(*                                                                         *)
(* A byte is modelled by how many times it has been encrypted, less how    *)
(* many times it has been decrypted: 0 is the plain byte.                  *)
(***************************************************************************)
EXTENDS Integers

CONSTANTS
    BUFFERSIZE,  \* the largest piece
    Capacity,    \* bytes at the address the user passes
    MaxDepth,    \* bound: how deep the user nests encryptions
    Unreliable   \* whether a write() may be refused

ASSUME SizeAssumption ==
    /\ BUFFERSIZE \in Nat \ {0}
    /\ Capacity \in Nat
    /\ MaxDepth \in Nat
    /\ Unreliable \in BOOLEAN

Bytes == 0 .. (Capacity - 1)

VARIABLES
    data,      \* data[i]: the depth of byte i of the user's memory
    before,    \* data when the current call was made
    call,      \* [dir, size, isMapped] of the current call
    addr,      \* offset the next write() gets, from the user's address
    length,    \* bytes left for the writes after that
    pc,        \* "user", "ioctl", "loop" or "return"
    result     \* what the call returns: 0, or ERROR

vars == <<data, before, call, addr, length, pc, result>>

ERROR == -1

Calls == [dir : {1, -1}, size : 0 .. Capacity, isMapped : BOOLEAN]

TypeOK ==
    /\ data \in [Bytes -> Int]
    /\ before \in [Bytes -> Int]
    /\ call \in Calls
    /\ addr \in Nat
    /\ length \in Nat
    /\ pc \in {"user", "ioctl", "loop", "return"}
    /\ result \in {0, ERROR}

Init ==
    /\ data = [i \in Bytes |-> 0]
    /\ before = data
    /\ call = [dir |-> 1, size |-> 0, isMapped |-> FALSE]
    /\ addr = 0
    /\ length = 0
    /\ pc = "user"
    /\ result = 0

-----------------------------------------------------------------------------
\* The bound: no byte of the message is MaxDepth deep already.
Deep(c) == \E i \in Bytes : i < c.size /\ data[i] * c.dir >= MaxDepth

\* encrypt (dir = 1) and decrypt (dir = -1).
Call(c) ==
    /\ pc = "user"
    /\ ~ Deep(c)
    /\ call' = c
    /\ before' = data
    /\ pc' = "ioctl"
    /\ UNCHANGED <<data, addr, length, result>>

\* With the bug an error does not leave the loop.
BugDone(code) ==
    /\ pc' = IF code = 0 THEN "return" ELSE "loop"
    /\ result' = code

Done(code) ==
    /\ pc' = "return"
    /\ result' = code

\* SET_ENCRYP and SET_MMAP__, either of which may fail.
Ioctls ==
    /\ pc = "ioctl"
    /\ \/ /\ pc' = "loop"
          /\ UNCHANGED result
       \/ Unreliable /\ Done(ERROR)
    /\ addr' = 0
    /\ length' = call.size
    /\ UNCHANGED <<data, before, call>>

\* With the bug a last piece shorter than BUFFERSIZE is rounded up.
BugCount(len) == BUFFERSIZE

Count(len) == IF len > BUFFERSIZE THEN BUFFERSIZE ELSE len

\* With the bugs the remainder after a full piece is forgotten, or is not
\* tested before the subtraction.
BugRestLost(len) == 0
BugRestSigned(len) == len - BUFFERSIZE

Rest(len) == IF len > BUFFERSIZE THEN len - BUFFERSIZE ELSE 0

\* The bytes pci_write processes for a piece of n bytes at offset a: those
\* at the pointer it gets, or the first ones of the device memory when the
\* pointer is a mapped one, whatever its offset there.
Piece(a, n) == IF call.isMapped THEN 0 .. (n - 1) ELSE a .. (a + n - 1)

Process(part) ==
    data' = [i \in Bytes |-> IF i \in part THEN data[i] + call.dir
                             ELSE data[i]]

\* vmalloc has no buffer for an empty message.
Refusable(n) == Unreliable \/ (n = 0 /\ ~ call.isMapped)

\* A write() that fails early has processed nothing.  One whose copy_to_user
\* faults has handed over a part of the answer, and one interrupted at a
\* mapped message leaves the card to go on with it: any part of the piece.
Torn(a, n) == SUBSET Piece(a, n)

\* With the bug the pieces all start at the same address.
BugStep(a, n) == a

Step(a, n) == a + n

\* One round of the loop.
Write ==
    LET count == Count(length) IN
    /\ pc = "loop"
    /\ length' = Rest(length)
    /\ \/ /\ count > 0 \/ call.isMapped
          /\ Process(Piece(addr, count))
          /\ addr' = Step(addr, count)
          /\ IF length' > 0 THEN UNCHANGED <<pc, result>> ELSE Done(0)
       \/ /\ Refusable(count)
          /\ \E part \in Torn(addr, count) : Process(part)
          /\ Done(ERROR)
          /\ UNCHANGED addr
    /\ UNCHANGED <<before, call>>

Return ==
    /\ pc = "return"
    /\ pc' = "user"
    /\ UNCHANGED <<data, before, call, addr, length, result>>

Next == (\E c \in Calls : Call(c)) \/ Ioctls \/ Write \/ Return

Spec == Init /\ [][Next]_vars

FairSpec == Spec /\ WF_vars(Ioctls \/ Write \/ Return)

-----------------------------------------------------------------------------
(* Properties.                                                             *)

\* The bytes below n went one step in the direction of the call, and no
\* other byte moved.
Processed(n) ==
    \A i \in Bytes :
        data[i] = IF i < n THEN before[i] + call.dir ELSE before[i]

\* A call that returns 0 has processed every byte of the message exactly
\* once and nothing beyond it.  (For a mapped message of any size: what the
\* comment on encrypt says, "length: size of data to be encrypt".)
WholeMessage == pc = "return" /\ result = 0 => Processed(call.size)

\* A mapped message is whole when it fits the driver's buffer, and an
\* ordinary message always is.
WholeOrdinaryMessage ==
    ~ call.isMapped \/ call.size <= BUFFERSIZE => WholeMessage

\* A call that fails has processed the pieces before addr whole and perhaps
\* some bytes of the piece there, each at most once, and nothing beyond that
\* piece or the message: a failure does not mean an unchanged message.
FailureTearsOnePiece ==
    pc = "return" /\ result = ERROR /\ ~ call.isMapped =>
        /\ addr <= call.size
        /\ \E n \in 0 .. Capacity : addr = n * BUFFERSIZE
        /\ \A i \in Bytes :
               data[i] - before[i] \in
                   IF i < addr THEN {call.dir}
                   ELSE IF i < addr + BUFFERSIZE /\ i < call.size
                   THEN {0, call.dir}
                   ELSE {0}

\* No piece reaches beyond the message or is larger than the buffer that
\* pci_write allocates for it.
PiecesInside ==
    pc = "loop" =>
        /\ addr + length = call.size
        /\ Count(length) <= BUFFERSIZE
        /\ addr + Count(length) <= call.size

\* The loop ends: every call returns to the user.
CallsReturn == pc = "ioctl" ~> pc = "user"
=============================================================================
