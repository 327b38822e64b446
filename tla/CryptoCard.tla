----------------------------- MODULE CryptoCard -----------------------------
(***************************************************************************)
(* The CryptoCard PCI device, as src/drivers/cryptocard_mod.c uses it      *)
(* through its BAR 0 registers (the device itself is not in src/).         *)
(*                                                                         *)
(* One message is one value of Data: its bytes and its length together.    *)
(* The window r1 of the BAR holds one message; a DMA mapping is a slot of  *)
(* the bus, which holds the message the device reads and writes there.     *)
(* The device has one engine: it fetches its input, works, writes the      *)
(* result over the input, clears its busy bit and, when it was asked to,   *)
(* sets its bit of the interrupt status register.                          *)
(*                                                                         *)
(* Every operator below that primes variables primes its own ones only;    *)
(* the module that composes the card says what else stays.                 *)
(***************************************************************************)
EXTENDS Naturals

CONSTANTS
    Keys,     \* values of the key register
    Data,     \* messages, results, and whatever else a buffer may hold
    Slots,    \* bus addresses dma_map_single can return
    Crypt,    \* Crypt[e, k, d]: d encrypted (e) or decrypted (~e) under k
    None      \* no slot, no buffer, nothing held

ASSUME CryptAssumption == Crypt \in [BOOLEAN \X Keys \X Data -> Data]
ASSUME NoneAssumption  == None \notin Data /\ None \notin Slots

Vias == {"MMIO", "DMA"}
Ops  == [via : Vias, enc : BOOLEAN, irq : BOOLEAN, slot : Slots \cup {None}]
NoOp == [via |-> "MMIO", enc |-> TRUE, irq |-> FALSE, slot |-> None]

VARIABLES
    keyReg,   \* key register, write only
    addrReg,  \* DMA address register
    region,   \* the device memory window r1
    bus,      \* bus[s]: the message mapped at s, None when s is not mapped
    phase,    \* "idle", "armed" (triggered) or "fetched" (input latched)
    op,       \* the operation of the engine while it is busy
    work,     \* the message inside the engine
    isr       \* interrupt status register, as the set of its raised bits

cardVars == <<keyReg, addrReg, region, bus, phase, op, work, isr>>

CardTypeOK ==
    /\ keyReg \in Keys
    /\ addrReg \in Slots \cup {None}
    /\ region \in Data
    /\ bus \in [Slots -> Data \cup {None}]
    /\ phase \in {"idle", "armed", "fetched"}
    /\ op \in Ops
    /\ work \in IF phase = "fetched" THEN Data ELSE {None}
    /\ isr \in SUBSET Vias

\* junk is what the window holds before anything is written there.
CardInit(key, junk) ==
    /\ keyReg = key
    /\ addrReg = None
    /\ region = junk
    /\ bus = [s \in Slots |-> None]
    /\ phase = "idle"
    /\ op = NoOp
    /\ work = None
    /\ isr = {}

-----------------------------------------------------------------------------
(* Register accesses of the host.                                          *)

Busy == phase # "idle"

\* Bit 0 of the MMIO status register, or of the DMA command register.
BusyBit(via) == Busy /\ op.via = via

\* While the engine is busy the card takes no new address and no trigger.
WriteDmaAddr(s) == addrReg' = IF Busy THEN addrReg ELSE s

Trigger(via, enc, irq) ==
    IF Busy
    THEN UNCHANGED <<phase, op>>
    ELSE /\ phase' = "armed"
         /\ op' = [via |-> via, enc |-> enc, irq |-> irq,
                   slot |-> IF via = "DMA" THEN addrReg ELSE None]

\* Writing a value to the acknowledge register clears those bits.
Acknowledge(bits) == isr' = isr \ bits

-----------------------------------------------------------------------------
(* Steps of the engine.  An address that is not mapped any more reads as   *)
(* an arbitrary message, and a write to it goes nowhere.                   *)

Mapped(s) == s \in Slots /\ bus[s] # None

Input == CASE op.via = "MMIO"                     -> {region}
           [] op.via = "DMA" /\ Mapped(op.slot)   -> {bus[op.slot]}
           [] op.via = "DMA" /\ ~ Mapped(op.slot) -> Data

Fetch ==
    /\ phase = "armed"
    /\ \E d \in Input : work' = Crypt[op.enc, keyReg, d]
    /\ phase' = "fetched"
    /\ UNCHANGED <<keyReg, addrReg, region, bus, op, isr>>

Finish ==
    /\ phase = "fetched"
    /\ phase' = "idle"
    /\ region' = IF op.via = "MMIO" THEN work ELSE region
    /\ bus' = IF op.via = "DMA" /\ Mapped(op.slot)
              THEN [bus EXCEPT ![op.slot] = work] ELSE bus
    /\ isr' = IF op.irq THEN isr \cup {op.via} ELSE isr
    /\ op' = NoOp
    /\ work' = None
    /\ UNCHANGED <<keyReg, addrReg>>

Engine == Fetch \/ Finish
=============================================================================
