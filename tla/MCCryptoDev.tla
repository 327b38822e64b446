----------------------------- MODULE MCCryptoDev -----------------------------
(***************************************************************************)
(* Instances of CryptoDev for TLC: two threads, symbolic messages.         *)
(***************************************************************************)
EXTENDS CryptoDev, FiniteSets, TLC

CONSTANTS t1, t2, h1, h2, k0, k1, garbage

\* A plain message is the name of the thread that sends it.  Processing it
\* once yields a term that says how; any other input yields garbage.
Plain     == {t1, t2}
Processed == BOOLEAN \X {k0, k1} \X Plain
MCData    == Plain \cup Processed \cup {garbage}

MCCrypt == [x \in BOOLEAN \X {k0, k1} \X MCData |->
              IF x[3] \in Plain THEN x ELSE garbage]

MCMsg == [t \in {t1, t2} |-> t]

Private == [t \in {t1, t2} |-> IF t = t1 THEN h1 ELSE h2]
Shared  == [t \in {t1, t2} |-> h1]

\* Thread t1 encrypts under the key of a fresh job, t2 decrypts under
\* another, in every combination of DMA or MMIO, interrupt or polling.
EveryMode(e, k) == [enc : {e}, key : {k}, isM : BOOLEAN, isI : BOOLEAN]
AllModes ==
    [t \in {t1, t2} |-> IF t = t1 THEN EveryMode(TRUE, k0)
                                 ELSE EveryMode(FALSE, k1)]

\* The same, each thread in two of them: interrupts on MMIO for t1 and on
\* DMA for t2.
MixedModes ==
    [AllModes EXCEPT ![t1] = {c \in @ : c.isM = c.isI},
                     ![t2] = {c \in @ : c.isM # c.isI}]

\* All calls sleep until the interrupt, t1 on MMIO and t2 on DMA.
SleepModes ==
    [AllModes EXCEPT ![t1] = {c \in @ : c.isI /\ c.isM},
                     ![t2] = {c \in @ : c.isI /\ ~ c.isM}]

\* t1 in every mode, t2 in those that sleep until the interrupt.
WakeModes == [AllModes EXCEPT ![t2] = {c \in @ : c.isI}]

\* t1 in every mode, t2 by DMA only.
MapperModes == [AllModes EXCEPT ![t2] = {c \in @ : ~ c.isM}]

\* Both by MMIO with polling, under one key.
SameCall ==
    [t \in {t1, t2} |-> {c \in AllModes[t1] : c.isM /\ ~ c.isI}]

\* Kernel buffers are interchangeable, and no property is temporal in them.
BufSymmetry == Permutations(Bufs)
=============================================================================
