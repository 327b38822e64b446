----------------------------- MODULE CardService -----------------------------
(***************************************************************************)
(* What encrypt and decrypt promise to their callers, with no driver and   *)
(* no card: a call is answered once, either with the caller's message      *)
(* processed in the direction and under the key it asked for, or with an   *)
(* error and the message as it was (torn, when the answer itself could not *)
(* be copied out).  CryptoDev implements it.                               *)
(***************************************************************************)
CONSTANTS Threads, Keys, Data, Crypt, Msg

VARIABLES
    stage,   \* stage[t]: "idle", "asked", "served" or "refused"
    want,    \* want[t]: direction and key of t's call
    view     \* view[t]: what t sees at the address it passed

vars == <<stage, want, view>>

Init ==
    /\ stage = [t \in Threads |-> "idle"]
    /\ want \in [Threads -> [enc : BOOLEAN, key : Keys]]
    /\ view = Msg

Answer(t) == Crypt[want[t].enc, want[t].key, Msg[t]]

Move(t, a, b) == stage[t] = a /\ stage' = [stage EXCEPT ![t] = b]

Ask(t) ==
    /\ Move(t, "idle", "asked")
    /\ \E w \in [enc : BOOLEAN, key : Keys] : want' = [want EXCEPT ![t] = w]
    /\ UNCHANGED view

Serve(t) ==
    /\ Move(t, "asked", "served")
    /\ view' = [view EXCEPT ![t] = Answer(t)]
    /\ UNCHANGED want

Refuse(t) ==
    /\ Move(t, "asked", "refused")
    /\ UNCHANGED <<want, view>>

\* An answer that could not be copied to the caller.
Tear(t) ==
    /\ Move(t, "asked", "refused")
    /\ \E d \in Data : view' = [view EXCEPT ![t] = d]
    /\ UNCHANGED want

\* An interrupted call that the kernel starts again.
Resume(t) ==
    /\ Move(t, "refused", "asked")
    /\ UNCHANGED <<want, view>>

\* The caller takes the answer and prepares its next message.
Take(t) ==
    /\ \/ Move(t, "served", "idle")
       \/ Move(t, "refused", "idle")
    /\ view' = [view EXCEPT ![t] = Msg[t]]
    /\ UNCHANGED want

Reply(t) == Serve(t) \/ Refuse(t) \/ Tear(t)

Next == \E t \in Threads : Ask(t) \/ Reply(t) \/ Resume(t) \/ Take(t)

Spec == Init /\ [][Next]_vars
=============================================================================
