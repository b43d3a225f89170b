----------------------------- MODULE AtomicWrites -----------------------------
(* What a caller of the store's write methods may rely on, whatever the locks do: *)
(* a call takes effect as a whole, once, and only if it does not raise.           *)
(* src/filigree/db_base.py promises it to every module above it.                  *)

CONSTANTS
    Call,       \* the write calls that may be made
    Version,    \* the attempts at a call: one of them may be the one that counts
    Part        \* the parts of a call's effect

VARIABLES
    store,      \* committed parts: <<call, version, part>>
    answer      \* [Call -> what its caller knows]

atomicVars == <<store, answer>>

Answer == {"none", "asked", "ok", "raised", "lost"}

Applied(c) == \E v \in Version, p \in Part : <<c, v, p>> \in store

AtomicInit == store = {} /\ answer = [c \in Call |-> "none"]

Ask(c) ==
    /\ answer[c] = "none"
    /\ answer' = [answer EXCEPT ![c] = "asked"]
    /\ UNCHANGED store

Apply(c) ==
    /\ answer[c] = "asked" /\ ~Applied(c)
    /\ \E v \in Version : store' = store \cup {<<c, v, p>> : p \in Part}
    /\ UNCHANGED answer

Succeed(c) ==
    /\ answer[c] = "asked" /\ Applied(c)
    /\ answer' = [answer EXCEPT ![c] = "ok"]
    /\ UNCHANGED store

Refuse(c) ==
    /\ answer[c] = "asked" /\ ~Applied(c)
    /\ answer' = [answer EXCEPT ![c] = "raised"]
    /\ UNCHANGED store

(* The caller's process died or was interrupted: nobody hears the answer, of one  *)
(* call or of several in the same process.                                        *)
Lose(C) ==
    /\ \A c \in C : answer[c] = "asked"
    /\ answer' = [c \in Call |-> IF c \in C THEN "lost" ELSE answer[c]]
    /\ UNCHANGED store

AtomicNext ==
    \/ \E c \in Call : Ask(c) \/ Apply(c) \/ Succeed(c) \/ Refuse(c)
    \/ \E C \in SUBSET Call : Lose(C)

AtomicSpec == AtomicInit /\ [][AtomicNext]_atomicVars
=============================================================================
