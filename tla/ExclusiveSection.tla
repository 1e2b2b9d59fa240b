-------------------------- MODULE ExclusiveSection --------------------------
(***************************************************************************)
(* What MachineCredentialLock promises its callers, whatever files it uses *)
(* to keep the promise: acquire() either lets the caller into the critical *)
(* section, alone, or refuses it (CredentialLockBusyError or an I/O error);*)
(* a refused caller is out and never runs its section without the lock.    *)
(***************************************************************************)
CONSTANT Actors

VARIABLE phase

Phases == {"out", "waiting", "inside", "refused", "crashed"}

Init == phase = [a \in Actors |-> "out"]

Move(a, from, to) ==
    /\ phase[a] = from
    /\ phase' = [phase EXCEPT ![a] = to]

Ask(a) == Move(a, "out", "waiting")

\* A caller enters only when nobody is inside.
Enter(a) ==
    /\ \A b \in Actors : phase[b] # "inside"
    /\ Move(a, "waiting", "inside")

Refuse(a) == Move(a, "waiting", "refused")

Acknowledge(a) == Move(a, "refused", "out")

Leave(a) == Move(a, "inside", "out")

\* The process of a caller may die at any point, inside the section too.
Crash(a) ==
    /\ phase[a] # "crashed"
    /\ phase' = [phase EXCEPT ![a] = "crashed"]

Restart(a) == Move(a, "crashed", "out")

Next == \E a \in Actors :
    \/ Ask(a) \/ Enter(a) \/ Refuse(a) \/ Acknowledge(a)
    \/ Leave(a) \/ Crash(a) \/ Restart(a)

Spec == Init /\ [][Next]_phase

=============================================================================
