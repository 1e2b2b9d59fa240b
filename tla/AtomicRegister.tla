--------------------------- MODULE AtomicRegister ---------------------------
(***************************************************************************)
(* What writeFileAtomicSync promises of one file, whatever it does in the  *)
(* directory to keep the promise: a register that holds a document or      *)
(* nothing. A write that returns has replaced the document in one step     *)
(* between its call and its return, one that fails or dies has replaced it *)
(* in such a step or not at all, and one that throws has not. Power losses *)
(* may take replacements back, to what was durable. The document of one    *)
(* write is whole, or torn if the disk took a part of it without an error: *)
(* nothing else tears what the register holds.                             *)
(***************************************************************************)
CONSTANTS Writers, Documents, Nothing, Torn

VARIABLES
    value,      \* what a reader finds
    durable,    \* what a reader finds after a power loss
    phase,      \* how far the write of a writer is
    doc         \* the document that it writes

registerVars == <<value, durable, phase, doc>>

Init ==
    /\ value \in Documents \cup {Nothing} /\ durable = value
    /\ phase = [w \in Writers |-> "idle"]
    /\ doc = [w \in Writers |-> Nothing]

Move(w, from, to) ==
    /\ phase[w] \in from
    /\ phase' = [phase EXCEPT ![w] = to]

Begin(w, d) ==
    /\ Move(w, {"idle"}, "writing")
    /\ doc' = [doc EXCEPT ![w] = d]
    /\ UNCHANGED <<value, durable>>

\* The disk takes a part of the document, and the write goes on.
Truncate(w) ==
    /\ phase[w] = "writing"
    /\ doc' = [doc EXCEPT ![w] = Torn]
    /\ UNCHANGED <<value, durable, phase>>

Replace(w) ==
    /\ Move(w, {"writing"}, "written")
    /\ value' = doc[w]
    /\ UNCHANGED <<durable, doc>>

\* A write is over: its effect, if it had one, may be durable by then.
Return(w) ==
    /\ Move(w, {"written"}, "idle")
    /\ doc' = [doc EXCEPT ![w] = Nothing]
    /\ durable' \in {durable, value}
    /\ UNCHANGED value

\* The call throws, or its process dies.
Fail(w) ==
    /\ Move(w, {"writing", "throwing"}, "idle")
    /\ doc' = [doc EXCEPT ![w] = Nothing]
    /\ UNCHANGED <<value, durable>>

\* It will throw: there is no way back to a replacement.
Throw(w) ==
    /\ Move(w, {"writing"}, "throwing")
    /\ UNCHANGED <<value, durable, doc>>

Flush == durable' = value /\ UNCHANGED <<value, phase, doc>>

PowerLoss ==
    /\ value' = durable
    /\ phase' = [w \in Writers |-> "idle"]
    /\ doc' = [w \in Writers |-> Nothing]
    /\ UNCHANGED durable

Next ==
    \/ \E w \in Writers :
        \/ \E d \in Documents : Begin(w, d)
        \/ Truncate(w) \/ Replace(w) \/ Return(w) \/ Throw(w) \/ Fail(w)
    \/ Flush \/ PowerLoss

Spec == Init /\ [][Next]_registerVars
=============================================================================
