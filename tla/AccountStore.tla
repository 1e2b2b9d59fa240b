---------------------------- MODULE AccountStore ----------------------------
(***************************************************************************)
(* What the login commit promises of the machine's store, however long its *)
(* dialogs, revocations and exchanges take and whatever is written while   *)
(* they are open: a document of one account. A sign-in adds to what is     *)
(* there, a derivation only to the document of its own account, and one    *)
(* account follows another by the consent of a user to leave it. What      *)
(* cannot be read is kept by a derivation and by a switch.                 *)
(***************************************************************************)
CONSTANTS Surfaces, Accounts, Slots, Families, None

VARIABLES
    doc,        \* whether a document exists, its subject, its families
    legible,    \* whether it can be read
    consent     \* the account that the user of a surface agreed to leave

storeVars == <<doc, legible, consent>>

Subjects == Accounts \cup {None}
Nothing == [exists |-> FALSE, subject |-> None, families |-> [slot \in Slots |-> None]]

\* Document d with family f, in the name of a.
With(d, slot, f, a) ==
    [exists |-> TRUE, subject |-> a, families |-> [d.families EXCEPT ![slot] = f]]

\* No two accounts: one of the two is unknown, or they are the same.
Agree(a, b) == a = None \/ b = None \/ a = b

Init ==
    /\ \/ doc = Nothing
       \/ \E f \in Families : doc = With(Nothing, "legacy", f, f.subject)
    /\ legible = TRUE
    /\ consent = [s \in Surfaces |-> None]

\* A user agrees to leave account a, or an agreement ends with its operation.
Consents(s, a) ==
    /\ UNCHANGED <<doc, legible>>
    /\ consent' = [consent EXCEPT ![s] = a]

EndsConsent(s) == consent' = [consent EXCEPT ![s] = None]

\* A login of nobody's consent. A store that cannot be read is replaced. (What the
\* first conjunct says follows from the others: it tells TLC which f to try.)
SignsIn(s, slot, f) ==
    LET base == IF legible THEN doc ELSE Nothing IN
        /\ doc'.families[slot] = f
        /\ consent[s] = None /\ UNCHANGED consent
        /\ Agree(base.subject, f.subject)
        /\ doc' = With(base, slot, f, IF f.subject = None THEN base.subject ELSE f.subject)
        /\ legible' = TRUE

\* The account that the user agreed to leave is the one that is left.
Switches(s, slot, f) ==
    /\ doc'.families[slot] = f
    /\ legible /\ consent[s] # None /\ doc.subject = consent[s]
    /\ f.subject \notin {None, doc.subject}
    /\ doc' = With(Nothing, slot, f, f.subject)
    /\ legible' = TRUE
    /\ EndsConsent(s)

\* The exchange may name the account (a) of a document without one.
Derives(s, f, a) ==
    /\ doc'.families["plugin"] = f
    /\ legible /\ doc.exists
    /\ Agree(doc.subject, f.subject) /\ f.subject \in {None, a}
    /\ doc' = With(doc, "plugin", f, IF doc.subject = None THEN a ELSE doc.subject)
    /\ legible' = TRUE
    /\ EndsConsent(s)

SignsOut(s) ==
    /\ doc' = Nothing
    /\ legible' = TRUE
    /\ EndsConsent(s)

Spoils == doc.exists /\ legible' = FALSE /\ UNCHANGED <<doc, consent>>
Heals == legible' = TRUE /\ UNCHANGED <<doc, consent>>

Next ==
    \/ \E s \in Surfaces :
        \/ \E a \in Subjects : Consents(s, a)
        \/ \E slot \in Slots, f \in Families : SignsIn(s, slot, f) \/ Switches(s, slot, f)
        \/ \E f \in Families, a \in Subjects : Derives(s, f, a)
        \/ SignsOut(s)
    \/ Spoils \/ Heals

Spec == Init /\ [][Next]_storeVars
=============================================================================
