----------------------------- MODULE SoleClient -----------------------------
(***************************************************************************)
(* What the credential providers of a machine are to the authorization     *)
(* server, however many processes run, overlap, crash or lose answers: one *)
(* client. It keeps one token, presents that token and no other, has one   *)
(* answer under way at a time, and keeps the successor or loses it.        *)
(***************************************************************************)
EXTENDS AuthorizationServer, Sequences

CONSTANTS MintClient, NoToken

VARIABLES
    rows,       \* the server's rows of the families minted so far
    held,       \* the token that the machine keeps
    flight,     \* the successor that the server gave out and nobody kept yet
    losses      \* successors that were given out in vain

clientVars == <<rows, held, flight, losses>>

Init ==
    /\ rows = <<Minted(MintClient)>>
    /\ held = [family |-> 1, gen |-> 0]
    /\ flight = NoToken /\ losses = 0

\* The token that is kept is presented, under some client id. It is the newest of
\* its family, unless a successor was lost before: only then may the server find
\* a replay, or a reuse.
Ask(client) ==
    /\ held # NoToken /\ flight = NoToken
    /\ losses = 0 => held.gen = rows[held.family].head
    /\ LET verdict == Verdict(rows[held.family], held.gen, client) IN
        /\ rows' = [rows EXCEPT ![held.family] = Applied(@, verdict)]
        /\ flight' = IF verdict \in {"rotate", "replay"}
                     THEN [held EXCEPT !.gen = @ + 1] ELSE NoToken
    /\ UNCHANGED <<held, losses>>

Keep ==
    /\ flight # NoToken
    /\ held' = flight /\ flight' = NoToken
    /\ UNCHANGED <<rows, losses>>

Lose ==
    /\ flight # NoToken
    /\ flight' = NoToken /\ losses' = losses + 1
    /\ UNCHANGED <<rows, held>>

\* Sign-ins and sign-outs take place while no answer is under way.
Login(client) ==
    /\ flight = NoToken /\ Len(rows) < MaxFamilies
    /\ rows' = Append(rows, Minted(client))
    /\ held' = [family |-> Len(rows) + 1, gen |-> 0]
    /\ UNCHANGED <<flight, losses>>

SignOut ==
    /\ flight = NoToken
    /\ held' = NoToken
    /\ UNCHANGED <<rows, flight, losses>>

\* The server by itself: grace windows end, a family expires.
GraceEnds ==
    /\ \E over \in SUBSET DOMAIN rows :
        rows' = [f \in DOMAIN rows |->
                    IF f \in over THEN [rows[f] EXCEPT !.grace = FALSE] ELSE rows[f]]
    /\ UNCHANGED <<held, flight, losses>>

FamilyDies ==
    /\ \E f \in DOMAIN rows :
        rows' = [rows EXCEPT ![f].alive = FALSE, ![f].grace = FALSE]
    /\ UNCHANGED <<held, flight, losses>>

Next ==
    \/ GraceEnds \/ FamilyDies
    \/ \E client \in Clients : Ask(client) \/ Login(client)
    \/ Keep \/ Lose \/ SignOut

Spec == Init /\ [][Next]_clientVars
=============================================================================
