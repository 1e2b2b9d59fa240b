-------------------------- MODULE MCProviderParts --------------------------
(***************************************************************************)
(* Two instances of CredentialProvider in one: the fleet, whose two calls  *)
(* are of two processes, and the overlap, whose two calls are of one. A    *)
(* behaviour is of one of them, and the third call never starts. Only the  *)
(* calls hold the lock of the fleet. In the overlap nobody signs out, dies *)
(* or spoils the store.                                                    *)
(***************************************************************************)
EXTENDS MCCredentialProvider

VARIABLE part   \* "fleet" or "overlap"

partVars == <<part, vars>>

PartsInit ==
    /\ part \in {"fleet", "overlap"}
    /\ Init
    /\ part = "fleet" => store.client = NoClient

CallMoves(c) == Refresh(c) \/ \E m \in ModesOf[c] : Call(c, m)

FleetMoves ==
    /\ part = "fleet"
    /\ Environment \/ \E c \in {c1, c3} : CallMoves(c)
    /\ holder' \notin Procs
    /\ UNCHANGED part

OverlapMoves ==
    /\ part = "overlap"
    /\ \/ \E c \in {c1, c2} : CallMoves(c) \/ PresentFails(c) \/ Lose(c)
       \/ \E f \in DOMAIN rows : GraceEnds(f) \/ FamilyDies(f)
       \/ CoolsDown(p1) \/ SiblingEnters(p1) \/ SiblingLeaves(p1)
       \/ \E client \in Clients : Login(client)
    /\ UNCHANGED part

PartsSpec == PartsInit /\ [][FleetMoves \/ OverlapMoves]_partVars
=============================================================================
