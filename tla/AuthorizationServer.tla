------------------------ MODULE AuthorizationServer ------------------------
(***************************************************************************)
(* The refresh grant of the authorization server, as the client code and   *)
(* its tests rely on it (an external service). A refresh family is a chain *)
(* of generations: a refresh rotates the head, and the predecessor may be  *)
(* replayed by the same client while its grace window lasts. Any other     *)
(* rotated token is reuse, which revokes the whole family.                 *)
(***************************************************************************)
EXTENDS Naturals

CONSTANTS
    Clients,     \* OAuth client ids
    MaxFamilies, \* refresh families the server mints, one after the other
    MaxGen       \* generations modelled; beyond it the server is unavailable

Families == 1 .. MaxFamilies

\* What the server keeps of one family. grace: the predecessor of the head is
\* still inside its grace window; alive: neither revoked nor expired.
FamilyRows == [client : Clients, head : 0 .. MaxGen,
               grace : BOOLEAN, alive : BOOLEAN]

Tokens == [family : Families, gen : 0 .. MaxGen]

\* A family as it is minted.
Minted(c) == [client |-> c, head |-> 0, grace |-> FALSE, alive |-> TRUE]

HeadOf(row, f) == [family |-> f, gen |-> row.head]

Verdicts == {"rotate", "replay", "reuse", "mismatch", "invalid"}

\* The validation ladder: revocation and reuse first, expiry, then the client.
Verdict(row, gen, c) ==
    CASE ~row.alive -> "invalid"
      [] row.alive /\ gen = row.head ->
            IF c = row.client THEN "rotate" ELSE "mismatch"
      [] row.alive /\ gen + 1 = row.head /\ row.grace /\ c = row.client ->
            "replay"
      [] OTHER -> "reuse"

\* What a verdict does to the family. A replay and a mismatch write nothing.
Applied(row, verdict) ==
    CASE verdict = "rotate" -> [row EXCEPT !.head = @ + 1, !.grace = TRUE]
      [] verdict = "reuse"  -> [row EXCEPT !.alive = FALSE]
      [] OTHER -> row

=============================================================================
