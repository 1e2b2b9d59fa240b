------------------------ MODULE MCCredentialProvider ------------------------
(***************************************************************************)
(* Instances of CredentialProvider for TLC: two tools with different       *)
(* default client ids, one of them with two overlapping calls. Each falls  *)
(* back to the default of the other; the first family was minted under the *)
(* id of the second tool.                                                  *)
(***************************************************************************)
EXTENDS CredentialProvider

CONSTANTS c1, c2, c3, p1, p2

\* One call in the second process, the others overlap in the first.
TwoProcesses == [c \in Calls |-> IF c = c3 THEN p2 ELSE p1]

\* c3 answers a 401; the other calls come with or without need.
SecondIsNeedy == [c \in Calls |-> IF c = c3 THEN {"needy"}
                                             ELSE {"valid", "needy"}]
AnyMode == [c \in Calls |-> {"valid", "needy"}]

Defaults == [p \in Procs |-> IF p = p1 THEN "unity" ELSE "plugin"]
Fallbacks == [p \in Procs |-> IF p = p1 THEN <<"plugin">> ELSE <<"unity">>]
=============================================================================
