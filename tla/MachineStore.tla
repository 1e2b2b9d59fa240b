----------------------------- MODULE MachineStore -----------------------------
(***************************************************************************)
(* The document of the machine's sign-in (src/src/machine-credentials.ts)  *)
(* while tools of two generations share it. Old tools know one credential, *)
(* at the top level (version 1); updated ones know a family per plane and  *)
(* mirror the one of the plugin plane at the top level (version 2). Every  *)
(* write is one step: its callers hold the credential lock, and the file   *)
(* is replaced atomically.                                                 *)
(*                                                                         *)
(* A token is the number of its issue. Left out: the version, which        *)
(* follows the shape; identity and unknown fields, which every write       *)
(* passes on; a write that the codec refuses, which changes nothing.       *)
(***************************************************************************)
EXTENDS Naturals

CONSTANTS
    NoCredential,   \* no token, no document
    MaxIssued       \* bound: tokens

VARIABLES
    document,   \* credentials.json, or NoCredential
    legible,    \* whether the codec decrypts it
    issued,     \* the last token
    newest      \* history: what each plane was given last

storeVars == <<document, legible, issued, newest>>

Names == {"agent", "plugin", "legacy"}
Tokens == Nat \cup {NoCredential}
NoFamilies == [n \in Names |-> NoCredential]

\* flat: without families, as version 1 has it.
Document == [flat : BOOLEAN, top : Tokens, families : [Names -> Tokens]]

ASSUME StoreAssumption == NoCredential \notin Nat /\ NoCredential \notin Document

Unserved == [agent |-> NoCredential, hub |-> NoCredential]
Empty == [flat |-> TRUE, top |-> NoCredential, families |-> NoFamilies]

StoreInit ==
    /\ document = NoCredential /\ legible = TRUE /\ issued = 0
    /\ newest = Unserved

\* resolvePlane for the plane of the hub.
HubFamily(families) ==
    IF families["plugin"] # NoCredential THEN families["plugin"] ELSE families["legacy"]

LegacyMirrored(d) ==
    IF d.flat THEN d
    ELSE [d EXCEPT !.top = IF d.families["legacy"] # NoCredential THEN d.families["legacy"]
                                                          ELSE d.families["plugin"]]

\* applyV1CompatMirror: without a family for it, the mirror goes.
Mirrored(d) ==
    IF d.flat THEN d
    ELSE [d EXCEPT !.top = IF d.families["plugin"] # NoCredential THEN d.families["plugin"]
                                                          ELSE d.families["legacy"]]

\* effectiveFamilies: the credential of an old document is its legacy family.
Effective(d) ==
    IF d.flat THEN [NoFamilies EXCEPT !["legacy"] = d.top] ELSE d.families

\* adoptToV2.
Adopted(d) == Mirrored([d EXCEPT !.flat = FALSE, !.families = Effective(d)])

Readable == document # NoCredential /\ legible
Current == IF Readable THEN document ELSE Empty

Issue == issued < MaxIssued /\ issued' = issued + 1

\* What the write of token t into family n makes of what the planes have.
Given(was, n, t, families) ==
    IF n = "agent" THEN [was EXCEPT !.agent = t]
    ELSE IF n = "plugin" \/ families["plugin"] = NoCredential THEN [was EXCEPT !.hub = t]
    ELSE was

\* write: whatever a caller made of the mirror, it is written anew.
Persists(d) == document' = Mirrored(d)

\* writeFamily.
WriteFamily(n) ==
    /\ Issue
    /\ Persists([Adopted(Current) EXCEPT !.families[n] = issued + 1])
    /\ legible' = TRUE

\* The provider, and the derivation, write nothing over a document that they
\* cannot read. A refresh may be of a family that serves its plane no longer.
Refresh(n) ==
    /\ Readable /\ Effective(document)[n] # NoCredential
    /\ WriteFamily(n)
    /\ newest' = Given(newest, n, issued + 1, Effective(document))

Derive ==
    /\ Readable
    /\ WriteFamily("plugin")
    /\ newest' = Given(newest, "plugin", issued + 1, Effective(document))

\* A login replaces what cannot be read (replaceUnreadable).
Commit(n) ==
    /\ n \in {"agent", "plugin"}
    /\ WriteFamily(n)
    /\ newest' = Given(IF Readable THEN newest ELSE Unserved,
                       n, issued + 1, Effective(Current))

\* writeFreshDocument, after a confirmed switch of the account.
Switch(n) ==
    /\ n \in {"agent", "plugin"} /\ Readable /\ Issue
    /\ Persists([flat |-> FALSE, top |-> NoCredential,
               families |-> [NoFamilies EXCEPT ![n] = issued + 1]])
    /\ newest' = Given(Unserved, n, issued + 1, NoFamilies)
    /\ UNCHANGED legible

\* rotate: the token of the plugin plane, whichever family it is in.
Rotate ==
    /\ document # NoCredential => legible
    /\ LET old == Adopted(Current)
           target == IF old.families["plugin"] # NoCredential THEN "plugin" ELSE "legacy"
       IN Persists([old EXCEPT !.families[target] = issued + 1])
    /\ Issue
    /\ newest' = [newest EXCEPT !.hub = issued + 1]
    /\ UNCHANGED legible

\* An old tool rotates what it sees, or signs in. It drops the families, which it
\* does not know.
OldWrites ==
    /\ Issue
    /\ document' = [Empty EXCEPT !.top = issued + 1]
    /\ legible' = TRUE
    /\ newest' = [Unserved EXCEPT !.hub = issued + 1]

Delete ==
    /\ document # NoCredential
    /\ document' = NoCredential /\ legible' = TRUE
    /\ newest' = Unserved
    /\ UNCHANGED issued

\* The codec is blocked, or the key of the user is gone; and comes back.
CodecTurns ==
    /\ document # NoCredential
    /\ legible' = ~legible
    /\ UNCHANGED <<document, issued, newest>>

StoreNext ==
    \/ \E n \in Names : Refresh(n) \/ Commit(n) \/ Switch(n)
    \/ Derive \/ Rotate \/ OldWrites \/ Delete \/ CodecTurns

StoreSpec == StoreInit /\ [][StoreNext]_storeVars
-----------------------------------------------------------------------------
StoreTypeOK ==
    /\ document \in Document \cup {NoCredential}
    /\ legible \in BOOLEAN /\ issued \in Nat
    /\ newest \in [agent : Tokens, hub : Tokens]

\* Tools of either generation find, for each plane they know, the token that was
\* written last for it, in whatever order old and updated tools rotate, sign in
\* and switch accounts; also in a document that is unreadable for a while, which
\* only a login may give up (applyV1CompatMirror, machine-credentials.ts:227,
\* adoptToV2, 251, rotate, 495).
NewestServed ==
    document # NoCredential =>
        /\ document.top = newest.hub
        /\ HubFamily(Effective(document)) = newest.hub
        /\ Effective(document)["agent"] = newest.agent
=============================================================================
