----------------------------- MODULE LoginCommit -----------------------------
(***************************************************************************)
(* Turning a sign-in into store state (src/src/login-commit.ts), and the   *)
(* machine-wide sign-out, by several surfaces over one machine store. A    *)
(* surface (a CLI, the App) runs one operation at a time: a login of the   *)
(* agent plane, with the token exchange between two lock holds, a login of *)
(* the plugin plane (tools-only, and the enrolment of enroll.ts), or a     *)
(* sign-out.                                                               *)
(*                                                                         *)
(* What happens inside a lock hold is one synchronous callback, so a hold  *)
(* is one action here (CredentialLock implements that section). Everything *)
(* else, the guard's read, the dialog, each revocation, the exchange, is a *)
(* step of its own. A family stands for its tokens; the account that the   *)
(* server signed in is known by the subject the mint carried, if any.      *)
(***************************************************************************)
EXTENDS Naturals

CONSTANTS
    Surfaces,       \* the processes that sign in and out
    Accounts,       \* the subjects
    None,           \* no subject, no family
    MaxFamilies,    \* bound: mints, one of them before the start
    MaxFaults,      \* bound: how often the environment interferes
    TransientReads  \* whether two reads of one unchanged file may disagree

ASSUME LoginAssumption ==
    /\ MaxFamilies \in Nat \ {0} /\ MaxFaults \in Nat
    /\ TransientReads \in BOOLEAN
    /\ None \notin Accounts

VARIABLES
    store,      \* credentials.json: its subject and its families
    readable,   \* whether it can be decrypted and parsed
    minted,     \* how many families were minted
    live,       \* the families the server has not revoked
    at,         \* what a surface does next
    work,       \* the local variables of its operation
    outcome,    \* how its last operation ended
    failed,     \* refused families that a revocation was tried for, in vain
    cutShort,   \* families revoked by an operation that did not end
    faults      \* how often the environment interfered

server == <<minted, live, failed>>
disk == <<store, readable>>
history == <<cutShort, faults>>
vars == <<disk, server, at, work, outcome, history>>

Slots == {"agent", "plugin", "legacy"}
Subjects == Accounts \cup {None}
Ids == 1 .. MaxFamilies

\* A family, and the subject that its mint carried.
Families == [id : Ids, subject : Subjects]
FamilyOrNone == Families \cup {None}

Documents ==
    [exists : BOOLEAN, subject : Subjects, families : [Slots -> FamilyOrNone]]
Absent == [exists |-> FALSE, subject |-> None,
           families |-> [slot \in Slots |-> None]]

Named(doc) == {doc.families[slot] : slot \in Slots} \ {None}

Kinds == {"agent", "plugin", "signOut"}
Work == [kind : Kinds, mint : FamilyOrNone, derived : FamilyOrNone,
         exchanged : Subjects, premise : Subjects, confirmed : BOOLEAN,
         pending : SUBSET Families, revoked : SUBSET Families]
NoWork == [kind |-> "signOut", mint |-> None, derived |-> None,
           exchanged |-> None, premise |-> None, confirmed |-> FALSE,
           pending |-> {}, revoked |-> {}]

Pcs == {"idle", "dialog", "revoke", "hold1", "exchange", "hold2",
        "refuse", "delete"}
\* "done" stands for every end that asks nothing more of the surface:
\* committed, signed out, thrown or dead.
Outcomes == {"done", "partial", "switch-declined", "guard-premise-changed",
             "derivation-aborted"}

TypeOK ==
    /\ store \in Documents /\ readable \in BOOLEAN
    /\ minted \in Ids
    /\ live \subseteq Families /\ failed \subseteq Families
    /\ at \in [Surfaces -> Pcs]
    /\ work \in [Surfaces -> Work]
    /\ outcome \in [Surfaces -> Outcomes]
    /\ cutShort \subseteq Families
    /\ faults \in 0 .. MaxFaults

\* The first family is of an earlier time. Nothing is left of it, or it is a
\* version 1 credential, viewed as the legacy family, that says whose it is or
\* does not.
Init ==
    /\ \/ store = Absent
       \/ \E subject \in Subjects :
            store = [exists |-> TRUE, subject |-> subject,
                     families |-> [Absent.families EXCEPT !["legacy"] =
                                        [id |-> 1, subject |-> subject]]]
    /\ minted = 1
    /\ readable = TRUE
    /\ live = Named(store) /\ failed = {}
    /\ at = [s \in Surfaces |-> "idle"]
    /\ work = [s \in Surfaces |-> NoWork]
    /\ outcome = [s \in Surfaces |-> "done"]
    /\ cutShort = {} /\ faults = 0
-----------------------------------------------------------------------------
(* Reading and writing the store.                                          *)

\* Whether a look at the file may succeed.
Looks == IF TransientReads THEN BOOLEAN ELSE {readable}

\* state?.status === "ok" ? state.credentials : null, the null being Absent.
Read(look) == IF look THEN store ELSE Absent

\* The two names differ, and both are known.
Differ(storedSubject, newSubject) ==
    /\ storedSubject # None /\ newSubject # None
    /\ storedSubject # newSubject

\* writeFamily over what it read: the other families stay, the subject is
\* replaced by a known one only.
WithOnlyFamily(current, slot, family, subject) ==
    [exists |-> TRUE,
     subject |-> IF subject # None THEN subject ELSE current.subject,
     families |-> [slot_ \in {slot} |-> family]]

WithFamily(current, slot, family, subject) ==
    [exists |-> TRUE,
     subject |-> IF subject # None THEN subject ELSE current.subject,
     families |-> [current.families EXCEPT ![slot] = family]]

Subject(s) == work[s].mint.subject

\* What is left of an operation but the sign-in that it commits.
Sign(s) == [NoWork EXCEPT !.kind = work[s].kind, !.mint = work[s].mint]

Goes(s, place) == at' = [at EXCEPT ![s] = place]
Ends(s, how) ==
    /\ Goes(s, "idle")
    /\ outcome' = [outcome EXCEPT ![s] = how]

\* The operation of s ends before it did what it revoked families for.
CutShort(s) == cutShort' = cutShort \cup (work[s].revoked \cap Named(store))

Disturb == faults < MaxFaults /\ faults' = faults + 1
-----------------------------------------------------------------------------
(* The account-switch guard.                                               *)

\* A login of the agent plane may bring the account the surface shows.
Fallbacks(kind) == IF kind = "agent" THEN Subjects ELSE {None}

Compared(stored, fallback) ==
    IF stored.subject # None THEN stored.subject ELSE fallback

\* The guard judges what it reads without the lock.
Evaluate(s, sign, subject) ==
    \E look \in Looks, fallback \in Fallbacks(sign.kind) :
        LET stored == Read(look)
            differs == Differ(Compared(stored, fallback), subject)
        IN  /\ Goes(s, IF differs THEN "dialog" ELSE "hold1")
            /\ work' = [work EXCEPT ![s] =
                    [sign EXCEPT !.premise = stored.subject,
                                 !.pending = IF differs THEN Named(stored)
                                                        ELSE {}]]

\* A sign-in of some account, with or without a subject, reaches its commit.
Commit(s, kind, subject) ==
    /\ at[s] = "idle" /\ minted < MaxFamilies
    /\ minted' = minted + 1
    /\ LET family == [id |-> minted + 1, subject |-> subject] IN
        /\ live' = live \cup {family}
        /\ Evaluate(s, [NoWork EXCEPT !.kind = kind, !.mint = family], subject)
    /\ outcome' = [outcome EXCEPT ![s] = "done"]
    /\ UNCHANGED <<disk, failed, history>>

\* The surface commits the same sign-in again.
CommitAgain(s) ==
    /\ at[s] = "idle" /\ outcome[s] = "guard-premise-changed"
    /\ Evaluate(s, Sign(s), Subject(s))
    /\ outcome' = [outcome EXCEPT ![s] = "done"]
    /\ UNCHANGED <<disk, server, history>>

Decline(s) ==
    /\ at[s] = "dialog"
    /\ Goes(s, "refuse")
    /\ work' = [work EXCEPT ![s] = Sign(s)]
    /\ outcome' = [outcome EXCEPT ![s] = "switch-declined"]
    /\ UNCHANGED <<disk, server, history>>

ConfirmAlways(s) ==
    /\ at[s] = "dialog"
    /\ work' = [work EXCEPT ![s].confirmed = work[s].premise # None]
    /\ Goes(s, IF work[s].pending = {} THEN "hold1" ELSE "revoke")
    /\ UNCHANGED <<disk, server, outcome, history>>

\* Away from the stored account: its families are revoked and replaced. Away
\* from the fallback account, the store naming none: a plain write.
Confirm(s) ==
    /\ at[s] = "dialog"
    /\ LET replaces == work[s].premise # None
           families == IF replaces THEN work[s].pending ELSE {}
       IN  /\ work' = [work EXCEPT ![s].confirmed = replaces,
                                   ![s].pending = families]
           /\ Goes(s, IF families = {} THEN "hold1" ELSE "revoke")
    /\ UNCHANGED <<disk, server, outcome, history>>

Oldest(f, families) ==
    f \in families /\ \A g \in families : f.id <= g.id

AfterRevoking(s) == IF work[s].kind = "signOut" THEN "delete" ELSE "hold1"

\* Each family in turn, for a confirmed switch and for a sign-out: oldest
\* first, which is the order of the document but for replaced entries.
RevokeStored(s) ==
    /\ at[s] = "revoke"
    /\ \E f \in work[s].pending :
        /\ Oldest(f, work[s].pending)
        /\ live' = live \ {f}
        /\ work' = [work EXCEPT ![s].pending = @ \ {f},
                                ![s].revoked = @ \cup {f}]
        /\ Goes(s, IF work[s].pending = {f} THEN AfterRevoking(s)
                                            ELSE "revoke")
    /\ UNCHANGED <<disk, minted, failed, outcome, history>>

RevokeStoredFails(s) ==
    /\ at[s] = "revoke" /\ Disturb
    /\ \E f \in work[s].pending :
        /\ Oldest(f, work[s].pending)
        /\ work' = [work EXCEPT ![s].pending = @ \ {f}]
        /\ Goes(s, IF work[s].pending = {f} THEN AfterRevoking(s)
                                            ELSE "revoke")
    /\ UNCHANGED <<disk, server, outcome, cutShort>>
-----------------------------------------------------------------------------
(* The first hold: commitFamilyUnderHold.                                  *)

PremiseHolds(s, stored) ==
    IF work[s].confirmed
    THEN stored.subject = work[s].premise
    ELSE ~ Differ(stored.subject, Subject(s))

\* A tools-only login and an enrollment have one hold.
ToolsOnlyCommitted(s) ==
    Goes(s, "idle") /\ work' = [work EXCEPT ![s] = NoWork]

\* After a first hold that wrote, the agent plane goes on to the exchange.
Committed(s) ==
    /\ IF work[s].kind = "agent"
       THEN Goes(s, "exchange") /\ work' = [work EXCEPT ![s] = Sign(s)]
       ELSE ToolsOnlyCommitted(s)
    /\ UNCHANGED outcome

HoldOneAborts(s) ==
    /\ at[s] = "hold1"
    /\ \E look \in Looks :
        /\ ~ PremiseHolds(s, Read(look))
        /\ IF look THEN UNCHANGED cutShort ELSE CutShort(s)
    /\ work' = [work EXCEPT ![s] = Sign(s)]
    /\ Ends(s, "guard-premise-changed")
    /\ UNCHANGED <<disk, server, faults>>

ReplaceMerging(s, stored) ==
    WithFamily(stored, work[s].kind, work[s].mint, Subject(s))

\* writeFreshDocument: nothing of the old account stays.
Replacement(s, stored) ==
    WithFamily(Absent, work[s].kind, work[s].mint, Subject(s))

ReplaceUnverified(s) ==
    /\ at[s] = "hold1" /\ work[s].confirmed
    /\ \E look \in Looks : store' = Replacement(s, Read(look))
    /\ readable' = TRUE
    /\ Committed(s)
    /\ UNCHANGED <<server, history>>

HoldOneReplaces(s) ==
    /\ at[s] = "hold1" /\ work[s].confirmed
    /\ \E look \in Looks :
        /\ PremiseHolds(s, Read(look))
        /\ store' = Replacement(s, Read(look))
    /\ readable' = TRUE
    /\ Committed(s)
    /\ UNCHANGED <<server, history>>

MergeUnverified(s) ==
    /\ at[s] = "hold1" /\ ~ work[s].confirmed
    /\ \E again \in Looks :
        store' = WithFamily(Read(again), work[s].kind, work[s].mint, Subject(s))
    /\ readable' = TRUE
    /\ Committed(s)
    /\ UNCHANGED <<server, history>>

\* The guard is evaluated again on one read, writeFamily merges into another,
\* and takes an unreadable store for an empty one (replaceUnreadable).
HoldOneMerges(s) ==
    /\ at[s] = "hold1" /\ ~ work[s].confirmed
    /\ \E look, again \in Looks :
        /\ PremiseHolds(s, Read(look))
        /\ store' = WithFamily(Read(again), work[s].kind, work[s].mint,
                               Subject(s))
    /\ readable' = TRUE
    /\ Committed(s)
    /\ UNCHANGED <<server, history>>
-----------------------------------------------------------------------------
(* The exchange and the second hold: derivePluginFamily.                   *)

\* The exchange answers with the subject, also when the agent mint had none.
ExchangeSubjects(s) == IF Subject(s) = None THEN Accounts ELSE {Subject(s)}

Exchange(s) ==
    /\ at[s] = "exchange" /\ minted < MaxFamilies
    /\ minted' = minted + 1
    /\ LET family == [id |-> minted + 1, subject |-> Subject(s)] IN
        /\ live' = live \cup {family}
        /\ \E subject \in ExchangeSubjects(s) :
            work' = [work EXCEPT ![s].derived = family,
                                 ![s].exchanged = subject]
    /\ Goes(s, "hold2")
    /\ UNCHANGED <<disk, failed, outcome, history>>

ExchangeFails(s) ==
    /\ at[s] = "exchange"
    /\ work' = [work EXCEPT ![s] = Sign(s)]
    /\ Ends(s, "partial")
    /\ UNCHANGED <<disk, server, history>>

\* The surface retries the derivation alone.
DeriveAgain(s) ==
    /\ at[s] = "idle" /\ outcome[s] = "partial"
    /\ Goes(s, "exchange")
    /\ outcome' = [outcome EXCEPT ![s] = "done"]
    /\ UNCHANGED <<disk, server, work, history>>

RefusedIfPresent(s, look, again) ==
    /\ store.exists
    /\ ~ look \/ Differ(store.subject, Subject(s)) \/ ~ again

\* The store is gone, unreadable at either read, or of another account.
Refused(s, look, again) ==
    \/ ~ store.exists
    \/ ~ look \/ Differ(store.subject, Subject(s)) \/ ~ again

AbortSilently(s) ==
    /\ at[s] = "hold2"
    /\ \E look, again \in Looks : Refused(s, look, again)
    /\ Ends(s, "derivation-aborted")
    /\ UNCHANGED <<disk, server, work, history>>

HoldTwoAborts(s) ==
    /\ at[s] = "hold2"
    /\ \E look, again \in Looks : Refused(s, look, again)
    /\ outcome' = [outcome EXCEPT ![s] = "derivation-aborted"]
    /\ Goes(s, "refuse")
    /\ UNCHANGED <<disk, server, work, history>>

WriteOfTheExchange(s) ==
    /\ at[s] = "hold2"
    /\ \E look, again \in Looks : ~ Refused(s, look, again)
    /\ store' = WithFamily(store, "plugin", work[s].derived, work[s].exchanged)
    /\ readable' = TRUE
    /\ work' = [work EXCEPT ![s] = NoWork]
    /\ Ends(s, "done")
    /\ UNCHANGED <<server, history>>

\* The subject of the exchange fills a missing one, and replaces none.
HoldTwoWrites(s) ==
    /\ at[s] = "hold2"
    /\ \E look, again \in Looks : ~ Refused(s, look, again)
    /\ store' = WithFamily(store, "plugin", work[s].derived,
                           IF store.subject = None THEN work[s].exchanged
                                                   ELSE None)
    /\ readable' = TRUE
    /\ work' = [work EXCEPT ![s] = NoWork]
    /\ Ends(s, "done")
    /\ UNCHANGED <<server, history>>

\* What a declined login or an aborted derivation revokes.
Orphan(s) == IF outcome[s] = "switch-declined" THEN work[s].mint
                                               ELSE work[s].derived

RevokeOrphan(s) ==
    /\ at[s] = "refuse"
    /\ live' = live \ {Orphan(s)}
    /\ Goes(s, "idle")
    /\ UNCHANGED <<disk, minted, failed, work, outcome, history>>

RevokeOrphanFails(s) ==
    /\ at[s] = "refuse" /\ Disturb
    /\ failed' = failed \cup {Orphan(s)}
    /\ Goes(s, "idle")
    /\ UNCHANGED <<disk, minted, live, work, outcome, cutShort>>
-----------------------------------------------------------------------------
(* The sign-out.                                                           *)

SignOut(s) ==
    /\ at[s] = "idle"
    /\ \E look \in Looks :
        LET families == Named(Read(look))
        IN  /\ work' = [work EXCEPT ![s] = [NoWork EXCEPT !.pending = families]]
            /\ Goes(s, IF families = {} THEN "delete" ELSE "revoke")
    /\ outcome' = [outcome EXCEPT ![s] = "done"]
    /\ UNCHANGED <<disk, server, history>>

Delete(s) ==
    /\ at[s] = "delete"
    /\ store' = Absent /\ readable' = TRUE
    /\ work' = [work EXCEPT ![s] = NoWork]
    /\ Ends(s, "done")
    /\ UNCHANGED <<server, history>>
-----------------------------------------------------------------------------
(* What may go wrong.                                                      *)

Holds == {"hold1", "hold2", "delete"}

\* The lock stays contended, or the store cannot be written: both throw.
Throws(s) ==
    /\ at[s] \in Holds /\ Disturb
    /\ CutShort(s)
    /\ work' = [work EXCEPT ![s] = NoWork]
    /\ Ends(s, "done")
    /\ UNCHANGED <<disk, server>>

Crash(s) ==
    /\ at[s] # "idle" /\ Disturb
    /\ CutShort(s)
    /\ work' = [work EXCEPT ![s] = NoWork]
    /\ Ends(s, "done")
    /\ UNCHANGED <<disk, server>>

\* The codec stops working, or the file is spoilt by one that ignores the
\* lock; the codec works again.
StoreSpoils ==
    /\ store.exists /\ readable /\ Disturb
    /\ readable' = FALSE
    /\ UNCHANGED <<store, server, at, work, outcome, cutShort>>

StoreHeals ==
    /\ ~ readable
    /\ readable' = TRUE
    /\ UNCHANGED <<store, server, at, work, outcome, history>>

Step(s) ==
    \/ \E kind \in {"agent", "plugin"}, subject \in Subjects :
            Commit(s, kind, subject)
    \/ CommitAgain(s) \/ Decline(s) \/ Confirm(s)
    \/ RevokeStored(s) \/ RevokeStoredFails(s)
    \/ HoldOneAborts(s) \/ HoldOneReplaces(s) \/ HoldOneMerges(s)
    \/ Exchange(s) \/ ExchangeFails(s) \/ DeriveAgain(s)
    \/ HoldTwoAborts(s) \/ HoldTwoWrites(s)
    \/ RevokeOrphan(s) \/ RevokeOrphanFails(s)
    \/ SignOut(s) \/ Delete(s)
    \/ Throws(s) \/ Crash(s)

Next == (\E s \in Surfaces : Step(s)) \/ StoreSpoils \/ StoreHeals

Spec == Init /\ [][Next]_vars
-----------------------------------------------------------------------------
(* Properties.                                                             *)

\* The store is of one account (D6): a family that is known to belong to an
\* account belongs to the account that the document names.
OneAccount ==
    \A f \in Named(store) :
        f.subject # None => store.subject = f.subject

\* A readable store that names an account comes to name another only by a
\* login whose user confirmed to leave exactly the account it names then,
\* however long the dialog was open (B2b); not through an unnamed mint, an
\* exchange or a retried derivation.
SwitchConfirmed ==
    [][ readable /\ store'.exists /\ Differ(store.subject, store'.subject)
        => \E t \in Surfaces :
              /\ at[t] = "hold1" /\ work[t].confirmed
              /\ work[t].premise = store.subject
              /\ Subject(t) = store'.subject ]_vars

\* A signed-out machine stays signed out (F6): no exchange that was under way,
\* no retried derivation and no switch confirmed before the sign-out creates
\* the store again, only a login that asked for no replacement.
SignOutSticks ==
    [][ ~ store.exists /\ store'.exists
        => \E s \in Surfaces : at[s] = "hold1" /\ ~ work[s].confirmed ]_vars

\* A refused sign-in leaves nothing behind: what a declined login minted and
\* what an aborted derivation derived is in no store, and is revoked unless
\* the revocation itself failed.
RefusedMintRevoked ==
    \A s \in Surfaces :
        at[s] = "idle" /\ outcome[s] \in {"switch-declined", "derivation-aborted"}
        => /\ Orphan(s) \notin Named(store)
           /\ Orphan(s) \in live => Orphan(s) \in failed

\* What the surfaces revoke leaves the store too: the store names a revoked
\* family only while the switch or the sign-out that revoked it is under way,
\* or when that one could not end (a crash, a busy lock, a failed write, an
\* unreadable store). An abort over a changed premise is no exception: the
\* families it revoked in vain are already gone from the store.
KeptFamilyAlive ==
    \A f \in Named(store) :
        f \in live \/ f \in cutShort \/ \E s \in Surfaces : f \in work[s].revoked
-----------------------------------------------------------------------------
(* The store as an account store.                                          *)

\* The account that the user of s agreed to leave, while the login lasts.
Consent(s) == IF work[s].confirmed THEN work[s].premise ELSE None

Machine == INSTANCE AccountStore
            WITH doc <- store, legible <- readable,
                 consent <- [s \in Surfaces |-> Consent(s)]

\* Every write of the store is one of four (D6): a sign-in that adds its family to the
\* document it may be put in, a switch from the very account that a user agreed to
\* leave, a derivation into the readable document of its own account, a deletion. It
\* is so at the moment of the write, whatever the guard, the dialog and the exchange
\* read before; and no other step changes the store.
ImplementsAccountStore == Machine!Spec
=============================================================================
