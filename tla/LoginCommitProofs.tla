-------------------------- MODULE LoginCommitProofs --------------------------
(***************************************************************************)
(* The login commit, for any surfaces, any accounts and any bounds: types, *)
(* one account per store, confirmed switches, sign-outs that last, stores  *)
(* that name live families, refused sign-ins that leave none behind, and   *)
(* the account store that all of this implements.                          *)
(***************************************************************************)
EXTENDS LoginCommit, TLAPS

\* The sign-in of s is still to be written, or its derivation to be retried.
Committing(s) ==
    \/ at[s] \in {"dialog", "hold1", "exchange", "hold2"}
    \/ at[s] = "revoke" /\ work[s].kind # "signOut"
    \/ at[s] = "idle" /\ outcome[s] \in {"guard-premise-changed", "partial"}

\* What the local variables of s hold where they are used.
Sound(s) ==
    /\ Committing(s) => /\ work[s].mint \in Families
                        /\ work[s].kind \in {"agent", "plugin"}
    /\ at[s] = "hold2" =>
        /\ work[s].derived \in Families
        /\ work[s].derived.subject = Subject(s)
        /\ Subject(s) # None => work[s].exchanged = Subject(s)
    /\ at[s] = "refuse" =>
        /\ Orphan(s) \in Families
        /\ outcome[s] \in {"switch-declined", "derivation-aborted"}
    /\ at[s] \notin {"idle", "refuse"} => outcome[s] = "done"
    /\ work[s].confirmed => work[s].premise # None

AbsentUnnamed == ~ store.exists => store.subject = None

IInv == TypeOK /\ (\A s \in Surfaces : Sound(s)) /\ AbsentUnnamed
-----------------------------------------------------------------------------
LEMMA Bounds == MaxFamilies \in Nat \ {0} /\ MaxFaults \in Nat /\ 1 \in Ids
  BY LoginAssumption DEF Ids

LEMMA NoneIsSubject == None \in Subjects /\ None \in FamilyOrNone
  BY DEF Subjects, FamilyOrNone

\* The empty values are of their types.
LEMMA EmptyTypes == Absent \in Documents /\ NoWork \in Work
  BY NoneIsSubject DEF Absent, Documents, NoWork, Work, Kinds

\* The families that a document names are families.
LEMMA NamedAreFamilies ==
  ASSUME NEW doc \in Documents
  PROVE  Named(doc) \subseteq Families
  BY DEF Documents, Named, FamilyOrNone

\* A read returns a document.
LEMMA ReadType ==
  ASSUME store \in Documents, NEW look
  PROVE  Read(look) \in Documents
  BY EmptyTypes DEF Read

\* A write keeps the shape of the document, and creates it.
LEMMA WithFamilyType ==
  ASSUME NEW doc \in Documents, NEW slot \in Slots,
         NEW family \in Families, NEW subject \in Subjects
  PROVE  /\ WithFamily(doc, slot, family, subject) \in Documents
         /\ WithFamily(doc, slot, family, subject).exists
  BY DEF WithFamily, Documents, FamilyOrNone

\* The sign-in that s keeps is its mint alone.
LEMMA SignType ==
  ASSUME TypeOK, NEW s \in Surfaces
  PROVE  /\ Sign(s) \in Work
         /\ Sign(s).mint = work[s].mint /\ Sign(s).kind = work[s].kind
         /\ Sign(s).confirmed = FALSE
<1>1. work[s] \in Work
  BY DEF TypeOK
<1> QED
  BY <1>1, EmptyTypes DEF Sign, NoWork, Work
-----------------------------------------------------------------------------
\* A surface changes its own place, variables and outcome only.
LEMMA OthersStay ==
  ASSUME TypeOK, NEW s \in Surfaces, NEW t \in Surfaces, t # s, Step(s)
  PROVE  at'[t] = at[t] /\ work'[t] = work[t] /\ outcome'[t] = outcome[t]
<1> USE DEF Goes, Ends, TypeOK
<1>1. ASSUME NEW kind \in {"agent", "plugin"}, NEW subject \in Subjects,
             Commit(s, kind, subject)
      PROVE  at'[t] = at[t] /\ work'[t] = work[t] /\ outcome'[t] = outcome[t]
  BY <1>1 DEF Commit, Evaluate
<1>2. CASE CommitAgain(s)
  BY <1>2 DEF CommitAgain, Evaluate
<1>3. CASE Decline(s)
  BY <1>3 DEF Decline
<1>4. CASE Confirm(s)
  BY <1>4 DEF Confirm
<1>5. CASE RevokeStored(s)
  BY <1>5 DEF RevokeStored
<1>6. CASE RevokeStoredFails(s)
  BY <1>6 DEF RevokeStoredFails
<1>7. CASE HoldOneAborts(s)
  BY <1>7 DEF HoldOneAborts
<1>8. CASE HoldOneReplaces(s)
  BY <1>8 DEF HoldOneReplaces, Committed, ToolsOnlyCommitted
<1>9. CASE HoldOneMerges(s)
  BY <1>9 DEF HoldOneMerges, Committed, ToolsOnlyCommitted
<1>10. CASE Exchange(s)
  BY <1>10 DEF Exchange
<1>11. CASE ExchangeFails(s)
  BY <1>11 DEF ExchangeFails
<1>12. CASE DeriveAgain(s)
  BY <1>12 DEF DeriveAgain
<1>13. CASE HoldTwoAborts(s)
  BY <1>13 DEF HoldTwoAborts
<1>14. CASE HoldTwoWrites(s)
  BY <1>14 DEF HoldTwoWrites
<1>15. CASE RevokeOrphan(s)
  BY <1>15 DEF RevokeOrphan
<1>16. CASE RevokeOrphanFails(s)
  BY <1>16 DEF RevokeOrphanFails
<1>17. CASE SignOut(s)
  BY <1>17 DEF SignOut
<1>18. CASE Delete(s)
  BY <1>18 DEF Delete
<1>19. CASE Throws(s)
  BY <1>19 DEF Throws
<1>20. CASE Crash(s)
  BY <1>20 DEF Crash
<1> QED
  BY <1>1, <1>2, <1>3, <1>4, <1>5, <1>6, <1>7, <1>8, <1>9, <1>10, <1>11,
     <1>12, <1>13, <1>14, <1>15, <1>16, <1>17, <1>18, <1>19, <1>20 DEF Step

\* The guard leaves a typed record whose sign-in is the one it was given.
LEMMA EvaluateSound ==
  ASSUME TypeOK, NEW s \in Surfaces, NEW sign \in Work, NEW subject \in Subjects,
         sign.confirmed = FALSE, Evaluate(s, sign, subject)
  PROVE  /\ at' \in [Surfaces -> Pcs] /\ at'[s] \in {"dialog", "hold1"}
         /\ work' \in [Surfaces -> Work]
         /\ work'[s].mint = sign.mint /\ work'[s].kind = sign.kind
         /\ work'[s].confirmed = FALSE
<1>1. PICK look \in Looks, fallback \in Fallbacks(sign.kind) :
        LET stored == Read(look)
            differs == Differ(Compared(stored, fallback), subject)
        IN  /\ Goes(s, IF differs THEN "dialog" ELSE "hold1")
            /\ work' = [work EXCEPT ![s] =
                    [sign EXCEPT !.premise = stored.subject,
                                 !.pending = IF differs THEN Named(stored)
                                                        ELSE {}]]
  BY DEF Evaluate
<1>2. /\ Read(look) \in Documents /\ Read(look).subject \in Subjects
      /\ Named(Read(look)) \subseteq Families
  BY ReadType, NamedAreFamilies DEF TypeOK, Documents
<1>3. PICK pending \in SUBSET Families :
        work' = [work EXCEPT ![s] = [sign EXCEPT !.premise = Read(look).subject,
                                                 !.pending = pending]]
  BY <1>1, <1>2, Zenon
<1>4. [sign EXCEPT !.premise = Read(look).subject, !.pending = pending] \in Work
  BY <1>2, <1>3 DEF Work
<1>5. at' \in [Surfaces -> Pcs] /\ at'[s] \in {"dialog", "hold1"}
  BY <1>1 DEF Goes, TypeOK, Pcs
<1>6. /\ work' \in [Surfaces -> Work]
      /\ work'[s] = [sign EXCEPT !.premise = Read(look).subject,
                                 !.pending = pending]
  BY <1>3, <1>4 DEF TypeOK
<1> QED
  BY <1>5, <1>6 DEF Work

-----------------------------------------------------------------------------
\* The server's and the history's types after a step.
LEMMA ServerTypes ==
  ASSUME IInv, NEW s \in Surfaces, Step(s)
  PROVE  /\ minted' \in Ids /\ live' \subseteq Families
         /\ failed' \subseteq Families /\ cutShort' \subseteq Families
         /\ faults' \in 0 .. MaxFaults
<1> USE Bounds DEF IInv, TypeOK, Sound, server, disk, history, Disturb
<1>0. work[s] \in Work /\ work[s].revoked \subseteq Families
  BY DEF Work
<1>1. ASSUME NEW kind \in {"agent", "plugin"}, NEW subject \in Subjects,
             Commit(s, kind, subject)
      PROVE  /\ minted' \in Ids /\ live' \subseteq Families
             /\ UNCHANGED <<failed, cutShort, faults>>
  BY <1>1 DEF Commit, Families, Ids
<1>2. CASE CommitAgain(s)
  BY <1>2 DEF CommitAgain
<1>3. CASE Decline(s)
  BY <1>3 DEF Decline
<1>4. CASE Confirm(s)
  BY <1>4 DEF Confirm
<1>5. CASE RevokeStored(s)
  BY <1>5 DEF RevokeStored
<1>6. CASE RevokeStoredFails(s)
  BY <1>6 DEF RevokeStoredFails
<1>7. CASE HoldOneAborts(s)
  BY <1>0, <1>7 DEF HoldOneAborts, CutShort
<1>8. CASE HoldOneReplaces(s)
  BY <1>8 DEF HoldOneReplaces
<1>9. CASE HoldOneMerges(s)
  BY <1>9 DEF HoldOneMerges
<1>10. CASE Exchange(s)
  <2>1. work[s].mint \in Families
    BY <1>10 DEF Exchange, Committing
  <2> QED
    BY <1>10, <2>1 DEF Exchange, Families, Ids, Subject
<1>11. CASE ExchangeFails(s)
  BY <1>11 DEF ExchangeFails
<1>12. CASE DeriveAgain(s)
  BY <1>12 DEF DeriveAgain
<1>13. CASE HoldTwoAborts(s)
  BY <1>13 DEF HoldTwoAborts
<1>14. CASE HoldTwoWrites(s)
  BY <1>14 DEF HoldTwoWrites
<1>15. CASE RevokeOrphan(s)
  BY <1>15 DEF RevokeOrphan
<1>16. CASE RevokeOrphanFails(s)
  BY <1>16 DEF RevokeOrphanFails
<1>17. CASE SignOut(s)
  BY <1>17 DEF SignOut
<1>18. CASE Delete(s)
  BY <1>18 DEF Delete
<1>19. CASE Throws(s)
  BY <1>0, <1>19 DEF Throws, CutShort
<1>20. CASE Crash(s)
  BY <1>0, <1>20 DEF Crash, CutShort
<1> QED
  BY <1>1, <1>2, <1>3, <1>4, <1>5, <1>6, <1>7, <1>8, <1>9, <1>10, <1>11,
     <1>12, <1>13, <1>14, <1>15, <1>16, <1>17, <1>18, <1>19, <1>20 DEF Step

\* The store stays a document, and names an account only while it exists.
LEMMA StoreTypes ==
  ASSUME IInv, NEW s \in Surfaces, Step(s)
  PROVE  store' \in Documents /\ readable' \in BOOLEAN /\ AbsentUnnamed'
<1> USE DEF IInv, TypeOK, server, disk, AbsentUnnamed
<1>0. /\ \A look : Read(look) \in Documents
      /\ work[s] \in Work /\ Sound(s)
  BY ReadType
<1>1. ASSUME at[s] = "hold1"
      PROVE  /\ work[s].mint \in Families /\ Subject(s) \in Subjects
             /\ work[s].kind \in Slots
  BY <1>0, <1>1 DEF Sound, Committing, Families, Subject, Slots
<1>2. CASE HoldOneReplaces(s)
  <2>1. PICK look \in Looks : store' = Replacement(s, Read(look))
    BY <1>2 DEF HoldOneReplaces
  <2>2. store' \in Documents /\ store'.exists
    BY <1>1, <1>2, <2>1, EmptyTypes, WithFamilyType
       DEF HoldOneReplaces, Replacement
  <2> QED
    BY <1>2, <2>2 DEF HoldOneReplaces
<1>3. CASE HoldOneMerges(s)
  <2>1. PICK again \in Looks :
          store' = WithFamily(Read(again), work[s].kind, work[s].mint, Subject(s))
    BY <1>3 DEF HoldOneMerges
  <2>2. store' \in Documents /\ store'.exists
    BY <1>0, <1>1, <1>3, <2>1, WithFamilyType DEF HoldOneMerges
  <2> QED
    BY <1>3, <2>2 DEF HoldOneMerges
<1>4. CASE HoldTwoWrites(s)
  <2>1. work[s].derived \in Families
    BY <1>0, <1>4 DEF HoldTwoWrites, Sound
  <2>2. (IF store.subject = None THEN work[s].exchanged ELSE None) \in Subjects
    BY <1>0, NoneIsSubject DEF Work
  <2>3. store' \in Documents /\ store'.exists
    BY <1>4, <2>1, <2>2, WithFamilyType DEF HoldTwoWrites, Slots
  <2> QED
    BY <1>4, <2>3 DEF HoldTwoWrites
<1>5. CASE Delete(s)
  BY <1>5, EmptyTypes DEF Delete, Absent
<1>6. CASE UNCHANGED disk
  BY <1>6
<1> QED
  BY <1>2, <1>3, <1>4, <1>5, <1>6
     DEF Step, Commit, CommitAgain, Decline, Confirm, RevokeStored,
         RevokeStoredFails, HoldOneAborts, Exchange, ExchangeFails, DeriveAgain,
         HoldTwoAborts, RevokeOrphan, RevokeOrphanFails, SignOut, Throws, Crash

-----------------------------------------------------------------------------
\* After a step of s its place, variables and outcome are typed and sound.
LEMMA SurfaceSound ==
  ASSUME IInv, NEW s \in Surfaces, Step(s)
  PROVE  /\ at' \in [Surfaces -> Pcs] /\ work' \in [Surfaces -> Work]
         /\ outcome' \in [Surfaces -> Outcomes]
         /\ Sound(s)'
<1> DEFINE Goal == /\ at' \in [Surfaces -> Pcs] /\ work' \in [Surfaces -> Work]
                   /\ outcome' \in [Surfaces -> Outcomes]
                   /\ Sound(s)'
<1>0. TypeOK /\ Sound(s) /\ work[s] \in Work /\ NoWork \in Work
  BY EmptyTypes DEF IInv, TypeOK
<1> USE DEF Goes, Ends, Pcs, Outcomes
<1>a. ASSUME work' = [work EXCEPT ![s] = NoWork], Ends(s, "done")
      PROVE  Goal
  BY <1>0, <1>a DEF TypeOK, Sound, Committing, Orphan, NoWork
<1>1. ASSUME NEW kind \in {"agent", "plugin"}, NEW subject \in Subjects,
             Commit(s, kind, subject)
      PROVE  Goal
  <2> DEFINE family == [id |-> minted + 1, subject |-> subject]
             sign == [NoWork EXCEPT !.kind = kind, !.mint = family]
  <2>1. family \in Families
    BY <1>0, <1>1, Bounds DEF Commit, Families, TypeOK, Ids
  <2>2. /\ sign \in Work /\ sign.mint \in Families /\ sign.kind = kind
        /\ sign.confirmed = FALSE
    BY <1>0, <2>1 DEF NoWork, Work, Kinds, FamilyOrNone
  <2>3. Evaluate(s, sign, subject) /\ outcome' = [outcome EXCEPT ![s] = "done"]
    BY <1>1 DEF Commit
  <2>4. /\ at' \in [Surfaces -> Pcs] /\ at'[s] \in {"dialog", "hold1"}
        /\ work' \in [Surfaces -> Work]
        /\ work'[s].mint = sign.mint /\ work'[s].kind = sign.kind
        /\ work'[s].confirmed = FALSE
    BY <1>0, <2>2, <2>3, EvaluateSound
  <2> QED
    BY <1>0, <2>2, <2>3, <2>4 DEF TypeOK, Sound, Committing
<1>2. CASE CommitAgain(s)
  <2>1. Sign(s) \in Work /\ Sign(s).mint \in Families /\ Subject(s) \in Subjects
        /\ Sign(s).kind \in {"agent", "plugin"} /\ Sign(s).confirmed = FALSE
    BY <1>0, <1>2, SignType DEF CommitAgain, Sound, Committing, Subject, Families
  <2>2. Evaluate(s, Sign(s), Subject(s)) /\ outcome' = [outcome EXCEPT ![s] = "done"]
    BY <1>2 DEF CommitAgain
  <2>3. /\ at' \in [Surfaces -> Pcs] /\ at'[s] \in {"dialog", "hold1"}
        /\ work' \in [Surfaces -> Work]
        /\ work'[s].mint = Sign(s).mint /\ work'[s].kind = Sign(s).kind
        /\ work'[s].confirmed = FALSE
    BY <1>0, <2>1, <2>2, EvaluateSound
  <2> QED
    BY <1>0, <2>1, <2>2, <2>3 DEF TypeOK, Sound, Committing
<1>3. CASE Decline(s)
  BY <1>0, <1>3, SignType DEF Decline, TypeOK, Sound, Committing, Orphan
<1>4. CASE Confirm(s)
  <2> DEFINE replaces == work[s].premise # None
             families == IF replaces THEN work[s].pending ELSE {}
  <2>1. /\ work' = [work EXCEPT ![s].confirmed = replaces,
                                ![s].pending = families]
        /\ Goes(s, IF families = {} THEN "hold1" ELSE "revoke")
        /\ outcome' = outcome /\ at[s] = "dialog"
    BY <1>4 DEF Confirm
  <2>a. replaces \in BOOLEAN /\ families \in SUBSET Families
    BY <1>0 DEF Work
  <2>b. replaces => work[s].premise # None
    OBVIOUS
  <2> HIDE DEF replaces, families
  <2>2. /\ work' \in [Surfaces -> Work]
        /\ work'[s].mint = work[s].mint /\ work'[s].kind = work[s].kind
        /\ work'[s].premise = work[s].premise
        /\ work'[s].confirmed = replaces
    BY <1>0, <2>1, <2>a DEF TypeOK, Work
  <2> QED
    BY <1>0, <2>1, <2>2, <2>b DEF TypeOK, Sound, Committing
<1>5. ASSUME NEW f \in work[s].pending, at[s] = "revoke",
             work' \in [Surfaces -> Work],
             work'[s].mint = work[s].mint, work'[s].kind = work[s].kind,
             work'[s].premise = work[s].premise,
             work'[s].confirmed = work[s].confirmed,
             Goes(s, IF work[s].pending = {f} THEN AfterRevoking(s)
                                              ELSE "revoke"),
             outcome' = outcome
      PROVE  Goal
  BY <1>0, <1>5 DEF TypeOK, Sound, Committing, AfterRevoking
<1>6. CASE RevokeStored(s)
  <2>1. PICK f \in work[s].pending :
          /\ work' = [work EXCEPT ![s].pending = work[s].pending \ {f},
                                  ![s].revoked = work[s].revoked \cup {f}]
          /\ Goes(s, IF work[s].pending = {f} THEN AfterRevoking(s)
                                              ELSE "revoke")
          /\ at[s] = "revoke" /\ outcome' = outcome
    BY <1>6 DEF RevokeStored
  <2> DEFINE pending == work[s].pending \ {f}
             revoked == work[s].revoked \cup {f}
  <2>a. pending \in SUBSET Families /\ revoked \in SUBSET Families
    BY <1>0 DEF Work
  <2>b. work' = [work EXCEPT ![s].pending = pending, ![s].revoked = revoked]
    BY <2>1
  <2> HIDE DEF pending, revoked
  <2>2. /\ work' \in [Surfaces -> Work]
        /\ work'[s].mint = work[s].mint /\ work'[s].kind = work[s].kind
        /\ work'[s].premise = work[s].premise
        /\ work'[s].confirmed = work[s].confirmed
    BY <1>0, <2>a, <2>b DEF TypeOK, Work
  <2> QED
    BY <1>5, <2>1, <2>2
<1>7. CASE RevokeStoredFails(s)
  <2>1. PICK f \in work[s].pending :
          /\ work' = [work EXCEPT ![s].pending = @ \ {f}]
          /\ Goes(s, IF work[s].pending = {f} THEN AfterRevoking(s)
                                              ELSE "revoke")
          /\ at[s] = "revoke" /\ outcome' = outcome
    BY <1>7 DEF RevokeStoredFails
  <2>2. /\ work' \in [Surfaces -> Work]
        /\ work'[s].mint = work[s].mint /\ work'[s].kind = work[s].kind
        /\ work'[s].premise = work[s].premise
        /\ work'[s].confirmed = work[s].confirmed
    BY <1>0, <2>1 DEF TypeOK, Work
  <2> QED
    BY <1>5, <2>1, <2>2
<1>8. CASE HoldOneAborts(s)
  BY <1>0, <1>8, SignType DEF HoldOneAborts, TypeOK, Sound, Committing
<1>9. ASSUME at[s] = "hold1", Committed(s)
      PROVE  Goal
  <2>1. CASE work[s].kind = "agent"
    BY <1>0, <1>9, <2>1, SignType
       DEF Committed, ToolsOnlyCommitted, TypeOK, Sound, Committing
  <2>2. CASE work[s].kind # "agent"
    <3>1. outcome' = [outcome EXCEPT ![s] = "done"]
      BY <1>0, <1>9 DEF Committed, ToolsOnlyCommitted, TypeOK, Sound
    <3> QED
      BY <1>a, <1>9, <2>2, <3>1 DEF Committed, ToolsOnlyCommitted
  <2> QED
    BY <2>1, <2>2
<1>10. CASE HoldOneReplaces(s) \/ HoldOneMerges(s)
  BY <1>9, <1>10 DEF HoldOneReplaces, HoldOneMerges
<1>11. CASE Exchange(s)
  <2> DEFINE family == [id |-> minted + 1, subject |-> Subject(s)]
  <2>1. /\ work[s].mint \in Families /\ work[s].kind \in {"agent", "plugin"}
        /\ Subject(s) \in Subjects
    BY <1>0, <1>11 DEF Exchange, Sound, Committing, Subject, Families
  <2>2. family \in Families /\ family.subject = Subject(s)
    BY <1>0, <1>11, <2>1, Bounds DEF Exchange, Families, TypeOK, Ids
  <2>3. PICK subject \in ExchangeSubjects(s) :
          work' = [work EXCEPT ![s].derived = family, ![s].exchanged = subject]
    BY <1>11 DEF Exchange
  <2>4. /\ subject \in Subjects
        /\ Subject(s) # None => subject = Subject(s)
    BY <2>1, <2>3 DEF ExchangeSubjects, Subjects
  <2>5. /\ work' \in [Surfaces -> Work]
        /\ work'[s].mint = work[s].mint /\ work'[s].kind = work[s].kind
        /\ work'[s].derived = family /\ work'[s].exchanged = subject
        /\ work'[s].confirmed = work[s].confirmed
        /\ work'[s].premise = work[s].premise
    BY <1>0, <2>2, <2>3, <2>4 DEF TypeOK, Work, FamilyOrNone
  <2>6. /\ at' = [at EXCEPT ![s] = "hold2"] /\ outcome' = outcome
        /\ at[s] = "exchange"
    BY <1>11 DEF Exchange
  <2> HIDE DEF family
  <2> QED
    BY <1>0, <2>1, <2>2, <2>4, <2>5, <2>6 DEF TypeOK, Sound, Committing, Subject
<1>12. CASE ExchangeFails(s)
  BY <1>0, <1>12, SignType DEF ExchangeFails, TypeOK, Sound, Committing
<1>13. CASE DeriveAgain(s)
  BY <1>0, <1>13 DEF DeriveAgain, TypeOK, Sound, Committing
<1>14. CASE HoldTwoAborts(s)
  BY <1>0, <1>14 DEF HoldTwoAborts, TypeOK, Sound, Committing, Orphan
<1>15. CASE RevokeOrphan(s)
  BY <1>0, <1>15 DEF RevokeOrphan, TypeOK, Sound, Committing, Orphan
<1>16. CASE RevokeOrphanFails(s)
  BY <1>0, <1>16 DEF RevokeOrphanFails, TypeOK, Sound, Committing, Orphan
<1>17. CASE SignOut(s)
  <2>1. PICK families \in SUBSET Families :
          /\ work' = [work EXCEPT ![s] = [NoWork EXCEPT !.pending = families]]
          /\ Goes(s, IF families = {} THEN "delete" ELSE "revoke")
          /\ outcome' = [outcome EXCEPT ![s] = "done"]
    BY <1>0, <1>17, ReadType, NamedAreFamilies DEF SignOut, TypeOK
  <2>2. /\ [NoWork EXCEPT !.pending = families] \in Work
        /\ [NoWork EXCEPT !.pending = families].kind = "signOut"
        /\ [NoWork EXCEPT !.pending = families].confirmed = FALSE
    BY <1>0, <2>1 DEF NoWork, Work
  <2> QED
    BY <1>0, <2>1, <2>2 DEF TypeOK, Sound, Committing
<1>18. CASE HoldTwoWrites(s) \/ Delete(s) \/ Throws(s) \/ Crash(s)
  BY <1>a, <1>18 DEF HoldTwoWrites, Delete, Throws, Crash
<1> QED
  BY <1>1, <1>2, <1>3, <1>4, <1>6, <1>7, <1>8, <1>10, <1>11, <1>12, <1>13,
     <1>14, <1>15, <1>16, <1>17, <1>18 DEF Step

-----------------------------------------------------------------------------
LEMMA InvInit == Init => IInv
<1> SUFFICES ASSUME Init
             PROVE  IInv
  OBVIOUS
<1> USE DEF Init
<1>1. store \in Documents /\ AbsentUnnamed
  <2>1. CASE store = Absent
    BY <2>1, EmptyTypes DEF AbsentUnnamed, Absent
  <2>2. ASSUME NEW subject \in Subjects,
               store = [exists |-> TRUE, subject |-> subject,
                        families |-> [Absent.families EXCEPT !["legacy"] =
                                        [id |-> 1, subject |-> subject]]]
        PROVE  store \in Documents /\ AbsentUnnamed
    <3>1. [id |-> 1, subject |-> subject] \in FamilyOrNone
      BY Bounds DEF Families, FamilyOrNone
    <3>2. Absent.families \in [Slots -> FamilyOrNone]
      BY EmptyTypes DEF Documents
    <3> QED
      BY <2>2, <3>1, <3>2 DEF Documents, AbsentUnnamed
  <2> QED
    BY <2>1, <2>2
<1>2. TypeOK
  BY <1>1, Bounds, EmptyTypes, NamedAreFamilies DEF TypeOK, Pcs, Outcomes
<1>3. \A s \in Surfaces : Sound(s)
  BY DEF Sound, Committing, NoWork
<1> QED
  BY <1>1, <1>2, <1>3 DEF IInv

LEMMA InvNext == IInv /\ [Next]_vars => IInv'
<1> SUFFICES ASSUME IInv, [Next]_vars
             PROVE  IInv'
  OBVIOUS
<1>1. ASSUME NEW s \in Surfaces, Step(s)
      PROVE  IInv'
  <2>1. TypeOK'
    BY <1>1, ServerTypes, StoreTypes, SurfaceSound DEF TypeOK
  <2>2. ASSUME NEW t \in Surfaces
        PROVE  Sound(t)'
    <3>1. CASE t = s
      BY <1>1, <3>1, SurfaceSound
    <3>2. CASE t # s
      <4>1. at'[t] = at[t] /\ work'[t] = work[t] /\ outcome'[t] = outcome[t]
        BY <1>1, <3>2, OthersStay DEF IInv
      <4> QED
        BY <4>1 DEF IInv, Sound, Committing, Orphan, Subject
    <3> QED
      BY <3>1, <3>2
  <2> QED
    BY <1>1, <2>1, <2>2, StoreTypes DEF IInv
<1>2. CASE StoreSpoils
  <2>1. faults' \in 0 .. MaxFaults
    BY <1>2, Bounds DEF StoreSpoils, Disturb, IInv, TypeOK
  <2>2. readable' \in BOOLEAN
    BY <1>2, Zenon DEF StoreSpoils
  <2>3. UNCHANGED <<store, server, at, work, outcome, cutShort>>
    BY <1>2, Zenon DEF StoreSpoils
  <2>4. TypeOK'
    BY <2>1, <2>2, <2>3 DEF IInv, TypeOK, server
  <2>5. (\A s \in Surfaces : Sound(s)') /\ AbsentUnnamed'
    BY <2>3 DEF IInv, Sound, Committing, Orphan, Subject, AbsentUnnamed
  <2> QED
    BY <2>4, <2>5 DEF IInv
<1>3. CASE StoreHeals
  BY <1>3
     DEF StoreHeals, IInv, TypeOK, Sound, Committing, Orphan, Subject,
         AbsentUnnamed, server, history
<1>4. CASE UNCHANGED vars
  BY <1>4
     DEF vars, IInv, TypeOK, Sound, Committing, Orphan, Subject, AbsentUnnamed,
         server, disk, history
<1> QED
  BY <1>1, <1>2, <1>3, <1>4 DEF Next

\* The strengthening of the types that the other theorems rest on: a surface
\* whose login is under way has a family to write, a derived family is of the
\* account of its mint, and whoever confirmed a switch confirmed it away from
\* a known account.
THEOREM Invariance == Spec => []IInv
<1> QED
  BY InvInit, InvNext, PTL DEF Spec

\* Every variable keeps its type: above all, what a hold writes is a document
\* whose slots hold families.
THEOREM LoginTypeCorrect == Spec => []TypeOK
<1>1. IInv => TypeOK
  BY DEF IInv
<1> QED
  BY <1>1, Invariance, PTL
-----------------------------------------------------------------------------
\* What a write puts next to the families it keeps agrees with them, when its
\* subject does not differ from the one of the document.
LEMMA AgreeingWrite ==
  ASSUME NEW doc \in Documents, NEW slot \in Slots, NEW family \in Families,
         NEW subject \in Subjects, ~ Differ(doc.subject, subject),
         \A f \in Named(doc) : f.subject # None => doc.subject = f.subject,
         family.subject # None =>
            family.subject = (IF subject # None THEN subject ELSE doc.subject)
  PROVE  LET new == WithFamily(doc, slot, family, subject) IN
            \A f \in Named(new) : f.subject # None => new.subject = f.subject
<1> DEFINE new == WithFamily(doc, slot, family, subject)
<1>1. /\ new.subject = IF subject # None THEN subject ELSE doc.subject
      /\ new.families = [doc.families EXCEPT ![slot] = family]
  BY DEF WithFamily
<1>2. \A f \in Named(new) : f = family \/ f \in Named(doc)
  BY <1>1 DEF Named, Documents
<1> HIDE DEF new
<1>3. ASSUME NEW f \in Named(new), f.subject # None
      PROVE  new.subject = f.subject
  <2>1. CASE f = family
    BY <1>1, <1>3, <2>1
  <2>2. CASE f \in Named(doc)
    BY <1>1, <1>3, <2>2 DEF Differ
  <2> QED
    BY <1>2, <2>1, <2>2
<1> QED
  BY <1>3 DEF new

\* An empty document names no family.
LEMMA NoneInAbsent == Named(Absent) = {} /\ Absent.subject = None
  BY DEF Named, Absent

LEMMA OneAccountInit == Init => OneAccount
<1> SUFFICES ASSUME Init
             PROVE  OneAccount
  OBVIOUS
<1>1. CASE store = Absent
  BY <1>1, NoneInAbsent DEF OneAccount
<1>2. ASSUME NEW subject \in Subjects,
             store = [exists |-> TRUE, subject |-> subject,
                      families |-> [Absent.families EXCEPT !["legacy"] =
                                      [id |-> 1, subject |-> subject]]]
      PROVE  OneAccount
  <2>1. \A f \in Named(store) : f = [id |-> 1, subject |-> subject]
    BY <1>2 DEF Named, Absent
  <2> QED
    BY <1>2, <2>1 DEF OneAccount
<1> QED
  BY <1>1, <1>2 DEF Init

LEMMA OneAccountNext ==
  TransientReads = FALSE /\ IInv /\ OneAccount /\ [Next]_vars => OneAccount'
<1> SUFFICES ASSUME TransientReads = FALSE, IInv, OneAccount, [Next]_vars
             PROVE  OneAccount'
  OBVIOUS
<1>0. \A look \in Looks : look = readable
  BY DEF Looks
<1>a. UNCHANGED store => OneAccount'
  BY DEF OneAccount, Named
<1>b. /\ store \in Documents
      /\ \A look : /\ Read(look) \in Documents
                   /\ \A f \in Named(Read(look)) :
                        f.subject # None => Read(look).subject = f.subject
  BY ReadType, NoneInAbsent DEF IInv, TypeOK, OneAccount, Read
<1>1. ASSUME NEW s \in Surfaces, Step(s)
      PROVE  OneAccount'
  <2>0. /\ work[s] \in Work /\ Sound(s)
        /\ at[s] = "hold1" => /\ work[s].mint \in Families
                              /\ Subject(s) \in Subjects
                              /\ work[s].kind \in Slots
    BY DEF IInv, TypeOK, Sound, Committing, Families, Subject, Slots
  <2>1. CASE HoldOneReplaces(s)
    <3>1. store' = WithFamily(Absent, work[s].kind, work[s].mint, Subject(s))
      BY <2>1 DEF HoldOneReplaces, Replacement
    <3>2. ~ Differ(Absent.subject, Subject(s))
      BY NoneInAbsent DEF Differ
    <3>3. \A f \in Named(store') : f.subject # None => store'.subject = f.subject
      BY <2>0, <2>1, <3>1, <3>2, EmptyTypes, NoneInAbsent, AgreeingWrite
         DEF HoldOneReplaces, Subject
    <3> QED
      BY <3>3 DEF OneAccount, Named
  <2>2. CASE HoldOneMerges(s)
    <3>1. /\ at[s] = "hold1" /\ ~ Differ(Read(readable).subject, Subject(s))
          /\ store' = WithFamily(Read(readable), work[s].kind, work[s].mint,
                                 Subject(s))
      BY <1>0, <2>2 DEF HoldOneMerges, PremiseHolds
    <3>2. \A f \in Named(store') : f.subject # None => store'.subject = f.subject
      BY <1>b, <2>0, <3>1, AgreeingWrite DEF Subject
    <3> QED
      BY <3>2 DEF OneAccount, Named
  <2>3. CASE HoldTwoWrites(s)
    <3> DEFINE subject == IF store.subject = None THEN work[s].exchanged ELSE None
    <3>1. /\ at[s] = "hold2" /\ ~ Differ(store.subject, Subject(s))
          /\ store' = WithFamily(store, "plugin", work[s].derived, subject)
      BY <2>3 DEF HoldTwoWrites, Refused
    <3>2. /\ work[s].derived \in Families
          /\ work[s].derived.subject = Subject(s)
          /\ Subject(s) # None => work[s].exchanged = Subject(s)
      BY <2>0, <3>1 DEF Sound
    <3>3. subject \in Subjects /\ ~ Differ(store.subject, subject)
      BY <2>0, NoneIsSubject DEF Work, Differ
    <3>4. work[s].derived.subject # None =>
            work[s].derived.subject =
                (IF subject # None THEN subject ELSE store.subject)
      BY <3>1, <3>2 DEF Differ
    <3> HIDE DEF subject
    <3>5. \A f \in Named(store') : f.subject # None => store'.subject = f.subject
      BY <1>b, <3>1, <3>2, <3>3, <3>4, AgreeingWrite DEF OneAccount, Slots
    <3> QED
      BY <3>5 DEF OneAccount, Named
  <2>4. CASE Delete(s)
    BY <2>4, NoneInAbsent DEF Delete, OneAccount, Named
  <2>5. CASE UNCHANGED store
    BY <1>a, <2>5
  <2> QED
    BY <1>1, <2>1, <2>2, <2>3, <2>4, <2>5
       DEF Step, Commit, CommitAgain, Decline, Confirm, RevokeStored,
           RevokeStoredFails, HoldOneAborts, Exchange, ExchangeFails,
           DeriveAgain, HoldTwoAborts, RevokeOrphan, RevokeOrphanFails,
           SignOut, Throws, Crash, disk
<1>2. CASE StoreSpoils \/ StoreHeals \/ UNCHANGED vars
  BY <1>a, <1>2 DEF StoreSpoils, StoreHeals, vars, disk
<1> QED
  BY <1>1, <1>2 DEF Next

\* While an unchanged file reads the same twice, the store is of one account:
\* for any number of surfaces that sign in and out and crash at any point,
\* with mints that name their account and mints that do not.
THEOREM StoreOfOneAccount ==
  ASSUME TransientReads = FALSE
  PROVE  Spec => []OneAccount
<1>1. IInv /\ OneAccount /\ [Next]_vars => OneAccount'
  BY OneAccountNext
<1> QED
  BY <1>1, OneAccountInit, Invariance, PTL DEF Spec
-----------------------------------------------------------------------------
\* A step that is not a write or a sign-out leaves the store as it is.
LEMMA Writers ==
  ASSUME [Next]_vars, store' # store
  PROVE  \E s \in Surfaces :
            HoldOneReplaces(s) \/ HoldOneMerges(s) \/ HoldTwoWrites(s) \/ Delete(s)
  BY DEF Next, Step, Commit, CommitAgain, Decline, Confirm, RevokeStored,
         RevokeStoredFails, HoldOneAborts, Exchange, ExchangeFails,
         DeriveAgain, HoldTwoAborts, RevokeOrphan, RevokeOrphanFails,
         SignOut, Throws, Crash, StoreSpoils, StoreHeals, vars, disk

\* A signed-out machine stays signed out, whatever was under way when it was
\* signed out: an exchange, a retried derivation, a confirmed switch.
THEOREM SignOutIsKept == Spec => SignOutSticks
<1>1. ASSUME IInv, [Next]_vars, ~ store.exists, store'.exists
      PROVE  \E s \in Surfaces : at[s] = "hold1" /\ ~ work[s].confirmed
  <2>1. PICK s \in Surfaces :
          HoldOneReplaces(s) \/ HoldOneMerges(s) \/ HoldTwoWrites(s) \/ Delete(s)
    BY <1>1, Writers
  <2>2. CASE HoldOneReplaces(s)
    <3>1. work[s].premise # None /\ store.subject = None
      BY <1>1, <2>2 DEF HoldOneReplaces, IInv, Sound, AbsentUnnamed
    <3>2. \A look : Read(look).subject = None
      BY <3>1, NoneInAbsent DEF Read
    <3> QED
      BY <2>2, <3>1, <3>2 DEF HoldOneReplaces, PremiseHolds
  <2>3. CASE HoldOneMerges(s)
    BY <2>3 DEF HoldOneMerges
  <2>4. CASE HoldTwoWrites(s)
    BY <1>1, <2>4 DEF HoldTwoWrites, Refused
  <2>5. CASE Delete(s)
    BY <1>1, <2>5 DEF Delete, Absent
  <2> QED
    BY <2>1, <2>2, <2>3, <2>4, <2>5
<1>2. IInv /\ [Next]_vars =>
        [~ store.exists /\ store'.exists
            => \E s \in Surfaces : at[s] = "hold1" /\ ~ work[s].confirmed]_vars
  BY <1>1
<1> QED
  BY <1>2, Invariance, PTL DEF Spec, SignOutSticks

\* While an unchanged file reads the same twice, a store that names an account
\* comes to name another only by a switch confirmed away from that account.
THEOREM SwitchesAreConfirmed ==
  ASSUME TransientReads = FALSE
  PROVE  Spec => SwitchConfirmed
<1>0. \A look \in Looks : look = readable
  BY DEF Looks
<1>1. ASSUME IInv, [Next]_vars, readable, store'.exists,
             Differ(store.subject, store'.subject)
      PROVE  \E t \in Surfaces :
                /\ at[t] = "hold1" /\ work[t].confirmed
                /\ work[t].premise = store.subject
                /\ Subject(t) = store'.subject
  <2>1. PICK s \in Surfaces :
          HoldOneReplaces(s) \/ HoldOneMerges(s) \/ HoldTwoWrites(s) \/ Delete(s)
    BY <1>1, Writers DEF Differ
  <2>2. CASE HoldOneReplaces(s)
    <3>1. /\ at[s] = "hold1" /\ work[s].confirmed
          /\ store.subject = work[s].premise
          /\ store' = WithFamily(Absent, work[s].kind, work[s].mint, Subject(s))
      BY <1>0, <1>1, <2>2 DEF HoldOneReplaces, PremiseHolds, Read, Replacement
    <3> QED
      BY <1>1, <3>1, NoneInAbsent DEF WithFamily, Subject, Differ
  <2>3. CASE HoldOneMerges(s)
    <3>1. /\ ~ Differ(store.subject, Subject(s))
          /\ store' = WithFamily(store, work[s].kind, work[s].mint, Subject(s))
      BY <1>0, <1>1, <2>3 DEF HoldOneMerges, PremiseHolds, Read
    <3> QED
      BY <1>1, <3>1 DEF WithFamily, Differ
  <2>4. CASE HoldTwoWrites(s)
    BY <1>1, <2>4 DEF HoldTwoWrites, WithFamily, Differ
  <2>5. CASE Delete(s)
    BY <1>1, <2>5 DEF Delete, Absent
  <2> QED
    BY <2>1, <2>2, <2>3, <2>4, <2>5
<1>2. IInv /\ [Next]_vars =>
        [ readable /\ store'.exists /\ Differ(store.subject, store'.subject)
          => \E t \in Surfaces :
                /\ at[t] = "hold1" /\ work[t].confirmed
                /\ work[t].premise = store.subject
                /\ Subject(t) = store'.subject ]_vars
  BY <1>1
<1> QED
  BY <1>2, Invariance, PTL DEF Spec, SwitchConfirmed
-----------------------------------------------------------------------------
(* The families: what a surface may still write, revoke or leave behind.   *)

\* An unchanged file reads the same twice.
Steady == TransientReads = FALSE

\* s may still commit what it minted.
KeepsMint(s) ==
    \/ at[s] \in {"dialog", "hold1"}
    \/ at[s] = "revoke" /\ work[s].kind # "signOut"
    \/ at[s] = "idle" /\ outcome[s] = "guard-premise-changed"

\* s ended, or is about to end, with this refusal.
Refuses(s, how) == at[s] \in {"refuse", "idle"} /\ outcome[s] = how

\* What s minted and has not written: nobody else knows of it.
Mine(s) ==
    {f \in Families :
        \/ f = work[s].mint /\ (KeepsMint(s) \/ Refuses(s, "switch-declined"))
        \/ f = work[s].derived
             /\ (at[s] = "hold2" \/ Refuses(s, "derivation-aborted"))}

Marked(s) == work[s].pending \cup work[s].revoked

Private(s) ==
    \A f \in Mine(s) :
        /\ f.id <= minted
        /\ f \notin Named(store)
        /\ \A t \in Surfaces : /\ f \notin Marked(t)
                               /\ t # s => f \notin Mine(t)

\* What s may still write is live, and what it refused is not.
Pledged(s) ==
    /\ KeepsMint(s) => work[s].mint \in live
    /\ at[s] = "hold2" => work[s].derived \in live
    /\ /\ at[s] = "idle" /\ Orphan(s) \in live
       /\ outcome[s] \in {"switch-declined", "derivation-aborted"}
       => Orphan(s) \in failed

\* s is on its way to a replacement that the user confirmed, or may confirm.
Leaving(s) ==
    \/ at[s] = "dialog" /\ work[s].premise # None
    \/ at[s] = "revoke" /\ work[s].kind # "signOut"
    \/ at[s] = "hold1" /\ work[s].confirmed

\* What s revokes for it is of the account that it leaves: should that account
\* be gone from the store, so are they.
Leaves(s) ==
    /\ at[s] \notin {"revoke", "hold1", "delete"} => work[s].revoked = {}
    /\ at[s] = "hold1" /\ ~ work[s].confirmed => work[s].revoked = {}
    /\ at[s] = "revoke" /\ work[s].kind # "signOut" => work[s].confirmed
    /\ Steady /\ Leaving(s) =>
        \A f \in Marked(s) \cap Named(store) : store.subject = work[s].premise

\* What is stored or marked was minted.
Known ==
    /\ \A f \in Named(store) : f.id <= minted
    /\ \A s \in Surfaces : \A f \in Marked(s) : f.id <= minted

\* The inductive invariant of the families.
FInv ==
    /\ IInv /\ Known /\ (Steady => KeptFamilyAlive)
    /\ \A s \in Surfaces : Private(s) /\ Pledged(s) /\ Leaves(s)

-----------------------------------------------------------------------------
\* What a step of s does to the families: the store takes in only what s minted,
\* s mints only new ones and marks only what the store names, and nobody's
\* family dies but one that s marked or kept to itself.
Effect(s) ==
    /\ \A f \in Named(store') :
        f \in Named(store) \/ (f \in Mine(s) /\ f \in live' /\ f \notin Mine(s)')
    /\ \A f \in Mine(s)' : f \in Mine(s) \/ (minted < f.id /\ f.id <= minted')
    /\ Marked(s)' \subseteq Marked(s) \cup Named(store)
    /\ minted <= minted'
    /\ \A f \in live' : f \in live \/ minted < f.id
    /\ \A f \in live : f \in live' \/ f \in work'[s].revoked \cup Mine(s)
    /\ failed \subseteq failed' /\ cutShort \subseteq cutShort'
    /\ Steady =>
        /\ \A f \in Named(store) \cap Named(store') :
            store.subject # None => store'.subject = store.subject
        /\ \A f \in work[s].revoked \cap Named(store') :
            f \in work'[s].revoked \cup cutShort'

\* Families are numbered by naturals.
LEMMA Numbers ==
  ASSUME TypeOK
  PROVE  minted \in Nat /\ \A f \in Families : f.id \in Nat
  BY Bounds DEF TypeOK, Ids, Families

\* A step with that effect, after which s keeps its own promises, keeps those of
\* the others, and the invariant.
LEMMA EffectKeeps ==
  ASSUME FInv, IInv', NEW s \in Surfaces, Effect(s), Pledged(s)', Leaves(s)',
         \A t \in Surfaces : t # s =>
            at'[t] = at[t] /\ work'[t] = work[t] /\ outcome'[t] = outcome[t]
  PROVE  FInv'
<1>1. /\ minted \in Nat /\ minted' \in Nat /\ minted <= minted'
      /\ \A f \in Families : f.id \in Nat
  <2>1. Ids \subseteq Nat
    BY Bounds DEF Ids
  <2> QED
    BY <2>1, Numbers DEF FInv, IInv, Effect, TypeOK
<1>2. /\ Named(store) \subseteq Families /\ Named(store') \subseteq Families
      /\ \A t \in Surfaces : /\ Marked(t) \subseteq Families
                             /\ Marked(t)' \subseteq Families
      /\ live \subseteq Families /\ live' \subseteq Families
  <2>1. Named(store) \subseteq Families /\ Named(store') \subseteq Families
    BY NamedAreFamilies DEF FInv, IInv, TypeOK
  <2>2. TypeOK /\ TypeOK'
    BY DEF FInv, IInv
  <2> QED
    BY <2>1, <2>2 DEF TypeOK, Work, Marked
<1>3. \A t \in Surfaces : t # s => Mine(t)' = Mine(t) /\ Marked(t)' = Marked(t)
  BY DEF Mine, KeepsMint, Refuses, Marked
<1>4. \A f \in Named(store') : f.id <= minted'
  <2> SUFFICES ASSUME NEW f \in Named(store') PROVE f.id <= minted'
    OBVIOUS
  <2>1. f \in Named(store) \/ f \in Mine(s)
    BY DEF Effect
  <2>2. f.id <= minted /\ f.id \in Nat
    BY <1>1, <1>2, <2>1 DEF FInv, Known, Private
  <2> QED
    BY <1>1, <2>2
<1>5. ASSUME NEW t \in Surfaces, NEW f \in Marked(t)'
      PROVE  f.id <= minted' /\ f.id <= minted
             /\ (f \in Marked(t) \/ (t = s /\ f \in Named(store)))
  <2>1. f \in Marked(t) \/ (t = s /\ f \in Named(store))
    BY <1>3 DEF Effect
  <2>2. f.id <= minted /\ f.id \in Nat
    BY <1>1, <1>2, <2>1 DEF FInv, Known
  <2> QED
    BY <1>1, <2>1, <2>2
<1>6. ASSUME NEW t \in Surfaces, NEW f \in Mine(t)'
      PROVE  f \in Mine(t) \/ (t = s /\ minted < f.id /\ f.id <= minted')
  BY <1>3, <1>6 DEF Effect
<1>7. ASSUME NEW t \in Surfaces PROVE Private(t)'
  <2> SUFFICES ASSUME NEW f \in Mine(t)'
               PROVE  /\ f.id <= minted' /\ f \notin Named(store')
                      /\ \A u \in Surfaces : /\ f \notin Marked(u)'
                                             /\ u # t => f \notin Mine(u)'
    BY DEF Private
  <2>0. f \in Families /\ f.id \in Nat
    BY <1>1 DEF Mine
  <2>1. CASE f \in Mine(t)
    <3>1. /\ f.id <= minted /\ f \notin Named(store)
          /\ \A u \in Surfaces : f \notin Marked(u) /\ (u # t => f \notin Mine(u))
      BY <2>1 DEF FInv, Private
    <3>2. f \notin Named(store')
      BY <1>3, <3>1 DEF Effect
    <3>3. \A u \in Surfaces : f \notin Marked(u)'
      BY <1>5, <3>1
    <3>4. \A u \in Surfaces : u # t => f \notin Mine(u)'
      BY <1>1, <1>6, <2>0, <3>1
    <3> QED
      BY <1>1, <2>0, <3>1, <3>2, <3>3, <3>4
  <2>2. CASE t = s /\ minted < f.id /\ f.id <= minted'
    <3>1. f \notin Named(store) /\ f \notin Mine(s)
      BY <1>1, <1>2, <2>0, <2>2 DEF FInv, Known, Private
    <3>2. f \notin Named(store')
      BY <3>1 DEF Effect
    <3>3. \A u \in Surfaces : f \notin Marked(u)'
      BY <1>1, <1>5, <2>0, <2>2
    <3>4. \A u \in Surfaces : u # t => f \notin Mine(u)'
      <4> SUFFICES ASSUME NEW u \in Surfaces, u # s, f \in Mine(u) PROVE FALSE
        BY <1>3, <2>2
      <4>1. f.id <= minted
        BY DEF FInv, Private
      <4> QED
        BY <1>1, <2>0, <2>2, <4>1
    <3> QED
      BY <2>2, <3>2, <3>3, <3>4
  <2> QED
    BY <1>6, <2>1, <2>2
<1>8. ASSUME NEW t \in Surfaces, t # s PROVE Pledged(t)'
  <2>1. ASSUME NEW f \in Mine(t), f \in live PROVE f \in live'
    <3>1. f \notin Mine(s) /\ f \notin Marked(s)'
      BY <1>3, <1>7, <1>8, <2>1 DEF FInv, Private
    <3> QED
      BY <2>1, <3>1 DEF Effect, Marked
  <2>2. ASSUME NEW f \in Mine(t), f \in live' PROVE f \in live
    <3>1. f.id <= minted /\ f.id \in Nat
      BY <1>1, <2>2 DEF FInv, Private, Mine
    <3> QED
      BY <1>1, <2>2, <3>1 DEF Effect
  <2>3. Sound(t) /\ Pledged(t)
    BY DEF FInv, IInv
  <2>4. KeepsMint(t) => work[t].mint \in Mine(t)
    BY <2>3 DEF KeepsMint, Sound, Committing, Mine
  <2>5. at[t] = "hold2" => work[t].derived \in Mine(t)
    BY <2>3 DEF Sound, Mine
  <2>6. /\ at[t] = "idle"
        /\ outcome[t] \in {"switch-declined", "derivation-aborted"}
        /\ Orphan(t) \in Families
        => Orphan(t) \in Mine(t)
    BY DEF Orphan, Mine, Refuses
  <2>7. at'[t] = at[t] /\ work'[t] = work[t] /\ outcome'[t] = outcome[t]
        /\ failed \subseteq failed'
    BY <1>8 DEF Effect
  <2> QED
    BY <1>2, <2>1, <2>2, <2>3, <2>4, <2>5, <2>6, <2>7
       DEF Pledged, KeepsMint, Orphan
<1>9. ASSUME NEW t \in Surfaces, t # s PROVE Leaves(t)'
  <2>1. Sound(t) /\ Leaves(t)
    BY DEF FInv, IInv
  <2>2. at'[t] = at[t] /\ work'[t] = work[t]
    BY <1>9
  <2>3. ASSUME Steady, Leaving(t), NEW f \in Marked(t), f \in Named(store')
        PROVE  store'.subject = work[t].premise
    <3>1. f \in Named(store)
      BY <2>3 DEF Effect, FInv, Private
    <3>2. store.subject = work[t].premise /\ work[t].premise # None
      BY <2>1, <2>3, <3>1 DEF Leaves, Leaving, Sound
    <3> QED
      BY <2>3, <3>1, <3>2 DEF Effect
  <2> QED
    BY <2>1, <2>2, <2>3 DEF Leaves, Leaving, Marked
<1>10. Steady => KeptFamilyAlive'
  <2> SUFFICES ASSUME Steady, NEW f \in Named(store')
               PROVE  f \in live' \/ f \in cutShort'
                      \/ \E t \in Surfaces : f \in work'[t].revoked
    BY DEF KeptFamilyAlive
  <2>1. CASE f \notin Named(store)
    BY <2>1 DEF Effect
  <2>2. CASE f \in Named(store) /\ f \in live
    BY <2>2 DEF Effect, FInv, Private
  <2>3. CASE f \in Named(store) /\ f \in cutShort
    BY <2>3 DEF Effect
  <2>4. ASSUME NEW t \in Surfaces, f \in work[t].revoked
        PROVE  f \in cutShort' \/ \E u \in Surfaces : f \in work'[u].revoked
    BY <2>4 DEF Effect
  <2> QED
    BY <2>1, <2>2, <2>3, <2>4 DEF FInv, KeptFamilyAlive
<1>11. Known'
  BY <1>4, <1>5 DEF Known
<1>12. Private(s)' /\ Pledged(s)' /\ Leaves(s)'
  BY <1>7
<1> QED
  BY <1>7, <1>8, <1>9, <1>10, <1>11, <1>12 DEF FInv

-----------------------------------------------------------------------------
\* What s keeps of its sign-in, and what is left when it ends.
LEMMA SignHas ==
  ASSUME TypeOK, NEW s \in Surfaces
  PROVE  /\ Sign(s).mint = work[s].mint /\ Sign(s).kind = work[s].kind
         /\ Sign(s).pending = {} /\ Sign(s).revoked = {}
         /\ Sign(s).confirmed = FALSE
         /\ Sign(s).premise = None
         /\ NoWork.pending = {} /\ NoWork.revoked = {}
         /\ NoWork.confirmed = FALSE
  BY EmptyTypes DEF Sign, NoWork, Work

\* A step that leaves the store and the server alone.
LEMMA QuietEffect ==
  ASSUME FInv, NEW s \in Surfaces, UNCHANGED <<store, server>>,
         cutShort \subseteq cutShort', Mine(s)' \subseteq Mine(s),
         Marked(s)' \subseteq Marked(s) \cup Named(store),
         Steady => \A f \in work[s].revoked \cap Named(store) :
                        f \in work'[s].revoked \cup cutShort'
  PROVE  Effect(s)
<1>1. Named(store)' = Named(store) /\ minted' = minted /\ live' = live
      /\ failed' = failed /\ store' = store
  BY DEF server, Named
<1>2. minted <= minted
  BY Numbers DEF FInv, IInv
<1> QED
  BY <1>1, <1>2 DEF Effect

\* A surface that carries nothing on has nothing to keep.
LEMMA EmptyHanded ==
  ASSUME NEW s \in Surfaces, at'[s] = "idle",
         outcome'[s] \in {"done", "partial"}, work'[s].revoked = {}
  PROVE  /\ Mine(s)' = {} /\ Pledged(s)' /\ Leaves(s)'
  BY DEF Mine, KeepsMint, Refuses, Pledged, Leaves, Leaving

\* Who throws or dies keeps nothing; what it revoked in vain is remembered.
LEMMA ShortEffect ==
  ASSUME FInv, NEW s \in Surfaces, Throws(s) \/ Crash(s)
  PROVE  Effect(s) /\ Pledged(s)' /\ Leaves(s)'
<1>1. /\ work'[s] = NoWork /\ at'[s] = "idle" /\ outcome'[s] = "done"
      /\ CutShort(s) /\ UNCHANGED <<store, server>>
  BY DEF Throws, Crash, Ends, Goes, FInv, IInv, TypeOK, disk
<1>2. NoWork.pending = {} /\ NoWork.revoked = {}
  BY SignHas DEF FInv, IInv
<1>3. /\ Mine(s)' = {} /\ Pledged(s)' /\ Leaves(s)' /\ Marked(s)' = {}
  BY <1>1, <1>2, EmptyHanded DEF Marked
<1> QED
  BY <1>1, <1>3, QuietEffect DEF CutShort

\* A failed exchange and its retry touch no family.
LEMMA EndEffect ==
  ASSUME FInv, NEW s \in Surfaces, ExchangeFails(s) \/ DeriveAgain(s)
  PROVE  Effect(s) /\ Pledged(s)' /\ Leaves(s)'
<1>1. work[s].revoked = {} /\ UNCHANGED <<store, server, cutShort>> /\ TypeOK
  BY DEF FInv, IInv, Leaves, ExchangeFails, DeriveAgain, disk, history
<1>2. CASE ExchangeFails(s)
  <2>1. work'[s] = Sign(s) /\ at'[s] = "idle" /\ outcome'[s] = "partial"
    BY <1>1, <1>2 DEF ExchangeFails, Ends, Goes, TypeOK
  <2>2. Mine(s)' = {} /\ Pledged(s)' /\ Leaves(s)' /\ Marked(s)' = {}
    BY <1>1, <2>1, SignHas, EmptyHanded DEF Marked
  <2> QED
    BY <1>1, <2>2, QuietEffect
<1>3. CASE DeriveAgain(s)
  <2>1. work'[s] = work[s] /\ at'[s] = "exchange" /\ outcome'[s] = "done"
    BY <1>1, <1>3 DEF DeriveAgain, Goes, TypeOK
  <2>2. Mine(s)' = {} /\ Pledged(s)' /\ Leaves(s)' /\ Marked(s)' = Marked(s)
    BY <1>1, <2>1 DEF Mine, KeepsMint, Refuses, Pledged, Leaves, Leaving, Marked
  <2> QED
    BY <1>1, <2>2, QuietEffect
<1> QED
  BY <1>2, <1>3

\* A refusal keeps the family that it is going to revoke.
LEMMA RefuseEffect ==
  ASSUME FInv, NEW s \in Surfaces, Decline(s) \/ HoldTwoAborts(s)
  PROVE  Effect(s) /\ Pledged(s)' /\ Leaves(s)'
<1>1. work[s].revoked = {} /\ UNCHANGED <<store, server, cutShort>> /\ TypeOK
  BY DEF FInv, IInv, Leaves, Decline, HoldTwoAborts, disk, history
<1>2. /\ at'[s] = "refuse"
      /\ \/ /\ work'[s] = Sign(s) /\ at[s] = "dialog"
            /\ outcome'[s] = "switch-declined"
         \/ /\ work'[s] = work[s] /\ at[s] = "hold2"
            /\ outcome'[s] = "derivation-aborted"
  BY <1>1 DEF Decline, HoldTwoAborts, Goes, TypeOK
<1>3. Mine(s)' \subseteq Mine(s)
  BY <1>1, <1>2, SignHas DEF Mine, KeepsMint, Refuses
<1>4. Pledged(s)' /\ Leaves(s)'
  BY <1>1, <1>2, SignHas DEF KeepsMint, Pledged, Leaves, Leaving
<1>5. Marked(s)' \subseteq Marked(s)
  BY <1>1, <1>2, SignHas DEF Marked
<1> QED
  BY <1>1, <1>3, <1>4, <1>5, QuietEffect

\* The guard marks what it read: nothing, or the families of the account it
\* asks to leave.
LEMMA EvaluateEffect ==
  ASSUME TypeOK, NEW s \in Surfaces, NEW sign \in Work, NEW subject,
         sign.revoked = {}, sign.confirmed = FALSE, Evaluate(s, sign, subject)
  PROVE  /\ at'[s] \in {"dialog", "hold1"}
         /\ work'[s].mint = sign.mint /\ work'[s].kind = sign.kind
         /\ work'[s].revoked = {} /\ work'[s].confirmed = FALSE
         /\ work'[s].pending \subseteq Named(store)
         /\ work'[s].pending # {} => work'[s].premise = store.subject
<1>1. PICK look \in Looks, fallback \in Fallbacks(sign.kind) :
        LET stored == Read(look)
            differs == Differ(Compared(stored, fallback), subject)
        IN  /\ Goes(s, IF differs THEN "dialog" ELSE "hold1")
            /\ work' = [work EXCEPT ![s] =
                    [sign EXCEPT !.premise = stored.subject,
                                 !.pending = IF differs THEN Named(stored)
                                                        ELSE {}]]
  BY DEF Evaluate
<1>2. PICK pending \in {Named(Read(look)), {}} :
        work' = [work EXCEPT ![s] = [sign EXCEPT !.premise = Read(look).subject,
                                                 !.pending = pending]]
  BY <1>1, Zenon
<1>3. at'[s] \in {"dialog", "hold1"}
  BY <1>1 DEF Goes, TypeOK
<1> DEFINE w == [sign EXCEPT !.premise = Read(look).subject, !.pending = pending]
<1>4. work'[s] = w
  BY <1>2 DEF TypeOK
<1>5. /\ w.mint = sign.mint /\ w.kind = sign.kind /\ w.revoked = {}
      /\ w.confirmed = FALSE /\ w.pending = pending
      /\ w.premise = Read(look).subject
  BY DEF Work
<1>6. pending \subseteq Named(store) /\ (pending # {} => Read(look) = store)
  BY NoneInAbsent DEF Read
<1> HIDE DEF w
<1> QED
  BY <1>3, <1>4, <1>5, <1>6

\* A sign-in mints a family that nobody knows.
LEMMA CommitEffect ==
  ASSUME FInv, IInv', NEW s \in Surfaces, NEW kind \in {"agent", "plugin"},
         NEW subject \in Subjects, Commit(s, kind, subject)
  PROVE  Effect(s) /\ Pledged(s)' /\ Leaves(s)'
<1> DEFINE family == [id |-> minted + 1, subject |-> subject]
           sign == [NoWork EXCEPT !.kind = kind, !.mint = family]
<1>1. TypeOK /\ work[s].revoked = {} /\ minted \in Nat
  BY Numbers DEF FInv, IInv, Leaves, Commit
<1>2. family \in Families /\ family.id = minted + 1
  BY <1>1, Bounds DEF Commit, Families, Ids, TypeOK
<1>3. sign \in Work /\ sign.mint = family /\ sign.kind = kind
      /\ sign.revoked = {} /\ sign.confirmed = FALSE
  BY <1>1, <1>2, EmptyTypes, SignHas DEF Work, Kinds, FamilyOrNone
<1>4. /\ Evaluate(s, sign, subject) /\ minted' = minted + 1
      /\ live' = live \cup {family} /\ outcome'[s] = "done"
      /\ UNCHANGED <<store, failed, cutShort>>
  BY <1>1 DEF Commit, disk, history, TypeOK
<1> HIDE DEF sign, family
<1>5. /\ at'[s] \in {"dialog", "hold1"}
      /\ work'[s].mint = family /\ work'[s].kind = kind
      /\ work'[s].revoked = {} /\ work'[s].confirmed = FALSE
      /\ work'[s].pending \subseteq Named(store)
      /\ work'[s].pending # {} => work'[s].premise = store.subject
  BY <1>1, <1>3, <1>4, EvaluateEffect
<1>6. Mine(s)' = {family} /\ Marked(s)' \subseteq Named(store)
  BY <1>2, <1>4, <1>5 DEF Mine, KeepsMint, Refuses, Marked
<1>7. Named(store)' = Named(store)
  BY <1>4 DEF Named
<1>8. Effect(s)
  BY <1>1, <1>2, <1>4, <1>6, <1>7 DEF Effect
<1>9. Pledged(s)' /\ Leaves(s)'
  BY <1>4, <1>5, <1>7 DEF Pledged, Leaves, Leaving, Marked, KeepsMint
<1> QED
  BY <1>8, <1>9

\* The same sign-in committed again brings the family that it kept.
LEMMA CommitAgainEffect ==
  ASSUME FInv, NEW s \in Surfaces, CommitAgain(s)
  PROVE  Effect(s) /\ Pledged(s)' /\ Leaves(s)'
<1>1. TypeOK /\ Pledged(s) /\ work[s].revoked = {}
      /\ at[s] = "idle" /\ outcome[s] = "guard-premise-changed"
  BY DEF FInv, IInv, Leaves, CommitAgain
<1>2. /\ Evaluate(s, Sign(s), Subject(s)) /\ outcome'[s] = "done"
      /\ UNCHANGED <<store, server, cutShort>>
  BY <1>1 DEF CommitAgain, disk, history, TypeOK
<1>3. /\ at'[s] \in {"dialog", "hold1"}
      /\ work'[s].mint = work[s].mint
      /\ work'[s].revoked = {} /\ work'[s].confirmed = FALSE
      /\ work'[s].pending \subseteq Named(store)
      /\ work'[s].pending # {} => work'[s].premise = store.subject
  BY <1>1, <1>2, SignType, SignHas, EvaluateEffect
<1>4. Mine(s)' \subseteq Mine(s) /\ Marked(s)' \subseteq Named(store)
  BY <1>1, <1>2, <1>3 DEF Mine, KeepsMint, Refuses, Marked
<1>5. Pledged(s)' /\ Leaves(s)'
  BY <1>1, <1>2, <1>3
     DEF Pledged, Leaves, Leaving, Marked, KeepsMint, server, Named
<1> QED
  BY <1>1, <1>2, <1>4, <1>5, QuietEffect

\* Who confirms goes on with what the guard read, and to leave that account.
LEMMA ConfirmEffect ==
  ASSUME FInv, NEW s \in Surfaces, Confirm(s)
  PROVE  Effect(s) /\ Pledged(s)' /\ Leaves(s)'
<1>1. /\ TypeOK /\ Sound(s) /\ Pledged(s) /\ Leaves(s) /\ work[s] \in Work
      /\ at[s] = "dialog" /\ work[s].revoked = {}
      /\ UNCHANGED <<store, server, outcome, cutShort>>
  BY DEF FInv, IInv, TypeOK, Leaves, Confirm, disk, history
<1> DEFINE replaces == work[s].premise # None
           families == IF replaces THEN work[s].pending ELSE {}
<1>2. /\ work' = [work EXCEPT ![s].confirmed = replaces,
                              ![s].pending = families]
      /\ Goes(s, IF families = {} THEN "hold1" ELSE "revoke")
  BY DEF Confirm
<1>3. /\ families \subseteq work[s].pending
      /\ families # {} => replaces
  OBVIOUS
<1>4. replaces => work[s].premise # None
  OBVIOUS
<1> HIDE DEF replaces, families
<1>5. /\ work'[s].mint = work[s].mint /\ work'[s].kind = work[s].kind
      /\ work'[s].premise = work[s].premise /\ work'[s].confirmed = replaces
      /\ work'[s].pending = families /\ work'[s].revoked = {}
      /\ \/ at'[s] = "hold1"
         \/ at'[s] = "revoke" /\ families # {}
  BY <1>1, <1>2 DEF TypeOK, Work, Goes
<1>6. work[s].kind # "signOut" /\ outcome[s] = "done"
  BY <1>1 DEF Sound, Committing
<1>7. Mine(s)' \subseteq Mine(s)
  BY <1>1, <1>5, <1>6 DEF Mine, KeepsMint, Refuses
<1>8. Pledged(s)'
  BY <1>1, <1>5, <1>6 DEF Pledged, KeepsMint, server
<1>9. Marked(s)' \subseteq Marked(s)
  BY <1>3, <1>5 DEF Marked
<1>10. Leaving(s)' => Leaving(s)
  BY <1>1, <1>3, <1>4, <1>5, <1>6 DEF Leaving
<1>11. Leaves(s)'
  BY <1>1, <1>3, <1>5, <1>9, <1>10 DEF Leaves, Named
<1> QED
  BY <1>1, <1>7, <1>8, <1>9, <1>11, QuietEffect

\* A revocation kills a family that it marked, never the one to be committed.
LEMMA RevokeEffect ==
  ASSUME FInv, NEW s \in Surfaces, RevokeStored(s) \/ RevokeStoredFails(s)
  PROVE  Effect(s) /\ Pledged(s)' /\ Leaves(s)'
<1>1. /\ TypeOK /\ Sound(s) /\ Pledged(s) /\ Leaves(s) /\ work[s] \in Work
      /\ Private(s) /\ at[s] = "revoke" /\ outcome[s] = "done"
      /\ UNCHANGED <<store, minted, failed, outcome, cutShort>>
  BY DEF FInv, IInv, TypeOK, Sound, RevokeStored, RevokeStoredFails, disk,
         history, server
<1>2. PICK f \in work[s].pending, revoked \in SUBSET Marked(s) :
        /\ work[s].revoked \subseteq revoked
        /\ work' = [work EXCEPT ![s].pending = work[s].pending \ {f},
                                ![s].revoked = revoked]
        /\ Goes(s, IF work[s].pending = {f} THEN AfterRevoking(s)
                                            ELSE "revoke")
        /\ live' = live \/ (live' = (live \ {f}) /\ f \in revoked)
  <2>1. CASE RevokeStored(s)
    <3>1. PICK f \in work[s].pending :
            /\ live' = live \ {f}
            /\ work' = [work EXCEPT ![s].pending = work[s].pending \ {f},
                                    ![s].revoked = work[s].revoked \cup {f}]
            /\ Goes(s, IF work[s].pending = {f} THEN AfterRevoking(s)
                                                ELSE "revoke")
      BY <2>1 DEF RevokeStored
    <3> DEFINE revoked == work[s].revoked \cup {f}
    <3>2. /\ work[s].revoked \subseteq revoked /\ f \in revoked
          /\ revoked \in SUBSET Marked(s)
          /\ work' = [work EXCEPT ![s].pending = work[s].pending \ {f},
                                  ![s].revoked = revoked]
      BY <3>1 DEF Marked
    <3> HIDE DEF revoked
    <3> revoked \in SUBSET Marked(s)
      BY <3>2
    <3> WITNESS f \in work[s].pending, revoked \in SUBSET Marked(s)
    <3> QED
      BY <3>1, <3>2
  <2>2. CASE RevokeStoredFails(s)
    <3>1. PICK f \in work[s].pending :
            /\ work' = [work EXCEPT ![s].pending = work[s].pending \ {f}]
            /\ Goes(s, IF work[s].pending = {f} THEN AfterRevoking(s)
                                                ELSE "revoke")
            /\ live' = live
      BY <2>2 DEF RevokeStoredFails, server
    <3> DEFINE revoked == work[s].revoked
    <3>2. work' = [work EXCEPT ![s].pending = work[s].pending \ {f},
                               ![s].revoked = revoked]
      BY <1>1, <3>1 DEF TypeOK, Work
    <3>3. work[s].revoked \subseteq revoked
      OBVIOUS
    <3> revoked \in SUBSET Marked(s)
      BY DEF Marked
    <3> HIDE DEF revoked
    <3> WITNESS f \in work[s].pending, revoked \in SUBSET Marked(s)
    <3> QED
      BY <3>1, <3>2, <3>3
  <2> QED
    BY <2>1, <2>2
<1> DEFINE pending == work[s].pending \ {f}
<1>3. /\ work'[s].mint = work[s].mint /\ work'[s].kind = work[s].kind
      /\ work'[s].premise = work[s].premise
      /\ work'[s].confirmed = work[s].confirmed
      /\ work'[s].pending = pending /\ work'[s].revoked = revoked
      /\ \/ at'[s] = "revoke"
         \/ at'[s] = "hold1" /\ work[s].kind # "signOut"
         \/ at'[s] = "delete" /\ work[s].kind = "signOut"
  BY <1>1, <1>2 DEF TypeOK, Work, Goes, AfterRevoking
<1>4. Mine(s)' \subseteq Mine(s)
  BY <1>1, <1>3 DEF Mine, KeepsMint, Refuses
<1>5. Marked(s)' \subseteq Marked(s) /\ f \in Marked(s)
  BY <1>2, <1>3, Zenon DEF Marked
<1>6. Effect(s)
  <2>1. \A g \in live : g \in live' \/ g \in work'[s].revoked
    BY <1>2, <1>3
  <2>2. minted <= minted /\ Named(store)' = Named(store) /\ live' \subseteq live
    BY <1>1, <1>2, Numbers DEF Named
  <2>3. \A g \in work[s].revoked : g \in work'[s].revoked
    BY <1>2, <1>3
  <2> QED
    BY <1>1, <1>4, <1>5, <2>1, <2>2, <2>3 DEF Effect
<1>7. Pledged(s)'
  <2>1. ASSUME KeepsMint(s)' PROVE work'[s].mint \in live'
    <3>1. KeepsMint(s) /\ work[s].mint \in Families
      BY <1>1, <1>3, <2>1 DEF KeepsMint, Sound, Committing
    <3>2. work[s].mint \in Mine(s)
      BY <3>1 DEF Mine
    <3>3. work[s].mint # f
      BY <1>1, <1>5, <3>2 DEF Private
    <3> QED
      BY <1>1, <1>2, <1>3, <3>1, <3>3 DEF Pledged
  <2> QED
    BY <1>3, <2>1 DEF Pledged
<1>8. Leaves(s)'
  <2>1. Leaving(s)' => Leaving(s)
    BY <1>1, <1>3 DEF Leaving
  <2>2. at'[s] = "hold1" => work'[s].confirmed
    BY <1>1, <1>3 DEF Leaves
  <2>3. at'[s] = "revoke" /\ work'[s].kind # "signOut" => work'[s].confirmed
    BY <1>1, <1>3 DEF Leaves
  <2>4. Steady /\ Leaving(s)' => \A g \in Marked(s)' \cap Named(store)' :
                          store'.subject = work'[s].premise
    BY <1>1, <1>3, <1>5, <2>1 DEF Leaves, Named
  <2> QED
    BY <1>3, <2>2, <2>3, <2>4 DEF Leaves
<1> QED
  BY <1>6, <1>7, <1>8

\* A hold that aborts over a changed premise leaves nothing of what it revoked
\* in the store: either it was unreadable, which counts as cut short, or the
\* account that it would have left is gone, and its families with it.
LEMMA AbortEffect ==
  ASSUME FInv, NEW s \in Surfaces, HoldOneAborts(s)
  PROVE  Effect(s) /\ Pledged(s)' /\ Leaves(s)'
<1>1. /\ TypeOK /\ Pledged(s) /\ Leaves(s) /\ at[s] = "hold1"
      /\ UNCHANGED <<store, server>>
      /\ work'[s] = Sign(s) /\ at'[s] = "idle"
      /\ outcome'[s] = "guard-premise-changed"
  BY DEF FInv, IInv, TypeOK, HoldOneAborts, Ends, Goes, disk
<1>2. /\ work'[s].mint = work[s].mint
      /\ work'[s].revoked = {} /\ work'[s].pending = {}
  BY <1>1, SignHas
<1>3. Mine(s)' \subseteq Mine(s) /\ Marked(s)' = {}
  BY <1>1, <1>2 DEF Mine, KeepsMint, Refuses, Marked
<1>4. Pledged(s)' /\ Leaves(s)'
  BY <1>1, <1>2 DEF Pledged, KeepsMint, Leaves, Leaving, server
<1>5. PICK look \in Looks :
        /\ ~ PremiseHolds(s, Read(look))
        /\ IF look THEN UNCHANGED cutShort ELSE CutShort(s)
  BY DEF HoldOneAborts
<1>6. CASE look
  <2>1. Steady /\ work[s].confirmed => \A f \in Marked(s) \cap Named(store) :
                                store.subject = work[s].premise
    BY <1>1 DEF Leaves, Leaving
  <2>2. work[s].confirmed => store.subject # work[s].premise
    BY <1>5, <1>6 DEF PremiseHolds, Read
  <2>3. Steady => work[s].revoked \cap Named(store) = {}
    BY <1>1, <2>1, <2>2 DEF Leaves, Marked
  <2> QED
    BY <1>1, <1>3, <1>4, <1>5, <1>6, <2>3, QuietEffect
<1>7. CASE ~ look
  BY <1>1, <1>3, <1>4, <1>5, <1>7, QuietEffect DEF CutShort
<1> QED
  BY <1>6, <1>7

\* After a first hold that wrote, nothing is kept but what is already stored.
LEMMA AfterHoldOne ==
  ASSUME FInv, NEW s \in Surfaces, at[s] = "hold1", Committed(s)
  PROVE  Mine(s)' = {} /\ Pledged(s)' /\ Leaves(s)' /\ Marked(s)' = {}
<1>1. TypeOK /\ outcome[s] = "done"
  BY DEF FInv, IInv, Sound
<1>2. /\ at'[s] \in {"exchange", "idle"} /\ outcome'[s] = "done"
      /\ work'[s] \in {Sign(s), NoWork}
  BY <1>1 DEF Committed, ToolsOnlyCommitted, Goes, TypeOK
<1>3. work'[s].revoked = {} /\ work'[s].pending = {}
  BY <1>1, <1>2, SignHas
<1> QED
  BY <1>2, <1>3 DEF Mine, KeepsMint, Refuses, Pledged, Leaves, Leaving, Marked

\* A hold that replaces leaves the store with the new family alone.
LEMMA ReplaceEffect ==
  ASSUME FInv, IInv', NEW s \in Surfaces, HoldOneReplaces(s)
  PROVE  Effect(s) /\ Pledged(s)' /\ Leaves(s)'
<1>1. /\ TypeOK /\ Sound(s) /\ Pledged(s) /\ Private(s)
      /\ at[s] = "hold1" /\ work[s].kind \in Slots
      /\ UNCHANGED <<server, cutShort>>
  BY DEF FInv, IInv, HoldOneReplaces, history, Sound, Committing, Slots
<1>2. store' = WithFamily(Absent, work[s].kind, work[s].mint, Subject(s))
  BY DEF HoldOneReplaces, Replacement
<1>3. Named(store') \subseteq {work[s].mint}
  BY <1>1, <1>2 DEF Named, WithFamily, Absent
<1>4. work[s].mint \in Mine(s) /\ work[s].mint \in live
  BY <1>1 DEF Mine, KeepsMint, Sound, Committing, Pledged
<1>5. Mine(s)' = {} /\ Pledged(s)' /\ Leaves(s)' /\ Marked(s)' = {}
  BY <1>1, AfterHoldOne DEF HoldOneReplaces
<1>6. minted <= minted /\ minted' = minted /\ live' = live /\ failed' = failed
  BY <1>1, Numbers DEF server
<1>7. \A f \in Named(store') : f \notin Named(store) /\ f \notin work[s].revoked
  BY <1>1, <1>3, <1>4 DEF Private, Marked
<1> QED
  BY <1>1, <1>3, <1>4, <1>5, <1>6, <1>7 DEF Effect

\* A hold that merges adds the new family to what the store names. While an
\* unchanged file reads the same twice, it keeps the account of what it keeps.
LEMMA MergeEffect ==
  ASSUME FInv, IInv', NEW s \in Surfaces, HoldOneMerges(s)
  PROVE  Effect(s) /\ Pledged(s)' /\ Leaves(s)'
<1>1. /\ TypeOK /\ Sound(s) /\ Pledged(s) /\ Private(s) /\ Leaves(s)
      /\ at[s] = "hold1" /\ work[s].kind \in Slots /\ ~ work[s].confirmed
      /\ UNCHANGED <<server, cutShort>>
  BY DEF FInv, IInv, HoldOneMerges, history, Sound, Committing, Slots
<1>2. PICK again \in Looks :
        /\ Steady => ~ Differ(Read(again).subject, Subject(s))
        /\ store' = WithFamily(Read(again), work[s].kind, work[s].mint, Subject(s))
  BY <1>1 DEF HoldOneMerges, Looks, PremiseHolds, Steady
<1>3. /\ Named(store') \subseteq Named(Read(again)) \cup {work[s].mint}
      /\ store'.subject = IF Subject(s) # None THEN Subject(s)
                                               ELSE Read(again).subject
  BY <1>1, <1>2, ReadType DEF Named, WithFamily, Documents, TypeOK
<1>4. Named(Read(again)) \subseteq Named(store)
  BY NoneInAbsent DEF Read
<1>5. work[s].mint \in Mine(s) /\ work[s].mint \in live
  BY <1>1 DEF Mine, KeepsMint, Sound, Committing, Pledged
<1>6. Mine(s)' = {} /\ Pledged(s)' /\ Leaves(s)' /\ Marked(s)' = {}
  BY <1>1, AfterHoldOne DEF HoldOneMerges
<1>7. minted <= minted /\ minted' = minted /\ live' = live /\ failed' = failed
  BY <1>1, Numbers DEF server
<1>8. ASSUME Steady, NEW f \in Named(store), f \in Named(store'),
             store.subject # None
      PROVE  store'.subject = store.subject
  <2>1. f \in Named(Read(again))
    BY <1>1, <1>3, <1>5, <1>8 DEF Private
  <2>2. Read(again) = store
    BY <2>1, NoneInAbsent DEF Read
  <2> QED
    BY <1>2, <1>3, <1>8, <2>2 DEF Differ
<1>9. work[s].revoked = {}
  BY <1>1 DEF Leaves
<1> QED
  BY <1>1, <1>3, <1>4, <1>5, <1>6, <1>7, <1>8, <1>9 DEF Effect

\* The exchange mints a family that nobody knows.
LEMMA ExchangeEffect ==
  ASSUME FInv, NEW s \in Surfaces, Exchange(s)
  PROVE  Effect(s) /\ Pledged(s)' /\ Leaves(s)'
<1> DEFINE family == [id |-> minted + 1, subject |-> Subject(s)]
<1>1. /\ TypeOK /\ Sound(s) /\ Leaves(s) /\ at[s] = "exchange"
      /\ work[s] \in Work /\ work[s].revoked = {} /\ minted \in Nat
      /\ outcome[s] = "done"
  BY Numbers DEF FInv, IInv, Exchange, TypeOK, Leaves, Sound
<1>2. PICK subject \in ExchangeSubjects(s) :
        work' = [work EXCEPT ![s].derived = family, ![s].exchanged = subject]
  BY DEF Exchange
<1>3. /\ at' = [at EXCEPT ![s] = "hold2"] /\ minted' = minted + 1
      /\ live' = live \cup {family}
      /\ UNCHANGED <<store, failed, outcome, cutShort>>
  BY DEF Exchange, Goes, disk, history
<1>4. family \in Families /\ family.id = minted + 1
  BY <1>1, Bounds DEF Exchange, Families, Ids, TypeOK, Sound, Committing, Subject
<1> HIDE DEF family
<1>5. /\ work'[s].derived = family /\ work'[s].pending = work[s].pending
      /\ work'[s].revoked = {} /\ at'[s] = "hold2"
  BY <1>1, <1>2, <1>3 DEF TypeOK, Work
<1>6. Mine(s)' = {family} /\ Marked(s)' = Marked(s)
  BY <1>1, <1>3, <1>4, <1>5 DEF Mine, KeepsMint, Refuses, Marked
<1>7. Pledged(s)' /\ Leaves(s)'
  BY <1>3, <1>5 DEF Pledged, KeepsMint, Leaves, Leaving
<1>8. Named(store)' = Named(store)
  BY <1>3 DEF Named
<1>9. Effect(s)
  BY <1>1, <1>3, <1>4, <1>6, <1>8 DEF Effect
<1> QED
  BY <1>7, <1>9

\* The second hold adds the derived family and keeps the account.
LEMMA DeriveEffect ==
  ASSUME FInv, NEW s \in Surfaces, HoldTwoWrites(s)
  PROVE  Effect(s) /\ Pledged(s)' /\ Leaves(s)'
<1>1. /\ TypeOK /\ Sound(s) /\ Pledged(s) /\ Private(s) /\ at[s] = "hold2"
      /\ work[s].revoked = {} /\ UNCHANGED <<server, cutShort>>
      /\ store \in Documents
  BY DEF FInv, IInv, HoldTwoWrites, history, Leaves, TypeOK
<1>2. /\ store' = WithFamily(store, "plugin", work[s].derived,
                             IF store.subject = None THEN work[s].exchanged
                                                     ELSE None)
      /\ work'[s] = NoWork /\ at'[s] = "idle" /\ outcome'[s] = "done"
  BY <1>1 DEF HoldTwoWrites, Ends, Goes, TypeOK
<1>3. /\ Named(store') \subseteq Named(store) \cup {work[s].derived}
      /\ store.subject # None => store'.subject = store.subject
  BY <1>1, <1>2 DEF Named, WithFamily, Documents, Slots
<1>4. work[s].derived \in Mine(s) /\ work[s].derived \in live
  BY <1>1 DEF Mine, Sound, Pledged
<1>5. Mine(s)' = {} /\ Pledged(s)' /\ Leaves(s)' /\ Marked(s)' = {}
  BY <1>1, <1>2, SignHas, EmptyHanded DEF Marked
<1>6. minted <= minted /\ minted' = minted /\ live' = live /\ failed' = failed
  BY <1>1, Numbers DEF server
<1> QED
  BY <1>1, <1>3, <1>4, <1>5, <1>6 DEF Effect

\* A refused family is revoked, or remembered as one that could not be.
LEMMA OrphanEffect ==
  ASSUME FInv, NEW s \in Surfaces, RevokeOrphan(s) \/ RevokeOrphanFails(s)
  PROVE  Effect(s) /\ Pledged(s)' /\ Leaves(s)'
<1>1. /\ TypeOK /\ Sound(s) /\ Leaves(s) /\ at[s] = "refuse" /\ at'[s] = "idle"
      /\ work[s].revoked = {}
      /\ UNCHANGED <<store, minted, work, outcome, cutShort>>
  BY DEF FInv, IInv, RevokeOrphan, RevokeOrphanFails, disk, history, Goes,
         TypeOK, Leaves
<1>2. /\ Orphan(s) \in Families
      /\ outcome[s] \in {"switch-declined", "derivation-aborted"}
  BY <1>1 DEF Sound
<1>3. Orphan(s) \in Mine(s) /\ Orphan(s)' = Orphan(s)
  BY <1>1, <1>2 DEF Mine, Refuses, Orphan
<1>4. \/ live' = live \ {Orphan(s)} /\ failed' = failed
      \/ live' = live /\ failed' = failed \cup {Orphan(s)}
  BY DEF RevokeOrphan, RevokeOrphanFails
<1>5. Mine(s)' \subseteq Mine(s) /\ Marked(s)' = Marked(s)
  BY <1>1, <1>2 DEF Mine, KeepsMint, Refuses, Marked
<1>6. Pledged(s)'
  BY <1>1, <1>2, <1>3, <1>4 DEF Pledged, KeepsMint
<1>7. Leaves(s)'
  BY <1>1 DEF Leaves, Leaving
<1>8. minted <= minted /\ Named(store)' = Named(store)
  BY <1>1, Numbers DEF Named
<1> QED
  BY <1>1, <1>3, <1>4, <1>5, <1>6, <1>7, <1>8 DEF Effect

\* A sign-out marks what it read, and deletes the store.
LEMMA SignOutEffect ==
  ASSUME FInv, NEW s \in Surfaces, SignOut(s) \/ Delete(s)
  PROVE  Effect(s) /\ Pledged(s)' /\ Leaves(s)'
<1>1. /\ TypeOK /\ UNCHANGED <<server, cutShort>>
      /\ minted <= minted /\ minted' = minted /\ live' = live /\ failed' = failed
  BY Numbers DEF FInv, IInv, SignOut, Delete, history, server
<1>2. CASE SignOut(s)
  <2>1. PICK look \in Looks :
          LET families == Named(Read(look))
          IN  /\ work' = [work EXCEPT ![s] = [NoWork EXCEPT !.pending = families]]
              /\ Goes(s, IF families = {} THEN "delete" ELSE "revoke")
    BY <1>2 DEF SignOut
  <2>2. /\ work'[s] = [NoWork EXCEPT !.pending = Named(Read(look))]
        /\ at'[s] \in {"delete", "revoke"} /\ outcome'[s] = "done"
        /\ store' = store
    BY <1>1, <1>2, <2>1 DEF SignOut, Goes, TypeOK, disk
  <2>3. /\ work'[s].kind = "signOut" /\ work'[s].revoked = {}
        /\ work'[s].pending \subseteq Named(store)
    BY <2>2, NoneInAbsent DEF NoWork, Read
  <2>4. Mine(s)' = {} /\ Marked(s)' \subseteq Named(store)
    BY <2>2, <2>3 DEF Mine, KeepsMint, Refuses, Marked
  <2>5. Pledged(s)' /\ Leaves(s)'
    BY <2>2, <2>3 DEF Pledged, KeepsMint, Leaves, Leaving
  <2>6. work[s].revoked = {}
    BY <1>2 DEF FInv, Leaves, SignOut
  <2> QED
    BY <1>1, <2>2, <2>4, <2>5, <2>6, QuietEffect
<1>3. CASE Delete(s)
  <2>1. /\ store' = Absent /\ work'[s] = NoWork /\ at'[s] = "idle"
        /\ outcome'[s] = "done"
    BY <1>1, <1>3 DEF Delete, Ends, Goes, TypeOK
  <2>2. Mine(s)' = {} /\ Pledged(s)' /\ Leaves(s)' /\ Marked(s)' = {}
    BY <1>1, <2>1, SignHas, EmptyHanded DEF Marked
  <2>3. Named(store') = {}
    BY <2>1, NoneInAbsent
  <2> QED
    BY <1>1, <2>2, <2>3 DEF Effect
<1> QED
  BY <1>2, <1>3

-----------------------------------------------------------------------------
\* At the start nobody holds a family, and what the store names is live.
LEMMA FamiliesInit == Init => FInv
<1> SUFFICES ASSUME Init
             PROVE  FInv
  OBVIOUS
<1>1. IInv
  BY InvInit
<1>2. /\ live = Named(store) /\ minted = 1
      /\ \A s \in Surfaces : /\ at[s] = "idle" /\ outcome[s] = "done"
                             /\ work[s].pending = {} /\ work[s].revoked = {}
  BY DEF Init, NoWork
<1>3. \A f \in Named(store) : f.id <= minted
  <2>1. CASE store = Absent
    BY <2>1, NoneInAbsent
  <2>2. ASSUME NEW subject \in Subjects,
               store = [exists |-> TRUE, subject |-> subject,
                        families |-> [Absent.families EXCEPT !["legacy"] =
                                        [id |-> 1, subject |-> subject]]]
        PROVE  \A f \in Named(store) : f.id <= minted
    <3>1. \A f \in Named(store) : f = [id |-> 1, subject |-> subject]
      BY <2>2 DEF Named, Absent
    <3> QED
      BY <1>2, <3>1
  <2> QED
    BY <2>1, <2>2 DEF Init
<1>4. ASSUME NEW s \in Surfaces PROVE Private(s) /\ Pledged(s) /\ Leaves(s)
  BY <1>2 DEF Private, Pledged, Leaves, Leaving, Mine, KeepsMint, Refuses
<1>5. Known /\ KeptFamilyAlive
  BY <1>2, <1>3 DEF Known, Marked, KeptFamilyAlive
<1> QED
  BY <1>1, <1>4, <1>5 DEF FInv

\* Every step keeps the invariant of the families.
LEMMA FamiliesNext ==
  ASSUME FInv, [Next]_vars
  PROVE  FInv'
<1>0. IInv'
  BY InvNext DEF FInv
<1>1. ASSUME NEW s \in Surfaces, Step(s)
      PROVE  FInv'
  <2>1. ASSUME NEW kind \in {"agent", "plugin"}, NEW subject \in Subjects,
               Commit(s, kind, subject)
        PROVE  Effect(s) /\ Pledged(s)' /\ Leaves(s)'
    BY <1>0, <2>1, CommitEffect
  <2>2. Effect(s) /\ Pledged(s)' /\ Leaves(s)'
    BY <1>0, <1>1, <2>1, CommitAgainEffect, RefuseEffect, ConfirmEffect,
       RevokeEffect, AbortEffect, ReplaceEffect, MergeEffect, ExchangeEffect,
       EndEffect, DeriveEffect, OrphanEffect, SignOutEffect, ShortEffect
       DEF Step
  <2>3. \A t \in Surfaces : t # s =>
          at'[t] = at[t] /\ work'[t] = work[t] /\ outcome'[t] = outcome[t]
    BY <1>1, OthersStay DEF FInv, IInv
  <2> QED
    BY <1>0, <2>2, <2>3, EffectKeeps
<1>2. CASE StoreSpoils \/ StoreHeals \/ UNCHANGED vars
  <2>1. UNCHANGED <<store, minted, live, failed, at, work, outcome, cutShort>>
    BY <1>2 DEF StoreSpoils, StoreHeals, vars, server, disk, history
  <2>2. Known' /\ (Steady => KeptFamilyAlive')
    BY <2>1 DEF FInv, Known, KeptFamilyAlive, Named, Marked
  <2>3. ASSUME NEW s \in Surfaces PROVE Private(s)' /\ Pledged(s)' /\ Leaves(s)'
    BY <2>1 DEF FInv, Private, Pledged, Leaves, Leaving, Mine, KeepsMint,
                Refuses, Marked, Named, Orphan
  <2> QED
    BY <1>0, <2>2, <2>3 DEF FInv
<1> QED
  BY <1>1, <1>2 DEF Next

\* While an unchanged file reads the same twice, what the store names works:
\* a family that it names is not revoked, unless its revocation is part of a
\* switch or a sign-out that is still under way or was cut short.
THEOREM KeptFamiliesLive ==
  ASSUME TransientReads = FALSE
  PROVE  Spec => []KeptFamilyAlive
<1>1. FInv /\ [Next]_vars => FInv'
  BY FamiliesNext
<1>2. FInv => KeptFamilyAlive
  BY DEF FInv, Steady
<1> QED
  BY <1>1, <1>2, FamiliesInit, PTL DEF Spec

\* A refused sign-in leaves no family behind, torn reads or not: nobody has
\* stored what it minted, and it is revoked unless the revocation failed.
THEOREM RefusalsLeaveNothing == Spec => []RefusedMintRevoked
<1>1. FInv /\ [Next]_vars => FInv'
  BY FamiliesNext
<1>2. FInv => RefusedMintRevoked
  <2> SUFFICES ASSUME FInv, NEW s \in Surfaces, at[s] = "idle",
                      outcome[s] \in {"switch-declined", "derivation-aborted"}
               PROVE  /\ Orphan(s) \notin Named(store)
                      /\ Orphan(s) \in live => Orphan(s) \in failed
    BY DEF RefusedMintRevoked
  <2>1. Orphan(s) \in Families => Orphan(s) \in Mine(s)
    BY DEF Orphan, Mine, Refuses
  <2>2. Named(store) \subseteq Families
    BY NamedAreFamilies DEF FInv, IInv, TypeOK
  <2> QED
    BY <2>1, <2>2 DEF FInv, Private, Pledged
<1> QED
  BY <1>1, <1>2, FamiliesInit, PTL DEF Spec
-----------------------------------------------------------------------------
(* The account store.                                                      *)

\* A switch that is asked for, or was confirmed, is away from the account that
\* the guard found.
Away(s) ==
    work[s].premise # None /\ (at[s] = "dialog" \/ work[s].confirmed)
        => Subject(s) \notin {None, work[s].premise}

AwayInv == \A s \in Surfaces : Away(s)

\* What the guard leaves is a question where the accounts differ.
LEMMA EvaluateAway ==
  ASSUME TypeOK, NEW s \in Surfaces, NEW sign \in Work, sign.confirmed = FALSE,
         Evaluate(s, sign, sign.mint.subject)
  PROVE  Away(s)'
<1>1. PICK look \in Looks, fallback \in Fallbacks(sign.kind) :
        LET stored == Read(look)
            differs == Differ(Compared(stored, fallback), sign.mint.subject)
        IN  /\ Goes(s, IF differs THEN "dialog" ELSE "hold1")
            /\ work' = [work EXCEPT ![s] =
                    [sign EXCEPT !.premise = stored.subject,
                                 !.pending = IF differs THEN Named(stored) ELSE {}]]
  BY DEF Evaluate
<1>2. /\ work'[s].premise = Read(look).subject /\ work'[s].confirmed = FALSE
      /\ work'[s].mint = sign.mint
      /\ at'[s] = "dialog" => Differ(Compared(Read(look), fallback), sign.mint.subject)
  BY <1>1 DEF Goes, TypeOK, Work
<1> QED
  BY <1>2 DEF Away, Subject, Differ, Compared

\* A step of s keeps s away.
LEMMA OwnAway ==
  ASSUME IInv, NEW s \in Surfaces, Step(s), Away(s)
  PROVE  Away(s)'
<1>0. /\ TypeOK /\ work[s] \in Work /\ NoWork \in Work
      /\ Sign(s) \in Work /\ Sign(s).confirmed = FALSE /\ Sign(s).mint = work[s].mint
      /\ NoWork.confirmed = FALSE
  BY EmptyTypes, SignType DEF IInv, TypeOK, NoWork
<1> USE DEF TypeOK, Goes, Ends
<1>1. ASSUME NEW kind \in {"agent", "plugin"}, NEW subject \in Subjects,
             Commit(s, kind, subject)
      PROVE  Away(s)'
  <2> DEFINE family == [id |-> minted + 1, subject |-> subject]
             sign == [NoWork EXCEPT !.kind = kind, !.mint = family]
  <2>1. family \in FamilyOrNone
    BY <1>0, <1>1, Bounds DEF Commit, Families, FamilyOrNone, Ids
  <2>2. sign \in Work /\ sign.confirmed = FALSE /\ sign.mint.subject = subject
    BY <1>0, <2>1 DEF Work, Kinds, NoWork
  <2>3. Evaluate(s, sign, sign.mint.subject)
    BY <1>1, <2>2 DEF Commit
  <2> QED
    BY <1>0, <2>2, <2>3, EvaluateAway
<1>2. CASE CommitAgain(s)
  BY <1>0, <1>2, EvaluateAway DEF CommitAgain, Subject
<1>3. CASE Confirm(s)
  <2>1. /\ at[s] = "dialog" /\ work'[s].premise = work[s].premise
        /\ work'[s].mint = work[s].mint
    BY <1>0, <1>3 DEF Confirm, Work
  <2> QED
    BY <2>1 DEF Away, Subject
<1>4. CASE RevokeStored(s) \/ RevokeStoredFails(s) \/ Exchange(s) \/ DeriveAgain(s)
             \/ HoldTwoAborts(s) \/ RevokeOrphan(s) \/ RevokeOrphanFails(s)
  <2>1. at'[s] # "dialog"
    BY <1>0, <1>4 DEF RevokeStored, RevokeStoredFails, AfterRevoking, Exchange, DeriveAgain,
       HoldTwoAborts, RevokeOrphan, RevokeOrphanFails
  <2>2. /\ work'[s].premise = work[s].premise /\ work'[s].mint = work[s].mint
        /\ work'[s].confirmed = work[s].confirmed
    <3>1. CASE RevokeStored(s)
      BY <1>0, <3>1 DEF RevokeStored, Work
    <3>2. CASE RevokeStoredFails(s)
      BY <1>0, <3>2 DEF RevokeStoredFails, Work
    <3>3. CASE Exchange(s)
      BY <1>0, <3>3 DEF Exchange, Work
    <3>4. CASE DeriveAgain(s) \/ HoldTwoAborts(s) \/ RevokeOrphan(s) \/ RevokeOrphanFails(s)
      BY <3>4 DEF DeriveAgain, HoldTwoAborts, RevokeOrphan, RevokeOrphanFails
    <3> QED
      BY <1>4, <3>1, <3>2, <3>3, <3>4
  <2> QED
    BY <2>1, <2>2 DEF Away, Subject
<1>5. CASE Decline(s) \/ HoldOneAborts(s) \/ ExchangeFails(s) \/ HoldOneReplaces(s)
             \/ HoldOneMerges(s) \/ HoldTwoWrites(s) \/ SignOut(s) \/ Delete(s)
             \/ Throws(s) \/ Crash(s)
  <2>1. work'[s].confirmed = FALSE /\ at'[s] # "dialog"
    BY <1>0, <1>5 DEF Decline, HoldOneAborts, ExchangeFails, HoldOneReplaces, HoldOneMerges,
       Committed, ToolsOnlyCommitted, HoldTwoWrites, SignOut, Delete, Throws, Crash, Work
  <2> QED
    BY <2>1 DEF Away
<1> QED
  BY <1>1, <1>2, <1>3, <1>4, <1>5 DEF Step

\* Every step keeps the surfaces away.
LEMMA AwayNext ==
  ASSUME IInv, AwayInv, [Next]_vars PROVE AwayInv'
<1>1. ASSUME NEW s \in Surfaces, Step(s), NEW t \in Surfaces PROVE Away(t)'
  <2>1. CASE t = s
    BY <1>1, <2>1, OwnAway DEF AwayInv
  <2>2. CASE t # s
    BY <1>1, <2>2, OthersStay DEF IInv, AwayInv, Away, Subject
  <2> QED
    BY <2>1, <2>2
<1>2. CASE StoreSpoils \/ StoreHeals \/ UNCHANGED vars
  BY <1>2 DEF StoreSpoils, StoreHeals, vars, AwayInv, Away, Subject
<1> QED
  BY <1>1, <1>2 DEF Next, AwayInv
-----------------------------------------------------------------------------
\* What the users agreed to.
ConsentNow == [s \in Surfaces |-> Consent(s)]

\* At first the account store holds nothing, or an earlier credential.
LEMMA StoreBegins == Init => Machine!Init /\ AwayInv
<1> SUFFICES ASSUME Init PROVE Machine!Init /\ AwayInv
  OBVIOUS
<1>1. \A s \in Surfaces : /\ work[s].confirmed = FALSE
                          /\ work[s].premise = None
  BY DEF Init, NoWork
<1>2. ConsentNow = [s \in Surfaces |-> None]
  BY <1>1 DEF ConsentNow, Consent
<1>3. Absent = Machine!Nothing
  BY DEF Absent, Machine!Nothing
<1>4. ASSUME NEW subject \in Subjects,
             store = [exists |-> TRUE, subject |-> subject,
                      families |-> [Absent.families EXCEPT !["legacy"] =
                                        [id |-> 1, subject |-> subject]]]
      PROVE  \E f \in Families : store = Machine!With(Machine!Nothing, "legacy", f, f.subject)
  <2> DEFINE f == [id |-> 1, subject |-> subject]
  <2>1. f \in Families
    BY Bounds DEF Families
  <2> QED
    BY <1>3, <1>4, <2>1 DEF Machine!With
<1>5. store = Machine!Nothing
        \/ \E f \in Families : store = Machine!With(Machine!Nothing, "legacy", f, f.subject)
  BY <1>3, <1>4 DEF Init
<1>6. Machine!Init
  BY <1>2, <1>5 DEF Init, Machine!Init, ConsentNow
<1> QED
  BY <1>1, <1>6 DEF AwayInv, Away

\* A step of one surface is a step of its consent alone.
LEMMA OneConsent ==
  ASSUME IInv, IInv', NEW s \in Surfaces, Step(s)
  PROVE  /\ ConsentNow' = [ConsentNow EXCEPT ![s] = Consent(s)']
         /\ Consent(s)' \in Machine!Subjects
<1>1. \A t \in Surfaces \ {s} : Consent(t)' = Consent(t)
  BY OthersStay DEF IInv, Consent
<1>2. work'[s].premise \in Subjects
  BY DEF IInv, TypeOK, Work
<1> QED
  BY <1>1, <1>2 DEF ConsentNow, Consent, Machine!Subjects, Subjects

\* What the two specifications write is the same document.
LEMMA SameDocument ==
  ASSUME NEW d \in Documents, NEW slot \in Slots, NEW f \in Families, NEW a \in Subjects
  PROVE  /\ WithFamily(d, slot, f, a)
              = Machine!With(d, slot, f, IF a = None THEN d.subject ELSE a)
         /\ WithFamily(d, slot, f, a).families[slot] = f
         /\ Machine!Nothing = Absent
  BY DEF WithFamily, Machine!With, Machine!Nothing, Absent, Documents

\* The first hold of a login that leaves nobody's account is a sign-in.
LEMMA MergeIsASignIn ==
  ASSUME Steady, IInv, IInv', NEW s \in Surfaces, HoldOneMerges(s)
  PROVE  Machine!Next
<1> DEFINE f == work[s].mint
           slot == work[s].kind
           base == IF readable THEN store ELSE Machine!Nothing
<1>1. /\ at[s] = "hold1" /\ ~ work[s].confirmed
      /\ f \in Families /\ slot \in Slots /\ f.subject \in Subjects
      /\ store \in Documents /\ readable \in BOOLEAN
  BY DEF HoldOneMerges, IInv, Sound, Committing, TypeOK, Slots, Families
<1>2. Read(readable) = base /\ base \in Documents
  BY <1>1, EmptyTypes DEF Read, Machine!Nothing, Absent
<1>3. /\ ~ Differ(base.subject, f.subject)
      /\ store' = WithFamily(base, slot, f, f.subject)
      /\ readable' = TRUE
  BY <1>1, <1>2 DEF HoldOneMerges, Steady, Looks, PremiseHolds, Subject
<1>4. Consent(s) = None /\ Consent(s)' = None
  <2>1. work'[s].confirmed = FALSE
    <3>1. Sign(s).confirmed = FALSE /\ NoWork.confirmed = FALSE
      BY SignType DEF IInv, NoWork
    <3> QED
      BY <3>1 DEF HoldOneMerges, Committed, ToolsOnlyCommitted, IInv, TypeOK
  <2> QED
    BY <1>1, <2>1 DEF Consent
<1>5. UNCHANGED ConsentNow
  BY <1>4, OneConsent DEF Step, ConsentNow
<1>6. Machine!Agree(base.subject, f.subject)
  BY <1>3 DEF Machine!Agree, Differ
<1>7. /\ store' = Machine!With(base, slot, f,
                               IF f.subject = None THEN base.subject ELSE f.subject)
      /\ store'.families[slot] = f
  BY <1>1, <1>2, <1>3, SameDocument
<1>8. Machine!SignsIn(s, slot, f)
  BY <1>3, <1>4, <1>5, <1>6, <1>7 DEF Machine!SignsIn, ConsentNow
<1> QED
  BY <1>1, <1>8 DEF Machine!Next

\* That of a confirmed switch leaves the account that its user agreed to leave.
LEMMA ReplaceIsASwitch ==
  ASSUME Steady, IInv, IInv', AwayInv, NEW s \in Surfaces, HoldOneReplaces(s)
  PROVE  Machine!Next
<1> DEFINE f == work[s].mint
           slot == work[s].kind
<1>1. /\ at[s] = "hold1" /\ work[s].confirmed /\ work[s].premise # None
      /\ f \in Families /\ slot \in Slots /\ f.subject \in Subjects
      /\ f.subject \notin {None, work[s].premise}
  BY DEF HoldOneReplaces, IInv, Sound, Committing, Slots, Families, AwayInv, Away, Subject
<1>2. /\ Read(readable).subject = work[s].premise
      /\ store' = WithFamily(Absent, slot, f, f.subject)
      /\ readable' = TRUE
  BY <1>1 DEF HoldOneReplaces, Steady, Looks, PremiseHolds, Replacement, Subject, IInv, TypeOK
<1>3. readable /\ store.subject = work[s].premise
  BY <1>1, <1>2, NoneInAbsent DEF Read
<1>4. Consent(s) = work[s].premise /\ Consent(s)' = None
  <2>1. work'[s].confirmed = FALSE
    <3>1. Sign(s).confirmed = FALSE /\ NoWork.confirmed = FALSE
      BY SignType DEF IInv, NoWork
    <3> QED
      BY <3>1 DEF HoldOneReplaces, Committed, ToolsOnlyCommitted, IInv, TypeOK
  <2> QED
    BY <1>1, <2>1 DEF Consent
<1>5. ConsentNow' = [ConsentNow EXCEPT ![s] = None]
  BY <1>4, OneConsent DEF Step
<1>6. /\ store' = Machine!With(Machine!Nothing, slot, f, f.subject)
      /\ store'.families[slot] = f
  BY <1>1, <1>2, SameDocument, EmptyTypes
<1>7. Machine!Switches(s, slot, f)
  BY <1>1, <1>2, <1>3, <1>4, <1>5, <1>6 DEF Machine!Switches, Machine!EndsConsent, ConsentNow
<1> QED
  BY <1>1, <1>7 DEF Machine!Next

\* The second hold is a derivation into the document of its own account.
LEMMA WriteIsADerivation ==
  ASSUME Steady, IInv, IInv', NEW s \in Surfaces, HoldTwoWrites(s)
  PROVE  Machine!Next
<1> DEFINE f == work[s].derived
           a == work[s].exchanged
<1>1. /\ f \in Families /\ f.subject = Subject(s) /\ a \in Subjects
      /\ Subject(s) # None => a = Subject(s)
      /\ store \in Documents /\ "plugin" \in Slots
  BY DEF HoldTwoWrites, IInv, Sound, TypeOK, Work, Slots
<1>2. /\ readable /\ store.exists /\ ~ Differ(store.subject, Subject(s))
      /\ store' = WithFamily(store, "plugin", f, IF store.subject = None THEN a ELSE None)
      /\ readable' = TRUE
  BY DEF HoldTwoWrites, Steady, Looks, Refused
<1>3. Consent(s)' = None
  BY DEF HoldTwoWrites, IInv, TypeOK, NoWork, Consent
<1>4. ConsentNow' = [ConsentNow EXCEPT ![s] = None]
  BY <1>3, OneConsent DEF Step
<1>5. /\ store' = Machine!With(store, "plugin", f,
                               IF store.subject = None THEN a ELSE store.subject)
      /\ store'.families["plugin"] = f
  <2>1. CASE store.subject = None
    BY <1>1, <1>2, <2>1, SameDocument
  <2>2. CASE store.subject # None
    BY <1>1, <1>2, <2>2, SameDocument, NoneIsSubject
  <2> QED
    BY <2>1, <2>2
<1>6. Machine!Agree(store.subject, f.subject) /\ f.subject \in {None, a}
  BY <1>1, <1>2 DEF Machine!Agree, Differ
<1>7. Machine!Derives(s, f, a)
  BY <1>2, <1>4, <1>5, <1>6 DEF Machine!Derives, Machine!EndsConsent, ConsentNow
<1> QED
  BY <1>1, <1>7 DEF Machine!Next, Machine!Subjects, Subjects

\* The deletion.
LEMMA DeleteIsASignOut ==
  ASSUME IInv, IInv', NEW s \in Surfaces, Delete(s)
  PROVE  Machine!Next
<1>1. store' = Machine!Nothing /\ readable' = TRUE /\ Consent(s)' = None
  BY DEF Delete, Machine!Nothing, Absent, IInv, TypeOK, NoWork, Consent
<1>2. ConsentNow' = [ConsentNow EXCEPT ![s] = None]
  BY <1>1, OneConsent DEF Step
<1> QED
  BY <1>1, <1>2 DEF Machine!Next, Machine!SignsOut, Machine!EndsConsent, ConsentNow

\* Every step of the login commit is a step of the account store, or none of it.
LEMMA StepOfTheStore ==
  ASSUME Steady, IInv, IInv', AwayInv, [Next]_vars
  PROVE  [Machine!Next]_(Machine!storeVars)
<1>1. ASSUME NEW s \in Surfaces, Step(s)
      PROVE  Machine!Next
  <2>1. CASE HoldOneMerges(s)
    BY <2>1, MergeIsASignIn
  <2>2. CASE HoldOneReplaces(s)
    BY <2>2, ReplaceIsASwitch
  <2>3. CASE HoldTwoWrites(s)
    BY <2>3, WriteIsADerivation
  <2>4. CASE Delete(s)
    BY <2>4, DeleteIsASignOut
  <2>5. CASE UNCHANGED disk
    <3>1. Machine!Consents(s, Consent(s)')
      BY <1>1, <2>5, OneConsent DEF Machine!Consents, disk, ConsentNow
    <3> QED
      BY <1>1, <3>1, OneConsent DEF Machine!Next
  <2> QED
    BY <1>1, <2>1, <2>2, <2>3, <2>4, <2>5
    DEF Step, Commit, CommitAgain, Decline, Confirm, RevokeStored, RevokeStoredFails,
        HoldOneAborts, Exchange, ExchangeFails, DeriveAgain, HoldTwoAborts, RevokeOrphan,
        RevokeOrphanFails, SignOut, Throws, Crash
<1>2. CASE StoreSpoils
  <2>1. UNCHANGED ConsentNow
    BY <1>2 DEF StoreSpoils, ConsentNow, Consent
  <2> QED
    BY <1>2, <2>1 DEF StoreSpoils, Machine!Next, Machine!Spoils, ConsentNow
<1>3. CASE StoreHeals
  <2>1. UNCHANGED ConsentNow
    BY <1>3 DEF StoreHeals, ConsentNow, Consent
  <2> QED
    BY <1>3, <2>1 DEF StoreHeals, Machine!Next, Machine!Heals, ConsentNow
<1>4. CASE UNCHANGED vars
  BY <1>4 DEF vars, disk, Machine!storeVars, Consent
<1> QED
  BY <1>1, <1>2, <1>3, <1>4 DEF Next

\* While an unchanged file reads the same twice, the login commit implements an
\* account store, for any surfaces that sign in, switch, derive, sign out and crash
\* at any point: whatever was read, asked and revoked before, a family enters the
\* document that is there when it is written only as one that may be in it, and an
\* account gives way only to the consent of a user to leave that account
\* (runAccountSwitchGuard, commitFamilyUnderHold and derivePluginFamily).
THEOREM StoreImplemented ==
  ASSUME TransientReads = FALSE
  PROVE  Spec => ImplementsAccountStore
<1>1. IInv /\ AwayInv /\ [Next]_vars => AwayInv'
  BY AwayNext
<1>2. Spec => []AwayInv
  BY <1>1, StoreBegins, Invariance, PTL DEF Spec
<1>3. IInv /\ IInv' /\ AwayInv /\ [Next]_vars => [Machine!Next]_(Machine!storeVars)
  BY StepOfTheStore DEF Steady
<1> QED
  BY <1>2, <1>3, StoreBegins, Invariance, PTL
  DEF Spec, ImplementsAccountStore, Machine!Spec
=============================================================================
