------------------------ MODULE CredentialLockProofs ------------------------
(***************************************************************************)
(* Type correctness and exclusion of the credential lock, for any number   *)
(* of actors, on any hosts, with any of the modelled faults and any bars;  *)
(* then that foreign locks keep their own bar, and that "busy" means       *)
(* contention when the budget outlives the bar.                            *)
(***************************************************************************)
EXTENDS LockBudget, TLAPS

\* The facts about the constants that the proofs use.
LEMMA Bars ==
    /\ LockStale \in Nat /\ ForeignStale \in Nat /\ AcquireBudget \in Nat
    /\ HoldBound \in Nat /\ MaxAge \in Nat
    /\ 0 < LockStale /\ LockStale <= ForeignStale /\ ForeignStale <= MaxAge
  BY TimesAssumption

\* A file is aged into a file.
LEMMA AgedFileType ==
  ASSUME NEW f \in Files
  PROVE  AgedFile(f) \in Files
  BY Bars DEF AgedFile, Files, Older, Ages, Exists

\* The files that the actions write are files.
LEMMA NewFileTypes ==
  /\ NoFile \in Files
  /\ \A a \in Actors : EmptyFile(a) \in Files /\ Document(a) \in Files
  /\ \A f \in Files : [f EXCEPT !.age = 0] \in Files
  BY Bars DEF NoFile, EmptyFile, Document, Files, Ages

-----------------------------------------------------------------------------
\* Every variable keeps its type: in particular ages stay within MaxAge, an
\* actor never runs longer than HoldBound, and createAttempt is 0, 1 or 2.
THEOREM TypeCorrect == Spec => []TypeOK
<1>1. Init => TypeOK
  <2> SUFFICES ASSUME Init
               PROVE  TypeOK
    OBVIOUS
  <2>1. lock \in Files /\ intent \in Files
    BY NewFileTypes DEF Init
  <2>2. seen \in [Actors -> Files] /\ iseen \in [Actors -> Files]
    BY NewFileTypes DEF Init
  <2>3. pc \in [Actors -> AllPcs]
    BY DEF Init, AllPcs, AtRest
  <2>4. removed \in [Actors -> BOOLEAN] /\ calm \in BOOLEAN
    BY Zenon DEF Init
  <2>5. /\ since \in [Actors -> 0 .. HoldBound]
        /\ waited \in [Actors -> 0 .. AcquireBudget]
        /\ tries \in [Actors -> 0 .. 2]
    BY Bars DEF Init
  <2> QED
    BY <2>1, <2>2, <2>3, <2>4, <2>5 DEF TypeOK
<1>2. TypeOK /\ [Next]_vars => TypeOK'
  <2> SUFFICES ASSUME TypeOK, [Next]_vars
               PROVE  TypeOK'
    OBVIOUS
  <2> USE NewFileTypes, Bars
  <2> USE DEF TypeOK, AllPcs, AtRest, IntentPcs, OwnerPcs, TakeoverPcs
  <2>1. CASE Tick
    BY <2>1, AgedFileType DEF Tick, Older, Running, claim
  <2>2. CASE CalmDown
    BY <2>2 DEF CalmDown, claim
  <2>3. CASE UNCHANGED vars
    BY <2>3 DEF vars
  <2>4. ASSUME NEW a \in Actors, BeginAcquire(a) \/ Surface(a) \/ Restart(a)
        PROVE  TypeOK'
    BY <2>4 DEF BeginAcquire, Surface, Restart, Goto, Look, Rests, claim
  <2>9. ASSUME NEW a \in Actors, Crash(a)
        PROVE  TypeOK'
    BY <2>9 DEF Crash, Goto, Rests
  <2>5. ASSUME NEW a \in Actors, Acquire(a)
        PROVE  TypeOK'
    BY <2>5 DEF Acquire, OpenLock, OpenLockRefused, OpenLockFails, WriteLock,
                WriteLockFails, VerifyLock, VerifyLockFails, DeadlinePassed,
                Sleep, Awake, Goto, Look, Rests, Stamps, claim
  <2>6. ASSUME NEW a \in Actors, TakeIntent(a)
        PROVE  TypeOK'
    BY <2>6 DEF TakeIntent, JudgeLock, JudgeLockFails, OpenIntent,
                OpenIntentExists, OpenIntentFails, JudgeIntent,
                JudgeIntentLive, IntentVanished, RecheckIntent,
                RecheckIntentChanged, UnlinkStaleIntent,
                UnlinkStaleIntentFails, WriteIntent, WriteIntentFails,
                VerifyIntent, VerifyIntentFails, GiveUp, NextTry,
                Goto, Look, Rests, Runs, Stamps, claim
  <2>7. ASSUME NEW a \in Actors, RemoveStale(a)
        PROVE  TypeOK'
    BY <2>7 DEF RemoveStale, Revalidate, RevalidateFails, CheckIntent,
                CheckIntentFails, UnlinkLock, UnlinkLockFails, ReadIntent,
                ReadIntentNotOurs, UnlinkIntent, Return, Goto, Look, Runs,
                claim
  <2>8. ASSUME NEW a \in Actors, LeaveSection(a) \/ Beat(a)
        PROVE  TypeOK'
    BY <2>8 DEF LeaveSection, Release, ReleaseNotOurs, UnlinkOwn, Beat,
                ReadHeartbeat, TouchLock, Goto, Look, Rests,
                Stamps, claim
  <2> QED
    BY <2>1, <2>2, <2>3, <2>4, <2>5, <2>6, <2>7, <2>8, <2>9 DEF Next
<1> QED
  BY <1>1, <1>2, PTL DEF Spec

-----------------------------------------------------------------------------
(* Exclusion. HolderOwnsLock is not inductive: that nobody removes the     *)
(* lock of a holder rests on the ages (an owner's lock is as old as its    *)
(* own clock says, hence not stale), on the intent (whoever is past it     *)
(* owns it, so no second actor is) and on what the remover validated (its  *)
(* target is stale, hence not an owner's).                                 *)

\* Running actors stamp or let go within the stale bar, and no fault strikes
\* a claimant that holds the intent.
Timely == HoldBound < LockStale /\ ~IntentFaults

\* An actor that created the lock still has it in place, as old as its clock.
OwnersHaveTheLock ==
    \A a \in Actors :
        /\ pc[a] = "writeLock" => lock.by = a /\ lock.age = since[a]
        /\ pc[a] \in OwnerPcs => Carries(lock, a) /\ lock.age = since[a]

\* An actor that created the intent still has it in place.
ClaimantsHaveTheIntent ==
    \A a \in Actors :
        /\ pc[a] \in IntentPcs => intent.by = a /\ intent.age = since[a]
        /\ pc[a] \in IntentPcs \ {"writeIntent"} => intent.full

\* The intent in place belongs to a claimant at work, so none is recovered.
IntentIsLive ==
    /\ Exists(intent) => pc[intent.by] \in IntentPcs
    /\ \A a \in Actors : pc[a] \notin {"recheckIntent", "unlinkStaleIntent"}

\* What a claimant judged is beyond the bar, and stays so.
JudgedIsStale ==
    \A a \in Actors :
        pc[a] \in {"openIntent", "judgeIntent", "writeIntent", "verifyIntent",
                   "revalidate"}
        => Exists(seen[a]) /\ seen[a].age >= LockStale

\* What a claimant is about to remove is what it judged.
TargetIsStale ==
    \A a \in Actors :
        pc[a] \in {"checkIntent", "unlinkLock"}
        => /\ Exists(lock) /\ Exists(seen[a])
           /\ SameArtifact(lock, seen[a])
           /\ lock.age >= LockStale

IInv ==
    /\ TypeOK
    /\ OwnersHaveTheLock /\ ClaimantsHaveTheIntent /\ IntentIsLive
    /\ JudgedIsStale /\ TargetIsStale

LEMMA IInvInit == Init /\ TypeOK => IInv
  BY DEF Init, IInv, OwnersHaveTheLock, ClaimantsHaveTheIntent, IntentIsLive,
         JudgedIsStale, TargetIsStale, OwnerPcs, IntentPcs, Exists, NoFile

\* A file is not judged stale before the shorter bar.
LEMMA StaleIsBeyondTheBar ==
  ASSUME NEW f \in Files, NEW a \in Actors, IsStale(f, a)
  PROVE  f.age >= LockStale
<1>1. f.age \in Nat
  BY Bars DEF Files, Ages
<1>2. Threshold(f, a) \in {LockStale, ForeignStale}
  BY DEF Threshold
<1> QED
  BY <1>1, <1>2, Bars DEF IsStale

LEMMA AcquireKeepsIInv ==
  ASSUME Timely, IInv, TypeOK', NEW a \in Actors, Acquire(a)
  PROVE  IInv'
  <1> USE ActorsAssumption, Bars
  <1> USE DEF IInv, TypeOK, Files, Timely, IntentPcs, OwnerPcs, Exists,
              Carries, Goto
  <1>1. CASE OpenLock(a)
    <2> USE <1>1 DEF OpenLock, EmptyFile, Stamps, claim
    <2>1. OwnersHaveTheLock'
      BY DEF OwnersHaveTheLock
    <2>2. ClaimantsHaveTheIntent'
      BY DEF ClaimantsHaveTheIntent
    <2>3. IntentIsLive'
      BY DEF IntentIsLive
    <2>4. JudgedIsStale'
      BY DEF JudgedIsStale
    <2>5. TargetIsStale'
      BY DEF TargetIsStale
    <2> QED
      BY <2>1, <2>2, <2>3, <2>4, <2>5
  <1>2. CASE WriteLock(a)
    <2> USE <1>2 DEF WriteLock, Document, Stamps, claim
    <2>1. OwnersHaveTheLock'
      BY DEF OwnersHaveTheLock
    <2>2. ClaimantsHaveTheIntent'
      BY DEF ClaimantsHaveTheIntent
    <2>3. IntentIsLive'
      BY DEF IntentIsLive
    <2>4. JudgedIsStale'
      BY DEF JudgedIsStale
    <2>5. TargetIsStale'
      BY DEF TargetIsStale, OwnersHaveTheLock
    <2> QED
      BY <2>1, <2>2, <2>3, <2>4, <2>5
  <1>3. CASE WriteLockFails(a)
    <2> USE <1>3 DEF WriteLockFails, Rests, NoFile, claim
    <2>1. OwnersHaveTheLock'
      BY DEF OwnersHaveTheLock
    <2>2. ClaimantsHaveTheIntent'
      BY DEF ClaimantsHaveTheIntent
    <2>3. IntentIsLive'
      BY DEF IntentIsLive
    <2>4. JudgedIsStale'
      BY DEF JudgedIsStale
    <2>5. TargetIsStale'
      BY DEF TargetIsStale, OwnersHaveTheLock
    <2> QED
      BY <2>1, <2>2, <2>3, <2>4, <2>5
  <1>4. CASE OpenLockRefused(a) \/ OpenLockFails(a) \/ Awake(a)
    <2> USE <1>4 DEF OpenLockRefused, OpenLockFails, Awake, Look, Rests, claim
    <2>1. OwnersHaveTheLock'
      BY DEF OwnersHaveTheLock
    <2>2. ClaimantsHaveTheIntent'
      BY DEF ClaimantsHaveTheIntent
    <2>3. IntentIsLive'
      BY DEF IntentIsLive
    <2>4. JudgedIsStale'
      BY DEF JudgedIsStale
    <2>5. TargetIsStale'
      BY DEF TargetIsStale
    <2> QED
      BY <2>1, <2>2, <2>3, <2>4, <2>5
  <1>5. CASE VerifyLock(a) \/ VerifyLockFails(a)
    <2> USE <1>5 DEF VerifyLock, VerifyLockFails, Look, claim
    <2>1. OwnersHaveTheLock'
      BY DEF OwnersHaveTheLock
    <2>2. ClaimantsHaveTheIntent'
      BY DEF ClaimantsHaveTheIntent
    <2>3. IntentIsLive'
      BY DEF IntentIsLive
    <2>4. JudgedIsStale'
      BY DEF JudgedIsStale
    <2>5. TargetIsStale'
      BY DEF TargetIsStale
    <2> QED
      BY <2>1, <2>2, <2>3, <2>4, <2>5
  <1>6. CASE DeadlinePassed(a) \/ Sleep(a)
    <2> USE <1>6 DEF DeadlinePassed, Sleep, claim
    <2>1. OwnersHaveTheLock'
      BY DEF OwnersHaveTheLock
    <2>2. ClaimantsHaveTheIntent'
      BY DEF ClaimantsHaveTheIntent
    <2>3. IntentIsLive'
      BY DEF IntentIsLive
    <2>4. JudgedIsStale'
      BY DEF JudgedIsStale
    <2>5. TargetIsStale'
      BY DEF TargetIsStale
    <2> QED
      BY <2>1, <2>2, <2>3, <2>4, <2>5
  <1> QED
    BY <1>1, <1>2, <1>3, <1>4, <1>5, <1>6 DEF Acquire

LEMMA TakeIntentKeepsIInv ==
  ASSUME Timely, IInv, TypeOK', NEW a \in Actors, TakeIntent(a)
  PROVE  IInv'
  <1> USE ActorsAssumption, Bars
  <1> USE DEF IInv, TypeOK, Files, Timely, IntentPcs, OwnerPcs, Exists,
              Carries, Goto
  <1>1. CASE JudgeLock(a)
    <2> USE <1>1 DEF JudgeLock, Runs
    <2>1. OwnersHaveTheLock'
      BY DEF OwnersHaveTheLock
    <2>2. ClaimantsHaveTheIntent'
      BY DEF ClaimantsHaveTheIntent
    <2>3. IntentIsLive'
      BY DEF IntentIsLive
    <2>4. JudgedIsStale'
      <3>1. lock \in Files /\ lock.by # Nobody /\ lock.age >= LockStale
        BY StaleIsBeyondTheBar
      <3>2. \A b \in Actors : b # a => seen'[b] = seen[b] /\ pc'[b] = pc[b]
        OBVIOUS
      <3>3. seen'[a] = lock
        OBVIOUS
      <3> QED
        BY <3>1, <3>2, <3>3 DEF JudgedIsStale
    <2>5. TargetIsStale'
      BY DEF TargetIsStale
    <2> QED
      BY <2>1, <2>2, <2>3, <2>4, <2>5
  <1>2. CASE JudgeLockFails(a) \/ OpenIntentExists(a)
    <2> USE <1>2 DEF JudgeLockFails, OpenIntentExists, Look, claim
    <2>1. OwnersHaveTheLock'
      BY DEF OwnersHaveTheLock
    <2>2. ClaimantsHaveTheIntent'
      BY DEF ClaimantsHaveTheIntent
    <2>3. IntentIsLive'
      BY DEF IntentIsLive
    <2>4. JudgedIsStale'
      BY DEF JudgedIsStale
    <2>5. TargetIsStale'
      BY DEF TargetIsStale
    <2> QED
      BY <2>1, <2>2, <2>3, <2>4, <2>5
  <1>3. CASE OpenIntent(a)
    <2> USE <1>3 DEF OpenIntent, EmptyFile, Stamps
    <2>1. OwnersHaveTheLock'
      BY DEF OwnersHaveTheLock
    <2>2. ClaimantsHaveTheIntent'
      BY DEF ClaimantsHaveTheIntent
    <2>3. IntentIsLive'
      BY DEF IntentIsLive
    <2>4. JudgedIsStale'
      BY DEF JudgedIsStale
    <2>5. TargetIsStale'
      BY DEF TargetIsStale
    <2> QED
      BY <2>1, <2>2, <2>3, <2>4, <2>5
  <1>4. CASE OpenIntentFails(a) \/ JudgeIntentLive(a)
    <2> USE <1>4 DEF OpenIntentFails, JudgeIntentLive, GiveUp, Runs
    <2>1. OwnersHaveTheLock'
      BY DEF OwnersHaveTheLock
    <2>2. ClaimantsHaveTheIntent'
      BY DEF ClaimantsHaveTheIntent
    <2>3. IntentIsLive'
      BY DEF IntentIsLive
    <2>4. JudgedIsStale'
      BY DEF JudgedIsStale
    <2>5. TargetIsStale'
      BY DEF TargetIsStale
    <2> QED
      BY <2>1, <2>2, <2>3, <2>4, <2>5
  \* The intent in place is a live claimant's, hence younger than the bar.
  <1>5. ~JudgeIntent(a)
    BY DEF JudgeIntent, IsStale, Threshold, IntentIsLive,
           ClaimantsHaveTheIntent
  <1>6. CASE IntentVanished(a)
    <2> USE <1>6 DEF IntentVanished, NextTry, GiveUp, Runs
    <2>1. OwnersHaveTheLock'
      BY DEF OwnersHaveTheLock
    <2>2. ClaimantsHaveTheIntent'
      BY DEF ClaimantsHaveTheIntent
    <2>3. IntentIsLive'
      BY DEF IntentIsLive
    <2>4. JudgedIsStale'
      BY DEF JudgedIsStale, IntentIsLive
    <2>5. TargetIsStale'
      BY DEF TargetIsStale
    <2> QED
      BY <2>1, <2>2, <2>3, <2>4, <2>5
  <1>7. ~(\/ RecheckIntent(a) \/ RecheckIntentChanged(a)
          \/ UnlinkStaleIntent(a) \/ UnlinkStaleIntentFails(a))
    BY DEF RecheckIntent, RecheckIntentChanged, UnlinkStaleIntent, NextTry,
           UnlinkStaleIntentFails, GiveUp, Look, IntentIsLive
  <1>8. CASE WriteIntent(a)
    <2> USE <1>8 DEF WriteIntent, Document, Stamps, claim
    <2>1. OwnersHaveTheLock'
      BY DEF OwnersHaveTheLock
    <2>2. ClaimantsHaveTheIntent'
      BY DEF ClaimantsHaveTheIntent
    <2>3. IntentIsLive'
      BY DEF IntentIsLive
    <2>4. JudgedIsStale'
      BY DEF JudgedIsStale
    <2>5. TargetIsStale'
      BY DEF TargetIsStale
    <2> QED
      BY <2>1, <2>2, <2>3, <2>4, <2>5
  <1>9. CASE WriteIntentFails(a)
    <2> USE <1>9 DEF WriteIntentFails, Rests, NoFile
    <2>1. OwnersHaveTheLock'
      BY DEF OwnersHaveTheLock
    <2>2. ClaimantsHaveTheIntent'
      BY DEF ClaimantsHaveTheIntent
    <2>3. IntentIsLive'
      BY DEF IntentIsLive, ClaimantsHaveTheIntent
    <2>4. JudgedIsStale'
      BY DEF JudgedIsStale
    <2>5. TargetIsStale'
      BY DEF TargetIsStale
    <2> QED
      BY <2>1, <2>2, <2>3, <2>4, <2>5
  <1>10. CASE VerifyIntent(a)
    <2> USE <1>10 DEF VerifyIntent, Look, claim
    <2>1. OwnersHaveTheLock'
      BY DEF OwnersHaveTheLock
    <2>2. ClaimantsHaveTheIntent'
      BY DEF ClaimantsHaveTheIntent
    <2>3. IntentIsLive'
      BY DEF IntentIsLive
    <2>4. JudgedIsStale'
      BY DEF JudgedIsStale
    <2>5. TargetIsStale'
      BY DEF TargetIsStale
    <2> QED
      BY <2>1, <2>2, <2>3, <2>4, <2>5
  <1>11. ~VerifyIntentFails(a)
    BY DEF VerifyIntentFails, IntentFaulty, GiveUp, ClaimantsHaveTheIntent
  <1> QED
    BY <1>1, <1>2, <1>3, <1>4, <1>5, <1>6, <1>7, <1>8, <1>9, <1>10, <1>11
       DEF TakeIntent

LEMMA RemoveStaleKeepsIInv ==
  ASSUME Timely, IInv, TypeOK', NEW a \in Actors, RemoveStale(a)
  PROVE  IInv'
  <1> USE ActorsAssumption, Bars
  <1> USE DEF IInv, TypeOK, Files, Timely, IntentPcs, OwnerPcs, Exists,
              Carries, Goto
  <1>1. CASE Revalidate(a)
    <2> USE <1>1 DEF Revalidate, SameArtifact, Look, claim
    <2>1. OwnersHaveTheLock'
      BY DEF OwnersHaveTheLock
    <2>2. ClaimantsHaveTheIntent'
      BY DEF ClaimantsHaveTheIntent
    <2>3. IntentIsLive'
      BY DEF IntentIsLive
    <2>4. JudgedIsStale'
      BY DEF JudgedIsStale
    <2>5. TargetIsStale'
      BY DEF TargetIsStale, JudgedIsStale
    <2> QED
      BY <2>1, <2>2, <2>3, <2>4, <2>5
  <1>2. CASE RevalidateFails(a) \/ CheckIntentFails(a) \/ UnlinkLockFails(a)
    <2> USE <1>2 DEF RevalidateFails, CheckIntentFails, UnlinkLockFails, Look, claim
    <2>1. OwnersHaveTheLock'
      BY DEF OwnersHaveTheLock
    <2>2. ClaimantsHaveTheIntent'
      BY DEF ClaimantsHaveTheIntent
    <2>3. IntentIsLive'
      BY DEF IntentIsLive
    <2>4. JudgedIsStale'
      BY DEF JudgedIsStale
    <2>5. TargetIsStale'
      BY DEF TargetIsStale
    <2> QED
      BY <2>1, <2>2, <2>3, <2>4, <2>5
  <1>3. CASE CheckIntent(a)
    <2> USE <1>3 DEF CheckIntent, Look, claim
    <2>1. OwnersHaveTheLock'
      BY DEF OwnersHaveTheLock
    <2>2. ClaimantsHaveTheIntent'
      BY DEF ClaimantsHaveTheIntent
    <2>3. IntentIsLive'
      BY DEF IntentIsLive
    <2>4. JudgedIsStale'
      BY DEF JudgedIsStale
    <2>5. TargetIsStale'
      BY DEF TargetIsStale
    <2> QED
      BY <2>1, <2>2, <2>3, <2>4, <2>5
  <1>4. CASE UnlinkLock(a)
    <2> USE <1>4 DEF UnlinkLock, NoFile, Runs
    <2>1. OwnersHaveTheLock'
      BY DEF OwnersHaveTheLock, TargetIsStale
    <2>2. ClaimantsHaveTheIntent'
      BY DEF ClaimantsHaveTheIntent
    <2>3. IntentIsLive'
      BY DEF IntentIsLive
    <2>4. JudgedIsStale'
      BY DEF JudgedIsStale
    <2>5. TargetIsStale'
      BY DEF TargetIsStale, ClaimantsHaveTheIntent
    <2> QED
      BY <2>1, <2>2, <2>3, <2>4, <2>5
  <1>5. CASE ReadIntent(a)
    <2> USE <1>5 DEF ReadIntent, Look, claim
    <2>1. OwnersHaveTheLock'
      BY DEF OwnersHaveTheLock
    <2>2. ClaimantsHaveTheIntent'
      BY DEF ClaimantsHaveTheIntent
    <2>3. IntentIsLive'
      BY DEF IntentIsLive
    <2>4. JudgedIsStale'
      BY DEF JudgedIsStale
    <2>5. TargetIsStale'
      BY DEF TargetIsStale
    <2> QED
      BY <2>1, <2>2, <2>3, <2>4, <2>5
  <1>6. ~ReadIntentNotOurs(a)
    BY DEF ReadIntentNotOurs, IntentFaulty, Return, ClaimantsHaveTheIntent
  <1>7. CASE UnlinkIntent(a)
    <2> USE <1>7 DEF UnlinkIntent, IntentFaulty, Return, NoFile, Runs
    <2>1. OwnersHaveTheLock'
      BY DEF OwnersHaveTheLock
    <2>2. ClaimantsHaveTheIntent'
      BY DEF ClaimantsHaveTheIntent
    <2>3. IntentIsLive'
      BY DEF IntentIsLive, ClaimantsHaveTheIntent
    <2>4. JudgedIsStale'
      BY DEF JudgedIsStale
    <2>5. TargetIsStale'
      BY DEF TargetIsStale
    <2> QED
      BY <2>1, <2>2, <2>3, <2>4, <2>5
  <1> QED
    BY <1>1, <1>2, <1>3, <1>4, <1>5, <1>6, <1>7 DEF RemoveStale

LEMMA SectionKeepsIInv ==
  ASSUME Timely, IInv, TypeOK', NEW a \in Actors, LeaveSection(a) \/ Beat(a)
  PROVE  IInv'
  <1> USE ActorsAssumption, Bars
  <1> USE DEF IInv, TypeOK, Files, Timely, IntentPcs, OwnerPcs, Exists,
              Carries, Goto
  <1>1. CASE Release(a)
    <2> USE <1>1 DEF Release, Look, claim
    <2>1. OwnersHaveTheLock'
      BY DEF OwnersHaveTheLock
    <2>2. ClaimantsHaveTheIntent'
      BY DEF ClaimantsHaveTheIntent
    <2>3. IntentIsLive'
      BY DEF IntentIsLive
    <2>4. JudgedIsStale'
      BY DEF JudgedIsStale
    <2>5. TargetIsStale'
      BY DEF TargetIsStale
    <2> QED
      BY <2>1, <2>2, <2>3, <2>4, <2>5
  <1>2. CASE ReleaseNotOurs(a)
    <2> USE <1>2 DEF ReleaseNotOurs, Rests, claim
    <2>1. OwnersHaveTheLock'
      BY DEF OwnersHaveTheLock
    <2>2. ClaimantsHaveTheIntent'
      BY DEF ClaimantsHaveTheIntent
    <2>3. IntentIsLive'
      BY DEF IntentIsLive
    <2>4. JudgedIsStale'
      BY DEF JudgedIsStale
    <2>5. TargetIsStale'
      BY DEF TargetIsStale
    <2> QED
      BY <2>1, <2>2, <2>3, <2>4, <2>5
  <1>3. CASE UnlinkOwn(a)
    <2> USE <1>3 DEF UnlinkOwn, Rests, NoFile, claim
    <2>1. OwnersHaveTheLock'
      BY DEF OwnersHaveTheLock
    <2>2. ClaimantsHaveTheIntent'
      BY DEF ClaimantsHaveTheIntent
    <2>3. IntentIsLive'
      BY DEF IntentIsLive
    <2>4. JudgedIsStale'
      BY DEF JudgedIsStale
    <2>5. TargetIsStale'
      BY DEF TargetIsStale, OwnersHaveTheLock
    <2> QED
      BY <2>1, <2>2, <2>3, <2>4, <2>5
  <1>4. CASE ReadHeartbeat(a)
    <2> USE <1>4 DEF ReadHeartbeat, Look, claim
    <2>1. OwnersHaveTheLock'
      BY DEF OwnersHaveTheLock
    <2>2. ClaimantsHaveTheIntent'
      BY DEF ClaimantsHaveTheIntent
    <2>3. IntentIsLive'
      BY DEF IntentIsLive
    <2>4. JudgedIsStale'
      BY DEF JudgedIsStale
    <2>5. TargetIsStale'
      BY DEF TargetIsStale
    <2> QED
      BY <2>1, <2>2, <2>3, <2>4, <2>5
  <1>5. CASE TouchLock(a)
    <2> Exists(lock)
      BY <1>5 DEF TouchLock, Goto, OwnersHaveTheLock, Exists
    <2> USE <1>5 DEF TouchLock, Stamps, claim
    <2>1. OwnersHaveTheLock'
      BY DEF OwnersHaveTheLock
    <2>2. ClaimantsHaveTheIntent'
      BY DEF ClaimantsHaveTheIntent
    <2>3. IntentIsLive'
      BY DEF IntentIsLive
    <2>4. JudgedIsStale'
      BY DEF JudgedIsStale
    <2>5. TargetIsStale'
      BY DEF TargetIsStale, OwnersHaveTheLock
    <2> QED
      BY <2>1, <2>2, <2>3, <2>4, <2>5
  <1> QED
    BY <1>1, <1>2, <1>3, <1>4, <1>5 DEF LeaveSection, Beat

LEMMA EnvironmentKeepsIInv ==
  ASSUME Timely, IInv, TypeOK', NEW a \in Actors,
         \/ BeginAcquire(a) \/ Surface(a) \/ Crash(a) \/ Restart(a)
  PROVE  IInv'
  <1> USE ActorsAssumption, Bars
  <1> USE DEF IInv, TypeOK, Files, Timely, IntentPcs, OwnerPcs, Exists,
              Carries, Goto
  <1>1. CASE BeginAcquire(a) \/ Surface(a)
    <2> USE <1>1 DEF BeginAcquire, Surface, Rests, claim
    <2>1. OwnersHaveTheLock'
      BY DEF OwnersHaveTheLock
    <2>2. ClaimantsHaveTheIntent'
      BY DEF ClaimantsHaveTheIntent
    <2>3. IntentIsLive'
      BY DEF IntentIsLive
    <2>4. JudgedIsStale'
      BY DEF JudgedIsStale
    <2>5. TargetIsStale'
      BY DEF TargetIsStale
    <2> QED
      BY <2>1, <2>2, <2>3, <2>4, <2>5
  <1>2. CASE Crash(a)
    <2> USE <1>2 DEF Crash, Rests
    <2>1. OwnersHaveTheLock'
      BY DEF OwnersHaveTheLock
    <2>2. ClaimantsHaveTheIntent'
      BY DEF ClaimantsHaveTheIntent
    <2>3. IntentIsLive'
      BY DEF IntentIsLive
    <2>4. JudgedIsStale'
      BY DEF JudgedIsStale
    <2>5. TargetIsStale'
      BY DEF TargetIsStale
    <2> QED
      BY <2>1, <2>2, <2>3, <2>4, <2>5
  <1>3. CASE Restart(a)
    <2> USE <1>3 DEF Restart, Look, claim
    <2>1. OwnersHaveTheLock'
      BY DEF OwnersHaveTheLock
    <2>2. ClaimantsHaveTheIntent'
      BY DEF ClaimantsHaveTheIntent
    <2>3. IntentIsLive'
      BY DEF IntentIsLive
    <2>4. JudgedIsStale'
      BY DEF JudgedIsStale
    <2>5. TargetIsStale'
      BY DEF TargetIsStale
    <2> QED
      BY <2>1, <2>2, <2>3, <2>4, <2>5
  <1> QED
    BY <1>1, <1>2, <1>3

LEMMA TickKeepsIInv ==
  ASSUME Timely, IInv, TypeOK', Tick
  PROVE  IInv'
  <1> USE ActorsAssumption, Bars
  <1> USE DEF IInv, TypeOK, Files, Timely, IntentPcs, OwnerPcs, Exists,
              Carries, Tick, AgedFile, Older, Running, AtRest, Ages
  <1>1. OwnersHaveTheLock'
    BY DEF OwnersHaveTheLock
  <1>2. ClaimantsHaveTheIntent'
    BY DEF ClaimantsHaveTheIntent
  <1>3. IntentIsLive'
    BY DEF IntentIsLive
  <1>4. JudgedIsStale'
    BY DEF JudgedIsStale
  <1>5. TargetIsStale'
    BY DEF TargetIsStale, SameArtifact
  <1> QED
    BY <1>1, <1>2, <1>3, <1>4, <1>5

\* The invariant holds throughout every behaviour in which critical sections
\* are timely.
THEOREM Invariance ==
  ASSUME Timely
  PROVE  Spec => []IInv
<1>1. Init /\ TypeOK => IInv
  BY IInvInit
<1>2. IInv /\ TypeOK' /\ [Next]_vars => IInv'
  <2> SUFFICES ASSUME IInv, TypeOK', [Next]_vars
               PROVE  IInv'
    OBVIOUS
  <2>1. CASE Tick
    BY <2>1, TickKeepsIInv
  <2>2. CASE CalmDown \/ UNCHANGED vars
    BY <2>2 DEF CalmDown, vars, claim, IInv, OwnersHaveTheLock,
                ClaimantsHaveTheIntent, IntentIsLive, JudgedIsStale,
                TargetIsStale, Exists, Carries, SameArtifact
  <2>3. ASSUME NEW a \in Actors, Acquire(a)
        PROVE  IInv'
    BY <2>3, AcquireKeepsIInv
  <2>4. ASSUME NEW a \in Actors, TakeIntent(a)
        PROVE  IInv'
    BY <2>4, TakeIntentKeepsIInv
  <2>5. ASSUME NEW a \in Actors, RemoveStale(a)
        PROVE  IInv'
    BY <2>5, RemoveStaleKeepsIInv
  <2>6. ASSUME NEW a \in Actors, LeaveSection(a) \/ Beat(a)
        PROVE  IInv'
    BY <2>6, SectionKeepsIInv
  <2>7. ASSUME NEW a \in Actors,
               \/ BeginAcquire(a) \/ Surface(a) \/ Crash(a) \/ Restart(a)
        PROVE  IInv'
    BY <2>7, EnvironmentKeepsIInv
  <2> QED
    BY <2>1, <2>2, <2>3, <2>4, <2>5, <2>6, <2>7 DEF Next
<1> QED
  BY <1>1, <1>2, TypeCorrect, PTL DEF Spec

\* Exclusion: nobody removes or replaces the lock of an actor that is inside
\* or about to release, however many actors, hosts, crashes and faults.
THEOREM Exclusion ==
  ASSUME Timely
  PROVE  Spec => []HolderOwnsLock
<1>1. IInv => HolderOwnsLock
  BY DEF IInv, OwnersHaveTheLock, HolderOwnsLock, OwnerPcs
<1> QED
  BY <1>1, Invariance, PTL

\* The intent admits one remover.
THEOREM Arbitration ==
  ASSUME Timely
  PROVE  Spec => []OneRemover
<1>1. IInv => OneRemover
  BY DEF IInv, ClaimantsHaveTheIntent, OneRemover, IntentPcs
<1> QED
  BY <1>1, Invariance, PTL

\* A takeover removes the artifact that was judged stale and no other.
THEOREM ExactRemoval ==
  ASSUME Timely
  PROVE  Spec => []RemovalIsExact
<1>1. IInv => RemovalIsExact
  BY DEF IInv, TargetIsStale, RemovalIsExact
<1> QED
  BY <1>1, Invariance, PTL

-----------------------------------------------------------------------------
(* The protocol implements the exclusive section. *)

PhaseMap == [x \in Actors |-> PhaseOf(x)]

\* A step of one actor changes its own phase only.
LEMMA OnePhaseMoves ==
  ASSUME TypeOK, NEW a \in Actors, NEW q, pc' = [pc EXCEPT ![a] = q]
  PROVE  PhaseMap' = [PhaseMap EXCEPT ![a] = PhaseOf(a)']
<1>1. \A x \in Actors : x # a => PhaseOf(x)' = PhaseOf(x)
  BY DEF TypeOK, PhaseOf
<1> QED
  BY <1>1 DEF PhaseMap

\* An acquisition waits, gets in, or is refused.
LEMMA AcquirePhase ==
  ASSUME IInv, NEW a \in Actors, Acquire(a)
  PROVE  /\ pc' = [pc EXCEPT ![a] = pc'[a]]
         /\ PhaseOf(a) = "waiting"
         /\ \/ PhaseOf(a)' = "waiting"
            \/ PhaseOf(a)' = "refused"
            \/ PhaseOf(a)' = "inside" /\ Carries(lock, a)
  BY DEF Acquire, OpenLock, OpenLockRefused, OpenLockFails, WriteLock,
         WriteLockFails, VerifyLock, VerifyLockFails, DeadlinePassed, Sleep,
         Awake, Goto, Look, IInv, TypeOK, PhaseOf

\* A takeover, too, is waiting; a failed write of the intent refuses it.
LEMMA TakeIntentPhase ==
  ASSUME IInv, NEW a \in Actors, TakeIntent(a)
  PROVE  /\ pc' = [pc EXCEPT ![a] = pc'[a]]
         /\ PhaseOf(a) = "waiting" /\ PhaseOf(a)' \in {"waiting", "refused"}
  BY DEF TakeIntent, JudgeLock, JudgeLockFails, OpenIntent, OpenIntentExists,
         OpenIntentFails, JudgeIntent, JudgeIntentLive, IntentVanished,
         RecheckIntent, RecheckIntentChanged, UnlinkStaleIntent,
         UnlinkStaleIntentFails, WriteIntent, WriteIntentFails, VerifyIntent,
         VerifyIntentFails, GiveUp, NextTry, Goto, Look, IInv, TypeOK, PhaseOf

LEMMA RemoveStalePhase ==
  ASSUME IInv, NEW a \in Actors, RemoveStale(a)
  PROVE  /\ pc' = [pc EXCEPT ![a] = pc'[a]]
         /\ PhaseOf(a) = "waiting" /\ PhaseOf(a)' = "waiting"
  BY DEF RemoveStale, Revalidate, RevalidateFails, CheckIntent,
         CheckIntentFails, UnlinkLock, UnlinkLockFails, ReadIntent,
         ReadIntentNotOurs, UnlinkIntent, Return, Goto, Look, IInv, TypeOK,
         PhaseOf

LEMMA SectionPhase ==
  ASSUME IInv, NEW a \in Actors, LeaveSection(a) \/ Beat(a)
  PROVE  /\ pc' = [pc EXCEPT ![a] = pc'[a]]
         /\ \/ PhaseOf(a)' = PhaseOf(a)
            \/ PhaseOf(a) = "inside" /\ PhaseOf(a)' = "out"
  BY DEF LeaveSection, Release, ReleaseNotOurs, UnlinkOwn, Beat,
         ReadHeartbeat, TouchLock, Goto, Look, IInv, TypeOK,
         PhaseOf

\* Refinement: whatever the callers of the lock observe, the exclusive
\* section allows; in particular no two of them are ever inside together.
THEOREM Refinement ==
  ASSUME Timely
  PROVE  Spec => ImplementsSection
<1>1. Init => Section!Init
  BY DEF Init, Section!Init, PhaseOf
<1>2. IInv /\ [Next]_vars => [Section!Next]_PhaseMap
  <2> SUFFICES ASSUME IInv, [Next]_vars
               PROVE  Section!Next \/ UNCHANGED PhaseMap
    BY DEF PhaseMap
  <2>1. TypeOK /\ \A x \in Actors : PhaseMap[x] = PhaseOf(x)
    BY DEF IInv, PhaseMap
  <2>2. \A x \in Actors : PhaseOf(x) = "inside" => Carries(lock, x)
    BY DEF IInv, TypeOK, OwnersHaveTheLock, OwnerPcs, PhaseOf
  <2>3. CASE Tick \/ CalmDown \/ UNCHANGED vars
    <3>1. pc' = pc
      BY <2>3 DEF Tick, CalmDown, vars
    <3> QED
      BY <3>1 DEF PhaseMap, PhaseOf
  <2>4. ASSUME NEW a \in Actors, Acquire(a)
        PROVE  Section!Next \/ UNCHANGED PhaseMap
    <3>1. PhaseMap' = [PhaseMap EXCEPT ![a] = PhaseOf(a)']
      BY <2>1, <2>4, AcquirePhase, OnePhaseMoves
    <3>2. CASE PhaseOf(a)' = "waiting"
      BY <2>1, <2>4, <3>1, <3>2, AcquirePhase DEF PhaseMap
    <3>3. CASE PhaseOf(a)' = "refused"
      BY <2>1, <2>4, <3>1, <3>3, AcquirePhase
         DEF Section!Next, Section!Refuse, Section!Move, PhaseMap
    <3>4. CASE PhaseOf(a)' = "inside" /\ Carries(lock, a)
      <4>1. \A x \in Actors : PhaseOf(x) # "inside"
        BY <2>2, <2>4, <3>4, AcquirePhase DEF Carries
      <4> QED
        BY <2>1, <2>4, <3>1, <3>4, <4>1, AcquirePhase
           DEF Section!Next, Section!Enter, Section!Move, PhaseMap
    <3> QED
      BY <2>4, <3>2, <3>3, <3>4, AcquirePhase
  <2>5. ASSUME NEW a \in Actors, TakeIntent(a) \/ RemoveStale(a)
        PROVE  Section!Next \/ UNCHANGED PhaseMap
    <3>1. PhaseMap' = [PhaseMap EXCEPT ![a] = PhaseOf(a)']
      BY <2>1, <2>5, TakeIntentPhase, RemoveStalePhase, OnePhaseMoves
    <3> QED
      BY <2>1, <2>5, <3>1, TakeIntentPhase, RemoveStalePhase
         DEF Section!Next, Section!Refuse, Section!Move, PhaseMap
  <2>6. ASSUME NEW a \in Actors, LeaveSection(a) \/ Beat(a)
        PROVE  Section!Next \/ UNCHANGED PhaseMap
    <3>1. PhaseMap' = [PhaseMap EXCEPT ![a] = PhaseOf(a)']
      BY <2>1, <2>6, SectionPhase, OnePhaseMoves
    <3> QED
      BY <2>1, <2>6, <3>1, SectionPhase
         DEF Section!Next, Section!Leave, Section!Move, PhaseMap
  <2>7. ASSUME NEW a \in Actors,
               \/ BeginAcquire(a) \/ Surface(a) \/ Crash(a) \/ Restart(a)
        PROVE  Section!Next \/ UNCHANGED PhaseMap
    <3>1. /\ pc' = [pc EXCEPT ![a] = pc'[a]]
          /\ \/ PhaseOf(a) = "out" /\ PhaseOf(a)' = "waiting"
             \/ PhaseOf(a) = "refused" /\ PhaseOf(a)' = "out"
             \/ PhaseOf(a) # "crashed" /\ PhaseOf(a)' = "crashed"
             \/ PhaseOf(a) = "crashed" /\ PhaseOf(a)' = "out"
      BY <2>1, <2>7 DEF BeginAcquire, Surface, Crash, Restart, Goto, Look,
                        TypeOK, PhaseOf
    <3>2. PhaseMap' = [PhaseMap EXCEPT ![a] = PhaseOf(a)']
      BY <2>1, <3>1, OnePhaseMoves
    <3> QED
      BY <2>1, <3>1, <3>2 DEF Section!Next, Section!Ask, Section!Acknowledge,
                              Section!Crash, Section!Restart, Section!Move,
                              PhaseMap
  <2> QED
    BY <2>3, <2>4, <2>5, <2>6, <2>7 DEF Next
<1>3. IInv /\ [Next]_vars => [Section!Next]_([a \in Actors |-> PhaseOf(a)])
  BY <1>2 DEF PhaseMap
<1> QED
  BY <1>1, <1>3, Invariance, PTL DEF Spec, ImplementsSection, Section!Spec

-----------------------------------------------------------------------------
(* The bars of a foreign lock.                                             *)

\* Between its judgement and the unlink, a claimant looks at a lock that is
\* stale for the bar of that lock's own host.
JudgedByItsBar ==
    \A a \in Actors :
        pc[a] \in {"openIntent", "judgeIntent", "recheckIntent", "unlinkStaleIntent",
                   "writeIntent", "verifyIntent", "revalidate", "checkIntent",
                   "unlinkLock"}
        => IsStale(seen[a], a)

\* A file that is stale stays stale: its class does not change as it ages.
LEMMA StaysStale ==
  ASSUME NEW f \in Files, NEW a \in Actors, IsStale(f, a)
  PROVE  IsStale(AgedFile(f), a)
<1>1. f.age \in 0 .. MaxAge
  BY DEF Files, Ages
<1>2. CASE Exists(f)
  <2>1. PICK age : age = Older(f.age, MaxAge)
    OBVIOUS
  <2>2. age >= f.age /\ age \in Nat
    BY <1>1, <2>1, Bars DEF Older
  <2>3. PICK g : g = [f EXCEPT !.age = age]
    OBVIOUS
  <2>4. g.age = age /\ g.full = f.full /\ g.by = f.by
    BY <2>3 DEF Files
  <2>5. Threshold(g, a) = Threshold(f, a) /\ Threshold(f, a) \in Nat
    BY <2>4, Bars DEF Threshold, DocumentClass
  <2> QED
    BY <1>1, <1>2, <2>1, <2>2, <2>3, <2>4, <2>5, Bars DEF IsStale, AgedFile
<1>3. CASE ~Exists(f)
  BY <1>3 DEF AgedFile
<1> QED
  BY <1>2, <1>3

\* What a claimant judged stays stale for it, whatever the others do.
LEMMA JudgedStays ==
  ASSUME TypeOK, JudgedByItsBar, [Next]_vars
  PROVE  JudgedByItsBar'
<1>1. ASSUME NEW a \in Actors, \/ TakeIntent(a) \/ RemoveStale(a)
      PROVE  JudgedByItsBar'
  BY <1>1 DEF JudgedByItsBar, TypeOK, TakeIntent, JudgeLock, JudgeLockFails, OpenIntent,
         OpenIntentExists, OpenIntentFails, JudgeIntent, JudgeIntentLive,
         IntentVanished, RecheckIntent, RecheckIntentChanged, UnlinkStaleIntent,
         UnlinkStaleIntentFails, WriteIntent, WriteIntentFails, VerifyIntent,
         VerifyIntentFails, GiveUp, NextTry, RemoveStale, Revalidate,
         RevalidateFails, CheckIntent, CheckIntentFails, UnlinkLock, UnlinkLockFails,
         ReadIntent, ReadIntentNotOurs, UnlinkIntent, Return, Goto, Look, claim
<1>2. ASSUME NEW a \in Actors,
             \/ Acquire(a) \/ LeaveSection(a) \/ Beat(a) \/ BeginAcquire(a)
             \/ Surface(a) \/ Crash(a) \/ Restart(a)
      PROVE  JudgedByItsBar'
  BY <1>2 DEF JudgedByItsBar, TypeOK, Acquire, OpenLock, OpenLockRefused, OpenLockFails,
         WriteLock, WriteLockFails, VerifyLock, VerifyLockFails, DeadlinePassed, Sleep,
         Awake, LeaveSection, Release, ReleaseNotOurs, UnlinkOwn, Beat, ReadHeartbeat,
         TouchLock, BeginAcquire, Surface, Crash, Restart, Goto, Look, claim
<1>3. CASE Tick
  <2> SUFFICES ASSUME NEW a \in Actors, IsStale(seen[a], a)
               PROVE  IsStale(seen'[a], a)
    BY <1>3 DEF JudgedByItsBar, Tick
  <2>1. seen'[a] = AgedFile(seen[a]) /\ seen[a] \in Files
    BY <1>3 DEF Tick, TypeOK
  <2> QED
    BY <2>1, StaysStale
<1>4. CASE CalmDown \/ UNCHANGED vars
  BY <1>4 DEF CalmDown, vars, claim, JudgedByItsBar
<1> QED
  BY <1>1, <1>2, <1>3, <1>4 DEF Next

\* A lock that another host wrote goes only beyond the bar of foreign locks:
\* what is unlinked is what was judged, with the bar of its own class
\* (credential-lock.ts, FOREIGN_LOCK_STALE_MS).
THEOREM ForeignLocksKept ==
  ASSUME Timely
  PROVE  Spec => ForeignLockKept
<1>1. Init => JudgedByItsBar
  BY DEF Init, JudgedByItsBar
<1>2. TypeOK /\ JudgedByItsBar /\ [Next]_vars => JudgedByItsBar'
  BY JudgedStays
<1>3. IInv /\ JudgedByItsBar
      => \A a \in Actors :
            /\ pc[a] = "unlinkLock" /\ lock.full /\ HostOf[lock.by] # HostOf[a]
            => lock.age >= ForeignStale
  BY DEF IInv, TargetIsStale, JudgedByItsBar, SameArtifact, IsStale, Threshold,
         DocumentClass
<1>4. IInv /\ JudgedByItsBar /\ [Next]_vars
      => [\A a \in Actors :
            /\ pc[a] = "unlinkLock" /\ lock' = NoFile
            /\ lock.full /\ HostOf[lock.by] # HostOf[a]
            => lock.age >= ForeignStale]_vars
  BY <1>3
<1> QED
  BY <1>1, <1>2, <1>4, TypeCorrect, Invariance, PTL DEF Spec, ForeignLockKept

-----------------------------------------------------------------------------
(* "Busy" means contention.                                                *)

\* Every document is of one machine, whose bar is LockStale.
OneMachine == \A a, b \in Actors : HostOf[a] = HostOf[b]

\* The budget leaves room for a pass of the acquire loop beyond the stale bar:
\* ACQUIRE_BUDGET is 75 s, LOCK_STALE_MS 60 s, REFRESH_HTTP_TIMEOUT 15 s.
BudgetOutlivesBar == LockStale + HoldBound <= AcquireBudget

\* A file that was there before a came is as old as a's wait, or stale.
Old(file, a) == Exists(file) => file.age >= LockStale \/ waited[a] <= file.age

Claiming == TakeoverPcs \cup {"writeIntent", "verifyIntent", "revalidate", "checkIntent",
                              "unlinkLock"}
Waits == {"openLock", "asleep", "judgeLock", "checkDeadline"}

\* What an acquisition that nobody disturbs finds: the files that were there
\* before, until it has removed them, and its own, once it has created them.
FindsOldLock(a) ==
    /\ pc[a] \in Waits \cup Claiming => Old(lock, a)
    /\ pc[a] \in Claiming => Exists(seen[a]) /\ SameArtifact(lock, seen[a])
    /\ pc[a] \in Claiming \cup {"judgeLock"} => Exists(lock)
    /\ pc[a] \in {"writeLock", "verifyLock"} => lock.by = a
    /\ pc[a] = "verifyLock" => lock.full
    /\ pc[a] \in {"readIntent", "unlinkIntent"} => removed[a] /\ ~Exists(lock)

FindsOldIntent(a) ==
    /\ pc[a] \in Waits \cup TakeoverPcs => Old(intent, a)
    /\ pc[a] = "openIntent" => tries[a] = 1 \/ (tries[a] = 2 /\ ~Exists(intent))
    /\ pc[a] \in TakeoverPcs \ {"openIntent"} => tries[a] = 1 /\ Exists(intent)
    /\ pc[a] \in {"recheckIntent", "unlinkStaleIntent"}
       => Exists(iseen[a]) /\ SameArtifact(intent, iseen[a])
    /\ pc[a] \in IntentPcs => intent.by = a
    /\ pc[a] \in IntentPcs \ {"writeIntent"} => intent.full

\* It is under way, and whenever it looks at the deadline it has judged within
\* this pass a file that is not stale, and so has not waited longer.
Patient(a) ==
    /\ calm
    /\ pc[a] \in Waits \cup Claiming \cup IntentPcs \cup {"writeLock", "verifyLock"}
    /\ FindsOldLock(a) /\ FindsOldIntent(a)
    /\ pc[a] = "checkDeadline" => waited[a] < LockStale + since[a]

\* No file of one machine that is not stale is older than the bar.
LEMMA NotStale ==
  ASSUME OneMachine, TypeOK, NEW file \in Files, NEW a \in Actors, Exists(file)
  PROVE  /\ file.age \in Nat
         /\ IsStale(file, a) <=> file.age >= LockStale
<1>1. file.by \in Actors /\ file.age \in Nat
  BY Bars DEF Files, Exists, Ages
<1>2. Threshold(file, a) = LockStale
  BY <1>1 DEF OneMachine, Threshold, DocumentClass
<1> QED
  BY <1>1, <1>2 DEF IsStale

\* Its own step, but for the one that gets it in.
LEMMA OwnStepPatient ==
  ASSUME OneMachine, BudgetOutlivesBar, TypeOK, NEW a \in Actors, Patient(a),
         Acquire(a) \/ TakeIntent(a) \/ RemoveStale(a), pc'[a] # "inside"
  PROVE  Patient(a)'
<1>1. ASSUME NEW file \in {lock, intent}, Exists(file)
      PROVE  /\ file.age \in Nat /\ (IsStale(file, a) <=> file.age >= LockStale)
  BY <1>1, NotStale DEF TypeOK
<1>2. since[a] \in 0 .. HoldBound /\ waited[a] \in 0 .. AcquireBudget
  BY DEF TypeOK
<1>6. ~ DeadlinePassed(a)
  <2>1. pc[a] = "checkDeadline" => waited[a] < LockStale + since[a]
    BY DEF Patient
  <2>2. pc[a] = "checkDeadline" => waited[a] < AcquireBudget
    BY <1>2, <2>1, Bars DEF BudgetOutlivesBar
  <2>3. DeadlinePassed(a) => pc[a] = "checkDeadline" /\ waited[a] >= AcquireBudget
    BY DEF DeadlinePassed, Goto
  <2> QED
    BY <1>2, <2>2, <2>3, Bars
<1> USE ActorsAssumption, Bars
<1> USE DEF Patient, FindsOldLock, FindsOldIntent, Waits, Claiming, TakeoverPcs,
            IntentPcs, Old, TypeOK, Goto, Faulty, IntentFaulty
<1>3. CASE OpenLock(a)
  BY <1>3 DEF OpenLock, EmptyFile, claim
<1>18. CASE WriteLock(a)
  BY <1>18 DEF WriteLock, Document, claim
<1>4. CASE OpenLockRefused(a)
  BY <1>4 DEF OpenLockRefused, Look, claim
<1>19. CASE Awake(a)
  BY <1>19 DEF Awake, Look, claim
<1>5. ~ (\/ OpenLockFails(a) \/ WriteLockFails(a) \/ VerifyLockFails(a) \/ VerifyLock(a)
         \/ OpenIntentFails(a) \/ RecheckIntentChanged(a) \/ IntentVanished(a)
         \/ UnlinkStaleIntentFails(a) \/ WriteIntentFails(a) \/ VerifyIntentFails(a)
         \/ RevalidateFails(a) \/ CheckIntentFails(a) \/ UnlinkLockFails(a)
         \/ ReadIntentNotOurs(a))
  BY DEF OpenLockFails, WriteLockFails, VerifyLockFails, VerifyLock, OpenIntentFails,
         RecheckIntentChanged, IntentVanished, UnlinkStaleIntentFails,
         WriteIntentFails, VerifyIntentFails, RevalidateFails, CheckIntentFails,
         UnlinkLockFails, ReadIntentNotOurs, NextTry, GiveUp, Return, Carries, Exists, Look
<1>7. CASE Sleep(a)
  BY <1>7 DEF Sleep, claim
<1>8. CASE JudgeLock(a)
  BY <1>8 DEF JudgeLock, SameArtifact, Runs
<1>9. CASE JudgeLockFails(a)
  BY <1>1, <1>2, <1>9 DEF JudgeLockFails, Look, claim
<1>10. CASE OpenIntent(a)
  BY <1>10 DEF OpenIntent, EmptyFile
<1>20. CASE WriteIntent(a)
  BY <1>20 DEF WriteIntent, Document, claim
<1>11. CASE OpenIntentExists(a)
  BY <1>11 DEF OpenIntentExists, Look, claim
<1>21. CASE RecheckIntent(a)
  BY <1>21 DEF RecheckIntent, Look, claim
<1>12. CASE JudgeIntent(a)
  BY <1>12 DEF JudgeIntent, SameArtifact, Runs
<1>13. CASE JudgeIntentLive(a)
  BY <1>1, <1>2, <1>13 DEF JudgeIntentLive, GiveUp, Runs
<1>14. CASE UnlinkStaleIntent(a)
  BY <1>14 DEF UnlinkStaleIntent, NextTry, GiveUp, NoFile, Exists, Runs
<1>15. CASE VerifyIntent(a)
  BY <1>15 DEF VerifyIntent, Look, claim
<1>23. CASE Revalidate(a)
  BY <1>23 DEF Revalidate, Look, claim
<1>22. CASE CheckIntent(a)
  BY <1>22 DEF CheckIntent, Look, claim
<1>24. CASE ReadIntent(a)
  BY <1>24 DEF ReadIntent, Look, claim
<1>16. CASE UnlinkLock(a)
  BY <1>16 DEF UnlinkLock, NoFile, Exists, Runs
<1>17. CASE UnlinkIntent(a)
  BY <1>17 DEF UnlinkIntent, Return, NoFile, Exists, Runs
<1> QED
  BY <1>3, <1>4, <1>5, <1>6, <1>7, <1>8, <1>9, <1>10, <1>11, <1>12, <1>13, <1>14, <1>15,
     <1>16, <1>17, <1>18, <1>19, <1>20, <1>21, <1>22, <1>23, <1>24
     DEF Acquire, TakeIntent, RemoveStale

\* A step of an actor moves that actor alone.
LEMMA StepMoves ==
  ASSUME TypeOK, NEW b \in Actors,
         \/ BeginAcquire(b) \/ Acquire(b) \/ TakeIntent(b) \/ RemoveStale(b)
         \/ LeaveSection(b) \/ Beat(b) \/ Surface(b) \/ Crash(b) \/ Restart(b)
  PROVE  /\ pc'[b] # pc[b] /\ calm' = calm
         /\ \A a \in Actors \ {b} :
               /\ UNCHANGED <<pc[a], since[a], waited[a]>>
               /\ UNCHANGED <<seen[a], iseen[a], tries[a], removed[a]>>
<1> USE DEF TypeOK, Goto, Look, claim, Rests, Runs, Stamps
<1>1. CASE Acquire(b)
  BY <1>1 DEF Acquire, OpenLock, OpenLockRefused, OpenLockFails, WriteLock,
              WriteLockFails, VerifyLock, VerifyLockFails, DeadlinePassed, Sleep,
              Awake
<1>2. CASE TakeIntent(b)
  BY <1>2 DEF TakeIntent, JudgeLock, JudgeLockFails, OpenIntent, OpenIntentExists,
       OpenIntentFails, JudgeIntent, JudgeIntentLive, IntentVanished,
       RecheckIntent, RecheckIntentChanged, UnlinkStaleIntent,
       UnlinkStaleIntentFails, WriteIntent, WriteIntentFails, VerifyIntent,
       VerifyIntentFails, GiveUp, NextTry
<1>3. CASE RemoveStale(b)
  BY <1>3 DEF RemoveStale, Revalidate, RevalidateFails, CheckIntent,
              CheckIntentFails, UnlinkLock, UnlinkLockFails, ReadIntent,
              ReadIntentNotOurs, UnlinkIntent, Return
<1>4. CASE LeaveSection(b) \/ Beat(b)
  BY <1>4 DEF LeaveSection, Release, ReleaseNotOurs, UnlinkOwn, Beat,
              ReadHeartbeat, TouchLock
<1>5. CASE BeginAcquire(b) \/ Surface(b) \/ Crash(b) \/ Restart(b)
  BY <1>5 DEF BeginAcquire, Surface, Crash, Restart
<1> QED
  BY <1>1, <1>2, <1>3, <1>4, <1>5

\* The step of another actor that changes no file.
LEMMA PeerStepPatient ==
  ASSUME TypeOK, NEW a \in Actors, Patient(a), NEW b \in Actors, a # b,
         \/ BeginAcquire(b) \/ Acquire(b) \/ TakeIntent(b) \/ RemoveStale(b)
         \/ LeaveSection(b) \/ Beat(b) \/ Surface(b) \/ Crash(b) \/ Restart(b)
  PROVE  /\ pc' # pc /\ pc'[a] = pc[a]
         /\ UNCHANGED <<lock, intent>> => Patient(a)'
<1>1. /\ pc'[b] # pc[b] /\ UNCHANGED <<calm, pc[a], since[a], waited[a]>>
      /\ UNCHANGED <<seen[a], iseen[a], tries[a], removed[a]>>
  BY StepMoves
<1>2. ASSUME UNCHANGED <<lock, intent>> PROVE Patient(a)'
  BY <1>1, <1>2 DEF Patient, FindsOldLock, FindsOldIntent, Old, SameArtifact
<1> QED
  BY <1>1, <1>2

\* As time passes the files get older with the wait.
LEMMA TickPatient ==
  ASSUME TypeOK, NEW a \in Actors, Patient(a), Tick
  PROVE  Patient(a)'
<1> USE Bars
<1>1. /\ UNCHANGED <<pc, tries, removed, calm>>
      /\ lock' = AgedFile(lock) /\ intent' = AgedFile(intent)
      /\ seen'[a] = AgedFile(seen[a]) /\ iseen'[a] = AgedFile(iseen[a])
      /\ waited'[a] <= waited[a] + 1 /\ waited'[a] \in Nat
      /\ pc[a] = "checkDeadline" => since'[a] = since[a] + 1
  BY DEF Tick, TypeOK, Running, AtRest, Older
<1>2. ASSUME NEW f \in Files
      PROVE  /\ AgedFile(f).by = f.by /\ AgedFile(f).full = f.full
             /\ Exists(AgedFile(f)) <=> Exists(f)
             /\ f.age \in Nat
             /\ Exists(f) => \/ AgedFile(f).age = f.age + 1
                             \/ AgedFile(f).age = f.age /\ f.age >= LockStale
  BY DEF AgedFile, Files, Older, Ages, Exists
<1>3. \A f \in Files : Old(f, a) /\ Exists(f) =>
        \/ AgedFile(f).age >= LockStale
        \/ waited'[a] <= AgedFile(f).age
  BY <1>1, <1>2 DEF Old, TypeOK
<1>4. /\ lock \in Files /\ intent \in Files /\ seen[a] \in Files /\ iseen[a] \in Files
      /\ Old(lock, a) => Old(lock, a)'
      /\ Old(intent, a) => Old(intent, a)'
  BY <1>1, <1>2, <1>3 DEF Old, TypeOK
<1>5. ASSUME NEW f \in Files, NEW g \in Files, Exists(f), Exists(g), SameArtifact(f, g)
      PROVE  SameArtifact(AgedFile(f), AgedFile(g))
  <2>1. PICK age : age = Older(f.age, MaxAge)
    OBVIOUS
  <2>2. PICK f1, g1 : f1 = [f EXCEPT !.age = age] /\ g1 = [g EXCEPT !.age = age]
    OBVIOUS
  <2>3. AgedFile(f) = f1 /\ AgedFile(g) = g1
    BY <1>5, <2>1, <2>2 DEF AgedFile, SameArtifact
  <2>4. /\ f1.age = age /\ g1.age = age /\ f1.full = f.full /\ g1.full = g.full
        /\ f1.by = f.by /\ g1.by = g.by
    BY <2>2 DEF Files
  <2> QED
    BY <1>5, <2>3, <2>4 DEF SameArtifact
<1>9. /\ lock'.by = lock.by /\ lock'.full = lock.full
      /\ intent'.by = intent.by /\ intent'.full = intent.full
      /\ Exists(lock)' <=> Exists(lock)
      /\ Exists(intent)' <=> Exists(intent)
      /\ Exists(seen[a])' <=> Exists(seen[a])
      /\ Exists(iseen[a])' <=> Exists(iseen[a])
  BY <1>1, <1>2, <1>4 DEF Exists
<1>10. /\ Exists(lock) /\ Exists(seen[a]) /\ SameArtifact(lock, seen[a])
          => SameArtifact(lock', seen'[a])
       /\ Exists(intent) /\ Exists(iseen[a]) /\ SameArtifact(intent, iseen[a])
          => SameArtifact(intent', iseen'[a])
  BY <1>1, <1>4, <1>5
<1>6. FindsOldLock(a)'
  <2>1. FindsOldLock(a)
    BY DEF Patient
  <2>6. pc[a] \in Waits \cup Claiming => Old(lock, a)
    BY <2>1 DEF FindsOldLock
  <2>2. pc[a] \in Waits \cup Claiming => Old(lock, a)'
    BY <1>4, <2>6, Zenon
  <2>3. pc[a] \in Claiming => Exists(seen[a])' /\ SameArtifact(lock', seen'[a])
    BY <1>9, <1>10, <2>1 DEF FindsOldLock
  <2>4. /\ pc[a] \in Claiming \cup {"judgeLock"} => Exists(lock)'
        /\ pc[a] \in {"writeLock", "verifyLock"} => lock'.by = a
        /\ pc[a] = "verifyLock" => lock'.full
        /\ pc[a] \in {"readIntent", "unlinkIntent"} => removed'[a] /\ ~Exists(lock)'
    BY <1>1, <1>9, <2>1 DEF FindsOldLock
  <2>5. pc' = pc
    BY <1>1
  <2> QED
    BY <2>2, <2>3, <2>4, <2>5 DEF FindsOldLock
<1>7. FindsOldIntent(a)'
  <2>1. FindsOldIntent(a)
    BY DEF Patient
  <2>6. pc[a] \in Waits \cup TakeoverPcs => Old(intent, a)
    BY <2>1 DEF FindsOldIntent
  <2>2. pc[a] \in Waits \cup TakeoverPcs => Old(intent, a)'
    BY <1>4, <2>6, Zenon
  <2>3. pc[a] \in {"recheckIntent", "unlinkStaleIntent"}
        => Exists(iseen[a])' /\ SameArtifact(intent', iseen'[a])
    BY <1>9, <1>10, <2>1, Zenon DEF FindsOldIntent, TakeoverPcs
  <2>4. /\ pc[a] = "openIntent" => tries'[a] = 1 \/ (tries'[a] = 2 /\ ~Exists(intent)')
        /\ pc[a] \in TakeoverPcs \ {"openIntent"} => tries'[a] = 1 /\ Exists(intent)'
        /\ pc[a] \in IntentPcs => intent'.by = a
        /\ pc[a] \in IntentPcs \ {"writeIntent"} => intent'.full
    BY <1>1, <1>9, <2>1 DEF FindsOldIntent
  <2>5. pc' = pc
    BY <1>1
  <2> QED
    BY <2>2, <2>3, <2>4, <2>5 DEF FindsOldIntent
<1>8. pc'[a] = "checkDeadline" => waited'[a] < LockStale + since'[a]
  BY <1>1 DEF Patient, TypeOK
<1> QED
  BY <1>1, <1>6, <1>7, <1>8 DEF Patient

\* An acquisition that begins finds what it finds with no wait behind it.
LEMMA BeginsPatient ==
  ASSUME TypeOK, NEW a \in Actors, pc[a] = "idle", calm, NEW b \in Actors,
         pc'[a] \notin {"idle", "inside", "dead"},
         \/ BeginAcquire(b) \/ Acquire(b) \/ TakeIntent(b) \/ RemoveStale(b)
         \/ LeaveSection(b) \/ Beat(b) \/ Surface(b) \/ Crash(b) \/ Restart(b)
  PROVE  Patient(a)'
<1>1. pc'[b] # pc[b] /\ \A c \in Actors \ {b} : pc'[c] = pc[c]
  BY StepMoves
<1>2. a = b
  BY <1>1
<1>3. BeginAcquire(a)
  <2> USE <1>2 DEF Goto, Look
  <2>1. ~ Acquire(a)
    BY DEF Acquire, OpenLock, OpenLockRefused, OpenLockFails, WriteLock, WriteLockFails,
           VerifyLock, VerifyLockFails, DeadlinePassed, Sleep, Awake
  <2>2. ~ TakeIntent(a)
    BY DEF TakeIntent, JudgeLock, JudgeLockFails, OpenIntent, OpenIntentExists,
           OpenIntentFails, JudgeIntent, JudgeIntentLive, IntentVanished,
           RecheckIntent, RecheckIntentChanged, UnlinkStaleIntent,
           UnlinkStaleIntentFails, WriteIntent, WriteIntentFails, VerifyIntent,
           VerifyIntentFails, GiveUp, NextTry
  <2>3. ~ RemoveStale(a)
    BY DEF RemoveStale, Revalidate, RevalidateFails, CheckIntent, CheckIntentFails,
           UnlinkLock, UnlinkLockFails, ReadIntent, ReadIntentNotOurs, UnlinkIntent,
           Return
  <2>4. ~ (LeaveSection(a) \/ Beat(a) \/ Surface(a) \/ Crash(a) \/ Restart(a))
    BY DEF LeaveSection, Release, ReleaseNotOurs, UnlinkOwn, Beat, ReadHeartbeat,
           TouchLock, Surface, Crash, Restart, Faulty
  <2> QED
    BY <2>1, <2>2, <2>3, <2>4
<1>4. /\ calm' /\ pc'[a] = "openLock" /\ waited'[a] = 0
      /\ UNCHANGED <<lock, intent>> /\ lock \in Files /\ intent \in Files
  BY <1>3 DEF BeginAcquire, Goto, TypeOK
<1>5. lock.age >= 0 /\ intent.age >= 0
  BY <1>4, Bars DEF Files, Ages
<1> QED
  BY <1>4, <1>5 DEF Patient, FindsOldLock, FindsOldIntent, Old, Waits, Claiming,
     TakeoverPcs, IntentPcs

\* Every acquisition that nobody disturbed is patient.
BudgetInv == \A a \in undisturbed : a \in Actors /\ Patient(a)

LEMMA Undisturbed ==
  ASSUME OneMachine, BudgetOutlivesBar, TypeOK, BudgetInv,
         [Next /\ History]_budgetVars
  PROVE  BudgetInv'
<1>1. CASE UNCHANGED budgetVars
  BY <1>1 DEF budgetVars, vars, claim, BudgetInv, Patient, FindsOldLock, FindsOldIntent,
         Old
<1>2. CASE Next /\ History
  <2> SUFFICES ASSUME NEW a \in undisturbed' PROVE a \in Actors /\ Patient(a)'
    BY DEF BudgetInv
  <2>1. /\ a \in Actors /\ pc'[a] \notin {"idle", "inside", "dead"}
        /\ \/ pc[a] = "idle" /\ calm
           \/ a \in undisturbed /\ Patient(a) /\ (Acts(a) \/ ~FilesChange)
    BY <1>2 DEF History, BudgetInv
  <2>2. CASE Tick
    <3>1. pc'[a] = pc[a]
      BY <2>2 DEF Tick
    <3>2. Patient(a)
      BY <2>1, <3>1
    <3> QED
      BY <2>1, <2>2, <3>2, TickPatient
  <2>3. CASE CalmDown
    <3>1. UNCHANGED <<lock, intent, pc, since, waited, seen, iseen, tries, removed>> /\ ~calm
      BY <2>3 DEF CalmDown, claim
    <3> QED
      BY <2>1, <3>1 DEF Patient
  <2>4. ASSUME NEW b \in Actors,
               \/ BeginAcquire(b) \/ Acquire(b) \/ TakeIntent(b) \/ RemoveStale(b)
               \/ LeaveSection(b) \/ Beat(b) \/ Surface(b) \/ Crash(b) \/ Restart(b)
        PROVE  Patient(a)'
    <3>1. CASE pc[a] = "idle" /\ calm
      BY <2>1, <2>4, <3>1, BeginsPatient
    <3>2. CASE a \in undisturbed /\ Patient(a) /\ a # b
      <4>1. pc' # pc /\ pc'[a] = pc[a]
        BY <2>1, <2>4, <3>2, PeerStepPatient
      <4>2. UNCHANGED <<lock, intent>>
        BY <2>1, <3>2, <4>1 DEF Acts, FilesChange, Patient, Waits, Claiming, TakeoverPcs,
           IntentPcs
      <4> QED
        BY <2>1, <2>4, <3>2, <4>2, PeerStepPatient
    <3>3. CASE Patient(a) /\ a = b
      <4>1. Acquire(a) \/ TakeIntent(a) \/ RemoveStale(a)
        BY <2>4, <3>3 DEF Patient, Waits, Claiming, TakeoverPcs, IntentPcs, LeaveSection,
           Release, ReleaseNotOurs, UnlinkOwn, Beat, ReadHeartbeat, TouchLock,
           BeginAcquire, Surface, Crash, Restart, Faulty, Goto, Look
      <4> QED
        BY <2>1, <3>3, <4>1, OwnStepPatient
    <3> QED
      BY <2>1, <3>1, <3>2, <3>3
  <2> QED
    BY <1>2, <2>1, <2>2, <2>3, <2>4 DEF Next
<1> QED
  BY <1>1, <1>2

\* "Busy" means contention: an acquisition during which nobody else touched
\* the files, and no fault struck, gets in. Whatever was there before is stale
\* before the budget is spent, if the budget leaves room for one pass more
\* (credential-lock.ts, ACQUIRE_BUDGET).
THEOREM BusyMeansContended ==
  ASSUME OneMachine, BudgetOutlivesBar
  PROVE  BudgetSpec => []BusyMeansContention
<1>1. BudgetInit => BudgetInv
  BY DEF BudgetInit, BudgetInv
<1>2. TypeOK /\ BudgetInv /\ [Next /\ History]_budgetVars => BudgetInv'
  BY Undisturbed
<1>3. BudgetInv => BusyMeansContention
  BY DEF BudgetInv, BusyMeansContention, Patient, Waits, Claiming, TakeoverPcs, IntentPcs
<1>4. BudgetInit => Init
  BY DEF BudgetInit
<1>5. [Next /\ History]_budgetVars => [Next]_vars
  BY DEF budgetVars
<1> QED
  BY <1>1, <1>2, <1>3, <1>4, <1>5, TypeCorrect, PTL DEF BudgetSpec, Spec
=============================================================================
