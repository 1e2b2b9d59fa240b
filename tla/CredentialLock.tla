--------------------------- MODULE CredentialLock ---------------------------
(***************************************************************************)
(* The cross-process lock of src/src/credential-lock.ts: two files beside  *)
(* the store, the lock and the takeover intent, each created exclusively   *)
(* (open 'wx'), stamped with the document of its creator and judged stale  *)
(* by its mtime. Each action is one file-system call of one actor (an      *)
(* acquisition by one MachineCredentialLock instance); calls of different  *)
(* actors interleave, and an actor may die between any two of its calls.   *)
(*                                                                         *)
(* Time. Ages replace time stamps: Tick makes everything one unit older.   *)
(* Two mtimes are equal exactly when the two ages are. Tick waits for an   *)
(* actor that has been running for HoldBound units since it last stamped a *)
(* file: HoldBound is how long a critical section, or one pass of the      *)
(* acquire loop, may take. A sleeping actor may oversleep.                 *)
(*                                                                         *)
(* Documents. A document names its creator. The nonce that makes every     *)
(* attempt's document unique is represented by the actor: at most one file *)
(* of an actor is in place, and an earlier one has an earlier mtime.       *)
(***************************************************************************)
EXTENDS Naturals, FiniteSets

CONSTANTS
    Actors,          \* the acquisitions that contend for one store directory
    HostOf,          \* [Actors -> host]: the hostId in an actor's documents
    Nobody,          \* the creator of a file that does not exist
    LockStale,       \* LOCK_STALE_MS
    ForeignStale,    \* FOREIGN_LOCK_STALE_MS
    AcquireBudget,   \* ACQUIRE_BUDGET
    HoldBound,       \* longest time between two stamps of a running actor
    MaxAge,          \* ages saturate here
    Heartbeat,       \* the heartbeat option
    Faults,          \* which faults the environment may inject
    IntentFaults,    \* whether they may strike while the intent is held
    CalmsDown        \* whether the faults may end for good

FaultKinds == {"crash", "denied", "open", "write", "read", "unlink"}

ASSUME ActorsAssumption == Nobody \notin Actors
ASSUME TimesAssumption ==
    /\ LockStale \in Nat /\ ForeignStale \in Nat /\ AcquireBudget \in Nat
    /\ HoldBound \in Nat /\ MaxAge \in Nat
    /\ 0 < LockStale /\ LockStale <= ForeignStale /\ ForeignStale <= MaxAge
ASSUME OptionsAssumption ==
    /\ {Heartbeat, IntentFaults, CalmsDown} \subseteq BOOLEAN
    /\ Faults \subseteq FaultKinds

VARIABLES
    lock,       \* credentials.lock
    intent,     \* credentials.lock.takeover
    pc,         \* what an actor does next
    since,      \* time since a running actor last stamped a file (or awoke)
    waited,     \* time since its acquire() began, up to AcquireBudget
    seen,       \* the stale lock a claimant judged: stat1 and content1
    iseen,      \* the stale intent it judged: istat and icontent
    tries,      \* createAttempt of tryAcquireTakeoverIntent
    removed,    \* whether its tryStaleTakeover removed the lock
    calm        \* whether the faults of the environment have ended

vars == <<lock, intent, pc, since, waited, seen, iseen, tries, removed, calm>>
claim == <<seen, iseen, tries, removed>>

Ages == 0 .. MaxAge

\* A file: who created it, whether the document was written, its mtime's age.
Files == [by : Actors \cup {Nobody}, full : BOOLEAN, age : Ages]
NoFile == [by |-> Nobody, full |-> FALSE, age |-> 0]
Exists(file) == file.by # Nobody
EmptyFile(a) == [by |-> a, full |-> FALSE, age |-> 0]
Document(a) == [by |-> a, full |-> TRUE, age |-> 0]

\* current.equals(own): the document at the path is the one the actor wrote.
Carries(file, a) == file.full /\ file.by = a

\* Equal mtime, size and bytes. Zero-byte files have equal bytes.
SameArtifact(f, g) ==
    /\ f.age = g.age
    /\ f.full = g.full
    /\ f.full => f.by = g.by

\* Mutant: the host of the writer is not looked at.
DocumentClassOfAnyHost(file, a) == IF file.full THEN "local" ELSE "unparseable"

\* classifyLockDocument as a reads it, and the staleness bar of each class.
DocumentClass(file, a) ==
    CASE ~file.full -> "unparseable"
      [] file.full /\ HostOf[file.by] = HostOf[a] -> "local"
      [] OTHER -> "foreign"

\* Mutant: a corrupt artifact gets no grace at all.
ThresholdWithoutGrace(file, a) ==
    CASE DocumentClass(file, a) = "unparseable" -> 0
      [] DocumentClass(file, a) = "local" -> LockStale
      [] OTHER -> ForeignStale

Threshold(file, a) ==
    IF DocumentClass(file, a) = "foreign" THEN ForeignStale ELSE LockStale

IsStale(file, a) == file.age >= Threshold(file, a)

Older(n, cap) == IF n < cap THEN n + 1 ELSE n

-----------------------------------------------------------------------------
AtRest == {"idle", "asleep", "busy", "failed", "dead"}
\* Between winning the intent file and letting it go.
IntentPcs == {"writeIntent", "verifyIntent", "revalidate", "checkIntent",
              "unlinkLock", "readIntent", "unlinkIntent"}
\* Between stamping the lock file and letting it go.
OwnerPcs == {"verifyLock", "inside", "touch", "unlinkOwn"}
TakeoverPcs == {"openIntent", "judgeIntent", "recheckIntent",
                "unlinkStaleIntent"}
AllPcs == AtRest \cup IntentPcs \cup OwnerPcs \cup TakeoverPcs \cup
          {"openLock", "writeLock", "judgeLock", "checkDeadline"}

TypeOK ==
    /\ lock \in Files /\ intent \in Files
    /\ pc \in [Actors -> AllPcs]
    /\ since \in [Actors -> 0 .. HoldBound]
    /\ waited \in [Actors -> 0 .. AcquireBudget]
    /\ seen \in [Actors -> Files] /\ iseen \in [Actors -> Files]
    /\ tries \in [Actors -> 0 .. 2]
    /\ removed \in [Actors -> BOOLEAN]
    /\ calm \in BOOLEAN

Init ==
    /\ lock = NoFile /\ intent = NoFile
    /\ pc = [a \in Actors |-> "idle"]
    /\ since = [a \in Actors |-> 0]
    /\ waited = [a \in Actors |-> 0]
    /\ seen = [a \in Actors |-> NoFile] /\ iseen = [a \in Actors |-> NoFile]
    /\ tries = [a \in Actors |-> 0]
    /\ removed = [a \in Actors |-> FALSE]
    /\ calm = FALSE

Goto(a, from, to) ==
    /\ pc[a] = from
    /\ pc' = [pc EXCEPT ![a] = to]
    /\ calm' = calm

\* a stamped a file: its own clock restarts.
Stamps(a) == since' = [since EXCEPT ![a] = 0]

\* The call touches no file's mtime and the actor runs on.
Runs == UNCHANGED <<since, waited>>

\* The actor leaves acquire() and release() behind.
Rests(a) ==
    /\ since' = [since EXCEPT ![a] = 0]
    /\ waited' = [waited EXCEPT ![a] = 0]

Faulty(kind) == ~calm /\ kind \in Faults
IntentFaulty(kind) == IntentFaults /\ Faulty(kind)

\* A call that changes no file: it only decides what a does next.
Look(a, from, to) ==
    /\ Goto(a, from, to)
    /\ UNCHANGED <<lock, intent, since, waited, claim>>

-----------------------------------------------------------------------------
(* acquire(): the budget starts, then the first attempt. *)
BeginAcquire(a) ==
    /\ Goto(a, "idle", "openLock")
    /\ since' = [since EXCEPT ![a] = 0]
    /\ waited' = [waited EXCEPT ![a] = 0]
    /\ UNCHANGED <<lock, intent, claim>>

(* tryExclusiveCreate: open 'wx'. The new file is empty. *)
OpenLock(a) ==
    /\ ~Exists(lock)
    /\ Goto(a, "openLock", "writeLock")
    /\ lock' = EmptyFile(a)
    /\ Stamps(a)
    /\ UNCHANGED <<intent, waited, claim>>

(* EEXIST; or EPERM, EACCES, EBUSY in the delete-pending window of Windows. *)
OpenLockRefused(a) ==
    /\ Exists(lock) \/ Faulty("denied")
    /\ Look(a, "openLock", "judgeLock")

(* Any other error of mkdir or open leaves acquire() by an exception. *)
OpenLockFails(a) ==
    /\ Faulty("open")
    /\ Goto(a, "openLock", "failed")
    /\ Rests(a)
    /\ UNCHANGED <<lock, intent, claim>>

(* The write goes to the file this actor created; if a claimant removed it *)
(* meanwhile, no file at the path receives it.                             *)
WriteLock(a) ==
    /\ Goto(a, "writeLock", "verifyLock")
    /\ lock' = IF lock.by = a THEN Document(a) ELSE lock
    /\ Stamps(a)
    /\ UNCHANGED <<intent, waited, claim>>

(* A failed write unlinks whatever is at the path, then throws. *)
WriteLockFails(a) ==
    /\ Faulty("write")
    /\ Goto(a, "writeLock", "failed")
    /\ lock' = NoFile
    /\ Rests(a)
    /\ UNCHANGED <<intent, claim>>

(* The read-back: only our own document makes us the holder. *)
VerifyLock(a) ==
    /\ Carries(lock, a)
    /\ Goto(a, "verifyLock", "inside")
    /\ waited' = [waited EXCEPT ![a] = 0]
    /\ UNCHANGED <<lock, intent, since, claim>>

(* Gone, another's document, or unreadable: contend again. *)
VerifyLockFails(a) ==
    /\ ~Carries(lock, a) \/ Faulty("read")
    /\ Look(a, "verifyLock", "judgeLock")

-----------------------------------------------------------------------------
(* refresh() on the heartbeat timer: read, compare, then utimes the path. *)
ReadHeartbeat(a) ==
    /\ Heartbeat
    /\ Carries(lock, a)
    /\ Look(a, "inside", "touch")

TouchLock(a) ==
    /\ Goto(a, "touch", "inside")
    /\ IF Exists(lock)
       THEN lock' = [lock EXCEPT !.age = 0] /\ Stamps(a)
       ELSE UNCHANGED <<lock, since>>
    /\ UNCHANGED <<intent, waited, claim>>

(* release(): no longer held; the lock goes only if it is still ours. *)
Release(a) ==
    /\ Carries(lock, a)
    /\ Look(a, "inside", "unlinkOwn")

ReleaseNotOurs(a) ==
    /\ ~Carries(lock, a) \/ Faulty("read")
    /\ Goto(a, "inside", "idle")
    /\ Rests(a)
    /\ UNCHANGED <<lock, intent, claim>>

(* The unlink names the path, not the file that was read. *)
UnlinkOwn(a) ==
    /\ Goto(a, "unlinkOwn", "idle")
    /\ lock' \in {NoFile} \cup (IF Faulty("unlink") THEN {lock} ELSE {})
    /\ Rests(a)
    /\ UNCHANGED <<intent, claim>>

-----------------------------------------------------------------------------
(* tryStaleTakeover: stat and read the lock. A pair that mixes two files   *)
(* fails the re-validation, so one step observes both.                     *)
JudgeLock(a) ==
    /\ Goto(a, "judgeLock", "openIntent")
    /\ Exists(lock) /\ IsStale(lock, a)
    /\ seen' = [seen EXCEPT ![a] = lock]
    /\ tries' = [tries EXCEPT ![a] = 1]
    /\ Runs
    /\ UNCHANGED <<lock, intent, iseen, removed>>

(* Gone, not stale, or unreadable: nothing to take over. *)
JudgeLockFails(a) ==
    /\ ~Exists(lock) \/ ~IsStale(lock, a) \/ Faulty("read")
    /\ Look(a, "judgeLock", "checkDeadline")

\* tryAcquireTakeoverIntent returns undefined.
GiveUp(a, from) ==
    /\ Goto(a, from, "checkDeadline")
    /\ Runs
    /\ seen' = [seen EXCEPT ![a] = NoFile]
    /\ iseen' = [iseen EXCEPT ![a] = NoFile]
    /\ tries' = [tries EXCEPT ![a] = 0]
    /\ removed' = removed

\* Mutant: createAttempt is not bounded by 2.
NextTryUnbounded(a, from) ==
    /\ Goto(a, from, "openIntent")
    /\ tries' = [tries EXCEPT ![a] = @ + 1]
    /\ iseen' = [iseen EXCEPT ![a] = NoFile]
    /\ Runs
    /\ UNCHANGED <<seen, removed>>

\* The loop's continue: the second iteration, or undefined after it.
NextTry(a, from) ==
    \/ /\ tries[a] = 1
       /\ Goto(a, from, "openIntent")
       /\ tries' = [tries EXCEPT ![a] = 2]
       /\ iseen' = [iseen EXCEPT ![a] = NoFile]
       /\ Runs
       /\ UNCHANGED <<seen, removed>>
    \/ /\ tries[a] # 1
       /\ GiveUp(a, from)

\* Mutant: the intent is opened 'w', not 'wx'.
OpenIntentShared(a) ==
    /\ Goto(a, "openIntent", "writeIntent")
    /\ intent' = EmptyFile(a)
    /\ tries' = [tries EXCEPT ![a] = 0]
    /\ Stamps(a)
    /\ UNCHANGED <<lock, waited, seen, iseen, removed>>

OpenIntent(a) ==
    /\ ~Exists(intent)
    /\ Goto(a, "openIntent", "writeIntent")
    /\ intent' = EmptyFile(a)
    /\ tries' = [tries EXCEPT ![a] = 0]
    /\ Stamps(a)
    /\ UNCHANGED <<lock, waited, seen, iseen, removed>>

OpenIntentExists(a) ==
    /\ Exists(intent)
    /\ Look(a, "openIntent", "judgeIntent")

OpenIntentFails(a) ==
    /\ Faulty("open") \/ Faulty("denied")
    /\ GiveUp(a, "openIntent")
    /\ UNCHANGED <<lock, intent>>

\* Mutant: a stale intent is respected like a live one.
JudgeIntentAlwaysLive(a) ==
    /\ Exists(intent) /\ IsStale(intent, a)
    /\ GiveUp(a, "judgeIntent")
    /\ UNCHANGED <<lock, intent>>

(* The holder of the intent crashed if the intent is stale. *)
JudgeIntent(a) ==
    /\ Exists(intent) /\ IsStale(intent, a)
    /\ Goto(a, "judgeIntent", "recheckIntent")
    /\ iseen' = [iseen EXCEPT ![a] = intent]
    /\ Runs
    /\ UNCHANGED <<lock, intent, seen, tries, removed>>

JudgeIntentLive(a) ==
    /\ Exists(intent) /\ ~IsStale(intent, a)
    /\ GiveUp(a, "judgeIntent")
    /\ UNCHANGED <<lock, intent>>

(* The compare of compare-and-delete; nothing serializes it. *)
RecheckIntent(a) ==
    /\ Exists(intent) /\ SameArtifact(intent, iseen[a])
    /\ Look(a, "recheckIntent", "unlinkStaleIntent")

RecheckIntentChanged(a) ==
    /\ Exists(intent) /\ ~SameArtifact(intent, iseen[a])
    /\ GiveUp(a, "recheckIntent")
    /\ UNCHANGED <<lock, intent>>

(* The intent vanished, or cannot be read, when judged or compared. *)
IntentVanished(a) ==
    /\ ~Exists(intent) \/ Faulty("read")
    /\ NextTry(a, "judgeIntent") \/ NextTry(a, "recheckIntent")
    /\ UNCHANGED <<lock, intent>>

UnlinkStaleIntent(a) ==
    /\ Exists(intent)
    /\ intent' = NoFile
    /\ NextTry(a, "unlinkStaleIntent")
    /\ UNCHANGED lock

UnlinkStaleIntentFails(a) ==
    /\ ~Exists(intent) \/ Faulty("unlink")
    /\ GiveUp(a, "unlinkStaleIntent")
    /\ UNCHANGED <<lock, intent>>

WriteIntent(a) ==
    /\ Goto(a, "writeIntent", "verifyIntent")
    /\ intent' = IF intent.by = a THEN Document(a) ELSE intent
    /\ Stamps(a)
    /\ UNCHANGED <<lock, waited, claim>>

WriteIntentFails(a) ==
    /\ Faulty("write")
    /\ Goto(a, "writeIntent", "failed")
    /\ intent' = NoFile
    /\ seen' = [seen EXCEPT ![a] = NoFile]
    /\ Rests(a)
    /\ UNCHANGED <<lock, iseen, tries, removed>>

VerifyIntent(a) ==
    /\ Carries(intent, a)
    /\ Look(a, "verifyIntent", "revalidate")

(* Displaced, or unreadable; the latter leaves our intent behind. *)
VerifyIntentFails(a) ==
    /\ ~Carries(intent, a) \/ IntentFaulty("read")
    /\ GiveUp(a, "verifyIntent")
    /\ UNCHANGED <<lock, intent>>

-----------------------------------------------------------------------------
\* Mutant: the winner of the intent trusts what it judged before.
RevalidateNothing(a) ==
    /\ Exists(lock)
    /\ Look(a, "revalidate", "checkIntent")

(* Under the intent: remove exactly the artifact that was judged stale. *)
Revalidate(a) ==
    /\ Exists(lock) /\ SameArtifact(lock, seen[a])
    /\ Look(a, "revalidate", "checkIntent")

RevalidateFails(a) ==
    /\ ~Exists(lock) \/ ~SameArtifact(lock, seen[a]) \/ Faulty("read")
    /\ Look(a, "revalidate", "readIntent")

(* Is the authority to remove still ours, immediately before using it? *)
CheckIntent(a) ==
    /\ Carries(intent, a)
    /\ Look(a, "checkIntent", "unlinkLock")

CheckIntentFails(a) ==
    /\ ~Carries(intent, a) \/ Faulty("read")
    /\ Look(a, "checkIntent", "readIntent")

UnlinkLock(a) ==
    /\ Exists(lock)
    /\ Goto(a, "unlinkLock", "readIntent")
    /\ lock' = NoFile
    /\ removed' = [removed EXCEPT ![a] = TRUE]
    /\ Runs
    /\ UNCHANGED <<intent, seen, iseen, tries>>

UnlinkLockFails(a) ==
    /\ ~Exists(lock) \/ Faulty("unlink")
    /\ Look(a, "unlinkLock", "readIntent")

\* tryStaleTakeover returns: race for the lock at once, or see the deadline.
Return(a, from) ==
    /\ Goto(a, from, IF removed[a] THEN "openLock" ELSE "checkDeadline")
    /\ seen' = [seen EXCEPT ![a] = NoFile]
    /\ removed' = [removed EXCEPT ![a] = FALSE]
    /\ Runs
    /\ UNCHANGED <<iseen, tries>>

(* releaseTakeoverIntent: read, compare, unlink. *)
ReadIntent(a) ==
    /\ Carries(intent, a)
    /\ Look(a, "readIntent", "unlinkIntent")

ReadIntentNotOurs(a) ==
    /\ ~Carries(intent, a) \/ IntentFaulty("read")
    /\ Return(a, "readIntent")
    /\ UNCHANGED <<lock, intent>>

UnlinkIntent(a) ==
    /\ Return(a, "unlinkIntent")
    /\ intent' \in {NoFile} \cup (IF IntentFaulty("unlink") THEN {intent}
                                                           ELSE {})
    /\ UNCHANGED lock

-----------------------------------------------------------------------------
\* Mutant: the budget does not outlive the stale bar.
DeadlineTooShort(a) ==
    /\ waited[a] >= LockStale - 1
    /\ Goto(a, "checkDeadline", "busy")
    /\ since' = [since EXCEPT ![a] = 0]
    /\ waited' = [waited EXCEPT ![a] = 0]
    /\ UNCHANGED <<lock, intent, claim>>

\* Mutant: when the budget is spent the caller proceeds without the lock.
DeadlineIgnored(a) ==
    /\ waited[a] >= AcquireBudget
    /\ Goto(a, "checkDeadline", "inside")
    /\ waited' = [waited EXCEPT ![a] = 0]
    /\ UNCHANGED <<lock, intent, since, claim>>

(* The budget is spent: CredentialLockBusyError. *)
DeadlinePassed(a) ==
    /\ waited[a] >= AcquireBudget
    /\ Goto(a, "checkDeadline", "busy")
    /\ since' = [since EXCEPT ![a] = 0]
    /\ waited' = [waited EXCEPT ![a] = 0]
    /\ UNCHANGED <<lock, intent, claim>>

Sleep(a) ==
    /\ waited[a] < AcquireBudget
    /\ Goto(a, "checkDeadline", "asleep")
    /\ since' = [since EXCEPT ![a] = 0]
    /\ UNCHANGED <<lock, intent, waited, claim>>

Awake(a) == Look(a, "asleep", "openLock")

(* The caller surfaces "busy" or the error, and may come back later. *)
Surface(a) ==
    /\ Goto(a, "busy", "idle") \/ Goto(a, "failed", "idle")
    /\ Rests(a)
    /\ UNCHANGED <<lock, intent, claim>>

-----------------------------------------------------------------------------
(* The process dies; its files stay. *)
Crash(a) ==
    /\ Faulty("crash")
    /\ pc[a] # "dead"
    /\ pc[a] \in IntentPcs => IntentFaults
    /\ Goto(a, pc[a], "dead")
    /\ seen' = [seen EXCEPT ![a] = NoFile]
    /\ iseen' = [iseen EXCEPT ![a] = NoFile]
    /\ tries' = [tries EXCEPT ![a] = 0]
    /\ removed' = [removed EXCEPT ![a] = FALSE]
    /\ Rests(a)
    /\ UNCHANGED <<lock, intent>>

(* Another process of the same host takes the dead one's place. *)
Restart(a) == Look(a, "dead", "idle")

AgedFile(file) ==
    IF Exists(file) THEN [file EXCEPT !.age = Older(file.age, MaxAge)]
                    ELSE file

Running(a) == pc[a] \notin AtRest
Acquiring(a) == pc[a] \notin {"idle", "busy", "failed", "dead", "inside",
                              "touch", "unlinkOwn"}

(* The environment stops injecting faults. *)
CalmDown ==
    /\ CalmsDown /\ ~calm
    /\ calm' = TRUE
    /\ UNCHANGED <<lock, intent, pc, since, waited, claim>>

Tick ==
    /\ \A a \in Actors : Running(a) => since[a] < HoldBound
    /\ lock' = AgedFile(lock) /\ intent' = AgedFile(intent)
    /\ seen' = [a \in Actors |-> AgedFile(seen[a])]
    /\ iseen' = [a \in Actors |-> AgedFile(iseen[a])]
    /\ since' = [a \in Actors |-> IF Running(a) THEN since[a] + 1
                                                ELSE since[a]]
    /\ waited' = [a \in Actors |-> IF Acquiring(a)
                                   THEN Older(waited[a], AcquireBudget)
                                   ELSE waited[a]]
    /\ UNCHANGED <<pc, tries, removed, calm>>

Acquire(a) ==
    \/ OpenLock(a) \/ OpenLockRefused(a) \/ OpenLockFails(a)
    \/ WriteLock(a) \/ WriteLockFails(a)
    \/ VerifyLock(a) \/ VerifyLockFails(a)
    \/ DeadlinePassed(a) \/ Sleep(a) \/ Awake(a)

TakeIntent(a) ==
    \/ JudgeLock(a) \/ JudgeLockFails(a)
    \/ OpenIntent(a) \/ OpenIntentExists(a) \/ OpenIntentFails(a)
    \/ JudgeIntent(a) \/ JudgeIntentLive(a) \/ IntentVanished(a)
    \/ RecheckIntent(a) \/ RecheckIntentChanged(a)
    \/ UnlinkStaleIntent(a) \/ UnlinkStaleIntentFails(a)
    \/ WriteIntent(a) \/ WriteIntentFails(a)
    \/ VerifyIntent(a) \/ VerifyIntentFails(a)

RemoveStale(a) ==
    \/ Revalidate(a) \/ RevalidateFails(a)
    \/ CheckIntent(a) \/ CheckIntentFails(a)
    \/ UnlinkLock(a) \/ UnlinkLockFails(a)
    \/ ReadIntent(a) \/ ReadIntentNotOurs(a) \/ UnlinkIntent(a)

LeaveSection(a) == Release(a) \/ ReleaseNotOurs(a) \/ UnlinkOwn(a)

Beat(a) == ReadHeartbeat(a) \/ TouchLock(a)

Next ==
    \/ Tick
    \/ \E a \in Actors :
        \/ BeginAcquire(a) \/ Acquire(a) \/ TakeIntent(a) \/ RemoveStale(a)
        \/ LeaveSection(a) \/ Beat(a) \/ Surface(a)
        \/ Crash(a) \/ Restart(a)
    \/ CalmDown

Spec == Init /\ [][Next]_vars

(* The event loop runs every actor's next call, release() runs in a        *)
(* finally block, and time passes. Starting an acquisition, dying and      *)
(* being restarted are the environment's choice.                           *)
Fairness ==
    /\ WF_vars(Tick) /\ WF_vars(CalmDown)
    /\ \A a \in Actors : WF_vars(\/ Acquire(a) \/ TakeIntent(a)
                                 \/ RemoveStale(a) \/ LeaveSection(a)
                                 \/ TouchLock(a))

FairSpec == Spec /\ Fairness

-----------------------------------------------------------------------------
(* Correctness *)

\* The abstract state of an actor.
PhaseOf(a) ==
    CASE pc[a] \in {"idle", "unlinkOwn"} -> "out"
      [] pc[a] \in {"inside", "touch"} -> "inside"
      [] pc[a] \in {"busy", "failed"} -> "refused"
      [] pc[a] = "dead" -> "crashed"
      [] OTHER -> "waiting"

Section == INSTANCE ExclusiveSection
               WITH phase <- [a \in Actors |-> PhaseOf(a)]

\* The protocol implements the exclusive section: two actors are never
\* inside together and an actor refused with "busy" is out of it.
ImplementsSection == Section!Spec

\* A lock that is held, or about to be released, carries its holder's
\* document: no claimant removed or replaced it (credential-lock.ts:61-64).
HolderOwnsLock ==
    \A a \in Actors :
        pc[a] \in {"inside", "touch", "unlinkOwn"} => Carries(lock, a)

\* The intent file is an arbiter: of all claimants that judged the lock
\* stale, at most one is past the intent (credential-lock.ts:519-522).
OneRemover ==
    \A a, b \in Actors :
        /\ pc[a] \in {"checkIntent", "unlinkLock"}
        /\ pc[b] \in {"checkIntent", "unlinkLock"}
        => a = b

\* What the unlink of a takeover removes is the very artifact that was
\* judged stale, although the unlink names only the path.
RemovalIsExact ==
    \A a \in Actors :
        pc[a] = "unlinkLock" => Exists(lock) /\ SameArtifact(lock, seen[a])

\* A lock written on another host is removed only beyond its 24 h bar, so a
\* live holder there is never judged by the short one.
ForeignLockKept ==
    [][\A a \in Actors :
        /\ pc[a] = "unlinkLock" /\ lock' = NoFile
        /\ lock.full /\ HostOf[lock.by] # HostOf[a]
        => lock.age >= ForeignStale]_vars

\* release() of a holder that overstayed never deletes the lock of the peer
\* that took it over.
ReleaseSparesPeers ==
    [][\A a \in Actors :
        /\ pc[a] = "unlinkOwn" /\ pc'[a] = "idle" /\ lock' # lock
        => Carries(lock, a)]_vars

\* No leftover of a dead process, and no file a fault left behind, wedges the
\* store: once the faults end, actors that keep trying keep getting in.
NoWedge ==
    []<>calm /\ []<>(\E a \in Actors : pc[a] = "openLock")
    => []<>(\E a \in Actors : pc[a] = "inside")

=============================================================================
