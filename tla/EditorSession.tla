---------------------------- MODULE EditorSession ----------------------------
(***************************************************************************)
(* The editor of one project (src/src/editor-session.ts): calls of the CLI *)
(* that need a running editor (ensure), that close the one a CLI started   *)
(* (closeOwned) or that close it to open a window (prepareWindowOpen).     *)
(* They share the lease file and the startup lock; the editors are         *)
(* processes, known by a pid that the system reuses once it is free. Users *)
(* open editors of their own, and editors become ready and exit at any     *)
(* time.                                                                   *)
(*                                                                         *)
(* The start time of a process is the number of its start. The nonce of a  *)
(* lease is the number of the start that it was written for. A call that   *)
(* changes nothing is left out: a warm probe, a close without a lease, an  *)
(* adapter that starts no editor.                                          *)
(***************************************************************************)
EXTENDS Naturals

CONSTANTS
    Calls,      \* the calls of the CLI, each a process
    Pids,       \* the process ids of this machine
    None,       \* no process, no lease, an unknown start time or pid
    MaxRounds,  \* MAX_ENSURE_ROUNDS
    MaxStarts,  \* bound: processes started
    MaxFaults   \* bound: crashes, lost locks, failed scans and writes

Starts == 1 .. MaxStarts
Process == [born : Starts, kind : {"own", "foreign", "other"}]
Lease == [pid : Pids, nonce : 0 .. MaxStarts, start : Starts \cup {None},
          here : BOOLEAN]

ASSUME SessionAssumption ==
    /\ MaxRounds \in Nat \ {0} /\ MaxStarts \in Nat /\ MaxFaults \in Nat
    /\ Pids # {}
    /\ None \notin Calls /\ None \notin Pids /\ None \notin Nat
    /\ None \notin Process /\ None \notin Lease

VARIABLES
    process,    \* what runs under each pid
    starts,     \* how many processes were started
    lease,      \* .ai-game-dev/session.json
    lock,       \* who holds .ai-game-dev/session.lock
    at,         \* what a call does next
    work,       \* its local variables
    overlooked, \* history: the editors that run although a scan reported none
    faults      \* how often something went wrong

machine == <<process, starts>>
files == <<lease, lock>>
history == <<overlooked, faults>>
vars == <<machine, files, at, work, history>>

\* lease: the lease that the call read, or wrote. pid: the process it watches.
\* born: the editor that it starts. missed: the last scan for an editor of the
\* user found none. seen: the starts at its last look before it starts an
\* editor or stops one.
Work == [op : {"ensure", "close"}, round : 1 .. MaxRounds, binary : BOOLEAN,
         lease : Lease \cup {None}, pid : Pids \cup {None},
         born : Starts \cup {None}, missed : BOOLEAN, seen : 0 .. MaxStarts]
NoWork == [op |-> "ensure", round |-> 1, binary |-> FALSE, lease |-> None,
           pid |-> None, born |-> None, missed |-> FALSE, seen |-> 0]

Pcs == {"idle", "lock", "judge", "scan", "resolve", "hook", "record", "await",
        "request", "exit", "expired", "kill", "killed", "cleanup", "dead"}

TypeOK ==
    /\ process \in [Pids -> Process \cup {None}]
    /\ starts \in 0 .. MaxStarts
    /\ lease \in Lease \cup {None}
    /\ lock \in Calls \cup {None}
    /\ at \in [Calls -> Pcs]
    /\ work \in [Calls -> Work]
    /\ overlooked \subseteq Starts
    /\ faults \in 0 .. MaxFaults

\* Nothing runs. The project may be shared with a machine that left its lease.
Init ==
    /\ process = [p \in Pids |-> None]
    /\ starts = 0
    /\ lease \in {None, [pid |-> CHOOSE p \in Pids : TRUE, nonce |-> 0,
                        start |-> None, here |-> FALSE]}
    /\ lock = None
    /\ at = [c \in Calls |-> "idle"]
    /\ work = [c \in Calls |-> NoWork]
    /\ overlooked = {} /\ faults = 0
-----------------------------------------------------------------------------
Alive(p) == process[p] # None
Editor(p) == Alive(p) /\ process[p].kind # "other"
Editors == {p \in Pids : Editor(p)}
Own(b) == \E p \in Pids : Alive(p) /\ process[p].kind = "own" /\ process[p].born = b

\* leaseState, which cannot always read the start time of a process.
LeaseState(l) ==
    IF ~l.here \/ ~Alive(l.pid) THEN {"dead"}
    ELSE IF l.start = None THEN {"unverifiable"}
    ELSE {"unverifiable",
          IF process[l.pid].born = l.start THEN "live" ELSE "dead"}

WithoutAny(l) == IF l # None THEN None ELSE lease

\* removeLease: only the lease that still carries the nonce.
Without(l) ==
    IF l # None /\ lease # None /\ lease.nonce = l.nonce /\ lease.here = l.here
    THEN None ELSE lease

Disturb == faults < MaxFaults /\ faults' = faults + 1

Goes(c, place) == at' = [at EXCEPT ![c] = place]
Unlock(c) == lock' = IF lock = c THEN None ELSE lock
Ends(c) ==
    /\ Goes(c, "idle")
    /\ work' = [work EXCEPT ![c] = NoWork]
-----------------------------------------------------------------------------
(* ensure: decide under the startup lock.                                  *)

\* No probe answered at the start.
CallEnsure(c) ==
    /\ at[c] = "idle"
    /\ Goes(c, "lock")
    /\ work' = [work EXCEPT ![c] = NoWork]
    /\ UNCHANGED <<machine, files, history>>

Enter(c) ==
    /\ at[c] = "lock" /\ lock = None
    /\ lock' = c
    /\ Goes(c, "judge")
    /\ work' = [work EXCEPT ![c].lease = lease]
    /\ UNCHANGED <<machine, lease, history>>

LockBusy(c) ==
    /\ at[c] = "lock" /\ lock # None
    /\ Ends(c)
    /\ UNCHANGED <<machine, files, history>>

\* A lease that is not provably dead: wait for its editor.
Join(c) ==
    /\ at[c] = "judge" /\ work[c].op = "ensure" /\ work[c].lease # None
    /\ LeaseState(work[c].lease) # {"dead"}
    /\ Unlock(c)
    /\ Goes(c, "await")
    /\ work' = [work EXCEPT ![c].lease = None, ![c].pid = work[c].lease.pid]
    /\ UNCHANGED <<machine, lease, history>>

NoLease(c) ==
    /\ at[c] = "judge" /\ work[c].op = "ensure"
    /\ work[c].lease # None => "dead" \in LeaseState(work[c].lease)
    /\ Goes(c, "scan")
    /\ UNCHANGED <<machine, files, work, history>>

\* findRunningEditor reports an editor, with its pid or without.
FindsEditor(c) ==
    /\ at[c] = "scan"
    /\ \E p \in Editors, pid \in Pids \cup {None} :
        /\ pid \in {p, None}
        /\ work' = [work EXCEPT ![c].lease = None, ![c].pid = pid]
    /\ Unlock(c)
    /\ Goes(c, "await")
    /\ UNCHANGED <<machine, lease, history>>

SkipScan == UNCHANGED history

\* A scan that reports nothing; it may overlook what runs.
FindsNothing ==
    \/ Editors = {} /\ UNCHANGED history
    \/ /\ Editors # {} /\ Disturb
       /\ overlooked' = overlooked \cup {process[p].born : p \in Editors}

MustResolve(c) ==
    /\ at[c] = "scan" /\ ~work[c].binary
    /\ FindsNothing
    /\ Unlock(c)
    /\ Goes(c, "resolve")
    /\ work' = [work EXCEPT ![c].lease = None]
    /\ UNCHANGED <<machine, lease>>

Resolve(c) ==
    /\ at[c] = "resolve"
    /\ \/ Goes(c, "lock")
          /\ work' = [work EXCEPT ![c].binary = TRUE]
       \/ Ends(c)
    /\ UNCHANGED <<machine, files, history>>

\* The launch is decided: the stale lease goes and the hook runs.
MayLaunch(c) ==
    /\ at[c] = "scan" /\ work[c].binary
    /\ FindsNothing
    /\ lease' = IF work[c].lease # None /\ work[c].lease.here
                THEN Without(work[c].lease) ELSE lease
    /\ Goes(c, "hook")
    /\ work' = [work EXCEPT ![c].lease = None, ![c].seen = starts]
    /\ UNCHANGED <<machine, lock>>
-----------------------------------------------------------------------------
(* ensure: launch, then wait.                                              *)

\* beforeLaunch throws, or the editor cannot be started.
LaunchFails(c) ==
    /\ at[c] = "hook"
    /\ Unlock(c)
    /\ Ends(c)
    /\ UNCHANGED <<machine, lease, history>>

AgainAlways(c) ==
    /\ Goes(c, "lock")
    /\ work' = [work EXCEPT ![c] = [NoWork EXCEPT !.binary = work[c].binary,
                                                  !.round = work[c].round + 1]]

\* Decide again, unless this was the last round.
Again(c) ==
    IF work[c].round < MaxRounds
    THEN /\ Goes(c, "lock")
         /\ work' = [work EXCEPT ![c] = [NoWork EXCEPT !.binary = work[c].binary,
                                                       !.round = work[c].round + 1]]
    ELSE Ends(c)

\* lock.refresh() finds another holder.
LockLost(c) ==
    /\ at[c] = "hook" /\ lock # c
    /\ Again(c)
    /\ UNCHANGED <<machine, files, history>>

\* lock.refresh() and the start of the process, with no await between them.
SpawnUnchecked(c) ==
    /\ at[c] = "hook"
    /\ starts < MaxStarts /\ starts' = starts + 1
    /\ \E p \in Pids :
        /\ ~Alive(p)
        /\ process' = [process EXCEPT ![p] =
                        [born |-> starts + 1, kind |-> "own"]]
        /\ work' = [work EXCEPT ![c] = [NoWork EXCEPT !.pid = p, !.born = starts + 1]]
    /\ Goes(c, "record")
    /\ UNCHANGED <<files, history>>

Spawn(c) == lock = c /\ SpawnUnchecked(c)

\* The start time that launch reads from a pid it just got.
Recorded(p) == {None} \cup (IF Alive(p) THEN {process[p].born} ELSE {})

Record(c) ==
    /\ at[c] = "record"
    /\ \E start \in Recorded(work[c].pid) :
        lease' = [pid |-> work[c].pid, nonce |-> work[c].born,
                  start |-> start, here |-> TRUE]
    /\ work' = [work EXCEPT ![c].born = None, ![c].lease = lease']
    /\ Unlock(c)
    /\ Goes(c, "await")
    /\ UNCHANGED <<machine, history>>

\* The lease cannot be written: the call fails and the editor runs on.
RecordFails(c) ==
    /\ at[c] = "record" /\ Disturb
    /\ Unlock(c)
    /\ Ends(c)
    /\ UNCHANGED <<machine, lease, overlooked>>

Gone(c) == work[c].pid # None /\ ~Alive(work[c].pid)

\* The editor of somebody else exited: waitOrRetry.
WaitedGone(c) ==
    /\ at[c] = "await" /\ work[c].lease = None /\ Gone(c)
    /\ Again(c)
    /\ UNCHANGED <<machine, files, history>>

\* foreignGone without a pid: it takes two misses in a row.
Rescan(c) ==
    /\ at[c] = "await" /\ work[c].pid = None
    /\ \/ /\ Editors # {} /\ work[c].missed
          /\ work' = [work EXCEPT ![c].missed = FALSE]
          /\ UNCHANGED <<at, history>>
       \/ /\ FindsNothing /\ ~work[c].missed
          /\ work' = [work EXCEPT ![c].missed = TRUE]
          /\ UNCHANGED <<at>>
       \/ FindsNothing /\ work[c].missed /\ Again(c)
    /\ UNCHANGED <<machine, files>>

\* The editor this call started exited: its lease goes, if it is still there.
StartedGone(c) ==
    /\ at[c] = "await" /\ work[c].lease # None /\ Gone(c)
    /\ Goes(c, "cleanup")
    /\ UNCHANGED <<machine, files, work, history>>

Ready(c) ==
    /\ at[c] = "await" /\ ~Gone(c)
    /\ Editors # {}
    /\ Ends(c)
    /\ UNCHANGED <<machine, files, history>>

NotReadyKnown(c) ==
    /\ at[c] = "await" /\ ~Gone(c) /\ work[c].pid # None
    /\ Ends(c)
    /\ UNCHANGED <<machine, files, history>>

\* The probe did not answer in time. The editor keeps its lease.
NotReady(c) ==
    /\ at[c] = "await" /\ ~Gone(c)
    /\ Ends(c)
    /\ UNCHANGED <<machine, files, history>>
-----------------------------------------------------------------------------
(* closeOwned and prepareWindowOpen.                                       *)

CallClose(c) ==
    /\ at[c] = "idle" /\ lease # None
    /\ work' = [work EXCEPT ![c] = [NoWork EXCEPT !.op = "close", !.lease = lease]]
    /\ Goes(c, "judge")
    /\ UNCHANGED <<machine, files, history>>

\* Not provably ours. A call that opens a window declines a dead lease as well,
\* and one whose editor shows a window.
Declines(c) ==
    /\ at[c] = "judge" /\ work[c].op = "close"
    /\ Ends(c)
    /\ UNCHANGED <<machine, files, history>>

\* A dead lease of this machine.
StaleLease(c) ==
    /\ at[c] = "judge" /\ work[c].op = "close" /\ work[c].lease.here
    /\ "dead" \in LeaseState(work[c].lease)
    /\ Goes(c, "cleanup")
    /\ UNCHANGED <<machine, files, work, history>>

\* The lease is of a live editor: close it.
CloseLease(c) ==
    /\ at[c] = "judge" /\ work[c].op = "close"
    /\ "live" \in LeaseState(work[c].lease)
    /\ work' = [work EXCEPT ![c].pid = work[c].lease.pid, ![c].seen = starts]
    /\ Goes(c, "request")
    /\ UNCHANGED <<machine, files, history>>

\* The request reaches whatever runs under the pid, or is not delivered.
Request(c) ==
    /\ at[c] = "request"
    /\ \/ Goes(c, "exit")
       \/ Alive(work[c].pid) /\ Goes(c, "expired")
    /\ work' = [work EXCEPT ![c].seen = 0]
    /\ UNCHANGED <<machine, files, history>>

ExitedOrNot(c) ==
    /\ at[c] \in {"exit", "expired", "killed"}
    /\ Goes(c, "cleanup")
    /\ UNCHANGED <<machine, files, work, history>>

Exited(c) ==
    /\ at[c] \in {"exit", "expired", "killed"} /\ Gone(c)
    /\ Goes(c, "cleanup")
    /\ UNCHANGED <<machine, files, work, history>>

WaitExpires(c) ==
    /\ at[c] = "exit" /\ ~Gone(c)
    /\ Goes(c, "expired")
    /\ UNCHANGED <<machine, files, work, history>>

ReverifyNot(c) ==
    /\ at[c] = "expired"
    /\ work' = [work EXCEPT ![c].seen = starts]
    /\ Goes(c, "kill")
    /\ UNCHANGED <<machine, files, history>>

\* With force, the identity is checked again right before the kill.
Reverify(c) ==
    /\ at[c] = "expired"
    /\ "live" \in LeaseState(work[c].lease)
    /\ work' = [work EXCEPT ![c].seen = starts]
    /\ Goes(c, "kill")
    /\ UNCHANGED <<machine, files, history>>

Kill(c) ==
    /\ at[c] = "kill"
    /\ Goes(c, "killed")
    /\ work' = [work EXCEPT ![c].seen = 0]
    /\ UNCHANGED <<machine, files, history>>

StillRunning(c) ==
    /\ at[c] \in {"expired", "killed"} /\ ~Gone(c)
    /\ Ends(c)
    /\ UNCHANGED <<machine, files, history>>

\* removeLeaseLocked: under the lock, which is held for the removal only, or
\* not at all when it stays busy.
Cleanup(c) ==
    /\ at[c] = "cleanup"
    /\ \/ lock = None /\ lease' = Without(work[c].lease)
       \/ lock # None /\ UNCHANGED lease
    /\ Ends(c)
    /\ UNCHANGED <<machine, lock, history>>
-----------------------------------------------------------------------------
(* The environment.                                                        *)

\* The call dies. The lock it held stays until it is stale.
Crash(c) ==
    /\ at[c] \notin {"idle", "dead"} /\ Disturb
    /\ at' = [at EXCEPT ![c] = IF lock = c THEN "dead" ELSE "idle"]
    /\ work' = [work EXCEPT ![c] = NoWork]
    /\ UNCHANGED <<machine, files, overlooked>>

StaleLock(c) ==
    /\ at[c] = "dead"
    /\ lock' = None
    /\ Goes(c, "idle")
    /\ UNCHANGED <<machine, lease, work, history>>

\* The machine slept, and the heartbeat with it: a peer takes the lock over.
LoseLock(c) ==
    /\ lock = c /\ at[c] # "dead" /\ Disturb
    /\ lock' = None
    /\ UNCHANGED <<machine, lease, at, work, overlooked>>

\* An editor started by a CLI may take its own lease along.
Exits(p) ==
    /\ Alive(p)
    /\ process' = [process EXCEPT ![p] = None]
    /\ \/ UNCHANGED lease
       \/ /\ process[p].kind = "own" /\ lease # None
          /\ lease.here /\ lease.nonce = process[p].born
          /\ lease' = None
    /\ overlooked' = overlooked \ {process[p].born}
    /\ UNCHANGED <<starts, lock, at, work, faults>>

\* The user opens the project, or another program gets the pid.
StartsElsewhere(p) ==
    /\ ~Alive(p)
    /\ starts < MaxStarts /\ starts' = starts + 1
    /\ \E kind \in {"foreign", "other"} :
        process' = [process EXCEPT ![p] =
                        [born |-> starts + 1, kind |-> kind]]
    /\ UNCHANGED <<files, at, work, history>>

Ensure(c) ==
    \/ Enter(c) \/ LockBusy(c) \/ Join(c) \/ NoLease(c) \/ FindsEditor(c)
    \/ MustResolve(c) \/ Resolve(c) \/ MayLaunch(c) \/ LaunchFails(c)
    \/ LockLost(c) \/ Spawn(c) \/ Record(c) \/ RecordFails(c)
    \/ WaitedGone(c) \/ StartedGone(c) \/ Ready(c) \/ NotReady(c)

Close(c) ==
    \/ Declines(c) \/ StaleLease(c) \/ CloseLease(c) \/ Request(c) \/ Exited(c)
    \/ WaitExpires(c) \/ Reverify(c) \/ Kill(c) \/ StillRunning(c) \/ Cleanup(c)

Next ==
    \/ \E c \in Calls :
        \/ CallEnsure(c) \/ CallClose(c)
        \/ Ensure(c) \/ Rescan(c) \/ Close(c)
        \/ Crash(c) \/ StaleLock(c) \/ LoseLock(c)
    \/ \E p \in Pids : Exits(p) \/ StartsElsewhere(p)

\* A call that can go on does so: its waits poll and time out.
Fairness == \A c \in Calls : WF_vars(Ensure(c) \/ Close(c))

Spec == Init /\ [][Next]_vars /\ Fairness
-----------------------------------------------------------------------------
(* What the session promises.                                              *)

\* One start per project: of two editors that CLI calls started and that both
\* run, a scan had overlooked the first when the second was started. Lock,
\* lease and scan only do this together, and a lock may be lost in between.
SoleOwnEditor ==
    \A a, b \in Starts : (a < b /\ Own(a) /\ Own(b)) => a \in overlooked

\* A call starts an editor only where no other one is open, but for one that
\* its scan overlooked and for one that the user opened since, during the
\* hook.
StartsOverNone ==
    [][\A c \in Calls, p \in Pids :
        (at[c] = "hook" /\ at'[c] = "record" /\ Editor(p)) =>
            \/ process[p].born \in overlooked
            \/ process[p].kind = "foreign" /\ process[p].born > work[c].seen]_vars

\* Only an editor whose lease is valid is ever closed: a process that is asked
\* to quit, or killed, has the start time that the lease records, or got the
\* pid after the very last check.
OnlyLeasedStruck ==
    \A c \in Calls :
        (at[c] \in {"request", "kill"} /\ Alive(work[c].pid)) =>
            LET born == process[work[c].pid].born
            IN  born = work[c].lease.start \/ born > work[c].seen

\* Compare-and-delete: while the editor of a lease runs, its lease stays,
\* unless the lock was lost or a scan failed and a second editor was started.
\* A lease of another machine is never just removed.
LiveLeaseKept ==
    [][/\ \A b \in Starts :
            (lease # None /\ lease.here /\ lease.nonce = b /\ lease' # lease
               /\ Own(b)') => faults > 0 /\ lease' # None
       /\ (lease # None /\ ~lease.here) => lease' # None]_vars

\* A call reports an editor closed, or takes its lease away, only when that
\* editor is gone for good.
ClosedMeansGone ==
    \A c \in Calls : at[c] = "cleanup" => ~Own(work[c].lease.nonce)

\* Every call ends, however editors come and go: a lock is waited for up to a
\* budget, an editor up to a timeout, and the rounds are bounded.
CallEnds(c) == at[c] # "idle" ~> at[c] \in {"idle", "dead"}
=============================================================================
