------------------------- MODULE EditorSessionProofs -------------------------
(***************************************************************************)
(* The editor of one project, for any calls, pids and rounds, and any      *)
(* number of starts and mishaps: what a call remembers of a lease, of its  *)
(* last look and of the editor it started stays true while processes come  *)
(* and go, and with it the lease is only ever used against its own editor. *)
(***************************************************************************)
EXTENDS EditorSession, TLAPS

\* A process of start b runs under p; under any pid.
RunsAt(b, p) == Alive(p) /\ process[p].born = b
Runs(b) == \E p \in Pids : RunsAt(b, p)

\* A lease of this machine is tied to one start, and that one to one pid. A
\* start time that is not the one of the start was read too late.
Tied(l) == l.here =>
    /\ l.nonce <= starts
    /\ \A p \in Pids : RunsAt(l.nonce, p) => p = l.pid
    /\ l.start \in {None, l.nonce} \/ ~Runs(l.nonce)

Striking == {"request", "exit", "expired", "kill", "killed"}

\* The lease a call carries is tied, is the one of the process that it watches,
\* and is given up only when its editor is gone.
Carries(c) ==
    LET l == work[c].lease IN
    /\ l # None => Tied(l)
    /\ at[c] \in Striking \cup {"cleanup"} => l # None /\ l.here
    /\ at[c] \in {"lock", "scan", "resolve"} => work[c].op = "ensure"
    /\ at[c] = "judge" /\ work[c].op = "close" => l # None
    /\ at[c] = "await" /\ l # None => l.here
    /\ at[c] \in Striking \/ (at[c] = "await" /\ l # None) =>
        work[c].pid = l.pid
    /\ at[c] = "cleanup" => ~Runs(l.nonce)
    /\ at[c] = "scan" /\ l # None /\ l.here => ~Runs(l.nonce)

\* An editor that a call starting one at its look at n may leave aside.
Excused(p, n) ==
    \/ process[p].born \in overlooked
    \/ process[p].kind = "foreign" /\ process[p].born > n

\* What a call saw at its last look still counts.
Looked(c) ==
    /\ work[c].seen <= starts
    /\ at[c] = "hook" /\ lock = c =>
            \A p \in Editors : Excused(p, work[c].seen)
    /\ at[c] \in {"request", "kill"} /\ Alive(work[c].pid) =>
            \/ process[work[c].pid].born = work[c].lease.start
            \/ process[work[c].pid].born > work[c].seen

\* The editor that a call started and has not recorded yet: no lease names it,
\* and another one beside it was overlooked, or came after a lock was lost.
Started(c) == at[c] = "record" =>
    /\ work[c].pid # None /\ work[c].born # None /\ work[c].born <= starts
    /\ \A p \in Pids : RunsAt(work[c].born, p) => p = work[c].pid
    /\ lease # None /\ lease.here => lease.nonce # work[c].born
    /\ \A d \in Calls : at[d] = "record" /\ work[d].born = work[c].born =>
        d = c
    /\ lock = c \/ faults > 0
    /\ \A p \in Pids : (Alive(p) /\ process[p].kind = "own") =>
            \/ process[p].born = work[c].born
            \/ process[p].born \in overlooked
            \/ process[p].born > work[c].born /\ faults > 0

\* The machine: starts are counted, and no two processes share one.
Counted ==
    /\ \A p \in Pids : Alive(p) => process[p].born <= starts
    /\ \A p, q \in Pids :
        (Alive(p) /\ Alive(q) /\ process[p].born = process[q].born) => p = q

IInv ==
    /\ TypeOK
    /\ Counted
    /\ lease # None => Tied(lease)
    /\ overlooked # {} => faults > 0
    /\ SoleOwnEditor
    /\ \A c \in Calls : /\ Carries(c) /\ Looked(c) /\ Started(c)
                        /\ at[c] = "dead" => lock = c
-----------------------------------------------------------------------------
(* The types.                                                              *)

\* The bounds are numbers, and None is none of the things it stands in for.
LEMMA Bounds ==
  /\ MaxRounds \in Nat /\ MaxRounds > 0 /\ MaxStarts \in Nat
     /\ MaxFaults \in Nat
  /\ None \notin Calls /\ None \notin Pids /\ None \notin Nat /\ Pids # {}
  /\ None \notin Process /\ None \notin Lease
  BY SessionAssumption

\* A call that is idle carries nothing.
LEMMA Types ==
  /\ NoWork \in Work /\ NoWork.lease = None /\ NoWork.born = None
  /\ NoWork.seen = 0 /\ NoWork.op = "ensure" /\ NoWork.pid = None
  /\ NoWork.round = 1 /\ NoWork.binary = FALSE /\ NoWork.missed = FALSE
  BY Bounds DEF NoWork, Work

\* What a call carries is of its type.
LEMMA WorkTypes ==
  ASSUME TypeOK, NEW c \in Calls
  PROVE  /\ at[c] \in Pcs /\ work[c] \in Work
         /\ work[c].op \in {"ensure", "close"}
            /\ work[c].round \in 1 .. MaxRounds
         /\ work[c].binary \in BOOLEAN /\ work[c].lease \in Lease \cup {None}
         /\ work[c].pid \in Pids \cup {None}
            /\ work[c].born \in Starts \cup {None}
         /\ work[c].missed \in BOOLEAN /\ work[c].seen \in 0 .. MaxStarts
  BY DEF TypeOK, Work

\* A process that runs is one.
LEMMA ProcessTypes ==
  ASSUME TypeOK, NEW p \in Pids, Alive(p)
  PROVE  process[p] \in Process /\ process[p].born \in Starts
         /\ process[p].born \in Nat
  BY Bounds DEF TypeOK, Alive, Process, Starts

\* What is in a lease.
LEMMA LeaseTypes ==
  ASSUME NEW l \in Lease
  PROVE  /\ l.pid \in Pids /\ l.nonce \in Nat /\ l.here \in BOOLEAN
         /\ l.start \in Starts \cup {None}
  BY Bounds DEF Lease

\* No lease is mistaken for none.
LEMMA NoneIsNone ==
  None \notin Starts /\ None \notin Pids
  BY Bounds DEF Starts

-----------------------------------------------------------------------------
(* Processes come and go.                                                  *)

\* What a step may do to the processes: start new ones.
Evolves ==
    /\ starts <= starts'
    /\ \A p \in Pids : Alive(p)' =>
            \/ Alive(p) /\ process'[p] = process[p]
            \/ process'[p].born > starts

\* What has ended does not run again.
LEMMA RunsNoMore ==
  ASSUME Evolves, NEW b \in Nat, b <= starts, TypeOK, TypeOK'
  PROVE  /\ \A p \in Pids : RunsAt(b, p)' => RunsAt(b, p)
         /\ Runs(b)' => Runs(b)
<1>1. starts \in Nat
  BY Bounds DEF TypeOK
<1>2. ASSUME NEW p \in Pids, RunsAt(b, p)' PROVE RunsAt(b, p)
  <2>1. process'[p].born = b /\ Alive(p)'
    BY <1>2 DEF RunsAt
  <2> QED
    BY <1>1, <2>1 DEF Evolves, RunsAt
<1> QED
  BY <1>2 DEF Runs

\* A lease stays tied to its editor, whatever starts and exits.
LEMMA TiedStays ==
  ASSUME Evolves, TypeOK, TypeOK', NEW l \in Lease, Tied(l)
  PROVE  Tied(l)'
<1>1. CASE ~ l.here
  BY <1>1 DEF Tied
<1>2. CASE l.here
  <2>1. l.nonce \in Nat /\ l.nonce <= starts /\ starts <= starts'
        /\ starts \in Nat /\ starts' \in Nat
    BY <1>2, LeaseTypes, Bounds DEF Tied, Evolves, TypeOK
  <2>2. (\A p \in Pids : RunsAt(l.nonce, p)' => RunsAt(l.nonce, p))
        /\ (Runs(l.nonce)' => Runs(l.nonce))
    BY <2>1, RunsNoMore
  <2> QED
    BY <1>2, <2>1, <2>2 DEF Tied
<1> QED
  BY <1>1, <1>2, LeaseTypes

\* What the state says of a call that does not step.
LEMMA CarriesStays ==
  ASSUME Evolves, TypeOK, TypeOK', NEW c \in Calls, Carries(c),
         at'[c] = at[c], work'[c] = work[c]
  PROVE  Carries(c)'
<1> SUFFICES ASSUME NEW l, l = work[c].lease, l = work'[c].lease
             PROVE  Carries(c)'
  OBVIOUS
<1>1. l \in Lease \cup {None} /\ None \notin Pids
  BY WorkTypes, Bounds
<1>2. l # None => Tied(l)'
  BY <1>1, TiedStays DEF Carries
<1>3. (l # None /\ l.here /\ ~Runs(l.nonce)) => ~Runs(l.nonce)'
  <2> SUFFICES ASSUME l # None, l.here, ~Runs(l.nonce) PROVE ~Runs(l.nonce)'
    OBVIOUS
  <2>1. Tied(l) /\ l.nonce \in Nat
    BY <1>1, LeaseTypes DEF Carries
  <2> QED
    BY <2>1, RunsNoMore DEF Tied
<1> QED
  BY <1>2, <1>3 DEF Carries, Striking

\* The looks of a call that does not step: a process that came since is later
\* than its last look. An own editor comes while the lock is another call's.
LEMMA LookedStays ==
  ASSUME Evolves, TypeOK, TypeOK', NEW c \in Calls, Looked(c), Carries(c),
         at'[c] = at[c], work'[c] = work[c], lock' = c => lock = c,
         \A p \in Pids : Alive(p)' /\ process[p].born \in overlooked =>
            process[p].born \in overlooked',
         \A p \in Pids : lock = c /\ Alive(p)' /\ process'[p].kind = "own" =>
            Alive(p) /\ process'[p] = process[p]
  PROVE  Looked(c)'
<1> SUFFICES ASSUME NEW n \in Nat, n = work[c].seen, n = work'[c].seen
             PROVE  Looked(c)'
  BY WorkTypes
<1>1. n <= starts /\ n <= starts' /\ starts \in Nat /\ starts' \in Nat
  BY Bounds DEF Looked, Evolves, TypeOK
<1>2. ASSUME at[c] = "hook", lock' = c, NEW p \in Pids, Editor(p)'
      PROVE  Excused(p, n)'
  <2>1. CASE Alive(p) /\ process'[p] = process[p]
    <3>1. p \in Editors /\ Alive(p)'
      BY <1>2, <2>1 DEF Editors, Editor, Alive
    <3>2. Excused(p, n)
      BY <1>2, <3>1 DEF Looked
    <3> QED
      BY <2>1, <3>1, <3>2 DEF Excused
  <2>2. CASE ~ (Alive(p) /\ process'[p] = process[p])
    <3>1. Alive(p)' /\ process'[p].born > starts /\ process'[p].kind # "other"
      BY <1>2, <2>2 DEF Evolves, Editor
    <3>2. process'[p] \in Process
      BY <3>1 DEF TypeOK, Alive
    <3>3. process'[p].kind = "foreign" /\ process'[p].born \in Nat
      BY <1>2, <2>2, <3>1, <3>2, Bounds DEF Process, Starts
    <3> QED
      BY <1>1, <3>1, <3>3 DEF Excused
  <2> QED
    BY <2>1, <2>2
<1>3. ASSUME at[c] \in {"request", "kill"}, NEW p, p = work[c].pid, Alive(p)'
      PROVE  process'[p].born = work[c].lease.start \/ process'[p].born > n
  <2>1. p \in Pids
    BY <1>3, WorkTypes, LeaseTypes DEF Carries, Striking
  <2>2. CASE Alive(p) /\ process'[p] = process[p]
    BY <1>3, <2>2 DEF Looked
  <2>3. CASE process'[p].born > starts
    <3>1. process'[p].born \in Nat
      BY <1>3, <2>1, Bounds DEF TypeOK, Alive, Process, Starts
    <3> QED
      BY <1>1, <2>3, <3>1
  <2> QED
    BY <1>3, <2>1, <2>2, <2>3 DEF Evolves
<1> QED
  BY <1>1, <1>2, <1>3 DEF Looked, Editors
-----------------------------------------------------------------------------
(* Steps of a call that leave the processes alone.                         *)

\* The shape of such a step: what it may do to the lease, the lock and the
\* history, the others looking on.
Quiet(c) ==
    /\ UNCHANGED machine
    /\ lease' \in {lease, None}
    /\ \A b \in overlooked : b \in overlooked'
    /\ faults <= faults' /\ (overlooked' # {} => faults' > 0)
    /\ \A d \in Calls : d # c =>
        /\ at'[d] = at[d] /\ work'[d] = work[d]
        /\ lock' = d <=> lock = d

\* Such a step keeps the invariant when it keeps what is said of its own call.
LEMMA QuietKeeps ==
  ASSUME IInv, NEW c \in Calls, TypeOK', Quiet(c),
         Carries(c)', Looked(c)', Started(c)', at'[c] = "dead" => lock' = c
  PROVE  IInv'
<1>1. TypeOK /\ Evolves /\ Counted'
  BY Bounds DEF IInv, TypeOK, Quiet, machine, Evolves, Alive, Counted
<1>2. (lease # None => Tied(lease))' /\ SoleOwnEditor'
  BY DEF IInv, Quiet, machine, Tied, RunsAt, Runs, Alive, SoleOwnEditor, Own
<1>3. (overlooked # {} => faults > 0)'
  BY DEF Quiet
<1>4. ASSUME NEW d \in Calls, d # c
      PROVE  Carries(d)' /\ Looked(d)' /\ Started(d)'
             /\ (at[d] = "dead" => lock = d)'
  <2>1. Carries(d) /\ Looked(d) /\ Started(d) /\ (at[d] = "dead" => lock = d)
    BY DEF IInv
  <2>2. at'[d] = at[d] /\ work'[d] = work[d] /\ (lock' = d <=> lock = d)
    BY <1>4 DEF Quiet
  <2>3. Carries(d)'
    BY <1>1, <2>1, <2>2, CarriesStays
  <2>4. Looked(d)'
    BY <1>1, <2>1, <2>2, LookedStays DEF Quiet, machine, Alive
  <2>5. Started(d)'
    <3> SUFFICES ASSUME at[d] = "record" PROVE Started(d)'
      BY <2>2 DEF Started
    <3>1. \A e \in Calls : (at'[e] = "record"
          /\ work'[e].born = work'[d].born) => e = d
      <4> SUFFICES ASSUME at'[c] = "record", work'[c].born = work'[d].born
                   PROVE  FALSE
        BY <2>1, <2>2 DEF Started, Quiet
      <4>1. at'[d] = "record"
        BY <2>2
      <4> QED
        BY <1>4, <4>1 DEF Started
    <3>2. lock' = d \/ faults' > 0
      BY <1>1, <2>1, <2>2, Bounds DEF Started, Quiet, TypeOK
    <3>3. \A p \in Pids : (Alive(p)' /\ process'[p].kind = "own") =>
            \/ process'[p].born = work'[d].born
            \/ process'[p].born \in overlooked'
            \/ process'[p].born > work'[d].born /\ faults' > 0
      BY <1>1, <2>1, <2>2, Bounds DEF Started, Quiet, machine, Alive, TypeOK
    <3> QED
      BY <2>1, <2>2, <3>1, <3>2, <3>3 DEF Started, Quiet, machine, RunsAt,
         Alive
  <2> QED
    BY <2>1, <2>2, <2>3, <2>4, <2>5
<1> QED
  BY <1>1, <1>2, <1>3, <1>4 DEF IInv

\* Most steps neither end a look nor start an editor.
LEMMA PlainKeeps ==
  ASSUME IInv, NEW c \in Calls, TypeOK', Quiet(c), Carries(c)',
         at'[c] \notin {"hook", "request", "kill", "record", "dead"},
         work'[c].seen <= starts
  PROVE  IInv'
<1>1. Looked(c)' /\ Started(c)'
  BY DEF Looked, Started, Quiet, machine
<1> QED
  BY <1>1, QuietKeeps

\* Many carry no lease, and have nothing to do with one.
LEMMA FreshKeeps ==
  ASSUME IInv, NEW c \in Calls, TypeOK', Quiet(c),
         at'[c] \in {"idle", "lock", "await", "resolve"},
         at'[c] \in {"lock", "resolve"} => work'[c].op = "ensure",
         work'[c].lease = None, work'[c].seen <= starts
  PROVE  IInv'
<1>1. Carries(c)'
  BY DEF Carries, Striking
<1> QED
  BY <1>1, PlainKeeps

\* What is left of a call that decides again.
LEMMA FreshWork ==
  ASSUME NEW b \in BOOLEAN, NEW n \in 1 .. MaxRounds
  PROVE  LET w == [NoWork EXCEPT !.binary = b, !.round = n]
         IN  w \in Work /\ w.lease = None /\ w.seen = 0 /\ w.op = "ensure"
  BY Types DEF Work

\* A call goes to a place, with what it carries from there on.
LEMMA Moves ==
  ASSUME TypeOK, NEW c \in Calls, NEW place \in Pcs, NEW w \in Work,
         at' = [at EXCEPT ![c] = place], work' = [work EXCEPT ![c] = w]
  PROVE  /\ at' \in [Calls -> Pcs] /\ work' \in [Calls -> Work]
         /\ at'[c] = place /\ work'[c] = w
         /\ \A d \in Calls : d # c => at'[d] = at[d] /\ work'[d] = work[d]
  BY DEF TypeOK

\* The lock is a call's own affair.
LEMMA LockIsOwn ==
  ASSUME TypeOK, NEW c \in Calls
  PROVE  /\ Unlock(c) => /\ lock' \in Calls \cup {None}
                         /\ \A d \in Calls : d # c => (lock' = d <=> lock = d)
         /\ lock = None /\ lock' = c =>
                /\ lock' \in Calls \cup {None}
                /\ \A d \in Calls : d # c => (lock' = d <=> lock = d)
  BY Bounds DEF Unlock, TypeOK

\* A scan that finds nothing tells what it overlooked.
LEMMA ScanIsNoted ==
  ASSUME IInv, FindsNothing
  PROVE  /\ overlooked' \subseteq Starts /\ faults' \in 0 .. MaxFaults
         /\ \A b \in overlooked : b \in overlooked'
         /\ faults <= faults' /\ (overlooked' # {} => faults' > 0)
         /\ \A p \in Editors : process[p].born \in overlooked'
<1>1. \A p \in Editors : process[p].born \in Starts
  BY ProcessTypes DEF IInv, Editors, Editor
<1>2. CASE Editors = {} /\ UNCHANGED history
  BY <1>2, Bounds DEF IInv, TypeOK, history
<1>3. CASE /\ Disturb
           /\ overlooked' = overlooked \cup {process[p].born : p \in Editors}
  <2>1. faults' \in 0 .. MaxFaults /\ faults <= faults' /\ faults' > 0
    BY <1>3, Bounds DEF IInv, TypeOK, Disturb
  <2> QED
    BY <1>1, <1>3, <2>1 DEF IInv, TypeOK
<1> QED
  BY <1>2, <1>3 DEF FindsNothing

\* A step that meets no mishap leaves the history as it is.
LEMMA Stands ==
  ASSUME IInv, UNCHANGED history
  PROVE  /\ overlooked' \subseteq Starts /\ faults' \in 0 .. MaxFaults
         /\ \A b \in overlooked : b \in overlooked'
         /\ faults <= faults' /\ (overlooked' # {} => faults' > 0)
  BY Bounds DEF IInv, TypeOK, history

\* A mishap is counted.
LEMMA DisturbIsNoted ==
  ASSUME IInv, Disturb, UNCHANGED overlooked
  PROVE  /\ overlooked' \subseteq Starts /\ faults' \in 0 .. MaxFaults
         /\ \A b \in overlooked : b \in overlooked'
         /\ faults <= faults' /\ (overlooked' # {} => faults' > 0)
         /\ faults' > 0
  BY Bounds DEF IInv, TypeOK, Disturb

-----------------------------------------------------------------------------
(* ensure: the decision under the lock.                                    *)

\* What the quiet steps have in common.
Calm(c) ==
    /\ UNCHANGED machine
    /\ overlooked' \subseteq Starts /\ faults' \in 0 .. MaxFaults
    /\ \A b \in overlooked : b \in overlooked'
    /\ faults <= faults' /\ (overlooked' # {} => faults' > 0)
    /\ lease' \in {lease, None}
    /\ lock' \in Calls \cup {None}
    /\ \A d \in Calls : d # c => (lock' = d <=> lock = d)

\* A quiet step of a call takes that call alone somewhere else.
LEMMA CalmMove ==
  ASSUME IInv, NEW c \in Calls, NEW place \in Pcs, NEW w \in Work,
         at' = [at EXCEPT ![c] = place], work' = [work EXCEPT ![c] = w], Calm(c)
  PROVE  /\ TypeOK' /\ Quiet(c)
         /\ at'[c] = place /\ work'[c] = w
<1>1. TypeOK
  BY DEF IInv
<1>2. /\ at' \in [Calls -> Pcs] /\ work' \in [Calls -> Work]
      /\ at'[c] = place /\ work'[c] = w
      /\ \A d \in Calls : d # c => at'[d] = at[d] /\ work'[d] = work[d]
  BY <1>1, Moves
<1>3. TypeOK'
  BY <1>1, <1>2 DEF TypeOK, Calm, machine
<1> QED
  BY <1>2, <1>3 DEF Quiet, Calm

\* A call that ends.
LEMMA EndKeeps ==
  ASSUME IInv, NEW c \in Calls, Ends(c), Calm(c)
  PROVE  IInv'
<1>1. TypeOK' /\ Quiet(c) /\ at'[c] = "idle" /\ work'[c] = NoWork
  BY Types, CalmMove DEF Ends, Goes, Pcs
<1>2. 0 <= starts
  BY Bounds DEF IInv, TypeOK
<1> QED
  BY <1>1, <1>2, Types, FreshKeeps

\* A call that decides again.
LEMMA AgainKeeps ==
  ASSUME IInv, NEW c \in Calls, Again(c), Calm(c)
  PROVE  IInv'
<1> DEFINE w == [NoWork EXCEPT !.binary = work[c].binary,
                               !.round = work[c].round + 1]
<1>1. CASE work[c].round < MaxRounds
  <2>1. w \in Work /\ w.lease = None /\ w.seen = 0 /\ w.op = "ensure"
    <3>1. work[c].binary \in BOOLEAN /\ work[c].round + 1 \in 1 .. MaxRounds
      BY <1>1, WorkTypes, Bounds DEF IInv
    <3> QED
      BY <3>1, FreshWork
  <2>2. at' = [at EXCEPT ![c] = "lock"] /\ work' = [work EXCEPT ![c] = w]
    BY <1>1 DEF Again, Goes
  <2> HIDE DEF w
  <2>3. TypeOK' /\ Quiet(c) /\ at'[c] = "lock" /\ work'[c] = w
    BY <2>1, <2>2, CalmMove DEF Pcs
  <2>4. 0 <= starts
    BY Bounds DEF IInv, TypeOK
  <2> QED
    BY <2>1, <2>3, <2>4, FreshKeeps
<1>2. CASE ~ (work[c].round < MaxRounds)
  BY <1>2, EndKeeps DEF Again
<1> QED
  BY <1>1, <1>2

\* A step that touches nothing but its own call is quiet.
LEMMA CalmWhen ==
  ASSUME IInv, NEW c \in Calls, UNCHANGED <<machine, files, history>>
  PROVE  Calm(c)
  BY Stands DEF Calm, IInv, TypeOK, files

\* The steps that end a call, or send it back, and touch nothing else.
LEMMA EndingsKeep ==
  ASSUME IInv, NEW c \in Calls,
         \/ LockBusy(c) \/ LockLost(c) \/ WaitedGone(c) \/ Ready(c)
         \/ NotReady(c) \/ Declines(c) \/ StillRunning(c)
  PROVE  IInv'
<1>1. Calm(c) /\ (Ends(c) \/ Again(c))
  BY CalmWhen DEF LockBusy, LockLost, WaitedGone, Ready, NotReady, Declines,
     StillRunning
<1> QED
  BY <1>1, EndKeeps, AgainKeeps

\* A call begins with the lock.
LEMMA CallEnsureKeeps ==
  ASSUME IInv, NEW c \in Calls, CallEnsure(c)
  PROVE  IInv'
<1>1. Calm(c) /\ TypeOK' /\ Quiet(c) /\ at'[c] = "lock" /\ work'[c] = NoWork
  BY CalmWhen, Types, CalmMove DEF CallEnsure, Goes, Pcs
<1>2. 0 <= starts
  BY Bounds DEF IInv, TypeOK
<1> QED
  BY <1>1, <1>2, Types, FreshKeeps

\* A launch that fails gives the lock back.
LEMMA LaunchFailsKeeps ==
  ASSUME IInv, NEW c \in Calls, LaunchFails(c) \/ RecordFails(c)
  PROVE  IInv'
<1>1. TypeOK
  BY DEF IInv
<1>2. UNCHANGED <<machine, lease>> /\ Unlock(c) /\ Ends(c)
  BY DEF LaunchFails, RecordFails
<1>3. Calm(c)
  BY <1>1, <1>2, LockIsOwn, Stands, DisturbIsNoted DEF Calm, LaunchFails,
     RecordFails
<1> QED
  BY <1>2, <1>3, EndKeeps

\* What the lock, and the lease that is on disk, mean to the call inside.
LEMMA EnterKeeps ==
  ASSUME IInv, NEW c \in Calls, Enter(c)
  PROVE  IInv'
<1> DEFINE w == [work[c] EXCEPT !.lease = lease]
<1>1. TypeOK /\ lease \in Lease \cup {None}
  BY DEF IInv, TypeOK
<1>2. w \in Work /\ w.lease = lease /\ w.seen = work[c].seen
      /\ w.op = work[c].op
  BY <1>1, WorkTypes DEF Work
<1>3. at' = [at EXCEPT ![c] = "judge"] /\ work' = [work EXCEPT ![c] = w]
  BY DEF Enter, Goes
<1> HIDE DEF w
<1>4. Calm(c)
  BY <1>1, LockIsOwn, Stands DEF Enter, Calm
<1>5. TypeOK' /\ Quiet(c) /\ at'[c] = "judge" /\ work'[c] = w
  BY <1>2, <1>3, <1>4, CalmMove DEF Pcs
<1>6. work[c].seen <= starts
  BY DEF IInv, Looked
<1>7. Carries(c)'
  <2> SUFFICES ASSUME NEW l, l = lease, l = work'[c].lease PROVE Carries(c)'
    BY <1>2, <1>5
  <2>1. l # None => Tied(l)
    BY DEF IInv
  <2>2. l # None => Tied(l)'
    BY <1>5, <2>1 DEF Quiet, machine, Tied, Runs, RunsAt, Alive
  <2>3. work[c].op = "ensure"
    BY DEF IInv, Carries, Enter
  <2> QED
    BY <1>2, <1>5, <2>2, <2>3 DEF Carries, Striking
<1> QED
  BY <1>2, <1>5, <1>6, <1>7, PlainKeeps

\* A call that joins a launch keeps the pid only.
LEMMA JoinKeeps ==
  ASSUME IInv, NEW c \in Calls, Join(c)
  PROVE  IInv'
<1> DEFINE w == [work[c] EXCEPT !.lease = None, !.pid = work[c].lease.pid]
<1>1. TypeOK /\ work[c].lease \in Lease
  BY WorkTypes DEF IInv, Join
<1>2. w \in Work /\ w.lease = None /\ w.seen = work[c].seen
  BY <1>1, WorkTypes, LeaseTypes DEF Work
<1>3. at' = [at EXCEPT ![c] = "await"] /\ work' = [work EXCEPT ![c] = w]
  BY DEF Join, Goes
<1> HIDE DEF w
<1>4. Calm(c)
  BY <1>1, LockIsOwn, Stands DEF Join, Calm
<1>5. TypeOK' /\ Quiet(c) /\ at'[c] = "await" /\ work'[c] = w
  BY <1>2, <1>3, <1>4, CalmMove DEF Pcs
<1> QED
  BY <1>2, <1>5, FreshKeeps DEF IInv, Looked

\* A lease of this machine that is dead is of an editor that is gone.
LEMMA DeadIsGone ==
  ASSUME TypeOK, Counted, NEW l \in Lease, Tied(l), l.here, "dead" \in LeaseState(l)
  PROVE  ~Runs(l.nonce)
<1> SUFFICES ASSUME NEW p \in Pids, RunsAt(l.nonce, p) PROVE FALSE
  BY DEF Runs
<1>1. p = l.pid /\ l.start \in {None, l.nonce}
  BY DEF Tied, Runs
<1>2. Alive(l.pid) /\ process[l.pid].born = l.nonce
  BY <1>1 DEF RunsAt
<1> QED
  BY <1>1, <1>2 DEF LeaseState

\* A call goes on to the scan past a lease whose editor is gone.
LEMMA NoLeaseKeeps ==
  ASSUME IInv, NEW c \in Calls, NoLease(c)
  PROVE  IInv'
<1>1. TypeOK /\ Calm(c) /\ Carries(c)
  BY CalmWhen DEF IInv, NoLease
<1>2. at' = [at EXCEPT ![c] = "scan"] /\ work' = [work EXCEPT ![c] = work[c]]
  BY <1>1 DEF NoLease, Goes, TypeOK
<1>3. TypeOK' /\ Quiet(c) /\ at'[c] = "scan" /\ work'[c] = work[c]
  BY <1>1, <1>2, WorkTypes, CalmMove DEF Pcs
<1>4. Evolves
  BY <1>1, <1>3, Bounds DEF Quiet, machine, Evolves, Alive, TypeOK
<1>5. Carries(c)'
  <2> SUFFICES ASSUME NEW l, l = work[c].lease, l = work'[c].lease
               PROVE  Carries(c)'
    BY <1>3
  <2>1. l # None => l \in Lease /\ Tied(l) /\ Tied(l)'
    BY <1>1, <1>3, <1>4, WorkTypes, TiedStays DEF Carries
  <2>2. (l # None /\ l.here) => ~Runs(l.nonce)
    BY <1>1, <2>1, DeadIsGone DEF NoLease, IInv
  <2>3. (l # None /\ l.here) => ~Runs(l.nonce)'
    BY <2>2, <1>3 DEF Quiet, machine, Runs, RunsAt, Alive
  <2> QED
    BY <1>3, <2>1, <2>3 DEF Carries, Striking, NoLease
<1> QED
  BY <1>3, <1>5, PlainKeeps DEF IInv, Looked

\* An editor of the user is waited for, without a lease.
LEMMA FindsEditorKeeps ==
  ASSUME IInv, NEW c \in Calls, FindsEditor(c)
  PROVE  IInv'
<1>1. PICK pid \in Pids \cup {None} :
        work' = [work EXCEPT ![c].lease = None, ![c].pid = pid]
  BY DEF FindsEditor
<1> DEFINE w == [work[c] EXCEPT !.lease = None, !.pid = pid]
<1>2. TypeOK
  BY DEF IInv
<1>3. w \in Work /\ w.lease = None /\ w.seen = work[c].seen
  BY <1>2, WorkTypes DEF Work
<1>4. at' = [at EXCEPT ![c] = "await"] /\ work' = [work EXCEPT ![c] = w]
  BY <1>1 DEF FindsEditor, Goes
<1> HIDE DEF w
<1>5. Calm(c)
  BY <1>2, LockIsOwn, Stands DEF FindsEditor, Calm
<1>6. TypeOK' /\ Quiet(c) /\ at'[c] = "await" /\ work'[c] = w
  BY <1>3, <1>4, <1>5, CalmMove DEF Pcs
<1> QED
  BY <1>3, <1>6, FreshKeeps DEF IInv, Looked

\* The lock is given back while the binary is looked for.
LEMMA MustResolveKeeps ==
  ASSUME IInv, NEW c \in Calls, MustResolve(c)
  PROVE  IInv'
<1> DEFINE w == [work[c] EXCEPT !.lease = None]
<1>1. TypeOK
  BY DEF IInv
<1>2. w \in Work /\ w.lease = None /\ w.seen = work[c].seen /\ w.op = "ensure"
  BY <1>1, WorkTypes DEF Work, IInv, Carries, MustResolve
<1>3. at' = [at EXCEPT ![c] = "resolve"] /\ work' = [work EXCEPT ![c] = w]
  BY DEF MustResolve, Goes
<1> HIDE DEF w
<1>4. Calm(c)
  BY <1>1, LockIsOwn, ScanIsNoted DEF MustResolve, Calm
<1>5. TypeOK' /\ Quiet(c) /\ at'[c] = "resolve" /\ work'[c] = w
  BY <1>2, <1>3, <1>4, CalmMove DEF Pcs
<1> QED
  BY <1>2, <1>5, FreshKeeps DEF IInv, Looked

\* The call that found the binary takes the lock again.
LEMMA ResolveKeeps ==
  ASSUME IInv, NEW c \in Calls, Resolve(c)
  PROVE  IInv'
<1> DEFINE w == [work[c] EXCEPT !.binary = TRUE]
<1>1. TypeOK /\ Calm(c) /\ work[c].op = "ensure" /\ Carries(c)
  BY CalmWhen DEF IInv, Carries, Resolve
<1>2. CASE Ends(c)
  BY <1>1, <1>2, EndKeeps
<1>3. CASE at' = [at EXCEPT ![c] = "lock"] /\ work' = [work EXCEPT ![c] = w]
  <2>1. w \in Work /\ w.lease = work[c].lease /\ w.seen = work[c].seen
        /\ w.op = "ensure"
    BY <1>1, WorkTypes DEF Work
  <2> HIDE DEF w
  <2>2. TypeOK' /\ Quiet(c) /\ at'[c] = "lock" /\ work'[c] = w
    BY <1>1, <1>3, <2>1, CalmMove DEF Pcs
  <2>3. Carries(c)'
    <3> SUFFICES ASSUME NEW l, l = work[c].lease, l = work'[c].lease
                 PROVE  Carries(c)'
      BY <2>1, <2>2
    <3>1. l # None => Tied(l)'
      BY <1>1, <2>2 DEF Carries, Quiet, machine, Tied, Runs, RunsAt, Alive
    <3> QED
      BY <2>1, <2>2, <3>1 DEF Carries, Striking
  <2> QED
    BY <2>1, <2>2, <2>3, PlainKeeps DEF IInv, Looked
<1> QED
  BY <1>2, <1>3 DEF Resolve, Goes

\* Where the launch is decided, no editor runs that the scan did not overlook.
LEMMA MayLaunchKeeps ==
  ASSUME IInv, NEW c \in Calls, MayLaunch(c)
  PROVE  IInv'
<1> DEFINE w == [work[c] EXCEPT !.lease = None, !.seen = starts]
<1>1. TypeOK
  BY DEF IInv
<1>2. w \in Work /\ w.lease = None /\ w.seen = starts
  BY <1>1, WorkTypes DEF Work, TypeOK
<1>3. at' = [at EXCEPT ![c] = "hook"] /\ work' = [work EXCEPT ![c] = w]
  BY DEF MayLaunch, Goes
<1> HIDE DEF w
<1>4. lease' \in {lease, None} /\ UNCHANGED <<machine, lock>>
  BY DEF MayLaunch, Without
<1>5. Calm(c) /\ \A p \in Editors : process[p].born \in overlooked'
  BY <1>1, <1>4, ScanIsNoted DEF MayLaunch, Calm, TypeOK
<1>6. TypeOK' /\ Quiet(c) /\ at'[c] = "hook" /\ work'[c] = w
  BY <1>2, <1>3, <1>5, CalmMove DEF Pcs
<1>7. Carries(c)' /\ Started(c)'
  BY <1>2, <1>6 DEF Carries, Striking, Started
<1>8. Looked(c)'
  BY <1>1, <1>2, <1>5, <1>6, Bounds DEF Looked, Quiet, machine, Editors,
     Editor, Alive, Excused, TypeOK
<1> QED
  BY <1>6, <1>7, <1>8, QuietKeeps

\* A wait without a pid has no lease to give up.
LEMMA RescanKeeps ==
  ASSUME IInv, NEW c \in Calls, Rescan(c)
  PROVE  IInv'
<1>1. TypeOK /\ UNCHANGED <<machine, files>>
  BY DEF IInv, Rescan
<1>2. Calm(c)
  BY <1>1, Stands, ScanIsNoted DEF Rescan, Calm, files, TypeOK
<1>3. CASE Again(c)
  BY <1>2, <1>3, AgainKeeps
<1>4. ASSUME NEW missed \in BOOLEAN, UNCHANGED at,
             work' = [work EXCEPT ![c].missed = missed]
      PROVE  IInv'
  <2> DEFINE w == [work[c] EXCEPT !.missed = missed]
  <2>1. w \in Work /\ w.lease = work[c].lease /\ w.seen = work[c].seen
        /\ w.pid = work[c].pid
    BY <1>1, WorkTypes DEF Work
  <2>2. at' = [at EXCEPT ![c] = "await"] /\ work' = [work EXCEPT ![c] = w]
    BY <1>1, <1>4 DEF Rescan, TypeOK
  <2> HIDE DEF w
  <2>3. TypeOK' /\ Quiet(c) /\ at'[c] = "await" /\ work'[c] = w
    BY <1>2, <2>1, <2>2, CalmMove DEF Pcs
  <2>4. work[c].lease = None
    BY <1>1, WorkTypes, LeaseTypes, NoneIsNone DEF IInv, Carries, Rescan
  <2> QED
    BY <2>1, <2>3, <2>4, FreshKeeps DEF IInv, Looked
<1> QED
  BY <1>3, <1>4 DEF Rescan

-----------------------------------------------------------------------------
(* The end of an editor, and of its lease.                                 *)

\* What a call that keeps its lease may count on after the step.
LEMMA LeaseCarried ==
  ASSUME IInv, NEW c \in Calls, Quiet(c), NEW l, l = work[c].lease, l # None
  PROVE  /\ l \in Lease /\ Tied(l) /\ Tied(l)'
         /\ Runs(l.nonce)' <=> Runs(l.nonce)
<1>1. l \in Lease /\ Tied(l)
  BY WorkTypes DEF IInv, Carries
<1> QED
  BY <1>1 DEF Quiet, machine, Tied, Runs, RunsAt, Alive

\* A call that goes on with the lease it has, to anything but a look.
LEMMA GoOnKeeps ==
  ASSUME IInv, NEW c \in Calls, Calm(c), NEW w \in Work,
         NEW place \in {"exit", "expired", "killed", "cleanup"},
         at' = [at EXCEPT ![c] = place], work' = [work EXCEPT ![c] = w],
         w.lease = work[c].lease, w.lease # None, w.lease.here,
         place # "cleanup" => w.pid = w.lease.pid,
         place = "cleanup" => ~Runs(w.lease.nonce),
         w.seen <= starts
  PROVE  IInv'
<1>1. TypeOK' /\ Quiet(c) /\ at'[c] = place /\ work'[c] = w
  BY CalmMove DEF Pcs
<1>2. Carries(c)'
  <2> SUFFICES ASSUME NEW l, l = work[c].lease, l = w.lease, l = work'[c].lease
               PROVE  Carries(c)'
    BY <1>1
  <2>1. Tied(l)' /\ (Runs(l.nonce)' <=> Runs(l.nonce))
    BY <1>1, LeaseCarried
  <2> QED
    BY <1>1, <2>1 DEF Carries, Striking
<1> QED
  BY <1>1, <1>2, PlainKeeps

\* When the process under its pid is gone, so is the editor of a lease.
LEMMA GoneIsGone ==
  ASSUME TypeOK, NEW l \in Lease, Tied(l), l.here, ~Alive(l.pid)
  PROVE  ~Runs(l.nonce)
  BY DEF Tied, Runs, RunsAt

\* The editor that the call started is gone, and its lease goes next.
LEMMA StartedGoneKeeps ==
  ASSUME IInv, NEW c \in Calls, StartedGone(c)
  PROVE  IInv'
<1>1. TypeOK /\ Calm(c) /\ Carries(c) /\ work[c].seen <= starts
  BY CalmWhen DEF IInv, StartedGone, Looked
<1>2. at' = [at EXCEPT ![c] = "cleanup"]
      /\ work' = [work EXCEPT ![c] = work[c]]
  BY <1>1 DEF StartedGone, Goes, TypeOK
<1>3. work[c] \in Work /\ work[c].lease \in Lease /\ work[c].lease.here
      /\ ~Runs(work[c].lease.nonce)
  BY <1>1, WorkTypes, GoneIsGone DEF Carries, StartedGone, Gone
<1> QED
  BY <1>1, <1>2, <1>3, GoOnKeeps DEF StartedGone

\* A lease found dead is given up.
LEMMA StaleLeaseKeeps ==
  ASSUME IInv, NEW c \in Calls, StaleLease(c)
  PROVE  IInv'
<1>1. TypeOK /\ Counted /\ Calm(c) /\ Carries(c) /\ work[c].seen <= starts
  BY CalmWhen DEF IInv, StaleLease, Looked
<1>2. at' = [at EXCEPT ![c] = "cleanup"]
      /\ work' = [work EXCEPT ![c] = work[c]]
  BY <1>1 DEF StaleLease, Goes, TypeOK
<1>3. work[c] \in Work /\ work[c].lease \in Lease /\ work[c].lease # None
      /\ work[c].lease.here /\ ~Runs(work[c].lease.nonce)
  BY <1>1, WorkTypes, DeadIsGone DEF Carries, StaleLease
<1> QED
  BY <1>1, <1>2, <1>3, GoOnKeeps

\* The process of the lease has exited, so that its editor is gone.
LEMMA ExitedKeeps ==
  ASSUME IInv, NEW c \in Calls, Exited(c)
  PROVE  IInv'
<1>1. TypeOK /\ Calm(c) /\ Carries(c) /\ work[c].seen <= starts
  BY CalmWhen DEF IInv, Exited, Looked
<1>2. at' = [at EXCEPT ![c] = "cleanup"]
      /\ work' = [work EXCEPT ![c] = work[c]]
  BY <1>1 DEF Exited, Goes, TypeOK
<1>3. work[c] \in Work /\ work[c].lease \in Lease /\ work[c].lease # None
      /\ work[c].lease.here /\ ~Runs(work[c].lease.nonce)
  BY <1>1, WorkTypes, GoneIsGone DEF Carries, Exited, Gone, Striking
<1> QED
  BY <1>1, <1>2, <1>3, GoOnKeeps

\* A wait that expires ends no lease.
LEMMA WaitExpiresKeeps ==
  ASSUME IInv, NEW c \in Calls, WaitExpires(c)
  PROVE  IInv'
<1>1. TypeOK /\ Calm(c) /\ Carries(c) /\ work[c].seen <= starts
  BY CalmWhen DEF IInv, WaitExpires, Looked
<1>2. at' = [at EXCEPT ![c] = "expired"]
      /\ work' = [work EXCEPT ![c] = work[c]]
  BY <1>1 DEF WaitExpires, Goes, TypeOK
<1>3. work[c] \in Work /\ work[c].lease # None /\ work[c].lease.here
      /\ work[c].pid = work[c].lease.pid
  BY <1>1, WorkTypes DEF Carries, WaitExpires, Striking
<1> QED
  BY <1>1, <1>2, <1>3, GoOnKeeps

\* The look is over when the request, or the kill, has reached the pid.
LEMMA StruckKeeps ==
  ASSUME IInv, NEW c \in Calls, Request(c) \/ Kill(c)
  PROVE  IInv'
<1> DEFINE w == [work[c] EXCEPT !.seen = 0]
<1>1. TypeOK /\ Calm(c) /\ Carries(c)
  BY CalmWhen DEF IInv, Request, Kill
<1>2. PICK place \in {"exit", "expired", "killed"} :
        at' = [at EXCEPT ![c] = place] /\ work' = [work EXCEPT ![c] = w]
  BY DEF Request, Kill, Goes
<1>3. w \in Work /\ w.lease = work[c].lease /\ w.pid = work[c].pid
      /\ w.seen = 0
  BY <1>1, WorkTypes, Bounds DEF Work
<1> HIDE DEF w
<1>4. work[c].lease # None /\ work[c].lease.here
      /\ work[c].pid = work[c].lease.pid /\ 0 <= starts
  BY <1>1, Bounds DEF Carries, Request, Kill, Striking, TypeOK
<1> QED
  BY <1>1, <1>2, <1>3, <1>4, GoOnKeeps

\* A close takes the lease on disk along.
LEMMA CallCloseKeeps ==
  ASSUME IInv, NEW c \in Calls, CallClose(c)
  PROVE  IInv'
<1> DEFINE w == [NoWork EXCEPT !.op = "close", !.lease = lease]
<1>1. TypeOK /\ Calm(c) /\ lease \in Lease /\ 0 <= starts
  BY CalmWhen, Bounds DEF IInv, CallClose, TypeOK
<1>2. w \in Work /\ w.lease = lease /\ w.seen = 0
  BY <1>1, Types DEF Work
<1>3. at' = [at EXCEPT ![c] = "judge"] /\ work' = [work EXCEPT ![c] = w]
  BY DEF CallClose, Goes
<1> HIDE DEF w
<1>4. TypeOK' /\ Quiet(c) /\ at'[c] = "judge" /\ work'[c] = w
  BY <1>1, <1>2, <1>3, CalmMove DEF Pcs
<1>5. Carries(c)'
  <2> SUFFICES ASSUME NEW l, l = lease, l = work'[c].lease PROVE Carries(c)'
    BY <1>2, <1>4
  <2>1. l # None /\ Tied(l)
    BY DEF IInv, CallClose
  <2>2. Tied(l)'
    BY <1>4, <2>1 DEF Quiet, machine, Tied, Runs, RunsAt, Alive
  <2> QED
    BY <1>4, <2>1, <2>2 DEF Carries, Striking
<1> QED
  BY <1>1, <1>2, <1>4, <1>5, PlainKeeps

\* A lease is live when the process under its pid has the start it records.
LEMMA LiveIsIts ==
  ASSUME NEW l \in Lease, "live" \in LeaseState(l)
  PROVE  l.here /\ Alive(l.pid) /\ process[l.pid].born = l.start
  BY DEF LeaseState

\* A look at the lease, right before the request or the kill.
LEMMA LookKeeps ==
  ASSUME IInv, NEW c \in Calls, CloseLease(c) \/ Reverify(c)
  PROVE  IInv'
<1> DEFINE w == [work[c] EXCEPT !.pid = work[c].lease.pid, !.seen = starts]
<1>1. TypeOK /\ Calm(c) /\ Carries(c)
  BY CalmWhen DEF IInv, CloseLease, Reverify
<1>2. work[c].lease \in Lease /\ work[c].lease # None
      /\ "live" \in LeaseState(work[c].lease)
      /\ (at[c] = "expired" => work[c].pid = work[c].lease.pid)
  BY <1>1, WorkTypes DEF Carries, CloseLease, Reverify, Striking
<1>3. w \in Work /\ w.lease = work[c].lease /\ w.pid = work[c].lease.pid
      /\ w.seen = starts
  BY <1>1, <1>2, WorkTypes, LeaseTypes DEF Work, TypeOK
<1>4. PICK place \in {"request", "kill"} :
        at' = [at EXCEPT ![c] = place] /\ work' = [work EXCEPT ![c] = w]
  <2>1. CASE CloseLease(c)
    BY <2>1 DEF CloseLease, Goes
  <2>2. CASE Reverify(c)
    <3>1. w = [work[c] EXCEPT !.seen = starts]
      BY <1>1, <1>2, <2>2, WorkTypes DEF Reverify, Work
    <3> QED
      BY <2>2, <3>1 DEF Reverify, Goes
  <2> QED
    BY <2>1, <2>2
<1> HIDE DEF w
<1>5. TypeOK' /\ Quiet(c) /\ at'[c] = place /\ work'[c] = w
  BY <1>1, <1>3, <1>4, CalmMove DEF Pcs
<1>6. Carries(c)'
  <2> SUFFICES ASSUME NEW l, l = work[c].lease, l = w.lease, l = work'[c].lease
               PROVE  Carries(c)'
    BY <1>3, <1>5
  <2>1. Tied(l)' /\ l # None /\ l.here
    BY <1>2, <1>5, LeaseCarried, LiveIsIts
  <2> QED
    BY <1>3, <1>5, <2>1 DEF Carries, Striking
<1>7. Looked(c)'
  <2>1. process[w.pid].born = w.lease.start
    BY <1>2, <1>3, LiveIsIts
  <2> QED
    BY <1>1, <1>3, <1>5, <2>1, Bounds DEF Looked, Quiet, machine, TypeOK
<1>8. Started(c)'
  BY <1>5 DEF Started
<1> QED
  BY <1>5, <1>6, <1>7, <1>8, QuietKeeps

\* The cleanup takes a lease, or nothing, and ends the call.
LEMMA CleanupKeeps ==
  ASSUME IInv, NEW c \in Calls, Cleanup(c)
  PROVE  IInv'
<1>1. Calm(c)
  BY Stands DEF IInv, TypeOK, Cleanup, Calm, Without
<1> QED
  BY <1>1, EndKeeps DEF Cleanup

-----------------------------------------------------------------------------
(* The mishaps.                                                            *)

\* A call that dies carries nothing on; its lock stays.
LEMMA CrashKeeps ==
  ASSUME IInv, NEW c \in Calls, Crash(c)
  PROVE  IInv'
<1>1. Calm(c)
  BY DisturbIsNoted DEF IInv, TypeOK, Crash, Calm, files
<1>2. PICK place \in {"idle", "dead"} :
        /\ at' = [at EXCEPT ![c] = place]
           /\ work' = [work EXCEPT ![c] = NoWork]
        /\ place = "dead" => lock = c
  BY DEF Crash
<1>3. TypeOK' /\ Quiet(c) /\ at'[c] = place /\ work'[c] = NoWork
  BY <1>1, <1>2, Types, CalmMove DEF Pcs
<1>4. Carries(c)' /\ Looked(c)' /\ Started(c)'
  BY <1>3, Types, Bounds DEF Carries, Striking, Looked, Started, TypeOK
<1> QED
  BY <1>2, <1>3, <1>4, QuietKeeps DEF Crash, files

\* The lock of a dead call is taken over.
LEMMA StaleLockKeeps ==
  ASSUME IInv, NEW c \in Calls, StaleLock(c)
  PROVE  IInv'
<1>1. TypeOK /\ lock = c /\ Carries(c)
  BY DEF IInv, StaleLock
<1>2. Calm(c)
  BY <1>1, Stands, Bounds DEF StaleLock, Calm
<1>3. at' = [at EXCEPT ![c] = "idle"] /\ work' = [work EXCEPT ![c] = work[c]]
  BY <1>1 DEF StaleLock, Goes, TypeOK
<1>4. TypeOK' /\ Quiet(c) /\ at'[c] = "idle" /\ work'[c] = work[c]
  BY <1>1, <1>2, <1>3, WorkTypes, CalmMove DEF Pcs
<1>5. Carries(c)'
  <2> SUFFICES ASSUME NEW l, l = work[c].lease, l = work'[c].lease
               PROVE  Carries(c)'
    BY <1>4
  <2>1. l # None => Tied(l)'
    BY <1>4, LeaseCarried
  <2> QED
    BY <1>4, <2>1 DEF Carries, Striking
<1> QED
  BY <1>4, <1>5, PlainKeeps DEF IInv, Looked

\* A call whose lock is lost does not know. Its look no longer counts, and a
\* second editor may be started beside the one it is about to record.
LEMMA LoseLockKeeps ==
  ASSUME IInv, NEW c \in Calls, LoseLock(c)
  PROVE  IInv'
<1>1. TypeOK /\ Carries(c) /\ Looked(c) /\ Started(c)
  BY DEF IInv
<1>2. Calm(c) /\ faults' > 0
  BY <1>1, DisturbIsNoted, Bounds DEF LoseLock, Calm
<1>3. TypeOK' /\ Quiet(c) /\ at'[c] = at[c] /\ work'[c] = work[c] /\ lock' # c
  BY <1>1, <1>2, Bounds DEF LoseLock, Calm, Quiet, TypeOK, machine
<1>4. Carries(c)'
  <2>1. Evolves
    BY <1>1, <1>3, Bounds DEF Quiet, machine, Evolves, Alive, TypeOK
  <2> QED
    BY <1>1, <1>3, <2>1, CarriesStays
<1>5. Looked(c)'
  BY <1>1, <1>3 DEF Looked, Quiet, machine, Alive
<1>6. Started(c)'
  <2> SUFFICES ASSUME at[c] = "record" PROVE Started(c)'
    BY <1>3 DEF Started
  <2>1. \A e \in Calls : at'[e] = at[e] /\ work'[e] = work[e]
    BY DEF LoseLock
  <2>2. \A p \in Pids : (Alive(p)' /\ process'[p].kind = "own") =>
            \/ process'[p].born = work'[c].born
            \/ process'[p].born \in overlooked'
            \/ process'[p].born > work'[c].born /\ faults' > 0
    BY <1>1, <1>2, <1>3 DEF Started, Quiet, machine, Alive
  <2> QED
    BY <1>1, <1>2, <1>3, <2>1, <2>2 DEF Started, Quiet, machine, RunsAt, Alive
<1> QED
  BY <1>3, <1>4, <1>5, <1>6, QuietKeeps DEF LoseLock
-----------------------------------------------------------------------------
(* Processes start and exit.                                               *)

\* A new process gets a pid that is free, and a start of its own.
NewProcess(p, kind) ==
    /\ ~Alive(p)
    /\ starts < MaxStarts /\ starts' = starts + 1
    /\ process' = [process EXCEPT ![p] = [born |-> starts + 1, kind |-> kind]]

\* A new process is later than all the others, under a pid of its own.
LEMMA NewProcessCounts ==
  ASSUME TypeOK, Counted, NEW p \in Pids,
         NEW kind \in {"own", "foreign", "other"}, NewProcess(p, kind)
  PROVE  /\ process' \in [Pids -> Process \cup {None}]
            /\ starts' \in 0 .. MaxStarts
         /\ Evolves /\ Counted'
         /\ Alive(p)' /\ process'[p].born = starts + 1
            /\ process'[p].kind = kind
         /\ \A q \in Pids : q # p =>
             process'[q] = process[q] /\ (Alive(q)' <=> Alive(q))
<1>1. starts \in Nat /\ starts' \in 0 .. MaxStarts /\ starts' = starts + 1
      /\ starts + 1 \in Starts
  BY Bounds DEF TypeOK, NewProcess, Starts
<1> DEFINE new == [born |-> starts + 1, kind |-> kind]
<1>2. new \in Process /\ new # None /\ new.born = starts + 1 /\ new.kind = kind
  <2>1. new \in Process
    BY <1>1 DEF Process
  <2>2. new # None
    BY <2>1, Bounds
  <2> QED
    BY <2>1, <2>2
<1>3. process'[p] = new /\ \A q \in Pids : q # p => process'[q] = process[q]
  BY DEF NewProcess, TypeOK
<1> HIDE DEF new
<1>4. Alive(p)' /\ \A q \in Pids : q # p => (Alive(q)' <=> Alive(q))
  BY <1>2, <1>3 DEF Alive
<1>5. process' \in [Pids -> Process \cup {None}]
  BY <1>2 DEF NewProcess, TypeOK, new
<1>6. Evolves
  BY <1>1, <1>2, <1>3, <1>4 DEF Evolves
<1>7. Counted'
  <2>1. ASSUME NEW q \in Pids, Alive(q)'
        PROVE  process'[q].born <= starts' /\ process'[q].born \in Nat
               /\ (q # p => process'[q].born <= starts)
    BY <1>1, <1>2, <1>3, <1>4, <2>1, ProcessTypes DEF Counted
  <2>2. ASSUME NEW q \in Pids, NEW r \in Pids, Alive(q)', Alive(r)',
               process'[q].born = process'[r].born
        PROVE  q = r
    BY <1>1, <1>2, <1>3, <1>4, <2>1, <2>2 DEF Counted
  <2> QED
    BY <2>1, <2>2 DEF Counted
<1> QED
  BY <1>1, <1>2, <1>3, <1>4, <1>5, <1>6, <1>7

\* The user, or another program, starts no editor of a call.
LEMMA StartsElsewhereKeeps ==
  ASSUME IInv, NEW p \in Pids, StartsElsewhere(p)
  PROVE  IInv'
<1>1. TypeOK /\ Counted
  BY DEF IInv
<1>2. PICK kind \in {"foreign", "other"} : NewProcess(p, kind)
  BY DEF StartsElsewhere, NewProcess
<1>3. /\ process' \in [Pids -> Process \cup {None}]
         /\ starts' \in 0 .. MaxStarts
      /\ Evolves /\ Counted'
      /\ Alive(p)' /\ process'[p].born = starts + 1 /\ process'[p].kind = kind
      /\ \A q \in Pids : q # p =>
          process'[q] = process[q] /\ (Alive(q)' <=> Alive(q))
  BY <1>1, <1>2, NewProcessCounts
<1>4. TypeOK'
  BY <1>1, <1>3 DEF TypeOK, StartsElsewhere, files, history
<1>5. lease' = lease /\ lock' = lock /\ overlooked' = overlooked
      /\ faults' = faults
      /\ \A c \in Calls : at'[c] = at[c] /\ work'[c] = work[c]
  BY DEF StartsElsewhere, files, history
<1>6. \A q \in Pids : (Alive(q)' /\ process'[q].kind = "own") =>
        q # p /\ Alive(q) /\ process'[q] = process[q]
  BY <1>3
<1>7. (lease # None => Tied(lease))'
  <2> SUFFICES ASSUME NEW l, l = lease, l = lease', l # None PROVE Tied(l)'
    BY <1>5
  <2> QED
    BY <1>1, <1>3, <1>4, TiedStays DEF IInv, TypeOK
<1>8. SoleOwnEditor' /\ (overlooked # {} => faults > 0)'
  BY <1>5, <1>6 DEF IInv, SoleOwnEditor, Own
<1>9. ASSUME NEW c \in Calls
      PROVE  Carries(c)' /\ Looked(c)' /\ Started(c)'
             /\ (at[c] = "dead" => lock = c)'
  <2>1. Carries(c) /\ Looked(c) /\ Started(c) /\ (at[c] = "dead" => lock = c)
    BY DEF IInv
  <2>2. Carries(c)' /\ Looked(c)'
    BY <1>1, <1>3, <1>4, <1>5, <1>6, <2>1, CarriesStays, LookedStays
  <2>3. Started(c)'
    <3> SUFFICES ASSUME at[c] = "record" PROVE Started(c)'
      BY <1>5 DEF Started
    <3>1. starts' = starts + 1 /\ starts \in Nat /\ work[c].born \in Nat
          /\ work[c].born <= starts /\ work[c].pid # None
             /\ work[c].born # None
      BY <1>1, <1>2, <2>1, WorkTypes, Bounds DEF NewProcess, Started, TypeOK,
         Starts
    <3>2. \A q \in Pids : RunsAt(work[c].born, q)' => q = work[c].pid
      <4> SUFFICES ASSUME NEW b, b = work[c].born, b = work'[c].born,
                          NEW q \in Pids, RunsAt(b, q)'
                   PROVE  q = work[c].pid
        BY <1>5
      <4>1. RunsAt(b, q)
        BY <1>1, <1>3, <1>4, <3>1, RunsNoMore
      <4> QED
        BY <2>1, <4>1 DEF Started
    <3>3. \A q \in Pids : (Alive(q)' /\ process'[q].kind = "own") =>
            \/ process'[q].born = work'[c].born
            \/ process'[q].born \in overlooked'
            \/ process'[q].born > work'[c].born /\ faults' > 0
      BY <1>5, <1>6, <2>1 DEF Started
    <3> QED
      BY <1>5, <2>1, <3>1, <3>2, <3>3 DEF Started
  <2> QED
    BY <1>5, <2>1, <2>2, <2>3
<1> QED
  BY <1>3, <1>4, <1>7, <1>8, <1>9 DEF IInv

\* A process that exits takes nothing along but, at most, its own lease.
LEMMA ExitsKeeps ==
  ASSUME IInv, NEW p \in Pids, Exits(p)
  PROVE  IInv'
<1>1. TypeOK /\ Counted
  BY DEF IInv
<1>2. /\ process' \in [Pids -> Process \cup {None}] /\ starts' = starts
      /\ ~Alive(p)'
      /\ \A q \in Pids : q # p =>
          process'[q] = process[q] /\ (Alive(q)' <=> Alive(q))
  BY DEF Exits, TypeOK, Alive, IInv
<1>3. lock' = lock /\ faults' = faults /\ lease' \in {lease, None}
      /\ \A c \in Calls : at'[c] = at[c] /\ work'[c] = work[c]
  BY DEF Exits
<1>4. TypeOK'
  BY <1>1, <1>2, <1>3 DEF TypeOK, Exits
<1>5. \A q \in Pids : Alive(q)' =>
        /\ q # p /\ Alive(q) /\ process'[q] = process[q]
        /\ process[q].born \in overlooked => process[q].born \in overlooked'
  BY <1>1, <1>2 DEF Exits, Counted
<1>6. Evolves /\ Counted'
  BY <1>1, <1>2, <1>5, Bounds DEF Evolves, Counted, TypeOK
<1>7. (lease # None => Tied(lease))'
  <2> SUFFICES ASSUME NEW l, l = lease, l = lease', l # None PROVE Tied(l)'
    BY <1>3
  <2> QED
    BY <1>1, <1>4, <1>6, TiedStays DEF IInv, TypeOK
<1>8. SoleOwnEditor' /\ (overlooked # {} => faults > 0)'
  <2>1. overlooked' \subseteq overlooked
    BY DEF Exits
  <2>2. ASSUME NEW a \in Starts, NEW b \in Starts, a < b, Own(a)', Own(b)'
        PROVE  a \in overlooked'
    BY <1>5, <2>2 DEF IInv, SoleOwnEditor, Own
  <2> QED
    BY <1>3, <2>1, <2>2 DEF IInv, SoleOwnEditor
<1>9. ASSUME NEW c \in Calls
      PROVE  Carries(c)' /\ Looked(c)' /\ Started(c)'
             /\ (at[c] = "dead" => lock = c)'
  <2>1. Carries(c) /\ Looked(c) /\ Started(c) /\ (at[c] = "dead" => lock = c)
    BY DEF IInv
  <2>2. Carries(c)' /\ Looked(c)'
    BY <1>1, <1>3, <1>4, <1>5, <1>6, <2>1, CarriesStays, LookedStays
  <2>3. Started(c)'
    <3> SUFFICES ASSUME at[c] = "record" PROVE Started(c)'
      BY <1>3 DEF Started
    <3>1. \A q \in Pids : RunsAt(work[c].born, q)' => q = work[c].pid
      BY <1>3, <1>5, <2>1 DEF Started, RunsAt
    <3>2. \A q \in Pids : (Alive(q)' /\ process'[q].kind = "own") =>
            \/ process'[q].born = work'[c].born
            \/ process'[q].born \in overlooked'
            \/ process'[q].born > work'[c].born /\ faults' > 0
      BY <1>3, <1>5, <2>1 DEF Started
    <3> QED
      BY <1>2, <1>3, <2>1, <3>1, <3>2 DEF Started
  <2> QED
    BY <1>3, <2>1, <2>2, <2>3
<1> QED
  BY <1>4, <1>6, <1>7, <1>8, <1>9 DEF IInv

\* A call that starts an editor still has the lock, so that what its scan saw
\* still counts: the new editor is the only one, but for overlooked ones.
LEMMA SpawnKeeps ==
  ASSUME IInv, NEW c \in Calls, Spawn(c)
  PROVE  IInv'
<1>1. TypeOK /\ Counted
  BY DEF IInv
<1>2. PICK p \in Pids :
        /\ NewProcess(p, "own")
        /\ work' = [work EXCEPT ![c] = [NoWork EXCEPT !.pid = p, !.born = starts + 1]]
  BY DEF Spawn, SpawnUnchecked, NewProcess
<1>3. /\ process' \in [Pids -> Process \cup {None}]
         /\ starts' \in 0 .. MaxStarts
      /\ Evolves /\ Counted'
      /\ Alive(p)' /\ process'[p].born = starts + 1 /\ process'[p].kind = "own"
      /\ \A q \in Pids : q # p =>
          process'[q] = process[q] /\ (Alive(q)' <=> Alive(q))
  BY <1>1, <1>2, NewProcessCounts
<1>4. starts' = starts + 1 /\ starts \in Nat /\ starts + 1 \in Starts
      /\ ~Alive(p)
  BY <1>1, <1>2, Bounds DEF NewProcess, TypeOK, Starts
<1>5. lease' = lease /\ lock' = lock /\ overlooked' = overlooked
      /\ faults' = faults
      /\ lock = c /\ at[c] = "hook"
  BY DEF Spawn, SpawnUnchecked, files, history
<1> DEFINE w == [NoWork EXCEPT !.pid = p, !.born = starts + 1]
<1>6. w \in Work /\ w.lease = None /\ w.pid = p /\ w.born = starts + 1
      /\ w.seen = 0
  BY <1>4, Types DEF Work
<1>7. at' = [at EXCEPT ![c] = "record"] /\ work' = [work EXCEPT ![c] = w]
  BY <1>2 DEF Spawn, SpawnUnchecked, Goes
<1> HIDE DEF w
<1>8. /\ at' \in [Calls -> Pcs] /\ work' \in [Calls -> Work]
      /\ at'[c] = "record" /\ work'[c] = w
      /\ \A d \in Calls : d # c => at'[d] = at[d] /\ work'[d] = work[d]
  BY <1>1, <1>6, <1>7, Moves DEF Pcs
<1>9. TypeOK'
  BY <1>1, <1>3, <1>5, <1>8 DEF TypeOK
<1>10. \A q \in Pids : q # p /\ Alive(q) /\ process[q].kind = "own" =>
        process[q].born \in overlooked
  BY <1>5 DEF IInv, Looked, Editors, Editor, Excused
<1>11. (lease # None => Tied(lease))'
  <2> SUFFICES ASSUME NEW l, l = lease, l = lease', l # None PROVE Tied(l)'
    BY <1>5
  <2> QED
    BY <1>1, <1>3, <1>9, TiedStays DEF IInv, TypeOK
<1>12. SoleOwnEditor' /\ (overlooked # {} => faults > 0)'
  <2>1. ASSUME NEW a \in Starts, NEW b \in Starts, a < b, Own(a)', Own(b)'
        PROVE  a \in overlooked'
    <3>1. PICK q \in Pids : Alive(q)' /\ process'[q].kind = "own"
               /\ process'[q].born = a
      BY <2>1 DEF Own
    <3>2. b <= starts + 1
      BY <1>3, <1>4, <2>1 DEF Own, Counted
    <3>3. q # p
      BY <1>3, <1>4, <2>1, <3>1, <3>2 DEF Starts
    <3> QED
      BY <1>3, <1>5, <1>10, <3>1, <3>3
  <2> QED
    BY <1>5, <2>1 DEF IInv, SoleOwnEditor
<1>13. Carries(c)' /\ Looked(c)'
  BY <1>3, <1>4, <1>6, <1>8, <1>9, Bounds DEF Carries, Striking, Looked, TypeOK
<1>14. Started(c)'
  <2>1. work'[c].pid # None /\ work'[c].born # None /\ work'[c].born <= starts'
    BY <1>4, <1>6, <1>8, Bounds
  <2>2. \A q \in Pids : RunsAt(work[c].born, q)' => q = work'[c].pid
    BY <1>3, <1>6, <1>8 DEF RunsAt, Counted
  <2>3. (lease # None /\ lease.here => lease.nonce # work[c].born)'
    BY <1>1, <1>4, <1>5, <1>6, <1>8, LeaseTypes DEF IInv, Tied, TypeOK
  <2>4. ASSUME NEW d \in Calls, at'[d] = "record", work'[d].born = work'[c].born
        PROVE  d = c
    BY <1>1, <1>4, <1>6, <1>8, <2>4, WorkTypes DEF IInv, Started, Starts
  <2>5. \A q \in Pids : (Alive(q)' /\ process'[q].kind = "own") =>
            \/ process'[q].born = work'[c].born
            \/ process'[q].born \in overlooked'
    BY <1>3, <1>5, <1>6, <1>8, <1>10
  <2> QED
    BY <1>5, <2>1, <2>2, <2>3, <2>4, <2>5 DEF Started
<1>15. ASSUME NEW d \in Calls, d # c
       PROVE  Carries(d)' /\ Looked(d)' /\ Started(d)'
              /\ (at[d] = "dead" => lock = d)'
  <2>1. Carries(d) /\ Looked(d) /\ Started(d) /\ (at[d] = "dead" => lock = d)
        /\ at'[d] = at[d] /\ work'[d] = work[d]
    BY <1>8, <1>15 DEF IInv
  <2>2. Carries(d)' /\ Looked(d)'
    <3>1. Carries(d)'
      BY <1>1, <1>3, <1>9, <2>1, CarriesStays
    <3>2. (lock' = d => lock = d) /\ lock # d
      BY <1>5, <1>15
    <3>3. Looked(d)'
      BY <1>1, <1>3, <1>5, <1>9, <2>1, <3>2, LookedStays
    <3> QED
      BY <3>1, <3>3
  <2>3. Started(d)'
    <3> SUFFICES ASSUME at[d] = "record" PROVE Started(d)'
      BY <2>1 DEF Started
    <3>1. work[d].born \in Nat /\ work[d].born <= starts /\ faults > 0
      BY <1>1, <1>5, <1>15, <2>1, WorkTypes DEF Started, Starts
    <3>2. \A q \in Pids : RunsAt(work[d].born, q)' => q = work[d].pid
      <4> SUFFICES ASSUME NEW b, b = work[d].born, b = work'[d].born,
                          NEW q \in Pids, RunsAt(b, q)'
                   PROVE  q = work[d].pid
        BY <2>1
      <4>1. RunsAt(b, q)
        BY <1>1, <1>3, <1>9, <3>1, RunsNoMore
      <4> QED
        BY <2>1, <4>1 DEF Started
    <3>3. \A q \in Pids : (Alive(q)' /\ process'[q].kind = "own") =>
            \/ process'[q].born = work'[d].born
            \/ process'[q].born \in overlooked'
            \/ process'[q].born > work'[d].born /\ faults' > 0
      BY <1>3, <1>4, <1>5, <2>1, <3>1 DEF Started
    <3>4. \A e \in Calls : at'[e] = "record" /\ work'[e].born = work'[d].born =>
              e = d
      BY <1>4, <1>6, <1>8, <2>1, <3>1 DEF Started
    <3> QED
      BY <1>4, <1>5, <2>1, <3>1, <3>2, <3>3, <3>4 DEF Started
  <2> QED
    BY <1>5, <2>1, <2>2, <2>3
<1> QED
  BY <1>3, <1>5, <1>8, <1>9, <1>11, <1>12, <1>13, <1>14, <1>15 DEF IInv

\* The lease is of the editor that the call started, also when the start time
\* is read from a process that got the pid since.
LEMMA RecordKeeps ==
  ASSUME IInv, NEW c \in Calls, Record(c)
  PROVE  IInv'
<1>1. TypeOK /\ Started(c) /\ work[c].pid \in Pids /\ work[c].born \in Starts
      /\ work[c].born <= starts /\ at[c] = "record" /\ work[c].seen <= starts
  BY WorkTypes DEF IInv, Record, Started, Looked
<1>2. PICK start \in Recorded(work[c].pid) :
        lease' = [pid |-> work[c].pid, nonce |-> work[c].born,
                  start |-> start, here |-> TRUE]
  BY DEF Record
<1> DEFINE new == [pid |-> work[c].pid, nonce |-> work[c].born,
                   start |-> start, here |-> TRUE]
           w == [work[c] EXCEPT !.born = None, !.lease = lease']
<1>3. start \in Starts \cup {None}
      /\ (start = None \/ (Alive(work[c].pid)
         /\ start = process[work[c].pid].born))
  BY <1>1, <1>2, ProcessTypes DEF Recorded
<1>4. new \in Lease /\ new.pid = work[c].pid /\ new.nonce = work[c].born
      /\ new.start = start /\ new.here /\ new # None
  <2>1. new \in Lease
    BY <1>1, <1>3, Bounds DEF Lease, Starts
  <2> QED
    BY <2>1, Bounds
<1>5. Tied(new)
  <2>1. \A q \in Pids : RunsAt(work[c].born, q) => q = work[c].pid
    BY <1>1 DEF Started
  <2>2. start \in {None, work[c].born} \/ ~Runs(work[c].born)
    BY <1>3, <2>1 DEF Runs, RunsAt
  <2> HIDE DEF new
  <2> QED
    BY <1>1, <1>4, <2>1, <2>2 DEF Tied
<1>6. lease' = new
  BY <1>2
<1> HIDE DEF new
<1>7. w \in Work /\ w.lease = new /\ w.pid = work[c].pid
      /\ w.seen = work[c].seen
  BY <1>1, <1>4, <1>6, WorkTypes DEF Work
<1>8. at' = [at EXCEPT ![c] = "await"] /\ work' = [work EXCEPT ![c] = w]
  BY DEF Record, Goes
<1> HIDE DEF w
<1>9. /\ at' \in [Calls -> Pcs] /\ work' \in [Calls -> Work]
      /\ at'[c] = "await" /\ work'[c] = w
      /\ \A d \in Calls : d # c => at'[d] = at[d] /\ work'[d] = work[d]
  BY <1>1, <1>7, <1>8, Moves DEF Pcs
<1>10. lock' \in Calls \cup {None} /\ \A d \in Calls : d # c =>
           (lock' = d <=> lock = d)
  BY <1>1, LockIsOwn DEF Record
<1>11. UNCHANGED <<machine, history>>
  BY DEF Record
<1>12. TypeOK' /\ Evolves
  BY <1>1, <1>4, <1>6, <1>9, <1>10, <1>11, Bounds DEF TypeOK, machine,
     history, Evolves, Alive
<1>13. ASSUME NEW l \in Lease, Tied(l) PROVE Tied(l)'
  BY <1>1, <1>12, <1>13, TiedStays
<1>14. (lease # None => Tied(lease))' /\ Carries(c)'
  <2> SUFFICES ASSUME NEW l, l = new, l = lease', l = work'[c].lease
               PROVE  Tied(l)' /\ Carries(c)'
    BY <1>6, <1>7, <1>9
  <2>1. Tied(l)'
    BY <1>4, <1>5, <1>13
  <2>2. work'[c].pid = l.pid /\ l.here
    BY <1>4, <1>7, <1>9
  <2> QED
    BY <1>9, <2>1, <2>2 DEF Carries, Striking
<1>15. Looked(c)' /\ Started(c)' /\ Counted' /\ SoleOwnEditor'
       /\ (overlooked # {} => faults > 0)'
  BY <1>1, <1>7, <1>9, <1>11 DEF IInv, Looked, Started, machine, history,
     Counted, SoleOwnEditor, Own, Alive
<1>16. ASSUME NEW d \in Calls, d # c
       PROVE  Carries(d)' /\ Looked(d)' /\ Started(d)'
              /\ (at[d] = "dead" => lock = d)'
  <2>1. Carries(d) /\ Looked(d) /\ Started(d) /\ (at[d] = "dead" => lock = d)
        /\ at'[d] = at[d] /\ work'[d] = work[d] /\ (lock' = d <=> lock = d)
    BY <1>9, <1>10, <1>16 DEF IInv
  <2>2. Carries(d)' /\ Looked(d)'
    BY <1>1, <1>11, <1>12, <2>1, CarriesStays, LookedStays DEF machine,
       history, Alive
  <2>3. Started(d)'
    <3> SUFFICES ASSUME at[d] = "record" PROVE Started(d)'
      BY <2>1 DEF Started
    <3>1. new.nonce # work[d].born
      BY <1>1, <1>4, <1>16 DEF Started
    <3>2. \A e \in Calls : at'[e] = "record" /\ work'[e].born = work'[d].born =>
              e = d
      BY <1>9, <2>1 DEF Started
    <3>3. \A p \in Pids : (Alive(p)' /\ process'[p].kind = "own") =>
            \/ process'[p].born = work'[d].born
            \/ process'[p].born \in overlooked'
            \/ process'[p].born > work'[d].born /\ faults' > 0
      BY <1>11, <2>1 DEF Started, machine, history, Alive
    <3> QED
      BY <1>6, <1>11, <2>1, <3>1, <3>2, <3>3 DEF Started, machine, history,
         RunsAt, Alive
  <2> QED
    BY <2>1, <2>2, <2>3
<1> QED
  BY <1>9, <1>12, <1>14, <1>15, <1>16 DEF IInv

-----------------------------------------------------------------------------
(* The invariant, and what it says.                                        *)

\* Nothing runs at first, and a lease left behind is of another machine.
LEMMA Initially == Init => IInv
<1> SUFFICES ASSUME Init PROVE IInv
  OBVIOUS
<1> DEFINE left == [pid |-> CHOOSE p \in Pids : TRUE, nonce |-> 0,
                    start |-> None, here |-> FALSE]
<1>1. left \in Lease /\ ~left.here
  BY Bounds DEF Lease
<1>2. lease \in {None, left}
  BY DEF Init
<1> HIDE DEF left
<1>3. TypeOK
  BY <1>1, <1>2, Types, Bounds DEF Init, TypeOK, Pcs
<1>4. lease # None => Tied(lease)
  BY <1>1, <1>2 DEF Tied
<1>5. \A p \in Pids : ~Alive(p)
  BY DEF Init, Alive
<1>6. Counted /\ SoleOwnEditor /\ (overlooked # {} => faults > 0)
  BY <1>5 DEF Init, Counted, SoleOwnEditor, Own
<1>7. ASSUME NEW c \in Calls
      PROVE  Carries(c) /\ Looked(c) /\ Started(c)
             /\ (at[c] = "dead" => lock = c)
  <2>1. at[c] = "idle" /\ work[c].lease = None /\ work[c].seen <= starts
    BY Types DEF Init
  <2> QED
    BY <2>1 DEF Carries, Looked, Started, Striking
<1> QED
  BY <1>3, <1>4, <1>6, <1>7 DEF IInv

\* Each step of ensure keeps the invariant,
LEMMA EnsureKeeps ==
  ASSUME IInv, NEW c \in Calls, Ensure(c)
  PROVE  IInv'
  BY EnterKeeps, EndingsKeep, JoinKeeps, NoLeaseKeeps, FindsEditorKeeps,
     MustResolveKeeps, ResolveKeeps, MayLaunchKeeps, LaunchFailsKeeps,
     SpawnKeeps, RecordKeeps, StartedGoneKeeps DEF Ensure

\* each step of a close,
LEMMA CloseKeeps ==
  ASSUME IInv, NEW c \in Calls, Close(c)
  PROVE  IInv'
  BY EndingsKeep, StaleLeaseKeeps, LookKeeps, StruckKeeps, ExitedKeeps,
     WaitExpiresKeeps, CleanupKeeps DEF Close

\* a step of somebody else,
LEMMA StutterKeeps ==
  ASSUME IInv, UNCHANGED vars
  PROVE  IInv'
<1>1. TypeOK' /\ Counted' /\ SoleOwnEditor' /\ (overlooked # {} => faults > 0)'
      /\ (lease # None => Tied(lease))'
  BY DEF IInv, vars, machine, files, history, TypeOK, Counted, SoleOwnEditor,
     Own, Alive, Tied, Runs, RunsAt
<1>2. TypeOK /\ Evolves /\ lock' = lock
  BY Bounds DEF IInv, vars, machine, files, TypeOK, Evolves, Alive
<1>3. ASSUME NEW c \in Calls
      PROVE  Carries(c)' /\ Looked(c)' /\ Started(c)'
             /\ (at[c] = "dead" => lock = c)'
  <2>1. Carries(c) /\ Looked(c) /\ Started(c) /\ (at[c] = "dead" => lock = c)
        /\ at' = at /\ work' = work
    BY DEF IInv, vars
  <2>2. Carries(c)' /\ Looked(c)'
    BY <1>1, <1>2, <2>1, CarriesStays, LookedStays DEF vars, machine, history,
       Alive
  <2> QED
    BY <2>1, <2>2 DEF Started, vars, machine, files, history, Alive, RunsAt
<1> QED
  BY <1>1, <1>3 DEF IInv

\* and so every step does.
LEMMA Inductive == IInv /\ [Next]_vars => IInv'
<1> SUFFICES ASSUME IInv, [Next]_vars PROVE IInv'
  OBVIOUS
<1>1. CASE UNCHANGED vars
  BY <1>1, StutterKeeps
<1>2. ASSUME NEW c \in Calls,
             \/ CallEnsure(c) \/ CallClose(c)
             \/ Ensure(c) \/ Rescan(c) \/ Close(c)
             \/ Crash(c) \/ StaleLock(c) \/ LoseLock(c)
      PROVE  IInv'
  BY <1>2, CallEnsureKeeps, CallCloseKeeps, EnsureKeeps, RescanKeeps,
     CloseKeeps, CrashKeeps, StaleLockKeeps, LoseLockKeeps
<1>3. ASSUME NEW p \in Pids, Exits(p) \/ StartsElsewhere(p)
      PROVE  IInv'
  BY <1>3, ExitsKeeps, StartsElsewhereKeeps
<1> QED
  BY <1>1, <1>2, <1>3 DEF Next

\* What a call remembers of its lease, of its last look and of the editor it
\* started is true throughout, in every behaviour of the session.
THEOREM Invariant == Spec => []IInv
  BY Initially, Inductive, PTL DEF Spec

\* What is on disk, what runs and what a call carries is of its type.
THEOREM TypeCorrect == Spec => []TypeOK
<1>1. IInv => TypeOK
  BY DEF IInv
<1> QED
  BY <1>1, Invariant, PTL

\* Of two editors started by calls, and both running, the first was overlooked
\* when the second one was started.
THEOREM SoleEditor == Spec => []SoleOwnEditor
<1>1. IInv => SoleOwnEditor
  BY DEF IInv
<1> QED
  BY <1>1, Invariant, PTL

\* What is asked to quit, or killed, is the process of the lease, or one that
\* got its pid after the last check.
THEOREM LeasedStruck == Spec => []OnlyLeasedStruck
<1>1. IInv => OnlyLeasedStruck
  BY DEF IInv, Looked, OnlyLeasedStruck
<1> QED
  BY <1>1, Invariant, PTL

\* A call gives a lease up only when the editor of it is gone.
THEOREM GivenUpIsGone == Spec => []ClosedMeansGone
<1>1. IInv => ClosedMeansGone
  BY DEF IInv, Carries, ClosedMeansGone, Own, Runs, RunsAt
<1> QED
  BY <1>1, Invariant, PTL

-----------------------------------------------------------------------------
(* What a step may never do.                                               *)

\* Nothing but the start of an editor leads from the hook to the record.
LEMMA OnlySpawnStarts ==
  ASSUME TypeOK, Next, NEW c \in Calls, at[c] = "hook", at'[c] = "record"
  PROVE  Spawn(c)
<1>1. ASSUME NEW d \in Calls, Ensure(d), ~Spawn(d) PROVE FALSE
  BY <1>1 DEF TypeOK, Ensure, Enter, LockBusy, Join, NoLease, FindsEditor,
     MustResolve, Resolve, MayLaunch, LaunchFails, LockLost, Record, RecordFails, WaitedGone,
     StartedGone, Ready, NotReady, Goes, Ends, Again
<1>2. ASSUME NEW d \in Calls,
             CallEnsure(d) \/ CallClose(d) \/ Rescan(d) \/ Close(d)
               \/ Crash(d) \/ StaleLock(d) \/ LoseLock(d)
      PROVE  FALSE
  BY <1>2 DEF TypeOK, CallEnsure, CallClose, Rescan, Close, Declines,
     StaleLease, CloseLease, Request, Exited, WaitExpires, Reverify, Kill, StillRunning,
     Cleanup, Crash, StaleLock, LoseLock, Goes, Ends, Again
<1>3. ASSUME NEW p \in Pids, Exits(p) \/ StartsElsewhere(p) PROVE FALSE
  BY <1>3 DEF Exits, StartsElsewhere
<1>4. PICK d \in Calls : Spawn(d)
  BY <1>1, <1>2, <1>3 DEF Next
<1>5. d = c
  BY <1>4 DEF TypeOK, Spawn, SpawnUnchecked, Goes
<1> QED
  BY <1>4, <1>5

\* An editor is started only where no other one is open, but for overlooked
\* ones and for those that the user opened during the hook.
THEOREM LaunchOverNone == Spec => StartsOverNone
<1>1. ASSUME IInv, [Next]_vars, NEW c \in Calls, NEW p \in Pids,
             at[c] = "hook", at'[c] = "record", Editor(p)
      PROVE  \/ process[p].born \in overlooked
             \/ process[p].kind = "foreign" /\ process[p].born > work[c].seen
  <2>1. Next
    BY <1>1 DEF vars
  <2>2. lock = c
    BY <1>1, <2>1, OnlySpawnStarts DEF IInv, Spawn
  <2> QED
    BY <1>1, <2>2 DEF IInv, Looked, Editors, Excused
<1>2. IInv /\ [Next]_vars =>
        \A c \in Calls, p \in Pids :
            (at[c] = "hook" /\ at'[c] = "record" /\ Editor(p)) =>
                \/ process[p].born \in overlooked
                \/ process[p].kind = "foreign" /\ process[p].born > work[c].seen
  BY <1>1
<1> QED
  BY <1>2, Invariant, PTL DEF Spec, StartsOverNone

\* Only a launch, a record, a cleanup and an exiting editor change the lease.
LEMMA LeaseChanges ==
  ASSUME Next, lease' # lease
  PROVE  \/ \E c \in Calls : MayLaunch(c) \/ Record(c) \/ Cleanup(c)
         \/ \E p \in Pids : Exits(p)
<1>1. ASSUME NEW c \in Calls, Ensure(c), ~MayLaunch(c), ~Record(c) PROVE FALSE
  BY <1>1 DEF Ensure, Enter, LockBusy, Join, NoLease, FindsEditor, MustResolve,
     Resolve, LaunchFails, LockLost, Spawn, SpawnUnchecked, RecordFails, WaitedGone,
     StartedGone, Ready, NotReady, files
<1>2. ASSUME NEW c \in Calls, Close(c), ~Cleanup(c) PROVE FALSE
  BY <1>2 DEF Close, Declines, StaleLease, CloseLease, Request, Exited,
     WaitExpires, Reverify, Kill, StillRunning, files
<1>3. ASSUME NEW c \in Calls,
             \/ CallEnsure(c) \/ CallClose(c) \/ Rescan(c)
             \/ Crash(c) \/ StaleLock(c) \/ LoseLock(c)
      PROVE  FALSE
  BY <1>3 DEF CallEnsure, CallClose, Rescan, Crash, StaleLock, LoseLock, files
<1>4. ASSUME NEW p \in Pids, StartsElsewhere(p) PROVE FALSE
  BY <1>4 DEF StartsElsewhere, files
<1> QED
  BY <1>1, <1>2, <1>3, <1>4 DEF Next

\* A lease that is taken away is of this machine, and its editor is gone.
LEMMA TakenIsGone ==
  ASSUME IInv, NEW c \in Calls, MayLaunch(c) \/ Cleanup(c), lease' # lease
  PROVE  lease # None /\ lease.here /\ ~Runs(lease.nonce)
<1> SUFFICES ASSUME NEW l, l = work[c].lease
             PROVE  lease # None /\ lease.here /\ ~Runs(lease.nonce)
  OBVIOUS
<1>1. lease' = Without(l) /\ l # None /\ l.here /\ ~Runs(l.nonce)
  BY DEF IInv, Carries, MayLaunch, Cleanup, Without
<1>2. lease # None /\ lease.nonce = l.nonce /\ lease.here = l.here
  BY <1>1 DEF Without
<1> QED
  BY <1>1, <1>2

\* A record leaves a lease.
LEMMA RecordWrites ==
  ASSUME IInv, NEW c \in Calls, Record(c)
  PROVE  lease' # None
<1>1. PICK start \in Recorded(work[c].pid) :
        lease' = [pid |-> work[c].pid, nonce |-> work[c].born,
                  start |-> start, here |-> TRUE]
  BY DEF Record
<1>2. work[c].pid \in Pids /\ work[c].born \in Starts
  BY WorkTypes DEF IInv, Started, Record
<1>3. start \in Starts \cup {None}
  BY <1>2, ProcessTypes DEF IInv, Recorded
<1>4. lease' \in Lease
  BY <1>1, <1>2, <1>3, Bounds DEF Lease, Starts
<1> QED
  BY <1>4, Bounds

\* While the editor of a lease runs, the lease stays, unless something went
\* wrong and a second editor took its place.
THEOREM LeaseStays == Spec => LiveLeaseKept
<1>1. ASSUME IInv, [Next]_vars, lease # None, lease' # lease
      PROVE  /\ \A b \in Starts : (lease.here /\ lease.nonce = b /\ Own(b)') =>
                    faults > 0 /\ lease' # None
             /\ ~lease.here => lease' # None
  <2>1. Next
    BY <1>1 DEF vars, files
  <2>2. CASE \E c \in Calls : MayLaunch(c) \/ Cleanup(c)
    <3>1. lease.here /\ ~Runs(lease.nonce) /\ UNCHANGED machine
      BY <1>1, <2>2, TakenIsGone DEF MayLaunch, Cleanup
    <3> QED
      BY <3>1 DEF Own, Runs, RunsAt, machine, Alive
  <2>3. ASSUME NEW c \in Calls, Record(c)
        PROVE  /\ \A b \in Starts : (lease.here /\ lease.nonce = b
                  /\ Own(b)') =>
                      faults > 0 /\ lease' # None
               /\ ~lease.here => lease' # None
    <3>1. lease' # None
      BY <1>1, <2>3, RecordWrites
    <3>2. ASSUME NEW b \in Starts, lease.here, lease.nonce = b, Own(b)' PROVE faults > 0
      <4>1. PICK p \in Pids : Alive(p) /\ process[p].kind = "own"
                 /\ process[p].born = b
        BY <2>3, <3>2 DEF Record, machine, Own, Alive
      <4>2. Started(c) /\ at[c] = "record"
        BY <1>1, <2>3 DEF IInv, Record
      <4>3. b # work[c].born
        BY <1>1, <3>2, <4>2 DEF Started
      <4>4. b \in overlooked \/ faults > 0
        BY <4>1, <4>2, <4>3 DEF Started
      <4> QED
        BY <1>1, <4>4 DEF IInv
    <3> QED
      BY <3>1, <3>2
  <2>4. ASSUME NEW p \in Pids, Exits(p)
        PROVE  /\ \A b \in Starts : (lease.here /\ lease.nonce = b
                  /\ Own(b)') =>
                      faults > 0 /\ lease' # None
               /\ ~lease.here => lease' # None
    <3>1. lease.here /\ lease.nonce = process[p].born /\ Alive(p)
      BY <1>1, <2>4 DEF Exits
    <3>2. \A q \in Pids : Alive(q)' =>
              q # p /\ Alive(q) /\ process'[q] = process[q]
      BY <1>1, <2>4 DEF Exits, IInv, TypeOK, Alive
    <3>3. \A b \in Starts : b = lease.nonce => ~Own(b)'
      BY <1>1, <3>1, <3>2 DEF Own, IInv, Counted
    <3> QED
      BY <3>1, <3>3
  <2> QED
    BY <1>1, <2>1, <2>2, <2>3, <2>4, LeaseChanges
<1>2. IInv /\ [Next]_vars =>
        /\ \A b \in Starts :
            (lease # None /\ lease.here /\ lease.nonce = b /\ lease' # lease
               /\ Own(b)') => faults > 0 /\ lease' # None
        /\ (lease # None /\ ~lease.here) => lease' # None
  BY <1>1
<1> QED
  BY <1>2, Invariant, PTL DEF Spec, LiveLeaseKept
=============================================================================
