------------------------- MODULE CredentialProvider -------------------------
(***************************************************************************)
(* Refreshing one credential family (src/src/credential-provider.ts) by    *)
(* several processes over one machine store. Each process has one provider *)
(* (its memory is lost with the process) and may run several overlapping   *)
(* calls of getAccessToken() and refresh(). The store lock is the section  *)
(* that CredentialLock implements: a call is inside, or waits, or is busy. *)
(*                                                                         *)
(* A token stands for the pair of access and refresh token of one          *)
(* generation. Whether a token is fresh, near its expiry or expired is     *)
(* chosen anew at every look: the clock runs between any two looks. The    *)
(* grace window of the server outlives one answer that does not arrive and *)
(* the prompt retry after it (15 s + 1 s < 30 s), and does not outlive the *)
(* stale bar of the lock (30 s < 60 s): GraceEnds and TakeOver say so. The *)
(* requests of one attempt (25 s at most) end within the skew window of    *)
(* rule 6 (60 s): CoolsDown says so.                                       *)
(***************************************************************************)
EXTENDS AuthorizationServer, SequencesExt

CONSTANTS
    Calls,          \* the calls that may overlap
    ProcOf,         \* [Calls -> process]
    DefaultOf,      \* [process -> client id]: defaultClientId
    FallbackOf,     \* [process -> sequence of client ids]: fallbackClientIds
    MintClient,     \* the client the first family was minted under
    Stamped,        \* whether the store names that client: a set of BOOLEANs
    ModesOf,        \* [Calls -> modes]: how a call is made
    NoToken, NoClient,
    NoCall, DeadCall,
    MaxFaults,      \* how often the environment may interfere
    Disturbances    \* the kinds of interference

Procs == {ProcOf[c] : c \in Calls}

DisturbanceKinds == {"crash", "lose", "fail", "cancel", "disk", "unreadable",
                     "expire", "login", "signOut", "otherVerdict", "sibling"}

Modes == {"valid", "needy"}

ASSUME ProviderAssumption ==
    /\ MaxGen \in Nat /\ MaxFaults \in Nat /\ MaxFamilies \in Nat \ {0}
    /\ NoToken \notin Tokens /\ NoClient \notin Clients
    /\ NoCall # DeadCall
    /\ {NoCall, DeadCall} \cap (Calls \cup Procs) = {} /\ Calls \cap Procs = {}
    /\ MintClient \in Clients /\ Stamped \subseteq BOOLEAN
    /\ DefaultOf \in [Procs -> Clients]
    /\ \A p \in Procs :
        /\ FallbackOf[p] \in Seq(Clients)
        /\ IsInjective(<<DefaultOf[p]>> \o FallbackOf[p])
    /\ \A c \in Calls : ModesOf[c] \subseteq Modes
    /\ Disturbances \subseteq DisturbanceKinds

VARIABLES
    rows,       \* the server's rows of the families minted so far
    store,      \* the family on disk and the client id it names
    readable,   \* whether the store can be decrypted and parsed
    memo,       \* the token the dead-family sidecar names
    holder,     \* who is inside the lock: a call; a process, with a call for
                \* another family; DeadCall, left behind by a dead process
    pc,         \* what a call does next
    mode,       \* "valid": its token will do; "needy": expired, or rejected
    snap,       \* the token the call started from
    tok,        \* the token it presents
    ids,        \* the client ids it may still present, in order
    reply,      \* the server's answer
    attempt,    \* 1, or 2 in the prompt retry
    out,        \* how the call ended, and the token it hands back
    dead,       \* a provider's _deadFamilies
    rate,       \* a provider's _lastAttempt
    pending,    \* a provider's _transientClientIds
    events,     \* how often a provider told that a family is dead
    lost,       \* the call whose rotation was lost, until another one takes
                \* the lock: its retry is prompt
    losses,     \* answers and rotations that were lost
    hits,       \* replays the server answered
    revoked,    \* families the server revoked for reuse
    faults      \* how often the environment interfered

disk == <<store, readable, memo>>
memory == <<dead, rate, pending, events>>
call == <<mode, snap, tok, ids, reply, attempt, out>>
server == <<rows, hits, revoked>>
history == <<lost, losses, faults>>
vars == <<disk, holder, pc, memory, call, server, history>>

AnyToken == Tokens \cup {NoToken}
Records == [tok : AnyToken, client : Clients \cup {NoClient}]
NoRecord == [tok |-> NoToken, client |-> NoClient]

Inside == {"present", "await", "write"}
Pcs == Inside \cup {"idle", "waitLock", "recheck", "sleep", "done"}
Replies == Verdicts \cup {"none", "transient", "cancelled"}
Outcomes == {"none", "served", "dead", "failed", "transient", "busy",
             "unreadable", "threw"}

TypeOK ==
    /\ rows \in Seq(FamilyRows)
    /\ store \in Records /\ readable \in BOOLEAN /\ memo \in AnyToken
    /\ holder \in Calls \cup Procs \cup {NoCall, DeadCall}
    /\ pc \in [Calls -> Pcs]
    /\ mode \in [Calls -> Modes]
    /\ snap \in [Calls -> AnyToken] /\ tok \in [Calls -> AnyToken]
    /\ ids \in [Calls -> Seq(Clients)]
    /\ reply \in [Calls -> Replies] /\ attempt \in [Calls -> {1, 2}]
    /\ out \in [Calls -> [kind : Outcomes, tok : AnyToken]]
    /\ dead \in [Procs -> AnyToken]
    /\ rate \in [Procs -> {"none", "held", "cooling"}]
    /\ pending \in [Procs -> Records]
    /\ events \in [Procs -> [Families -> Nat]]
    /\ lost \in Calls \cup {NoCall} /\ revoked \subseteq Families
    /\ losses \in 0 .. MaxFaults /\ faults \in 0 .. MaxFaults
    /\ hits \in Nat

NoOutcome == [kind |-> "none", tok |-> NoToken]

Init ==
    /\ rows = <<Minted(MintClient)>>
    /\ \E stamped \in Stamped :
        store = [tok |-> [family |-> 1, gen |-> 0],
                 client |-> IF stamped THEN MintClient ELSE NoClient]
    /\ readable = TRUE /\ memo = NoToken
    /\ holder = NoCall
    /\ pc = [c \in Calls |-> "idle"] /\ mode = [c \in Calls |-> "valid"]
    /\ snap = [c \in Calls |-> NoToken] /\ tok = [c \in Calls |-> NoToken]
    /\ ids = [c \in Calls |-> <<>>] /\ reply = [c \in Calls |-> "none"]
    /\ attempt = [c \in Calls |-> 1] /\ out = [c \in Calls |-> NoOutcome]
    /\ dead = [p \in Procs |-> NoToken] /\ rate = [p \in Procs |-> "none"]
    /\ pending = [p \in Procs |-> NoRecord]
    /\ events = [p \in Procs |-> [f \in Families |-> 0]]
    /\ lost = NoCall /\ losses = 0 /\ hits = 0 /\ revoked = {} /\ faults = 0

-----------------------------------------------------------------------------
Goto(c, from, to) == pc[c] = from /\ pc' = [pc EXCEPT ![c] = to]

Row(t) == rows[t.family]
Alive(t) == t # NoToken /\ Row(t).alive

\* The environment interferes once more.
Disturb(kind) ==
    /\ kind \in Disturbances
    /\ faults < MaxFaults
    /\ faults' = faults + 1

\* A call ends. A refresh that failed does not break a call whose token is
\* still valid (getAccessToken, 315-325); an exception passes through it.
Outcome(m, kind, t) ==
    CASE kind = "threw" -> [kind |-> "threw", tok |-> NoToken]
      [] kind # "threw" /\ m = "valid" -> [kind |-> "served", tok |-> NoToken]
      [] OTHER -> [kind |-> kind, tok |-> t]

Ends(c, kind, t) ==
    /\ pc' = [pc EXCEPT ![c] = "done"]
    /\ out' = [out EXCEPT ![c] = Outcome(mode[c], kind, t)]
    /\ tok' = [tok EXCEPT ![c] = NoToken]
    /\ ids' = [ids EXCEPT ![c] = <<>>]
    /\ reply' = [reply EXCEPT ![c] = "none"]
    /\ attempt' = [attempt EXCEPT ![c] = 1]
    /\ lost' = IF lost = c THEN NoCall ELSE lost
    /\ snap' = IF out'[c].tok = NoToken THEN [snap EXCEPT ![c] = NoToken]
                                         ELSE snap
    /\ mode' = mode

Leaves == holder' = NoCall

\* A lock that another call of the same provider holds.
HeldBySibling(c) ==
    holder \in {ProcOf[c]} \cup {d \in Calls : ProcOf[d] = ProcOf[c]}

-----------------------------------------------------------------------------
(* refreshFamily before the lock, in one synchronous stretch: the two      *)
(* memos, the rate discipline, the first step of acquire().                *)
Call(c, m) ==
    LET p == ProcOf[c] t == store.tok IN
    /\ pc[c] = "idle"
    /\ readable /\ t # NoToken
    /\ mode' = [mode EXCEPT ![c] = m]
    /\ dead' = [dead EXCEPT ![p] =
                    IF @ = t \/ (rate[p] = "none" /\ memo = t) THEN t
                                                               ELSE NoToken]
    /\ \/ /\ dead'[p] # t /\ rate[p] = "none" /\ ~HeldBySibling(c)
          /\ pc' = [pc EXCEPT ![c] = "waitLock"]
          /\ snap' = [snap EXCEPT ![c] = t]
          /\ out' = out
       \/ /\ \/ dead'[p] = t
             \/ rate[p] # "none"
             \/ HeldBySibling(c)
          /\ pc' = [pc EXCEPT ![c] = "done"]
          /\ snap' = snap
          /\ out' = [out EXCEPT ![c] =
                LET kind == CASE dead'[p] = t -> "dead"
                              [] dead'[p] # t /\ rate[p] = "held" -> "failed"
                              [] dead'[p] # t /\ rate[p] = "cooling" ->
                                    "transient"
                              [] OTHER -> "threw"
                IN Outcome(m, kind, NoToken)]
    /\ UNCHANGED <<disk, holder, rate, pending, events, tok, ids, reply,
                   attempt, server, history>>

(* The caller has its answer. *)
Return(c) ==
    /\ Goto(c, "done", "idle")
    /\ mode' = [mode EXCEPT ![c] = "valid"]
    /\ snap' = [snap EXCEPT ![c] = NoToken]
    /\ out' = [out EXCEPT ![c] = NoOutcome]
    /\ UNCHANGED <<disk, holder, memory, tok, ids, reply, attempt, server,
                   history>>

(* The lock stayed contended for ACQUIRE_BUDGET. *)
Busy(c) ==
    /\ pc[c] = "waitLock" /\ holder # NoCall
    /\ Ends(c, "busy", NoToken)
    /\ UNCHANGED <<disk, holder, memory, server, losses, faults>>

-----------------------------------------------------------------------------
\* The client ids that may be presented: the stored one, or the default and
\* the first-party ids (a list without duplicates).
KnownIds(c) ==
    IF store.client # NoClient
    THEN <<store.client>>
    ELSE <<DefaultOf[ProcOf[c]]>> \o FallbackOf[ProcOf[c]]

\* Mutant: the id whose answer was lost does not come first.
CandidatesInOrder(c) == KnownIds(c)

\* The one whose answer was lost comes first.
Candidates(c) ==
    LET known == KnownIds(c)
        first == pending[ProcOf[c]].client
        places == {i \in DOMAIN known : known[i] = first}
    IN IF pending[ProcOf[c]].tok = store.tok /\ places # {}
       THEN <<first>> \o RemoveAt(known, CHOOSE i \in places : TRUE)
       ELSE known

(* The lock is ours: re-read the store, and adopt what a peer rotated. *)
Enter(c) == pc[c] = "waitLock" /\ holder = NoCall

\* Mutant: whatever the store holds is adopted, the rejected token too.
EnterAndAdoptAnything(c) ==
    /\ Enter(c)
    /\ readable /\ store.tok # NoToken
    /\ Ends(c, "served", store.tok)
    /\ UNCHANGED <<disk, holder, memory, server, losses, faults>>

EnterAndAdopt(c) ==
    /\ Enter(c)
    /\ readable /\ store.tok \notin {NoToken, snap[c]}
    /\ Ends(c, "served", store.tok)
    /\ UNCHANGED <<disk, holder, memory, server, losses, faults>>

EnterInVain(c) ==
    /\ Enter(c)
    /\ \/ ~readable /\ Ends(c, "unreadable", NoToken)
       \/ readable /\ store.tok = NoToken /\ Ends(c, "failed", NoToken)
    /\ UNCHANGED <<disk, holder, memory, server, losses, faults>>

\* Mutant: the token of before the lock is presented, not the re-read one.
EnterToRefreshSnapshot(c) ==
    /\ Enter(c)
    /\ readable /\ store.tok # NoToken
    /\ holder' = c
    /\ pc' = [pc EXCEPT ![c] = "present"]
    /\ tok' = [tok EXCEPT ![c] = snap[c]]
    /\ ids' = [ids EXCEPT ![c] = Candidates(c)]
    /\ rate' = [rate EXCEPT ![ProcOf[c]] = "held"]
    /\ lost' = IF lost = c THEN c ELSE NoCall
    /\ UNCHANGED <<disk, dead, pending, events, mode, snap, reply, attempt,
                   out, server, losses, faults>>

(* Our own snapshot, or a peer's token that is itself near its expiry. *)
EnterToRefresh(c) ==
    /\ Enter(c)
    /\ readable /\ store.tok # NoToken
    /\ holder' = c
    /\ pc' = [pc EXCEPT ![c] = "present"]
    /\ tok' = [tok EXCEPT ![c] = store.tok]
    /\ ids' = [ids EXCEPT ![c] = Candidates(c)]
    /\ rate' = [rate EXCEPT ![ProcOf[c]] = "held"]
    /\ lost' = IF lost = c THEN c ELSE NoCall
    /\ UNCHANGED <<disk, dead, pending, events, mode, snap, reply, attempt,
                   out, server, losses, faults>>

-----------------------------------------------------------------------------
(* The refresh request reaches the server, which answers. *)
Present(c) ==
    LET f == tok[c].family
        verdict == Verdict(rows[f], tok[c].gen, Head(ids[c])) IN
    /\ Goto(c, "present", "await")
    /\ verdict = "rotate" => rows[f].head < MaxGen
    /\ rows' = [rows EXCEPT ![f] = Applied(@, verdict)]
    /\ reply' = [reply EXCEPT ![c] = verdict]
    /\ hits' = IF verdict = "replay" THEN hits + 1 ELSE hits
    /\ revoked' = IF verdict = "reuse" THEN revoked \cup {f} ELSE revoked
    /\ UNCHANGED <<disk, holder, memory, mode, snap, tok, ids, attempt, out,
                   history>>

(* It does not reach it, or the server answers 5xx, 408 or 429. *)
PresentFails(c) ==
    /\ Goto(c, "present", "await")
    /\ \/ Disturb("fail")
       \/ /\ Row(tok[c]).head = MaxGen   \* the bound of the model
          /\ UNCHANGED faults
    /\ reply' = [reply EXCEPT ![c] = "transient"]
    /\ UNCHANGED <<disk, holder, memory, mode, snap, tok, ids, attempt, out,
                   server, lost, losses>>

\* The server did something that the client does not learn of.
Committed(c) == reply[c] \in {"rotate", "replay"}

(* The answer does not arrive within REFRESH_HTTP_TIMEOUT. *)
Lose(c) ==
    /\ pc[c] = "await" /\ reply[c] \in Verdicts
    /\ Disturb("lose")
    /\ reply' = [reply EXCEPT ![c] = "transient"]
    /\ losses' = IF Committed(c) THEN losses + 1 ELSE losses
    /\ lost' = IF reply[c] = "rotate" /\ attempt[c] = 1 THEN c ELSE lost
    /\ UNCHANGED <<disk, holder, pc, memory, mode, snap, tok, ids, attempt,
                   out, server>>

(* The caller aborts, before the request or while it is under way: an      *)
(* answer is not waited for.                                               *)
Cancel(c) ==
    /\ pc[c] \in {"present", "await"} /\ reply[c] # "cancelled"
    /\ Disturb("cancel")
    /\ pc' = [pc EXCEPT ![c] = "await"]
    /\ reply' = [reply EXCEPT ![c] = "cancelled"]
    /\ losses' = IF Committed(c) THEN losses + 1 ELSE losses
    /\ UNCHANGED <<disk, holder, memory, mode, snap, tok, ids, attempt, out,
                   server, lost>>

-----------------------------------------------------------------------------
Forget(p) == pending' = [pending EXCEPT ![p] = NoRecord]

(* The id is not the family's: the next one, while there is one and the    *)
(* fallback budget lasts. A mismatch is no verdict on the token.           *)
TryNextId(c) ==
    /\ Goto(c, "await", "present")
    /\ reply[c] = "mismatch" /\ Len(ids[c]) > 1
    /\ ids' = [ids EXCEPT ![c] = Tail(@)]
    /\ reply' = [reply EXCEPT ![c] = "none"]
    /\ UNCHANGED <<disk, holder, memory, mode, snap, tok, attempt, out,
                   server, history>>

Refused(c) ==
    /\ pc[c] = "await" /\ reply[c] \in {"mismatch", "cancelled"}
    /\ Ends(c, "failed", NoToken)
    /\ Forget(ProcOf[c])
    /\ Leaves
    /\ UNCHANGED <<disk, dead, rate, events, server, losses, faults>>

\* Mutant: as long as the answer is transient the call keeps retrying.
RetriesLeftForever(c) == mode[c] # "valid"

\* One prompt retry, if the caller has no token it could go on with.
RetriesLeft(c) == mode[c] # "valid" /\ attempt[c] = 1

(* No verdict either: remember the id, cool down, retry once if needed. *)
Transient(c) ==
    /\ pc[c] = "await" /\ reply[c] = "transient"
    /\ pending' = [pending EXCEPT ![ProcOf[c]] =
                       [tok |-> tok[c], client |-> Head(ids[c])]]
    /\ rate' = [rate EXCEPT ![ProcOf[c]] = "cooling"]
    /\ Leaves
    /\ \/ /\ RetriesLeft(c)
          /\ pc' = [pc EXCEPT ![c] = "sleep"]
          /\ UNCHANGED <<call, lost>>
       \/ /\ ~RetriesLeft(c)
          /\ Ends(c, "transient", NoToken)
    /\ UNCHANGED <<disk, dead, events, server, losses, faults>>

(* The prompt retry takes the lock anew. *)
Retry(c) ==
    /\ pc[c] = "sleep"
    /\ \/ /\ ~HeldBySibling(c)
          /\ pc' = [pc EXCEPT ![c] = "waitLock"]
          /\ attempt' = [attempt EXCEPT ![c] = @ + 1]
          /\ reply' = [reply EXCEPT ![c] = "none"]
          /\ UNCHANGED <<mode, snap, tok, ids, out, lost, faults>>
       \/ /\ HeldBySibling(c)
          /\ Ends(c, "threw", NoToken)
          /\ UNCHANGED faults
       \/ /\ Disturb("cancel")
          /\ Ends(c, "transient", NoToken)
    /\ UNCHANGED <<disk, holder, memory, server, losses>>

\* Mutant: a foreign client id is taken for a verdict on the token.
IsVerdictOrMismatch(answer) == answer \in {"invalid", "reuse", "mismatch"}

\* invalid_grant, neither transient nor a client mismatch.
IsVerdict(answer) == answer \in {"invalid", "reuse"}

(* invalid_grant: out of the lock, look at the store once more. *)
Condemned(c) ==
    /\ Goto(c, "await", "recheck")
    /\ IsVerdict(reply[c])
    /\ Forget(ProcOf[c])
    /\ Leaves
    /\ UNCHANGED <<disk, dead, rate, events, call, server, history>>

Accept(c) ==
    /\ Goto(c, "await", "write")
    /\ Committed(c)
    /\ Forget(ProcOf[c])
    /\ UNCHANGED <<disk, holder, dead, rate, events, call, server, history>>

-----------------------------------------------------------------------------
\* The generation after the presented one is what the answer carried.
Rotated(c) == [tok[c] EXCEPT !.gen = @ + 1]

\* The client id is stamped when it is not the one the call began with.
StampedClient(c) ==
    IF store.client # NoClient \/ Head(ids[c]) # DefaultOf[ProcOf[c]]
    THEN Head(ids[c]) ELSE NoClient

\* Mutant: rule 4 applied to every answer, the old refresh token is kept.
WriteRotationKeepsToken(c) ==
    /\ pc[c] = "write" /\ readable
    /\ store' = [tok |-> tok[c], client |-> Head(ids[c])]
    /\ Ends(c, "served", Rotated(c))
    /\ Leaves
    /\ UNCHANGED <<readable, memo, memory, server, losses, faults>>

WriteRotation(c) ==
    /\ pc[c] = "write" /\ readable
    /\ store' = [tok |-> Rotated(c), client |-> StampedClient(c)]
    /\ Ends(c, "served", Rotated(c))
    /\ Leaves
    /\ UNCHANGED <<readable, memo, memory, server, losses, faults>>

(* The disk refuses, or the store became unreadable and is not touched: the *)
(* call goes on with the token in memory.                                   *)
WriteFails(c) ==
    /\ pc[c] = "write"
    /\ \/ Disturb("disk")
       \/ ~readable /\ UNCHANGED faults
    /\ Ends(c, "served", Rotated(c))
    /\ Leaves
    /\ losses' = losses + 1
    /\ UNCHANGED <<disk, memory, server>>

\* Mutant: the event is told for each call that saw the family die.
VerdictStandsNever(p) == FALSE

\* A verdict of this process stands.
VerdictStands(p) == dead[p] # NoToken

(* F3.5: somebody replaced the credential while our request was doomed. *)
RecheckAdopts(c) ==
    /\ pc[c] = "recheck"
    /\ readable /\ store.tok \notin {NoToken, tok[c]}
    /\ Ends(c, "served", store.tok)
    /\ UNCHANGED <<disk, holder, memory, server, losses, faults>>

(* markFamilyDead: both memos and one event, unless a verdict stands. *)
RecheckCondemns(c) ==
    LET p == ProcOf[c] f == tok[c].family IN
    /\ pc[c] = "recheck"
    /\ ~readable \/ store.tok \in {NoToken, tok[c]}
    /\ Ends(c, "dead", NoToken)
    /\ \/ /\ ~VerdictStands(p)
          /\ dead' = [dead EXCEPT ![p] = tok[c]]
          /\ memo' = tok[c]
          /\ events' = [events EXCEPT ![p][f] = @ + 1]
       \/ /\ VerdictStands(p)
          /\ UNCHANGED <<dead, memo, events>>
    /\ UNCHANGED <<store, readable, holder, rate, pending, server, losses, faults>>

-----------------------------------------------------------------------------
(* The environment. *)
Crash(p) ==
    LET mine == {c \in Calls : ProcOf[c] = p}
        Killed(f, v) == [c \in Calls |-> IF c \in mine THEN v ELSE f[c]] IN
    /\ Disturb("crash")
    /\ \E c \in mine : pc[c] # "idle"
    /\ holder' = IF holder \in mine \cup {p} THEN DeadCall ELSE holder
    /\ losses' = IF \E c \in mine : \/ pc[c] = "await" /\ Committed(c)
                                   \/ pc[c] = "write"
                 THEN losses + 1 ELSE losses
    /\ pc' = Killed(pc, "idle")
    /\ mode' = Killed(mode, "valid")
    /\ snap' = Killed(snap, NoToken) /\ tok' = Killed(tok, NoToken)
    /\ ids' = Killed(ids, <<>>) /\ reply' = Killed(reply, "none")
    /\ attempt' = Killed(attempt, 1) /\ out' = Killed(out, NoOutcome)
    /\ dead' = [dead EXCEPT ![p] = NoToken]
    /\ rate' = [rate EXCEPT ![p] = "none"]
    /\ pending' = [pending EXCEPT ![p] = NoRecord]
    /\ events' = [events EXCEPT ![p] = [f \in Families |-> 0]]
    /\ lost' = IF lost \in mine THEN NoCall ELSE lost
    /\ UNCHANGED <<disk, server>>

(* A peer takes the lock of a dead process over, 60 s later. *)
TakeOver ==
    /\ holder = DeadCall
    /\ holder' = NoCall
    /\ rows' = [f \in DOMAIN rows |-> [rows[f] EXCEPT !.grace = FALSE]]
    /\ UNCHANGED <<disk, pc, memory, call, hits, revoked, history>>

GraceEnds(f) ==
    /\ rows[f].grace
    /\ lost = NoCall
    /\ \A c \in Calls : ~(pc[c] = "await" /\ reply[c] = "rotate")
    /\ rows' = [rows EXCEPT ![f].grace = FALSE]
    /\ UNCHANGED <<disk, holder, pc, memory, call, hits, revoked, history>>

(* The family expires or is revoked by its owner. *)
FamilyDies(f) ==
    /\ Disturb("expire")
    /\ rows[f].alive
    /\ rows' = [rows EXCEPT ![f].alive = FALSE, ![f].grace = FALSE]
    /\ UNCHANGED <<disk, holder, pc, memory, call, hits, revoked, lost,
                   losses>>

(* The skew window, or the short cooldown, is over. *)
CoolsDown(p) ==
    /\ \/ rate[p] = "cooling"
       \/ /\ rate[p] = "held"
          /\ \A c \in Calls : ProcOf[c] = p => pc[c] \notin Inside
    /\ rate' = [rate EXCEPT ![p] = "none"]
    /\ UNCHANGED <<disk, holder, pc, dead, pending, events, call, server,
                   history>>

(* A call of p for its other family holds the lock. A retry that waits for *)
(* it is no longer prompt.                                                  *)
SiblingEnters(p) ==
    /\ Disturb("sibling")
    /\ holder = NoCall
    /\ holder' = p
    /\ lost' = NoCall
    /\ UNCHANGED <<disk, pc, memory, call, server, losses>>

SiblingLeaves(p) ==
    /\ holder = p
    /\ Leaves
    /\ UNCHANGED <<disk, pc, memory, call, server, history>>

(* Another surface signs in or out, under the lock. *)
Login(client) ==
    /\ Disturb("login")
    /\ holder = NoCall /\ Len(rows) < MaxFamilies
    /\ rows' = Append(rows, Minted(client))
    /\ store' = [tok |-> [family |-> Len(rows) + 1, gen |-> 0],
                 client |-> client]
    /\ readable' = TRUE
    /\ UNCHANGED <<memo, holder, pc, memory, call, hits, revoked, lost,
                   losses>>

\* Mutant: the document is deleted without the lock.
SignOutUnlocked ==
    /\ Disturb("signOut")
    /\ store # NoRecord
    /\ store' = NoRecord
    /\ readable' = TRUE
    /\ UNCHANGED <<memo, holder, pc, memory, call, server, lost, losses>>

SignOut ==
    /\ Disturb("signOut")
    /\ holder = NoCall /\ store # NoRecord
    /\ store' = NoRecord
    /\ readable' = TRUE
    /\ UNCHANGED <<memo, holder, pc, memory, call, server, lost, losses>>

(* The store cannot be decrypted or parsed for a while. *)
StoreSpoils ==
    /\ readable /\ Disturb("unreadable")
    /\ readable' = FALSE
    /\ UNCHANGED <<store, memo, holder, pc, memory, call, server, lost,
                   losses>>

StoreHeals ==
    /\ ~readable
    /\ readable' = TRUE
    /\ UNCHANGED <<store, memo, holder, pc, memory, call, server, history>>

(* The sidecar has one entry: the verdict on another family replaces it. *)
OtherVerdict ==
    /\ memo # NoToken /\ Disturb("otherVerdict")
    /\ memo' = NoToken
    /\ UNCHANGED <<store, readable, holder, pc, memory, call, server, lost,
                   losses>>

-----------------------------------------------------------------------------
Refresh(c) ==
    \/ EnterAndAdopt(c) \/ EnterInVain(c) \/ EnterToRefresh(c)
    \/ Present(c) \/ TryNextId(c) \/ Refused(c) \/ Transient(c)
    \/ Condemned(c) \/ Accept(c)
    \/ WriteRotation(c) \/ WriteFails(c)
    \/ RecheckAdopts(c) \/ RecheckCondemns(c)
    \/ Retry(c) \/ Busy(c) \/ Return(c)

Environment ==
    \/ TakeOver \/ SignOut \/ StoreSpoils \/ StoreHeals \/ OtherVerdict
    \/ \E f \in DOMAIN rows : GraceEnds(f) \/ FamilyDies(f)
    \/ \E p \in Procs : Crash(p) \/ CoolsDown(p)
                         \/ SiblingEnters(p) \/ SiblingLeaves(p)
    \/ \E client \in Clients : Login(client)
    \/ \E c \in Calls : PresentFails(c) \/ Lose(c) \/ Cancel(c)

Next ==
    \/ \E c \in Calls :
        \/ \E m \in ModesOf[c] : Call(c, m)
        \/ Refresh(c)
    \/ Environment

Spec == Init /\ [][Next]_vars

-----------------------------------------------------------------------------
(* Correctness *)

\* The fleet never trips the server's reuse detection by itself: every
\* replay, and every family revoked for reuse, is owed to an answer or a
\* write that was lost (test/concurrency-suite.subprocess.test.ts:323-357).
ReplaysAttributed ==
    /\ hits <= losses
    /\ revoked # {} => losses > 0

\* As long as nothing was lost, outside the section the store holds the head
\* of its family: no rotation is dropped or overwritten by an older one.
StoreHoldsHead ==
    losses = 0 /\ holder = NoCall /\ store.tok # NoToken
    => store.tok = HeadOf(Row(store.tok), store.tok.family)

\* A token declared dead, in memory or in the sidecar, is one the server
\* refuses for good: a transient answer or a foreign client id never condemns.
VerdictIsTrue ==
    \A t \in {memo} \cup {dead[p] : p \in Procs} : ~Alive(t)

\* One event per family death and provider, however its calls overlap.
OneEventPerDeath ==
    \A p \in Procs : \A f \in Families : events[p][f] <= 1

\* A rotation whose answer was lost is recovered by the prompt retry: it
\* never presents the token in a way the server takes for reuse.
PromptRetryAbsorbed ==
    [][\A c \in Calls :
        lost = c /\ pc[c] = "present" => revoked' = revoked]_vars

\* A call whose token expired or was rejected never gets that token back, nor
\* an older one.
NeedyCallMovesOn ==
    \A c \in Calls :
        out[c].kind = "served" /\ mode[c] = "needy"
        => /\ out[c].tok # snap[c]
           /\ out[c].tok.family = snap[c].family
              => out[c].tok.gen > snap[c].gen

\* The server rotated, or replayed, and the store does not know it yet.
InFlight(c) ==
    \/ pc[c] = "await" /\ Committed(c)
    \/ pc[c] = "write"

\* The successor that is under way.
Flight ==
    IF \E c \in Calls : InFlight(c)
    THEN Rotated(CHOOSE c \in Calls : InFlight(c)) ELSE NoToken

Client == INSTANCE SoleClient WITH held <- store.tok, flight <- Flight

\* All calls of all processes are one client to the server. It presents the token
\* of the store, never a copy that a sign-in, a sign-out or a peer's rotation has
\* overtaken; a rotation replaces the very token that it was obtained for; and one
\* that does not get into the store is counted as lost.
ImplementsSoleClient == Client!Spec

\* A call whose token is still valid hands out a token, whatever becomes of
\* the refresh (getAccessToken).
ValidTokenServed ==
    \A c \in Calls :
        pc[c] = "done" /\ mode[c] = "valid" => out[c].kind = "served"

\* The server revokes a family for reuse only when the grace window of the
\* presented token is over: inside it the token is presented by its client.
ReuseOnlyAfterGrace ==
    [][\A c \in Calls :
        pc[c] = "present" /\ revoked' # revoked => ~Row(tok[c]).grace]_vars

=============================================================================
