-------------------------- MODULE ProjectSetupProofs --------------------------
(***************************************************************************)
(* The project key and the configuration files of one project, for any     *)
(* setups, accounts, agents and files, and any number of keys and faults:  *)
(* a regenerate revokes only a key that its own has displaced in the cache *)
(* and that it has searched for, so that nobody is left with a dead key    *)
(* but in the two cases that NoLockOut names.                              *)
(***************************************************************************)
EXTENDS ProjectSetup, WellFoundedInduction, TLAPS

\* The keys that the server has minted.
Issued == {k \in Keys : owner[k] # None}

\* A setup of s is under way.
Running(s) == work[s] # None

\* A cached entry, as the cache holds it or as s read it, names a minted key,
\* and the account of that key, unless the login changed during its setup.
Truthful(entry) ==
    /\ entry.key \in Issued
    /\ entry.sub # None /\ entry.key \notin crossed
       => owner[entry.key] = entry.sub

\* The cached key is of the account it is cached for, and the last one put.
CacheTruthful == cache # None => Truthful(cache) /\ cache.key \notin replaced

\* The entry that s read is the cached one still, or was displaced.
ReadOnce(s) ==
    Running(s) /\ work[s].cached # None =>
        /\ Truthful(work[s].cached)
        /\ cache # None
        /\ work[s].cached.key \in {cache.key} \cup replaced

\* s knows who was signed in when it began, and validates their key only.
KnowsLogin(s) ==
    Running(s) =>
        /\ work[s].sub # None => work[s].sub = work[s].signed
        /\ work[s].steady => work[s].signed = login
        /\ at[s] = "validate" =>
            work[s].sub # None /\ work[s].cached.sub = work[s].sub

\* The key that s is going to write was minted, for that login.
OwnKey(s) ==
    Running(s) =>
        /\ at[s] \in {"validate", "mint"} => work[s].key = None
        /\ at[s] = "put" => work[s].key # None
        /\ work[s].key # None => work[s].key \in Issued
        /\ /\ at[s] \in {"put", "write"} /\ work[s].key # None
           /\ work[s].key \notin crossed
           => owner[work[s].key] = work[s].signed

\* Until it is put, the key that s minted is known to s alone.
FreshKey(s) ==
    at[s] = "put" =>
        /\ work[s].key \notin replaced
        /\ cache # None => cache.key # work[s].key
        /\ \A t \in Setups : t # s /\ at[t] = "put" => work[t].key # work[s].key

\* The key that s is to revoke has been displaced by its own.
OldKey(s) ==
    Running(s) =>
        /\ at[s] \in {"validate", "mint", "put"} => work[s].prev = None
        /\ work[s].prev # None => /\ work[s].prev \in replaced
                                  /\ work[s].prev # work[s].key

\* The entry e is there and has the key k.
Names(e, k) == e # None /\ e.key = k

\* Only the files of agents hold entries of ours.
OnlyAgents ==
    \A f \in Files \ UNION Agents : file[f].ours = None /\ file[f].alias = None

\* Where the old key of s has been searched for, only a file that was written
\* late holds it; in a file of the plan, also an entry under another name.
Searched(s) ==
    /\ at[s] \in {"rewrite", "revoke"} /\ ~ work[s].stuck =>
        \A f \in work[s].files : Names(file[f].ours, work[s].prev)
                                 => <<f, work[s].prev>> \in late
    /\ at[s] = "revoke" =>
        /\ ~ work[s].stuck
        /\ \A f \in Files \ work[s].files :
            Holds(file[f], work[s].prev) => <<f, work[s].prev>> \in late

\* What s may rely on, at whatever await it stands.
Call(s) ==
    /\ ReadOnce(s) /\ KnowsLogin(s) /\ OwnKey(s) /\ FreshKey(s) /\ OldKey(s)
    /\ Searched(s)

\* The inductive invariant. NoLockOut alone is not inductive: a revocation keeps
\* it because the old key was displaced before it was searched for (OldKey), and
\* so can have come back into a file by a late write only (Searched).
IInv ==
    /\ TypeOK /\ CacheTruthful /\ OnlyAgents /\ NoLockOut
    /\ replaced \subseteq Issued /\ revoked \subseteq replaced
    /\ \A s \in Setups : Call(s)
-----------------------------------------------------------------------------
(* The types.                                                              *)

\* What the constants are assumed to be, and nothing stands for None.
LEMMA Bounds ==
  /\ None \notin Accounts /\ None \notin Nat /\ None \notin Keys
  /\ None \notin Entry /\ None \notin Cached /\ None \notin Work
  /\ Keys \subseteq Nat /\ MaxSetups \in Nat /\ MaxFaults \in Nat
  /\ \A fs \in Agents : fs \subseteq Files /\ fs \subseteq UNION Agents
  BY SetupAssumption DEF Keys

\* What is not at rest has its local variables.
LEMMA Runs ==
  ASSUME TypeOK, NEW s \in Setups, at[s] \notin {"idle", "pin"}
  PROVE  work[s] \in Work /\ Running(s)
  BY DEF TypeOK, Running

\* A file holds a key in its entry of ours, or in the copy under another name.
LEMMA HoldsIs ==
  ASSUME NEW content, NEW k
  PROVE  Holds(content, k) <=> Names(content.ours, k) \/ Names(content.alias, k)
  BY DEF Holds, Names

\* What the writers leave in the files of a plan: the key they were given or the
\* old one, no new entry under another name, and the entries of other servers.
Written(fs, failed, unread, key, clear) ==
    /\ file' \in [Files -> File]
    /\ \A f \in Files : f \notin fs \ failed => file'[f] = file[f]
    /\ \A f \in fs \ failed :
        /\ clear => file'[f].ours.key = key
        /\ \A k \in Keys :
            /\ Names(file'[f].ours, k) => k = key \/ Names(file[f].ours, k)
            /\ Names(file'[f].alias, k) => Names(file[f].alias, k)
        /\ /\ "other" \in file[f].rest /\ file[f].state = "ok"
           /\ f \in Toml \/ f \notin unread
           => "other" \in file'[f].rest

\* JsonAiAgentConfig and TomlAiAgentConfig leave what Written says.
LEMMA WritesIs ==
  ASSUME TypeOK, NEW fs \in SUBSET Files, NEW failed \in SUBSET fs,
         NEW unread \in SUBSET fs, NEW kind \in Kinds, NEW key \in Keys \cup {None},
         NEW clear \in BOOLEAN, Writes(fs, failed, unread, kind, key, clear)
  PROVE  Written(fs, failed, unread, key, clear)
<1>1. file' = [f \in Files |->
                IF f \in fs \ failed
                THEN Configured(f, kind, key, clear, f \in unread) ELSE file[f]]
  BY Zenon DEF Writes
<1>2. ASSUME NEW f \in fs \ failed
      PROVE  /\ file'[f] \in File
             /\ clear => file'[f].ours.key = key
             /\ \A k \in Keys :
                /\ Names(file'[f].ours, k) => k = key \/ Names(file[f].ours, k)
                /\ Names(file'[f].alias, k) => Names(file[f].alias, k)
             /\ /\ "other" \in file[f].rest /\ file[f].state = "ok"
                /\ f \in Toml \/ f \notin unread
                => "other" \in file'[f].rest
  <2>1. file'[f] = Configured(f, kind, key, clear, f \in unread) /\ f \in Files
    BY <1>1, <1>2, Zenon
  <2>2. PICK new : new = file'[f]
    OBVIOUS
  <2>3. new = Configured(f, kind, key, clear, f \in unread)
    BY <2>1, <2>2, Zenon
  <2>4. file[f] \in File
    BY <2>1 DEF TypeOK
  <2>5. CASE /\ new = Fresh(kind, key)
             /\ ~ (file[f].state = "ok" /\ (f \in Toml \/ f \notin unread))
    BY <2>2, <2>5 DEF Fresh, File, Entry, Names
  <2>6. CASE new = Spliced(file[f], kind, key, clear)
    <3>1. PICK old : old = file[f]
      OBVIOUS
    <3>2. PICK entry : entry = Merged(old.ours, kind, key, clear)
      OBVIOUS
    <3>3. PICK alias : alias = IF IsTwin(old.alias, kind) THEN None ELSE old.alias
      OBVIOUS
    <3>4. old \in File /\ old.ours \in Entry \cup {None}
      BY <2>4, <3>1 DEF File
    <3>5. /\ entry \in Entry
          /\ clear => entry.key = key
          /\ \A k \in Keys : entry.key = k => k = key \/ Names(old.ours, k)
      BY <3>2, <3>4, Bounds DEF Merged, Names, Entry
    <3>6. new = [old EXCEPT !.ours = entry, !.alias = alias,
                            !.rest = old.rest \ {"deprecated"}]
      BY <2>6, <3>1, <3>2, <3>3 DEF Spliced
    <3>7. alias \in {None, old.alias}
      BY <3>3
    <3>8. /\ new \in File /\ new.ours = entry /\ new.alias = alias
          /\ "other" \in old.rest => "other" \in new.rest
      BY <3>4, <3>5, <3>6, <3>7 DEF File
    <3> QED
      BY <2>2, <3>1, <3>5, <3>7, <3>8 DEF Names
  <2>7. \/ /\ new = Fresh(kind, key)
           /\ ~ (file[f].state = "ok" /\ (f \in Toml \/ f \notin unread))
        \/ new = Spliced(file[f], kind, key, clear)
    BY <2>3 DEF Configured, TomlConfigured, JsonConfigured
  <2> QED
    BY <2>5, <2>6, <2>7
<1>3. \A f \in Files : f \notin fs \ failed => file'[f] = file[f]
  BY <1>1, Zenon
<1>4. \A f \in Files : file'[f] \in File
  BY <1>2, <1>3 DEF TypeOK
<1>5. DOMAIN file' = Files /\ file' = [f \in DOMAIN file' |-> file'[f]]
  BY <1>1, Zenon
<1> QED
  BY <1>2, <1>3, <1>4, <1>5 DEF Written
-----------------------------------------------------------------------------
(* What a step does to what the setups share.                              *)

\* Owners are for ever, and the history only grows.
OnlyGrows ==
    /\ \A k \in Issued : owner'[k] = owner[k]
    /\ crossed \subseteq crossed' /\ late \subseteq late'
    /\ unchecked \subseteq unchecked'

\* A key that was displaced gets into a file by a late write only.
FileEffect ==
    \A f \in Files :
        /\ f \notin UNION Agents => file'[f].ours = None /\ file'[f].alias = None
        /\ \A k \in replaced :
            /\ Names(file'[f].ours, k)
               => Names(file[f].ours, k) \/ <<f, k>> \in late'
            /\ Names(file'[f].alias, k)
               => Holds(file[f], k) \/ <<f, k>> \in late'

\* s puts its key where another one was.
Puts(s) ==
    /\ at[s] = "put" /\ cache' = NewEntry(s)
    /\ replaced' = IF cache = None THEN replaced ELSE replaced \cup {cache.key}

\* The cache stays, or s puts its key there.
CacheEffect(s) == UNCHANGED <<cache, replaced>> \/ Puts(s)

\* The variables of t stay, but for what it knows of the login.
Alike(t) ==
    /\ at'[t] = at[t]
    /\ Running(t)' <=> Running(t)
    /\ Running(t) =>
        /\ work'[t].cached = work[t].cached /\ work'[t].sub = work[t].sub
        /\ work'[t].signed = work[t].signed /\ work'[t].key = work[t].key
        /\ work'[t].prev = work[t].prev /\ work'[t].files = work[t].files
        /\ work'[t].stuck = work[t].stuck
        /\ work'[t].steady => work[t].steady /\ login' = login

\* The part of TypeOK that is not about a setup.
SharedTypes ==
    /\ owner \in [Keys -> Accounts \cup {None}]
    /\ active \subseteq Keys
    /\ cache \in Cached \cup {None}
    /\ readable \in BOOLEAN
    /\ file \in [Files -> File]
    /\ crossed \subseteq Keys /\ replaced \subseteq Keys /\ revoked \subseteq Keys
    /\ late \subseteq Files \X Keys /\ unchecked \subseteq Files \X Keys
    /\ begun \in 0 .. MaxSetups /\ faults \in 0 .. MaxFaults

\* A minted key stays minted.
LEMMA IssuedStay ==
  ASSUME OnlyGrows
  PROVE  Issued \subseteq Issued'
  BY DEF OnlyGrows, Issued

\* A file that is not written stays as it is.
LEMMA FilesStay ==
  ASSUME IInv, UNCHANGED file
  PROVE  FileEffect
  BY HoldsIs DEF FileEffect, IInv, OnlyAgents

\* In what a file holds at all, as in its entry of ours.
LEMMA HoldsLate ==
  ASSUME FileEffect, NEW f \in Files, NEW k \in replaced, Holds(file'[f], k)
  PROVE  Holds(file[f], k) \/ <<f, k>> \in late'
  BY HoldsIs DEF FileEffect

\* What s puts was known to nobody.
LEMMA PutIsNew ==
  ASSUME IInv, NEW s \in Setups, Puts(s)
  PROVE  /\ cache' # None /\ cache'.key = work[s].key /\ cache'.sub = work[s].sub
         /\ work[s].key \in Issued /\ work[s].key \notin replaced'
         /\ replaced \subseteq replaced'
         /\ cache # None => cache.key \in replaced'
         /\ \A k \in replaced' : k \in replaced \/ (cache # None /\ k = cache.key)
<1>1. work[s] \in Work /\ Running(s) /\ Call(s)
  BY Runs DEF IInv, Puts
<1>2. /\ cache' = [key |-> work[s].key, sub |-> work[s].sub]
      /\ replaced' = IF cache = None THEN replaced ELSE replaced \cup {cache.key}
      /\ at[s] = "put"
  BY DEF Puts, NewEntry
<1>3. /\ work[s].key \in Issued /\ work[s].key \notin replaced
      /\ cache # None => cache.key # work[s].key
  BY <1>1, <1>2 DEF Call, OwnKey, FreshKey
<1>4. cache' \in Cached
  BY <1>1, <1>2, <1>3 DEF Cached, Work, Issued
<1> QED
  BY <1>2, <1>3, <1>4, Bounds

\* A step leaves a setup alone that it does not move.
LEMMA OtherKeeps ==
  ASSUME IInv, NEW t \in Setups, Alike(t), OnlyGrows, FileEffect,
         UNCHANGED <<cache, replaced>> \/ \E s \in Setups : s # t /\ Puts(s),
         \A u \in Setups : u # t /\ at'[u] = "put" =>
            \/ at[u] = "put" /\ work'[u].key = work[u].key
            \/ work'[u].key \notin Issued
  PROVE  Call(t)'
<1>1. TypeOK /\ Call(t) /\ replaced \subseteq Issued /\ CacheTruthful
  BY DEF IInv
<1>2. /\ replaced \subseteq replaced'
      /\ cache # None => /\ cache' # None
                         /\ cache.key \in {cache'.key} \cup replaced'
      /\ \A k \in replaced' : k \in replaced \/ (cache # None /\ k = cache.key)
  BY PutIsNew
<1>3. Issued \subseteq Issued' /\ \A k \in Issued : owner'[k] = owner[k]
  BY IssuedStay DEF OnlyGrows
<1>4. at[t] \notin {"idle", "pin"} => Running(t)
  BY <1>1, Runs
<1>5. ReadOnce(t)'
  <2> SUFFICES ASSUME Running(t), work[t].cached # None
               PROVE  /\ Truthful(work[t].cached)'
                      /\ cache' # None
                      /\ work[t].cached.key \in {cache'.key} \cup replaced'
    BY DEF Alike, ReadOnce, Truthful
  <2>1. /\ Truthful(work[t].cached) /\ cache # None
        /\ work[t].cached.key \in {cache.key} \cup replaced
    BY <1>1 DEF Call, ReadOnce
  <2>2. Truthful(work[t].cached)'
    BY <1>3, <2>1 DEF Truthful, OnlyGrows, Alike
  <2> QED
    BY <1>2, <2>1, <2>2
<1>6. KnowsLogin(t)'
  BY <1>1 DEF Call, KnowsLogin, Alike
<1>7. OwnKey(t)'
  BY <1>1, <1>3 DEF Call, OwnKey, Alike, OnlyGrows
<1>8. FreshKey(t)'
  <2> SUFFICES ASSUME at[t] = "put"
               PROVE  /\ work[t].key \notin replaced'
                      /\ cache' # None => cache'.key # work[t].key
                      /\ \A u \in Setups : u # t /\ at'[u] = "put"
                                           => work'[u].key # work[t].key
    BY <1>4 DEF Alike, FreshKey
  <2>1. /\ work[t].key \notin replaced /\ work[t].key \in Issued
        /\ cache # None => cache.key # work[t].key
        /\ \A u \in Setups : u # t /\ at[u] = "put" => work[u].key # work[t].key
    BY <1>1, <1>4 DEF Call, FreshKey, OwnKey
  <2>2. cache' # None => cache'.key # work[t].key
    BY <2>1, PutIsNew DEF Puts
  <2> QED
    BY <1>2, <2>1, <2>2
<1>9. OldKey(t)'
  BY <1>1, <1>2 DEF Call, OldKey, Alike
<1>10. Searched(t)'
  <2> SUFFICES ASSUME at[t] \in {"rewrite", "revoke"}
               PROVE  Searched(t)'
    BY DEF Searched, Alike
  <2>1. /\ Searched(t) /\ work[t].prev \in replaced /\ Alike(t)
        /\ work'[t].prev = work[t].prev /\ work'[t].files = work[t].files
        /\ work'[t].stuck = work[t].stuck /\ at'[t] = at[t]
        /\ work[t].files \subseteq Files
    <3>1. Running(t) /\ work[t] \in Work /\ work[t].prev \in Keys
      BY <1>1, Runs DEF TypeOK
    <3>2. work[t].files \subseteq Files
      BY <3>1, Bounds DEF Work
    <3> QED
      BY <1>1, <3>1, <3>2, Bounds DEF Call, OldKey, Alike
  <2>2. \A f \in Files :
          /\ Names(file'[f].ours, work[t].prev)
             => Names(file[f].ours, work[t].prev) \/ <<f, work[t].prev>> \in late'
          /\ Holds(file'[f], work[t].prev)
             => Holds(file[f], work[t].prev) \/ <<f, work[t].prev>> \in late'
    BY <2>1, HoldsLate DEF FileEffect
  <2> QED
    BY <2>1, <2>2 DEF Searched, OnlyGrows
<1> QED
  BY <1>5, <1>6, <1>7, <1>8, <1>9, <1>10 DEF Call

\* What the setups share keeps what is said of it.
LEMMA SharedRest ==
  ASSUME IInv, OnlyGrows, FileEffect,
         UNCHANGED <<cache, replaced>> \/ \E s \in Setups : Puts(s)
  PROVE  /\ CacheTruthful' /\ OnlyAgents' /\ replaced' \subseteq Issued'
         /\ replaced \subseteq replaced'
<1>1. Issued \subseteq Issued' /\ \A k \in Issued : owner'[k] = owner[k]
  BY IssuedStay DEF OnlyGrows
<1>2. /\ replaced \subseteq replaced'
      /\ \A k \in replaced' : k \in replaced \/ (cache # None /\ k = cache.key)
  BY PutIsNew
<1>3. CacheTruthful'
  <2>1. CASE UNCHANGED <<cache, replaced>>
    BY <1>1, <2>1 DEF IInv, CacheTruthful, Truthful, OnlyGrows
  <2>2. ASSUME NEW s \in Setups, Puts(s)
        PROVE  CacheTruthful'
    <3>1. /\ cache'.key = work[s].key /\ cache'.sub = work[s].sub
          /\ work[s].key \in Issued /\ work[s].key \notin replaced'
      BY <2>2, PutIsNew
    <3>2. Running(s) /\ Call(s) /\ at[s] = "put"
      BY <2>2, Runs DEF IInv, Puts
    <3>3. work[s].sub # None /\ work[s].key \notin crossed
          => owner[work[s].key] = work[s].sub
      BY <3>1, <3>2, Bounds DEF Call, OwnKey, KnowsLogin, Issued
    <3> QED
      BY <1>1, <3>1, <3>3 DEF CacheTruthful, Truthful, OnlyGrows
  <2> QED
    BY <2>1, <2>2
<1>4. OnlyAgents'
  BY DEF FileEffect, OnlyAgents
<1>5. replaced' \subseteq Issued'
  BY <1>1, <1>2 DEF IInv, CacheTruthful, Truthful
<1> QED
  BY <1>2, <1>3, <1>4, <1>5

\* Who revokes nothing locks nobody out.
LEMMA NothingRevoked ==
  ASSUME IInv, OnlyGrows, FileEffect, UNCHANGED revoked
  PROVE  NoLockOut'
<1> SUFFICES ASSUME NEW f \in Files, NEW k \in revoked, Holds(file'[f], k)
             PROVE  <<f, k>> \in late' \cup unchecked'
  BY DEF NoLockOut
<1>1. k \in replaced
  BY DEF IInv
<1> QED
  BY <1>1, HoldsLate DEF IInv, NoLockOut, OnlyGrows

\* s goes on, at a place and with variables that fit together.
GoesOn(s, place, plan) ==
    /\ at' = [at EXCEPT ![s] = place] /\ work' = [work EXCEPT ![s] = plan]
    /\ place \in Pcs /\ plan \in Work \cup {None}
    /\ place \in {"idle", "pin"} <=> plan = None
    /\ place = "validate" => plan.cached # None
    /\ place \in {"rewrite", "revoke"} => plan.prev \in Keys \ {plan.key}
    /\ place = "put" => plan.key \notin Issued

\* A step of s keeps the invariant if it keeps what is said of s.
LEMMA StepKeeps ==
  ASSUME IInv, NEW s \in Setups, NEW place, NEW plan, GoesOn(s, place, plan),
         UNCHANGED login, OnlyGrows, FileEffect, CacheEffect(s), SharedTypes',
         Call(s)', UNCHANGED revoked \/ (NoLockOut' /\ revoked' \subseteq replaced')
  PROVE  IInv'
<1>1. /\ TypeOK /\ at'[s] = place /\ work'[s] = plan
      /\ at' \in [Setups -> Pcs] /\ work' \in [Setups -> Work \cup {None}]
      /\ \A t \in Setups : t # s => at'[t] = at[t] /\ work'[t] = work[t]
  BY DEF IInv, TypeOK, GoesOn
<1>2. TypeOK'
  <2>1. \A t \in Setups :
          /\ at'[t] \in {"idle", "pin"} <=> work'[t] = None
          /\ at'[t] = "validate" => work'[t].cached # None
          /\ at'[t] \in {"rewrite", "revoke"}
             => work'[t].prev \in Keys \ {work'[t].key}
    BY <1>1 DEF GoesOn, TypeOK
  <2>2. login' \in Accounts \cup {None}
    BY <1>1 DEF TypeOK
  <2> QED
    BY <1>1, <2>1, <2>2, Zenon DEF SharedTypes, TypeOK
<1>3. ASSUME NEW t \in Setups, t # s PROVE Call(t)'
  <2>1. Alike(t)
    BY <1>1, <1>3 DEF Alike, Running
  <2>2. \A u \in Setups : u # t /\ at'[u] = "put" =>
            \/ at[u] = "put" /\ work'[u].key = work[u].key
            \/ work'[u].key \notin Issued
    BY <1>1 DEF GoesOn
  <2> QED
    BY <1>3, <2>1, <2>2, OtherKeeps DEF CacheEffect
<1>4. /\ CacheTruthful' /\ OnlyAgents' /\ replaced' \subseteq Issued'
      /\ NoLockOut' /\ revoked' \subseteq replaced'
  <2>1. /\ CacheTruthful' /\ OnlyAgents' /\ replaced' \subseteq Issued'
        /\ replaced \subseteq replaced'
    BY SharedRest DEF CacheEffect
  <2>2. CASE UNCHANGED revoked
    BY <2>1, <2>2, NothingRevoked DEF IInv
  <2> QED
    BY <2>1, <2>2
<1> QED
  BY <1>2, <1>3, <1>4 DEF IInv

\* A setup at rest has nothing to keep.
LEMMA Resting ==
  ASSUME NEW s \in Setups, at'[s] \in {"idle", "pin"}, work'[s] = None
  PROVE  Call(s)'
  BY DEF Call, ReadOnce, KnowsLogin, OwnKey, FreshKey, OldKey, Searched, Running

\* What s keeps when it changes neither what it read nor what is shared.
LEMMA SameReads ==
  ASSUME IInv, NEW s \in Setups, Running(s), OnlyGrows,
         UNCHANGED <<cache, replaced, login>>,
         Running(s)', work'[s].cached = work[s].cached, work'[s].sub = work[s].sub,
         work'[s].signed = work[s].signed, work'[s].steady = work[s].steady,
         at'[s] # "validate"
  PROVE  ReadOnce(s)' /\ KnowsLogin(s)'
<1>1. Call(s)
  BY DEF IInv
<1>2. Issued \subseteq Issued' /\ \A k \in Issued : owner'[k] = owner[k]
  BY IssuedStay DEF OnlyGrows
<1> QED
  BY <1>1, <1>2 DEF Call, ReadOnce, KnowsLogin, Truthful, OnlyGrows

\* The places that say nothing of a search.
LEMMA NotSearched ==
  ASSUME NEW s \in Setups, at'[s] \notin {"rewrite", "revoke"}
  PROVE  Searched(s)'
  BY DEF Searched

\* A step of the environment, or one of the login, which tells the setups
\* nothing but that they can no longer rely on it.
LEMMA AllAlike ==
  ASSUME IInv, at' \in [Setups -> Pcs], work' \in [Setups -> Work \cup {None}],
         login' \in Accounts \cup {None},
         \A t \in Setups : Alike(t) \/ (at'[t] \in {"idle", "pin"} /\ work'[t] = None),
         OnlyGrows, FileEffect, UNCHANGED <<cache, replaced, revoked>>, SharedTypes'
  PROVE  IInv'
<1>1. TypeOK
  BY DEF IInv
<1>2. TypeOK'
  <2>1. ASSUME NEW t \in Setups
        PROVE  /\ at'[t] \in {"idle", "pin"} <=> work'[t] = None
               /\ at'[t] = "validate" => work'[t].cached # None
               /\ at'[t] \in {"rewrite", "revoke"}
                  => work'[t].prev \in Keys \ {work'[t].key}
    <3>1. CASE Alike(t)
      BY <1>1, <3>1 DEF TypeOK, Alike, Running
    <3>2. CASE at'[t] \in {"idle", "pin"} /\ work'[t] = None
      BY <3>2
    <3> QED
      BY <3>1, <3>2
  <2> QED
    BY <2>1, Zenon DEF SharedTypes, TypeOK
<1>3. ASSUME NEW t \in Setups PROVE Call(t)'
  <2>1. CASE Alike(t)
    <3>1. ASSUME NEW u \in Setups, at'[u] = "put"
          PROVE  at[u] = "put" /\ work'[u].key = work[u].key
      <4>1. Alike(u)
        BY <3>1
      <4> QED
        BY <1>1, <3>1, <4>1, Runs DEF Alike
    <3> QED
      BY <2>1, <3>1, OtherKeeps
  <2>2. CASE at'[t] \in {"idle", "pin"} /\ work'[t] = None
    BY <2>2, Resting
  <2> QED
    BY <2>1, <2>2
<1>4. /\ CacheTruthful' /\ OnlyAgents' /\ replaced' \subseteq Issued' /\ NoLockOut'
      /\ revoked' \subseteq replaced'
  BY SharedRest, NothingRevoked DEF IInv
<1> QED
  BY <1>2, <1>3, <1>4 DEF IInv

\* Bounded counters.
LEMMA Counts ==
  ASSUME TypeOK, Begins \/ UNCHANGED begun, Disturb \/ UNCHANGED faults
  PROVE  begun' \in 0 .. MaxSetups /\ faults' \in 0 .. MaxFaults
  BY Bounds DEF TypeOK, Begins, Disturb

\* A step that keeps to the setup's own variables.
LEMMA OwnOnly ==
  ASSUME IInv, UNCHANGED <<owner, cache, file, crossed, replaced, late, unchecked>>
  PROVE  OnlyGrows /\ FileEffect /\ \A s \in Setups : CacheEffect(s)
  BY FilesStay DEF OnlyGrows, CacheEffect

\* Of the least of the unused keys.
LEMMA NextIsNew ==
  ASSUME TypeOK, Unused # {}
  PROVE  NextKey \in Keys /\ NextKey \notin Issued
<1>1. Unused \subseteq Nat /\ Unused \subseteq Keys
  BY Bounds DEF Unused
<1>2. PICK k \in Unused : \A l \in Unused : ~ (<<l, k>> \in OpToRel(<, Nat))
  BY <1>1, WFMin, NatLessThanWellFounded, Zenon
<1>3. \A l \in Unused : ~ (l < k)
  BY <1>1, <1>2 DEF OpToRel
<1>4. \A l \in Unused : k <= l
  BY <1>1, <1>3
<1>5. NextKey \in Unused
  BY <1>4 DEF NextKey
<1> QED
  BY <1>5 DEF Unused, Issued
-----------------------------------------------------------------------------
(* The steps of a setup.                                                   *)

\* A step that ends the operation of s, the shared state staying as it is said.
LEMMA EndKeeps ==
  ASSUME IInv, NEW s \in Setups, Ends(s), UNCHANGED <<login, revoked>>,
         OnlyGrows, FileEffect, CacheEffect(s), SharedTypes'
  PROVE  IInv'
<1>1. GoesOn(s, "idle", None)
  BY DEF Ends, Goes, GoesOn, Pcs
<1>2. at'[s] = "idle" /\ work'[s] = None
  BY DEF Ends, Goes, IInv, TypeOK
<1> QED
  BY <1>1, <1>2, Resting, StepKeeps

\* A setup reads who is signed in and what is cached.
LEMMA StartKeeps ==
  ASSUME IInv, NEW s \in Setups, Start(s) \/ StartKeyless(s)
  PROVE  IInv'
<1>1. /\ TypeOK /\ CacheTruthful /\ at[s] = "idle"
      /\ UNCHANGED <<machine, server, file, history, faults>> /\ Begins
  BY DEF IInv, Start, StartKeyless
<1>2. PICK fs \in Agents, kind \in {"pinned", "unpinned"}, regen \in BOOLEAN,
           sub \in {Sub, None}, cached \in {Visible, None}, place \in Pcs :
        /\ work' = [work EXCEPT ![s] = Plan(fs, kind, regen, sub, cached)]
        /\ at' = [at EXCEPT ![s] = place]
        /\ \/ place = "validate" /\ sub # None /\ cached # None /\ cached.sub = sub
           \/ place \in {"mint", "write"}
  <2>1. CASE Start(s)
    <3>1. PICK fs \in Agents, kind \in {"pinned", "unpinned"}, regen \in BOOLEAN :
            /\ work' = [work EXCEPT ![s] = Plan(fs, kind, regen, Sub, Visible)]
            /\ Goes(s, IF ~regen /\ Mine THEN "validate" ELSE "mint")
      BY <2>1 DEF Start
    <3>2. PICK place \in {"validate", "mint"} :
            /\ at' = [at EXCEPT ![s] = place]
            /\ place = "validate" => Sub # None /\ Visible # None /\ Visible.sub = Sub
      BY <3>1 DEF Goes, Mine
    <3> QED
      BY <3>1, <3>2 DEF Pcs
  <2>2. CASE StartKeyless(s)
    <3>1. PICK fs \in Agents, kind \in {"pinned", "unpinned"} :
            /\ work' = [work EXCEPT ![s] = Plan(fs, kind, FALSE, None, None)]
            /\ at' = [at EXCEPT ![s] = "write"]
      BY <2>2 DEF StartKeyless, Goes
    <3> QED
      BY <3>1 DEF Pcs
  <2> QED
    BY <2>1, <2>2
<1> DEFINE plan == Plan(fs, kind, regen, sub, cached)
<1>3. /\ cached = None \/ (cached = cache /\ cache # None)
      /\ cached \in Cached \cup {None}
      /\ sub = None \/ sub = login
      /\ sub \in Accounts \cup {None} /\ login \in Accounts \cup {None}
  BY <1>1 DEF Visible, Sub, TypeOK
<1>4. /\ plan \in Work /\ plan.cached = cached /\ plan.sub = sub
      /\ plan.signed = login /\ plan.key = None /\ plan.prev = None
      /\ plan.steady = TRUE
  BY <1>3 DEF Plan, Work
<1> HIDE DEF plan
<1>5. GoesOn(s, place, plan)
  BY <1>2, <1>4, Bounds DEF GoesOn, plan
<1>6. at'[s] = place /\ work'[s] = plan /\ place \in {"validate", "mint", "write"}
  BY <1>1, <1>2 DEF TypeOK, plan
<1>7. UNCHANGED <<owner, login, cache, file, crossed, replaced, late, unchecked,
                revoked>>
  BY <1>1 DEF machine, server, history
<1>8. ReadOnce(s)'
  BY <1>1, <1>3, <1>4, <1>6, <1>7 DEF ReadOnce, CacheTruthful, Truthful, Issued
<1>9. KnowsLogin(s)' /\ OwnKey(s)' /\ FreshKey(s)' /\ OldKey(s)' /\ Searched(s)'
  BY <1>2, <1>3, <1>4, <1>6, <1>7, NotSearched
     DEF KnowsLogin, OwnKey, FreshKey, OldKey
<1>10. SharedTypes'
  BY <1>1, <1>7, Counts DEF TypeOK, SharedTypes, machine, server
<1> QED
  BY <1>5, <1>7, <1>8, <1>9, <1>10, OwnOnly, StepKeeps DEF Call

\* A validated key is the one to write, and another answer leads to a mint.
LEMMA ValidateKeeps ==
  ASSUME IInv, NEW s \in Setups, Reuses(s) \/ Rejected(s)
  PROVE  IInv'
<1>1. /\ TypeOK /\ at[s] = "validate" /\ work[s] \in Work /\ Running(s) /\ Call(s)
      /\ work[s].cached # None
      /\ UNCHANGED <<machine, server, file, history, begun>>
  BY Runs DEF IInv, TypeOK, Reuses, Rejected
<1>2. UNCHANGED <<owner, login, cache, file, crossed, replaced, late, unchecked,
                revoked>>
  BY <1>1 DEF machine, server, history
<1>3. OnlyGrows /\ FileEffect /\ CacheEffect(s)
  BY <1>2, OwnOnly
<1>4. SharedTypes'
  <2>1. Disturb \/ UNCHANGED faults
    BY DEF Reuses, Rejected
  <2> QED
    BY <1>1, <1>2, <2>1, Counts DEF TypeOK, SharedTypes, machine, server
<1>5. CASE Reuses(s)
  <2> DEFINE plan == [work[s] EXCEPT !.key = work[s].cached.key]
  <2>1. work[s].cached.key \in Issued
    BY <1>1 DEF Call, ReadOnce, Truthful
  <2>2. work' = [work EXCEPT ![s] = plan] /\ at' = [at EXCEPT ![s] = "write"]
    BY <1>5 DEF Reuses, Goes
  <2>3. /\ plan \in Work /\ plan.key = work[s].cached.key
        /\ plan.cached = work[s].cached /\ plan.sub = work[s].sub
        /\ plan.signed = work[s].signed /\ plan.prev = work[s].prev
        /\ plan.steady = work[s].steady
    BY <1>1, <2>1 DEF Work, Issued
  <2> HIDE DEF plan
  <2>4. at'[s] = "write" /\ work'[s] = plan
    BY <1>1, <2>2 DEF TypeOK
  <2>5. GoesOn(s, "write", plan)
    BY <2>2, <2>3, Bounds DEF GoesOn, Pcs
  <2>6. ReadOnce(s)' /\ KnowsLogin(s)'
    BY <1>1, <1>2, <1>3, <2>3, <2>4, Bounds, SameReads DEF Running
  <2>7. OwnKey(s)'
    BY <1>1, <1>2, <2>1, <2>3, <2>4
       DEF OwnKey, Call, ReadOnce, Truthful, KnowsLogin, Issued
  <2>8. FreshKey(s)' /\ OldKey(s)' /\ Searched(s)'
    BY <1>1, <2>3, <2>4, NotSearched DEF FreshKey, OldKey, Call
  <2> QED
    BY <1>2, <1>3, <1>4, <2>5, <2>6, <2>7, <2>8, StepKeeps DEF Call
<1>6. CASE Rejected(s)
  <2>1. work' = work /\ at' = [at EXCEPT ![s] = "mint"]
    BY <1>6 DEF Rejected, Goes
  <2>2. at'[s] = "mint" /\ work'[s] = work[s]
    BY <1>1, <2>1 DEF TypeOK
  <2>3. work' = [work EXCEPT ![s] = work[s]]
    BY <1>1, <2>1 DEF TypeOK
  <2>4. GoesOn(s, "mint", work[s])
    BY <1>1, <2>1, <2>3 DEF GoesOn, Pcs, Running
  <2>5. ReadOnce(s)' /\ KnowsLogin(s)'
    BY <1>1, <1>2, <1>3, <2>2, SameReads DEF Running
  <2>6. OwnKey(s)' /\ FreshKey(s)' /\ OldKey(s)' /\ Searched(s)'
    BY <1>1, <2>2, NotSearched DEF OwnKey, FreshKey, OldKey, Call, Running
  <2> QED
    BY <1>2, <1>3, <1>4, <2>4, <2>5, <2>6, StepKeeps DEF Call
<1> QED
  BY <1>5, <1>6

\* Without a key a setup ends, or goes on to write none.
LEMMA NoKeyKeeps ==
  ASSUME IInv, NEW s \in Setups, at[s] = "mint", NoKey(s),
         UNCHANGED <<login, cache, file, replaced, late, unchecked, revoked>>,
         OnlyGrows, SharedTypes'
  PROVE  IInv'
<1>1. /\ TypeOK /\ work[s] \in Work /\ Running(s) /\ Call(s)
  BY Runs DEF IInv
<1>2. FileEffect /\ CacheEffect(s)
  BY FilesStay DEF CacheEffect
<1>3. CASE Ends(s)
  BY <1>2, <1>3, EndKeeps
<1>4. CASE Goes(s, "write") /\ UNCHANGED work
  <2>1. work' = [work EXCEPT ![s] = work[s]] /\ at' = [at EXCEPT ![s] = "write"]
    BY <1>1, <1>4 DEF TypeOK, Goes
  <2>2. at'[s] = "write" /\ work'[s] = work[s]
    BY <1>1, <2>1 DEF TypeOK
  <2>3. GoesOn(s, "write", work[s])
    BY <1>1, <2>1 DEF GoesOn, Pcs, Running
  <2>4. ReadOnce(s)' /\ KnowsLogin(s)'
    BY <1>1, <2>2, SameReads DEF Running
  <2>5. OwnKey(s)' /\ FreshKey(s)' /\ OldKey(s)' /\ Searched(s)'
    BY <1>1, <2>2, NotSearched DEF OwnKey, FreshKey, OldKey, Call, Running
  <2> QED
    BY <1>2, <2>3, <2>4, <2>5, StepKeeps DEF Call
<1> QED
  BY <1>3, <1>4 DEF NoKey

\* The server mints a key that nobody has seen.
LEMMA IssuesIs ==
  ASSUME IInv, NEW s \in Setups, Issues(s), UNCHANGED <<late, unchecked>>
  PROVE  /\ OnlyGrows /\ NextKey \in Keys /\ NextKey \notin Issued
         /\ NextKey \in Issued' /\ owner'[NextKey] = login
         /\ NextKey \notin crossed' => work[s].steady
         /\ owner' \in [Keys -> Accounts \cup {None}] /\ active' \subseteq Keys
         /\ crossed' \subseteq Keys
<1>1. TypeOK
  BY DEF IInv
<1>2. NextKey \in Keys /\ NextKey \notin Issued
  BY <1>1, NextIsNew DEF Issues
<1>3. PICK key : key = NextKey
  OBVIOUS
<1>4. /\ owner' = [owner EXCEPT ![key] = login] /\ active' = active \cup {key}
      /\ crossed' = IF work[s].steady THEN crossed ELSE crossed \cup {key}
      /\ login # None
  BY <1>3 DEF Issues
<1> QED
  BY <1>1, <1>2, <1>3, <1>4 DEF OnlyGrows, Issued, TypeOK

\* There is no token, or the answer of the mint is lost: a key that nobody gets.
LEMMA NoMintKeeps ==
  ASSUME IInv, NEW s \in Setups, NoToken(s) \/ MintFails(s)
  PROVE  IInv'
<1>1. /\ TypeOK /\ at[s] = "mint" /\ NoKey(s)
      /\ UNCHANGED <<machine, file, replaced, revoked, late, unchecked, begun>>
      /\ Disturb \/ UNCHANGED faults
      /\ Issues(s) \/ UNCHANGED <<server, crossed>>
  BY DEF IInv, NoToken, MintFails, history
<1>2. UNCHANGED <<login, cache, readable>>
  BY <1>1 DEF machine
<1>3. /\ OnlyGrows /\ owner' \in [Keys -> Accounts \cup {None}]
      /\ active' \subseteq Keys /\ crossed' \subseteq Keys
  BY <1>1, IssuesIs DEF OnlyGrows, server, TypeOK
<1>4. SharedTypes'
  BY <1>1, <1>2, <1>3, Counts DEF TypeOK, SharedTypes
<1> QED
  BY <1>1, <1>2, <1>3, <1>4, NoKeyKeeps

\* The minted key is of the account that is signed in, and known to s alone.
LEMMA MintKeeps ==
  ASSUME IInv, NEW s \in Setups, Mint(s)
  PROVE  IInv'
<1>1. /\ TypeOK /\ at[s] = "mint" /\ Issues(s) /\ work[s] \in Work /\ Running(s)
      /\ Call(s) /\ replaced \subseteq Issued /\ CacheTruthful
      /\ UNCHANGED <<machine, file, replaced, revoked, late, unchecked, faults, begun>>
      /\ \A t \in Setups : Call(t)
  BY Runs DEF IInv, Mint
<1>2. UNCHANGED <<login, cache, readable>>
  BY <1>1 DEF machine
<1>3. PICK key : key = NextKey
  OBVIOUS
<1>4. /\ OnlyGrows /\ key \in Keys /\ key \notin Issued
      /\ key \in Issued' /\ owner'[key] = login
      /\ key \notin crossed' => work[s].steady
      /\ owner' \in [Keys -> Accounts \cup {None}] /\ active' \subseteq Keys
      /\ crossed' \subseteq Keys
  BY <1>1, <1>3, IssuesIs
<1> DEFINE plan == [work[s] EXCEPT !.key = key, !.token = login]
<1>5. work' = [work EXCEPT ![s] = plan] /\ at' = [at EXCEPT ![s] = "put"]
  BY <1>3 DEF Mint, Goes
<1>6. /\ plan \in Work /\ plan.key = key
      /\ plan.cached = work[s].cached /\ plan.sub = work[s].sub
      /\ plan.signed = work[s].signed /\ plan.prev = work[s].prev
      /\ plan.steady = work[s].steady
  BY <1>1, <1>4 DEF Work, TypeOK
<1> HIDE DEF plan
<1>7. /\ at'[s] = "put" /\ work'[s] = plan
      /\ \A t \in Setups : t # s => at'[t] = at[t] /\ work'[t] = work[t]
  BY <1>1, <1>5 DEF TypeOK
<1>8. GoesOn(s, "put", plan)
  BY <1>4, <1>5, <1>6, Bounds DEF GoesOn, Pcs
<1>9. ReadOnce(s)' /\ KnowsLogin(s)'
  BY <1>1, <1>2, <1>4, <1>6, <1>7, Bounds, SameReads DEF Running
<1>10. OwnKey(s)'
  BY <1>1, <1>4, <1>6, <1>7, Bounds DEF OwnKey, Call, KnowsLogin
<1>11. FreshKey(s)'
  <2>1. key \notin replaced /\ (cache # None => cache.key # key)
    BY <1>1, <1>4 DEF CacheTruthful, Truthful
  <2>2. \A t \in Setups : at[t] = "put" => work[t].key # key
    <3> SUFFICES ASSUME NEW t \in Setups, at[t] = "put" PROVE work[t].key \in Issued
      BY <1>4
    <3>1. Running(t) /\ Call(t)
      BY <1>1, Runs
    <3> QED
      BY <3>1 DEF Call, OwnKey
  <2> QED
    BY <1>1, <1>2, <1>6, <1>7, <2>1, <2>2 DEF FreshKey
<1>12. OldKey(s)' /\ Searched(s)'
  BY <1>1, <1>6, <1>7, NotSearched DEF OldKey, Call
<1>13. SharedTypes'
  BY <1>1, <1>2, <1>4 DEF TypeOK, SharedTypes
<1> QED
  BY <1>1, <1>2, <1>4, <1>8, <1>9, <1>10, <1>11, <1>12, <1>13, FilesStay, StepKeeps
     DEF Call, CacheEffect

\* The entry that a regenerate displaces was read at its start, and so is
\* another than the one it puts.
LEMMA PutKeeps ==
  ASSUME IInv, NEW s \in Setups, Put(s)
  PROVE  IInv'
<1>1. /\ TypeOK /\ at[s] = "put" /\ work[s] \in Work /\ Running(s) /\ Call(s)
      /\ Puts(s)
      /\ UNCHANGED <<login, server, readable, file, crossed, revoked, late,
                     unchecked, faults, begun>>
  BY Runs DEF IInv, Put, Puts
<1>2. /\ cache' # None /\ cache'.key = work[s].key /\ cache'.sub = work[s].sub
      /\ work[s].key \in Issued /\ work[s].key \notin replaced'
      /\ replaced \subseteq replaced'
      /\ cache # None => cache.key \in replaced'
      /\ \A k \in replaced' : k \in replaced \/ (cache # None /\ k = cache.key)
  BY <1>1, PutIsNew
<1>3. PICK prev : prev = Previous(s)
  OBVIOUS
<1>4. /\ ReadOnce(s)
      /\ prev # None => work[s].cached # None /\ prev = work[s].cached.key
  BY <1>1, <1>3 DEF Call, Previous
<1>5. prev # None => prev \in replaced' /\ prev \in Keys /\ prev # work[s].key
  BY <1>1, <1>2, <1>4 DEF ReadOnce, Truthful, Issued
<1> DEFINE plan == [work[s] EXCEPT !.prev = prev]
<1>6. work' = [work EXCEPT ![s] = plan] /\ at' = [at EXCEPT ![s] = "write"]
  BY <1>3 DEF Put, Goes
<1>7. /\ plan \in Work /\ plan.key = work[s].key /\ plan.prev = prev
      /\ plan.cached = work[s].cached /\ plan.sub = work[s].sub
      /\ plan.signed = work[s].signed /\ plan.steady = work[s].steady
  BY <1>1, <1>5 DEF Work
<1> HIDE DEF plan
<1>8. at'[s] = "write" /\ work'[s] = plan
  BY <1>1, <1>6 DEF TypeOK
<1>9. GoesOn(s, "write", plan)
  BY <1>6, <1>7, Bounds DEF GoesOn, Pcs
<1>10. OnlyGrows /\ FileEffect /\ CacheEffect(s)
  BY <1>1, FilesStay DEF OnlyGrows, CacheEffect, server
<1>11. ReadOnce(s)'
  BY <1>1, <1>2, <1>4, <1>7, <1>8 DEF ReadOnce, Truthful, Issued, server
<1>12. KnowsLogin(s)' /\ OwnKey(s)'
  BY <1>1, <1>7, <1>8 DEF Call, KnowsLogin, OwnKey, Issued, server
<1>13. FreshKey(s)' /\ OldKey(s)' /\ Searched(s)'
  BY <1>5, <1>7, <1>8, NotSearched DEF FreshKey, OldKey
<1>14. SharedTypes'
  <2>1. cache' \in Cached
    <3>1. cache' = [key |-> work[s].key, sub |-> work[s].sub]
      BY <1>1 DEF Puts, NewEntry
    <3> QED
      BY <1>1, <1>2, <3>1 DEF Cached, Work, Issued
  <2>2. replaced' \subseteq Keys
    BY <1>1, <1>2 DEF TypeOK, Cached
  <2> QED
    BY <1>1, <2>1, <2>2 DEF TypeOK, SharedTypes, server
<1> QED
  BY <1>1, <1>9, <1>10, <1>11, <1>12, <1>13, <1>14, StepKeeps DEF Call

\* The key goes into the configuration, but not into the cache.
LEMMA PutFailsKeeps ==
  ASSUME IInv, NEW s \in Setups, PutFails(s)
  PROVE  IInv'
<1>1. /\ TypeOK /\ at[s] = "put" /\ work[s] \in Work /\ Running(s) /\ Call(s)
      /\ UNCHANGED <<machine, server, file, work, history, begun>>
      /\ at' = [at EXCEPT ![s] = "write"]
      /\ Disturb \/ UNCHANGED faults
  BY Runs DEF IInv, PutFails, Goes
<1>2. UNCHANGED <<owner, login, cache, file, crossed, replaced, late, unchecked,
                revoked>>
  BY <1>1 DEF machine, server, history
<1>3. at'[s] = "write" /\ work'[s] = work[s] /\ work' = [work EXCEPT ![s] = work[s]]
  BY <1>1 DEF TypeOK
<1>4. GoesOn(s, "write", work[s])
  BY <1>1, <1>3 DEF GoesOn, Pcs, Running
<1>5. OnlyGrows /\ FileEffect /\ CacheEffect(s)
  BY <1>2, OwnOnly
<1>6. ReadOnce(s)' /\ KnowsLogin(s)'
  BY <1>1, <1>2, <1>3, <1>5, SameReads DEF Running
<1>7. OwnKey(s)' /\ FreshKey(s)' /\ OldKey(s)' /\ Searched(s)'
  BY <1>1, <1>2, <1>3, NotSearched
     DEF OwnKey, FreshKey, OldKey, Call, Running, Issued
<1>8. SharedTypes'
  BY <1>1, <1>2, Counts DEF TypeOK, SharedTypes, machine, server
<1> QED
  BY <1>2, <1>4, <1>5, <1>6, <1>7, <1>8, StepKeeps DEF Call

\* Faults are counted.
LEMMA FaultyCount ==
  ASSUME NEW fs, NEW failed, NEW unread, FaultyFiles(fs, failed, unread)
  PROVE  Disturb \/ UNCHANGED faults
  BY DEF FaultyFiles

\* Who writes the files of an agent writes late what was displaced.
LEMMA WriteEffect ==
  ASSUME IInv, NEW fs \in Agents, NEW failed \in SUBSET fs, NEW unread \in SUBSET fs,
         NEW kind \in Kinds, NEW key \in Keys \cup {None}, NEW clear \in BOOLEAN,
         Writes(fs, failed, unread, kind, key, clear),
         key \in replaced => (fs \ failed) \X {key} \subseteq late'
  PROVE  file' \in [Files -> File] /\ FileEffect
<1>1. TypeOK /\ OnlyAgents /\ replaced \subseteq Keys /\ fs \in SUBSET Files
      /\ fs \subseteq UNION Agents
  BY Bounds DEF IInv, TypeOK
<1>2. /\ file' \in [Files -> File]
      /\ \A f \in Files : f \notin fs \ failed => file'[f] = file[f]
      /\ \A f \in fs \ failed :
          \A k \in Keys :
            /\ Names(file'[f].ours, k) => k = key \/ Names(file[f].ours, k)
            /\ Names(file'[f].alias, k) => Names(file[f].alias, k)
  <2>1. Written(fs, failed, unread, key, clear)
    BY <1>1, WritesIs, Zenon
  <2> QED
    BY <2>1 DEF Written
<1>3. ASSUME NEW f \in Files
      PROVE  /\ f \notin UNION Agents => file'[f].ours = None /\ file'[f].alias = None
             /\ \A k \in replaced :
                /\ Names(file'[f].ours, k)
                   => Names(file[f].ours, k) \/ <<f, k>> \in late'
                /\ Names(file'[f].alias, k)
                   => Holds(file[f], k) \/ <<f, k>> \in late'
  <2>1. CASE f \in fs \ failed
    BY <1>1, <1>2, <2>1, HoldsIs
  <2>2. CASE f \notin fs \ failed
    BY <1>1, <1>2, <2>2, HoldsIs DEF OnlyAgents
  <2> QED
    BY <2>1, <2>2
<1> QED
  BY <1>2, <1>3 DEF FileEffect

\* The files of the plan no longer hold the old key under our name, unless one
\* of them failed.
LEMMA WriteKeeps ==
  ASSUME IInv, NEW s \in Setups, Write(s)
  PROVE  IInv'
<1>1. /\ TypeOK /\ at[s] = "write" /\ work[s] \in Work /\ Running(s) /\ Call(s)
      /\ UNCHANGED <<machine, server, crossed, replaced, revoked, unchecked, begun>>
  BY Runs DEF IInv, Write
<1>2. PICK failed \in SUBSET work[s].files, unread \in SUBSET work[s].files :
        /\ FaultyFiles(work[s].files, failed, unread)
        /\ Writes(work[s].files, failed, unread, work[s].kind, work[s].key, TRUE)
        /\ late' = late \cup (work[s].files \ failed) \X ({work[s].key} \cap replaced)
        /\ IF work[s].prev = None THEN Ends(s)
           ELSE /\ Goes(s, "rewrite")
                /\ work' = [work EXCEPT ![s].stuck = failed # {}]
  BY <1>1 DEF Write
<1>3. /\ work[s].files \in Agents /\ work[s].files \in SUBSET Files
      /\ work[s].kind \in Kinds /\ work[s].key \in Keys \cup {None}
  BY <1>1, Bounds DEF Work, Kinds
<1>4. work[s].key \in replaced
      => (work[s].files \ failed) \X {work[s].key} \subseteq late'
  BY <1>2
<1>5. file' \in [Files -> File] /\ FileEffect
  BY <1>2, <1>3, <1>4, WriteEffect, Zenon
<1>6. \A f \in work[s].files \ failed : file'[f].ours.key = work[s].key
  <2>1. Written(work[s].files, failed, unread, work[s].key, TRUE)
    BY <1>1, <1>2, <1>3, WritesIs, Zenon
  <2> QED
    BY <2>1 DEF Written
<1>7. late' \subseteq Files \X Keys
  <2>1. replaced \subseteq Keys
    BY <1>1 DEF TypeOK
  <2> QED
    BY <1>1, <1>2, <1>3, <2>1 DEF TypeOK
<1>8. /\ UNCHANGED <<owner, login, cache, crossed, replaced, unchecked, revoked>>
      /\ UNCHANGED <<active, readable, begun>>
  BY <1>1 DEF machine, server
<1>9. OnlyGrows /\ CacheEffect(s)
  BY <1>2, <1>8 DEF OnlyGrows, CacheEffect
<1>10. SharedTypes'
  <2>1. Disturb \/ UNCHANGED faults
    BY <1>2, FaultyCount, Zenon
  <2> QED
    BY <1>1, <1>5, <1>7, <1>8, <2>1, Counts DEF TypeOK, SharedTypes
<1>11. CASE work[s].prev = None
  BY <1>2, <1>5, <1>8, <1>9, <1>10, <1>11, EndKeeps
<1>12. CASE work[s].prev # None
  <2>1. PICK stuck \in BOOLEAN : stuck <=> failed # {}
    OBVIOUS
  <2> DEFINE plan == [work[s] EXCEPT !.stuck = stuck]
  <2>2. work' = [work EXCEPT ![s] = plan] /\ at' = [at EXCEPT ![s] = "rewrite"]
    BY <1>1, <1>2, <1>12, <2>1 DEF Goes
  <2>3. /\ plan \in Work /\ plan.key = work[s].key /\ plan.prev = work[s].prev
        /\ plan.cached = work[s].cached /\ plan.sub = work[s].sub
        /\ plan.signed = work[s].signed /\ plan.steady = work[s].steady
        /\ plan.stuck = stuck /\ plan.files = work[s].files
    BY <1>1 DEF Work
  <2> HIDE DEF plan
  <2>4. at'[s] = "rewrite" /\ work'[s] = plan
    BY <1>1, <2>2 DEF TypeOK
  <2>5. plan.prev \in Keys \ {plan.key}
    BY <1>1, <1>12, <2>3 DEF Call, OldKey, TypeOK
  <2>6. GoesOn(s, "rewrite", plan)
    BY <2>2, <2>3, <2>5, Bounds DEF GoesOn, Pcs
  <2>7. ReadOnce(s)' /\ KnowsLogin(s)'
    BY <1>1, <1>8, <1>9, <2>3, <2>4, Bounds, SameReads DEF Running
  <2>8. OwnKey(s)' /\ FreshKey(s)' /\ OldKey(s)'
    BY <1>1, <1>8, <2>3, <2>4 DEF OwnKey, FreshKey, OldKey, Call, Issued
  <2>9. Searched(s)'
    <3>1. ~ stuck => \A f \in work[s].files : file'[f].ours.key # work[s].prev
      BY <1>6, <2>1, <2>3, <2>5
    <3> QED
      BY <2>3, <2>4, <3>1 DEF Searched, Names
  <2> QED
    BY <1>5, <1>8, <1>9, <1>10, <2>6, <2>7, <2>8, <2>9, StepKeeps DEF Call
<1> QED
  BY <1>11, <1>12

\* What moves to the new key held the old one, and gets a late key late.
LEMMA MoveEffect ==
  ASSUME IInv, NEW s \in Setups, work[s] \in Work, NEW moved \in SUBSET Others(s),
         \A f \in moved : Movable(f, work[s].prev),
         file' = [f \in Files |->
                   IF f \in moved THEN [file[f] EXCEPT !.ours.key = work[s].key]
                                  ELSE file[f]],
         late' = late \cup moved \X ({work[s].key} \cap replaced)
  PROVE  /\ file' \in [Files -> File] /\ FileEffect /\ late' \subseteq Files \X Keys
         /\ \A f \in Files \ moved : file'[f] = file[f]
<1>1. /\ TypeOK /\ OnlyAgents /\ replaced \subseteq Keys
      /\ work[s].key \in Keys \cup {None} /\ moved \subseteq UNION Agents
      /\ moved \subseteq Files
  BY Bounds DEF IInv, TypeOK, Work, Others
<1>2. PICK key : key = work[s].key
  OBVIOUS
<1>3. ASSUME NEW f \in moved
      PROVE  /\ file'[f] \in File
             /\ \A k \in Keys : /\ Names(file'[f].ours, k) => k = key
                                /\ file'[f].alias = file[f].alias
  <2>1. PICK old : old = file[f]
    OBVIOUS
  <2>2. old \in File /\ old.ours \in Entry
    BY <1>1, <1>3, <2>1 DEF TypeOK, File, Movable, ServerEntry
  <2>3. PICK entry : entry = [old.ours EXCEPT !.key = key]
    OBVIOUS
  <2>4. entry \in Entry /\ entry.key = key
    BY <1>1, <1>2, <2>2, <2>3 DEF Entry
  <2>5. PICK new : new = file'[f]
    OBVIOUS
  <2>6. new = [old EXCEPT !.ours = entry]
    BY <1>1, <1>2, <1>3, <2>1, <2>3, <2>5
  <2>7. new \in File /\ new.ours = entry /\ new.alias = old.alias
    BY <2>2, <2>4, <2>6 DEF File
  <2> QED
    BY <2>1, <2>4, <2>5, <2>7 DEF Names
<1>4. \A f \in Files \ moved : file'[f] = file[f]
  OBVIOUS
<1>5. file' \in [Files -> File]
  <2>1. \A f \in Files : file'[f] \in File
    BY <1>1, <1>3, <1>4 DEF TypeOK
  <2>2. DOMAIN file' = Files /\ file' = [f \in DOMAIN file' |-> file'[f]]
    BY Zenon
  <2> QED
    BY <2>1, <2>2
<1>6. late' \subseteq Files \X Keys
  BY <1>1 DEF TypeOK
<1>7. ASSUME NEW f \in Files
      PROVE  /\ f \notin UNION Agents => file'[f].ours = None /\ file'[f].alias = None
             /\ \A k \in replaced :
                /\ Names(file'[f].ours, k)
                   => Names(file[f].ours, k) \/ <<f, k>> \in late'
                /\ Names(file'[f].alias, k)
                   => Holds(file[f], k) \/ <<f, k>> \in late'
  <2>1. CASE f \in moved
    <3>1. \A k \in replaced : k = key => <<f, k>> \in late'
      BY <1>2, <2>1
    <3> QED
      BY <1>1, <1>3, <2>1, <3>1, HoldsIs
  <2>2. CASE f \notin moved
    BY <1>1, <1>4, <2>2, HoldsIs DEF OnlyAgents
  <2> QED
    BY <2>1, <2>2
<1> QED
  BY <1>4, <1>5, <1>6, <1>7 DEF FileEffect

\* A setup goes on to revoke only when no other file holds the old key.
LEMMA RewriteKeeps ==
  ASSUME IInv, NEW s \in Setups, Rewrite(s)
  PROVE  IInv'
<1>1. /\ TypeOK /\ OnlyAgents /\ at[s] = "rewrite" /\ work[s] \in Work /\ Running(s)
      /\ Call(s) /\ work[s].prev \in Keys \ {work[s].key}
      /\ UNCHANGED <<machine, server, crossed, replaced, revoked, unchecked, begun>>
  BY Runs DEF IInv, Rewrite, TypeOK
<1>2. PICK failed \in SUBSET Others(s) :
        /\ \/ failed = {} /\ UNCHANGED faults
           \/ Cardinality(failed) = 1 /\ Disturb
        /\ LET moved == {f \in Others(s) \ failed : Movable(f, work[s].prev)}
           IN  /\ file' = [f \in Files |->
                            IF f \in moved THEN [file[f] EXCEPT !.ours.key = work[s].key]
                                           ELSE file[f]]
               /\ late' = late \cup moved \X ({work[s].key} \cap replaced)
        /\ IF OldKeyLeft(s) THEN Ends(s) ELSE Goes(s, "revoke") /\ UNCHANGED work
  BY Zenon DEF Rewrite
<1>3. PICK moved \in SUBSET Others(s) :
        /\ \A f \in moved : Movable(f, work[s].prev)
        /\ file' = [f \in Files |->
                     IF f \in moved THEN [file[f] EXCEPT !.ours.key = work[s].key]
                                    ELSE file[f]]
        /\ late' = late \cup moved \X ({work[s].key} \cap replaced)
  BY <1>2, Zenon
<1>4. /\ file' \in [Files -> File] /\ FileEffect /\ late' \subseteq Files \X Keys
      /\ \A f \in Files \ moved : file'[f] = file[f]
  BY <1>1, <1>3, MoveEffect, Zenon
<1>5. /\ UNCHANGED <<owner, login, cache, crossed, replaced, unchecked, revoked>>
      /\ UNCHANGED <<active, readable, begun>>
  BY <1>1 DEF machine, server
<1>6. OnlyGrows /\ CacheEffect(s)
  BY <1>3, <1>5 DEF OnlyGrows, CacheEffect
<1>7. SharedTypes'
  <2>1. Disturb \/ UNCHANGED faults
    BY <1>2
  <2> QED
    BY <1>1, <1>4, <1>5, <2>1, Counts DEF TypeOK, SharedTypes
<1>8. CASE OldKeyLeft(s)
  BY <1>2, <1>4, <1>5, <1>6, <1>7, <1>8, EndKeeps
<1>9. CASE ~ OldKeyLeft(s)
  <2>1. work' = [work EXCEPT ![s] = work[s]] /\ at' = [at EXCEPT ![s] = "revoke"]
    BY <1>1, <1>2, <1>9 DEF TypeOK, Goes
  <2>2. at'[s] = "revoke" /\ work'[s] = work[s]
    BY <1>1, <2>1 DEF TypeOK
  <2>3. GoesOn(s, "revoke", work[s])
    BY <1>1, <2>1 DEF GoesOn, Pcs, Running
  <2>4. ReadOnce(s)' /\ KnowsLogin(s)'
    BY <1>1, <1>5, <1>6, <2>2, SameReads DEF Running
  <2>5. OwnKey(s)' /\ FreshKey(s)' /\ OldKey(s)'
    BY <1>1, <1>5, <2>2 DEF OwnKey, FreshKey, OldKey, Call, Running, Issued
  <2>6. /\ ~ work[s].stuck
        /\ \A f \in Others(s) : ~ Holds(file'[f], work[s].prev)
    BY <1>9 DEF OldKeyLeft
  <2>7. \A f \in work[s].files : Names(file'[f].ours, work[s].prev)
                                 => <<f, work[s].prev>> \in late'
    <3>1. work[s].files \subseteq Files /\ work[s].files \cap moved = {}
      BY <1>1, Bounds DEF Work, Others
    <3> QED
      BY <1>1, <1>4, <1>6, <2>6, <3>1 DEF Call, Searched, OnlyGrows
  <2>8. \A f \in Files \ work[s].files : ~ Holds(file'[f], work[s].prev)
    <3> SUFFICES ASSUME NEW f \in Files \ work[s].files, f \notin Others(s)
                 PROVE  ~ Holds(file'[f], work[s].prev)
      BY <2>6
    <3>1. file'[f] = file[f]
      BY <1>4
    <3>2. CASE f \in UNION Agents
      BY <3>1, <3>2 DEF Others
    <3>3. CASE f \notin UNION Agents
      BY <1>1, <3>1, <3>3, HoldsIs DEF OnlyAgents, Names
    <3> QED
      BY <3>2, <3>3
  <2>9. Searched(s)'
    BY <2>2, <2>6, <2>7, <2>8 DEF Searched
  <2> QED
    BY <1>4, <1>5, <1>6, <1>7, <2>3, <2>4, <2>5, <2>9, StepKeeps DEF Call
<1> QED
  BY <1>8, <1>9

\* What is revoked was searched for.
LEMMA RevokeKeeps ==
  ASSUME IInv, NEW s \in Setups, Revoke(s)
  PROVE  IInv'
<1>1. /\ TypeOK /\ NoLockOut /\ at[s] = "revoke" /\ work[s] \in Work /\ Running(s)
      /\ Call(s) /\ work[s].prev \in Keys /\ revoked \subseteq replaced
      /\ UNCHANGED <<machine, owner, file, crossed, replaced, late, faults, begun>>
      /\ work[s].files \subseteq Files
  BY Runs, Bounds DEF IInv, Revoke, TypeOK, Work
<1>2. PICK k : k = work[s].prev
  OBVIOUS
<1>3. PICK copies : copies = {f \in work[s].files : /\ file[f].alias # None
                                                     /\ file[f].alias.key = k}
  OBVIOUS
<1>4. /\ Ends(s)
      /\ \/ /\ active' = active \ {k} /\ revoked' = revoked \cup {k}
            /\ unchecked' = unchecked \cup copies \X {k}
         \/ UNCHANGED <<active, revoked, unchecked>>
  BY <1>2, <1>3 DEF Revoke
<1>5. k \in replaced /\ k \in Keys
  BY <1>1, <1>2, Bounds DEF Call, OldKey
<1>6. UNCHANGED <<login, cache, readable>>
  BY <1>1 DEF machine
<1>7. OnlyGrows /\ FileEffect /\ CacheEffect(s)
  BY <1>1, <1>4, <1>6, FilesStay DEF OnlyGrows, CacheEffect
<1>8. SharedTypes'
  <2>1. copies \subseteq Files
    BY <1>1, <1>3
  <2> QED
    BY <1>1, <1>4, <1>5, <1>6, <2>1 DEF TypeOK, SharedTypes
<1>9. NoLockOut' /\ revoked' \subseteq replaced'
  <2>1. revoked' \subseteq replaced'
    BY <1>1, <1>4, <1>5
  <2>2. ASSUME NEW f \in Files, NEW l \in revoked', Holds(file[f], l)
        PROVE  <<f, l>> \in late \cup unchecked'
    <3>1. CASE l \in revoked
      BY <1>1, <1>7, <2>2, <3>1 DEF NoLockOut, OnlyGrows
    <3>2. CASE l \notin revoked
      <4>1. l = k /\ unchecked' = unchecked \cup copies \X {k}
        BY <1>4, <2>2, <3>2
      <4>2. Names(file[f].ours, k) \/ Names(file[f].alias, k)
        BY <2>2, <4>1, HoldsIs
      <4>3. CASE f \in work[s].files
        BY <1>1, <1>2, <1>3, <4>1, <4>2, <4>3 DEF Call, Searched, Names
      <4>4. CASE f \notin work[s].files
        BY <1>1, <1>2, <2>2, <4>1, <4>4 DEF Call, Searched
      <4> QED
        BY <4>3, <4>4
    <3> QED
      BY <3>1, <3>2
  <2> QED
    BY <1>1, <2>1, <2>2 DEF NoLockOut
<1>10. GoesOn(s, "idle", None)
  BY <1>4 DEF Ends, Goes, GoesOn, Pcs
<1>11. at'[s] = "idle" /\ work'[s] = None
  BY <1>1, <1>4 DEF Ends, Goes, TypeOK
<1> QED
  BY <1>6, <1>7, <1>8, <1>9, <1>10, <1>11, Resting, StepKeeps

\* A setup ends with the old key active, or dies.
LEMMA StopKeeps ==
  ASSUME IInv, NEW s \in Setups, RevokeFails(s) \/ Crash(s)
  PROVE  IInv'
<1>1. /\ TypeOK /\ Ends(s) /\ Disturb
      /\ UNCHANGED <<machine, server, file, history, begun>>
  BY DEF IInv, RevokeFails, Crash
<1>2. UNCHANGED <<owner, login, cache, file, crossed, replaced, late, unchecked,
                revoked>>
  BY <1>1 DEF machine, server, history
<1>3. SharedTypes'
  BY <1>1, <1>2, Counts DEF TypeOK, SharedTypes, machine, server
<1> QED
  BY <1>1, <1>2, <1>3, OwnOnly, EndKeeps
-----------------------------------------------------------------------------
(* The steps that know nothing of keys.                                    *)

\* Setups without a key, and removal.
LEMMA PlainKeeps ==
  ASSUME IInv, NEW s \in Setups, Plain(s) \/ Remove(s)
  PROVE  IInv'
<1>1. /\ TypeOK /\ UNCHANGED <<machine, server, setup, history>> /\ Begins
      /\ replaced \subseteq Keys
  BY DEF IInv, Plain, Remove, TypeOK
<1>2. /\ UNCHANGED <<owner, login, cache, crossed, replaced, late, unchecked, revoked>>
      /\ UNCHANGED <<active, readable, at, work>>
  BY <1>1 DEF machine, server, history, setup
<1>3. /\ file' \in [Files -> File] /\ FileEffect /\ (Disturb \/ UNCHANGED faults)
  <2>1. CASE Plain(s)
    <3>1. PICK fs \in Agents, kind \in {"stdio", "local"} :
          \E failed, unread \in SUBSET fs :
            /\ FaultyFiles(fs, failed, unread)
            /\ Writes(fs, failed, unread, kind, None, kind = "stdio")
      BY <2>1, Zenon DEF Plain
    <3>2. PICK failed \in SUBSET fs, unread \in SUBSET fs :
            /\ FaultyFiles(fs, failed, unread)
            /\ Writes(fs, failed, unread, kind, None, kind = "stdio")
      BY <3>1, Zenon
    <3>3. kind \in Kinds /\ (kind = "stdio") \in BOOLEAN /\ None \notin replaced
      BY <1>1, Bounds DEF Kinds
    <3>4. file' \in [Files -> File] /\ FileEffect
      BY <3>2, <3>3, WriteEffect, Zenon
    <3> QED
      BY <3>2, <3>4, FaultyCount, Zenon
  <2>2. CASE Remove(s)
    <3>1. \E fs \in Agents : \E failed \in SUBSET fs :
            /\ FaultyFiles(fs, failed, {})
            /\ file' = [f \in Files |->
                         IF f \in fs \ failed THEN Unconfigured(f) ELSE file[f]]
      BY <2>2, Zenon DEF Remove
    <3> PICK fs, failed :
            /\ FaultyFiles(fs, failed, {})
            /\ file' = [f \in Files |->
                         IF f \in fs \ failed THEN Unconfigured(f) ELSE file[f]]
      BY <3>1, Zenon
    <3>2. ASSUME NEW f \in Files
          PROVE  /\ file'[f] \in File
                 /\ file'[f].ours \in {None, file[f].ours}
                 /\ file'[f].alias = file[f].alias
      <4>1. PICK old : old = file[f]
        OBVIOUS
      <4>2. old \in File /\ file'[f] \in {old, WithoutOurs(old)}
        BY <1>1, <4>1 DEF TypeOK, Unconfigured
      <4>3. PICK new : new = file'[f]
        OBVIOUS
      <4>4. new \in File /\ new.ours \in {None, old.ours} /\ new.alias = old.alias
        BY <4>2, <4>3 DEF WithoutOurs, File
      <4> QED
        BY <4>1, <4>3, <4>4
    <3>3. FileEffect
      BY <1>1, <3>2, HoldsIs DEF FileEffect, Names, IInv, OnlyAgents
    <3>4. file' \in [Files -> File]
      <4>1. DOMAIN file' = Files /\ file' = [f \in DOMAIN file' |-> file'[f]]
        BY Zenon
      <4> QED
        BY <3>2, <4>1
    <3> QED
      BY <3>3, <3>4, FaultyCount, Zenon
  <2> QED
    BY <2>1, <2>2
<1>4. SharedTypes'
  BY <1>1, <1>2, <1>3, Counts DEF TypeOK, SharedTypes
<1>5. \A t \in Setups : Alike(t)
  BY <1>2 DEF Alike, Running
<1>6. OnlyGrows
  BY <1>2 DEF OnlyGrows
<1> QED
  BY <1>1, <1>2, <1>3, <1>4, <1>5, <1>6, AllAlike DEF TypeOK

\* A change of the login tells a setup nothing but that it is not steady.
LEMMA SignsInIs ==
  ASSUME IInv, NEW a \in Accounts \cup {None}, SignsIn(a)
  PROVE  /\ login' = a /\ work' \in [Setups -> Work \cup {None}]
         /\ \A t \in Setups : at'[t] = at[t] => Alike(t)
         /\ \A t \in Setups : work[t] = None => work'[t] = None
<1>1. TypeOK /\ login' = a
  BY DEF IInv, SignsIn
<1>2. ASSUME NEW t \in Setups
      PROVE  /\ work'[t] \in Work \cup {None} /\ (at'[t] = at[t] => Alike(t))
             /\ work[t] = None => work'[t] = None
  <2>1. PICK old, new : old = work[t] /\ new = work'[t]
    OBVIOUS
  <2>2. old \in Work \cup {None}
    BY <1>1, <2>1 DEF TypeOK
  <2>3. new = IF old = None \/ login = a THEN old ELSE [old EXCEPT !.steady = FALSE]
    BY <2>1 DEF SignsIn
  <2>4. CASE old = None \/ login = a
    BY <1>1, <2>1, <2>2, <2>3, <2>4 DEF Alike, Running
  <2>5. CASE old # None /\ login # a
    <3>1. /\ new \in Work /\ new.cached = old.cached /\ new.sub = old.sub
          /\ new.signed = old.signed /\ new.key = old.key /\ new.prev = old.prev
          /\ new.files = old.files /\ new.stuck = old.stuck /\ new.steady = FALSE
      BY <2>2, <2>3, <2>5 DEF Work
    <3> QED
      BY <2>1, <2>5, <3>1, Bounds DEF Alike, Running
  <2> QED
    BY <2>4, <2>5
<1>3. DOMAIN work' = Setups /\ work' = [t \in DOMAIN work' |-> work'[t]]
  BY Zenon DEF SignsIn
<1>4. work' \in [Setups -> Work \cup {None}]
  BY <1>2, <1>3
<1> QED
  BY <1>1, <1>2, <1>4

\* An enrollment changes the login and goes on to pin.
LEMMA EnrollsKeeps ==
  ASSUME IInv, NEW s \in Setups, Enrolls(s)
  PROVE  IInv'
<1>1. PICK a \in Accounts :
        /\ IF a = login THEN UNCHANGED faults ELSE Disturb
        /\ SignsIn(a)
        /\ Goes(s, "pin")
        /\ UNCHANGED <<server, cache, readable, file, history>>
  BY DEF Enrolls
<1>2. /\ TypeOK /\ at[s] = "idle" /\ Begins /\ work[s] = None
      /\ Disturb \/ UNCHANGED faults
  BY <1>1 DEF IInv, TypeOK, Enrolls
<1>3. /\ login' = a /\ work' \in [Setups -> Work \cup {None}]
      /\ \A t \in Setups : at'[t] = at[t] => Alike(t)
      /\ \A t \in Setups : work[t] = None => work'[t] = None
  BY <1>1, SignsInIs
<1>4. /\ UNCHANGED <<owner, cache, file, crossed, replaced, late, unchecked>>
      /\ UNCHANGED <<active, readable, revoked>>
  BY <1>1 DEF server, history
<1>5. /\ at' \in [Setups -> Pcs] /\ at'[s] = "pin"
      /\ \A t \in Setups : t # s => at'[t] = at[t]
  BY <1>1, <1>2 DEF Goes, TypeOK, Pcs
<1>6. SharedTypes'
  BY <1>2, <1>4, Counts DEF TypeOK, SharedTypes
<1>7. \A t \in Setups : Alike(t) \/ (at'[t] \in {"idle", "pin"} /\ work'[t] = None)
  BY <1>2, <1>3, <1>5
<1> QED
  BY <1>3, <1>4, <1>5, <1>6, <1>7, OwnOnly, AllAlike

\* What an enrollment pins keeps its key.
LEMMA PinsKeeps ==
  ASSUME IInv, NEW s \in Setups, Pins(s)
  PROVE  IInv'
<1>1. PICK skipped \in SUBSET Pinnable :
        /\ IF skipped = {} THEN UNCHANGED faults ELSE Disturb
        /\ file' = [f \in Files |->
                     IF f \in Pinnable \ skipped
                     THEN [file[f] EXCEPT !.ours.kind = "pinned"] ELSE file[f]]
  BY Zenon DEF Pins
<1>2. /\ TypeOK /\ at[s] = "pin" /\ work[s] = None /\ Goes(s, "idle")
      /\ UNCHANGED <<machine, server, work, history, begun>>
  BY DEF IInv, TypeOK, Pins
<1>3. /\ UNCHANGED <<owner, cache, crossed, replaced, late, unchecked, login>>
      /\ UNCHANGED <<active, readable, revoked>>
  BY <1>2 DEF machine, server, history
<1>4. ASSUME NEW f \in Files
      PROVE  /\ file'[f] \in File /\ file'[f].alias = file[f].alias
             /\ file'[f].ours = None <=> file[f].ours = None
             /\ file[f].ours # None => file'[f].ours.key = file[f].ours.key
  <2>1. PICK old : old = file[f]
    OBVIOUS
  <2>2. old \in File
    BY <1>2, <2>1 DEF TypeOK
  <2>3. CASE f \in Pinnable \ skipped
    <3>1. old.ours \in Entry
      BY <2>1, <2>2, <2>3 DEF Pinnable, File
    <3>2. PICK entry : entry = [old.ours EXCEPT !.kind = "pinned"]
      OBVIOUS
    <3>3. entry \in Entry /\ entry.key = old.ours.key
      BY <3>1, <3>2 DEF Entry, Kinds
    <3>4. PICK new : new = file'[f]
      OBVIOUS
    <3>5. new = [old EXCEPT !.ours = entry]
      BY <1>1, <2>1, <2>3, <3>2, <3>4
    <3>6. new \in File /\ new.ours = entry /\ new.alias = old.alias
      BY <2>2, <3>3, <3>5 DEF File
    <3> QED
      BY <2>1, <3>1, <3>3, <3>4, <3>6, Bounds
  <2>4. CASE f \notin Pinnable \ skipped
    BY <1>1, <2>1, <2>2, <2>4
  <2> QED
    BY <2>3, <2>4
<1>5. file' \in [Files -> File]
  <2>1. DOMAIN file' = Files /\ file' = [f \in DOMAIN file' |-> file'[f]]
    BY <1>1, Zenon
  <2> QED
    BY <1>4, <2>1
<1>6. FileEffect
  BY <1>4, HoldsIs DEF FileEffect, Names, IInv, OnlyAgents
<1>7. /\ at' \in [Setups -> Pcs] /\ at'[s] = "idle"
      /\ \A t \in Setups : t # s => at'[t] = at[t]
  BY <1>2 DEF Goes, TypeOK, Pcs
<1>8. SharedTypes'
  <2>1. Disturb \/ UNCHANGED faults
    BY <1>1
  <2> QED
    BY <1>2, <1>3, <1>5, <2>1, Counts DEF TypeOK, SharedTypes
<1>9. \A t \in Setups : Alike(t) \/ (at'[t] \in {"idle", "pin"} /\ work'[t] = None)
  BY <1>2, <1>3, <1>7 DEF Alike, Running
<1>10. OnlyGrows
  BY <1>3 DEF OnlyGrows
<1> QED
  BY <1>2, <1>3, <1>6, <1>7, <1>8, <1>9, <1>10, AllAlike DEF TypeOK
-----------------------------------------------------------------------------
(* The steps of the environment.                                           *)

\* A sign-in or a sign-out.
LEMMA LoginChangesKeeps ==
  ASSUME IInv, LoginChanges
  PROVE  IInv'
<1>1. PICK a \in Accounts \cup {None} :
        /\ Disturb /\ SignsIn(a)
        /\ UNCHANGED <<server, cache, readable, file, at, history, begun>>
  BY DEF LoginChanges
<1>2. /\ TypeOK /\ at' \in [Setups -> Pcs] /\ \A t \in Setups : at'[t] = at[t]
  BY <1>1 DEF IInv, TypeOK
<1>3. /\ login' = a /\ work' \in [Setups -> Work \cup {None}]
      /\ \A t \in Setups : at'[t] = at[t] => Alike(t)
  BY <1>1, SignsInIs
<1>4. /\ UNCHANGED <<owner, cache, file, crossed, replaced, late, unchecked>>
      /\ UNCHANGED <<active, readable, revoked>>
  BY <1>1 DEF server, history
<1>5. SharedTypes'
  BY <1>1, <1>2, <1>4, Counts DEF TypeOK, SharedTypes
<1> QED
  BY <1>2, <1>3, <1>4, <1>5, OwnOnly, AllAlike

\* The cache and the account page: no setup's variable, no file.
LEMMA OutsideKeeps ==
  ASSUME IInv, CacheReads \/ UserRevokes
  PROVE  IInv'
<1>1. /\ TypeOK /\ (Disturb \/ UNCHANGED faults)
      /\ UNCHANGED <<login, cache, owner, file, setup, history, begun>>
      /\ readable' \in BOOLEAN /\ active' \subseteq Keys
  BY DEF IInv, TypeOK, CacheReads, UserRevokes, machine, server
<1>2. UNCHANGED <<crossed, replaced, late, unchecked, revoked, at, work>>
  BY <1>1 DEF history, setup
<1>3. SharedTypes'
  BY <1>1, <1>2, Counts DEF TypeOK, SharedTypes
<1>4. \A t \in Setups : Alike(t)
  BY <1>1, <1>2 DEF Alike, Running
<1> QED
  BY <1>1, <1>2, <1>3, <1>4, OwnOnly, AllAlike DEF TypeOK

\* What the user does to a file puts no key into it.
LEMMA UserKeeps ==
  ASSUME IInv, Renames \/ Breaks
  PROVE  IInv'
<1>1. /\ TypeOK /\ OnlyAgents /\ (Disturb \/ UNCHANGED faults)
      /\ UNCHANGED <<machine, server, setup, history, begun>>
  BY DEF IInv, Renames, Breaks
<1>2. /\ UNCHANGED <<owner, cache, crossed, replaced, late, unchecked, login>>
      /\ UNCHANGED <<active, readable, revoked, at, work>>
  BY <1>1 DEF machine, server, history, setup
<1>3. PICK f \in Files, new \in File :
        /\ file' = [file EXCEPT ![f] = new]
        /\ \/ new.ours = None /\ new.alias = file[f].ours /\ file[f].ours # None
           \/ new.ours = file[f].ours /\ new.alias = file[f].alias
  <2>1. CASE Renames
    <3>1. PICK f \in Files :
            /\ file[f].state = "ok" /\ file[f].ours # None
            /\ file' = [file EXCEPT ![f].alias = file[f].ours, ![f].ours = None]
      BY <2>1 DEF Renames
    <3>2. PICK old : old = file[f]
      OBVIOUS
    <3>3. old \in File
      BY <1>1, <3>2 DEF TypeOK
    <3> DEFINE new == [old EXCEPT !.alias = old.ours, !.ours = None]
    <3>4. new \in File /\ new.ours = None /\ new.alias = old.ours
      BY <3>3 DEF File
    <3>5. file' = [file EXCEPT ![f] = new]
      BY <1>1, <3>1, <3>2 DEF TypeOK
    <3> QED
      BY <3>1, <3>2, <3>4, <3>5, Zenon
  <2>2. CASE Breaks
    <3>1. PICK f \in Files, state \in {"ok", "broken"} :
            file' = [file EXCEPT ![f].state = state]
      BY <2>2 DEF Breaks
    <3>2. PICK old : old = file[f]
      OBVIOUS
    <3>3. old \in File
      BY <1>1, <3>2 DEF TypeOK
    <3> DEFINE new == [old EXCEPT !.state = state]
    <3>4. new \in File /\ new.ours = old.ours /\ new.alias = old.alias
      BY <3>3 DEF File
    <3>5. file' = [file EXCEPT ![f] = new]
      BY <1>1, <3>1, <3>2 DEF TypeOK
    <3> QED
      BY <3>2, <3>4, <3>5, Zenon
  <2> QED
    BY <2>1, <2>2
<1>4. /\ file' \in [Files -> File] /\ file'[f] = new
      /\ \A g \in Files : g # f => file'[g] = file[g]
  BY <1>1, <1>3 DEF TypeOK
<1>5. ASSUME NEW g \in Files
      PROVE  /\ g \notin UNION Agents => file'[g].ours = None /\ file'[g].alias = None
             /\ \A k \in replaced :
                /\ Names(file'[g].ours, k) => Names(file[g].ours, k)
                /\ Names(file'[g].alias, k) => Holds(file[g], k)
  <2>1. CASE g = f
    BY <1>1, <1>3, <1>4, <2>1, HoldsIs DEF Names, OnlyAgents
  <2>2. CASE g # f
    BY <1>1, <1>4, <2>2, HoldsIs DEF OnlyAgents
  <2> QED
    BY <2>1, <2>2
<1>6. FileEffect
  BY <1>5 DEF FileEffect
<1>7. SharedTypes'
  BY <1>1, <1>2, <1>4, Counts DEF TypeOK, SharedTypes
<1>8. \A t \in Setups : Alike(t)
  BY <1>2 DEF Alike, Running
<1>9. OnlyGrows
  BY <1>2 DEF OnlyGrows
<1> QED
  BY <1>1, <1>2, <1>6, <1>7, <1>8, <1>9, AllAlike DEF TypeOK
-----------------------------------------------------------------------------
(* The inductive invariant.                                                *)

\* A fresh project has no key anywhere.
LEMMA InvInit ==
  ASSUME Init
  PROVE  IInv
<1>1. TypeOK
  <2>1. Absent \in File /\ Shared \in File
    BY DEF Absent, Shared, File
  <2>2. file \in [Files -> File]
    BY <2>1 DEF Init
  <2> QED
    BY <2>2, Bounds DEF Init, TypeOK, Pcs
<1>2. \A f \in Files : file[f].ours = None /\ file[f].alias = None
  BY DEF Init, Absent, Shared
<1>3. \A s \in Setups : Call(s)
  BY DEF Init, Call, ReadOnce, KnowsLogin, OwnKey, FreshKey, OldKey, Searched, Running
<1> QED
  BY <1>1, <1>2, <1>3 DEF IInv, Init, CacheTruthful, OnlyAgents, NoLockOut

\* Nothing that the invariant is about changes in a stuttering step.
LEMMA StutterKeeps ==
  ASSUME IInv, UNCHANGED vars
  PROVE  IInv'
<1>1. /\ UNCHANGED <<login, cache, readable, owner, active, file, at, work>>
      /\ UNCHANGED <<crossed, replaced, revoked, late, unchecked, begun, faults>>
  BY DEF vars, machine, server, setup, history
<1>2. TypeOK /\ SharedTypes'
  BY <1>1 DEF IInv, TypeOK, SharedTypes
<1>3. \A t \in Setups : Alike(t)
  BY <1>1 DEF Alike, Running
<1> QED
  BY <1>1, <1>2, <1>3, OwnOnly, AllAlike DEF TypeOK

\* Every step keeps the invariant.
LEMMA InvNext ==
  ASSUME IInv, [Next]_vars
  PROVE  IInv'
<1>1. ASSUME NEW s \in Setups, Resolves(s)
      PROVE  IInv'
  BY <1>1, StartKeeps, ValidateKeeps, MintKeeps, NoMintKeeps, PutKeeps, PutFailsKeeps
     DEF Resolves
<1>2. ASSUME NEW s \in Setups, Configures(s)
      PROVE  IInv'
  BY <1>2, PlainKeeps, WriteKeeps, RewriteKeeps, RevokeKeeps, StopKeeps, EnrollsKeeps,
     PinsKeeps DEF Configures
<1>3. CASE Environment
  BY <1>3, LoginChangesKeeps, OutsideKeeps, UserKeeps, StopKeeps DEF Environment
<1>4. CASE UNCHANGED vars
  BY <1>4, StutterKeeps
<1> QED
  BY <1>1, <1>2, <1>3, <1>4 DEF Next

\* The invariant holds of every reachable state.
THEOREM Invariance == Spec => []IInv
<1>1. Init => IInv
  BY InvInit
<1>2. IInv /\ [Next]_vars => IInv'
  BY InvNext
<1> QED
  BY <1>1, <1>2, PTL DEF Spec

\* The variables have their types, and a setup its variables at the places where
\* the code uses them: a validation a cached key, a search an old key.
THEOREM TypeCorrect == Spec => []TypeOK
<1>1. IInv => TypeOK
  BY DEF IInv
<1> QED
  BY <1>1, Invariance, PTL

\* The cached key is never one that a setup revoked (cachedNewKey,
\* project-keys.ts:523).
THEOREM CacheStaysValid == Spec => []CacheNotRevoked
<1>1. IInv => CacheNotRevoked
  BY DEF IInv, CacheTruthful, CacheNotRevoked
<1> QED
  BY <1>1, Invariance, PTL

\* No configuration holds a key that a setup revoked, but for a late write and a
\* copy under another name in a file of the plan (setup-mcp.ts:393, 457).
THEOREM NobodyLockedOut == Spec => []NoLockOut
<1>1. IInv => NoLockOut
  BY DEF IInv
<1> QED
  BY <1>1, Invariance, PTL

\* A configuration gets a key of the account that was signed in when its setup
\* began, if the login did not change (project-keys.ts:466, 503).
THEOREM WritesOwnKey == Spec => []OwnKeyWritten
<1>1. IInv => OwnKeyWritten
  <2> SUFFICES ASSUME IInv, NEW s \in Setups, at[s] = "write", work[s].key # None,
                      work[s].key \notin crossed
               PROVE  owner[work[s].key] = work[s].signed
    BY DEF OwnKeyWritten
  <2>1. Running(s) /\ Call(s)
    BY Runs DEF IInv
  <2> QED
    BY <2>1 DEF Call, OwnKey
<1> QED
  BY <1>1, Invariance, PTL
-----------------------------------------------------------------------------
(* The entries of other servers.                                           *)

\* A file that parses keeps the entries of other servers.
Keeps(f) ==
    "other" \in file[f].rest /\ file[f].state = "ok" => "other" \in file'[f].rest

\* Every disturbance is counted.
LEMMA NoFault ==
  ASSUME TypeOK, faults' = faults
  PROVE  ~ Disturb
  BY DEF TypeOK, Disturb

\* The writers of an agent's files, when all of them can be read.
LEMMA WritesKeepOthers ==
  ASSUME IInv, NEW fs \in Agents, NEW failed \in SUBSET fs, NEW unread \in SUBSET fs,
         NEW kind \in Kinds, NEW key \in Keys \cup {None}, NEW clear \in BOOLEAN,
         FaultyFiles(fs, failed, unread), faults' = faults,
         Writes(fs, failed, unread, kind, key, clear), NEW f \in Files
  PROVE  Keeps(f)
<1>1. TypeOK /\ fs \in SUBSET Files
  BY Bounds DEF IInv
<1>2. unread = {}
  BY <1>1, NoFault DEF FaultyFiles
<1>3. Written(fs, failed, unread, key, clear)
  BY <1>1, WritesIs, Zenon
<1> QED
  BY <1>2, <1>3 DEF Written, Keeps

\* A setup without a project key.
LEMMA PlainKeepsOthers ==
  ASSUME IInv, NEW s \in Setups, Plain(s), faults' = faults, NEW f \in Files
  PROVE  Keeps(f)
<1>1. PICK fs \in Agents, kind \in {"stdio", "local"} :
      \E failed, unread \in SUBSET fs :
        /\ FaultyFiles(fs, failed, unread)
        /\ Writes(fs, failed, unread, kind, None, kind = "stdio")
  BY Zenon DEF Plain
<1>2. PICK failed \in SUBSET fs, unread \in SUBSET fs :
        /\ FaultyFiles(fs, failed, unread)
        /\ Writes(fs, failed, unread, kind, None, kind = "stdio")
  BY <1>1, Zenon
<1>3. kind \in Kinds /\ (kind = "stdio") \in BOOLEAN /\ None \in Keys \cup {None}
  BY DEF Kinds
<1> QED
  BY <1>2, <1>3, WritesKeepOthers, Zenon

\* A Cloud setup.
LEMMA WriteKeepsOthers ==
  ASSUME IInv, NEW s \in Setups, Write(s), faults' = faults, NEW f \in Files
  PROVE  Keeps(f)
<1>1. work[s] \in Work /\ at[s] = "write"
  BY Runs DEF IInv, Write
<1>2. PICK failed \in SUBSET work[s].files, unread \in SUBSET work[s].files :
        /\ FaultyFiles(work[s].files, failed, unread)
        /\ Writes(work[s].files, failed, unread, work[s].kind, work[s].key, TRUE)
  BY DEF Write
<1>3. /\ work[s].files \in Agents /\ work[s].kind \in Kinds
      /\ work[s].key \in Keys \cup {None}
  BY <1>1 DEF Work, Kinds
<1> QED
  BY <1>2, <1>3, WritesKeepOthers, Zenon

\* Removal takes the entries of ours and of older plugins only; a regenerate, an
\* enrollment and the user change an entry of ours.
LEMMA EditsKeepOthers ==
  ASSUME TypeOK, NEW f \in Files, faults' = faults,
         \/ \E s \in Setups : Remove(s) \/ Rewrite(s) \/ Pins(s)
         \/ Renames \/ Breaks
  PROVE  Keeps(f)
<1>1. PICK old, new : old = file[f] /\ new = file'[f]
  OBVIOUS
<1>2. old \in File
  BY <1>1 DEF TypeOK
<1>3. SUFFICES old.state = "ok" => new.rest \in {old.rest, old.rest \ {"deprecated"}}
  BY <1>1 DEF Keeps
<1>4. ASSUME NEW s \in Setups, Remove(s)
      PROVE  new \in {old, WithoutOurs(old)}
  <2>1. file'[f] = file[f] \/ file'[f] = Unconfigured(f)
    BY <1>4 DEF Remove
  <2> QED
    BY <1>1, <2>1 DEF Unconfigured
<1>5. ASSUME NEW s \in Setups, Rewrite(s)
      PROVE  new \in {old, [old EXCEPT !.ours.key = work[s].key]}
  BY <1>1, <1>5 DEF Rewrite
<1>6. ASSUME NEW s \in Setups, Pins(s)
      PROVE  new \in {old, [old EXCEPT !.ours.kind = "pinned"]}
  BY <1>1, <1>6 DEF Pins
<1>7. ASSUME Breaks
      PROVE  \/ new = old
             \/ \E state \in {"ok", "broken"} : new = [old EXCEPT !.state = state]
  BY <1>1, <1>7 DEF Breaks, TypeOK
<1>8. ~ Renames
  BY NoFault DEF Renames
<1> QED
  BY <1>2, <1>4, <1>5, <1>6, <1>7, <1>8 DEF File, WithoutOurs

\* Every step in which nothing goes wrong.
LEMMA OthersKeptStep ==
  ASSUME IInv, [Next]_vars, faults' = faults, NEW f \in Files
  PROVE  Keeps(f)
<1>1. TypeOK
  BY DEF IInv
<1>2. CASE UNCHANGED file
  BY <1>2 DEF Keeps
<1>3. ASSUME NEW s \in Setups, Resolves(s)
      PROVE  UNCHANGED file
  BY <1>3 DEF Resolves, Start, StartKeyless, Reuses, Rejected, Mint, NoToken,
              MintFails, Put, PutFails
<1>4. ASSUME NEW s \in Setups, Configures(s)
      PROVE  Keeps(f)
  <2>1. CASE Plain(s) \/ Write(s)
    BY <2>1, PlainKeepsOthers, WriteKeepsOthers
  <2>2. CASE Remove(s) \/ Rewrite(s) \/ Pins(s)
    BY <1>1, <2>2, EditsKeepOthers
  <2>3. CASE Revoke(s) \/ RevokeFails(s) \/ Enrolls(s)
    BY <1>2, <2>3 DEF Revoke, RevokeFails, Enrolls
  <2> QED
    BY <1>4, <2>1, <2>2, <2>3 DEF Configures
<1>5. CASE Environment
  <2>1. CASE Renames \/ Breaks
    BY <1>1, <2>1, EditsKeepOthers
  <2>2. CASE LoginChanges \/ CacheReads \/ UserRevokes \/ \E s \in Setups : Crash(s)
    BY <1>2, <2>2 DEF LoginChanges, CacheReads, UserRevokes, Crash
  <2> QED
    BY <1>5, <2>1, <2>2 DEF Environment
<1>6. CASE UNCHANGED vars
  BY <1>2, <1>6 DEF vars
<1> QED
  BY <1>2, <1>3, <1>4, <1>5, <1>6 DEF Next

\* The entries of other servers survive every setup, removal, regenerate and
\* enrollment in which nothing goes wrong (agent-config.ts:216).
THEOREM OtherServersKept == Spec => OthersKept
<1>1. IInv /\ [Next]_vars
      => [\A f \in Files :
            "other" \in file[f].rest /\ file[f].state = "ok" /\ faults' = faults
            => "other" \in file'[f].rest]_vars
  BY OthersKeptStep DEF Keeps
<1> QED
  BY <1>1, Invariance, PTL DEF Spec, OthersKept
=============================================================================
