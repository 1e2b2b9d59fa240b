----------------------------- MODULE ProjectSetup -----------------------------
(***************************************************************************)
(* The agent configurations of one project and its project key: setupMcp   *)
(* and removeMcpConfig (src/src/setup-mcp.ts), the key that they resolve   *)
(* (project-keys.ts), the files that they write (agent-config.ts,          *)
(* agents-registry.ts), and an enrollment, which pins the URLs in them     *)
(* (enroll.ts). Setups run in processes of their own and share the cached  *)
(* key, the machine's login, the configuration files and the server.       *)
(*                                                                         *)
(* Left out: which client a file belongs to, beyond the set of files that  *)
(* one client has and their format; the text of a URL, beyond whether it   *)
(* carries the pin; an explicit --token, which ends in the same file as    *)
(* --oauth does (no project key). The files are in the project: those of   *)
(* the user, which an enrollment leaves alone, are left out.               *)
(***************************************************************************)
EXTENDS FiniteSets, Naturals

CONSTANTS
    Setups,     \* the processes that run setup-mcp
    Accounts,   \* the accounts that sign in on this machine
    Nameless,   \* those whose id nothing tells: no subject, an opaque token
    Files,      \* the configuration files of the project's agents
    Toml,       \* those that the line-based TOML writer maintains
    Present,    \* those that exist, with the entries of other servers
    Agents,     \* the files of each agent: configPathsOf
    None,       \* no login, no account known, no entry, no key
    MaxSetups,  \* bound: setups and removals
    MaxKeys,    \* bound: keys minted
    MaxFaults   \* bound: failures, crashes, edits and changes of the login

VARIABLES
    login,      \* the account whose families the machine store holds
    owner,      \* the server: for whom each key was minted
    active,     \* the server: the keys that it accepts
    cache,      \* the entry of the project in project-keys.json
    readable,   \* whether that file can be read
    file,       \* the configuration files
    at,         \* what a setup does next
    work,       \* its local variables
    crossed,    \* history: the keys minted by a setup during which the login changed
    replaced,   \* history: the keys that another one displaced in the cache
    revoked,    \* history: the keys that a setup revoked
    late,       \* history: <<f, k>> when f was written with k, replaced by then
    unchecked,  \* history: <<f, k>> when f was of the plan of the setup that
                \* revoked k, and held k under another name
    begun,      \* how many setups and removals began
    faults      \* how often something went wrong

server == <<owner, active>>
machine == <<login, cache, readable>>
setup == <<at, work>>
history == <<crossed, replaced, revoked, late, unchecked>>
vars == <<machine, server, file, setup, history,
          begun, faults>>

Keys == 1 .. MaxKeys
Kinds == {"pinned", "unpinned", "local", "stdio"}
Entry == [kind : Kinds, key : Keys \cup {None}]

\* ours: the entry under the name of the server. alias: the same under a name
\* that the user gave it. rest: the entries of other servers, and those of an
\* older version of the plugin. An absent file has no entry.
File == [state : {"absent", "ok", "broken"},
         ours : Entry \cup {None}, alias : Entry \cup {None},
         rest : SUBSET {"deprecated", "other"}]
Absent == [state |-> "absent", ours |-> None, alias |-> None, rest |-> {}]
Shared == [state |-> "ok", ours |-> None, alias |-> None,
           rest |-> {"deprecated", "other"}]

Cached == [key : Keys, sub : Accounts \cup {None}]

\* sub: the account of the login as read at the start, when known. token: the
\* account of the access token. key: what the configuration gets. prev: the
\* key that a regenerate has to revoke. stuck: a file could not be moved off it.
\* steady: history, the login has not changed since the start.
Work == [regen : BOOLEAN, files : Agents, kind : {"pinned", "unpinned"},
         signed : Accounts \cup {None}, sub : Accounts \cup {None},
         cached : Cached \cup {None}, token : Accounts \cup {None},
         key : Keys \cup {None}, prev : Keys \cup {None}, stuck : BOOLEAN,
         steady : BOOLEAN]

Pcs == {"idle", "validate", "mint", "put", "write", "rewrite", "revoke",
        "pin"}

ASSUME SetupAssumption ==
    /\ Nameless \subseteq Accounts
    /\ Toml \subseteq Files /\ Present \subseteq Files
    /\ Agents \subseteq SUBSET Files
    /\ MaxSetups \in Nat /\ MaxKeys \in Nat /\ MaxFaults \in Nat
    /\ None \notin Accounts \cup Nat
    /\ None \notin Entry /\ None \notin Cached /\ None \notin Work

TypeOK ==
    /\ login \in Accounts \cup {None}
    /\ owner \in [Keys -> Accounts \cup {None}]
    /\ active \subseteq Keys
    /\ cache \in Cached \cup {None}
    /\ readable \in BOOLEAN
    /\ file \in [Files -> File]
    /\ at \in [Setups -> Pcs]
    /\ work \in [Setups -> Work \cup {None}]
    /\ \A s \in Setups :
        /\ at[s] \in {"idle", "pin"} <=> work[s] = None
        /\ at[s] = "validate" => work[s].cached # None
        /\ at[s] \in {"rewrite", "revoke"} => work[s].prev \in Keys \ {work[s].key}
    /\ crossed \subseteq Keys /\ replaced \subseteq Keys /\ revoked \subseteq Keys
    /\ late \subseteq Files \X Keys /\ unchecked \subseteq Files \X Keys
    /\ begun \in 0 .. MaxSetups /\ faults \in 0 .. MaxFaults

Init ==
    /\ login \in Accounts
    /\ owner = [k \in Keys |-> None] /\ active = {}
    /\ cache = None /\ readable = TRUE
    /\ file = [f \in Files |-> IF f \in Present THEN Shared ELSE Absent]
    /\ at = [s \in Setups |-> "idle"] /\ work = [s \in Setups |-> None]
    /\ crossed = {} /\ replaced = {} /\ revoked = {}
    /\ late = {} /\ unchecked = {} /\ begun = 0 /\ faults = 0

Begins == begun < MaxSetups /\ begun' = begun + 1
Disturb == faults < MaxFaults /\ faults' = faults + 1
Goes(s, place) == at' = [at EXCEPT ![s] = place]
Ends(s) == Goes(s, "idle") /\ work' = [work EXCEPT ![s] = None]
-----------------------------------------------------------------------------
(* The writers of the configuration files.                                 *)

Holds(content, k) == \E e \in {content.ours, content.alias} : e # None /\ e.key = k

\* findDuplicateServerEntryKeys: an entry with the url or command of ours. (One
\* that calls its URL serverUrl is never recognised; such clients are left out.)
IsTwin(e, kind) == e # None /\ e.kind = kind

\* The entry that configure leaves behind: the header of the old entry stays
\* unless a new one is set or the plan removes it.
Merged(old, kind, key, clear) ==
    [kind |-> kind,
     key |-> IF key # None \/ clear \/ old = None THEN key ELSE old.key]

Fresh(kind, key) == [state |-> "ok", ours |-> [kind |-> kind, key |-> key],
                     alias |-> None, rest |-> {}]

\* Into a file with other entries: twins and deprecated entries go.
Spliced(old, kind, key, clear) ==
    [old EXCEPT !.ours = Merged(old.ours, kind, key, clear),
                !.alias = IF IsTwin(old.alias, kind) THEN None ELSE @,
                !.rest = @ \ {"deprecated"}]

\* JsonAiAgentConfig.configure. A file that does not parse, or cannot be read
\* now, is written anew.
JsonConfigured(old, kind, key, clear, unread) ==
    IF old.state # "ok" \/ unread THEN Fresh(kind, key) ELSE Spliced(old, kind, key, clear)

\* TomlAiAgentConfig.configure works on lines, which always parse.
TomlConfigured(old, kind, key, clear) ==
    IF old.state = "absent" THEN Fresh(kind, key) ELSE Spliced(old, kind, key, clear)

Configured(f, kind, key, clear, unread) ==
    IF f \in Toml THEN TomlConfigured(file[f], kind, key, clear)
                  ELSE JsonConfigured(file[f], kind, key, clear, unread)

UnconfiguredWhole(f) ==
    IF file[f].state = "ok" THEN [file[f] EXCEPT !.ours = None, !.rest = {}]
    ELSE file[f]

\* The writer that removes has no URL to know a twin by.
WithoutOurs(old) == [old EXCEPT !.ours = None, !.rest = @ \ {"deprecated"}]

\* unconfigure, which leaves a file alone that does not parse.
Unconfigured(f) == IF file[f].state = "ok" THEN WithoutOurs(file[f]) ELSE file[f]

\* The files of the plan, all of them but the ones that fail. unread: the ones
\* that cannot be read now.
Writes(fs, failed, unread, kind, key, clear) ==
    file' = [f \in Files |->
               IF f \in fs \ failed
               THEN Configured(f, kind, key, clear, f \in unread) ELSE file[f]]

\* At most one file of the plan fails or cannot be read.
FaultyFiles(fs, failed, unread) ==
    \/ failed = {} /\ unread = {} /\ UNCHANGED faults
    \/ Disturb /\ (\/ failed \in {{f} : f \in fs} /\ unread = {}
                   \/ unread \in {{f} : f \in fs \ Toml} /\ failed = {})

-----------------------------------------------------------------------------
(* Setups without a project key, and removal: one synchronous call each.   *)

\* The transport is stdio, which takes no header, or the server a local one,
\* which leaves the header alone.
Plain(s) == at[s] = "idle" /\ Begins /\
  \E fs \in Agents, kind \in {"stdio", "local"} : \E failed, unread \in SUBSET fs :
    /\ FaultyFiles(fs, failed, unread)
    /\ Writes(fs, failed, unread, kind, None, kind = "stdio")
    /\ UNCHANGED <<machine, server, setup, history>>

\* removeMcpConfig: every file of the agent that exists and can be written.
Remove(s) == at[s] = "idle" /\ Begins /\ \E fs \in Agents : \E failed \in SUBSET fs :
    /\ FaultyFiles(fs, failed, {})
    /\ file' = [f \in Files |-> IF f \in fs \ failed THEN Unconfigured(f) ELSE file[f]]
    /\ UNCHANGED <<machine, server, setup, history>>
-----------------------------------------------------------------------------
(* A Cloud setup: resolve the project key, then write the configuration.   *)

Visible == IF readable THEN cache ELSE None

Plan(fs, kind, regen, sub, cached) ==
    [regen |-> regen, files |-> fs, kind |-> kind, signed |-> login, sub |-> sub,
     cached |-> cached, token |-> None, key |-> None, prev |-> None,
     stuck |-> FALSE, steady |-> TRUE]

\* currentLogin, which may not know the account.
Sub == IF login \in Nameless THEN None ELSE login

Anyones == Visible # None

\* Whether the cached key is of the account that is signed in.
Mine == Visible # None /\ Sub # None /\ Visible.sub = Sub

Start(s) == at[s] = "idle" /\ login # None /\ Begins /\
  \E fs \in Agents, kind \in {"pinned", "unpinned"}, regen \in BOOLEAN :
    /\ work' = [work EXCEPT ![s] = Plan(fs, kind, regen, Sub, Visible)]
    /\ Goes(s, IF ~regen /\ Mine THEN "validate" ELSE "mint")
    /\ UNCHANGED <<machine, server, file, history, faults>>

\* --oauth, or nobody is signed in: the configuration gets no key.
StartKeyless(s) == at[s] = "idle" /\ Begins /\
  \E fs \in Agents, kind \in {"pinned", "unpinned"} :
    /\ work' = [work EXCEPT ![s] = Plan(fs, kind, FALSE, None, None)]
    /\ Goes(s, "write")
    /\ UNCHANGED <<machine, server, file, history, faults>>

\* The server accepts the cached key, or gives no answer that says otherwise.
Reuses(s) ==
    /\ at[s] = "validate"
    /\ IF work[s].cached.key \in active THEN UNCHANGED faults ELSE Disturb
    /\ Goes(s, "write")
    /\ work' = [work EXCEPT ![s].key = work[s].cached.key]
    /\ UNCHANGED <<machine, server, file, history, begun>>

Rejected(s) ==
    /\ at[s] = "validate" /\ work[s].cached.key \notin active
    /\ Goes(s, "mint")
    /\ UNCHANGED <<machine, server, file, work, history, faults, begun>>

\* Without a key, a setup writes a config that is URL-only; a regenerate fails.
NoKey(s) ==
    IF work[s].regen THEN Ends(s)
    ELSE Goes(s, "write") /\ UNCHANGED work

Unused == {k \in Keys : owner[k] = None}
NextKey == CHOOSE k \in Unused : \A l \in Unused : k <= l

\* The server mints the next key for the account of the access token, which is
\* the one that is signed in by now.
Issues(s) ==
    /\ Unused # {} /\ login # None
    /\ owner' = [owner EXCEPT ![NextKey] = login]
    /\ active' = active \cup {NextKey}
    /\ crossed' = IF work[s].steady THEN crossed ELSE crossed \cup {NextKey}

\* getAccessToken and mint. After a 401 the token is refreshed and the mint
\* tried again, once: this is the last try.
Mint(s) ==
    /\ at[s] = "mint"
    /\ Issues(s)
    /\ Goes(s, "put")
    /\ work' = [work EXCEPT ![s].key = NextKey, ![s].token = login]
    /\ UNCHANGED <<machine, file, replaced, revoked, late, unchecked, faults, begun>>

\* Nobody is signed in by now.
NoToken(s) ==
    /\ at[s] = "mint" /\ login = None
    /\ NoKey(s)
    /\ UNCHANGED <<machine, server, file, history, faults, begun>>

\* There is no token, the mint is refused, or its answer is lost.
MintFails(s) ==
    /\ at[s] = "mint" /\ login # None
    /\ Disturb
    /\ Issues(s) \/ UNCHANGED <<server, crossed>>
    /\ NoKey(s)
    /\ UNCHANGED <<machine, file, replaced, revoked, late, unchecked, begun>>

\* The key that this regenerate displaced, if it is the account's to revoke.
Previous(s) ==
    IF /\ work[s].regen /\ work[s].cached # None
       /\ work[s].sub # None /\ work[s].cached.sub = work[s].sub
    THEN work[s].cached.key ELSE None

\* No known field of the old entry is inherited.
NewEntry(s) == [key |-> work[s].key, sub |-> work[s].sub]

Put(s) ==
    /\ at[s] = "put" /\ readable
    /\ cache' = NewEntry(s)
    /\ replaced' = IF cache = None THEN replaced ELSE replaced \cup {cache.key}
    /\ Goes(s, "write")
    /\ work' = [work EXCEPT ![s].prev = Previous(s)]
    /\ UNCHANGED <<login, server, readable, file, crossed, revoked, late,
                   unchecked, faults, begun>>

PutFailsUnnoticed(s) ==
    /\ at[s] = "put"
    /\ IF readable THEN Disturb ELSE UNCHANGED faults
    /\ Goes(s, "write")
    /\ work' = [work EXCEPT ![s].prev = Previous(s)]
    /\ UNCHANGED <<machine, server, file, history, begun>>

\* The store is busy or the cache unreadable: the cache still names the old key.
PutFails(s) ==
    /\ at[s] = "put"
    /\ IF readable THEN Disturb ELSE UNCHANGED faults
    /\ Goes(s, "write")
    /\ UNCHANGED <<machine, server, file, work, history, begun>>

\* The plan is written to all of its files. A regenerate goes on.
Write(s) == at[s] = "write" /\ \E failed, unread \in SUBSET work[s].files :
    /\ FaultyFiles(work[s].files, failed, unread)
    /\ Writes(work[s].files, failed, unread, work[s].kind, work[s].key, TRUE)
    /\ late' = late \cup (work[s].files \ failed) \X ({work[s].key} \cap replaced)
    /\ IF work[s].prev = None THEN Ends(s)
       ELSE /\ Goes(s, "rewrite")
            /\ work' = [work EXCEPT ![s].stuck = failed # {}]
    /\ UNCHANGED <<machine, server, crossed, replaced, revoked, unchecked, begun>>

\* readServerEntry
ServerEntry(f) == IF file[f].state = "ok" THEN file[f].ours ELSE None

\* rewritePreviousProjectKey: only an entry of ours, pinned to this project, is
\* moved to the new key.
Movable(f, k) ==
    LET e == ServerEntry(f)
    IN  e # None /\ e.key = k /\ e.kind \in {"pinned", "local"}

OthersMovable(s) == {f \in UNION Agents : f \notin work[s].files /\ Movable(f, work[s].prev)}

\* The other files of the project's agents. A file that cannot be read counts
\* as one that holds the old key.
Others(s) == {f \in UNION Agents : f \notin work[s].files /\ Holds(file[f], work[s].prev)}

\* The old key stays active: a file of the plan was not written, or another one
\* has it still.
OldKeyLeft(s) == work[s].stuck \/ \E f \in Others(s) : Holds(file'[f], work[s].prev)

Rewrite(s) == at[s] = "rewrite" /\ \E failed \in SUBSET Others(s) :
    /\ \/ failed = {} /\ UNCHANGED faults
       \/ Cardinality(failed) = 1 /\ Disturb
    /\ LET moved == {f \in Others(s) \ failed : Movable(f, work[s].prev)}
       IN  /\ file' = [f \in Files |->
                        IF f \in moved THEN [file[f] EXCEPT !.ours.key = work[s].key]
                                       ELSE file[f]]
           /\ late' = late \cup moved \X ({work[s].key} \cap replaced)
    /\ IF OldKeyLeft(s) THEN Ends(s) ELSE Goes(s, "revoke") /\ UNCHANGED work
    /\ UNCHANGED <<machine, server, crossed, replaced, revoked, unchecked, begun>>

\* With the token of the mint. The server knows only the keys of its account,
\* and an unknown key counts as revoked.
Revoke(s) ==
    /\ at[s] = "revoke"
    /\ IF owner[work[s].prev] = work[s].token
       THEN /\ active' = active \ {work[s].prev}
            /\ revoked' = revoked \cup {work[s].prev}
            /\ unchecked' = unchecked \cup
                   {f \in work[s].files : file[f].alias # None
                                          /\ file[f].alias.key = work[s].prev}
                   \X {work[s].prev}
       ELSE UNCHANGED <<active, revoked, unchecked>>
    /\ Ends(s)
    /\ UNCHANGED <<machine, owner, file, crossed, replaced, late, faults, begun>>

RevokeFails(s) ==
    /\ at[s] = "revoke"
    /\ Disturb
    /\ Ends(s)
    /\ UNCHANGED <<machine, server, file, history, begun>>
-----------------------------------------------------------------------------
(* Enrollment: an agent's one-time code signs the machine in.              *)

SignsIn(a) ==
    /\ login' = a
    /\ work' = [s \in Setups |-> IF work[s] = None \/ login = a THEN work[s]
                                 ELSE [work[s] EXCEPT !.steady = FALSE]]

\* The code is redeemed and its family committed, as in LoginCommit.
Enrolls(s) == at[s] = "idle" /\ Begins /\ \E a \in Accounts :
    /\ IF a = login THEN UNCHANGED faults ELSE Disturb
    /\ SignsIn(a)
    /\ Goes(s, "pin")
    /\ UNCHANGED <<server, cache, readable, file, history>>

\* The files that the upsert rewrites: JSON that parses, with a URL of ours that
\* has no pin.
Pinnable == {f \in Files \ Toml : /\ file[f].state = "ok" /\ file[f].ours # None
                                 /\ file[f].ours.kind = "unpinned"}

\* upsertProjectPinIntoConfigs: a file that cannot be read is skipped; one that
\* cannot be written ends it, with others left as they were.
Pins(s) == at[s] = "pin" /\ \E skipped \in SUBSET Pinnable :
    /\ IF skipped = {} THEN UNCHANGED faults ELSE Disturb
    /\ file' = [f \in Files |-> IF f \in Pinnable \ skipped
                                THEN [file[f] EXCEPT !.ours.kind = "pinned"] ELSE file[f]]
    /\ Goes(s, "idle")
    /\ UNCHANGED <<machine, server, work, history, begun>>
-----------------------------------------------------------------------------
(* The environment.                                                        *)

\* A sign-in with another account, or a sign-out.
LoginChanges == \E a \in (Accounts \cup {None}) \ {login} :
    /\ Disturb
    /\ SignsIn(a)
    /\ UNCHANGED <<server, cache, readable, file, at, history, begun>>

\* The cache cannot be decrypted, or can again.
CacheReads == \E r \in BOOLEAN \ {readable} :
    /\ IF r THEN UNCHANGED faults ELSE Disturb
    /\ readable' = r
    /\ UNCHANGED <<login, cache, server, file, setup, history, begun>>

\* The account page.
UserRevokes == \E k \in active :
    /\ Disturb
    /\ active' = active \ {k}
    /\ UNCHANGED <<machine, owner, file, setup, history, begun>>

\* The user names our entry otherwise.
Renames == \E f \in Files :
    /\ file[f].state = "ok" /\ file[f].ours # None
    /\ Disturb
    /\ file' = [file EXCEPT ![f].alias = file[f].ours, ![f].ours = None]
    /\ UNCHANGED <<machine, server, setup, history, begun>>

\* The user leaves a JSON file that does not parse, or repairs it.
Breaks == \E f \in Files \ Toml : \E state \in {"ok", "broken"} \ {file[f].state} :
    /\ file[f].state # "absent"
    /\ IF state = "ok" THEN UNCHANGED faults ELSE Disturb
    /\ file' = [file EXCEPT ![f].state = state]
    /\ UNCHANGED <<machine, server, setup, history, begun>>

\* A setup dies at an await.
Crash(s) ==
    /\ at[s] # "idle"
    /\ Disturb
    /\ Ends(s)
    /\ UNCHANGED <<machine, server, file, history, begun>>

Environment ==
    \/ LoginChanges \/ CacheReads \/ UserRevokes \/ Renames \/ Breaks
    \/ \E s \in Setups : Crash(s)
-----------------------------------------------------------------------------
Resolves(s) ==
    \/ Start(s) \/ StartKeyless(s) \/ Reuses(s) \/ Rejected(s)
    \/ Mint(s) \/ NoToken(s) \/ MintFails(s) \/ Put(s) \/ PutFails(s)
Configures(s) ==
    \/ Plain(s) \/ Remove(s) \/ Write(s) \/ Rewrite(s) \/ Revoke(s)
    \/ RevokeFails(s) \/ Enrolls(s) \/ Pins(s)

Next == (\E s \in Setups : Resolves(s) \/ Configures(s)) \/ Environment

Spec == Init /\ [][Next]_vars
-----------------------------------------------------------------------------
\* A regenerate revokes the old key only when the cache names another one, and
\* nothing brings the old one back: the cached key is never one that a setup
\* revoked (cachedNewKey, project-keys.ts:523).
CacheNotRevoked == cache # None => cache.key \notin revoked

\* Nobody is locked out: no configuration holds a key that a setup revoked,
\* apart from two cases that the code leaves open. The file was written with a
\* key that a peer had replaced by then; or the revoking setup's own plan wrote
\* the file, which it does not search for a copy under another name
\* (setup-mcp.ts:393, 457).
NoLockOut == \A f \in Files, k \in revoked :
    Holds(file[f], k) => <<f, k>> \in late \cup unchecked

\* A configuration gets a key of the account that was signed in when its setup
\* began, unless the login changed during the setup that minted the key, or
\* during this one: the cached account is the one the key was minted for, and
\* a key of another account is not reused (project-keys.ts:466, 503).
OwnKeyWritten == \A s \in Setups :
    at[s] = "write" /\ work[s].steady /\ work[s].key # None /\ work[s].key \notin crossed
        => owner[work[s].key] = work[s].signed

\* The entries of other servers survive every setup, removal and regenerate,
\* unless the file could not be parsed, or not be read (agent-config.ts:216).
OthersKept == [][\A f \in Files :
    "other" \in file[f].rest /\ file[f].state = "ok" /\ faults' = faults
        => "other" \in file'[f].rest]_vars
=============================================================================
