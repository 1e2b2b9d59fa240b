# A verification project for gamedev-cli-core

TLA+ models, TLC checks and TLAPS proofs of the parts of this package whose
correctness depends on the order of steps: several processes (engine CLIs, the
App, editor plugins) share one store directory, `~/.ai-game-dev`, and one
authorization server. Paths below are relative to the repository.

## Inventory

| component | state it keeps | operations | interacts with |
|---|---|---|---|
| Credential lock (`src/credential-lock.ts`) | `credentials.lock`, `credentials.lock.takeover`; per instance the bytes it wrote and the heartbeat timer | acquire, release, refresh (heartbeat), withLock, stale takeover under the intent file | peers through the two files only; used by every component that changes the store, and by the editor session with a file of its own |
| Machine credential store (`src/machine-credentials.ts`, `src/atomic-file.ts`) | `credentials.json`: families agent / plugin / legacy, subject, server, the v1 mirror | readState, write, writeFamily, rotate, delete | callers hold the lock for every write; reads are unlocked |
| Credential provider (`src/credential-provider.ts`, `src/token-refresher.ts`, `src/dead-family-memo.ts`) | per process: last attempt, dead families, client id of a lost answer; shared: the sidecar of dead tokens | getAccessToken, refresh | lock, store, authorization server |
| Atomic file replacement (`src/atomic-file.ts`) | the directory and its temporary siblings | create, write, sync, rename with retries, clean up | every store is written by it; readers, virus scanners, loss of power |
| Login commit (`src/login-commit.ts`, `src/token-exchange.ts`) | none of its own | account-switch guard, agent login (two holds around an exchange), tools-only login, derivation of the plugin family, sign-out | lock, store, server (exchange, revocation), a confirmation dialog |
| Project keys (`src/project-keys.ts`) | `project-keys.json` | get or mint, validate, regenerate, revoke the replaced key | lock, provider, server |
| Setup (`src/setup-mcp.ts`, `src/agent-config.ts`, `src/enroll.ts`) | the agents' configuration files, JSON or TOML, which other programs and the user edit too | set up, remove, regenerate, enroll (redeem, commit, pin the files) | project keys, login commit, the file system |
| Editor session (`src/editor-session.ts`, `src/process.ts`) | `session.json` (the lease), `session.lock`, the editor processes | ensure (join, start, wait), closeOwned, prepareWindowOpen | lock (with heartbeat), the operating system's processes |
| Browser and device login (`src/oauth-authcode-flow.ts`, `src/oauth-device-flow.ts`, `src/oauth-dcr.ts`) | `oauth-clients.json`, the loopback listener | discover, register, probe, authorize, poll, exchange | server, browser |
| Server download (`src/server-download.ts`, `src/server-checksum.ts`, `src/unzip.ts`) | the server's directory in a project, with the version marker | fetch, verify, unpack, replace file by file, mark | release server, other installs into the same directory |
| Engine adapters, identity, presentation | none | pure transformations and single requests | - |

What is hard in it: the processes run at once and share files without a daemon;
any of them may die between two file-system calls; a refresh token may be used
once, so that a second presentation outside a grace window of 30 s ends the
sign-in of every tool; answers get lost after the server has acted; a lock is
judged by its age; a user may leave a dialog open for an hour in the middle of
a commit. `PROJECT.json` lists these hazards at their lines.

What makes each component correct:

- store: tools of either generation find the newest token of each plane;
- lock: two live holders never, a stale artifact never for ever, "busy" only
  under contention;
- provider: no replay the fleet causes by itself, no lost rotation, a verdict
  only on a token the server refuses, a caller never gets a rejected token back;
- login commit: a document of one account only, no family left alive at the
  server that no store names, a signed-out machine stays signed out;
- project keys and setup: the cached key is not revoked, nobody is locked out
  by a regenerate, a file gets a key of the account that is signed in, entries
  of others survive;
- editor session: one editor per project, only a leased editor is closed,
  every call ends;
- logins: a code is presented by the attempt it was issued to, one outcome per
  login, a forgotten registration costs no sign-in, polls keep their distance;
- download and files: the cache serves the version it names, a store's file holds
  what one writer put into it, whatever fails in between.

## Modules

| module | models | state and actions |
|---|---|---|
| `ExclusiveSection` | the promise of `withLock`, without files | a phase per caller |
| `CredentialLock` | `credential-lock.ts` | `lock`, `intent`: the two files with creator, content and age; one action per file-system call, named for it (`OpenLock`, `WriteLock`, `VerifyLock`, `JudgeLock`, `OpenIntent`, ..., `UnlinkLock`), the failure of each call, the heartbeat, death, the passing of time |
| `LockBudget` | `CredentialLock` with a history of contention | `undisturbed`: which acquisitions had no interference |
| `CredentialLockProofs` | theorems about `CredentialLock` and `LockBudget` | |
| `AuthorizationServer` | the refresh grant of the server (external), as `test/fake-as.ts` mirrors it | operators on the row of a family: the validation ladder and its effect |
| `CredentialProvider` | `credential-provider.ts`, `token-refresher.ts`, `dead-family-memo.ts` over the store and the server | one action per stretch between two awaits: `Call`, `Enter...`, `Present`, the reactions to each answer, the write, the recheck, the prompt retry; the environment loses answers, crashes processes, signs in and out |
| `SoleClient` | the promise of all providers of a machine, without processes | what is kept, the successor under way, the losses; `Ask`, `Keep`, `Lose`, `Login`, `SignOut` |
| `CredentialProviderProofs` | theorems about `CredentialProvider` | |
| `LoginCommit` | `login-commit.ts` with `token-exchange.ts`, `writeFamily` and `delete` of the store, revocation at the server | `store` (subject and families), `live` families, per surface the place in its operation and the locals it keeps across awaits; `Commit` (mint and guard), `Confirm`, `Decline`, `RevokeStored`, the holds `HoldOne...` and `HoldTwo...`, `Exchange`, the retries, `ToolsOnlyCommitted` (a login that is done after the first hold, as an enrollment is), `SignOut`, `Delete`; exceptions, crashes and an unreadable store |
| `AccountStore` | the promise of the login commit, without guards, dialogs and exchanges | the document, whether it is legible, the consents; `SignsIn`, `Switches`, `Derives`, `SignsOut` |
| `LoginCommitProofs` | theorems about `LoginCommit` | |
| `EditorSession` | `editor-session.ts` with `process.ts` | `process`: what runs under each pid; `lease` and `lock`: the two files; per call its place and locals. `ensure` is `Enter`, `Join`, `FindsEditor`, `MayLaunch`, `Spawn`, `Record` and the waits; `closeOwned` is `CloseLease`, `Request`, `Reverify`, `Kill`, `Cleanup`; editors of the user, pid reuse, crashes, a lock taken over |
| `EditorSessionProofs` | theorems about `EditorSession` | |
| `ProjectSetup` | `setup-mcp.ts`, `project-keys.ts`, the writers of `agent-config.ts`, `enroll.ts` | `file`: per configuration file its state, our entry, a copy under another name, the entries of others; `cache`, `readable`; the server's keys. `Start`, `Reuses`, `Rejected`, `Mint`, `Put`, `Write`, `Rewrite`, `Revoke`, `Plain`, `Remove`, `Enrolls`, `Pins`, the failure of each, edits by the user |
| `ProjectSetupProofs` | theorems about `ProjectSetup` | |
| `SignIn` | `oauth-authcode-flow.ts`, `oauth-dcr.ts` | per attempt its stage, client, port, and what its listener's promise settled with; the shared registration; the server's clients. `Listens`, `Discover`, `Reuse`, `Register`, `Probe`, `Reregister`, `Open`, `WaitEnds`, `Judge`, `Exchange`, the failure of each, `Redirects`, `Cancel`, `Forgets` |
| `DeviceSignIn` | `oauth-device-flow.ts` | a clock in units of 5 s; `RequestCode`, `Wakes`, `PollEnds`, `Pending`, `SlowDown`, `DeviceEnds` |
| `SignInProofs` | theorems about `SignIn` and `DeviceSignIn` | |
| `ServerDownload` | `server-download.ts`, `server-checksum.ts`, `unzip.ts` | `installed`: the files of the directory, each with the version and build it is of; `FetchZip`, `FetchSums`, `SumsLost`, `Unpack`, `RemoveFile`, `RemoveDirectory`, `MakeDirectory`, `Move`, `Check`, `Mark` |
| `AtomicFile` | `atomic-file.ts` | `names` and `disk`: the directory as it is and as a power loss leaves it; `written`, `short` (a part of the bytes), `synced`; one action per system call, `WritesBack`, `PowerLoss` |
| `AtomicRegister` | the promise of `writeFileAtomicSync`, without a directory | what a reader finds, what is durable, a phase and a document per writer; `Begin`, `Truncate`, `Replace`, `Return`, `Throw`, `Fail`, `Flush`, `PowerLoss` |
| `ServerDownloadProofs` | theorems about `ServerDownload` | |
| `MachineStore` | the document of `machine-credentials.ts`, in both versions | `document`: the credential at the top level and the families; `legible`; `Refresh`, `Commit`, `Switch`, `Derive`, `Rotate`, `Delete` of updated tools, `OldWrites`, `CodecTurns` |
| `StoreFileProofs` | theorems about `AtomicFile` and `MachineStore` | |
| `MC...` | instances for TLC; `MCProviderParts` has two instances of `CredentialProvider` in one run; `MCAgentTools` composes `ProjectSetup`, `SignIn`, `DeviceSignIn`, `ServerDownload`, `AtomicFile` and `MachineStore` | |

`CredentialProvider` uses the lock as `ExclusiveSection` describes it: a call
is inside, waits, or ends busy; a dead holder's lock is taken over later. In
`LoginCommit` a hold is one action: its callback is synchronous. The
proof that `CredentialLock` implements `ExclusiveSection` justifies that. The
write of a store is one step in every module but `AtomicFile`; the proof that
`AtomicFile` implements `AtomicRegister` justifies it, as a write takes effect in
one step between its call and its return, or not at all if it throws. What that
step leaves may be torn, if the disk took only a part of the bytes (finding 5): the
other modules have it as a store that becomes unreadable and stays so until it is
replaced (`StoreSpoils` in `CredentialProvider` and `LoginCommit`, `CodecTurns` in
`MachineStore`). The modules that use these promises make two of their own: `CredentialProvider`
implements `SoleClient`, and `LoginCommit` implements `AccountStore`.

| abstract | implemented by | mapping |
|---|---|---|
| `ExclusiveSection` | `CredentialLock` | the phase of a caller is read off its program counter |
| `AtomicRegister` | `AtomicFile` | the value is the file that the target leads to, `Torn` if that file was written short, and no document at all if it lost its bytes (`Found`); durable is the same of `disk`; a writer is before its rename, after it, or cleaning up (`Phase`) |
| `SoleClient` | `CredentialProvider` | what is kept is the token of the store; under way is the successor of the one call that is between the server's answer and its write (`Flight`) |
| `AccountStore` | `LoginCommit` | the document is the store; the consent of a surface is the premise that its user confirmed (`Consent`) |

Abstractions. In `CredentialLock` the bars are small numbers in the order of
the constants (HTTP timeout < stale bar < budget) and a file has an age instead
of a time stamp; a document is its creator. In `CredentialProvider` a token
stands for the access and refresh token of one generation of one family;
whether it is fresh, near its expiry or expired is a choice at every look. Two
time assumptions are guards there: the grace window (30 s) outlives one lost
answer and the prompt retry (15 s + 1 s), but not the stale bar (60 s)
(`GraceEnds`, `TakeOver`); the requests of one attempt (at most 10 s of
fallbacks and one time limit of 15 s) end within the skew window of 60 s
(`CoolsDown`). The client ids that a call may present are without repetition, as
`orderFallbackClientIds` makes them (`ProviderAssumption`). A retry after a lost answer
is prompt unless a peer, or a call of the same provider for its other family
(`SiblingEnters`), takes the lock before it: the grace window may then end.

In `LoginCommit` a family stands for its tokens and carries the subject of its
mint; a document of version 1 is seen as its `legacy` family. A read that fails
is `Absent`, as in `safeReadState`. The stored families are revoked oldest
first. The exchange is taken to name the subject, as the frozen response shape
says (`token-exchange.ts`, lines 17-18). When the mint named none (a server of
an earlier version) the family counts as unnamed and is accepted wherever it
lands, as F7.3 has it. A family that cannot be revoked at a sign-out for want
of a client id is a revocation that fails. `cutShort` and `failed` are history:
they record what an operation that did not end had revoked, and which refused
families a revocation was tried for in vain.

In `EditorSession` the start time of a process is the number of its start, and
the nonce of a lease the number of the start it was written for. The mode of the
editor, the `.gitignore`, the command line and the polling intervals are left
out; `force`, a spec that names its binary and a scan that knows the pid are
choices. `prepareWindowOpen` is a close that may decline. The refresh of the
lock and the start of the process are one step, as no await separates them; the
hook before them is where the lock may be lost (`LoseLock`) to a peer's takeover.
`overlooked` is history: the editors that ran although a scan reported none,
which the code cannot rule out.

In `ProjectSetup` the text of a URL is reduced to whether it is ours, pinned,
local or a command; `--token` behaves as `--oauth` does towards the project key;
the fetch of the token and the mint are one step, and after a 401 it is the last
try. `configure` is atomic per file; clients whose entry calls its URL
`serverUrl`, where duplicates are never recognised, are left out, and so are
files outside the project. An enrollment is a commit (`LoginCommit` has its
steps) and then the pin, which skips files that do not parse and may stop half
way. `steady`, `crossed`, `replaced`, `late` and `unchecked` are history: they
mark the three cases that the code leaves open, which the properties excuse by
name and nothing else: a sign-in during a setup, a key that a peer replaced
before it was written, and a renamed copy in a file of the setup's own plan.

In `SignIn` the number of an attempt is its state parameter and its PKCE
verifier; a redirect without a code, or with another error, counts as denied;
there is one authorization server, and the endpoints that its discovery names
are left out. The user may answer a browser tab at any time, also after its
attempt ended, and a port is reused. In `DeviceSignIn` timers may be late, never
early. In `ServerDownload` the files beside the binary are one file, and each
removal, move and write of the marker is a step; what comes from a trusted
source counts as the version it is installed as; `raced` is history: two
installs filled the directory at once, which no lock prevents. The cache looks at the
binary and the marker, and so does `CacheHoldsPin`: a removal that failed after the
sidecar and before these two leaves, for the same version, what passes for a cache.
In `AtomicFile` a file is the number of its write. `write` may take a part of
the bytes without an error, and nothing looks at its count (`WriteBytes`; one of
`MaxHarms`). A power loss leaves each entry of the directory
as it was synced or as the system wrote it back since (`WritesBack`, at any moment,
entry by entry), and may tear what was not synced.

In `MachineStore` a write is one step, because its callers hold the lock and the
file is replaced atomically; the version follows from the shape of a document,
and identity and unknown fields are passed on by every write. An old tool is
known by its output, a document of version 1 without families
(`test/machine-credentials-cohort.test.ts`, line 76). `newest` is history: the
token that was written last for each plane. An old write takes the agent plane
with it, because it drops that family.

## Runs

| run | instance and bounds | shows |
|---|---|---|
| `lock_exclusion` | three acquisitions, two on one host and one on another, heartbeat, every fault outside the intent; stale bar 2, foreign bar 3 | types, `HolderOwnsLock`, `OneRemover`, `RemovalIsExact`, `ForeignLockKept` |
| `lock_progress` | two acquisitions that die anywhere, also with the intent; fair | `NoWedge`: once the crashes end the store does not stay closed |
| `lock_busy` | two acquisitions, budget 3 over a stale bar of 2 | `BusyMeansContention`, and that the protocol implements `ExclusiveSection` |
| `lock_release` | a holder exactly at the stale bar | violated: `ReleaseSparesPeers`, see the findings |
| `provider_refresh` | two tools with different default client ids, a legacy family that names no client; two interferences of any kind, two sign-ins, two generations; or two overlapping calls of one provider, where nobody signs out, dies or spoils the store, and the family names its client or not | `ReplaysAttributed`, `StoreHoldsHead`, `VerdictIsTrue`, `NeedyCallMovesOn`, `PromptRetryAbsorbed`, that the fleet implements `SoleClient`, types; `OneEventPerDeath` |
| `provider_valid_token` | an overlapping call for the other family of the same provider | violated: `ValidTokenServed` |
| `provider_client_id` | a lost answer under a fallback client id, another process next | violated: `ReuseOnlyAfterGrace` |
| `login_commit` | two surfaces, three accounts, four mints, one fault, reads that agree | `OneAccount`, `SwitchConfirmed`, `SignOutSticks`, `RefusedMintRevoked`, `KeptFamilyAlive`, that the commit implements `AccountStore`, types |
| `login_unreadable` | the same without faults, a read may fail in passing | violated: `OneAccount` |
| `editor_session` | two calls, two pids, two starts, two rounds, one fault; fair | `SoleOwnEditor`, `StartsOverNone`, `OnlyLeasedStruck`, `LiveLeaseKept`, `ClosedMeansGone`, `WatchedCallEnds` (every call ends), types |
| `agent_tools` | setup: two processes, two accounts (one whose login does not name it), a JSON file that is there and a TOML file that is not, three calls, two keys, one fault. Sign-in: two attempts, two ports, three clients, two troubles. Device: intervals of none, 5 s and 10 s, clock up to 40 s. Download: two processes, two versions, three calls, two mishaps. File: two writers, two names, two writes, two harms. Store: five tokens | `CacheNotRevoked`, `NoLockOut`, `OwnKeyWritten`, `OthersKept`; `CodeIsOwn`, `StaleRegistrationHeals`; `PollsSpaced`; `CacheHoldsPin`; that the file implements `AtomicRegister`; `NewestServed` |
| `short_write` | one writer, one write of which the disk takes a part | violated: `NeverTorn` |

The bounds: three acquisitions are what the takeover needs (the holder, the
claimant and a claimant that lags), and an actor keeps acquiring, so histories
are unbounded although the instance is small. `Symmetry` swaps the two actors of
one host and is used in the one lock run without liveness; the login runs swap
surfaces and swap accounts, which the code does not tell apart. In the provider two calls
are the two sides of every race of the store, the first generation and its
successor are all that the grace window distinguishes, and two interferences
allow the combinations (a lost answer and a crash, a sign-out and a failed
write). Beyond `MaxGen` the server is unavailable; a call then meets a transient
failure, which it may meet at any time. The provider runs do not check for
deadlock: when the interferences are used up and every call has returned with
the store signed out, nothing has to happen. In `login_commit` two surfaces are
the two sides of every race over the store; the third account is what makes a
stale premise visible, because a peer may move the store from the first account
to the second while a question about the first is open; four mints are an old
family, a login with its derived family and a login of the peer, or the other
way round. A surface is never stuck: a sign-out needs no mint.

In `editor_session` two pids and two starts are the smallest instance in which
two editors can run, a pid can be reused, and a user's editor can come between
a check and a start; one fault is a crash, a lost lock, a failed write or a
failed scan, each of which alone reaches the states that the properties guard
against. The calls are interchangeable, but liveness is checked, so that no
symmetry is declared; `WatchedCallEnds` speaks of one of them. In `agent_tools`
a behaviour is one of one part, because the parts share no state but the
machine's login, which `ProjectSetup` changes by itself (`LoginChanges`,
`Enrolls`). Three calls of two processes let one of them act before, during and
after the other; two keys are a key and the one that replaces it, a third mint
being refused; three clients are the forgotten one, its replacement and the
peer's; two writes are a writer and the peer that shares its millisecond, or replaces its file,
and two harms a failed call and the loss of power after it;
five tokens are one per family, a switch and a rotation. Processes, and
ports, versions and names, are swapped by symmetry; no
part tells them apart. The run does not check for deadlock: calls end and the
bounds are reached.

Fairness. `lock_progress` and `lock_busy` assume weak fairness of each actor's
own steps, that is, of a process that is scheduled and whose calls return, and
that time passes; of crashes only that they end (`CalmsDown`). Nothing is
assumed of who wins a race. `editor_session` assumes weak fairness of the steps
of each call, a process that runs: its waits poll and end by a timeout
(`NotReady`, `WaitExpires`), its acquisition of the lock by a budget
(`LockBusy`). Nothing is assumed of editors, users or the operating system: an
editor may never become ready and never exit.

## Findings

1. `release()` compares the content of the lock with its own and then unlinks
   the path; a takeover between the two calls loses the peer's lock. It takes a
   holder at the stale bar (`lock_release`).
2. Overlapping calls of one provider share one non-reentrant lock instance. A
   call with a valid token that begins while a call for the other family is
   inside fails with the lock's error, although the doc of `getAccessToken`
   promises the current token (`provider_valid_token`).
3. The client id whose answer was lost is remembered in the memory of one
   process. Another process presents the token under its own default first,
   which the server takes for reuse inside the grace window
   (`provider_client_id`).
4. The first hold judges the account on one read of the store and merges into
   another. When the first fails in passing and the second does not, the family
   of one account is stored beside those of another, without a question
   (`login_unreadable`). The derivation is not affected: it refuses a store that
   is unreadable at either read.
5. `writeFileAtomicSync` calls `fs.writeSync` once and does not look at the number
   of bytes it wrote (`atomic-file.ts`, line 130). A write that takes a part of them,
   on a disk or a quota that is all but used up, raises no error; the file is synced
   and renamed, and the store is torn, which the heads of `atomic-file.ts` (lines
   14-15) and `machine-credentials.ts` (46-49) exclude (`short_write`).

## What is proved

In `CredentialLockProofs`, for any set of actors and hosts and any values of
the bars, under `Timely` (`HoldBound < LockStale`: no section lasts as long as
the stale bar, and no fault strikes a claimant that holds the intent):

- `TypeCorrect`: `Spec => []TypeOK`;
- `Invariance`: the inductive invariant `IInv`. None of the properties is
  inductive by itself. `IInv` adds that the file of an owner is in place and
  exactly as old as the owner's clock, below the bar; the same for the intent
  and its claimant; that what a claimant remembers is beyond the bar; and that
  what it re-validated still is in place. The lock of a live owner is therefore
  never what a claimant removes;
- `Exclusion`, `Arbitration`, `ExactRemoval`: `HolderOwnsLock`, `OneRemover`
  and `RemovalIsExact` are invariants;
- `Refinement`: `Spec => ImplementsSection`;
- `ForeignLocksKept`: `ForeignLockKept`. To the invariant comes that a claimant
  between its judgement and the unlink looks at a lock that is stale for the bar
  of its own host (`JudgedByItsBar`): what is stale stays so as it ages.

`BusyMeansContended` states `BusyMeansContention` of `LockBudget`, for actors of
one machine (`OneMachine`) and a budget that leaves room for one pass of the
loop beyond the bar (`BudgetOutlivesBar`: `LockStale + HoldBound <=
AcquireBudget`; the constants of the code are 60 s, 15 s and 75 s). A budget that is
merely longer than the bar is not enough for it: a pass may have judged a file just
before it became stale. The invariant follows an undisturbed acquisition
(`Patient`): the files that were there when it began are as old as its wait, or
stale; those it claims are the ones it judged; and when it looks at the deadline,
it has waited no longer than the bar and this pass. With foreign locks, whose
bar is 24 h, "busy" is the intended end.

The proof of `Invariance` has a lemma per group of actions (acquire, take the
intent, remove, section, environment, time), and under it a step per action.

In `CredentialProviderProofs`, for any processes, calls that overlap, client
ids, faults and generations:

- `TypeCorrect`: `Spec => []TypeOK`. `Base`, the invariant it comes with, says
  besides that the call inside the section has it to itself, and the store and
  its token with it; that what the store holds was minted; and how many writes
  can have failed. Everything below rests on it;
- `Attributed` and `HeadHeld`: `ReplaysAttributed` and `StoreHoldsHead`, by the
  `Debt`: a rotation that the server did and the store does not know is in
  flight, or owed to a loss that was not replayed yet. Neither property is
  inductive without it;
- `OneClient`: `Spec => ImplementsSoleClient`. At most one call is between the
  server's answer and its write, since it is inside the section (`FlightIsOfOne`,
  from `Base`), and the store is then as that call has read it. So it asks with the
  token that the store holds, and its write replaces that token by its successor;
  one that is lost, to a crash, a failed write or a lost answer, is counted
  (`LossesAreFlights`). With `losses = 0` the token asked with is the newest of its
  family: that is `HeadHeld`, at the moment of the request;
- `VerdictsTrue`: `VerdictIsTrue`. A verdict is a fact about the server from the
  answer on (`Doomed`), through the write to memory and sidecar, since a dead
  family does not come back;
- `NeedyMovesOn`: `NeedyCallMovesOn`. The token a call started from, the one it
  presents and the one in the store come in this order (`Ordered`), and the
  store never falls behind a token it has reached;
- `RetryAbsorbed`: `PromptRetryAbsorbed`. The call whose answer was lost finds,
  from the loss to its retry, the same token under the client id that it
  remembers, in its grace, or a newer one (`Prompt`). It depends on when a retry
  counts as prompt: a call of the same provider for its other family
  (`SiblingEnters`) may take the lock before it, as a peer may;
- `OneEvent`: `OneEventPerDeath`, when the store stays readable and nobody
  signs out (`{"unreadable", "signOut"} \cap Disturbances = {}`), which is the
  overlap in `provider_refresh`. A family that was told dead is dead, and the
  process remembers it while the store holds it (`Settled`). Without the
  condition the property is false: a call that finds no token takes its verdict
  for standing, so that a process that condemned a family, saw the next sign-in
  and then a sign-out may tell the old death once more.

In `LoginCommitProofs`, for any surfaces, accounts and bounds:

- `LoginTypeCorrect`: `Spec => []TypeOK`;
- `Invariance`: the inductive invariant `IInv`. It adds to the types that a
  login under way has a family to write, that a derived family is of the
  account of its mint, that only a question away from a known account was
  confirmed, and that a missing document names nobody;
- `StoreOfOneAccount`: `OneAccount` under `TransientReads = FALSE`, which says
  that two reads of an unchanged file agree. The assumption is needed
  (finding 4). The argument: a write either starts from the empty document, or
  its subject does not differ from the stored one (`AgreeingWrite`), since the
  holds judge what they merge into;
- `SwitchesAreConfirmed`: `SwitchConfirmed` under the same assumption;
- `SignOutIsKept`: `SignOutSticks`, without it;
- `KeptFamiliesLive`: `KeptFamilyAlive` under the same assumption, and
  `RefusalsLeaveNothing`: `RefusedMintRevoked`, without it. Their invariant
  `FInv` follows the families. What a surface minted and has not written, nobody
  else knows (`Private`); what it may still write is live, and what it refused
  is revoked, or its revocation was tried in vain (`Pledged`); and what is
  revoked for a switch is of the account that is left (`Leaves`), which is why no
  family of the store dies with it: should the store have moved on, so have
  they. Every action comes down to one lemma, `EffectKeeps`, on what a step may
  do to families (`Effect`).

- `StoreImplemented`: `Spec => ImplementsAccountStore`, under the same
  assumption as `StoreOfOneAccount`. It needs one more invariant, that a switch
  which is asked for or was confirmed is away from the account that the guard
  found (`AwayInv`). Each write has a lemma (`MergeIsASignIn`, `ReplaceIsASwitch`,
  `WriteIsADerivation`, `DeleteIsASignOut`); every other step changes at most the
  consent of its surface (`OneConsent`).

The proof of `Invariance` has a lemma on the locals of the acting surface
(`SurfaceSound`), one on the others (`OthersStay`), and one each on the server
and the store.

In `EditorSessionProofs`, for any calls, pids, starts and rounds, under
`SessionAssumption` (there is a pid, and `None` is nothing it stands in for):

- `Invariant`: the inductive invariant `IInv`. A lease is tied to one start
  (`Tied`): what runs under that nonce, runs under its pid, and a start time that is not
  that of the start was read too late. What a call carries across its awaits is
  such a lease, given up only when its editor is gone (`Carries`); what a call
  saw at its last look still counts, whatever processes came and went since
  (`Looked`); and the editor that a call started and has not recorded is nobody
  else's (`Started`). An editor was overlooked, or a lock lost, only by a fault;
- `TypeCorrect`, `SoleEditor`, `LeasedStruck` and `GivenUpIsGone`: the types,
  `SoleOwnEditor`, `OnlyLeasedStruck` and `ClosedMeansGone` are invariants. Only
  the first of the three properties is a part of `IInv`; the others follow from
  `Looked` and `Carries`;
- `LaunchOverNone` and `LeaseStays`: the action properties `StartsOverNone` and
  `LiveLeaseKept`.

In `ProjectSetupProofs`, for any setups, accounts, agents, files, keys and
faults, under `SetupAssumption` (the files of agents and the TOML files are
files; `None` is nothing it stands in for):

- `Invariance`: the inductive invariant `IInv`. The cached entry names a minted
  key, of its account, that nothing has displaced; the entry a setup read is still
  the cached one or was displaced; a key is known to its minter alone until it
  is put; the key that is to be revoked was displaced by the setup's own key
  before (`OldKey`), and where it has been searched for, only a late write may
  have brought it back (`Searched`);
- `TypeCorrect`, `CacheStaysValid`, `NobodyLockedOut` and `WritesOwnKey`: the
  types, `CacheNotRevoked`, `NoLockOut` and `OwnKeyWritten`. `NoLockOut` is a
  part of `IInv`: it is kept by a revocation because of `Searched`, and not
  inductive without it;
- `OtherServersKept`: the action property `OthersKept`. A writer that
  can read its file passes the entries of other servers on.

In `SignInProofs`, for any attempts, ports, clients, paths and failures, under
`SignInAssumption` (an attempt takes one path; `NoValue` is nothing it stands in
for; the built-in client id is none the server has registered):

- `SignInInvariance`: the inductive invariant `SignInInv`. A tab is of the client
  that its attempt resolved, and there is none before (`TabIsOwn`); what carries
  the state of an attempt came from its tab, and the server knew the client then:
  it still does, or has forgotten a client since (`ResultIsOwn`); a second probe
  is of a client registered just now, and an attempt exchanges only what carries
  its own state (`ClientCounts`). The `state` is what ties them together: ports
  are reused, and a tab may be answered when its attempt is gone and another one
  listens where it did;
- `SignInTypeCorrect`: the types, and that no two attempts listen on one port;
- `CodesAreOwn` and `RegistrationsHeal`: `CodeIsOwn` and
  `StaleRegistrationHeals`. Neither is inductive without the rest of the invariant.

There too, about `DeviceSignIn`, for any intervals, lifetimes and clock, under
`DeviceAssumption` (they are numbers):

- `PollsAreSpaced`: the action property `PollsSpaced`. Its invariant `DeviceInv`
  says that a delay under way began with the last request and lasts as long as
  the interval, which is what the server has demanded by now.

In `ServerDownloadProofs`, for any processes, versions and bounds:

- `CacheIsOfItsVersion`: `CacheHoldsPin`. The invariant adds that only vouched
  bytes get as far as the directory, and that whoever fills it alone finds no
  marker there and, once the files have moved, its own binary.

In `StoreFileProofs`, about `AtomicFile`, for any writers, names and bounds,
under `AtomicAssumption` (the mark of what is missing is no number, the target no
temporary name):

- `AtomicInvariance`: the inductive invariant `FileInv`. Who has a temporary file
  has its name alone, and the name leads to that file; a file is written, all of
  it or the part that the disk took, before it is synced, and synced before it is
  renamed; the target is synced, as it is and as the disk has it;
- `RegisterImplemented`: `AtomicSpec => ImplementsRegister`. By `FileInv` the
  target leads to a file with all that its writer put into it, now and after a power
  loss (`NothingLost`), and the name a writer renames leads to its own file: the rename is
  the step `Replace`. A writer that failed would unlink a peer's file if they could
  share a name. There is a lemma per kind of system call; those on the temporary
  file are steps that the register does not see (`WorkRegisters`), but for a short write,
  which is its `Truncate` (`ShortRegisters`) and the only way a document is torn.

There too, about `MachineStore`, for any number of writes, under `StoreAssumption`
(the mark of what is missing is no token and no document):

- `PlanesAreServed`: `NewestServed`. It is inductive with the types and with
  nothing being served where there is no document (`DocumentInv`). `WriteServes`
  is the lemma on one write, which every action of an updated tool comes down to;
  it rests on `MirrorServes` and `AdoptionServes`, on the two pure functions.

Only model-checked: liveness (`NoWedge`, `WatchedCallEnds`), which under fairness
is out of the prover's reach. Every other property of a passing run is the
statement of a theorem. What the violated properties say is false of the code
(see the findings).

## Not modelled, and the plan

What is left of the plan: the age of the grace window against the skew window in
`CredentialProvider`, which the model keeps as an order only. A failed write holds
a family back for the whole skew window, so that the next presentation comes
after the grace window; no property speaks of it.

Left out for good, because no behaviour of it depends on the order of steps: the
format of configuration files, zip files and manifests (gated by golden vectors
shared with other implementations), the at-rest codec of the store (DPAPI or
none; that it may fail is modelled), the search for a PowerShell host that runs
it, engine adapters, project identity, progress,
messages and pages.
