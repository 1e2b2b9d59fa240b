---------------------------- MODULE SignInProofs ----------------------------
(***************************************************************************)
(* The two interactive sign-ins, for any attempts, ports and clients, and  *)
(* for any intervals: whose code an attempt presents, when it may fail for *)
(* its client, and how far apart the polls of a device sign-in are.        *)
(***************************************************************************)
EXTENDS SignIn, DeviceSignIn, WellFoundedInduction, TLAPS

\* The client in the authorize URL of a is known to the server, or was forgotten
\* while a ran.
Counts(a) == url[a] \in known \/ a \in forgot

\* The tab that a opened is of its client, which it has resolved by then; it has
\* no tab before.
TabIsOwn(a) ==
    /\ stage[a] \notin {"wait", "exchange", "done"} => tab[a] = NoValue
    /\ stage[a] \in {"wait", "exchange"} => tab[a] # NoValue /\ tab[a].client = url[a]
    /\ client[a] = url[a]
    /\ stage[a] \in {"force", "probe", "reprobe", "open"} => url[a] # NoValue

\* What carries the state of a came from the tab of a, when the server knew the
\* client of that tab: it shows an error otherwise, and redirects nowhere.
ResultIsOwn(a) ==
    /\ settled[a] # NoValue => Running(a)
    /\ settled[a] # NoValue /\ settled[a].state = a => tab[a] # NoValue /\ Counts(a)

\* An attempt that begins a second probe has a client registered just now.
ClientCounts(a) ==
    /\ stage[a] = "reprobe" => Counts(a)
    /\ stage[a] = "exchange" => settled[a] # NoValue /\ settled[a].state = a
    /\ outcome[a] = "rejected" => a \in forgot

\* The inductive invariant of the browser sign-ins.
SignInInv ==
    /\ SignInTypeOK
    /\ \A a \in Attempts : TabIsOwn(a) /\ ResultIsOwn(a) /\ ClientCounts(a)

\* The facts about the constants that the proofs use.
LEMMA Bounds ==
  /\ MaxClients \in Nat /\ 1 \in Clients /\ Clients \subseteq Nat /\ MaxTroubles \in Nat
  /\ PathOf \in [Attempts -> Paths] /\ Builtin \notin Clients
  /\ NoValue \notin Clients \cup {Builtin} /\ NoValue \notin Attempts /\ NoValue \notin Ports
  /\ NoValue \notin Paths /\ NoValue \notin Outcomes
  /\ NoValue \notin Tab /\ NoValue \notin Result
  BY SignInAssumption DEF Clients

\* At the start no attempt has anything.
LEMMA SignInBegins == SignInInit => SignInInv
<1> SUFFICES ASSUME SignInInit PROVE SignInInv
  OBVIOUS
<1> USE Bounds
<1>1. SignInTypeOK
  BY DEF SignInInit, SignInTypeOK, Stages
<1>2. ASSUME NEW a \in Attempts PROVE TabIsOwn(a) /\ ResultIsOwn(a) /\ ClientCounts(a)
  BY DEF SignInInit, TabIsOwn, ResultIsOwn, ClientCounts, Outcomes
<1> QED
  BY <1>1, <1>2 DEF SignInInv

\* The least of the clients that are not registered is one.
LEMMA NextClient ==
  ASSUME Unregistered # {}
  PROVE  (CHOOSE c \in Unregistered : \A d \in Unregistered : c <= d) \in Unregistered
<1>1. Unregistered \subseteq Nat
  BY Bounds DEF Unregistered
<1>2. PICK k \in Unregistered : \A l \in Unregistered : ~ (<<l, k>> \in OpToRel(<, Nat))
  BY <1>1, WFMin, NatLessThanWellFounded, Zenon
<1>3. \A l \in Unregistered : ~ (l < k)
  BY <1>1, <1>2 DEF OpToRel
<1>4. \A l \in Unregistered : k <= l
  BY <1>1, <1>3
<1> QED
  BY <1>4
-----------------------------------------------------------------------------
(* What a step of one attempt does to the others, and to its own promises. *)

\* A step of a keeps what the others rely on, if no client is forgotten.
LEMMA OneMoves ==
  ASSUME SignInInv, NEW a \in Attempts, SignInTypeOK',
         known \subseteq known', forgot' = forgot,
         \A b \in Attempts \ {a} :
            /\ UNCHANGED <<stage[b], client[b], url[b], settled[b], tab[b], outcome[b]>>,
         TabIsOwn(a)', ResultIsOwn(a)', ClientCounts(a)'
  PROVE  SignInInv'
<1>1. ASSUME NEW b \in Attempts, b # a
      PROVE  (TabIsOwn(b) /\ ResultIsOwn(b) /\ ClientCounts(b))'
  BY <1>1 DEF SignInInv, TabIsOwn, ResultIsOwn, ClientCounts, Counts, Running
<1> QED
  BY <1>1 DEF SignInInv

\* An attempt that ends, but for a client that the server does not know.
LEMMA Ending ==
  ASSUME SignInInv, NEW a \in Attempts, NEW how \in Outcomes, Closes(a, how),
         stage[a] # "new", how = "rejected" => a \in forgot,
         known' = known, UNCHANGED <<pathOf, aborted, tab, forgot>>,
         store' \in {store, NoValue}, troubles' \in 0 .. MaxTroubles
  PROVE  SignInInv'
<1> USE Bounds
<1>1. /\ stage' = [stage EXCEPT ![a] = "done"] /\ outcome' = [outcome EXCEPT ![a] = how]
      /\ port' = [port EXCEPT ![a] = NoValue]
      /\ settled' = [settled EXCEPT ![a] = NoValue] /\ UNCHANGED <<client, url>>
  BY DEF Closes, Moves, StopsListening
<1>2. SignInTypeOK'
  BY <1>1 DEF SignInInv, SignInTypeOK, Stages
<1>3. /\ stage'[a] = "done" /\ outcome'[a] = how /\ settled'[a] = NoValue
      /\ \A b \in Attempts \ {a} :
            UNCHANGED <<stage[b], client[b], url[b], settled[b], tab[b], outcome[b]>>
  BY <1>1 DEF SignInInv, SignInTypeOK
<1>4. TabIsOwn(a)' /\ ResultIsOwn(a)' /\ ClientCounts(a)'
  BY <1>1, <1>3 DEF SignInInv, TabIsOwn, ResultIsOwn, ClientCounts
<1> QED
  BY <1>1, <1>2, <1>3, <1>4, OneMoves

\* An attempt that goes on before its browser is opened, with the client c.
LEMMA Proceeding ==
  ASSUME SignInInv, NEW a \in Attempts, NEW c \in Clients \cup {Builtin, NoValue},
         NEW to \in {"resolve", "force", "probe", "reprobe", "open"}, Adopts(a, c, to),
         stage[a] \in {"discover", "resolve", "force", "probe", "reprobe"},
         to = "reprobe" => c \in known', to # "resolve" => c # NoValue,
         known \subseteq known', known' \subseteq Clients \cup {Builtin},
         pathOf' \in [Clients -> Paths \cup {NoValue}],
         store' \in Clients \cup {NoValue}, troubles' \in 0 .. MaxTroubles,
         UNCHANGED <<port, settled, outcome, aborted, tab, forgot>>
  PROVE  SignInInv'
<1>1. /\ stage' = [stage EXCEPT ![a] = to] /\ client' = [client EXCEPT ![a] = c]
      /\ url' = [url EXCEPT ![a] = c]
  BY DEF Adopts, Moves
<1>2. SignInTypeOK'
  BY <1>1 DEF SignInInv, SignInTypeOK, Stages
<1>3. /\ stage'[a] = to /\ client'[a] = c /\ url'[a] = c
      /\ \A b \in Attempts \ {a} :
            UNCHANGED <<stage[b], client[b], url[b], settled[b], tab[b], outcome[b]>>
  BY <1>1 DEF SignInInv, SignInTypeOK
<1>4. TabIsOwn(a)' /\ ResultIsOwn(a)' /\ ClientCounts(a)'
  BY <1>3 DEF SignInInv, TabIsOwn, ResultIsOwn, ClientCounts, Counts, Running
<1> QED
  BY <1>2, <1>3, <1>4, OneMoves

\* The same with the client it has.
LEMMA ProceedingOn ==
  ASSUME SignInInv, NEW a \in Attempts,
         NEW to \in {"resolve", "force", "open"}, Moves(a, to),
         stage[a] \in {"discover", "probe", "reprobe"},
         stage[a] = "discover" => to = "resolve",
         UNCHANGED <<as, store, client, url, port, settled, outcome, aborted, tab, forgot>>,
         troubles' \in 0 .. MaxTroubles
  PROVE  SignInInv'
<1>1. /\ url[a] \in Clients \cup {Builtin, NoValue} /\ client[a] = url[a]
      /\ client = [client EXCEPT ![a] = client[a]] /\ url = [url EXCEPT ![a] = url[a]]
      /\ to # "resolve" => url[a] # NoValue
  BY DEF SignInInv, SignInTypeOK, TabIsOwn
<1>2. Adopts(a, url[a], to)
  BY <1>1 DEF Adopts
<1>3. /\ known \subseteq known' /\ known' \subseteq Clients \cup {Builtin}
      /\ pathOf' \in [Clients -> Paths \cup {NoValue}] /\ store' \in Clients \cup {NoValue}
  BY DEF as, SignInInv, SignInTypeOK
<1> QED
  BY <1>1, <1>2, <1>3, Proceeding

\* A failure is counted.
LEMMA Failing ==
  ASSUME SignInInv, Trouble \/ UNCHANGED troubles
  PROVE  troubles' \in 0 .. MaxTroubles
  BY Bounds DEF Trouble, SignInInv, SignInTypeOK
-----------------------------------------------------------------------------
(* The steps of an attempt.                                                *)

\* An attempt begins on a port that nobody listens on.
LEMMA ListensKeeps ==
  ASSUME SignInInv, NEW a \in Attempts, Listens(a) PROVE SignInInv'
<1>1. PICK p \in FreePorts, c \in {Builtin, NoValue}, to \in {"open", "discover"} :
        /\ stage[a] = "new" /\ (to = "open" => c # NoValue)
        /\ port' = [port EXCEPT ![a] = p]
        /\ client' = [client EXCEPT ![a] = c] /\ url' = [url EXCEPT ![a] = c]
        /\ stage' = [stage EXCEPT ![a] = to]
        /\ UNCHANGED <<as, store, settled, outcome, aborted, tab, forgot, troubles>>
  BY Bounds DEF Listens, Moves
<1>2. p \in Ports /\ \A b \in Attempts : port[b] # p
  BY DEF FreePorts
<1>3. SignInTypeOK'
  BY <1>1, <1>2, Bounds DEF SignInInv, SignInTypeOK, Stages, as
<1>4. /\ stage'[a] = to /\ client'[a] = c /\ url'[a] = c
      /\ UNCHANGED <<known, forgot, settled, tab, outcome>>
      /\ \A b \in Attempts \ {a} : UNCHANGED <<stage[b], client[b], url[b]>>
  BY <1>1 DEF SignInInv, SignInTypeOK, as
<1>5. TabIsOwn(a)' /\ ResultIsOwn(a)' /\ ClientCounts(a)'
  BY <1>1, <1>4 DEF SignInInv, TabIsOwn, ResultIsOwn, ClientCounts, Counts, Running
<1> QED
  BY <1>3, <1>4, <1>5, OneMoves

\* The stored client may be one that the server forgot; the probe will tell.
LEMMA ReuseKeeps ==
  ASSUME SignInInv, NEW a \in Attempts, Reuse(a) PROVE SignInInv'
<1>1. store \in Clients /\ store # NoValue
  BY DEF Reuse, Covers, SignInInv, SignInTypeOK
<1>2. /\ known \subseteq known' /\ known' \subseteq Clients \cup {Builtin}
      /\ pathOf' \in [Clients -> Paths \cup {NoValue}]
      /\ store' \in Clients \cup {NoValue} /\ troubles' \in 0 .. MaxTroubles
  BY DEF Reuse, as, SignInInv, SignInTypeOK
<1> QED
  BY <1>1, <1>2, Proceeding DEF Reuse

\* A client registered just now is known, and of the path of the attempt.
LEMMA RegistersKeeps ==
  ASSUME SignInInv, NEW a \in Attempts, NEW to \in {"probe", "reprobe"},
         stage[a] \in {"resolve", "force"}, Registers(a, to)
  PROVE  SignInInv'
<1>1. PICK c \in Unregistered :
        /\ known' = known \cup {c}
        /\ pathOf' = [pathOf EXCEPT ![c] = PathOf[a]]
        /\ Saves(c) /\ Adopts(a, c, to)
        /\ UNCHANGED <<port, settled, outcome, aborted, tab, forgot>>
  BY NextClient DEF Registers
<1>2. c \in Clients /\ c # NoValue
  BY Bounds DEF Unregistered
<1>3. /\ known \subseteq known' /\ known' \subseteq Clients \cup {Builtin} /\ c \in known'
      /\ pathOf' \in [Clients -> Paths \cup {NoValue}]
      /\ store' \in Clients \cup {NoValue} /\ troubles' \in 0 .. MaxTroubles
  BY <1>1, <1>2, Failing, Bounds DEF Saves, SignInInv, SignInTypeOK
<1> QED
  BY <1>1, <1>2, <1>3, Proceeding

\* Every step by which an attempt resolves and probes its client.
LEMMA ResolveKeeps ==
  ASSUME SignInInv, NEW a \in Attempts,
         \/ Discover(a) \/ Register(a) \/ Reregister(a) \/ RegisterFails(a)
         \/ Probe(a) \/ ProbeBlind(a) \/ ProbeRefused(a)
  PROVE  SignInInv'
<1> USE DEF Outcomes
<1>1. CASE Discover(a)
  BY <1>1, ProceedingOn, Failing DEF Discover
<1>2. CASE Register(a) \/ Reregister(a)
  BY <1>2, RegistersKeeps DEF Register, Reregister
<1>3. CASE RegisterFails(a)
  <2>1. PICK how \in {"cancelled", "error"} : Closes(a, how)
    BY <1>3 DEF RegisterFails
  <2>2. /\ stage[a] # "new" /\ troubles' \in 0 .. MaxTroubles
        /\ UNCHANGED <<known, pathOf, store, aborted, tab, forgot>>
    BY <1>3, Failing DEF RegisterFails, as
  <2> QED
    BY <2>1, <2>2, Ending
<1>4. CASE Probe(a)
  <2>1. CASE url[a] \in known \/ stage[a] = "probe"
    <3>1. PICK to \in {"force", "open"} : Moves(a, to)
      BY <1>4, <2>1 DEF Probe, Unknown
    <3> QED
      BY <1>4, <2>1, <3>1, ProceedingOn, Failing DEF Probe, Unknown
  <2>2. CASE url[a] \notin known /\ stage[a] = "reprobe"
    <3>1. a \in forgot
      BY <2>2 DEF SignInInv, ClientCounts, Counts
    <3>2. Closes(a, "rejected")
      BY <1>4, <2>2 DEF Probe, Unknown
    <3>3. /\ UNCHANGED <<known, pathOf, store, aborted, tab, forgot>>
          /\ troubles' \in 0 .. MaxTroubles
      BY <1>4, Failing DEF Probe, as
    <3> QED
      BY <2>2, <3>1, <3>2, <3>3, Ending
  <2> QED
    BY <1>4, <2>1, <2>2 DEF Probe
<1>5. CASE ProbeBlind(a)
  BY <1>5, ProceedingOn, Failing DEF ProbeBlind
<1>6. CASE ProbeRefused(a)
  <2>1. /\ Closes(a, "denied") /\ stage[a] # "new" /\ troubles' \in 0 .. MaxTroubles
        /\ UNCHANGED <<known, pathOf, store, aborted, tab, forgot>>
    BY <1>6, Failing DEF ProbeRefused, as
  <2> QED
    BY <2>1, Ending
<1> QED
  BY <1>1, <1>2, <1>3, <1>4, <1>5, <1>6

\* The browser is opened with the client that was resolved.
LEMMA OpenKeeps ==
  ASSUME SignInInv, NEW a \in Attempts, Open(a) PROVE SignInInv'
<1>1. /\ stage[a] = "open" /\ stage' = [stage EXCEPT ![a] = "wait"]
      /\ UNCHANGED <<as, store, client, url, port, settled, outcome, aborted, forgot, troubles>>
      /\ tab' = [tab EXCEPT ![a] = [port |-> port[a], client |-> url[a]]]
  BY DEF Open, Moves
<1>2. port[a] \in Ports /\ url[a] \in Clients \cup {Builtin}
  BY <1>1 DEF SignInInv, SignInTypeOK, TabIsOwn, ClientCounts
<1>3. PICK t \in Tab : t = [port |-> port[a], client |-> url[a]]
  BY <1>2 DEF Tab
<1>4. tab' = [tab EXCEPT ![a] = t] /\ t.client = url[a] /\ t # NoValue
  BY <1>1, <1>3, Bounds
<1>5. SignInTypeOK'
  BY <1>1, <1>4 DEF SignInInv, SignInTypeOK, Stages, as
<1>6. /\ stage'[a] = "wait" /\ tab'[a] = t
      /\ UNCHANGED <<known, forgot, client, url, settled, outcome>>
      /\ \A b \in Attempts \ {a} : UNCHANGED <<stage[b], tab[b]>>
  BY <1>1, <1>4 DEF SignInInv, SignInTypeOK, as
<1>7. TabIsOwn(a)' /\ ResultIsOwn(a)' /\ ClientCounts(a)'
  BY <1>1, <1>4, <1>6 DEF SignInInv, TabIsOwn, ResultIsOwn, ClientCounts, Counts, Running
<1> QED
  BY <1>5, <1>6, <1>7, OneMoves

\* What settles the promise of a listener, and is its own only if it says so.
LEMMA Redirected ==
  ASSUME SignInInv, NEW a \in Attempts, NEW r \in Result, Running(a), settled[a] = NoValue,
         settled' = [settled EXCEPT ![a] = r],
         UNCHANGED <<as, store, stage, client, url, port, outcome, aborted, tab, forgot,
                     troubles>>,
         r.state = a => tab[a] # NoValue /\ Counts(a)
  PROVE  SignInInv'
<1>1. settled'[a] = r /\ \A b \in Attempts \ {a} : settled'[b] = settled[b]
  BY DEF SignInInv, SignInTypeOK
<1>2. SignInTypeOK'
  BY DEF SignInInv, SignInTypeOK, as
<1>3. TabIsOwn(a)' /\ ResultIsOwn(a)' /\ ClientCounts(a)'
  BY <1>1 DEF SignInInv, TabIsOwn, ResultIsOwn, ClientCounts, Counts, Running, as
<1> QED
  BY <1>1, <1>2, <1>3, OneMoves DEF as

\* The timer and the abort carry no state, and so are nobody's redirect.
LEMMA WaitEndsKeeps ==
  ASSUME SignInInv, NEW a \in Attempts, WaitEnds(a) PROVE SignInInv'
<1>1. PICK how \in {"timeout", "aborted"} : Settles(a, how, NoValue, NoValue)
  BY DEF WaitEnds
<1>2. PICK r \in Result : r = [how |-> how, state |-> NoValue, client |-> NoValue]
  BY DEF Result
<1>3. r.state # a
  BY <1>2, Bounds
<1> QED
  BY <1>1, <1>2, <1>3, Redirected DEF Settles, WaitEnds, Running

\* A tab is redirected only while the server knows its client.
LEMMA RedirectsKeeps ==
  ASSUME SignInInv, NEW b \in Attempts, Redirects(b) PROVE SignInInv'
<1>1. PICK a \in Attempts, how \in {"code", "denied"} :
        /\ tab[b] # NoValue /\ tab[b].client \in known /\ port[a] = tab[b].port
        /\ Settles(a, how, b, tab[b].client)
  BY DEF Redirects
<1>2. tab[b] \in Tab /\ tab[b].port \in Ports /\ tab[b].client \in Clients \cup {Builtin}
  BY <1>1 DEF SignInInv, SignInTypeOK, Tab
<1>3. PICK r \in Result : r = [how |-> how, state |-> b, client |-> tab[b].client]
  BY <1>2 DEF Result
<1>4. Running(a)
  BY <1>1, <1>2, Bounds DEF Running, SignInInv, SignInTypeOK
<1>5. r.state = a => Counts(a)
  BY <1>1, <1>3, <1>4 DEF Counts, Running, SignInInv, TabIsOwn
<1> QED
  BY <1>1, <1>3, <1>4, <1>5, Redirected DEF Settles

\* Only a result with the state of the attempt, and a code, is exchanged.
LEMMA JudgeKeeps ==
  ASSUME SignInInv, NEW a \in Attempts, Judge(a) PROVE SignInInv'
<1>1. /\ stage[a] = "wait" /\ settled[a] # NoValue
      /\ UNCHANGED <<known, pathOf, store, aborted, tab, forgot>>
      /\ troubles' \in 0 .. MaxTroubles
  BY Failing DEF Judge, as
<1>2. \/ \E how \in {"cancelled", "timeout", "state_mismatch", "denied"} : Closes(a, how)
      \/ /\ settled[a].state = a /\ Moves(a, "exchange")
         /\ UNCHANGED <<client, url, port, settled, outcome>>
  BY DEF Judge, Accepts
<1>3. ASSUME NEW how \in {"cancelled", "timeout", "state_mismatch", "denied"},
             Closes(a, how)
      PROVE  SignInInv'
  BY <1>1, <1>3, Ending DEF Outcomes
<1>4. CASE /\ settled[a].state = a /\ Moves(a, "exchange")
           /\ UNCHANGED <<client, url, port, settled, outcome>>
  <2>1. stage' = [stage EXCEPT ![a] = "exchange"]
    BY <1>4 DEF Moves
  <2>2. SignInTypeOK'
    BY <1>1, <1>4, <2>1 DEF SignInInv, SignInTypeOK, Stages
  <2>3. stage'[a] = "exchange" /\ \A b \in Attempts \ {a} : stage'[b] = stage[b]
    BY <2>1 DEF SignInInv, SignInTypeOK
  <2>4. TabIsOwn(a)' /\ ResultIsOwn(a)' /\ ClientCounts(a)'
    BY <1>1, <1>4, <2>3 DEF SignInInv, TabIsOwn, ResultIsOwn, ClientCounts, Counts, Running
  <2> QED
    BY <1>1, <1>4, <2>2, <2>3, <2>4, OneMoves
<1> QED
  BY <1>2, <1>3, <1>4

\* The server refuses the client of a code only if it forgot it meanwhile.
LEMMA ExchangeKeeps ==
  ASSUME SignInInv, NEW a \in Attempts, Exchange(a) PROVE SignInInv'
<1>1. /\ stage[a] = "exchange" /\ UNCHANGED <<known, pathOf, aborted, tab, forgot>>
      /\ store' \in {store, NoValue} /\ troubles' \in 0 .. MaxTroubles
  BY Failing DEF Exchange, Drops, Saves, as
<1>2. CASE client[a] \notin known
  <2>1. a \in forgot
    BY <1>1, <1>2 DEF SignInInv, ClientCounts, ResultIsOwn, TabIsOwn, Counts
  <2>2. Closes(a, "rejected")
    BY <1>2 DEF Exchange
  <2> QED
    BY <1>1, <2>1, <2>2, Ending DEF Outcomes
<1>3. CASE client[a] \in known
  <2>1. PICK how \in {"ok", "error"} : Closes(a, how)
    BY <1>3 DEF Exchange
  <2> QED
    BY <1>1, <2>1, Ending DEF Outcomes
<1> QED
  BY <1>2, <1>3

\* Every other step that ends an attempt.
LEMMA FailureKeeps ==
  ASSUME SignInInv, NEW a \in Attempts,
         OpenCancelled(a) \/ OpenFails(a) \/ ExchangeFails(a) \/ AttemptDies(a)
  PROVE  SignInInv'
<1>1. PICK how \in {"cancelled", "no_browser", "error"} : Closes(a, how)
  BY DEF OpenCancelled, OpenFails, ExchangeFails, AttemptDies
<1>2. /\ stage[a] # "new" /\ troubles' \in 0 .. MaxTroubles
      /\ UNCHANGED <<known, pathOf, store, aborted, tab, forgot>>
  BY Failing DEF OpenCancelled, OpenFails, ExchangeFails, AttemptDies, Running, as
<1> QED
  BY <1>1, <1>2, Ending DEF Outcomes
-----------------------------------------------------------------------------
(* The user and the server.                                                *)

\* Who runs when a client is forgotten, is remembered.
LEMMA OutsideKeeps ==
  ASSUME SignInInv, Forgets \/ Corrupts \/ (\E a \in Attempts : Cancel(a))
  PROVE  SignInInv'
<1>1. /\ UNCHANGED <<pathOf, flow, tab>> /\ known' \subseteq known
      /\ store' \in {store, NoValue} /\ aborted' \subseteq aborted \cup Attempts
      /\ forgot \subseteq forgot' /\ forgot' \subseteq forgot \cup Attempts
      /\ troubles' \in 0 .. MaxTroubles
      /\ known' = known \/ \A a \in Attempts : Running(a) => a \in forgot'
  BY Failing DEF Forgets, Corrupts, Cancel, as
<1>2. SignInTypeOK'
  BY <1>1 DEF SignInInv, SignInTypeOK, flow
<1>3. ASSUME NEW a \in Attempts PROVE (TabIsOwn(a) /\ ResultIsOwn(a) /\ ClientCounts(a))'
  BY <1>1 DEF SignInInv, TabIsOwn, ResultIsOwn, ClientCounts, Counts, Running, flow
<1> QED
  BY <1>2, <1>3 DEF SignInInv

\* Every step keeps the invariant.
LEMMA SignInStep == SignInInv /\ [SignInNext]_signInVars => SignInInv'
<1> SUFFICES ASSUME SignInInv, [SignInNext]_signInVars PROVE SignInInv'
  OBVIOUS
<1>1. CASE UNCHANGED signInVars
  BY <1>1 DEF signInVars, as, flow, SignInInv, SignInTypeOK, TabIsOwn, ResultIsOwn,
     ClientCounts, Counts, Running
<1>2. CASE Forgets \/ Corrupts
  BY <1>2, OutsideKeeps
<1>3. ASSUME NEW a \in Attempts, AttemptSteps(a) PROVE SignInInv'
  BY <1>3, ListensKeeps, ReuseKeeps, ResolveKeeps, OpenKeeps, WaitEndsKeeps, RedirectsKeeps,
     JudgeKeeps, ExchangeKeeps, FailureKeeps, OutsideKeeps DEF AttemptSteps
<1> QED
  BY <1>1, <1>2, <1>3 DEF SignInNext
-----------------------------------------------------------------------------
\* It holds throughout.
THEOREM SignInInvariance == SignInSpec => []SignInInv
<1> QED
  BY SignInBegins, SignInStep, PTL DEF SignInSpec

\* Every variable of the browser sign-ins keeps its type, no two attempts listen
\* on one port, and one listens exactly while it runs (authCodeLogin,
\* oauth-authcode-flow.ts).
THEOREM SignInTypeCorrect == SignInSpec => []SignInTypeOK
<1>1. SignInInv => SignInTypeOK
  BY DEF SignInInv
<1> QED
  BY <1>1, SignInInvariance, PTL

\* A code is presented only by the attempt whose tab it was issued to, for any
\* number of attempts, ports that are reused and tabs that are answered late, or
\* twice (the state check, oauth-authcode-flow.ts:691).
THEOREM CodesAreOwn == SignInSpec => []CodeIsOwn
<1>1. SignInInv => CodeIsOwn
  BY DEF SignInInv, ClientCounts, CodeIsOwn
<1> QED
  BY <1>1, SignInInvariance, PTL

\* An attempt fails for its client only if the server forgot one while it ran: a
\* registration that was stale before is replaced, or its tab leads nowhere
\* (oauth-authcode-flow.ts:638-652).
THEOREM RegistrationsHeal == SignInSpec => []StaleRegistrationHeals
<1>1. SignInInv => StaleRegistrationHeals
  BY DEF SignInInv, ClientCounts, StaleRegistrationHeals
<1> QED
  BY <1>1, SignInInvariance, PTL
-----------------------------------------------------------------------------
(* The device sign-in.                                                     *)

\* The delay that runs began with the last request, and the interval is what the
\* server asked for, slow_downs included.
DeviceInv ==
    /\ now \in Nat /\ interval \in Nat /\ wake \in Nat /\ deadline \in Nat
    /\ demanded \in Nat /\ last \in Nat
    /\ phase \in {"delay", "poll"} => interval = demanded
    /\ phase = "delay" => wake = last + interval

\* Every step of a device sign-in keeps the invariant.
LEMMA DeviceStep == DeviceInv /\ [DeviceNext]_deviceVars => DeviceInv'
<1> SUFFICES ASSUME DeviceInv, [DeviceNext]_deviceVars PROVE DeviceInv'
  OBVIOUS
<1> USE DeviceAssumption DEF DeviceInv, deviceLocals, codeOnServer, Delays, DeviceEnds
<1>1. CASE RequestCode
  BY <1>1 DEF RequestCode, Larger
<1>2. CASE RequestFails \/ Wakes \/ DelayCancelled \/ PollEnds
  BY <1>2 DEF RequestFails, Wakes, DelayCancelled, PollEnds
<1>3. CASE Pending
  BY <1>3 DEF Pending
<1>4. CASE SlowDown
  BY <1>4 DEF SlowDown, Slower
<1>5. CASE Decides \/ CancelsDevice \/ Tick \/ UNCHANGED deviceVars
  BY <1>5 DEF Decides, CancelsDevice, Tick, deviceVars
<1> QED
  BY <1>1, <1>2, <1>3, <1>4, <1>5 DEF DeviceNext

\* A poll is at least as long after the last request as the server asked for, and
\* before the code expires, whatever the intervals and slow_downs and however late
\* the timers (deviceLogin, oauth-device-flow.ts:295-330).
THEOREM PollsAreSpaced == DeviceSpec => PollsSpaced
<1>1. DeviceInit => DeviceInv
  BY DeviceAssumption DEF DeviceInit, DeviceInv
<1>2. DeviceInv /\ [DeviceNext]_deviceVars => [PollsInTime]_deviceVars
  BY DEF DeviceInv, DeviceNext, RequestCode, RequestFails, Wakes, DelayCancelled, PollEnds,
         Pending, SlowDown, Decides, CancelsDevice, Tick, Delays, DeviceEnds, deviceLocals,
         PollsInTime
<1> QED
  BY <1>1, <1>2, DeviceStep, PTL DEF DeviceSpec, PollsSpaced
=============================================================================
