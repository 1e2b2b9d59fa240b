-------------------------------- MODULE SignIn --------------------------------
(***************************************************************************)
(* Sign-ins with the browser at one authorization server: authCodeLogin    *)
(* (src/src/oauth-authcode-flow.ts) and the client registration that it    *)
(* resolves (oauth-dcr.ts). Attempts of several products run concurrently; *)
(* they share the registration of this machine and the free ports. A port  *)
(* goes to another attempt once its listener is closed, and a browser tab  *)
(* outlives the attempt that opened it.                                    *)
(*                                                                         *)
(* The number of an attempt stands for its state parameter and for its     *)
(* PKCE verifier. Left out: the entries of other servers in the file of    *)
(* registrations; the endpoints that discovery chooses; scope, resource and *)
(* the text of messages.                                                   *)
(***************************************************************************)
EXTENDS Naturals

CONSTANTS
    Attempts,   \* calls of authCodeLogin
    Ports,      \* the loopback ports that the system hands out
    Paths,      \* callback paths
    PathOf,     \* the path of each attempt
    Builtin,    \* the client id that a product was built with
    NoValue,    \* no client, no port, no tab, no outcome
    MaxClients, \* bound: clients registered
    MaxTroubles \* bound: failures, crashes, forgotten clients

VARIABLES
    known,      \* the server: the clients it knows
    pathOf,     \* the server: the redirect path of each client
    store,      \* oauth-clients.json: the client registered here
    stage,      \* what an attempt does next
    client,     \* the client id it resolved
    url,        \* the client id in its authorize URL
    port,       \* where it listens
    settled,    \* what its listener's promise settled with
    aborted,    \* the attempts that the user cancelled
    tab,        \* the browser tab that it opened
    outcome,    \* how it ended
    forgot,     \* history: the attempts during which a client was forgotten
    troubles    \* how often something went wrong

as == <<known, pathOf>>
flow == <<stage, client, url, port, settled, outcome>>
signInVars == <<as, store, flow, aborted, tab, forgot, troubles>>

Clients == 1 .. MaxClients
Stages == {"new", "discover", "resolve", "force", "probe", "reprobe", "open", "wait", "exchange",
           "done"}
Outcomes == {"ok", "cancelled", "timeout", "no_browser", "denied", "state_mismatch",
             "rejected", "error"}
Tab == [port : Ports, client : Clients \cup {Builtin}]
\* A redirect carries the state of the tab that it comes from, and an error or a
\* code for the client of the tab.
Result == [how : {"code", "denied"}, state : Attempts, client : Clients \cup {Builtin}]
            \cup [how : {"timeout", "aborted"}, state : {NoValue}, client : {NoValue}]

ASSUME SignInAssumption ==
    /\ MaxClients \in Nat \ {0} /\ MaxTroubles \in Nat
    /\ PathOf \in [Attempts -> Paths]
    /\ Builtin \notin Nat
    /\ NoValue \notin Nat \cup {Builtin} \cup Attempts \cup Ports \cup Paths \cup Outcomes
    /\ NoValue \notin Tab /\ NoValue \notin Result

SignInTypeOK ==
    /\ known \subseteq Clients \cup {Builtin}
    /\ pathOf \in [Clients -> Paths \cup {NoValue}]
    /\ store \in Clients \cup {NoValue}
    /\ stage \in [Attempts -> Stages]
    /\ client \in [Attempts -> Clients \cup {Builtin, NoValue}]
    /\ url \in [Attempts -> Clients \cup {Builtin, NoValue}]
    /\ port \in [Attempts -> Ports \cup {NoValue}]
    /\ settled \in [Attempts -> Result \cup {NoValue}]
    /\ aborted \subseteq Attempts
    /\ tab \in [Attempts -> Tab \cup {NoValue}]
    /\ outcome \in [Attempts -> Outcomes \cup {NoValue}]
    /\ forgot \subseteq Attempts
    /\ troubles \in 0 .. MaxTroubles
    /\ \A a, b \in Attempts : port[a] # NoValue /\ port[a] = port[b] => a = b
    /\ \A a \in Attempts : port[a] = NoValue <=> stage[a] \in {"new", "done"}

\* Nothing is registered, or an earlier version registered a client that the
\* server may have forgotten since.
SignInInit ==
    /\ known \in {{Builtin}, {Builtin, 1}}
    /\ \E p \in Paths \cup {NoValue} :
        /\ pathOf = [c \in Clients |-> IF c = 1 THEN p ELSE NoValue]
        /\ store = IF p = NoValue THEN NoValue ELSE 1
        /\ p = NoValue => 1 \notin known
    /\ stage = [a \in Attempts |-> "new"] /\ outcome = [a \in Attempts |-> NoValue]
    /\ client = [a \in Attempts |-> NoValue] /\ url = client
    /\ port = [a \in Attempts |-> NoValue] /\ settled = [a \in Attempts |-> NoValue]
    /\ aborted = {} /\ tab = [a \in Attempts |-> NoValue]
    /\ forgot = {} /\ troubles = 0

Trouble == troubles < MaxTroubles /\ troubles' = troubles + 1
Moves(a, to) == stage' = [stage EXCEPT ![a] = to]

StopsListening(a) ==
    /\ port' = [port EXCEPT ![a] = NoValue]
    /\ settled' = [settled EXCEPT ![a] = NoValue]

\* The finally block closes the listener, however the attempt ends.
Closes(a, how) ==
    /\ Moves(a, "done")
    /\ outcome' = [outcome EXCEPT ![a] = how]
    /\ StopsListening(a)
    /\ UNCHANGED <<client, url>>

Running(a) == stage[a] \notin {"new", "done"}
-----------------------------------------------------------------------------
(* The client.                                                             *)

FreePorts == {p \in Ports : \A a \in Attempts : port[a] # p}

\* Not cancelled before: listen on a free port. A product with a client id of
\* its own needs no registration and no probe.
Listens(a) == \E p \in FreePorts, static \in BOOLEAN :
    /\ stage[a] = "new" /\ a \notin aborted
    /\ port' = [port EXCEPT ![a] = p]
    /\ LET c == IF static THEN Builtin ELSE NoValue
       IN  client' = [client EXCEPT ![a] = c] /\ url' = [url EXCEPT ![a] = c]
    /\ Moves(a, IF static THEN "open" ELSE "discover")
    /\ UNCHANGED <<as, store, settled, outcome, aborted, tab, forgot, troubles>>

\* Discovery ends, and nothing fails it: neither the server nor a cancel. The
\* store is read after it.
Discover(a) ==
    /\ stage[a] = "discover"
    /\ Moves(a, "resolve")
    /\ UNCHANGED <<as, store, client, url, port, settled, outcome, aborted, tab, forgot,
                   troubles>>

\* coversRedirectUris
Covers(a) == store # NoValue /\ pathOf[store] = PathOf[a]

Adopts(a, c, to) ==
    /\ client' = [client EXCEPT ![a] = c]
    /\ url' = [url EXCEPT ![a] = c]
    /\ Moves(a, to)

Reuse(a) ==
    /\ stage[a] = "resolve" /\ Covers(a)
    /\ Adopts(a, store, "probe")
    /\ UNCHANGED <<as, store, port, settled, outcome, aborted, tab, forgot, troubles>>

Unregistered == {c \in Clients : pathOf[c] = NoValue}

\* The file is for the next sign-in; a failure has no consequence for this one.
Saves(c) ==
    \/ store' = c /\ UNCHANGED troubles
    \/ UNCHANGED store /\ Trouble

\* registerClient, then save.
Registers(a, to) ==
    /\ a \notin aborted /\ Unregistered # {}
    /\ LET c == CHOOSE c \in Unregistered : \A d \in Unregistered : c <= d
       IN  /\ known' = known \cup {c}
           /\ pathOf' = [pathOf EXCEPT ![c] = PathOf[a]]
           /\ Saves(c)
           /\ Adopts(a, c, to)
    /\ UNCHANGED <<port, settled, outcome, aborted, tab, forgot>>

Register(a) == stage[a] = "resolve" /\ ~Covers(a) /\ Registers(a, "probe")

ReregisterCached(a) ==
    /\ stage[a] = "force"
    /\ IF Covers(a)
       THEN /\ Adopts(a, store, "reprobe")
            /\ UNCHANGED <<as, store, port, settled, outcome, aborted, tab, forgot,
                           troubles>>
       ELSE Registers(a, "reprobe")

\* The registration again without a look at the store.
Reregister(a) == stage[a] = "force" /\ Registers(a, "reprobe")

RegisterFails(a) ==
    /\ stage[a] \in {"resolve", "force"}
    /\ stage[a] = "resolve" => ~Covers(a)
    /\ IF a \in aborted THEN UNCHANGED troubles /\ Closes(a, "cancelled")
                        ELSE Trouble /\ Closes(a, "error")
    /\ UNCHANGED <<as, store, aborted, tab, forgot>>

\* An unknown client is registered again, once.
Unknown(a) ==
    IF stage[a] = "probe"
    THEN Moves(a, "force") /\ UNCHANGED <<client, url, port, settled, outcome>>
    ELSE Closes(a, "rejected")

\* The verdict of the server.
Probe(a) ==
    /\ stage[a] \in {"probe", "reprobe"}
    /\ IF url[a] \in known
       THEN Moves(a, "open") /\ UNCHANGED <<client, url, port, settled, outcome>>
       ELSE Unknown(a)
    /\ UNCHANGED <<as, store, aborted, tab, forgot, troubles>>

\* The probe fails open: on an error in transport, a fault of the server or an
\* abort. Another refusal ends the attempt.
ProbeBlind(a) ==
    /\ stage[a] \in {"probe", "reprobe"}
    /\ IF a \in aborted THEN UNCHANGED troubles ELSE Trouble
    /\ Moves(a, "open")
    /\ UNCHANGED <<as, store, client, url, port, settled, outcome, aborted, tab, forgot>>

ProbeRefused(a) ==
    /\ stage[a] \in {"probe", "reprobe"}
    /\ Trouble
    /\ Closes(a, "denied")
    /\ UNCHANGED <<as, store, aborted, tab, forgot>>

\* The last look at the abort signal before the desktop of the user is touched.
Open(a) ==
    /\ stage[a] = "open" /\ a \notin aborted
    /\ tab' = [tab EXCEPT ![a] = [port |-> port[a], client |-> url[a]]]
    /\ Moves(a, "wait")
    /\ UNCHANGED <<as, store, client, url, port, settled, outcome, aborted, forgot, troubles>>

OpenCancelled(a) ==
    /\ stage[a] = "open" /\ a \in aborted
    /\ Closes(a, "cancelled")
    /\ UNCHANGED <<as, store, aborted, tab, forgot, troubles>>

OpenFails(a) ==
    /\ stage[a] = "open" /\ a \notin aborted
    /\ Trouble
    /\ Closes(a, "no_browser")
    /\ UNCHANGED <<as, store, aborted, tab, forgot>>

\* The promise settles once, with whatever comes first.
Settles(a, how, state, c) ==
    /\ settled[a] = NoValue
    /\ settled' = [settled EXCEPT ![a] = [how |-> how, state |-> state, client |-> c]]
    /\ UNCHANGED <<as, store, stage, client, url, port, outcome, aborted, tab, forgot,
                   troubles>>

\* waitForRedirect: the timer starts with the wait.
WaitEnds(a) ==
    /\ stage[a] = "wait"
    /\ \/ Settles(a, "timeout", NoValue, NoValue)
       \/ a \in aborted /\ Settles(a, "aborted", NoValue, NoValue)

AcceptsAny(a, redirect) == TRUE
Accepts(a, redirect) == redirect.state = a

\* What the promise settled with is judged: timeout, abort, state, error, code.
Judge(a) ==
    /\ stage[a] = "wait" /\ settled[a] # NoValue
    /\ IF settled[a].how \in {"timeout", "aborted"}
       THEN Closes(a, IF a \in aborted THEN "cancelled" ELSE "timeout")
       ELSE IF ~Accepts(a, settled[a]) THEN Closes(a, "state_mismatch")
       ELSE IF settled[a].how = "denied" THEN Closes(a, "denied")
       ELSE Moves(a, "exchange") /\ UNCHANGED <<client, url, port, settled, outcome>>
    /\ UNCHANGED <<as, store, aborted, tab, forgot, troubles>>

\* The client was registered here: whatever the store holds is dropped.
Drops == Saves(NoValue)

\* The server checks that it knows the client and that the code is of it.
Exchange(a) ==
    /\ stage[a] = "exchange" /\ a \notin aborted
    /\ IF client[a] \notin known
       THEN Drops /\ Closes(a, "rejected")
       ELSE /\ UNCHANGED <<store, troubles>>
            /\ Closes(a, IF settled[a].client = client[a] THEN "ok" ELSE "error")
    /\ UNCHANGED <<as, aborted, tab, forgot>>

\* A cancel, an error in transport, or the time limit of the request, which
\* aborts it and is therefore told as a cancel too.
ExchangeFails(a) ==
    /\ stage[a] = "exchange"
    /\ IF a \in aborted THEN UNCHANGED troubles /\ Closes(a, "cancelled")
       ELSE Trouble /\ \E how \in {"error", "cancelled"} : Closes(a, how)
    /\ UNCHANGED <<as, store, aborted, tab, forgot>>
-----------------------------------------------------------------------------
(* The user, the browser and the server.                                   *)

Cancel(a) ==
    /\ Running(a) /\ a \notin aborted
    /\ aborted' = aborted \cup {a}
    /\ UNCHANGED <<as, store, flow, tab, forgot, troubles>>

\* A tab is answered, again perhaps: the server redirects it to its port, where
\* another attempt may listen by now. To a tab with a client that it does not
\* know the server shows an error and redirects nowhere.
Redirects(b) == \E a \in Attempts, how \in {"code", "denied"} :
    /\ tab[b] # NoValue /\ tab[b].client \in known /\ port[a] = tab[b].port
    /\ PathOf[a] = PathOf[b]
    /\ Settles(a, how, b, tab[b].client)

\* The server forgets a client: unused for 30 days, or revoked.
Forgets == \E c \in known \ {Builtin} :
    /\ Trouble
    /\ known' = known \ {c}
    /\ forgot' = forgot \cup {a \in Attempts : Running(a)}
    /\ UNCHANGED <<pathOf, store, flow, aborted, tab>>

\* The file cannot be parsed: nothing is registered here.
Corrupts ==
    /\ store # NoValue /\ Trouble
    /\ store' = NoValue
    /\ UNCHANGED <<as, flow, aborted, tab, forgot>>

AttemptDies(a) ==
    /\ Running(a) /\ Trouble
    /\ Closes(a, "error")
    /\ UNCHANGED <<as, store, aborted, tab, forgot>>
-----------------------------------------------------------------------------
AttemptSteps(a) ==
    \/ Listens(a) \/ Discover(a) \/ Reuse(a) \/ Register(a) \/ Reregister(a) \/ RegisterFails(a)
    \/ Probe(a) \/ ProbeBlind(a) \/ ProbeRefused(a)
    \/ Open(a) \/ OpenCancelled(a) \/ OpenFails(a) \/ WaitEnds(a) \/ Judge(a)
    \/ Exchange(a) \/ ExchangeFails(a)
    \/ Cancel(a) \/ Redirects(a) \/ AttemptDies(a)

SignInNext == (\E a \in Attempts : AttemptSteps(a)) \/ Forgets \/ Corrupts
SignInSpec == SignInInit /\ [][SignInNext]_signInVars
-----------------------------------------------------------------------------
\* A code is presented only by the attempt whose browser tab it was issued to,
\* although ports are reused, tabs outlive their attempt, and any redirect may
\* come at any time (the state check, oauth-authcode-flow.ts:691).
CodeIsOwn == \A a \in Attempts :
    stage[a] = "exchange" => settled[a].state = a

\* A registration that the server forgot costs no sign-in: an attempt fails for
\* its client only if the server forgot a client while it ran
\* (oauth-authcode-flow.ts:641).
StaleRegistrationHeals == \A a \in Attempts : outcome[a] = "rejected" => a \in forgot
=============================================================================
