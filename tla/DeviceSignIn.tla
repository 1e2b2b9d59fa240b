----------------------------- MODULE DeviceSignIn -----------------------------
(***************************************************************************)
(* The sign-in with a code that the user enters on another device:         *)
(* deviceLogin (src/src/oauth-device-flow.ts). It asks for the code and    *)
(* polls for the token, with a delay that the server names and lengthens.  *)
(* Time is counted in units of 5 s, which is both the default interval and *)
(* what a slow_down adds. A timer never fires early, but may be late.      *)
(***************************************************************************)
EXTENDS Naturals

CONSTANTS
    Floor,      \* DEFAULT_POLL_INTERVAL_MS
    Increment,  \* SLOW_DOWN_INCREMENT_MS
    Lifetime,   \* DEFAULT_DEVICE_CODE_LIFETIME_SECONDS
    Intervals,  \* the intervals that the server may name; 0 stands for none
    Lifetimes,  \* the lifetimes that it may name; 0 stands for none
    MaxTime     \* bound: units of time

ASSUME DeviceAssumption ==
    /\ {Floor, Increment, Lifetime, MaxTime} \subseteq Nat
    /\ Intervals \subseteq Nat /\ Lifetimes \subseteq Nat

VARIABLES
    phase,      \* what the sign-in does next
    now,        \* the clock of this machine
    interval,   \* the delay before each poll
    wake,       \* when the running delay ends
    deadline,   \* when the code expires for the client
    cancelled,  \* whether the user cancelled
    reason,     \* how the sign-in ended
    decision,   \* the server: what the user decided
    demanded,   \* the server: the least time between two polls
    last        \* the server: the last request of this sign-in

deviceLocals == <<phase, interval, wake, deadline, reason>>
codeOnServer == <<decision, demanded, last>>
deviceVars == <<deviceLocals, now, cancelled, codeOnServer>>

Larger(x, y) == IF x > y THEN x ELSE y

DeviceInit ==
    /\ phase = "request" /\ now = 0 /\ interval = 0 /\ wake = 0 /\ deadline = 0
    /\ cancelled = FALSE /\ reason = "none"
    /\ decision = "pending" /\ demanded = Floor /\ last = 0

DeviceEnds(why) ==
    /\ phase' = "done" /\ reason' = why
    /\ UNCHANGED <<interval, wake, deadline>>

\* cancellableDelay, or the end of the loop.
Delays(i, end) ==
    IF now < end
    THEN phase' = "delay" /\ wake' = now + i /\ UNCHANGED reason
    ELSE phase' = "done" /\ reason' = "expired" /\ UNCHANGED wake

\* The answer names an interval and a lifetime, or leaves them out.
RequestCode == \E named \in Intervals, lives \in Lifetimes :
    /\ phase = "request" /\ ~cancelled
    /\ interval' = Larger(named, Floor)
    /\ deadline' = now + IF lives > 0 THEN lives ELSE Lifetime
    /\ Delays(Larger(named, Floor), deadline')
    /\ demanded' = Larger(named, Floor) /\ last' = now
    /\ UNCHANGED <<now, cancelled, decision>>

\* A refusal or an error in transport. The time limit of a request aborts it,
\* which is told as a cancel.
RequestFails ==
    /\ phase \in {"request", "poll"}
    /\ IF cancelled THEN DeviceEnds("cancelled")
       ELSE \E why \in {"error", "cancelled"} : DeviceEnds(why)
    /\ UNCHANGED <<now, cancelled, codeOnServer>>

\* After the delay the deadline is looked at again.
Wakes ==
    /\ phase = "delay" /\ ~cancelled /\ now >= wake
    /\ IF now >= deadline THEN DeviceEnds("expired")
       ELSE phase' = "poll" /\ UNCHANGED <<interval, wake, deadline, reason>>
    /\ UNCHANGED <<now, cancelled, codeOnServer>>

DelayCancelled ==
    /\ phase = "delay" /\ cancelled
    /\ DeviceEnds("cancelled")
    /\ UNCHANGED <<now, cancelled, codeOnServer>>

\* The token, a refusal, or the server no longer has the code.
PollEnds ==
    /\ phase = "poll" /\ ~cancelled
    /\ \/ decision = "approved" /\ DeviceEnds("ok")
       \/ decision = "denied" /\ DeviceEnds("denied")
       \/ decision = "expired" /\ DeviceEnds("expired")
    /\ last' = now
    /\ UNCHANGED <<now, cancelled, decision, demanded>>

Pending ==
    /\ phase = "poll" /\ ~cancelled /\ decision = "pending"
    /\ Delays(interval, deadline)
    /\ last' = now
    /\ UNCHANGED <<now, cancelled, interval, deadline, decision, demanded>>

SlowDownOnce(i) == Floor + Increment
Slower(i) == i + Increment

\* The server asks for more time between polls, now and from now on.
SlowDown ==
    /\ phase = "poll" /\ ~cancelled /\ decision = "pending"
    /\ interval' = Slower(interval)
    /\ Delays(interval', deadline)
    /\ demanded' = demanded + Increment /\ last' = now
    /\ UNCHANGED <<now, cancelled, deadline, decision>>

Decides == \E d \in {"approved", "denied", "expired"} :
    /\ decision = "pending" /\ phase \in {"delay", "poll"}
    /\ decision' = d
    /\ UNCHANGED <<deviceLocals, now, cancelled, demanded, last>>

CancelsDevice ==
    /\ phase # "done" /\ ~cancelled
    /\ cancelled' = TRUE
    /\ UNCHANGED <<deviceLocals, now, codeOnServer>>

Tick ==
    /\ phase # "done" /\ now < MaxTime
    /\ now' = now + 1
    /\ UNCHANGED <<deviceLocals, cancelled, codeOnServer>>

DeviceNext ==
    \/ RequestCode \/ RequestFails \/ Wakes \/ DelayCancelled
    \/ PollEnds \/ Pending \/ SlowDown
    \/ Decides \/ CancelsDevice \/ Tick

DeviceSpec == DeviceInit /\ [][DeviceNext]_deviceVars

PollsInTime == phase # "poll" /\ phase' = "poll" => now - last >= demanded /\ now < deadline

\* A poll never comes sooner than the server asked for, counting every
\* slow_down since the start, nor after the code expired
\* (oauth-device-flow.ts:295, 303, 325).
PollsSpaced == [][PollsInTime]_deviceVars
=============================================================================
