---------------------------- MODULE ServerDownload ----------------------------
(***************************************************************************)
(* downloadServer (src/src/server-download.ts): processes install the      *)
(* server binary into the directory of a project, each the version that    *)
(* its CLI is pinned to, from the release or from a source that its user   *)
(* trusts. The directory is cleared and filled file by file, and the       *)
(* marker that makes it a cache comes last.                                *)
(*                                                                         *)
(* The files besides the binary are one file. What comes from a trusted    *)
(* source counts as the version that it is installed as. Left out: the     *)
(* staging directory, which is the process's own; the execute bit.         *)
(***************************************************************************)
EXTENDS Naturals

CONSTANTS
    Installers,     \* processes that call downloadServer
    Versions,       \* pins
    Nothing,        \* no file, no version
    SumsAttempts,   \* SHA256SUMS_FETCH_ATTEMPTS
    MaxInstalls,    \* bound: calls
    MaxMishaps      \* bound: failures, crashes, damaged answers

VARIABLES
    installed,  \* the directory: its files, or Nothing for each that is missing
    made,       \* whether the directory exists
    step,       \* what a process does next
    pin,        \* its version
    bytes,      \* whether the archive that it has is as released
    left,       \* the files that it has still to remove or to move
    asked,      \* its attempts to fetch SHA256SUMS
    raced,      \* history: a process began to clear while another filled
    installs, mishaps

downloadVars == <<installed, made, step, pin, bytes, left, asked, raced, installs, mishaps>>
directory == <<installed, made, raced>>
local == <<pin, bytes, left, asked>>

\* good: as released, or from a trusted source.
Build == [version : Versions, good : BOOLEAN]
Places == {"binary", "sidecar", "marker"}
Missing == [f \in Places |-> Nothing]
Steps == {"idle", "zip", "sums", "unpack", "clear", "make", "move", "check", "mark"}

DownloadInit ==
    /\ installed = Missing /\ made = FALSE
    /\ step = [i \in Installers |-> "idle"]
    /\ pin = [i \in Installers |-> Nothing]
    /\ bytes = [i \in Installers |-> FALSE]
    /\ left = [i \in Installers |-> {}]
    /\ asked = [i \in Installers |-> 0]
    /\ raced = FALSE /\ installs = 0 /\ mishaps = 0

Mishap == mishaps < MaxMishaps /\ mishaps' = mishaps + 1
StepsTo(i, place) == step' = [step EXCEPT ![i] = place]

\* A call ends, with its binary or with a failure.
Returns(i) ==
    /\ StepsTo(i, "idle")
    /\ pin' = [pin EXCEPT ![i] = Nothing]
    /\ bytes' = [bytes EXCEPT ![i] = FALSE]
    /\ left' = [left EXCEPT ![i] = {}]
    /\ asked' = [asked EXCEPT ![i] = 0]

\* readVersionMarker, and a binary beside it. (A call that it serves ends there.)
Served(v) == installed["binary"] # Nothing /\ installed["marker"] = v

BeginsInstall(i, v, to) ==
    /\ step[i] = "idle" /\ installs < MaxInstalls
    /\ installs' = installs + 1
    /\ pin' = [pin EXCEPT ![i] = v]
    /\ StepsTo(i, to)
    /\ UNCHANGED <<directory, left, asked, mishaps>>

Begin(i) == \E v \in Versions, force \in BOOLEAN :
    /\ force \/ ~Served(v)
    /\ BeginsInstall(i, v, "zip")
    /\ UNCHANGED bytes

\* --server-source: a zip, a directory or a URL, which no manifest vouches for.
BeginTrusted(i) == \E v \in Versions :
    /\ BeginsInstall(i, v, "unpack")
    /\ bytes' = [bytes EXCEPT ![i] = TRUE]

FetchZip(i) ==
    /\ step[i] = "zip"
    /\ \/ bytes' = [bytes EXCEPT ![i] = TRUE] /\ UNCHANGED mishaps
       \/ bytes' = [bytes EXCEPT ![i] = FALSE] /\ Mishap
    /\ StepsTo(i, "sums")
    /\ UNCHANGED <<directory, pin, left, asked, installs>>

VerifiedUnlessWrong(i, sums) == sums # "right" \/ bytes[i]

\* verifyZip: a manifest that parses, has the entry, and names these bytes.
Verified(i, sums) == sums = "right" /\ bytes[i]

Manifests == {"right", "unparsable", "without entry"}

FetchSums(i) == \E sums \in Manifests :
    /\ step[i] = "sums"
    /\ IF sums = "right" THEN UNCHANGED mishaps ELSE Mishap
    /\ IF Verified(i, sums) THEN StepsTo(i, "unpack") /\ UNCHANGED local ELSE Returns(i)
    /\ UNCHANGED <<directory, installs>>

\* Three attempts, then the call fails closed.
SumsLost(i) ==
    /\ step[i] = "sums"
    /\ IF asked[i] + 1 < SumsAttempts
       THEN asked' = [asked EXCEPT ![i] = @ + 1] /\ UNCHANGED <<step, pin, bytes, left>>
       ELSE Returns(i)
    /\ UNCHANGED <<directory, installs, mishaps>>

Filling(i) == step[i] \in {"clear", "make", "move", "check", "mark"}

BadArchive(i) ==
    /\ step[i] = "unpack" /\ Mishap
    /\ Returns(i)
    /\ UNCHANGED <<directory, installs>>

\* The archive has the binary. What is in the directory is listed for removal.
Unpack(i) ==
    /\ step[i] = "unpack"
    /\ left' = [left EXCEPT ![i] = {f \in Places : installed[f] # Nothing}]
    /\ StepsTo(i, "clear")
    /\ raced' = (raced \/ \E j \in Installers : Filling(j))
    /\ UNCHANGED <<installed, made, pin, bytes, asked, installs, mishaps>>

RemoveFile(i) ==
    /\ step[i] = "clear"
    /\ \E f \in left[i] :
        /\ installed' = [installed EXCEPT ![f] = Nothing]
        /\ left' = [left EXCEPT ![i] = @ \ {f}]
    /\ UNCHANGED <<made, step, pin, bytes, asked, raced, installs, mishaps>>

\* The directory itself goes, unless a file has appeared in it since.
RemoveDirectory(i) ==
    /\ step[i] = "clear" /\ left[i] = {}
    /\ IF installed = Missing
       THEN /\ made' = FALSE
            /\ raced' = \E j \in Installers \ {i} : Filling(j)
            /\ StepsTo(i, "make") /\ UNCHANGED local
       ELSE UNCHANGED <<made, raced>> /\ Returns(i)
    /\ UNCHANGED <<installed, installs, mishaps>>

MakeDirectory(i) ==
    /\ step[i] = "make"
    /\ made' = TRUE
    /\ left' = [left EXCEPT ![i] = {"binary", "sidecar"}]
    /\ StepsTo(i, "move")
    /\ UNCHANGED <<installed, pin, bytes, asked, raced, installs, mishaps>>

\* One file moves in. It cannot when a peer has removed the directory.
Move(i) == \E f \in left[i] :
    /\ step[i] = "move"
    /\ IF made
       THEN /\ installed' = [installed EXCEPT ![f] = [version |-> pin[i], good |-> bytes[i]]]
            /\ left' = [left EXCEPT ![i] = @ \ {f}]
            /\ StepsTo(i, IF left[i] = {f} THEN "check" ELSE "move")
            /\ UNCHANGED <<pin, bytes, asked>>
       ELSE UNCHANGED installed /\ Returns(i)
    /\ UNCHANGED <<made, raced, installs, mishaps>>

Check(i) ==
    /\ step[i] = "check"
    /\ IF installed["binary"] # Nothing THEN StepsTo(i, "mark") /\ UNCHANGED local
                                     ELSE Returns(i)
    /\ UNCHANGED <<directory, installs, mishaps>>

Mark(i) ==
    /\ step[i] = "mark"
    /\ installed' = IF made THEN [installed EXCEPT !["marker"] = pin[i]] ELSE installed
    /\ Returns(i)
    /\ UNCHANGED <<made, raced, installs, mishaps>>

\* The call throws, or its process dies: at a request, or at a file
\* that is in use or cannot be moved across volumes.
Stops(i) ==
    /\ step[i] \notin {"idle", "unpack"} /\ Mishap
    /\ Returns(i)
    /\ UNCHANGED <<directory, installs>>

Installs(i) ==
    \/ Begin(i) \/ BeginTrusted(i) \/ FetchZip(i) \/ FetchSums(i) \/ SumsLost(i)
    \/ BadArchive(i) \/ Unpack(i) \/ RemoveFile(i) \/ RemoveDirectory(i) \/ MakeDirectory(i)
    \/ Move(i) \/ Check(i) \/ Mark(i) \/ Stops(i)

DownloadNext == \E i \in Installers : Installs(i)
DownloadSpec == DownloadInit /\ [][DownloadNext]_downloadVars
-----------------------------------------------------------------------------
\* What the cache serves for a pin is a binary of that version that was verified
\* or trusted, whatever failed or died half way through an install, and whatever
\* the server answered; unless two installs filled the directory at the same
\* time, which the code does not prevent (server-download.ts:273). The cache does not
\* look at the files beside the binary, and they may be missing (line 263).
CacheHoldsPin ==
    ~raced /\ installed["marker"] # Nothing /\ installed["binary"] # Nothing
        => installed["binary"] = [version |-> installed["marker"], good |-> TRUE]
=============================================================================
