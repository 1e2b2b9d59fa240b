------------------------------ MODULE AtomicFile ------------------------------
(***************************************************************************)
(* writeFileAtomicSync (src/src/atomic-file.ts), by which every store      *)
(* under ~/.ai-game-dev/ is written: the bytes go to a temporary sibling,  *)
(* which is synced and renamed over the target. Writers are processes;     *)
(* each call below is a system call, between which processes interleave,   *)
(* die, or lose the machine's power.                                       *)
(*                                                                         *)
(* A file is the number of the write that created it. Left out: modes and  *)
(* the creation of the directory, which fail before a file exists or do    *)
(* not change what a reader sees.                                          *)
(***************************************************************************)
EXTENDS Naturals

CONSTANTS
    Writers,        \* processes
    Temps,          \* the names of temporary siblings: pid and millisecond
    NoFile,         \* no file, no name
    RenameAttempts, \* RENAME_RETRY_ATTEMPTS
    MaxWrites,      \* bound: writes begun
    MaxHarms        \* bound: failures, crashes, power losses

\* A file is a number, and the target is no temporary name.
ASSUME AtomicAssumption ==
    /\ MaxWrites \in Nat
    /\ NoFile \notin Nat
    /\ "target" \notin Temps

VARIABLES
    names,      \* the directory: the file that each name leads to
    disk,       \* the directory as a power loss leaves it
    written,    \* the files that have all of their bytes
    short,      \* those of which the disk took only a part, without an error
    synced,     \* those of both kinds whose bytes survive a power loss
    doing,      \* what a writer does next
    temp,       \* the name of its temporary file
    new,        \* its file
    tries,      \* its attempts to rename
    busy,       \* the target is open in a program that blocks the rename
    writes, harms

atomicVars == <<names, disk, written, short, synced, doing, temp, new, tries, busy, writes, harms>>
writer == <<doing, temp, new, tries>>

AtomicInit ==
    /\ names \in [Temps \cup {"target"} -> {NoFile, 0}]
    /\ \A n \in Temps : names[n] = NoFile
    /\ disk = names /\ written = {0} /\ short = {} /\ synced = {0}
    /\ doing = [w \in Writers |-> "idle"]
    /\ temp = [w \in Writers |-> NoFile] /\ new = temp
    /\ tries = [w \in Writers |-> 0]
    /\ busy = FALSE /\ writes = 0 /\ harms = 0

Harm == harms < MaxHarms /\ harms' = harms + 1
Does(w, what) == doing' = [doing EXCEPT ![w] = what]
Finishes(w) ==
    /\ Does(w, "idle")
    /\ temp' = [temp EXCEPT ![w] = NoFile]
    /\ new' = [new EXCEPT ![w] = NoFile]
    /\ tries' = [tries EXCEPT ![w] = 0]

\* open("wx"): a file that is there belongs to another writer.
Create(w) == \E n \in Temps :
    /\ doing[w] = "idle" /\ writes < MaxWrites
    /\ writes' = writes + 1
    /\ IF names[n] # NoFile THEN UNCHANGED <<names, writer>>
       ELSE /\ names' = [names EXCEPT ![n] = writes + 1]
            /\ Does(w, "write")
            /\ temp' = [temp EXCEPT ![w] = n]
            /\ new' = [new EXCEPT ![w] = writes + 1]
            /\ UNCHANGED tries
    /\ UNCHANGED <<disk, written, short, synced, busy, harms>>

\* write(2) may take a part of the bytes, as on a disk that is all but full, and its
\* count is not looked at.
WriteBytes(w) ==
    /\ doing[w] = "write"
    /\ \/ written' = written \cup {new[w]} /\ UNCHANGED <<short, harms>>
       \/ short' = short \cup {new[w]} /\ UNCHANGED written /\ Harm
    /\ Does(w, "sync")
    /\ UNCHANGED <<names, disk, synced, temp, new, tries, busy, writes>>

SyncSkipped(w) ==
    /\ doing[w] = "sync"
    /\ Does(w, "rename")
    /\ UNCHANGED <<names, disk, written, short, synced, temp, new, tries, busy, writes, harms>>

Sync(w) ==
    /\ doing[w] = "sync"
    /\ synced' = synced \cup {new[w]}
    /\ Does(w, "rename")
    /\ UNCHANGED <<names, disk, written, short, temp, new, tries, busy, writes, harms>>

Rename(w) ==
    /\ doing[w] = "rename" /\ ~busy
    /\ names' = [names EXCEPT !["target"] = names[temp[w]], ![temp[w]] = NoFile]
    /\ Does(w, "syncDirectory")
    /\ UNCHANGED <<disk, written, short, synced, temp, new, tries, busy, writes, harms>>

\* EPERM, EACCES or EBUSY: another attempt after a pause, while any is left.
RenameBlocked(w) ==
    /\ doing[w] = "rename" /\ busy
    /\ tries' = [tries EXCEPT ![w] = @ + 1]
    /\ Does(w, IF tries[w] + 1 < RenameAttempts THEN "rename" ELSE "cleanUp")
    /\ UNCHANGED <<names, disk, written, short, synced, temp, new, busy, writes, harms>>

\* Advisory: its failure is swallowed.
SyncDirectory(w) ==
    /\ doing[w] = "syncDirectory"
    /\ \/ disk' = names /\ UNCHANGED harms
       \/ UNCHANGED disk /\ Harm
    /\ Finishes(w)
    /\ UNCHANGED <<names, written, short, synced, busy, writes>>

Fails(w) ==
    /\ doing[w] \in {"write", "sync", "rename"} /\ Harm
    /\ Does(w, "cleanUp")
    /\ UNCHANGED <<names, disk, written, short, synced, temp, new, tries, busy, writes>>

CleanUp(w) ==
    /\ doing[w] = "cleanUp"
    /\ \/ names' = [names EXCEPT ![temp[w]] = NoFile] /\ UNCHANGED harms
       \/ UNCHANGED names /\ Harm
    /\ Finishes(w)
    /\ UNCHANGED <<disk, written, short, synced, busy, writes>>

Dies(w) ==
    /\ doing[w] # "idle" /\ Harm
    /\ Finishes(w)
    /\ UNCHANGED <<names, disk, written, short, synced, busy, writes>>

\* The system writes an entry of the directory back on its own.
WritesBack == \E n \in DOMAIN names :
    /\ disk' = [disk EXCEPT ![n] = names[n]]
    /\ UNCHANGED <<names, written, short, synced, writer, busy, writes, harms>>

\* Every process ends, the directory is what the disk has of it, and an unsynced
\* file may have lost bytes.
PowerLoss ==
    /\ Harm
    /\ names' = disk /\ UNCHANGED disk
    /\ \E lost \in SUBSET ((written \cup short) \ synced) :
        written' = written \ lost /\ short' = short \ lost
    /\ synced' = written' \cup short'
    /\ doing' = [w \in Writers |-> "idle"]
    /\ temp' = [w \in Writers |-> NoFile] /\ new' = temp'
    /\ tries' = [w \in Writers |-> 0]
    /\ busy' = FALSE
    /\ UNCHANGED writes

\* A reader or a virus scanner opens the target, or closes it.
Reads ==
    /\ names["target"] # NoFile
    /\ busy' = ~busy
    /\ UNCHANGED <<names, disk, written, short, synced, writer, writes, harms>>

WriterSteps(w) ==
    \/ Create(w) \/ WriteBytes(w) \/ Sync(w) \/ Rename(w) \/ RenameBlocked(w)
    \/ SyncDirectory(w) \/ Fails(w) \/ CleanUp(w) \/ Dies(w)

AtomicNext == (\E w \in Writers : WriterSteps(w)) \/ WritesBack \/ PowerLoss \/ Reads
AtomicSpec == AtomicInit /\ [][AtomicNext]_atomicVars
-----------------------------------------------------------------------------
\* What is in a file that was written short, and in one that lost its bytes.
Torn == MaxWrites + 1
Lost == MaxWrites + 2

\* What a writer puts into its file, and what a reader finds in one.
Doc(f) == IF f \in short THEN Torn ELSE f
Found(f) == IF f \in written \cup short \cup {NoFile} THEN Doc(f) ELSE Lost

Phase(w) ==
    CASE doing[w] \in {"write", "sync", "rename"} -> "writing"
      [] doing[w] = "cleanUp" -> "throwing"
      [] doing[w] = "syncDirectory" -> "written"
      [] OTHER -> "idle"

Target == INSTANCE AtomicRegister
            WITH Documents <- 0 .. MaxWrites, Nothing <- NoFile,
                 doc <- [w \in Writers |-> Doc(new[w])],
                 value <- Found(names["target"]), durable <- Found(disk["target"]),
                 phase <- [w \in Writers |-> Phase(w)]

\* The file is an atomic register. What a reader finds, now or after a power loss at
\* any moment, is all that the write of one caller put into its file, never less and
\* never a mixture; a write takes effect in one step; and a call that throws has
\* changed nothing, its own target or the temporary file of a peer (line 159). The
\* register holds a torn document only where write(2) took a part of one (line 130).
ImplementsRegister == Target!Spec

\* What the head of the file says of it: a crash, an exception mid-write or a full disk
\* "never leaves a torn/half-written document" (atomic-file.ts:14-15).
NeverTorn == names["target"] \in written \cup {NoFile}
=============================================================================
