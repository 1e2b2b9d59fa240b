--------------------------- MODULE StoreFileProofs ---------------------------
(***************************************************************************)
(* A store on disk, in two halves: the write of its file, for any writers, *)
(* temporary names, failures, short writes and power losses, which         *)
(* implements an atomic register; and the document in it, under any number *)
(* of writes of tools of two generations, which serves each plane what was *)
(* written last.                                                           *)
(***************************************************************************)
EXTENDS AtomicFile, MachineStore, TLAPS

(* The file.                                                               *)

\* The directory as this proof sees it, and the types.
Entries == Temps \cup {"target"}
Directory == [Entries -> Nat \cup {NoFile}]
Tasks == {"idle", "write", "sync", "rename", "syncDirectory", "cleanUp"}

\* The files whose write is over: what is in them is settled.
Over == written \cup short

FileTypes ==
    /\ names \in Directory /\ disk \in Directory
    /\ writes \in Nat
    /\ Over \subseteq 0 .. writes /\ synced \subseteq Over
    /\ doing \in [Writers -> Tasks]
    /\ temp \in [Writers -> Temps \cup {NoFile}]
    /\ new \in [Writers -> (0 .. writes) \cup {NoFile}]

\* The writer has a temporary file.
Holding(w) == doing[w] \in {"write", "sync", "rename", "cleanUp"}

\* Its name leads to its file.
OwnFile(w) == Holding(w) => temp[w] \in Temps /\ new[w] \in Nat /\ names[temp[w]] = new[w]

\* Nobody else has the name, and a peer's failure cannot unlink it; nor the file,
\* and a peer's write cannot tear it.
OwnName(w, v) == /\ w # v /\ Holding(w) /\ Holding(v) => temp[w] # temp[v]
                 /\ w # v /\ new[w] # NoFile => new[w] # new[v]

\* What is synced was written, once, and what is renamed was synced.
SyncedFirst(w) == /\ doing[w] = "write" => new[w] \notin Over
                  /\ doing[w] = "sync" => new[w] \in Over
                  /\ doing[w] = "rename" => new[w] \in synced

\* The target survives a power loss, as it is and as the disk has it.
TargetSynced == names["target"] \in synced \cup {NoFile} /\ disk["target"] \in synced \cup {NoFile}

\* The inductive invariant of the file: each half of it needs the other.
FileInv ==
    /\ FileTypes
    /\ \A w \in Writers : OwnFile(w) /\ SyncedFirst(w)
    /\ \A w, v \in Writers : OwnName(w, v)
    /\ TargetSynced
-----------------------------------------------------------------------------
\* At the start nobody writes.
LEMMA FileBegins == AtomicInit => FileInv
<1> SUFFICES ASSUME AtomicInit PROVE FileInv
  OBVIOUS
<1>1. FileTypes
  BY AtomicAssumption DEF AtomicInit, FileTypes, Over, Directory, Entries, Tasks
<1>2. \A w \in Writers : ~ Holding(w) /\ doing[w] = "idle" /\ new[w] = NoFile
  BY DEF AtomicInit, Holding
<1>3. TargetSynced
  BY DEF AtomicInit, TargetSynced
<1> QED
  BY <1>1, <1>2, <1>3 DEF FileInv, OwnFile, OwnName, SyncedFirst
-----------------------------------------------------------------------------
\* A writer creates its temporary file: under a name that nobody has.
LEMMA CreateKeeps ==
  ASSUME FileInv, NEW w \in Writers, Create(w)
  PROVE  FileInv'
<1> USE DEF FileInv
<1>1. PICK n \in Temps :
        /\ doing[w] = "idle"
        /\ writes' = writes + 1
        /\ IF names[n] # NoFile THEN UNCHANGED <<names, writer>>
           ELSE /\ names' = [names EXCEPT ![n] = writes + 1]
                /\ Does(w, "write")
                /\ temp' = [temp EXCEPT ![w] = n]
                /\ new' = [new EXCEPT ![w] = writes + 1]
                /\ UNCHANGED tries
        /\ UNCHANGED <<disk, written, short, synced, busy, harms>>
  BY DEF Create
<1>2. CASE names[n] # NoFile
  <2>1. UNCHANGED <<names, disk, written, short, synced, writer>> /\ writes' = writes + 1
    BY <1>1, <1>2
  <2>2. FileTypes'
    BY <2>1 DEF FileTypes, Over, writer
  <2> QED
    BY <2>1, <2>2 DEF writer, Over, OwnFile, OwnName, SyncedFirst, TargetSynced, Holding
<1>3. CASE names[n] = NoFile
  <2>1. /\ names' = [names EXCEPT ![n] = writes + 1]
        /\ doing' = [doing EXCEPT ![w] = "write"]
        /\ temp' = [temp EXCEPT ![w] = n]
        /\ new' = [new EXCEPT ![w] = writes + 1]
        /\ UNCHANGED <<disk, written, short, synced>>
    BY <1>1, <1>3 DEF Does
  <2>2. FileTypes'
    BY <1>1, <2>1 DEF FileTypes, Over, Directory, Entries, Tasks
  <2>3. \A v \in Writers : v # w /\ Holding(v) => temp[v] # n
    BY <1>3, AtomicAssumption DEF OwnFile
  <2>4. \A v \in Writers : OwnFile(v)'
    <3> SUFFICES ASSUME NEW v \in Writers, Holding(v)'
                 PROVE  (temp[v] \in Temps /\ new[v] \in Nat /\ names[temp[v]] = new[v])'
      BY DEF OwnFile
    <3>1. CASE v = w
      BY <1>1, <2>1, <3>1 DEF FileTypes, Directory, Entries
    <3>2. CASE v # w
      <4>1. Holding(v) /\ temp'[v] = temp[v] /\ new'[v] = new[v]
        BY <2>1, <3>2 DEF Holding, FileTypes
      <4>2. temp[v] # n
        BY <2>3, <3>2, <4>1
      <4> QED
        BY <2>1, <4>1, <4>2 DEF OwnFile, FileTypes, Directory, Entries
    <3> QED
      BY <3>1, <3>2
  <2>5. \A v \in Writers : SyncedFirst(v)'
    <3>1. writes + 1 \notin Over /\ UNCHANGED Over
      BY <2>1 DEF FileTypes, Over
    <3> QED
      BY <2>1, <3>1 DEF SyncedFirst, FileTypes
  <2>6. \A u, v \in Writers : OwnName(u, v)'
    <3>1. \A x \in Writers : x # w /\ Holding(x)' => Holding(x) /\ temp'[x] = temp[x]
      BY <2>1 DEF Holding, FileTypes
    <3>2. temp'[w] = n
      BY <2>1 DEF FileTypes
    <3>3. \A u, v \in Writers : u # v /\ Holding(u)' /\ Holding(v)' => temp'[u] # temp'[v]
      BY <2>3, <3>1, <3>2 DEF OwnName
    <3>4. \A x \in Writers : /\ new'[x] = IF x = w THEN writes + 1 ELSE new[x]
                             /\ new[x] # writes + 1
      BY <2>1, AtomicAssumption DEF FileTypes
    <3>5. \A u, v \in Writers : u # v /\ new'[u] # NoFile => new'[u] # new'[v]
      BY <3>4 DEF OwnName
    <3> QED
      BY <3>3, <3>5 DEF OwnName
  <2>7. TargetSynced'
    BY <2>1, AtomicAssumption DEF TargetSynced, FileTypes, Directory, Entries
  <2> QED
    BY <2>2, <2>4, <2>5, <2>6, <2>7
<1> QED
  BY <1>2, <1>3
-----------------------------------------------------------------------------
\* A step of a writer that keeps its temporary file.
LEMMA HeldKeeps ==
  ASSUME FileInv, NEW w \in Writers, NEW to \in {"sync", "rename", "cleanUp"},
         Holding(w), Does(w, to), UNCHANGED <<names, disk, temp, new, writes>>,
         \/ UNCHANGED Over
         \/ doing[w] = "write" /\ Over' = Over \cup {new[w]},
         synced \subseteq synced', synced' \subseteq Over',
         to = "sync" => new[w] \in Over',
         to = "rename" => new[w] \in synced'
  PROVE  FileInv'
<1> USE DEF FileInv
<1>1. /\ doing' = [doing EXCEPT ![w] = to]
      /\ \A v \in Writers : Holding(v)' => Holding(v)
      /\ \A v \in Writers : v # w => doing'[v] = doing[v]
      /\ doing'[w] = to
  BY DEF Does, Holding, FileTypes
<1>2. new[w] \in 0 .. writes /\ new[w] # NoFile
  BY AtomicAssumption DEF OwnFile, FileTypes
<1>3. FileTypes'
  BY <1>2, <1>1 DEF FileTypes, Tasks
<1>4. \A v \in Writers : OwnFile(v)' /\ SyncedFirst(v)'
  <2>1. \A v \in Writers : OwnFile(v)'
    BY <1>1 DEF OwnFile
  <2>2. \A v \in Writers : v # w => new[v] # new[w]
    BY <1>2 DEF OwnName
  <2>3. \A v \in Writers : SyncedFirst(v)'
    BY <1>1, <2>2 DEF SyncedFirst
  <2> QED
    BY <2>1, <2>3
<1>5. \A u, v \in Writers : OwnName(u, v)'
  BY <1>1 DEF OwnName
<1>6. TargetSynced'
  BY DEF TargetSynced
<1> QED
  BY <1>3, <1>4, <1>5, <1>6

\* A writer that returns, its temporary file removed or left behind.
LEMMA ReturnKeeps ==
  ASSUME FileInv, NEW w \in Writers, Finishes(w),
         \/ UNCHANGED names
         \/ Holding(w) /\ names' = [names EXCEPT ![temp[w]] = NoFile],
         disk' = disk \/ (disk' = names' /\ UNCHANGED names),
         UNCHANGED <<written, short, synced, writes>>
  PROVE  FileInv'
<1> USE DEF FileInv
<1>1. \A v \in Writers : /\ doing'[v] = IF v = w THEN "idle" ELSE doing[v]
                         /\ v # w => temp'[v] = temp[v] /\ new'[v] = new[v]
  BY DEF Finishes, Does, FileTypes
<1>2. \A v \in Writers : Holding(v)' => v # w /\ Holding(v)
  BY <1>1 DEF Holding
<1>3. names' \in Directory /\ \A n \in Entries :
        names'[n] = names[n] \/ (Holding(w) /\ n = temp[w])
  <2>1. CASE UNCHANGED names
    BY <2>1 DEF FileTypes
  <2>2. CASE Holding(w) /\ names' = [names EXCEPT ![temp[w]] = NoFile]
    BY <2>2 DEF FileTypes, Directory
  <2> QED
    BY <2>1, <2>2
<1>4. FileTypes'
  BY <1>3 DEF FileTypes, Over, Finishes, Does, Tasks
<1>5. \A v \in Writers : OwnFile(v)'
  <2> SUFFICES ASSUME NEW v \in Writers, Holding(v)'
               PROVE  (temp[v] \in Temps /\ new[v] \in Nat /\ names[temp[v]] = new[v])'
    BY DEF OwnFile
  <2>1. v # w /\ Holding(v) /\ temp'[v] = temp[v] /\ new'[v] = new[v]
    BY <1>1, <1>2
  <2>2. Holding(w) => temp[v] # temp[w]
    BY <2>1 DEF OwnName
  <2> QED
    BY <1>3, <2>1, <2>2 DEF OwnFile, Entries
<1>6. \A v \in Writers : SyncedFirst(v)'
  BY <1>1 DEF SyncedFirst, Over
<1>7. \A u, v \in Writers : OwnName(u, v)'
  <2>1. new'[w] = NoFile
    BY DEF Finishes, FileTypes
  <2> QED
    BY <1>1, <1>2, <2>1 DEF OwnName
<1>8. TargetSynced'
  <2>1. Holding(w) => temp[w] # "target"
    BY AtomicAssumption DEF OwnFile
  <2>2. names'["target"] = names["target"]
    BY <1>3, <2>1 DEF Entries
  <2> QED
    BY <2>2 DEF TargetSynced
<1> QED
  BY <1>4, <1>5, <1>6, <1>7, <1>8

\* The rename puts a synced file over the target and gives up the name.
LEMMA RenameKeeps ==
  ASSUME FileInv, NEW w \in Writers, Rename(w)
  PROVE  FileInv'
<1> USE DEF FileInv
<1>1. /\ doing[w] = "rename" /\ Holding(w)
      /\ temp[w] \in Temps /\ temp[w] # "target"
      /\ new[w] \in Nat /\ new[w] \in synced
  BY AtomicAssumption DEF Rename, Holding, OwnFile, SyncedFirst
<1>2. names[temp[w]] = new[w]
  BY <1>1 DEF OwnFile
<1>3. /\ names' \in Directory /\ names'["target"] = new[w]
      /\ \A n \in Temps : n # temp[w] => names'[n] = names[n]
  BY <1>2, <1>1, AtomicAssumption DEF Rename, FileTypes, Directory, Entries
<1>4. /\ UNCHANGED <<disk, written, short, synced, temp, new, writes>>
      /\ \A v \in Writers : doing'[v] = IF v = w THEN "syncDirectory" ELSE doing[v]
  BY DEF Rename, Does, FileTypes
<1>5. \A v \in Writers : Holding(v)' => v # w /\ Holding(v)
  BY <1>4 DEF Holding
<1>6. FileTypes'
  BY <1>3, <1>4 DEF FileTypes, Over, Rename, Does, Tasks
<1>7. \A v \in Writers : OwnFile(v)'
  <2> SUFFICES ASSUME NEW v \in Writers, Holding(v)'
               PROVE  (temp[v] \in Temps /\ new[v] \in Nat /\ names[temp[v]] = new[v])'
    BY DEF OwnFile
  <2>1. v # w /\ Holding(v) /\ temp[v] # temp[w]
    BY <1>1, <1>5 DEF OwnName
  <2> QED
    BY <1>3, <1>4, <2>1 DEF OwnFile
<1>8. \A v \in Writers : SyncedFirst(v)'
  BY <1>4 DEF SyncedFirst, Over
<1>9. \A u, v \in Writers : OwnName(u, v)'
  BY <1>4, <1>5 DEF OwnName
<1>10. TargetSynced'
  BY <1>1, <1>3, <1>4 DEF TargetSynced
<1> QED
  BY <1>6, <1>7, <1>8, <1>9, <1>10

\* What is lost with the power was never synced.
LEMMA PowerLossKeeps ==
  ASSUME FileInv, PowerLoss
  PROVE  FileInv'
<1> USE DEF FileInv
<1>1. /\ names' = disk /\ disk' = disk /\ UNCHANGED writes
      /\ doing' = [w \in Writers |-> "idle"]
      /\ temp' = [w \in Writers |-> NoFile] /\ new' = temp'
  BY DEF PowerLoss
<1>2. synced' = Over' /\ synced \subseteq Over' /\ Over' \subseteq Over
  BY DEF PowerLoss, FileTypes, Over
<1>3. names' \in Directory /\ disk' \in Directory
  BY <1>1 DEF FileTypes
<1>4. FileTypes'
  BY <1>1, <1>2, <1>3 DEF FileTypes, Tasks
<1>5. \A w \in Writers : ~ Holding(w)' /\ doing'[w] = "idle" /\ new'[w] = NoFile
  BY <1>1 DEF Holding
<1>6. TargetSynced'
  BY <1>1, <1>2, <1>3 DEF TargetSynced, Entries
<1> QED
  BY <1>4, <1>5, <1>6 DEF OwnFile, OwnName, SyncedFirst

\* Every step keeps the invariant.
LEMMA FileStep ==
  ASSUME FileInv, [AtomicNext]_atomicVars
  PROVE  FileInv'
<1>1. CASE UNCHANGED atomicVars
  BY <1>1 DEF atomicVars, FileInv, FileTypes, Over, OwnFile, OwnName, SyncedFirst,
              TargetSynced, Holding
<1>2. CASE PowerLoss
  BY <1>2, PowerLossKeeps
<1>3. CASE WritesBack
  <2>1. PICK n \in DOMAIN names : disk' = [disk EXCEPT ![n] = names[n]]
    BY <1>3 DEF WritesBack
  <2>2. disk' \in Directory /\ disk'["target"] \in {disk["target"], names["target"]}
    BY <2>1 DEF FileInv, FileTypes, Directory, Entries
  <2> QED
    BY <1>3, <2>2 DEF WritesBack, writer, FileInv, FileTypes, Over, OwnFile, OwnName, SyncedFirst,
       TargetSynced, Holding
<1>4. CASE Reads
  BY <1>4 DEF Reads, writer, FileInv, FileTypes, Over, OwnFile, OwnName, SyncedFirst,
     TargetSynced, Holding
<1>5. ASSUME NEW w \in Writers, WriterSteps(w)
      PROVE  FileInv'
  <2>1. CASE Create(w)
    BY <2>1, CreateKeeps
  <2>2. CASE WriteBytes(w)
    <3>1. Holding(w) /\ Over' = Over \cup {new[w]}
      BY <2>2 DEF WriteBytes, Holding, Over
    <3>2. synced \subseteq synced' /\ synced' \subseteq Over'
      BY <2>2, <3>1 DEF WriteBytes, FileInv, FileTypes
    <3> QED
      BY <2>2, <3>1, <3>2, HeldKeeps DEF WriteBytes
  <2>3. CASE Sync(w)
    <3>1. Holding(w) /\ new[w] \in Over /\ UNCHANGED Over
      BY <2>3 DEF Sync, Holding, Over, FileInv, SyncedFirst
    <3>2. synced \subseteq synced' /\ synced' \subseteq Over' /\ new[w] \in synced'
      BY <2>3, <3>1 DEF Sync, FileInv, FileTypes
    <3> QED
      BY <2>3, <3>1, <3>2, HeldKeeps DEF Sync
  <2>4. CASE Rename(w)
    BY <2>4, RenameKeeps
  <2>5. CASE RenameBlocked(w)
    <3>1. Holding(w) /\ new[w] \in synced
      BY <2>5 DEF RenameBlocked, Holding, FileInv, SyncedFirst
    <3>2. UNCHANGED <<Over, synced>> /\ synced \subseteq Over
      BY <2>5 DEF RenameBlocked, Over, FileInv, FileTypes
    <3>3. Does(w, "rename") \/ Does(w, "cleanUp")
      BY <2>5 DEF RenameBlocked
    <3> QED
      BY <2>5, <3>1, <3>2, <3>3, HeldKeeps DEF RenameBlocked
  <2>6. CASE SyncDirectory(w)
    BY <2>6, ReturnKeeps DEF SyncDirectory
  <2>7. CASE Fails(w)
    <3>1. Holding(w) /\ Does(w, "cleanUp")
      BY <2>7 DEF Fails, Holding
    <3>2. UNCHANGED <<Over, synced>> /\ synced \subseteq Over
      BY <2>7 DEF Fails, Over, FileInv, FileTypes
    <3> QED
      BY <2>7, <3>1, <3>2, HeldKeeps DEF Fails
  <2>8. CASE CleanUp(w)
    <3>1. Holding(w)
      BY <2>8 DEF CleanUp, Holding
    <3>2. /\ names' = [names EXCEPT ![temp[w]] = NoFile] \/ UNCHANGED names
          /\ Finishes(w) /\ UNCHANGED <<disk, written, short, synced, writes>>
      BY <2>8 DEF CleanUp
    <3> QED
      BY <3>1, <3>2, ReturnKeeps
  <2>9. CASE Dies(w)
    BY <2>9, ReturnKeeps DEF Dies
  <2> QED
    BY <1>5, <2>1, <2>2, <2>3, <2>4, <2>5, <2>6, <2>7, <2>8, <2>9 DEF WriterSteps
<1> QED
  BY <1>1, <1>2, <1>4, <1>5, <1>3 DEF AtomicNext
-----------------------------------------------------------------------------
\* The inductive invariant holds throughout: names and files are their writers' own,
\* every file is written once and synced before it is renamed, and what the target
\* leads to loses nothing of what was written, which a short write may have cut.
THEOREM AtomicInvariance == AtomicSpec => []FileInv
<1>1. AtomicInit => FileInv
  BY FileBegins
<1>2. FileInv /\ [AtomicNext]_atomicVars => FileInv'
  BY FileStep
<1> QED
  BY <1>1, <1>2, PTL DEF AtomicSpec
-----------------------------------------------------------------------------
(* The register.                                                           *)

\* The target leads to what a write put into its file, now and after a power loss.
AsWritten == /\ Found(names["target"]) = Doc(names["target"])
             /\ Found(disk["target"]) = Doc(disk["target"])

\* What a writer is in the middle of, as the register sees it.
PhaseNow == [w \in Writers |-> Phase(w)]

\* What it writes.
DocNow == [w \in Writers |-> Doc(new[w])]

\* What the invariant of the file says of a reader: nothing that was written is lost.
LEMMA NothingLost == FileInv => AsWritten
  BY DEF FileInv, FileTypes, Over, TargetSynced, AsWritten, Found

\* No file is no document, torn or whole.
LEMMA NoFileNoDoc == FileInv => Doc(NoFile) = NoFile
  BY AtomicAssumption DEF FileInv, FileTypes, Over, Doc

\* The document changes with the file.
LEMMA OneDoc ==
  ASSUME FileInv, NEW w \in Writers, NEW f, new' = [new EXCEPT ![w] = f], UNCHANGED short
  PROVE  DocNow' = [DocNow EXCEPT ![w] = Doc(f)]
  BY DEF DocNow, Doc, FileInv, FileTypes

\* And stays with the files and what is in them.
LEMMA DocKept == UNCHANGED <<new, short>> => UNCHANGED DocNow
  BY DEF DocNow, Doc

\* At the start the register holds the document of the target, or nothing.
LEMMA RegisterBegins == AtomicInit => Target!Init
<1> SUFFICES ASSUME AtomicInit PROVE Target!Init
  OBVIOUS
<1>1. /\ names["target"] \in {NoFile, 0} /\ disk = names /\ written = {0} /\ short = {}
      /\ \A w \in Writers : doing[w] = "idle"
      /\ new = [w \in Writers |-> NoFile]
  BY DEF AtomicInit
<1>2. /\ Found(names["target"]) = names["target"]
      /\ [w \in Writers |-> Doc(new[w])] = [w \in Writers |-> NoFile]
  BY <1>1 DEF Found, Doc
<1>3. names["target"] \in (0 .. MaxWrites) \cup {NoFile}
  BY <1>1, AtomicAssumption
<1>4. [w \in Writers |-> Phase(w)] = [w \in Writers |-> "idle"]
  BY <1>1 DEF Phase
<1> QED
  BY <1>1, <1>2, <1>3, <1>4 DEF Target!Init

\* A step of one writer is a step of its phase alone.
LEMMA OnePhase ==
  ASSUME FileInv, NEW w \in Writers, NEW to \in Tasks, Does(w, to)
  PROVE  PhaseNow' = [PhaseNow EXCEPT ![w] = Phase(w)']
<1>1. \A v \in Writers : doing'[v] = IF v = w THEN to ELSE doing[v]
  BY DEF Does, FileInv, FileTypes
<1>2. \A v \in Writers \ {w} : Phase(v)' = Phase(v)
  BY <1>1 DEF Phase
<1> QED
  BY <1>2 DEF PhaseNow

\* A step of nobody's is a step of no phase.
LEMMA PhaseKept == UNCHANGED doing => UNCHANGED PhaseNow
  BY DEF PhaseNow, Phase

\* What a reader finds is what it found, while the target leads to the same file.
LEMMA SameFound ==
  ASSUME AsWritten, AsWritten', UNCHANGED <<names["target"], disk["target"], short>>
  PROVE  UNCHANGED <<Found(names["target"]), Found(disk["target"])>>
  BY DEF AsWritten, Doc

\* Steps that touch no file, no name and no writer are none of the register.
LEMMA NothingMoves ==
  ASSUME AsWritten, AsWritten', UNCHANGED <<names["target"], disk["target"], doing, new, short>>
  PROVE  UNCHANGED Target!registerVars
<1>1. UNCHANGED <<Found(names["target"]), Found(disk["target"])>>
  BY SameFound
<1> QED
  BY <1>1, PhaseKept, DocKept DEF PhaseNow, DocNow, Target!registerVars

\* A writer creates its temporary file: a write begins, or the name was taken.
LEMMA CreateRegisters ==
  ASSUME FileInv, AsWritten, AsWritten', NEW w \in Writers, Create(w)
  PROVE  [Target!Next]_(Target!registerVars)
<1>1. PICK n \in Temps :
        /\ doing[w] = "idle" /\ writes < MaxWrites
        /\ IF names[n] # NoFile THEN UNCHANGED <<names, writer>>
           ELSE /\ names' = [names EXCEPT ![n] = writes + 1]
                /\ Does(w, "write")
                /\ new' = [new EXCEPT ![w] = writes + 1]
        /\ UNCHANGED <<disk, short>>
  BY DEF Create
<1>2. CASE names[n] # NoFile
  <2>1. UNCHANGED <<names, disk, doing, new, short>>
    BY <1>1, <1>2 DEF writer
  <2> QED
    BY <2>1, NothingMoves
<1>3. CASE names[n] = NoFile
  <2>1. writes + 1 \in 0 .. MaxWrites
    BY <1>1, AtomicAssumption DEF FileInv, FileTypes
  <2>2. UNCHANGED <<names["target"], disk, short>>
    BY <1>1, <1>3, AtomicAssumption DEF FileInv, FileTypes, Directory, Entries
  <2>3. DocNow' = [DocNow EXCEPT ![w] = writes + 1]
    <3>1. Doc(writes + 1) = writes + 1
      BY DEF Doc, FileInv, FileTypes, Over
    <3> QED
      BY <1>1, <1>3, <3>1, OneDoc
  <2>4. UNCHANGED <<Found(names["target"]), Found(disk["target"])>>
    BY <2>2, SameFound
  <2>5. Does(w, "write") /\ Phase(w) = "idle" /\ Phase(w)' = "writing"
    BY <1>1, <1>3 DEF Does, Phase, FileInv, FileTypes
  <2>6. Target!Begin(w, writes + 1)
    BY <2>5, <2>3, <2>4, OnePhase DEF PhaseNow, DocNow, Target!Begin, Target!Move, Tasks
  <2> QED
    BY <2>1, <2>6 DEF Target!Next
<1> QED
  BY <1>2, <1>3

\* The rename is the moment at which the write takes effect.
LEMMA RenameRegisters ==
  ASSUME FileInv, AsWritten, AsWritten', NEW w \in Writers, Rename(w)
  PROVE  Target!Replace(w)
<1>1. Holding(w) /\ temp[w] \in Temps /\ names[temp[w]] = new[w]
  BY DEF Rename, Holding, FileInv, OwnFile
<1>2. names'["target"] = new[w] /\ UNCHANGED <<disk, new, short>>
  BY <1>1, AtomicAssumption DEF Rename, FileInv, FileTypes, Directory, Entries
<1>3. Found(names["target"])' = DocNow[w] /\ UNCHANGED Found(disk["target"])
  BY <1>2 DEF AsWritten, Doc, DocNow
<1>4. Does(w, "syncDirectory") /\ Phase(w) = "writing" /\ Phase(w)' = "written"
  BY DEF Rename, Does, Phase, FileInv, FileTypes
<1> QED
  BY <1>2, <1>4, <1>3, OnePhase, DocKept DEF PhaseNow, DocNow, Target!Replace, Target!Move, Tasks

\* A call that is over: it returns what it wrote, or failed before it did.
LEMMA EndRegisters ==
  ASSUME FileInv, AsWritten, AsWritten', NEW w \in Writers, doing[w] # "idle", Finishes(w),
         UNCHANGED <<names["target"], short>>,
         \/ UNCHANGED disk["target"]
         \/ doing[w] = "syncDirectory" /\ disk'["target"] = names["target"]
  PROVE  Target!Return(w) \/ Target!Fail(w)
<1>1. Does(w, "idle") /\ Phase(w)' = "idle" /\ new' = [new EXCEPT ![w] = NoFile]
  BY DEF Finishes, Does, Phase, FileInv, FileTypes
<1>2. PhaseNow' = [PhaseNow EXCEPT ![w] = "idle"]
  BY <1>1, OnePhase DEF PhaseNow, Tasks
<1>3. DocNow' = [DocNow EXCEPT ![w] = NoFile]
  BY <1>1, OneDoc, NoFileNoDoc
<1>4. /\ UNCHANGED Found(names["target"])
      /\ \/ UNCHANGED Found(disk["target"])
         \/ doing[w] = "syncDirectory" /\ Found(disk["target"])' = Found(names["target"])
  BY DEF AsWritten, Doc
<1>5. CASE doing[w] = "syncDirectory"
  <2>1. Phase(w) = "written"
    BY <1>5 DEF Phase
  <2>2. Target!Return(w)
    BY <1>2, <1>3, <1>4, <2>1 DEF Target!Return, Target!Move, PhaseNow, DocNow
  <2> QED
    BY <2>2
<1>6. CASE doing[w] # "syncDirectory"
  <2>1. Phase(w) \in {"writing", "throwing"}
    BY <1>6 DEF Phase, FileInv, FileTypes, Tasks
  <2>2. Target!Fail(w)
    BY <1>2, <1>6, <1>3, <1>4, <2>1 DEF Target!Fail, Target!Move, PhaseNow, DocNow
  <2> QED
    BY <2>2
<1> QED
  BY <1>5, <1>6

\* A failed step before the rename: the call will throw, and wrote nothing.
LEMMA FailureRegisters ==
  ASSUME FileInv, AsWritten, AsWritten', NEW w \in Writers,
         doing[w] \in {"write", "sync", "rename"}, Does(w, "cleanUp"),
         UNCHANGED <<names, disk, new, short>>
  PROVE  Target!Throw(w)
<1>1. Phase(w) = "writing" /\ Phase(w)' = "throwing"
  BY DEF Does, Phase, FileInv, FileTypes
<1> QED
  BY <1>1, OnePhase, DocKept, SameFound
  DEF PhaseNow, DocNow, Target!Throw, Target!Move, Tasks

\* A step on the temporary file, or one more attempt: nothing for the register.
LEMMA WorkRegisters ==
  ASSUME FileInv, AsWritten, AsWritten', NEW w \in Writers,
         doing[w] \in {"write", "sync", "rename"}, NEW to \in {"sync", "rename"}, Does(w, to),
         UNCHANGED <<names, disk, new, short>>
  PROVE  UNCHANGED Target!registerVars
<1>1. Phase(w)' = Phase(w)
  BY DEF Does, Phase, FileInv, FileTypes
<1>2. UNCHANGED PhaseNow
  BY <1>1, OnePhase DEF PhaseNow, Tasks
<1> QED
  BY <1>2, DocKept, SameFound DEF Target!registerVars, PhaseNow, DocNow

\* A write of which the disk takes a part tears the document of its writer: no other
\* writer has the file, and the target does not lead to it.
LEMMA ShortRegisters ==
  ASSUME FileInv, AsWritten, AsWritten', NEW w \in Writers, WriteBytes(w),
         short' = short \cup {new[w]}
  PROVE  Target!Truncate(w)
<1>1. /\ doing[w] = "write" /\ Does(w, "sync") /\ UNCHANGED <<names, disk, new>>
      /\ Phase(w) = "writing" /\ Phase(w)' = Phase(w)
  BY DEF WriteBytes, Does, Phase, FileInv, FileTypes
<1>2. new[w] \notin Over /\ new[w] # NoFile /\ \A v \in Writers : v # w => new[v] # new[w]
  BY <1>1, AtomicAssumption DEF FileInv, SyncedFirst, OwnFile, OwnName, Holding
<1>3. new[w] # names["target"] /\ new[w] # disk["target"]
  BY <1>2 DEF FileInv, FileTypes, TargetSynced
<1>4. UNCHANGED <<Found(names["target"]), Found(disk["target"])>>
  BY <1>1, <1>3 DEF AsWritten, Doc
<1>5. DocNow' = [DocNow EXCEPT ![w] = Torn]
  BY <1>1, <1>2 DEF DocNow, Doc
<1>6. UNCHANGED PhaseNow
  BY <1>1, OnePhase DEF PhaseNow, Tasks
<1> QED
  BY <1>1, <1>4, <1>5, <1>6 DEF PhaseNow, DocNow, Target!Truncate

\* Each system call of a writer is a step of its write, or none.
LEMMA WriterRegisters ==
  ASSUME FileInv, AsWritten, AsWritten', NEW w \in Writers, WriterSteps(w)
  PROVE  [Target!Next]_(Target!registerVars)
<1>1. CASE Create(w)
  BY <1>1, CreateRegisters
<1>2. CASE WriteBytes(w)
  <2>1. CASE UNCHANGED short
    BY <1>2, <2>1, WorkRegisters DEF WriteBytes
  <2>2. CASE short' = short \cup {new[w]}
    BY <1>2, <2>2, ShortRegisters DEF Target!Next
  <2> QED
    BY <1>2, <2>1, <2>2 DEF WriteBytes
<1>3. CASE Sync(w)
  BY <1>3, WorkRegisters DEF Sync
<1>4. CASE Rename(w)
  BY <1>4, RenameRegisters DEF Target!Next
<1>5. CASE RenameBlocked(w)
  <2>1. doing[w] = "rename" /\ UNCHANGED <<names, disk, new, short>>
        /\ (Does(w, "rename") \/ Does(w, "cleanUp"))
    BY <1>5 DEF RenameBlocked
  <2>2. CASE Does(w, "rename")
    BY <2>1, <2>2, WorkRegisters
  <2>3. CASE Does(w, "cleanUp")
    BY <2>1, <2>3, FailureRegisters DEF Target!Next
  <2> QED
    BY <2>1, <2>2, <2>3
<1>6. CASE SyncDirectory(w)
  BY <1>6, EndRegisters DEF SyncDirectory, Target!Next
<1>7. CASE Fails(w)
  BY <1>7, FailureRegisters DEF Fails, Target!Next
<1>8. CASE CleanUp(w)
  <2>1. temp[w] \in Temps
    BY <1>8 DEF CleanUp, FileInv, OwnFile, Holding
  <2>2. UNCHANGED names["target"]
    BY <1>8, <2>1, AtomicAssumption DEF CleanUp, FileInv, FileTypes, Directory, Entries
  <2> QED
    BY <1>8, <2>2, EndRegisters DEF CleanUp, Target!Next
<1>9. CASE Dies(w)
  BY <1>9, EndRegisters DEF Dies, Target!Next
<1> QED
  BY <1>1, <1>2, <1>3, <1>4, <1>5, <1>6, <1>7, <1>8, <1>9 DEF WriterSteps

\* So is each step of the system.
LEMMA StepRegisters ==
  ASSUME FileInv, AsWritten, AsWritten', [AtomicNext]_atomicVars
  PROVE  [Target!Next]_(Target!registerVars)
<1>1. CASE UNCHANGED atomicVars \/ Reads
  <2>1. UNCHANGED <<names, disk, doing, new, short>>
    BY <1>1 DEF atomicVars, Reads, writer
  <2> QED
    BY <2>1, NothingMoves
<1>2. CASE WritesBack
  <2>1. PICK n \in DOMAIN names : disk' = [disk EXCEPT ![n] = names[n]]
    BY <1>2 DEF WritesBack
  <2>2. UNCHANGED <<names, doing, new, short>>
    BY <1>2 DEF WritesBack, writer
  <2>3. disk'["target"] \in {disk["target"], names["target"]}
    BY <2>1 DEF FileInv, FileTypes, Directory
  <2>4. /\ UNCHANGED Found(names["target"])
        /\ Found(disk["target"])' \in {Found(disk["target"]), Found(names["target"])}
    BY <2>2, <2>3 DEF AsWritten, Doc
  <2>5. Target!Flush \/ UNCHANGED Target!registerVars
    BY <2>2, <2>4, PhaseKept, DocKept DEF PhaseNow, DocNow, Target!Flush, Target!registerVars
  <2> QED
    BY <2>5 DEF Target!Next
<1>3. CASE PowerLoss
  <2>1. names' = disk /\ UNCHANGED disk /\ new' = [w \in Writers |-> NoFile]
        /\ doing' = [w \in Writers |-> "idle"]
    BY <1>3 DEF PowerLoss
  <2>2. PhaseNow' = [w \in Writers |-> "idle"]
    BY <2>1 DEF PhaseNow, Phase
  <2>3. /\ \A f \in synced \cup {NoFile} : Doc(f)' = Doc(f)
        /\ Doc(NoFile)' = NoFile
    BY <1>3, NoFileNoDoc DEF PowerLoss, Doc
  <2>4. /\ Found(names["target"])' = Found(disk["target"])
        /\ UNCHANGED Found(disk["target"])
    BY <2>1, <2>3 DEF AsWritten, FileInv, TargetSynced, Doc
  <2>5. DocNow' = [w \in Writers |-> NoFile]
    BY <2>1, <2>3 DEF DocNow, Doc
  <2>6. Target!PowerLoss
    BY <2>2, <2>4, <2>5 DEF Target!PowerLoss, PhaseNow, DocNow
  <2> QED
    BY <2>6 DEF Target!Next
<1>4. CASE \E w \in Writers : WriterSteps(w)
  BY <1>4, WriterRegisters
<1> QED
  BY <1>1, <1>2, <1>3, <1>4 DEF AtomicNext

\* A store's file is an atomic register, for any number of processes that write
\* it, any interleaving of their system calls, and any number of failed calls,
\* short writes, crashes and power losses: a reader finds all that one write put
\* into its file, which is a whole document unless that very write was short; a
\* write takes effect in one step with its own caller's bytes, a call that throws
\* had none, and no writer renames or unlinks the temporary file of another
\* (writeFileAtomicSync, atomic-file.ts:117-171).
THEOREM RegisterImplemented == AtomicSpec => ImplementsRegister
<1>1. FileInv /\ AsWritten /\ AsWritten' /\ [AtomicNext]_atomicVars
        => [Target!Next]_(Target!registerVars)
  BY StepRegisters
<1>2. AtomicSpec => []AsWritten
  BY AtomicInvariance, NothingLost, PTL
<1> QED
  BY RegisterBegins, AtomicInvariance, <1>1, <1>2, PTL
  DEF AtomicSpec, ImplementsRegister, Target!Spec
-----------------------------------------------------------------------------
(* The document.                                                           *)

\* Where there is no document, nobody was served one since.
Signed == document = NoCredential => newest = Unserved

\* The inductive invariant of the document.
DocumentInv == StoreTypeOK /\ NewestServed /\ Signed

\* Two families serve the two planes: what a write makes of the families, the
\* mirror and a reader of either generation see alike.
LEMMA MirrorServes ==
  ASSUME NEW d \in Document
  PROVE  /\ Mirrored(d) \in Document
         /\ ~ d.flat => Mirrored(d).top = HubFamily(d.families)
         /\ Mirrored(d).flat = d.flat /\ Mirrored(d).families = d.families
<1>1. Mirrored(d) \in Document
  BY DEF Mirrored, Document, Names
<1> QED
  BY <1>1 DEF Mirrored, Document, HubFamily

\* The adoption of an old document keeps its credential, as the legacy family.
LEMMA AdoptionServes ==
  ASSUME NEW d \in Document
  PROVE  /\ Adopted(d) \in Document /\ ~ Adopted(d).flat
         /\ Adopted(d).families = Effective(d)
         /\ Effective(d) \in [Names -> Tokens]
<1>1. Effective(d) \in [Names -> Tokens]
  BY DEF Effective, Document, NoFamilies, Names, Tokens
<1>2. [d EXCEPT !.flat = FALSE, !.families = Effective(d)] \in Document
  BY <1>1 DEF Document
<1> QED
  BY <1>1, <1>2, MirrorServes DEF Adopted, Document

\* What a writer reads is a document: the stored one, if it is readable.
LEMMA CurrentIsADocument ==
  StoreTypeOK => Current \in Document /\ (Readable => Current = document)
BY DEF StoreTypeOK, Current, Readable, Empty, Document, NoFamilies, Names, Tokens

\* A write of token t into family n of d serves it to the plane of n.
LEMMA WriteServes ==
  ASSUME NEW d \in Document, NEW n \in Names, NEW t \in Nat,
         NEW was \in [agent : Tokens, hub : Tokens],
         HubFamily(Effective(d)) = was.hub, Effective(d)["agent"] = was.agent,
         NoCredential \notin Nat
  PROVE  LET e == Mirrored([Adopted(d) EXCEPT !.families[n] = t])
             now == Given(was, n, t, Effective(d))
         IN  /\ e \in Document /\ ~ e.flat
             /\ now \in [agent : Tokens, hub : Tokens]
             /\ e.top = now.hub
             /\ HubFamily(Effective(e)) = now.hub
             /\ Effective(e)["agent"] = now.agent
<1> DEFINE f == [Effective(d) EXCEPT ![n] = t]
           a == [Adopted(d) EXCEPT !.families[n] = t]
           e == Mirrored(a)
           now == Given(was, n, t, Effective(d))
<1>1. f \in [Names -> Tokens]
  BY AdoptionServes DEF Tokens
<1>2. a \in Document /\ ~ a.flat /\ a.families = f
  BY <1>1, AdoptionServes DEF Document
<1>3. e \in Document /\ ~ e.flat /\ e.families = f /\ e.top = HubFamily(f)
  BY <1>2, MirrorServes
<1>4. HubFamily(f) = now.hub /\ f["agent"] = now.agent
  BY AdoptionServes DEF HubFamily, Given, Names, Tokens
<1>5. now \in [agent : Tokens, hub : Tokens]
  BY DEF Given, Tokens
<1> QED
  BY <1>3, <1>4, <1>5 DEF Effective
-----------------------------------------------------------------------------
\* At first there is no document, and no plane is served.
LEMMA DocumentBegins == StoreInit => DocumentInv
  BY DEF StoreInit, DocumentInv, StoreTypeOK, NewestServed, Signed, Unserved, Tokens

\* The premises of WriteServes, for the document that a writer reads.
LEMMA ReadIsServed ==
  ASSUME DocumentInv, Readable
  PROVE  /\ document \in Document /\ Current = document
         /\ newest \in [agent : Tokens, hub : Tokens]
         /\ HubFamily(Effective(document)) = newest.hub
         /\ Effective(document)["agent"] = newest.agent
  BY CurrentIsADocument DEF DocumentInv, NewestServed, StoreTypeOK, Readable

\* One who replaces what is missing or cannot be read begins from nothing.
LEMMA NothingIsServed ==
  /\ Empty \in Document /\ Unserved \in [agent : Tokens, hub : Tokens]
  /\ HubFamily(Effective(Empty)) = Unserved.hub
  /\ Effective(Empty)["agent"] = Unserved.agent
  BY DEF Empty, Document, NoFamilies, Names, Tokens, Unserved, HubFamily, Effective

\* A write of a new token into family n, by whoever knows what was served.
LEMMA WriteFamilyKeeps ==
  ASSUME DocumentInv, NEW n \in Names, WriteFamily(n),
         NEW was \in [agent : Tokens, hub : Tokens],
         HubFamily(Effective(Current)) = was.hub, Effective(Current)["agent"] = was.agent,
         newest' = Given(was, n, issued + 1, Effective(Current))
  PROVE  DocumentInv'
<1>1. Current \in Document /\ issued + 1 \in Nat
  BY CurrentIsADocument DEF DocumentInv, StoreTypeOK
<1>2. document' = Mirrored([Adopted(Current) EXCEPT !.families[n] = issued + 1])
  BY DEF WriteFamily, Persists
<1>3. /\ document' \in Document
      /\ newest' \in [agent : Tokens, hub : Tokens]
      /\ document'.top = newest'.hub
      /\ HubFamily(Effective(document')) = newest'.hub
      /\ Effective(document')["agent"] = newest'.agent
  BY <1>1, <1>2, WriteServes, StoreAssumption
<1>4. legible' \in BOOLEAN /\ issued' \in Nat
  BY <1>1 DEF WriteFamily, Issue
<1> QED
  BY <1>3, <1>4, StoreAssumption DEF DocumentInv, StoreTypeOK, NewestServed, Signed

\* A rotation, a derivation and a login are writes of a family.
LEMMA RefreshKeeps ==
  ASSUME DocumentInv, NEW n \in Names, Refresh(n) PROVE DocumentInv'
  BY ReadIsServed, WriteFamilyKeeps DEF Refresh

LEMMA DeriveKeeps ==
  ASSUME DocumentInv, Derive PROVE DocumentInv'
  BY ReadIsServed, WriteFamilyKeeps, "plugin" \in Names DEF Derive, Names

LEMMA CommitKeeps ==
  ASSUME DocumentInv, NEW n \in Names, Commit(n) PROVE DocumentInv'
<1>1. CASE Readable
  BY <1>1, ReadIsServed, WriteFamilyKeeps DEF Commit
<1>2. CASE ~ Readable
  BY <1>2, NothingIsServed, WriteFamilyKeeps DEF Commit, Current
<1> QED
  BY <1>1, <1>2

\* A document of one family serves its plane, and nothing the other.
LEMMA SwitchKeeps ==
  ASSUME DocumentInv, NEW n \in Names, Switch(n) PROVE DocumentInv'
<1> DEFINE f == [NoFamilies EXCEPT ![n] = issued + 1]
           d == [flat |-> FALSE, top |-> NoCredential, families |-> f]
<1>1. n \in {"agent", "plugin"} /\ issued + 1 \in Nat
  BY DEF DocumentInv, StoreTypeOK, Switch
<1>2. f \in [Names -> Tokens] /\ d \in Document
  BY <1>1 DEF NoFamilies, Names, Tokens, Document
<1>3. document' = Mirrored(d) /\ newest' = Given(Unserved, n, issued + 1, NoFamilies)
  BY DEF Switch, Persists
<1>4. document' \in Document /\ document'.top = HubFamily(f)
      /\ Effective(document') = f
  BY <1>2, <1>3, MirrorServes DEF Effective
<1>5. HubFamily(f) = newest'.hub /\ f["agent"] = newest'.agent
  BY <1>1, <1>3, StoreAssumption DEF HubFamily, NoFamilies, Names, Given, Unserved
<1>6. newest' \in [agent : Tokens, hub : Tokens]
  BY <1>1, <1>3 DEF Given, Unserved, Tokens
<1>7. legible' \in BOOLEAN /\ issued' \in Nat
  BY <1>1 DEF Switch, Issue, DocumentInv, StoreTypeOK
<1> QED
  BY <1>4, <1>5, <1>6, <1>7, StoreAssumption DEF DocumentInv, StoreTypeOK, NewestServed, Signed

\* rotate names the family that serves the hub, and so is a write of that family.
LEMMA RotateKeeps ==
  ASSUME DocumentInv, Rotate PROVE DocumentInv'
<1> DEFINE old == Adopted(Current)
           target == IF old.families["plugin"] # NoCredential THEN "plugin" ELSE "legacy"
           was == IF Readable THEN newest ELSE Unserved
<1>1. /\ Current \in Document /\ was \in [agent : Tokens, hub : Tokens]
      /\ HubFamily(Effective(Current)) = was.hub
      /\ Effective(Current)["agent"] = was.agent
  BY ReadIsServed, NothingIsServed DEF Current
<1>2. old.families = Effective(Current) /\ issued + 1 \in Nat /\ target \in Names
  BY <1>1, AdoptionServes DEF DocumentInv, StoreTypeOK, Names
<1>3. document' = Mirrored([old EXCEPT !.families[target] = issued + 1])
  BY DEF Rotate, Persists
<1>4. was = newest
  BY DEF Rotate, Readable, DocumentInv, Signed
<1>5. newest' = Given(was, target, issued + 1, Effective(Current))
  BY <1>2, <1>4 DEF Rotate, Given
<1>6. /\ document' \in Document
      /\ newest' \in [agent : Tokens, hub : Tokens]
      /\ document'.top = newest'.hub
      /\ HubFamily(Effective(document')) = newest'.hub
      /\ Effective(document')["agent"] = newest'.agent
  BY <1>1, <1>2, <1>3, <1>5, WriteServes, StoreAssumption
<1>7. legible' \in BOOLEAN /\ issued' \in Nat
  BY <1>2 DEF Rotate, Issue, DocumentInv, StoreTypeOK
<1> QED
  BY <1>6, <1>7, StoreAssumption DEF DocumentInv, StoreTypeOK, NewestServed, Signed

\* What an old tool writes is read as a legacy family.
LEMMA OldWritesKeep ==
  ASSUME DocumentInv, OldWrites PROVE DocumentInv'
<1>1. /\ issued + 1 \in Nat /\ issued' = issued + 1 /\ legible' = TRUE
      /\ document' = [flat |-> TRUE, top |-> issued + 1, families |-> NoFamilies]
      /\ newest' = [agent |-> NoCredential, hub |-> issued + 1]
  <2>1. issued + 1 \in Nat /\ issued' = issued + 1 /\ legible' = TRUE
    BY DEF DocumentInv, StoreTypeOK, OldWrites, Issue
  <2>2. document' = [flat |-> TRUE, top |-> issued + 1, families |-> NoFamilies]
    BY DEF OldWrites, Empty
  <2>3. newest' = [agent |-> NoCredential, hub |-> issued + 1]
    BY DEF OldWrites, Unserved
  <2> QED
    BY <2>1, <2>2, <2>3
<1>2. document' \in Document /\ newest' \in [agent : Tokens, hub : Tokens]
  BY <1>1 DEF Document, NoFamilies, Names, Tokens
<1>3. Effective(document') = [NoFamilies EXCEPT !["legacy"] = issued + 1]
  BY <1>1 DEF Effective
<1>4. HubFamily(Effective(document')) = issued + 1 /\ Effective(document')["agent"] = NoCredential
  BY <1>3 DEF HubFamily, NoFamilies, Names
<1> QED
  BY <1>1, <1>2, <1>4, StoreAssumption DEF DocumentInv, StoreTypeOK, NewestServed, Signed
-----------------------------------------------------------------------------
\* Every write keeps the invariant of the document.
LEMMA DocumentStep ==
  ASSUME DocumentInv, [StoreNext]_storeVars PROVE DocumentInv'
<1>1. CASE StoreNext
  <2>1. CASE Delete
    BY <2>1 DEF Delete, DocumentInv, StoreTypeOK, NewestServed, Signed, Unserved, Tokens
  <2>2. CASE CodecTurns
    BY <2>2 DEF CodecTurns, DocumentInv, StoreTypeOK, NewestServed, Signed
  <2> QED
    BY <1>1, <2>1, <2>2, RefreshKeeps, CommitKeeps, SwitchKeeps, DeriveKeeps, RotateKeeps,
       OldWritesKeep DEF StoreNext
<1>2. CASE UNCHANGED storeVars
  BY <1>2 DEF storeVars, DocumentInv, StoreTypeOK, NewestServed, Signed
<1> QED
  BY <1>1, <1>2

\* Every plane is served what was written last for it, in whatever order and
\* however often old and updated tools rotate, sign in, switch accounts and sign
\* out, and while the document cannot be read (applyV1CompatMirror,
\* machine-credentials.ts:227).
THEOREM PlanesAreServed == StoreSpec => []NewestServed
<1>1. DocumentInv => NewestServed
  BY DEF DocumentInv
<1>2. DocumentInv /\ [StoreNext]_storeVars => DocumentInv'
  BY DocumentStep
<1> QED
  BY DocumentBegins, <1>1, <1>2, PTL DEF StoreSpec
=============================================================================
