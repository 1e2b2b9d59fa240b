------------------------- MODULE ServerDownloadProofs -------------------------
(***************************************************************************)
(* The download of the server, for any processes, any versions and any     *)
(* number of installs and mishaps: the cache holds what it names.          *)
(***************************************************************************)
EXTENDS ServerDownload, TLAPS

Types ==
    /\ installed \in [Places -> Build \cup Versions \cup {Nothing}]
    /\ step \in [Installers -> Steps]
    /\ pin \in [Installers -> Versions \cup {Nothing}]
    /\ bytes \in [Installers -> BOOLEAN]
    /\ left \in [Installers -> SUBSET Places]
    /\ raced \in BOOLEAN

\* Only bytes that were verified, or trusted, are unpacked; the marker is not
\* among the files that move.
Vouched(i) ==
    /\ step[i] # "idle" => pin[i] \in Versions
    /\ Filling(i) \/ step[i] = "unpack" => bytes[i]
    /\ step[i] = "move" => "marker" \notin left[i]

\* What i installs.
Mine(i) == [version |-> pin[i], good |-> bytes[i]]

\* While i alone fills the directory, there is no marker before the end, and the
\* binary is the one of i once it has moved.
Filled(i) ==
    /\ step[i] \in {"make", "move", "check", "mark"} => installed["marker"] = Nothing
    /\ step[i] = "move" /\ "binary" \notin left[i] => installed["binary"] = Mine(i)
    /\ step[i] \in {"check", "mark"} => installed["binary"] = Mine(i)

Alone(i) == \A j \in Installers : Filling(j) => j = i

IInv ==
    /\ Types
    /\ \A i \in Installers : Vouched(i)
    /\ ~ raced => \A i \in Installers : Filling(i) => Alone(i) /\ Filled(i)
    /\ CacheHoldsPin
-----------------------------------------------------------------------------
\* The directory is empty at first, and nobody fills it.
LEMMA Initially == DownloadInit => IInv
  BY DEF DownloadInit, IInv, Types, Places, Missing, Steps, Vouched, Filling, CacheHoldsPin

\* What the steps below share: the processes but i stay where they are.
Others(i) == \A j \in Installers : j # i =>
    /\ step'[j] = step[j] /\ pin'[j] = pin[j]
    /\ bytes'[j] = bytes[j] /\ left'[j] = left[j]

\* A step of i keeps the invariant when i does not fill, or leaves, the
\* directory, which stays as it is or loses files.
LEMMA OutsideKeeps ==
  ASSUME IInv, NEW i \in Installers, Types', Others(i), ~ Filling(i)',
         Vouched(i)', raced' = raced,
         UNCHANGED installed
  PROVE  IInv'
<1>1. \A j \in Installers : Filling(j)' => j # i /\ Filling(j)
  BY DEF Others, Filling
<1>2. \A j \in Installers : Vouched(j)'
  BY DEF IInv, Others, Vouched, Filling
<1>3. ASSUME ~ raced', NEW j \in Installers, Filling(j)'
      PROVE  Alone(j)' /\ Filled(j)'
  <2>1. j # i /\ Filling(j) /\ Alone(j) /\ Filled(j)
    BY <1>1, <1>3 DEF IInv
  <2> QED
    BY <1>1, <2>1 DEF Alone, Filled, Mine, Others
<1> QED
  BY <1>2, <1>3 DEF IInv, CacheHoldsPin

\* A step of i within the directory.
LEMMA InsideKeeps ==
  ASSUME IInv, NEW i \in Installers, Types', Others(i), Filling(i),
         Vouched(i)', raced' = raced,
         ~ raced /\ Filling(i)' => Filled(i)',
         ~ raced => CacheHoldsPin'
  PROVE  IInv'
<1>1. \A j \in Installers : Vouched(j)'
  BY DEF IInv, Others, Vouched, Filling
<1>2. ASSUME ~ raced', NEW j \in Installers, Filling(j)'
      PROVE  Alone(j)' /\ Filled(j)'
  <2>1. Alone(i)
    BY <1>2 DEF IInv
  <2>2. \A k \in Installers : k # i => ~ Filling(k)'
    BY <2>1 DEF Alone, Others, Filling
  <2> QED
    BY <1>2, <2>2 DEF Alone
<1> QED
  BY <1>1, <1>2 DEF IInv, CacheHoldsPin
-----------------------------------------------------------------------------
\* Before the directory is touched, and when a call ends outside it.
LEMMA BeginKeeps ==
  ASSUME IInv, NEW i \in Installers, Begin(i) \/ BeginTrusted(i) PROVE IInv'
<1>1. PICK v \in Versions, to \in {"zip", "unpack"} :
        /\ BeginsInstall(i, v, to)
        /\ bytes' = IF to = "zip" THEN bytes ELSE [bytes EXCEPT ![i] = TRUE]
  BY DEF Begin, BeginTrusted
<1>2. Types'
  BY <1>1 DEF IInv, Types, BeginsInstall, StepsTo, directory, Steps
<1>3. Others(i) /\ ~ Filling(i)' /\ Vouched(i)'
  BY <1>1 DEF IInv, Types, BeginsInstall, StepsTo, Others, Filling, Vouched
<1>4. raced' = raced /\ UNCHANGED installed
  BY <1>1 DEF BeginsInstall, directory
<1> QED
  BY <1>2, <1>3, <1>4, OutsideKeeps

LEMMA FetchZipKeeps ==
  ASSUME IInv, NEW i \in Installers, FetchZip(i) PROVE IInv'
<1>1. Types' /\ Others(i) /\ ~ Filling(i)' /\ Vouched(i)'
  BY DEF IInv, Types, FetchZip, StepsTo, directory, Others, Filling, Vouched, Steps
<1>2. raced' = raced /\ UNCHANGED installed
  BY DEF FetchZip, directory
<1> QED
  BY <1>1, <1>2, OutsideKeeps

\* The bytes are vouched for when they pass on to be unpacked.
LEMMA FetchSumsKeeps ==
  ASSUME IInv, NEW i \in Installers, FetchSums(i) PROVE IInv'
<1>1. Types' /\ Others(i)
  BY DEF IInv, Types, FetchSums, Returns, StepsTo, directory, local, Others, Steps
<1>2. ~ Filling(i)' /\ Vouched(i)'
  BY DEF IInv, Types, FetchSums, Verified, Returns, StepsTo, local, Filling, Vouched, Steps
<1>3. raced' = raced /\ UNCHANGED installed
  BY DEF FetchSums, directory
<1> QED
  BY <1>1, <1>2, <1>3, OutsideKeeps

LEMMA SumsLostKeeps ==
  ASSUME IInv, NEW i \in Installers, SumsLost(i) PROVE IInv'
<1>1. Types' /\ Others(i) /\ ~ Filling(i)' /\ Vouched(i)'
  BY DEF IInv, Types, SumsLost, Returns, StepsTo, directory, Others, Filling, Vouched, Steps
<1>2. raced' = raced /\ UNCHANGED installed
  BY DEF SumsLost, directory
<1> QED
  BY <1>1, <1>2, OutsideKeeps

\* A call that ends fills the directory no longer.
LEMMA ReturnsKeep ==
  ASSUME IInv, NEW i \in Installers, Returns(i), UNCHANGED <<installed, raced>>
  PROVE  IInv'
<1>1. Types' /\ Others(i) /\ ~ Filling(i)' /\ Vouched(i)'
  BY DEF IInv, Types, Returns, StepsTo, Others, Filling, Vouched, Steps
<1> QED
  BY <1>1, OutsideKeeps

LEMMA StopsKeep ==
  ASSUME IInv, NEW i \in Installers, Stops(i) \/ BadArchive(i) PROVE IInv'
  BY ReturnsKeep DEF Stops, BadArchive, directory
-----------------------------------------------------------------------------
\* i begins to clear: another who fills makes it a race.
LEMMA UnpackKeeps ==
  ASSUME IInv, NEW i \in Installers, Unpack(i) PROVE IInv'
<1>1. Types' /\ Others(i) /\ Vouched(i)' /\ step'[i] = "clear"
  BY DEF IInv, Types, Unpack, StepsTo, Others, Vouched, Filling, Steps
<1>2. \A j \in Installers : Vouched(j)'
  BY <1>1 DEF IInv, Others, Vouched, Filling
<1>3. ASSUME ~ raced', NEW j \in Installers, Filling(j)'
      PROVE  Alone(j)' /\ Filled(j)'
  <2>1. \A k \in Installers : ~ Filling(k)
    BY <1>3 DEF Unpack, IInv, Types
  <2>2. \A k \in Installers : k # i => ~ Filling(k)'
    BY <1>1, <2>1 DEF Others, Filling
  <2>3. j = i
    BY <1>3, <2>2
  <2> QED
    BY <1>1, <2>2, <2>3 DEF Alone, Filled
<1>4. CacheHoldsPin'
  BY DEF IInv, Types, CacheHoldsPin, Unpack
<1> QED
  BY <1>1, <1>2, <1>3, <1>4 DEF IInv

\* Whatever goes first, the marker or the binary, there is no cache.
LEMMA RemoveKeeps ==
  ASSUME IInv, NEW i \in Installers, RemoveFile(i) PROVE IInv'
<1>1. Types' /\ Others(i) /\ Filling(i) /\ Vouched(i)' /\ step'[i] = "clear"
  BY DEF IInv, Types, RemoveFile, Others, Vouched, Filling, Build
<1>2. CacheHoldsPin'
  <2>1. PICK f \in left[i] : installed' = [installed EXCEPT ![f] = Nothing]
    BY DEF RemoveFile
  <2>2. \A g \in {"binary", "marker"} : installed'[g] = Nothing \/ installed'[g] = installed[g]
    BY <2>1 DEF IInv, Types, Places
  <2> QED
    BY <2>2 DEF IInv, CacheHoldsPin, RemoveFile
<1>3. Filled(i)' /\ raced' = raced
  BY <1>1 DEF Filled, RemoveFile
<1> QED
  BY <1>1, <1>2, <1>3, InsideKeeps

\* The directory is empty: what i fills from here on is its own.
LEMMA RemoveDirectoryKeeps ==
  ASSUME IInv, NEW i \in Installers, RemoveDirectory(i) PROVE IInv'
<1>1. CASE installed # Missing
  BY <1>1, ReturnsKeep DEF RemoveDirectory
<1>2. CASE installed = Missing
  <2>1. Types' /\ Others(i) /\ Vouched(i)' /\ step'[i] = "make"
    BY <1>2 DEF IInv, Types, RemoveDirectory, StepsTo, local, Others, Vouched, Filling, Steps
  <2>2. \A j \in Installers : Vouched(j)'
    BY <2>1 DEF IInv, Others, Vouched, Filling
  <2>3. installed'["marker"] = Nothing /\ installed' = installed
    BY <1>2 DEF RemoveDirectory, Missing, Places
  <2>4. ASSUME ~ raced', NEW j \in Installers, Filling(j)'
        PROVE  Alone(j)' /\ Filled(j)'
    <3>1. \A k \in Installers \ {i} : ~ Filling(k)
      BY <1>2, <2>4 DEF RemoveDirectory
    <3>2. \A k \in Installers : k # i => ~ Filling(k)'
      BY <2>1, <3>1 DEF Others, Filling
    <3>3. j = i
      BY <2>4, <3>2
    <3> QED
      BY <2>1, <2>3, <3>2, <3>3 DEF Alone, Filled
  <2> QED
    BY <2>1, <2>2, <2>3, <2>4 DEF IInv, CacheHoldsPin
<1> QED
  BY <1>1, <1>2

LEMMA MakeDirectoryKeeps ==
  ASSUME IInv, NEW i \in Installers, MakeDirectory(i) PROVE IInv'
<1>1. Types' /\ Others(i) /\ Filling(i) /\ Vouched(i)'
  BY DEF IInv, Types, MakeDirectory, StepsTo, Others, Vouched, Filling, Steps, Places
<1>2. CacheHoldsPin' /\ raced' = raced
  BY DEF IInv, CacheHoldsPin, MakeDirectory
<1>3. ASSUME ~ raced PROVE Filled(i)'
  BY <1>1, <1>3 DEF IInv, Types, Filled, MakeDirectory, StepsTo
<1> QED
  BY <1>1, <1>2, <1>3, InsideKeeps

\* The binary is the one of i when the last file has moved in, for it was among
\* the files to move.
LEMMA MoveKeeps ==
  ASSUME IInv, NEW i \in Installers, Move(i) PROVE IInv'
<1>1. CASE ~ made
  BY <1>1, ReturnsKeep DEF Move
<1>2. CASE made
  <2>1. PICK f \in left[i] :
          /\ installed' = [installed EXCEPT ![f] = Mine(i)]
          /\ left' = [left EXCEPT ![i] = @ \ {f}]
          /\ StepsTo(i, IF left[i] = {f} THEN "check" ELSE "move")
    BY <1>2 DEF Move, Mine
  <2>2. /\ Filling(i) /\ step[i] = "move" /\ f \in Places
        /\ UNCHANGED <<pin, bytes, raced>>
    BY <1>2, <2>1 DEF Move, Filling, IInv, Types
  <2>3. Mine(i) \in Build
    BY <2>2 DEF Mine, Build, IInv, Types, Vouched
  <2>4. step' \in [Installers -> Steps] /\ installed' \in [Places -> Build \cup Versions \cup {Nothing}]
    BY <2>1, <2>2, <2>3 DEF IInv, Types, StepsTo, Steps
  <2>5. Types' /\ Others(i) /\ Vouched(i)'
    BY <2>1, <2>2, <2>4 DEF IInv, Types, StepsTo, Others, Vouched, Filling
  <2>6. ASSUME ~ raced PROVE Filled(i)' /\ CacheHoldsPin'
    <3>1. Filled(i)
      BY <2>2, <2>6 DEF IInv
    <3>2. f # "marker"
      BY <2>2 DEF IInv, Vouched
    <3>3. installed'["marker"] = Nothing
      BY <2>1, <2>2, <3>1, <3>2 DEF Filled, IInv, Types, Places
    <3>4. "binary" \notin left'[i] => installed'["binary"] = Mine(i)
      BY <2>1, <2>2, <3>1 DEF Filled, IInv, Types, Places
    <3>5. step'[i] \in {"move", "check"} /\ (step'[i] = "check" => left'[i] = {})
      BY <2>1 DEF StepsTo, IInv, Types
    <3>6. Mine(i)' = Mine(i)
      BY <2>2 DEF Mine
    <3> QED
      BY <3>3, <3>4, <3>5, <3>6 DEF Filled, CacheHoldsPin
  <2> QED
    BY <2>2, <2>5, <2>6, InsideKeeps
<1> QED
  BY <1>1, <1>2

LEMMA CheckKeeps ==
  ASSUME IInv, NEW i \in Installers, Check(i) PROVE IInv'
<1>1. CASE installed["binary"] = Nothing
  BY <1>1, ReturnsKeep DEF Check, directory
<1>2. CASE installed["binary"] # Nothing
  <2>1. Types' /\ Others(i) /\ Filling(i) /\ Vouched(i)'
    BY <1>2 DEF IInv, Types, Check, StepsTo, directory, local, Others, Vouched, Filling, Steps
  <2>2. CacheHoldsPin' /\ raced' = raced
    BY DEF IInv, CacheHoldsPin, Check, directory
  <2>3. ASSUME ~ raced PROVE Filled(i)'
    BY <1>2, <2>1, <2>3 DEF IInv, Types, Filled, Check, StepsTo, directory, local, Mine
  <2> QED
    BY <2>1, <2>2, <2>3, InsideKeeps
<1> QED
  BY <1>1, <1>2

\* The marker names what i has installed, and i has verified, or trusts, that.
LEMMA MarkKeeps ==
  ASSUME IInv, NEW i \in Installers, Mark(i) PROVE IInv'
<1>1. Filling(i) /\ step[i] = "mark" /\ raced' = raced
  BY DEF Mark, Filling
<1>2. pin[i] \in Versions /\ bytes[i] = TRUE
  BY <1>1 DEF IInv, Types, Vouched
<1>3. Types'
  BY <1>2 DEF IInv, Types, Mark, Returns, StepsTo, Steps
<1>4. Others(i) /\ ~ Filling(i)' /\ Vouched(i)'
  BY DEF IInv, Types, Mark, Returns, StepsTo, Others, Filling, Vouched
<1>5. ASSUME ~ raced PROVE CacheHoldsPin'
  <2>1. Filled(i)
    BY <1>1, <1>5 DEF IInv
  <2>2. installed["binary"] = [version |-> pin[i], good |-> TRUE]
    BY <1>1, <1>2, <2>1 DEF Filled, Mine
  <2>3. installed'["binary"] = installed["binary"]
    BY DEF Mark, IInv, Types, Places
  <2>4. made => installed'["marker"] = pin[i]
    BY DEF Mark, IInv, Types, Places
  <2>5. ~ made => installed' = installed
    BY DEF Mark
  <2> QED
    BY <2>1, <2>2, <2>3, <2>4, <2>5, <1>1 DEF CacheHoldsPin, Filled
<1> QED
  BY <1>1, <1>3, <1>4, <1>5, InsideKeeps
-----------------------------------------------------------------------------
LEMMA StepKeeps == IInv /\ [DownloadNext]_downloadVars => IInv'
<1> SUFFICES ASSUME IInv, [DownloadNext]_downloadVars PROVE IInv'
  OBVIOUS
<1>1. ASSUME NEW i \in Installers, Installs(i) PROVE IInv'
  BY <1>1, BeginKeeps, FetchZipKeeps, FetchSumsKeeps, SumsLostKeeps, StopsKeep, UnpackKeeps,
     RemoveKeeps, RemoveDirectoryKeeps, MakeDirectoryKeeps, MoveKeeps, CheckKeeps, MarkKeeps
     DEF Installs
<1>2. CASE UNCHANGED downloadVars
  BY <1>2 DEF downloadVars, IInv, Types, Vouched, Filling, Alone, Filled, Mine, CacheHoldsPin
<1> QED
  BY <1>1, <1>2 DEF DownloadNext

\* What the cache serves for a pin is a verified, or trusted, binary of that
\* version, for any number of installs, failures and crashes of any processes,
\* but where two installs filled the directory at the same time: the marker
\* goes with what is cleared and comes back last (installArchive,
\* server-download.ts:246-309).
THEOREM CacheIsOfItsVersion == DownloadSpec => []CacheHoldsPin
<1>1. IInv => CacheHoldsPin
  BY DEF IInv
<1> QED
  BY Initially, StepKeeps, <1>1, PTL DEF DownloadSpec
=============================================================================
