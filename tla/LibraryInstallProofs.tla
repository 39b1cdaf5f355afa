------------------------ MODULE LibraryInstallProofs ------------------------
(***************************************************************************)
(* Machine-checked facts about LibraryInstall, for every number of         *)
(* libraries, files, packages and requests: the locks and the lifecycle of *)
(* a job, the ordering of patches, and while storage works: what is        *)
(* installed is complete, what fails leaves nothing behind, and            *)
(* installations are atomic.                                               *)
(***************************************************************************)
EXTENDS LibraryInstall, SequenceTheorems, TLAPS

-----------------------------------------------------------------------------
(* The invariant, by the parts of the state it is about *)

\* A request in flight has a package ...
Requested == \A r \in Requests : job[r].pc # "idle" => job[r].pkg \in Packages

\* ... and, once it was granted the outer lock, holds it until it ends, unless
\* the inner lock's time limit took it away.
OuterHeld ==
  \A r \in Requests :
    job[r].pc \notin {"idle", "outer"} /\ ~job[r].orphan => HoldsOuter(r)

OrphanedByTimeLimit ==
  \A r \in Requests : job[r].orphan => "occupation" \in env

JobInv ==
  /\ job \in [Requests -> Job]
  /\ outer \in [Libraries -> Lock]
  /\ inner \in [Libraries -> Lock]
  /\ Requested
  /\ OuterHeld
  /\ OrphanedByTimeLimit

\* A readable library.json came from a package.
DiskInv ==
  /\ disk \in [Libraries -> Directory]
  /\ \A l \in Libraries : disk[l].json = "complete" => disk[l].meta \in Packages

\* A copy that has begun belongs to a package.
CopyInv ==
  /\ copy \in [Requests -> Copies]
  /\ \A r \in Requests, f \in Files :
       copy[r].at[f] \in {"access", "open", "write"} => copy[r].pkg \in Packages

LibraryInstallInv == JobInv /\ DiskInv /\ CopyInv /\ installs \in Nat

-----------------------------------------------------------------------------
(* Types of the operators *)

LEMMA PackageTypes ==
  ASSUME NEW p \in Packages
  PROVE  /\ p.lib \in Libraries
         /\ p.patch \in Nat
         /\ p.needs \subseteq Files
         /\ p.files \subseteq Files
BY LibraryInstallAssumption

LEMMA AcquireType ==
  ASSUME NEW k \in Lock, NEW r \in Requests
  PROVE  /\ Acquire(k, r) \in Lock
         /\ k.holder # Nobody => Acquire(k, r).holder = k.holder
<1>1. k.queue \in Seq(Requests) /\ Append(k.queue, r) \in Seq(Requests)
  BY DEF Lock
<1> QED BY <1>1 DEF Acquire, Lock

LEMMA ReleaseType ==
  ASSUME NEW k \in Lock
  PROVE  Release(k) \in Lock
<1>1. FreeLock \in Lock
  BY DEF FreeLock, Lock
<1>2. ASSUME k.queue # <<>>
      PROVE  Head(k.queue) \in Requests /\ Tail(k.queue) \in Seq(Requests)
  BY <1>2 DEF Lock
<1> QED BY <1>1, <1>2 DEF Release, Lock

\* Passing on does not touch the locks others hold.
LEMMA PassOnType ==
  ASSUME NEW locks \in [Libraries -> Lock], NEW r \in Requests, Lib(r) \in Libraries
  PROVE  /\ PassOn(locks, r) \in [Libraries -> Lock]
         /\ \A q \in Requests \ {r}, l \in Libraries :
              locks[l].holder = q => PassOn(locks, r)[l].holder = q
<1>1. Release(locks[Lib(r)]) \in Lock
  BY ReleaseType
<1> QED BY <1>1 DEF PassOn

LEMMA RemoveAtType ==
  ASSUME NEW S, NEW s \in Seq(S), NEW i \in DOMAIN s
  PROVE  RemoveAt(s, i) \in Seq(S)
<1>1. i \in 1..Len(s) /\ Len(s) \in Nat
  OBVIOUS
<1>2. SubSeq(s, 1, i - 1) \in Seq(S)
  BY <1>1, SubSeqProperties
<1>3. SubSeq(s, i + 1, Len(s)) \in Seq(S)
  BY <1>1, SubSeqProperties
<1> QED BY <1>2, <1>3, ConcatProperties DEF RemoveAt

\* Leaving a queue does not touch the holder of any lock.
LEMMA LeaveQueueType ==
  ASSUME NEW locks \in [Libraries -> Lock], NEW l \in Libraries, NEW r \in Requests,
         NEW left \in LeaveQueue(locks, l, r)
  PROVE  /\ left \in [Libraries -> Lock]
         /\ \A m \in Libraries : left[m].holder = locks[m].holder
<1>1. PICK i \in DOMAIN locks[l].queue :
        left = [locks EXCEPT ![l].queue = RemoveAt(@, i)]
  BY DEF LeaveQueue
<1>2. RemoveAt(locks[l].queue, i) \in Seq(Requests)
  <2>1. locks[l].queue \in Seq(Requests)
    BY DEF Lock
  <2> QED BY <2>1, RemoveAtType
<1> QED BY <1>1, <1>2 DEF Lock

LEMMA DirectoryTypes ==
  /\ NoFile \in FileState
  /\ NoDirectory \in Directory
  /\ \A d \in Directory : d.file \in [Files -> FileState]
BY DEF NoFile, FileState, NoDirectory, Directory

LEMMA JobUpdates ==
  ASSUME NEW j \in Job
  PROVE  /\ \A pc \in Control : [j EXCEPT !.pc = pc] \in Job
         /\ \A pc \in Control, p \in Packages : [j EXCEPT !.pc = pc, !.pkg = p] \in Job
         /\ \A pc \in Control, L \in SUBSET Libraries :
              [j EXCEPT !.pc = pc, !.unread = L] \in Job
         /\ \A L \in SUBSET Libraries, b \in BOOLEAN :
              [j EXCEPT !.unread = L, !.patch = b] \in Job
         /\ \A pc \in Control, p \in Packages \cup {NoPackage} :
              [j EXCEPT !.pc = pc, !.before = p] \in Job
         /\ \A pc \in Control, F \in SUBSET Files :
              /\ [j EXCEPT !.pc = pc, !.clear = F] \in Job
              /\ [j EXCEPT !.pc = pc, !.needs = F] \in Job
         /\ [j EXCEPT !.late = TRUE] \in Job
         /\ [j EXCEPT !.orphan = TRUE] \in Job
BY DEF Job

LEMMA IdleJobType == IdleJob \in Job
BY DEF IdleJob, Job, Control

-----------------------------------------------------------------------------
(* Changes of one request, one directory, one set of copies *)

\* Requests other than r depend on their own job and on who holds the locks.
LEMMA JobChange ==
  ASSUME UNCHANGED env, JobInv, NEW r \in Requests, NEW j \in Job,
         job' = [job EXCEPT ![r] = j],
         outer' \in [Libraries -> Lock],
         inner' \in [Libraries -> Lock],
         j.pc # "idle" => j.pkg \in Packages,
         j.pc \notin {"idle", "outer"} /\ ~j.orphan => outer'[j.pkg.lib].holder = r,
         j.orphan => "occupation" \in env,
         \A q \in Requests \ {r}, l \in Libraries :
           outer[l].holder = q => outer'[l].holder = q
  PROVE  JobInv'
<1>1. job' \in [Requests -> Job]
  BY DEF JobInv
<1>2. job'[r] = j /\ \A q \in Requests \ {r} : job'[q] = job[q]
  BY DEF JobInv
<1>3. Requested'
  BY <1>2 DEF JobInv, Requested
<1>4. OuterHeld'
  <2> SUFFICES ASSUME NEW q \in Requests,
                      job'[q].pc \notin {"idle", "outer"}, ~job'[q].orphan
               PROVE  outer'[job'[q].pkg.lib].holder = q
    BY DEF OuterHeld, HoldsOuter, Lib
  <2>1. CASE q = r
    BY <1>2, <2>1
  <2>2. CASE q # r
    <3>1. outer[job[q].pkg.lib].holder = q /\ job[q].pkg \in Packages
      BY <1>2, <2>2 DEF JobInv, Requested, OuterHeld, HoldsOuter, Lib
    <3> QED BY <1>2, <2>2, <3>1, PackageTypes
  <2> QED BY <2>1, <2>2
<1>5. OrphanedByTimeLimit'
  BY <1>2 DEF JobInv, OrphanedByTimeLimit
<1> QED BY <1>1, <1>3, <1>4, <1>5 DEF JobInv

LEMMA EndPreserves ==
  ASSUME UNCHANGED env, JobInv, NEW r \in Requests, job[r].pc # "idle", End(r)
  PROVE  JobInv'
<1>1. Lib(r) \in Libraries
  BY PackageTypes DEF JobInv, Requested, Lib
<1>2. outer' \in [Libraries -> Lock] /\ inner' \in [Libraries -> Lock]
  BY <1>1, PassOnType DEF JobInv, End
<1>3. \A q \in Requests \ {r}, l \in Libraries :
        outer[l].holder = q => outer'[l].holder = q
  BY <1>1, PassOnType DEF JobInv, End
<1>4. IdleJob.pc = "idle" /\ ~IdleJob.orphan
  BY DEF IdleJob
<1>5. job' = [job EXCEPT ![r] = IdleJob]
  BY DEF End
<1> QED BY <1>2, <1>3, <1>4, <1>5, IdleJobType, JobChange

\* A request in flight goes on, with its locks.
LEMMA GoesOn ==
  ASSUME UNCHANGED env, JobInv, NEW r \in Requests, NEW j \in Job,
         job[r].pc # "idle", job[r].pc = "outer" => HoldsOuter(r),
         j.pkg = job[r].pkg, j.orphan = job[r].orphan,
         job' = [job EXCEPT ![r] = j], UNCHANGED outer,
         inner' \in [Libraries -> Lock]
  PROVE  JobInv'
<1>1. j.pkg \in Packages /\ outer' \in [Libraries -> Lock]
  BY DEF JobInv, Requested
<1>2. ~j.orphan => outer'[j.pkg.lib].holder = r
  BY DEF JobInv, OuterHeld, HoldsOuter, Lib
<1>3. j.orphan => "occupation" \in env
  BY DEF JobInv, OrphanedByTimeLimit
<1> QED BY <1>1, <1>2, <1>3, JobChange

LEMMA GoToPreserves ==
  ASSUME UNCHANGED env, JobInv, NEW r \in Requests, NEW pc \in Control,
         job[r].pc \notin {"idle", "outer"}, GoTo(r, pc)
  PROVE  JobInv'
<1> DEFINE j == [job[r] EXCEPT !.pc = pc]
<1>1. job[r] \in Job
  BY DEF JobInv
<1>2. j \in Job /\ j.pkg = job[r].pkg /\ j.orphan = job[r].orphan
  <2>1. j \in Job
    BY <1>1, JobUpdates
  <2>2. j.pkg = job[r].pkg /\ j.orphan = job[r].orphan
    BY <1>1 DEF Job
  <2> QED BY <2>1, <2>2
<1>3. job' = [job EXCEPT ![r] = j] /\ UNCHANGED <<outer, inner>>
  BY DEF GoTo
<1>4. inner' \in [Libraries -> Lock]
  BY <1>3 DEF JobInv
<1> HIDE DEF j
<1> QED BY <1>2, <1>3, <1>4, GoesOn

LEMMA DiskChange ==
  ASSUME DiskInv, NEW l \in Libraries, NEW d \in Directory,
         d.json = "complete" => d.meta \in Packages,
         disk' = [disk EXCEPT ![l] = d]
  PROVE  DiskInv'
BY DEF DiskInv

LEMMA CopyChange ==
  ASSUME CopyInv, NEW r \in Requests, NEW f \in Files, NEW state \in CopyState,
         copy[r].at[f] \in {"access", "open", "write"}, SetCopy(r, f, state)
  PROVE  CopyInv'
<1>1. copy[r] \in Copies /\ copy[r].pkg \in Packages
  BY DEF CopyInv
<1>2. [copy[r] EXCEPT !.at[f] = state] \in Copies
  BY <1>1 DEF Copies
<1>3. copy' = [copy EXCEPT ![r] = [copy[r] EXCEPT !.at[f] = state]]
  BY DEF SetCopy
<1>4. [copy[r] EXCEPT !.at[f] = state].pkg = copy[r].pkg
  BY <1>1 DEF Copies
<1> QED BY <1>1, <1>2, <1>3, <1>4 DEF CopyInv

LEMMA BeginCopiesPreserves ==
  ASSUME CopyInv, JobInv, NEW r \in Requests, job[r].pc # "idle", BeginCopies(r)
  PROVE  CopyInv'
<1>1. job[r].pkg \in Packages
  BY DEF JobInv, Requested
<1> DEFINE c == [pkg |-> job[r].pkg,
                 at  |-> [f \in Files |-> IF f \in job[r].pkg.files THEN "access" ELSE "none"]]
<1>2. c \in Copies /\ c.pkg \in Packages
  BY <1>1 DEF Copies, CopyState
<1>3. copy' = [copy EXCEPT ![r] = c]
  BY DEF BeginCopies
<1> HIDE DEF c
<1> QED BY <1>2, <1>3 DEF CopyInv

LEMMA Unchanging ==
  /\ JobInv /\ UNCHANGED <<job, outer, inner, env>> => JobInv'
  /\ DiskInv /\ UNCHANGED disk => DiskInv'
  /\ CopyInv /\ UNCHANGED copy => CopyInv'
<1>1. JobInv /\ UNCHANGED <<job, outer, inner, env>> => JobInv'
  BY DEF JobInv, Requested, OuterHeld, OrphanedByTimeLimit, HoldsOuter, Lib
<1>2. DiskInv /\ UNCHANGED disk => DiskInv'
  BY DEF DiskInv
<1>3. CopyInv /\ UNCHANGED copy => CopyInv'
  BY DEF CopyInv
<1> QED BY <1>1, <1>2, <1>3

-----------------------------------------------------------------------------
(* installFromDirectory *)

LEMMA BeginPreserves ==
  ASSUME UNCHANGED env, LibraryInstallInv, NEW r \in Requests, NEW p \in Packages,
         Begin(r, p)
  PROVE  LibraryInstallInv'
<1> USE DEF LibraryInstallInv
<1>1. JobInv'
  <2> DEFINE j == [IdleJob EXCEPT !.pc = "outer", !.pkg = p]
  <2>1. j \in Job /\ j.pc = "outer" /\ j.pkg = p /\ ~j.orphan
    BY IdleJobType, JobUpdates DEF IdleJob, Control
  <2>2. p.lib \in Libraries /\ Nobody \notin Requests
    BY PackageTypes, LibraryInstallAssumption
  <2>3. outer' = [outer EXCEPT ![p.lib] = Acquire(@, r)]
    BY DEF Begin
  <2>4. outer' \in [Libraries -> Lock]
    BY <2>2, <2>3, AcquireType DEF JobInv
  <2>5. \A q \in Requests \ {r}, l \in Libraries :
          outer[l].holder = q => outer'[l].holder = q
    BY <2>2, <2>3, AcquireType DEF JobInv
  <2>6. inner' \in [Libraries -> Lock] /\ job' = [job EXCEPT ![r] = j]
    BY DEF Begin, JobInv
  <2> HIDE DEF j
  <2> QED BY <2>1, <2>4, <2>5, <2>6, JobChange
<1>2. CopyInv'
  <2>1. NoCopies \in Copies /\ \A f \in Files : NoCopies.at[f] = "none"
    BY DEF NoCopies, Copies, CopyState
  <2>2. copy' = [copy EXCEPT ![r] = NoCopies]
    BY DEF Begin
  <2> QED BY <2>1, <2>2 DEF CopyInv
<1>3. DiskInv' /\ installs' \in Nat
  BY Unchanging DEF Begin
<1> QED BY <1>1, <1>2, <1>3

\* What a request in flight relies on.
LEMMA InFlight ==
  ASSUME LibraryInstallInv, NEW r \in Requests, job[r].pc # "idle"
  PROVE  /\ job[r] \in Job
         /\ job[r].pkg \in Packages
         /\ Lib(r) \in Libraries
         /\ disk[Lib(r)] \in Directory
BY PackageTypes DEF LibraryInstallInv, JobInv, DiskInv, Requested, Lib

LEMMA CheckInstalledPreserves ==
  ASSUME UNCHANGED env, LibraryInstallInv, NEW r \in Requests, CheckInstalled(r)
  PROVE  LibraryInstallInv'
<1> USE DEF LibraryInstallInv
<1>1. job[r].pc # "idle" /\ HoldsOuter(r) /\ UNCHANGED outer
  BY DEF CheckInstalled
<1>2. PICK pc \in {"list", "inner"} : job' = [job EXCEPT ![r].pc = pc]
  BY DEF CheckInstalled
<1>3. inner' \in [Libraries -> Lock]
  BY <1>1, InFlight, AcquireType DEF CheckInstalled, JobInv
<1> DEFINE j == [job[r] EXCEPT !.pc = pc]
<1>4. j \in Job
  BY <1>1, InFlight, JobUpdates DEF Control
<1>5. j.pkg = job[r].pkg /\ j.orphan = job[r].orphan
  BY <1>1, InFlight DEF Job
<1>6. job' = [job EXCEPT ![r] = j]
  BY <1>2
<1> HIDE DEF j
<1>7. JobInv'
  BY <1>1, <1>3, <1>4, <1>5, <1>6, GoesOn
<1> QED BY <1>7, Unchanging DEF CheckInstalled

LEMMA ListVersionsPreserves ==
  ASSUME UNCHANGED env, LibraryInstallInv, NEW r \in Requests, ListVersions(r)
  PROVE  LibraryInstallInv'
<1> USE DEF LibraryInstallInv
<1> DEFINE L == {l \in Libraries : disk[l].dir}
           j == [job[r] EXCEPT !.pc = "read", !.unread = L]
<1>1. job[r].pc = "list" /\ job[r] \in Job
  BY InFlight DEF ListVersions
<1>2. j \in Job
  BY <1>1, JobUpdates DEF Control
<1>3. j.pkg = job[r].pkg /\ j.orphan = job[r].orphan
  BY <1>1 DEF Job
<1>4. job' = [job EXCEPT ![r] = j] /\ UNCHANGED outer /\ inner' \in [Libraries -> Lock]
  BY DEF ListVersions, JobInv
<1> HIDE DEF j
<1>5. JobInv'
  BY <1>1, <1>2, <1>3, <1>4, GoesOn
<1> QED BY <1>5, Unchanging DEF ListVersions

LEMMA ReadVersionPreserves ==
  ASSUME UNCHANGED env, LibraryInstallInv, NEW r \in Requests, NEW l \in Libraries,
         ReadVersion(r, l)
  PROVE  LibraryInstallInv'
<1> USE DEF LibraryInstallInv
<1>1. job[r].pc = "read" /\ job[r] \in Job /\ job[r].pkg \in Packages
  BY InFlight DEF ReadVersion
<1>2. CASE disk[l].json = "complete"
  <2> DEFINE b == job[r].patch \/ (l = Lib(r) /\ disk[l].meta.patch < job[r].pkg.patch)
             j == [job[r] EXCEPT !.unread = job[r].unread \ {l}, !.patch = b]
  <2>1. disk[l].meta.patch \in Nat /\ job[r].pkg.patch \in Nat
    BY <1>1, <1>2, PackageTypes DEF DiskInv
  <2>2. job[r].unread \ {l} \in SUBSET Libraries /\ job[r].patch \in BOOLEAN
    BY <1>1 DEF Job
  <2>3. b \in BOOLEAN
    BY <2>1, <2>2
  <2>4. job' = [job EXCEPT ![r] = j] /\ UNCHANGED outer /\ inner' \in [Libraries -> Lock]
    BY <1>2 DEF ReadVersion, JobInv
  <2> HIDE DEF b
  <2>5. j \in Job
    BY <1>1, <2>2, <2>3, JobUpdates
  <2>6. j.pkg = job[r].pkg /\ j.orphan = job[r].orphan
    BY <1>1 DEF Job
  <2> HIDE DEF j
  <2>7. JobInv'
    BY <1>1, <2>4, <2>5, <2>6, GoesOn
  <2> QED BY <2>7, Unchanging DEF ReadVersion
<1>3. CASE disk[l].json # "complete"
  BY <1>1, <1>3, EndPreserves, Unchanging DEF ReadVersion
<1> QED BY <1>2, <1>3

LEMMA DecidePatchPreserves ==
  ASSUME UNCHANGED env, LibraryInstallInv, NEW r \in Requests, DecidePatch(r)
  PROVE  LibraryInstallInv'
<1> USE DEF LibraryInstallInv
<1>1. /\ job[r].pc = "read" /\ job[r] \in Job
      /\ disk[Lib(r)].meta \in Packages \cup {NoPackage}
  <2>1. job[r].pc = "read"
    BY DEF DecidePatch
  <2> QED BY <2>1, InFlight DEF Directory
<1>2. CASE job[r].patch
  <2> DEFINE j == [job[r] EXCEPT !.pc = "updAccess", !.before = disk[Lib(r)].meta]
  <2>1. j \in Job
    BY <1>1, JobUpdates DEF Control
  <2>2. j.pkg = job[r].pkg /\ j.orphan = job[r].orphan
    BY <1>1 DEF Job
  <2>3. job' = [job EXCEPT ![r] = j] /\ UNCHANGED outer /\ inner' \in [Libraries -> Lock]
    BY <1>2 DEF DecidePatch, JobInv
  <2> HIDE DEF j
  <2>4. JobInv'
    BY <1>1, <2>1, <2>2, <2>3, GoesOn
  <2> QED BY <2>4, Unchanging DEF DecidePatch
<1>3. CASE ~job[r].patch
  BY <1>1, <1>3, EndPreserves, Unchanging DEF DecidePatch
<1> QED BY <1>2, <1>3

-----------------------------------------------------------------------------
(* updateLibrary and installLibrary *)

LEMMA AccessLibraryPreserves ==
  ASSUME UNCHANGED env, LibraryInstallInv, NEW r \in Requests, AccessLibrary(r)
  PROVE  LibraryInstallInv'
<1> USE DEF LibraryInstallInv
<1>1. PICK pc \in {"updOpen", "rollback"} : GoTo(r, pc)
  BY DEF AccessLibrary
<1>2. JobInv'
  BY <1>1, GoToPreserves DEF AccessLibrary, Control
<1> QED BY <1>2, Unchanging DEF AccessLibrary

\* Opening library.json makes it unreadable.
LEMMA OpenMetadataOpens ==
  ASSUME DiskInv, NEW l \in Libraries,
         disk' = [disk EXCEPT ![l].json = "partial"]
  PROVE  DiskInv'
<1> DEFINE d == [disk[l] EXCEPT !.json = "partial"]
<1>1. d \in Directory /\ d.json = "partial"
  BY DEF DiskInv, Directory
<1>2. disk' = [disk EXCEPT ![l] = d]
  OBVIOUS
<1> HIDE DEF d
<1> QED BY <1>1, <1>2, DiskChange

LEMMA UpdateOpenPreserves ==
  ASSUME UNCHANGED env, LibraryInstallInv, NEW r \in Requests, UpdateOpen(r)
  PROVE  LibraryInstallInv'
<1> USE DEF LibraryInstallInv
<1>1. job[r].pc = "updOpen" /\ Lib(r) \in Libraries
  BY InFlight DEF UpdateOpen, OpenMetadata
<1>2. PICK pc \in {"updWrite", "rollback"} : GoTo(r, pc)
  BY DEF UpdateOpen, OpenMetadata
<1>3. JobInv'
  BY <1>1, <1>2, GoToPreserves DEF Control
<1>4. DiskInv'
  BY <1>1, OpenMetadataOpens, Unchanging DEF UpdateOpen, OpenMetadata
<1> QED BY <1>3, <1>4, Unchanging DEF UpdateOpen, OpenMetadata

LEMMA AddOpenPreserves ==
  ASSUME UNCHANGED env, LibraryInstallInv, NEW r \in Requests, AddOpen(r)
  PROVE  LibraryInstallInv'
<1> USE DEF LibraryInstallInv
<1>1. job[r].pc = "addOpen" /\ Lib(r) \in Libraries
  BY InFlight DEF AddOpen, OpenMetadata
<1>2. GoTo(r, "addWrite") \/ End(r)
  BY DEF AddOpen, OpenMetadata
<1>3. JobInv'
  BY <1>1, <1>2, GoToPreserves, EndPreserves DEF Control
<1>4. DiskInv'
  BY <1>1, OpenMetadataOpens, Unchanging DEF AddOpen, OpenMetadata
<1> QED BY <1>3, <1>4, Unchanging DEF AddOpen, OpenMetadata

LEMMA StoredPreserves ==
  ASSUME DiskInv, NEW l \in Libraries, NEW p \in Packages,
         disk' = [disk EXCEPT ![l] = Stored(@, p)]
  PROVE  DiskInv'
<1>1. disk[l] \in Directory
  BY DEF DiskInv
<1>2. Stored(disk[l], p) \in Directory
  BY <1>1 DEF Stored, Directory
<1>3. Stored(disk[l], p).json = "complete" => Stored(disk[l], p).meta \in Packages
  BY <1>1 DEF Stored, Directory
<1>4. disk' = [disk EXCEPT ![l] = Stored(disk[l], p)]
  OBVIOUS
<1> QED BY <1>2, <1>3, <1>4, DiskChange

LEMMA UpdateWritePreserves ==
  ASSUME UNCHANGED env, LibraryInstallInv, NEW r \in Requests, UpdateWrite(r)
  PROVE  LibraryInstallInv'
<1> USE DEF LibraryInstallInv
<1>1. job[r].pc = "updWrite" /\ Lib(r) \in Libraries /\ job[r].pkg \in Packages
  BY InFlight DEF UpdateWrite
<1>2. JobInv'
  BY <1>1, GoToPreserves DEF UpdateWrite, Control
<1>3. DiskInv'
  BY <1>1, StoredPreserves DEF UpdateWrite
<1> QED BY <1>2, <1>3, Unchanging DEF UpdateWrite

LEMMA AddWritePreserves ==
  ASSUME UNCHANGED env, LibraryInstallInv, NEW r \in Requests, AddWrite(r)
  PROVE  LibraryInstallInv'
<1> USE DEF LibraryInstallInv
<1>1. job[r].pc = "addWrite" /\ Lib(r) \in Libraries /\ job[r].pkg \in Packages
  BY InFlight DEF AddWrite
<1>2. JobInv'
  BY <1>1, GoToPreserves DEF AddWrite, Control
<1>3. DiskInv'
  BY <1>1, StoredPreserves DEF AddWrite
<1>4. CopyInv'
  BY <1>1, BeginCopiesPreserves DEF AddWrite
<1> QED BY <1>2, <1>3, <1>4 DEF AddWrite

LEMMA ListFilesPreserves ==
  ASSUME UNCHANGED env, LibraryInstallInv, NEW r \in Requests, ListFiles(r)
  PROVE  LibraryInstallInv'
<1> USE DEF LibraryInstallInv
<1> DEFINE F == {f \in Files : disk[Lib(r)].file[f] # NoFile}
<1>1. job[r].pc = "clearList" /\ job[r] \in Job
  BY InFlight DEF ListFiles
<1>2. F \in SUBSET Files
  OBVIOUS
<1>3. PICK j \in {[job[r] EXCEPT !.pc = "clear", !.clear = F],
                  [job[r] EXCEPT !.pc = "rollback"]} : job' = [job EXCEPT ![r] = j]
  BY DEF ListFiles
<1> HIDE DEF F
<1>4. j \in Job
  <2>1. [job[r] EXCEPT !.pc = "clear", !.clear = F] \in Job
    BY <1>1, <1>2, JobUpdates DEF Control
  <2>2. [job[r] EXCEPT !.pc = "rollback"] \in Job
    BY <1>1, JobUpdates DEF Control
  <2> QED BY <1>3, <2>1, <2>2
<1>5. j.pkg = job[r].pkg /\ j.orphan = job[r].orphan
  BY <1>1, <1>3 DEF Job
<1>6. UNCHANGED outer /\ inner' \in [Libraries -> Lock]
  BY DEF ListFiles, JobInv
<1>7. JobInv'
  BY <1>1, <1>3, <1>4, <1>5, <1>6, GoesOn
<1> QED BY <1>7, Unchanging DEF ListFiles

LEMMA ClearFilesPreserves ==
  ASSUME UNCHANGED env, LibraryInstallInv, NEW r \in Requests, ClearFiles(r)
  PROVE  LibraryInstallInv'
<1> USE DEF LibraryInstallInv
<1>1. job[r].pc = "clear" /\ Lib(r) \in Libraries /\ disk[Lib(r)] \in Directory
  BY InFlight DEF ClearFiles
<1>2. JobInv'
  BY <1>1, GoToPreserves DEF ClearFiles, Control
<1>3. DiskInv'
  <2> DEFINE g == [f \in Files |-> IF f \in job[r].clear THEN NoFile ELSE disk[Lib(r)].file[f]]
             d == [disk[Lib(r)] EXCEPT !.file = g]
  <2>1. g \in [Files -> FileState]
    BY <1>1, DirectoryTypes
  <2>2. disk' = [disk EXCEPT ![Lib(r)] = d]
    BY DEF ClearFiles
  <2> HIDE DEF g
  <2>3. d \in Directory /\ d.json = disk[Lib(r)].json /\ d.meta = disk[Lib(r)].meta
    BY <1>1, <2>1 DEF Directory
  <2> HIDE DEF d
  <2>4. d.json = "complete" => d.meta \in Packages
    BY <1>1, <2>3 DEF DiskInv
  <2> QED BY <1>1, <2>2, <2>3, <2>4, DiskChange
<1>4. CopyInv'
  BY <1>1, BeginCopiesPreserves DEF ClearFiles
<1> QED BY <1>2, <1>3, <1>4 DEF ClearFiles

LEMMA MakeDirectoryPreserves ==
  ASSUME UNCHANGED env, LibraryInstallInv, NEW r \in Requests, MakeDirectory(r)
  PROVE  LibraryInstallInv'
<1> USE DEF LibraryInstallInv
<1>1. job[r].pc = "inner" /\ Lib(r) \in Libraries /\ disk[Lib(r)] \in Directory
  BY InFlight DEF MakeDirectory
<1>2. JobInv'
  BY <1>1, GoToPreserves DEF MakeDirectory, Control
<1>3. DiskInv'
  <2> DEFINE d == [disk[Lib(r)] EXCEPT !.dir = TRUE]
  <2>1. d \in Directory /\ d.json = disk[Lib(r)].json /\ d.meta = disk[Lib(r)].meta
    BY <1>1 DEF Directory
  <2>2. disk' = [disk EXCEPT ![Lib(r)] = d]
    BY DEF MakeDirectory
  <2> HIDE DEF d
  <2>3. d.json = "complete" => d.meta \in Packages
    BY <1>1, <2>1 DEF DiskInv
  <2> QED BY <1>1, <2>1, <2>2, <2>3, DiskChange
<1> QED BY <1>2, <1>3, Unchanging DEF MakeDirectory

-----------------------------------------------------------------------------
(* copyLibraryFiles *)

\* A copy changes one file, its directory is made if it is missing.
LEMMA FileChange ==
  ASSUME DiskInv, NEW l \in Libraries, NEW f \in Files, NEW state \in FileState,
         \/ disk' = [disk EXCEPT ![l].dir = TRUE, ![l].file[f] = state]
         \/ disk' = [disk EXCEPT ![l].file[f] = state]
  PROVE  DiskInv'
<1>1. disk[l] \in Directory
  BY DEF DiskInv
<1> DEFINE g == [disk[l].file EXCEPT ![f] = state]
<1>2. g \in [Files -> FileState]
  BY <1>1 DEF Directory
<1>3. PICK d \in {[disk[l] EXCEPT !.dir = TRUE, !.file = g], [disk[l] EXCEPT !.file = g]} :
        disk' = [disk EXCEPT ![l] = d]
  BY <1>1 DEF DiskInv, Directory
<1> HIDE DEF g
<1>4. d \in Directory /\ d.json = disk[l].json /\ d.meta = disk[l].meta
  BY <1>1, <1>2, <1>3 DEF Directory
<1>5. d.json = "complete" => d.meta \in Packages
  BY <1>4 DEF DiskInv
<1> QED BY <1>3, <1>4, <1>5, DiskChange

LEMMA CopyStepPreserves ==
  ASSUME UNCHANGED env, LibraryInstallInv, NEW r \in Requests, CopyStep(r)
  PROVE  LibraryInstallInv'
<1> USE DEF LibraryInstallInv
<1>1. PICK f \in Files : \/ CopyAccess(r, f) \/ CopyOpen(r, f)
                          \/ CopyWrite(r, f) \/ FailToCopy(r, f)
  BY DEF CopyStep
<1> DEFINE p == copy[r].pkg
<1>2. copy[r].at[f] \in {"access", "open", "write"} /\ p \in Packages /\ p.lib \in Libraries
  BY <1>1, PackageTypes DEF CopyInv, CopyAccess, CopyOpen, CopyWrite, FailToCopy
<1>3. JobInv' /\ installs' \in Nat
  BY <1>1, Unchanging DEF CopyAccess, CopyOpen, CopyWrite, FailToCopy
<1>4. PICK state \in CopyState : SetCopy(r, f, state)
  BY <1>1 DEF CopyAccess, CopyOpen, CopyWrite, FailToCopy, CopyState
<1>5. CopyInv'
  BY <1>2, <1>4, CopyChange
<1>6. DiskInv'
  <2>1. CASE CopyAccess(r, f) \/ FailToCopy(r, f)
    BY <2>1, Unchanging DEF CopyAccess, FailToCopy
  <2>2. CASE CopyOpen(r, f)
    <3>1. [state |-> "partial", from |-> p] \in FileState
      BY <1>2 DEF FileState
    <3> QED BY <1>2, <2>2, <3>1, FileChange DEF CopyOpen
  <2>3. CASE CopyWrite(r, f)
    <3>1. [state |-> "complete", from |-> p] \in FileState
      BY <1>2 DEF FileState
    <3> DEFINE mixed == [disk[p.lib].file[f] EXCEPT !.state = "partial"]
    <3>2. mixed \in FileState
      <4>1. disk[p.lib].file[f] \in FileState
        BY <1>2, DirectoryTypes DEF DiskInv
      <4> QED BY <4>1 DEF FileState
    <3>3. \/ disk' = [disk EXCEPT ![p.lib].file[f] = [state |-> "complete", from |-> p]]
          \/ disk' = [disk EXCEPT ![p.lib].file[f] = mixed]
          \/ UNCHANGED disk
      BY <2>3 DEF CopyWrite
    <3> HIDE DEF mixed
    <3>4. CASE disk' = [disk EXCEPT ![p.lib].file[f] = [state |-> "complete", from |-> p]]
      BY <1>2, <3>1, <3>4, FileChange
    <3>5. CASE disk' = [disk EXCEPT ![p.lib].file[f] = mixed]
      BY <1>2, <3>2, <3>5, FileChange
    <3>6. CASE UNCHANGED disk
      BY <3>6, Unchanging
    <3> QED BY <3>3, <3>4, <3>5, <3>6
  <2> QED BY <1>1, <2>1, <2>2, <2>3
<1> QED BY <1>3, <1>5, <1>6

LEMMA EndCopiesPreserves ==
  ASSUME UNCHANGED env, LibraryInstallInv, NEW r \in Requests, EndCopies(r)
  PROVE  LibraryInstallInv'
<1> USE DEF LibraryInstallInv
<1>1. PICK pc \in {"rollback", "checkMeta"} : GoTo(r, pc)
  BY DEF EndCopies
<1>2. JobInv'
  BY <1>1, GoToPreserves DEF EndCopies, Control
<1> QED BY <1>2, Unchanging DEF EndCopies

-----------------------------------------------------------------------------
(* checkConsistency, rollback *)

LEMMA CheckMetadataPreserves ==
  ASSUME UNCHANGED env, LibraryInstallInv, NEW r \in Requests, CheckMetadata(r)
  PROVE  LibraryInstallInv'
<1> USE DEF LibraryInstallInv
<1> DEFINE F == disk[Lib(r)].meta.needs
           found == [job[r] EXCEPT !.pc = "checkFiles", !.needs = F]
           missed == [job[r] EXCEPT !.pc = "rollback"]
<1>1. job[r].pc = "checkMeta" /\ job[r] \in Job /\ Lib(r) \in Libraries
  BY InFlight DEF CheckMetadata
<1>2. UNCHANGED outer /\ inner' \in [Libraries -> Lock]
  BY DEF CheckMetadata, JobInv
<1>3. CASE disk[Lib(r)].json = "complete"
  <2>1. F \in SUBSET Files
    BY <1>1, <1>3, PackageTypes DEF DiskInv
  <2>2. job' = [job EXCEPT ![r] = found]
    BY <1>3 DEF CheckMetadata
  <2> HIDE DEF F
  <2>3. found \in Job
    BY <1>1, <2>1, JobUpdates DEF Control
  <2>4. found.pkg = job[r].pkg /\ found.orphan = job[r].orphan
    BY <1>1 DEF Job
  <2> HIDE DEF found
  <2> QED BY <1>1, <1>2, <2>2, <2>3, <2>4, GoesOn, Unchanging DEF CheckMetadata
<1>4. CASE disk[Lib(r)].json # "complete"
  <2>1. job' = [job EXCEPT ![r] = missed]
    BY <1>4 DEF CheckMetadata
  <2>2. missed \in Job
    BY <1>1, JobUpdates DEF Control
  <2>3. missed.pkg = job[r].pkg /\ missed.orphan = job[r].orphan
    BY <1>1 DEF Job
  <2> HIDE DEF missed
  <2> QED BY <1>1, <1>2, <2>1, <2>2, <2>3, GoesOn, Unchanging DEF CheckMetadata
<1> QED BY <1>3, <1>4

LEMMA CheckFilesPreserves ==
  ASSUME UNCHANGED env, LibraryInstallInv, NEW r \in Requests, CheckFiles(r)
  PROVE  LibraryInstallInv'
<1> USE DEF LibraryInstallInv
<1>1. GoTo(r, "rollback") \/ End(r)
  BY DEF CheckFiles
<1>2. JobInv'
  BY <1>1, GoToPreserves, EndPreserves DEF CheckFiles, Control
<1> QED BY <1>2, Unchanging DEF CheckFiles

LEMMA RollbackPreserves ==
  ASSUME UNCHANGED env, LibraryInstallInv, NEW r \in Requests, Rollback(r)
  PROVE  LibraryInstallInv'
<1> USE DEF LibraryInstallInv
<1>1. GoTo(r, "rm") \/ End(r)
  BY DEF Rollback
<1>2. JobInv'
  BY <1>1, GoToPreserves, EndPreserves DEF Rollback, Control
<1> QED BY <1>2, Unchanging DEF Rollback

LEMMA Removed ==
  ASSUME DiskInv, NEW l \in Libraries, NEW b \in BOOLEAN,
         disk' = [disk EXCEPT ![l] = [NoDirectory EXCEPT !.dir = b]]
  PROVE  DiskInv'
<1> DEFINE d == [NoDirectory EXCEPT !.dir = b]
<1>1. d \in Directory /\ d.json = "absent"
  BY DirectoryTypes DEF NoDirectory, Directory
<1> HIDE DEF d
<1>2. disk' = [disk EXCEPT ![l] = d]
  BY DEF d
<1> QED BY <1>1, <1>2, DiskChange

LEMMA RemoveFilesPreserves ==
  ASSUME UNCHANGED env, LibraryInstallInv, NEW r \in Requests, RemoveFiles(r)
  PROVE  LibraryInstallInv'
<1> USE DEF LibraryInstallInv
<1>1. job[r].pc = "rm" /\ Lib(r) \in Libraries /\ disk[Lib(r)].dir \in BOOLEAN
  <2>1. job[r].pc = "rm"
    BY DEF RemoveFiles
  <2> QED BY <2>1, InFlight DEF Directory
<1>2. JobInv'
  BY <1>1, GoToPreserves DEF RemoveFiles, Control
<1>3. DiskInv'
  BY <1>1, Removed DEF RemoveFiles
<1> QED BY <1>2, <1>3, Unchanging DEF RemoveFiles

LEMMA RemoveDirectoryPreserves ==
  ASSUME UNCHANGED env, LibraryInstallInv, NEW r \in Requests, RemoveDirectory(r)
  PROVE  LibraryInstallInv'
<1> USE DEF LibraryInstallInv
<1>1. job[r].pc = "rmdir" /\ Lib(r) \in Libraries
  BY InFlight DEF RemoveDirectory
<1>2. JobInv'
  BY <1>1, EndPreserves DEF RemoveDirectory
<1>3. DiskInv'
  <2>1. PICK d \in {NoDirectory, disk[Lib(r)]} : disk' = [disk EXCEPT ![Lib(r)] = d]
    BY DEF RemoveDirectory
  <2>2. NoDirectory \in Directory /\ NoDirectory.json = "absent"
    BY DirectoryTypes DEF NoDirectory
  <2>3. /\ disk[Lib(r)] \in Directory
        /\ disk[Lib(r)].json = "complete" => disk[Lib(r)].meta \in Packages
    BY <1>1 DEF DiskInv
  <2> QED BY <1>1, <2>1, <2>2, <2>3, DiskChange
<1> QED BY <1>2, <1>3, Unchanging DEF RemoveDirectory

-----------------------------------------------------------------------------
(* Errors, time limits, crashes *)

LEMMA FailStoragePreserves ==
  ASSUME UNCHANGED env, LibraryInstallInv, NEW r \in Requests, FailStorage(r)
  PROVE  LibraryInstallInv'
<1> USE DEF LibraryInstallInv
<1>1. job[r].pc \notin {"idle", "outer"} /\ Lib(r) \in Libraries
  <2>1. job[r].pc \notin {"idle", "outer"}
    BY DEF FailStorage
  <2> QED BY <2>1, InFlight
<1>2. GoTo(r, "rollback") \/ End(r)
  BY DEF FailStorage
<1>3. JobInv'
  BY <1>1, <1>2, GoToPreserves, EndPreserves DEF Control
<1>4. UNCHANGED disk \/ disk' = [disk EXCEPT ![Lib(r)] = NoDirectory]
  BY DEF FailStorage
<1>5. DiskInv'
  <2>1. NoDirectory \in Directory /\ NoDirectory.json = "absent"
    BY DirectoryTypes DEF NoDirectory
  <2> QED BY <1>1, <1>4, <2>1, DiskChange, Unchanging
<1> QED BY <1>3, <1>5, Unchanging DEF FailStorage

LEMMA GiveUpPreserves ==
  ASSUME UNCHANGED env, LibraryInstallInv, NEW r \in Requests, GiveUp(r)
  PROVE  LibraryInstallInv'
<1> USE DEF LibraryInstallInv
<1>1. job[r].pc # "idle" /\ Lib(r) \in Libraries
  <2>1. job[r].pc # "idle"
    BY DEF GiveUp, WaitsOuter, WaitsInner
  <2> QED BY <2>1, InFlight
<1>2. job' = [job EXCEPT ![r] = IdleJob] /\ IdleJob.pc = "idle" /\ ~IdleJob.orphan
  BY DEF GiveUp, IdleJob
<1>3. CASE WaitsOuter(r) /\ outer' \in LeaveQueue(outer, Lib(r), r) /\ UNCHANGED inner
  <2>1. /\ outer' \in [Libraries -> Lock]
        /\ \A l \in Libraries : outer'[l].holder = outer[l].holder
    BY <1>1, <1>3, LeaveQueueType DEF JobInv
  <2>2. inner' \in [Libraries -> Lock]
    BY <1>3 DEF JobInv
  <2>3. JobInv'
    BY <1>2, <2>1, <2>2, IdleJobType, JobChange
  <2> QED BY <2>3, Unchanging DEF GiveUp
<1>4. CASE /\ WaitsInner(r) /\ inner' \in LeaveQueue(inner, Lib(r), r)
           /\ outer' = PassOn(outer, r)
  <2>1. inner' \in [Libraries -> Lock]
    BY <1>1, <1>4, LeaveQueueType DEF JobInv
  <2>2. /\ outer' \in [Libraries -> Lock]
        /\ \A q \in Requests \ {r}, l \in Libraries :
             outer[l].holder = q => outer'[l].holder = q
    BY <1>1, <1>4, PassOnType DEF JobInv
  <2>3. JobInv'
    BY <1>2, <2>1, <2>2, IdleJobType, JobChange
  <2> QED BY <2>3, Unchanging DEF GiveUp
<1> QED BY <1>3, <1>4 DEF GiveUp

LEMMA OuterLimitPreserves ==
  ASSUME UNCHANGED env, LibraryInstallInv, NEW r \in Requests, OuterLimit(r)
  PROVE  LibraryInstallInv'
<1> USE DEF LibraryInstallInv
<1>1. CASE GiveUp(r)
  BY <1>1, GiveUpPreserves
<1>2. CASE /\ ~WaitsOuter(r)
           /\ job' = [job EXCEPT ![r].late = TRUE]
           /\ UNCHANGED <<disk, outer, inner, copy, installs>>
  <2> DEFINE j == [job[r] EXCEPT !.late = TRUE]
  <2>1. job[r].pc # "idle" /\ job[r].pc = "outer" => HoldsOuter(r)
    BY <1>2 DEF WaitsOuter
  <2>2. job[r].pc # "idle"
    BY DEF OuterLimit
  <2>3. job[r] \in Job
    BY <2>2, InFlight
  <2>4. j \in Job
    BY <2>3, JobUpdates
  <2>5. j.pkg = job[r].pkg /\ j.orphan = job[r].orphan
    BY <2>3 DEF Job
  <2>6. job' = [job EXCEPT ![r] = j] /\ UNCHANGED outer /\ inner' \in [Libraries -> Lock]
    BY <1>2 DEF JobInv
  <2> HIDE DEF j
  <2>7. JobInv'
    BY <2>1, <2>2, <2>4, <2>5, <2>6, GoesOn
  <2> QED BY <1>2, <2>7, Unchanging
<1> QED BY <1>1, <1>2 DEF OuterLimit

LEMMA InnerLimitPreserves ==
  ASSUME UNCHANGED env, LibraryInstallInv, NEW r \in Requests, InnerLimit(r)
  PROVE  LibraryInstallInv'
<1> USE DEF LibraryInstallInv
<1>1. CASE GiveUp(r)
  BY <1>1, GiveUpPreserves
<1>2. CASE /\ job' = [job EXCEPT ![r].orphan = TRUE]
           /\ outer' = PassOn(outer, r)
           /\ UNCHANGED <<disk, inner, copy, installs>>
  <2> DEFINE j == [job[r] EXCEPT !.orphan = TRUE]
  <2>1. job[r].pc # "idle" /\ "occupation" \in env
    BY DEF InnerLimit, AddingLibrary
  <2>2. job[r] \in Job /\ job[r].pkg \in Packages /\ Lib(r) \in Libraries
    BY <2>1, InFlight
  <2>3. j \in Job
    BY <2>2, JobUpdates
  <2>4. j.pkg = job[r].pkg /\ j.orphan
    BY <2>2 DEF Job
  <2>5. job' = [job EXCEPT ![r] = j] /\ inner' \in [Libraries -> Lock]
    BY <1>2 DEF JobInv
  <2>6. /\ outer' \in [Libraries -> Lock]
        /\ \A q \in Requests \ {r}, l \in Libraries :
             outer[l].holder = q => outer'[l].holder = q
    BY <1>2, <2>2, PassOnType DEF JobInv
  <2> HIDE DEF j
  <2>7. JobInv'
    BY <2>1, <2>2, <2>3, <2>4, <2>5, <2>6, JobChange
  <2> QED BY <1>2, <2>7, Unchanging
<1> QED BY <1>1, <1>2 DEF InnerLimit

LEMMA CrashPreserves ==
  ASSUME LibraryInstallInv, Crash
  PROVE  LibraryInstallInv'
<1> USE DEF LibraryInstallInv
<1>1. /\ job' = [r \in Requests |-> IdleJob]
      /\ copy' = [r \in Requests |-> NoCopies]
      /\ outer' = [l \in Libraries |-> FreeLock]
      /\ inner' = [l \in Libraries |-> FreeLock]
      /\ UNCHANGED <<disk, installs>>
  BY DEF Crash
<1>2. FreeLock \in Lock
  BY DEF FreeLock, Lock
<1>3. NoCopies \in Copies /\ \A f \in Files : NoCopies.at[f] = "none"
  BY DEF NoCopies, Copies, CopyState
<1>4. IdleJob.pc = "idle" /\ ~IdleJob.orphan
  BY DEF IdleJob
<1>5. JobInv'
  BY <1>1, <1>2, <1>4, IdleJobType
     DEF JobInv, Requested, OuterHeld, OrphanedByTimeLimit, HoldsOuter
<1>6. CopyInv'
  BY <1>1, <1>3 DEF CopyInv
<1> QED BY <1>1, <1>5, <1>6, Unchanging

-----------------------------------------------------------------------------
(* The invariant holds always *)

LEMMA InitInv == Init => LibraryInstallInv
<1> SUFFICES ASSUME Init PROVE LibraryInstallInv
  OBVIOUS
<1> USE DEF LibraryInstallInv, Init
<1>1. FreeLock \in Lock
  BY DEF FreeLock, Lock
<1>2. IdleJob.pc = "idle" /\ ~IdleJob.orphan
  BY DEF IdleJob
<1>3. JobInv
  BY <1>1, <1>2, IdleJobType DEF JobInv, Requested, OuterHeld, OrphanedByTimeLimit
<1>4. NoDirectory.json = "absent"
  BY DEF NoDirectory
<1>5. DiskInv
  BY <1>4, DirectoryTypes DEF DiskInv
<1>6. NoCopies \in Copies /\ \A f \in Files : NoCopies.at[f] = "none"
  BY DEF NoCopies, Copies, CopyState
<1>7. CopyInv
  BY <1>6 DEF CopyInv
<1> QED BY <1>3, <1>5, <1>7

LEMMA InstallStepPreserves ==
  ASSUME UNCHANGED env, LibraryInstallInv, NEW r \in Requests, InstallStep(r)
  PROVE  LibraryInstallInv'
<1>1. CASE \/ CheckInstalled(r) \/ ListVersions(r)
           \/ (\E l \in Libraries : ReadVersion(r, l)) \/ DecidePatch(r)
  BY <1>1, CheckInstalledPreserves, ListVersionsPreserves, ReadVersionPreserves,
     DecidePatchPreserves
<1>2. CASE \/ AccessLibrary(r) \/ UpdateOpen(r) \/ UpdateWrite(r)
           \/ ListFiles(r) \/ ClearFiles(r)
  BY <1>2, AccessLibraryPreserves, UpdateOpenPreserves, UpdateWritePreserves,
     ListFilesPreserves, ClearFilesPreserves
<1>3. CASE MakeDirectory(r) \/ AddOpen(r) \/ AddWrite(r)
  BY <1>3, MakeDirectoryPreserves, AddOpenPreserves, AddWritePreserves
<1>4. CASE EndCopies(r) \/ CheckMetadata(r) \/ CheckFiles(r)
  BY <1>4, EndCopiesPreserves, CheckMetadataPreserves, CheckFilesPreserves
<1>5. CASE Rollback(r) \/ RemoveFiles(r) \/ RemoveDirectory(r) \/ FailStorage(r)
  BY <1>5, RollbackPreserves, RemoveFilesPreserves, RemoveDirectoryPreserves,
     FailStoragePreserves
<1> QED BY <1>1, <1>2, <1>3, <1>4, <1>5 DEF InstallStep

LEMMA NextPreserves == LibraryInstallInv /\ [Next]_vars => LibraryInstallInv'
<1> SUFFICES ASSUME LibraryInstallInv, [Next]_vars PROVE LibraryInstallInv'
  OBVIOUS
<1> UNCHANGED env
  BY DEF Next, vars
<1>1. ASSUME NEW r \in Requests, NEW p \in Packages, Begin(r, p)
      PROVE  LibraryInstallInv'
  BY <1>1, BeginPreserves
<1>2. ASSUME NEW r \in Requests, InstallStep(r) \/ CopyStep(r)
      PROVE  LibraryInstallInv'
  BY <1>2, InstallStepPreserves, CopyStepPreserves
<1>3. ASSUME NEW r \in Requests, QueueTimeout(r) \/ OuterLimit(r) \/ InnerLimit(r)
      PROVE  LibraryInstallInv'
  BY <1>3, GiveUpPreserves, OuterLimitPreserves, InnerLimitPreserves DEF QueueTimeout
<1>4. CASE Crash
  BY <1>4, CrashPreserves
<1>5. CASE UNCHANGED vars
  BY <1>5, Unchanging DEF vars, LibraryInstallInv
<1> QED BY <1>1, <1>2, <1>3, <1>4, <1>5 DEF Next

\* The inductive invariant of installations holds always: what a request in
\* flight, a copy and a readable library.json came from, and who holds the locks.
THEOREM InstallInvariant == Spec => []LibraryInstallInv
<1> QED BY InitInv, NextPreserves, PTL DEF Spec

\* Every variable of an installation has its type.
THEOREM TypeCorrect == Spec => []TypeOK
<1>1. LibraryInstallInv => TypeOK
  BY DEF LibraryInstallInv, JobInv, DiskInv, CopyInv, TypeOK
<1> QED BY <1>1, InstallInvariant, PTL

-----------------------------------------------------------------------------
(* No installed library is replaced by an older patch *)

\* What is installed now is older than what r is about to install.
Older(r) ==
  disk[Lib(r)].meta # NoPackage => disk[Lib(r)].meta.patch < job[r].pkg.patch

\* What r has found out stays true while it holds the outer lock.
Relies(r) ==
  /\ job[r].pc \in {"outer", "list"} => ~job[r].patch
  /\ job[r].pc = "read" /\ job[r].patch => Older(r)
  /\ job[r].pc \in {"updAccess", "updOpen", "updWrite"} => Older(r)
  /\ job[r].pc \in {"inner", "addOpen", "addWrite"} => disk[Lib(r)].meta = NoPackage

AbsentHasNoMetadata ==
  \A l \in Libraries : disk[l].json = "absent" => disk[l].meta = NoPackage

PatchInv ==
  /\ LibraryInstallInv
  /\ AbsentHasNoMetadata
  /\ \A r \in Requests : Relies(r)

\* What a step of r does to the versions on disk and to what r relies on.
PatchStep(r) ==
  /\ AbsentHasNoMetadata'
  /\ Relies(r)'
  /\ \A l \in Libraries :
       \/ disk'[l].meta = disk[l].meta
       \/ /\ l = Lib(r) /\ job[r].pc \notin {"idle", "outer"}
          /\ \/ disk'[l].meta = NoPackage
             \/ disk[l].meta # NoPackage => disk'[l].meta.patch >= disk[l].meta.patch

LEMMA SameDisk ==
  ASSUME PatchInv, NEW r \in Requests, UNCHANGED disk, Relies(r)'
  PROVE  PatchStep(r)
BY DEF PatchInv, PatchStep, AbsentHasNoMetadata

\* A request that relies on nothing.
Careless == Control \ {"outer", "list", "read", "updAccess", "updOpen", "updWrite",
                       "inner", "addOpen", "addWrite"}

LEMMA CarelessRelies ==
  ASSUME NEW r \in Requests, job'[r].pc \in Careless
  PROVE  Relies(r)'
BY DEF Relies, Careless

LEMMA EndRelies ==
  ASSUME JobInv, NEW r \in Requests, End(r)
  PROVE  Relies(r)'
<1>1. job'[r] = IdleJob
  BY DEF End, JobInv
<1>2. job'[r].pc \in Careless
  BY <1>1 DEF IdleJob, Careless, Control
<1> QED BY <1>2, CarelessRelies

LEMMA GoToRelies ==
  ASSUME JobInv, NEW r \in Requests, NEW pc \in Careless, GoTo(r, pc)
  PROVE  Relies(r)'
<1>1. job[r] \in Job /\ job'[r] = [job[r] EXCEPT !.pc = pc]
  BY DEF GoTo, JobInv
<1>2. job'[r].pc = pc
  BY <1>1 DEF Job
<1> QED BY <1>2, CarelessRelies

LEMMA CheckInstalledPatch ==
  ASSUME PatchInv, NEW r \in Requests, CheckInstalled(r)
  PROVE  PatchStep(r)
<1> USE DEF PatchInv
<1>1. job[r].pc = "outer" /\ job[r] \in Job /\ Lib(r) \in Libraries
  BY InFlight DEF CheckInstalled
<1>2. ~job[r].patch /\ UNCHANGED disk
  BY <1>1 DEF Relies, CheckInstalled
<1>3. CASE disk[Lib(r)].json # "absent"
  <2>1. job'[r] = [job[r] EXCEPT !.pc = "list"]
    BY <1>3 DEF CheckInstalled, LibraryInstallInv, JobInv
  <2>2. job'[r].pc = "list" /\ ~job'[r].patch
    BY <1>1, <1>2, <2>1 DEF Job
  <2>3. Relies(r)'
    BY <2>2 DEF Relies
  <2> QED BY <1>2, <2>3, SameDisk
<1>4. CASE disk[Lib(r)].json = "absent"
  <2>1. job'[r] = [job[r] EXCEPT !.pc = "inner"]
    BY <1>4 DEF CheckInstalled, LibraryInstallInv, JobInv
  <2>2. job'[r].pc = "inner" /\ job'[r].pkg = job[r].pkg
    BY <1>1, <2>1 DEF Job
  <2>3. disk[Lib(r)].meta = NoPackage
    BY <1>1, <1>4 DEF AbsentHasNoMetadata
  <2>4. Relies(r)'
    BY <1>2, <2>2, <2>3 DEF Relies, Lib
  <2> QED BY <1>2, <2>4, SameDisk
<1> QED BY <1>3, <1>4

LEMMA PatchCheck ==
  ASSUME PatchInv, NEW r \in Requests,
         \/ ListVersions(r) \/ (\E l \in Libraries : ReadVersion(r, l)) \/ DecidePatch(r)
  PROVE  PatchStep(r)
<1> USE DEF PatchInv
<1>1. job[r].pc \in {"list", "read"} /\ job[r] \in Job /\ UNCHANGED disk
  BY InFlight DEF ListVersions, ReadVersion, DecidePatch
<1>2. JobInv
  BY DEF LibraryInstallInv
<1>3. CASE ListVersions(r)
  <2>1. job'[r] = [job[r] EXCEPT !.pc = "read", !.unread = {l \in Libraries : disk[l].dir}]
    BY <1>3 DEF ListVersions, LibraryInstallInv, JobInv
  <2>2. ~job[r].patch
    BY <1>3 DEF ListVersions, Relies
  <2>3. job'[r].pc = "read" /\ ~job'[r].patch
    BY <1>1, <2>1, <2>2 DEF Job
  <2>4. Relies(r)'
    BY <2>3 DEF Relies
  <2> QED BY <1>1, <2>4, SameDisk
<1>4. ASSUME NEW l \in Libraries, ReadVersion(r, l), disk[l].json = "complete"
      PROVE  PatchStep(r)
  <2> DEFINE b == job[r].patch \/ (l = Lib(r) /\ disk[l].meta.patch < job[r].pkg.patch)
  <2>1. job'[r] = [job[r] EXCEPT !.unread = job[r].unread \ {l}, !.patch = b]
    BY <1>4 DEF ReadVersion, LibraryInstallInv, JobInv
  <2>2. job[r].pc = "read" /\ (job[r].patch => Older(r))
    BY <1>4 DEF ReadVersion, Relies
  <2> HIDE DEF b
  <2>3. job'[r].pc = "read" /\ job'[r].patch = b /\ job'[r].pkg = job[r].pkg
    BY <1>1, <2>1, <2>2 DEF Job
  <2>4. b => Older(r)
    BY <2>2 DEF b, Older
  <2>5. b => Older(r)'
    BY <1>1, <2>3, <2>4 DEF Older, Lib
  <2>6. Relies(r)'
    BY <2>3, <2>5 DEF Relies
  <2> QED BY <1>1, <2>6, SameDisk
<1>5. ASSUME NEW l \in Libraries, ReadVersion(r, l), disk[l].json # "complete"
      PROVE  PatchStep(r)
  BY <1>1, <1>2, <1>5, EndRelies, SameDisk DEF ReadVersion
<1>6. CASE DecidePatch(r) /\ job[r].patch
  <2>1. job'[r] = [job[r] EXCEPT !.pc = "updAccess", !.before = disk[Lib(r)].meta]
    BY <1>6 DEF DecidePatch, LibraryInstallInv, JobInv
  <2>2. Older(r)
    BY <1>6 DEF DecidePatch, Relies
  <2>3. job'[r].pc = "updAccess" /\ job'[r].pkg = job[r].pkg
    BY <1>1, <2>1 DEF Job
  <2>4. Relies(r)'
    BY <1>1, <2>2, <2>3 DEF Relies, Older, Lib
  <2> QED BY <1>1, <2>4, SameDisk
<1>7. CASE DecidePatch(r) /\ ~job[r].patch
  BY <1>1, <1>2, <1>7, EndRelies, SameDisk DEF DecidePatch
<1> QED BY <1>3, <1>4, <1>5, <1>6, <1>7

\* A change of a directory that keeps its version.
LEMMA SameVersion ==
  ASSUME PatchInv, NEW r \in Requests, NEW l \in Libraries, NEW d,
         disk' = [disk EXCEPT ![l] = d], d.meta = disk[l].meta,
         d.json = "absent" => disk[l].json = "absent", Relies(r)'
  PROVE  PatchStep(r)
BY DEF PatchInv, LibraryInstallInv, DiskInv, PatchStep, AbsentHasNoMetadata

\* A change of a directory that stores a version or removes it.
LEMMA NewVersion ==
  ASSUME PatchInv, NEW r \in Requests, NEW d, Lib(r) \in Libraries,
         job[r].pc \notin {"idle", "outer"},
         disk' = [disk EXCEPT ![Lib(r)] = d],
         d.json = "absent" => d.meta = NoPackage,
         \/ d.meta \in {disk[Lib(r)].meta, NoPackage}
         \/ disk[Lib(r)].meta # NoPackage => d.meta.patch >= disk[Lib(r)].meta.patch,
         Relies(r)'
  PROVE  PatchStep(r)
BY DEF PatchInv, LibraryInstallInv, DiskInv, PatchStep, AbsentHasNoMetadata

\* A request that goes on relies on what it relied on before.
LEMMA KeepsRelying ==
  ASSUME PatchInv, NEW r \in Requests, NEW pc, GoTo(r, pc),
         disk'[Lib(r)].meta = disk[Lib(r)].meta,
         \/ job[r].pc \in {"updAccess", "updOpen"} /\ pc \in {"updOpen", "updWrite"}
         \/ job[r].pc \in {"inner", "addOpen"} /\ pc \in {"addOpen", "addWrite"}
  PROVE  Relies(r)'
<1>1. job[r] \in Job /\ job'[r] = [job[r] EXCEPT !.pc = pc] /\ Relies(r)
  BY DEF GoTo, PatchInv, LibraryInstallInv, JobInv
<1>2. job'[r].pc = pc /\ job'[r].pkg = job[r].pkg
  BY <1>1 DEF Job
<1> QED BY <1>1, <1>2 DEF Relies, Older, Lib

LEMMA OpenMetadataPatch ==
  ASSUME PatchInv, NEW r \in Requests, UpdateOpen(r) \/ AddOpen(r)
  PROVE  PatchStep(r)
<1> USE DEF PatchInv
<1>1. /\ job[r].pc \in {"updOpen", "addOpen"} /\ Lib(r) \in Libraries
      /\ disk[Lib(r)] \in Directory /\ JobInv
  <2>1. job[r].pc \in {"updOpen", "addOpen"}
    BY DEF UpdateOpen, AddOpen, OpenMetadata
  <2> QED BY <2>1, InFlight DEF LibraryInstallInv
<1>2. CASE disk[Lib(r)].dir
  <2> DEFINE d == [disk[Lib(r)] EXCEPT !.json = "partial"]
  <2>1. d.json = "partial" /\ d.meta = disk[Lib(r)].meta
    BY <1>1 DEF Directory
  <2>2. disk' = [disk EXCEPT ![Lib(r)] = d]
    BY <1>2 DEF UpdateOpen, AddOpen, OpenMetadata
  <2> HIDE DEF d
  <2>3. disk'[Lib(r)].meta = disk[Lib(r)].meta
    BY <1>1, <2>1, <2>2 DEF LibraryInstallInv, DiskInv
  <2>4. \/ job[r].pc = "updOpen" /\ GoTo(r, "updWrite")
        \/ job[r].pc = "addOpen" /\ GoTo(r, "addWrite")
    BY <1>2 DEF UpdateOpen, AddOpen, OpenMetadata
  <2>5. Relies(r)'
    BY <2>3, <2>4, KeepsRelying
  <2> QED BY <1>1, <2>1, <2>2, <2>5, SameVersion
<1>3. CASE ~disk[Lib(r)].dir
  <2>1. UNCHANGED disk /\ (GoTo(r, "rollback") \/ End(r))
    BY <1>3 DEF UpdateOpen, AddOpen, OpenMetadata
  <2>2. Relies(r)'
    BY <1>1, <2>1, GoToRelies, EndRelies DEF Careless, Control
  <2> QED BY <2>1, <2>2, SameDisk
<1> QED BY <1>2, <1>3

LEMMA StoreMetadataPatch ==
  ASSUME PatchInv, NEW r \in Requests, UpdateWrite(r) \/ AddWrite(r)
  PROVE  PatchStep(r)
<1> USE DEF PatchInv
<1> DEFINE d == Stored(disk[Lib(r)], job[r].pkg)
<1>1. /\ job[r].pc \in {"updWrite", "addWrite"} /\ Lib(r) \in Libraries
      /\ disk[Lib(r)] \in Directory /\ job[r].pkg \in Packages /\ JobInv
  <2>1. job[r].pc \in {"updWrite", "addWrite"}
    BY DEF UpdateWrite, AddWrite
  <2> QED BY <2>1, InFlight DEF LibraryInstallInv
<1>2. disk' = [disk EXCEPT ![Lib(r)] = d]
  BY DEF UpdateWrite, AddWrite
<1>3. Relies(r)'
  BY <1>1, GoToRelies DEF UpdateWrite, AddWrite, Careless, Control
<1>4. \/ d = disk[Lib(r)]
      \/ d.json = "complete" /\ d.meta = job[r].pkg
  BY <1>1 DEF Stored, Directory
<1>5. disk[Lib(r)].meta # NoPackage => disk[Lib(r)].meta.patch < job[r].pkg.patch
  BY <1>1 DEF Relies, Older
<1>6. disk[Lib(r)].meta # NoPackage => disk[Lib(r)].meta.patch \in Nat
  BY <1>1, PackageTypes DEF Directory
<1>7. job[r].pkg.patch \in Nat
  BY <1>1, PackageTypes
<1> HIDE DEF d
<1>8. d.json = "absent" => d.meta = NoPackage
  BY <1>1, <1>4 DEF AbsentHasNoMetadata
<1>9. \/ d.meta \in {disk[Lib(r)].meta, NoPackage}
      \/ disk[Lib(r)].meta # NoPackage => d.meta.patch >= disk[Lib(r)].meta.patch
  BY <1>4, <1>5, <1>6, <1>7
<1> QED BY <1>1, <1>2, <1>3, <1>8, <1>9, NewVersion

LEMMA UpdatePatch ==
  ASSUME PatchInv, NEW r \in Requests, AccessLibrary(r) \/ ListFiles(r) \/ ClearFiles(r)
  PROVE  PatchStep(r)
<1> USE DEF PatchInv
<1>1. /\ job[r].pc \in {"updAccess", "clearList", "clear"} /\ Lib(r) \in Libraries
      /\ disk[Lib(r)] \in Directory /\ job[r] \in Job /\ JobInv
  <2>1. job[r].pc \in {"updAccess", "clearList", "clear"}
    BY DEF AccessLibrary, ListFiles, ClearFiles
  <2> QED BY <2>1, InFlight DEF LibraryInstallInv
<1>2. CASE AccessLibrary(r)
  <2>1. UNCHANGED disk
    BY <1>2 DEF AccessLibrary
  <2>2. job[r].pc = "updAccess" /\ (GoTo(r, "updOpen") \/ GoTo(r, "rollback"))
    BY <1>2 DEF AccessLibrary
  <2>3. Relies(r)'
    BY <1>1, <2>1, <2>2, KeepsRelying, GoToRelies DEF Careless, Control
  <2> QED BY <2>1, <2>3, SameDisk
<1>3. CASE ListFiles(r)
  <2>1. \/ job'[r].pc = "clear"
        \/ job'[r].pc = "rollback"
    BY <1>1, <1>3 DEF ListFiles, JobInv, Job
  <2>2. Relies(r)'
    BY <2>1, CarelessRelies DEF Careless, Control
  <2> QED BY <1>3, <2>2, SameDisk DEF ListFiles
<1>4. CASE ClearFiles(r)
  <2> DEFINE g == [f \in Files |-> IF f \in job[r].clear THEN NoFile ELSE disk[Lib(r)].file[f]]
             d == [disk[Lib(r)] EXCEPT !.file = g]
  <2>1. disk' = [disk EXCEPT ![Lib(r)] = d]
    BY <1>4 DEF ClearFiles
  <2> HIDE DEF g
  <2>2. d.json = disk[Lib(r)].json /\ d.meta = disk[Lib(r)].meta
    BY <1>1 DEF Directory
  <2> HIDE DEF d
  <2>3. Relies(r)'
    BY <1>1, <1>4, GoToRelies DEF ClearFiles, Careless, Control
  <2> QED BY <1>1, <2>1, <2>2, <2>3, SameVersion
<1> QED BY <1>2, <1>3, <1>4

LEMMA MakeDirectoryPatch ==
  ASSUME PatchInv, NEW r \in Requests, MakeDirectory(r)
  PROVE  PatchStep(r)
<1> USE DEF PatchInv
<1>1. job[r].pc = "inner" /\ Lib(r) \in Libraries /\ disk[Lib(r)] \in Directory
  BY InFlight DEF MakeDirectory
<1> DEFINE d == [disk[Lib(r)] EXCEPT !.dir = TRUE]
<1>2. d.json = disk[Lib(r)].json /\ d.meta = disk[Lib(r)].meta
  BY <1>1 DEF Directory
<1>3. disk' = [disk EXCEPT ![Lib(r)] = d]
  BY DEF MakeDirectory
<1> HIDE DEF d
<1>4. disk'[Lib(r)].meta = disk[Lib(r)].meta
  BY <1>1, <1>2, <1>3 DEF LibraryInstallInv, DiskInv
<1>5. Relies(r)'
  BY <1>1, <1>4, KeepsRelying DEF MakeDirectory
<1> QED BY <1>1, <1>2, <1>3, <1>5, SameVersion

LEMMA CheckPatch ==
  ASSUME PatchInv, NEW r \in Requests,
         EndCopies(r) \/ CheckMetadata(r) \/ CheckFiles(r) \/ Rollback(r)
  PROVE  PatchStep(r)
<1> USE DEF PatchInv
<1>1. JobInv /\ UNCHANGED disk
  BY DEF LibraryInstallInv, EndCopies, CheckMetadata, CheckFiles, Rollback
<1>2. CASE EndCopies(r) \/ CheckFiles(r) \/ Rollback(r)
  <2>1. (\E pc \in {"rollback", "checkMeta", "rm"} : GoTo(r, pc)) \/ End(r)
    BY <1>2 DEF EndCopies, CheckFiles, Rollback
  <2>2. Relies(r)'
    BY <1>1, <2>1, GoToRelies, EndRelies DEF Careless, Control
  <2> QED BY <1>1, <2>2, SameDisk
<1>3. CASE CheckMetadata(r)
  <2>1. job'[r].pc \in {"checkFiles", "rollback"}
    BY <1>1, <1>3 DEF CheckMetadata, JobInv, Job
  <2>2. Relies(r)'
    BY <2>1, CarelessRelies DEF Careless, Control
  <2> QED BY <1>1, <2>2, SameDisk
<1> QED BY <1>2, <1>3

LEMMA RemovePatch ==
  ASSUME PatchInv, NEW r \in Requests,
         RemoveFiles(r) \/ RemoveDirectory(r) \/ FailStorage(r)
  PROVE  PatchStep(r)
<1> USE DEF PatchInv
<1>1. job[r].pc \notin {"idle", "outer"} /\ JobInv
  BY DEF RemoveFiles, RemoveDirectory, FailStorage, LibraryInstallInv
<1>2. Lib(r) \in Libraries
  BY <1>1, InFlight
<1>3. GoTo(r, "rmdir") \/ GoTo(r, "rollback") \/ End(r)
  BY DEF RemoveFiles, RemoveDirectory, FailStorage
<1>4. Relies(r)'
  BY <1>1, <1>3, GoToRelies, EndRelies DEF Careless, Control
<1>5. PICK d \in {NoDirectory, [NoDirectory EXCEPT !.dir = disk[Lib(r)].dir],
                  disk[Lib(r)]} :
        disk' = [disk EXCEPT ![Lib(r)] = d]
  <2>1. disk = [disk EXCEPT ![Lib(r)] = disk[Lib(r)]]
    BY DEF LibraryInstallInv, DiskInv
  <2> QED BY <2>1 DEF RemoveFiles, RemoveDirectory, FailStorage
<1>6. \/ d = disk[Lib(r)]
      \/ d.json = "absent" /\ d.meta = NoPackage
  BY <1>5 DEF NoDirectory
<1>7. d.json = "absent" => d.meta = NoPackage
  BY <1>2, <1>6 DEF AbsentHasNoMetadata
<1>8. d.meta \in {disk[Lib(r)].meta, NoPackage}
  BY <1>6
<1> QED BY <1>1, <1>2, <1>4, <1>5, <1>7, <1>8, NewVersion

LEMMA CopyPatch ==
  ASSUME PatchInv, NEW r \in Requests, CopyStep(r)
  PROVE  PatchStep(r)
<1> USE DEF PatchInv
<1>1. PICK f \in Files : \/ CopyAccess(r, f) \/ CopyOpen(r, f)
                          \/ CopyWrite(r, f) \/ FailToCopy(r, f)
  BY DEF CopyStep
<1> DEFINE l == copy[r].pkg.lib
<1>2. l \in Libraries /\ disk[l] \in Directory
  BY <1>1, PackageTypes
     DEF LibraryInstallInv, CopyInv, DiskInv, CopyAccess, CopyOpen, CopyWrite, FailToCopy
<1>3. UNCHANGED job
  BY <1>1 DEF CopyAccess, CopyOpen, CopyWrite, FailToCopy
<1>4. PICK d : disk' = [disk EXCEPT ![l] = d] /\ d.meta = disk[l].meta /\ d.json = disk[l].json
  <2>1. CASE UNCHANGED disk
    <3>1. disk' = [disk EXCEPT ![l] = disk[l]]
      BY <2>1 DEF LibraryInstallInv, DiskInv
    <3> QED BY <3>1
  <2>2. ASSUME NEW state, disk' = [disk EXCEPT ![l].dir = TRUE, ![l].file[f] = state]
        PROVE  \E d : disk' = [disk EXCEPT ![l] = d] /\ d.meta = disk[l].meta /\ d.json = disk[l].json
    <3> DEFINE d == [disk[l] EXCEPT !.dir = TRUE, !.file = [disk[l].file EXCEPT ![f] = state]]
    <3>1. disk' = [disk EXCEPT ![l] = d]
      BY <1>2, <2>2 DEF LibraryInstallInv, DiskInv, Directory
    <3>2. d.meta = disk[l].meta /\ d.json = disk[l].json
      BY <1>2 DEF Directory
    <3> QED BY <3>1, <3>2
  <2>3. ASSUME NEW state, disk' = [disk EXCEPT ![l].file[f] = state]
        PROVE  \E d : disk' = [disk EXCEPT ![l] = d] /\ d.meta = disk[l].meta /\ d.json = disk[l].json
    <3> DEFINE d == [disk[l] EXCEPT !.file = [disk[l].file EXCEPT ![f] = state]]
    <3>1. disk' = [disk EXCEPT ![l] = d]
      BY <1>2, <2>3 DEF LibraryInstallInv, DiskInv, Directory
    <3>2. d.meta = disk[l].meta /\ d.json = disk[l].json
      BY <1>2 DEF Directory
    <3> QED BY <3>1, <3>2
  <2>4. CASE CopyAccess(r, f) \/ FailToCopy(r, f)
    BY <2>1, <2>4 DEF CopyAccess, FailToCopy
  <2>5. CASE CopyOpen(r, f)
    BY <2>2, <2>5 DEF CopyOpen
  <2>6. CASE CopyWrite(r, f)
    <3>1. \/ disk' = [disk EXCEPT ![l].file[f] = [state |-> "complete", from |-> copy[r].pkg]]
          \/ disk' = [disk EXCEPT ![l].file[f] = [disk[l].file[f] EXCEPT !.state = "partial"]]
          \/ UNCHANGED disk
      BY <2>6 DEF CopyWrite
    <3> QED BY <2>1, <2>3, <3>1
  <2> QED BY <1>1, <2>4, <2>5, <2>6
<1>5. disk'[Lib(r)].meta = disk[Lib(r)].meta \/ job[r].pc = "idle"
  <2>1. \A m \in Libraries : disk'[m].meta = disk[m].meta
    BY <1>2, <1>4 DEF LibraryInstallInv, DiskInv
  <2> QED BY <2>1, InFlight
<1>6. Relies(r)'
  BY <1>3, <1>5 DEF Relies, Older, Lib
<1> HIDE DEF l
<1> QED BY <1>2, <1>4, <1>6, SameVersion

LEMMA BeginPatch ==
  ASSUME PatchInv, NEW r \in Requests, NEW p \in Packages, Begin(r, p)
  PROVE  PatchStep(r)
<1> USE DEF PatchInv
<1>1. job'[r] = [IdleJob EXCEPT !.pc = "outer", !.pkg = p] /\ UNCHANGED disk
  BY DEF Begin, LibraryInstallInv, JobInv
<1>2. job'[r].pc = "outer" /\ ~job'[r].patch
  BY <1>1 DEF IdleJob
<1>3. Relies(r)'
  BY <1>2 DEF Relies
<1> QED BY <1>1, <1>3, SameDisk

LEMMA GiveUpPatch ==
  ASSUME PatchInv, NEW r \in Requests, GiveUp(r)
  PROVE  PatchStep(r)
<1> USE DEF PatchInv
<1>1. job'[r] = IdleJob /\ UNCHANGED disk
  BY DEF GiveUp, LibraryInstallInv, JobInv
<1>2. Relies(r)'
  BY <1>1 DEF Relies, IdleJob
<1> QED BY <1>1, <1>2, SameDisk

LEMMA InstallStepPatch ==
  ASSUME PatchInv, NEW r \in Requests, InstallStep(r)
  PROVE  PatchStep(r)
<1>1. CASE \/ CheckInstalled(r) \/ ListVersions(r)
           \/ (\E l \in Libraries : ReadVersion(r, l)) \/ DecidePatch(r)
  BY <1>1, CheckInstalledPatch, PatchCheck
<1>2. CASE \/ AccessLibrary(r) \/ UpdateOpen(r) \/ UpdateWrite(r)
           \/ ListFiles(r) \/ ClearFiles(r)
  BY <1>2, UpdatePatch, OpenMetadataPatch, StoreMetadataPatch
<1>3. CASE MakeDirectory(r) \/ AddOpen(r) \/ AddWrite(r)
  BY <1>3, MakeDirectoryPatch, OpenMetadataPatch, StoreMetadataPatch
<1>4. CASE \/ EndCopies(r) \/ CheckMetadata(r) \/ CheckFiles(r)
           \/ Rollback(r) \/ RemoveFiles(r) \/ RemoveDirectory(r) \/ FailStorage(r)
  BY <1>4, CheckPatch, RemovePatch
<1> QED BY <1>1, <1>2, <1>3, <1>4 DEF InstallStep

\* Steps change the job of one request only.
LEMMA OtherJobs ==
  ASSUME LibraryInstallInv, NEW r \in Requests, NEW q \in Requests, q # r,
         \/ \E p \in Packages : Begin(r, p)
         \/ InstallStep(r) \/ CopyStep(r) \/ GiveUp(r)
  PROVE  job'[q] = job[q]
<1> USE DEF LibraryInstallInv, JobInv
<1>1. CASE (\E p \in Packages : Begin(r, p)) \/ GiveUp(r)
  BY <1>1 DEF Begin, GiveUp
<1>2. CASE CopyStep(r)
  BY <1>2 DEF CopyStep, CopyAccess, CopyOpen, CopyWrite, FailToCopy
<1>3. CASE \/ CheckInstalled(r) \/ ListVersions(r)
           \/ (\E l \in Libraries : ReadVersion(r, l)) \/ DecidePatch(r)
  BY <1>3 DEF CheckInstalled, ListVersions, ReadVersion, DecidePatch, End
<1>4. CASE \/ AccessLibrary(r) \/ UpdateOpen(r) \/ UpdateWrite(r)
           \/ ListFiles(r) \/ ClearFiles(r)
           \/ MakeDirectory(r) \/ AddOpen(r) \/ AddWrite(r)
  BY <1>4 DEF AccessLibrary, UpdateOpen, UpdateWrite, ListFiles, ClearFiles,
              MakeDirectory, AddOpen, AddWrite, OpenMetadata, GoTo, End
<1>5. CASE \/ EndCopies(r) \/ CheckMetadata(r) \/ CheckFiles(r) \/ Rollback(r)
           \/ RemoveFiles(r) \/ RemoveDirectory(r) \/ FailStorage(r)
  BY <1>5 DEF EndCopies, CheckMetadata, CheckFiles, Rollback, RemoveFiles,
              RemoveDirectory, FailStorage, GoTo, End
<1> QED BY <1>1, <1>2, <1>3, <1>4, <1>5 DEF InstallStep

\* A request past the outer lock relies on a directory only it changes.
LEMMA OthersRely ==
  ASSUME "occupation" \notin env, PatchInv, NEW r \in Requests, PatchStep(r),
         NEW q \in Requests, q # r, job'[q] = job[q]
  PROVE  Relies(q)'
<1>1. Relies(q)
  BY DEF PatchInv
<1>2. CASE job[q].pc \in {"idle", "outer"}
  BY <1>1, <1>2 DEF Relies
<1>3. CASE job[q].pc \notin {"idle", "outer"}
  <2>1. Lib(q) \in Libraries
    BY <1>3, InFlight DEF PatchInv
  <2>2. HoldsOuter(q)
    BY <1>3 DEF PatchInv, LibraryInstallInv, JobInv, OuterHeld, OrphanedByTimeLimit
  <2>3. ASSUME Lib(q) = Lib(r), job[r].pc \notin {"idle", "outer"}
        PROVE  FALSE
    <3>1. HoldsOuter(r)
      BY <2>3 DEF PatchInv, LibraryInstallInv, JobInv, OuterHeld, OrphanedByTimeLimit
    <3> QED BY <2>2, <2>3, <3>1 DEF HoldsOuter
  <2>4. disk'[Lib(q)].meta = disk[Lib(q)].meta
    BY <2>1, <2>3 DEF PatchStep
  <2> QED BY <1>1, <2>4 DEF Relies, Older, Lib
<1> QED BY <1>2, <1>3

\* The step of a request as a step of the versions on disk.
NoOlderStep ==
  \A l \in Libraries :
    disk[l].meta # NoPackage /\ disk'[l].meta # NoPackage
      => disk'[l].meta.patch >= disk[l].meta.patch

LEMMA SameIsNoOlder ==
  ASSUME PatchInv, NEW l \in Libraries, disk[l].meta # NoPackage,
         disk'[l].meta = disk[l].meta
  PROVE  disk'[l].meta.patch >= disk[l].meta.patch
<1>1. disk[l].meta \in Packages
  BY DEF PatchInv, LibraryInstallInv, DiskInv, Directory
<1>2. disk[l].meta.patch \in Nat
  BY <1>1, PackageTypes
<1> QED BY <1>2

LEMMA NextPatch ==
  ASSUME "occupation" \notin env, PatchInv, [Next]_vars
  PROVE  PatchInv' /\ NoOlderStep
<1>1. LibraryInstallInv'
  BY NextPreserves DEF PatchInv
<1>2. ASSUME NEW r \in Requests, PatchStep(r),
             \/ \E p \in Packages : Begin(r, p)
             \/ InstallStep(r) \/ CopyStep(r) \/ GiveUp(r)
      PROVE  PatchInv' /\ NoOlderStep
  <2>1. \A q \in Requests : q # r => job'[q] = job[q]
    BY <1>2, OtherJobs DEF PatchInv
  <2>2. \A q \in Requests : Relies(q)'
    BY <1>2, <2>1, OthersRely DEF PatchStep
  <2>3. NoOlderStep
    BY <1>2, SameIsNoOlder DEF PatchStep, NoOlderStep
  <2> QED BY <1>1, <1>2, <2>2, <2>3 DEF PatchInv, PatchStep
<1>3. ASSUME UNCHANGED disk, \A r \in Requests : Relies(r)'
      PROVE  PatchInv' /\ NoOlderStep
  <2>1. NoOlderStep
    BY <1>3, SameIsNoOlder DEF NoOlderStep
  <2> QED BY <1>1, <1>3, <2>1 DEF PatchInv, AbsentHasNoMetadata
<1>4. ASSUME NEW r \in Requests, NEW p \in Packages, Begin(r, p)
      PROVE  PatchInv' /\ NoOlderStep
  BY <1>2, <1>4, BeginPatch
<1>5. ASSUME NEW r \in Requests, InstallStep(r) \/ CopyStep(r)
      PROVE  PatchInv' /\ NoOlderStep
  BY <1>2, <1>5, InstallStepPatch, CopyPatch
<1>6. ASSUME NEW r \in Requests, QueueTimeout(r) \/ OuterLimit(r) \/ InnerLimit(r)
      PROVE  PatchInv' /\ NoOlderStep
  <2>1. GiveUp(r)
    BY <1>6 DEF QueueTimeout, OuterLimit, InnerLimit
  <2> QED BY <1>2, <2>1, GiveUpPatch
<1>7. CASE Crash
  <2>1. \A r \in Requests : job'[r] = IdleJob
    BY <1>7 DEF Crash
  <2>2. \A r \in Requests : Relies(r)'
    BY <2>1 DEF Relies, IdleJob
  <2> QED BY <1>3, <1>7, <2>2 DEF Crash
<1>8. CASE UNCHANGED vars
  <2>1. \A r \in Requests : Relies(r)'
    BY <1>8 DEF vars, PatchInv, Relies, Older, Lib
  <2> QED BY <1>3, <1>8, <2>1 DEF vars
<1> QED BY <1>4, <1>5, <1>6, <1>7, <1>8 DEF Next

LEMMA InitPatch == Init => PatchInv
<1> SUFFICES ASSUME Init PROVE PatchInv
  OBVIOUS
<1>1. AbsentHasNoMetadata
  BY DEF Init, AbsentHasNoMetadata, NoDirectory
<1>2. \A r \in Requests : Relies(r)
  BY DEF Init, Relies, IdleJob
<1> QED BY <1>1, <1>2, InitInv DEF PatchInv

\* Installing never replaces an installed version by an older patch (the check
\* of isPatchedLibrary still holds when updateLibrary or addLibrary writes), as
\* long as no installation exceeds the lock's time limit.
THEOREM NeverDowngraded == Spec => NoDowngrade
<1> DEFINE Patient == "occupation" \notin env
<1>1. Init => (Patient => PatchInv)
  BY InitPatch
<1>2. (Patient => PatchInv) /\ [Next]_vars => (Patient => PatchInv)'
  BY NextPatch DEF Next, vars
<1>3. (Patient => PatchInv) /\ [Next]_vars => [Patient => NoOlderStep]_vars
  BY NextPatch
<1>4. NoDowngrade <=> [][Patient => NoOlderStep]_vars
  BY DEF NoDowngrade, NoOlderStep
<1> HIDE DEF Patient
<1> QED BY <1>1, <1>2, <1>3, <1>4, PTL DEF Spec

-----------------------------------------------------------------------------
(* While storage works.  The inductive invariant says what the directory of *)
(* a library holds at every point of installFromDirectory, and that it is   *)
(* complete or absent while no request is past the library's lock.          *)

\* Storage calls succeed, the process lives and no lock's time limit ends an
\* installation; requests may give up waiting for a lock.
Undisturbed == env \subseteq {"queueTimeout"}

\* What the theorems assume of the environment.
Faultless == \A e \in Environments : e \subseteq {"queueTimeout"}

-----------------------------------------------------------------------------
(* What a directory holds *)

Healthy(p) == p.needs \subseteq p.files

Copied(p) == [state |-> "complete", from |-> p]

HasNone(d) == \A f \in Files : d.file[f] = NoFile

HasAll(d, p) ==
  \A f \in Files : d.file[f] = IF f \in p.files THEN Copied(p) ELSE NoFile

Readable(d, p) == d.dir /\ d.json = "complete" /\ d.meta = p

Whole(d) ==
  /\ d.meta \in Packages
  /\ Readable(d, d.meta)
  /\ Healthy(d.meta)
  /\ HasAll(d, d.meta)

Settled(d) == d = NoDirectory \/ Whole(d)

EmptyDirectory == [NoDirectory EXCEPT !.dir = TRUE]

\* The copies c of the files of p, while they run.
CopiedSoFar(d, c, p) ==
  /\ c.pkg = p
  /\ \A f \in Files :
       /\ c.at[f] # "failed"
       /\ c.at[f] = "none" <=> f \notin p.files
       /\ c.at[f] \in {"none", "access", "open"} => d.file[f] = NoFile
       /\ c.at[f] = "write" => d.file[f] = [state |-> "partial", from |-> p]
       /\ c.at[f] = "done" => d.file[f] = Copied(p)

\* A request past the lock of its library.
Working == Control \ {"idle", "outer"}

\* The directory d when a request with local state j and copies c works on it.
AtPhase(j, d, c) ==
  /\ j.pc \in {"list", "read"} => Whole(d)
  /\ j.pc = "inner" => d = NoDirectory
  /\ j.pc \in {"updAccess", "updOpen"} => Whole(d) /\ d.meta = j.before
  /\ j.pc = "updWrite" => d.dir /\ d.json = "partial"
  /\ j.pc \in {"clearList", "clear"} => Readable(d, j.pkg)
  /\ j.pc = "clear" => j.clear = {f \in Files : d.file[f] # NoFile}
  /\ j.pc = "addOpen" => d = EmptyDirectory
  /\ j.pc = "addWrite" => d.dir /\ d.json = "partial" /\ HasNone(d)
  /\ j.pc = "copy" => Readable(d, j.pkg) /\ CopiedSoFar(d, c, j.pkg)
  /\ j.pc \in {"checkMeta", "checkFiles", "rollback", "rm"}
       => Readable(d, j.pkg) /\ HasAll(d, j.pkg)
  /\ j.pc = "checkFiles" => j.needs = j.pkg.needs
  /\ j.pc = "rmdir" => d = EmptyDirectory
  /\ j.pc \in {"rollback", "rm", "rmdir"} => ~Healthy(j.pkg)

\* The version a request has found installed is older than the one it installs.
Remembers(j) ==
  /\ j.pc \in {"outer", "list", "read", "inner", "addOpen", "addWrite"}
       => j.before = NoPackage
  /\ j.before # NoPackage => j.before.patch < j.pkg.patch

Phases ==
  \A r \in Requests : job[r].pc # "idle" =>
    AtPhase(job[r], disk[Lib(r)], copy[r]) /\ Remembers(job[r])

InProgress(c) == \E f \in Files : c.at[f] \in {"access", "open", "write"}

CopiesAwaited == \A r \in Requests : InProgress(copy[r]) => job[r].pc = "copy"

FreeLibraries ==
  \A l \in Libraries :
    (\A r \in Requests : job[r].pc \in Working => Lib(r) # l) => Settled(disk[l])

CompleteInv == PatchInv /\ Phases /\ CopiesAwaited /\ FreeLibraries

-----------------------------------------------------------------------------
(* One step of one request *)

ChangingPhases == Working \ {"list", "read", "inner"}

\* What the registry shows of the library of r, as far as r is concerned.
View(r) == IF job[r].pc \in ChangingPhases THEN job[r].before ELSE disk[Lib(r)].meta

\* The same after a step of r.
NextView(r) ==
  IF job'[r].pc \in ChangingPhases THEN job'[r].before ELSE disk'[Lib(r)].meta

Transition(p, was, now) ==
  \/ now = was
  \/ Healthy(p) /\ now = p /\ (was = NoPackage \/ was.patch < p.patch)
  \/ ~Healthy(p) /\ now = NoPackage /\ was # NoPackage /\ was.patch < p.patch

Arrives(r) ==
  /\ job'[r].pc # "idle" =>
       /\ job'[r].pkg = job[r].pkg
       /\ AtPhase(job'[r], disk'[Lib(r)], copy'[r])
       /\ Remembers(job'[r])
  /\ job'[r].pc \notin Working /\ job[r].pc \in Working => Settled(disk'[Lib(r)])
  /\ InProgress(copy'[r]) => job'[r].pc = "copy"
  /\ Transition(job[r].pkg, View(r), NextView(r))

\* A step of r leaves the other requests and the other libraries alone, and
\* while r waits for the lock also its own library.
Alone(r) ==
  /\ \A q \in Requests \ {r} : job'[q] = job[q] /\ copy'[q] = copy[q]
  /\ \A l \in Libraries :
       l # Lib(r) \/ job[r].pc \notin Working => disk'[l] = disk[l]

LEMMA JobFacts ==
  ASSUME JobInv, NEW r \in Requests
  PROVE  /\ \A pc \in Control : GoTo(r, pc) =>
              /\ job'[r].pc = pc
              /\ job'[r].pkg = job[r].pkg
              /\ job'[r].before = job[r].before
              /\ job'[r].clear = job[r].clear
              /\ job'[r].needs = job[r].needs
         /\ End(r) => job'[r] = IdleJob
<1>1. job[r] \in Job
  BY DEF JobInv
<1>2. ASSUME NEW pc \in Control, GoTo(r, pc)
      PROVE  job'[r] = [job[r] EXCEPT !.pc = pc]
  BY <1>2 DEF GoTo, JobInv
<1>3. End(r) => job'[r] = IdleJob
  BY DEF End, JobInv
<1> QED BY <1>1, <1>2, <1>3 DEF Job

\* What a request past the lock relies on.
LEMMA AtWork ==
  ASSUME CompleteInv, NEW r \in Requests, job[r].pc # "idle"
  PROVE  /\ JobInv
         /\ job[r] \in Job
         /\ job[r].pkg \in Packages
         /\ Lib(r) \in Libraries
         /\ disk[Lib(r)] \in Directory
         /\ disk \in [Libraries -> Directory]
         /\ copy \in [Requests -> Copies]
         /\ AtPhase(job[r], disk[Lib(r)], copy[r])
         /\ Remembers(job[r])
<1>1. LibraryInstallInv /\ JobInv
  BY DEF CompleteInv, PatchInv, LibraryInstallInv
<1>2. disk \in [Libraries -> Directory] /\ copy \in [Requests -> Copies]
  BY <1>1 DEF LibraryInstallInv, DiskInv, CopyInv
<1> QED BY <1>1, <1>2, InFlight DEF CompleteInv, Phases

\* A step that begins or ends no copies: none run after it, unless r copies.
LEMMA NoCopiesRun ==
  ASSUME CompleteInv, NEW r \in Requests, job[r].pc # "copy", UNCHANGED copy
  PROVE  ~InProgress(copy'[r])
BY DEF CompleteInv, CopiesAwaited

LEMMA IdleArrives ==
  ASSUME NEW r \in Requests, job'[r] = IdleJob, Settled(disk'[Lib(r)]),
         ~InProgress(copy'[r]), Transition(job[r].pkg, View(r), disk'[Lib(r)].meta)
  PROVE  Arrives(r)
<1>1. job'[r].pc = "idle"
  BY DEF IdleJob
<1> QED BY <1>1 DEF Arrives, NextView, ChangingPhases, Working

-----------------------------------------------------------------------------
(* installFromDirectory *)

\* Past the lock of a library there is one request.
LEMMA OneAtWork ==
  ASSUME Undisturbed, CompleteInv, NEW r \in Requests, NEW q \in Requests, r # q,
         job[q].pc \in Working, Lib(r) = Lib(q),
         job[r].pc \in Working \/ (job[r].pc = "outer" /\ HoldsOuter(r))
  PROVE  FALSE
<1>1. JobInv
  BY DEF CompleteInv, PatchInv, LibraryInstallInv
<1>2. ~job[r].orphan /\ ~job[q].orphan
  BY <1>1 DEF JobInv, OrphanedByTimeLimit, Undisturbed
<1>3. HoldsOuter(q)
  BY <1>1, <1>2 DEF JobInv, OuterHeld, Working
<1>4. HoldsOuter(r)
  BY <1>1, <1>2 DEF JobInv, OuterHeld, Working
<1> QED BY <1>3, <1>4 DEF HoldsOuter

\* Who is granted the lock finds the library complete or absent.
LEMMA FoundSettled ==
  ASSUME Undisturbed, CompleteInv, NEW r \in Requests, job[r].pc = "outer", HoldsOuter(r)
  PROVE  Settled(disk[Lib(r)])
<1>1. Lib(r) \in Libraries
  BY AtWork
<1>2. ASSUME NEW q \in Requests, job[q].pc \in Working
      PROVE  Lib(q) # Lib(r)
  <2>1. q # r
    BY <1>2 DEF Working
  <2> QED BY <1>2, <2>1, OneAtWork
<1> QED BY <1>1, <1>2 DEF CompleteInv, FreeLibraries

LEMMA CheckInstalledArrives ==
  ASSUME Undisturbed, CompleteInv, NEW r \in Requests, CheckInstalled(r)
  PROVE  Arrives(r)
<1>1. job[r].pc = "outer" /\ HoldsOuter(r) /\ UNCHANGED <<disk, copy>>
  BY DEF CheckInstalled
<1>2. /\ JobInv /\ job[r] \in Job /\ disk[Lib(r)] \in Directory /\ Remembers(job[r])
  BY <1>1, AtWork
<1>3. Settled(disk[Lib(r)]) /\ ~InProgress(copy'[r])
  BY <1>1, FoundSettled, NoCopiesRun
<1>4. \E pc \in {"list", "inner"} :
        /\ job' = [job EXCEPT ![r].pc = pc]
        /\ pc = "list" <=> disk[Lib(r)].json # "absent"
  BY DEF CheckInstalled
<1>5. PICK pc \in {"list", "inner"} :
        /\ job'[r].pc = pc /\ job'[r].pkg = job[r].pkg /\ job'[r].before = job[r].before
        /\ pc = "list" <=> disk[Lib(r)].json # "absent"
  BY <1>2, <1>4 DEF JobInv, Job
<1>6. pc = "list" => Whole(disk[Lib(r)])
  BY <1>3, <1>5 DEF Settled, NoDirectory
<1>7. pc = "inner" => disk[Lib(r)] = NoDirectory
  BY <1>3, <1>5 DEF Settled, Whole, Readable
<1>8. AtPhase(job'[r], disk'[Lib(r)], copy'[r])
  BY <1>1, <1>5, <1>6, <1>7 DEF AtPhase
<1>9. Remembers(job'[r])
  BY <1>1, <1>2, <1>5 DEF Remembers
<1>10. NextView(r) = View(r)
  BY <1>1, <1>5 DEF NextView, View, ChangingPhases, Working
<1> QED BY <1>1, <1>3, <1>5, <1>8, <1>9, <1>10 DEF Arrives, Transition, Working, Control

LEMMA ListVersionsArrives ==
  ASSUME CompleteInv, NEW r \in Requests, ListVersions(r)
  PROVE  Arrives(r)
<1>1. job[r].pc = "list" /\ UNCHANGED <<disk, copy>>
  BY DEF ListVersions
<1>2. /\ JobInv /\ job[r] \in Job /\ Remembers(job[r])
      /\ AtPhase(job[r], disk[Lib(r)], copy[r])
  BY <1>1, AtWork
<1>3. job'[r] = [job[r] EXCEPT !.pc = "read", !.unread = {l \in Libraries : disk[l].dir}]
  BY <1>2 DEF ListVersions, JobInv
<1>4. job'[r].pc = "read" /\ job'[r].pkg = job[r].pkg /\ job'[r].before = job[r].before
  BY <1>2, <1>3 DEF Job
<1>5. AtPhase(job'[r], disk'[Lib(r)], copy'[r])
  BY <1>1, <1>2, <1>4 DEF AtPhase
<1>6. Remembers(job'[r]) /\ ~InProgress(copy'[r])
  BY <1>1, <1>2, <1>4, NoCopiesRun DEF Remembers
<1>7. NextView(r) = View(r)
  BY <1>1, <1>4 DEF NextView, View, ChangingPhases
<1> QED BY <1>4, <1>5, <1>6, <1>7 DEF Arrives, Transition, Working, Control

LEMMA ReadVersionArrives ==
  ASSUME CompleteInv, NEW r \in Requests, NEW l \in Libraries, ReadVersion(r, l)
  PROVE  Arrives(r)
<1>1. job[r].pc = "read" /\ UNCHANGED <<disk, copy>>
  BY DEF ReadVersion
<1>2. /\ JobInv /\ job[r] \in Job /\ Remembers(job[r])
      /\ AtPhase(job[r], disk[Lib(r)], copy[r])
  BY <1>1, AtWork
<1>3. Whole(disk[Lib(r)]) /\ ~InProgress(copy'[r])
  BY <1>1, <1>2, NoCopiesRun DEF AtPhase
<1>4. View(r) = disk'[Lib(r)].meta
  BY <1>1 DEF View, ChangingPhases
<1>5. CASE disk[l].json = "complete"
  <2> DEFINE b == job[r].patch \/ (l = Lib(r) /\ disk[l].meta.patch < job[r].pkg.patch)
  <2>1. job'[r] = [job[r] EXCEPT !.unread = job[r].unread \ {l}, !.patch = b]
    BY <1>2, <1>5 DEF ReadVersion, JobInv
  <2> HIDE DEF b
  <2>2. job'[r].pc = "read" /\ job'[r].pkg = job[r].pkg /\ job'[r].before = job[r].before
    BY <1>1, <1>2, <2>1 DEF Job
  <2>3. AtPhase(job'[r], disk'[Lib(r)], copy'[r])
    BY <1>1, <1>3, <2>2 DEF AtPhase
  <2>4. Remembers(job'[r])
    BY <1>1, <1>2, <2>2 DEF Remembers
  <2>5. NextView(r) = View(r)
    BY <1>4, <2>2 DEF NextView, ChangingPhases
  <2> QED BY <1>3, <2>2, <2>3, <2>4, <2>5 DEF Arrives, Transition, Working, Control
<1>6. CASE disk[l].json # "complete"
  <2>1. job'[r] = IdleJob
    BY <1>2, <1>6, JobFacts DEF ReadVersion
  <2>2. Settled(disk'[Lib(r)])
    BY <1>1, <1>3 DEF Settled
  <2> QED BY <1>3, <1>4, <2>1, <2>2, IdleArrives DEF Transition
<1> QED BY <1>5, <1>6

LEMMA DecidePatchArrives ==
  ASSUME CompleteInv, NEW r \in Requests, DecidePatch(r)
  PROVE  Arrives(r)
<1>1. job[r].pc = "read" /\ UNCHANGED <<disk, copy>>
  BY DEF DecidePatch
<1>2. /\ JobInv /\ job[r] \in Job /\ Remembers(job[r])
      /\ AtPhase(job[r], disk[Lib(r)], copy[r])
  BY <1>1, AtWork
<1>3. Whole(disk[Lib(r)]) /\ ~InProgress(copy'[r])
  BY <1>1, <1>2, NoCopiesRun DEF AtPhase
<1>4. View(r) = disk'[Lib(r)].meta
  BY <1>1 DEF View, ChangingPhases
<1>5. CASE job[r].patch
  <2>1. job'[r] = [job[r] EXCEPT !.pc = "updAccess", !.before = disk[Lib(r)].meta]
    BY <1>2, <1>5 DEF DecidePatch, JobInv
  <2>2. /\ job'[r].pc = "updAccess" /\ job'[r].pkg = job[r].pkg
        /\ job'[r].before = disk[Lib(r)].meta
    BY <1>2, <2>1 DEF Job
  <2>3. AtPhase(job'[r], disk'[Lib(r)], copy'[r])
    BY <1>1, <1>3, <2>2 DEF AtPhase
  <2>4. Older(r)
    BY <1>1, <1>5 DEF CompleteInv, PatchInv, Relies
  <2>5. Remembers(job'[r])
    BY <2>2, <2>4 DEF Remembers, Older
  <2>6. NextView(r) = View(r)
    BY <1>1, <1>4, <2>2 DEF NextView, ChangingPhases, Working, Control
  <2> QED BY <1>3, <2>2, <2>3, <2>5, <2>6 DEF Arrives, Transition, Working, Control
<1>6. CASE ~job[r].patch
  <2>1. job'[r] = IdleJob
    BY <1>2, <1>6, JobFacts DEF DecidePatch
  <2>2. Settled(disk'[Lib(r)])
    BY <1>1, <1>3 DEF Settled
  <2> QED BY <1>3, <1>4, <2>1, <2>2, IdleArrives DEF Transition
<1> QED BY <1>5, <1>6

-----------------------------------------------------------------------------
(* updateLibrary *)

\* A request that goes on, in a phase of its own, and stays in view.
LEMMA GoesOnArrives ==
  ASSUME JobInv, NEW r \in Requests, NEW pc \in ChangingPhases, GoTo(r, pc),
         job[r].pc \in ChangingPhases, Remembers(job[r]),
         pc \in {"addOpen", "addWrite"} => job[r].before = NoPackage,
         AtPhase(job'[r], disk'[Lib(r)], copy'[r]),
         InProgress(copy'[r]) => pc = "copy"
  PROVE  Arrives(r)
<1>1. /\ job'[r].pc = pc /\ job'[r].pkg = job[r].pkg /\ job'[r].before = job[r].before
  BY JobFacts DEF ChangingPhases, Working
<1>2. Remembers(job'[r])
  BY <1>1 DEF Remembers, ChangingPhases, Working, Control
<1>3. NextView(r) = View(r)
  BY <1>1 DEF NextView, View
<1> QED BY <1>1, <1>2, <1>3 DEF Arrives, Transition, ChangingPhases

LEMMA AccessLibraryArrives ==
  ASSUME CompleteInv, NEW r \in Requests, AccessLibrary(r)
  PROVE  Arrives(r)
<1>1. job[r].pc = "updAccess" /\ UNCHANGED <<disk, copy>>
  BY DEF AccessLibrary
<1>2. /\ JobInv /\ job[r] \in Job /\ Remembers(job[r])
      /\ AtPhase(job[r], disk[Lib(r)], copy[r])
  BY <1>1, AtWork
<1>3. Whole(disk[Lib(r)]) /\ disk[Lib(r)].meta = job[r].before /\ ~InProgress(copy'[r])
  BY <1>1, <1>2, NoCopiesRun DEF AtPhase
<1>4. GoTo(r, "updOpen")
  BY <1>3 DEF AccessLibrary, Whole, Readable
<1>5. "updOpen" \in ChangingPhases /\ "updAccess" \in ChangingPhases
  BY DEF ChangingPhases, Working, Control
<1>6. job'[r].pc = "updOpen" /\ job'[r].before = job[r].before
  BY <1>2, <1>4, <1>5, JobFacts DEF ChangingPhases, Working
<1>7. AtPhase(job'[r], disk'[Lib(r)], copy'[r])
  BY <1>1, <1>3, <1>6 DEF AtPhase
<1> QED BY <1>1, <1>2, <1>3, <1>4, <1>5, <1>7, GoesOnArrives

LEMMA UpdateOpenArrives ==
  ASSUME CompleteInv, NEW r \in Requests, UpdateOpen(r)
  PROVE  Arrives(r)
<1>1. job[r].pc = "updOpen" /\ UNCHANGED copy
  BY DEF UpdateOpen, OpenMetadata
<1>2. /\ JobInv /\ job[r] \in Job /\ Remembers(job[r]) /\ Lib(r) \in Libraries
      /\ disk \in [Libraries -> Directory]
      /\ AtPhase(job[r], disk[Lib(r)], copy[r])
  BY <1>1, AtWork
<1>3. Whole(disk[Lib(r)]) /\ ~InProgress(copy'[r])
  BY <1>1, <1>2, NoCopiesRun DEF AtPhase
<1>4. disk[Lib(r)].dir
  BY <1>3 DEF Whole, Readable
<1>5. GoTo(r, "updWrite") /\ disk' = [disk EXCEPT ![Lib(r)].json = "partial"]
  BY <1>4 DEF UpdateOpen, OpenMetadata
<1>6. disk'[Lib(r)].dir /\ disk'[Lib(r)].json = "partial"
  BY <1>2, <1>4, <1>5 DEF Directory
<1>7. "updWrite" \in ChangingPhases /\ "updOpen" \in ChangingPhases
  BY DEF ChangingPhases, Working, Control
<1>8. job'[r].pc = "updWrite"
  BY <1>2, <1>5, <1>7, JobFacts DEF ChangingPhases, Working
<1>9. AtPhase(job'[r], disk'[Lib(r)], copy'[r])
  BY <1>6, <1>8 DEF AtPhase
<1> QED BY <1>1, <1>2, <1>3, <1>5, <1>7, <1>9, GoesOnArrives

LEMMA UpdateWriteArrives ==
  ASSUME CompleteInv, NEW r \in Requests, UpdateWrite(r)
  PROVE  Arrives(r)
<1>1. job[r].pc = "updWrite" /\ UNCHANGED copy /\ GoTo(r, "clearList")
  BY DEF UpdateWrite
<1>2. /\ JobInv /\ job[r] \in Job /\ Remembers(job[r]) /\ Lib(r) \in Libraries
      /\ disk \in [Libraries -> Directory]
      /\ AtPhase(job[r], disk[Lib(r)], copy[r])
  BY <1>1, AtWork
<1>3. disk[Lib(r)].dir /\ disk[Lib(r)].json = "partial" /\ ~InProgress(copy'[r])
  BY <1>1, <1>2, NoCopiesRun DEF AtPhase
<1>4. disk' = [disk EXCEPT ![Lib(r)] = [disk[Lib(r)] EXCEPT !.json = "complete",
                                                           !.meta = job[r].pkg]]
  BY <1>3 DEF UpdateWrite, Stored
<1>5. Readable(disk'[Lib(r)], job[r].pkg)
  BY <1>2, <1>3, <1>4 DEF Readable, Directory
<1>6. "updWrite" \in ChangingPhases /\ "clearList" \in ChangingPhases
  BY DEF ChangingPhases, Working, Control
<1>7. job'[r].pc = "clearList" /\ job'[r].pkg = job[r].pkg
  BY <1>1, <1>2, <1>6, JobFacts DEF ChangingPhases, Working
<1>8. AtPhase(job'[r], disk'[Lib(r)], copy'[r])
  BY <1>5, <1>7 DEF AtPhase
<1> QED BY <1>1, <1>2, <1>3, <1>6, <1>8, GoesOnArrives

LEMMA ListFilesArrives ==
  ASSUME CompleteInv, NEW r \in Requests, ListFiles(r)
  PROVE  Arrives(r)
<1> DEFINE listed == {f \in Files : disk[Lib(r)].file[f] # NoFile}
<1>1. job[r].pc = "clearList" /\ UNCHANGED <<disk, copy>>
  BY DEF ListFiles
<1>2. /\ JobInv /\ job[r] \in Job /\ Remembers(job[r])
      /\ AtPhase(job[r], disk[Lib(r)], copy[r])
  BY <1>1, AtWork
<1>3. Readable(disk[Lib(r)], job[r].pkg) /\ ~InProgress(copy'[r])
  BY <1>1, <1>2, NoCopiesRun DEF AtPhase
<1>4. job'[r] = [job[r] EXCEPT !.pc = "clear", !.clear = listed]
  BY <1>2, <1>3 DEF ListFiles, Readable, JobInv
<1>5. /\ job'[r].pc = "clear" /\ job'[r].pkg = job[r].pkg
      /\ job'[r].before = job[r].before /\ job'[r].clear = listed
  BY <1>2, <1>4 DEF Job
<1>6. job'[r].clear = {f \in Files : disk'[Lib(r)].file[f] # NoFile}
  BY <1>1, <1>5
<1> HIDE DEF listed
<1>7. AtPhase(job'[r], disk'[Lib(r)], copy'[r])
  BY <1>1, <1>3, <1>5, <1>6 DEF AtPhase
<1>8. Remembers(job'[r])
  BY <1>1, <1>2, <1>5 DEF Remembers
<1>9. NextView(r) = View(r)
  BY <1>1, <1>5 DEF NextView, View, ChangingPhases, Working, Control
<1> QED BY <1>3, <1>5, <1>7, <1>8, <1>9 DEF Arrives, Transition, Working, Control

\* The copies that begin have copied nothing.
LEMMA CopiesBegin ==
  ASSUME CompleteInv, NEW r \in Requests, job[r].pc # "idle", BeginCopies(r),
         NEW d, HasNone(d)
  PROVE  CopiedSoFar(d, copy'[r], job[r].pkg)
<1>1. copy \in [Requests -> Copies]
  BY AtWork
<1>2. copy'[r] = [pkg |-> job[r].pkg,
                  at  |-> [f \in Files |-> IF f \in job[r].pkg.files THEN "access" ELSE "none"]]
  BY <1>1 DEF BeginCopies
<1>3. copy'[r].pkg = job[r].pkg
  BY <1>2
<1>4. \A f \in Files : copy'[r].at[f] = IF f \in job[r].pkg.files THEN "access" ELSE "none"
  BY <1>2
<1> QED BY <1>3, <1>4 DEF CopiedSoFar, HasNone

LEMMA ClearFilesArrives ==
  ASSUME CompleteInv, NEW r \in Requests, ClearFiles(r)
  PROVE  Arrives(r)
<1> DEFINE d == disk[Lib(r)]
           left == [f \in Files |-> IF f \in job[r].clear THEN NoFile ELSE d.file[f]]
<1>1. job[r].pc = "clear" /\ BeginCopies(r) /\ GoTo(r, "copy")
  BY DEF ClearFiles
<1>2. /\ JobInv /\ job[r] \in Job /\ Remembers(job[r]) /\ Lib(r) \in Libraries
      /\ disk \in [Libraries -> Directory] /\ d \in Directory
      /\ AtPhase(job[r], d, copy[r])
  BY <1>1, AtWork
<1>3. Readable(d, job[r].pkg) /\ job[r].clear = {f \in Files : d.file[f] # NoFile}
  BY <1>1, <1>2 DEF AtPhase
<1>4. disk'[Lib(r)] = [d EXCEPT !.file = left]
  BY <1>2 DEF ClearFiles
<1>5. disk'[Lib(r)].file = left
  BY <1>2, <1>4 DEF Directory
<1>6. HasNone(disk'[Lib(r)])
  BY <1>3, <1>5 DEF HasNone
<1> HIDE DEF left
<1>7. Readable(disk'[Lib(r)], job[r].pkg)
  BY <1>2, <1>3, <1>4 DEF Readable, Directory
<1>8. CopiedSoFar(disk'[Lib(r)], copy'[r], job[r].pkg)
  BY <1>1, <1>6, CopiesBegin
<1>9. "clear" \in ChangingPhases /\ "copy" \in ChangingPhases
  BY DEF ChangingPhases, Working, Control
<1>10. job'[r].pc = "copy" /\ job'[r].pkg = job[r].pkg
  BY <1>1, <1>2, <1>9, JobFacts DEF ChangingPhases, Working
<1>11. AtPhase(job'[r], disk'[Lib(r)], copy'[r])
  BY <1>7, <1>8, <1>10 DEF AtPhase
<1> QED BY <1>1, <1>2, <1>9, <1>11, GoesOnArrives

-----------------------------------------------------------------------------
(* installLibrary *)

LEMMA EmptyDirectoryFacts ==
  /\ EmptyDirectory.dir
  /\ EmptyDirectory.json = "absent"
  /\ EmptyDirectory.meta = NoPackage
  /\ HasNone(EmptyDirectory)
  /\ EmptyDirectory \in Directory
BY DirectoryTypes DEF EmptyDirectory, NoDirectory, HasNone, Directory

LEMMA MakeDirectoryArrives ==
  ASSUME CompleteInv, NEW r \in Requests, MakeDirectory(r)
  PROVE  Arrives(r)
<1>1. job[r].pc = "inner" /\ UNCHANGED copy /\ GoTo(r, "addOpen")
  BY DEF MakeDirectory
<1>2. /\ JobInv /\ job[r] \in Job /\ Remembers(job[r]) /\ Lib(r) \in Libraries
      /\ disk \in [Libraries -> Directory]
      /\ AtPhase(job[r], disk[Lib(r)], copy[r])
  BY <1>1, AtWork
<1>3. disk[Lib(r)] = NoDirectory /\ job[r].before = NoPackage /\ ~InProgress(copy'[r])
  BY <1>1, <1>2, NoCopiesRun DEF AtPhase, Remembers
<1>4. disk'[Lib(r)] = EmptyDirectory
  BY <1>2, <1>3 DEF MakeDirectory, EmptyDirectory
<1>5. /\ job'[r].pc = "addOpen" /\ job'[r].pkg = job[r].pkg
      /\ job'[r].before = NoPackage
  BY <1>1, <1>2, <1>3, JobFacts DEF Control
<1>6. AtPhase(job'[r], disk'[Lib(r)], copy'[r])
  BY <1>4, <1>5 DEF AtPhase
<1>7. Remembers(job'[r])
  BY <1>5 DEF Remembers
<1>8. NextView(r) = NoPackage
  BY <1>5 DEF NextView, ChangingPhases, Working, Control
<1>9. View(r) = NoPackage
  BY <1>1, <1>3 DEF View, ChangingPhases, NoDirectory
<1> QED BY <1>3, <1>5, <1>6, <1>7, <1>8, <1>9 DEF Arrives, Transition, Working, Control

LEMMA AddOpenArrives ==
  ASSUME CompleteInv, NEW r \in Requests, AddOpen(r)
  PROVE  Arrives(r)
<1>1. job[r].pc = "addOpen" /\ UNCHANGED copy
  BY DEF AddOpen, OpenMetadata
<1>2. /\ JobInv /\ job[r] \in Job /\ Remembers(job[r]) /\ Lib(r) \in Libraries
      /\ disk \in [Libraries -> Directory]
      /\ AtPhase(job[r], disk[Lib(r)], copy[r])
  BY <1>1, AtWork
<1>3. /\ disk[Lib(r)] = EmptyDirectory /\ job[r].before = NoPackage
      /\ ~InProgress(copy'[r])
  BY <1>1, <1>2, NoCopiesRun DEF AtPhase, Remembers
<1>4. disk[Lib(r)].dir /\ HasNone(disk[Lib(r)])
  BY <1>3, EmptyDirectoryFacts
<1>5. GoTo(r, "addWrite") /\ disk' = [disk EXCEPT ![Lib(r)].json = "partial"]
  BY <1>4 DEF AddOpen, OpenMetadata
<1>6. /\ disk'[Lib(r)].dir /\ disk'[Lib(r)].json = "partial"
      /\ disk'[Lib(r)].file = disk[Lib(r)].file
  BY <1>2, <1>4, <1>5 DEF Directory
<1>7. HasNone(disk'[Lib(r)])
  BY <1>4, <1>6 DEF HasNone
<1>8. "addWrite" \in ChangingPhases /\ "addOpen" \in ChangingPhases
  BY DEF ChangingPhases, Working, Control
<1>9. job'[r].pc = "addWrite"
  BY <1>2, <1>5, <1>8, JobFacts DEF ChangingPhases, Working
<1>10. AtPhase(job'[r], disk'[Lib(r)], copy'[r])
  BY <1>6, <1>7, <1>9 DEF AtPhase
<1> QED BY <1>1, <1>2, <1>3, <1>5, <1>8, <1>10, GoesOnArrives

LEMMA AddWriteArrives ==
  ASSUME CompleteInv, NEW r \in Requests, AddWrite(r)
  PROVE  Arrives(r)
<1>1. job[r].pc = "addWrite" /\ BeginCopies(r) /\ GoTo(r, "copy")
  BY DEF AddWrite
<1>2. /\ JobInv /\ job[r] \in Job /\ Remembers(job[r]) /\ Lib(r) \in Libraries
      /\ disk \in [Libraries -> Directory]
      /\ AtPhase(job[r], disk[Lib(r)], copy[r])
  BY <1>1, AtWork
<1>3. disk[Lib(r)].dir /\ disk[Lib(r)].json = "partial" /\ HasNone(disk[Lib(r)])
  BY <1>1, <1>2 DEF AtPhase
<1>4. disk' = [disk EXCEPT ![Lib(r)] = [disk[Lib(r)] EXCEPT !.json = "complete",
                                                           !.meta = job[r].pkg]]
  BY <1>3 DEF AddWrite, Stored
<1>5. /\ Readable(disk'[Lib(r)], job[r].pkg)
      /\ disk'[Lib(r)].file = disk[Lib(r)].file
  BY <1>2, <1>3, <1>4 DEF Readable, Directory
<1>6. HasNone(disk'[Lib(r)])
  BY <1>3, <1>5 DEF HasNone
<1>7. CopiedSoFar(disk'[Lib(r)], copy'[r], job[r].pkg)
  BY <1>1, <1>6, CopiesBegin
<1>8. "addWrite" \in ChangingPhases /\ "copy" \in ChangingPhases
  BY DEF ChangingPhases, Working, Control
<1>9. job'[r].pc = "copy" /\ job'[r].pkg = job[r].pkg
  BY <1>1, <1>2, <1>8, JobFacts DEF ChangingPhases, Working
<1>10. AtPhase(job'[r], disk'[Lib(r)], copy'[r])
  BY <1>5, <1>7, <1>9 DEF AtPhase
<1> QED BY <1>1, <1>2, <1>8, <1>10, GoesOnArrives

-----------------------------------------------------------------------------
(* copyLibraryFiles *)

\* A copy that runs is awaited by its request.
LEMMA CopyAwaited ==
  ASSUME CompleteInv, NEW r \in Requests, NEW f \in Files,
         copy[r].at[f] \in {"access", "open", "write"}
  PROVE  /\ job[r].pc = "copy"
         /\ copy[r].pkg = job[r].pkg
         /\ f \in job[r].pkg.files
         /\ Readable(disk[Lib(r)], job[r].pkg)
         /\ CopiedSoFar(disk[Lib(r)], copy[r], job[r].pkg)
<1>1. job[r].pc = "copy"
  BY DEF CompleteInv, CopiesAwaited, InProgress
<1>2. Readable(disk[Lib(r)], job[r].pkg) /\ CopiedSoFar(disk[Lib(r)], copy[r], job[r].pkg)
  BY <1>1, AtWork DEF AtPhase
<1> QED BY <1>1, <1>2 DEF CopiedSoFar

\* A copy moves on, and its file with it.
LEMMA CopyArrives ==
  ASSUME CompleteInv, NEW r \in Requests, UNCHANGED job, job[r].pc = "copy",
         Readable(disk'[Lib(r)], job[r].pkg),
         CopiedSoFar(disk'[Lib(r)], copy'[r], job[r].pkg)
  PROVE  Arrives(r)
<1>1. Remembers(job[r]) /\ job[r] \in Job
  BY AtWork
<1>2. AtPhase(job'[r], disk'[Lib(r)], copy'[r])
  BY DEF AtPhase
<1>3. NextView(r) = View(r)
  BY DEF NextView, View, ChangingPhases, Working, Control
<1> QED BY <1>1, <1>2, <1>3 DEF Arrives, Transition, Working, Control

LEMMA CopyAccessArrives ==
  ASSUME CompleteInv, NEW r \in Requests, NEW f \in Files, CopyAccess(r, f)
  PROVE  Arrives(r)
<1> DEFINE d == disk[Lib(r)]
<1>1. /\ copy[r].at[f] = "access" /\ UNCHANGED <<disk, job>>
      /\ SetCopy(r, f, IF disk[copy[r].pkg.lib].json # "absent" THEN "open" ELSE "failed")
  BY DEF CopyAccess
<1>2. /\ job[r].pc = "copy" /\ copy[r].pkg = job[r].pkg /\ f \in job[r].pkg.files
      /\ Readable(d, job[r].pkg) /\ CopiedSoFar(d, copy[r], job[r].pkg)
  BY <1>1, CopyAwaited
<1>3. copy[r] \in Copies /\ copy \in [Requests -> Copies]
  BY <1>2, AtWork
<1>4. SetCopy(r, f, "open")
  BY <1>1, <1>2 DEF Readable, Lib
<1>5. /\ copy'[r].pkg = copy[r].pkg /\ copy'[r].at[f] = "open"
      /\ \A g \in Files \ {f} : copy'[r].at[g] = copy[r].at[g]
  BY <1>3, <1>4 DEF SetCopy, Copies
<1>6. CopiedSoFar(d, copy'[r], job[r].pkg)
  BY <1>1, <1>2, <1>5 DEF CopiedSoFar
<1> QED BY <1>1, <1>2, <1>6, CopyArrives

LEMMA CopyOpenArrives ==
  ASSUME CompleteInv, NEW r \in Requests, NEW f \in Files, CopyOpen(r, f)
  PROVE  Arrives(r)
<1> DEFINE d == disk[Lib(r)]
           p == job[r].pkg
           opened == [state |-> "partial", from |-> p]
<1>1. copy[r].at[f] = "open" /\ UNCHANGED job /\ SetCopy(r, f, "write")
  BY DEF CopyOpen
<1>2. /\ job[r].pc = "copy" /\ copy[r].pkg = p /\ f \in p.files
      /\ Readable(d, p) /\ CopiedSoFar(d, copy[r], p)
  BY <1>1, CopyAwaited
<1>3. /\ copy[r] \in Copies /\ copy \in [Requests -> Copies]
      /\ d \in Directory /\ disk \in [Libraries -> Directory] /\ Lib(r) \in Libraries
  BY <1>2, AtWork
<1>4. disk' = [disk EXCEPT ![Lib(r)].dir = TRUE, ![Lib(r)].file[f] = opened]
  BY <1>2 DEF CopyOpen, Lib
<1>5. /\ disk'[Lib(r)].dir /\ disk'[Lib(r)].json = d.json /\ disk'[Lib(r)].meta = d.meta
      /\ disk'[Lib(r)].file = [d.file EXCEPT ![f] = opened]
  BY <1>3, <1>4 DEF Directory
<1>6. Readable(disk'[Lib(r)], p)
  BY <1>2, <1>5 DEF Readable
<1>7. /\ disk'[Lib(r)].file[f] = opened
      /\ \A g \in Files \ {f} : disk'[Lib(r)].file[g] = d.file[g]
  BY <1>3, <1>5, DirectoryTypes
<1>8. /\ copy'[r].pkg = copy[r].pkg /\ copy'[r].at[f] = "write"
      /\ \A g \in Files \ {f} : copy'[r].at[g] = copy[r].at[g]
  BY <1>1, <1>3 DEF SetCopy, Copies
<1>9. CopiedSoFar(disk'[Lib(r)], copy'[r], p)
  BY <1>2, <1>7, <1>8 DEF CopiedSoFar
<1> QED BY <1>1, <1>2, <1>6, <1>9, CopyArrives

LEMMA CopyWriteArrives ==
  ASSUME CompleteInv, NEW r \in Requests, NEW f \in Files, CopyWrite(r, f)
  PROVE  Arrives(r)
<1> DEFINE d == disk[Lib(r)]
           p == job[r].pkg
<1>1. copy[r].at[f] = "write" /\ UNCHANGED job /\ SetCopy(r, f, "done")
  BY DEF CopyWrite
<1>2. /\ job[r].pc = "copy" /\ copy[r].pkg = p /\ f \in p.files
      /\ Readable(d, p) /\ CopiedSoFar(d, copy[r], p)
  BY <1>1, CopyAwaited
<1>3. /\ copy[r] \in Copies /\ copy \in [Requests -> Copies]
      /\ d \in Directory /\ disk \in [Libraries -> Directory] /\ Lib(r) \in Libraries
  BY <1>2, AtWork
<1>4. d.file[f] = [state |-> "partial", from |-> p]
  BY <1>1, <1>2 DEF CopiedSoFar
<1>5. d.file[f] # NoFile /\ d.file[f].from = p
  BY <1>4 DEF NoFile
<1>6. disk' = [disk EXCEPT ![Lib(r)].file[f] = Copied(p)]
  BY <1>2, <1>5 DEF CopyWrite, Lib, Copied
<1>7. /\ disk'[Lib(r)].dir = d.dir /\ disk'[Lib(r)].json = d.json
      /\ disk'[Lib(r)].meta = d.meta
      /\ disk'[Lib(r)].file = [d.file EXCEPT ![f] = Copied(p)]
  BY <1>3, <1>6 DEF Directory
<1>8. Readable(disk'[Lib(r)], p)
  BY <1>2, <1>7 DEF Readable
<1>9. /\ disk'[Lib(r)].file[f] = Copied(p)
      /\ \A g \in Files \ {f} : disk'[Lib(r)].file[g] = d.file[g]
  BY <1>3, <1>7, DirectoryTypes
<1>10. /\ copy'[r].pkg = copy[r].pkg /\ copy'[r].at[f] = "done"
       /\ \A g \in Files \ {f} : copy'[r].at[g] = copy[r].at[g]
  BY <1>1, <1>3 DEF SetCopy, Copies
<1>11. CopiedSoFar(disk'[Lib(r)], copy'[r], p)
  BY <1>2, <1>9, <1>10 DEF CopiedSoFar
<1> QED BY <1>1, <1>2, <1>8, <1>11, CopyArrives

LEMMA EndCopiesArrives ==
  ASSUME CompleteInv, NEW r \in Requests, EndCopies(r)
  PROVE  Arrives(r)
<1> DEFINE d == disk[Lib(r)]
           p == job[r].pkg
<1>1. job[r].pc = "copy" /\ UNCHANGED <<disk, copy>>
  BY DEF EndCopies
<1>2. /\ JobInv /\ Remembers(job[r]) /\ Readable(d, p) /\ CopiedSoFar(d, copy[r], p)
  BY <1>1, AtWork DEF AtPhase
<1>3. /\ GoTo(r, "checkMeta")
      /\ \A f \in Files : copy[r].at[f] \in {"none", "done"}
  BY <1>2 DEF EndCopies, CopiedSoFar
<1>4. HasAll(d, p)
  BY <1>2, <1>3 DEF HasAll, CopiedSoFar
<1>5. ~InProgress(copy'[r])
  BY <1>1, <1>3 DEF InProgress
<1>6. "checkMeta" \in ChangingPhases /\ "copy" \in ChangingPhases
  BY DEF ChangingPhases, Working, Control
<1>7. job'[r].pc = "checkMeta" /\ job'[r].pkg = p
  BY <1>2, <1>3, <1>6, JobFacts DEF ChangingPhases, Working
<1>8. AtPhase(job'[r], disk'[Lib(r)], copy'[r])
  BY <1>1, <1>2, <1>4, <1>7 DEF AtPhase
<1> QED BY <1>1, <1>2, <1>3, <1>5, <1>6, <1>8, GoesOnArrives

-----------------------------------------------------------------------------
(* checkConsistency, and the end of a request *)

LEMMA CheckMetadataArrives ==
  ASSUME CompleteInv, NEW r \in Requests, CheckMetadata(r)
  PROVE  Arrives(r)
<1> DEFINE d == disk[Lib(r)]
           p == job[r].pkg
<1>1. job[r].pc = "checkMeta" /\ UNCHANGED <<disk, copy>>
  BY DEF CheckMetadata
<1>2. /\ JobInv /\ job[r] \in Job /\ Remembers(job[r])
      /\ Readable(d, p) /\ HasAll(d, p) /\ ~InProgress(copy'[r])
  BY <1>1, AtWork, NoCopiesRun DEF AtPhase
<1>3. job'[r] = [job[r] EXCEPT !.pc = "checkFiles", !.needs = d.meta.needs]
  BY <1>2 DEF CheckMetadata, Readable, JobInv
<1>4. /\ job'[r].pc = "checkFiles" /\ job'[r].pkg = p
      /\ job'[r].before = job[r].before /\ job'[r].needs = p.needs
  BY <1>2, <1>3 DEF Job, Readable
<1>5. AtPhase(job'[r], disk'[Lib(r)], copy'[r])
  BY <1>1, <1>2, <1>4 DEF AtPhase
<1>6. Remembers(job'[r])
  BY <1>1, <1>2, <1>4 DEF Remembers
<1>7. NextView(r) = View(r)
  BY <1>1, <1>4 DEF NextView, View, ChangingPhases, Working, Control
<1> QED BY <1>2, <1>4, <1>5, <1>6, <1>7 DEF Arrives, Transition, Working, Control

LEMMA NothingMissing ==
  ASSUME NEW l \in Libraries, NEW p \in Packages, HasAll(disk[l], p)
  PROVE  Missing(l, p.needs) = {} <=> Healthy(p)
<1>1. p.needs \subseteq Files
  BY PackageTypes
<1>2. \A f \in Files : disk[l].file[f] = NoFile <=> f \notin p.files
  BY DEF HasAll, Copied, NoFile
<1> QED BY <1>1, <1>2 DEF Missing, Healthy

LEMMA CheckFilesArrives ==
  ASSUME CompleteInv, NEW r \in Requests, CheckFiles(r)
  PROVE  Arrives(r)
<1> DEFINE d == disk[Lib(r)]
           p == job[r].pkg
<1>1. job[r].pc = "checkFiles" /\ UNCHANGED <<disk, copy>>
  BY DEF CheckFiles
<1>2. /\ JobInv /\ Remembers(job[r]) /\ p \in Packages /\ Lib(r) \in Libraries
      /\ Readable(d, p) /\ HasAll(d, p) /\ job[r].needs = p.needs
      /\ ~InProgress(copy'[r])
  BY <1>1, AtWork, NoCopiesRun DEF AtPhase
<1>3. CASE Healthy(p)
  <2>1. job'[r] = IdleJob
    BY <1>2, <1>3, NothingMissing, JobFacts DEF CheckFiles
  <2>2. Settled(disk'[Lib(r)])
    BY <1>1, <1>2, <1>3 DEF Settled, Whole, Readable
  <2>3. View(r) = job[r].before
    BY <1>1 DEF View, ChangingPhases, Working, Control
  <2>4. disk'[Lib(r)].meta = p
    BY <1>1, <1>2 DEF Readable
  <2>5. Transition(p, View(r), disk'[Lib(r)].meta)
    BY <1>2, <1>3, <2>3, <2>4 DEF Transition, Remembers
  <2> QED BY <1>2, <2>1, <2>2, <2>5, IdleArrives
<1>4. CASE ~Healthy(p)
  <2>1. GoTo(r, "rollback")
    BY <1>2, <1>4, NothingMissing DEF CheckFiles
  <2>2. "checkFiles" \in ChangingPhases /\ "rollback" \in ChangingPhases
    BY DEF ChangingPhases, Working, Control
  <2>3. job'[r].pc = "rollback" /\ job'[r].pkg = p
    BY <1>2, <2>1, <2>2, JobFacts DEF ChangingPhases, Working
  <2>4. AtPhase(job'[r], disk'[Lib(r)], copy'[r])
    BY <1>1, <1>2, <1>4, <2>3 DEF AtPhase
  <2> QED BY <1>1, <1>2, <2>1, <2>2, <2>4, GoesOnArrives
<1> QED BY <1>3, <1>4

LEMMA RollbackArrives ==
  ASSUME CompleteInv, NEW r \in Requests, Rollback(r)
  PROVE  Arrives(r)
<1> DEFINE d == disk[Lib(r)]
           p == job[r].pkg
<1>1. job[r].pc = "rollback" /\ UNCHANGED <<disk, copy>>
  BY DEF Rollback
<1>2. /\ JobInv /\ Remembers(job[r]) /\ Readable(d, p) /\ HasAll(d, p) /\ ~Healthy(p)
      /\ ~InProgress(copy'[r])
  BY <1>1, AtWork, NoCopiesRun DEF AtPhase
<1>3. GoTo(r, "rm")
  BY <1>2 DEF Rollback, Readable
<1>4. "rollback" \in ChangingPhases /\ "rm" \in ChangingPhases
  BY DEF ChangingPhases, Working, Control
<1>5. job'[r].pc = "rm" /\ job'[r].pkg = p
  BY <1>2, <1>3, <1>4, JobFacts DEF ChangingPhases, Working
<1>6. AtPhase(job'[r], disk'[Lib(r)], copy'[r])
  BY <1>1, <1>2, <1>5 DEF AtPhase
<1> QED BY <1>1, <1>2, <1>3, <1>4, <1>6, GoesOnArrives

LEMMA RemoveFilesArrives ==
  ASSUME CompleteInv, NEW r \in Requests, RemoveFiles(r)
  PROVE  Arrives(r)
<1> DEFINE p == job[r].pkg
<1>1. job[r].pc = "rm" /\ UNCHANGED copy /\ GoTo(r, "rmdir")
  BY DEF RemoveFiles
<1>2. /\ JobInv /\ Remembers(job[r]) /\ disk[Lib(r)].dir /\ ~Healthy(p)
      /\ disk \in [Libraries -> Directory] /\ Lib(r) \in Libraries
      /\ ~InProgress(copy'[r])
  BY <1>1, AtWork, NoCopiesRun DEF AtPhase, Readable
<1>3. disk[Lib(r)].dir = TRUE
  BY <1>2 DEF Directory
<1>4. disk'[Lib(r)] = EmptyDirectory
  BY <1>2, <1>3 DEF RemoveFiles, EmptyDirectory
<1>5. "rm" \in ChangingPhases /\ "rmdir" \in ChangingPhases
  BY DEF ChangingPhases, Working, Control
<1>6. job'[r].pc = "rmdir" /\ job'[r].pkg = p
  BY <1>1, <1>2, <1>5, JobFacts DEF ChangingPhases, Working
<1>7. AtPhase(job'[r], disk'[Lib(r)], copy'[r])
  BY <1>2, <1>4, <1>6 DEF AtPhase
<1> QED BY <1>1, <1>2, <1>5, <1>7, GoesOnArrives

LEMMA RemoveDirectoryArrives ==
  ASSUME CompleteInv, NEW r \in Requests, RemoveDirectory(r)
  PROVE  Arrives(r)
<1> DEFINE p == job[r].pkg
<1>1. job[r].pc = "rmdir" /\ UNCHANGED copy /\ End(r)
  BY DEF RemoveDirectory
<1>2. /\ JobInv /\ Remembers(job[r]) /\ disk[Lib(r)] = EmptyDirectory /\ ~Healthy(p)
      /\ disk \in [Libraries -> Directory] /\ Lib(r) \in Libraries
      /\ ~InProgress(copy'[r])
  BY <1>1, AtWork, NoCopiesRun DEF AtPhase
<1>3. disk'[Lib(r)] = NoDirectory
  BY <1>2 DEF RemoveDirectory, EmptyDirectory
<1>4. job'[r] = IdleJob
  BY <1>1, <1>2, JobFacts
<1>5. Settled(disk'[Lib(r)])
  BY <1>3 DEF Settled
<1>6. View(r) = job[r].before
  BY <1>1 DEF View, ChangingPhases, Working, Control
<1>7. disk'[Lib(r)].meta = NoPackage
  BY <1>3 DEF NoDirectory
<1>8. Transition(p, View(r), disk'[Lib(r)].meta)
  BY <1>2, <1>6, <1>7 DEF Transition, Remembers
<1> QED BY <1>2, <1>4, <1>5, <1>8, IdleArrives

\* A request that gives up waiting has changed nothing.
LEMMA GiveUpArrives ==
  ASSUME CompleteInv, NEW r \in Requests, GiveUp(r)
  PROVE  Arrives(r)
<1>1. job[r].pc \in {"outer", "inner"} /\ UNCHANGED <<disk, copy>>
  BY DEF GiveUp, WaitsOuter, WaitsInner
<1>2. JobInv /\ AtPhase(job[r], disk[Lib(r)], copy[r]) /\ ~InProgress(copy'[r])
  BY <1>1, AtWork, NoCopiesRun
<1>3. job'[r] = IdleJob
  BY <1>2 DEF GiveUp, JobInv
<1>4. View(r) = disk'[Lib(r)].meta
  BY <1>1 DEF View, ChangingPhases, Working
<1>5. job'[r].pc = "idle" /\ NextView(r) = View(r)
  BY <1>3, <1>4 DEF IdleJob, NextView, ChangingPhases, Working
<1>6. job[r].pc \in Working => Settled(disk'[Lib(r)])
  BY <1>1, <1>2 DEF AtPhase, Settled, Working
<1> QED BY <1>2, <1>5, <1>6 DEF Arrives, Transition

-----------------------------------------------------------------------------
(* Steps of one request and the others *)

LEMMA InstallStepArrives ==
  ASSUME Undisturbed, CompleteInv, NEW r \in Requests, InstallStep(r)
  PROVE  Arrives(r)
<1>1. CASE \/ CheckInstalled(r) \/ ListVersions(r)
           \/ (\E l \in Libraries : ReadVersion(r, l)) \/ DecidePatch(r)
  BY <1>1, CheckInstalledArrives, ListVersionsArrives, ReadVersionArrives,
     DecidePatchArrives
<1>2. CASE \/ AccessLibrary(r) \/ UpdateOpen(r) \/ UpdateWrite(r)
           \/ ListFiles(r) \/ ClearFiles(r)
  BY <1>2, AccessLibraryArrives, UpdateOpenArrives, UpdateWriteArrives,
     ListFilesArrives, ClearFilesArrives
<1>3. CASE MakeDirectory(r) \/ AddOpen(r) \/ AddWrite(r)
  BY <1>3, MakeDirectoryArrives, AddOpenArrives, AddWriteArrives
<1>4. CASE EndCopies(r) \/ CheckMetadata(r) \/ CheckFiles(r)
  BY <1>4, EndCopiesArrives, CheckMetadataArrives, CheckFilesArrives
<1>5. CASE Rollback(r) \/ RemoveFiles(r) \/ RemoveDirectory(r)
  BY <1>5, RollbackArrives, RemoveFilesArrives, RemoveDirectoryArrives
<1>6. ~FailStorage(r)
  BY DEF Undisturbed, FailStorage
<1> QED BY <1>1, <1>2, <1>3, <1>4, <1>5, <1>6 DEF InstallStep

LEMMA CopyStepArrives ==
  ASSUME Undisturbed, CompleteInv, NEW r \in Requests, CopyStep(r)
  PROVE  Arrives(r)
<1>1. \A f \in Files : ~FailToCopy(r, f)
  BY DEF Undisturbed, FailToCopy
<1> QED BY <1>1, CopyAccessArrives, CopyOpenArrives, CopyWriteArrives DEF CopyStep

\* Who takes a step is in flight.
LEMMA StepInFlight ==
  ASSUME CompleteInv, NEW r \in Requests,
         InstallStep(r) \/ CopyStep(r) \/ GiveUp(r)
  PROVE  job[r].pc # "idle"
<1>1. CASE GiveUp(r)
  BY <1>1 DEF GiveUp, WaitsOuter, WaitsInner
<1>2. CASE CopyStep(r)
  <2>1. PICK f \in Files : copy[r].at[f] \in {"access", "open", "write"}
    BY <1>2 DEF CopyStep, CopyAccess, CopyOpen, CopyWrite, FailToCopy
  <2> QED BY <2>1, CopyAwaited
<1>3. CASE \/ CheckInstalled(r) \/ ListVersions(r)
           \/ (\E l \in Libraries : ReadVersion(r, l)) \/ DecidePatch(r)
           \/ AccessLibrary(r) \/ ListFiles(r) \/ ClearFiles(r) \/ MakeDirectory(r)
  BY <1>3 DEF CheckInstalled, ListVersions, ReadVersion, DecidePatch, AccessLibrary,
              ListFiles, ClearFiles, MakeDirectory
<1>4. CASE UpdateOpen(r) \/ UpdateWrite(r) \/ AddOpen(r) \/ AddWrite(r)
  BY <1>4 DEF UpdateOpen, UpdateWrite, AddOpen, AddWrite, OpenMetadata
<1>5. CASE \/ EndCopies(r) \/ CheckMetadata(r) \/ CheckFiles(r) \/ Rollback(r)
           \/ RemoveFiles(r) \/ RemoveDirectory(r) \/ FailStorage(r)
  BY <1>5 DEF EndCopies, CheckMetadata, CheckFiles, Rollback, RemoveFiles,
              RemoveDirectory, FailStorage
<1> QED BY <1>1, <1>2, <1>3, <1>4, <1>5 DEF InstallStep

\* A step of r changes at most the directory of its library, once it works on
\* it, and its own copies.
LEMMA InstallStepFrame ==
  ASSUME CompleteInv, NEW r \in Requests, InstallStep(r)
  PROVE  /\ \/ UNCHANGED disk
            \/ job[r].pc \in Working /\ \E d : disk' = [disk EXCEPT ![Lib(r)] = d]
         /\ \/ UNCHANGED copy
            \/ \E c : copy' = [copy EXCEPT ![r] = c]
<1>1. CASE \/ CheckInstalled(r) \/ ListVersions(r)
           \/ (\E l \in Libraries : ReadVersion(r, l)) \/ DecidePatch(r)
           \/ AccessLibrary(r) \/ ListFiles(r) \/ EndCopies(r) \/ CheckMetadata(r)
           \/ CheckFiles(r) \/ Rollback(r)
  BY <1>1 DEF CheckInstalled, ListVersions, ReadVersion, DecidePatch, AccessLibrary,
              ListFiles, EndCopies, CheckMetadata, CheckFiles, Rollback
<1>2. CASE UpdateOpen(r) \/ AddOpen(r)
  <2>1. /\ job[r].pc \in Working /\ UNCHANGED copy
        /\ \/ UNCHANGED disk
           \/ disk' = [disk EXCEPT ![Lib(r)] = [disk[Lib(r)] EXCEPT !.json = "partial"]]
    BY <1>2 DEF UpdateOpen, AddOpen, OpenMetadata, Working, Control
  <2> QED BY <2>1
<1>3. CASE UpdateWrite(r) \/ AddWrite(r)
  <2>1. /\ job[r].pc \in Working
        /\ disk' = [disk EXCEPT ![Lib(r)] = Stored(disk[Lib(r)], job[r].pkg)]
        /\ UNCHANGED copy \/ BeginCopies(r)
    BY <1>3 DEF UpdateWrite, AddWrite, Working, Control
  <2> QED BY <2>1 DEF BeginCopies
<1>4. CASE ClearFiles(r)
  <2>1. /\ job[r].pc \in Working /\ BeginCopies(r)
        /\ disk' = [disk EXCEPT ![Lib(r)] = [disk[Lib(r)] EXCEPT !.file =
             [f \in Files |-> IF f \in job[r].clear THEN NoFile ELSE disk[Lib(r)].file[f]]]]
    BY <1>4 DEF ClearFiles, Working, Control
  <2> QED BY <2>1 DEF BeginCopies
<1>5. CASE MakeDirectory(r)
  <2>1. /\ job[r].pc \in Working /\ UNCHANGED copy
        /\ disk' = [disk EXCEPT ![Lib(r)] = [disk[Lib(r)] EXCEPT !.dir = TRUE]]
    BY <1>5 DEF MakeDirectory, Working, Control
  <2> QED BY <2>1
<1>6. CASE RemoveFiles(r) \/ RemoveDirectory(r)
  <2>1. job[r].pc \in Working /\ UNCHANGED copy
    BY <1>6 DEF RemoveFiles, RemoveDirectory, Working, Control
  <2> QED BY <1>6, <2>1 DEF RemoveFiles, RemoveDirectory
<1>7. CASE FailStorage(r)
  <2>1. /\ job[r].pc \in Working /\ UNCHANGED copy
        /\ UNCHANGED disk \/ disk' = [disk EXCEPT ![Lib(r)] = NoDirectory]
    BY <1>7 DEF FailStorage, Working, Control
  <2> QED BY <2>1
<1> QED BY <1>1, <1>2, <1>3, <1>4, <1>5, <1>6, <1>7 DEF InstallStep

LEMMA CopyStepFrame ==
  ASSUME CompleteInv, NEW r \in Requests, CopyStep(r)
  PROVE  /\ job[r].pc \in Working
         /\ \E d : disk' = [disk EXCEPT ![Lib(r)] = d]
         /\ \E c : copy' = [copy EXCEPT ![r] = c]
<1>1. PICK f \in Files : \/ CopyAccess(r, f) \/ CopyOpen(r, f)
                          \/ CopyWrite(r, f) \/ FailToCopy(r, f)
  BY DEF CopyStep
<1>2. copy[r].at[f] \in {"access", "open", "write"}
  BY <1>1 DEF CopyAccess, CopyOpen, CopyWrite, FailToCopy
<1>3. job[r].pc = "copy" /\ copy[r].pkg.lib = Lib(r)
  BY <1>2, CopyAwaited DEF Lib
<1>4. disk \in [Libraries -> Directory]
  BY <1>3, AtWork
<1> DEFINE d == disk[Lib(r)]
<1>5. disk' \in {[disk EXCEPT ![Lib(r)] = x] :
         x \in {d, [d EXCEPT !.dir = TRUE, !.file[f] = [state |-> "partial", from |-> copy[r].pkg]],
                [d EXCEPT !.file[f] = [state |-> "complete", from |-> copy[r].pkg]],
                [d EXCEPT !.file[f].state = "partial"]}}
  <2>1. Lib(r) \in Libraries /\ d \in Directory
    BY <1>3, AtWork
  <2>2. disk = [disk EXCEPT ![Lib(r)] = d]
    BY <1>4
  <2>3. CASE CopyOpen(r, f)
    <3>1. disk' = [disk EXCEPT ![Lib(r)].dir = TRUE,
                     ![Lib(r)].file[f] = [state |-> "partial", from |-> copy[r].pkg]]
      BY <1>3, <2>3 DEF CopyOpen
    <3>2. disk' = [disk EXCEPT ![Lib(r)] =
             [d EXCEPT !.dir = TRUE, !.file[f] = [state |-> "partial", from |-> copy[r].pkg]]]
      BY <1>4, <2>1, <3>1 DEF Directory
    <3> QED BY <3>2
  <2>4. CASE CopyWrite(r, f)
    <3>1. \/ disk' = [disk EXCEPT ![Lib(r)].file[f] =
                        [state |-> "complete", from |-> copy[r].pkg]]
          \/ disk' = [disk EXCEPT ![Lib(r)].file[f].state = "partial"]
          \/ UNCHANGED disk
      BY <1>3, <2>4 DEF CopyWrite
    <3> QED BY <2>2, <3>1
  <2>5. CASE CopyAccess(r, f) \/ FailToCopy(r, f)
    BY <2>2, <2>5 DEF CopyAccess, FailToCopy
  <2> QED BY <1>1, <2>3, <2>4, <2>5
<1>6. \E x : disk' = [disk EXCEPT ![Lib(r)] = x]
  BY <1>5
<1>7. PICK state : SetCopy(r, f, state)
  BY <1>1 DEF CopyAccess, CopyOpen, CopyWrite, FailToCopy
<1>8. copy' = [copy EXCEPT ![r] = [copy[r] EXCEPT !.at[f] = state]]
  BY <1>7 DEF SetCopy
<1> QED BY <1>3, <1>6, <1>8 DEF Working, Control

LEMMA StepAlone ==
  ASSUME CompleteInv, NEW r \in Requests,
         InstallStep(r) \/ CopyStep(r) \/ GiveUp(r)
  PROVE  Alone(r)
<1>1. /\ LibraryInstallInv
      /\ disk \in [Libraries -> Directory] /\ copy \in [Requests -> Copies]
  BY DEF CompleteInv, PatchInv, LibraryInstallInv, DiskInv, CopyInv
<1>2. \A q \in Requests \ {r} : job'[q] = job[q]
  BY <1>1, OtherJobs
<1>3. /\ \/ UNCHANGED disk
         \/ job[r].pc \in Working /\ \E d : disk' = [disk EXCEPT ![Lib(r)] = d]
      /\ \/ UNCHANGED copy
         \/ \E c : copy' = [copy EXCEPT ![r] = c]
  BY InstallStepFrame, CopyStepFrame DEF GiveUp
<1>4. \A q \in Requests \ {r} : copy'[q] = copy[q]
  BY <1>1, <1>3
<1>5. \A l \in Libraries : l # Lib(r) \/ job[r].pc \notin Working => disk'[l] = disk[l]
  BY <1>1, <1>3
<1> QED BY <1>2, <1>4, <1>5 DEF Alone

-----------------------------------------------------------------------------
(* The invariant holds always *)

\* What a step of r means for everyone.
LEMMA StepCompletes ==
  ASSUME Undisturbed, CompleteInv, PatchInv', NEW r \in Requests, job[r].pc # "idle",
         Arrives(r), Alone(r)
  PROVE  CompleteInv'
<1>1. Lib(r) \in Libraries
  BY AtWork
<1>2. Phases'
  <2> SUFFICES ASSUME NEW q \in Requests, job'[q].pc # "idle"
               PROVE  /\ AtPhase(job'[q], disk'[job'[q].pkg.lib], copy'[q])
                      /\ Remembers(job'[q])
    BY DEF Phases, Lib
  <2>1. CASE q = r
    <3>1. job'[r].pkg.lib = Lib(r)
      BY <2>1 DEF Arrives, Lib
    <3> QED BY <2>1, <3>1 DEF Arrives
  <2>2. CASE q # r
    <3>1. job'[q] = job[q] /\ copy'[q] = copy[q]
      BY <2>2 DEF Alone
    <3>2. /\ AtPhase(job[q], disk[Lib(q)], copy[q]) /\ Remembers(job[q])
          /\ Lib(q) \in Libraries /\ job[q] \in Job
      BY <3>1, AtWork
    <3>3. CASE job[q].pc \notin Working
      <4>1. job[q].pc = "outer"
        BY <3>1, <3>2, <3>3 DEF Working, Job
      <4>2. AtPhase(job[q], disk'[Lib(q)], copy[q])
        BY <4>1 DEF AtPhase
      <4> QED BY <3>1, <3>2, <4>2 DEF Lib
    <3>4. CASE job[q].pc \in Working
      <4>1. Lib(q) # Lib(r) \/ job[r].pc \notin Working
        BY <2>2, <3>4, OneAtWork
      <4>2. disk'[Lib(q)] = disk[Lib(q)]
        BY <3>2, <4>1 DEF Alone
      <4> QED BY <3>1, <3>2, <4>2 DEF Lib
    <3> QED BY <3>3, <3>4
  <2> QED BY <2>1, <2>2
<1>3. CopiesAwaited'
  <2> SUFFICES ASSUME NEW q \in Requests, InProgress(copy'[q])
               PROVE  job'[q].pc = "copy"
    BY DEF CopiesAwaited
  <2>1. CASE q = r
    BY <2>1 DEF Arrives
  <2>2. CASE q # r
    BY <2>2 DEF Alone, CompleteInv, CopiesAwaited
  <2> QED BY <2>1, <2>2
<1>4. FreeLibraries'
  <2> SUFFICES ASSUME NEW l \in Libraries,
                      \A q \in Requests : job'[q].pc \in Working => job'[q].pkg.lib # l
               PROVE  Settled(disk'[l])
    BY DEF FreeLibraries, Lib
  <2>1. CASE l = Lib(r) /\ job[r].pc \in Working
    <3>1. job'[r].pc \notin Working
      BY <2>1 DEF Arrives, Lib, Working
    <3> QED BY <2>1, <3>1 DEF Arrives
  <2>2. CASE l # Lib(r) \/ job[r].pc \notin Working
    <3>1. disk'[l] = disk[l]
      BY <2>2 DEF Alone
    <3>2. \A q \in Requests : job[q].pc \in Working => Lib(q) # l
      BY <2>2 DEF Alone, Lib
    <3> QED BY <3>1, <3>2 DEF CompleteInv, FreeLibraries
  <2> QED BY <2>1, <2>2
<1> QED BY <1>2, <1>3, <1>4 DEF CompleteInv

LEMMA BeginCompletes ==
  ASSUME CompleteInv, PatchInv', NEW r \in Requests, NEW p \in Packages, Begin(r, p)
  PROVE  CompleteInv'
<1>1. job[r].pc = "idle" /\ UNCHANGED disk /\ copy' = [copy EXCEPT ![r] = NoCopies]
  BY DEF Begin
<1>2. job \in [Requests -> Job] /\ copy \in [Requests -> Copies]
  BY DEF CompleteInv, PatchInv, LibraryInstallInv, JobInv, CopyInv
<1>3. job'[r] = [IdleJob EXCEPT !.pc = "outer", !.pkg = p]
  BY <1>2 DEF Begin
<1>4. job'[r].pc = "outer" /\ job'[r].before = NoPackage
  BY <1>3 DEF IdleJob
<1>5. \A q \in Requests \ {r} : job'[q] = job[q] /\ copy'[q] = copy[q]
  BY <1>1, <1>2 DEF Begin
<1>6. ~InProgress(copy'[r])
  BY <1>1, <1>2 DEF NoCopies, InProgress
<1>7. AtPhase(job'[r], disk'[job'[r].pkg.lib], copy'[r]) /\ Remembers(job'[r])
  BY <1>4 DEF AtPhase, Remembers
<1>8. Phases'
  <2> SUFFICES ASSUME NEW q \in Requests, job'[q].pc # "idle"
               PROVE  /\ AtPhase(job'[q], disk'[job'[q].pkg.lib], copy'[q])
                      /\ Remembers(job'[q])
    BY DEF Phases, Lib
  <2>1. CASE q = r
    BY <1>7, <2>1
  <2>2. CASE q # r
    BY <1>1, <1>5, <2>2 DEF CompleteInv, Phases, Lib
  <2> QED BY <2>1, <2>2
<1>9. CopiesAwaited'
  BY <1>5, <1>6 DEF CompleteInv, CopiesAwaited
<1>10. FreeLibraries'
  <2> SUFFICES ASSUME NEW l \in Libraries,
                      \A q \in Requests : job'[q].pc \in Working => job'[q].pkg.lib # l
               PROVE  Settled(disk'[l])
    BY DEF FreeLibraries, Lib
  <2>1. \A q \in Requests : job[q].pc \in Working => Lib(q) # l
    BY <1>1, <1>5 DEF Working, Lib
  <2> QED BY <1>1, <2>1 DEF CompleteInv, FreeLibraries
<1> QED BY <1>8, <1>9, <1>10 DEF CompleteInv

LEMMA InitComplete == Init => CompleteInv
<1> SUFFICES ASSUME Init PROVE CompleteInv
  OBVIOUS
<1>1. \A r \in Requests : job[r].pc = "idle"
  BY DEF Init, IdleJob
<1>2. \A r \in Requests : ~InProgress(copy[r])
  BY DEF Init, NoCopies, InProgress
<1>3. Phases /\ CopiesAwaited
  BY <1>1, <1>2 DEF Phases, CopiesAwaited
<1>4. FreeLibraries
  BY DEF Init, FreeLibraries, Settled
<1> QED BY <1>3, <1>4, InitPatch DEF CompleteInv

\* While nothing disturbs installations, the steps of the system are these.
LEMMA UndisturbedSteps ==
  ASSUME Undisturbed, [Next]_vars
  PROVE  /\ Undisturbed'
         /\ \/ \E r \in Requests : \/ \E p \in Packages : Begin(r, p)
                                   \/ InstallStep(r) \/ CopyStep(r) \/ GiveUp(r)
            \/ UNCHANGED vars
<1>1. UNCHANGED env
  BY DEF Next, vars
<1>2. Undisturbed'
  BY <1>1 DEF Undisturbed
<1>3. /\ \A r \in Requests : ~OuterLimit(r) /\ ~InnerLimit(r)
      /\ ~Crash
  BY DEF Undisturbed, OuterLimit, InnerLimit, Crash
<1> QED BY <1>2, <1>3 DEF Next, QueueTimeout

LEMMA RequestSteps ==
  ASSUME Undisturbed, CompleteInv, NEW r \in Requests,
         InstallStep(r) \/ CopyStep(r) \/ GiveUp(r)
  PROVE  job[r].pc # "idle" /\ Arrives(r) /\ Alone(r)
BY InstallStepArrives, CopyStepArrives, GiveUpArrives, StepInFlight, StepAlone

LEMMA NextCompletes ==
  ASSUME Undisturbed, CompleteInv, [Next]_vars
  PROVE  Undisturbed' /\ CompleteInv'
<1>1. Undisturbed'
  BY UndisturbedSteps
<1>2. PatchInv'
  BY NextPatch DEF Undisturbed, CompleteInv
<1>3. ASSUME NEW r \in Requests, NEW p \in Packages, Begin(r, p)
      PROVE  CompleteInv'
  BY <1>2, <1>3, BeginCompletes
<1>4. ASSUME NEW r \in Requests, InstallStep(r) \/ CopyStep(r) \/ GiveUp(r)
      PROVE  CompleteInv'
  BY <1>2, <1>4, RequestSteps, StepCompletes
<1>5. ASSUME UNCHANGED vars
      PROVE  CompleteInv'
  BY <1>2, <1>5 DEF vars, CompleteInv, Phases, CopiesAwaited, FreeLibraries, Lib
<1> QED BY <1>1, <1>3, <1>4, <1>5, UndisturbedSteps

\* At every point of an installation the directory holds what that point of
\* the code has written, and between installations a library is complete or
\* absent, while storage works and no lock's time limit ends an installation.
THEOREM CompleteInvariant ==
  ASSUME Faultless
  PROVE  Spec => [](Undisturbed /\ CompleteInv)
<1>1. Init => Undisturbed /\ CompleteInv
  BY InitComplete DEF Init, Undisturbed, Faultless
<1>2. (Undisturbed /\ CompleteInv) /\ [Next]_vars => (Undisturbed /\ CompleteInv)'
  BY NextCompletes
<1> QED BY <1>1, <1>2, PTL DEF Spec

\* Two requests never have the same library to change, whatever else fails, unless a time
\* limit is exceeded: both would hold the lock of installFromDirectory.  While storage
\* works the copies of a request have ended before it gives that lock back.
THEOREM MutualExclusion == Spec => []Exclusive
<1> DEFINE Completes == Undisturbed => CompleteInv
<1>1. Init => Completes
  BY InitComplete
<1>2. Completes /\ [Next]_vars => Completes'
  <2>1. [Next]_vars => UNCHANGED env
    BY DEF Next, vars
  <2> QED BY <2>1, NextCompletes DEF Undisturbed
<1>3. LibraryInstallInv /\ Completes => Exclusive
  <2> SUFFICES ASSUME LibraryInstallInv, Completes, "occupation" \notin env,
                      NEW r \in Requests, NEW q \in Requests, r # q
               PROVE  /\ Changing(r) /\ Changing(q) => Lib(r) # Lib(q)
                      /\ env \subseteq {"queueTimeout"} /\ Copying(r) /\ Changing(q) =>
                           copy[r].pkg.lib # Lib(q)
    BY DEF Exclusive
  <2>1. Changing(r) /\ Changing(q) => Lib(r) # Lib(q)
    <3>1. Changing(r) => HoldsOuter(r)
      BY DEF LibraryInstallInv, JobInv, OuterHeld, OrphanedByTimeLimit, Changing
    <3>2. Changing(q) => HoldsOuter(q)
      BY DEF LibraryInstallInv, JobInv, OuterHeld, OrphanedByTimeLimit, Changing
    <3> QED BY <3>1, <3>2 DEF HoldsOuter
  <2>2. ASSUME env \subseteq {"queueTimeout"}, Copying(r)
        PROVE  Changing(r) /\ copy[r].pkg.lib = Lib(r)
    <3>1. CompleteInv /\ InProgress(copy[r])
      BY <2>2 DEF Undisturbed, Copying, InProgress
    <3>2. job[r].pc = "copy"
      BY <3>1 DEF CompleteInv, CopiesAwaited
    <3>3. copy[r].pkg = job[r].pkg
      BY <3>1, <3>2 DEF CompleteInv, Phases, AtPhase, CopiedSoFar
    <3> QED BY <3>2, <3>3 DEF Changing, Lib
  <2> QED BY <2>1, <2>2
<1> HIDE DEF Completes
<1> QED BY <1>1, <1>2, <1>3, InstallInvariant, PTL DEF Spec

\* Nothing works on a quiet library.
LEMMA QuietIsSettled ==
  ASSUME CompleteInv, NEW l \in Libraries, Quiet(l)
  PROVE  Settled(disk[l])
<1>1. \A r \in Requests : job[r].pc \in Working => Lib(r) # l
  BY DEF Quiet, Working
<1> QED BY <1>1 DEF CompleteInv, FreeLibraries

\* An installed library is complete: library.json is readable and every file it
\* lists is there and from the same version (copyLibraryFiles is awaited and
\* checkConsistency follows it), while storage works.
THEOREM InstalledLibrariesAreComplete ==
  ASSUME Faultless
  PROVE  Spec => []InstalledIsComplete
<1>1. CompleteInv => InstalledIsComplete
  <2> SUFFICES ASSUME CompleteInv, NEW l \in Libraries, Quiet(l), disk[l].json # "absent"
               PROVE  /\ disk[l].json = "complete"
                      /\ \A f \in disk[l].meta.needs :
                           disk[l].file[f] = [state |-> "complete", from |-> disk[l].meta]
    BY DEF InstalledIsComplete
  <2>1. Whole(disk[l])
    BY QuietIsSettled DEF Settled, NoDirectory
  <2>2. disk[l].meta.needs \subseteq Files
    BY <2>1, PackageTypes DEF Whole
  <2> QED BY <2>1, <2>2 DEF Whole, Readable, Healthy, HasAll, Copied
<1> QED BY <1>1, CompleteInvariant, PTL

\* An installation that fails leaves no trace of the library (installLibrary and
\* updateLibrary delete it), while storage works.
THEOREM FailureLeavesNoTraces ==
  ASSUME Faultless
  PROVE  Spec => []NoTraces
<1>1. CompleteInv => NoTraces
  BY QuietIsSettled DEF NoTraces, Settled, Whole, Readable
<1> QED BY <1>1, CompleteInvariant, PTL

\* A request that skips the installation finds the library complete: under the
\* lock of installFromDirectory nobody else is changing it.
THEOREM SkippedInstallationsAreComplete ==
  ASSUME Faultless
  PROVE  Spec => SkippedIsComplete
<1> DEFINE Skip ==
      \A r \in Requests :
        job[r].pc = "read" /\ job[r].unread = {} /\ job'[r].pc = "idle" =>
          LET d == disk[Lib(r)] IN
          \A f \in d.meta.needs : d.file[f].state = "complete"
<1>1. CompleteInv => Skip
  <2> SUFFICES ASSUME CompleteInv, NEW r \in Requests, job[r].pc = "read",
                      NEW f \in disk[Lib(r)].meta.needs
               PROVE  disk[Lib(r)].file[f].state = "complete"
    OBVIOUS
  <2>1. Whole(disk[Lib(r)])
    BY AtWork DEF AtPhase
  <2>2. f \in Files
    BY <2>1, PackageTypes DEF Whole
  <2> QED BY <2>1, <2>2 DEF Whole, Healthy, HasAll, Copied
<1>2. CompleteInv /\ [Next]_vars => [Skip]_vars
  BY <1>1
<1>3. SkippedIsComplete <=> [][Skip]_vars
  BY DEF SkippedIsComplete
<1> HIDE DEF Skip
<1> QED BY <1>2, <1>3, CompleteInvariant, PTL DEF Spec

-----------------------------------------------------------------------------
(* Installations are atomic *)

\* The registry shows what a request that changes a library has found installed,
\* and what is installed if nobody changes it.
ShownAsViewed ==
  \A l \in Libraries :
    /\ \A r \in Requests :
         job[r].pc \in ChangingPhases /\ Lib(r) = l => Shown(l) = job[r].before
    /\ (\A r \in Requests : job[r].pc \in ChangingPhases => Lib(r) # l)
         => Shown(l) = disk[l].meta

LEMMA ShownLibraries == Undisturbed /\ CompleteInv => ShownAsViewed
<1> SUFFICES ASSUME Undisturbed, CompleteInv, NEW l \in Libraries
             PROVE  /\ \A r \in Requests :
                         job[r].pc \in ChangingPhases /\ Lib(r) = l
                           => Shown(l) = job[r].before
                    /\ (\A r \in Requests : job[r].pc \in ChangingPhases => Lib(r) # l)
                         => Shown(l) = disk[l].meta
  BY DEF ShownAsViewed
<1>1. \A r \in Requests : Changing(r) <=> job[r].pc \in ChangingPhases
  BY DEF CompleteInv, PatchInv, LibraryInstallInv, JobInv, Job, Changing,
         ChangingPhases, Working, Control
<1>2. ASSUME NEW r \in Requests, job[r].pc \in ChangingPhases, Lib(r) = l
      PROVE  Shown(l) = job[r].before
  <2> DEFINE q == CHOOSE q \in Requests : Changing(q) /\ Lib(q) = l
  <2>1. \E x \in Requests : Changing(x) /\ Lib(x) = l
    BY <1>1, <1>2
  <2>2. q \in Requests /\ Changing(q) /\ Lib(q) = l
    BY <2>1
  <2>3. Shown(l) = job[q].before
    BY <2>1 DEF Shown
  <2> HIDE DEF q
  <2>4. q = r
    BY <1>1, <1>2, <2>2, OneAtWork DEF ChangingPhases
  <2> QED BY <2>3, <2>4
<1>3. ASSUME \A r \in Requests : job[r].pc \in ChangingPhases => Lib(r) # l
      PROVE  Shown(l) = disk[l].meta
  BY <1>1, <1>3 DEF Shown
<1> QED BY <1>2, <1>3

\* The libraries a step of r does not work on are shown as before.
LEMMA OthersShown ==
  ASSUME Undisturbed, CompleteInv, Undisturbed', CompleteInv',
         NEW r \in Requests, job[r].pc # "idle", Arrives(r), Alone(r),
         NEW l \in Libraries, l # Lib(r)
  PROVE  Shown(l)' = Shown(l)
<1>1. ShownAsViewed /\ ShownAsViewed'
  BY ShownLibraries, PTL
<1>2. \A q \in Requests : Lib(q) = l => q # r
  OBVIOUS
<1>3. \A q \in Requests : job'[q].pc \in ChangingPhases /\ job'[q].pkg.lib = l => q # r
  BY DEF Arrives, Lib, ChangingPhases, Working
<1>4. CASE \E q \in Requests : job[q].pc \in ChangingPhases /\ Lib(q) = l
  <2>1. PICK q \in Requests : job[q].pc \in ChangingPhases /\ Lib(q) = l
    BY <1>4
  <2>2. job'[q] = job[q]
    BY <1>2, <2>1 DEF Alone
  <2>3. Shown(l) = job[q].before
    BY <1>1, <2>1 DEF ShownAsViewed
  <2>4. job'[q].pc \in ChangingPhases /\ Lib(q)' = l
    BY <2>1, <2>2 DEF Lib
  <2>5. Shown(l)' = job'[q].before
    BY <1>1, <2>4 DEF ShownAsViewed
  <2> QED BY <2>2, <2>3, <2>5
<1>5. CASE \A q \in Requests : job[q].pc \in ChangingPhases => Lib(q) # l
  <2>1. Shown(l) = disk[l].meta
    BY <1>1, <1>5 DEF ShownAsViewed
  <2>2. \A q \in Requests : job'[q].pc \in ChangingPhases => Lib(q)' # l
    BY <1>3, <1>5 DEF Alone, Lib
  <2>3. Shown(l)' = disk'[l].meta
    BY <1>1, <2>2 DEF ShownAsViewed
  <2>4. disk'[l] = disk[l]
    BY DEF Alone
  <2> QED BY <2>1, <2>3, <2>4
<1> QED BY <1>4, <1>5

\* The library a step of r works on is shown as r views it.
LEMMA OwnShown ==
  ASSUME Undisturbed, CompleteInv, Undisturbed', CompleteInv',
         NEW r \in Requests, Arrives(r), Alone(r),
         job[r].pc \in Working \/ (job[r].pc = "outer" /\ HoldsOuter(r))
  PROVE  \A l \in Libraries :
           l = Lib(r) => Shown(l) = View(r) /\ Shown(l)' = NextView(r)
<1> SUFFICES ASSUME NEW l \in Libraries, l = Lib(r)
             PROVE  Shown(l) = View(r) /\ Shown(l)' = NextView(r)
  OBVIOUS
<1>1. ShownAsViewed /\ ShownAsViewed'
  BY ShownLibraries, PTL
<1>2. job[r].pc # "idle" /\ l \in Libraries
  <2>1. job[r].pc # "idle"
    BY DEF Working
  <2> QED BY <2>1, AtWork
<1>3. \A q \in Requests \ {r} : job[q].pc \in ChangingPhases => Lib(q) # l
  BY OneAtWork DEF ChangingPhases
<1>4. Shown(l) = View(r)
  <2>1. CASE job[r].pc \in ChangingPhases
    BY <1>1, <1>2, <2>1 DEF ShownAsViewed, View
  <2>2. CASE job[r].pc \notin ChangingPhases
    BY <1>1, <1>2, <1>3, <2>2 DEF ShownAsViewed, View
  <2> QED BY <2>1, <2>2
<1>5. Shown(l)' = NextView(r)
  <2>1. CASE job'[r].pc \in ChangingPhases
    <3>1. Lib(r)' = l
      BY <2>1 DEF Arrives, Lib, ChangingPhases, Working
    <3>2. Shown(l)' = job'[r].before
      BY <1>1, <2>1, <3>1 DEF ShownAsViewed
    <3> QED BY <2>1, <3>2 DEF NextView
  <2>2. CASE job'[r].pc \notin ChangingPhases
    <3>1. \A q \in Requests : job'[q].pc \in ChangingPhases => Lib(q)' # l
      BY <1>3, <2>2 DEF Alone, Lib
    <3>2. Shown(l)' = disk'[l].meta
      BY <1>1, <3>1 DEF ShownAsViewed
    <3> QED BY <2>2, <3>2 DEF NextView
  <2> QED BY <2>1, <2>2
<1> QED BY <1>4, <1>5

\* A step past the lock is a step of the registry, or none.
LEMMA WorkRefines ==
  ASSUME Undisturbed, CompleteInv, Undisturbed', CompleteInv',
         NEW r \in Requests, Arrives(r), Alone(r),
         job[r].pc \in Working \/ (job[r].pc = "outer" /\ HoldsOuter(r))
  PROVE  \/ \E p \in Packages : \/ Registry!Install(p) \/ Registry!Update(p)
                                \/ Registry!FailToUpdate(p)
         \/ \A l \in Libraries : Shown(l)' = Shown(l)
<1> DEFINE p == job[r].pkg
           k == Lib(r)
<1>1. job[r].pc # "idle"
  BY DEF Working
<1>2. p \in Packages /\ p.lib = k /\ k \in Libraries
  BY <1>1, AtWork DEF Lib
<1>3. \A l \in Libraries : l # k => Shown(l)' = Shown(l)
  BY <1>1, OthersShown
<1>4. \A l \in Libraries : l = k => Shown(l) = View(r) /\ Shown(l)' = NextView(r)
  BY OwnShown
<1>5. Transition(p, View(r), NextView(r))
  BY DEF Arrives
<1> DEFINE now == [l \in Libraries |-> Shown(l)]
<1>6. now[k] = View(r)
  BY <1>2, <1>4
<1>7. now' = [now EXCEPT ![k] = NextView(r)]
  <2>1. now' = [l \in Libraries |-> Shown(l)']
    OBVIOUS
  <2>2. \A l \in Libraries : Shown(l)' = IF l = k THEN NextView(r) ELSE Shown(l)
    BY <1>3, <1>4
  <2> QED BY <2>1, <2>2
<1> HIDE DEF p, k
<1>8. CASE NextView(r) = View(r)
  BY <1>3, <1>4, <1>8
<1>9. CASE Healthy(p) /\ NextView(r) = p /\ View(r) = NoPackage
  <2>1. Registry!Install(p)
    BY <1>2, <1>6, <1>7, <1>9 DEF Registry!Install, Registry!Healthy, Healthy
  <2> QED BY <1>2, <2>1
<1>10. CASE Healthy(p) /\ NextView(r) = p /\ View(r) # NoPackage /\ View(r).patch < p.patch
  <2>1. Registry!Update(p)
    BY <1>2, <1>6, <1>7, <1>10
       DEF Registry!Update, Registry!Newer, Registry!Healthy, Healthy
  <2> QED BY <1>2, <2>1
<1>11. CASE /\ ~Healthy(p) /\ NextView(r) = NoPackage
            /\ View(r) # NoPackage /\ View(r).patch < p.patch
  <2>1. Registry!FailToUpdate(p)
    BY <1>2, <1>6, <1>7, <1>11
       DEF Registry!FailToUpdate, Registry!Newer, Registry!Healthy, Healthy
  <2> QED BY <1>2, <2>1
<1> QED BY <1>5, <1>8, <1>9, <1>10, <1>11 DEF Transition

\* Steps that change no directory and no view.
LEMMA IdleSteps ==
  ASSUME Undisturbed, CompleteInv, Undisturbed', CompleteInv', UNCHANGED disk,
         NEW r \in Requests, job[r].pc \notin ChangingPhases,
         job'[r].pc \notin ChangingPhases,
         \A q \in Requests \ {r} : job'[q] = job[q]
  PROVE  \A l \in Libraries : Shown(l)' = Shown(l)
<1>1. ShownAsViewed /\ ShownAsViewed'
  BY ShownLibraries, PTL
<1> SUFFICES ASSUME NEW l \in Libraries
             PROVE  Shown(l)' = Shown(l)
  OBVIOUS
<1>2. CASE \E q \in Requests : job[q].pc \in ChangingPhases /\ Lib(q) = l
  <2>1. PICK q \in Requests : job[q].pc \in ChangingPhases /\ Lib(q) = l
    BY <1>2
  <2>2. job'[q] = job[q]
    BY <2>1
  <2>3. job'[q].pc \in ChangingPhases /\ Lib(q)' = l
    BY <2>1, <2>2 DEF Lib
  <2>4. Shown(l) = job[q].before /\ Shown(l)' = job'[q].before
    BY <1>1, <2>1, <2>3 DEF ShownAsViewed
  <2> QED BY <2>2, <2>4
<1>3. CASE \A q \in Requests : job[q].pc \in ChangingPhases => Lib(q) # l
  <2>1. \A q \in Requests : job'[q].pc \in ChangingPhases => Lib(q)' # l
    BY <1>3 DEF Lib
  <2>2. Shown(l) = disk[l].meta /\ Shown(l)' = disk'[l].meta
    BY <1>1, <1>3, <2>1 DEF ShownAsViewed
  <2> QED BY <2>2
<1> QED BY <1>2, <1>3

LEMMA StepLocked ==
  ASSUME CompleteInv, NEW r \in Requests, InstallStep(r) \/ CopyStep(r)
  PROVE  job[r].pc \in Working \/ (job[r].pc = "outer" /\ HoldsOuter(r))
<1>1. job[r].pc # "idle" /\ job[r].pc \in Control
  <2>1. job[r].pc # "idle"
    BY StepInFlight
  <2> QED BY <2>1, AtWork DEF Job
<1>2. ASSUME job[r].pc = "outer"
      PROVE  HoldsOuter(r)
  <2>1. ~CopyStep(r)
    BY <1>2, CopyStepFrame DEF Working
  <2>2. CheckInstalled(r)
    BY <1>2, <2>1 DEF InstallStep, ListVersions, ReadVersion, DecidePatch,
       AccessLibrary, UpdateOpen, UpdateWrite, ListFiles, ClearFiles, MakeDirectory,
       AddOpen, AddWrite, OpenMetadata, EndCopies, CheckMetadata, CheckFiles,
       Rollback, RemoveFiles, RemoveDirectory, FailStorage
  <2> QED BY <2>2 DEF CheckInstalled
<1> QED BY <1>1, <1>2 DEF Working

LEMMA NextRefines ==
  ASSUME Undisturbed, CompleteInv, Undisturbed', CompleteInv', [Next]_vars
  PROVE  [Registry!Next]_[l \in Libraries |-> Shown(l)]
<1>1. ASSUME \A l \in Libraries : Shown(l)' = Shown(l)
      PROVE  [Registry!Next]_[l \in Libraries |-> Shown(l)]
  BY <1>1
<1>2. ASSUME NEW r \in Requests, NEW p \in Packages, Begin(r, p)
      PROVE  \A l \in Libraries : Shown(l)' = Shown(l)
  <2>1. job \in [Requests -> Job]
    BY DEF CompleteInv, PatchInv, LibraryInstallInv, JobInv
  <2>2. /\ job[r].pc = "idle" /\ UNCHANGED disk
        /\ \A q \in Requests \ {r} : job'[q] = job[q]
        /\ job'[r] = [IdleJob EXCEPT !.pc = "outer", !.pkg = p]
    BY <1>2, <2>1 DEF Begin
  <2>3. job'[r].pc = "outer"
    BY <2>2 DEF IdleJob
  <2> QED BY <2>2, <2>3, IdleSteps DEF ChangingPhases, Working
<1>3. ASSUME NEW r \in Requests, GiveUp(r)
      PROVE  \A l \in Libraries : Shown(l)' = Shown(l)
  <2>1. job \in [Requests -> Job]
    BY DEF CompleteInv, PatchInv, LibraryInstallInv, JobInv
  <2>2. /\ job[r].pc \in {"outer", "inner"} /\ UNCHANGED disk
        /\ \A q \in Requests \ {r} : job'[q] = job[q]
        /\ job'[r] = IdleJob
    BY <1>3, <2>1 DEF GiveUp, WaitsOuter, WaitsInner
  <2>3. job'[r].pc = "idle"
    BY <2>2 DEF IdleJob
  <2> QED BY <2>2, <2>3, IdleSteps DEF ChangingPhases, Working
<1>4. ASSUME NEW r \in Requests, InstallStep(r) \/ CopyStep(r)
      PROVE  [Registry!Next]_[l \in Libraries |-> Shown(l)]
  BY <1>1, <1>4, RequestSteps, StepLocked, WorkRefines DEF Registry!Next
<1>5. ASSUME UNCHANGED vars
      PROVE  \A l \in Libraries : Shown(l)' = Shown(l)
  BY <1>5 DEF vars, Shown, Changing, Lib
<1> QED BY <1>1, <1>2, <1>3, <1>4, <1>5, UndisturbedSteps

\* Installing is atomic: the registry of installed libraries that the requests
\* show together only ever changes as LibraryRegistry says, one installation at
\* a time, while storage works.
THEOREM RegistryImplemented ==
  ASSUME Faultless
  PROVE  Spec => ImplementsRegistry
<1>1. Init => Registry!Init
  <2> SUFFICES ASSUME Init PROVE \A l \in Libraries : Shown(l) = NoPackage
    BY DEF Registry!Init
  <2>1. \A r \in Requests : ~Changing(r)
    BY DEF Init, IdleJob, Changing
  <2>2. \A l \in Libraries : disk[l].meta = NoPackage
    BY DEF Init, NoDirectory
  <2> QED BY <2>1, <2>2 DEF Shown
<1> DEFINE Inv == Undisturbed /\ CompleteInv
<1>2. Inv /\ Inv' /\ [Next]_vars => [Registry!Next]_[l \in Libraries |-> Shown(l)]
  BY NextRefines
<1>3. ImplementsRegistry
        <=> Registry!Init /\ [][Registry!Next]_[l \in Libraries |-> Shown(l)]
  BY DEF ImplementsRegistry, Registry!Spec
<1>4. Spec => []Inv
  BY CompleteInvariant
<1> HIDE DEF Inv
<1> QED BY <1>1, <1>2, <1>3, <1>4, PTL DEF Spec

=============================================================================
