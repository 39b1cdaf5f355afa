--------------------------- MODULE LibraryInstall ---------------------------
(***************************************************************************)
(* Installing libraries: LibraryManager.installFromDirectory with the      *)
(* calls it makes on FileLibraryStorage, under the two locks it takes.     *)
(*                                                                         *)
(* Every library (machine name, major and minor version) is a directory    *)
(* with a library.json and files.  The steps of a request are separated by *)
(* the `await`s on storage; the files of a library are copied concurrently *)
(* and a copy that has begun goes on when another one fails.               *)
(***************************************************************************)
EXTENDS Naturals, SequencesExt

CONSTANTS
  Libraries,     \* the major.minor versions of one machine name
  Files,         \* names of library files other than library.json
  Packages,      \* the library directories that can be installed
  Requests,      \* requests that can be in flight
  NoPackage,     \* "no package"
  Nobody,        \* a lock that is free
  Environments,  \* what may go wrong, see AllFreedoms
  MaxInstalls    \* bound: number of installations started

\* queueTimeout  a request may give up waiting for a lock
\* occupation    the time limit between entering a lock's queue and the end of
\*               the work may be exceeded
\* ioerror       storage operations may fail
\* crash         the process may crash and restart
AllFreedoms == {"queueTimeout", "occupation", "ioerror", "crash"}

ASSUME LibraryInstallAssumption ==
  /\ Packages \subseteq [lib : Libraries, patch : Nat,
                         needs : SUBSET Files,   \* listed in library.json
                         files : SUBSET Files]   \* present in the directory
  /\ NoPackage \notin Packages
  /\ Nobody \notin Requests
  /\ Environments \subseteq SUBSET AllFreedoms
  /\ MaxInstalls \in Nat

VARIABLES
  disk,     \* disk[l]: the directory of library l
  outer,    \* outer[l]: the lock install-from-directory:l
  inner,    \* inner[l]: the lock install-library:l
  job,      \* job[r]: the local state of request r
  copy,     \* copy[r]: the copies request r has begun
  installs, \* number of installations started
  env       \* what goes wrong in this behaviour, chosen once

vars == <<disk, outer, inner, job, copy, installs, env>>

FileState == [state : {"absent", "partial", "complete"},
              from  : Packages \cup {NoPackage}]

NoFile == [state |-> "absent", from |-> NoPackage]

\* meta is the package whose library.json was stored last.
Directory == [dir  : BOOLEAN,
              json : {"absent", "partial", "complete"},
              meta : Packages \cup {NoPackage},
              file : [Files -> FileState]]

NoDirectory == [dir |-> FALSE, json |-> "absent", meta |-> NoPackage,
                file |-> [f \in Files |-> NoFile]]

\* async-lock: who runs and who waits, in the order of arrival.
Lock == [holder : Requests \cup {Nobody}, queue : Seq(Requests)]

FreeLock == [holder |-> Nobody, queue |-> <<>>]

Control == {"idle", "outer", "list", "read", "updAccess", "updOpen", "updWrite",
            "clearList", "clear", "inner", "addOpen", "addWrite", "copy",
            "checkMeta", "checkFiles", "rollback", "rm", "rmdir"}

Job == [pc     : Control,
        pkg    : Packages \cup {NoPackage},
        unread : SUBSET Libraries,           \* listed versions not read yet
        patch  : BOOLEAN,                    \* isPatchedLibrary found an older patch
        clear  : SUBSET Files,               \* the files clearFiles has listed
        needs  : SUBSET Files,               \* the files checkConsistency looks for
        before : Packages \cup {NoPackage},  \* history: installed before the changes
        late   : BOOLEAN,                    \* the outer lock's time limit was exceeded
        orphan : BOOLEAN]                    \* ... and the inner lock's

IdleJob == [pc |-> "idle", pkg |-> NoPackage, unread |-> {}, patch |-> FALSE,
            clear |-> {}, needs |-> {}, before |-> NoPackage,
            late |-> FALSE, orphan |-> FALSE]

CopyState == {"none", "access", "open", "write", "done", "failed"}

Copies == [pkg : Packages \cup {NoPackage}, at : [Files -> CopyState]]

NoCopies == [pkg |-> NoPackage, at |-> [f \in Files |-> "none"]]

TypeOK ==
  /\ disk \in [Libraries -> Directory]
  /\ outer \in [Libraries -> Lock]
  /\ inner \in [Libraries -> Lock]
  /\ job \in [Requests -> Job]
  /\ copy \in [Requests -> Copies]
  /\ installs \in Nat

Init ==
  /\ disk = [l \in Libraries |-> NoDirectory]
  /\ outer = [l \in Libraries |-> FreeLock]
  /\ inner = [l \in Libraries |-> FreeLock]
  /\ job = [r \in Requests |-> IdleJob]
  /\ copy = [r \in Requests |-> NoCopies]
  /\ installs = 0
  /\ env \in Environments

-----------------------------------------------------------------------------
(* SimpleLockProvider on top of async-lock *)

\* Mutant: the lock does not wait for its holder.
AcquireAlways(k, r) == [k EXCEPT !.holder = r]

Acquire(k, r) == IF k.holder = Nobody THEN [k EXCEPT !.holder = r]
                 ELSE [k EXCEPT !.queue = Append(@, r)]

Release(k) == IF k.queue = <<>> THEN FreeLock
              ELSE [holder |-> Head(k.queue), queue |-> Tail(k.queue)]

\* A request that is no longer interested is skipped when its turn comes.
LeaveQueue(locks, l, r) ==
  {[locks EXCEPT ![l].queue = RemoveAt(@, i)] :
     i \in {i \in DOMAIN locks[l].queue : locks[l].queue[i] = r}}

Lib(r) == job[r].pkg.lib

HoldsOuter(r) == outer[Lib(r)].holder = r
HoldsInner(r) == inner[Lib(r)].holder = r

WaitsOuter(r) == job[r].pc = "outer" /\ ~HoldsOuter(r)
WaitsInner(r) == job[r].pc = "inner" /\ ~HoldsInner(r)

\* The lock of r's library passes on if r holds it.
PassOn(locks, r) ==
  IF locks[Lib(r)].holder = r THEN [locks EXCEPT ![Lib(r)] = Release(@)] ELSE locks

\* Mutant: the outer lock is not given back.
EndKeepsOuter(r) ==
  /\ job' = [job EXCEPT ![r] = IdleJob]
  /\ inner' = PassOn(inner, r)
  /\ UNCHANGED outer

\* The callbacks of r come to an end and the locks pass on.
End(r) ==
  /\ job' = [job EXCEPT ![r] = IdleJob]
  /\ outer' = PassOn(outer, r)
  /\ inner' = PassOn(inner, r)

GoTo(r, pc) ==
  /\ job' = [job EXCEPT ![r].pc = pc]
  /\ UNCHANGED <<outer, inner>>

Copying(r) == \E f \in Files : copy[r].at[f] \in {"access", "open", "write"}

-----------------------------------------------------------------------------
(* installFromDirectory *)

Begin(r, p) ==
  /\ job[r].pc = "idle"
  /\ ~Copying(r)
  /\ installs < MaxInstalls
  /\ installs' = installs + 1
  /\ job' = [job EXCEPT ![r] = [IdleJob EXCEPT !.pc = "outer", !.pkg = p]]
  /\ outer' = [outer EXCEPT ![p.lib] = Acquire(@, r)]
  /\ copy' = [copy EXCEPT ![r] = NoCopies]
  /\ UNCHANGED <<disk, inner>>

\* libraryExists, the first thing that happens under the lock.  A library that
\* is not installed needs the inner lock.
CheckInstalled(r) ==
  /\ job[r].pc = "outer"
  /\ HoldsOuter(r)
  /\ IF disk[Lib(r)].json # "absent"
     THEN job' = [job EXCEPT ![r].pc = "list"] /\ UNCHANGED inner
     ELSE /\ job' = [job EXCEPT ![r].pc = "inner"]
          /\ inner' = [inner EXCEPT ![Lib(r)] = Acquire(@, r)]
  /\ UNCHANGED <<disk, outer, copy, installs>>

\* isPatchedLibrary lists the directories of all versions of the machine name ...
ListVersions(r) ==
  /\ job[r].pc = "list"
  /\ job' = [job EXCEPT ![r].pc = "read", ![r].unread = {l \in Libraries : disk[l].dir}]
  /\ UNCHANGED <<disk, outer, inner, copy, installs>>

\* ... and reads each library.json.  One that cannot be read makes the request
\* fail (listInstalledLibraries dereferences undefined).
ReadVersion(r, l) ==
  /\ job[r].pc = "read"
  /\ l \in job[r].unread
  /\ IF disk[l].json = "complete"
     THEN /\ job' = [job EXCEPT
               ![r].unread = @ \ {l},
               ![r].patch = @ \/ (l = Lib(r) /\ disk[l].meta.patch < job[r].pkg.patch)]
          /\ UNCHANGED <<outer, inner>>
     ELSE End(r)
  /\ UNCHANGED <<disk, copy, installs>>

\* Mutant: an installed library is replaced whatever its patch.
ReinstallsAnyPatch(r) ==
  /\ job[r].pc = "read"
  /\ job[r].unread = {}
  /\ job' = [job EXCEPT ![r].pc = "updAccess", ![r].before = disk[Lib(r)].meta]
  /\ UNCHANGED <<outer, inner>>
  /\ UNCHANGED <<disk, copy, installs>>

\* An installed library is left alone unless it is an older patch.
DecidePatch(r) ==
  /\ job[r].pc = "read"
  /\ job[r].unread = {}
  /\ IF job[r].patch
     THEN /\ job' = [job EXCEPT ![r].pc = "updAccess", ![r].before = disk[Lib(r)].meta]
          /\ UNCHANGED <<outer, inner>>
     ELSE End(r)
  /\ UNCHANGED <<disk, copy, installs>>

-----------------------------------------------------------------------------
(* updateLibrary *)

\* The directory must exist to be updated.
AccessLibrary(r) ==
  /\ job[r].pc = "updAccess"
  /\ GoTo(r, IF disk[Lib(r)].dir THEN "updOpen" ELSE "rollback")
  /\ UNCHANGED <<disk, copy, installs>>

\* library.json is written: truncated when it is opened ...
OpenMetadata(r, pc, next, failed) ==
  /\ job[r].pc = pc
  /\ IF disk[Lib(r)].dir
     THEN /\ disk' = [disk EXCEPT ![Lib(r)].json = "partial"]
          /\ GoTo(r, next)
     ELSE UNCHANGED disk /\ failed
  /\ UNCHANGED <<copy, installs>>

\* ... and complete later, if it was not deleted meanwhile.
Stored(d, p) == IF d.json = "absent" THEN d ELSE [d EXCEPT !.json = "complete", !.meta = p]

UpdateOpen(r) == OpenMetadata(r, "updOpen", "updWrite", GoTo(r, "rollback"))

UpdateWrite(r) ==
  /\ job[r].pc = "updWrite"
  /\ disk' = [disk EXCEPT ![Lib(r)] = Stored(@, job[r].pkg)]
  /\ GoTo(r, "clearList")
  /\ UNCHANGED <<copy, installs>>

\* Mutant: library.json is not filtered out of the files to remove.
ListFilesAndMetadata(r) ==
  /\ job[r].pc = "clearList"
  /\ job' = [job EXCEPT ![r].pc = "clear",
       ![r].clear = {f \in Files : disk[Lib(r)].file[f] # NoFile} \cup {"library.json"}]
  /\ UNCHANGED <<disk, outer, inner, copy, installs>>

\* clearFiles lists the files of an installed library ...
ListFiles(r) ==
  /\ job[r].pc = "clearList"
  /\ IF disk[Lib(r)].json # "absent"
     THEN job' = [job EXCEPT ![r].pc = "clear",
                             ![r].clear = {f \in Files : disk[Lib(r)].file[f] # NoFile}]
     ELSE job' = [job EXCEPT ![r].pc = "rollback"]
  /\ UNCHANGED <<disk, outer, inner, copy, installs>>

\* ... and removes them.  Then the copies begin, all at once.
BeginCopies(r) ==
  copy' = [copy EXCEPT ![r] =
    [pkg |-> job[r].pkg,
     at  |-> [f \in Files |-> IF f \in job[r].pkg.files THEN "access" ELSE "none"]]]

ClearFiles(r) ==
  /\ job[r].pc = "clear"
  /\ disk' = [disk EXCEPT ![Lib(r)].file =
       [f \in Files |-> IF f \in job[r].clear THEN NoFile ELSE @[f]]]
  /\ BeginCopies(r)
  /\ GoTo(r, "copy")
  /\ UNCHANGED installs

-----------------------------------------------------------------------------
(* installLibrary *)

\* addLibrary.  That the directory already exists is noticed, but the error is
\* swallowed: the step does not depend on it.
MakeDirectory(r) ==
  /\ job[r].pc = "inner"
  /\ HoldsInner(r)
  /\ disk' = [disk EXCEPT ![Lib(r)].dir = TRUE]
  /\ GoTo(r, "addOpen")
  /\ UNCHANGED <<copy, installs>>

\* An error of addLibrary removes the directory and ends the request.
AddOpen(r) == OpenMetadata(r, "addOpen", "addWrite", End(r))

AddWrite(r) ==
  /\ job[r].pc = "addWrite"
  /\ disk' = [disk EXCEPT ![Lib(r)] = Stored(@, job[r].pkg)]
  /\ BeginCopies(r)
  /\ GoTo(r, "copy")
  /\ UNCHANGED installs

-----------------------------------------------------------------------------
(* copyLibraryFiles: one FileLibraryStorage.addFile per file, concurrently *)

SetCopy(r, f, state) == copy' = [copy EXCEPT ![r].at[f] = state]

\* addFile: the library must be installed ...
CopyAccess(r, f) ==
  /\ copy[r].at[f] = "access"
  /\ SetCopy(r, f, IF disk[copy[r].pkg.lib].json # "absent" THEN "open" ELSE "failed")
  /\ UNCHANGED <<disk, outer, inner, job, installs>>

\* ... missing directories are created and the file is truncated ...
CopyOpen(r, f) ==
  LET l == copy[r].pkg.lib IN
  /\ copy[r].at[f] = "open"
  /\ disk' = [disk EXCEPT ![l].dir = TRUE,
                          ![l].file[f] = [state |-> "partial", from |-> copy[r].pkg]]
  /\ SetCopy(r, f, "write")
  /\ UNCHANGED <<outer, inner, job, installs>>

\* ... and written.  If another copy has opened the file since then, the two
\* write over each other.
CopyWrite(r, f) ==
  LET l == copy[r].pkg.lib
      p == copy[r].pkg
  IN
  /\ copy[r].at[f] = "write"
  /\ \/ /\ disk[l].file[f] # NoFile
        /\ disk' = [disk EXCEPT ![l].file[f] = [state |-> "complete", from |-> p]]
     \/ /\ disk[l].file[f].from \notin {p, NoPackage}
        /\ disk' = [disk EXCEPT ![l].file[f].state = "partial"]
     \/ /\ disk[l].file[f] = NoFile
        /\ UNCHANGED disk
  /\ SetCopy(r, f, "done")
  /\ UNCHANGED <<outer, inner, job, installs>>

FailToCopy(r, f) ==
  /\ "ioerror" \in env
  /\ copy[r].at[f] \in {"access", "open", "write"}
  /\ SetCopy(r, f, "failed")
  /\ UNCHANGED <<disk, outer, inner, job, installs>>

\* Mutant: the copies are not awaited.
EndCopiesNoAwait(r) ==
  /\ job[r].pc = "copy"
  /\ GoTo(r, "checkMeta")
  /\ UNCHANGED <<disk, copy, installs>>

\* Promise.all: the first failure ends the waiting, the other copies go on.
EndCopies(r) ==
  /\ job[r].pc = "copy"
  /\ \/ (\E f \in Files : copy[r].at[f] = "failed") /\ GoTo(r, "rollback")
     \/ (\A f \in Files : copy[r].at[f] \in {"none", "done"}) /\ GoTo(r, "checkMeta")
  /\ UNCHANGED <<disk, copy, installs>>

-----------------------------------------------------------------------------
(* checkConsistency, and the end of a request *)

\* The library must be installed with a readable library.json ...
CheckMetadata(r) ==
  /\ job[r].pc = "checkMeta"
  /\ job' = IF disk[Lib(r)].json = "complete"
            THEN [job EXCEPT ![r].pc = "checkFiles", ![r].needs = disk[Lib(r)].meta.needs]
            ELSE [job EXCEPT ![r].pc = "rollback"]
  /\ UNCHANGED <<disk, outer, inner, copy, installs>>

Missing(l, needs) == {f \in needs : disk[l].file[f] = NoFile}

\* Mutant: the files are not checked.
CheckNoFiles(r) ==
  /\ job[r].pc = "checkFiles"
  /\ End(r)
  /\ UNCHANGED <<disk, copy, installs>>

\* ... that lists only files that exist.  Then the request has succeeded.
CheckFiles(r) ==
  /\ job[r].pc = "checkFiles"
  /\ IF Missing(Lib(r), job[r].needs) = {} THEN End(r) ELSE GoTo(r, "rollback")
  /\ UNCHANGED <<disk, copy, installs>>

\* deleteLibrary: it is an error if there is no directory ...
Rollback(r) ==
  /\ job[r].pc = "rollback"
  /\ IF disk[Lib(r)].dir THEN GoTo(r, "rm") ELSE End(r)
  /\ UNCHANGED <<disk, copy, installs>>

\* ... else its entries are removed, then itself, which fails if something was
\* added in between.  The request ends with an error in every case.
RemoveFiles(r) ==
  /\ job[r].pc = "rm"
  /\ disk' = [disk EXCEPT ![Lib(r)] = [NoDirectory EXCEPT !.dir = disk[Lib(r)].dir]]
  /\ GoTo(r, "rmdir")
  /\ UNCHANGED <<copy, installs>>

KeepDirectory(r) ==  \* mutant: only the entries are removed
  /\ job[r].pc = "rmdir"
  /\ End(r)
  /\ UNCHANGED <<disk, copy, installs>>

RemoveDirectory(r) ==
  /\ job[r].pc = "rmdir"
  /\ disk' = [disk EXCEPT ![Lib(r)] =
       IF @ = [NoDirectory EXCEPT !.dir = TRUE] THEN NoDirectory ELSE @]
  /\ End(r)
  /\ UNCHANGED <<copy, installs>>

-----------------------------------------------------------------------------
(* Errors of storage, time limits, crashes *)

\* An error while reading or changing library.json or the directory.  The error
\* handling of addLibrary removes the directory itself.
FailStorage(r) ==
  /\ "ioerror" \in env
  /\ \/ /\ job[r].pc \in {"list", "read", "rollback", "rm"}
        /\ End(r)
        /\ UNCHANGED disk
     \/ /\ job[r].pc \in {"updAccess", "updOpen", "updWrite", "clearList", "clear",
                          "checkMeta", "checkFiles"}
        /\ GoTo(r, "rollback")
        /\ UNCHANGED disk
     \/ /\ \/ job[r].pc = "inner" /\ HoldsInner(r)
           \/ job[r].pc \in {"addOpen", "addWrite"}
        /\ disk' = [disk EXCEPT ![Lib(r)] = NoDirectory]
        /\ End(r)
  /\ UNCHANGED <<copy, installs>>

\* A request that waits too long for a lock gives up; waiting for the inner one
\* it holds the outer one, which passes on.
GiveUp(r) ==
  /\ job' = [job EXCEPT ![r] = IdleJob]
  /\ \/ /\ WaitsOuter(r)
        /\ outer' \in LeaveQueue(outer, Lib(r), r)
        /\ UNCHANGED inner
     \/ /\ WaitsInner(r)
        /\ inner' \in LeaveQueue(inner, Lib(r), r)
        /\ outer' = PassOn(outer, r)
  /\ UNCHANGED <<disk, copy, installs>>

QueueTimeout(r) ==
  /\ "queueTimeout" \in env
  /\ GiveUp(r)

\* The time limit of the outer lock: the caller gets an error, but what runs
\* under the lock goes on and keeps the lock until it ends.
OuterLimit(r) ==
  /\ "occupation" \in env
  /\ job[r].pc # "idle"
  /\ ~job[r].late
  /\ \/ WaitsOuter(r) /\ GiveUp(r)
     \/ /\ ~WaitsOuter(r)
        /\ job' = [job EXCEPT ![r].late = TRUE]
        /\ UNCHANGED <<disk, outer, inner, copy, installs>>

AddingLibrary == {"inner", "addOpen", "addWrite", "copy", "checkMeta", "checkFiles",
                  "rollback", "rm", "rmdir"}

\* The time limit of the inner lock, which started later: installLibrary throws,
\* so what ran under the outer lock has ended and that lock passes on, while
\* what runs under the inner lock goes on.
InnerLimit(r) ==
  /\ "occupation" \in env
  /\ job[r].late
  /\ ~job[r].orphan
  /\ job[r].pc \in AddingLibrary
  /\ \/ /\ WaitsInner(r)
        /\ GiveUp(r)
     \/ /\ HoldsInner(r)
        /\ job' = [job EXCEPT ![r].orphan = TRUE]
        /\ outer' = PassOn(outer, r)
        /\ UNCHANGED <<disk, inner, copy, installs>>

\* Locks are in memory: after a restart they are free.
Crash ==
  /\ "crash" \in env
  /\ \E r \in Requests : job[r].pc # "idle" \/ Copying(r)
  /\ job' = [r \in Requests |-> IdleJob]
  /\ copy' = [r \in Requests |-> NoCopies]
  /\ outer' = [l \in Libraries |-> FreeLock]
  /\ inner' = [l \in Libraries |-> FreeLock]
  /\ UNCHANGED <<disk, installs>>

-----------------------------------------------------------------------------
CopyStep(r) ==
  \E f \in Files : CopyAccess(r, f) \/ CopyOpen(r, f) \/ CopyWrite(r, f) \/ FailToCopy(r, f)

\* One step of the code of a request.
InstallStep(r) ==
  \/ CheckInstalled(r) \/ ListVersions(r) \/ (\E l \in Libraries : ReadVersion(r, l))
  \/ DecidePatch(r)
  \/ AccessLibrary(r) \/ UpdateOpen(r) \/ UpdateWrite(r) \/ ListFiles(r) \/ ClearFiles(r)
  \/ MakeDirectory(r) \/ AddOpen(r) \/ AddWrite(r)
  \/ EndCopies(r) \/ CheckMetadata(r) \/ CheckFiles(r)
  \/ Rollback(r) \/ RemoveFiles(r) \/ RemoveDirectory(r) \/ FailStorage(r)

Next ==
  /\ UNCHANGED env
  /\ \/ \E r \in Requests :
          \/ \E p \in Packages : Begin(r, p)
          \/ InstallStep(r) \/ CopyStep(r)
          \/ QueueTimeout(r) \/ OuterLimit(r) \/ InnerLimit(r)
     \/ Crash

Spec == Init /\ [][Next]_vars

\* The event loop runs the continuation of every storage call that returned.
FairSpec ==
  /\ Spec
  /\ \A r \in Requests : /\ WF_vars(InstallStep(r) /\ UNCHANGED env)
                          /\ WF_vars(CopyStep(r) /\ UNCHANGED env)

-----------------------------------------------------------------------------
(* Properties *)

\* The request has begun to change the directory and has not ended; copies that outlive
\* it do not count, see Exclusive.
Changing(r) ==
  job[r].pc \in {"updAccess", "updOpen", "updWrite", "clearList", "clear", "addOpen",
                 "addWrite", "copy", "checkMeta", "checkFiles", "rollback", "rm", "rmdir"}

\* Nothing works on library l.
Quiet(l) ==
  \A r \in Requests : /\ job[r].pc # "idle" => Lib(r) # l
                      /\ Copying(r) => copy[r].pkg.lib # l

\* ILockProvider offers "locking a mechanism to prevent race conditions": unless the
\* time limit of a lock is exceeded, two requests never have the same library to change
\* at the same time.  While storage works nobody copies files into a library
\* somebody else changes, either; after a failed copy the others of its request do.
Exclusive ==
  "occupation" \notin env => \A r, q \in Requests : r # q =>
    /\ Changing(r) /\ Changing(q) => Lib(r) # Lib(q)
    /\ env \subseteq {"queueTimeout"} /\ Copying(r) /\ Changing(q) => copy[r].pkg.lib # Lib(q)

\* When nothing works on a library that is installed, its library.json is
\* complete and every file that lists is there, complete and of the same
\* version (updateLibrary removes the library otherwise).
InstalledIsComplete ==
  \A l \in Libraries : Quiet(l) /\ disk[l].json # "absent" =>
    /\ disk[l].json = "complete"
    /\ \A f \in disk[l].meta.needs :
         disk[l].file[f] = [state |-> "complete", from |-> disk[l].meta]

\* When nothing works on a library that is not installed, there is "no trace of
\* the library left" (LibraryManager.test.ts:73 and 269).
NoTraces ==
  \A l \in Libraries : Quiet(l) /\ disk[l].json = "absent" => disk[l] = NoDirectory

\* Installing never replaces a library.json by an older one, as
\* isPatchedLibrary is asked and the update made under one lock.
NoDowngrade ==
  []["occupation" \notin env => \A l \in Libraries :
       disk[l].meta # NoPackage /\ disk'[l].meta # NoPackage
         => disk'[l].meta.patch >= disk[l].meta.patch]_vars

\* A request that skips the installation because the library is installed finds
\* it complete, whichever request installed it.
SkippedIsComplete ==
  [][\A r \in Requests :
       job[r].pc = "read" /\ job[r].unread = {} /\ job'[r].pc = "idle" =>
         LET d == disk[Lib(r)] IN
         \A f \in d.meta.needs : d.file[f].state = "complete"]_vars

\* isPatchedLibrary answers (its doc: the old name, "undefined otherwise").
PatchCheckAnswers ==
  [][\A r \in Requests :
       job[r].pc = "read" /\ job[r].unread # {} => job'[r].pc = "read"]_vars

\* Every request comes to its end.
InstallTerminates == \A r \in Requests : job[r].pc # "idle" ~> job[r].pc = "idle"

\* Installations are atomic: while a request changes a library, the registry
\* shows what was installed before.
Shown(l) ==
  IF \E r \in Requests : Changing(r) /\ Lib(r) = l
  THEN job[CHOOSE r \in Requests : Changing(r) /\ Lib(r) = l].before
  ELSE disk[l].meta

Registry == INSTANCE LibraryRegistry WITH installed <- [l \in Libraries |-> Shown(l)]

\* LibraryInstall implements LibraryRegistry.
ImplementsRegistry == Registry!Spec

=============================================================================
