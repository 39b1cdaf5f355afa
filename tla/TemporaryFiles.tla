--------------------------- MODULE TemporaryFiles ---------------------------
(***************************************************************************)
(* The temporary files: TemporaryFileManager on top of                     *)
(* DirectoryTemporaryFileStorage.  A file is stored in two steps, as the   *)
(* file and as a .metadata companion that holds its time of expiry; the    *)
(* clean-up runs while users upload and delete files.                      *)
(*                                                                         *)
(* A user's files are in <user>/<media>, as H5PEditor names them, and both *)
(* directories are created and removed on the way.  Names are fresh.       *)
(***************************************************************************)
EXTENDS Naturals

CONSTANTS
  Users,
  Files,         \* file names, each given out once (FilenameGenerator)
  Requests,      \* requests of users that can be in flight
  Cleaner,       \* the timer of the host that calls cleanUp
  Nobody,        \* no user
  NoFile,        \* no file
  Environments   \* what may go wrong, see AllFreedoms

\* ioerror  the stream of an upload or a write to the directory may fail
\* crash    the process may crash and restart
AllFreedoms == {"ioerror", "crash"}

ASSUME TemporaryFilesAssumption ==
  /\ Cleaner \notin Requests
  /\ Nobody \notin Users
  /\ NoFile \notin Files
  /\ Environments \subseteq SUBSET AllFreedoms

VARIABLES
  depth,    \* depth[u]: how many of the directories <user>/<media> exist
  file,     \* file[f]: the file
  meta,     \* meta[f]: its .metadata companion
  owner,    \* owner[f]: the user it belongs to
  known,    \* the names addFile has returned
  old,      \* the files whose time of expiry has passed
  deleted,  \* the files their owners asked to delete
  job,      \* job[r]: the local state of request r
  clean,    \* the local state of cleanUp
  removal,  \* removal[a][f]: how far a is with the deletion of f
  env       \* what goes wrong in this behaviour, chosen once

vars == <<depth, file, meta, owner, known, old, deleted, job, clean, removal, env>>

Actors == Requests \cup {Cleaner}

FileState == {"absent", "partial", "complete"}

Job == [pc : {"idle", "mkUser", "mkMedia", "open", "write", "metaOpen", "metaWrite",
              "exists", "delete"},
        user : Users \cup {Nobody}, file : Files \cup {NoFile}]

IdleJob == [pc |-> "idle", user |-> Nobody, file |-> NoFile]

Clean == [pc : {"idle", "list", "delete"},
          users  : SUBSET Users,   \* directories not walked yet
          unread : SUBSET Files,   \* companions not read yet
          listed : SUBSET Files]

IdleClean == [pc |-> "idle", users |-> {}, unread |-> {}, listed |-> {}]

RemovalState == {"none", "rm", "rmMeta", "readMedia", "rmMedia", "readUser", "rmUser",
                 "done", "failed"}

TypeOK ==
  /\ depth \in [Users -> 0..2]
  /\ file \in [Files -> FileState]
  /\ meta \in [Files -> FileState]
  /\ owner \in [Files -> Users \cup {Nobody}]
  /\ known \subseteq Files
  /\ old \subseteq Files
  /\ deleted \subseteq Files
  /\ job \in [Requests -> Job]
  /\ clean \in Clean
  /\ removal \in [Actors -> [Files -> RemovalState]]

NoRemoval == [f \in Files |-> "none"]

Init ==
  /\ depth = [u \in Users |-> 0]
  /\ file = [f \in Files |-> "absent"]
  /\ meta = [f \in Files |-> "absent"]
  /\ owner = [f \in Files |-> Nobody]
  /\ known = {}
  /\ old = {}
  /\ deleted = {}
  /\ job = [r \in Requests |-> IdleJob]
  /\ clean = IdleClean
  /\ removal = [a \in Actors |-> NoRemoval]
  /\ env \in Environments

-----------------------------------------------------------------------------
(* addFile *)

\* A refused upload changes nothing.
BeginAdd(r, u, f) ==
  /\ job[r] = IdleJob
  /\ owner[f] = Nobody
  /\ owner' = [owner EXCEPT ![f] = u]
  /\ job' = [job EXCEPT ![r] = [pc |-> "mkUser", user |-> u, file |-> f]]
  /\ UNCHANGED <<depth, file, meta, known, old, deleted, clean, removal>>

MakeDirectories(r, pc, next, level) ==
  LET u == job[r].user IN
  /\ job[r].pc = pc
  /\ depth' = [depth EXCEPT ![u] = IF @ < level THEN level ELSE @]
  /\ job' = [job EXCEPT ![r].pc = next]
  /\ UNCHANGED <<file, meta, owner, known, old, deleted, clean, removal>>

MakeUserDirectory(r)  == MakeDirectories(r, "mkUser", "mkMedia", 1)
MakeMediaDirectory(r) == MakeDirectories(r, "mkMedia", "open", 2)

\* The request ends with an error, and nothing is undone.
Fail(r) ==
  /\ job' = [job EXCEPT ![r] = IdleJob]
  /\ UNCHANGED <<depth, file, meta, owner, known, old, deleted, clean, removal>>

OpenFile(r) ==
  /\ job[r].pc = "open"
  /\ depth[job[r].user] = 2
  /\ file' = [file EXCEPT ![job[r].file] = "partial"]
  /\ job' = [job EXCEPT ![r].pc = "write"]
  /\ UNCHANGED <<depth, meta, owner, known, old, deleted, clean, removal>>

WriteFile(r) ==
  /\ job[r].pc = "write"
  /\ file' = [file EXCEPT ![job[r].file] = "complete"]
  /\ job' = [job EXCEPT ![r].pc = "metaOpen"]
  /\ UNCHANGED <<depth, meta, owner, known, old, deleted, clean, removal>>

OpenMetadata(r) ==
  /\ job[r].pc = "metaOpen"
  /\ meta' = [meta EXCEPT ![job[r].file] = "partial"]
  /\ job' = [job EXCEPT ![r].pc = "metaWrite"]
  /\ UNCHANGED <<depth, file, owner, known, old, deleted, clean, removal>>

\* The name is returned to the client.
WriteMetadata(r) ==
  /\ job[r].pc = "metaWrite"
  /\ meta' = [meta EXCEPT ![job[r].file] = "complete"]
  /\ known' = known \cup {job[r].file}
  /\ job' = [job EXCEPT ![r] = IdleJob]
  /\ UNCHANGED <<depth, file, owner, old, deleted, clean, removal>>

\* The directory may have been removed since it was created.
FailToAdd(r) ==
  /\ \/ job[r].pc = "open" /\ depth[job[r].user] < 2
     \/ "ioerror" \in env /\ job[r].pc \in {"open", "write", "metaOpen", "metaWrite"}
  /\ Fail(r)

Expire(f) ==
  /\ owner[f] # Nobody
  /\ f \notin old
  /\ old' = old \cup {f}
  /\ UNCHANGED <<depth, file, meta, owner, known, deleted, job, clean, removal>>

-----------------------------------------------------------------------------
(* deleteFile of the manager *)

BeginDelete(r, f) ==
  /\ job[r] = IdleJob
  /\ removal[r] = NoRemoval
  /\ f \in known
  /\ deleted' = deleted \cup {f}
  /\ job' = [job EXCEPT ![r] = [pc |-> "exists", user |-> owner[f], file |-> f]]
  /\ UNCHANGED <<depth, file, meta, owner, known, old, clean, removal>>

CheckExists(r) ==
  LET f == job[r].file IN
  /\ job[r].pc = "exists"
  /\ IF file[f] # "absent"
     THEN /\ job' = [job EXCEPT ![r].pc = "delete"]
          /\ removal' = [removal EXCEPT ![r][f] = "rm"]
     ELSE /\ job' = [job EXCEPT ![r] = IdleJob]
          /\ UNCHANGED removal
  /\ UNCHANGED <<depth, file, meta, owner, known, old, deleted, clean>>

EndDelete(r) ==
  /\ job[r].pc = "delete"
  /\ removal[r][job[r].file] \in {"done", "failed"}
  /\ removal' = [removal EXCEPT ![r] = NoRemoval]
  /\ job' = [job EXCEPT ![r] = IdleJob]
  /\ UNCHANGED <<depth, file, meta, owner, known, old, deleted, clean>>

-----------------------------------------------------------------------------
(* deleteFile of the storage, on behalf of a request or of the clean-up *)

Goes(a, f, state) == removal' = [removal EXCEPT ![a][f] = state]

RemoveFile(a, f) ==
  /\ removal[a][f] = "rm"
  /\ IF file[f] # "absent"
     THEN file' = [file EXCEPT ![f] = "absent"] /\ Goes(a, f, "rmMeta")
     ELSE UNCHANGED file /\ Goes(a, f, "failed")
  /\ UNCHANGED <<depth, meta, owner, known, old, deleted, job, clean>>

\* Mutant: the companion is forgotten.
KeepMetadata(a, f) ==
  /\ removal[a][f] = "rmMeta"
  /\ Goes(a, f, "readMedia")
  /\ UNCHANGED <<depth, file, meta, owner, known, old, deleted, job, clean>>

RemoveMetadata(a, f) ==
  /\ removal[a][f] = "rmMeta"
  /\ IF meta[f] # "absent"
     THEN meta' = [meta EXCEPT ![f] = "absent"] /\ Goes(a, f, "readMedia")
     ELSE UNCHANGED meta /\ Goes(a, f, "failed")
  /\ UNCHANGED <<depth, file, owner, known, old, deleted, job, clean>>

\* The entries of a directory: of the user's, the media directory; of that, the
\* files and companions.
Empty(u, level) ==
  IF level = 1 THEN depth[u] = 1
  ELSE \A f \in Files : owner[f] = u => file[f] = "absent" /\ meta[f] = "absent"

\* deleteEmptyDirectory reads a directory, which must exist ...
ReadDirectory(a, f, pc, level, remove, next) ==
  /\ removal[a][f] = pc
  /\ Goes(a, f, IF depth[owner[f]] < level THEN "failed"
                ELSE IF Empty(owner[f], level) THEN remove ELSE next)
  /\ UNCHANGED <<depth, file, meta, owner, known, old, deleted, job, clean>>

\* ... and removes it if it was empty, which fails if it is not anymore.
RemoveDirectory(a, f, pc, level, next) ==
  LET u == owner[f] IN
  /\ removal[a][f] = pc
  /\ IF depth[u] = level /\ Empty(u, level)
     THEN depth' = [depth EXCEPT ![u] = level - 1] /\ Goes(a, f, next)
     ELSE UNCHANGED depth /\ Goes(a, f, "failed")
  /\ UNCHANGED <<file, meta, owner, known, old, deleted, job, clean>>

RemovalStep(a, f) ==
  \/ RemoveFile(a, f)
  \/ RemoveMetadata(a, f)
  \/ ReadDirectory(a, f, "readMedia", 2, "rmMedia", "readUser")
  \/ RemoveDirectory(a, f, "rmMedia", 2, "readUser")
  \/ ReadDirectory(a, f, "readUser", 1, "rmUser", "done")
  \/ RemoveDirectory(a, f, "rmUser", 1, "done")

-----------------------------------------------------------------------------
(* cleanUp *)

Removing(a) == \E f \in Files : removal[a][f] \notin {"none", "done", "failed"}

\* listFiles reads the names of the user directories.  The host waits longer
\* between two clean-ups than the deletions of one take.
BeginCleanUp ==
  /\ clean = IdleClean
  /\ ~Removing(Cleaner)
  /\ clean' = [IdleClean EXCEPT !.pc = "list", !.users = {u \in Users : depth[u] > 0}]
  /\ removal' = [removal EXCEPT ![Cleaner] = NoRemoval]
  /\ UNCHANGED <<depth, file, meta, owner, known, old, deleted, job>>

FilesOf(u) == {f \in Files : owner[f] = u /\ file[f] # "absent"}

\* Each is walked, all at the same time; one that is gone is an error.
WalkDirectory(u) ==
  /\ clean.pc = "list"
  /\ u \in clean.users
  /\ clean' = IF depth[u] = 0 THEN IdleClean
              ELSE [clean EXCEPT !.users = @ \ {u}, !.unread = @ \cup FilesOf(u)]
  /\ UNCHANGED <<depth, file, meta, owner, known, old, deleted, job, removal>>

\* Mutant: a companion that cannot be read is tolerated, and an undefined entry
\* stays in the list.
ReadMetadataOrUndefined(f) ==
  /\ clean.pc = "list"
  /\ f \in clean.unread
  /\ clean' = [clean EXCEPT !.unread = @ \ {f},
                            !.listed = @ \cup {IF meta[f] = "complete" THEN f ELSE NoFile}]
  /\ UNCHANGED <<depth, file, meta, owner, known, old, deleted, job, removal>>

\* The companion of every file is read and must parse.
ReadMetadata(f) ==
  /\ clean.pc = "list"
  /\ f \in clean.unread
  /\ clean' = IF meta[f] # "complete" THEN IdleClean
              ELSE [clean EXCEPT !.unread = @ \ {f}, !.listed = @ \cup {f}]
  /\ UNCHANGED <<depth, file, meta, owner, known, old, deleted, job, removal>>

SelectFresh(S) == S \ old  \* mutant: the comparison is the wrong way round
Expired(S) == S \cap old

\* The expired files are deleted, all at the same time.
SelectExpired ==
  /\ clean.pc = "list"
  /\ clean.users = {}
  /\ clean.unread = {}
  /\ clean' = [IdleClean EXCEPT !.pc = "delete"]
  /\ removal' = [removal EXCEPT ![Cleaner] =
       [f \in Files |-> IF f \in Expired(clean.listed) THEN "rm" ELSE "none"]]
  /\ UNCHANGED <<depth, file, meta, owner, known, old, deleted, job>>

\* Promise.all ends with the first failed deletion; the others go on.
EndCleanUp ==
  /\ clean.pc = "delete"
  /\ ~Removing(Cleaner) \/ \E f \in Files : removal[Cleaner][f] = "failed"
  /\ clean' = IdleClean
  /\ UNCHANGED <<depth, file, meta, owner, known, old, deleted, job, removal>>

Crash ==
  /\ "crash" \in env
  /\ job' = [r \in Requests |-> IdleJob]
  /\ clean' = IdleClean
  /\ removal' = [a \in Actors |-> NoRemoval]
  /\ UNCHANGED <<depth, file, meta, owner, known, old, deleted>>

-----------------------------------------------------------------------------
AddStep(r) ==
  \/ MakeUserDirectory(r) \/ MakeMediaDirectory(r) \/ OpenFile(r) \/ WriteFile(r)
  \/ OpenMetadata(r) \/ WriteMetadata(r) \/ FailToAdd(r)

RequestStep(r) == AddStep(r) \/ CheckExists(r) \/ EndDelete(r)

CleanUpStep ==
  \/ BeginCleanUp
  \/ \E u \in Users : WalkDirectory(u)
  \/ \E f \in Files : ReadMetadata(f)
  \/ SelectExpired \/ EndCleanUp

Next ==
  /\ UNCHANGED env
  /\ \/ \E r \in Requests :
          \/ \E u \in Users, f \in Files : BeginAdd(r, u, f)
          \/ \E f \in Files : BeginDelete(r, f)
          \/ RequestStep(r)
     \/ \E a \in Actors, f \in Files : RemovalStep(a, f)
     \/ CleanUpStep
     \/ \E f \in Files : Expire(f)
     \/ Crash

Spec == Init /\ [][Next]_vars

\* Storage calls return, and the host calls cleanUp again and again: the package
\* leaves that to a timer of the host.  There are finitely many names, so uploads
\* pause some time.
FairSpec ==
  /\ Spec
  /\ \A r \in Requests : WF_vars(RequestStep(r) /\ UNCHANGED env)
  /\ \A a \in Actors, f \in Files : WF_vars(RemovalStep(a, f) /\ UNCHANGED env)
  /\ WF_vars(CleanUpStep /\ UNCHANGED env)

-----------------------------------------------------------------------------
(* Properties *)

Storage == INSTANCE TemporaryStorage WITH
  stored  <- {f \in Files : file[f] = "complete"},
  gone    <- {f \in known : file[f] = "absent"},
  expired <- old

\* A file stays until it expired or its owner deletes it, and does not come back
\* (cleanUp: "Removes temporary files that have expired").
ImplementsTemporaryStorage == Storage!Spec

\* While nothing runs, every file has its companion and every companion its file,
\* unless a write failed or the process crashed ("companion '.metadata' files for
\* every file stored", DirectoryTemporaryFileStorage.ts:24-28).
Paired ==
  /\ env = {}
  /\ \A r \in Requests : job[r] = IdleJob
  /\ \A a \in Actors : ~Removing(a)
  => \A f \in Files : file[f] = meta[f] /\ file[f] # "partial"

\* An expired file is removed some time, whatever uploads and deletions run into
\* each other, and however often a clean-up fails because of them.  A crash or a
\* failed upload ends this for the files of all users: the companion that is
\* missing makes every later cleanUp fail.
ExpiredFilesGo ==
  env = {} => \A f \in Files : f \in old /\ file[f] = "complete" ~> file[f] = "absent"

=============================================================================
