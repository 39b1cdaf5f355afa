---------------------------- MODULE PackageServer ----------------------------
(***************************************************************************)
(* Packages on the server: PackageImporter unpacks an uploaded package,    *)
(* installs its libraries and copies its content into storage,             *)
(* PackageExporter builds one, and LibraryAdministration deletes libraries *)
(* nothing uses.  The three share the libraries and the contents, and none *)
(* of them holds a lock for the length of a request.                       *)
(*                                                                         *)
(* The installation of one library is its beginning, when library.json is  *)
(* written, and its end here, see LibraryInstall; the creation of a        *)
(* content is one step, see ContentSave.                                   *)
(***************************************************************************)
CONSTANTS
  Libraries, Contents, Files,
  Preloaded, Editor, Dynamic,  \* the dependencies of each library
  Packages,      \* the packages users upload
  Requests,      \* the requests, each is made once
  NoLibrary, NoContent,
  NoPackage,     \* nothing was exported yet
  Environments   \* what may happen, see AllFreedoms

\* deleteLibrary  libraries may be deleted while other requests run
\* sameContent    requests on one content may overlap
\* ioerror        a step of one of the requests may fail
\* undoFails      the content of a failed import cannot be deleted: the user may not,
\*                or the storage fails
\* crash          the process may stop
AllFreedoms == {"deleteLibrary", "sameContent", "ioerror", "undoFails", "crash"}

\* The dependencies named by h5p.json.
Needs == [preloaded : SUBSET Libraries, editor : SUBSET Libraries, dynamic : SUBSET Libraries]

\* libs are the library directories of a package, refs the files its parameters
\* refer to; a package that is not valid is refused by PackageValidator.
Package == [libs : SUBSET Libraries, main : Libraries \cup {NoLibrary}, needs : Needs,
            files : SUBSET Files, refs : SUBSET Files, valid : BOOLEAN]

ASSUME PackageServerAssumption ==
  /\ {Preloaded, Editor, Dynamic} \subseteq [Libraries -> SUBSET Libraries]
  /\ Packages \subseteq Package
  /\ NoContent \notin Contents
  /\ Environments \subseteq SUBSET AllFreedoms

VARIABLES
  installed,  \* the libraries whose directory has its library.json
  lost,       \* those whose last installation or removal has failed or was interrupted
  content,    \* content[c]: the directory of content c
  temporary,  \* temporary[r]: the temporary files request r has stored
  dirs,       \* requests whose unpacked package is on disk
  exported,   \* the package exported last, and the libraries nothing happened to meanwhile
  job,        \* job[r]: the local state of request r
  env         \* what happens in this behaviour, chosen once

vars == <<installed, lost, content, temporary, dirs, exported, job, env>>

AllNeeds(needs) == needs.preloaded \cup needs.editor \cup needs.dynamic
NoNeeds == [preloaded |-> {}, editor |-> {}, dynamic |-> {}]

\* there: the directory exists; known: it has its h5p.json and content.json
Directory == [there : BOOLEAN, known : BOOLEAN, main : Libraries \cup {NoLibrary},
              needs : Needs, refs : SUBSET Files, files : SUBSET Files]
NoDirectory == [there |-> FALSE, known |-> FALSE, main |-> NoLibrary, needs |-> NoNeeds,
                refs |-> {}, files |-> {}]

EmptyPackage == [libs |-> {}, main |-> NoLibrary, needs |-> NoNeeds, files |-> {},
                 refs |-> {}, valid |-> TRUE]

Import == {"extract", "validate", "install", "list", "required", "create", "files", "undo",
           "temporary", "clean"}
Export == {"parameters", "metadata", "scan", "listFiles", "addFiles", "resolve", "addLibraries"}
Deletion == {"contents", "usage", "libraries", "dependents", "delete"}

Job == [pc : {"new", "done"} \cup Import \cup Export \cup Deletion,
        pkg     : Package,             \* imported, or being built
        mode    : {"Install", "Temporary", "NoCopy"},
        install : BOOLEAN,             \* libraries are installed
        content : Contents \cup {NoContent},
        isNew   : BOOLEAN,             \* the content was created by the request
        kept    : BOOLEAN,             \* it could not be deleted again
        lib     : Libraries \cup {NoLibrary},  \* to be deleted
        libs    : SUBSET Libraries,    \* to be installed, or still to be looked at
        changing : SUBSET Libraries,   \* being installed under their locks
        seen    : SUBSET Libraries,    \* those a listing or a resolution has found
        steady  : SUBSET Libraries,    \* those an export has always found installed
        files   : SUBSET Files,        \* still to be copied
        open    : SUBSET Files,        \* to be written next
        ids     : SUBSET Contents,     \* contents still to be looked at
        used    : BOOLEAN,
        failed  : BOOLEAN,             \* a step has failed
        ok      : BOOLEAN]             \* the answer is no error

NewJob == [pc |-> "new", pkg |-> EmptyPackage, mode |-> "NoCopy", install |-> FALSE,
           content |-> NoContent, isNew |-> FALSE, kept |-> FALSE, lib |-> NoLibrary,
           libs |-> {}, changing |-> {}, seen |-> {}, steady |-> {}, files |-> {}, open |-> {}, ids |-> {}, used |-> FALSE, failed |-> FALSE,
           ok |-> FALSE]

TypeOK ==
  /\ installed \subseteq Libraries /\ lost \subseteq Libraries
  /\ content \in [Contents -> Directory]
  /\ \A c \in Contents : content[c].known => content[c].there
  /\ temporary \in [Requests -> SUBSET Files]
  /\ dirs \subseteq Requests
  /\ job \in [Requests -> Job]
  /\ env \in Environments

\* The directory of a content that was imported from p.
Imported(p) == [there |-> TRUE, known |-> TRUE, main |-> p.main, needs |-> p.needs,
                refs |-> p.refs, files |-> p.files]

\* The server is new, or one package has been imported.
Init ==
  /\ \/ installed = {} /\ content = [c \in Contents |-> NoDirectory]
     \/ \E p \in Packages, c \in Contents :
          /\ p.valid /\ AllNeeds(p.needs) \subseteq p.libs
          /\ installed = p.libs
          /\ content = [[d \in Contents |-> NoDirectory] EXCEPT ![c] = Imported(p)]
  /\ lost = {}
  /\ temporary = [r \in Requests |-> {}]
  /\ dirs = {}
  /\ exported = NoPackage
  /\ job = [r \in Requests |-> NewJob]
  /\ env \in Environments

-----------------------------------------------------------------------------
At(r, pc) == job[r].pc = pc
Runs(r) == job[r].pc \notin {"new", "done"}
Deletes(r) == job[r].pc \in Deletion

\* Copies and installations of r are to be made or being made.
Works(r) == job[r].libs \cup job[r].changing # {} \/ job[r].files \cup job[r].open # {}

\* The request of r takes a step.
Becomes(r, new) == job' = [job EXCEPT ![r] = new]
Goto(r, pc) == Becomes(r, [job[r] EXCEPT !.pc = pc])

\* The request is answered.  Copies and installations that still run are all that is
\* left of it.
Answer(r) ==
  Becomes(r, [IF Works(r) /\ job[r].pc \in Import THEN job[r] ELSE NewJob EXCEPT !.pc = "done"])

\* The libraries requests are installing, and all that directories without a readable
\* library.json may be of: a request that lists the libraries fails on one, see
\* lib_sideBySide.
Changing == UNION {job[q].changing : q \in Requests}
InFlux ==
  UNION {job[q].libs \cup job[q].changing : q \in {q \in Requests : job[q].install}}
    \cup {job[q].lib : q \in {q \in Requests : At(q, "delete")}} \cup lost

\* r goes on as new, and no other request has found l as it was all the time.
Disturbs(r, new, l) ==
  job' = [q \in Requests |-> IF q = r THEN new ELSE [job[q] EXCEPT !.steady = @ \ {l}]]

\* The storage fails; once is enough.
StorageFails == "ioerror" \in env /\ \A q \in Requests : ~job[q].failed

\* Loops over a list take its members in some order.
First(set) == CHOOSE e \in set : TRUE

Begin(r, new) ==
  /\ "deleteLibrary" \in env \/ IF new.pc \in Deletion THEN \A q \in Requests : ~Runs(q) /\ ~Works(q)
                                ELSE \A q \in Requests : ~Deletes(q)
  /\ "sameContent" \in env \/ \A q \in Requests : Runs(q) /\ new.content # NoContent =>
                                                  job[q].content # new.content
  /\ Becomes(r, new)

-----------------------------------------------------------------------------
(* Import.  Files that are too large are refused before the directory is made. *)

BeginImport(r, p, mode, install, c) ==
  /\ mode = "NoCopy" => install
  /\ c # NoContent => mode = "Install" /\ content[c].known
  /\ Begin(r, [NewJob EXCEPT !.pc = "extract", !.pkg = p, !.mode = mode, !.install = install,
                             !.content = c])
  /\ dirs' = dirs \cup {r}
  /\ UNCHANGED <<installed, lost, content, temporary, exported>>

Extract(r) ==
  /\ At(r, "extract")
  /\ Goto(r, "validate")
  /\ UNCHANGED <<installed, lost, content, temporary, dirs, exported>>

\* All libraries are installed at the same time.
Validate(r) ==
  LET p == job[r].pkg IN
  /\ At(r, "validate")
  /\ Becomes(r, IF ~p.valid THEN [job[r] EXCEPT !.pc = "clean"]
                ELSE IF job[r].install
                THEN [job[r] EXCEPT !.pc = "install", !.libs = p.libs]
                ELSE [job[r] EXCEPT !.pc = "list"])
  /\ UNCHANGED <<installed, lost, content, temporary, dirs, exported>>

\* Each is installed under its lock.
LockIsFree(r, l) == \A q \in Requests \ {r} : l \notin job[q].changing

SkipLibrary(r, l) ==
  /\ l \in job[r].libs /\ job[r].install /\ LockIsFree(r, l)
  /\ l \in installed
  /\ Becomes(r, [job[r] EXCEPT !.libs = @ \ {l}])
  /\ UNCHANGED <<installed, lost, content, temporary, dirs, exported>>

\* It is new, or a newer patch of an installed one.  From here on it counts as installed.
BeginInstall(r, l) ==
  /\ l \in job[r].libs /\ job[r].install /\ LockIsFree(r, l)
  /\ installed' = installed \cup {l}
  /\ lost' = lost \ {l}
  /\ Disturbs(r, [job[r] EXCEPT !.libs = @ \ {l}, !.changing = @ \cup {l}], l)
  /\ UNCHANGED <<content, temporary, dirs, exported>>

\* All its files are copied; the directory they came from may be gone by now.
CompleteInstall(r, l) ==
  /\ l \in job[r].changing \cap installed
  /\ Becomes(r, [job[r] EXCEPT !.changing = @ \ {l}])
  /\ UNCHANGED <<installed, lost, content, temporary, dirs, exported>>

\* One installation that fails ends the import; the others go on.
WithoutInstall(r, l) ==
  [job[r] EXCEPT !.libs = @ \ {l}, !.changing = @ \ {l}, !.failed = TRUE,
                 !.pc = IF @ = "install" THEN "clean" ELSE @]

\* Its library.json cannot be read, another version of it is half written, or the
\* lock is not free in time.
FailToBegin(r, l) ==
  /\ l \in job[r].libs /\ job[r].install
  /\ r \notin dirs \/ InFlux \ {l} # {} \/ ~LockIsFree(r, l) \/ StorageFails
  /\ Becomes(r, WithoutInstall(r, l))
  /\ UNCHANGED <<installed, lost, content, temporary, dirs, exported>>

\* A new library is rolled back, and one that should be updated is removed, too; the
\* removal can fail in turn.
FailToInstall(r, l) ==
  /\ l \in job[r].changing
  /\ r \notin dirs \/ l \notin installed \/ StorageFails
  /\ installed' = installed \ {l} \/ ("ioerror" \in env /\ installed' = installed)
  /\ lost' = lost \cup {l}
  /\ Disturbs(r, WithoutInstall(r, l), l)
  /\ UNCHANGED <<content, temporary, dirs, exported>>

EndInstalls(r) ==
  /\ At(r, "install") /\ job[r].libs = {} /\ job[r].changing = {}
  /\ Becomes(r, IF job[r].mode = "NoCopy" THEN [job[r] EXCEPT !.pc = "clean", !.ok = TRUE]
                ELSE [job[r] EXCEPT !.pc = "list"])
  /\ UNCHANGED <<installed, lost, content, temporary, dirs, exported>>

\* The names of the installed libraries are listed, then their library.json is
\* read; one that is gone by then makes the request fail.
ListInstalled(r) ==
  /\ At(r, "list")
  /\ Becomes(r, [job[r] EXCEPT !.pc = "required", !.seen = installed])
  /\ UNCHANGED <<installed, lost, content, temporary, dirs, exported>>

\* Mutant: only the preloaded dependencies are required.
RequiredPreloaded(needs) == needs.preloaded

Required(needs) == AllNeeds(needs)

CheckRequired(r) ==
  LET p == job[r].pkg IN
  /\ At(r, "required")
  /\ Becomes(r, IF job[r].seen \subseteq installed /\ Required(p.needs) \subseteq job[r].seen
                THEN IF job[r].mode = "Install" THEN [job[r] EXCEPT !.pc = "create"]
                     ELSE [job[r] EXCEPT !.pc = "temporary", !.files = p.refs]
                ELSE [job[r] EXCEPT !.pc = "clean"])
  /\ UNCHANGED <<installed, lost, content, temporary, dirs, exported>>

\* A new content takes an id that is free; it is drawn from so many that it is none a
\* request has just used.
CreateContent(r, c) ==
  LET p == job[r].pkg IN
  /\ At(r, "create")
  /\ \/ c = job[r].content
     \/ /\ job[r].content = NoContent
        /\ ~content[c].there /\ \A q \in Requests : job[q].content # c
  /\ content' = [content EXCEPT ![c] = [@ EXCEPT !.there = TRUE, !.known = TRUE,
                   !.main = p.main, !.needs = p.needs, !.refs = p.refs]]
  /\ Becomes(r, [job[r] EXCEPT !.pc = "files", !.files = p.files, !.content = c,
                               !.isNew = job[r].content = NoContent])
  /\ UNCHANGED <<installed, lost, temporary, dirs, exported>>

\* All files are copied at the same time: each looks whether the content exists ...
OpenFile(r, f) ==
  LET c == job[r].content IN
  /\ job[r].mode = "Install" /\ f \in job[r].files /\ content[c].there
  /\ Becomes(r, [job[r] EXCEPT !.files = @ \ {f}, !.open = @ \cup {f}])
  /\ UNCHANGED <<installed, lost, content, temporary, dirs, exported>>

\* ... and then makes the directories it needs.
WriteFile(r, f) ==
  LET c == job[r].content IN
  /\ f \in job[r].open
  /\ content' = [content EXCEPT ![c].there = TRUE, ![c].files = @ \cup {f}]
  /\ Becomes(r, [job[r] EXCEPT !.open = @ \ {f}])
  /\ UNCHANGED <<installed, lost, temporary, dirs, exported>>

FailToCopy(r, f) ==
  /\ job[r].mode = "Install" /\ f \in job[r].files \cup job[r].open
  /\ \/ ~content[job[r].content].there
     \/ r \notin dirs
     \/ StorageFails
  /\ Becomes(r, [job[r] EXCEPT !.files = @ \ {f}, !.open = @ \ {f}, !.failed = TRUE,
                               !.pc = IF @ = "files" THEN "undo" ELSE @])
  /\ UNCHANGED <<installed, lost, content, temporary, dirs, exported>>

EndFiles(r) ==
  /\ At(r, "files") /\ job[r].files = {} /\ job[r].open = {}
  /\ Becomes(r, [job[r] EXCEPT !.pc = "clean", !.ok = TRUE])
  /\ UNCHANGED <<installed, lost, content, temporary, dirs, exported>>

\* Mutant: the content stays.
UndoNothing(r) ==
  /\ At(r, "undo")
  /\ Goto(r, "clean")
  /\ UNCHANGED <<installed, lost, content, temporary, dirs, exported>>

\* The content is deleted again, even one that existed before.
Undo(r) ==
  /\ At(r, "undo")
  /\ content' = [content EXCEPT ![job[r].content] = NoDirectory]
  /\ Goto(r, "clean")
  /\ UNCHANGED <<installed, lost, temporary, dirs, exported>>

\* The user may not delete it, or only a part of it goes.
FailToUndo(r) ==
  /\ At(r, "undo") /\ "undoFails" \in env
  /\ \/ UNCHANGED content
     \/ content' = [content EXCEPT ![job[r].content].known = FALSE]
  /\ Becomes(r, [job[r] EXCEPT !.pc = "clean", !.kept = TRUE])
  /\ UNCHANGED <<installed, lost, temporary, dirs, exported>>

\* One reference after the other: a file of the package becomes a temporary file,
\* a reference to no file is emptied.
CopyToTemporary(r, f) ==
  /\ At(r, "temporary") /\ job[r].files # {} /\ f = First(job[r].files)
  /\ temporary' = [temporary EXCEPT ![r] = IF f \in job[r].pkg.files THEN @ \cup {f} ELSE @]
  /\ Becomes(r, [job[r] EXCEPT !.files = @ \ {f},
                               !.pkg.refs = IF f \in job[r].pkg.files THEN @ ELSE @ \ {f}])
  /\ UNCHANGED <<installed, lost, content, dirs, exported>>

EndTemporary(r) ==
  /\ At(r, "temporary") /\ job[r].files = {}
  /\ Becomes(r, [job[r] EXCEPT !.pc = "clean", !.ok = TRUE])
  /\ UNCHANGED <<installed, lost, content, temporary, dirs, exported>>

\* Reading the package, storing the content or a temporary file fails, or malware
\* is found.  addContent removes the content it fails to write, one that existed, too.
FailToImport(r) ==
  /\ job[r].pc \in {"extract", "validate", "list", "required", "create", "temporary"}
  /\ StorageFails
  /\ \/ UNCHANGED content
     \/ /\ At(r, "create") /\ job[r].content # NoContent
        /\ content' = [content EXCEPT ![job[r].content] = NoDirectory]
  /\ Becomes(r, [job[r] EXCEPT !.pc = "clean", !.failed = TRUE, !.files = {}])
  /\ UNCHANGED <<installed, lost, temporary, dirs, exported>>

\* The validator and the check of the requirements list the libraries.
FailToList(r) ==
  /\ job[r].pc \in {"validate", "list", "required"} /\ InFlux # {}
  /\ Goto(r, "clean")
  /\ UNCHANGED <<installed, lost, content, temporary, dirs, exported>>

\* Mutant: the directory is removed after a success only.
CleanAfterSuccess(r) ==
  /\ At(r, "clean")
  /\ dirs' = IF job[r].ok THEN dirs \ {r} ELSE dirs
  /\ Answer(r)
  /\ UNCHANGED <<installed, lost, content, temporary, exported>>

Clean(r) ==
  /\ At(r, "clean")
  /\ dirs' = dirs \ {r}
  /\ Answer(r)
  /\ UNCHANGED <<installed, lost, content, temporary, exported>>

-----------------------------------------------------------------------------
(* Export *)

BeginExport(r, c) ==
  /\ content[c].there
  /\ Begin(r, [NewJob EXCEPT !.pc = "parameters", !.content = c,
                             !.steady = installed \ Changing])
  /\ UNCHANGED <<installed, lost, content, temporary, dirs, exported>>

ReadParameters(r) ==
  LET d == content[job[r].content] IN
  /\ At(r, "parameters")
  /\ IF d.known THEN Becomes(r, [job[r] EXCEPT !.pc = "metadata", !.pkg.refs = d.refs])
     ELSE Answer(r)
  /\ UNCHANGED <<installed, lost, content, temporary, dirs, exported>>

ReadMetadata(r) ==
  LET d == content[job[r].content] IN
  /\ At(r, "metadata")
  /\ IF d.known THEN Becomes(r, [job[r] EXCEPT !.pc = "scan", !.pkg.needs = d.needs,
                                               !.pkg.main = d.main])
     ELSE Answer(r)
  /\ UNCHANGED <<installed, lost, content, temporary, dirs, exported>>

\* Looking for long file names needs the semantics of the main library.
ScanFiles(r) ==
  /\ At(r, "scan")
  /\ IF job[r].pkg.main \in installed THEN Goto(r, "listFiles") ELSE Answer(r)
  /\ UNCHANGED <<installed, lost, content, temporary, dirs, exported>>

ListContentFiles(r) ==
  LET d == content[job[r].content] IN
  /\ At(r, "listFiles")
  /\ IF d.there THEN Becomes(r, [job[r] EXCEPT !.pc = "addFiles", !.files = d.files])
     ELSE Answer(r)
  /\ UNCHANGED <<installed, lost, content, temporary, dirs, exported>>

AddContentFile(r, f) ==
  /\ At(r, "addFiles") /\ job[r].files # {} /\ f = First(job[r].files)
  /\ IF f \in content[job[r].content].files
     THEN Becomes(r, [job[r] EXCEPT !.files = @ \ {f}, !.pkg.files = @ \cup {f}])
     ELSE Answer(r)
  /\ UNCHANGED <<installed, lost, content, temporary, dirs, exported>>

AddLibraryFiles(r) ==
  /\ At(r, "addFiles") /\ job[r].files = {}
  /\ Becomes(r, [job[r] EXCEPT !.pc = "resolve", !.libs = AllNeeds(job[r].pkg.needs)])
  /\ UNCHANGED <<installed, lost, content, temporary, dirs, exported>>

\* Mutant: the preloaded dependencies only.
FollowedPreloaded(l) == Preloaded[l]

Followed(l) == Preloaded[l] \cup Editor[l]

\* DependencyGetter looks at one library after the other and ignores those it cannot
\* read as if they were missing.
Resolve(r, l) ==
  /\ At(r, "resolve") /\ job[r].libs # {} /\ l = First(job[r].libs)
  /\ \/ /\ l \in installed
        /\ Becomes(r, [job[r] EXCEPT !.libs = (@ \cup Followed(l)) \ (job[r].seen \cup {l}),
                                     !.seen = @ \cup {l}])
     \/ /\ l \notin installed \/ l \in Changing \/ "ioerror" \in env
        /\ Becomes(r, [job[r] EXCEPT !.libs = @ \ {l}, !.steady = @ \ {l}])
  /\ UNCHANGED <<installed, lost, content, temporary, dirs, exported>>

EndResolve(r) ==
  /\ At(r, "resolve") /\ job[r].libs = {}
  /\ Becomes(r, [job[r] EXCEPT !.pc = "addLibraries", !.libs = job[r].seen])
  /\ UNCHANGED <<installed, lost, content, temporary, dirs, exported>>

AddLibrary(r, l) ==
  /\ At(r, "addLibraries") /\ job[r].libs # {} /\ l = First(job[r].libs)
  /\ IF l \in installed
     THEN Becomes(r, [job[r] EXCEPT !.libs = @ \ {l}, !.pkg.libs = @ \cup {l}])
     ELSE Answer(r)
  /\ UNCHANGED <<installed, lost, content, temporary, dirs, exported>>

EndExport(r) ==
  /\ At(r, "addLibraries") /\ job[r].libs = {}
  /\ exported' = [pkg |-> job[r].pkg, steady |-> job[r].steady]
  /\ Answer(r)
  /\ UNCHANGED <<installed, lost, content, temporary, dirs>>

\* The libraries are read for the file names and copied into the package.
FailToExport(r) ==
  /\ job[r].pc \in Export \ {"resolve"}
  /\ "ioerror" \in env \/ (job[r].pc \in {"scan", "addLibraries"} /\ Changing # {})
  /\ Answer(r)
  /\ UNCHANGED <<installed, lost, content, temporary, dirs, exported>>

-----------------------------------------------------------------------------
(* Deletion *)

DeleteContent(r, c) ==
  /\ content[c].there
  /\ Begin(r, [NewJob EXCEPT !.pc = "done", !.content = c])
  /\ content' = [content EXCEPT ![c] = NoDirectory]
  /\ UNCHANGED <<installed, lost, temporary, dirs, exported>>

BeginDeleteLibrary(r, l) ==
  /\ l \in installed
  /\ Begin(r, [NewJob EXCEPT !.pc = "contents", !.lib = l])
  /\ UNCHANGED <<installed, lost, content, temporary, dirs, exported>>

ListContents(r) ==
  /\ At(r, "contents")
  /\ Becomes(r, [job[r] EXCEPT !.pc = "usage", !.ids = {c \in Contents : content[c].known}])
  /\ UNCHANGED <<installed, lost, content, temporary, dirs, exported>>

HasDependencyOn(c, l) == l \in AllNeeds(content[c].needs)

ReadUsage(r, c) ==
  /\ At(r, "usage") /\ job[r].ids # {} /\ c = First(job[r].ids)
  /\ IF content[c].known
     THEN Becomes(r, [job[r] EXCEPT !.ids = @ \ {c},
                                    !.used = @ \/ HasDependencyOn(c, job[r].lib)])
     ELSE Answer(r)
  /\ UNCHANGED <<installed, lost, content, temporary, dirs, exported>>

ListLibraries(r) ==
  /\ At(r, "usage") /\ job[r].ids = {}
  /\ Becomes(r, [job[r] EXCEPT !.pc = "dependents", !.seen = installed])
  /\ UNCHANGED <<installed, lost, content, temporary, dirs, exported>>

\* l preloads m, which needs l in the editor: this is not counted for m.
Circular(l, m) == m \in Preloaded[l] /\ l \in Editor[m]

\* Mutant: only preloaded dependencies count.
PreloadsOnly(l, m) == m \in Preloaded[l]

DependsOn(l, m) ==
  \/ m \in Preloaded[l] /\ ~Circular(l, m)
  \/ m \in Editor[l] \cup Dynamic[l]

CountDependents(r) ==
  LET used == job[r].used \/ \E l \in job[r].seen : DependsOn(l, job[r].lib) IN
  /\ At(r, "dependents")
  /\ IF used \/ ~(job[r].seen \subseteq installed) THEN Answer(r) ELSE Goto(r, "delete")
  /\ UNCHANGED <<installed, lost, content, temporary, dirs, exported>>

\* If only a part of the directory goes its library.json may be in it.
RemoveLibrary(r) ==
  /\ At(r, "delete")
  /\ installed' = installed \ {job[r].lib}
  /\ lost' = lost \/ ("ioerror" \in env /\ lost' = lost \cup (installed \ installed'))
  /\ Disturbs(r, [NewJob EXCEPT !.pc = "done"], job[r].lib)
  /\ UNCHANGED <<content, temporary, dirs, exported>>

FailToDelete(r) ==
  /\ Deletes(r)
  /\ "ioerror" \in env \/ (job[r].pc \in {"usage", "dependents"} /\ InFlux # {})
  /\ Answer(r)
  /\ UNCHANGED <<installed, lost, content, temporary, dirs, exported>>

-----------------------------------------------------------------------------
\* The process stops; what is on disk stays, a library.json half written among it.
Crash ==
  /\ "crash" \in env
  /\ \E r \in Requests : Runs(r)
  /\ \E half \in SUBSET Changing : installed' = installed \ half
  /\ lost' = lost \cup Changing
  /\ job' = [r \in Requests |->
       IF At(r, "new") THEN job[r]
       ELSE [NewJob EXCEPT !.pc = "done"]]
  /\ UNCHANGED <<content, temporary, dirs, exported>>

BeginRequest(r) ==
  /\ At(r, "new")
  /\ \/ \E p \in Packages, mode \in {"Install", "Temporary", "NoCopy"}, install \in BOOLEAN,
           c \in Contents \cup {NoContent} : BeginImport(r, p, mode, install, c)
     \/ \E c \in Contents : BeginExport(r, c) \/ DeleteContent(r, c)
     \/ \E l \in Libraries : BeginDeleteLibrary(r, l)

ImportStep(r) ==
  \/ Extract(r) \/ Validate(r) \/ EndInstalls(r) \/ ListInstalled(r) \/ CheckRequired(r)
  \/ EndFiles(r) \/ Undo(r) \/ EndTemporary(r) \/ Clean(r)
  \/ \E l \in Libraries : SkipLibrary(r, l) \/ BeginInstall(r, l) \/ CompleteInstall(r, l)
  \/ \E c \in Contents : CreateContent(r, c)
  \/ \E f \in Files : OpenFile(r, f) \/ WriteFile(r, f) \/ CopyToTemporary(r, f)

ExportStep(r) ==
  \/ ReadParameters(r) \/ ReadMetadata(r) \/ ScanFiles(r) \/ ListContentFiles(r)
  \/ AddLibraryFiles(r) \/ EndResolve(r) \/ EndExport(r)
  \/ \E f \in Files : AddContentFile(r, f)
  \/ \E l \in Libraries : Resolve(r, l) \/ AddLibrary(r, l)

DeletionStep(r) ==
  \/ ListContents(r) \/ ListLibraries(r) \/ CountDependents(r) \/ RemoveLibrary(r)
  \/ \E c \in Contents : ReadUsage(r, c)

Failure(r) ==
  \/ \E l \in Libraries : FailToBegin(r, l) \/ FailToInstall(r, l)
  \/ \E f \in Files : FailToCopy(r, f)
  \/ FailToUndo(r) \/ FailToImport(r) \/ FailToList(r) \/ FailToExport(r) \/ FailToDelete(r)

Step(r) == ImportStep(r) \/ ExportStep(r) \/ DeletionStep(r) \/ Failure(r)

Next ==
  /\ UNCHANGED env
  /\ (\E r \in Requests : BeginRequest(r) \/ Step(r)) \/ Crash

Spec == Init /\ [][Next]_vars

-----------------------------------------------------------------------------
(* Properties *)

\* Imports that run side by side, deletions, failures and crashes leave every
\* content with the libraries its h5p.json names, but for those a failed or
\* interrupted installation has removed: the import checks them after its own
\* installations, and deleteLibrary refuses a library in use.  Only a deletion that
\* runs while a content is imported gets between the two checks.
ContentHasItsLibraries ==
  "deleteLibrary" \notin env =>
    \A c \in Contents : content[c].known => AllNeeds(content[c].needs) \subseteq installed \cup lost

\* No deletion takes a library from another installed one that depends on it, but
\* for one that depends on it as the other way round in the editor.  A failed or
\* interrupted installation counts no dependents.
DependentsKeepTheirLibraries ==
  [][ "deleteLibrary" \notin env =>
        \A m \in installed \ (installed' \cup lost'), l \in installed' :
          m \in Preloaded[l] \cup Editor[l] \cup Dynamic[l] => Circular(l, m) ]_vars

\* When an import is answered without an error its content is stored with all its
\* files, and when it is answered with one the content it created is gone, unless its
\* deletion was refused or failed.  A copy that was still running may bring its directory back.
ImportIsAllOrNothing ==
  "sameContent" \notin env =>
    \A r \in Requests :
      LET d == content[job[r].content] IN
      At(r, "clean") /\ job[r].mode = "Install" /\ job[r].content # NoContent =>
        IF job[r].ok THEN d.known /\ job[r].pkg.files \subseteq d.files
        ELSE job[r].isNew /\ ~job[r].kept => ~d.known

\* A package that was exported has every library its h5p.json names, and of those it
\* has all that one of those loads, if the server had it from the beginning of the
\* export to its end and could read it.  An empty server can then import it.
ExportsCanBeImported ==
  exported # NoPackage =>
    LET p == exported.pkg IN
    (AllNeeds(p.needs) \cup UNION {Preloaded[l] \cup Editor[l] : l \in p.libs})
      \cap exported.steady \subseteq p.libs

\* The directory of an unpacked package is removed whatever happens to the import,
\* unless the process stops.
PackagesAreCleanedUp ==
  "crash" \notin env => \A r \in Requests : job[r].pc = "done" => r \notin dirs

=============================================================================
