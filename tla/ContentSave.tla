---------------------------- MODULE ContentSave ----------------------------
(***************************************************************************)
(* Saving a piece of content while other requests, the expiry of temporary *)
(* files and crashes of the process interfere.                             *)
(*                                                                         *)
(* The code is ContentStorer.addOrUpdateContent with the calls it makes    *)
(* on ContentManager, FileContentStorage and TemporaryFileManager.  Every  *)
(* `await` on storage is a point at which other requests run, so every     *)
(* storage call is an action of its own.                                   *)
(*                                                                         *)
(* Parameters (content.json) are abstracted to their file references: a    *)
(* function from Slots, the places in the semantic tree where a file may   *)
(* be referenced in the order ContentFileScanner finds them.               *)
(***************************************************************************)
EXTENDS Naturals, FiniteSets

CONSTANTS
  Contents,         \* content ids
  Requests,         \* save requests that can be in flight
  Files,            \* file names (unique: FilenameGenerator adds a random id)
  SlotCount,        \* number of places for a file reference in a content
  NoContent,        \* stands for the undefined contentId of unsaved content
  NoFile,           \* stands for "no file name"
  Environments,     \* what the environment may do, see AllFreedoms
  MaxSaves          \* bound: number of saves started

\* parallel   more than one save may be in flight
\* overlap    requests on the same content id may overlap in time
\* stale      a client may submit an editor state read before the last save
\* duplicate  one temporary file may be referenced in two slots
\* paste      references to files of other contents may be submitted
\* expiry     temporary files expire and are cleaned up
\* ioerror    a write to the content directory may fail
\* delete     contents may be deleted
\* crash      the process may crash and restart
\* refusal    the permission system refuses an undefined user
\* noEdit     the right to edit the content is missing where a save needs it:
\*            it was withdrawn, or the user may create contents only
AllFreedoms == {"parallel", "overlap", "stale", "duplicate", "paste", "expiry",
                "ioerror", "delete", "crash", "refusal", "noEdit"}

ASSUME ContentSaveAssumption ==
  /\ SlotCount \in Nat
  /\ MaxSaves \in Nat
  /\ NoContent \notin Contents
  /\ NoFile \notin Files \cup Contents \cup {NoContent}
  /\ Environments \subseteq SUBSET AllFreedoms

VARIABLES
  disk,     \* disk[c]: the directory of content c in FileContentStorage
  temp,     \* the names of the files in temporary storage
  home,     \* home[f]: the content in whose editor f was uploaded (NoFile: not uploaded)
  named,    \* the file names given out so far
  expired,  \* the temporary files the clean-up has removed
  issued,   \* the content ids given out so far
  seen,     \* seen[c]: files ever referenced by the stored parameters of c
  copied,   \* temporary files a save has completely written to a content
  job,      \* job[r]: the local state of request r
  saves,    \* number of saves started
  env       \* the environment of this behaviour, chosen once

vars == <<disk, temp, home, named, expired, issued, seen, copied, job, saves, env>>

Slots == 1..SlotCount

FileState == {"absent", "partial", "complete"}

\* A reference in the parameters.  kind "tmp" is a path with the #tmp marker,
\* "paste" a relative path into another content.
Ref == [kind : {"none"}, file : {NoFile}, from : {NoContent}]
         \cup [kind : {"file", "tmp"}, file : Files, from : {NoContent}]
         \cup [kind : {"paste"}, file : Files, from : Contents]

NoRef         == [kind |-> "none", file |-> NoFile, from |-> NoContent]
FileRef(f)    == [kind |-> "file", file |-> f, from |-> NoContent]
TmpRef(f)     == [kind |-> "tmp", file |-> f, from |-> NoContent]
PasteRef(c,f) == [kind |-> "paste", file |-> f, from |-> c]
NoRefs        == [s \in Slots |-> NoRef]

Directory == [dir    : BOOLEAN,            \* the directory exists
              meta   : FileState,          \* h5p.json
              json   : FileState,          \* content.json
              params : [Slots -> Ref],     \* the value of a complete content.json
              file   : [Files -> FileState]]

NoDirectory == [dir |-> FALSE, meta |-> "absent", json |-> "absent",
                params |-> NoRefs, file |-> [f \in Files |-> "absent"]]

Control == {"idle", "oldParams", "oldMeta", "mkdir", "openMeta", "writeMeta",
            "openParams", "writeParams", "copy", "openFile", "writeFile",
            "checkTemp", "rmTemp", "clean"}

Job == [pc      : Control,
        target  : Contents \cup {NoContent},
        update  : BOOLEAN,               \* isUpdate
        refs    : [Slots -> Ref],        \* the parameters object, mutated in place
        uploads : SUBSET Files,          \* temporary files the client submitted
        todo    : SUBSET Slots,          \* references whose file must be copied
        slot    : Slots \cup {0},        \* the reference being copied
        file    : Files \cup {NoFile},   \* the content file being written
        whole   : BOOLEAN,               \* the opened source is a complete file
        dirty   : BOOLEAN,
        again   : BOOLEAN,               \* in the second createOrUpdateContent
        drop    : SUBSET Files]          \* filesInOldParams, later the unused of them

IdleJob == [pc |-> "idle", target |-> NoContent, update |-> FALSE,
            refs |-> NoRefs, uploads |-> {}, todo |-> {}, slot |-> 0,
            file |-> NoFile, whole |-> FALSE, dirty |-> FALSE,
            again |-> FALSE, drop |-> {}]

TypeOK ==
  /\ disk \in [Contents -> Directory]
  /\ temp \subseteq Files
  /\ home \in [Files -> Contents \cup {NoContent, NoFile}]
  /\ named \subseteq Files
  /\ expired \subseteq Files
  /\ issued \subseteq Contents
  /\ seen \in [Contents -> SUBSET Files]
  /\ copied \subseteq Files
  /\ job \in [Requests -> Job]
  /\ saves \in Nat

Init ==
  /\ disk = [c \in Contents |-> NoDirectory]
  /\ temp = {}
  /\ home = [f \in Files |-> NoFile]
  /\ named = {}
  /\ expired = {}
  /\ issued = {}
  /\ seen = [c \in Contents |-> {}]
  /\ copied = {}
  /\ job = [r \in Requests |-> IdleJob]
  /\ saves = 0
  /\ env \in Environments

-----------------------------------------------------------------------------
Active(r) == job[r].pc # "idle"

\* Without "overlap" the host serialises the requests on one content.
Free(c) == "overlap" \in env \/ \A r \in Requests : job[r].target # c

-----------------------------------------------------------------------------
(* References *)

\* The names in the plain references of a parameters object.  (Mutant: a slot
\* without a path counts as a reference.)
PlainFilesAndEmpty(refs) == {refs[s].file : s \in {t \in Slots : refs[t].kind \in {"none", "file"}}}
PlainFiles(refs) == {refs[s].file : s \in {t \in Slots : refs[t].kind = "file"}}

TmpFiles(refs) == {refs[s].file : s \in {t \in Slots : refs[t].kind = "tmp"}}

\* The file references a client can have in its editor for content c: what the
\* stored parameters reference, what was uploaded in the editor session, and
\* what was pasted from another content.
EditorRefs(c) ==
  LET stored(d) == IF "stale" \in env THEN seen[d] ELSE PlainFiles(disk[d].params)
      own == IF c = NoContent THEN {} ELSE stored(c)
      usable == {f \in named : \/ home[f] = c /\ ("stale" \in env \/ f \in temp \cup expired)
                               \/ f \in own}
      pastes == IF "paste" \in env
                THEN {p \in (Contents \ {c}) \X Files : Free(p[1]) /\ p[2] \in stored(p[1])}
                ELSE {}
  IN  {NoRef} \cup {FileRef(f) : f \in own} \cup {TmpRef(f) : f \in usable}
        \cup {PasteRef(p[1], p[2]) : p \in pastes}

\* Without "duplicate" no file name occurs in two slots.
Drafts(c) ==
  {d \in [Slots -> EditorRefs(c)] :
     \/ "duplicate" \in env
     \/ \A s, t \in Slots : d[s].file = d[t].file /\ d[s] # NoRef => s = t}

\* determineFilesToCopyFromTemporaryStorage: the references to copy from
\* temporary storage are the first ones to each temporary file, unless the old
\* parameters name the file.
FromTemp(draft, old) ==
  {s \in Slots : /\ draft[s].kind = "tmp"
                 /\ draft[s].file \notin old
                 /\ \A t \in Slots : t < s => draft[t] # draft[s]}

\* ... and the marker is removed from every temporary reference.
WithoutMarkers(draft) ==
  [s \in Slots |-> IF draft[s].kind = "tmp" THEN FileRef(draft[s].file) ELSE draft[s]]

\* deleteUnusedOldFiles: the old files that no new reference names, whether it
\* had the marker or not.
UnusedIgnoringUploads(old, draft) == old \ PlainFiles(draft)  \* mutant
Unused(old, draft) == old \ (PlainFiles(draft) \cup TmpFiles(draft))

FromPaste(draft) == {s \in Slots : draft[s].kind = "paste"}

-----------------------------------------------------------------------------
(* The environment *)

\* H5PEditor.saveContentFile puts an upload into temporary storage; the client
\* learns the new unique name only when the file is stored.
Upload(f, c) ==
  /\ f \notin named
  /\ c \in issued \cup {NoContent}
  /\ named' = named \cup {f}
  /\ home' = [home EXCEPT ![f] = c]
  /\ temp' = temp \cup {f}
  /\ UNCHANGED <<disk, expired, issued, seen, copied, job, saves>>

\* TemporaryFileManager.cleanUp deletes a file whose lifetime is over.
CleanUp(f) ==
  /\ "expiry" \in env
  /\ f \in temp
  /\ temp' = temp \ {f}
  /\ expired' = expired \cup {f}
  /\ UNCHANGED <<disk, home, named, issued, seen, copied, job, saves>>

\* FileContentStorage.deleteContent: access, then a recursive rm.
DeleteContent(c) ==
  /\ "delete" \in env
  /\ disk[c].dir
  /\ Free(c)
  /\ disk' = [disk EXCEPT ![c] = NoDirectory]
  /\ UNCHANGED <<temp, home, named, expired, issued, seen, copied, job, saves>>

\* The process dies: the requests are gone, the directories stay as they are.
Crash ==
  /\ "crash" \in env
  /\ \E r \in Requests : Active(r)
  /\ job' = [r \in Requests |-> IdleJob]
  /\ UNCHANGED <<disk, temp, home, named, expired, issued, seen, copied, saves>>

-----------------------------------------------------------------------------
(* addOrUpdateContent *)

Begin(r, c, draft, update) ==
  /\ job[r].pc = "idle"
  /\ "parallel" \in env \/ \A q \in Requests : ~Active(q)
  /\ saves < MaxSaves
  /\ saves' = saves + 1
  /\ job' = [job EXCEPT ![r] =
       [IdleJob EXCEPT !.pc = IF update THEN "oldParams" ELSE "mkdir",
                       !.target = c,
                       !.update = update,
                       !.refs = IF update THEN draft ELSE WithoutMarkers(draft),
                       !.uploads = TmpFiles(draft),
                       !.todo = IF update THEN {}
                                ELSE FromTemp(draft, {}) \cup FromPaste(draft)]]
  /\ UNCHANGED <<disk, temp, home, named, expired, seen, copied>>

\* Saving unsaved content.  createContentId draws one of 2^32 ids and checks
\* that it is free: two draws never collide here.
StartCreate(r, c, draft) ==
  /\ c \notin issued
  /\ issued' = issued \cup {c}
  /\ Begin(r, c, draft, FALSE)

\* Clients know the contents that listContent lists, those with an h5p.json.
StartUpdate(r, c, draft) ==
  /\ c \in issued
  /\ disk[c].meta # "absent"
  /\ Free(c)
  /\ UNCHANGED issued
  /\ Begin(r, c, draft, TRUE)

\* The request ends with an error: before it changed anything (permission
\* denied, unreadable old content, parameters that do not fit the semantics), or
\* because createOrUpdateContent refuses to store the changed references, for
\* which the user needs the right to edit also if the content is new.
Reject(r) ==
  /\ \/ job[r].pc \in {"oldParams", "oldMeta"}
     \/ job[r].pc = "mkdir" /\ (job[r].again => "noEdit" \in env)
  /\ job' = [job EXCEPT ![r] = IdleJob]
  /\ UNCHANGED <<disk, temp, home, named, expired, issued, seen, copied, saves>>

\* getFilesInParams reads the old content.json, which must parse ...
ReadOldParams(r) ==
  LET d == disk[job[r].target] IN
  /\ job[r].pc = "oldParams"
  /\ d.json = "complete"
  /\ job' = [job EXCEPT ![r].pc = "oldMeta", ![r].drop = PlainFiles(d.params)]
  /\ UNCHANGED <<disk, temp, home, named, expired, issued, seen, copied, saves>>

\* ... and h5p.json.  Then the new parameters are scanned, and what must be
\* copied and what must be deleted later is determined.
ReadOldMetadata(r) ==
  LET j == job[r] IN
  /\ j.pc = "oldMeta"
  /\ disk[j.target].meta = "complete"
  /\ job' = [job EXCEPT ![r] =
       [j EXCEPT !.pc = "mkdir",
                 !.todo = FromTemp(j.refs, j.drop) \cup FromPaste(j.refs),
                 !.drop = Unused(j.drop, j.refs),
                 !.refs = WithoutMarkers(j.refs)]]
  /\ UNCHANGED <<disk, temp, home, named, expired, issued, seen, copied, saves>>

-----------------------------------------------------------------------------
(* FileContentStorage.addContent, reached through createOrUpdateContent *)

MakeDirectory(r) ==
  LET j == job[r] IN
  /\ j.pc = "mkdir"
  /\ disk' = [disk EXCEPT ![j.target].dir = TRUE]
  /\ job' = [job EXCEPT ![r].pc = "openMeta"]
  /\ UNCHANGED <<temp, home, named, expired, issued, seen, copied, saves>>

\* writeFile truncates the file when it opens it ...
OpenMetadata(r) ==
  LET j == job[r] IN
  /\ j.pc = "openMeta"
  /\ disk[j.target].dir
  /\ disk' = [disk EXCEPT ![j.target].meta = "partial"]
  /\ job' = [job EXCEPT ![r].pc = "writeMeta"]
  /\ UNCHANGED <<temp, home, named, expired, issued, seen, copied, saves>>

\* ... and writes to the file it opened, also if that was deleted since then.
WriteMetadata(r) ==
  LET j == job[r] IN
  /\ j.pc = "writeMeta"
  /\ disk' = IF disk[j.target].meta = "absent" THEN disk
             ELSE [disk EXCEPT ![j.target].meta = "complete"]
  /\ job' = [job EXCEPT ![r].pc = "openParams"]
  /\ UNCHANGED <<temp, home, named, expired, issued, seen, copied, saves>>

OpenParameters(r) ==
  LET j == job[r] IN
  /\ j.pc = "openParams"
  /\ disk[j.target].dir
  /\ disk' = [disk EXCEPT ![j.target].json = "partial", ![j.target].params = NoRefs]
  /\ job' = [job EXCEPT ![r].pc = "writeParams"]
  /\ UNCHANGED <<temp, home, named, expired, issued, seen, copied, saves>>

\* If another request completed the file since it was truncated here, the two
\* texts are written over each other: what remains may not parse anymore.
WriteParameters(r) ==
  LET j == job[r]
      c == j.target
  IN
  /\ j.pc = "writeParams"
  /\ \/ /\ disk[c].json # "absent"
        /\ disk' = [disk EXCEPT ![c].json = "complete", ![c].params = j.refs]
        /\ seen' = [seen EXCEPT ![c] = @ \cup PlainFiles(j.refs)]
     \/ /\ disk[c].json = "complete"
        /\ disk[c].params # j.refs
        /\ disk' = [disk EXCEPT ![c].json = "partial", ![c].params = NoRefs]
        /\ UNCHANGED seen
     \/ /\ disk[c].json = "absent"
        /\ UNCHANGED <<disk, seen>>
  /\ job' = [job EXCEPT ![r].pc = IF j.again THEN "clean" ELSE "copy"]
  /\ UNCHANGED <<temp, home, named, expired, issued, copied, saves>>

\* Any error of these steps: the whole directory is removed and addContent
\* throws.  Opening a file fails if the directory was deleted meanwhile.
FailToStore(r) ==
  LET j == job[r] IN
  /\ \/ j.pc \in {"openMeta", "openParams"} /\ ~disk[j.target].dir
     \/ /\ "ioerror" \in env
        /\ j.pc \in {"mkdir", "openMeta", "writeMeta", "openParams", "writeParams"}
  /\ disk' = [disk EXCEPT ![j.target] = NoDirectory]
  /\ job' = [job EXCEPT ![r] = IdleJob]
  /\ UNCHANGED <<temp, home, named, expired, issued, seen, copied, saves>>

-----------------------------------------------------------------------------
(* copyFilesFromTemporaryStorage, then copyFilesFromPasteSource *)

\* The reference whose turn it is: those to temporary files come first.
NextSlot(j, s) ==
  /\ s \in j.todo
  /\ \A t \in j.todo : (t \in FromPaste(j.refs)) = (s \in FromPaste(j.refs)) => s <= t
  /\ s \in FromPaste(j.refs) => j.todo \subseteq FromPaste(j.refs)

\* The loop goes on after reference s: copied, or removed from the parameters.
Keep(j, s)  == [j EXCEPT !.pc = "copy", !.todo = @ \ {s}, !.slot = 0,
                         !.file = NoFile, !.whole = FALSE]
ClearSilently(j, s) == [Keep(j, s) EXCEPT !.refs[s] = NoRef]  \* mutant
Clear(j, s) == [Keep(j, s) EXCEPT !.refs[s] = NoRef, !.dirty = TRUE]

\* The temporary file is opened and addFile finds the content directory.
OpenTemporaryFile(r, s) ==
  LET j == job[r]
      f == j.refs[s].file
  IN
  /\ j.pc = "copy"
  /\ NextSlot(j, s)
  /\ j.refs[s].kind = "file"
  /\ job' = [job EXCEPT ![r] =
       IF f \in temp /\ disk[j.target].dir
       THEN [j EXCEPT !.pc = "openFile", !.slot = s, !.file = f, !.whole = TRUE]
       ELSE Clear(j, s)]
  /\ UNCHANGED <<disk, temp, home, named, expired, issued, seen, copied, saves>>

\* A pasted file is opened in its content and gets a name that is not used yet.
OpenPastedFile(r, s, name) ==
  LET j == job[r]
      ref == j.refs[s]
      source == disk[ref.from].file[ref.file]
      found == source # "absent" /\ disk[j.target].dir
  IN
  /\ j.pc = "copy"
  /\ NextSlot(j, s)
  /\ ref.kind = "paste"
  /\ IF found THEN name \in Files \ named ELSE name = NoFile
  /\ named' = IF found THEN named \cup {name} ELSE named
  /\ job' = [job EXCEPT ![r] =
       IF found
       THEN [j EXCEPT !.pc = "openFile", !.slot = s, !.file = name,
                      !.whole = (source = "complete")]
       ELSE Clear(j, s)]
  /\ UNCHANGED <<disk, temp, home, expired, issued, seen, copied, saves>>

\* Mutant: the temporary file is deleted without awaiting the stream.
OpenContentFileNoAwait(r) ==
  LET j == job[r] IN
  /\ j.pc = "openFile"
  /\ disk' = [disk EXCEPT ![j.target].dir = TRUE, ![j.target].file[j.file] = "partial"]
  /\ job' = [job EXCEPT ![r].pc = IF j.update THEN "checkTemp" ELSE "writeFile"]
  /\ UNCHANGED <<temp, home, named, expired, issued, seen, copied, saves>>

\* addFile creates missing directories, also one deleted since the check, and
\* opens the write stream.
OpenContentFile(r) ==
  LET j == job[r] IN
  /\ j.pc = "openFile"
  /\ disk' = [disk EXCEPT ![j.target].dir = TRUE, ![j.target].file[j.file] = "partial"]
  /\ job' = [job EXCEPT ![r].pc = "writeFile"]
  /\ UNCHANGED <<temp, home, named, expired, issued, seen, copied, saves>>

\* The temporary files of new content may be needed by a second save.
DeletesAlways(j) == TRUE  \* mutant
DeletesTemporaryFile(j) == j.update

\* The stream ends.  The temporary file of an update is deleted next; a pasted
\* reference gets the new name.
WriteContentFile(r) ==
  LET j == job[r]
      c == j.target
      pasted == j.refs[j.slot].kind = "paste"
  IN
  /\ j.pc = "writeFile"
  /\ disk' = IF disk[c].file[j.file] = "absent" \/ ~j.whole THEN disk
             ELSE [disk EXCEPT ![c].file[j.file] = "complete"]
  /\ copied' = IF pasted THEN copied ELSE copied \cup {j.file}
  /\ job' = [job EXCEPT ![r] =
       IF pasted THEN [Keep(j, j.slot) EXCEPT !.refs[j.slot] = FileRef(j.file),
                                              !.dirty = TRUE]
       ELSE IF DeletesTemporaryFile(j) THEN [j EXCEPT !.pc = "checkTemp"]
       ELSE Keep(j, j.slot)]
  /\ UNCHANGED <<temp, home, named, expired, issued, seen, saves>>

\* A write error leaves the partial file behind and clears the reference, and so
\* does addContentFile if it refuses the user, before it opens the file.
FailToCopy(r) ==
  LET j == job[r] IN
  /\ \/ "ioerror" \in env /\ j.pc \in {"openFile", "writeFile"}
     \/ "noEdit" \in env /\ j.pc = "openFile"
  /\ job' = [job EXCEPT ![r] = Clear(j, j.slot)]
  /\ UNCHANGED <<disk, temp, home, named, expired, issued, seen, copied, saves>>

\* TemporaryFileManager.deleteFile first checks if the file exists ...
CheckTemporaryFile(r) ==
  LET j == job[r] IN
  /\ j.pc = "checkTemp"
  /\ job' = [job EXCEPT ![r] = IF j.file \in temp THEN [j EXCEPT !.pc = "rmTemp"]
                               ELSE Keep(j, j.slot)]
  /\ UNCHANGED <<disk, temp, home, named, expired, issued, seen, copied, saves>>

\* ... then removes it.  If it is gone by then, the error is taken for a failed
\* copy: the reference is cleared although the file was copied.
RemoveTemporaryFile(r) ==
  LET j == job[r] IN
  /\ j.pc = "rmTemp"
  /\ temp' = temp \ {j.file}
  /\ job' = [job EXCEPT ![r] = IF j.file \in temp THEN Keep(j, j.slot)
                               ELSE Clear(j, j.slot)]
  /\ UNCHANGED <<disk, home, named, expired, issued, seen, copied, saves>>

\* Mutants: the changed references are not stored; they are stored for ever.
EndCopyNoResave(r) ==
  /\ job[r].pc = "copy"
  /\ job[r].todo = {}
  /\ job' = [job EXCEPT ![r].pc = "clean"]
  /\ UNCHANGED <<disk, temp, home, named, expired, issued, seen, copied, saves>>

EndCopyLoops(r) ==
  /\ job[r].pc = "copy"
  /\ job[r].todo = {}
  /\ job' = [job EXCEPT ![r].pc = IF job[r].dirty THEN "mkdir" ELSE "clean"]
  /\ UNCHANGED <<disk, temp, home, named, expired, issued, seen, copied, saves>>

\* After the loops the parameters are stored again if a reference changed.
EndCopy(r) ==
  LET j == job[r] IN
  /\ j.pc = "copy"
  /\ j.todo = {}
  /\ job' = [job EXCEPT ![r] = IF j.dirty THEN [j EXCEPT !.pc = "mkdir", !.again = TRUE]
                               ELSE [j EXCEPT !.pc = "clean"]]
  /\ UNCHANGED <<disk, temp, home, named, expired, issued, seen, copied, saves>>

-----------------------------------------------------------------------------
(* deleteUnusedOldFiles *)

\* deleteContentFile is called without a user.  Errors are logged only.
DeleteUnusedFile(r, f) ==
  LET j == job[r] IN
  /\ j.pc = "clean"
  /\ f \in j.drop
  /\ disk' = IF "refusal" \in env THEN disk
             ELSE [disk EXCEPT ![j.target].file[f] = "absent"]
  /\ job' = [job EXCEPT ![r].drop = @ \ {f}]
  /\ UNCHANGED <<temp, home, named, expired, issued, seen, copied, saves>>

\* Mutant: the save returns without deleting the unused files.
FinishEarly(r) ==
  /\ job[r].pc = "clean"
  /\ job' = [job EXCEPT ![r] = IdleJob]
  /\ UNCHANGED <<disk, temp, home, named, expired, issued, seen, copied, saves>>

Finish(r) ==
  /\ job[r].pc = "clean"
  /\ job[r].drop = {}
  /\ job' = [job EXCEPT ![r] = IdleJob]
  /\ UNCHANGED <<disk, temp, home, named, expired, issued, seen, copied, saves>>

-----------------------------------------------------------------------------

\* One step of the code of a save that is in flight.
SaveStep(r) ==
  \/ ReadOldParams(r) \/ ReadOldMetadata(r) \/ Reject(r)
  \/ MakeDirectory(r) \/ OpenMetadata(r) \/ WriteMetadata(r)
  \/ OpenParameters(r) \/ WriteParameters(r) \/ FailToStore(r)
  \/ \E s \in Slots : OpenTemporaryFile(r, s)
  \/ \E s \in Slots, name \in Files \cup {NoFile} : OpenPastedFile(r, s, name)
  \/ OpenContentFile(r) \/ WriteContentFile(r) \/ FailToCopy(r)
  \/ CheckTemporaryFile(r) \/ RemoveTemporaryFile(r) \/ EndCopy(r)
  \/ \E f \in Files : DeleteUnusedFile(r, f)
  \/ Finish(r)

Start(r) ==
  \/ \E c \in Contents : \E draft \in Drafts(NoContent) : StartCreate(r, c, draft)
  \/ \E c \in Contents : \E draft \in Drafts(c) : StartUpdate(r, c, draft)

Next ==
  /\ UNCHANGED env
  /\ \/ \E f \in Files, c \in Contents \cup {NoContent} : Upload(f, c)
     \/ \E f \in Files : CleanUp(f)
     \/ \E c \in Contents : DeleteContent(c)
     \/ Crash
     \/ \E r \in Requests : Start(r) \/ SaveStep(r)

Spec == Init /\ [][Next]_vars

\* The event loop runs the continuation of every storage call that returned.
FairSpec == Spec /\ \A r \in Requests : WF_vars(SaveStep(r) /\ UNCHANGED env)

-----------------------------------------------------------------------------
(* Properties *)

\* No request is working on content c.
Quiet(c) == \A r \in Requests : job[r].target # c

\* content.json of c exists and parses.
Readable(c) == disk[c].json = "complete"

\* The environments under which a property holds are part of it.  Clients that
\* save one after the other, from an editor that shows what is stored, and keep
\* the right to edit what they save:
OneAfterTheOther == env \cap {"overlap", "stale", "noEdit"} = {}

\* ... and in which no reference is lost: the process lives on, and no failing
\* copy of a file clears only one of two references to it.
NoDanglingReference ==
  /\ OneAfterTheOther
  /\ "crash" \notin env
  /\ ~("duplicate" \in env /\ env \cap {"expiry", "ioerror"} # {})

\* When no request works on a content, every file its stored parameters
\* reference is completely there, and no relative path of a paste is left
\* (ContentStorer.addOrUpdateContent stores again if a copy failed).
StoredReferencesResolve ==
  NoDanglingReference =>
    \A c \in Contents : Quiet(c) /\ Readable(c) =>
      \A s \in Slots :
        LET ref == disk[c].params[s] IN
        /\ ref.kind \in {"none", "file"}
        /\ ref.kind = "file" => disk[c].file[ref.file] = "complete"

\* When no request works on a content, its directory holds no file that its
\* parameters do not reference: "files that were deleted by the user in the
\* editor client ... must be deleted from storage" (ContentStorer.ts:154-158).
NoUnusedFiles ==
  env \subseteq {"parallel", "duplicate", "paste", "delete"} =>
    \A c \in Contents : Quiet(c) /\ Readable(c) =>
      \A f \in Files : disk[c].file[f] # "absent" => f \in PlainFiles(disk[c].params)

\* The step in which addOrUpdateContent of r returns.
Returns(r) == job[r].pc = "clean" /\ job'[r].pc = "idle"

\* What r leaves of the unexpired uploads its client submitted: each is
\* referenced by the parameters r stored, and stored with them.
UploadsAreStored(r) ==
  \A f \in job[r].uploads \ expired :
    /\ f \in PlainFiles(job[r].refs)
    /\ disk[job[r].target].file[f] = "complete"

\* Every save that returns has stored all files uploaded for it: the temporary
\* file of unsaved content stays "if the user accidentally presses save twice"
\* (ContentStorer.ts:126-129), that of saved content may be gone once the content
\* names the file (ContentStorer.ts:637-639).
UploadsKept ==
  [][OneAfterTheOther /\ env \cap {"crash", "ioerror"} = {} =>
       \A r \in Requests : Returns(r) => UploadsAreStored(r)]_vars

\* Also when updates overlap, what a save stores in the end still references all
\* files uploaded for the saved content: a temporary file is left out of the
\* copies if "there isn't already a file with the exact name. This might be the
\* case if the user presses "save" twice" (ContentStorer.ts:637-639).  The code
\* does not keep it.
UploadsKeptBySavingTwice ==
  [][\A r \in Requests :
       Returns(r) /\ job[r].update =>
         \A f \in job[r].uploads \ expired :
           home[f] = job[r].target => f \in PlainFiles(job[r].refs)]_vars

\* r is about to copy temporary file f into c although c may have it: a save
\* that was copying f died before it deleted the temporary file.
CopiesAfterCrash(r, c, f) ==
  "crash" \in env /\ job[r].pc = "openFile" /\ job[r].target = c /\ job[r].file = f

\* While content.json can be read, no step deletes or truncates a complete file
\* it references, unless the whole directory goes (deleteContent, or addContent
\* that failed).  Unused files are deleted only after the new parameters are
\* stored, so this also holds if the process dies in between; after such a
\* death the only other exception is a file that is just copied once more.
ReferencedFilesStay ==
  [][OneAfterTheOther =>
       \A c \in Contents : Readable(c) /\ disk'[c].dir =>
         \A f \in PlainFiles(disk[c].params) :
           disk[c].file[f] = "complete" =>
             disk'[c].file[f] = "complete" \/ \E r \in Requests : CopiesAfterCrash(r, c, f)]_vars

\* An upload leaves temporary storage only if it expired or a save has
\* completely written it to a content before, whatever overlaps or fails.
UploadLostOnlyIfCopied ==
  \A f \in Files : home[f] # NoFile => f \in temp \cup expired \cup copied

\* Every save comes to its end: no storage call waits for another request.
SaveTerminates == \A r \in Requests : Active(r) ~> ~Active(r)

=============================================================================
