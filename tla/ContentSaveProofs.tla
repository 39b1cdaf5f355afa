------------------------- MODULE ContentSaveProofs -------------------------
(***************************************************************************)
(* Machine-checked facts about ContentSave, for every number of contents,  *)
(* requests, files and reference slots and for every environment.          *)
(* First what holds of any clients, then what ContentSave promises of      *)
(* clients that save one after the other (OneAfterTheOther): what becomes  *)
(* of the files of a content.                                              *)
(***************************************************************************)
EXTENDS ContentSave, WellFoundedInduction, TLAPS

-----------------------------------------------------------------------------
(* The operators on references *)

LEMMA RefTypes ==
  /\ NoRef \in Ref
  /\ \A f \in Files : FileRef(f) \in Ref /\ TmpRef(f) \in Ref
  /\ \A c \in Contents, f \in Files : PasteRef(c, f) \in Ref
BY DEF NoRef, FileRef, TmpRef, PasteRef, Ref

\* A reference that names a file names one of Files.
LEMMA RefFiles ==
  ASSUME NEW ref \in Ref
  PROVE  /\ ref.kind \in {"none", "file", "tmp", "paste"}
         /\ ref.kind # "none" => ref.file \in Files
         /\ ref.kind = "paste" => ref.from \in Contents
BY DEF Ref

LEMMA NoRefsType == NoRefs \in [Slots -> Ref]
BY RefTypes DEF NoRefs

LEMMA RefsOperatorTypes ==
  ASSUME NEW refs \in [Slots -> Ref]
  PROVE  /\ PlainFiles(refs) \subseteq Files
         /\ TmpFiles(refs) \subseteq Files
         /\ WithoutMarkers(refs) \in [Slots -> Ref]
         /\ FromPaste(refs) \subseteq Slots
         /\ \A old : FromTemp(refs, old) \subseteq Slots
<1>1. PlainFiles(refs) \subseteq Files
  BY RefFiles DEF PlainFiles
<1>2. TmpFiles(refs) \subseteq Files
  BY RefFiles DEF TmpFiles
<1>3. WithoutMarkers(refs) \in [Slots -> Ref]
  BY RefFiles, RefTypes DEF WithoutMarkers
<1>4. FromPaste(refs) \subseteq Slots /\ \A old : FromTemp(refs, old) \subseteq Slots
  BY DEF FromPaste, FromTemp
<1> QED BY <1>1, <1>2, <1>3, <1>4

LEMMA DirectoryTypes ==
  /\ NoDirectory \in Directory
  /\ \A d \in Directory :
       /\ d.params \in [Slots -> Ref]
       /\ d.file \in [Files -> FileState]
BY NoRefsType DEF NoDirectory, Directory, FileState

\* What the steps of addContent do to one directory.
LEMMA DirectoryUpdateTypes ==
  ASSUME NEW d \in Directory
  PROVE  /\ [d EXCEPT !.dir = TRUE] \in Directory
         /\ \A state \in FileState : [d EXCEPT !.meta = state] \in Directory
         /\ \A state \in FileState, refs \in [Slots -> Ref] :
              [d EXCEPT !.json = state, !.params = refs] \in Directory
BY DEF Directory

\* A step that changes the directory of one content.
LEMMA DiskStep ==
  ASSUME disk \in [Contents -> Directory], NEW c \in Contents, NEW d \in Directory,
         disk' = [disk EXCEPT ![c] = d]
  PROVE  disk' \in [Contents -> Directory]
OBVIOUS

LEMMA IdleJobType == IdleJob \in Job
BY NoRefsType DEF IdleJob, Job, Control


\* A draft is made of references, whatever the freedoms are.
LEMMA DraftsType ==
  ASSUME TypeOK, NEW c \in Contents \cup {NoContent}
  PROVE  Drafts(c) \subseteq [Slots -> Ref]
<1>1. ASSUME NEW d \in Contents
      PROVE  /\ PlainFiles(disk[d].params) \subseteq Files
             /\ seen[d] \subseteq Files
  <2>1. disk[d].params \in [Slots -> Ref]
    BY DirectoryTypes DEF TypeOK
  <2> QED BY <2>1, RefsOperatorTypes DEF TypeOK
<1>2. EditorRefs(c) \subseteq Ref
  <2> DEFINE stored(d) == IF "stale" \in env THEN seen[d]
                          ELSE PlainFiles(disk[d].params)
             own == IF c = NoContent THEN {} ELSE stored(c)
             usable == {f \in named :
                          \/ home[f] = c /\ ("stale" \in env \/ f \in temp \cup expired)
                          \/ f \in own}
             pastes == IF "paste" \in env
                       THEN {p \in (Contents \ {c}) \X Files :
                               Free(p[1]) /\ p[2] \in stored(p[1])}
                       ELSE {}
  <2>1. own \subseteq Files
    BY <1>1
  <2>2. usable \subseteq Files
    BY DEF TypeOK
  <2>3. \A p \in pastes : p[1] \in Contents /\ p[2] \in Files
    OBVIOUS
  <2>4. EditorRefs(c) = {NoRef} \cup {FileRef(f) : f \in own} \cup {TmpRef(f) : f \in usable}
                          \cup {PasteRef(p[1], p[2]) : p \in pastes}
    BY DEF EditorRefs
  <2> HIDE DEF stored, own, usable, pastes
  <2> QED BY <2>1, <2>2, <2>3, <2>4, RefTypes
<1> QED BY <1>2 DEF Drafts

\* What the steps that only choose the next one do to a job.
LEMMA ControlUpdateTypes ==
  ASSUME NEW j \in Job, NEW pc \in Control
  PROVE  /\ [j EXCEPT !.pc = pc] \in Job
         /\ [j EXCEPT !.pc = pc, !.again = TRUE] \in Job
BY DEF Job

\* What the reading steps do to a job.
LEMMA JobUpdateTypes ==
  ASSUME NEW j \in Job, NEW pc \in Control, NEW drop \in SUBSET Files,
         NEW todo \in SUBSET Slots, NEW refs \in [Slots -> Ref]
  PROVE  /\ [j EXCEPT !.pc = pc, !.drop = drop] \in Job
         /\ [j EXCEPT !.pc = pc, !.todo = todo, !.drop = drop, !.refs = refs] \in Job
BY DEF Job

LEMMA KeepType ==
  ASSUME NEW j \in Job, NEW s \in Slots
  PROVE  /\ Keep(j, s) \in Job
         /\ Clear(j, s) \in Job
<1>1. Keep(j, s) \in Job
  BY DEF Keep, Job, Control
<1>2. Keep(j, s).refs \in [Slots -> Ref]
  BY <1>1 DEF Job
<1>3. [Keep(j, s).refs EXCEPT ![s] = NoRef] \in [Slots -> Ref]
  BY <1>2, RefTypes
<1>4. Clear(j, s) = [Keep(j, s) EXCEPT !.refs = [Keep(j, s).refs EXCEPT ![s] = NoRef],
                                       !.dirty = TRUE]
  BY <1>1 DEF Clear, Job
<1> QED BY <1>1, <1>3, <1>4 DEF Job

-----------------------------------------------------------------------------
(* The inductive invariant                                                 *)
(*                                                                         *)
(* Types alone are not inductive: an idle job has no target, so that a     *)
(* save in flight has one must be part of the invariant, and so must be    *)
(* that the save only deletes a temporary file it has copied.              *)

CopyingFile == {"openFile", "writeFile", "checkTemp", "rmTemp"}

InProgress(j, done) ==
  /\ j.pc # "idle" => j.target \in Contents
  /\ j.pc \in CopyingFile => j.slot \in Slots /\ j.file \in Files
  /\ j.pc \in {"checkTemp", "rmTemp"} => j.file \in done

SavesInProgress == \A r \in Requests : InProgress(job[r], copied)

ContentSaveInv == TypeOK /\ SavesInProgress /\ UploadLostOnlyIfCopied

LEMMA InitInv == Init => ContentSaveInv
BY IdleJobType, DirectoryTypes DEF Init, TypeOK, ContentSaveInv, SavesInProgress,
   InProgress, CopyingFile, IdleJob, UploadLostOnlyIfCopied

\* The types of a save in flight and of the content it works on.
LEMMA JobTypes ==
  ASSUME ContentSaveInv, NEW r \in Requests, job[r].pc # "idle"
  PROVE  /\ job[r] \in Job
         /\ job[r].refs \in [Slots -> Ref]
         /\ job[r].todo \subseteq Slots
         /\ job[r].drop \subseteq Files
         /\ job[r].target \in Contents
         /\ disk[job[r].target] \in Directory
         /\ disk[job[r].target].params \in [Slots -> Ref]
         /\ disk[job[r].target].file \in [Files -> FileState]
<1>1. job[r] \in Job
  BY DEF TypeOK, ContentSaveInv
<1>2. job[r].target \in Contents
  BY DEF ContentSaveInv, SavesInProgress, InProgress
<1>3. disk[job[r].target] \in Directory
  BY <1>2 DEF TypeOK, ContentSaveInv
<1> QED BY <1>1, <1>2, <1>3, DirectoryTypes DEF Job

\* A step that only moves one save on.
LEMMA JobStep ==
  ASSUME ContentSaveInv, NEW r \in Requests, NEW j \in Job, InProgress(j, copied),
         job' = [job EXCEPT ![r] = j],
         UNCHANGED <<temp, home, expired, issued, seen, copied, saves>>,
         disk' \in [Contents -> Directory], named' \subseteq Files
  PROVE  ContentSaveInv'
<1>1. TypeOK'
  BY DEF ContentSaveInv, TypeOK
<1>2. SavesInProgress'
  BY DEF ContentSaveInv, TypeOK, SavesInProgress, InProgress, CopyingFile
<1>3. UploadLostOnlyIfCopied'
  BY DEF ContentSaveInv, UploadLostOnlyIfCopied
<1> QED BY <1>1, <1>2, <1>3 DEF ContentSaveInv

LEMMA IdleInProgress == \A done : InProgress(IdleJob, done)
BY DEF InProgress, IdleJob, CopyingFile

-----------------------------------------------------------------------------
(* One lemma per group of actions *)

LEMMA EnvironmentStep ==
  ASSUME ContentSaveInv,
         \/ \E f \in Files, c \in Contents \cup {NoContent} : Upload(f, c)
         \/ \E f \in Files : CleanUp(f)
         \/ \E c \in Contents : DeleteContent(c)
         \/ Crash
  PROVE  ContentSaveInv'
<1> USE DEF ContentSaveInv
<1>1. CASE \E f \in Files, c \in Contents \cup {NoContent} : Upload(f, c)
  <2>1. TypeOK'
    BY <1>1 DEF Upload, TypeOK
  <2>2. SavesInProgress' /\ UploadLostOnlyIfCopied'
    BY <1>1 DEF Upload, TypeOK, SavesInProgress, InProgress, UploadLostOnlyIfCopied
  <2> QED BY <2>1, <2>2
<1>2. CASE \E f \in Files : CleanUp(f)
  <2>1. TypeOK'
    BY <1>2 DEF CleanUp, TypeOK
  <2>2. SavesInProgress' /\ UploadLostOnlyIfCopied'
    BY <1>2 DEF CleanUp, SavesInProgress, InProgress, UploadLostOnlyIfCopied
  <2> QED BY <2>1, <2>2
<1>3. CASE \E c \in Contents : DeleteContent(c)
  <2>1. TypeOK'
    BY <1>3, DirectoryTypes DEF DeleteContent, TypeOK
  <2>2. SavesInProgress' /\ UploadLostOnlyIfCopied'
    BY <1>3 DEF DeleteContent, SavesInProgress, InProgress, UploadLostOnlyIfCopied
  <2> QED BY <2>1, <2>2
<1>4. CASE Crash
  <2>1. TypeOK'
    BY <1>4, IdleJobType DEF Crash, TypeOK
  <2>2. SavesInProgress' /\ UploadLostOnlyIfCopied'
    BY <1>4, IdleInProgress DEF Crash, SavesInProgress, InProgress, UploadLostOnlyIfCopied
  <2> QED BY <2>1, <2>2
<1> QED BY <1>1, <1>2, <1>3, <1>4

LEMMA StartStep ==
  ASSUME ContentSaveInv, NEW r \in Requests, Start(r)
  PROVE  ContentSaveInv'
<1>0. TypeOK
  BY DEF ContentSaveInv
<1>1. ASSUME NEW c \in Contents, NEW draft \in [Slots -> Ref], NEW update \in BOOLEAN,
             Begin(r, c, draft, update), issued' \subseteq Contents
      PROVE  ContentSaveInv'
  <2> DEFINE j == [IdleJob EXCEPT
                     !.pc = IF update THEN "oldParams" ELSE "mkdir",
                     !.target = c,
                     !.update = update,
                     !.refs = IF update THEN draft ELSE WithoutMarkers(draft),
                     !.uploads = TmpFiles(draft),
                     !.todo = IF update THEN {}
                              ELSE FromTemp(draft, {}) \cup FromPaste(draft)]
  <2>1. j \in Job
    BY IdleJobType, RefsOperatorTypes DEF Job, Control
  <2>2. InProgress(j, copied)
    BY IdleJobType DEF InProgress, CopyingFile, IdleJob
  <2>3. job' = [job EXCEPT ![r] = j]
    BY <1>1 DEF Begin
  <2>4. saves' \in Nat
    BY <1>0, <1>1 DEF Begin, TypeOK
  <2> HIDE DEF j
  <2>5. TypeOK'
    BY <1>0, <1>1, <2>1, <2>3, <2>4 DEF Begin, TypeOK
  <2>6. SavesInProgress' /\ UploadLostOnlyIfCopied'
    BY <1>0, <1>1, <2>2, <2>3
    DEF Begin, ContentSaveInv, TypeOK, SavesInProgress, InProgress, UploadLostOnlyIfCopied
  <2> QED BY <2>5, <2>6 DEF ContentSaveInv
<1>2. ASSUME NEW c \in Contents, NEW draft \in Drafts(NoContent), StartCreate(r, c, draft)
      PROVE  ContentSaveInv'
  <2>1. draft \in [Slots -> Ref]
    BY <1>0, DraftsType
  <2>2. issued' \subseteq Contents
    BY <1>0, <1>2 DEF StartCreate, TypeOK
  <2> QED BY <1>1, <1>2, <2>1, <2>2 DEF StartCreate
<1>3. ASSUME NEW c \in Contents, NEW draft \in Drafts(c), StartUpdate(r, c, draft)
      PROVE  ContentSaveInv'
  <2>1. draft \in [Slots -> Ref]
    BY <1>0, DraftsType
  <2>2. issued' \subseteq Contents
    BY <1>0, <1>3 DEF StartUpdate, TypeOK
  <2> QED BY <1>1, <1>3, <2>1, <2>2 DEF StartUpdate
<1> QED BY <1>2, <1>3 DEF Start

\* The steps before anything is written.
LEMMA ReadStep ==
  ASSUME ContentSaveInv, NEW r \in Requests,
         ReadOldParams(r) \/ ReadOldMetadata(r) \/ Reject(r)
  PROVE  ContentSaveInv'
<1>0. disk' \in [Contents -> Directory] /\ named' \subseteq Files
  BY DEF ReadOldParams, ReadOldMetadata, Reject, ContentSaveInv, TypeOK
<1>1. CASE ReadOldParams(r)
  <2> DEFINE j == [job[r] EXCEPT !.pc = "oldMeta",
                                 !.drop = PlainFiles(disk[job[r].target].params)]
  <2>1. job[r].pc = "oldParams" /\ job' = [job EXCEPT ![r] = j]
    BY <1>1 DEF ReadOldParams
  <2>2. PlainFiles(disk[job[r].target].params) \subseteq Files
    BY <2>1, JobTypes, RefsOperatorTypes
  <2>3. j \in Job
    BY <2>1, <2>2, JobTypes, JobUpdateTypes DEF Control
  <2>4. InProgress(j, copied)
    BY <2>1, JobTypes DEF Job, InProgress, CopyingFile
  <2> QED BY <1>0, <1>1, <2>1, <2>3, <2>4, JobStep DEF ReadOldParams
<1>2. CASE ReadOldMetadata(r)
  <2> DEFINE j == [job[r] EXCEPT
                     !.pc = "mkdir",
                     !.todo = FromTemp(job[r].refs, job[r].drop) \cup FromPaste(job[r].refs),
                     !.drop = Unused(job[r].drop, job[r].refs),
                     !.refs = WithoutMarkers(job[r].refs)]
  <2>1. job[r].pc = "oldMeta" /\ job' = [job EXCEPT ![r] = j]
    BY <1>2 DEF ReadOldMetadata
  <2>2. Unused(job[r].drop, job[r].refs) \subseteq Files
    BY <2>1, JobTypes DEF Unused
  <2>3. /\ FromTemp(job[r].refs, job[r].drop) \cup FromPaste(job[r].refs) \subseteq Slots
        /\ WithoutMarkers(job[r].refs) \in [Slots -> Ref]
    BY <2>1, JobTypes, RefsOperatorTypes
  <2>4. j \in Job
    BY ZenonT(40), <2>1, <2>2, <2>3, JobTypes, JobUpdateTypes DEF Control
  <2>5. InProgress(j, copied)
    BY <2>1, JobTypes DEF Job, InProgress, CopyingFile
  <2> QED BY <1>0, <1>2, <2>1, <2>4, <2>5, JobStep DEF ReadOldMetadata
<1>3. CASE Reject(r)
  BY <1>0, <1>3, IdleJobType, IdleInProgress, JobStep DEF Reject
<1> QED BY <1>1, <1>2, <1>3

\* FileContentStorage.addContent.
LEMMA AddContentStep ==
  ASSUME ContentSaveInv, NEW r \in Requests,
         \/ MakeDirectory(r) \/ OpenMetadata(r) \/ WriteMetadata(r)
         \/ OpenParameters(r) \/ FailToStore(r)
  PROVE  ContentSaveInv'
<1> DEFINE c == job[r].target
<1>0. named' \subseteq Files
  BY DEF MakeDirectory, OpenMetadata, WriteMetadata, OpenParameters, FailToStore,
     ContentSaveInv, TypeOK
<1>1. ASSUME NEW pc \in Control \ CopyingFile, job[r].pc # "idle",
             job' = [job EXCEPT ![r].pc = pc],
             UNCHANGED <<temp, home, expired, issued, seen, copied, saves>>,
             disk' \in [Contents -> Directory]
      PROVE  ContentSaveInv'
  <2> DEFINE j == [job[r] EXCEPT !.pc = pc]
  <2>1. j \in Job /\ InProgress(j, copied)
    BY <1>1, JobTypes DEF Job, Control, InProgress, CopyingFile
  <2>2. job' = [job EXCEPT ![r] = j]
    BY <1>1
  <2> QED BY <1>0, <1>1, <2>1, <2>2, JobStep
<1>2. job[r].pc # "idle"
  BY DEF MakeDirectory, OpenMetadata, WriteMetadata, OpenParameters, FailToStore
<1>3. disk \in [Contents -> Directory]
  BY DEF ContentSaveInv, TypeOK
<1> USE DEF Control, CopyingFile
<1>4. CASE MakeDirectory(r)
  <2>1. disk' \in [Contents -> Directory]
    <3>1. disk' = [disk EXCEPT ![c] = [disk[c] EXCEPT !.dir = TRUE]]
      BY <1>4 DEF MakeDirectory
    <3> QED BY <1>2, <1>3, <3>1, JobTypes, DirectoryUpdateTypes, DiskStep
  <2> QED BY <1>1, <1>2, <1>4, <2>1 DEF MakeDirectory
<1>5. CASE OpenMetadata(r)
  <2>1. disk' \in [Contents -> Directory]
    <3>1. disk' = [disk EXCEPT ![c] = [disk[c] EXCEPT !.meta = "partial"]]
      BY <1>5 DEF OpenMetadata
    <3> QED BY <1>2, <1>3, <3>1, JobTypes, DirectoryUpdateTypes, DiskStep DEF FileState
  <2> QED BY <1>1, <1>2, <1>5, <2>1 DEF OpenMetadata
<1>6. CASE WriteMetadata(r)
  <2>1. disk' \in [Contents -> Directory]
    <3>1. \/ disk' = disk
          \/ disk' = [disk EXCEPT ![c] = [disk[c] EXCEPT !.meta = "complete"]]
      BY <1>6 DEF WriteMetadata
    <3> QED BY <1>2, <1>3, <3>1, JobTypes, DirectoryUpdateTypes, DiskStep DEF FileState
  <2> QED BY <1>1, <1>2, <1>6, <2>1 DEF WriteMetadata
<1>7. CASE OpenParameters(r)
  <2>1. disk' \in [Contents -> Directory]
    <3>1. disk' = [disk EXCEPT ![c] = [disk[c] EXCEPT !.json = "partial",
                                                      !.params = NoRefs]]
      BY <1>2, <1>3, <1>7, JobTypes DEF OpenParameters
    <3> QED BY <1>2, <1>3, <3>1, NoRefsType, JobTypes, DirectoryUpdateTypes, DiskStep
            DEF FileState
  <2> QED BY <1>1, <1>2, <1>7, <2>1 DEF OpenParameters
<1>8. CASE FailToStore(r)
  <2>1. disk' \in [Contents -> Directory]
    BY <1>2, <1>3, <1>8, JobTypes, DirectoryTypes DEF FailToStore
  <2> QED BY <1>0, <1>8, <2>1, IdleJobType, IdleInProgress, JobStep DEF FailToStore
<1> QED BY <1>4, <1>5, <1>6, <1>7, <1>8

LEMMA WriteParametersStep ==
  ASSUME ContentSaveInv, NEW r \in Requests, WriteParameters(r)
  PROVE  ContentSaveInv'
<1> DEFINE j == [job[r] EXCEPT !.pc = IF job[r].again THEN "clean" ELSE "copy"]
<1>0. TypeOK /\ job[r].pc = "writeParams"
  BY DEF ContentSaveInv, WriteParameters
<1>1. j \in Job /\ InProgress(j, copied)
  BY <1>0, JobTypes DEF Job, Control, InProgress, CopyingFile
<1>2. job' = [job EXCEPT ![r] = j]
  BY DEF WriteParameters
<1>3. disk' \in [Contents -> Directory]
  <2> DEFINE c == job[r].target
             complete == [disk[c] EXCEPT !.json = "complete", !.params = job[r].refs]
             garbled == [disk[c] EXCEPT !.json = "partial", !.params = NoRefs]
  <2>1. complete \in Directory /\ garbled \in Directory
    BY <1>0, JobTypes, NoRefsType, DirectoryUpdateTypes DEF FileState
  <2>2. \/ disk' = disk
        \/ disk' = [disk EXCEPT ![c] = complete]
        \/ disk' = [disk EXCEPT ![c] = garbled]
    BY <1>0, JobTypes DEF WriteParameters, TypeOK
  <2> HIDE DEF complete, garbled
  <2> QED BY <1>0, <2>1, <2>2, JobTypes DEF TypeOK
<1>4. seen' \in [Contents -> SUBSET Files]
  <2>1. PlainFiles(job[r].refs) \subseteq Files
    BY <1>0, JobTypes, RefsOperatorTypes
  <2> QED BY <1>0, <2>1, JobTypes DEF WriteParameters, TypeOK
<1> HIDE DEF j
<1>5. TypeOK'
  BY <1>0, <1>1, <1>2, <1>3, <1>4 DEF WriteParameters, TypeOK
<1>6. SavesInProgress' /\ UploadLostOnlyIfCopied'
  BY <1>0, <1>1, <1>2
  DEF WriteParameters, ContentSaveInv, TypeOK, SavesInProgress, InProgress,
      UploadLostOnlyIfCopied
<1> QED BY <1>5, <1>6 DEF ContentSaveInv

\* What opening a source does to a job.
LEMMA OpenTypes ==
  ASSUME NEW j \in Job, j.target \in Contents,
         NEW s \in Slots, NEW file \in Files, NEW whole \in BOOLEAN
  PROVE  LET open == [j EXCEPT !.pc = "openFile", !.slot = s, !.file = file,
                               !.whole = whole]
         IN  open \in Job /\ InProgress(open, copied)
<1> DEFINE open == [j EXCEPT !.pc = "openFile", !.slot = s, !.file = file, !.whole = whole]
<1>1. open \in Job
  BY DEF Job, Control
<1>2. InProgress(open, copied)
  BY DEF Job, InProgress, CopyingFile
<1> QED BY <1>1, <1>2

\* Opening the sources, and the errors of a copy.
LEMMA OpenSourceStep ==
  ASSUME ContentSaveInv, NEW r \in Requests,
         \/ \E s \in Slots : OpenTemporaryFile(r, s)
         \/ \E s \in Slots, name \in Files \cup {NoFile} : OpenPastedFile(r, s, name)
         \/ FailToCopy(r)
  PROVE  ContentSaveInv'
<1>0. TypeOK
  BY DEF ContentSaveInv
<1>1. ASSUME NEW s \in Slots, job[r].pc # "idle"
      PROVE  /\ Clear(job[r], s) \in Job
             /\ InProgress(Clear(job[r], s), copied)
  <2>1. Clear(job[r], s).pc = "copy" /\ Clear(job[r], s).target = job[r].target
    BY <1>1, JobTypes DEF Clear, Keep, Job
  <2> QED BY <1>1, <2>1, JobTypes, KeepType DEF InProgress, CopyingFile
<1>2. ASSUME NEW s \in Slots, NEW file \in Files, NEW whole \in BOOLEAN,
             job[r].pc # "idle"
      PROVE  LET j == [job[r] EXCEPT !.pc = "openFile", !.slot = s, !.file = file,
                                     !.whole = whole]
             IN  j \in Job /\ InProgress(j, copied)
  BY <1>2, JobTypes, OpenTypes
<1>3. ASSUME NEW s \in Slots, OpenTemporaryFile(r, s)
      PROVE  ContentSaveInv'
  <2> DEFINE f == job[r].refs[s].file
             open == [job[r] EXCEPT !.pc = "openFile", !.slot = s, !.file = f,
                                    !.whole = TRUE]
  <2>1. job[r].pc # "idle" /\ disk' \in [Contents -> Directory] /\ named' \subseteq Files
    BY <1>0, <1>3 DEF OpenTemporaryFile, TypeOK
  <2>2. f \in Files
    BY <1>3, <2>1, JobTypes, RefFiles DEF OpenTemporaryFile
  <2>3. CASE job' = [job EXCEPT ![r] = open]
    BY <1>2, <1>3, <2>1, <2>2, <2>3, JobStep DEF OpenTemporaryFile
  <2>4. CASE job' = [job EXCEPT ![r] = Clear(job[r], s)]
    BY <1>1, <1>3, <2>1, <2>4, JobStep DEF OpenTemporaryFile
  <2> QED BY <1>3, <2>3, <2>4 DEF OpenTemporaryFile
<1>4. ASSUME NEW s \in Slots, NEW name \in Files \cup {NoFile}, OpenPastedFile(r, s, name)
      PROVE  ContentSaveInv'
  <2> DEFINE source == disk[job[r].refs[s].from].file[job[r].refs[s].file]
             found == source # "absent" /\ disk[job[r].target].dir
             open == [job[r] EXCEPT !.pc = "openFile", !.slot = s, !.file = name,
                                    !.whole = (source = "complete")]
  <2>1. job[r].pc # "idle" /\ disk' \in [Contents -> Directory] /\ named' \subseteq Files
    BY <1>0, <1>4 DEF OpenPastedFile, TypeOK
  <2>2. CASE found
    <3>1. name \in Files /\ job' = [job EXCEPT ![r] = open]
      BY <1>4, <2>2 DEF OpenPastedFile
    <3> QED BY ZenonT(40), <1>2, <1>4, <2>1, <3>1, JobStep DEF OpenPastedFile
  <2>3. CASE ~found
    <3>1. job' = [job EXCEPT ![r] = Clear(job[r], s)]
      BY <1>4, <2>3 DEF OpenPastedFile
    <3> QED BY <1>1, <1>4, <2>1, <3>1, JobStep DEF OpenPastedFile
  <2> QED BY <2>2, <2>3
<1>5. CASE FailToCopy(r)
  <2>1. job[r].pc # "idle" /\ disk' \in [Contents -> Directory] /\ named' \subseteq Files
    BY <1>0, <1>5 DEF FailToCopy, TypeOK
  <2>2. job[r].slot \in Slots
    BY <1>5 DEF FailToCopy, ContentSaveInv, SavesInProgress, InProgress, CopyingFile
  <2> QED BY <1>1, <1>5, <2>1, <2>2, JobStep DEF FailToCopy
<1> QED BY <1>3, <1>4, <1>5

LEMMA OpenContentFileStep ==
  ASSUME ContentSaveInv, NEW r \in Requests, OpenContentFile(r)
  PROVE  ContentSaveInv'
<1> DEFINE c == job[r].target
           j == [job[r] EXCEPT !.pc = "writeFile"]
<1>1. job[r].pc = "openFile" /\ job' = [job EXCEPT ![r] = j] /\ named' \subseteq Files
  BY DEF OpenContentFile, ContentSaveInv, TypeOK
<1>2. job[r].file \in Files /\ job[r].slot \in Slots
  BY <1>1 DEF ContentSaveInv, SavesInProgress, InProgress, CopyingFile
<1>3. j \in Job /\ InProgress(j, copied)
  BY <1>1, <1>2, JobTypes DEF Job, Control, InProgress, CopyingFile
<1>4. disk' \in [Contents -> Directory]
  <2> DEFINE file == [disk[c].file EXCEPT ![job[r].file] = "partial"]
  <2>1. file \in [Files -> FileState]
    BY <1>1, JobTypes DEF FileState
  <2>2. disk' = [disk EXCEPT ![c] = [disk[c] EXCEPT !.dir = TRUE, !.file = file]]
    BY <1>1, JobTypes DEF OpenContentFile, Directory, ContentSaveInv, TypeOK
  <2> HIDE DEF file
  <2>3. [disk[c] EXCEPT !.dir = TRUE, !.file = file] \in Directory
    BY <1>1, <2>1, JobTypes DEF Directory
  <2> QED BY <1>1, <2>2, <2>3, JobTypes DEF ContentSaveInv, TypeOK
<1> QED BY <1>1, <1>3, <1>4, JobStep DEF OpenContentFile

\* The step that adds to `copied`: afterwards the save may delete the temporary
\* file.
LEMMA WriteContentFileStep ==
  ASSUME ContentSaveInv, NEW r \in Requests, WriteContentFile(r)
  PROVE  ContentSaveInv'
<1> DEFINE c == job[r].target
           f == job[r].file
           s == job[r].slot
<1>1. job[r].pc = "writeFile" /\ TypeOK
  BY DEF WriteContentFile, ContentSaveInv
<1>2. f \in Files /\ s \in Slots
  BY <1>1 DEF ContentSaveInv, SavesInProgress, InProgress, CopyingFile
<1>3. disk' \in [Contents -> Directory]
  <2> DEFINE file == [disk[c].file EXCEPT ![f] = "complete"]
  <2>1. file \in [Files -> FileState]
    BY <1>1, JobTypes DEF FileState
  <2>2. \/ disk' = disk
        \/ disk' = [disk EXCEPT ![c] = [disk[c] EXCEPT !.file = file]]
    BY DEF WriteContentFile
  <2> HIDE DEF file
  <2>3. [disk[c] EXCEPT !.file = file] \in Directory
    BY <1>1, <2>1, JobTypes DEF Directory
  <2> QED BY <1>1, <2>2, <2>3, JobTypes DEF TypeOK
<1>4. copied' \subseteq Files /\ copied \subseteq copied'
  BY <1>1, <1>2 DEF WriteContentFile, TypeOK
<1>5. PICK j \in Job : job' = [job EXCEPT ![r] = j] /\ InProgress(j, copied')
  <2> DEFINE renamed == [Keep(job[r], s) EXCEPT !.refs[s] = FileRef(f), !.dirty = TRUE]
             check == [job[r] EXCEPT !.pc = "checkTemp"]
  <2>1. \/ job' = [job EXCEPT ![r] = renamed]
        \/ job' = [job EXCEPT ![r] = check] /\ copied' = copied \cup {f}
        \/ job' = [job EXCEPT ![r] = Keep(job[r], s)]
    BY DEF WriteContentFile
  <2>2. /\ Keep(job[r], s) \in Job
        /\ Keep(job[r], s).pc = "copy"
        /\ Keep(job[r], s).target \in Contents
    <3>1. Keep(job[r], s) \in Job
      BY <1>1, <1>2, JobTypes, KeepType
    <3>2. /\ Keep(job[r], s).pc = "copy"
          /\ Keep(job[r], s).target = job[r].target
      BY <1>1, JobTypes DEF Keep, Job
    <3> QED BY <1>1, <3>1, <3>2, JobTypes
  <2>3. /\ renamed \in Job
        /\ renamed.pc = "copy"
        /\ renamed.target \in Contents
    <3> DEFINE k == Keep(job[r], s)
               refs == [k.refs EXCEPT ![s] = FileRef(f)]
    <3>1. refs \in [Slots -> Ref]
      BY <1>2, <2>2, RefTypes DEF Job
    <3>2. renamed = [k EXCEPT !.refs = refs, !.dirty = TRUE]
      BY <2>2 DEF Job
    <3> HIDE DEF k, refs
    <3>3. [k EXCEPT !.refs = refs, !.dirty = TRUE] \in Job
      BY <2>2, <3>1 DEF Job, k
    <3> QED BY <2>2, <3>2, <3>3 DEF Job, k
  <2>4. check \in Job /\ (copied' = copied \cup {f} => InProgress(check, copied'))
    <3>1. check \in Job
      <4>1. job[r] \in Job
        BY <1>1, JobTypes
      <4> QED BY <4>1 DEF Job, Control
    <3>2. check.target \in Contents /\ check.slot \in Slots /\ check.file = f
      BY <1>1, <1>2, JobTypes DEF Job
    <3> QED BY <1>2, <3>1, <3>2 DEF InProgress, CopyingFile
  <2>5. InProgress(renamed, copied') /\ InProgress(Keep(job[r], s), copied')
    BY <2>2, <2>3 DEF InProgress, CopyingFile
  <2> HIDE DEF renamed, check
  <2>6. CASE job' = [job EXCEPT ![r] = renamed]
    BY <2>3, <2>5, <2>6
  <2>7. CASE job' = [job EXCEPT ![r] = check] /\ copied' = copied \cup {f}
    BY <2>4, <2>7
  <2>8. CASE job' = [job EXCEPT ![r] = Keep(job[r], s)]
    BY <2>2, <2>5, <2>8
  <2> QED BY <2>1, <2>6, <2>7, <2>8
<1>6. TypeOK'
  BY SMTT(30), <1>1, <1>3, <1>4, <1>5 DEF WriteContentFile, TypeOK
<1>7. SavesInProgress' /\ UploadLostOnlyIfCopied'
  BY <1>1, <1>4, <1>5
  DEF WriteContentFile, ContentSaveInv, TypeOK, SavesInProgress, InProgress,
      UploadLostOnlyIfCopied
<1> QED BY <1>6, <1>7 DEF ContentSaveInv

\* The step that takes a file out of temporary storage: it has been copied.
LEMMA TemporaryFileStep ==
  ASSUME ContentSaveInv, NEW r \in Requests,
         CheckTemporaryFile(r) \/ RemoveTemporaryFile(r)
  PROVE  ContentSaveInv'
<1> DEFINE f == job[r].file
           s == job[r].slot
<1>1. job[r].pc \in {"checkTemp", "rmTemp"} /\ TypeOK
  BY DEF CheckTemporaryFile, RemoveTemporaryFile, ContentSaveInv
<1>2. f \in copied /\ f \in Files /\ s \in Slots
  BY <1>1 DEF ContentSaveInv, SavesInProgress, InProgress, CopyingFile
<1>3. /\ Keep(job[r], s) \in Job /\ InProgress(Keep(job[r], s), copied)
      /\ Clear(job[r], s) \in Job /\ InProgress(Clear(job[r], s), copied)
  <2>1. /\ Keep(job[r], s) \in Job /\ Clear(job[r], s) \in Job
    BY <1>1, <1>2, JobTypes, KeepType
  <2>2. /\ Keep(job[r], s).pc = "copy" /\ Clear(job[r], s).pc = "copy"
        /\ Keep(job[r], s).target = job[r].target /\ Clear(job[r], s).target = job[r].target
    BY <1>1, JobTypes DEF Keep, Clear, Job
  <2> QED BY <1>1, <2>1, <2>2, JobTypes DEF InProgress, CopyingFile
<1>4. CASE CheckTemporaryFile(r)
  <2> DEFINE remove == [job[r] EXCEPT !.pc = "rmTemp"]
  <2>1. remove \in Job /\ InProgress(remove, copied)
    BY <1>1, <1>2, JobTypes DEF Job, Control, InProgress, CopyingFile
  <2>2. \/ job' = [job EXCEPT ![r] = remove]
        \/ job' = [job EXCEPT ![r] = Keep(job[r], s)]
    BY <1>4 DEF CheckTemporaryFile
  <2>3. disk' \in [Contents -> Directory] /\ named' \subseteq Files
    BY <1>1, <1>4 DEF CheckTemporaryFile, TypeOK
  <2> HIDE DEF remove
  <2> QED BY <1>3, <1>4, <2>1, <2>2, <2>3, JobStep DEF CheckTemporaryFile
<1>5. CASE RemoveTemporaryFile(r)
  <2>1. PICK j \in Job : job' = [job EXCEPT ![r] = j] /\ InProgress(j, copied)
    BY <1>3, <1>5 DEF RemoveTemporaryFile
  <2>2. TypeOK'
    BY <1>1, <1>5, <2>1 DEF RemoveTemporaryFile, TypeOK
  <2>3. SavesInProgress'
    BY <1>1, <1>5, <2>1
    DEF RemoveTemporaryFile, ContentSaveInv, TypeOK, SavesInProgress, InProgress
  <2>4. UploadLostOnlyIfCopied'
    BY <1>2, <1>5 DEF RemoveTemporaryFile, ContentSaveInv, UploadLostOnlyIfCopied
  <2> QED BY <2>2, <2>3, <2>4 DEF ContentSaveInv
<1> QED BY <1>4, <1>5

\* The end of the copying and the deletion of unused files.
LEMMA CleanStep ==
  ASSUME ContentSaveInv, NEW r \in Requests,
         EndCopy(r) \/ Finish(r) \/ \E f \in Files : DeleteUnusedFile(r, f)
  PROVE  ContentSaveInv'
<1>1. CASE EndCopy(r)
  <2> DEFINE again == [job[r] EXCEPT !.pc = "mkdir", !.again = TRUE]
             clean == [job[r] EXCEPT !.pc = "clean"]
  <2>1. job[r].pc = "copy" /\ disk' \in [Contents -> Directory] /\ named' \subseteq Files
    BY <1>1 DEF EndCopy, ContentSaveInv, TypeOK
  <2>2. again \in Job /\ clean \in Job
    BY <2>1, JobTypes, ControlUpdateTypes DEF Control
  <2>3. InProgress(again, copied) /\ InProgress(clean, copied)
    BY <2>1, JobTypes DEF Job, InProgress, CopyingFile
  <2>4. job' = [job EXCEPT ![r] = again] \/ job' = [job EXCEPT ![r] = clean]
    BY <1>1 DEF EndCopy
  <2> HIDE DEF again, clean
  <2> QED BY <1>1, <2>1, <2>2, <2>3, <2>4, JobStep DEF EndCopy
<1>2. CASE Finish(r)
  <2>1. disk' \in [Contents -> Directory] /\ named' \subseteq Files
    BY <1>2 DEF Finish, ContentSaveInv, TypeOK
  <2> QED BY <1>2, <2>1, IdleJobType, IdleInProgress, JobStep DEF Finish
<1>3. ASSUME NEW f \in Files, DeleteUnusedFile(r, f)
      PROVE  ContentSaveInv'
  <2> DEFINE c == job[r].target
             j == [job[r] EXCEPT !.drop = @ \ {f}]
  <2>1. job[r].pc = "clean" /\ job' = [job EXCEPT ![r] = j] /\ named' \subseteq Files
    BY <1>3 DEF DeleteUnusedFile, ContentSaveInv, TypeOK
  <2>2. j \in Job /\ InProgress(j, copied)
    BY <2>1, JobTypes DEF Job, InProgress, CopyingFile
  <2>3. disk' \in [Contents -> Directory]
    <3> DEFINE file == [disk[c].file EXCEPT ![f] = "absent"]
    <3>1. file \in [Files -> FileState]
      BY <2>1, JobTypes DEF FileState
    <3>2. \/ disk' = disk
          \/ disk' = [disk EXCEPT ![c] = [disk[c] EXCEPT !.file = file]]
      BY <1>3 DEF DeleteUnusedFile
    <3> HIDE DEF file
    <3>3. [disk[c] EXCEPT !.file = file] \in Directory
      BY <2>1, <3>1, JobTypes DEF Directory
    <3> QED BY <2>1, <3>2, <3>3, JobTypes DEF ContentSaveInv, TypeOK
  <2> QED BY <1>3, <2>1, <2>2, <2>3, JobStep DEF DeleteUnusedFile
<1> QED BY <1>1, <1>2, <1>3

LEMMA NextStep ==
  ASSUME ContentSaveInv, [Next]_vars
  PROVE  ContentSaveInv'
<1>1. CASE \/ \E f \in Files, c \in Contents \cup {NoContent} : Upload(f, c)
           \/ \E f \in Files : CleanUp(f)
           \/ \E c \in Contents : DeleteContent(c)
           \/ Crash
  BY <1>1, EnvironmentStep
<1>2. ASSUME NEW r \in Requests, Start(r)
      PROVE  ContentSaveInv'
  BY <1>2, StartStep
<1>3. ASSUME NEW r \in Requests, SaveStep(r)
      PROVE  ContentSaveInv'
  BY <1>3, ReadStep, AddContentStep, WriteParametersStep, OpenSourceStep,
     OpenContentFileStep, WriteContentFileStep, TemporaryFileStep, CleanStep
  DEF SaveStep
<1>4. CASE UNCHANGED vars
  BY <1>4 DEF vars, ContentSaveInv, TypeOK, SavesInProgress, InProgress,
     UploadLostOnlyIfCopied
<1> QED BY <1>1, <1>2, <1>3, <1>4 DEF Next

-----------------------------------------------------------------------------
(* The theorems *)

\* The inductive invariant holds of every behaviour of the saves.
THEOREM ContentSaveInvariant == Spec => []ContentSaveInv
<1>1. ContentSaveInv /\ [Next]_vars => ContentSaveInv'
  BY NextStep
<1> QED BY InitInv, <1>1, PTL DEF Spec

\* Every variable keeps its type: in particular no step of a save refers to a
\* content, a file or a reference that does not exist.
THEOREM TypeCorrect == Spec => []TypeOK
BY ContentSaveInvariant, PTL DEF ContentSaveInv

\* No upload is lost: it leaves temporary storage only when it expired, or when
\* a save has completely written it to a content before (addOrUpdateContent
\* deletes a temporary file only after addContentFile returned), with any number
\* of overlapping saves, crashes, failing writes and deletions.
THEOREM NoUploadLost == Spec => []UploadLostOnlyIfCopied
BY ContentSaveInvariant, PTL DEF ContentSaveInv

-----------------------------------------------------------------------------
(* The phases of a save *)

Reading == {"oldParams", "oldMeta"}
Working == Control \ ({"idle"} \cup Reading)

\* Everything before the first step that writes to the content directory.
Planning(j) == j.pc \in Reading \/ (j.pc = "mkdir" /\ ~j.again)

\* No save is past its planning of content c: c is as the last save left it.
Settled(c) == \A r \in Requests : job[r].target = c => Planning(job[r])

\* The home of the temporary files that a save copies.
Editor(j) == IF j.update THEN j.target ELSE NoContent

Complete(c, f) == disk[c].file[f] = "complete"

PlainRef(ref, f) == ref.kind = "file" /\ ref.file = f

\* A stored reference to f may be left without its file: the failed copy of a
\* file clears one of two references to it.
Excused(f) == "duplicate" \in env /\ ("ioerror" \in env \/ f \in expired)

NoCrash     == "crash" \notin env
NoPartials  == NoCrash /\ ~({"duplicate", "ioerror"} \subseteq env)
NoFailure   == env \cap {"crash", "ioerror"} = {}
Calm        == env \subseteq {"parallel", "duplicate", "paste", "delete"}

-----------------------------------------------------------------------------
(* The inductive invariant: the requests *)

IdleIsClean(r) == job[r].pc = "idle" => job[r] = IdleJob

TargetIsIssued(r) == job[r].pc # "idle" => job[r].target \in issued

\* A name that is not given out yet occurs nowhere.
NamesOfJob(r) ==
  /\ \A s \in Slots : job[r].refs[s].kind # "none" => job[r].refs[s].file \in named
  /\ job[r].drop \subseteq named
  /\ job[r].file # NoFile => job[r].file \in named

\* While the old content is read, the parameters are still those of the client:
\* they reference what is stored or was uploaded in the editor of the content.
Draft(r) ==
  LET j == job[r]
      stored == PlainFiles(disk[j.target].params)
  IN  j.pc \in Reading =>
        /\ j.update /\ ~j.again /\ ~j.dirty
        /\ j.todo = {}
        /\ j.uploads = TmpFiles(j.refs)
        /\ \A s \in Slots :
             /\ j.refs[s].kind = "file" => j.refs[s].file \in stored
             /\ j.refs[s].kind = "tmp" =>
                  \/ j.refs[s].file \in stored
                  \/ home[j.refs[s].file] = j.target /\ j.refs[s].file \in temp \cup expired
        /\ j.pc = "oldParams" => j.drop = {}
        /\ j.pc = "oldMeta" => Readable(j.target) /\ j.drop = stored

NoDuplicates(r) ==
  "duplicate" \notin env =>
    \A s, t \in Slots :
      job[r].refs[s].kind # "none" /\ job[r].refs[s].file = job[r].refs[t].file => s = t

\* The markers are gone, and pasted references wait to be copied.
NoMarkers(r) ==
  LET j == job[r] IN
  j.pc \in Working =>
    /\ \A s \in Slots :
         /\ j.refs[s].kind # "tmp"
         /\ j.refs[s].kind = "paste" => s \in j.todo
         /\ s \in j.todo => j.refs[s].kind # "none"
    /\ j.again \/ j.pc = "clean" => j.todo = {}

\* What a save still has to copy is in temporary storage, unless it expired.
TodoIsThere(r) ==
  LET j == job[r] IN
  j.pc \in Working =>
    \A s \in j.todo : j.refs[s].kind = "file" =>
      /\ home[j.refs[s].file] = Editor(j)
      /\ j.refs[s].file \in temp \cup expired
      /\ \A t \in j.todo : PlainRef(j.refs[t], j.refs[s].file) => s = t

\* What it does not have to copy is complete.
DoneIsComplete(r) ==
  LET j == job[r] IN
  NoCrash /\ j.pc \in Working =>
    \A s \in Slots \ j.todo : j.refs[s].kind = "file" =>
      \/ Complete(j.target, j.refs[s].file)
      \/ Excused(j.refs[s].file)
      \/ \E t \in j.todo : PlainRef(j.refs[t], j.refs[s].file)

\* What it will delete is not referenced.
DropsUnused(r) ==
  LET j == job[r] IN
  j.pc \in Working =>
    /\ j.drop \cap PlainFiles(j.refs) = {}
    /\ ~j.update => j.drop = {}

\* The phase of the save tells what is in the directory.
Phase(r) ==
  LET j == job[r]
      d == disk[j.target]
  IN
  /\ j.pc \in Working \ {"mkdir"} => d.dir
  /\ j.pc = "mkdir" /\ j.again => d.dir
  /\ j.pc = "writeParams" => d.json = "partial"
  /\ j.pc = "copy" \/ j.pc \in CopyingFile =>
       /\ d.json = "complete"
       /\ ~j.again
       /\ ~j.dirty => d.params = j.refs
  /\ j.pc = "clean" => d.json = "complete" /\ d.params = j.refs

\* The file being copied.
Copying(r) ==
  LET j == job[r]
      d == disk[j.target]
      ref == j.refs[j.slot]
      pasted == ref.kind = "paste"
  IN
  j.pc \in CopyingFile =>
    /\ j.slot \in j.todo
    /\ ref.kind = "file" => j.file = ref.file /\ j.whole
    /\ pasted => /\ j.file \notin temp \cup expired \cup PlainFiles(d.params) \cup j.drop
                 /\ \A s \in Slots : j.refs[s].kind # "none" => j.refs[s].file # j.file
    /\ j.pc = "openFile" /\ (pasted \/ NoCrash) => ~Complete(j.target, j.file)
    /\ NoPartials => j.whole
    /\ j.pc = "writeFile" => d.file[j.file] # "absent"
    /\ j.pc \in {"checkTemp", "rmTemp"} =>
         ref.kind = "file" /\ j.update /\ Complete(j.target, j.file)

\* The first save of a content finds none of its files.
NewFilesAreMissing(r) ==
  LET j == job[r] IN
  NoCrash /\ j.pc \in Working /\ ~j.update =>
    \A s \in j.todo : j.refs[s].kind = "file" => ~Complete(j.target, j.refs[s].file)

\* No save writes to a file that another one is about to paste.
PasteSources(r) ==
  NoPartials =>
    \A s \in Slots : job[r].refs[s].kind = "paste" =>
      LET c == job[r].refs[s].from
          f == job[r].refs[s].file
      IN
      /\ c # job[r].target
      /\ c \in issued
      /\ ~(home[f] = c /\ f \in temp)
      /\ disk[c].file[f] # "partial"
      /\ \A q \in Requests : job[q].pc # "idle" /\ job[q].target = c =>
           /\ job[q].update
           /\ job[q].pc \in {"openFile", "writeFile"} => job[q].file # f

\* Unused files are known to the save that has to delete them.
UnusedAreDropped(r) ==
  LET j == job[r] IN
  Calm /\ j.pc \in Working =>
    \A f \in Files : disk[j.target].file[f] # "absent" =>
      \/ f \in PlainFiles(j.refs) \cup j.drop
      \/ j.pc = "writeFile" /\ j.file = f

UploadsAreReferenced(r) ==
  LET j == job[r] IN
  NoFailure /\ j.pc \in Working => j.uploads \ expired \subseteq PlainFiles(j.refs)

RequestInv(r) ==
  /\ IdleIsClean(r) /\ TargetIsIssued(r) /\ NamesOfJob(r) /\ Draft(r)
  /\ NoDuplicates(r) /\ NoMarkers(r) /\ TodoIsThere(r) /\ DoneIsComplete(r)
  /\ DropsUnused(r) /\ Phase(r) /\ Copying(r) /\ NewFilesAreMissing(r)
  /\ PasteSources(r) /\ UnusedAreDropped(r) /\ UploadsAreReferenced(r)

-----------------------------------------------------------------------------
(* The inductive invariant: the contents, and the whole *)

NamesOfContent(c) ==
  /\ PlainFiles(disk[c].params) \subseteq named
  /\ \A f \in Files : disk[c].file[f] # "absent" => f \in named

UnissuedIsEmpty(c) == c \notin issued => disk[c] = NoDirectory

UnreadableIsEmpty(c) == ~Readable(c) => disk[c].params = NoRefs

\* A file is both in temporary storage and complete in the content of its
\* editor only until the save that copied it deletes the temporary one.
Leftovers(c) ==
  NoCrash =>
    \A f \in temp : home[f] = c /\ Complete(c, f) =>
      \E r \in Requests : /\ job[r].target = c
                          /\ job[r].pc \in {"checkTemp", "rmTemp"}
                          /\ job[r].file = f

\* A file is partial only while a save writes it.
Partials(c) ==
  NoFailure =>
    \A f \in Files : disk[c].file[f] = "partial" =>
      \E r \in Requests : /\ job[r].target = c
                          /\ job[r].pc = "writeFile"
                          /\ job[r].file = f

\* What StoredReferencesResolve says, also of duplicate references and while
\* the next save reads the content.
Resolved(c) ==
  NoCrash /\ Settled(c) /\ Readable(c) =>
    \A s \in Slots :
      LET ref == disk[c].params[s] IN
      /\ ref.kind \in {"none", "file"}
      /\ ref.kind = "file" => Complete(c, ref.file) \/ Excused(ref.file)

\* What NoUnusedFiles says, also while the next save reads the content.
Tidy(c) ==
  Calm /\ Settled(c) =>
    \A f \in Files : disk[c].file[f] # "absent" => f \in PlainFiles(disk[c].params)

ContentInv(c) ==
  /\ NamesOfContent(c) /\ UnissuedIsEmpty(c) /\ UnreadableIsEmpty(c)
  /\ Leftovers(c) /\ Partials(c) /\ Resolved(c) /\ Tidy(c)

OneSavePerContent ==
  \A q, r \in Requests : job[q].pc # "idle" /\ job[q].target = job[r].target => q = r

KnownNames ==
  /\ temp \subseteq named
  /\ expired \subseteq named
  /\ temp \cap expired = {}
  /\ expired # {} => "expiry" \in env

FilesInv ==
  /\ KnownNames
  /\ OneSavePerContent
  /\ \A r \in Requests : RequestInv(r)
  /\ \A c \in Contents : ContentInv(c)

\* The types and the invariant before a step of the clients considered here.
Before ==
  /\ ContentSaveInv
  /\ OneAfterTheOther
  /\ FilesInv

\* A request without a save keeps the invariant.
LEMMA IdleRequest ==
  \A r \in Requests : job[r] = IdleJob => RequestInv(r)
<1> SUFFICES ASSUME NEW r \in Requests, job[r] = IdleJob
             PROVE  RequestInv(r)
  OBVIOUS
<1>1. /\ job[r].pc = "idle"
      /\ job[r].drop = {}
      /\ job[r].file = NoFile
      /\ \A s \in Slots : job[r].refs[s] = NoRef
  BY DEF IdleJob, NoRefs
<1>2. \A s \in Slots : job[r].refs[s].kind = "none"
  BY <1>1 DEF NoRef
<1>3. IdleIsClean(r) /\ TargetIsIssued(r)
  BY <1>1 DEF IdleIsClean, TargetIsIssued
<1>4. NamesOfJob(r) /\ NoDuplicates(r) /\ PasteSources(r)
  BY <1>1, <1>2 DEF NamesOfJob, NoDuplicates, PasteSources
<1>5. Draft(r)
  BY <1>1 DEF Draft, Reading
<1>6. /\ NoMarkers(r) /\ TodoIsThere(r) /\ DoneIsComplete(r) /\ DropsUnused(r)
      /\ NewFilesAreMissing(r) /\ UnusedAreDropped(r) /\ UploadsAreReferenced(r)
  BY <1>1 DEF NoMarkers, TodoIsThere, DoneIsComplete, DropsUnused,
     NewFilesAreMissing, UnusedAreDropped, UploadsAreReferenced, Working
<1>7. Phase(r) /\ Copying(r)
  BY <1>1 DEF Phase, Copying, Working, CopyingFile
<1> QED BY <1>3, <1>4, <1>5, <1>6, <1>7 DEF RequestInv

LEMMA IdleRequestNext ==
  (\A r \in Requests : job[r] = IdleJob => RequestInv(r))'
BY IdleRequest, PTL

LEMMA InitFiles == Init => FilesInv
<1> SUFFICES ASSUME Init
             PROVE  FilesInv
  OBVIOUS
<1>1. \A r \in Requests : job[r] = IdleJob
  BY DEF Init
<1>2. \A c \in Contents : disk[c] = NoDirectory
  BY DEF Init
<1>3. KnownNames /\ OneSavePerContent
  BY <1>1 DEF Init, KnownNames, OneSavePerContent, IdleJob
<1>4. ASSUME NEW r \in Requests
      PROVE  RequestInv(r)
  BY <1>1, IdleRequest
<1>5. ASSUME NEW c \in Contents
      PROVE  ContentInv(c)
  BY <1>2 DEF Init, ContentInv, NamesOfContent, UnissuedIsEmpty,
     UnreadableIsEmpty, Leftovers, Partials, Resolved, Tidy, Complete, Readable,
     NoDirectory, PlainFiles, NoRefs, NoRef
<1> QED BY <1>3, <1>4, <1>5 DEF FilesInv

-----------------------------------------------------------------------------
(* What a step of one save leaves alone *)

\* A step of the save r, as the other saves and the other contents see it.
StepOf(r) ==
  LET c == job[r].target IN
  /\ job[r].pc # "idle"
  /\ \A q \in Requests \ {r} : job'[q] = job[q]
  /\ \A d \in Contents \ {c} : disk'[d] = disk[d]
  /\ home' = home /\ issued' = issued /\ expired' = expired /\ env' = env
  /\ named \subseteq named'
  /\ temp' \subseteq temp
  /\ \A f \in temp \ temp' : home[f] = c
  /\ \/ job'[r] = IdleJob
     \/ /\ job'[r].pc # "idle"
        /\ job'[r].target = c
        /\ job'[r].update = job[r].update
  /\ \A f \in Files :
       \/ disk'[c].file[f] \in {disk[c].file[f], "absent"}
       \/ f = job[r].file /\ job[r].pc \in {"openFile", "writeFile"}
  /\ job'[r].pc \in {"openFile", "writeFile"} =>
       \/ job[r].pc \in {"openFile", "writeFile"} /\ job'[r].file = job[r].file
       \/ job'[r].file \notin named
       \/ job[r].update => job'[r].file \in temp /\ home[job'[r].file] = c

LEMMA OthersKeepNames ==
  ASSUME Before, NEW r \in Requests, StepOf(r), named' \subseteq Files
  PROVE  KnownNames' /\ OneSavePerContent'
<1>1. KnownNames'
  BY DEF Before, FilesInv, KnownNames, StepOf
<1>2. OneSavePerContent'
  <2>1. ASSUME NEW q \in Requests, NEW p \in Requests,
               job'[q].pc # "idle", job'[q].target = job'[p].target
        PROVE  q = p
    <3>1. job[q].pc # "idle" /\ job'[q].target = job[q].target
      BY <2>1 DEF StepOf, IdleJob
    <3>2. job[q].target \in Contents
      BY <3>1, JobTypes DEF Before
    <3>3. job'[p].target # NoContent
      BY <2>1, <3>1, <3>2, ContentSaveAssumption
    <3>4. job'[p] # IdleJob
      BY <3>3 DEF IdleJob
    <3> QED BY ZenonT(40), <2>1, <3>1, <3>4 DEF Before, FilesInv, OneSavePerContent, StepOf
  <2> QED BY <2>1 DEF OneSavePerContent
<1> QED BY <1>1, <1>2

\* The other saves.
LEMMA OthersKeepRequests ==
  ASSUME Before, ContentSaveInv', NEW r \in Requests, StepOf(r), NEW q \in Requests \ {r}
  PROVE  RequestInv(q)'
<1>1. CASE job[q].pc = "idle"
  <2>1. job'[q] = IdleJob
    BY <1>1 DEF Before, FilesInv, RequestInv, IdleIsClean, StepOf
  <2> QED BY <2>1, IdleRequestNext
<1>2. CASE job[q].pc # "idle"
  <2> DEFINE c == job[q].target
  <2>0. Before /\ RequestInv(q)
    BY DEF Before, FilesInv
  <2>1. /\ job'[q] = job[q]
        /\ c \in Contents /\ c # job[r].target
        /\ job[r].target \in Contents
    BY <1>2, JobTypes DEF Before, FilesInv, OneSavePerContent, StepOf
  <2>2. /\ disk'[c] = disk[c]
        /\ home' = home /\ issued' = issued /\ expired' = expired /\ env' = env
        /\ named \subseteq named' /\ temp' \subseteq temp
    BY <2>1 DEF StepOf
  <2>3. \A f \in temp \ temp' : home[f] # c /\ home[f] # NoContent
    BY <2>1, ContentSaveAssumption DEF StepOf
  <2> HIDE DEF c
  <2>4. IdleIsClean(q)' /\ TargetIsIssued(q)' /\ NamesOfJob(q)' /\ NoDuplicates(q)'
    BY <2>0, <2>1, <2>2
    DEF RequestInv, IdleIsClean, TargetIsIssued, NamesOfJob, NoDuplicates
  <2>5. Draft(q)'
    BY <2>0, <2>1, <2>2, <2>3 DEF RequestInv, Draft, Readable, c
  <2>6. NoMarkers(q)' /\ DropsUnused(q)'
    BY <2>0, <2>1, <2>2 DEF RequestInv, NoMarkers, DropsUnused
  <2>7. TodoIsThere(q)'
    BY <2>0, <2>1, <2>2, <2>3 DEF RequestInv, TodoIsThere, Editor, c
  <2>8. DoneIsComplete(q)' /\ NewFilesAreMissing(q)'
    BY <2>0, <2>1, <2>2
    DEF RequestInv, DoneIsComplete, NewFilesAreMissing, Complete, Excused, NoCrash, c
  <2>9. Phase(q)'
    BY <2>0, <2>1, <2>2 DEF RequestInv, Phase, c
  <2>10. Copying(q)'
    BY <2>0, <2>1, <2>2
    DEF RequestInv, Copying, Complete, NoCrash, NoPartials, c
  <2>11. UnusedAreDropped(q)' /\ UploadsAreReferenced(q)'
    BY <2>0, <2>1, <2>2
    DEF RequestInv, UnusedAreDropped, UploadsAreReferenced, Calm, NoFailure, c
  <2>12. PasteSources(q)'
    <3> SUFFICES ASSUME NoPartials, NEW s \in Slots, job[q].refs[s].kind = "paste"
                 PROVE  LET d == job[q].refs[s].from
                            f == job[q].refs[s].file
                        IN  /\ d # job[q].target
                            /\ d \in issued
                            /\ ~(home[f] = d /\ f \in temp')
                            /\ disk'[d].file[f] # "partial"
                            /\ \A p \in Requests : job'[p].pc # "idle" /\ job'[p].target = d =>
                                 /\ job'[p].update
                                 /\ job'[p].pc \in {"openFile", "writeFile"} => job'[p].file # f
      BY <2>1, <2>2 DEF PasteSources, NoCrash, NoPartials
    <3> DEFINE d == job[q].refs[s].from
               f == job[q].refs[s].file
    <3>1. /\ d # job[q].target
          /\ d \in issued
          /\ ~(home[f] = d /\ f \in temp)
          /\ disk[d].file[f] # "partial"
          /\ \A p \in Requests : job[p].pc # "idle" /\ job[p].target = d =>
               /\ job[p].update
               /\ job[p].pc \in {"openFile", "writeFile"} => job[p].file # f
      BY <2>0 DEF RequestInv, PasteSources
    <3>2. f \in named /\ f \in Files /\ d \in Contents
      <4>1. job[q].refs[s] \in Ref
        BY <1>2, <2>0, JobTypes DEF Before
      <4> QED BY <2>0, <4>1, RefFiles DEF RequestInv, NamesOfJob
    <3> HIDE DEF d, f
    <3>3. disk'[d].file[f] # "partial"
      <4>1. CASE d = job[r].target
        BY <3>1, <3>2, <4>1 DEF StepOf
      <4>2. CASE d # job[r].target
        BY <3>1, <3>2, <4>2 DEF StepOf
      <4> QED BY <4>1, <4>2
    <3>4. ASSUME NEW p \in Requests, job'[p].pc # "idle", job'[p].target = d
          PROVE  /\ job'[p].update
                 /\ job'[p].pc \in {"openFile", "writeFile"} => job'[p].file # f
      <4>1. CASE p = r
        <5>1. /\ job[r].target = d /\ job[r].pc # "idle"
              /\ job'[r].update = job[r].update
          BY <3>4, <4>1 DEF StepOf, IdleJob
        <5> QED BY <3>1, <3>2, <4>1, <5>1 DEF StepOf
      <4>2. CASE p # r
        BY <3>1, <3>4, <4>2 DEF StepOf
      <4> QED BY <4>1, <4>2
    <3> QED BY <2>2, <3>1, <3>3, <3>4 DEF d, f
  <2> QED BY <2>4, <2>5, <2>6, <2>7, <2>8, <2>9, <2>10, <2>11, <2>12 DEF RequestInv
<1> QED BY <1>1, <1>2

\* The other contents.
LEMMA OthersKeepContents ==
  ASSUME Before, ContentSaveInv', NEW r \in Requests, StepOf(r),
         NEW c \in Contents, c # job[r].target
  PROVE  ContentInv(c)'
<1>0. ContentInv(c)
  BY DEF Before, FilesInv
<1>1. /\ disk'[c] = disk[c]
      /\ home' = home /\ issued' = issued /\ expired' = expired /\ env' = env
      /\ named \subseteq named' /\ temp' \subseteq temp
  BY DEF StepOf
<1>2. \A q \in Requests : job[q].target = c => q # r /\ job'[q] = job[q]
  BY DEF StepOf
<1>3. Settled(c)' => Settled(c)
  BY <1>2 DEF Settled, Planning
<1>4. NamesOfContent(c)' /\ UnissuedIsEmpty(c)' /\ UnreadableIsEmpty(c)'
  BY <1>0, <1>1
  DEF ContentInv, NamesOfContent, UnissuedIsEmpty, UnreadableIsEmpty, Readable
<1>5. Leftovers(c)' /\ Partials(c)'
  BY <1>0, <1>1, <1>2
  DEF ContentInv, Leftovers, Partials, Complete, NoCrash, NoFailure
<1>6. Resolved(c)' /\ Tidy(c)'
  BY <1>0, <1>1, <1>3
  DEF ContentInv, Resolved, Tidy, Readable, Complete, Excused, NoCrash, Calm
<1> QED BY <1>4, <1>5, <1>6 DEF ContentInv

\* So a step of a save has to care for the save and its content only.
LEMMA StepKeepsFiles ==
  ASSUME Before, ContentSaveInv', NEW r \in Requests, StepOf(r),
         RequestInv(r)', NEW c \in Contents, c = job[r].target, ContentInv(c)'
  PROVE  FilesInv'
<1>1. KnownNames' /\ OneSavePerContent'
  BY OthersKeepNames DEF ContentSaveInv, TypeOK
<1>2. \A q \in Requests : RequestInv(q)'
  BY OthersKeepRequests
<1>3. \A d \in Contents : ContentInv(d)'
  BY OthersKeepContents
<1> QED BY <1>1, <1>2, <1>3 DEF FilesInv

-----------------------------------------------------------------------------
(* What many steps of a save have in common *)

LEMMA OwnPasteSources ==
  ASSUME Before, ContentSaveInv', NEW r \in Requests, StepOf(r), job'[r].pc # "idle",
         \A s \in Slots : job'[r].refs[s].kind = "paste" => job'[r].refs[s] = job[r].refs[s]
  PROVE  PasteSources(r)'
<1>0. /\ job'[r].target = job[r].target
      /\ temp' \subseteq temp /\ home' = home /\ issued' = issued /\ env' = env
  BY DEF StepOf, IdleJob
<1> SUFFICES ASSUME NoPartials, NEW s \in Slots, job'[r].refs[s].kind = "paste"
             PROVE  LET d == job[r].refs[s].from
                        f == job[r].refs[s].file
                    IN  /\ d # job[r].target
                        /\ d \in issued
                        /\ ~(home[f] = d /\ f \in temp')
                        /\ disk'[d].file[f] # "partial"
                        /\ \A p \in Requests : job'[p].pc # "idle" /\ job'[p].target = d =>
                             /\ job'[p].update
                             /\ job'[p].pc \in {"openFile", "writeFile"} => job'[p].file # f
  BY SMTT(30), <1>0 DEF PasteSources, NoCrash, NoPartials
<1> DEFINE d == job[r].refs[s].from
           f == job[r].refs[s].file
<1>1. /\ d # job[r].target
      /\ d \in issued
      /\ ~(home[f] = d /\ f \in temp)
      /\ disk[d].file[f] # "partial"
      /\ \A p \in Requests : job[p].pc # "idle" /\ job[p].target = d =>
           /\ job[p].update
           /\ job[p].pc \in {"openFile", "writeFile"} => job[p].file # f
  BY SMTT(30) DEF Before, FilesInv, RequestInv, PasteSources
<1>2. d \in Contents
  BY <1>1 DEF Before, ContentSaveInv, TypeOK
<1> HIDE DEF d, f
<1>3. disk'[d] = disk[d]
  BY <1>1, <1>2 DEF StepOf
<1>4. \A p \in Requests : job'[p].target = d => job'[p] = job[p]
  BY <1>0, <1>1 DEF StepOf
<1> QED BY SMTT(30), <1>0, <1>1, <1>3, <1>4 DEF d, f

\* The content of a save that is past its planning.
LEMMA WorkingContent ==
  ASSUME Before, NEW r \in Requests, StepOf(r), NEW c \in Contents, c = job[r].target,
         job'[r].pc # "idle", ~Planning(job[r])'
  PROVE  UnissuedIsEmpty(c)' /\ Resolved(c)' /\ Tidy(c)'
<1>1. c \in issued' /\ job'[r].target = c
  BY DEF Before, FilesInv, RequestInv, TargetIsIssued, StepOf, IdleJob
<1> QED BY <1>1 DEF UnissuedIsEmpty, Resolved, Tidy, Settled

\* A step that leaves the references and what is to be done with them alone.
LEMMA SameReferences ==
  ASSUME Before, ContentSaveInv', NEW r \in Requests, StepOf(r),
         job[r].pc \in Working, job'[r].pc \in Working,
         temp' = temp,
         job'[r].refs = job[r].refs, job'[r].todo = job[r].todo,
         job'[r].drop = job[r].drop, job'[r].uploads = job[r].uploads,
         job'[r].file \in {job[r].file, NoFile} \cup named'
  PROVE  /\ IdleIsClean(r)' /\ TargetIsIssued(r)' /\ NamesOfJob(r)' /\ Draft(r)'
         /\ NoDuplicates(r)' /\ TodoIsThere(r)' /\ DropsUnused(r)'
         /\ PasteSources(r)' /\ UploadsAreReferenced(r)'
<1>1. /\ job'[r].target = job[r].target /\ job'[r].update = job[r].update
      /\ job'[r].pc # "idle" /\ job[r].pc # "idle"
  BY DEF StepOf, Working, IdleJob
<1>2. /\ home' = home /\ issued' = issued /\ expired' = expired /\ env' = env
      /\ named \subseteq named'
  BY DEF StepOf
<1>3. RequestInv(r)
  BY DEF Before, FilesInv
<1>4. IdleIsClean(r)' /\ TargetIsIssued(r)'
  BY <1>1, <1>2, <1>3 DEF RequestInv, IdleIsClean, TargetIsIssued
<1>5. NamesOfJob(r)' /\ NoDuplicates(r)'
  BY <1>2, <1>3 DEF RequestInv, NamesOfJob, NoDuplicates
<1>6. Draft(r)'
  BY DEF Draft, Working
<1>7. TodoIsThere(r)' /\ DropsUnused(r)'
  BY <1>1, <1>2, <1>3 DEF RequestInv, TodoIsThere, Editor, DropsUnused
<1>8. PasteSources(r)'
  BY <1>1, OwnPasteSources
<1>9. UploadsAreReferenced(r)'
  BY <1>2, <1>3 DEF RequestInv, UploadsAreReferenced, NoFailure
<1> QED BY <1>4, <1>5, <1>6, <1>7, <1>8, <1>9

\* A step of addContent, or between the phases: no file is touched.
LEMMA ControlStep ==
  ASSUME Before, ContentSaveInv', NEW r \in Requests, NEW c \in Contents,
         c = job[r].target, StepOf(r),
         job[r].pc \in Working \ CopyingFile, job'[r].pc \in Working \ CopyingFile,
         temp' = temp, named' = named,
         job'[r].refs = job[r].refs, job'[r].todo = job[r].todo,
         job'[r].drop = job[r].drop, job'[r].uploads = job[r].uploads,
         job'[r].file = job[r].file,
         job'[r].again \/ job'[r].pc = "clean" => job[r].todo = {},
         ~Planning(job[r])',
         disk'[c].file = disk[c].file,
         disk'[c].params \in {disk[c].params, NoRefs, job[r].refs},
         UnreadableIsEmpty(c)', Phase(r)'
  PROVE  FilesInv'
<1>1. /\ job'[r].target = c /\ job'[r].update = job[r].update
      /\ job'[r].pc # "idle" /\ job[r].pc # "idle"
      /\ expired' = expired /\ home' = home /\ env' = env
  BY DEF StepOf, Working, IdleJob
<1>2. RequestInv(r) /\ ContentInv(c)
  BY DEF Before, FilesInv
<1>3. /\ IdleIsClean(r)' /\ TargetIsIssued(r)' /\ NamesOfJob(r)' /\ Draft(r)'
      /\ NoDuplicates(r)' /\ TodoIsThere(r)' /\ DropsUnused(r)'
      /\ PasteSources(r)' /\ UploadsAreReferenced(r)'
  BY SameReferences
<1>4. NoMarkers(r)'
  BY <1>2 DEF RequestInv, NoMarkers
<1>5. DoneIsComplete(r)' /\ NewFilesAreMissing(r)'
  BY <1>1, <1>2
  DEF RequestInv, DoneIsComplete, NewFilesAreMissing, Complete, Excused, NoCrash
<1>6. Copying(r)' /\ UnusedAreDropped(r)'
  BY <1>1, <1>2 DEF RequestInv, Copying, UnusedAreDropped, CopyingFile, Calm
<1>7. RequestInv(r)'
  BY <1>3, <1>4, <1>5, <1>6 DEF RequestInv
<1>8. NamesOfContent(c)'
  <2>1. PlainFiles(job[r].refs) \subseteq named /\ PlainFiles(NoRefs) = {}
    BY <1>2 DEF RequestInv, NamesOfJob, PlainFiles, NoRefs, NoRef
  <2> QED BY <1>2, <2>1 DEF ContentInv, NamesOfContent
<1>9. Leftovers(c)' /\ Partials(c)'
  <2>1. \A q \in Requests : job[q].target = c => q = r
    BY <1>1 DEF Before, FilesInv, OneSavePerContent
  <2>2. NoCrash => \A f \in temp : ~(home[f] = c /\ Complete(c, f))
    BY <1>2, <2>1 DEF ContentInv, Leftovers, CopyingFile
  <2>3. NoFailure => \A f \in Files : disk[c].file[f] # "partial"
    BY <1>2, <2>1 DEF ContentInv, Partials, CopyingFile
  <2> QED BY <1>1, <2>2, <2>3 DEF Leftovers, Partials, Complete, NoCrash, NoFailure
<1>10. ContentInv(c)'
  BY <1>1, <1>8, <1>9, WorkingContent DEF ContentInv
<1> QED BY <1>7, <1>10, StepKeepsFiles

-----------------------------------------------------------------------------
(* addContent, and the steps between the phases *)

LEMMA AddContentFiles ==
  ASSUME Before, ContentSaveInv', env' = env, NEW r \in Requests,
         \/ MakeDirectory(r) \/ OpenMetadata(r) \/ WriteMetadata(r)
         \/ OpenParameters(r) \/ WriteParameters(r)
  PROVE  FilesInv'
<1>0. /\ job[r].pc \in {"mkdir", "openMeta", "writeMeta", "openParams", "writeParams"}
      /\ UNCHANGED <<temp, home, named, expired, issued>>
  BY DEF MakeDirectory, OpenMetadata, WriteMetadata, OpenParameters, WriteParameters
<1>1. PICK c \in Contents : c = job[r].target
  BY <1>0, JobTypes DEF Before
<1>2. /\ disk \in [Contents -> Directory] /\ disk[c] \in Directory
      /\ job \in [Requests -> Job] /\ job[r] \in Job
  BY DEF Before, ContentSaveInv, TypeOK
<1>3. job[r].pc \in Working \ CopyingFile
  BY <1>0 DEF Working, Control, Reading, CopyingFile
<1>4. Phase(r) /\ UnreadableIsEmpty(c) /\ NoMarkers(r)
  BY DEF Before, FilesInv, RequestInv, ContentInv
<1>5. ASSUME NEW pc \in {"openMeta", "writeMeta", "openParams", "writeParams", "copy", "clean"},
             pc = "clean" <=> job[r].pc = "writeParams" /\ job[r].again,
             job' = [job EXCEPT ![r].pc = pc],
             \A d \in Contents \ {c} : disk'[d] = disk[d],
             disk'[c].file = disk[c].file,
             disk'[c].params \in {disk[c].params, NoRefs, job[r].refs},
             UnreadableIsEmpty(c)', disk'[c].dir,
             pc = "writeParams" => disk'[c].json = "partial",
             pc \in {"copy", "clean"} => /\ disk'[c].json = "complete"
                                        /\ disk'[c].params = job[r].refs,
             pc = "copy" => ~job[r].again
      PROVE  FilesInv'
  <2>1. job' = [job EXCEPT ![r] = [job[r] EXCEPT !.pc = pc]]
    BY <1>2, <1>5
  <2>2. /\ job'[r].pc = pc /\ job'[r].again = job[r].again
        /\ job'[r].target = c /\ job'[r].update = job[r].update
        /\ job'[r].refs = job[r].refs /\ job'[r].todo = job[r].todo
        /\ job'[r].drop = job[r].drop /\ job'[r].uploads = job[r].uploads
        /\ job'[r].file = job[r].file
    BY <1>1, <1>2, <2>1 DEF Job
  <2>3. \A q \in Requests \ {r} : job'[q] = job[q]
    BY <1>2, <2>1
  <2>4. StepOf(r)
    BY <1>0, <1>1, <1>5, <2>2, <2>3 DEF StepOf
  <2>5. pc \in Working \ CopyingFile /\ ~Planning(job[r])'
    BY <1>5, <2>2 DEF Working, Control, Reading, CopyingFile, Planning
  <2>6. job'[r].again \/ job'[r].pc = "clean" => job[r].todo = {}
    BY <1>3, <1>4, <1>5, <2>2 DEF NoMarkers
  <2>7. Phase(r)'
    BY <1>5, <2>2 DEF Phase, CopyingFile
  <2> QED BY <1>0, <1>1, <1>3, <1>5, <2>2, <2>4, <2>5, <2>6, <2>7, ControlStep
<1>6. CASE MakeDirectory(r)
  <2>1. disk' = [disk EXCEPT ![c] = [disk[c] EXCEPT !.dir = TRUE]]
    BY <1>1, <1>6 DEF MakeDirectory
  <2>2. /\ disk'[c].dir /\ disk'[c].file = disk[c].file
        /\ disk'[c].params = disk[c].params /\ disk'[c].json = disk[c].json
        /\ \A d \in Contents \ {c} : disk'[d] = disk[d]
    BY <1>2, <2>1 DEF Directory
  <2>3. UnreadableIsEmpty(c)'
    BY <1>4, <2>2 DEF UnreadableIsEmpty, Readable
  <2> QED BY <1>5, <1>6, <2>2, <2>3 DEF MakeDirectory
<1>7. CASE OpenMetadata(r) \/ WriteMetadata(r)
  <2>1. \/ disk' = disk
        \/ \E state \in FileState : disk' = [disk EXCEPT ![c] = [disk[c] EXCEPT !.meta = state]]
    BY <1>1, <1>7 DEF OpenMetadata, WriteMetadata, FileState
  <2>2. /\ disk'[c].dir = disk[c].dir /\ disk'[c].file = disk[c].file
        /\ disk'[c].params = disk[c].params /\ disk'[c].json = disk[c].json
        /\ \A d \in Contents \ {c} : disk'[d] = disk[d]
    BY <1>2, <2>1 DEF Directory
  <2>3. UnreadableIsEmpty(c)'
    BY <1>4, <2>2 DEF UnreadableIsEmpty, Readable
  <2>4. job[r].pc \in Working \ {"mkdir"}
    BY <1>3, <1>7 DEF OpenMetadata, WriteMetadata
  <2>5. disk'[c].dir
    BY <1>1, <1>4, <2>2, <2>4 DEF Phase
  <2> QED BY <1>5, <1>7, <2>2, <2>3, <2>5 DEF OpenMetadata, WriteMetadata
<1>8. CASE OpenParameters(r)
  <2>1. disk' = [disk EXCEPT ![c] = [disk[c] EXCEPT !.json = "partial", !.params = NoRefs]]
    BY <1>1, <1>2, <1>8 DEF OpenParameters
  <2>2. /\ disk'[c].dir = disk[c].dir /\ disk'[c].file = disk[c].file
        /\ disk'[c].params = NoRefs /\ disk'[c].json = "partial"
        /\ \A d \in Contents \ {c} : disk'[d] = disk[d]
    BY <1>2, <2>1 DEF Directory
  <2>3. UnreadableIsEmpty(c)' /\ disk'[c].dir
    BY <1>1, <1>8, <2>2 DEF UnreadableIsEmpty, OpenParameters
  <2> QED BY <1>5, <1>8, <2>2, <2>3 DEF OpenParameters
<1>9. CASE WriteParameters(r)
  <2>1. job[r].pc \in Working \ {"mkdir"} /\ job[r].pc = "writeParams"
    BY <1>3, <1>9 DEF WriteParameters
  <2>2. disk[c].json = "partial" /\ disk[c].dir
    BY <1>1, <1>4, <2>1 DEF Phase
  <2>3. disk' = [disk EXCEPT ![c] = [disk[c] EXCEPT !.json = "complete", !.params = job[r].refs]]
    BY <1>1, <1>2, <1>9, <2>2 DEF WriteParameters
  <2>4. /\ disk'[c].dir /\ disk'[c].file = disk[c].file
        /\ disk'[c].params = job[r].refs /\ disk'[c].json = "complete"
        /\ \A d \in Contents \ {c} : disk'[d] = disk[d]
    BY <1>2, <2>2, <2>3 DEF Directory
  <2>5. UnreadableIsEmpty(c)'
    BY <2>4 DEF UnreadableIsEmpty, Readable
  <2> DEFINE pc == IF job[r].again THEN "clean" ELSE "copy"
  <2>6. job' = [job EXCEPT ![r].pc = pc]
    BY <1>9 DEF WriteParameters
  <2>7. /\ pc \in {"openMeta", "writeMeta", "openParams", "writeParams", "copy", "clean"}
        /\ pc = "clean" <=> job[r].pc = "writeParams" /\ job[r].again
        /\ pc # "writeParams"
        /\ pc = "copy" => ~job[r].again
    BY <2>1
  <2> HIDE DEF pc
  <2> QED BY <1>5, <2>4, <2>5, <2>6, <2>7
<1> QED BY <1>6, <1>7, <1>8, <1>9

\* After the copies the references are stored again, or the old files deleted.
LEMMA EndCopyFiles ==
  ASSUME Before, ContentSaveInv', env' = env, NEW r \in Requests, EndCopy(r)
  PROVE  FilesInv'
<1>0. /\ job[r].pc = "copy" /\ job[r].todo = {}
      /\ UNCHANGED <<disk, temp, home, named, expired, issued>>
  BY DEF EndCopy
<1>1. PICK c \in Contents : c = job[r].target
  BY <1>0, JobTypes DEF Before
<1>2. job \in [Requests -> Job] /\ job[r] \in Job
  BY DEF Before, ContentSaveInv, TypeOK
<1>3. Phase(r) /\ UnreadableIsEmpty(c)
  BY DEF Before, FilesInv, RequestInv, ContentInv
<1>4. /\ job'[r].target = c /\ job'[r].update = job[r].update
      /\ job'[r].refs = job[r].refs /\ job'[r].todo = job[r].todo
      /\ job'[r].drop = job[r].drop /\ job'[r].uploads = job[r].uploads
      /\ job'[r].file = job[r].file
      /\ \/ job[r].dirty /\ job'[r].pc = "mkdir" /\ job'[r].again
         \/ ~job[r].dirty /\ job'[r].pc = "clean" /\ job'[r].again = job[r].again
  BY <1>1, <1>2 DEF EndCopy, Job
<1>5. \A q \in Requests \ {r} : job'[q] = job[q]
  BY <1>2 DEF EndCopy
<1>6. StepOf(r)
  BY <1>0, <1>1, <1>4, <1>5 DEF StepOf
<1>7. job[r].pc \in Working \ CopyingFile /\ job'[r].pc \in Working \ CopyingFile
  BY <1>0, <1>4 DEF Working, Control, Reading, CopyingFile
<1>8. UnreadableIsEmpty(c)'
  BY <1>0, <1>3 DEF UnreadableIsEmpty, Readable
<1>9. Phase(r)'
  BY <1>0, <1>1, <1>3, <1>4, <1>7 DEF Phase, CopyingFile
<1>10. ~Planning(job[r])'
  BY <1>4 DEF Planning, Reading
<1> QED BY <1>0, <1>1, <1>4, <1>6, <1>7, <1>8, <1>9, <1>10, ControlStep

-----------------------------------------------------------------------------
(* The first and the last steps of a save *)

\* A content without a directory.
LEMMA EmptyContent ==
  ASSUME ContentSaveInv', NEW c \in Contents, disk'[c] = NoDirectory
  PROVE  ContentInv(c)'
<1>1. /\ disk'[c].params = NoRefs /\ disk'[c].json = "absent"
      /\ PlainFiles(NoRefs) = {}
      /\ \A f \in Files : disk'[c].file[f] = "absent"
  BY DEF NoDirectory, PlainFiles, NoRefs, NoRef
<1>2. NamesOfContent(c)' /\ UnissuedIsEmpty(c)' /\ UnreadableIsEmpty(c)'
  BY <1>1 DEF NamesOfContent, UnissuedIsEmpty, UnreadableIsEmpty
<1>3. Partials(c)' /\ Resolved(c)' /\ Tidy(c)'
  BY <1>1 DEF Partials, Resolved, Tidy, Readable
<1>4. Leftovers(c)'
  BY <1>1 DEF Leftovers, Complete, ContentSaveInv, TypeOK
<1> QED BY <1>2, <1>3, <1>4 DEF ContentInv

\* A save is the only one that works on its content.
LEMMA OnlySave ==
  ASSUME Before, NEW r \in Requests, job[r].pc # "idle",
         NEW q \in Requests, job[q].target = job[r].target
  PROVE  q = r
BY DEF Before, FilesInv, OneSavePerContent

\* The content of a save that was planned but did not start, or that ends:
\* content.json is as the last save left it.
LEMMA SettledContent ==
  ASSUME Before, ContentSaveInv', NEW r \in Requests, NEW c \in Contents,
         c = job[r].target, StepOf(r), Planning(job[r]), disk' = disk, temp' = temp
  PROVE  ContentInv(c)'
<1>1. /\ expired' = expired /\ home' = home /\ env' = env /\ issued' = issued
      /\ named \subseteq named' /\ job[r].pc # "idle"
  BY DEF StepOf
<1>2. ContentInv(c)
  BY DEF Before, FilesInv
<1>3. \A q \in Requests : job[q].target = c => q = r
  BY <1>1, OnlySave
<1>4. Settled(c)
  BY <1>3 DEF Settled
<1>5. job[r].pc \notin CopyingFile
  BY DEF Planning, Reading, CopyingFile
<1>6. NamesOfContent(c)' /\ UnissuedIsEmpty(c)' /\ UnreadableIsEmpty(c)'
  BY <1>1, <1>2
  DEF ContentInv, NamesOfContent, UnissuedIsEmpty, UnreadableIsEmpty, Readable
<1>7. Leftovers(c)' /\ Partials(c)'
  <2>1. NoCrash => \A f \in temp : ~(home[f] = c /\ Complete(c, f))
    BY <1>2, <1>3, <1>5 DEF ContentInv, Leftovers, CopyingFile
  <2>2. NoFailure => \A f \in Files : disk[c].file[f] # "partial"
    BY <1>2, <1>3, <1>5 DEF ContentInv, Partials, CopyingFile
  <2> QED BY <1>1, <2>1, <2>2 DEF Leftovers, Partials, Complete, NoCrash, NoFailure
<1>8. Resolved(c)' /\ Tidy(c)'
  BY <1>1, <1>2, <1>4
  DEF ContentInv, Resolved, Tidy, Readable, Complete, Excused, NoCrash, Calm
<1> QED BY <1>6, <1>7, <1>8 DEF ContentInv

LEMMA RejectFiles ==
  ASSUME Before, ContentSaveInv', env' = env, NEW r \in Requests, Reject(r)
  PROVE  FilesInv'
<1>0. /\ job[r].pc # "idle" /\ Planning(job[r])
      /\ UNCHANGED <<disk, temp, home, named, expired, issued>>
  BY DEF Reject, Planning, Reading, Before, OneAfterTheOther
<1>1. PICK c \in Contents : c = job[r].target
  BY <1>0, JobTypes DEF Before
<1>2. job'[r] = IdleJob /\ \A q \in Requests \ {r} : job'[q] = job[q]
  BY DEF Reject, Before, ContentSaveInv, TypeOK
<1>3. StepOf(r)
  BY <1>0, <1>1, <1>2 DEF StepOf, IdleJob
<1>4. RequestInv(r)'
  BY <1>2, IdleRequestNext
<1>5. ContentInv(c)'
  BY <1>0, <1>1, <1>3, SettledContent
<1> QED BY <1>1, <1>3, <1>4, <1>5, StepKeepsFiles

LEMMA FailToStoreFiles ==
  ASSUME Before, ContentSaveInv', env' = env, NEW r \in Requests, FailToStore(r)
  PROVE  FilesInv'
<1>0. /\ job[r].pc # "idle"
      /\ UNCHANGED <<temp, home, named, expired, issued>>
  BY DEF FailToStore
<1>1. PICK c \in Contents : c = job[r].target
  BY <1>0, JobTypes DEF Before
<1>2. job'[r] = IdleJob /\ \A q \in Requests \ {r} : job'[q] = job[q]
  BY DEF FailToStore, Before, ContentSaveInv, TypeOK
<1>3. disk'[c] = NoDirectory /\ \A d \in Contents \ {c} : disk'[d] = disk[d]
  BY <1>1 DEF FailToStore, Before, ContentSaveInv, TypeOK
<1>4. \A f \in Files : disk'[c].file[f] = "absent"
  BY <1>3 DEF NoDirectory
<1>5. StepOf(r)
  BY <1>0, <1>1, <1>2, <1>3, <1>4 DEF StepOf, IdleJob
<1>6. RequestInv(r)' /\ ContentInv(c)'
  BY <1>2, <1>3, IdleRequestNext, EmptyContent
<1> QED BY <1>1, <1>5, <1>6, StepKeepsFiles

\* The save returns: nothing is left to be copied or deleted.
LEMMA FinishFiles ==
  ASSUME Before, ContentSaveInv', env' = env, NEW r \in Requests, Finish(r)
  PROVE  FilesInv'
<1>0. /\ job[r].pc = "clean" /\ job[r].drop = {}
      /\ UNCHANGED <<disk, temp, home, named, expired, issued>>
  BY DEF Finish
<1>1. PICK c \in Contents : c = job[r].target
  BY <1>0, JobTypes DEF Before
<1>2. job'[r] = IdleJob /\ \A q \in Requests \ {r} : job'[q] = job[q]
  BY DEF Finish, Before, ContentSaveInv, TypeOK
<1>3. StepOf(r)
  BY <1>0, <1>1, <1>2 DEF StepOf, IdleJob
<1>4. RequestInv(r)'
  BY <1>2, IdleRequestNext
<1>5. RequestInv(r) /\ ContentInv(c)
  BY DEF Before, FilesInv
<1>6. job[r].pc \in Working /\ job[r].pc \notin CopyingFile
  BY <1>0 DEF Working, Control, Reading, CopyingFile
<1>7. disk[c].params = job[r].refs /\ job[r].todo = {}
  BY <1>0, <1>1, <1>5, <1>6 DEF RequestInv, Phase, NoMarkers
<1>8. \A q \in Requests : job[q].target = c => q = r
  BY <1>0, <1>1, OnlySave
<1>9. NamesOfContent(c)' /\ UnissuedIsEmpty(c)' /\ UnreadableIsEmpty(c)'
  BY <1>0, <1>5
  DEF ContentInv, NamesOfContent, UnissuedIsEmpty, UnreadableIsEmpty, Readable
<1>10. Leftovers(c)' /\ Partials(c)'
  <2>1. NoCrash => \A f \in temp : ~(home[f] = c /\ Complete(c, f))
    BY <1>5, <1>6, <1>8 DEF ContentInv, Leftovers, CopyingFile
  <2>2. NoFailure => \A f \in Files : disk[c].file[f] # "partial"
    BY <1>5, <1>6, <1>8 DEF ContentInv, Partials, CopyingFile
  <2> QED BY <1>0, <2>1, <2>2 DEF Leftovers, Partials, Complete, NoCrash, NoFailure
<1>11. Resolved(c)'
  <2>1. \A s \in Slots : job[r].refs[s].kind \in {"none", "file"}
    <3>1. \A s \in Slots : job[r].refs[s] \in Ref
      BY <1>0, JobTypes DEF Before
    <3> QED BY <1>5, <1>6, <1>7, <3>1, RefFiles DEF RequestInv, NoMarkers
  <2>2. NoCrash => \A s \in Slots : job[r].refs[s].kind = "file" =>
          Complete(c, job[r].refs[s].file) \/ Excused(job[r].refs[s].file)
    BY <1>1, <1>5, <1>6, <1>7 DEF RequestInv, DoneIsComplete
  <2> QED BY <1>0, <1>7, <2>1, <2>2 DEF Resolved, Complete, Excused, NoCrash
<1>12. Tidy(c)'
  BY <1>0, <1>1, <1>5, <1>6, <1>7 DEF RequestInv, UnusedAreDropped, Tidy, Calm
<1>13. ContentInv(c)'
  BY <1>9, <1>10, <1>11, <1>12 DEF ContentInv
<1> QED BY <1>1, <1>3, <1>4, <1>13, StepKeepsFiles

\* Reading the old parameters: they are the ones the draft was made from.
LEMMA ReadOldParamsFiles ==
  ASSUME Before, ContentSaveInv', env' = env, NEW r \in Requests, ReadOldParams(r)
  PROVE  FilesInv'
<1>0. /\ job[r].pc = "oldParams" /\ Planning(job[r])
      /\ UNCHANGED <<disk, temp, home, named, expired, issued>>
  BY DEF ReadOldParams, Planning, Reading
<1>1. PICK c \in Contents : c = job[r].target
  BY <1>0, JobTypes DEF Before
<1>2. job \in [Requests -> Job] /\ job[r] \in Job
  BY DEF Before, ContentSaveInv, TypeOK
<1>3. /\ job'[r].pc = "oldMeta" /\ job'[r].drop = PlainFiles(disk[c].params)
      /\ job'[r].target = c /\ job'[r].update = job[r].update
      /\ job'[r].again = job[r].again /\ job'[r].dirty = job[r].dirty
      /\ job'[r].refs = job[r].refs /\ job'[r].todo = job[r].todo
      /\ job'[r].uploads = job[r].uploads /\ job'[r].file = job[r].file
      /\ disk[c].json = "complete"
  BY <1>1, <1>2 DEF ReadOldParams, Job
<1>4. \A q \in Requests \ {r} : job'[q] = job[q]
  BY <1>2 DEF ReadOldParams
<1>5. StepOf(r)
  BY <1>0, <1>1, <1>3, <1>4 DEF StepOf
<1>6. RequestInv(r) /\ ContentInv(c)
  BY DEF Before, FilesInv
<1>7. IdleIsClean(r)' /\ TargetIsIssued(r)' /\ NamesOfJob(r)' /\ NoDuplicates(r)'
  BY <1>0, <1>1, <1>3, <1>6
  DEF RequestInv, IdleIsClean, TargetIsIssued, NamesOfJob, NoDuplicates, ContentInv,
      NamesOfContent
<1>8. Draft(r)'
  BY <1>0, <1>1, <1>3, <1>6 DEF RequestInv, Draft, Reading, Readable
<1>9. PasteSources(r)'
  BY <1>3, <1>5, OwnPasteSources
<1>10. /\ NoMarkers(r)' /\ TodoIsThere(r)' /\ DoneIsComplete(r)' /\ DropsUnused(r)'
       /\ NewFilesAreMissing(r)' /\ UnusedAreDropped(r)' /\ UploadsAreReferenced(r)'
  BY <1>3 DEF NoMarkers, TodoIsThere, DoneIsComplete, DropsUnused,
     NewFilesAreMissing, UnusedAreDropped, UploadsAreReferenced, Working, Reading
<1>11. Phase(r)' /\ Copying(r)'
  BY <1>3 DEF Phase, Copying, Working, CopyingFile, Reading
<1>12. RequestInv(r)'
  BY <1>7, <1>8, <1>9, <1>10, <1>11 DEF RequestInv
<1>13. ContentInv(c)'
  BY <1>0, <1>1, <1>5, SettledContent
<1> QED BY <1>1, <1>5, <1>12, <1>13, StepKeepsFiles

-----------------------------------------------------------------------------
(* Planning: what is copied and what is deleted *)

\* Without the markers, the plain references are those to stored files and
\* those to uploads.
LEMMA WithoutMarkersFiles ==
  ASSUME NEW draft \in [Slots -> Ref]
  PROVE  /\ \A s \in Slots : draft[s].kind # "tmp" => WithoutMarkers(draft)[s] = draft[s]
         /\ \A s \in Slots : draft[s].kind = "tmp" =>
              /\ WithoutMarkers(draft)[s].kind = "file"
              /\ WithoutMarkers(draft)[s].file = draft[s].file
         /\ PlainFiles(WithoutMarkers(draft)) = PlainFiles(draft) \cup TmpFiles(draft)
<1>1. \A s \in Slots : draft[s].kind # "tmp" => WithoutMarkers(draft)[s] = draft[s]
  BY DEF WithoutMarkers
<1>2. \A s \in Slots : draft[s].kind = "tmp" =>
        /\ WithoutMarkers(draft)[s].kind = "file"
        /\ WithoutMarkers(draft)[s].file = draft[s].file
  BY DEF WithoutMarkers, FileRef
<1> QED BY <1>1, <1>2 DEF PlainFiles, TmpFiles

\* Two temporary references to one file are the same reference.
LEMMA TmpRefs ==
  ASSUME NEW p \in Ref, NEW q \in Ref, p.kind = "tmp", q.kind = "tmp", p.file = q.file
  PROVE  p = q
BY DEF Ref

\* A temporary reference that is not copied is to a file the old parameters
\* name, or to one that is copied for an earlier reference.
LEMMA FirstReference ==
  ASSUME ContentSaveAssumption, NEW draft \in [Slots -> Ref], NEW old,
         NEW s \in Slots, draft[s].kind = "tmp", draft[s].file \notin old
  PROVE  \E t \in FromTemp(draft, old) : draft[t] = draft[s]
<1> DEFINE Same == {t \in Slots : draft[t] = draft[s]}
<1>1. Slots \subseteq Nat
  BY DEF ContentSaveAssumption, Slots
<1>2. \E t \in Same : \A u \in Same : ~(<<u, t>> \in OpToRel(<, Nat))
  <2>1. Same \subseteq Nat /\ Same # {}
    BY <1>1
  <2> HIDE DEF Same
  <2> QED BY <2>1, WFMin, NatLessThanWellFounded, Zenon
<1>3. PICK t \in Same : \A u \in Same : ~(u < t)
  BY <1>1, <1>2 DEF OpToRel
<1>4. \A u \in Slots : u < t => draft[u] # draft[t]
  BY <1>3
<1> QED BY <1>3, <1>4 DEF FromTemp

\* Each file is copied once.
LEMMA CopiedOnce ==
  ASSUME ContentSaveAssumption, NEW draft \in [Slots -> Ref], NEW old,
         NEW s \in FromTemp(draft, old), NEW t \in FromTemp(draft, old),
         draft[s].file = draft[t].file
  PROVE  s = t
<1>1. s \in Nat /\ t \in Nat /\ s \in Slots /\ t \in Slots
  BY DEF ContentSaveAssumption, Slots, FromTemp
<1>2. draft[s] = draft[t]
  BY <1>1, TmpRefs DEF FromTemp
<1>3. ~(s < t) /\ ~(t < s)
  BY <1>1, <1>2 DEF FromTemp
<1> QED BY <1>1, <1>3

\* Reading the old metadata ends the planning of an update.
LEMMA ReadOldMetadataFiles ==
  ASSUME Before, ContentSaveInv', env' = env, NEW r \in Requests, ReadOldMetadata(r)
  PROVE  FilesInv'
<1> DEFINE draft == job[r].refs
           old == job[r].drop
<1>0. /\ job[r].pc = "oldMeta" /\ Planning(job[r])
      /\ UNCHANGED <<disk, temp, home, named, expired, issued>>
  BY DEF ReadOldMetadata, Planning, Reading
<1>1. PICK c \in Contents : c = job[r].target
  BY <1>0, JobTypes DEF Before
<1>2. /\ job \in [Requests -> Job] /\ job[r] \in Job
      /\ draft \in [Slots -> Ref]
      /\ \A s \in Slots : draft[s] \in Ref
  BY <1>0, JobTypes DEF Before, ContentSaveInv, TypeOK
<1>3. /\ job'[r].pc = "mkdir" /\ ~job'[r].again
      /\ job'[r].target = c /\ job'[r].update = job[r].update
      /\ job'[r].refs = WithoutMarkers(draft)
      /\ job'[r].todo = FromTemp(draft, old) \cup FromPaste(draft)
      /\ job'[r].drop = Unused(old, draft)
      /\ job'[r].uploads = job[r].uploads /\ job'[r].file = job[r].file
  <2>1. ~job[r].again
    BY <1>0 DEF Before, FilesInv, RequestInv, Draft, Reading
  <2> QED BY <1>1, <1>2, <2>1 DEF ReadOldMetadata, Job
<1>4. \A q \in Requests \ {r} : job'[q] = job[q]
  BY <1>2 DEF ReadOldMetadata
<1>5. StepOf(r)
  BY <1>0, <1>1, <1>3, <1>4 DEF StepOf
<1>6. RequestInv(r) /\ ContentInv(c)
  BY DEF Before, FilesInv
<1>7. /\ job[r].update /\ Readable(c)
      /\ job[r].uploads = TmpFiles(draft)
      /\ old = PlainFiles(disk[c].params)
      /\ \A s \in Slots :
           /\ draft[s].kind = "file" => draft[s].file \in old
           /\ draft[s].kind = "tmp" =>
                \/ draft[s].file \in old
                \/ home[draft[s].file] = c /\ draft[s].file \in temp \cup expired
  BY <1>0, <1>1, <1>6 DEF RequestInv, Draft, Reading
<1>8. Settled(c)
  BY <1>0, <1>1, OnlySave DEF Settled
<1>9. /\ \A s \in Slots : draft[s].kind # "tmp" => job'[r].refs[s] = draft[s]
      /\ \A s \in Slots : draft[s].kind = "tmp" =>
           job'[r].refs[s].kind = "file" /\ job'[r].refs[s].file = draft[s].file
      /\ PlainFiles(job'[r].refs) = PlainFiles(draft) \cup TmpFiles(draft)
  BY <1>2, <1>3, WithoutMarkersFiles
<1>10. job'[r].drop \subseteq old
  BY <1>3 DEF Unused
<1>11. \A s \in job'[r].todo : job'[r].refs[s].kind = "file" =>
         s \in FromTemp(draft, old) /\ draft[s].kind = "tmp"
  BY <1>3, <1>9 DEF FromTemp, FromPaste
<1> HIDE DEF draft, old
<1>12. IdleIsClean(r)' /\ TargetIsIssued(r)' /\ NamesOfJob(r)'
  <2>1. old \subseteq named
    BY <1>6, <1>7 DEF ContentInv, NamesOfContent
  <2>2. \A s \in Slots : job'[r].refs[s].kind # "none" =>
          draft[s].kind # "none" /\ job'[r].refs[s].file = draft[s].file
    BY <1>9
  <2> QED BY <1>0, <1>1, <1>3, <1>6, <1>10, <2>1, <2>2
          DEF RequestInv, IdleIsClean, TargetIsIssued, NamesOfJob, draft
<1>13. NoDuplicates(r)'
  <2>1. \A s \in Slots : /\ job'[r].refs[s].file = draft[s].file
                         /\ job'[r].refs[s].kind # "none" => draft[s].kind # "none"
    BY <1>9
  <2> QED BY <1>5, <1>6, <2>1 DEF RequestInv, NoDuplicates, StepOf, draft
<1>14. Draft(r)' /\ Phase(r)' /\ Copying(r)' /\ NewFilesAreMissing(r)'
  BY <1>3, <1>7 DEF Draft, Phase, Copying, NewFilesAreMissing, Reading, CopyingFile
<1>15. NoMarkers(r)'
  <2>1. ASSUME NEW s \in Slots
        PROVE  /\ job'[r].refs[s].kind # "tmp"
               /\ job'[r].refs[s].kind = "paste" => s \in job'[r].todo
               /\ s \in job'[r].todo => job'[r].refs[s].kind # "none"
    <3>1. s \in FromPaste(draft) <=> draft[s].kind = "paste"
      BY DEF FromPaste
    <3>2. s \in FromTemp(draft, old) => draft[s].kind = "tmp"
      BY DEF FromTemp
    <3> QED BY <1>3, <1>9, <3>1, <3>2
  <2> QED BY <1>3, <2>1 DEF NoMarkers
<1>16. TodoIsThere(r)'
  <2> SUFFICES ASSUME NEW s \in job'[r].todo, job'[r].refs[s].kind = "file"
               PROVE  /\ home[job'[r].refs[s].file] = c
                      /\ job'[r].refs[s].file \in temp \cup expired
                      /\ \A t \in job'[r].todo :
                           PlainRef(job'[r].refs[t], job'[r].refs[s].file) => s = t
    BY <1>0, <1>3, <1>7 DEF TodoIsThere, Editor, PlainRef
  <2>1. /\ s \in FromTemp(draft, old) /\ s \in Slots /\ draft[s].kind = "tmp"
        /\ draft[s].file \notin old /\ job'[r].refs[s].file = draft[s].file
    BY <1>9, <1>11 DEF FromTemp
  <2>2. ASSUME NEW t \in job'[r].todo, PlainRef(job'[r].refs[t], job'[r].refs[s].file)
        PROVE  s = t
    <3>1. t \in FromTemp(draft, old) /\ t \in Slots /\ draft[t].kind = "tmp"
      BY <1>11, <2>2 DEF PlainRef, FromTemp
    <3>2. draft[t].file = draft[s].file
      BY <1>9, <2>1, <2>2, <3>1 DEF PlainRef
    <3> QED BY <1>2, <2>1, <3>1, <3>2, CopiedOnce, ContentSaveAssumption
  <2> QED BY <1>7, <2>1, <2>2
<1>17. DoneIsComplete(r)'
  <2> SUFFICES ASSUME NoCrash, NEW s \in Slots \ job'[r].todo, job'[r].refs[s].kind = "file"
               PROVE  \/ Complete(c, job'[r].refs[s].file)
                      \/ Excused(job'[r].refs[s].file)
                      \/ \E t \in job'[r].todo :
                           PlainRef(job'[r].refs[t], job'[r].refs[s].file)
    BY <1>0, <1>3 DEF DoneIsComplete, PlainRef, NoCrash, Complete, Excused
  <2>1. draft[s].kind \in {"file", "tmp"} /\ job'[r].refs[s].file = draft[s].file
    BY <1>2, <1>9, RefFiles
  <2>2. CASE draft[s].file \in old
    <3>1. PICK t \in Slots : /\ disk[c].params[t].kind = "file"
                             /\ disk[c].params[t].file = draft[s].file
      BY <1>7, <2>2 DEF PlainFiles
    <3> QED BY <1>6, <1>7, <1>8, <2>1, <3>1 DEF ContentInv, Resolved
  <2>3. CASE draft[s].file \notin old
    <3>1. draft[s].kind = "tmp"
      BY <1>7, <2>1, <2>3
    <3>2. PICK t \in FromTemp(draft, old) : draft[t] = draft[s]
      BY <1>2, <2>3, <3>1, FirstReference, ContentSaveAssumption
    <3>3. t \in Slots /\ t \in job'[r].todo
      BY <1>3, <3>2 DEF FromTemp, draft, old
    <3>4. PlainRef(job'[r].refs[t], job'[r].refs[s].file)
      BY <1>9, <2>1, <3>1, <3>2, <3>3 DEF PlainRef
    <3> QED BY <3>3, <3>4
  <2> QED BY <2>2, <2>3
<1>18. DropsUnused(r)'
  <2>1. Unused(old, draft) \cap PlainFiles(job'[r].refs) = {}
    BY <1>9 DEF Unused
  <2> QED BY <1>3, <1>7, <2>1 DEF DropsUnused, draft, old
<1>19. PasteSources(r)'
  BY <1>3, <1>5, <1>9, OwnPasteSources DEF draft
<1>20. UnusedAreDropped(r)'
  <2>1. Calm => \A f \in Files : disk[c].file[f] # "absent" => f \in old
    BY <1>6, <1>7, <1>8 DEF ContentInv, Tidy
  <2>2. old \subseteq PlainFiles(job'[r].refs) \cup Unused(old, draft)
    BY <1>9 DEF Unused
  <2> QED BY <1>0, <1>3, <2>1, <2>2 DEF UnusedAreDropped, Calm, draft, old
<1>21. UploadsAreReferenced(r)'
  BY <1>3, <1>7, <1>9 DEF UploadsAreReferenced
<1>22. RequestInv(r)'
  BY <1>12, <1>13, <1>14, <1>15, <1>16, <1>17, <1>18, <1>19, <1>20, <1>21 DEF RequestInv
<1>23. ContentInv(c)'
  BY <1>0, <1>1, <1>5, SettledContent
<1> QED BY <1>1, <1>5, <1>22, <1>23, StepKeepsFiles

-----------------------------------------------------------------------------
(* The copies: steps that do not write to the content *)

\* The fields of the job after the loop goes on.
LEMMA KeepFields ==
  ASSUME NEW j \in Job, NEW s \in Slots
  PROVE  /\ Keep(j, s).pc = "copy" /\ Keep(j, s).todo = j.todo \ {s}
         /\ Keep(j, s).file = NoFile /\ Keep(j, s).refs = j.refs
         /\ Keep(j, s).target = j.target /\ Keep(j, s).update = j.update
         /\ Keep(j, s).drop = j.drop /\ Keep(j, s).uploads = j.uploads
         /\ Keep(j, s).again = j.again /\ Keep(j, s).dirty = j.dirty
BY DEF Keep, Job

LEMMA ClearFields ==
  ASSUME NEW j \in Job, NEW s \in Slots
  PROVE  /\ Clear(j, s).pc = "copy" /\ Clear(j, s).todo = j.todo \ {s}
         /\ Clear(j, s).file = NoFile /\ Clear(j, s).refs = [j.refs EXCEPT ![s] = NoRef]
         /\ Clear(j, s).target = j.target /\ Clear(j, s).update = j.update
         /\ Clear(j, s).drop = j.drop /\ Clear(j, s).uploads = j.uploads
         /\ Clear(j, s).again = j.again /\ Clear(j, s).dirty
<1>1. Keep(j, s) \in Job
  BY KeepType
<1> QED BY <1>1, KeepFields DEF Clear, Job

\* What a step leaves of the files that are in two places or partial, if it
\* does not write to the content.
LEMMA SameDirectory ==
  ASSUME Before, ContentSaveInv', NEW r \in Requests, NEW c \in Contents,
         c = job[r].target, StepOf(r), disk' = disk, temp' = temp,
         job'[r].pc # "idle", ~Planning(job[r])',
         job[r].pc \in {"checkTemp", "rmTemp"} =>
           \/ job[r].file \notin temp
           \/ job'[r].pc \in {"checkTemp", "rmTemp"} /\ job'[r].file = job[r].file,
         job[r].pc = "writeFile" => "ioerror" \in env
  PROVE  ContentInv(c)'
<1>1. /\ expired' = expired /\ home' = home /\ env' = env
      /\ named \subseteq named' /\ job[r].pc # "idle" /\ job'[r].target = c
  BY DEF StepOf, IdleJob
<1>2. ContentInv(c)
  BY DEF Before, FilesInv
<1>3. \A q \in Requests : job[q].target = c => q = r
  BY <1>1, OnlySave
<1>4. NamesOfContent(c)' /\ UnreadableIsEmpty(c)'
  BY <1>1, <1>2 DEF ContentInv, NamesOfContent, UnreadableIsEmpty, Readable
<1>5. Leftovers(c)'
  <2>1. ASSUME NoCrash, NEW f \in temp, home[f] = c, Complete(c, f)
        PROVE  job[r].pc \in {"checkTemp", "rmTemp"} /\ job[r].file = f
    BY <1>2, <1>3, <2>1 DEF ContentInv, Leftovers
  <2> QED BY <1>1, <2>1 DEF Leftovers, NoCrash, Complete
<1>6. Partials(c)'
  <2>1. ASSUME NoFailure
        PROVE  \A f \in Files : disk[c].file[f] # "partial"
    BY <1>2, <1>3, <2>1 DEF ContentInv, Partials, NoFailure
  <2> QED BY <1>1, <2>1 DEF Partials, NoFailure
<1>7. UnissuedIsEmpty(c)' /\ Resolved(c)' /\ Tidy(c)'
  BY WorkingContent
<1> QED BY <1>4, <1>5, <1>6, <1>7 DEF ContentInv

\* A source is opened, or the temporary file is about to be deleted.
LEMMA NextCopyingStep ==
  ASSUME Before, ContentSaveInv', NEW r \in Requests, NEW c \in Contents,
         c = job[r].target, StepOf(r), disk' = disk, temp' = temp,
         job[r].pc \in {"copy", "checkTemp"}, job'[r].pc \in CopyingFile,
         job[r].pc = "checkTemp" => job'[r].pc = "rmTemp" /\ job'[r].file = job[r].file,
         job'[r].refs = job[r].refs, job'[r].todo = job[r].todo,
         job'[r].drop = job[r].drop, job'[r].uploads = job[r].uploads,
         job'[r].again = job[r].again, job'[r].dirty = job[r].dirty,
         job'[r].file \in {job[r].file} \cup named',
         Copying(r)'
  PROVE  FilesInv'
<1>1. /\ job'[r].target = c /\ job'[r].update = job[r].update
      /\ job'[r].pc # "idle" /\ job[r].pc # "idle"
      /\ expired' = expired /\ home' = home /\ env' = env
  BY DEF StepOf, CopyingFile, IdleJob
<1>2. RequestInv(r)
  BY DEF Before, FilesInv
<1>3. job[r].pc \in Working /\ job'[r].pc \in Working
  BY DEF Working, Control, Reading, CopyingFile
<1>4. /\ IdleIsClean(r)' /\ TargetIsIssued(r)' /\ NamesOfJob(r)' /\ Draft(r)'
      /\ NoDuplicates(r)' /\ TodoIsThere(r)' /\ DropsUnused(r)'
      /\ PasteSources(r)' /\ UploadsAreReferenced(r)'
  BY <1>3, SameReferences
<1>5. NoMarkers(r)'
  BY <1>2, <1>3 DEF RequestInv, NoMarkers, CopyingFile
<1>6. DoneIsComplete(r)' /\ NewFilesAreMissing(r)'
  BY <1>1, <1>2, <1>3
  DEF RequestInv, DoneIsComplete, NewFilesAreMissing, Complete, Excused, NoCrash
<1>7. Phase(r)'
  BY <1>1, <1>2, <1>3 DEF RequestInv, Phase, CopyingFile
<1>8. UnusedAreDropped(r)'
  BY <1>1, <1>2, <1>3 DEF RequestInv, UnusedAreDropped, Calm
<1>9. RequestInv(r)'
  BY <1>4, <1>5, <1>6, <1>7, <1>8 DEF RequestInv
<1>10. ContentInv(c)'
  BY <1>1, SameDirectory DEF Planning, Reading, CopyingFile
<1> QED BY <1>9, <1>10, StepKeepsFiles

LEMMA ClearStep ==
  ASSUME Before, ContentSaveInv', env' = env, NEW r \in Requests, NEW s \in Slots,
         job[r].pc = "copy" \/ job[r].pc \in CopyingFile,
         s \in job[r].todo, job' = [job EXCEPT ![r] = Clear(job[r], s)],
         UNCHANGED <<disk, temp, home, named, expired, issued>>,
         job[r].refs[s].kind = "paste" \/ "ioerror" \in env
           \/ job[r].refs[s].file \in expired,
         job[r].pc \in {"checkTemp", "rmTemp"} => job[r].file \notin temp,
         job[r].pc = "writeFile" => "ioerror" \in env
  PROVE  FilesInv'
<1>0. job[r].pc # "idle" /\ job[r].pc \in Working
  BY DEF CopyingFile, Working, Control, Reading
<1>1. PICK c \in Contents : c = job[r].target
  BY <1>0, JobTypes DEF Before
<1>2. job \in [Requests -> Job] /\ job[r] \in Job /\ job[r].refs \in [Slots -> Ref]
  BY <1>0, JobTypes DEF Before, ContentSaveInv, TypeOK
<1>3. /\ job'[r].pc = "copy" /\ job'[r].todo = job[r].todo \ {s}
      /\ job'[r].file = NoFile /\ job'[r].target = c /\ job'[r].update = job[r].update
      /\ job'[r].drop = job[r].drop /\ job'[r].uploads = job[r].uploads
      /\ job'[r].again = job[r].again /\ job'[r].dirty
      /\ job'[r].refs[s] = NoRef
      /\ \A t \in Slots \ {s} : job'[r].refs[t] = job[r].refs[t]
  <2>1. job'[r] = Clear(job[r], s)
    BY <1>2
  <2>2. /\ job'[r].pc = "copy" /\ job'[r].todo = job[r].todo \ {s}
        /\ job'[r].file = NoFile /\ job'[r].target = c /\ job'[r].update = job[r].update
        /\ job'[r].drop = job[r].drop /\ job'[r].uploads = job[r].uploads
        /\ job'[r].again = job[r].again /\ job'[r].dirty
        /\ job'[r].refs = [job[r].refs EXCEPT ![s] = NoRef]
    BY <1>1, <1>2, <2>1, ClearFields
  <2> QED BY <1>2, <2>2
<1>4. \A q \in Requests \ {r} : job'[q] = job[q]
  BY <1>2
<1>5. StepOf(r)
  BY <1>0, <1>1, <1>3, <1>4 DEF StepOf
<1>6. RequestInv(r) /\ KnownNames
  BY DEF Before, FilesInv
<1>7. NoRef.kind = "none" /\ job'[r].pc \in Working
  BY <1>3 DEF NoRef, Working, Control, Reading
<1>8. IdleIsClean(r)' /\ TargetIsIssued(r)' /\ Draft(r)'
  BY SMTT(30), <1>0, <1>1, <1>3, <1>6 DEF RequestInv, IdleIsClean, TargetIsIssued, Draft, Reading
<1>9. NamesOfJob(r)' /\ NoDuplicates(r)'
  <2>1. \A t \in Slots : job'[r].refs[t].kind # "none" =>
          t # s /\ job'[r].refs[t] = job[r].refs[t]
    BY <1>3, <1>7
  <2>2. NamesOfJob(r)'
    BY <1>3, <1>6, <2>1 DEF RequestInv, NamesOfJob
  <2>3. ASSUME "duplicate" \notin env, NEW t \in Slots, NEW u \in Slots,
               job'[r].refs[t].kind # "none", job'[r].refs[t].file = job'[r].refs[u].file
        PROVE  t = u
    <3>1. job[r].refs[t].file \in Files
      BY <1>2, <2>1, <2>3, RefFiles
    <3>2. u # s
      BY <1>3, <2>1, <2>3, <3>1, ContentSaveAssumption DEF NoRef
    <3> QED BY <1>3, <1>6, <2>1, <2>3, <3>2 DEF RequestInv, NoDuplicates
  <2> QED BY <2>2, <2>3 DEF NoDuplicates
<1>10. NoMarkers(r)' /\ TodoIsThere(r)'
  <2>1. \A t \in job'[r].todo : /\ t \in job[r].todo /\ t \in Slots /\ t # s
                                 /\ job'[r].refs[t] = job[r].refs[t]
    BY <1>2, <1>3 DEF Job
  <2>2. NoMarkers(r)'
    BY <1>0, <1>3, <1>6, <1>7, <2>1 DEF RequestInv, NoMarkers
  <2>3. TodoIsThere(r)'
    BY <1>0, <1>1, <1>3, <1>6, <2>1 DEF RequestInv, TodoIsThere, Editor, PlainRef
  <2> QED BY <2>2, <2>3
<1>11. DoneIsComplete(r)'
  <2> SUFFICES ASSUME NoCrash, NEW t \in Slots, t \notin job'[r].todo,
                      job'[r].refs[t].kind = "file"
               PROVE  \/ Complete(c, job'[r].refs[t].file)
                      \/ Excused(job'[r].refs[t].file)
                      \/ \E u \in job'[r].todo :
                           PlainRef(job'[r].refs[u], job'[r].refs[t].file)
    BY SMTT(30), <1>3 DEF DoneIsComplete, PlainRef, NoCrash, Complete, Excused
  <2>1. t # s /\ t \notin job[r].todo /\ job'[r].refs[t] = job[r].refs[t]
    BY <1>3, <1>7
  <2>2. \/ Complete(c, job[r].refs[t].file)
        \/ Excused(job[r].refs[t].file)
        \/ \E u \in job[r].todo : PlainRef(job[r].refs[u], job[r].refs[t].file)
    BY <1>0, <1>1, <1>6, <2>1 DEF RequestInv, DoneIsComplete
  <2>3. CASE PlainRef(job[r].refs[s], job[r].refs[t].file)
    <3>1. "duplicate" \in env
      BY <1>6, <2>1, <2>3 DEF RequestInv, NoDuplicates, PlainRef
    <3> QED BY <2>1, <2>3, <3>1 DEF Excused, PlainRef
  <2>4. CASE ~PlainRef(job[r].refs[s], job[r].refs[t].file)
    <3>1. \A u \in job[r].todo : u \in Slots
      BY <1>2 DEF Job
    <3> QED BY <1>3, <2>1, <2>2, <2>4, <3>1
  <2> QED BY <2>3, <2>4
<1>12. DropsUnused(r)' /\ NewFilesAreMissing(r)'
  <2>1. \A t \in Slots : job'[r].refs[t].kind = "file" =>
          t # s /\ job'[r].refs[t] = job[r].refs[t]
    BY <1>3, <1>7
  <2>2. PlainFiles(job'[r].refs) \subseteq PlainFiles(job[r].refs)
    BY <2>1 DEF PlainFiles
  <2>3. DropsUnused(r)'
    BY <1>0, <1>3, <1>6, <2>2 DEF RequestInv, DropsUnused
  <2>4. job[r].todo \subseteq Slots
    BY <1>2 DEF Job
  <2> QED BY SMTT(30), <1>0, <1>1, <1>3, <1>6, <2>1, <2>3, <2>4
          DEF RequestInv, NewFilesAreMissing, NoCrash, Complete
<1>13. Phase(r)' /\ Copying(r)'
  BY SMTT(30), <1>0, <1>1, <1>3, <1>6 DEF RequestInv, Phase, Copying, CopyingFile
<1>14. PasteSources(r)'
  BY <1>3, <1>5, <1>7, OwnPasteSources
<1>15. UnusedAreDropped(r)' /\ UploadsAreReferenced(r)'
  <2>1. \A t \in Slots : /\ job[r].refs[t].kind = "file" /\ t # s =>
                              job'[r].refs[t] = job[r].refs[t]
    BY <1>3
  <2>2. \A f \in PlainFiles(job[r].refs) :
          \/ f \in PlainFiles(job'[r].refs)
          \/ job[r].refs[s].kind = "file" /\ f = job[r].refs[s].file
    <3> TAKE f \in PlainFiles(job[r].refs)
    <3>1. PICK t \in Slots : job[r].refs[t].kind = "file" /\ job[r].refs[t].file = f
      BY DEF PlainFiles
    <3>2. CASE t # s
      BY <2>1, <3>1, <3>2 DEF PlainFiles
    <3> QED BY <3>1, <3>2
  <2>3. Calm => "ioerror" \notin env /\ expired = {}
    BY <1>6 DEF Calm, KnownNames
  <2>4. UnusedAreDropped(r)'
    BY <1>0, <1>1, <1>3, <1>6, <2>2, <2>3 DEF RequestInv, UnusedAreDropped, Calm
  <2>5. NoFailure => "ioerror" \notin env
    BY DEF NoFailure
  <2> QED BY <1>0, <1>3, <1>6, <2>2, <2>4, <2>5
          DEF RequestInv, UploadsAreReferenced, NoFailure
<1>16. RequestInv(r)'
  BY <1>8, <1>9, <1>10, <1>11, <1>12, <1>13, <1>14, <1>15 DEF RequestInv
<1>17. ContentInv(c)'
  <2>1. ~Planning(job[r])' /\ job'[r].pc # "idle"
    BY <1>3 DEF Planning, Reading
  <2> QED BY <1>1, <1>5, <2>1, SameDirectory
<1> QED BY <1>1, <1>5, <1>16, <1>17, StepKeepsFiles

\* The file is copied, and the loop goes on without the temporary file of an
\* update: it is deleted, or it was gone already.
LEMMA KeepStep ==
  ASSUME Before, ContentSaveInv', env' = env, NEW r \in Requests, NEW c \in Contents,
         c = job[r].target, NEW s \in Slots, NEW f \in Files, s = job[r].slot, f = job[r].file,
         job[r].pc \in {"writeFile", "checkTemp", "rmTemp"},
         job[r].refs[s].kind = "file",
         job'[r] = Keep(job[r], s), \A q \in Requests \ {r} : job'[q] = job[q],
         UNCHANGED <<home, named, expired, issued>>,
         temp' \subseteq temp, temp \ temp' \subseteq {f},
         IF job[r].update THEN f \notin temp' ELSE temp' = temp,
         \A d \in Contents \ {c} : disk'[d] = disk[d],
         disk'[c].dir = disk[c].dir, disk'[c].json = disk[c].json,
         disk'[c].params = disk[c].params,
         job[r].pc # "writeFile" => disk'[c].file = disk[c].file,
         disk'[c].file[f] = "complete",
         \A g \in Files \ {f} : disk'[c].file[g] = disk[c].file[g]
  PROVE  FilesInv'
<1>0. /\ job[r].pc # "idle" /\ job[r].pc \in Working /\ job[r].pc \in CopyingFile
  BY DEF CopyingFile, Working, Control, Reading
<1>1. /\ job \in [Requests -> Job] /\ job[r] \in Job /\ job[r].refs \in [Slots -> Ref]
      /\ job[r].todo \subseteq Slots
  BY <1>0, JobTypes DEF Before, ContentSaveInv, TypeOK
<1>2. /\ job'[r].pc = "copy" /\ job'[r].todo = job[r].todo \ {s}
      /\ job'[r].file = NoFile /\ job'[r].target = c /\ job'[r].update = job[r].update
      /\ job'[r].drop = job[r].drop /\ job'[r].uploads = job[r].uploads
      /\ job'[r].again = job[r].again /\ job'[r].dirty = job[r].dirty
      /\ job'[r].refs = job[r].refs
  BY <1>1, KeepFields
<1>4. RequestInv(r) /\ ContentInv(c) /\ KnownNames
  BY DEF Before, FilesInv
<1>5. s \in job[r].todo /\ job[r].refs[s].file = f
  BY <1>0, <1>4 DEF RequestInv, Copying
<1>6. /\ home[f] = IF job[r].update THEN c ELSE NoContent
      /\ \A t \in job[r].todo : job[r].refs[t].kind = "file" /\ t # s =>
           job[r].refs[t].file # f
  BY <1>0, <1>1, <1>4, <1>5 DEF RequestInv, TodoIsThere, Editor, PlainRef
<1>7. StepOf(r)
  <2>1. \A g \in Files : \/ disk'[c].file[g] \in {disk[c].file[g], "absent"}
                         \/ g = job[r].file /\ job[r].pc \in {"openFile", "writeFile"}
    BY <1>0
  <2>2. \A g \in temp \ temp' : home[g] = c
    BY <1>6
  <2> QED BY <1>0, <1>2, <2>1, <2>2 DEF StepOf
<1>8. job'[r].pc \in Working
  BY <1>2 DEF Working, Control, Reading
<1>9. IdleIsClean(r)' /\ TargetIsIssued(r)' /\ Draft(r)' /\ NamesOfJob(r)' /\ NoDuplicates(r)'
  <2>1. IdleIsClean(r)' /\ TargetIsIssued(r)'
    BY <1>0, <1>2, <1>4 DEF RequestInv, IdleIsClean, TargetIsIssued
  <2>2. Draft(r)'
    BY <1>2 DEF Draft, Reading
  <2>3. NamesOfJob(r)' /\ NoDuplicates(r)'
    BY SMTT(30), <1>2, <1>4 DEF RequestInv, NamesOfJob, NoDuplicates
  <2> QED BY <2>1, <2>2, <2>3
<1>10. NoMarkers(r)' /\ DropsUnused(r)' /\ UploadsAreReferenced(r)'
  BY SMTT(30), <1>0, <1>2, <1>4, <1>5
  DEF RequestInv, NoMarkers, DropsUnused, UploadsAreReferenced, NoFailure
<1>11. TodoIsThere(r)'
  BY SMTT(30), <1>0, <1>2, <1>4, <1>6 DEF RequestInv, TodoIsThere, Editor, PlainRef
<1>13. DoneIsComplete(r)'
  <2> SUFFICES ASSUME NoCrash, NEW t \in Slots \ job'[r].todo, job[r].refs[t].kind = "file"
               PROVE  \/ disk'[c].file[job[r].refs[t].file] = "complete"
                      \/ Excused(job[r].refs[t].file)
                      \/ \E u \in job'[r].todo :
                           PlainRef(job[r].refs[u], job[r].refs[t].file)
    BY SMTT(30), <1>2 DEF DoneIsComplete, PlainRef, NoCrash, Complete, Excused
  <2>1. job[r].refs[t].file \in Files
    BY <1>1, RefFiles
  <2>2. CASE job[r].refs[t].file = f
    BY <2>2
  <2>3. CASE job[r].refs[t].file # f
    <3>1. t \notin job[r].todo
      BY <1>2, <1>5, <2>3
    <3>2. \/ Complete(c, job[r].refs[t].file)
          \/ Excused(job[r].refs[t].file)
          \/ \E u \in job[r].todo : PlainRef(job[r].refs[u], job[r].refs[t].file)
      BY <1>0, <1>4, <3>1 DEF RequestInv, DoneIsComplete
    <3>3. ~PlainRef(job[r].refs[s], job[r].refs[t].file)
      BY <1>5, <2>3 DEF PlainRef
    <3> QED BY <1>2, <2>1, <2>3, <3>2, <3>3 DEF Complete
  <2> QED BY <2>2, <2>3
<1>14. NewFilesAreMissing(r)'
  <2>1. \A t \in job'[r].todo : job[r].refs[t].kind = "file" =>
          /\ t \in job[r].todo /\ job[r].refs[t].file # f
          /\ job[r].refs[t].file \in Files
    BY <1>1, <1>2, <1>6, RefFiles
  <2>2. NoCrash /\ ~job[r].update => \A t \in job'[r].todo : job[r].refs[t].kind = "file" =>
          disk[c].file[job[r].refs[t].file] # "complete"
    BY <1>0, <1>4, <2>1 DEF RequestInv, NewFilesAreMissing, Complete
  <2>3. NoCrash /\ ~job[r].update => \A t \in job'[r].todo : job[r].refs[t].kind = "file" =>
          disk'[c].file[job[r].refs[t].file] # "complete"
    BY <2>1, <2>2
  <2> QED BY <1>2, <2>3 DEF NewFilesAreMissing, NoCrash, Complete
<1>15. Phase(r)' /\ Copying(r)'
  <2>1. /\ disk[c].dir /\ disk[c].json = "complete" /\ ~job[r].again
        /\ ~job[r].dirty => disk[c].params = job[r].refs
    BY <1>0, <1>4 DEF RequestInv, Phase, CopyingFile
  <2>2. Copying(r)'
    BY <1>2 DEF Copying, CopyingFile
  <2>3. disk'[c].dir /\ disk'[c].json = "complete" /\ disk'[c].params = disk[c].params
    BY <2>1
  <2>4. Phase(r)'
    BY <1>2, <2>1, <2>3 DEF Phase, CopyingFile
  <2> QED BY <2>2, <2>4
<1>16. PasteSources(r)'
  BY <1>2, <1>7, OwnPasteSources
<1>17. UnusedAreDropped(r)'
  <2>1. f \in PlainFiles(job[r].refs)
    BY <1>5 DEF PlainFiles
  <2> QED BY SMTT(30), <1>0, <1>2, <1>4, <2>1 DEF RequestInv, UnusedAreDropped, Calm
<1>18. RequestInv(r)'
  BY <1>9, <1>10, <1>11, <1>13, <1>14, <1>15, <1>16, <1>17 DEF RequestInv
<1>19. \A q \in Requests : job[q].target = c => q = r
  BY <1>0, OnlySave
<1>20. NamesOfContent(c)' /\ UnreadableIsEmpty(c)'
  <2>1. f \in named
    BY <1>4, ContentSaveAssumption DEF RequestInv, NamesOfJob
  <2> QED BY SMTT(30), <1>4, <2>1 DEF ContentInv, NamesOfContent, UnreadableIsEmpty, Readable
<1>21. Leftovers(c)'
  <2>1. ASSUME NoCrash, NEW g \in temp', home[g] = c, Complete(c, g)', g # f
        PROVE  FALSE
    <3>1. g \in Files /\ g \in temp
      BY DEF Before, ContentSaveInv, TypeOK
    <3>2. Complete(c, g)
      BY <2>1, <3>1 DEF Complete
    <3> QED BY <1>4, <1>19, <2>1, <3>1, <3>2 DEF ContentInv, Leftovers
  <2>2. f \in temp' => home[f] # c
    BY <1>6, ContentSaveAssumption
  <2> QED BY <2>1, <2>2 DEF Leftovers, NoCrash
<1>22. Partials(c)'
  <2>1. ASSUME NoFailure, NEW g \in Files, disk'[c].file[g] = "partial"
        PROVE  FALSE
    <3>1. g # f /\ disk[c].file[g] = "partial"
      BY <2>1
    <3> QED BY <1>4, <1>19, <2>1, <3>1 DEF ContentInv, Partials
  <2> QED BY <2>1 DEF Partials, NoFailure
<1>23. ContentInv(c)'
  <2>1. ~Planning(job[r])' /\ job'[r].pc # "idle"
    BY <1>2 DEF Planning, Reading
  <2> QED BY <1>7, <1>20, <1>21, <1>22, <2>1, WorkingContent DEF ContentInv
<1> QED BY <1>7, <1>18, <1>23, StepKeepsFiles

-----------------------------------------------------------------------------
(* The copies: the actions *)

\* What a save that copies knows.
LEMMA CopyingFacts ==
  ASSUME Before, NEW r \in Requests, job[r].pc = "copy" \/ job[r].pc \in CopyingFile
  PROVE  /\ job[r].pc # "idle" /\ job[r].pc \in Working
         /\ job \in [Requests -> Job] /\ job[r] \in Job
         /\ job[r].target \in Contents /\ disk[job[r].target] \in Directory
         /\ disk[job[r].target].dir
         /\ job[r].todo \subseteq Slots
         /\ \A s \in Slots : job[r].refs[s] \in Ref
         /\ \A s \in job[r].todo : job[r].refs[s].kind = "file" =>
              /\ job[r].refs[s].file \in Files \cap named
              /\ home[job[r].refs[s].file] = Editor(job[r])
              /\ job[r].refs[s].file \in temp \cup expired
<1>1. job[r].pc # "idle" /\ job[r].pc \in Working /\ job[r].pc \in Working \ {"mkdir"}
  BY DEF CopyingFile, Working, Control, Reading
<1>2. /\ job \in [Requests -> Job] /\ job[r] \in Job
      /\ job[r].target \in Contents /\ disk[job[r].target] \in Directory
      /\ job[r].todo \subseteq Slots
      /\ \A s \in Slots : job[r].refs[s] \in Ref
  BY <1>1, JobTypes DEF Before, ContentSaveInv, TypeOK
<1>3. RequestInv(r)
  BY DEF Before, FilesInv
<1>4. disk[job[r].target].dir
  BY <1>1, <1>3 DEF RequestInv, Phase
<1>5. \A s \in job[r].todo : job[r].refs[s].kind = "file" =>
        /\ job[r].refs[s].file \in Files \cap named
        /\ home[job[r].refs[s].file] = Editor(job[r])
        /\ job[r].refs[s].file \in temp \cup expired
  BY <1>1, <1>2, <1>3, RefFiles DEF RequestInv, TodoIsThere, NamesOfJob
<1> QED BY <1>1, <1>2, <1>4, <1>5

\* A save that is not at a temporary file of its content has none of the files
\* in both places.
LEMMA NoLeftover ==
  ASSUME Before, NoCrash, NEW r \in Requests, job[r].pc # "idle",
         job[r].pc \notin {"checkTemp", "rmTemp"}, job[r].target \in Contents,
         NEW f \in temp, home[f] = job[r].target
  PROVE  ~Complete(job[r].target, f)
<1>1. Leftovers(job[r].target)
  BY DEF Before, FilesInv, ContentInv
<1> QED BY <1>1, OnlySave DEF Leftovers

LEMMA OpenTemporaryFileFiles ==
  ASSUME Before, ContentSaveInv', env' = env, NEW r \in Requests, NEW s \in Slots,
         OpenTemporaryFile(r, s)
  PROVE  FilesInv'
<1>0. /\ job[r].pc = "copy" /\ s \in job[r].todo /\ job[r].refs[s].kind = "file"
      /\ UNCHANGED <<disk, temp, home, named, expired, issued>>
  BY DEF OpenTemporaryFile, NextSlot
<1>1. PICK c \in Contents : c = job[r].target
  BY <1>0, CopyingFacts
<1>2. PICK f \in Files : f = job[r].refs[s].file
  BY <1>0, CopyingFacts
<1>3. /\ f \in named /\ f \in temp \cup expired
      /\ home[f] = Editor(job[r]) /\ disk[c].dir
      /\ job \in [Requests -> Job] /\ job[r] \in Job
      /\ job[r].pc # "idle" /\ job[r].pc \in Working
  BY <1>0, <1>1, <1>2, CopyingFacts
<1>4. CASE f \in temp
  <2>1. /\ job'[r].pc = "openFile" /\ job'[r].slot = s /\ job'[r].file = f
        /\ job'[r].whole = TRUE /\ job'[r].target = c /\ job'[r].update = job[r].update
        /\ job'[r].refs = job[r].refs /\ job'[r].todo = job[r].todo
        /\ job'[r].drop = job[r].drop /\ job'[r].uploads = job[r].uploads
        /\ job'[r].again = job[r].again /\ job'[r].dirty = job[r].dirty
    BY <1>1, <1>2, <1>3, <1>4 DEF OpenTemporaryFile, Job
  <2>2. \A q \in Requests \ {r} : job'[q] = job[q]
    BY <1>3 DEF OpenTemporaryFile
  <2>3. StepOf(r)
    BY <1>0, <1>1, <1>3, <1>4, <2>1, <2>2 DEF StepOf, Editor
  <2>4. NoCrash => ~Complete(c, f)
    <3>1. CASE job[r].update
      BY <1>0, <1>1, <1>3, <1>4, <3>1, NoLeftover DEF Editor
    <3>2. CASE ~job[r].update
      BY <1>0, <1>1, <1>2, <1>3, <3>2
      DEF Before, FilesInv, RequestInv, NewFilesAreMissing
    <3> QED BY <3>1, <3>2
  <2>5. Copying(r)'
    BY <1>0, <1>2, <2>1, <2>4 DEF Copying, NoCrash, Complete
  <2> QED BY <1>0, <1>1, <1>3, <2>1, <2>3, <2>5, NextCopyingStep DEF CopyingFile
<1>5. CASE f \notin temp
  <2>1. job' = [job EXCEPT ![r] = Clear(job[r], s)]
    BY <1>2, <1>5 DEF OpenTemporaryFile
  <2> QED BY <1>0, <1>2, <1>3, <1>5, <2>1, ClearStep DEF CopyingFile
<1> QED BY <1>4, <1>5

LEMMA OpenPastedFileFiles ==
  ASSUME Before, ContentSaveInv', env' = env, NEW r \in Requests, NEW s \in Slots,
         NEW name \in Files \cup {NoFile}, OpenPastedFile(r, s, name)
  PROVE  FilesInv'
<1> DEFINE ref == job[r].refs[s]
           source == disk[ref.from].file[ref.file]
<1>0. /\ job[r].pc = "copy" /\ s \in job[r].todo /\ ref.kind = "paste"
      /\ UNCHANGED <<disk, temp, home, expired, issued>>
  BY DEF OpenPastedFile, NextSlot
<1>1. PICK c \in Contents : c = job[r].target
  BY <1>0, CopyingFacts
<1>2. /\ job \in [Requests -> Job] /\ job[r] \in Job /\ disk[c].dir
      /\ job[r].pc # "idle" /\ job[r].pc \in Working
      /\ ref.file \in Files /\ ref.from \in Contents
  BY <1>0, <1>1, CopyingFacts, RefFiles
<1>3. RequestInv(r) /\ ContentInv(c) /\ KnownNames
  BY DEF Before, FilesInv
<1>4. CASE source # "absent"
  <2>1. /\ name \in Files \ named /\ named' = named \cup {name}
        /\ job' = [job EXCEPT ![r] =
             [job[r] EXCEPT !.pc = "openFile", !.slot = s, !.file = name,
                            !.whole = (source = "complete")]]
    BY <1>1, <1>2, <1>4 DEF OpenPastedFile
  <2> HIDE DEF source, ref
  <2>2. /\ job'[r].pc = "openFile" /\ job'[r].slot = s /\ job'[r].file = name
        /\ job'[r].whole = (source = "complete")
        /\ job'[r].target = c /\ job'[r].update = job[r].update
        /\ job'[r].refs = job[r].refs /\ job'[r].todo = job[r].todo
        /\ job'[r].drop = job[r].drop /\ job'[r].uploads = job[r].uploads
        /\ job'[r].again = job[r].again /\ job'[r].dirty = job[r].dirty
    BY <1>1, <1>2, <2>1 DEF Job
  <2>3. \A q \in Requests \ {r} : job'[q] = job[q]
    BY <1>2, <2>1
  <2>4. StepOf(r)
    BY <1>0, <1>1, <1>2, <2>1, <2>2, <2>3 DEF StepOf
  <2>5. NoPartials => source = "complete"
    <3>1. NoPartials => source # "partial"
      BY <1>0, <1>3 DEF RequestInv, PasteSources, source, ref
    <3>2. source \in FileState
      BY <1>2, DirectoryTypes DEF Before, ContentSaveInv, TypeOK, source, ref
    <3> QED BY <1>4, <3>1, <3>2 DEF FileState
  <2>6. Copying(r)'
    <3>1. name \notin temp \cup expired \cup PlainFiles(disk[c].params) \cup job[r].drop
      BY <1>3, <2>1 DEF KnownNames, ContentInv, NamesOfContent, RequestInv, NamesOfJob
    <3>2. \A t \in Slots : job[r].refs[t].kind # "none" => job[r].refs[t].file # name
      BY <1>3, <2>1 DEF RequestInv, NamesOfJob
    <3>3. disk[c].file[name] = "absent"
      BY <1>3, <2>1 DEF ContentInv, NamesOfContent
    <3>4. job[r].refs[s].kind = "paste"
      BY <1>0 DEF ref
    <3>5. NoPartials' => job'[r].whole
      BY <2>2, <2>5 DEF NoPartials, NoCrash
    <3>6. disk' = disk /\ temp' = temp /\ expired' = expired /\ s \in job[r].todo
      BY <1>0
    <3> HIDE DEF source
    <3> QED BY <2>2, <3>1, <3>2, <3>3, <3>4, <3>5, <3>6 DEF Copying, Complete
  <2> QED BY <1>0, <1>1, <1>2, <2>1, <2>2, <2>4, <2>6, NextCopyingStep DEF CopyingFile
<1>5. CASE source = "absent"
  <2>1. job' = [job EXCEPT ![r] = Clear(job[r], s)] /\ named' = named
    BY <1>5 DEF OpenPastedFile
  <2> QED BY <1>0, <2>1, ClearStep DEF CopyingFile
<1> QED BY <1>4, <1>5

LEMMA FailToCopyFiles ==
  ASSUME Before, ContentSaveInv', env' = env, NEW r \in Requests, FailToCopy(r)
  PROVE  FilesInv'
<1>0. /\ job[r].pc \in {"openFile", "writeFile"} /\ "ioerror" \in env
      /\ job' = [job EXCEPT ![r] = Clear(job[r], job[r].slot)]
      /\ UNCHANGED <<disk, temp, home, named, expired, issued>>
  BY DEF FailToCopy, Before, OneAfterTheOther
<1>1. job[r].pc \in CopyingFile
  BY <1>0 DEF CopyingFile
<1>2. PICK s \in Slots : s = job[r].slot /\ s \in job[r].todo
  <2>1. job[r].slot \in job[r].todo
    BY <1>1 DEF Before, FilesInv, RequestInv, Copying
  <2> QED BY <1>1, <2>1, CopyingFacts
<1> QED BY <1>0, <1>1, <1>2, ClearStep

LEMMA OpenContentFileFiles ==
  ASSUME Before, ContentSaveInv', env' = env, NEW r \in Requests, OpenContentFile(r)
  PROVE  FilesInv'
<1>0. /\ job[r].pc = "openFile" /\ job[r].pc \in CopyingFile
      /\ UNCHANGED <<temp, home, named, expired, issued>>
  BY DEF OpenContentFile, CopyingFile
<1>1. PICK c \in Contents : c = job[r].target
  BY <1>0, CopyingFacts
<1>2. /\ job \in [Requests -> Job] /\ job[r] \in Job
      /\ disk \in [Contents -> Directory] /\ disk[c] \in Directory
      /\ disk[c].file \in [Files -> FileState]
      /\ job[r].pc # "idle" /\ job[r].pc \in Working
  BY <1>0, <1>1, CopyingFacts, DirectoryTypes DEF Before, ContentSaveInv, TypeOK
<1>3. RequestInv(r) /\ ContentInv(c)
  BY DEF Before, FilesInv
<1>4. PICK f \in Files : f = job[r].file
  BY <1>0 DEF Before, ContentSaveInv, SavesInProgress, InProgress
<1>5. /\ job'[r].pc = "writeFile" /\ job'[r].slot = job[r].slot
      /\ job'[r].file = f /\ job'[r].whole = job[r].whole
      /\ job'[r].target = c /\ job'[r].update = job[r].update
      /\ job'[r].refs = job[r].refs /\ job'[r].todo = job[r].todo
      /\ job'[r].drop = job[r].drop /\ job'[r].uploads = job[r].uploads
      /\ job'[r].again = job[r].again /\ job'[r].dirty = job[r].dirty
  BY <1>1, <1>2, <1>4 DEF OpenContentFile, Job
<1>6. \A q \in Requests \ {r} : job'[q] = job[q]
  BY <1>2 DEF OpenContentFile
<1>7. /\ \A d \in Contents \ {c} : disk'[d] = disk[d]
      /\ disk'[c].dir /\ disk'[c].json = disk[c].json /\ disk'[c].params = disk[c].params
      /\ disk'[c].file[f] = "partial"
      /\ \A g \in Files \ {f} : disk'[c].file[g] = disk[c].file[g]
  <2>1. disk' = [disk EXCEPT ![c] = [disk[c] EXCEPT !.dir = TRUE,
                   !.file = [disk[c].file EXCEPT ![f] = "partial"]]]
    BY <1>1, <1>2, <1>4 DEF OpenContentFile, Directory
  <2> QED BY <1>2, <2>1 DEF Directory
<1>8. StepOf(r)
  <2>1. \A g \in Files : \/ disk'[c].file[g] \in {disk[c].file[g], "absent"}
                         \/ g = job[r].file /\ job[r].pc \in {"openFile", "writeFile"}
    BY <1>0, <1>4, <1>7
  <2> QED BY <1>0, <1>1, <1>2, <1>4, <1>5, <1>6, <1>7, <2>1 DEF StepOf
<1>9. job'[r].pc \in Working
  BY <1>5 DEF Working, Control, Reading
<1>10. /\ IdleIsClean(r)' /\ TargetIsIssued(r)' /\ NamesOfJob(r)' /\ Draft(r)'
       /\ NoDuplicates(r)' /\ TodoIsThere(r)' /\ DropsUnused(r)'
       /\ PasteSources(r)' /\ UploadsAreReferenced(r)'
  BY <1>0, <1>2, <1>4, <1>5, <1>8, <1>9, SameReferences
<1>11. NoMarkers(r)'
  BY <1>2, <1>3, <1>5 DEF RequestInv, NoMarkers
<1>12. /\ job[r].slot \in job[r].todo
       /\ NoCrash => disk[c].file[f] # "complete"
  BY <1>0, <1>1, <1>3, <1>4 DEF RequestInv, Copying, Complete
<1>13. \A s \in Slots : job[r].refs[s].kind = "file" => job[r].refs[s].file \in Files
  BY <1>0, CopyingFacts, RefFiles
<1>14. DoneIsComplete(r)'
  <2> SUFFICES ASSUME NoCrash, NEW s \in Slots \ job[r].todo, job[r].refs[s].kind = "file"
               PROVE  \/ disk'[c].file[job[r].refs[s].file] = "complete"
                      \/ Excused(job[r].refs[s].file)
                      \/ \E t \in job[r].todo :
                           PlainRef(job[r].refs[t], job[r].refs[s].file)
    BY <1>0, <1>5 DEF DoneIsComplete, PlainRef, NoCrash, Complete, Excused
  <2>1. \/ Complete(c, job[r].refs[s].file)
        \/ Excused(job[r].refs[s].file)
        \/ \E t \in job[r].todo : PlainRef(job[r].refs[t], job[r].refs[s].file)
    BY <1>1, <1>2, <1>3 DEF RequestInv, DoneIsComplete
  <2> QED BY <1>7, <1>12, <1>13, <2>1 DEF Complete
<1>15. NewFilesAreMissing(r)'
  <2>1. NoCrash /\ ~job[r].update => \A s \in job[r].todo : job[r].refs[s].kind = "file" =>
          disk[c].file[job[r].refs[s].file] # "complete"
    BY <1>1, <1>2, <1>3 DEF RequestInv, NewFilesAreMissing, Complete
  <2>2. job[r].todo \subseteq Slots
    BY <1>0, CopyingFacts
  <2>3. NoCrash /\ ~job[r].update => \A s \in job[r].todo : job[r].refs[s].kind = "file" =>
          disk'[c].file[job[r].refs[s].file] # "complete"
    BY <1>7, <1>13, <2>1, <2>2
  <2> QED BY <1>5, <2>3 DEF NewFilesAreMissing, NoCrash, Complete
<1>16. Phase(r)'
  <2>1. /\ disk[c].json = "complete" /\ ~job[r].again
        /\ ~job[r].dirty => disk[c].params = job[r].refs
    BY <1>0, <1>1, <1>3 DEF RequestInv, Phase
  <2>2. disk'[c].json = "complete" /\ (~job[r].dirty => disk'[c].params = job[r].refs)
    BY <1>7, <2>1
  <2> QED BY <1>5, <1>7, <2>1, <2>2 DEF Phase
<1>17. Copying(r)'
  <2> DEFINE ref == job[r].refs[job[r].slot]
  <2>1. /\ job[r].slot \in job[r].todo
        /\ ref.kind = "file" => f = ref.file /\ job[r].whole
        /\ ref.kind = "paste" =>
             /\ f \notin temp \cup expired \cup PlainFiles(disk[c].params) \cup job[r].drop
             /\ \A s \in Slots : job[r].refs[s].kind # "none" => job[r].refs[s].file # f
        /\ NoPartials => job[r].whole
    BY <1>0, <1>1, <1>3, <1>4 DEF RequestInv, Copying
  <2>2. NoPartials' => job[r].whole
    BY <2>1 DEF NoPartials, NoCrash
  <2>3. /\ temp' = temp /\ expired' = expired /\ disk'[c].params = disk[c].params
        /\ disk'[c].file[f] # "absent"
    BY <1>0, <1>7
  <2> QED BY <1>5, <2>1, <2>2, <2>3 DEF Copying
<1>18. UnusedAreDropped(r)'
  <2>1. Calm => \A g \in Files : disk[c].file[g] # "absent" =>
          g \in PlainFiles(job[r].refs) \cup job[r].drop
    BY <1>0, <1>1, <1>2, <1>3 DEF RequestInv, UnusedAreDropped
  <2> QED BY <1>5, <1>7, <2>1 DEF UnusedAreDropped, Calm
<1>19. RequestInv(r)'
  BY <1>10, <1>11, <1>14, <1>15, <1>16, <1>17, <1>18 DEF RequestInv
<1>20. \A q \in Requests : job[q].target = c => q = r
  BY <1>1, <1>2, OnlySave
<1>21. NamesOfContent(c)' /\ UnreadableIsEmpty(c)'
  <2>1. f \in named
    BY <1>3, <1>4, ContentSaveAssumption DEF RequestInv, NamesOfJob
  <2>2. NamesOfContent(c)'
    BY <1>0, <1>3, <1>7, <2>1 DEF ContentInv, NamesOfContent
  <2>3. UnreadableIsEmpty(c)'
    BY <1>3, <1>7 DEF ContentInv, UnreadableIsEmpty, Readable
  <2> QED BY <2>2, <2>3
<1>22. Leftovers(c)'
  <2>1. ASSUME NoCrash, NEW g \in temp, home[g] = c, disk'[c].file[g] = "complete"
        PROVE  FALSE
    <3>1. g \in Files /\ disk[c].file[g] = "complete"
      BY <1>7, <2>1 DEF Before, ContentSaveInv, TypeOK
    <3>2. ~Complete(c, g)
      BY <1>0, <1>1, <1>2, <2>1, NoLeftover
    <3> QED BY <3>1, <3>2 DEF Complete
  <2> QED BY <1>0, <2>1 DEF Leftovers, NoCrash, Complete
<1>23. Partials(c)'
  <2>1. ASSUME NoFailure, NEW g \in Files, disk'[c].file[g] = "partial"
        PROVE  g = f
    BY <1>0, <1>3, <1>7, <1>20, <2>1 DEF ContentInv, Partials
  <2> QED BY <1>5, <2>1 DEF Partials, NoFailure
<1>24. ContentInv(c)'
  <2>1. ~Planning(job[r])' /\ job'[r].pc # "idle"
    BY <1>5 DEF Planning, Reading
  <2> QED BY <1>1, <1>8, <1>21, <1>22, <1>23, <2>1, WorkingContent DEF ContentInv
<1> QED BY <1>1, <1>8, <1>19, <1>24, StepKeepsFiles

\* The end of the stream, as the content sees it.
LEMMA WriteContentFileEffect ==
  ASSUME Before, env' = env, NEW r \in Requests, WriteContentFile(r),
         NEW c \in Contents, c = job[r].target, NEW f \in Files, f = job[r].file
  PROVE  /\ \A d \in Contents \ {c} : disk'[d] = disk[d]
         /\ disk'[c].dir = disk[c].dir /\ disk'[c].json = disk[c].json
         /\ disk'[c].params = disk[c].params
         /\ disk'[c].file[f] = IF job[r].whole THEN "complete" ELSE disk[c].file[f]
         /\ \A g \in Files \ {f} : disk'[c].file[g] = disk[c].file[g]
<1>0. job[r].pc = "writeFile" /\ job[r].pc \in CopyingFile
  BY DEF WriteContentFile, CopyingFile
<1>1. /\ disk \in [Contents -> Directory] /\ disk[c] \in Directory
      /\ disk[c].file \in [Files -> FileState]
  BY DirectoryTypes DEF Before, ContentSaveInv, TypeOK
<1>2. disk[c].file[f] # "absent"
  BY <1>0 DEF Before, FilesInv, RequestInv, Copying
<1>3. \/ ~job[r].whole /\ disk' = disk
      \/ /\ job[r].whole
         /\ disk' = [disk EXCEPT ![c] = [disk[c] EXCEPT
                      !.file = [disk[c].file EXCEPT ![f] = "complete"]]]
  BY <1>1, <1>2 DEF WriteContentFile, Directory
<1> QED BY <1>1, <1>3 DEF Directory

LEMMA WritePastedFiles ==
  ASSUME Before, ContentSaveInv', env' = env, NEW r \in Requests, WriteContentFile(r),
         job[r].refs[job[r].slot].kind = "paste"
  PROVE  FilesInv'
<1>0. /\ job[r].pc = "writeFile" /\ job[r].pc \in CopyingFile
      /\ UNCHANGED <<temp, home, named, expired, issued>>
  BY DEF WriteContentFile, CopyingFile
<1>1. PICK c \in Contents : c = job[r].target
  BY <1>0, CopyingFacts
<1>2. /\ job \in [Requests -> Job] /\ job[r] \in Job /\ job[r].refs \in [Slots -> Ref]
      /\ job[r].todo \subseteq Slots
      /\ \A t \in Slots : job[r].refs[t] \in Ref
      /\ job[r].pc # "idle" /\ job[r].pc \in Working /\ disk[c].dir
  BY <1>0, <1>1, CopyingFacts DEF Job
<1>3. RequestInv(r) /\ ContentInv(c)
  BY DEF Before, FilesInv
<1>4. PICK f \in Files : f = job[r].file
  BY <1>0 DEF Before, ContentSaveInv, SavesInProgress, InProgress
<1>5. PICK s \in Slots : s = job[r].slot /\ s \in job[r].todo
  BY <1>0, <1>2, <1>3 DEF RequestInv, Copying
<1>6. /\ f \notin temp /\ f \notin job[r].drop /\ f \in named
      /\ \A t \in Slots : job[r].refs[t].kind # "none" => job[r].refs[t].file # f
      /\ NoPartials => job[r].whole
      /\ job[r].refs[s].kind = "paste"
  <2>1. f \in named
    BY <1>3, <1>4, ContentSaveAssumption DEF RequestInv, NamesOfJob
  <2> QED BY <1>0, <1>3, <1>4, <1>5, <2>1 DEF RequestInv, Copying
<1>7. /\ job'[r].pc = "copy" /\ job'[r].todo = job[r].todo \ {s}
      /\ job'[r].file = NoFile /\ job'[r].target = c /\ job'[r].update = job[r].update
      /\ job'[r].drop = job[r].drop /\ job'[r].uploads = job[r].uploads
      /\ job'[r].again = job[r].again /\ job'[r].dirty
      /\ job'[r].refs[s] = FileRef(f)
      /\ \A t \in Slots \ {s} : job'[r].refs[t] = job[r].refs[t]
  <2> DEFINE k == Keep(job[r], s)
  <2>1. k \in Job
    BY <1>2, KeepType
  <2>2. job'[r] = [k EXCEPT !.refs = [k.refs EXCEPT ![s] = FileRef(f)], !.dirty = TRUE]
    BY <1>2, <1>4, <1>5, <2>1 DEF WriteContentFile, Job
  <2>3. /\ k.pc = "copy" /\ k.todo = job[r].todo \ {s}
        /\ k.file = NoFile /\ k.refs = job[r].refs
        /\ k.target = c /\ k.update = job[r].update
        /\ k.drop = job[r].drop /\ k.uploads = job[r].uploads
        /\ k.again = job[r].again
    BY <1>1, <1>2, KeepFields
  <2> HIDE DEF k
  <2> QED BY <1>2, <2>1, <2>2, <2>3 DEF Job
<1>8. \A q \in Requests \ {r} : job'[q] = job[q]
  BY <1>2 DEF WriteContentFile
<1>9. /\ \A d \in Contents \ {c} : disk'[d] = disk[d]
      /\ disk'[c].dir /\ disk'[c].json = disk[c].json /\ disk'[c].params = disk[c].params
      /\ disk'[c].file[f] = IF job[r].whole THEN "complete" ELSE disk[c].file[f]
      /\ \A g \in Files \ {f} : disk'[c].file[g] = disk[c].file[g]
  BY <1>1, <1>2, <1>4, WriteContentFileEffect
<1>10. StepOf(r)
  <2>1. \A g \in Files : \/ disk'[c].file[g] \in {disk[c].file[g], "absent"}
                         \/ g = job[r].file /\ job[r].pc \in {"openFile", "writeFile"}
    BY <1>0, <1>4, <1>9
  <2> QED BY <1>0, <1>1, <1>2, <1>4, <1>7, <1>8, <1>9, <2>1 DEF StepOf
<1>11. FileRef(f).kind = "file" /\ FileRef(f).file = f /\ job'[r].pc \in Working
  BY <1>7 DEF FileRef, Working, Control, Reading
<1>12. IdleIsClean(r)' /\ TargetIsIssued(r)' /\ Draft(r)'
  BY <1>0, <1>1, <1>2, <1>3, <1>7
  DEF RequestInv, IdleIsClean, TargetIsIssued, Draft, Reading
<1>13. NamesOfJob(r)'
  BY <1>0, <1>3, <1>6, <1>7, <1>11 DEF RequestInv, NamesOfJob
<1>14. NoDuplicates(r)'
  <2> SUFFICES ASSUME "duplicate" \notin env, NEW t \in Slots, NEW u \in Slots,
                      job'[r].refs[t].kind # "none",
                      job'[r].refs[t].file = job'[r].refs[u].file, t # u
               PROVE  FALSE
    BY DEF NoDuplicates
  <2>1. \A v \in Slots : job[r].refs[v].file # f
    BY <1>2, <1>6, ContentSaveAssumption DEF Ref
  <2>2. t # s /\ u # s
    BY <1>7, <1>11, <2>1
  <2> QED BY <1>3, <1>7, <2>2 DEF RequestInv, NoDuplicates
<1>15. NoMarkers(r)' /\ TodoIsThere(r)'
  <2>1. \A t \in job'[r].todo : /\ t \in job[r].todo /\ t \in Slots /\ t # s
                                /\ job'[r].refs[t] = job[r].refs[t]
    BY <1>2, <1>7
  <2>2. NoMarkers(r)'
    BY <1>2, <1>3, <1>7, <1>11, <2>1 DEF RequestInv, NoMarkers
  <2>3. TodoIsThere(r)'
    BY <1>0, <1>1, <1>2, <1>3, <1>7, <2>1 DEF RequestInv, TodoIsThere, Editor, PlainRef
  <2> QED BY <2>2, <2>3
<1>16. DoneIsComplete(r)'
  <2> SUFFICES ASSUME NoCrash, NEW t \in Slots \ job'[r].todo, job'[r].refs[t].kind = "file"
               PROVE  \/ disk'[c].file[job'[r].refs[t].file] = "complete"
                      \/ Excused(job'[r].refs[t].file)
                      \/ \E u \in job'[r].todo :
                           PlainRef(job'[r].refs[u], job'[r].refs[t].file)
    BY <1>0, <1>7 DEF DoneIsComplete, PlainRef, NoCrash, Complete, Excused
  <2>1. CASE t = s
    <3>1. job'[r].refs[t].file = f
      BY <1>7, <1>11, <2>1
    <3>2. CASE NoPartials
      BY <1>6, <1>9, <3>1, <3>2
    <3>3. CASE ~NoPartials
      BY <3>3 DEF NoPartials, Excused
    <3> QED BY <3>2, <3>3
  <2>2. CASE t # s
    <3>1. t \notin job[r].todo /\ job'[r].refs[t] = job[r].refs[t]
      BY <1>7, <2>2
    <3>2. \/ Complete(c, job[r].refs[t].file)
          \/ Excused(job[r].refs[t].file)
          \/ \E u \in job[r].todo : PlainRef(job[r].refs[u], job[r].refs[t].file)
      BY <1>1, <1>2, <1>3, <3>1 DEF RequestInv, DoneIsComplete
    <3>3. job[r].refs[t].file \in Files \ {f}
      BY <1>2, <1>6, <3>1, RefFiles
    <3>4. CASE Complete(c, job[r].refs[t].file)
      BY <1>9, <3>1, <3>3, <3>4 DEF Complete
    <3>5. CASE \E u \in job[r].todo : PlainRef(job[r].refs[u], job[r].refs[t].file)
      <4>1. PICK u \in job[r].todo : PlainRef(job[r].refs[u], job[r].refs[t].file)
        BY <3>5
      <4>2. u # s
        BY <1>6, <4>1 DEF PlainRef
      <4> QED BY <1>2, <1>7, <3>1, <4>1, <4>2
    <3> QED BY <3>1, <3>2, <3>4, <3>5
  <2> QED BY <2>1, <2>2
<1>17. DropsUnused(r)'
  <2>1. PlainFiles(job'[r].refs) \subseteq PlainFiles(job[r].refs) \cup {f}
    <3> SUFFICES ASSUME NEW g \in PlainFiles(job'[r].refs)
                 PROVE  g \in PlainFiles(job[r].refs) \cup {f}
      OBVIOUS
    <3>1. PICK t \in Slots : job'[r].refs[t].kind = "file" /\ job'[r].refs[t].file = g
      BY DEF PlainFiles
    <3>2. CASE t # s
      BY <1>7, <3>1, <3>2 DEF PlainFiles
    <3> QED BY <1>7, <1>11, <3>1, <3>2
  <2> QED BY <1>2, <1>3, <1>6, <1>7, <2>1 DEF RequestInv, DropsUnused
<1>18. NewFilesAreMissing(r)'
  <2>1. NoCrash /\ ~job[r].update => \A t \in job[r].todo : job[r].refs[t].kind = "file" =>
          disk[c].file[job[r].refs[t].file] # "complete"
    BY <1>1, <1>2, <1>3 DEF RequestInv, NewFilesAreMissing, Complete
  <2>2. \A t \in job'[r].todo :
          /\ job'[r].refs[t] = job[r].refs[t] /\ t \in job[r].todo
          /\ job[r].refs[t].kind = "file" => job[r].refs[t].file \in Files \ {f}
    BY <1>2, <1>6, <1>7, RefFiles
  <2>3. NoCrash /\ ~job[r].update => \A t \in job'[r].todo : job'[r].refs[t].kind = "file" =>
          disk'[c].file[job'[r].refs[t].file] # "complete"
    BY SMTT(30), <1>9, <2>1, <2>2
  <2> QED BY <1>7, <2>3 DEF NewFilesAreMissing, NoCrash, Complete
<1>19. Phase(r)' /\ Copying(r)'
  <2>1. disk[c].json = "complete" /\ ~job[r].again
    BY <1>0, <1>1, <1>3 DEF RequestInv, Phase
  <2>2. disk'[c].json = "complete"
    BY <1>9, <2>1
  <2> QED BY <1>7, <1>9, <2>1, <2>2 DEF Phase, Copying, CopyingFile
<1>20. PasteSources(r)'
  BY <1>7, <1>10, <1>11, OwnPasteSources
<1>21. UnusedAreDropped(r)' /\ UploadsAreReferenced(r)'
  <2>1. PlainFiles(job[r].refs) \cup {f} \subseteq PlainFiles(job'[r].refs)
    BY <1>6, <1>7, <1>11 DEF PlainFiles
  <2>2. Calm => \A g \in Files : disk[c].file[g] # "absent" =>
          g \in PlainFiles(job[r].refs) \cup job[r].drop \cup {f}
    BY <1>1, <1>2, <1>3, <1>4 DEF RequestInv, UnusedAreDropped
  <2>3. Calm => \A g \in Files : disk'[c].file[g] # "absent" =>
          g \in PlainFiles(job'[r].refs) \cup job'[r].drop
    BY <1>7, <1>9, <2>1, <2>2
  <2>4. UnusedAreDropped(r)'
    BY <1>7, <2>3 DEF UnusedAreDropped, Calm
  <2> QED BY <1>0, <1>2, <1>3, <1>7, <2>1, <2>4
          DEF RequestInv, UploadsAreReferenced, NoFailure
<1>22. RequestInv(r)'
  BY <1>12, <1>13, <1>14, <1>15, <1>16, <1>17, <1>18, <1>19, <1>20, <1>21 DEF RequestInv
<1>23. NamesOfContent(c)' /\ UnreadableIsEmpty(c)'
  <2>1. NamesOfContent(c)'
    BY <1>0, <1>3, <1>6, <1>9 DEF ContentInv, NamesOfContent
  <2>2. UnreadableIsEmpty(c)'
    BY <1>3, <1>9 DEF ContentInv, UnreadableIsEmpty, Readable
  <2> QED BY <2>1, <2>2
<1>24. Leftovers(c)'
  <2>1. ASSUME NoCrash, NEW g \in temp, home[g] = c, disk'[c].file[g] = "complete"
        PROVE  FALSE
    <3>1. g \in Files /\ disk[c].file[g] = "complete"
      BY <1>6, <1>9, <2>1 DEF Before, ContentSaveInv, TypeOK
    <3>2. ~Complete(c, g)
      BY <1>0, <1>1, <1>2, <2>1, NoLeftover
    <3> QED BY <3>1, <3>2 DEF Complete
  <2> QED BY <1>0, <2>1 DEF Leftovers, NoCrash, Complete
<1>25. Partials(c)'
  <2>1. ASSUME NoFailure, NEW g \in Files, disk'[c].file[g] = "partial"
        PROVE  FALSE
    <3>1. NoPartials
      BY <2>1 DEF NoFailure, NoPartials, NoCrash
    <3>2. g # f /\ disk[c].file[g] = "partial"
      BY <1>6, <1>9, <2>1, <3>1
    <3>3. \A q \in Requests : job[q].target = c => q = r
      BY <1>1, <1>2, OnlySave
    <3> QED BY <1>3, <1>4, <2>1, <3>2, <3>3 DEF ContentInv, Partials
  <2> QED BY <2>1 DEF Partials, NoFailure
<1>26. ContentInv(c)'
  <2>1. ~Planning(job[r])' /\ job'[r].pc # "idle"
    BY <1>7 DEF Planning, Reading
  <2> QED BY <1>1, <1>10, <1>23, <1>24, <1>25, <2>1, WorkingContent DEF ContentInv
<1> QED BY <1>1, <1>10, <1>22, <1>26, StepKeepsFiles

\* The copy of a temporary file ends.
LEMMA WriteCopiedFiles ==
  ASSUME Before, ContentSaveInv', env' = env, NEW r \in Requests, WriteContentFile(r),
         job[r].refs[job[r].slot].kind # "paste"
  PROVE  FilesInv'
<1>0. /\ job[r].pc = "writeFile" /\ job[r].pc \in CopyingFile
      /\ UNCHANGED <<temp, home, named, expired, issued>>
  BY DEF WriteContentFile, CopyingFile
<1>1. PICK c \in Contents : c = job[r].target
  BY <1>0, CopyingFacts
<1>2. /\ job \in [Requests -> Job] /\ job[r] \in Job /\ job[r].refs \in [Slots -> Ref]
      /\ job[r].todo \subseteq Slots
      /\ \A t \in Slots : job[r].refs[t] \in Ref
      /\ job[r].pc # "idle" /\ job[r].pc \in Working /\ disk[c].dir
  BY <1>0, <1>1, CopyingFacts DEF Job
<1>3. RequestInv(r) /\ ContentInv(c)
  BY DEF Before, FilesInv
<1>4. PICK f \in Files : f = job[r].file
  BY <1>0 DEF Before, ContentSaveInv, SavesInProgress, InProgress
<1>5. PICK s \in Slots : s = job[r].slot /\ s \in job[r].todo
  BY <1>0, <1>2, <1>3 DEF RequestInv, Copying
<1>6. job[r].refs[s].kind = "file" /\ job[r].refs[s].file = f /\ job[r].whole
  <2>1. job[r].refs[s].kind \notin {"none", "tmp", "paste"}
    BY <1>2, <1>3, <1>5 DEF RequestInv, NoMarkers
  <2>2. job[r].refs[s].kind = "file"
    BY <1>2, <2>1, RefFiles
  <2> QED BY <1>0, <1>3, <1>4, <1>5, <2>2 DEF RequestInv, Copying
<1>7. /\ \A d \in Contents \ {c} : disk'[d] = disk[d]
      /\ disk'[c].dir = disk[c].dir /\ disk'[c].json = disk[c].json
      /\ disk'[c].params = disk[c].params
      /\ disk'[c].file[f] = "complete"
      /\ \A g \in Files \ {f} : disk'[c].file[g] = disk[c].file[g]
  BY <1>1, <1>4, <1>6, WriteContentFileEffect
<1>8. \A q \in Requests \ {r} : job'[q] = job[q]
  BY <1>2 DEF WriteContentFile
<1>9. CASE ~job[r].update
  <2>1. job'[r] = Keep(job[r], s)
    BY <1>2, <1>5, <1>6, <1>9 DEF WriteContentFile, DeletesTemporaryFile
  <2> QED BY <1>0, <1>1, <1>4, <1>5, <1>6, <1>7, <1>8, <1>9, <2>1, KeepStep
<1>10. CASE job[r].update
  <2>1. /\ job'[r].pc = "checkTemp" /\ job'[r].slot = s /\ job'[r].file = f
        /\ job'[r].whole = job[r].whole
        /\ job'[r].target = c /\ job'[r].update
        /\ job'[r].refs = job[r].refs /\ job'[r].todo = job[r].todo
        /\ job'[r].drop = job[r].drop /\ job'[r].uploads = job[r].uploads
        /\ job'[r].again = job[r].again /\ job'[r].dirty = job[r].dirty
    BY <1>1, <1>2, <1>4, <1>5, <1>6, <1>10 DEF WriteContentFile, DeletesTemporaryFile, Job
  <2>2. StepOf(r)
    <3>1. \A g \in Files : \/ disk'[c].file[g] \in {disk[c].file[g], "absent"}
                           \/ g = job[r].file /\ job[r].pc \in {"openFile", "writeFile"}
      BY <1>0, <1>4, <1>7
    <3> QED BY <1>0, <1>1, <1>2, <1>7, <1>8, <1>10, <2>1, <3>1 DEF StepOf
  <2>3. job'[r].pc \in Working /\ job'[r].update = job[r].update
    BY <1>10, <2>1 DEF Working, Control, Reading
  <2>4. /\ IdleIsClean(r)' /\ TargetIsIssued(r)' /\ NamesOfJob(r)' /\ Draft(r)'
        /\ NoDuplicates(r)' /\ TodoIsThere(r)' /\ DropsUnused(r)'
        /\ PasteSources(r)' /\ UploadsAreReferenced(r)'
    BY <1>0, <1>2, <1>4, <2>1, <2>2, <2>3, SameReferences
  <2>5. NoMarkers(r)'
    BY <1>2, <1>3, <2>1 DEF RequestInv, NoMarkers
  <2>6. DoneIsComplete(r)'
    <3> SUFFICES ASSUME NoCrash, NEW t \in Slots \ job[r].todo, job[r].refs[t].kind = "file"
                 PROVE  \/ disk'[c].file[job[r].refs[t].file] = "complete"
                        \/ Excused(job[r].refs[t].file)
                        \/ \E u \in job[r].todo :
                             PlainRef(job[r].refs[u], job[r].refs[t].file)
      BY <1>0, <2>1 DEF DoneIsComplete, PlainRef, NoCrash, Complete, Excused
    <3>1. \/ Complete(c, job[r].refs[t].file)
          \/ Excused(job[r].refs[t].file)
          \/ \E u \in job[r].todo : PlainRef(job[r].refs[u], job[r].refs[t].file)
      BY <1>1, <1>2, <1>3 DEF RequestInv, DoneIsComplete
    <3>2. job[r].refs[t].file \in Files
      BY <1>2, RefFiles
    <3> QED BY <1>7, <3>1, <3>2 DEF Complete
  <2>7. NewFilesAreMissing(r)'
    BY <2>1 DEF NewFilesAreMissing
  <2>8. Phase(r)'
    <3>1. /\ disk[c].json = "complete" /\ ~job[r].again
          /\ ~job[r].dirty => disk[c].params = job[r].refs
      BY <1>0, <1>1, <1>3 DEF RequestInv, Phase
    <3>2. /\ disk'[c].json = "complete" /\ disk'[c].dir
          /\ ~job[r].dirty => disk'[c].params = job[r].refs
      BY <1>2, <1>7, <3>1
    <3> QED BY <2>1, <3>1, <3>2 DEF Phase
  <2>9. Copying(r)'
    BY <1>5, <1>6, <1>7, <2>1 DEF Copying, Complete
  <2>10. UnusedAreDropped(r)'
    <3>1. f \in PlainFiles(job[r].refs)
      BY <1>6 DEF PlainFiles
    <3>2. Calm => \A g \in Files : disk[c].file[g] # "absent" =>
            g \in PlainFiles(job[r].refs) \cup job[r].drop \cup {f}
      BY <1>1, <1>2, <1>3, <1>4 DEF RequestInv, UnusedAreDropped
    <3>3. Calm => \A g \in Files : disk'[c].file[g] # "absent" =>
            g \in PlainFiles(job[r].refs) \cup job[r].drop
      BY <1>7, <3>1, <3>2
    <3> QED BY <2>1, <3>3 DEF UnusedAreDropped, Calm
  <2>11. RequestInv(r)'
    BY <2>4, <2>5, <2>6, <2>7, <2>8, <2>9, <2>10 DEF RequestInv
  <2>12. \A q \in Requests : job[q].target = c => q = r
    BY <1>1, <1>2, OnlySave
  <2>13. NamesOfContent(c)' /\ UnreadableIsEmpty(c)'
    <3>1. f \in named
      BY <1>3, <1>4, ContentSaveAssumption DEF RequestInv, NamesOfJob
    <3>2. NamesOfContent(c)'
      BY <1>0, <1>3, <1>7, <3>1 DEF ContentInv, NamesOfContent
    <3>3. UnreadableIsEmpty(c)'
      BY <1>3, <1>7 DEF ContentInv, UnreadableIsEmpty, Readable
    <3> QED BY <3>2, <3>3
  <2>14. Leftovers(c)'
    <3>1. ASSUME NoCrash, NEW g \in temp, home[g] = c, disk'[c].file[g] = "complete"
          PROVE  g = f
      <4>1. ~Complete(c, g)
        BY <1>0, <1>1, <1>2, <3>1, NoLeftover
      <4> QED BY <1>7, <3>1, <4>1 DEF Before, ContentSaveInv, TypeOK, Complete
    <3> QED BY <1>0, <2>1, <3>1 DEF Leftovers, NoCrash, Complete
  <2>15. Partials(c)'
    <3>1. ASSUME NoFailure, NEW g \in Files, disk'[c].file[g] = "partial"
          PROVE  FALSE
      <4>1. g # f /\ disk[c].file[g] = "partial"
        BY <1>7, <3>1
      <4> QED BY <1>3, <1>4, <2>12, <3>1, <4>1 DEF ContentInv, Partials
    <3> QED BY <3>1 DEF Partials, NoFailure
  <2>16. ContentInv(c)'
    <3>1. ~Planning(job[r])' /\ job'[r].pc # "idle"
      BY <2>1 DEF Planning, Reading
    <3> QED BY <1>1, <2>2, <2>13, <2>14, <2>15, <3>1, WorkingContent DEF ContentInv
  <2> QED BY <1>1, <2>2, <2>11, <2>16, StepKeepsFiles
<1> QED BY <1>9, <1>10

LEMMA CheckTemporaryFileFiles ==
  ASSUME Before, ContentSaveInv', env' = env, NEW r \in Requests, CheckTemporaryFile(r)
  PROVE  FilesInv'
<1>0. /\ job[r].pc = "checkTemp" /\ job[r].pc \in CopyingFile
      /\ UNCHANGED <<disk, temp, home, named, expired, issued>>
  BY DEF CheckTemporaryFile, CopyingFile
<1>1. PICK c \in Contents : c = job[r].target
  BY <1>0, CopyingFacts
<1>2. /\ job \in [Requests -> Job] /\ job[r] \in Job /\ job[r].todo \subseteq Slots
      /\ job[r].pc # "idle"
  BY <1>0, <1>1, CopyingFacts DEF Job
<1>3. PICK f \in Files : f = job[r].file
  BY <1>0 DEF Before, ContentSaveInv, SavesInProgress, InProgress
<1>4. Copying(r)
  BY DEF Before, FilesInv, RequestInv
<1>5. PICK s \in Slots : s = job[r].slot /\ s \in job[r].todo
  BY <1>0, <1>2, <1>4 DEF Copying
<1>6. /\ job[r].refs[s].kind = "file" /\ job[r].update
      /\ disk[c].file[f] = "complete"
  BY <1>0, <1>1, <1>3, <1>4, <1>5 DEF Copying, Complete
<1>7. \A q \in Requests \ {r} : job'[q] = job[q]
  BY <1>2 DEF CheckTemporaryFile
<1>8. CASE f \in temp
  <2>1. /\ job'[r].pc = "rmTemp" /\ job'[r].slot = s /\ job'[r].file = f
        /\ job'[r].whole = job[r].whole /\ job'[r].target = c
        /\ job'[r].update = job[r].update
        /\ job'[r].refs = job[r].refs /\ job'[r].todo = job[r].todo
        /\ job'[r].drop = job[r].drop /\ job'[r].uploads = job[r].uploads
        /\ job'[r].again = job[r].again /\ job'[r].dirty = job[r].dirty
    BY <1>1, <1>2, <1>3, <1>5, <1>8 DEF CheckTemporaryFile, Job
  <2>2. StepOf(r)
    BY <1>0, <1>1, <1>2, <1>7, <2>1 DEF StepOf
  <2>3. Copying(r)'
    BY <1>0, <1>1, <1>3, <1>4, <1>5, <1>6, <2>1 DEF Copying, Complete, NoPartials, NoCrash
  <2> QED BY <1>0, <1>1, <1>3, <2>1, <2>2, <2>3, NextCopyingStep DEF CopyingFile
<1>9. CASE f \notin temp
  <2>1. job'[r] = Keep(job[r], s)
    BY <1>2, <1>3, <1>5, <1>9 DEF CheckTemporaryFile
  <2> QED BY <1>0, <1>1, <1>3, <1>5, <1>6, <1>7, <1>9, <2>1, KeepStep
<1> QED BY <1>8, <1>9

LEMMA RemoveTemporaryFileFiles ==
  ASSUME Before, ContentSaveInv', env' = env, NEW r \in Requests, RemoveTemporaryFile(r)
  PROVE  FilesInv'
<1>0. /\ job[r].pc = "rmTemp" /\ job[r].pc \in CopyingFile
      /\ UNCHANGED <<disk, home, named, expired, issued>>
      /\ temp' = temp \ {job[r].file}
  BY DEF RemoveTemporaryFile, CopyingFile
<1>1. PICK c \in Contents : c = job[r].target
  BY <1>0, CopyingFacts
<1>2. /\ job \in [Requests -> Job] /\ job[r].todo \subseteq Slots
      /\ \A t \in job[r].todo : job[r].refs[t].kind = "file" =>
           job[r].refs[t].file \in temp \cup expired
  BY <1>0, <1>1, CopyingFacts DEF Job
<1>3. PICK f \in Files : f = job[r].file
  BY <1>0 DEF Before, ContentSaveInv, SavesInProgress, InProgress
<1>4. Copying(r)
  BY DEF Before, FilesInv, RequestInv
<1>5. PICK s \in Slots : s = job[r].slot /\ s \in job[r].todo
  BY <1>0, <1>2, <1>4 DEF Copying
<1>6. /\ job[r].refs[s].kind = "file" /\ job[r].refs[s].file = f /\ job[r].update
      /\ disk[c].file[f] = "complete"
  BY <1>0, <1>1, <1>3, <1>4, <1>5 DEF Copying, Complete
<1>7. \A q \in Requests \ {r} : job'[q] = job[q]
  BY <1>2 DEF RemoveTemporaryFile
<1>8. CASE f \in temp
  <2>1. job'[r] = Keep(job[r], s)
    BY <1>2, <1>3, <1>5, <1>8 DEF RemoveTemporaryFile
  <2> QED BY <1>0, <1>1, <1>3, <1>5, <1>6, <1>7, <2>1, KeepStep
<1>9. CASE f \notin temp
  <2>1. job' = [job EXCEPT ![r] = Clear(job[r], s)] /\ temp' = temp
    BY <1>0, <1>3, <1>5, <1>9 DEF RemoveTemporaryFile
  <2>2. f \in expired
    BY <1>2, <1>5, <1>6, <1>9
  <2> QED BY <1>0, <1>3, <1>5, <1>6, <1>9, <2>1, <2>2, ClearStep
<1> QED BY <1>8, <1>9

-----------------------------------------------------------------------------
(* deleteUnusedOldFiles *)

LEMMA DeleteUnusedFileFiles ==
  ASSUME Before, ContentSaveInv', env' = env, NEW r \in Requests, NEW f \in Files,
         DeleteUnusedFile(r, f)
  PROVE  FilesInv'
<1>0. /\ job[r].pc = "clean" /\ job[r].pc # "idle" /\ job[r].pc \in Working
      /\ f \in job[r].drop
      /\ UNCHANGED <<temp, home, named, expired, issued>>
  BY DEF DeleteUnusedFile, Working, Control, Reading
<1>1. PICK c \in Contents : c = job[r].target
  BY <1>0, JobTypes DEF Before
<1>2. /\ job \in [Requests -> Job] /\ job[r] \in Job
      /\ disk \in [Contents -> Directory] /\ disk[c] \in Directory
      /\ disk[c].file \in [Files -> FileState]
      /\ job[r].refs \in [Slots -> Ref]
      /\ \A t \in Slots : job[r].refs[t] \in Ref
  BY <1>0, DirectoryTypes DEF Before, ContentSaveInv, TypeOK, Job
<1>3. RequestInv(r) /\ ContentInv(c)
  BY DEF Before, FilesInv
<1>4. /\ job'[r].pc = "clean" /\ job'[r].drop = job[r].drop \ {f}
      /\ job'[r].target = c /\ job'[r].update = job[r].update
      /\ job'[r].refs = job[r].refs /\ job'[r].todo = job[r].todo
      /\ job'[r].uploads = job[r].uploads /\ job'[r].file = job[r].file
  BY <1>0, <1>1, <1>2 DEF DeleteUnusedFile, Job
<1>5. \A q \in Requests \ {r} : job'[q] = job[q]
  BY <1>2 DEF DeleteUnusedFile
<1>6. /\ \A d \in Contents \ {c} : disk'[d] = disk[d]
      /\ disk'[c].dir = disk[c].dir /\ disk'[c].json = disk[c].json
      /\ disk'[c].params = disk[c].params
      /\ disk'[c].file[f] = IF "refusal" \in env THEN disk[c].file[f] ELSE "absent"
      /\ \A g \in Files \ {f} : disk'[c].file[g] = disk[c].file[g]
  <2>1. \/ "refusal" \in env /\ disk' = disk
        \/ /\ "refusal" \notin env
           /\ disk' = [disk EXCEPT ![c] = [disk[c] EXCEPT
                         !.file = [disk[c].file EXCEPT ![f] = "absent"]]]
    BY <1>1, <1>2 DEF DeleteUnusedFile, Directory
  <2> QED BY <1>2, <2>1 DEF Directory
<1>7. /\ job[r].todo = {}
      /\ disk[c].dir /\ disk[c].json = "complete" /\ disk[c].params = job[r].refs
      /\ f \notin PlainFiles(job[r].refs)
      /\ job[r].update
  BY <1>0, <1>1, <1>3 DEF RequestInv, NoMarkers, Phase, DropsUnused
<1>8. StepOf(r)
  <2>1. \A g \in Files : disk'[c].file[g] \in {disk[c].file[g], "absent"}
    BY <1>6
  <2> QED BY <1>0, <1>1, <1>4, <1>5, <1>6, <2>1 DEF StepOf
<1>9. job'[r].pc \in Working
  BY <1>0, <1>4
<1>10. IdleIsClean(r)' /\ TargetIsIssued(r)' /\ Draft(r)'
  BY <1>0, <1>1, <1>3, <1>4 DEF RequestInv, IdleIsClean, TargetIsIssued, Draft, Reading
<1>11. NamesOfJob(r)' /\ NoDuplicates(r)' /\ NoMarkers(r)'
  BY <1>0, <1>3, <1>4 DEF RequestInv, NamesOfJob, NoDuplicates, NoMarkers
<1>12. TodoIsThere(r)' /\ NewFilesAreMissing(r)' /\ DropsUnused(r)'
  BY <1>0, <1>3, <1>4, <1>7 DEF RequestInv, TodoIsThere, NewFilesAreMissing, DropsUnused
<1>13. DoneIsComplete(r)'
  <2> SUFFICES ASSUME NoCrash, NEW t \in Slots, job[r].refs[t].kind = "file"
               PROVE  \/ disk'[c].file[job[r].refs[t].file] = "complete"
                      \/ Excused(job[r].refs[t].file)
    BY <1>0, <1>4 DEF DoneIsComplete, NoCrash, Complete, Excused
  <2>1. \/ Complete(c, job[r].refs[t].file)
        \/ Excused(job[r].refs[t].file)
    BY <1>0, <1>1, <1>3, <1>7 DEF RequestInv, DoneIsComplete
  <2>2. job[r].refs[t].file \in Files \ {f}
    BY <1>2, <1>7, RefFiles DEF PlainFiles
  <2> QED BY <1>6, <2>1, <2>2 DEF Complete
<1>14. Phase(r)' /\ Copying(r)'
  <2>1. disk'[c].dir /\ disk'[c].json = "complete" /\ disk'[c].params = job[r].refs
    BY <1>6, <1>7
  <2> QED BY <1>4, <2>1 DEF Phase, Copying, CopyingFile
<1>15. PasteSources(r)'
  BY <1>0, <1>4, <1>8, OwnPasteSources
<1>16. UnusedAreDropped(r)' /\ UploadsAreReferenced(r)'
  <2>1. Calm => \A g \in Files : disk[c].file[g] # "absent" =>
          g \in PlainFiles(job[r].refs) \cup job[r].drop
    BY <1>0, <1>1, <1>3 DEF RequestInv, UnusedAreDropped
  <2>2. Calm => \A g \in Files : disk'[c].file[g] # "absent" =>
          g \in PlainFiles(job[r].refs) \cup job'[r].drop
    BY <1>4, <1>6, <2>1 DEF Calm
  <2>3. UnusedAreDropped(r)'
    BY <1>4, <2>2 DEF UnusedAreDropped, Calm
  <2> QED BY <1>0, <1>3, <1>4, <2>3 DEF RequestInv, UploadsAreReferenced, NoFailure
<1>17. RequestInv(r)'
  BY <1>10, <1>11, <1>12, <1>13, <1>14, <1>15, <1>16 DEF RequestInv
<1>18. NamesOfContent(c)' /\ UnreadableIsEmpty(c)'
  BY <1>0, <1>3, <1>6 DEF ContentInv, NamesOfContent, UnreadableIsEmpty, Readable
<1>19. Leftovers(c)' /\ Partials(c)'
  <2>1. \A q \in Requests : job[q].target = c => q = r
    BY <1>0, <1>1, OnlySave
  <2>2. NoCrash => \A g \in temp : ~(home[g] = c /\ Complete(c, g))
    BY <1>0, <1>3, <2>1 DEF ContentInv, Leftovers
  <2>3. NoFailure => \A g \in Files : disk[c].file[g] # "partial"
    BY <1>0, <1>3, <2>1 DEF ContentInv, Partials
  <2>4. NoCrash => \A g \in temp : ~(home[g] = c /\ disk'[c].file[g] = "complete")
    BY <1>6, <2>2 DEF Before, ContentSaveInv, TypeOK, Complete
  <2>5. NoFailure => \A g \in Files : disk'[c].file[g] # "partial"
    BY <1>6, <2>3
  <2> QED BY <1>0, <2>4, <2>5 DEF Leftovers, Partials, Complete, NoCrash, NoFailure
<1>20. ContentInv(c)'
  <2>1. ~Planning(job[r])' /\ job'[r].pc # "idle"
    BY <1>4 DEF Planning, Reading
  <2> QED BY <1>1, <1>8, <1>18, <1>19, <2>1, WorkingContent DEF ContentInv
<1> QED BY <1>1, <1>8, <1>17, <1>20, StepKeepsFiles

\* All the steps of a save that is in flight.
LEMMA SaveStepFiles ==
  ASSUME Before, ContentSaveInv', env' = env, NEW r \in Requests, SaveStep(r)
  PROVE  FilesInv'
<1>1. CASE ReadOldParams(r) \/ ReadOldMetadata(r) \/ Reject(r)
  BY <1>1, ReadOldParamsFiles, ReadOldMetadataFiles, RejectFiles
<1>2. CASE \/ MakeDirectory(r) \/ OpenMetadata(r) \/ WriteMetadata(r)
           \/ OpenParameters(r) \/ WriteParameters(r)
  BY <1>2, AddContentFiles
<1>3. CASE FailToStore(r)
  BY <1>3, FailToStoreFiles
<1>4. CASE \E s \in Slots : OpenTemporaryFile(r, s)
  BY <1>4, OpenTemporaryFileFiles
<1>5. CASE \E s \in Slots, name \in Files \cup {NoFile} : OpenPastedFile(r, s, name)
  BY <1>5, OpenPastedFileFiles
<1>6. CASE OpenContentFile(r) \/ FailToCopy(r)
  BY <1>6, OpenContentFileFiles, FailToCopyFiles
<1>7. CASE WriteContentFile(r)
  BY <1>7, WritePastedFiles, WriteCopiedFiles
<1>8. CASE CheckTemporaryFile(r) \/ RemoveTemporaryFile(r)
  BY <1>8, CheckTemporaryFileFiles, RemoveTemporaryFileFiles
<1>9. CASE EndCopy(r) \/ Finish(r)
  BY <1>9, EndCopyFiles, FinishFiles
<1>10. CASE \E f \in Files : DeleteUnusedFile(r, f)
  BY <1>10, DeleteUnusedFileFiles
<1> QED BY <1>1, <1>2, <1>3, <1>4, <1>5, <1>6, <1>7, <1>8, <1>9, <1>10 DEF SaveStep

-----------------------------------------------------------------------------
(* The environment *)

\* What an upload, the expiry of a temporary file and the deletion of a content
\* have in common, as the saves in flight see it.
EnvironmentStepOf(d) ==
  /\ job' = job /\ env' = env /\ issued' = issued
  /\ named \subseteq named' /\ expired \subseteq expired'
  /\ \A f \in named : /\ home'[f] = home[f]
                      /\ f \in temp' => f \in temp
                      /\ f \in temp' \cup expired' <=> f \in temp \cup expired
  /\ \A c \in Contents \ {d} : disk'[c] = disk[c]
  /\ d \in Contents => disk'[d] = NoDirectory
  /\ \A r \in Requests : job[r].pc # "idle" => job[r].target # d

LEMMA EnvironmentKeepsRequests ==
  ASSUME Before, ContentSaveInv', NEW d, EnvironmentStepOf(d), NEW r \in Requests
  PROVE  RequestInv(r)'
<1>0. RequestInv(r) /\ KnownNames
  BY DEF Before, FilesInv
<1>1. CASE job[r].pc = "idle"
  <2>1. job'[r] = IdleJob
    BY <1>0, <1>1 DEF RequestInv, IdleIsClean, EnvironmentStepOf
  <2> QED BY <2>1, IdleRequestNext
<1>2. CASE job[r].pc # "idle"
  <2>1. PICK c \in Contents : c = job[r].target /\ c # d
    BY <1>2, JobTypes DEF Before, EnvironmentStepOf
  <2>2. /\ job' = job /\ env' = env /\ issued' = issued /\ disk'[c] = disk[c]
        /\ named \subseteq named' /\ expired \subseteq expired'
        /\ \A f \in named : /\ home'[f] = home[f]
                            /\ f \in temp' => f \in temp
                            /\ f \in temp' \cup expired' <=> f \in temp \cup expired
    BY <2>1 DEF EnvironmentStepOf
  <2>3. /\ job[r] \in Job /\ job[r].todo \subseteq Slots
        /\ \A s \in Slots : job[r].refs[s] \in Ref
    BY <1>2, JobTypes DEF Before, ContentSaveInv, TypeOK, Job
  <2>4. \A s \in Slots : job[r].refs[s].kind # "none" => job[r].refs[s].file \in named
    BY <1>0 DEF RequestInv, NamesOfJob
  <2>5. IdleIsClean(r)' /\ TargetIsIssued(r)' /\ NamesOfJob(r)' /\ NoDuplicates(r)'
    BY <1>0, <2>2
    DEF RequestInv, IdleIsClean, TargetIsIssued, NamesOfJob, NoDuplicates
  <2>6. Draft(r)'
    BY <1>0, <2>1, <2>2, <2>4 DEF RequestInv, Draft, Readable
  <2>7. NoMarkers(r)' /\ DropsUnused(r)'
    BY <1>0, <2>2 DEF RequestInv, NoMarkers, DropsUnused
  <2>8. TodoIsThere(r)'
    BY <1>0, <2>2, <2>3, <2>4 DEF RequestInv, TodoIsThere, Editor
  <2>9. DoneIsComplete(r)' /\ NewFilesAreMissing(r)'
    BY <1>0, <2>1, <2>2
    DEF RequestInv, DoneIsComplete, NewFilesAreMissing, Complete, Excused, NoCrash
  <2>10. Phase(r)'
    BY <1>0, <2>1, <2>2 DEF RequestInv, Phase
  <2>11. Copying(r)'
    <3>1. job[r].file # NoFile => job[r].file \in named
      BY <1>0 DEF RequestInv, NamesOfJob
    <3>2. job[r].pc \in CopyingFile => job[r].file \in Files
      BY DEF Before, ContentSaveInv, SavesInProgress, InProgress
    <3>3. job[r].pc \in CopyingFile => job[r].file \in named
      BY <3>1, <3>2, ContentSaveAssumption
    <3> QED BY <1>0, <2>1, <2>2, <3>3 DEF RequestInv, Copying, Complete, NoCrash, NoPartials
  <2>12. UnusedAreDropped(r)' /\ UploadsAreReferenced(r)'
    BY <1>0, <2>1, <2>2
    DEF RequestInv, UnusedAreDropped, UploadsAreReferenced, Calm, NoFailure
  <2>13. PasteSources(r)'
    <3> SUFFICES ASSUME NoPartials, NEW s \in Slots, job[r].refs[s].kind = "paste"
                 PROVE  LET e == job[r].refs[s].from
                            f == job[r].refs[s].file
                        IN  /\ e # job[r].target
                            /\ e \in issued
                            /\ ~(home'[f] = e /\ f \in temp')
                            /\ disk'[e].file[f] # "partial"
                            /\ \A q \in Requests : job[q].pc # "idle" /\ job[q].target = e =>
                                 /\ job[q].update
                                 /\ job[q].pc \in {"openFile", "writeFile"} => job[q].file # f
      BY <2>2 DEF PasteSources, NoCrash, NoPartials
    <3> DEFINE e == job[r].refs[s].from
               f == job[r].refs[s].file
    <3>1. /\ e # job[r].target
          /\ e \in issued
          /\ ~(home[f] = e /\ f \in temp)
          /\ disk[e].file[f] # "partial"
          /\ \A q \in Requests : job[q].pc # "idle" /\ job[q].target = e =>
               /\ job[q].update
               /\ job[q].pc \in {"openFile", "writeFile"} => job[q].file # f
      BY <1>0 DEF RequestInv, PasteSources
    <3>2. e \in Contents /\ f \in Files /\ f \in named
      BY <2>3, <2>4, RefFiles
    <3> HIDE DEF e, f
    <3>3. disk'[e].file[f] # "partial"
      <4>1. CASE e = d
        BY <3>2, <4>1 DEF EnvironmentStepOf, NoDirectory
      <4>2. CASE e # d
        BY <3>1, <3>2, <4>2 DEF EnvironmentStepOf
      <4> QED BY <4>1, <4>2
    <3> QED BY <2>2, <3>1, <3>2, <3>3 DEF e, f
  <2> QED BY <2>5, <2>6, <2>7, <2>8, <2>9, <2>10, <2>11, <2>12, <2>13 DEF RequestInv
<1> QED BY <1>1, <1>2

LEMMA EnvironmentKeepsContents ==
  ASSUME Before, ContentSaveInv', NEW d, EnvironmentStepOf(d), NEW c \in Contents
  PROVE  ContentInv(c)'
<1>1. CASE c = d
  BY <1>1, EmptyContent DEF EnvironmentStepOf
<1>2. CASE c # d
  <2>0. ContentInv(c) /\ KnownNames
    BY DEF Before, FilesInv
  <2>1. /\ job' = job /\ env' = env /\ issued' = issued /\ disk'[c] = disk[c]
        /\ named \subseteq named' /\ expired \subseteq expired'
        /\ \A f \in named : home'[f] = home[f] /\ (f \in temp' => f \in temp)
    BY <1>2 DEF EnvironmentStepOf
  <2>2. NamesOfContent(c)' /\ UnissuedIsEmpty(c)' /\ UnreadableIsEmpty(c)'
    BY <2>0, <2>1
    DEF ContentInv, NamesOfContent, UnissuedIsEmpty, UnreadableIsEmpty, Readable
  <2>3. Leftovers(c)'
    <3>1. \A f \in temp' : Complete(c, f) => f \in named
      BY <2>0 DEF ContentInv, NamesOfContent, Complete, ContentSaveInv, TypeOK
    <3> QED BY <2>0, <2>1, <3>1 DEF ContentInv, Leftovers, Complete, NoCrash
  <2>4. Partials(c)'
    BY <2>0, <2>1 DEF ContentInv, Partials, NoFailure
  <2>5. Resolved(c)' /\ Tidy(c)'
    BY <2>0, <2>1
    DEF ContentInv, Resolved, Tidy, Readable, Complete, Excused, NoCrash, Calm, Settled
  <2> QED BY <2>2, <2>3, <2>4, <2>5 DEF ContentInv
<1> QED BY <1>1, <1>2

LEMMA EnvironmentKeepsFiles ==
  ASSUME Before, ContentSaveInv', NEW d, EnvironmentStepOf(d), KnownNames'
  PROVE  FilesInv'
<1>1. OneSavePerContent'
  BY DEF Before, FilesInv, OneSavePerContent, EnvironmentStepOf
<1> QED BY <1>1, EnvironmentKeepsRequests, EnvironmentKeepsContents DEF FilesInv

LEMMA UploadFiles ==
  ASSUME Before, ContentSaveInv', env' = env, NEW f \in Files,
         NEW c \in Contents \cup {NoContent}, Upload(f, c)
  PROVE  FilesInv'
<1>0. KnownNames /\ home \in [Files -> Contents \cup {NoContent, NoFile}] /\ named \subseteq Files
  BY DEF Before, FilesInv, ContentSaveInv, TypeOK
<1>1. /\ f \notin named /\ named' = named \cup {f} /\ temp' = temp \cup {f}
      /\ \A g \in Files \ {f} : home'[g] = home[g]
      /\ UNCHANGED <<disk, expired, issued, job>>
  BY <1>0 DEF Upload
<1>2. KnownNames'
  BY <1>0, <1>1 DEF KnownNames
<1>3. EnvironmentStepOf(NoContent)
  BY <1>0, <1>1, JobTypes, ContentSaveAssumption DEF EnvironmentStepOf, Before
<1> QED BY <1>2, <1>3, EnvironmentKeepsFiles

LEMMA CleanUpFiles ==
  ASSUME Before, ContentSaveInv', env' = env, NEW f \in Files, CleanUp(f)
  PROVE  FilesInv'
<1>0. KnownNames
  BY DEF Before, FilesInv
<1>1. /\ "expiry" \in env /\ f \in temp
      /\ temp' = temp \ {f} /\ expired' = expired \cup {f}
      /\ UNCHANGED <<disk, home, named, issued, job>>
  BY DEF CleanUp
<1>2. KnownNames'
  BY <1>0, <1>1 DEF KnownNames
<1>3. EnvironmentStepOf(NoContent)
  BY <1>0, <1>1, JobTypes, ContentSaveAssumption DEF EnvironmentStepOf, Before
<1> QED BY <1>2, <1>3, EnvironmentKeepsFiles

\* Requests on a content do not overlap: no save works on the deleted content.
LEMMA DeleteContentFiles ==
  ASSUME Before, ContentSaveInv', env' = env, NEW c \in Contents, DeleteContent(c)
  PROVE  FilesInv'
<1>1. /\ disk' = [disk EXCEPT ![c] = NoDirectory]
      /\ \A r \in Requests : job[r].target # c
      /\ UNCHANGED <<temp, home, named, expired, issued, job>>
  BY DEF DeleteContent, Free, Before, OneAfterTheOther
<1>2. KnownNames'
  BY <1>1 DEF KnownNames, Before, FilesInv
<1>3. EnvironmentStepOf(c)
  BY <1>1 DEF EnvironmentStepOf, Before, ContentSaveInv, TypeOK
<1> QED BY <1>2, <1>3, EnvironmentKeepsFiles

\* After a crash no save is in flight, and nothing is promised of the copies.
LEMMA CrashFiles ==
  ASSUME Before, ContentSaveInv', env' = env, Crash
  PROVE  FilesInv'
<1>1. /\ "crash" \in env
      /\ \A r \in Requests : job'[r] = IdleJob
      /\ UNCHANGED <<disk, temp, home, named, expired, issued>>
  BY DEF Crash
<1>2. KnownNames' /\ OneSavePerContent'
  BY <1>1 DEF KnownNames, OneSavePerContent, Before, FilesInv, IdleJob
<1>3. \A r \in Requests : RequestInv(r)'
  BY <1>1, IdleRequestNext
<1>4. ASSUME NEW c \in Contents
      PROVE  ContentInv(c)'
  <2>1. ContentInv(c)
    BY DEF Before, FilesInv
  <2>2. NamesOfContent(c)' /\ UnissuedIsEmpty(c)' /\ UnreadableIsEmpty(c)'
    BY <1>1, <2>1
    DEF ContentInv, NamesOfContent, UnissuedIsEmpty, UnreadableIsEmpty, Readable
  <2>3. Leftovers(c)' /\ Partials(c)' /\ Resolved(c)' /\ Tidy(c)'
    BY <1>1 DEF Leftovers, Partials, Resolved, Tidy, NoCrash, NoFailure, Calm
  <2> QED BY <2>2, <2>3 DEF ContentInv
<1> QED BY <1>2, <1>3, <1>4 DEF FilesInv

-----------------------------------------------------------------------------
(* The start of a save *)

\* The files a client that edits c finds in its editor.
Stored(c) == IF c = NoContent THEN {} ELSE PlainFiles(disk[c].params)

\* The client's editor shows what is stored and what it uploaded itself.
LEMMA DraftFacts ==
  ASSUME Before, NEW c \in Contents \cup {NoContent}, NEW draft \in Drafts(c)
  PROVE  /\ draft \in [Slots -> Ref]
         /\ \A s \in Slots :
              /\ draft[s].kind = "file" => draft[s].file \in Stored(c)
              /\ draft[s].kind = "tmp" =>
                   /\ draft[s].file \in named
                   /\ \/ draft[s].file \in Stored(c)
                      \/ home[draft[s].file] = c /\ draft[s].file \in temp \cup expired
              /\ draft[s].kind = "paste" =>
                   /\ draft[s].from \in Contents \ {c}
                   /\ draft[s].file \in PlainFiles(disk[draft[s].from].params)
                   /\ \A q \in Requests : job[q].target # draft[s].from
         /\ "duplicate" \notin env => \A s, t \in Slots :
              draft[s].kind # "none" /\ draft[s].file = draft[t].file => s = t
<1>0. /\ "stale" \notin env /\ "overlap" \notin env
  BY DEF Before, OneAfterTheOther
<1> DEFINE usable == {f \in named : \/ home[f] = c /\ f \in temp \cup expired
                                    \/ f \in Stored(c)}
           pastes == {p \in (Contents \ {c}) \X Files :
                        Free(p[1]) /\ p[2] \in PlainFiles(disk[p[1]].params)}
<1>1. draft \in [Slots -> Ref]
  BY DraftsType DEF Before, ContentSaveInv
<1>2. \A s \in Slots : draft[s] \in EditorRefs(c)
  BY DEF Drafts
<1>3. EditorRefs(c) \subseteq {NoRef} \cup {FileRef(f) : f \in Stored(c)}
        \cup {TmpRef(f) : f \in usable} \cup {PasteRef(p[1], p[2]) : p \in pastes}
  BY <1>0 DEF EditorRefs, Stored
<1>4. ASSUME NEW s \in Slots
      PROVE  /\ draft[s].kind = "file" => draft[s].file \in Stored(c)
             /\ draft[s].kind = "tmp" => draft[s].file \in usable
             /\ draft[s].kind = "paste" =>
                  \E p \in pastes : draft[s].from = p[1] /\ draft[s].file = p[2]
  <2>1. CASE draft[s] = NoRef
    BY <2>1 DEF NoRef
  <2>2. CASE draft[s] \in {FileRef(f) : f \in Stored(c)}
    BY <2>2 DEF FileRef
  <2>3. CASE draft[s] \in {TmpRef(f) : f \in usable}
    <3> HIDE DEF usable
    <3> QED BY <2>3 DEF TmpRef
  <2>4. CASE draft[s] \in {PasteRef(p[1], p[2]) : p \in pastes}
    <3> HIDE DEF pastes
    <3> QED BY <2>4 DEF PasteRef
  <2> QED BY <1>2, <1>3, <2>1, <2>2, <2>3, <2>4
<1>5. "duplicate" \notin env => \A s, t \in Slots :
        draft[s].kind # "none" /\ draft[s].file = draft[t].file => s = t
  BY DEF Drafts, NoRef
<1>6. \A d \in Contents : Free(d) => \A q \in Requests : job[q].target # d
  BY <1>0 DEF Free
<1> QED BY <1>1, <1>4, <1>5, <1>6

\* What is pasted from a content that no save works on.
LEMMA PastedIsThere ==
  ASSUME Before, NEW c \in Contents, \A q \in Requests : job[q].target # c,
         NEW f \in PlainFiles(disk[c].params)
  PROVE  /\ c \in issued /\ f \in named
         /\ NoPartials => ~(home[f] = c /\ f \in temp) /\ disk[c].file[f] # "partial"
<1>1. ContentInv(c) /\ KnownNames
  BY DEF Before, FilesInv
<1>2. PICK s \in Slots : disk[c].params[s].kind = "file" /\ disk[c].params[s].file = f
  BY DEF PlainFiles
<1>3. disk[c].params # NoRefs
  BY <1>2 DEF NoRefs, NoRef
<1>4. c \in issued /\ f \in named /\ Readable(c)
  BY <1>1, <1>3
  DEF ContentInv, NamesOfContent, UnissuedIsEmpty, UnreadableIsEmpty, NoDirectory
<1>5. f \in Files
  BY <1>4 DEF Before, ContentSaveInv, TypeOK
<1>6. ASSUME NoPartials
      PROVE  ~(home[f] = c /\ f \in temp) /\ disk[c].file[f] # "partial"
  <2>1. Complete(c, f) \/ Excused(f)
    BY <1>1, <1>2, <1>4, <1>6 DEF ContentInv, Resolved, Settled, NoPartials
  <2>2. CASE Complete(c, f)
    BY <1>1, <1>6, <2>2 DEF ContentInv, Leftovers, NoPartials, Complete
  <2>3. CASE Excused(f)
    <3>1. NoFailure /\ f \in expired
      BY <1>6, <2>3 DEF Excused, NoPartials, NoCrash, NoFailure
    <3> QED BY <1>1, <1>5, <3>1 DEF ContentInv, Partials, KnownNames
  <2> QED BY <2>1, <2>2, <2>3
<1> QED BY <1>4, <1>6

\* The new save, as the other saves and the contents see it.
StartOf(r, c) ==
  /\ job[r].pc = "idle"
  /\ \A q \in Requests \ {r} : job'[q] = job[q]
  /\ \A q \in Requests : job[q].target # c
  /\ job'[r].pc # "idle" /\ job'[r].target = c
  /\ job'[r].pc \notin {"openFile", "writeFile"}
  /\ c \in issued => job'[r].update
  /\ issued' = issued \cup {c}
  /\ UNCHANGED <<disk, temp, home, named, expired, env>>

LEMMA StartKeepsFiles ==
  ASSUME Before, ContentSaveInv', NEW r \in Requests, NEW c \in Contents, StartOf(r, c),
         RequestInv(r)'
  PROVE  FilesInv'
<1>0. /\ job[r] = IdleJob
      /\ c # NoContent
  BY ContentSaveAssumption DEF Before, FilesInv, RequestInv, IdleIsClean, StartOf
<1>1. KnownNames' /\ OneSavePerContent'
  BY DEF Before, FilesInv, KnownNames, OneSavePerContent, StartOf
<1>2. ASSUME NEW q \in Requests \ {r}
      PROVE  RequestInv(q)'
  <2>0. RequestInv(q)
    BY DEF Before, FilesInv
  <2>1. /\ job'[q] = job[q] /\ issued \subseteq issued'
        /\ UNCHANGED <<disk, temp, home, named, expired, env>>
    BY DEF StartOf
  <2>2. IdleIsClean(q)' /\ TargetIsIssued(q)' /\ NamesOfJob(q)' /\ Draft(q)'
        /\ NoDuplicates(q)' /\ NoMarkers(q)' /\ TodoIsThere(q)'
    BY SMTT(30), <2>0, <2>1
    DEF RequestInv, IdleIsClean, TargetIsIssued, NamesOfJob, Draft, NoDuplicates,
        NoMarkers, TodoIsThere, Editor, Readable
  <2>3. DoneIsComplete(q)' /\ DropsUnused(q)' /\ Phase(q)' /\ NewFilesAreMissing(q)'
    BY <2>0, <2>1
    DEF RequestInv, DoneIsComplete, DropsUnused, Phase, NewFilesAreMissing, NoCrash,
        Complete, Excused
  <2>4. Copying(q)' /\ UnusedAreDropped(q)' /\ UploadsAreReferenced(q)'
    BY SMTT(30), <2>0, <2>1
    DEF RequestInv, Copying, UnusedAreDropped, UploadsAreReferenced, NoCrash,
        NoPartials, NoFailure, Calm, Complete
  <2>5. PasteSources(q)'
    <3>0. PasteSources(q)
      BY <2>0 DEF RequestInv
    <3> SUFFICES ASSUME NoPartials', NEW s \in Slots, job'[q].refs[s].kind = "paste"
                 PROVE  LET b == job'[q].refs[s].from
                            f == job'[q].refs[s].file
                        IN  /\ b # job'[q].target
                            /\ b \in issued'
                            /\ ~(home'[f] = b /\ f \in temp')
                            /\ disk'[b].file[f] # "partial"
                            /\ \A p \in Requests : job'[p].pc # "idle" /\ job'[p].target = b =>
                                 /\ job'[p].update
                                 /\ job'[p].pc \in {"openFile", "writeFile"} => job'[p].file # f
      BY DEF PasteSources
    <3>4. NoPartials /\ job[q].refs[s].kind = "paste"
      BY <2>1 DEF NoPartials, NoCrash
    <3> DEFINE b == job[q].refs[s].from
               f == job[q].refs[s].file
    <3>1. /\ b # job[q].target
          /\ b \in issued
          /\ ~(home[f] = b /\ f \in temp)
          /\ disk[b].file[f] # "partial"
          /\ \A p \in Requests : job[p].pc # "idle" /\ job[p].target = b =>
               /\ job[p].update
               /\ job[p].pc \in {"openFile", "writeFile"} => job[p].file # f
      BY <3>0, <3>4 DEF PasteSources
    <3>2. ASSUME NEW p \in Requests, job'[p].pc # "idle", job'[p].target = b
          PROVE  /\ job'[p].update
                 /\ job'[p].pc \in {"openFile", "writeFile"} => job'[p].file # f
      <4>1. CASE p = r
        BY <3>1, <3>2, <4>1 DEF StartOf
      <4>2. CASE p # r
        <5>1. job'[p] = job[p]
          BY <4>2 DEF StartOf
        <5> QED BY <3>1, <3>2, <5>1
      <4> QED BY <4>1, <4>2
    <3> HIDE DEF b, f
    <3> QED BY <2>1, <3>1, <3>2 DEF b, f
  <2> QED BY <2>2, <2>3, <2>4, <2>5 DEF RequestInv
<1>3. ASSUME NEW d \in Contents
      PROVE  ContentInv(d)'
  <2>0. ContentInv(d)
    BY DEF Before, FilesInv
  <2>1. /\ issued \subseteq issued' /\ disk' = disk
        /\ UNCHANGED <<disk, temp, home, named, expired, env>>
        /\ \A q \in Requests : job[q].pc # "idle" => job'[q] = job[q]
        /\ \A q \in Requests : job[q].target = d => job'[q] = job[q]
    BY <1>0, ContentSaveAssumption DEF StartOf, IdleJob
  <2>2. NamesOfContent(d)' /\ UnissuedIsEmpty(d)' /\ UnreadableIsEmpty(d)'
    BY <2>0, <2>1
    DEF ContentInv, NamesOfContent, UnissuedIsEmpty, UnreadableIsEmpty, Readable
  <2>3. Leftovers(d)' /\ Partials(d)'
    BY <2>0, <2>1 DEF ContentInv, Leftovers, Partials, Complete, NoCrash, NoFailure
  <2>4. Settled(d)' => Settled(d)
    BY <2>1 DEF Settled, Planning
  <2>5. Resolved(d)' /\ Tidy(d)'
    BY <2>0, <2>1, <2>4
    DEF ContentInv, Resolved, Tidy, Readable, Complete, Excused, NoCrash, Calm
  <2> QED BY <2>2, <2>3, <2>5 DEF ContentInv
<1> QED BY <1>1, <1>2, <1>3 DEF FilesInv

\* The fields of the job of a save that begins.
LEMMA BeginFields ==
  ASSUME Before, env' = env, NEW r \in Requests, NEW c \in Contents,
         NEW draft, NEW update \in BOOLEAN, Begin(r, c, draft, update)
  PROVE  /\ job[r].pc = "idle" /\ \A q \in Requests \ {r} : job'[q] = job[q]
         /\ UNCHANGED <<disk, temp, home, named, expired, env>>
         /\ job'[r].pc = IF update THEN "oldParams" ELSE "mkdir"
         /\ job'[r].target = c /\ job'[r].update = update
         /\ job'[r].refs = IF update THEN draft ELSE WithoutMarkers(draft)
         /\ job'[r].uploads = TmpFiles(draft)
         /\ job'[r].todo = IF update THEN {} ELSE FromTemp(draft, {}) \cup FromPaste(draft)
         /\ ~job'[r].again /\ ~job'[r].dirty
         /\ job'[r].file = NoFile /\ job'[r].drop = {}
<1>1. job \in [Requests -> Job]
  BY DEF Before, ContentSaveInv, TypeOK
<1> DEFINE pc == IF update THEN "oldParams" ELSE "mkdir"
           refs == IF update THEN draft ELSE WithoutMarkers(draft)
           todo == IF update THEN {} ELSE FromTemp(draft, {}) \cup FromPaste(draft)
           j == [IdleJob EXCEPT !.pc = pc, !.target = c, !.update = update,
                                !.refs = refs, !.uploads = TmpFiles(draft), !.todo = todo]
<1>2. job' = [job EXCEPT ![r] = j]
  BY DEF Begin
<1> HIDE DEF pc, refs, todo
<1>3. /\ j.pc = pc /\ j.target = c /\ j.update = update /\ j.refs = refs
      /\ j.uploads = TmpFiles(draft) /\ j.todo = todo
      /\ ~j.again /\ ~j.dirty /\ j.file = NoFile /\ j.drop = {}
  BY DEF IdleJob
<1> HIDE DEF j
<1>4. job'[r] = j /\ \A q \in Requests \ {r} : job'[q] = job[q]
  BY <1>1, <1>2
<1> QED BY <1>3, <1>4 DEF Begin, pc, refs, todo

\* The pasted references of a new save.
LEMMA NewPasteSources ==
  ASSUME Before, ContentSaveInv', NEW r \in Requests, NEW c \in Contents, StartOf(r, c),
         \A s \in Slots : job'[r].refs[s].kind = "paste" =>
           /\ job'[r].refs[s].from \in Contents \ {c}
           /\ job'[r].refs[s].file \in PlainFiles(disk[job'[r].refs[s].from].params)
           /\ \A q \in Requests : job[q].target # job'[r].refs[s].from
  PROVE  PasteSources(r)'
<1> SUFFICES ASSUME NoPartials, NEW s \in Slots, job'[r].refs[s].kind = "paste"
             PROVE  LET e == job'[r].refs[s].from
                        f == job'[r].refs[s].file
                    IN  /\ e # c
                        /\ e \in issued'
                        /\ ~(home[f] = e /\ f \in temp)
                        /\ disk[e].file[f] # "partial"
                        /\ \A q \in Requests : job'[q].target # e
  BY DEF PasteSources, NoPartials, NoCrash, StartOf
<1> DEFINE e == job'[r].refs[s].from
           f == job'[r].refs[s].file
<1>1. /\ e \in Contents \ {c} /\ f \in PlainFiles(disk[e].params)
      /\ \A q \in Requests : job[q].target # e
  OBVIOUS
<1> HIDE DEF e, f
<1>2. /\ e \in issued /\ ~(home[f] = e /\ f \in temp) /\ disk[e].file[f] # "partial"
  BY <1>1, PastedIsThere
<1>3. \A q \in Requests : job'[q].target # e
  BY <1>1 DEF StartOf
<1>4. issued \subseteq issued'
  BY DEF StartOf
<1> QED BY <1>1, <1>2, <1>3, <1>4 DEF e, f

LEMMA StartUpdateFiles ==
  ASSUME Before, ContentSaveInv', env' = env, NEW r \in Requests, NEW c \in Contents,
         NEW draft \in Drafts(c), StartUpdate(r, c, draft)
  PROVE  FilesInv'
<1>0. /\ c \in issued /\ issued' = issued /\ Begin(r, c, draft, TRUE)
      /\ \A q \in Requests : job[q].target # c
  BY DEF StartUpdate, Free, Before, OneAfterTheOther
<1>1. /\ job[r].pc = "idle" /\ \A q \in Requests \ {r} : job'[q] = job[q]
      /\ UNCHANGED <<disk, temp, home, named, expired, env>>
      /\ job'[r].pc = "oldParams" /\ job'[r].target = c /\ job'[r].update
      /\ job'[r].refs = draft /\ job'[r].uploads = TmpFiles(draft)
      /\ job'[r].todo = {} /\ ~job'[r].again /\ ~job'[r].dirty
      /\ job'[r].file = NoFile /\ job'[r].drop = {}
  BY <1>0, BeginFields
<1>2. /\ \A s \in Slots :
           /\ draft[s].kind = "file" => draft[s].file \in Stored(c)
           /\ draft[s].kind = "tmp" =>
                /\ draft[s].file \in named
                /\ \/ draft[s].file \in Stored(c)
                   \/ home[draft[s].file] = c /\ draft[s].file \in temp \cup expired
           /\ draft[s].kind = "paste" =>
                /\ draft[s].from \in Contents \ {c}
                /\ draft[s].file \in PlainFiles(disk[draft[s].from].params)
                /\ \A q \in Requests : job[q].target # draft[s].from
      /\ "duplicate" \notin env => \A s, t \in Slots :
           draft[s].kind # "none" /\ draft[s].file = draft[t].file => s = t
      /\ draft \in [Slots -> Ref]
  BY DraftFacts
<1>3. StartOf(r, c)
  BY <1>0, <1>1 DEF StartOf
<1>4. Stored(c) = PlainFiles(disk[c].params) /\ Stored(c) \subseteq named
  BY ContentSaveAssumption DEF Stored, Before, FilesInv, ContentInv, NamesOfContent
<1>5. IdleIsClean(r)' /\ TargetIsIssued(r)' /\ NoDuplicates(r)'
  BY <1>0, <1>1, <1>2 DEF IdleIsClean, TargetIsIssued, NoDuplicates
<1>6. NamesOfJob(r)'
  <2>1. \A s \in Slots : draft[s].kind # "none" => draft[s].file \in named
    <3> TAKE s \in Slots
    <3>1. draft[s].kind = "paste" => draft[s].file \in named
      BY <1>2, PastedIsThere
    <3>2. draft[s] \in Ref
      BY <1>2
    <3>3. draft[s].kind \in {"none", "file", "tmp", "paste"}
      BY <3>2, RefFiles
    <3> QED BY <1>2, <1>4, <3>1, <3>3
  <2> QED BY <1>1, <2>1 DEF NamesOfJob
<1>7. Draft(r)'
  BY <1>1, <1>2, <1>4 DEF Draft
<1>8. /\ NoMarkers(r)' /\ TodoIsThere(r)' /\ DoneIsComplete(r)' /\ DropsUnused(r)'
      /\ Phase(r)' /\ NewFilesAreMissing(r)' /\ UnusedAreDropped(r)'
      /\ UploadsAreReferenced(r)' /\ Copying(r)'
  BY <1>1
  DEF NoMarkers, TodoIsThere, DoneIsComplete, DropsUnused, Phase, NewFilesAreMissing,
      UnusedAreDropped, UploadsAreReferenced, Copying, Working, Reading, CopyingFile
<1>9. PasteSources(r)'
  BY <1>1, <1>2, <1>3, NewPasteSources
<1>10. RequestInv(r)'
  BY <1>5, <1>6, <1>7, <1>8, <1>9 DEF RequestInv
<1> QED BY <1>3, <1>10, StartKeepsFiles

LEMMA StartCreateFiles ==
  ASSUME Before, ContentSaveInv', env' = env, NEW r \in Requests, NEW c \in Contents,
         NEW draft \in Drafts(NoContent), StartCreate(r, c, draft)
  PROVE  FilesInv'
<1>0. c \notin issued /\ issued' = issued \cup {c} /\ Begin(r, c, draft, FALSE)
  BY DEF StartCreate
<1>1. /\ job[r].pc = "idle" /\ \A q \in Requests \ {r} : job'[q] = job[q]
      /\ UNCHANGED <<disk, temp, home, named, expired, env>>
      /\ job'[r].pc = "mkdir" /\ job'[r].target = c /\ ~job'[r].update
      /\ job'[r].refs = WithoutMarkers(draft) /\ job'[r].uploads = TmpFiles(draft)
      /\ job'[r].todo = FromTemp(draft, {}) \cup FromPaste(draft)
      /\ ~job'[r].again /\ ~job'[r].dirty
      /\ job'[r].file = NoFile /\ job'[r].drop = {}
  BY <1>0, BeginFields
<1>2. /\ \A s \in Slots :
           /\ draft[s].kind # "file"
           /\ draft[s].kind = "tmp" => /\ draft[s].file \in named
                                       /\ home[draft[s].file] = NoContent
                                       /\ draft[s].file \in temp \cup expired
           /\ draft[s].kind = "paste" =>
                /\ draft[s].from \in Contents
                /\ draft[s].file \in PlainFiles(disk[draft[s].from].params)
                /\ \A q \in Requests : job[q].target # draft[s].from
      /\ "duplicate" \notin env => \A s, t \in Slots :
           draft[s].kind # "none" /\ draft[s].file = draft[t].file => s = t
      /\ draft \in [Slots -> Ref]
  BY DraftFacts DEF Stored
<1>3. \A s \in Slots : draft[s].kind = "paste" =>
        draft[s].from \in issued /\ draft[s].from # c /\ draft[s].file \in named
  BY <1>0, <1>2, PastedIsThere
<1>4. /\ \A s \in Slots : draft[s].kind # "tmp" => job'[r].refs[s] = draft[s]
      /\ \A s \in Slots : draft[s].kind = "tmp" =>
           job'[r].refs[s].kind = "file" /\ job'[r].refs[s].file = draft[s].file
      /\ PlainFiles(job'[r].refs) = PlainFiles(draft) \cup TmpFiles(draft)
  BY <1>1, <1>2, WithoutMarkersFiles
<1>5. \A q \in Requests : job[q].target # c
  <2> SUFFICES ASSUME NEW q \in Requests, job[q].target = c
               PROVE  FALSE
    OBVIOUS
  <2>1. job[q].pc = "idle"
    BY <1>0 DEF Before, FilesInv, RequestInv, TargetIsIssued
  <2>2. job[q] = IdleJob
    BY <2>1 DEF Before, FilesInv, RequestInv, IdleIsClean
  <2> QED BY <2>2, ContentSaveAssumption DEF IdleJob
<1>6. StartOf(r, c)
  BY <1>0, <1>1, <1>5 DEF StartOf
<1>7. /\ disk[c] = NoDirectory
      /\ \A f \in Files : disk[c].file[f] = "absent"
  <2>1. disk[c] = NoDirectory
    BY <1>0 DEF Before, FilesInv, ContentInv, UnissuedIsEmpty
  <2> QED BY <2>1 DEF NoDirectory
<1>8. \A s \in Slots : draft[s].kind \in {"none", "tmp", "paste"} /\ draft[s] \in Ref
  BY <1>2, RefFiles
<1>9. IdleIsClean(r)' /\ TargetIsIssued(r)' /\ NamesOfJob(r)'
  <2>1. \A s \in Slots : job'[r].refs[s].kind # "none" => job'[r].refs[s].file \in named
    BY <1>2, <1>3, <1>4, <1>8
  <2> QED BY <1>0, <1>1, <2>1 DEF IdleIsClean, TargetIsIssued, NamesOfJob
<1>10. NoDuplicates(r)'
  <2>1. \A s \in Slots : /\ job'[r].refs[s].file = draft[s].file
                         /\ job'[r].refs[s].kind # "none" => draft[s].kind # "none"
    BY <1>4
  <2> QED BY <1>1, <1>2, <2>1 DEF NoDuplicates
<1>11. /\ Draft(r)' /\ Phase(r)' /\ Copying(r)' /\ DropsUnused(r)'
  BY <1>1 DEF Draft, Phase, Copying, DropsUnused, Reading, CopyingFile
<1>12. NoMarkers(r)'
  <2>1. ASSUME NEW s \in Slots
        PROVE  /\ job'[r].refs[s].kind # "tmp"
               /\ job'[r].refs[s].kind = "paste" => s \in job'[r].todo
               /\ s \in job'[r].todo => job'[r].refs[s].kind # "none"
    <3>1. s \in FromPaste(draft) <=> draft[s].kind = "paste"
      BY DEF FromPaste
    <3>2. s \in FromTemp(draft, {}) => draft[s].kind = "tmp"
      BY DEF FromTemp
    <3> QED BY <1>1, <1>4, <3>1, <3>2
  <2> QED BY <1>1, <2>1 DEF NoMarkers
<1>13. \A s \in job'[r].todo : job'[r].refs[s].kind = "file" =>
         /\ s \in FromTemp(draft, {}) /\ s \in Slots /\ draft[s].kind = "tmp"
         /\ job'[r].refs[s].file = draft[s].file
  <2> SUFFICES ASSUME NEW s \in FromTemp(draft, {}) \cup FromPaste(draft),
                      job'[r].refs[s].kind = "file"
               PROVE  /\ s \in FromTemp(draft, {}) /\ s \in Slots
                      /\ draft[s].kind = "tmp"
                      /\ job'[r].refs[s].file = draft[s].file
    BY <1>1
  <2>1. s \in FromTemp(draft, {})
    BY <1>4 DEF FromPaste
  <2> QED BY <1>4, <2>1 DEF FromTemp
<1>14. TodoIsThere(r)'
  <2> SUFFICES ASSUME NEW s \in job'[r].todo, job'[r].refs[s].kind = "file"
               PROVE  /\ home[job'[r].refs[s].file] = NoContent
                      /\ job'[r].refs[s].file \in temp \cup expired
                      /\ \A t \in job'[r].todo :
                           PlainRef(job'[r].refs[t], job'[r].refs[s].file) => s = t
    BY <1>1 DEF TodoIsThere, Editor, PlainRef
  <2>1. /\ s \in FromTemp(draft, {}) /\ s \in Slots /\ draft[s].kind = "tmp"
        /\ job'[r].refs[s].file = draft[s].file
    BY <1>13
  <2>2. ASSUME NEW t \in job'[r].todo, PlainRef(job'[r].refs[t], job'[r].refs[s].file)
        PROVE  s = t
    <3>1. t \in FromTemp(draft, {}) /\ draft[t].file = draft[s].file
      BY <1>13, <2>1, <2>2 DEF PlainRef
    <3> QED BY <1>2, <2>1, <3>1, CopiedOnce, ContentSaveAssumption
  <2> QED BY <1>2, <2>1, <2>2
<1>15. DoneIsComplete(r)'
  <2> SUFFICES ASSUME NEW s \in Slots \ job'[r].todo, job'[r].refs[s].kind = "file"
               PROVE  \E t \in job'[r].todo :
                        PlainRef(job'[r].refs[t], job'[r].refs[s].file)
    BY DEF DoneIsComplete, PlainRef
  <2>1. draft[s].kind = "tmp" /\ job'[r].refs[s].file = draft[s].file
    BY <1>4, <1>8
  <2> DEFINE old == {}
  <2>2. PICK t \in FromTemp(draft, old) : draft[t] = draft[s]
    <3>1. draft[s].file \notin old
      OBVIOUS
    <3> HIDE DEF old
    <3> QED BY <1>2, <2>1, <3>1, FirstReference, ContentSaveAssumption
  <2>3. t \in Slots /\ t \in job'[r].todo
    BY <1>1, <2>2 DEF FromTemp
  <2> QED BY <1>4, <2>1, <2>2, <2>3 DEF PlainRef
<1>16. NewFilesAreMissing(r)'
  <2>1. \A s \in job'[r].todo : job'[r].refs[s].kind = "file" => job'[r].refs[s].file \in Files
    BY <1>8, <1>13, RefFiles
  <2> QED BY <1>1, <1>7, <2>1 DEF NewFilesAreMissing, Complete
<1>17. UnusedAreDropped(r)' /\ UploadsAreReferenced(r)'
  BY <1>1, <1>4, <1>7 DEF UnusedAreDropped, UploadsAreReferenced
<1>18. PasteSources(r)'
  <2>1. \A s \in Slots : job'[r].refs[s].kind = "paste" => job'[r].refs[s] = draft[s]
    BY <1>4
  <2> QED BY <1>2, <1>3, <1>6, <2>1, NewPasteSources
<1>19. RequestInv(r)'
  BY <1>9, <1>10, <1>11, <1>12, <1>14, <1>15, <1>16, <1>17, <1>18 DEF RequestInv
<1> QED BY <1>6, <1>19, StartKeepsFiles

LEMMA StartFiles ==
  ASSUME Before, ContentSaveInv', env' = env, NEW r \in Requests, Start(r)
  PROVE  FilesInv'
BY StartUpdateFiles, StartCreateFiles DEF Start

-----------------------------------------------------------------------------
(* The inductive invariant *)

ContentFilesInv == ContentSaveInv /\ (OneAfterTheOther => FilesInv)

\* A step that changes nothing.
LEMMA StutteringFiles ==
  ASSUME Before, UNCHANGED vars
  PROVE  FilesInv'
<1> USE DEF vars
<1>1. KnownNames' /\ OneSavePerContent'
  BY DEF Before, FilesInv, KnownNames, OneSavePerContent
<1>2. ASSUME NEW r \in Requests
      PROVE  RequestInv(r)'
  <2>0. RequestInv(r)
    BY DEF Before, FilesInv
  <2>1. IdleIsClean(r)' /\ TargetIsIssued(r)' /\ NamesOfJob(r)' /\ Draft(r)'
        /\ NoDuplicates(r)' /\ NoMarkers(r)' /\ TodoIsThere(r)'
    BY <2>0
    DEF RequestInv, IdleIsClean, TargetIsIssued, NamesOfJob, Draft, NoDuplicates,
        NoMarkers, TodoIsThere, Editor, Readable
  <2>2. DoneIsComplete(r)' /\ DropsUnused(r)' /\ Phase(r)' /\ NewFilesAreMissing(r)'
    BY <2>0
    DEF RequestInv, DoneIsComplete, DropsUnused, Phase, NewFilesAreMissing, NoCrash,
        Complete, Excused
  <2>3. Copying(r)' /\ UnusedAreDropped(r)' /\ UploadsAreReferenced(r)' /\ PasteSources(r)'
    BY ZenonT(40), <2>0
    DEF RequestInv, Copying, UnusedAreDropped, UploadsAreReferenced, PasteSources,
        NoCrash, NoPartials, NoFailure, Calm, Complete
  <2> QED BY <2>1, <2>2, <2>3 DEF RequestInv
<1>3. ASSUME NEW c \in Contents
      PROVE  ContentInv(c)'
  <2>0. ContentInv(c)
    BY DEF Before, FilesInv
  <2>1. NamesOfContent(c)' /\ UnissuedIsEmpty(c)' /\ UnreadableIsEmpty(c)'
    BY <2>0
    DEF ContentInv, NamesOfContent, UnissuedIsEmpty, UnreadableIsEmpty, Readable
  <2>2. Leftovers(c)' /\ Partials(c)' /\ Resolved(c)' /\ Tidy(c)'
    BY <2>0
    DEF ContentInv, Leftovers, Partials, Resolved, Tidy, Settled, Readable, Complete,
        Excused, NoCrash, NoFailure, Calm
  <2> QED BY <2>1, <2>2 DEF ContentInv
<1> QED BY <1>1, <1>2, <1>3 DEF FilesInv

LEMMA FilesStep ==
  ASSUME ContentFilesInv, [Next]_vars
  PROVE  ContentFilesInv'
<1>1. ContentSaveInv'
  BY NextStep DEF ContentFilesInv
<1>2. env' = env
  BY DEF Next, vars
<1>3. ASSUME Before
      PROVE  FilesInv'
  <2>1. CASE UNCHANGED vars
    BY <1>3, <2>1, StutteringFiles
  <2>2. CASE \E f \in Files, c \in Contents \cup {NoContent} : Upload(f, c)
    BY <1>1, <1>2, <1>3, <2>2, UploadFiles
  <2>3. CASE \E f \in Files : CleanUp(f)
    BY <1>1, <1>2, <1>3, <2>3, CleanUpFiles
  <2>4. CASE \E c \in Contents : DeleteContent(c)
    BY <1>1, <1>2, <1>3, <2>4, DeleteContentFiles
  <2>5. CASE Crash
    BY <1>1, <1>2, <1>3, <2>5, CrashFiles
  <2>6. CASE \E r \in Requests : Start(r) \/ SaveStep(r)
    BY <1>1, <1>2, <1>3, <2>6, StartFiles, SaveStepFiles
  <2> QED BY <2>1, <2>2, <2>3, <2>4, <2>5, <2>6 DEF Next
<1>4. OneAfterTheOther' => OneAfterTheOther
  BY <1>2 DEF OneAfterTheOther
<1> QED BY <1>1, <1>3, <1>4 DEF ContentFilesInv, Before

\* Every reachable state satisfies the invariant.
THEOREM ContentFilesInvariant == Spec => []ContentFilesInv
<1>1. Init => ContentFilesInv
  BY InitInv, InitFiles DEF ContentFilesInv
<1>2. ContentFilesInv /\ [Next]_vars => ContentFilesInv'
  BY FilesStep
<1> QED BY <1>1, <1>2, PTL DEF Spec

-----------------------------------------------------------------------------
(* What it implies *)

\* A stored reference that may dangle: only where a copy may fail for one of
\* two references.
LEMMA NoneExcused ==
  ASSUME ContentFilesInv, NoDanglingReference
  PROVE  Before /\ NoCrash /\ \A f : ~Excused(f)
BY DEF ContentFilesInv, NoDanglingReference, Before, FilesInv, KnownNames, Excused, NoCrash

\* When no request works on a content, every file its stored parameters
\* reference is completely there.
THEOREM ReferencesResolve == Spec => []StoredReferencesResolve
<1>1. ASSUME ContentFilesInv, NoDanglingReference, NEW c \in Contents, Quiet(c), Readable(c),
             NEW s \in Slots
      PROVE  /\ disk[c].params[s].kind \in {"none", "file"}
             /\ disk[c].params[s].kind = "file" =>
                  disk[c].file[disk[c].params[s].file] = "complete"
  <2>1. Before /\ NoCrash /\ \A f : ~Excused(f)
    BY <1>1, NoneExcused
  <2>2. Resolved(c) /\ Settled(c)
    BY <1>1, <2>1 DEF Before, FilesInv, ContentInv, Quiet, Settled
  <2> QED BY <1>1, <2>1, <2>2 DEF Resolved, Complete
<1>2. ContentFilesInv => StoredReferencesResolve
  BY <1>1 DEF StoredReferencesResolve
<1> QED BY <1>2, ContentFilesInvariant, PTL

\* When no request works on a content, its directory holds no file that its
\* parameters do not reference.
THEOREM DirectoriesAreTidy == Spec => []NoUnusedFiles
<1>1. ASSUME ContentFilesInv, env \subseteq {"parallel", "duplicate", "paste", "delete"},
             NEW c \in Contents, Quiet(c), NEW f \in Files, disk[c].file[f] # "absent"
      PROVE  f \in PlainFiles(disk[c].params)
  <2>1. Before /\ Calm
    BY <1>1 DEF ContentFilesInv, OneAfterTheOther, Before, Calm
  <2>2. Tidy(c) /\ Settled(c)
    BY <1>1, <2>1 DEF Before, FilesInv, ContentInv, Quiet, Settled
  <2> QED BY <1>1, <2>1, <2>2 DEF Tidy
<1>2. ContentFilesInv => NoUnusedFiles
  BY <1>1 DEF NoUnusedFiles
<1> QED BY <1>2, ContentFilesInvariant, PTL

\* A save that returns has stored all unexpired uploads the client submitted.
THEOREM SavesKeepUploads == Spec => UploadsKept
<1>1. ASSUME ContentFilesInv, OneAfterTheOther, env \cap {"crash", "ioerror"} = {},
             NEW r \in Requests, job[r].pc = "clean"
      PROVE  UploadsAreStored(r)
  <2>1. Before /\ NoFailure /\ NoCrash /\ "ioerror" \notin env
    BY <1>1 DEF ContentFilesInv, Before, NoFailure, NoCrash
  <2>2. RequestInv(r) /\ job[r].pc \in Working
    BY <1>1, <2>1 DEF Before, FilesInv, Working, Control, Reading
  <2>3. job[r].uploads \ expired \subseteq PlainFiles(job[r].refs) /\ job[r].todo = {}
    BY <1>1, <2>1, <2>2 DEF RequestInv, UploadsAreReferenced, NoMarkers
  <2>4. \A s \in Slots : job[r].refs[s].kind = "file" =>
          \/ Complete(job[r].target, job[r].refs[s].file)
          \/ job[r].refs[s].file \in expired
    BY <2>1, <2>2, <2>3 DEF RequestInv, DoneIsComplete, Excused
  <2> QED BY <2>3, <2>4 DEF UploadsAreStored, PlainFiles, Complete
<1>2. ContentFilesInv /\ [Next]_vars =>
        [OneAfterTheOther /\ env \cap {"crash", "ioerror"} = {} =>
           \A r \in Requests : Returns(r) => UploadsAreStored(r)]_vars
  BY <1>1 DEF Returns
<1> QED BY <1>2, ContentFilesInvariant, PTL DEF Spec, UploadsKept

-----------------------------------------------------------------------------
(* No step deletes or truncates a file that content.json references *)

LEMMA SaveKeepsReferencedFiles ==
  ASSUME Before, env' = env, NEW r \in Requests, SaveStep(r), NEW c \in Contents,
         Readable(c), disk'[c].dir, NEW f \in PlainFiles(disk[c].params), Complete(c, f)
  PROVE  disk'[c].file[f] = "complete" \/ CopiesAfterCrash(r, c, f)
<1>0. /\ disk \in [Contents -> Directory] /\ disk[c] \in Directory
      /\ disk[c].file \in [Files -> FileState]
      /\ disk[c].file[f] = "complete"
      /\ f \in Files /\ job[r] \in Job
  <2>1. PlainFiles(disk[c].params) \subseteq named /\ named \subseteq Files
    BY DEF Before, FilesInv, ContentInv, NamesOfContent, ContentSaveInv, TypeOK
  <2> QED BY <2>1, DirectoryTypes DEF Before, ContentSaveInv, TypeOK, Complete
<1>1. CASE c # job[r].target \/ UNCHANGED disk
  <2>1. SaveStep(r) /\ c # job[r].target => disk'[c] = disk[c]
    BY <1>0
    DEF SaveStep, ReadOldParams, ReadOldMetadata, Reject, MakeDirectory, OpenMetadata,
        WriteMetadata, OpenParameters, WriteParameters, FailToStore, OpenTemporaryFile,
        OpenPastedFile, OpenContentFile, WriteContentFile, FailToCopy,
        CheckTemporaryFile, RemoveTemporaryFile, EndCopy, DeleteUnusedFile, Finish
  <2> QED BY <1>0, <1>1, <2>1
<1>2. CASE c = job[r].target /\ ( \/ MakeDirectory(r) \/ OpenMetadata(r) \/ WriteMetadata(r)
                                  \/ OpenParameters(r) \/ WriteParameters(r) )
  <2>1. disk'[c].file = disk[c].file
    BY SMTT(30), <1>0, <1>2
    DEF MakeDirectory, OpenMetadata, WriteMetadata, OpenParameters, WriteParameters,
        Directory
  <2> QED BY <1>0, <2>1
<1>3. CASE c = job[r].target /\ FailToStore(r)
  BY <1>0, <1>3 DEF FailToStore, NoDirectory
<1>4. CASE c = job[r].target /\ OpenContentFile(r)
  <2>1. disk' = [disk EXCEPT ![c] = [disk[c] EXCEPT !.dir = TRUE,
                   !.file = [disk[c].file EXCEPT ![job[r].file] = "partial"]]]
    BY <1>0, <1>4 DEF OpenContentFile, Directory
  <2>2. f # job[r].file => disk'[c].file[f] = "complete"
    BY <1>0, <2>1 DEF Directory
  <2>3. CASE f = job[r].file
    <3>1. Copying(r) /\ job[r].pc = "openFile"
      BY <1>4 DEF Before, FilesInv, RequestInv, OpenContentFile
    <3>2. "crash" \in env
      BY <1>4, <2>3, <3>1 DEF Copying, CopyingFile, NoCrash
    <3> QED BY <1>4, <2>3, <3>1, <3>2 DEF CopiesAfterCrash
  <2> QED BY <2>2, <2>3
<1>5. CASE c = job[r].target /\ WriteContentFile(r)
  <2>1. \/ disk' = disk
        \/ disk' = [disk EXCEPT ![c] = [disk[c] EXCEPT
                      !.file = [disk[c].file EXCEPT ![job[r].file] = "complete"]]]
    BY <1>0, <1>5 DEF WriteContentFile, Directory
  <2> QED BY <1>0, <2>1 DEF Directory
<1>6. CASE c = job[r].target /\ \E g \in Files : DeleteUnusedFile(r, g)
  <2>1. PICK g \in Files : DeleteUnusedFile(r, g)
    BY <1>6
  <2>2. job[r].pc = "clean" /\ g \in job[r].drop
    BY <2>1 DEF DeleteUnusedFile
  <2>3. job[r].pc \in Working
    BY <2>2 DEF Working, Control, Reading
  <2>4. g \notin PlainFiles(disk[c].params)
    BY <1>6, <2>2, <2>3 DEF Before, FilesInv, RequestInv, DropsUnused, Phase
  <2>5. \/ disk' = disk
        \/ disk' = [disk EXCEPT ![c] = [disk[c] EXCEPT
                      !.file = [disk[c].file EXCEPT ![g] = "absent"]]]
    BY <1>0, <1>6, <2>1 DEF DeleteUnusedFile, Directory
  <2> QED BY <1>0, <2>4, <2>5 DEF Directory
<1> QED BY <1>1, <1>2, <1>3, <1>4, <1>5, <1>6
    DEF SaveStep, ReadOldParams, ReadOldMetadata, Reject, OpenTemporaryFile,
        OpenPastedFile, FailToCopy, CheckTemporaryFile, RemoveTemporaryFile, EndCopy, Finish

\* While content.json can be read, a complete file it references stays, unless
\* the whole directory goes.
THEOREM ReferencedFilesAreKept == Spec => ReferencedFilesStay
<1>1. ASSUME ContentFilesInv, OneAfterTheOther, [Next]_vars, NEW c \in Contents,
             Readable(c), disk'[c].dir, NEW f \in PlainFiles(disk[c].params),
             disk[c].file[f] = "complete"
      PROVE  disk'[c].file[f] = "complete" \/ \E r \in Requests : CopiesAfterCrash(r, c, f)
  <2>0. Before /\ env' = env
    BY <1>1 DEF ContentFilesInv, Before, Next, vars
  <2>1. CASE \E r \in Requests : SaveStep(r)
    BY <1>1, <2>0, <2>1, SaveKeepsReferencedFiles DEF Complete
  <2>2. CASE \E d \in Contents : DeleteContent(d)
    BY <1>1, <2>0, <2>2
    DEF DeleteContent, NoDirectory, Before, ContentSaveInv, TypeOK
  <2>3. CASE UNCHANGED disk
    BY <1>1, <2>3
  <2> QED BY <1>1, <2>1, <2>2, <2>3
          DEF Next, vars, Upload, CleanUp, Crash, Start, StartCreate, StartUpdate, Begin
<1>2. ContentFilesInv /\ [Next]_vars =>
        [OneAfterTheOther =>
           \A c \in Contents : Readable(c) /\ disk'[c].dir =>
             \A f \in PlainFiles(disk[c].params) :
               disk[c].file[f] = "complete" =>
                 disk'[c].file[f] = "complete" \/ \E r \in Requests : CopiesAfterCrash(r, c, f)]_vars
  BY <1>1
<1> QED BY <1>2, ContentFilesInvariant, PTL DEF Spec, ReferencedFilesStay

=============================================================================
