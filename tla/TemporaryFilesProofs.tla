------------------------ MODULE TemporaryFilesProofs ------------------------
(***************************************************************************)
(* Machine-checked facts about TemporaryFiles, for every number of users,  *)
(* files and requests and for every environment.                           *)
(***************************************************************************)
EXTENDS TemporaryFiles, TLAPS

-----------------------------------------------------------------------------
(* The inductive invariant *)

Adding   == {"mkUser", "mkMedia", "open", "write", "metaOpen", "metaWrite"}
Deleting == {"exists", "delete"}

Adds(r, f) == job[r].pc \in Adding /\ job[r].file = f

\* How far an upload is shows in its file and the companion, which nobody else
\* touches: its name is known to nobody yet.
Uploads ==
  /\ \A r \in Requests : job[r].pc # "idle" => job[r].user \in Users /\ job[r].file \in Files
  /\ \A r \in Requests, f \in Files : Adds(r, f) =>
       /\ owner[f] # Nobody /\ f \notin known
       /\ job[r].pc \in {"mkUser", "mkMedia", "open"} => file[f] = "absent"
       /\ job[r].pc = "write" => file[f] = "partial"
       /\ job[r].pc \in {"metaOpen", "metaWrite"} => file[f] = "complete"
       /\ meta[f] = IF job[r].pc = "metaWrite" THEN "partial" ELSE "absent"
  /\ \A q, r \in Requests, f \in Files : Adds(q, f) /\ Adds(r, f) => q = r

\* A name is known when its file and companion have been written.
Names ==
  \A f \in Files :
    /\ owner[f] = Nobody => f \notin known /\ file[f] = "absent" /\ meta[f] = "absent"
    /\ f \in known => file[f] # "partial"
    /\ meta[f] = "complete" => f \in known

\* Only known files are removed, on behalf of the owner or because they expired.
Removals ==
  /\ \A r \in Requests : job[r].pc \in Deleting => job[r].file \in known \cap deleted
  /\ \A r \in Requests, f \in Files :
       removal[r][f] # "none" => job[r].pc = "delete" /\ job[r].file = f
  /\ \A f \in Files : removal[Cleaner][f] # "none" => f \in known \cap old
  /\ clean.pc = "list" => removal[Cleaner] = NoRemoval
  /\ clean.listed \subseteq known

\* Without failures a file and its companion differ only while an upload has not
\* written both, or a removal has not removed both.
Companions ==
  env = {} => \A f \in Files :
    /\ f \notin known /\ (\A r \in Requests : ~Adds(r, f))
         => file[f] = "absent" /\ meta[f] = "absent"
    /\ f \in known /\ file[f] = "complete" => meta[f] = "complete"
    /\ f \in known /\ file[f] = "absent" =>
         meta[f] = "absent" \/ \E a \in Actors : removal[a][f] = "rmMeta"
    /\ \A a \in Actors : removal[a][f] = "rmMeta" => file[f] = "absent"

TemporaryFilesInv ==
  /\ TypeOK /\ env \in Environments
  /\ Uploads /\ Names /\ Removals /\ Companions

-----------------------------------------------------------------------------
LEMMA InitInv == Init => TemporaryFilesInv
BY TemporaryFilesAssumption
DEF Init, TemporaryFilesInv, TypeOK, Uploads, Names, Removals, Companions, Actors, Job, IdleJob,
    Clean, IdleClean, FileState, RemovalState, NoRemoval, Adds, Adding, Deleting

\* Who removes a file does so on behalf of its owner or because it expired.
LEMMA RemovedIsKnown ==
  ASSUME TemporaryFilesInv, NEW a \in Actors, NEW f \in Files, removal[a][f] # "none"
  PROVE  f \in known \cap (old \cup deleted) /\ owner[f] \in Users
BY DEF TemporaryFilesInv, TypeOK, Names, Removals, Actors, Deleting

\* The steps of an upload.
LEMMA UploadStep ==
  ASSUME TemporaryFilesInv, UNCHANGED env, NEW r \in Requests, AddStep(r)
  PROVE  TemporaryFilesInv'
<1> USE DEF TemporaryFilesInv
<1>1. CASE MakeUserDirectory(r)
  <2> USE <1>1 DEF MakeUserDirectory, MakeDirectories
  <2>1. TypeOK'
    BY SMTT(30) DEF TypeOK, Uploads, Job, IdleJob, FileState
  <2>2. Uploads'
    BY DEF TypeOK, Uploads, Names, Job, IdleJob, Adds, Adding
  <2>3. Names'
    BY DEF TypeOK, Uploads, Names, Job, IdleJob, Adds, Adding
  <2>4. Removals'
    BY DEF TypeOK, Uploads, Removals, Job, IdleJob, Adds, Adding, Deleting
  <2>5. Companions'
    BY DEF TypeOK, Uploads, Names, Removals, Companions, Job, IdleJob, Adds, Adding, Deleting
  <2> QED BY <2>1, <2>2, <2>3, <2>4, <2>5
<1>2. CASE MakeMediaDirectory(r)
  <2> USE <1>2 DEF MakeMediaDirectory, MakeDirectories
  <2>1. TypeOK'
    BY DEF TypeOK, Uploads, Job, IdleJob, FileState
  <2>2. Uploads'
    BY DEF TypeOK, Uploads, Names, Job, IdleJob, Adds, Adding
  <2>3. Names'
    BY DEF TypeOK, Uploads, Names, Job, IdleJob, Adds, Adding
  <2>4. Removals'
    BY DEF TypeOK, Uploads, Removals, Job, IdleJob, Adds, Adding, Deleting
  <2>5. Companions'
    BY DEF TypeOK, Uploads, Names, Removals, Companions, Job, IdleJob, Adds, Adding, Deleting
  <2> QED BY <2>1, <2>2, <2>3, <2>4, <2>5
<1>3. CASE OpenFile(r)
  <2> USE <1>3 DEF OpenFile
  <2>1. TypeOK'
    BY DEF TypeOK, Uploads, Job, IdleJob, FileState
  <2>2. Uploads'
    BY DEF TypeOK, Uploads, Names, Job, IdleJob, Adds, Adding
  <2>3. Names'
    BY DEF TypeOK, Uploads, Names, Job, IdleJob, Adds, Adding
  <2>4. Removals'
    BY DEF TypeOK, Uploads, Removals, Job, IdleJob, Adds, Adding, Deleting
  <2>5. Companions'
    <3> DEFINE g == job[r].file
    <3>1. g \in Files /\ g \notin known /\ Adds(r, g) /\ Adds(r, g)'
      BY DEF TypeOK, Uploads, Job, Adds, Adding
    <3>2. \A f \in Files \ {g} : file'[f] = file[f]
      BY DEF TypeOK
    <3>3. \A q \in Requests, f \in Files : Adds(q, f)' <=> Adds(q, f)
      BY DEF TypeOK, Adds, Adding, Job
    <3>4. \A a \in Actors : removal[a][g] = "none"
      BY <3>1, RemovedIsKnown
    <3> HIDE DEF g, OpenFile
    <3> QED BY <3>1, <3>2, <3>3, <3>4 DEF Companions, OpenFile
  <2> QED BY <2>1, <2>2, <2>3, <2>4, <2>5
<1>4. CASE WriteFile(r)
  <2> USE <1>4 DEF WriteFile
  <2>1. TypeOK'
    BY DEF TypeOK, Uploads, Job, IdleJob, FileState
  <2>2. Uploads'
    BY DEF TypeOK, Uploads, Names, Job, IdleJob, Adds, Adding
  <2>3. Names'
    BY DEF TypeOK, Uploads, Names, Job, IdleJob, Adds, Adding
  <2>4. Removals'
    BY DEF TypeOK, Uploads, Removals, Job, IdleJob, Adds, Adding, Deleting
  <2>5. Companions'
    BY DEF TypeOK, Uploads, Names, Removals, Companions, Job, IdleJob, Adds, Adding, Deleting
  <2> QED BY <2>1, <2>2, <2>3, <2>4, <2>5
<1>5. CASE OpenMetadata(r)
  <2> USE <1>5 DEF OpenMetadata
  <2>1. TypeOK'
    BY DEF TypeOK, Uploads, Job, IdleJob, FileState
  <2>2. Uploads'
    BY DEF TypeOK, Uploads, Names, Job, IdleJob, Adds, Adding
  <2>3. Names'
    BY DEF TypeOK, Uploads, Names, Job, IdleJob, Adds, Adding
  <2>4. Removals'
    BY DEF TypeOK, Uploads, Removals, Job, IdleJob, Adds, Adding, Deleting
  <2>5. Companions'
    BY DEF TypeOK, Uploads, Names, Removals, Companions, Job, IdleJob, Adds, Adding, Deleting
  <2> QED BY <2>1, <2>2, <2>3, <2>4, <2>5
<1>6. CASE WriteMetadata(r)
  <2> USE <1>6 DEF WriteMetadata
  <2>1. TypeOK'
    BY DEF TypeOK, Uploads, Job, IdleJob, FileState
  <2>2. Uploads'
    BY DEF TypeOK, Uploads, Names, Job, IdleJob, Adds, Adding
  <2>3. Names'
    BY DEF TypeOK, Uploads, Names, Job, IdleJob, Adds, Adding
  <2>4. Removals'
    BY DEF TypeOK, Uploads, Removals, Job, IdleJob, Adds, Adding, Deleting
  <2>5. Companions'
    BY DEF TypeOK, Uploads, Names, Removals, Companions, Job, IdleJob, Adds, Adding, Deleting
  <2> QED BY <2>1, <2>2, <2>3, <2>4, <2>5
<1>7. CASE FailToAdd(r)
  <2> USE <1>7 DEF FailToAdd, Fail
  <2>1. TypeOK'
    BY DEF TypeOK, Uploads, Job, IdleJob, FileState
  <2>2. Uploads'
    BY DEF TypeOK, Uploads, Names, Job, IdleJob, Adds, Adding
  <2>3. Names'
    BY DEF TypeOK, Uploads, Names, Job, IdleJob, Adds, Adding
  <2>4. Removals'
    BY DEF TypeOK, Uploads, Removals, Job, IdleJob, Adds, Adding, Deleting
  <2>5. Companions'
    BY DEF TypeOK, Uploads, Names, Removals, Companions, Job, IdleJob, Adds, Adding, Deleting
  <2> QED BY <2>1, <2>2, <2>3, <2>4, <2>5
<1> QED BY <1>1, <1>2, <1>3, <1>4, <1>5, <1>6, <1>7 DEF AddStep

\* A request for an upload comes with a fresh name.
LEMMA BeginAddStep ==
  ASSUME TemporaryFilesInv, UNCHANGED env,
         NEW r \in Requests, NEW u \in Users, NEW f \in Files, BeginAdd(r, u, f)
  PROVE  TemporaryFilesInv'
<1> USE DEF TemporaryFilesInv, BeginAdd
<1>1. TypeOK'
  BY DEF TypeOK, Uploads, Job, IdleJob, FileState
<1>2. Uploads'
  <2>1. \A q \in Requests : ~Adds(q, f)
    BY DEF Uploads
  <2>2. \A q \in Requests \ {r} : job'[q] = job[q]
    BY DEF TypeOK
  <2>3. job'[r] = [pc |-> "mkUser", user |-> u, file |-> f]
    BY DEF TypeOK
  <2>4. \A q \in Requests, g \in Files : Adds(q, g)' <=> Adds(q, g) \/ (q = r /\ g = f)
    <3>1. ~(job[r].pc \in Adding) /\ job'[r].pc \in Adding /\ job'[r].file = f
      BY <2>3 DEF Adding, IdleJob
    <3> HIDE DEF BeginAdd
    <3> QED BY <2>2, <3>1 DEF Adds
  <2>5. owner'[f] # Nobody /\ \A g \in Files \ {f} : owner'[g] = owner[g]
    BY TemporaryFilesAssumption DEF TypeOK
  <2>6. file'[f] = "absent" /\ meta'[f] = "absent" /\ f \notin known' /\ UNCHANGED <<file, meta, known>>
    BY DEF Names
  <2> HIDE DEF BeginAdd
  <2>7. \A q \in Requests : job'[q].pc # "idle" => job'[q].user \in Users /\ job'[q].file \in Files
    BY <2>2, <2>3 DEF Uploads
  <2>8. ASSUME NEW q \in Requests, NEW g \in Files, Adds(q, g)'
        PROVE  /\ owner'[g] # Nobody /\ g \notin known'
               /\ job'[q].pc \in {"mkUser", "mkMedia", "open"} => file'[g] = "absent"
               /\ job'[q].pc = "write" => file'[g] = "partial"
               /\ job'[q].pc \in {"metaOpen", "metaWrite"} => file'[g] = "complete"
               /\ meta'[g] = IF job'[q].pc = "metaWrite" THEN "partial" ELSE "absent"
    <3>1. CASE q = r
      BY <2>8, <2>3, <2>5, <2>6, <3>1 DEF Adds
    <3>2. CASE q # r
      BY <2>8, <2>1, <2>2, <2>4, <2>5, <2>6, <3>2 DEF Uploads
    <3> QED BY <3>1, <3>2
  <2>9. \A p, q \in Requests, g \in Files : Adds(p, g)' /\ Adds(q, g)' => p = q
    BY <2>1, <2>4 DEF Uploads
  <2> QED BY <2>7, <2>8, <2>9 DEF Uploads
<1>3. Names'
  BY DEF TypeOK, Uploads, Names, Job, IdleJob, Adds, Adding
<1>4. Removals'
  BY DEF TypeOK, Uploads, Removals, Job, IdleJob, Adds, Adding, Deleting
<1>5. Companions'
  BY DEF TypeOK, Uploads, Names, Removals, Companions, Job, IdleJob, Adds, Adding, Deleting
<1> QED BY <1>1, <1>2, <1>3, <1>4, <1>5

\* A user deletes a file.
LEMMA BeginDeleteStep ==
  ASSUME TemporaryFilesInv, UNCHANGED env,
         NEW r \in Requests, NEW f \in Files, BeginDelete(r, f)
  PROVE  TemporaryFilesInv'
<1> USE DEF TemporaryFilesInv, BeginDelete
<1>1. TypeOK'
  BY DEF TypeOK, Uploads, Job, IdleJob, FileState, NoRemoval
<1>2. Uploads'
  BY DEF TypeOK, Uploads, Names, Job, IdleJob, Adds, Adding, NoRemoval
<1>3. Names'
  BY DEF TypeOK, Uploads, Names, Job, IdleJob, Adds, Adding, NoRemoval
<1>4. Removals'
  BY DEF TypeOK, Uploads, Removals, Job, IdleJob, Adds, Adding, Deleting, NoRemoval
<1>5. Companions'
  BY DEF TypeOK, Uploads, Names, Removals, Companions, Job, IdleJob, Adds, Adding, Deleting,
         NoRemoval
<1> QED BY <1>1, <1>2, <1>3, <1>4, <1>5

\* The manager looks for the file first.
LEMMA CheckExistsStep ==
  ASSUME TemporaryFilesInv, UNCHANGED env, NEW r \in Requests, CheckExists(r)
  PROVE  TemporaryFilesInv'
<1> USE DEF TemporaryFilesInv
<1> DEFINE f == job[r].file
<1>1. f \in Files \cap known \cap deleted /\ job[r].pc = "exists"
  BY DEF CheckExists, Removals, Deleting, TypeOK
<1>2. UNCHANGED <<depth, file, meta, owner, known, old, deleted, clean>>
  BY DEF CheckExists
<1>3. /\ job' \in [Requests -> Job]
      /\ \A q \in Requests \ {r} : job'[q] = job[q]
      /\ job'[r].pc \in {"idle", "delete"}
      /\ job'[r].pc # "idle" => job'[r].file = f /\ job'[r].user = job[r].user
  <2>1. CASE file[f] # "absent"
    <3>1. job' = [job EXCEPT ![r].pc = "delete"]
      BY <2>1 DEF CheckExists
    <3> QED BY <1>1, <3>1 DEF TypeOK, Job
  <2>2. CASE file[f] = "absent"
    <3>1. job' = [job EXCEPT ![r] = IdleJob]
      BY <2>2 DEF CheckExists
    <3> QED BY <1>1, <3>1 DEF TypeOK, Job, IdleJob
  <2> QED BY <2>1, <2>2
<1>4. /\ removal' \in [Actors -> [Files -> RemovalState]]
      /\ \A a \in Actors, g \in Files :
           removal'[a][g] = removal[a][g] \/ (a = r /\ g = f /\ removal'[a][g] = "rm")
      /\ removal' = removal \/ job'[r].pc = "delete"
      /\ removal[r][f] = "none"
  <2>1. removal[r][f] = "none" /\ r \in Actors
    BY <1>1 DEF Removals, Actors
  <2>2. CASE file[f] # "absent"
    <3>1. removal' = [removal EXCEPT ![r][f] = "rm"]
      BY <2>2 DEF CheckExists
    <3>2. job'[r].pc = "delete"
      <4>1. job' = [job EXCEPT ![r].pc = "delete"]
        BY <2>2 DEF CheckExists
      <4> QED BY <4>1 DEF TypeOK, Job
    <3> HIDE DEF f
    <3> QED BY <1>1, <2>1, <3>1, <3>2 DEF TypeOK, RemovalState
  <2>3. CASE file[f] = "absent"
    <3>1. removal' = removal
      BY <2>3 DEF CheckExists
    <3> HIDE DEF f
    <3> QED BY <2>1, <3>1 DEF TypeOK
  <2> QED BY <2>2, <2>3
<1>5. \A q \in Requests, g \in Files : Adds(q, g)' <=> Adds(q, g)
  BY <1>1, <1>3 DEF Adds, Adding
<1> HIDE DEF f
<1>6. TypeOK'
  BY <1>2, <1>3, <1>4 DEF TypeOK
<1>7. Uploads'
  BY <1>1, <1>2, <1>3, <1>5 DEF Uploads, Adds, Adding
<1>8. Names'
  BY <1>2 DEF Names
<1>9. Removals'
  <2>1. removal'[Cleaner] = removal[Cleaner]
    BY <1>1, TemporaryFilesAssumption DEF CheckExists, TypeOK, Actors
  <2>2. \A q \in Requests : job'[q].pc \in Deleting => job'[q].file \in known \cap deleted
    BY <1>1, <1>2, <1>3 DEF Removals, Deleting
  <2>3. \A q \in Requests, g \in Files :
          removal'[q][g] # "none" => job'[q].pc = "delete" /\ job'[q].file = g
    BY <1>1, <1>2, <1>3, <1>4 DEF Removals, Actors
  <2> QED BY <1>2, <2>1, <2>2, <2>3 DEF Removals
<1>10. Companions'
  BY <1>1, <1>2, <1>4, <1>5 DEF Companions
<1> QED BY <1>6, <1>7, <1>8, <1>9, <1>10

\* The request ends when the storage is done.
LEMMA EndDeleteStep ==
  ASSUME TemporaryFilesInv, UNCHANGED env, NEW r \in Requests, EndDelete(r)
  PROVE  TemporaryFilesInv'
<1> USE DEF TemporaryFilesInv, EndDelete
<1>1. TypeOK'
  BY DEF TypeOK, Uploads, Job, IdleJob, FileState, NoRemoval, RemovalState, Actors
<1>2. Uploads'
  BY DEF TypeOK, Uploads, Names, Job, IdleJob, Adds, Adding, NoRemoval, RemovalState, Actors
<1>3. Names'
  BY DEF TypeOK, Uploads, Names, Job, IdleJob, Adds, Adding, NoRemoval, RemovalState, Actors
<1>4. Removals'
  BY DEF TypeOK, Uploads, Removals, Job, IdleJob, Adds, Adding, Deleting, NoRemoval,
         RemovalState, Actors
<1>5. Companions'
  <2>1. \A a \in Actors, g \in Files : removal'[a][g] = "rmMeta" <=> removal[a][g] = "rmMeta"
    BY DEF TypeOK, NoRemoval, Removals, Actors
  <2>2. \A q \in Requests, g \in Files : Adds(q, g)' <=> Adds(q, g)
    BY DEF TypeOK, Adds, Adding, IdleJob
  <2> QED BY <2>1, <2>2 DEF Companions
<1> QED BY <1>1, <1>2, <1>3, <1>4, <1>5

\* Time passes.
LEMMA ExpireStep ==
  ASSUME TemporaryFilesInv, UNCHANGED env, NEW f \in Files, Expire(f)
  PROVE  TemporaryFilesInv'
<1> USE DEF TemporaryFilesInv, Expire
<1>1. TypeOK'
  BY DEF TypeOK, Uploads, Job, IdleJob, FileState
<1>2. Uploads'
  BY DEF TypeOK, Uploads, Names, Job, IdleJob, Adds, Adding
<1>3. Names'
  BY DEF TypeOK, Uploads, Names, Job, IdleJob, Adds, Adding
<1>4. Removals'
  BY DEF TypeOK, Uploads, Removals, Job, IdleJob, Adds, Adding, Deleting
<1>5. Companions'
  BY DEF TypeOK, Uploads, Names, Removals, Companions, Job, IdleJob, Adds, Adding, Deleting
<1> QED BY <1>1, <1>2, <1>3, <1>4, <1>5

\* A removal goes on with its own file only.
LEMMA GoesOn ==
  ASSUME TypeOK, NEW a \in Actors, NEW f \in Files, NEW s \in RemovalState, Goes(a, f, s)
  PROVE  /\ removal' \in [Actors -> [Files -> RemovalState]]
         /\ removal'[a][f] = s
         /\ \A b \in Actors, g \in Files : b # a \/ g # f => removal'[b][g] = removal[b][g]
BY DEF TypeOK, Goes

\* The deletion of a file by the storage.
LEMMA RemovalPreserves ==
  ASSUME TemporaryFilesInv, UNCHANGED env, NEW a \in Actors, NEW f \in Files, RemovalStep(a, f)
  PROVE  TemporaryFilesInv'
<1> USE DEF TemporaryFilesInv
<1>1. /\ UNCHANGED <<owner, known, old, deleted, job, clean>>
      /\ removal[a][f] # "none"
      /\ \E s \in RemovalState \ {"none"} : Goes(a, f, s)
  BY DEF RemovalStep, RemoveFile, RemoveMetadata, ReadDirectory, RemoveDirectory, RemovalState
<1>2. PICK s \in RemovalState \ {"none"} : Goes(a, f, s)
  BY <1>1
<1>3. /\ removal' \in [Actors -> [Files -> RemovalState]]
      /\ removal'[a][f] = s
      /\ \A b \in Actors, g \in Files : b # a \/ g # f => removal'[b][g] = removal[b][g]
  BY <1>2, GoesOn
<1>4. f \in known \cap (old \cup deleted) /\ owner[f] \in Users
  BY <1>1, RemovedIsKnown
<1>5. /\ file' \in [Files -> FileState] /\ meta' \in [Files -> FileState]
      /\ \A g \in Files \ {f} : file'[g] = file[g] /\ meta'[g] = meta[g]
      /\ file'[f] \in {file[f], "absent"} /\ meta'[f] \in {meta[f], "absent"}
  BY DEF TypeOK, FileState, RemovalStep, RemoveFile, RemoveMetadata, ReadDirectory,
         RemoveDirectory
<1>6. depth' \in [Users -> 0..2]
  BY <1>4 DEF TypeOK, RemovalStep, RemoveFile, RemoveMetadata, ReadDirectory, RemoveDirectory
<1>7. TypeOK'
  BY <1>1, <1>3, <1>5, <1>6 DEF TypeOK
<1>8. Uploads'
  BY <1>1, <1>4, <1>5 DEF TypeOK, Uploads, Adds
<1>9. Names'
  BY <1>1, <1>4, <1>5 DEF TypeOK, Names
<1>10. Removals'
  <2>1. \A b \in Actors, g \in Files : removal'[b][g] # "none" => removal[b][g] # "none"
    BY <1>1, <1>3
  <2>2. a = Cleaner => clean.pc # "list"
    BY <1>1 DEF Removals, NoRemoval
  <2>3. a # Cleaner => removal'[Cleaner] = removal[Cleaner]
    BY <1>2 DEF TypeOK, Goes, Actors
  <2> QED BY <1>1, <2>1, <2>2, <2>3 DEF Removals, Actors
<1>11. Companions'
  <2>1. CASE RemoveFile(a, f)
    <3>1. /\ file'[f] = "absent" /\ meta' = meta
          /\ s = IF file[f] # "absent" THEN "rmMeta" ELSE "failed"
          /\ removal[a][f] = "rm"
      BY <2>1, <1>3 DEF RemoveFile, TypeOK, Goes
    <3> QED BY <3>1, <1>1, <1>3, <1>4, <1>5 DEF Companions, Adds, TypeOK
  <2>2. CASE RemoveMetadata(a, f)
    <3>1. meta'[f] = "absent" /\ file' = file /\ s # "rmMeta" /\ removal[a][f] = "rmMeta"
      BY <2>2, <1>3 DEF RemoveMetadata, TypeOK, Goes
    <3> QED BY <3>1, <1>1, <1>3, <1>4, <1>5 DEF Companions, Adds, TypeOK
  <2>3. CASE UNCHANGED <<file, meta>> /\ s # "rmMeta" /\ removal[a][f] # "rmMeta"
    BY <2>3, <1>1, <1>3 DEF Companions, Adds, TypeOK
  <2>4. RemoveFile(a, f) \/ RemoveMetadata(a, f)
          \/ (UNCHANGED <<file, meta>> /\ s # "rmMeta" /\ removal[a][f] # "rmMeta")
    <3>1. \A t : Goes(a, f, t) => s = t
      BY <1>3 DEF Goes, TypeOK
    <3>2. ASSUME ReadDirectory(a, f, "readMedia", 2, "rmMedia", "readUser")
                 \/ ReadDirectory(a, f, "readUser", 1, "rmUser", "done")
          PROVE  /\ UNCHANGED <<file, meta>> /\ removal[a][f] # "rmMeta"
                 /\ \E t \in {"failed", "rmMedia", "readUser", "rmUser", "done"} : Goes(a, f, t)
      BY <3>2 DEF ReadDirectory
    <3>3. ASSUME RemoveDirectory(a, f, "rmMedia", 2, "readUser")
                 \/ RemoveDirectory(a, f, "rmUser", 1, "done")
          PROVE  /\ UNCHANGED <<file, meta>> /\ removal[a][f] # "rmMeta"
                 /\ \E t \in {"failed", "readUser", "done"} : Goes(a, f, t)
      BY <3>3 DEF RemoveDirectory
    <3>4. s # "rmMeta" \/ ~(\E t \in {"failed", "rmMedia", "readUser", "rmUser", "done"} : Goes(a, f, t))
      BY <3>1
    <3> QED BY <3>2, <3>3, <3>4 DEF RemovalStep
  <2> QED BY <2>1, <2>2, <2>3, <2>4
<1> QED BY <1>7, <1>8, <1>9, <1>10, <1>11

\* The clean-up changes its own state only, and takes up the removal of files that
\* have expired only after it has read their companions.
LEMMA CleanUpPreserves ==
  ASSUME TemporaryFilesInv, UNCHANGED env, CleanUpStep
  PROVE  TemporaryFilesInv'
<1> USE DEF TemporaryFilesInv
<1>1. UNCHANGED <<depth, file, meta, owner, known, old, deleted, job>>
  BY DEF CleanUpStep, BeginCleanUp, WalkDirectory, ReadMetadata, SelectExpired, EndCleanUp
<1> DEFINE Mine == /\ removal' \in [Actors -> [Files -> RemovalState]]
                   /\ \A r \in Requests : removal'[r] = removal[r]
                   /\ \A f \in Files : removal'[Cleaner][f] = "rmMeta" <=> removal[Cleaner][f] = "rmMeta"
                   /\ \A f \in Files : removal'[Cleaner][f] # "none" => f \in known \cap old
                   /\ clean' \in Clean /\ clean'.listed \subseteq known
                   /\ clean'.pc = "list" => removal'[Cleaner] = NoRemoval
<1>2. ASSUME BeginCleanUp PROVE Mine
  <2>1. clean' = [pc |-> "list", users |-> {u \in Users : depth[u] > 0}, unread |-> {}, listed |-> {}]
    BY <1>2 DEF BeginCleanUp, IdleClean
  <2>2. removal' = [removal EXCEPT ![Cleaner] = NoRemoval] /\ ~Removing(Cleaner)
    BY <1>2 DEF BeginCleanUp
  <2> QED BY <2>1, <2>2, TemporaryFilesAssumption
          DEF TypeOK, Removing, NoRemoval, Clean, Actors, RemovalState
<1>3. ASSUME \E u \in Users : WalkDirectory(u) PROVE Mine
  <2>1. UNCHANGED removal /\ clean.pc = "list"
    BY <1>3 DEF WalkDirectory
  <2>2. clean' \in Clean /\ (clean'.listed = {} \/ clean'.listed = clean.listed)
    <3>1. PICK u \in Users : WalkDirectory(u)
      BY <1>3
    <3>2. FilesOf(u) \subseteq Files /\ IdleClean \in Clean
      BY DEF FilesOf, IdleClean, Clean
    <3>3. [clean EXCEPT !.users = @ \ {u}, !.unread = @ \cup FilesOf(u)] \in Clean
      BY <3>2 DEF TypeOK, Clean
    <3>4. [clean EXCEPT !.users = @ \ {u}, !.unread = @ \cup FilesOf(u)].listed = clean.listed
      BY DEF TypeOK, Clean
    <3> QED BY <3>1, <3>2, <3>3, <3>4 DEF WalkDirectory, IdleClean
  <2> QED BY <2>1, <2>2 DEF TypeOK, Removals, Actors
<1>4. ASSUME \E f \in Files : ReadMetadata(f) PROVE Mine
  <2>1. UNCHANGED removal /\ clean.pc = "list"
    BY <1>4 DEF ReadMetadata
  <2>2. PICK f \in Files : ReadMetadata(f)
    BY <1>4
  <2> DEFINE read == [clean EXCEPT !.unread = @ \ {f}, !.listed = @ \cup {f}]
  <2>3. read \in Clean /\ read.listed = clean.listed \cup {f}
    BY DEF TypeOK, Clean
  <2>4. IdleClean \in Clean /\ IdleClean.listed = {}
    BY DEF Clean, IdleClean
  <2>5. clean' = IdleClean \/ (clean' = read /\ f \in known)
    BY <2>2 DEF ReadMetadata, Names
  <2> HIDE DEF read
  <2> QED BY <2>1, <2>3, <2>4, <2>5 DEF TypeOK, Removals, Actors
<1>5. ASSUME SelectExpired PROVE Mine
  <2>1. removal[Cleaner] = NoRemoval
    BY <1>5 DEF SelectExpired, Removals
  <2>2. clean' \in Clean /\ clean'.listed = {} /\ clean'.pc = "delete"
    BY <1>5 DEF SelectExpired, IdleClean, Clean
  <2>3. \A f \in Expired(clean.listed) : f \in known \cap old
    BY DEF Removals, Expired
  <2> DEFINE selected == [f \in Files |-> IF f \in Expired(clean.listed) THEN "rm" ELSE "none"]
  <2>4. selected \in [Files -> RemovalState]
    BY DEF RemovalState
  <2>5. removal' = [removal EXCEPT ![Cleaner] = selected]
    BY <1>5 DEF SelectExpired
  <2>6. \A f \in Files : selected[f] = IF f \in Expired(clean.listed) THEN "rm" ELSE "none"
    OBVIOUS
  <2> HIDE DEF selected
  <2> QED BY <2>1, <2>2, <2>3, <2>4, <2>5, <2>6, TemporaryFilesAssumption
          DEF TypeOK, NoRemoval, Actors
<1>6. ASSUME EndCleanUp PROVE Mine
  <2>1. UNCHANGED removal /\ clean' = [pc |-> "idle", users |-> {}, unread |-> {}, listed |-> {}]
    BY <1>6 DEF EndCleanUp, IdleClean
  <2> QED BY <2>1 DEF TypeOK, Clean, Removals, Actors
<1>7. Mine
  BY <1>2, <1>3, <1>4, <1>5, <1>6 DEF CleanUpStep
<1>8. TypeOK'
  BY <1>1, <1>7 DEF TypeOK
<1>9. Uploads' /\ Names'
  BY <1>1 DEF Uploads, Names, Adds
<1>10. Removals'
  BY <1>1, <1>7 DEF Removals
<1>11. Companions'
  <2>1. \A a \in Actors, f \in Files : removal'[a][f] = "rmMeta" <=> removal[a][f] = "rmMeta"
    BY <1>7 DEF Actors
  <2> QED BY <1>1, <2>1 DEF Companions, Adds
<1> QED BY <1>8, <1>9, <1>10, <1>11

\* A crash forgets what was in progress.
LEMMA CrashStep ==
  ASSUME TemporaryFilesInv, UNCHANGED env, Crash
  PROVE  TemporaryFilesInv'
<1> USE DEF TemporaryFilesInv, Crash
<1>1. TypeOK'
  BY DEF TypeOK, Uploads, Job, IdleJob, FileState, Clean, IdleClean, NoRemoval, RemovalState,
         Actors
<1>2. Uploads'
  BY DEF TypeOK, Uploads, Names, Job, IdleJob, Adds, Adding, Clean, IdleClean, NoRemoval,
         RemovalState, Actors
<1>3. Names'
  BY DEF TypeOK, Uploads, Names, Job, IdleJob, Adds, Adding, Clean, IdleClean, NoRemoval,
         RemovalState, Actors
<1>4. Removals'
  BY DEF TypeOK, Uploads, Removals, Job, IdleJob, Adds, Adding, Deleting, Clean, IdleClean,
         NoRemoval, RemovalState, Actors
<1>5. Companions'
  BY DEF TypeOK, Uploads, Names, Removals, Companions, Job, IdleJob, Adds, Adding, Deleting,
         Clean, IdleClean, NoRemoval, RemovalState, Actors
<1> QED BY <1>1, <1>2, <1>3, <1>4, <1>5

\* Every step preserves the invariant.
LEMMA NextPreserves ==
  ASSUME TemporaryFilesInv, [Next]_vars
  PROVE  TemporaryFilesInv'
<1>1. CASE UNCHANGED vars
  BY <1>1 DEF vars, TemporaryFilesInv, TypeOK, Uploads, Names, Removals, Companions, Adds
<1>2. CASE Next
  <2>1. UNCHANGED env
    BY <1>2 DEF Next
  <2>2. CASE \E r \in Requests, u \in Users, f \in Files : BeginAdd(r, u, f)
    BY <2>1, <2>2, BeginAddStep
  <2>3. CASE \E r \in Requests, f \in Files : BeginDelete(r, f)
    BY <2>1, <2>3, BeginDeleteStep
  <2>4. CASE \E r \in Requests : RequestStep(r)
    BY <2>1, <2>4, UploadStep, CheckExistsStep, EndDeleteStep DEF RequestStep
  <2>5. CASE \E a \in Actors, f \in Files : RemovalStep(a, f)
    BY <2>1, <2>5, RemovalPreserves
  <2>6. CASE CleanUpStep
    BY <2>1, <2>6, CleanUpPreserves
  <2>7. CASE \E f \in Files : Expire(f)
    BY <2>1, <2>7, ExpireStep
  <2>8. CASE Crash
    BY <2>1, <2>8, CrashStep
  <2> QED BY <1>2, <2>2, <2>3, <2>4, <2>5, <2>6, <2>7, <2>8 DEF Next
<1> QED BY <1>1, <1>2

\* The invariant holds in every behaviour.
LEMMA InvHolds == Spec => []TemporaryFilesInv
<1>1. TemporaryFilesInv /\ [Next]_vars => TemporaryFilesInv'
  BY NextPreserves
<1> QED BY <1>1, InitInv, PTL DEF Spec

\* The variables keep their types.
THEOREM TypeCorrect == Spec => []TypeOK
<1>1. TemporaryFilesInv => TypeOK
  BY DEF TemporaryFilesInv
<1> QED BY <1>1, InvHolds, PTL

-----------------------------------------------------------------------------
\* Where nothing can fail, files and companions come and go in pairs: once no request
\* and no removal is under way, a file is there exactly if its companion is, and both
\* are complete (addFile and deleteFile of DirectoryTemporaryFileStorage, with
\* deletions by users and by cleanUp running into each other).
THEOREM FilesArePaired == Spec => []Paired
<1>1. TemporaryFilesInv => Paired
  <2> SUFFICES ASSUME TemporaryFilesInv, env = {}, \A r \in Requests : job[r] = IdleJob,
                      \A a \in Actors : ~Removing(a), NEW f \in Files
               PROVE  file[f] = meta[f] /\ file[f] # "partial"
    BY DEF Paired
  <2>1. \A r \in Requests : ~Adds(r, f)
    BY DEF Adds, Adding, IdleJob
  <2>2. \A a \in Actors : removal[a][f] # "rmMeta"
    BY DEF Removing
  <2>3. CASE f \in known
    BY <2>2, <2>3 DEF TemporaryFilesInv, TypeOK, FileState, Names, Companions
  <2>4. CASE f \notin known
    BY <2>1, <2>4 DEF TemporaryFilesInv, Companions
  <2> QED BY <2>3, <2>4
<1> QED BY <1>1, InvHolds, PTL

-----------------------------------------------------------------------------
(* TemporaryFiles implements TemporaryStorage *)

\* At first nothing is stored.
LEMMA StorageInit == Init => Storage!Init
BY DEF Init, Storage!Init

\* A file is stored by the write that completes it, is gone with its removal, which
\* only an expiry or the owner's request starts; all other steps are invisible, also
\* the one that completes the companion.
LEMMA StorageStep ==
  ASSUME TemporaryFilesInv, [Next]_vars
  PROVE  [Storage!Next]_Storage!vars
<1> DEFINE Stored == {f \in Files : file[f] = "complete"}
           Gone   == {f \in known : file[f] = "absent"}
<1> USE DEF TemporaryFilesInv
<1>1. ASSUME NEW r \in Requests, OpenFile(r)
      PROVE  UNCHANGED <<Stored, Gone, old, deleted>>
  <2>1. job[r].file \in Files \ known /\ file[job[r].file] = "absent"
    BY <1>1 DEF OpenFile, Uploads, Adds, Adding
  <2> QED BY <1>1, <2>1 DEF OpenFile, TypeOK
<1>2. ASSUME NEW r \in Requests, WriteFile(r)
      PROVE  Storage!Next
  <2> DEFINE f == job[r].file
  <2>1. f \in Files \ known /\ file[f] = "partial"
    BY <1>2 DEF WriteFile, Uploads, Adds, Adding
  <2>2. file' = [file EXCEPT ![f] = "complete"] /\ UNCHANGED <<known, old, deleted>>
    BY <1>2 DEF WriteFile
  <2> HIDE DEF f
  <2>3. Stored' = Stored \cup {f} /\ Gone' = Gone /\ f \notin Stored \cup Gone
    BY <2>1, <2>2 DEF TypeOK
  <2> QED BY <2>1, <2>2, <2>3 DEF Storage!Next, Storage!Store
<1>3. ASSUME NEW r \in Requests, WriteMetadata(r)
      PROVE  UNCHANGED <<Stored, Gone, old, deleted>>
  <2>1. job[r].file \in Files /\ file[job[r].file] = "complete"
    BY <1>3 DEF WriteMetadata, Uploads, Adds, Adding
  <2> QED BY <1>3, <2>1 DEF WriteMetadata
<1>4. ASSUME NEW a \in Actors, NEW f \in Files, RemoveFile(a, f)
      PROVE  Storage!Next \/ UNCHANGED <<Stored, Gone, old, deleted>>
  <2>1. f \in known \cap (old \cup deleted)
    BY <1>4, RemovedIsKnown DEF RemoveFile
  <2>2. CASE file[f] = "absent"
    BY <1>4, <2>2 DEF RemoveFile
  <2>3. CASE file[f] # "absent"
    <3>1. file' = [file EXCEPT ![f] = "absent"] /\ UNCHANGED <<known, old, deleted>>
      BY <1>4, <2>3 DEF RemoveFile
    <3>2. file[f] = "complete"
      BY <2>1, <2>3 DEF TypeOK, FileState, Names
    <3>3. f \in Stored /\ Stored' = Stored \ {f} /\ Gone' = Gone \cup {f}
      BY <2>1, <3>1, <3>2 DEF TypeOK
    <3> QED BY <2>1, <3>1, <3>3 DEF Storage!Next, Storage!Remove
  <2> QED BY <2>2, <2>3
<1>5. ASSUME NEW f \in Files, Expire(f)
      PROVE  Storage!Next
  BY <1>5 DEF Expire, Storage!Next, Storage!Expire
<1>6. ASSUME NEW r \in Requests, NEW f \in Files, BeginDelete(r, f)
      PROVE  Storage!Next
  BY <1>6 DEF BeginDelete, Storage!Next, Storage!Delete
<1>7. CASE UNCHANGED <<file, known, old, deleted>>
  BY <1>7 DEF Storage!vars
<1>8. \/ UNCHANGED <<file, known, old, deleted>>
      \/ \E r \in Requests : OpenFile(r) \/ WriteFile(r) \/ WriteMetadata(r)
      \/ \E a \in Actors, f \in Files : RemoveFile(a, f)
      \/ \E f \in Files : Expire(f)
      \/ \E r \in Requests, f \in Files : BeginDelete(r, f)
  BY ZenonT(40) DEF Next, vars, RequestStep, AddStep, BeginAdd, MakeUserDirectory, MakeMediaDirectory,
         MakeDirectories, OpenMetadata, FailToAdd, Fail, CheckExists, EndDelete, RemovalStep,
         RemoveMetadata, ReadDirectory, RemoveDirectory, CleanUpStep, BeginCleanUp, WalkDirectory,
         ReadMetadata, SelectExpired, EndCleanUp, Crash
<1> QED BY <1>1, <1>2, <1>3, <1>4, <1>5, <1>6, <1>7, <1>8 DEF Storage!vars

\* The storage keeps its promise to the editor and to ContentSave: a file is there
\* until it has expired or its owner deletes it, and a name that is gone never comes
\* back, whatever fails (TemporaryFileManager.cleanUp and deleteFile).
THEOREM TemporaryStorageImplemented == Spec => ImplementsTemporaryStorage
<1>1. Init => Storage!Init
  BY StorageInit
<1>2. TemporaryFilesInv /\ [Next]_vars => [Storage!Next]_Storage!vars
  BY StorageStep
<1> QED BY <1>1, <1>2, InvHolds, PTL DEF Spec, ImplementsTemporaryStorage, Storage!Spec

=============================================================================
