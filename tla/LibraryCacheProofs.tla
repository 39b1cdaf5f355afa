------------------------- MODULE LibraryCacheProofs -------------------------
(***************************************************************************)
(* Machine-checked facts about LibraryCache, for every number of           *)
(* libraries, files, readers and changes and for every environment.        *)
(***************************************************************************)
EXTENDS LibraryCache, TLAPS

-----------------------------------------------------------------------------
(* The inductive invariant *)

\* A change of a library is one of its steps, with what it needs.
Installing == {"decide", "copy", "check"} \cup Adding \cup Updating \cup Clearing

JobInv(w) ==
  LET j == job[w] IN
  /\ j.pc # "idle" => j.lib \in Libraries
  /\ j.pc \in Installing => j.patch # 0
  /\ j.adding => j.pc \in Adding
  /\ \A f \in Files : j.copy[f] # "none" => j.pc = "check"
  /\ j.pc \in {"clear", "remove"} => j.keys = KeysOf(j.lib, FilesOf(j.lib))
  /\ j.pc = "writeMeta" => j.meta[1] # 0
  /\ j.pc = "check" =>
       \A f \in j.files : j.copy[f] = "write" \/ store[j.lib].file[f] # 0

\* Restrictions run beside other changes only where this is said, and the others one
\* at a time.
OneChange ==
  \A v, w \in Writers : Running(v) /\ Running(w) /\ v # w =>
    /\ "restrict" \in env
    /\ job[v].pc \in Restricting \/ job[w].pc \in Restricting

\* A read that overlaps with no change has the answer the storage still gives.
ReadersInv ==
  /\ \A r \in Readers : Reading(r) /\ ~reader[r].overlaps =>
       ~Changing /\ reader[r].value = View(reader[r].key)
  /\ "readers" \notin env => \A r \in Readers : Reading(r) => ~Changing /\ ~reader[r].overlaps

\* The keys a change is still going to delete after what it has done to the storage.
Due(j) ==
  {k \in Keys :
     \/ k = Names /\ j.pc \in {"addNames", "updMetadata", "updNames"}
     \/ k = NamesOf /\ j.pc \in {"addNames", "addAddons", "addInstalled", "addNamesOf",
                                 "updMetadata", "updNames", "updAddons", "updNamesOf"}
     \/ k = AddonList /\ j.pc \in {"addNames", "addAddons", "updMetadata", "updNames", "updAddons"}
     \/ k = Key("isInstalled", j.lib) /\ j.pc \in {"addNames", "addAddons", "addInstalled"}
     \/ k = Key("fileList", j.lib) /\ j.pc \in {"addNames", "addAddons", "addInstalled",
                                                "addNamesOf", "addFileList", "clearFileList"}
     \/ k = Key("metadata", j.lib) /\ j.pc \in {"updMetadata", "restrictMetadata"}
     \/ k \in j.keys /\ j.pc \in {"clearFileList", "clearKeys", "deleteKeys"}
     \/ \E f \in Files : k = FileKey(j.lib, f) /\ j.copy[f] = "del"}

IsDue(k) == \E w \in Writers : k \in Due(job[w])

\* The keys that it may make stale without deleting them afterwards.
Gone(j) ==
  {k \in Keys :
     \/ k = Names /\ j.pc \in Adding \ {"addNames"}
     \/ k = AddonList /\ j.pc \in Adding \ {"addNames", "addAddons"}
     \/ k = Key("isInstalled", j.lib) /\ j.pc \in {"addNamesOf", "addFileList", "awaitAdd"}
     \/ k = NamesOf /\ j.pc \in {"addFileList", "awaitAdd"}
     \/ k = Key("fileList", j.lib) /\ j.pc \in {"awaitAdd", "clearKeys", "copy", "check"}
     \/ k = Key("metadata", j.lib) /\ j.pc \in Adding}

\* There is no entry, or one nobody relies on.
Absent(k) == cache[k] = NoEntry \/ k \in tainted

Stale(k) == ~Absent(k) /\ k[1] # "languages" /\ cache[k] # View(k)

\* An entry that is stale will be deleted.
StaleIsDue == \A k \in Keys : Stale(k) => IsDue(k)

DeletedStays == \A w \in Writers : \A k \in Gone(job[w]) : Absent(k)

\* The metadata of a library that is gone are gone, but for a deletion under way.
NoMetadata ==
  \A l \in Libraries : ~Installed(l) =>
    \/ Absent(Key("metadata", l))
    \/ \E w \in Writers : job[w].pc = "deleteKeys" /\ Key("metadata", l) \in job[w].keys

\* A restriction writes the patch it has read, unless the list of addons, which it
\* does not delete, has gone meanwhile.
AddonsInv ==
  \A w \in Writers : job[w].pc = "writeMeta" =>
    \/ ~Installed(job[w].lib) \/ job[w].meta[1] = store[job[w].lib].patch
    \/ Absent(AddonList) \/ IsDue(AddonList)

\* Where nothing overlaps, a library has the files of its patch, or is just being
\* changed, and a change has the library in the patch it installs.
Replacing == {"updMetadata", "updNames", "updAddons", "updNamesOf", "listFiles", "clear"}
Copying   == {"clearFileList", "clearKeys", "copy", "check"}

MatchInv ==
  env = {} =>
    /\ tainted = {}
    /\ \A l \in Libraries :
         \/ \A f \in FilesOf(l) : store[l].file[f] = store[l].patch
         \/ \E w \in Writers : job[w].pc \in Replacing /\ job[w].lib = l
    /\ \A w \in Writers :
         /\ job[w].adding => ~Installed(job[w].lib)
         /\ (job[w].pc \in Adding /\ ~job[w].adding) \/ job[w].pc \in Replacing \cup Copying
              => store[job[w].lib].patch = job[w].patch
         /\ job[w].pc = "writeMeta" => job[w].meta[1] = store[job[w].lib].patch

CacheInv ==
  /\ TypeOK /\ env \in Environments
  /\ \A w \in Writers : JobInv(w)
  /\ OneChange /\ ReadersInv /\ StaleIsDue /\ DeletedStays /\ NoMetadata /\ AddonsInv /\ MatchInv

-----------------------------------------------------------------------------
(* The keys, and what the storage answers *)

LEMMA KeyParts ==
  /\ Names[1] = "names" /\ NamesOf[1] = "namesOf" /\ AddonList[1] = "addons"
  /\ \A u, l : Key(u, l)[1] = u /\ Key(u, l)[2] = l
  /\ \A l, f : FileKey(l, f)[1] = "file" /\ FileKey(l, f)[2] = l /\ FileKey(l, f)[3] = f
BY DEF Names, NamesOf, AddonList, Key, FileKey

LEMMA KeyKinds ==
  /\ Names \in Keys /\ NamesOf \in Keys /\ AddonList \in Keys
  /\ \A u \in PerLibrary, l \in Libraries : Key(u, l) \in Keys
  /\ \A l \in Libraries, f \in Files : FileKey(l, f) \in Keys
  /\ \A k \in Keys :
       \/ k = Names \/ k = NamesOf \/ k = AddonList
       \/ \E u \in PerLibrary, l \in Libraries : k = Key(u, l)
       \/ \E l \in Libraries, f \in Files : k = FileKey(l, f)
BY DEF Keys

\* What a change of one library changes of the answers.
LEMMA ViewChanges ==
  ASSUME NEW l \in Libraries, \A i \in Libraries \ {l} : store'[i] = store[i],
         Addons \subseteq Libraries,
         NEW k \in Keys, View(k)' # View(k), k[1] # "languages"
  PROVE  \/ k \in {Names, NamesOf} /\ Installed(l)' # Installed(l)
         \/ k = AddonList /\ store'[l].patch # store[l].patch
         \/ k = Key("metadata", l) /\ (\/ store'[l].patch # store[l].patch
                                      \/ store'[l].restricted # store[l].restricted)
         \/ k = Key("isInstalled", l) /\ Installed(l)' # Installed(l)
         \/ k = Key("fileList", l) /\ (\/ Installed(l)' # Installed(l)
                                      \/ FilesOf(l)' # FilesOf(l))
         \/ \E f \in Files : k = FileKey(l, f) /\ store'[l].file[f] # store[l].file[f]
<1>1. CASE k \in {Names, NamesOf}
  <2>1. View(k) = {i \in Libraries : Installed(i)} /\ View(k)' = {i \in Libraries : Installed(i)}'
    BY <1>1, KeyParts DEF View
  <2>2. \A i \in Libraries \ {l} : Installed(i)' = Installed(i)
    BY DEF Installed
  <2> QED BY <1>1, <2>1, <2>2
<1>2. CASE k = AddonList
  <2>1. /\ View(k) = {<<i, store[i].patch>> : i \in {j \in Addons : Installed(j)}}
        /\ View(k)' = {<<i, store'[i].patch>> : i \in {j \in Addons : Installed(j)'}}
    BY <1>2, KeyParts DEF View
  <2>2. ASSUME store'[l].patch = store[l].patch PROVE FALSE
    <3>1. \A i \in Addons : store'[i].patch = store[i].patch
      BY <2>2
    <3>2. \A i \in Addons : Installed(i)' = Installed(i)
      BY <3>1 DEF Installed
    <3>3. {j \in Addons : Installed(j)'} = {j \in Addons : Installed(j)}
      BY <3>2
    <3> QED BY <2>1, <3>1, <3>3
  <2> QED BY <1>2, <2>2
<1>3. ASSUME NEW u \in PerLibrary, NEW i \in Libraries, k = Key(u, i)
      PROVE  \/ k = Key("metadata", l) /\ (\/ store'[l].patch # store[l].patch
                                           \/ store'[l].restricted # store[l].restricted)
             \/ k = Key("isInstalled", l) /\ Installed(l)' # Installed(l)
             \/ k = Key("fileList", l) /\ (\/ Installed(l)' # Installed(l)
                                           \/ FilesOf(l)' # FilesOf(l))
  <2>1. k[1] = u /\ k[2] = i
    BY <1>3, KeyParts
  <2>2. CASE u = "metadata"
    BY <1>3, <2>1, <2>2 DEF View, Installed
  <2>3. CASE u = "isInstalled"
    BY <1>3, <2>1, <2>3 DEF View, Installed
  <2>4. CASE u = "fileList"
    BY <1>3, <2>1, <2>4 DEF View, Installed, FilesOf
  <2> QED BY <2>1, <2>2, <2>3, <2>4 DEF PerLibrary
<1>4. ASSUME NEW i \in Libraries, NEW f \in Files, k = FileKey(i, f)
      PROVE  i = l /\ store'[l].file[f] # store[l].file[f]
  BY <1>4, KeyParts DEF View
<1> QED BY <1>1, <1>2, <1>3, <1>4, KeyKinds

\* What is cached of metadata that cannot be read is nothing.
LEMMA ViewOfMetadata ==
  ASSUME NEW l \in Libraries, ~Installed(l)
  PROVE  View(Key("metadata", l)) = Rejected
BY KeyParts DEF View

\* There is no due or gone key where nothing is under way.
LEMMA IdleHasType ==
  /\ IdleJob \in Job
  /\ IdleJob.pc = "idle" /\ IdleJob.keys = {} /\ ~IdleJob.adding
  /\ \A f \in Files : IdleJob.copy[f] = "none"
<1>1. 0 \in Patch
  BY LibraryCacheAssumption DEF Patch
<1>2. IdleJob.pc \in Control
  BY DEF IdleJob, Control
<1>3. IdleJob.meta \in Patch \X BOOLEAN
  BY <1>1 DEF IdleJob
<1> QED BY <1>1, <1>2, <1>3 DEF IdleJob, Job

LEMMA DueKeys ==
  ASSUME NEW j \in Job, j.pc # "check" => \A f \in Files : j.copy[f] = "none",
         j.pc \notin {"addNames", "addAddons", "addInstalled", "addNamesOf", "addFileList",
                     "updMetadata", "updNames", "updAddons", "updNamesOf", "clearFileList", "clearKeys", "deleteKeys",
                     "restrictMetadata", "check"}
  PROVE  Due(j) = {}
BY DEF Due

LEMMA GoneKeys ==
  ASSUME NEW j \in Job, j.pc \notin Adding \cup {"clearKeys", "copy", "check"}
  PROVE  Gone(j) = {}
BY DEF Gone, Adding

-----------------------------------------------------------------------------
(* Steps of a change *)

\* The local state of w becomes y.
Becomes(w, y) ==
  /\ job' = [job EXCEPT ![w] = y]
  /\ y.pc # "idle" => y.lib = job[w].lib /\ (y.pc \in Restricting <=> job[w].pc \in Restricting)
  /\ UNCHANGED <<env, writes, misses>>

LEMMA Others ==
  ASSUME TypeOK, NEW w \in Writers, NEW y \in Job, Becomes(w, y)
  PROVE  /\ job' \in [Writers -> Job] /\ job'[w] = y
         /\ \A v \in Writers \ {w} : job'[v] = job[v]
BY DEF TypeOK, Becomes

LEMMA StillOneChange ==
  ASSUME TypeOK, OneChange, NEW w \in Writers, NEW y \in Job, Becomes(w, y), Running(w)
  PROVE  OneChange'
BY Others DEF OneChange, Running, Becomes

LEMMA StillRead ==
  ASSUME TypeOK, ReadersInv, NEW w \in Writers, NEW y \in Job, Becomes(w, y), Running(w),
         UNCHANGED reader
  PROVE  ReadersInv'
<1>1. Changing
  BY DEF Changing
<1> QED BY <1>1, Others DEF ReadersInv, Reading, Becomes

\* A step of w that deletes the keys K.
LEMMA Invalidation ==
  ASSUME CacheInv, NEW w \in Writers, NEW y \in Job, Becomes(w, y), Running(w),
         UNCHANGED <<store, reader>>,
         NEW K \in SUBSET Keys,
         cache' = [k \in Keys |-> IF k \in K THEN NoEntry ELSE cache[k]], tainted' = tainted \ K,
         JobInv(w)',
         Due(job[w]) \subseteq Due(y) \cup K,
         Gone(y) \subseteq Gone(job[w]) \cup K,
         job[w].pc = "deleteKeys" =>
           \A k \in job[w].keys \ K : y.pc = "deleteKeys" /\ k \in y.keys,
         y.pc = "writeMeta" => y.meta[1] = store[y.lib].patch,
         job[w].pc \in Replacing => y.pc \in Replacing \/ ~Installed(job[w].lib),
         y.adding => job[w].adding,
         (y.pc \in Adding /\ ~y.adding) \/ y.pc \in Replacing \cup Copying =>
           /\ (job[w].pc \in Adding /\ ~job[w].adding) \/ job[w].pc \in Replacing \cup Copying
           /\ y.patch = job[w].patch
  PROVE  CacheInv'
<1> USE DEF CacheInv
<1>1. /\ job' \in [Writers -> Job] /\ job'[w] = y
      /\ \A v \in Writers \ {w} : job'[v] = job[v]
  BY Others
<1>2. \A k \in Keys : /\ k \in K => cache'[k] = NoEntry /\ k \notin tainted'
                      /\ k \notin K => cache'[k] = cache[k] /\ (k \in tainted' <=> k \in tainted)
  OBVIOUS
<1>3. \A k \in Keys : (Absent(k)' <=> Absent(k) \/ k \in K)
  BY <1>2 DEF Absent
<1>4. \A k \in Keys : View(k)' = View(k)
  BY DEF View, Installed, FilesOf
<1>5. TypeOK'
  <2>1. \A k \in Keys : cache'[k] # Rejected
    BY <1>2, LibraryCacheAssumption DEF TypeOK
  <2> QED BY <1>1, <2>1 DEF TypeOK, Becomes
<1>6. \A v \in Writers : JobInv(v)'
  <2> SUFFICES ASSUME NEW v \in Writers, v # w PROVE JobInv(v)'
    OBVIOUS
  <2>1. JobInv(v) /\ job'[v] = job[v]
    BY <1>1
  <2> QED BY <2>1 DEF JobInv, FilesOf
<1>7. OneChange' /\ ReadersInv'
  BY StillOneChange, StillRead
<1>8. \A k \in Keys : IsDue(k) => IsDue(k)' \/ k \in K
  BY <1>1 DEF IsDue
<1>9. StaleIsDue'
  BY <1>2, <1>3, <1>4, <1>8 DEF StaleIsDue, Stale
<1>10. DeletedStays'
  <2>1. \A j : Gone(j) \subseteq Keys
    BY DEF Gone
  <2> QED BY <1>1, <1>3, <2>1 DEF DeletedStays
<1>11. NoMetadata'
  <2> SUFFICES ASSUME NEW l \in Libraries, ~Installed(l)', ~Absent(Key("metadata", l))'
               PROVE  \E v \in Writers : job'[v].pc = "deleteKeys"
                                         /\ Key("metadata", l) \in job'[v].keys
    BY DEF NoMetadata
  <2>1. Key("metadata", l) \in Keys
    BY KeyKinds DEF PerLibrary
  <2>2. ~Installed(l) /\ ~Absent(Key("metadata", l)) /\ Key("metadata", l) \notin K
    BY <1>3, <2>1 DEF Installed
  <2> QED BY <1>1, <2>2 DEF NoMetadata
<1>12. AddonsInv'
  <2>1. AddonList \in Keys
    BY KeyKinds
  <2> QED BY <1>1, <1>3, <1>8, <2>1 DEF AddonsInv, Installed
<1>13. MatchInv'
  <2> SUFFICES ASSUME env = {} PROVE MatchInv'
    BY DEF MatchInv, Becomes
  <2>1. tainted' = {}
    BY DEF MatchInv
  <2>2. y.pc # "idle" => y.lib = job[w].lib
    BY DEF Becomes
  <2>3. y.adding => y.pc # "idle"
    BY <1>1 DEF JobInv, Adding
  <2>4. ASSUME NEW l \in Libraries
        PROVE  \/ \A f \in FilesOf(l)' : store[l].file[f] = store[l].patch
               \/ \E v \in Writers : job'[v].pc \in Replacing /\ job'[v].lib = l
    <3>1. FilesOf(l)' = FilesOf(l)
      BY DEF FilesOf
    <3>2. CASE \E v \in Writers : job[v].pc \in Replacing /\ job[v].lib = l
      <4>1. PICK v \in Writers : job[v].pc \in Replacing /\ job[v].lib = l
        BY <3>2
      <4>2. ASSUME v = w, y.pc \notin Replacing PROVE FALSE
        <5>1. store[l].patch = job[w].patch /\ job[w].patch # 0
          BY <2>2, <4>1, <4>2 DEF MatchInv, JobInv, Replacing, Installing, Updating, Clearing
        <5> QED BY <4>1, <4>2, <5>1 DEF Installed
      <4> QED BY <1>1, <2>2, <4>1, <4>2 DEF Replacing
    <3> QED BY <3>1, <3>2 DEF MatchInv
  <2>5. ASSUME NEW v \in Writers
        PROVE  /\ job'[v].adding => ~Installed(job'[v].lib)
               /\ (job'[v].pc \in Adding /\ ~job'[v].adding) \/ job'[v].pc \in Replacing \cup Copying
                    => store[job'[v].lib].patch = job'[v].patch
               /\ job'[v].pc = "writeMeta" => job'[v].meta[1] = store[job'[v].lib].patch
    <3>1. CASE v = w
      BY <1>1, <2>2, <2>3, <3>1 DEF MatchInv, Adding, Replacing, Copying
    <3>2. CASE v # w
      BY <1>1, <3>2 DEF MatchInv
    <3> QED BY <3>1, <3>2
  <2> QED BY <2>1, <2>4, <2>5 DEF MatchInv, Installed
<1> QED BY <1>5, <1>6, <1>7, <1>9, <1>10, <1>11, <1>12, <1>13 DEF Becomes

\* Where no change overlaps with another.
LEMMA Alone ==
  ASSUME CacheInv, NEW w \in Writers, Running(w), env = {}
  PROVE  \A v \in Writers \ {w} : ~Running(v)
BY DEF CacheInv, OneChange

LEMMA FilesFit ==
  ASSUME CacheInv, NEW w \in Writers, Running(w), env = {}, job[w].pc \notin Replacing
  PROVE  \A l \in Libraries, f \in Files : store[l].file[f] \in {0, store[l].patch}
<1>1. \A v \in Writers : job[v].pc \notin Replacing
  BY Alone DEF Running, Replacing
<1> QED BY <1>1 DEF CacheInv, MatchInv, FilesOf

\* A step of w that changes its library in the storage.
LEMMA Storing ==
  ASSUME CacheInv, NEW w \in Writers, NEW y \in Job, Becomes(w, y), Running(w),
         UNCHANGED <<cache, tainted, reader>>,
         NEW l \in Libraries, l = job[w].lib, NEW s \in Library, store' = [store EXCEPT ![l] = s],
         job[w].pc \in Restricting => s.file = store[l].file,
         JobInv(w)',
         y.pc \notin {"idle", "writeMeta"}, job[w].pc # "deleteKeys",
         \A k \in Keys : View(k)' # View(k) /\ k[1] # "languages" =>
           k \in Due(y) \/ IsDue(k) \/ Absent(k),
         Due(job[w]) \subseteq Due(y),
         Gone(y) \subseteq Gone(job[w]),
         s.patch = 0 /\ store[l].patch # 0 =>
           y.pc = "deleteKeys" /\ Key("metadata", l) \in y.keys,
         s.patch # store[l].patch =>
           s.patch = 0 \/ Absent(AddonList) \/ AddonList \in Due(y) \/ IsDue(AddonList),
         ~y.adding,
         env = {} =>
           /\ y.pc \in Replacing \/ \A f \in Files : s.file[f] \in {0, s.patch}
           /\ y.pc \in Adding \cup Replacing \cup Copying => s.patch = y.patch
  PROVE  CacheInv'
<1> USE DEF CacheInv
<1>1. /\ job' \in [Writers -> Job] /\ job'[w] = y
      /\ \A v \in Writers \ {w} : job'[v] = job[v]
  BY Others
<1>2. /\ store' \in [Libraries -> Library] /\ store'[l] = s
      /\ \A i \in Libraries \ {l} : store'[i] = store[i]
  BY DEF TypeOK
<1>3. \A k \in Keys : Absent(k)' <=> Absent(k)
  BY DEF Absent
<1>4. TypeOK'
  BY <1>1, <1>2 DEF TypeOK, Becomes
<1>5. \A v \in Writers : JobInv(v)'
  <2> SUFFICES ASSUME NEW v \in Writers, v # w PROVE JobInv(v)'
    OBVIOUS
  <2>1. JobInv(v) /\ job'[v] = job[v]
    BY <1>1
  <2>2. ASSUME job[v].pc \in {"clear", "remove", "check"}
        PROVE  store'[job[v].lib].file = store[job[v].lib].file
    <3>1. job[w].pc \in Restricting
      BY <2>2 DEF OneChange, Running, Restricting
    <3>2. job[v].lib \in Libraries
      BY <2>1, <2>2 DEF JobInv
    <3> QED BY <1>2, <3>1, <3>2
  <2>3. job[v].pc \in {"clear", "remove"} => FilesOf(job[v].lib)' = FilesOf(job[v].lib)
    BY <2>1, <2>2 DEF FilesOf
  <2> QED BY <2>1, <2>2, <2>3 DEF JobInv
<1>6. OneChange' /\ ReadersInv'
  BY StillOneChange, StillRead
<1>7. \A k \in Keys : IsDue(k) => IsDue(k)'
  BY <1>1 DEF IsDue
<1>8. StaleIsDue'
  <2>1. \A k \in Due(y) : IsDue(k)'
    BY <1>1 DEF IsDue
  <2>2. ASSUME NEW k \in Keys, Stale(k)' PROVE IsDue(k)'
    <3>1. ~Absent(k) /\ k[1] # "languages" /\ cache[k] # View(k)'
      BY <1>3, <2>2 DEF Stale
    <3>2. CASE View(k)' = View(k)
      BY <1>7, <3>1, <3>2 DEF StaleIsDue, Stale
    <3>3. CASE View(k)' # View(k)
      BY <1>7, <2>1, <3>1, <3>3
    <3> QED BY <3>2, <3>3
  <2> QED BY <2>2 DEF StaleIsDue
<1>9. DeletedStays'
  <2>1. \A j : Gone(j) \subseteq Keys
    BY DEF Gone
  <2> QED BY <1>1, <1>3, <2>1 DEF DeletedStays
<1>10. NoMetadata'
  <2> SUFFICES ASSUME NEW i \in Libraries, ~Installed(i)', ~Absent(Key("metadata", i))'
               PROVE  \E v \in Writers : job'[v].pc = "deleteKeys"
                                         /\ Key("metadata", i) \in job'[v].keys
    BY DEF NoMetadata
  <2>1. ~Absent(Key("metadata", i))
    BY <1>3, KeyKinds DEF PerLibrary
  <2>2. CASE i = l /\ Installed(l)
    BY <1>1, <1>2, <2>2 DEF Installed
  <2>3. CASE ~Installed(i)
    <3>1. PICK v \in Writers : job[v].pc = "deleteKeys" /\ Key("metadata", i) \in job[v].keys
      BY <2>1, <2>3 DEF NoMetadata
    <3>2. v # w
      BY <3>1
    <3> QED BY <1>1, <3>1, <3>2
  <2> QED BY <1>2, <2>2, <2>3 DEF Installed
<1>11. AddonsInv'
  <2> SUFFICES ASSUME NEW v \in Writers, job'[v].pc = "writeMeta"
               PROVE  ( \/ ~Installed(job[v].lib) \/ job[v].meta[1] = store[job[v].lib].patch
                        \/ Absent(AddonList) \/ IsDue(AddonList) )'
    BY DEF AddonsInv
  <2>1. v # w /\ job'[v] = job[v] /\ job[v].lib \in Libraries
    BY <1>1 DEF JobInv
  <2>2. AddonList \in Keys
    BY KeyKinds
  <2>3. AddonList \in Due(y) => IsDue(AddonList)'
    BY <1>1 DEF IsDue
  <2> QED BY <1>2, <1>3, <1>7, <2>1, <2>2, <2>3 DEF AddonsInv, Installed
<1>12. MatchInv'
  <2> SUFFICES ASSUME env = {} PROVE MatchInv'
    BY DEF MatchInv, Becomes
  <2>1. tainted' = {}
    BY DEF MatchInv
  <2>2. \A v \in Writers \ {w} : job'[v].pc = "idle" /\ ~job'[v].adding
    BY <1>1, Alone DEF Running, JobInv, Adding
  <2>3. y.lib = l
    BY DEF Becomes
  <2>4. ASSUME NEW i \in Libraries \ {l}, NEW f \in FilesOf(i)'
        PROVE  store'[i].file[f] = store'[i].patch
    <3>1. f \in FilesOf(i) /\ store'[i] = store[i]
      BY <1>2, <2>4 DEF FilesOf
    <3>2. \A v \in Writers : job[v].pc \in Replacing => job[v].lib = l
      BY Alone DEF Running, Replacing
    <3> QED BY <3>1, <3>2 DEF MatchInv
  <2>5. \/ \A f \in FilesOf(l)' : store'[l].file[f] = store'[l].patch
        \/ job'[w].pc \in Replacing /\ job'[w].lib = l
    BY <1>1, <1>2, <2>3 DEF FilesOf
  <2>6. store'[job'[w].lib].patch = s.patch
    BY <1>1, <1>2, <2>3
  <2> QED BY <1>1, <2>1, <2>2, <2>4, <2>5, <2>6 DEF MatchInv, Adding, Replacing, Copying
<1> QED BY <1>4, <1>5, <1>6, <1>8, <1>9, <1>10, <1>11, <1>12 DEF Becomes

\* A step of w that reads the keys ks through the cache.
LEMMA Consulting ==
  ASSUME CacheInv, NEW w \in Writers, NEW y \in Job, job' = [job EXCEPT ![w] = y],
         UNCHANGED <<store, env, misses>>, writes' \in 0..MaxWrites,
         reader' = [r \in Readers |-> reader'[r]], \A r \in Readers : reader'[r].key \in Keys,
         NEW ks, NEW T \in SUBSET Keys, cache' = Filled(ks), tainted' = Tainted(w, ks) \cup T,
         Due(job[w]) = {}, job[w].pc # "deleteKeys", y.pc \notin {"writeMeta", "deleteKeys"},
         JobInv(w)', \A k \in Gone(y) : Absent(k)', OneChange', ReadersInv',
         job[w].pc \notin Replacing, y.pc \notin Replacing \cup Copying,
         y.pc \in Adding => y.adding,
         env = {} => /\ \A v \in Writers \ {w} : ~Running(v)
                     /\ T = {}
                     /\ y.adding => ~Installed(y.lib)
  PROVE  CacheInv'
<1> USE DEF CacheInv
<1>1. /\ job' \in [Writers -> Job] /\ job'[w] = y
      /\ \A v \in Writers \ {w} : job'[v] = job[v]
  BY DEF TypeOK
<1>2. \A k \in Keys : \/ cache'[k] = cache[k]
                      \/ cache[k] = NoEntry /\ k \in ks /\ cache'[k] = View(k) /\ View(k) # Rejected
  BY DEF Filled, Cached
<1>3. tainted \subseteq tainted' /\ tainted' \subseteq Keys
  BY DEF Tainted, TypeOK
<1>4. ASSUME NEW v \in Writers \ {w}, Running(v), NEW k \in Keys, Absent(k) PROVE Absent(k)'
  BY <1>2, <1>3, <1>4 DEF Absent, Tainted
<1>5. \A k \in Keys : View(k)' = View(k)
  BY DEF View, Installed, FilesOf
<1>6. TypeOK'
  <2>1. \A k \in Keys : cache'[k] # Rejected
    BY <1>2 DEF TypeOK
  <2>2. cache' = [k \in Keys |-> cache'[k]]
    BY DEF Filled
  <2> QED BY <1>1, <1>3, <2>1, <2>2 DEF TypeOK
<1>7. \A v \in Writers : JobInv(v)'
  <2> SUFFICES ASSUME NEW v \in Writers, v # w PROVE JobInv(v)'
    OBVIOUS
  <2>1. JobInv(v) /\ job'[v] = job[v]
    BY <1>1
  <2> QED BY <2>1 DEF JobInv, FilesOf
<1>8. \A k \in Keys : IsDue(k) => IsDue(k)'
  BY <1>1 DEF IsDue
<1>9. StaleIsDue'
  <2> SUFFICES ASSUME NEW k \in Keys, Stale(k)' PROVE IsDue(k)'
    BY DEF StaleIsDue
  <2>1. cache'[k] # View(k) /\ cache'[k] # NoEntry /\ k \notin tainted' /\ k[1] # "languages"
    BY <1>5 DEF Stale, Absent
  <2>2. Stale(k)
    BY <1>2, <1>3, <2>1 DEF Stale, Absent
  <2> QED BY <1>8, <2>2 DEF StaleIsDue
<1>10. DeletedStays'
  <2> SUFFICES ASSUME NEW v \in Writers \ {w}, NEW k \in Gone(job[v]) PROVE Absent(k)'
    BY <1>1 DEF DeletedStays
  <2>1. k \in Keys /\ Running(v)
    BY DEF Gone, Running, Adding
  <2> QED BY <1>4, <2>1 DEF DeletedStays
<1>11. NoMetadata'
  <2> SUFFICES ASSUME NEW l \in Libraries, ~Installed(l)', ~Absent(Key("metadata", l))'
               PROVE  \E v \in Writers : job'[v].pc = "deleteKeys"
                                         /\ Key("metadata", l) \in job'[v].keys
    BY DEF NoMetadata
  <2>1. Key("metadata", l) \in Keys
    BY KeyKinds DEF PerLibrary
  <2>2. ~Installed(l)
    BY DEF Installed
  <2>3. View(Key("metadata", l)) = Rejected
    BY <2>2, ViewOfMetadata
  <2>4. ~Absent(Key("metadata", l))
    BY <1>2, <1>3, <2>1, <2>3 DEF Absent
  <2>5. PICK v \in Writers : job[v].pc = "deleteKeys" /\ Key("metadata", l) \in job[v].keys
    BY <2>2, <2>4 DEF NoMetadata
  <2> QED BY <1>1, <2>5
<1>12. AddonsInv'
  <2> SUFFICES ASSUME NEW v \in Writers, job'[v].pc = "writeMeta"
               PROVE  ( \/ ~Installed(job[v].lib) \/ job[v].meta[1] = store[job[v].lib].patch
                        \/ Absent(AddonList) \/ IsDue(AddonList) )'
    BY DEF AddonsInv
  <2>1. v # w /\ job'[v] = job[v] /\ Running(v)
    BY <1>1 DEF Running
  <2>2. AddonList \in Keys
    BY KeyKinds
  <2> QED BY <1>4, <1>8, <2>1, <2>2 DEF AddonsInv, Installed
<1>13. MatchInv'
  <2> SUFFICES ASSUME env = {} PROVE MatchInv'
    BY DEF MatchInv
  <2>1. tainted' = {}
    BY DEF MatchInv, Tainted
  <2>2. \A v \in Writers \ {w} : job'[v].pc = "idle" /\ ~job'[v].adding
    BY <1>1 DEF Running, JobInv, Adding
  <2>3. \A v \in Writers : job[v].pc \notin Replacing
    BY DEF Running, Replacing
  <2>4. ASSUME NEW l \in Libraries, NEW f \in FilesOf(l)'
        PROVE  store'[l].file[f] = store'[l].patch
    BY <2>3, <2>4 DEF MatchInv, FilesOf
  <2>5. ASSUME NEW v \in Writers
        PROVE  /\ job'[v].adding => ~Installed(job'[v].lib)
               /\ ~(job'[v].pc \in Adding /\ ~job'[v].adding)
               /\ job'[v].pc \notin Replacing \cup Copying \cup {"writeMeta"}
    BY <1>1, <2>2 DEF Replacing, Copying, Adding
  <2>6. \A i : Installed(i)' <=> Installed(i)
    BY DEF Installed
  <2>7. \A v \in Writers : job'[v].adding => store'[job'[v].lib].patch = 0
    BY <2>5 DEF Installed
  <2> QED BY <2>1, <2>4, <2>5, <2>7 DEF MatchInv, Installed
<1> QED BY <1>6, <1>7, <1>9, <1>10, <1>11, <1>12, <1>13

-----------------------------------------------------------------------------
(* Reads, and the deletion of the whole cache *)

\* A step of no change.
LEMMA Quiet ==
  ASSUME CacheInv, UNCHANGED <<store, job, env, writes>>, misses' \in 0..MaxMisses,
         cache' = [k \in Keys |-> cache'[k]], \A k \in Keys : cache'[k] # Rejected,
         reader' = [r \in Readers |-> reader'[r]], \A r \in Readers : reader'[r].key \in Keys,
         tainted' \subseteq Keys,
         \A k \in Keys : \/ Absent(k)' \/ (cache'[k] = cache[k] /\ ~Absent(k))
                         \/ cache'[k] = View(k) /\ ~Changing,
         ReadersInv', env = {} => tainted' = {}
  PROVE  CacheInv'
<1> USE DEF CacheInv
<1>1. \A k \in Keys : View(k)' = View(k)
  BY DEF View, Installed, FilesOf
<1>2. TypeOK'
  BY DEF TypeOK
<1>3. \A v \in Writers : JobInv(v)'
  BY DEF JobInv, FilesOf
<1>4. OneChange'
  BY DEF OneChange, Running
<1>5. StaleIsDue'
  BY <1>1 DEF StaleIsDue, Stale, IsDue, Absent
<1>6. DeletedStays'
  <2> SUFFICES ASSUME NEW v \in Writers, NEW k \in Gone(job[v]) PROVE Absent(k)'
    BY DEF DeletedStays
  <2>1. k \in Keys /\ Changing
    BY DEF Gone, Running, Adding, Changing
  <2> QED BY <2>1 DEF DeletedStays
<1>7. NoMetadata'
  <2> SUFFICES ASSUME NEW l \in Libraries, ~Installed(l)', ~Absent(Key("metadata", l))'
               PROVE  \E v \in Writers : job'[v].pc = "deleteKeys"
                                         /\ Key("metadata", l) \in job'[v].keys
    BY DEF NoMetadata
  <2>1. Key("metadata", l) \in Keys
    BY KeyKinds DEF PerLibrary
  <2>2. ~Installed(l)
    BY DEF Installed
  <2>3. View(Key("metadata", l)) = Rejected
    BY <2>2, ViewOfMetadata
  <2>4. ~Absent(Key("metadata", l))
    BY <2>1, <2>3
  <2> QED BY <2>2, <2>4 DEF NoMetadata
<1>8. AddonsInv'
  <2> SUFFICES ASSUME NEW v \in Writers, job[v].pc = "writeMeta"
               PROVE  ( \/ ~Installed(job[v].lib) \/ job[v].meta[1] = store[job[v].lib].patch
                        \/ Absent(AddonList) \/ IsDue(AddonList) )'
    BY DEF AddonsInv
  <2>1. Changing
    BY DEF Changing, Running
  <2>2. AddonList \in Keys
    BY KeyKinds
  <2>3. IsDue(AddonList)' <=> IsDue(AddonList)
    BY DEF IsDue
  <2> QED BY <2>1, <2>2, <2>3 DEF AddonsInv, Installed
<1>9. MatchInv'
  BY DEF MatchInv, FilesOf, Installed
<1> QED BY <1>2, <1>3, <1>4, <1>5, <1>6, <1>7, <1>8, <1>9

LEMMA MissStep ==
  ASSUME CacheInv, UNCHANGED env, NEW r \in Readers, NEW k \in Keys, Miss(r, k)
  PROVE  CacheInv'
<1> USE DEF CacheInv
<1> DEFINE new == [key |-> k, value |-> View(k), overlaps |-> Changing]
<1>1. /\ reader' = [q \in Readers |-> IF q = r THEN new ELSE reader[q]]
      /\ UNCHANGED <<store, cache, tainted, job, writes, env>>
      /\ "readers" \in env \/ ~Changing
  BY DEF Miss, TypeOK
<1>2. misses' \in 0..MaxMisses
  BY LibraryCacheAssumption DEF Miss, TypeOK
<1>3. new.key = k /\ new.value = View(k) /\ new.overlaps = Changing
  OBVIOUS
<1> HIDE DEF new
<1>4. \A q \in Readers : reader'[q].key \in Keys
  BY <1>1, <1>3 DEF TypeOK
<1>5. \A j \in Keys : View(j)' = View(j)
  BY <1>1 DEF View, Installed, FilesOf
<1>6. Changing' <=> Changing
  BY <1>1 DEF Changing, Running
<1>7. ReadersInv'
  BY <1>1, <1>3, <1>4, <1>5, <1>6 DEF ReadersInv, Reading, TypeOK
<1>8. reader' = [q \in Readers |-> reader'[q]]
  BY <1>1
<1>9. /\ cache' = [j \in Keys |-> cache'[j]] /\ \A j \in Keys : cache'[j] # Rejected
      /\ tainted' \subseteq Keys
  BY <1>1 DEF TypeOK
<1>10. \A j \in Keys : Absent(j)' \/ (cache'[j] = cache[j] /\ ~Absent(j))
  BY <1>1 DEF Absent
<1>11. env = {} => tainted' = {}
  BY <1>1 DEF MatchInv
<1> QED BY <1>1, <1>2, <1>4, <1>7, <1>8, <1>9, <1>10, <1>11, Quiet

LEMMA FillStep ==
  ASSUME CacheInv, UNCHANGED env, NEW r \in Readers, Fill(r)
  PROVE  CacheInv'
<1> USE DEF CacheInv
<1>1. /\ reader' = [q \in Readers |-> IF q = r THEN IdleReader ELSE reader[q]]
      /\ UNCHANGED <<store, job, writes, misses, env>>
      /\ Reading(r)
  BY DEF Fill, TypeOK
<1>2. reader[r].key \in Keys
  BY DEF TypeOK
<1>3. IdleReader.key = Names /\ IdleReader.value = NoEntry
  BY DEF IdleReader
<1>4. \A q \in Readers : reader'[q].key \in Keys
  BY <1>1, <1>3, KeyKinds DEF TypeOK
<1>5. \A j \in Keys : View(j)' = View(j)
  BY <1>1 DEF View, Installed, FilesOf
<1>6. Changing' <=> Changing
  BY <1>1 DEF Changing, Running
<1>7. ReadersInv'
  BY <1>1, <1>3, <1>4, <1>5, <1>6 DEF ReadersInv, Reading, TypeOK
<1>8. reader' = [q \in Readers |-> reader'[q]]
  BY <1>1
<1>9. CASE reader[r].value = Rejected
  <2>1. UNCHANGED <<cache, tainted>>
    BY <1>9 DEF Fill
  <2>2. /\ cache' = [j \in Keys |-> cache'[j]] /\ \A j \in Keys : cache'[j] # Rejected
        /\ tainted' \subseteq Keys /\ misses' \in 0..MaxMisses
    BY <1>1, <2>1 DEF TypeOK
  <2>3. \A j \in Keys : Absent(j)' \/ (cache'[j] = cache[j] /\ ~Absent(j))
    BY <2>1 DEF Absent
  <2>4. env = {} => tainted' = {}
    BY <2>1 DEF MatchInv
  <2> QED BY <1>1, <1>4, <1>7, <1>8, <2>2, <2>3, <2>4, Quiet
<1>10. CASE reader[r].value # Rejected
  <2>0. PICK k \in Keys : k = reader[r].key
    BY <1>2
  <2>1. /\ cache' = [j \in Keys |-> IF j = k THEN reader[r].value ELSE cache[j]]
        /\ tainted' = IF reader[r].overlaps THEN tainted \cup {k} ELSE tainted \ {k}
    BY <1>10, <2>0 DEF Fill, TypeOK
  <2>2. ~reader[r].overlaps => ~Changing /\ reader[r].value = View(k)
    BY <1>1, <2>0 DEF ReadersInv
  <2>3. env = {} => tainted' = {}
    BY <1>1, <2>1 DEF MatchInv, ReadersInv
  <2>4. \A j \in Keys : \/ Absent(j)' \/ (cache'[j] = cache[j] /\ ~Absent(j))
                        \/ cache'[j] = View(j) /\ ~Changing
    <3>1. \A j \in Keys \ {k} : cache'[j] = cache[j] /\ (j \in tainted' <=> j \in tainted)
      BY <2>1
    <3>2. k \in tainted' \/ (cache'[k] = View(k) /\ ~Changing)
      BY <2>1, <2>2
    <3>3. \A j \in Keys \ {k} : Absent(j)' \/ (cache'[j] = cache[j] /\ ~Absent(j))
      BY <3>1 DEF Absent
    <3>4. Absent(k)' \/ (cache'[k] = View(k) /\ ~Changing)
      BY <3>2 DEF Absent
    <3> QED BY <3>3, <3>4
  <2>5. cache' = [j \in Keys |-> cache'[j]] /\ \A j \in Keys : cache'[j] # Rejected
    BY <1>10, <2>1 DEF TypeOK
  <2>6. tainted' \subseteq Keys
    BY <2>1 DEF TypeOK
  <2> QED BY <1>1, <1>4, <1>7, <1>8, <2>3, <2>4, <2>5, <2>6, Quiet DEF TypeOK
<1> QED BY <1>9, <1>10

LEMMA ClearStep ==
  ASSUME CacheInv, UNCHANGED env, ClearCache
  PROVE  CacheInv'
<1> USE DEF CacheInv
<1>1. /\ cache' = [k \in Keys |-> NoEntry] /\ tainted' = {}
      /\ UNCHANGED <<store, reader, job, writes, misses, env>>
  BY DEF ClearCache
<1>2. ReadersInv'
  <2>1. \A j \in Keys : View(j)' = View(j)
    BY <1>1 DEF View, Installed, FilesOf
  <2>2. Changing' <=> Changing
    BY <1>1 DEF Changing, Running
  <2> QED BY <1>1, <2>1, <2>2 DEF ReadersInv, Reading, TypeOK
<1>3. /\ cache' = [j \in Keys |-> cache'[j]] /\ \A j \in Keys : cache'[j] = NoEntry
      /\ tainted' \subseteq Keys /\ misses' \in 0..MaxMisses
      /\ reader' = [r \in Readers |-> reader'[r]] /\ \A r \in Readers : reader'[r].key \in Keys
  BY <1>1 DEF TypeOK
<1>4. \A j \in Keys : Absent(j)' /\ cache'[j] # Rejected
  BY <1>3, LibraryCacheAssumption DEF Absent
<1> QED BY <1>1, <1>2, <1>3, <1>4, Quiet

-----------------------------------------------------------------------------
(* Steps that delete keys *)

\* What CacheInv says of a change.
LEMMA JobFacts ==
  ASSUME CacheInv, NEW w \in Writers
  PROVE  job[w] \in Job /\ JobInv(w)
BY DEF CacheInv, TypeOK

\* A change that goes on with step pc.
LEMMA GoToStep ==
  ASSUME CacheInv, NEW w \in Writers, NEW pc \in Control, GoTo(w, pc), Running(w),
         pc # "idle" => (pc \in Restricting <=> job[w].pc \in Restricting),
         UNCHANGED <<env, writes, misses>>
  PROVE  \E y \in Job :
           /\ Becomes(w, y)
           /\ job'[w] = y /\ \A v \in Writers \ {w} : job'[v] = job[v]
           /\ pc = "idle" => y = IdleJob
           /\ pc # "idle" => /\ y.pc = pc
                             /\ y.lib = job[w].lib /\ y.patch = job[w].patch
                             /\ y.files = job[w].files /\ y.needs = job[w].needs
                             /\ y.adding = job[w].adding /\ y.copy = job[w].copy
                             /\ y.keys = job[w].keys /\ y.restrict = job[w].restrict
                             /\ y.meta = job[w].meta
<1>1. CASE pc = "idle"
  <2>1. IdleJob \in Job /\ IdleJob.pc = "idle"
    BY IdleHasType
  <2>2. job' = [job EXCEPT ![w] = IdleJob]
    BY <1>1 DEF GoTo
  <2>3. Becomes(w, IdleJob)
    BY <2>1, <2>2 DEF Becomes
  <2> QED BY <1>1, <2>1, <2>3, Others DEF CacheInv
<1>2. CASE pc # "idle"
  <2> DEFINE y == [job[w] EXCEPT !.pc = pc]
  <2>1. job' = [job EXCEPT ![w] = y]
    BY <1>2 DEF GoTo
  <2>2. y \in Job
    BY JobFacts DEF Job
  <2>3. /\ y.pc = pc
        /\ y.lib = job[w].lib /\ y.patch = job[w].patch
        /\ y.files = job[w].files /\ y.needs = job[w].needs
        /\ y.adding = job[w].adding /\ y.copy = job[w].copy
        /\ y.keys = job[w].keys /\ y.restrict = job[w].restrict
        /\ y.meta = job[w].meta
    BY JobFacts DEF Job
  <2> HIDE DEF y
  <2>4. Becomes(w, y)
    BY <2>1, <2>3 DEF Becomes
  <2> QED BY <1>2, <2>2, <2>3, <2>4, Others DEF CacheInv
<1> QED BY <1>1, <1>2

\* DeleteKey where the changes use it.
LEMMA DeleteKeyStep ==
  ASSUME CacheInv, UNCHANGED env, NEW w \in Writers, NEW at, NEW k, NEW next,
         DeleteKey(w, at, k, next),
         \/ at = "addNames" /\ k = Names /\ next = "addAddons"
         \/ at = "addAddons" /\ k = AddonList /\ next = "addInstalled"
         \/ at = "addInstalled" /\ k = Key("isInstalled", job[w].lib) /\ next = "addNamesOf"
         \/ at = "addNamesOf" /\ k = NamesOf /\ next = "addFileList"
         \/ at = "addFileList" /\ k = Key("fileList", job[w].lib) /\ next = "awaitAdd"
         \/ at = "updMetadata" /\ k = Key("metadata", job[w].lib) /\ next = "updNames"
         \/ at = "updNames" /\ k = Names /\ next = "updAddons"
         \/ at = "updAddons" /\ k = AddonList /\ next = "updNamesOf"
         \/ at = "updNamesOf" /\ k = NamesOf /\ next = "listFiles"
         \/ at = "clearFileList" /\ k = Key("fileList", job[w].lib) /\ next = "clearKeys"
         \/ at = "restrictMetadata" /\ k = Key("metadata", job[w].lib) /\ next = "idle"
  PROVE  CacheInv'
<1>1. /\ job[w].pc = at /\ next \in Control /\ at # "idle" /\ GoTo(w, next)
      /\ next # "idle" => (next \in Restricting <=> job[w].pc \in Restricting)
      /\ UNCHANGED <<store, reader, writes, misses, env>>
  BY DEF DeleteKey, Control, Adding, Updating, Clearing, Restricting
<1>2. job[w].lib \in Libraries /\ JobInv(w) /\ job[w] \in Job
  BY <1>1, JobFacts DEF JobInv
<1>3. k \in Keys
  BY <1>2, KeyKinds DEF PerLibrary
<1>4. PICK y \in Job :
        /\ Becomes(w, y)
        /\ job'[w] = y
        /\ next = "idle" => y = IdleJob
        /\ next # "idle" => /\ y.pc = next
                            /\ y.lib = job[w].lib /\ y.patch = job[w].patch
                            /\ y.adding = job[w].adding /\ y.copy = job[w].copy
                            /\ y.keys = job[w].keys
  BY <1>1, GoToStep DEF Running
<1>5. /\ cache' = [i \in Keys |-> IF i \in {k} THEN NoEntry ELSE cache[i]]
      /\ tainted' = tainted \ {k}
  BY DEF DeleteKey, CacheInv, TypeOK
<1>6. y.pc = next
  BY <1>4, IdleHasType
<1>7. JobInv(w)'
  <2>1. CASE next = "idle"
    BY <2>1, <1>4, IdleHasType DEF JobInv, Installing, Adding, Updating, Clearing
  <2>2. CASE next # "idle"
    BY <2>2, <1>1, <1>2, <1>4 DEF JobInv, Installing, Adding, Updating, Clearing
  <2> QED BY <2>1, <2>2
<1>8. Due(job[w]) \subseteq Due(y) \cup {k}
  <2>1. CASE next = "idle"
    BY <2>1, <1>1, <1>2 DEF Due, JobInv
  <2>2. CASE next # "idle"
    BY <2>2, <1>1, <1>2, <1>4 DEF Due, JobInv
  <2> QED BY <2>1, <2>2
<1>9. Gone(y) \subseteq Gone(job[w]) \cup {k}
  <2>1. CASE next = "idle"
    BY <2>1, <1>6 DEF Gone, Adding
  <2>2. CASE next # "idle"
    BY <2>2, <1>1, <1>2, <1>4 DEF Gone, Adding
  <2> QED BY <2>1, <2>2
<1>10. /\ job[w].pc \in Replacing => y.pc \in Replacing
       /\ y.pc # "writeMeta" /\ job[w].pc # "deleteKeys"
  BY <1>1, <1>6 DEF Replacing
<1>11. /\ y.adding => job[w].adding
       /\ (y.pc \in Adding /\ ~y.adding) \/ y.pc \in Replacing \cup Copying =>
           /\ (job[w].pc \in Adding /\ ~job[w].adding) \/ job[w].pc \in Replacing \cup Copying
           /\ y.patch = job[w].patch
  <2>1. CASE next = "idle"
    BY <2>1, <1>4, IdleHasType DEF Adding, Replacing, Copying
  <2>2. CASE next # "idle"
    BY <2>2, <1>1, <1>4 DEF Adding, Replacing, Copying
  <2> QED BY <2>1, <2>2
<1>12. PICK K \in SUBSET Keys : K = {k}
  BY <1>3
<1>13. UNCHANGED <<store, reader>> /\ Running(w)
  BY <1>1 DEF Running
<1> QED
  BY <1>4, <1>5, <1>7, <1>8, <1>9, <1>10, <1>11, <1>12, <1>13, Invalidation

\* A step of w that touches neither the storage nor the cache.
LEMMA Local ==
  ASSUME CacheInv, NEW w \in Writers, NEW y \in Job, Becomes(w, y), Running(w),
         UNCHANGED <<store, cache, tainted, reader>>,
         JobInv(w)',
         Due(job[w]) \subseteq Due(y), Gone(y) \subseteq Gone(job[w]),
         job[w].pc = "deleteKeys" => job[w].keys = {},
         y.pc = "writeMeta" => y.meta[1] = store[y.lib].patch,
         job[w].pc \in Replacing => y.pc \in Replacing \/ ~Installed(job[w].lib),
         y.adding => job[w].adding,
         (y.pc \in Adding /\ ~y.adding) \/ y.pc \in Replacing \cup Copying =>
           /\ (job[w].pc \in Adding /\ ~job[w].adding) \/ job[w].pc \in Replacing \cup Copying
           /\ y.patch = job[w].patch
  PROVE  CacheInv'
<1>1. PICK K \in SUBSET Keys : K = {}
  OBVIOUS
<1>2. cache' = [k \in Keys |-> IF k \in K THEN NoEntry ELSE cache[k]] /\ tainted' = tainted \ K
  BY <1>1 DEF CacheInv, TypeOK
<1>3. UNCHANGED <<store, reader>>
  OBVIOUS
<1>4. Due(job[w]) \subseteq Due(y) \cup K /\ Gone(y) \subseteq Gone(job[w]) \cup K
  OBVIOUS
<1>5. job[w].pc = "deleteKeys" => \A k \in job[w].keys \ K : y.pc = "deleteKeys" /\ k \in y.keys
  OBVIOUS
<1> QED BY <1>2, <1>3, <1>4, <1>5, Invalidation

\* DeleteKeys where the changes use it.
LEMMA DeleteKeysStep ==
  ASSUME CacheInv, UNCHANGED env, NEW w \in Writers, NEW at, NEW next, DeleteKeys(w, at, next),
         \/ at = "clearKeys" /\ next = "copy"
         \/ at = "deleteKeys" /\ next = "idle"
  PROVE  CacheInv'
<1>1. /\ job[w].pc = at /\ Running(w)
      /\ UNCHANGED <<store, reader, writes, misses, env>>
  BY DEF DeleteKeys, Running
<1>2. job[w] \in Job /\ JobInv(w) /\ job[w].keys \subseteq Keys
  BY JobFacts DEF Job
<1>3. ASSUME NEW k \in job[w].keys, cache' = [cache EXCEPT ![k] = NoEntry],
             tainted' = tainted \ {k}, job' = [job EXCEPT ![w].keys = @ \ {k}]
      PROVE  CacheInv'
  <2> DEFINE y == [job[w] EXCEPT !.keys = @ \ {k}]
  <2>1. y \in Job /\ job' = [job EXCEPT ![w] = y]
    BY <1>2, <1>3 DEF Job, CacheInv, TypeOK
  <2>2. /\ y.pc = at /\ y.lib = job[w].lib /\ y.patch = job[w].patch
        /\ y.adding = job[w].adding /\ y.copy = job[w].copy /\ y.keys = job[w].keys \ {k}
    BY <1>1, <1>2 DEF Job
  <2> HIDE DEF y
  <2>3. Becomes(w, y)
    BY <1>1, <2>1, <2>2 DEF Becomes
  <2>4. job'[w] = y
    BY <2>1, <2>3, Others DEF CacheInv
  <2>5. PICK K \in SUBSET Keys : K = {k}
    BY <1>2
  <2>6. /\ cache' = [i \in Keys |-> IF i \in K THEN NoEntry ELSE cache[i]]
        /\ tainted' = tainted \ K
    BY <1>3, <2>5 DEF CacheInv, TypeOK
  <2>7. JobInv(w)'
    BY <1>1, <1>2, <2>2, <2>4 DEF JobInv, Installing, Adding, Updating, Clearing
  <2>8. Due(job[w]) \subseteq Due(y) \cup K
    BY <1>1, <1>2, <2>2, <2>5 DEF Due, JobInv
  <2>9. Gone(y) \subseteq Gone(job[w]) \cup K
    BY <1>1, <2>2 DEF Gone
  <2>10. job[w].pc = "deleteKeys" =>
           \A i \in job[w].keys \ K : y.pc = "deleteKeys" /\ i \in y.keys
    BY <1>1, <2>2, <2>5
  <2>11. /\ job[w].pc \notin Replacing /\ y.pc # "writeMeta"
         /\ (y.pc \in Adding /\ ~y.adding) \/ y.pc \in Replacing \cup Copying =>
              /\ (job[w].pc \in Adding /\ ~job[w].adding) \/ job[w].pc \in Replacing \cup Copying
              /\ y.patch = job[w].patch
    BY <1>1, <2>2 DEF Replacing
  <2> QED
    BY <1>1, <2>1, <2>2, <2>3, <2>6, <2>7, <2>8, <2>9, <2>10, <2>11, Invalidation
<1>4. ASSUME job[w].keys = {}, GoTo(w, next), UNCHANGED <<cache, tainted>>
      PROVE  CacheInv'
  <2>1. /\ next \in Control
        /\ next # "idle" => (next \in Restricting <=> job[w].pc \in Restricting)
    BY <1>1 DEF Control, Restricting
  <2>2. PICK y \in Job :
          /\ Becomes(w, y)
          /\ job'[w] = y
          /\ next = "idle" => y = IdleJob
          /\ next # "idle" => /\ y.pc = next
                              /\ y.lib = job[w].lib /\ y.patch = job[w].patch
                              /\ y.adding = job[w].adding /\ y.copy = job[w].copy
                              /\ y.keys = job[w].keys
    BY <1>1, <1>4, <2>1, GoToStep
  <2>3. y.pc = next /\ y.keys = {} /\ ~y.adding /\ \A f \in Files : y.copy[f] = "none"
    BY <1>1, <1>2, <1>4, <2>2, IdleHasType DEF JobInv, Adding
  <2>4. JobInv(w)'
    BY <1>1, <1>2, <2>2, <2>3 DEF JobInv, Installing, Adding, Updating, Clearing
  <2>5. Due(job[w]) = {}
    BY <1>1, <1>2, <1>4 DEF Due, JobInv
  <2>6. Gone(y) \subseteq Gone(job[w])
    BY <1>1, <2>2, <2>3 DEF Gone, Adding
  <2>7. /\ job[w].pc \notin Replacing /\ y.pc # "writeMeta"
        /\ (y.pc \in Adding /\ ~y.adding) \/ y.pc \in Replacing \cup Copying =>
             /\ (job[w].pc \in Adding /\ ~job[w].adding) \/ job[w].pc \in Replacing \cup Copying
             /\ y.patch = job[w].patch
    BY <1>1, <2>2, <2>3 DEF Replacing, Copying, Adding
  <2> QED BY <1>1, <1>4, <2>2, <2>3, <2>4, <2>5, <2>6, <2>7, Local
<1> QED BY <1>3, <1>4 DEF DeleteKeys

\* Steps that only go on.
LEMMA GoesOn ==
  ASSUME CacheInv, NEW w \in Writers, NEW next, GoTo(w, next),
         UNCHANGED <<store, cache, tainted, reader, writes, misses, env>>,
         \/ job[w].pc = "awaitAdd" /\ ~job[w].adding /\ next = "copy"
         \/ job[w].pc = "update" /\ next = "listDeleted"
         \/ job[w].pc = "listFiles" /\ ~Installed(job[w].lib) /\ next = "idle"
         \/ job[w].pc \in {"listDeleted", "readMeta", "writeMeta"} /\ next = "idle"
         \/ job[w].pc = "readMeta" /\ next = "restrictMetadata"
  PROVE  CacheInv'
<1>1. /\ Running(w) /\ next \in Control
      /\ next # "idle" => (next \in Restricting <=> job[w].pc \in Restricting)
  BY DEF Running, Control, Adding, Updating, Clearing, Deleting, Restricting
<1>2. job[w] \in Job /\ JobInv(w)
  BY JobFacts
<1>3. PICK y \in Job :
        /\ Becomes(w, y)
        /\ job'[w] = y
        /\ next = "idle" => y = IdleJob
        /\ next # "idle" => /\ y.pc = next
                            /\ y.lib = job[w].lib /\ y.patch = job[w].patch
                            /\ y.adding = job[w].adding /\ y.copy = job[w].copy
                            /\ y.keys = job[w].keys
  BY <1>1, GoToStep
<1>4. y.pc = next /\ \A f \in Files : y.copy[f] = "none"
  BY <1>2, <1>3, IdleHasType DEF JobInv
<1>5. ~y.adding
  BY <1>2, <1>3, IdleHasType DEF JobInv, Adding
<1>6. JobInv(w)'
  BY <1>2, <1>3, <1>4, <1>5 DEF JobInv, Installing, Adding, Updating, Clearing, Deleting
<1>7. Due(job[w]) = {}
  BY <1>2 DEF Due, JobInv
<1>8. Gone(y) \subseteq Gone(job[w])
  <2>1. CASE next = "copy"
    BY <2>1, <1>3, <1>4 DEF Gone, Adding
  <2>2. CASE next # "copy"
    BY <2>2, <1>4 DEF Gone, Adding
  <2> QED BY <2>1, <2>2
<1>9. /\ job[w].pc # "deleteKeys" /\ y.pc # "writeMeta"
      /\ job[w].pc \in Replacing => y.pc \in Replacing \/ ~Installed(job[w].lib)
      /\ (y.pc \in Adding /\ ~y.adding) \/ y.pc \in Replacing \cup Copying =>
           /\ (job[w].pc \in Adding /\ ~job[w].adding) \/ job[w].pc \in Replacing \cup Copying
           /\ y.patch = job[w].patch
  BY <1>3, <1>4 DEF Replacing, Copying, Adding
<1> QED BY <1>1, <1>3, <1>5, <1>6, <1>7, <1>8, <1>9, Local

LEMMA AwaitAddStep ==
  ASSUME CacheInv, UNCHANGED env, NEW w \in Writers, AwaitAdd(w)
  PROVE  CacheInv'
BY GoesOn DEF AwaitAdd

LEMMA ListFilesStep ==
  ASSUME CacheInv, UNCHANGED env, NEW w \in Writers, NEW at, NEW next, ListFiles(w, at, next),
         \/ at = "listFiles" /\ next = "clear"
         \/ at = "listDeleted" /\ next = "remove"
  PROVE  CacheInv'
<1>1. /\ job[w].pc = at /\ Running(w)
      /\ UNCHANGED <<store, cache, tainted, reader, writes, misses, env>>
  BY DEF ListFiles, Running
<1>2. job[w] \in Job /\ JobInv(w) /\ job[w].lib \in Libraries
  BY <1>1, JobFacts DEF JobInv
<1>3. CASE ~Installed(job[w].lib)
  BY <1>1, <1>3, GoesOn DEF ListFiles
<1>4. CASE Installed(job[w].lib)
  <2> DEFINE y == [job[w] EXCEPT !.pc = next, !.keys = KeysOf(job[w].lib, FilesOf(job[w].lib))]
  <2>1. KeysOf(job[w].lib, FilesOf(job[w].lib)) \subseteq Keys
    BY <1>2, KeyKinds DEF KeysOf, FilesOf
  <2>2. y \in Job
    BY <1>2, <2>1 DEF Job, Control, Clearing, Deleting
  <2>3. job' = [job EXCEPT ![w] = y]
    BY <1>4 DEF ListFiles, CacheInv, TypeOK
  <2>4. /\ y.pc = next /\ y.lib = job[w].lib /\ y.patch = job[w].patch
        /\ y.adding = job[w].adding /\ y.copy = job[w].copy
        /\ y.keys = KeysOf(job[w].lib, FilesOf(job[w].lib))
    BY <1>2 DEF Job
  <2> HIDE DEF y
  <2>5. Becomes(w, y)
    BY <1>1, <2>3, <2>4 DEF Becomes, Restricting
  <2>6. job'[w] = y
    BY <2>2, <2>5, Others DEF CacheInv
  <2>7. JobInv(w)'
    <3>1. (job[w].keys = KeysOf(job[w].lib, FilesOf(job[w].lib)))'
      BY <1>1, <2>4, <2>6 DEF KeysOf, FilesOf
    <3> QED BY <1>1, <1>2, <2>4, <2>6, <3>1 DEF JobInv, Installing, Adding, Updating, Clearing
  <2>8. Due(job[w]) = {}
    BY <1>1, <1>2 DEF Due, JobInv
  <2>9. Gone(y) = {}
    BY <2>4 DEF Gone, Adding
  <2>10. /\ job[w].pc # "deleteKeys" /\ y.pc # "writeMeta"
         /\ job[w].pc \in Replacing => y.pc \in Replacing
         /\ (y.pc \in Adding /\ ~y.adding) \/ y.pc \in Replacing \cup Copying =>
              /\ (job[w].pc \in Adding /\ ~job[w].adding) \/ job[w].pc \in Replacing \cup Copying
              /\ y.patch = job[w].patch
    BY <1>1, <2>4 DEF Replacing, Copying, Adding
  <2> QED BY <1>1, <2>2, <2>4, <2>5, <2>7, <2>8, <2>9, <2>10, Local
<1> QED BY <1>3, <1>4

LEMMA StartCopiesStep ==
  ASSUME CacheInv, UNCHANGED env, NEW w \in Writers, StartCopies(w)
  PROVE  CacheInv'
<1>1. /\ job[w].pc = "copy" /\ Running(w)
      /\ UNCHANGED <<store, cache, tainted, reader, writes, misses, env>>
  BY DEF StartCopies, Running
<1>2. job[w] \in Job /\ JobInv(w) /\ job[w].lib \in Libraries
  BY <1>1, JobFacts DEF JobInv
<1> DEFINE copy == [f \in Files |-> IF f \in job[w].files THEN "write" ELSE "none"]
           y == [job[w] EXCEPT !.pc = "check", !.copy = copy]
<1>3. y \in Job /\ job' = [job EXCEPT ![w] = y]
  BY <1>2 DEF Job, Control, StartCopies, CacheInv, TypeOK
<1>4. /\ y.pc = "check" /\ y.lib = job[w].lib /\ y.patch = job[w].patch
      /\ y.adding = job[w].adding /\ y.keys = job[w].keys
      /\ \A f \in Files : y.copy[f] # "del"
      /\ y.files = job[w].files /\ \A f \in y.files : y.copy[f] = "write"
  BY <1>2 DEF Job
<1> HIDE DEF y
<1>5. Becomes(w, y)
  BY <1>1, <1>3, <1>4 DEF Becomes, Restricting
<1>6. job'[w] = y
  BY <1>3, <1>5, Others DEF CacheInv
<1>7. JobInv(w)'
  BY <1>1, <1>2, <1>4, <1>6 DEF JobInv, Installing, Adding, Updating, Clearing
<1>8. Due(job[w]) = {}
  BY <1>1, <1>2 DEF Due, JobInv
<1>9. Gone(y) \subseteq Gone(job[w])
  BY <1>1, <1>4 DEF Gone, Adding
<1>10. /\ job[w].pc # "deleteKeys" /\ y.pc # "writeMeta"
       /\ job[w].pc \notin Replacing
       /\ (y.pc \in Adding /\ ~y.adding) \/ y.pc \in Replacing \cup Copying =>
            /\ (job[w].pc \in Adding /\ ~job[w].adding) \/ job[w].pc \in Replacing \cup Copying
            /\ y.patch = job[w].patch
  BY <1>1, <1>4 DEF Replacing, Copying, Adding
<1> QED BY <1>1, <1>3, <1>4, <1>5, <1>7, <1>8, <1>9, <1>10, Local

LEMMA DeleteFileCacheStep ==
  ASSUME CacheInv, UNCHANGED env, NEW w \in Writers, NEW f \in Files, DeleteFileCache(w, f)
  PROVE  CacheInv'
<1>1. /\ job[w].pc = "check" /\ Running(w)
      /\ UNCHANGED <<store, reader, writes, misses, env>>
  BY JobFacts DEF DeleteFileCache, Running, JobInv
<1>2. job[w] \in Job /\ JobInv(w) /\ job[w].lib \in Libraries
  BY <1>1, JobFacts DEF JobInv
<1> DEFINE y == [job[w] EXCEPT !.copy[f] = "none"]
<1>3. y \in Job /\ job' = [job EXCEPT ![w] = y]
  BY <1>2 DEF Job, DeleteFileCache, CacheInv, TypeOK
<1>4. /\ y.pc = "check" /\ y.lib = job[w].lib /\ y.patch = job[w].patch
      /\ y.adding = job[w].adding /\ y.keys = job[w].keys
      /\ y.files = job[w].files /\ \A g \in Files \ {f} : y.copy[g] = job[w].copy[g]
  BY <1>1, <1>2 DEF Job
<1> HIDE DEF y
<1>5. Becomes(w, y)
  BY <1>1, <1>3, <1>4 DEF Becomes, Restricting
<1>6. job'[w] = y
  BY <1>3, <1>5, Others DEF CacheInv
<1>7. PICK K \in SUBSET Keys : K = {FileKey(job[w].lib, f)}
  BY <1>2, KeyKinds
<1>8. cache' = [k \in Keys |-> IF k \in K THEN NoEntry ELSE cache[k]] /\ tainted' = tainted \ K
  BY <1>7 DEF DeleteFileCache, CacheInv, TypeOK
<1>9. JobInv(w)'
  <2>1. \A g \in y.files : y.copy[g] = "write" \/ store[y.lib].file[g] # 0
    BY <1>1, <1>2, <1>4 DEF JobInv, DeleteFileCache, Job
  <2> QED
    BY <1>1, <1>2, <1>4, <1>6, <2>1 DEF JobInv, Installing, Adding, Updating, Clearing
<1>10. Due(job[w]) \subseteq Due(y) \cup K
  BY <1>1, <1>4, <1>7 DEF Due
<1>11. Gone(y) \subseteq Gone(job[w]) \cup K
  BY <1>1, <1>4 DEF Gone, Adding
<1>12. /\ job[w].pc # "deleteKeys" /\ y.pc # "writeMeta"
       /\ job[w].pc \notin Replacing
       /\ (y.pc \in Adding /\ ~y.adding) \/ y.pc \in Replacing \cup Copying =>
            /\ (job[w].pc \in Adding /\ ~job[w].adding) \/ job[w].pc \in Replacing \cup Copying
            /\ y.patch = job[w].patch
  BY <1>1, <1>4 DEF Replacing, Copying, Adding
<1> QED BY <1>1, <1>3, <1>4, <1>5, <1>8, <1>9, <1>10, <1>11, <1>12, Invalidation

LEMMA ReadMetadataStep ==
  ASSUME CacheInv, UNCHANGED env, NEW w \in Writers, ReadMetadata(w)
  PROVE  CacheInv'
<1>1. /\ job[w].pc = "readMeta" /\ Running(w)
      /\ UNCHANGED <<store, cache, tainted, reader, writes, misses, env>>
  BY DEF ReadMetadata, Running
<1>2. job[w] \in Job /\ JobInv(w) /\ job[w].lib \in Libraries
  BY <1>1, JobFacts DEF JobInv
<1>3. CASE GoTo(w, "idle") \/ GoTo(w, "restrictMetadata")
  BY <1>1, <1>3, GoesOn
<1>4. ASSUME Installed(job[w].lib),
             job' = [job EXCEPT ![w].pc = "writeMeta",
                                ![w].meta = <<store[job[w].lib].patch, job[w].restrict>>]
      PROVE  CacheInv'
  <2> DEFINE meta == <<store[job[w].lib].patch, job[w].restrict>>
             y == [job[w] EXCEPT !.pc = "writeMeta", !.meta = meta]
  <2>1. store[job[w].lib].patch \in Patch /\ job[w].restrict \in BOOLEAN
    BY <1>2 DEF CacheInv, TypeOK, Library, Job
  <2>2. y \in Job
    BY <1>2, <2>1 DEF Job, Control, Restricting
  <2>3. job' = [job EXCEPT ![w] = y]
    BY <1>4 DEF CacheInv, TypeOK
  <2>4. /\ y.pc = "writeMeta" /\ y.lib = job[w].lib /\ y.patch = job[w].patch
        /\ y.adding = job[w].adding /\ y.copy = job[w].copy /\ y.keys = job[w].keys
        /\ y.meta[1] = store[job[w].lib].patch
    BY <1>2 DEF Job
  <2> HIDE DEF y
  <2>5. Becomes(w, y)
    BY <1>1, <2>3, <2>4 DEF Becomes, Restricting
  <2>6. job'[w] = y
    BY <2>2, <2>5, Others DEF CacheInv
  <2>7. JobInv(w)'
    BY <1>1, <1>2, <1>4, <2>4, <2>6
    DEF JobInv, Installing, Adding, Updating, Clearing, Installed
  <2>8. Due(job[w]) = {}
    BY <1>1, <1>2 DEF Due, JobInv
  <2>9. Gone(y) = {}
    BY <2>4 DEF Gone, Adding
  <2>10. /\ job[w].pc # "deleteKeys"
         /\ job[w].pc \notin Replacing
         /\ y.pc \notin Adding \cup Replacing \cup Copying
    BY <1>1, <2>4 DEF Replacing, Copying, Adding
  <2> QED BY <1>1, <2>2, <2>4, <2>5, <2>7, <2>8, <2>9, <2>10, Local
<1> QED BY <1>3, <1>4 DEF ReadMetadata

-----------------------------------------------------------------------------
(* Steps that change the storage *)

LEMMA StorageAddStep ==
  ASSUME CacheInv, UNCHANGED env, NEW w \in Writers, StorageAdd(w)
  PROVE  CacheInv'
<1>1. /\ job[w].adding /\ job[w].pc \in Adding
      /\ job[w] \in Job /\ JobInv(w) /\ Running(w)
      /\ UNCHANGED <<cache, tainted, reader, writes, misses, env>>
  BY JobFacts DEF StorageAdd, JobInv, Running, Adding
<1>2. PICK l \in Libraries : l = job[w].lib
  BY <1>1 DEF JobInv, Running
<1> DEFINE y == [job[w] EXCEPT !.adding = FALSE]
           s == [store[l] EXCEPT !.patch = job[w].patch, !.restricted = FALSE]
<1>3. y \in Job /\ job' = [job EXCEPT ![w] = y]
  BY <1>1 DEF Job, StorageAdd, CacheInv, TypeOK
<1>4. s \in Library /\ store' = [store EXCEPT ![l] = s]
  <2>1. job[w].patch \in Patch /\ store[l] \in Library
    BY <1>1 DEF Job, CacheInv, TypeOK
  <2>2. s \in Library
    BY <2>1 DEF Library
  <2> QED BY <1>1, <1>2, <2>2 DEF StorageAdd, WriteLibrary, CacheInv, TypeOK
<1>5. /\ y.pc = job[w].pc /\ y.lib = l /\ y.patch = job[w].patch
      /\ ~y.adding /\ y.keys = job[w].keys /\ y.copy = job[w].copy
  BY <1>1, <1>2 DEF Job
<1>6. s.patch = job[w].patch /\ s.file = store[l].file
  BY DEF CacheInv, TypeOK, Library
<1> HIDE DEF y, s
<1>7. Becomes(w, y)
  BY <1>1, <1>2, <1>3, <1>5 DEF Becomes
<1>8. job'[w] = y /\ store'[l] = s /\ \A i \in Libraries \ {l} : store'[i] = store[i]
  BY <1>3, <1>4, <1>7, Others DEF CacheInv, TypeOK
<1>9. JobInv(w)'
  BY <1>1, <1>2, <1>5, <1>8 DEF JobInv, Installing, Adding, Updating, Clearing
<1>10. Due(job[w]) \subseteq Due(y) /\ Gone(y) \subseteq Gone(job[w])
  BY <1>2, <1>5 DEF Due, Gone
<1>11. {Names, NamesOf, AddonList} \subseteq Due(y) \cup Gone(job[w])
  BY <1>1, <1>5, KeyKinds DEF Due, Gone, Adding
<1>12. /\ Key("metadata", l) \in Gone(job[w])
       /\ Key("isInstalled", l) \in Due(y) \cup Gone(job[w])
       /\ Key("fileList", l) \in Due(y) \cup Gone(job[w])
  <2>1. Key("metadata", l) \in Keys /\ Key("isInstalled", l) \in Keys /\ Key("fileList", l) \in Keys
    BY KeyKinds DEF PerLibrary
  <2> QED BY <1>1, <1>2, <1>5, <2>1 DEF Due, Gone, Adding
<1>13. \A k \in Gone(job[w]) : Absent(k)
  BY DEF CacheInv, DeletedStays
<1>14. ASSUME NEW k \in Keys, View(k)' # View(k), k[1] # "languages"
       PROVE  k \in Due(y) \/ Absent(k)
  <2>1. FilesOf(l)' = FilesOf(l) /\ \A f \in Files : store'[l].file[f] = store[l].file[f]
    BY <1>6, <1>8 DEF FilesOf
  <2> QED BY <1>8, <1>11, <1>12, <1>13, <1>14, <2>1, ViewChanges, LibraryCacheAssumption
<1>15. s.patch # 0
  BY <1>1, <1>6 DEF JobInv, Installing
<1>16. AddonList \in Due(y) \/ Absent(AddonList)
  BY <1>11, <1>13
<1>17. env = {} => \A f \in Files : s.file[f] \in {0, s.patch}
  <2> SUFFICES ASSUME env = {}, NEW f \in Files PROVE s.file[f] \in {0, s.patch}
    OBVIOUS
  <2>1. store[l].patch = 0
    BY <1>1, <1>2 DEF CacheInv, MatchInv, Installed
  <2>2. store[l].file[f] \in {0, store[l].patch}
    BY <1>1, FilesFit DEF Adding, Replacing
  <2> QED BY <1>6, <2>1, <2>2
<1>18. y.pc \notin {"idle", "writeMeta"} /\ job[w].pc # "deleteKeys" /\ job[w].pc \notin Restricting
  BY <1>1, <1>5 DEF Adding, Restricting
<1> QED
  BY <1>1, <1>2, <1>3, <1>4, <1>5, <1>6, <1>7, <1>9, <1>10, <1>14, <1>15, <1>16, <1>17, <1>18,
     Storing

LEMMA StorageUpdateStep ==
  ASSUME CacheInv, UNCHANGED env, NEW w \in Writers, StorageUpdate(w)
  PROVE  CacheInv'
<1>1. /\ job[w].pc = "update"
      /\ job[w] \in Job /\ JobInv(w) /\ Running(w)
      /\ UNCHANGED <<cache, tainted, reader, writes, misses, env>>
  BY JobFacts DEF StorageUpdate, Running
<1>2. PICK l \in Libraries : l = job[w].lib
  BY <1>1 DEF JobInv
<1>3. CASE ~Installed(l)
  BY <1>1, <1>2, <1>3, GoesOn DEF StorageUpdate
<1>4. CASE Installed(l)
  <2>1. GoTo(w, "updMetadata") /\ WriteLibrary(w)
    BY <1>2, <1>4 DEF StorageUpdate
  <2>2. "updMetadata" \in Control /\ job[w].pc \notin Restricting /\ "updMetadata" \notin Restricting
    BY <1>1 DEF Control, Updating, Restricting
  <2>3. PICK y \in Job :
          /\ Becomes(w, y) /\ job'[w] = y /\ job' = job'
          /\ y.pc = "updMetadata" /\ y.lib = job[w].lib /\ y.patch = job[w].patch
          /\ y.adding = job[w].adding /\ y.copy = job[w].copy /\ y.keys = job[w].keys
    BY <1>1, <2>1, <2>2, GoToStep
  <2> DEFINE s == [store[l] EXCEPT !.patch = job[w].patch, !.restricted = FALSE]
  <2>4. s \in Library /\ store' = [store EXCEPT ![l] = s]
    <3>1. job[w].patch \in Patch /\ store[l] \in Library
      BY <1>1 DEF Job, CacheInv, TypeOK
    <3>2. s \in Library
      BY <3>1 DEF Library
    <3> QED BY <1>1, <1>2, <2>1, <3>2 DEF WriteLibrary, CacheInv, TypeOK
  <2>5. s.patch = job[w].patch /\ s.file = store[l].file
    BY DEF CacheInv, TypeOK, Library
  <2> HIDE DEF s
  <2>6. store'[l] = s /\ \A i \in Libraries \ {l} : store'[i] = store[i]
    BY <2>4 DEF CacheInv, TypeOK
  <2>7. JobInv(w)'
    BY <1>1, <1>2, <2>3 DEF JobInv, Installing, Adding, Updating, Clearing
  <2>8. Due(job[w]) = {} /\ Gone(y) = {}
    BY <1>1, <2>3 DEF Due, Gone, JobInv, Adding
  <2>9. /\ AddonList \in Due(y) /\ Key("metadata", l) \in Due(y)
    BY <1>2, <2>3, KeyKinds DEF Due, PerLibrary
  <2>10. s.patch # 0
    BY <1>1, <2>5 DEF JobInv, Installing, Updating
  <2>11. ASSUME NEW k \in Keys, View(k)' # View(k), k[1] # "languages" PROVE k \in Due(y)
    <3>1. FilesOf(l)' = FilesOf(l) /\ \A f \in Files : store'[l].file[f] = store[l].file[f]
      BY <2>5, <2>6 DEF FilesOf
    <3>2. Installed(l)' /\ Installed(l)
      BY <1>4, <2>6, <2>10 DEF Installed
    <3> QED BY <2>6, <2>9, <2>11, <3>1, <3>2, ViewChanges, LibraryCacheAssumption
  <2>12. ~y.adding
    BY <1>1, <2>3 DEF JobInv, Adding
  <2>13. y.pc \in Replacing
    BY <2>3 DEF Replacing
  <2> QED
    BY <1>1, <1>2, <2>2, <2>3, <2>4, <2>5, <2>7, <2>8, <2>9, <2>10, <2>11, <2>12, <2>13, Storing
<1> QED BY <1>3, <1>4

LEMMA StorageClearStep ==
  ASSUME CacheInv, UNCHANGED env, NEW w \in Writers, StorageClear(w)
  PROVE  CacheInv'
<1>1. /\ job[w].pc = "clear" /\ GoTo(w, "clearFileList")
      /\ job[w] \in Job /\ JobInv(w) /\ Running(w)
      /\ UNCHANGED <<cache, tainted, reader, writes, misses, env>>
  BY JobFacts DEF StorageClear, Running
<1>2. PICK l \in Libraries : l = job[w].lib
  BY <1>1 DEF JobInv
<1>3. /\ "clearFileList" \in Control /\ job[w].pc \notin Restricting
      /\ "clearFileList" \notin Restricting
  BY <1>1 DEF Control, Clearing, Restricting
<1>4. PICK y \in Job :
        /\ Becomes(w, y) /\ job'[w] = y
        /\ y.pc = "clearFileList" /\ y.lib = job[w].lib /\ y.patch = job[w].patch
        /\ y.adding = job[w].adding /\ y.copy = job[w].copy /\ y.keys = job[w].keys
  BY <1>1, <1>3, GoToStep
<1> DEFINE s == [store[l] EXCEPT !.file = NoContent]
<1>5. s \in Library /\ store' = [store EXCEPT ![l] = s]
  <2>1. NoContent \in [Files -> Patch] /\ store[l] \in Library
    BY LibraryCacheAssumption DEF NoContent, Patch, CacheInv, TypeOK
  <2>2. s \in Library
    BY <2>1 DEF Library
  <2> QED BY <1>1, <1>2, <2>2 DEF StorageClear, CacheInv, TypeOK, Library
<1>6. s.patch = store[l].patch /\ s.restricted = store[l].restricted /\ s.file = NoContent
  BY DEF CacheInv, TypeOK, Library
<1> HIDE DEF s
<1>7. store'[l] = s /\ \A i \in Libraries \ {l} : store'[i] = store[i]
  BY <1>5 DEF CacheInv, TypeOK
<1>8. \A f \in Files : s.file[f] = 0
  BY <1>6 DEF NoContent
<1>9. JobInv(w)'
  BY <1>1, <1>2, <1>4 DEF JobInv, Installing, Adding, Updating, Clearing
<1>10. Due(job[w]) = {} /\ Gone(y) = {}
  BY <1>1, <1>4 DEF Due, Gone, JobInv, Adding
<1>11. Key("fileList", l) \in Due(y)
  BY <1>2, <1>4, KeyKinds DEF Due, PerLibrary
<1>12. \A f \in FilesOf(l) : FileKey(l, f) \in Due(y)
  BY <1>1, <1>2, <1>4, KeyKinds DEF Due, JobInv, KeysOf, FilesOf
<1>13. ASSUME NEW k \in Keys, View(k)' # View(k), k[1] # "languages" PROVE k \in Due(y)
  <2>1. Installed(l)' = Installed(l)
    BY <1>6, <1>7 DEF Installed
  <2>2. \A f \in Files : store'[l].file[f] # store[l].file[f] => f \in FilesOf(l)
    BY <1>7, <1>8 DEF FilesOf
  <2> QED BY <1>6, <1>7, <1>11, <1>12, <1>13, <2>1, <2>2, ViewChanges, LibraryCacheAssumption
<1>14. ~y.adding /\ y.pc \notin {"idle", "writeMeta"} /\ job[w].pc # "deleteKeys"
  BY <1>1, <1>4 DEF JobInv, Adding
<1>15. env = {} => s.patch = y.patch
  BY <1>1, <1>2, <1>4, <1>6 DEF CacheInv, MatchInv, Replacing
<1> QED
  BY <1>1, <1>2, <1>3, <1>4, <1>5, <1>6, <1>8, <1>9, <1>10, <1>13, <1>14, <1>15, Storing

LEMMA StorageRemoveStep ==
  ASSUME CacheInv, UNCHANGED env, NEW w \in Writers, StorageRemove(w)
  PROVE  CacheInv'
<1>1. /\ job[w].pc = "remove"
      /\ job[w] \in Job /\ JobInv(w) /\ Running(w)
      /\ UNCHANGED <<cache, tainted, reader, writes, misses, env>>
  BY JobFacts DEF StorageRemove, Running
<1>2. PICK l \in Libraries : l = job[w].lib
  BY <1>1 DEF JobInv
<1> DEFINE keys == job[w].keys \cup {Key(u, job[w].lib) : u \in PerLibrary} \cup {Names, NamesOf, AddonList}
           y == [job[w] EXCEPT !.pc = "deleteKeys", !.keys = keys]
           s == NotInstalled
<1>3. keys \subseteq Keys
  BY <1>1, <1>2, KeyKinds DEF Job
<1>4. y \in Job
  BY <1>1, <1>3 DEF Job, Control, Deleting
<1>5. job' = [job EXCEPT ![w] = y] /\ store' = [store EXCEPT ![l] = s]
  <2>1. store' = [store EXCEPT ![l] = s]
    BY <1>2 DEF StorageRemove
  <2>2. job' = [job EXCEPT ![w] = [job[w] EXCEPT !.pc = "deleteKeys",
          !.keys = job[w].keys \cup {Key(u, job[w].lib) : u \in PerLibrary} \cup {Names, NamesOf, AddonList}]]
    BY DEF StorageRemove
  <2> QED BY <2>1, <2>2
<1>6. /\ y.pc = "deleteKeys" /\ y.lib = l /\ y.patch = job[w].patch /\ y.keys = keys
      /\ y.adding = job[w].adding /\ y.copy = job[w].copy
  BY <1>1, <1>2 DEF Job
<1>7. s \in Library /\ s.patch = 0 /\ \A f \in Files : s.file[f] = 0
  BY LibraryCacheAssumption DEF NotInstalled, NoContent, Library, Patch
<1> HIDE DEF y, s
<1>8. Becomes(w, y)
  BY <1>1, <1>2, <1>5, <1>6 DEF Becomes, Restricting
<1>9. job'[w] = y /\ store'[l] = s /\ \A i \in Libraries \ {l} : store'[i] = store[i]
  BY <1>4, <1>5, <1>8, Others DEF CacheInv, TypeOK
<1>10. JobInv(w)'
  BY <1>1, <1>2, <1>6, <1>9 DEF JobInv, Installing, Adding, Updating, Clearing
<1>11. Due(job[w]) = {} /\ Gone(y) = {}
  BY <1>1, <1>6 DEF Due, Gone, JobInv, Adding
<1>12. /\ {Names, NamesOf, AddonList} \subseteq Due(y)
       /\ \A u \in PerLibrary : Key(u, l) \in Due(y)
       /\ \A f \in FilesOf(l) : FileKey(l, f) \in Due(y)
  <2>1. keys \subseteq Due(y)
    BY <1>3, <1>6 DEF Due
  <2>2. \A f \in FilesOf(l) : FileKey(l, f) \in job[w].keys
    BY <1>1, <1>2 DEF JobInv, KeysOf
  <2> QED BY <1>2, <2>1, <2>2
<1>13. ASSUME NEW k \in Keys, View(k)' # View(k), k[1] # "languages" PROVE k \in Due(y)
  <2>1. \A f \in Files : store'[l].file[f] # store[l].file[f] => f \in FilesOf(l)
    BY <1>7, <1>9 DEF FilesOf
  <2>2. {"metadata", "isInstalled", "fileList"} \subseteq PerLibrary
    BY DEF PerLibrary
  <2> QED BY <1>9, <1>12, <1>13, <2>1, <2>2, ViewChanges, LibraryCacheAssumption
<1>14. Key("metadata", l) \in y.keys
  BY <1>2, <1>6 DEF PerLibrary
<1>15. /\ ~y.adding /\ job[w].pc \notin Restricting
       /\ y.pc \notin Adding \cup Replacing \cup Copying
  BY <1>1, <1>6 DEF JobInv, Adding, Restricting, Replacing, Copying
<1> HIDE DEF keys
<1> QED
  BY <1>1, <1>2, <1>4, <1>5, <1>6, <1>7, <1>8, <1>10, <1>11, <1>13, <1>14, <1>15, Storing

LEMMA StorageAddFileStep ==
  ASSUME CacheInv, UNCHANGED env, NEW w \in Writers, NEW f \in Files, StorageAddFile(w, f)
  PROVE  CacheInv'
<1>1. /\ job[w].pc = "check"
      /\ job[w] \in Job /\ JobInv(w) /\ Running(w)
      /\ UNCHANGED <<cache, tainted, reader, writes, misses, env>>
  BY JobFacts DEF StorageAddFile, Running, JobInv
<1>2. PICK l \in Libraries : l = job[w].lib
  BY <1>1 DEF JobInv
<1> DEFINE y == [job[w] EXCEPT !.copy[f] = "del"]
           s == [store[l] EXCEPT !.file[f] = job[w].patch]
<1>3. y \in Job /\ job' = [job EXCEPT ![w] = y]
  BY <1>1 DEF Job, StorageAddFile, CacheInv, TypeOK
<1>4. s \in Library /\ store' = [store EXCEPT ![l] = s]
  <2>1. job[w].patch \in Patch /\ store[l] \in Library
    BY <1>1 DEF Job, CacheInv, TypeOK
  <2>2. s \in Library
    BY <2>1 DEF Library
  <2> QED BY <1>1, <1>2, <2>2 DEF StorageAddFile, CacheInv, TypeOK
<1>5. /\ y.pc = "check" /\ y.lib = l /\ y.patch = job[w].patch
      /\ y.adding = job[w].adding /\ y.keys = job[w].keys
      /\ y.files = job[w].files
      /\ y.copy[f] = "del" /\ \A g \in Files \ {f} : y.copy[g] = job[w].copy[g]
  BY <1>1, <1>2 DEF Job
<1>6. /\ s.patch = store[l].patch /\ s.restricted = store[l].restricted
      /\ s.file[f] = job[w].patch /\ \A g \in Files \ {f} : s.file[g] = store[l].file[g]
  BY DEF CacheInv, TypeOK, Library
<1> HIDE DEF y, s
<1>7. Becomes(w, y)
  BY <1>1, <1>2, <1>3, <1>5 DEF Becomes, Restricting
<1>8. job'[w] = y /\ store'[l] = s /\ \A i \in Libraries \ {l} : store'[i] = store[i]
  BY <1>3, <1>4, <1>7, Others DEF CacheInv, TypeOK
<1>9. JobInv(w)'
  <2>1. \A g \in y.files : y.copy[g] = "write" \/ s.file[g] # 0
    BY <1>1, <1>2, <1>5, <1>6 DEF JobInv, Installing, Job
  <2> QED
    BY <1>1, <1>2, <1>5, <1>8, <2>1 DEF JobInv, Installing, Adding, Updating, Clearing
<1>10. Due(job[w]) \subseteq Due(y)
  BY <1>1, <1>2, <1>5 DEF Due
<1>11. Gone(y) \subseteq Gone(job[w])
  BY <1>1, <1>2, <1>5 DEF Gone, Adding
<1>12. FileKey(l, f) \in Due(y)
  BY <1>5, KeyKinds DEF Due
<1>13. Absent(Key("fileList", l))
  <2>1. Key("fileList", l) \in Gone(job[w])
    BY <1>1, <1>2, KeyKinds DEF Gone, PerLibrary
  <2> QED BY <2>1 DEF CacheInv, DeletedStays
<1>14. ASSUME NEW k \in Keys, View(k)' # View(k), k[1] # "languages"
       PROVE  k \in Due(y) \/ Absent(k)
  <2>1. Installed(l)' = Installed(l)
    BY <1>6, <1>8 DEF Installed
  <2>2. \A g \in Files : store'[l].file[g] # store[l].file[g] => g = f
    BY <1>6, <1>8
  <2> QED BY <1>6, <1>8, <1>12, <1>13, <1>14, <2>1, <2>2, ViewChanges, LibraryCacheAssumption
<1>15. /\ ~y.adding /\ job[w].pc \notin Restricting
       /\ y.pc \notin {"idle", "writeMeta"} /\ job[w].pc # "deleteKeys"
  BY <1>1, <1>5 DEF JobInv, Adding, Restricting
<1>16. env = {} => s.patch = y.patch /\ \A g \in Files : s.file[g] \in {0, s.patch}
  <2> SUFFICES ASSUME env = {} PROVE s.patch = y.patch /\ \A g \in Files : s.file[g] \in {0, s.patch}
    OBVIOUS
  <2>1. store[l].patch = job[w].patch
    BY <1>1, <1>2 DEF CacheInv, MatchInv, Copying
  <2>2. \A g \in Files : store[l].file[g] \in {0, store[l].patch}
    BY <1>1, FilesFit DEF Replacing
  <2> QED BY <1>5, <1>6, <2>1, <2>2
<1> QED
  BY <1>1, <1>2, <1>3, <1>4, <1>5, <1>6, <1>7, <1>9, <1>10, <1>11, <1>14, <1>15, <1>16, Storing

LEMMA WriteMetadataStep ==
  ASSUME CacheInv, UNCHANGED env, NEW w \in Writers, WriteMetadata(w)
  PROVE  CacheInv'
<1>1. /\ job[w].pc = "writeMeta"
      /\ job[w] \in Job /\ JobInv(w) /\ Running(w)
      /\ UNCHANGED <<cache, tainted, reader, writes, misses, env>>
  BY JobFacts DEF WriteMetadata, Running
<1>2. PICK l \in Libraries : l = job[w].lib
  BY <1>1 DEF JobInv
<1>3. CASE ~Installed(l)
  BY <1>1, <1>2, <1>3, GoesOn DEF WriteMetadata
<1>4. CASE Installed(l)
  <2> DEFINE s == [store[l] EXCEPT !.patch = job[w].meta[1], !.restricted = job[w].meta[2]]
  <2>1. GoTo(w, "restrictMetadata") /\ store' = [store EXCEPT ![l] = s]
    BY <1>2, <1>4 DEF WriteMetadata
  <2>2. "restrictMetadata" \in Control \cap Restricting /\ job[w].pc \in Restricting
    BY <1>1 DEF Control, Restricting
  <2>3. PICK y \in Job :
          /\ Becomes(w, y) /\ job'[w] = y
          /\ y.pc = "restrictMetadata" /\ y.lib = job[w].lib /\ y.patch = job[w].patch
          /\ y.adding = job[w].adding /\ y.copy = job[w].copy /\ y.keys = job[w].keys
    BY <1>1, <2>1, <2>2, GoToStep
  <2>4. s \in Library
    <3>1. job[w].meta[1] \in Patch /\ job[w].meta[2] \in BOOLEAN /\ store[l] \in Library
      BY <1>1 DEF Job, CacheInv, TypeOK
    <3> QED BY <3>1 DEF Library
  <2>5. s.patch = job[w].meta[1] /\ s.file = store[l].file
    BY DEF CacheInv, TypeOK, Library
  <2> HIDE DEF s
  <2>6. store'[l] = s /\ \A i \in Libraries \ {l} : store'[i] = store[i]
    BY <2>1 DEF CacheInv, TypeOK
  <2>7. JobInv(w)'
    BY <1>1, <1>2, <2>3 DEF JobInv, Installing, Adding, Updating, Clearing
  <2>8. Due(job[w]) = {} /\ Gone(y) = {}
    BY <1>1, <2>3 DEF Due, Gone, JobInv, Adding
  <2>9. Key("metadata", l) \in Due(y)
    BY <1>2, <2>3, KeyKinds DEF Due, PerLibrary
  <2>10. s.patch # 0
    BY <1>1, <2>5 DEF JobInv
  <2>11. s.patch # store[l].patch => Absent(AddonList) \/ IsDue(AddonList)
    BY <1>1, <1>2, <1>4, <2>5 DEF CacheInv, AddonsInv
  <2>12. ASSUME NEW k \in Keys, View(k)' # View(k), k[1] # "languages"
         PROVE  k \in Due(y) \/ IsDue(k) \/ Absent(k)
    <3>1. FilesOf(l)' = FilesOf(l) /\ \A f \in Files : store'[l].file[f] = store[l].file[f]
      BY <2>5, <2>6 DEF FilesOf
    <3>2. Installed(l)' /\ Installed(l)
      BY <1>4, <2>6, <2>10 DEF Installed
    <3> QED BY <2>6, <2>9, <2>11, <2>12, <3>1, <3>2, ViewChanges, LibraryCacheAssumption
  <2>13. /\ ~y.adding /\ y.pc \notin {"idle", "writeMeta"} /\ job[w].pc # "deleteKeys"
         /\ y.pc \notin Adding \cup Replacing \cup Copying
    BY <1>1, <2>3 DEF JobInv, Adding, Replacing, Copying
  <2>14. env = {} => \A f \in Files : s.file[f] \in {0, s.patch}
    <3> SUFFICES ASSUME env = {}, NEW f \in Files PROVE s.file[f] \in {0, s.patch}
      OBVIOUS
    <3>1. job[w].meta[1] = store[l].patch
      BY <1>1, <1>2 DEF CacheInv, MatchInv
    <3>2. store[l].file[f] \in {0, store[l].patch}
      BY <1>1, FilesFit DEF Replacing
    <3> QED BY <2>5, <3>1, <3>2
  <2> QED
    BY <1>1, <1>2, <2>1, <2>3, <2>4, <2>5, <2>7, <2>8, <2>10, <2>11, <2>12, <2>13, <2>14, Storing
<1> QED BY <1>3, <1>4

-----------------------------------------------------------------------------
(* Steps that read through the cache *)

\* Where nothing overlaps, the cache answers like the storage.
LEMMA Reliable ==
  ASSUME CacheInv, env = {}, NEW w \in Writers, Running(w), Due(job[w]) = {},
         NEW k \in Keys, k[1] # "languages"
  PROVE  Cached(k) = View(k)
<1>1. ~IsDue(k)
  <2> SUFFICES ASSUME NEW v \in Writers \ {w}, k \in Due(job[v]) PROVE FALSE
    BY DEF IsDue
  <2>1. job[v].pc = "idle"
    BY Alone DEF Running
  <2> QED BY <2>1 DEF Due, CacheInv, JobInv
<1>2. tainted = {}
  BY DEF CacheInv, MatchInv
<1> QED BY <1>1, <1>2 DEF CacheInv, StaleIsDue, Stale, Absent, Cached

\* Steps that read and go on.
LEMMA ReadsAndGoesOn ==
  ASSUME CacheInv, UNCHANGED env, NEW w \in Writers, NEW ks, NEW next, GoTo(w, next),
         cache' = Filled(ks), tainted' = Tainted(w, ks),
         UNCHANGED <<store, reader, writes, misses>>,
         \/ job[w].pc = "decide" /\ next \in {"update", "idle"}
         \/ /\ job[w].pc = "check" /\ next \in {"listDeleted", "idle"}
            /\ \A f \in Files : job[w].copy[f] = "none"
  PROVE  CacheInv'
<1>1. job[w] \in Job /\ JobInv(w) /\ Running(w)
  BY JobFacts DEF Running
<1>2. PICK l \in Libraries : l = job[w].lib
  BY <1>1 DEF JobInv, Running
<1>3. Due(job[w]) = {}
  BY <1>1 DEF Due, JobInv
<1>4. /\ writes' \in 0..MaxWrites /\ reader' = [r \in Readers |-> reader'[r]]
      /\ \A r \in Readers : reader'[r].key \in Keys
  BY DEF CacheInv, TypeOK
<1>5. env = {} => \A v \in Writers \ {w} : ~Running(v)
  BY <1>1, Alone
<1>6. next \in Control /\ next \notin Restricting /\ job[w].pc \notin Restricting
  BY DEF Control, Updating, Deleting, Restricting
<1>7. PICK y \in Job :
        /\ Becomes(w, y)
        /\ job'[w] = y
        /\ next = "idle" => y = IdleJob
        /\ next # "idle" => /\ y.pc = next
                            /\ y.lib = job[w].lib /\ y.patch = job[w].patch
                            /\ y.adding = job[w].adding /\ y.copy = job[w].copy
                            /\ y.keys = job[w].keys
  BY <1>1, <1>6, GoToStep
<1>8. y.pc = next /\ ~y.adding
  BY <1>1, <1>7, IdleHasType DEF JobInv, Adding
<1>9. OneChange' /\ ReadersInv'
  BY <1>1, <1>7, StillOneChange, StillRead DEF CacheInv
<1>10. JobInv(w)'
  BY <1>1, <1>2, <1>7, <1>8, IdleHasType DEF JobInv, Installing, Adding, Updating, Clearing
<1>11. Gone(y) = {}
  BY <1>8 DEF Gone, Adding
<1>12. /\ y.pc \notin {"writeMeta", "deleteKeys"} \cup Adding \cup Replacing \cup Copying
      /\ job[w].pc # "deleteKeys" /\ job[w].pc \notin Replacing
  BY <1>1, <1>8 DEF Replacing, Copying, Adding
<1>13. job' = [job EXCEPT ![w] = y]
  BY <1>7 DEF Becomes
<1>14. PICK T \in SUBSET Keys : T = {}
  OBVIOUS
<1>15. tainted' = Tainted(w, ks) \cup T
  BY <1>14
<1> QED
  BY <1>1, <1>3, <1>4, <1>5, <1>8, <1>9, <1>10, <1>11, <1>12, <1>13, <1>14, <1>15, Consulting

LEMMA DecideStep ==
  ASSUME CacheInv, UNCHANGED env, NEW w \in Writers, Decide(w)
  PROVE  CacheInv'
<1>1. /\ job[w].pc = "decide"
      /\ job[w] \in Job /\ JobInv(w) /\ Running(w)
      /\ UNCHANGED <<store, reader, writes, misses, env>>
  BY JobFacts DEF Decide, Running
<1>2. PICK l \in Libraries : l = job[w].lib
  BY <1>1 DEF JobInv
<1>3. Due(job[w]) = {}
  BY <1>1 DEF Due, JobInv
<1>4. /\ writes' \in 0..MaxWrites /\ reader' = [r \in Readers |-> reader'[r]]
      /\ \A r \in Readers : reader'[r].key \in Keys
  BY <1>1 DEF CacheInv, TypeOK
<1>5. env = {} => \A v \in Writers \ {w} : ~Running(v)
  BY <1>1, Alone
<1>6. ASSUME ~Cached(Key("isInstalled", l)),
             job' = [job EXCEPT ![w].pc = "addNames", ![w].adding = TRUE],
             cache' = Filled({Key("isInstalled", l)}),
             tainted' = Tainted(w, {Key("isInstalled", l)})
                          \cup (IF Installed(l) THEN {Key("metadata", l)} ELSE {})
      PROVE  CacheInv'
  <2> DEFINE y == [job[w] EXCEPT !.pc = "addNames", !.adding = TRUE]
             m == Key("metadata", l)
             i == Key("isInstalled", l)
  <2>1. y \in Job /\ job' = [job EXCEPT ![w] = y]
    BY <1>1, <1>6 DEF Job, Control, Adding, CacheInv, TypeOK
  <2>2. /\ y.pc = "addNames" /\ y.lib = l /\ y.patch = job[w].patch /\ y.adding
        /\ y.copy = job[w].copy /\ y.keys = job[w].keys
    BY <1>1, <1>2 DEF Job
  <2> HIDE DEF y
  <2>3. Becomes(w, y)
    BY <1>1, <1>2, <2>1, <2>2 DEF Becomes, Restricting
  <2>4. job'[w] = y
    BY <2>1, <2>3, Others DEF CacheInv
  <2>5. m \in Keys /\ i \in Keys /\ i # m /\ i[1] = "isInstalled" /\ i[2] = l
    BY KeyKinds, KeyParts DEF PerLibrary
  <2>6. OneChange' /\ ReadersInv'
    BY <1>1, <2>1, <2>3, StillOneChange, StillRead DEF CacheInv
  <2>7. JobInv(w)'
    BY <1>1, <1>2, <2>2, <2>4 DEF JobInv, Installing, Adding
  <2>8. Gone(y) \subseteq {m}
    BY <2>2 DEF Gone
  <2>9. env = {} => ~Installed(l)
    <3>1. View(i) = Installed(l)
      BY <2>5 DEF View
    <3> QED BY <1>1, <1>3, <1>6, <2>5, <3>1, Reliable
  <2>10. PICK T \in SUBSET Keys : T = IF Installed(l) THEN {m} ELSE {}
    BY <2>5
  <2>11. Absent(m)'
    <3>1. CASE Installed(l)
      BY <1>6, <2>5, <3>1 DEF Absent
    <3>2. CASE ~Installed(l)
      <4>1. ASSUME NEW v \in Writers, job[v].pc = "deleteKeys" PROVE FALSE
        BY <1>1, <4>1 DEF CacheInv, OneChange, Running, Restricting
      <4>2. Absent(m)
        BY <3>2, <4>1 DEF CacheInv, NoMetadata
      <4>3. cache'[m] = cache[m] /\ tainted \subseteq tainted'
        BY <1>6, <2>5 DEF Filled, Tainted
      <4> QED BY <4>2, <4>3 DEF Absent
    <3> QED BY <3>1, <3>2
  <2> HIDE DEF m, i
  <2>12. \A k \in Gone(y) : Absent(k)'
    BY <2>8, <2>11
  <2>13. /\ y.pc \notin {"writeMeta", "deleteKeys"} \cup Replacing \cup Copying
         /\ job[w].pc # "deleteKeys" /\ job[w].pc \notin Replacing
    BY <1>1, <2>2 DEF Replacing, Copying
  <2> QED
    BY <1>1, <1>3, <1>4, <1>5, <1>6, <2>1, <2>2, <2>6, <2>7, <2>9, <2>10, <2>12, <2>13, Consulting
    DEF m, i
<1> QED BY <1>1, <1>2, <1>6, ReadsAndGoesOn DEF Decide

LEMMA CheckConsistencyStep ==
  ASSUME CacheInv, UNCHANGED env, NEW w \in Writers, CheckConsistency(w)
  PROVE  CacheInv'
BY ReadsAndGoesOn DEF CheckConsistency

\* A request begins.
LEMMA BeginStep ==
  ASSUME CacheInv, UNCHANGED env, NEW w \in Writers, NEW l \in Libraries, NEW new \in Job,
         Begin(w, l, new), NEW ks, cache' = Filled(ks), tainted' = Tainted(w, ks),
         new.pc \in {"decide", "listDeleted", "readMeta"}, new.pc = "decide" => new.patch # 0,
         ~new.adding, \A f \in Files : new.copy[f] = "none",
         IF new.pc = "readMeta" THEN "restrict" \in env \/ ~Changing ELSE Free
  PROVE  CacheInv'
<1>1. job[w] \in Job /\ JobInv(w) /\ job[w].pc = "idle"
  BY JobFacts DEF Begin, Running
<1> DEFINE y == [new EXCEPT !.lib = l]
<1>2. y \in Job /\ job' = [job EXCEPT ![w] = y]
  BY DEF Begin, Job
<1>3. /\ y.lib = l /\ y.pc = new.pc /\ y.patch = new.patch /\ ~y.adding
      /\ \A f \in Files : y.copy[f] = "none"
  BY DEF Job
<1> HIDE DEF y
<1>4. /\ job' \in [Writers -> Job] /\ job'[w] = y
      /\ \A v \in Writers \ {w} : job'[v] = job[v]
  BY <1>2 DEF CacheInv, TypeOK
<1>5. \A v \in Writers : Running(v) =>
        "restrict" \in env /\ (new.pc # "readMeta" => job[v].pc \in Restricting)
  BY DEF Free, Changing
<1>6. OneChange'
  <2> SUFFICES ASSUME NEW u \in Writers, NEW v \in Writers, Running(u)', Running(v)', u # v
               PROVE  /\ "restrict" \in env
                      /\ job'[u].pc \in Restricting \/ job'[v].pc \in Restricting
    BY DEF OneChange
  <2>1. CASE u # w /\ v # w
    BY <1>4, <2>1 DEF CacheInv, OneChange, Running
  <2>2. CASE u = w \/ v = w
    BY <1>3, <1>4, <1>5, <2>2 DEF Running, Restricting
  <2> QED BY <2>1, <2>2
<1>7. /\ UNCHANGED <<store, env, misses>>
      /\ \A r \in Readers : reader'[r].key = reader[r].key /\ reader'[r].value = reader[r].value
                            /\ reader'[r].overlaps = Reading(r)
      /\ reader' = [r \in Readers |-> reader'[r]]
      /\ "readers" \in env \/ \A r \in Readers : ~Reading(r)
  BY DEF Begin
<1>8. ReadersInv'
  BY <1>7 DEF ReadersInv, Reading
<1>9. writes' \in 0..MaxWrites /\ \A r \in Readers : reader'[r].key \in Keys
  BY <1>7, LibraryCacheAssumption DEF Begin, CacheInv, TypeOK
<1>10. JobInv(w)'
  BY <1>3, <1>4 DEF JobInv, Installing, Adding, Updating, Clearing
<1>11. Due(job[w]) = {} /\ Gone(y) = {}
  BY <1>1, <1>3 DEF Due, Gone, JobInv, Adding
<1>12. /\ y.pc \notin {"writeMeta", "deleteKeys"} \cup Adding \cup Replacing \cup Copying
       /\ job[w].pc # "deleteKeys" /\ job[w].pc \notin Replacing
  BY <1>1, <1>3 DEF Replacing, Copying, Adding
<1>13. PICK T \in SUBSET Keys : T = {}
  OBVIOUS
<1>14. tainted' = Tainted(w, ks) \cup T
  BY <1>13
<1>15. env = {} => \A v \in Writers \ {w} : ~Running(v)
  BY <1>5
<1> QED
  BY <1>2, <1>3, <1>6, <1>7, <1>8, <1>9, <1>10, <1>11, <1>12, <1>13, <1>14, <1>15, Consulting

LEMMA BeginInstallStep ==
  ASSUME CacheInv, UNCHANGED env, NEW w \in Writers, NEW l \in Libraries,
         NEW patch \in Patch \ {0}, NEW files \in SUBSET Files, NEW needs \in SUBSET Files,
         BeginInstall(w, l, patch, files, needs)
  PROVE  CacheInv'
<1> DEFINE new == [IdleJob EXCEPT !.pc = "decide", !.patch = patch,
                                  !.files = files, !.needs = needs]
<1>1. /\ new \in Job /\ new.pc = "decide" /\ new.patch # 0 /\ ~new.adding
      /\ \A f \in Files : new.copy[f] = "none"
  BY IdleHasType DEF Job, Control
<1>2. Begin(w, l, new) /\ Free
  BY DEF BeginInstall
<1>3. cache' = Filled({}) /\ tainted' = Tainted(w, {})
  BY DEF BeginInstall, Filled, Tainted, CacheInv, TypeOK
<1> HIDE DEF new
<1> QED BY <1>1, <1>2, <1>3, BeginStep

LEMMA BeginDeleteStep ==
  ASSUME CacheInv, UNCHANGED env, NEW w \in Writers, NEW l \in Libraries, BeginDelete(w, l)
  PROVE  CacheInv'
<1> DEFINE new == [IdleJob EXCEPT !.pc = "listDeleted"]
<1>1. /\ new \in Job /\ new.pc = "listDeleted" /\ ~new.adding
      /\ \A f \in Files : new.copy[f] = "none"
  BY IdleHasType DEF Job, Control, Deleting
<1>2. /\ Begin(w, l, new) /\ Free
      /\ cache' = Filled({Key("isInstalled", l)}) /\ tainted' = Tainted(w, {Key("isInstalled", l)})
  BY DEF BeginDelete, BeginAdministration
<1> HIDE DEF new
<1> QED BY <1>1, <1>2, BeginStep

LEMMA BeginRestrictStep ==
  ASSUME CacheInv, UNCHANGED env, NEW w \in Writers, NEW l \in Libraries,
         NEW restrict \in BOOLEAN, BeginRestrict(w, l, restrict)
  PROVE  CacheInv'
<1> DEFINE new == [IdleJob EXCEPT !.pc = "readMeta", !.restrict = restrict]
<1>1. /\ new \in Job /\ new.pc = "readMeta" /\ ~new.adding
      /\ \A f \in Files : new.copy[f] = "none"
  BY IdleHasType DEF Job, Control, Restricting
<1>2. /\ Begin(w, l, new)
      /\ "restrict" \in env \/ ~Changing
      /\ cache' = Filled({Key("isInstalled", l)}) /\ tainted' = Tainted(w, {Key("isInstalled", l)})
  BY DEF BeginRestrict, BeginAdministration
<1> HIDE DEF new
<1> QED BY <1>1, <1>2, BeginStep

-----------------------------------------------------------------------------
(* The theorems *)

LEMMA InitInv ==
  ASSUME Init
  PROVE  CacheInv
<1>1. \A w \in Writers : job[w] = IdleJob /\ job[w].pc = "idle"
  BY IdleHasType DEF Init
<1>2. \A r \in Readers : ~Reading(r) /\ reader[r].key \in Keys
  BY KeyKinds DEF Init, Reading, IdleReader
<1>3. \A k \in Keys : cache[k] = NoEntry
  BY DEF Init
<1>4. NotInstalled \in Library /\ \A f \in Files : NotInstalled.file[f] = 0
  BY LibraryCacheAssumption DEF NotInstalled, NoContent, Library, Patch
<1>5. TypeOK
  <2>1. store \in [Libraries -> Library] /\ job \in [Writers -> Job]
    BY <1>4, IdleHasType DEF Init
  <2>2. writes \in 0..MaxWrites /\ misses \in 0..MaxMisses
    BY LibraryCacheAssumption DEF Init
  <2>3. cache = [k \in Keys |-> cache[k]] /\ reader = [r \in Readers |-> reader[r]]
    BY DEF Init
  <2> QED BY <1>2, <1>3, <2>1, <2>2, <2>3, LibraryCacheAssumption DEF TypeOK, Init
<1>6. \A w \in Writers : JobInv(w)
  BY <1>1, IdleHasType DEF JobInv, Installing, Adding, Updating, Clearing
<1>7. OneChange /\ ReadersInv
  BY <1>1, <1>2 DEF OneChange, ReadersInv, Running
<1>8. StaleIsDue /\ NoMetadata
  BY <1>3, KeyKinds DEF StaleIsDue, Stale, Absent, NoMetadata, PerLibrary
<1>9. DeletedStays
  BY <1>3 DEF DeletedStays, Absent, Gone
<1>10. AddonsInv
  BY <1>1 DEF AddonsInv
<1>11. MatchInv
  <2>1. \A l \in Libraries : FilesOf(l) = {}
    BY <1>4 DEF Init, FilesOf
  <2> QED BY <1>1, <2>1, IdleHasType DEF MatchInv, Init, Adding, Replacing, Copying
<1> QED BY <1>5, <1>6, <1>7, <1>8, <1>9, <1>10, <1>11 DEF CacheInv, Init

LEMMA ChangeStep ==
  ASSUME CacheInv, UNCHANGED env, NEW w \in Writers, Change(w)
  PROVE  CacheInv'
<1>1. CASE Decide(w)
  BY <1>1, DecideStep
<1>2. CASE AddLibrary(w)
  BY <1>2, StorageAddStep, DeleteKeyStep, AwaitAddStep DEF AddLibrary
<1>3. CASE UpdateLibrary(w)
  BY <1>3, StorageUpdateStep, DeleteKeyStep DEF UpdateLibrary
<1>4. CASE ClearFiles(w)
  BY <1>4, ListFilesStep, StorageClearStep, DeleteKeyStep, DeleteKeysStep DEF ClearFiles
<1>5. CASE DeleteLibrary(w)
  BY <1>5, ListFilesStep, StorageRemoveStep, DeleteKeysStep DEF DeleteLibrary
<1>6. CASE StartCopies(w)
  BY <1>6, StartCopiesStep
<1>7. CASE CheckConsistency(w)
  BY <1>7, CheckConsistencyStep
<1>8. ASSUME NEW f \in Files, StorageAddFile(w, f) \/ DeleteFileCache(w, f) PROVE CacheInv'
  BY <1>8, StorageAddFileStep, DeleteFileCacheStep
<1>9. CASE UpdateAdditionalMetadata(w)
  BY <1>9, ReadMetadataStep, WriteMetadataStep, DeleteKeyStep DEF UpdateAdditionalMetadata
<1> QED BY <1>1, <1>2, <1>3, <1>4, <1>5, <1>6, <1>7, <1>8, <1>9 DEF Change

LEMMA NextInv ==
  ASSUME CacheInv, [Next]_vars
  PROVE  CacheInv'
<1>1. CASE UNCHANGED vars
  <2>1. /\ UNCHANGED <<store, job, env, writes, cache, tainted, reader, misses>>
    BY <1>1 DEF vars
  <2>2. /\ cache' = [k \in Keys |-> cache'[k]] /\ \A k \in Keys : cache'[k] # Rejected
        /\ reader' = [r \in Readers |-> reader'[r]] /\ \A r \in Readers : reader'[r].key \in Keys
        /\ tainted' \subseteq Keys /\ misses' \in 0..MaxMisses
    BY <2>1 DEF CacheInv, TypeOK
  <2>3. \A k \in Keys : Absent(k)' \/ (cache'[k] = cache[k] /\ ~Absent(k))
    BY <2>1 DEF Absent
  <2>4. \A k \in Keys : View(k)' = View(k)
    BY <2>1 DEF View, Installed, FilesOf
  <2>5. ReadersInv'
    BY <2>1, <2>4 DEF CacheInv, TypeOK, ReadersInv, Reading, Changing, Running
  <2>6. env = {} => tainted' = {}
    BY <2>1 DEF CacheInv, MatchInv
  <2> QED BY <2>1, <2>2, <2>3, <2>5, <2>6, Quiet
<1>2. ASSUME UNCHANGED env, NEW r \in Readers, Fill(r) \/ \E k \in Keys : Miss(r, k)
      PROVE  CacheInv'
  BY <1>2, FillStep, MissStep
<1>3. ASSUME UNCHANGED env, NEW w \in Writers, Change(w) PROVE CacheInv'
  BY <1>3, ChangeStep
<1>4. ASSUME UNCHANGED env, NEW w \in Writers, NEW l \in Libraries, BeginChange(w, l)
      PROVE  CacheInv'
  BY <1>4, BeginInstallStep, BeginDeleteStep, BeginRestrictStep DEF BeginChange
<1>5. CASE UNCHANGED env /\ ClearCache
  BY <1>5, ClearStep
<1> QED BY <1>1, <1>2, <1>3, <1>4, <1>5 DEF Next

\* Every behaviour keeps the inductive invariant: an entry that differs from the
\* storage is about to be deleted by the change that made it differ
\* (CachedLibraryStorage.ts).
THEOREM CacheInvariant == Spec => []CacheInv
<1>1. Init => CacheInv
  BY InitInv
<1>2. CacheInv /\ [Next]_vars => CacheInv'
  BY NextInv
<1> QED BY <1>1, <1>2, PTL DEF Spec

\* The variables have their types, and errors are not cached.
THEOREM TypeCorrect == Spec => []TypeOK
<1>1. CacheInv => TypeOK
  BY DEF CacheInv
<1> QED BY <1>1, CacheInvariant, PTL

\* While no library is changed, an entry is what the storage answers, unless it was
\* read during a change: every method of CachedLibraryStorage deletes the keys that
\* its change of the storage makes stale, also when an administrator restricts a
\* library meanwhile.
THEOREM EntriesAreFresh == Spec => []Fresh
<1>1. CacheInv => Fresh
  <2> SUFFICES ASSUME CacheInv, ~Changing, NEW k \in Keys \ tainted,
                      k[1] # "languages", cache[k] # NoEntry
               PROVE  cache[k] = View(k)
    BY DEF Fresh
  <2>1. ASSUME NEW w \in Writers PROVE Due(job[w]) = {}
    <3>1. job[w].pc = "idle" /\ JobInv(w)
      BY DEF Changing, Running, CacheInv
    <3> QED BY <3>1 DEF Due, JobInv
  <2>2. ~IsDue(k)
    BY <2>1 DEF IsDue
  <2> QED BY <2>2 DEF CacheInv, StaleIsDue, Stale, Absent
<1> QED BY <1>1, CacheInvariant, PTL

\* Without reads and restrictions beside a change, no installation leaves files of two
\* patches, although LibraryManager takes its decisions from cached answers.
THEOREM FilesMatch == Spec => []FilesMatchMetadata
<1>1. CacheInv => FilesMatchMetadata
  BY DEF CacheInv, MatchInv, FilesMatchMetadata, Changing, Running, Replacing
<1> QED BY <1>1, CacheInvariant, PTL

\* Without reads and restrictions beside a change, an old entry does not make the
\* consistency check of a complete package fail (LibraryManager.checkConsistency).
THEOREM ChecksSucceed == Spec => []CheckSucceeds
<1>1. CacheInv => CheckSucceeds
  <2> SUFFICES ASSUME CacheInv, env = {}, NEW w \in Writers, job[w].pc = "check",
                      \A f \in Files : job[w].copy[f] = "none",
                      job[w].needs \subseteq job[w].files
               PROVE  /\ Cached(Key("isInstalled", job[w].lib))
                      /\ Cached(Key("metadata", job[w].lib)) # Rejected
                      /\ \A f \in job[w].needs : Cached(FileKey(job[w].lib, f)) # 0
    BY DEF CheckSucceeds
  <2>1. JobInv(w) /\ job[w] \in Job /\ Running(w)
    BY JobFacts DEF Running
  <2>2. PICK l \in Libraries : l = job[w].lib
    BY <2>1 DEF JobInv
  <2>3. Due(job[w]) = {}
    BY DEF Due
  <2>4. \A k \in Keys : k[1] # "languages" => Cached(k) = View(k)
    BY <2>1, <2>3, Reliable
  <2>5. Installed(l)
    BY <2>1, <2>2 DEF CacheInv, MatchInv, Copying, JobInv, Installing, Installed
  <2>6. /\ View(Key("isInstalled", l)) = Installed(l)
        /\ View(Key("metadata", l)) = <<store[l].patch, store[l].restricted>>
    <3> DEFINE i == Key("isInstalled", l)
               m == Key("metadata", l)
    <3>1. i[1] = "isInstalled" /\ i[2] = l /\ m[1] = "metadata" /\ m[2] = l
      BY KeyParts
    <3> HIDE DEF i, m
    <3>2. View(i) = Installed(l)
      BY <3>1 DEF View
    <3>3. View(m) = <<store[l].patch, store[l].restricted>>
      BY <2>5, <3>1 DEF View
    <3> QED BY <3>2, <3>3 DEF i, m
  <2>7. \A f \in Files : View(FileKey(l, f)) = store[l].file[f]
    BY KeyParts DEF View
  <2>8. <<store[l].patch, store[l].restricted>> # Rejected
    BY LibraryCacheAssumption DEF CacheInv, TypeOK, Library, Patch
  <2>9. \A f \in job[w].needs : f \in Files /\ store[l].file[f] # 0
    BY <2>1, <2>2 DEF JobInv, Job
  <2>10. Cached(Key("isInstalled", l)) /\ Cached(Key("metadata", l)) # Rejected
    <3>1. Key("isInstalled", l) \in Keys /\ Key("metadata", l) \in Keys
      BY KeyKinds DEF PerLibrary
    <3>2. Key("isInstalled", l)[1] # "languages" /\ Key("metadata", l)[1] # "languages"
      BY KeyParts
    <3> QED BY <2>4, <2>5, <2>6, <2>8, <3>1, <3>2
  <2>11. \A f \in Files : Cached(FileKey(l, f)) = store[l].file[f]
    <3>1. \A f \in Files : FileKey(l, f) \in Keys /\ FileKey(l, f)[1] # "languages"
      BY KeyKinds, KeyParts
    <3> QED BY <2>4, <2>7, <3>1
  <2> QED BY <2>2, <2>9, <2>10, <2>11
<1> QED BY <1>1, CacheInvariant, PTL

=============================================================================
