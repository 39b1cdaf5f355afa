---------------------------- MODULE LibraryCache ----------------------------
(***************************************************************************)
(* CachedLibraryStorage, the read-through cache in front of a library      *)
(* storage, under the operations of LibraryManager and                     *)
(* LibraryAdministration that go through it: installation and update from  *)
(* a package, deletion, restriction, and reads.  Every change of the       *)
(* storage is followed by deletions of the keys it is meant to invalidate. *)
(*                                                                         *)
(* Installations hold their locks, and deletions do not run into them: one *)
(* of them runs at a time.                                                 *)
(***************************************************************************)
EXTENDS Naturals

CONSTANTS
  Libraries,     \* versions of one library, named by machine name and version
  Addons,        \* those that are addons
  Files,         \* files of libraries
  Languages,     \* those that are language files
  MaxPatch,      \* the highest patch version of the packages
  Readers,       \* requests that read
  Writers,       \* requests that change libraries
  NoLibrary, NoFile,
  NoEntry,       \* the cache has no entry
  Rejected,      \* the storage has rejected the call, so nothing is cached
  Environments,  \* what may happen, see AllFreedoms
  MaxWrites,     \* bound on the number of changes of a behaviour
  MaxMisses      \* bound on the number of reads that miss

\* readers   reads may overlap with changes
\* restrict  an administrator may restrict a library while it is changed
AllFreedoms == {"readers", "restrict"}

ASSUME LibraryCacheAssumption ==
  /\ Addons \subseteq Libraries /\ Languages \subseteq Files
  /\ MaxPatch \in Nat /\ MaxWrites \in Nat /\ MaxMisses \in Nat
  /\ NoEntry # Rejected /\ Rejected \notin (0..MaxPatch) \X BOOLEAN
  /\ Environments \subseteq SUBSET AllFreedoms

VARIABLES
  store,    \* store[l]: the library behind the cache
  cache,    \* cache[k]: the entry of key k
  tainted,  \* keys whose entry was read from the storage while another request changed
            \* something, or whose deletion was left out because of such an entry
  reader,   \* reader[r]: the key r has missed and what the storage answered
  job,      \* job[w]: the local state of the change w
  writes,   \* number of changes begun
  misses,   \* number of reads that missed
  env       \* what happens in this behaviour, chosen once

vars == <<store, cache, tainted, reader, job, writes, misses, env>>

\* The keys: per library, per file (its content, statistics and existence in
\* one), and three lists: the names of all libraries, those with one machine name
\* (here the same) and the addons.
PerLibrary == {"metadata", "isInstalled", "fileList", "languages"}
Key(usage, l) == <<usage, l, NoFile>>
FileKey(l, f) == <<"file", l, f>>
Names         == <<"names", NoLibrary, NoFile>>
NamesOf       == <<"namesOf", NoLibrary, NoFile>>
AddonList     == <<"addons", NoLibrary, NoFile>>

KeysOf(l, files) == {FileKey(l, f) : f \in files}

Keys == {Key(u, l) : u \in PerLibrary, l \in Libraries}
          \cup {FileKey(l, f) : l \in Libraries, f \in Files}
          \cup {Names, NamesOf, AddonList}

Patch == 0..MaxPatch  \* 0: there is no library.json, or no such file

Library == [patch : Patch, restricted : BOOLEAN, file : [Files -> Patch]]
NoContent == [f \in Files |-> 0]
NotInstalled == [patch |-> 0, restricted |-> FALSE, file |-> NoContent]

Installed(l) == store[l].patch # 0
FilesOf(l) == {f \in Files : store[l].file[f] # 0}

\* What the storage answers.
View(k) ==
  LET l == k[2]
      languages == FilesOf(l) \cap Languages
  IN
  CASE k[1] \in {"names", "namesOf"} -> {i \in Libraries : Installed(i)}
    [] k[1] = "addons" -> {<<i, store[i].patch>> : i \in {j \in Addons : Installed(j)}}
    [] k[1] = "metadata" ->
         IF Installed(l) THEN <<store[l].patch, store[l].restricted>> ELSE Rejected
    [] k[1] = "isInstalled" -> Installed(l)
    [] k[1] = "fileList" -> IF Installed(l) THEN FilesOf(l) ELSE Rejected
    [] k[1] = "languages" -> IF languages = {} THEN Rejected ELSE languages
    [] k[1] = "file" -> store[l].file[k[3]]

\* What a read through the cache answers.
Cached(k) == IF cache[k] = NoEntry THEN View(k) ELSE cache[k]

\* The steps of a change: what it does next.
Adding   == {"addNames", "addAddons", "addInstalled", "addNamesOf", "addFileList", "awaitAdd"}
Updating == {"update", "updMetadata", "updNames", "updAddons", "updNamesOf"}
Clearing == {"listFiles", "clear", "clearFileList", "clearKeys"}
Deleting == {"listDeleted", "remove", "deleteKeys"}
Restricting == {"readMeta", "writeMeta", "restrictMetadata"}
Control == {"idle", "decide", "copy", "check"}
             \cup Adding \cup Updating \cup Clearing \cup Deleting \cup Restricting

Job == [pc : Control, lib : Libraries \cup {NoLibrary}, patch : Patch,
        files : SUBSET Files,    \* the files of the package
        needs : SUBSET Files,    \* those its library.json lists
        adding : BOOLEAN,        \* addLibrary of the storage is still running
        copy : [Files -> {"none", "write", "del"}],
        keys : SUBSET Keys,      \* to be deleted at the same time
        restrict : BOOLEAN,      \* what the administrator asks for
        meta : Patch \X BOOLEAN] \* the library.json that was read

IdleJob == [pc |-> "idle", lib |-> NoLibrary, patch |-> 0, files |-> {}, needs |-> {},
            adding |-> FALSE, copy |-> [f \in Files |-> "none"], keys |-> {},
            restrict |-> FALSE, meta |-> <<0, FALSE>>]

IdleReader == [key |-> Names, value |-> NoEntry, overlaps |-> FALSE]

TypeOK ==
  /\ store \in [Libraries -> Library]
  /\ cache = [k \in Keys |-> cache[k]] /\ \A k \in Keys : cache[k] # Rejected
  /\ tainted \subseteq Keys
  /\ reader = [r \in Readers |-> reader[r]] /\ \A r \in Readers : reader[r].key \in Keys
  /\ job \in [Writers -> Job]
  /\ writes \in 0..MaxWrites
  /\ misses \in 0..MaxMisses

Init ==
  /\ store = [l \in Libraries |-> NotInstalled]
  /\ cache = [k \in Keys |-> NoEntry]
  /\ tainted = {}
  /\ reader = [r \in Readers |-> IdleReader]
  /\ job = [w \in Writers |-> IdleJob]
  /\ writes = 0
  /\ misses = 0
  /\ env \in Environments

-----------------------------------------------------------------------------
(* Reads *)

Running(w) == job[w].pc # "idle"
Changing == \E w \in Writers : Running(w)
Reading(r) == reader[r].value # NoEntry

\* A miss: the storage is asked ...
Miss(r, k) ==
  /\ misses < MaxMisses
  /\ ~Reading(r)
  /\ cache[k] = NoEntry
  /\ misses' = misses + 1
  /\ "readers" \in env \/ ~Changing
  /\ reader' = [reader EXCEPT ![r] = [key |-> k, value |-> View(k), overlaps |-> Changing]]
  /\ UNCHANGED <<store, cache, tainted, job, writes>>

\* ... and its answer is stored when it arrives.
Fill(r) ==
  LET k == reader[r].key IN
  /\ Reading(r)
  /\ IF reader[r].value = Rejected THEN UNCHANGED <<cache, tainted>>
     ELSE /\ cache' = [cache EXCEPT ![k] = reader[r].value]
          /\ tainted' = IF reader[r].overlaps THEN tainted \cup {k} ELSE tainted \ {k}
  /\ reader' = [reader EXCEPT ![r] = IdleReader]
  /\ UNCHANGED <<store, job, writes, misses>>

\* What the cache and the tainted keys are after change w has read the keys ks.
Filled(ks) == [k \in Keys |-> IF k \in ks /\ Cached(k) # Rejected THEN Cached(k) ELSE cache[k]]
Tainted(w, ks) ==
  IF \E v \in Writers \ {w} : Running(v)
  THEN tainted \cup {k \in Keys : k \in ks /\ cache[k] = NoEntry}
  ELSE tainted

-----------------------------------------------------------------------------
(* Changes *)

GoTo(w, pc) ==
  job' = [job EXCEPT ![w] = IF pc = "idle" THEN IdleJob ELSE [@ EXCEPT !.pc = pc]]

\* One key is deleted.
DeleteKey(w, at, k, next) ==
  /\ job[w].pc = at
  /\ cache' = [cache EXCEPT ![k] = NoEntry]
  /\ tainted' = tainted \ {k}
  /\ GoTo(w, next)
  /\ UNCHANGED <<store, reader, writes, misses>>

\* Several keys are deleted at the same time.
DeleteKeys(w, at, next) ==
  /\ job[w].pc = at
  /\ \/ \E k \in job[w].keys :
          /\ cache' = [cache EXCEPT ![k] = NoEntry]
          /\ tainted' = tainted \ {k}
          /\ job' = [job EXCEPT ![w].keys = @ \ {k}]
     \/ /\ job[w].keys = {}
        /\ GoTo(w, next)
        /\ UNCHANGED <<cache, tainted>>
  /\ UNCHANGED <<store, reader, writes, misses>>

\* A request begins to change library l.
Begin(w, l, new) ==
  /\ writes < MaxWrites
  /\ ~Running(w)
  /\ writes' = writes + 1
  /\ job' = [job EXCEPT ![w] = [new EXCEPT !.lib = l]]
  /\ "readers" \in env \/ \A r \in Readers : ~Reading(r)
  /\ reader' = [r \in Readers |-> [key |-> reader[r].key, value |-> reader[r].value,
                                   overlaps |-> Reading(r)]]
  /\ UNCHANGED <<store, misses>>

\* Nothing but a restriction is under way.
Free == \A w \in Writers : Running(w) => "restrict" \in env /\ job[w].pc \in Restricting

\* installFromDirectory, with its lock held.
BeginInstall(w, l, patch, files, needs) ==
  /\ Free
  /\ Begin(w, l, [IdleJob EXCEPT !.pc = "decide", !.patch = patch,
                                 !.files = files, !.needs = needs])
  /\ UNCHANGED <<cache, tainted>>

\* libraryExists and isPatchedLibrary, answered through the cache: a library that
\* counts as installed is updated by a newer patch and otherwise left alone.  The list
\* of names may name a library whose metadata cannot be read, which is an error.
Decide(w) ==
  LET l == job[w].lib
      installed == Cached(Key("isInstalled", l))
      names == Cached(NamesOf)
      metadata(i) == Cached(Key("metadata", i))
      newer == /\ \A i \in names : metadata(i) # Rejected
               /\ l \in names
               /\ metadata(l)[1] < job[w].patch
  IN
  /\ job[w].pc = "decide"
  /\ \/ /\ ~installed
        /\ job' = [job EXCEPT ![w].pc = "addNames", ![w].adding = TRUE]
        /\ LET read == {Key("isInstalled", l)} IN
           /\ cache' = Filled(read)
           /\ tainted' = Tainted(w, read) \cup (IF Installed(l) THEN {Key("metadata", l)} ELSE {})
     \/ /\ installed
        /\ GoTo(w, IF newer THEN "update" ELSE "idle")
        /\ LET read == {Key("isInstalled", l), NamesOf} \cup {Key("metadata", i) : i \in names} IN
           /\ cache' = Filled(read)
           /\ tainted' = Tainted(w, read)
  /\ UNCHANGED <<store, reader, writes, misses>>

\* LibraryAdministration checks that the library exists, and changes it without a lock.
BeginAdministration(w, l, new) ==
  LET read == {Key("isInstalled", l)} IN
  /\ Cached(Key("isInstalled", l))
  /\ Begin(w, l, new)
  /\ cache' = Filled(read)
  /\ tainted' = Tainted(w, read)

BeginDelete(w, l) ==
  /\ Free
  /\ BeginAdministration(w, l, [IdleJob EXCEPT !.pc = "listDeleted"])

BeginRestrict(w, l, restrict) ==
  /\ "restrict" \in env \/ ~Changing
  /\ BeginAdministration(w, l, [IdleJob EXCEPT !.pc = "readMeta", !.restrict = restrict])

\* addLibrary and updateLibrary of the storage write the library.json of the package.
\* The former is awaited after the deletions only, and does not mind a library that
\* is there already.
WriteLibrary(w) ==
  store' = [store EXCEPT ![job[w].lib] =
              [@ EXCEPT !.patch = job[w].patch, !.restricted = FALSE]]

StorageAdd(w) ==
  /\ job[w].adding
  /\ WriteLibrary(w)
  /\ job' = [job EXCEPT ![w].adding = FALSE]
  /\ UNCHANGED <<cache, tainted, reader, writes, misses>>

AwaitAdd(w) ==
  /\ job[w].pc = "awaitAdd" /\ ~job[w].adding
  /\ GoTo(w, "copy")
  /\ UNCHANGED <<store, cache, tainted, reader, writes, misses>>

\* Mutant: the entry that says the library is not installed stays.
AddLibraryKeeps(w) ==
  LET l == job[w].lib IN
  \/ StorageAdd(w)
  \/ DeleteKey(w, "addNames", Names, "addAddons")
  \/ DeleteKey(w, "addAddons", AddonList, "addNamesOf")
  \/ DeleteKey(w, "addNamesOf", NamesOf, "addFileList")
  \/ DeleteKey(w, "addFileList", Key("fileList", l), "awaitAdd")
  \/ AwaitAdd(w)

AddLibrary(w) ==
  LET l == job[w].lib IN
  \/ StorageAdd(w)
  \/ DeleteKey(w, "addNames", Names, "addAddons")
  \/ DeleteKey(w, "addAddons", AddonList, "addInstalled")
  \/ DeleteKey(w, "addInstalled", Key("isInstalled", l), "addNamesOf")
  \/ DeleteKey(w, "addNamesOf", NamesOf, "addFileList")
  \/ DeleteKey(w, "addFileList", Key("fileList", l), "awaitAdd")
  \/ AwaitAdd(w)

\* A library that was taken for installed is removed, like one whose files are wrong.
StorageUpdate(w) ==
  /\ job[w].pc = "update"
  /\ \/ /\ Installed(job[w].lib)
        /\ WriteLibrary(w)
        /\ GoTo(w, "updMetadata")
     \/ /\ ~Installed(job[w].lib)
        /\ GoTo(w, "listDeleted")
        /\ UNCHANGED store
  /\ UNCHANGED <<cache, tainted, reader, writes, misses>>

\* Mutant: the files of the old patch are not cleared.
UpdateLibraryInPlace(w) ==
  \/ StorageUpdate(w)
  \/ DeleteKey(w, "updMetadata", Key("metadata", job[w].lib), "updNames")
  \/ DeleteKey(w, "updNames", Names, "updAddons")
  \/ DeleteKey(w, "updAddons", AddonList, "updNamesOf")
  \/ DeleteKey(w, "updNamesOf", NamesOf, "copy")

UpdateLibrary(w) ==
  \/ StorageUpdate(w)
  \/ DeleteKey(w, "updMetadata", Key("metadata", job[w].lib), "updNames")
  \/ DeleteKey(w, "updNames", Names, "updAddons")
  \/ DeleteKey(w, "updAddons", AddonList, "updNamesOf")
  \/ DeleteKey(w, "updNamesOf", NamesOf, "listFiles")

\* The files are listed before they are deleted, from the storage itself.
ListFiles(w, at, next) ==
  LET l == job[w].lib IN
  /\ job[w].pc = at
  /\ \/ /\ Installed(l)
        /\ job' = [job EXCEPT ![w].pc = next, ![w].keys = KeysOf(l, FilesOf(l))]
     \/ /\ ~Installed(l)
        /\ GoTo(w, "idle")
  /\ UNCHANGED <<store, cache, tainted, reader, writes, misses>>

StorageClear(w) ==
  /\ job[w].pc = "clear"
  /\ store' = [store EXCEPT ![job[w].lib].file = NoContent]
  /\ GoTo(w, "clearFileList")
  /\ UNCHANGED <<cache, tainted, reader, writes, misses>>

\* Mutant: the list of files is forgotten.
ClearFilesOnly(w) ==
  \/ ListFiles(w, "listFiles", "clear")
  \/ StorageClear(w)
  \/ DeleteKeys(w, "clearFileList", "copy")

ClearFiles(w) ==
  \/ ListFiles(w, "listFiles", "clear")
  \/ StorageClear(w)
  \/ DeleteKey(w, "clearFileList", Key("fileList", job[w].lib), "clearKeys")
  \/ DeleteKeys(w, "clearKeys", "copy")

StorageRemove(w) ==
  LET l == job[w].lib IN
  /\ job[w].pc = "remove"
  /\ store' = [store EXCEPT ![l] = NotInstalled]
  /\ job' = [job EXCEPT ![w] = [@ EXCEPT !.pc = "deleteKeys",
       !.keys = job[w].keys \cup {Key(u, l) : u \in PerLibrary}
                  \cup {Names, NamesOf, AddonList}]]
  /\ UNCHANGED <<cache, tainted, reader, writes, misses>>

DeleteLibrary(w) ==
  \/ ListFiles(w, "listDeleted", "remove")
  \/ StorageRemove(w)
  \/ DeleteKeys(w, "deleteKeys", "idle")

\* All files are copied at the same time, each is followed by the deletion of its
\* keys.
StartCopies(w) ==
  /\ job[w].pc = "copy"
  /\ job' = [job EXCEPT ![w].pc = "check",
       ![w].copy = [f \in Files |-> IF f \in job[w].files THEN "write" ELSE "none"]]
  /\ UNCHANGED <<store, cache, tainted, reader, writes, misses>>

StorageAddFile(w, f) ==
  /\ job[w].copy[f] = "write"
  /\ store' = [store EXCEPT ![job[w].lib].file[f] = job[w].patch]
  /\ job' = [job EXCEPT ![w].copy[f] = "del"]
  /\ UNCHANGED <<cache, tainted, reader, writes, misses>>

DeleteFileCache(w, f) ==
  LET k == FileKey(job[w].lib, f) IN
  /\ job[w].copy[f] = "del"
  /\ cache' = [cache EXCEPT ![k] = NoEntry]
  /\ tainted' = tainted \ {k}
  /\ job' = [job EXCEPT ![w].copy[f] = "none"]
  /\ UNCHANGED <<store, reader, writes, misses>>

\* checkConsistency reads through the cache.  A library that is not consistent is
\* deleted.
CheckConsistency(w) ==
  LET l == job[w].lib
      installed == Cached(Key("isInstalled", l))
      readable  == Cached(Key("metadata", l)) # Rejected
      missing   == {f \in job[w].needs : Cached(FileKey(l, f)) = 0}
      read == {Key("isInstalled", l)}
                \cup (IF installed THEN {Key("metadata", l)} ELSE {})
                \cup (IF installed /\ readable THEN KeysOf(l, job[w].needs) ELSE {})
  IN
  /\ job[w].pc = "check"
  /\ \A f \in Files : job[w].copy[f] = "none"
  /\ cache' = Filled(read)
  /\ tainted' = Tainted(w, read)
  /\ GoTo(w, IF installed /\ readable /\ missing = {} THEN "idle" ELSE "listDeleted")
  /\ UNCHANGED <<store, reader, writes, misses>>

\* updateAdditionalMetadata of the storage reads library.json, changes it and writes
\* it again; nothing is written if that changes nothing.  A library that is not
\* restricted may have no such property, and has it afterwards.
ReadMetadata(w) ==
  LET l == job[w].lib
      restrict == job[w].restrict
  IN
  /\ job[w].pc = "readMeta"
  /\ \/ /\ ~Installed(l)
        /\ GoTo(w, "idle")
     \/ /\ Installed(l)
        /\ restrict # store[l].restricted \/ ~restrict
        /\ job' = [job EXCEPT ![w].pc = "writeMeta", ![w].meta = <<store[l].patch, restrict>>]
     \/ /\ Installed(l)
        /\ restrict = store[l].restricted
        /\ GoTo(w, "restrictMetadata")
  /\ UNCHANGED <<store, cache, tainted, reader, writes, misses>>

\* It fails, and the key stays, if the library is gone.
WriteMetadata(w) ==
  LET l == job[w].lib
      meta == job[w].meta
  IN
  /\ job[w].pc = "writeMeta"
  /\ \/ /\ Installed(l)
        /\ store' = [store EXCEPT ![l] = [@ EXCEPT !.patch = meta[1], !.restricted = meta[2]]]
        /\ GoTo(w, "restrictMetadata")
     \/ /\ ~Installed(l)
        /\ GoTo(w, "idle")
        /\ UNCHANGED store
  /\ UNCHANGED <<cache, tainted, reader, writes, misses>>

UpdateAdditionalMetadata(w) ==
  \/ ReadMetadata(w)
  \/ WriteMetadata(w)
  \/ DeleteKey(w, "restrictMetadata", Key("metadata", job[w].lib), "idle")

ClearCache ==
  /\ \E k \in Keys : cache[k] # NoEntry
  /\ cache' = [k \in Keys |-> NoEntry]
  /\ tainted' = {}
  /\ UNCHANGED <<store, reader, job, writes, misses>>

-----------------------------------------------------------------------------
\* A change goes on.
Change(w) ==
  \/ Decide(w)
  \/ AddLibrary(w) \/ UpdateLibrary(w) \/ ClearFiles(w) \/ DeleteLibrary(w)
  \/ StartCopies(w) \/ CheckConsistency(w)
  \/ \E f \in Files : StorageAddFile(w, f) \/ DeleteFileCache(w, f)
  \/ UpdateAdditionalMetadata(w)

\* Some request begins to change library l.
BeginChange(w, l) ==
  \/ \E patch \in Patch \ {0}, files \in SUBSET Files, needs \in SUBSET Files :
       BeginInstall(w, l, patch, files, needs)
  \/ BeginDelete(w, l)
  \/ \E restrict \in BOOLEAN : BeginRestrict(w, l, restrict)

Next ==
  /\ UNCHANGED env
  /\ \/ \E r \in Readers : Fill(r) \/ \E k \in Keys : Miss(r, k)
     \/ \E w \in Writers : Change(w) \/ \E l \in Libraries : BeginChange(w, l)
     \/ ClearCache

Spec == Init /\ [][Next]_vars

-----------------------------------------------------------------------------
(* Properties *)

\* While no library is changed, every entry is what the storage would answer,
\* unless it was read during a change of another request; the entry of the languages
\* is left out: no update invalidates it.  CachedLibraryStorage "also handles cache
\* invalidation for you" (CachedLibraryStorage.ts:16-18).
Fresh ==
  ~Changing =>
    \A k \in Keys \ tainted :
      k[1] # "languages" /\ cache[k] # NoEntry => cache[k] = View(k)

\* Without such reads, no installation mixes files of two patches, although whether
\* a library is installed, and in which patch, is decided from cached answers.
FilesMatchMetadata ==
  env = {} /\ ~Changing =>
    \A l \in Libraries : \A f \in FilesOf(l) : store[l].file[f] = store[l].patch

\* Without such reads, the consistency check of a package that has all the files its
\* library.json lists does not fail because of an old entry, so that the library that
\* was just installed or updated is not removed again.
CheckSucceeds ==
  env = {} =>
    \A w \in Writers :
      LET l == job[w].lib IN
      /\ job[w].pc = "check" /\ \A f \in Files : job[w].copy[f] = "none"
      /\ job[w].needs \subseteq job[w].files
      => /\ Cached(Key("isInstalled", l))
         /\ Cached(Key("metadata", l)) # Rejected
         /\ \A f \in job[w].needs : Cached(FileKey(l, f)) # 0

=============================================================================
