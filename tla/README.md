# TLA+ verification of the H5P server (h5p-server 10)

The repository is a TypeScript implementation of the server side of H5P: it
stores interactive *contents*, installs the *libraries* (content types) they are
made of, and serves an editor and a player. This directory holds TLA+ models of
its core logic, TLC configurations that check them on small instances, and
theorems checked by TLAPS. Paths below are relative to the repository root,
`src/src/...` being the implementation.

## 1. Inventory of the system

One Node.js process executes all requests in one thread. Code between two
`await`s is atomic; at every `await` on storage any other request may run. No
component uses transactions: what is on disk after a crash is whatever the
finished file operations left. Several processes may share the storage
directories. The host application authenticates users, calls the facade classes
(`H5PEditor`, `H5PPlayer`, `H5PAjaxEndpoint`, `LibraryAdministration`) and runs
the clean-up of temporary files on a timer.

| Component | State | Operations | Hard behaviour | What makes it correct |
|---|---|---|---|---|
| Content saving: `ContentStorer`, `ContentManager`, `FileContentStorage` | per content a directory with `h5p.json`, `content.json` and files | create/update, copy uploads and pasted files, delete unused files, delete | a save is ~10 storage calls; saves overlap, fail half way, crash; uploads expire | a stored reference resolves; no upload is lost; unused files go; referenced files stay |
| Temporary files: `TemporaryFileManager`, `DirectoryTemporaryFileStorage` | per user a directory of files with `.metadata` companions | add, open, delete, clean up expired files | file and metadata are written separately; clean-up runs against saves | expired files go; others stay; the clean-up survives crashes |
| Library installation: `LibraryManager`, `SimpleLockProvider`, `FileLibraryStorage` | per library `library.json` and files; a lock table | install, patch-update, roll back, consistency check | two nested locks whose time limits reject the caller while the work goes on; parallel copies; crash | an installed library is complete; two installations do not mix |
| Library cache: `CachedLibraryStorage`, `CachedKeyValueStorage` | cached answers with a time to live | read-through, invalidate on change | invalidation races with reads | no stale answer stays after an update |
| Content user data: `ContentUserDataManager`, `FileContentUserDataStorage` | one JSON file of user states and one of results per content | create/update, delete, invalidate | read-modify-write without locks | no user's state is lost or given to others |
| Content type cache and hub: `ContentTypeCache`, `ContentTypeInformationRepository`, `ContentHub` | cached list, time of last update, site uuid | refresh, register | two writes, concurrent registration | the list is as new as its time says; one registration |
| Library administration: `LibraryAdministration` | none of its own | list, delete, restrict | counts taken before the deletion are stale | a library in use is not deleted |
| Dependencies: `DependencyGetter`, `DependencyChecker`, `LibraryName`, `InstalledLibrary` | none | transitive closure, ordering, comparison | recursion with exclusions | closure is complete, order respects dependencies |
| Packages: `PackageImporter`, `PackageValidator`, `PackageExporter` | a temporary directory | unzip, validate, install all libraries, store content, export | partial failure in the pipeline | no content without its libraries |
| Scanning and enforcement: `ContentScanner`, `ContentFileScanner`, `SemanticsEnforcer` | none | walk the parameters along the semantics | tree recursion | every file reference is found exactly once, in order |
| Editor facade: `H5PEditor`, `H5PAjaxEndpoint` | none of its own | upload, save, list assets | combination of the above | |
| Player: `H5PPlayer` | none | collect assets, build the page | shared visited set | every dependency once, in order |
| Supporting code: names, URLs, configuration, translation, logging, rendering | values | formatting | none | |

Interactions: `H5PEditor.saveContentFile` puts an upload in temporary storage;
`H5PEditor.saveOrUpdateContentReturnMetaData` calls `ContentStorer`, which calls
`ContentManager` (permissions) and `TemporaryFileManager`; the two of them call
the storage classes. `PackageImporter` calls `LibraryManager` for every library
of a package and `ContentStorer` for its content. `LibraryManager` is used by
nearly everything, normally through `CachedLibraryStorage`. The full list of
hazards with their lines is in `PROJECT.json`.

## 2. Plan

| # | Module(s) | Subject | Checked | Proved |
|---|---|---|---|---|
| 1 | `ContentSave` | saving content against other saves, expiry, errors and crashes | yes | type correctness, every safety property |
| 2 | `LibraryInstall`, abstract `LibraryRegistry` | installations under two locks with time limits, rollback, crash; refinement of an atomic registry | yes | type correctness, every safety property of `lib_locked` and `lib_anything`, the refinement |
| 3 | `TemporaryFiles`, abstract `TemporaryStorage` | files with companions, clean-up, crash; refinement of the atomic storage that `ContentSave` uses | yes | type correctness, `Paired`, the refinement |
| 4 | `LibraryCache` | read-through cache, invalidation races, installations decided from cached answers | yes | type correctness, every safety property |
| 5 | `ContentUserData`, abstract `UserDataStore` | concurrent read-modify-write of user states, deletion per user; refinement of a table | yes | type correctness, every safety property, the refinement |
| 6 | `PackageServer` | imports, exports, deletions of libraries and contents that interleave | yes | type correctness, every safety property |
| 7 | `ContentTypeHub`, composed with 6 in `H5PServer` | refresh of cached lists, registration, writes that nobody awaits; installation from the hub | yes | type correctness, every safety property, and that the server implements both parts |
| 8 | `AssetLists`, `PackageValidator`, `ParameterTree`, together in `MCAlgorithms` | dependency walks, validation rules, scans of the parameters against reference definitions | yes | the lists of assets and the verdicts of the validation; `ParameterTree` is recursive and stays with TLC |

Every safety and action property of the runs is proved, but `ParametersAreComplete`,
which is about recursion over trees; that one and liveness stay with TLC (see *Reach
of the provers*). The algorithms of 8 are also checked over all small inputs.

How the modules fit together: `ContentSave` treats temporary storage as a set of
files that expire, which is `TemporaryStorage`, and `TemporaryFiles` is shown to
implement it. `PackageServer` and `PackageValidator` see of the installation of a
library its beginning, when `library.json` is written and the library counts as
installed, and its end, complete or failed; `LibraryInstall` details what is between.
`PackageServer` treats the creation of a content as one step, which `ContentSave`
details. `LibraryCache`
looks at the same installation from the side of the cache.

## 3. ContentSave

### Correspondence

`ContentSave.tla` models `ContentStorer.addOrUpdateContent`
(`src/src/ContentStorer.ts:72-170`) with everything it calls. The request's
local variables are the record `job[r]`:

| Model | Code |
|---|---|
| `job[r].refs` | the `parameters` object, reduced to its file references; it is mutated in place by the code and by the model |
| `job[r].todo` | `newFilesToCopy` / the pasted references still to be copied |
| `job[r].drop` | `filesInOldParams`, after the new parameters are scanned the unused ones among them |
| `job[r].dirty` | `filesWereChanged`/"references changed" of the copy loops |
| `job[r].again` | the second `createOrUpdateContent` |
| `disk[c].meta`, `.json`, `.file` | state of `h5p.json`, `content.json` and the files of the content's directory: absent, truncated or partly written, complete |
| `temp` | the temporary storage |
| `seen`, `home`, `named`, `issued`, `expired`, `copied`, `saves` | history and bounds; `copied` only serves the properties |

A *slot* is a place in the content's semantic structure where a file can be
referenced, in the order in which `ContentFileScanner` finds them. A reference
is empty, a plain file name, a name marked `#tmp`, or a relative path to another
content (the result of pasting).

One action is one stretch of code between two `await`s on storage:
`ReadOldParams`, `ReadOldMetadata` (lines 93-106), `MakeDirectory` ...
`WriteParameters` (`FileContentStorage.addContent`; `writeFile` is a truncating
open followed by the write), `OpenTemporaryFile`, `OpenPastedFile`,
`OpenContentFile`, `WriteContentFile` (the copy loops and `addFile`),
`CheckTemporaryFile`, `RemoveTemporaryFile` (`TemporaryFileManager.deleteFile`),
`EndCopy`, `DeleteUnusedFile`, `Finish`. `Reject`, `FailToStore` and `FailToCopy`
are the error paths; `createOrUpdateContent` asks for permission each time it is
called, and `addContentFile` for every file, so both can refuse in mid-save. The environment uploads, expires, deletes and crashes.
`FileContentStorage.createContentId` draws a number out of 2^32: drawn ids are
fresh in the model.

What the environment may do is a set of *freedoms*, here and in the other
modules. The constant `Environments`
is a collection of such sets, of which `Init` picks one for the whole behaviour
(the variable `env`). A property that needs a calmer environment says so itself,
so that one run checks several environments and a theorem names its condition:

| Freedom | Meaning |
|---|---|
| `parallel` | several saves may run at the same time (otherwise one after the other) |
| `overlap` | requests on one content may overlap, too (otherwise the host serialises them; saves of *unsaved* content may overlap with `parallel` alone) |
| `stale` | a client may submit an editor state older than the last save |
| `duplicate` | one upload may be referenced twice |
| `paste` | files of other contents may be pasted |
| `expiry`, `ioerror`, `delete`, `crash` | uploads expire, writes fail, contents are deleted, the process dies |
| `refusal` | the permission system refuses an undefined user |
| `noEdit` | the right to edit the content is missing where a save needs it: it is withdrawn during the save, or the user may create contents but not edit them |

### Runs

| Run | Contents, requests, files, slots, saves | Environments | Properties | Result |
|---|---|---|---|---|
| `save_oneByOne` | 2, 2, 2, 2, 3 | {parallel, duplicate, delete}, {parallel, paste}, {paste, expiry, ioerror, delete, refusal}, {crash, expiry, duplicate} | `NoUnusedFiles`, `StoredReferencesResolve`, `UploadsKept`, `ReferencedFilesStay` | hold |
| `save_anything` | 1, 2, 2, 1, 2 | all freedoms at once | `TypeOK`, `UploadLostOnlyIfCopied`, `SaveTerminates` | hold |
| `save_saveTwice` | 1, 2, 1, 1, 3 | {parallel, overlap} | `UploadsKeptBySavingTwice` | violated |

Two requests suffice for every race on one content, as a request only ever waits
for its own storage calls; two slots are the smallest number with an order among
references, with duplicates and with a temporary next to a pasted or plain
reference; three saves are a creation and two updates. Contents, requests and
file names are symmetric (no symmetry in the run with a liveness property).
`CHECK_DEADLOCK FALSE`: after `MaxSaves` saves the host is idle, which is no
error; that a save in flight is never stuck is what `SaveTerminates` checks. That
run has a spare file name, as a pasted file needs a new one.

The violation is a behaviour of the code that contradicts the comment at
`ContentStorer.ts:637-639`, which `PROJECT.json` "findings" quotes. A content is saved;
a file is uploaded in its editor, and two updates submit it at the same time. Both
read the old parameters before either has stored new ones, so neither sees "a file
with the exact name", and both list the upload for copying. The first copies it and
deletes it from temporary storage; the second finds it missing, clears the reference
and stores the parameters without it. Saves that follow one another keep the file
(`UploadsKept`).

The conditions in the properties are their limits, found by allowing one freedom
after the other:

* the parameters are stored before the files are copied: after a crash in between,
  a repeated save takes the file for already stored (`ContentStorer.ts:641-642`)
  and it is never copied. Hence `StoredReferencesResolve` and `UploadsKept` are stated
  without crashes.
* `NoUnusedFiles` fails with `refusal`: `deleteUnusedOldFiles` calls
  `deleteContentFile` without a user (`ContentStorer.ts:608`), so a permission
  system that refuses an undefined user makes unused files stay for ever. It also
  fails after errors, expired uploads and crashes, which leave copies behind.
* a failing write in an *update* removes the existing content with all its files
  (`FileContentStorage.ts:146-157`, although the doc at 114-116 says that all
  changes are reverted), which `FailToStore` models.
* with `overlap`, an update can delete a file that a simultaneous save references
  again, and a file pasted while its source content is still being saved can be
  copied incompletely; with `stale`, an upload can overwrite a file of the same
  name.
* with `duplicate` and failing copies, the second reference to an upload that was
  not copied stays.
* with `noEdit`, `addContentFile` refuses every file of a content that has just been
  created, and the references are cleared; or the second `createOrUpdateContent` is
  refused, and the parameters keep references to files that were not copied. The
  properties about references are stated without it.
* an upload that expires between the copy and the removal of the temporary file
  (`ContentStorer.ts:551`) is taken for a failed copy: its reference is cleared, the
  file stays in the content.
* a content that is deleted during a save is half created again by a copy that was
  under way (`FileContentStorage.ts:192`): files without `h5p.json`.
* a crash during the write of `content.json` leaves a content that can never be
  updated again (the old parameters do not parse), only deleted.

### Fairness

`SaveTerminates` assumes `WF_vars(SaveStep(r))` for every request: Node.js resumes the
continuation of every storage call that has returned, and storage calls return.
Nothing is assumed about the environment, nor that a save succeeds.

### Proofs

`ContentSaveProofs.tla` proves all safety properties of
the runs for all values of the constants (any number of contents, requests, files,
slots and saves, and every environment).

`TypeCorrect` (`Spec => []TypeOK`) and `NoUploadLost` (`Spec =>
[]UploadLostOnlyIfCopied`) follow from the inductive invariant `ContentSaveInv`. `TypeOK` alone is not
inductive: the actions dereference `disk[job[r].target]`, so the invariant
`SavesInProgress` adds that a save in flight has a target, and that one that is
copying has a slot and a file. `UploadLostOnlyIfCopied` needs that a request about to
remove a temporary file has completely written it (`job[r].file \in copied` at
`checkTemp` and `rmTemp`), which `WriteContentFile` establishes. There is one
lemma per group of actions; `NextStep` combines them. The proofs use
`ContentSaveAssumption` nowhere but for typing, and no fairness.

The second half of the module builds on that invariant: `ReferencesResolve`,
`DirectoriesAreTidy`, `SavesKeepUploads` and `ReferencedFilesAreKept` (the properties
`StoredReferencesResolve`, `NoUnusedFiles`, `UploadsKept`, `ReferencedFilesStay`), each
under the conditions it names. All of them concern
clients that save one after the other (`OneAfterTheOther`), so the inductive
invariant is `ContentFilesInv == ContentSaveInv /\ (OneAfterTheOther => FilesInv)`.
`FilesInv` says where every file that a reference names comes from, phase by phase:

* `Draft`: while a save reads the old content, its references name what is stored or
  what was uploaded in the editor of the content;
* `NoMarkers`, `TodoIsThere`, `DoneIsComplete`, `DropsUnused`: afterwards what it
  still has to copy is in temporary storage or has expired, what it does not have to
  copy is complete, and what it will delete is not referenced;
* `Phase`, `Copying`: what is in the directory at each program counter;
* `Resolved`, `Tidy`: the properties, extended to contents that the next save has
  begun to read (`Settled`). `StoredReferencesResolve` and `NoUnusedFiles` are not
  inductive: they say nothing between the first step of a save and the last;
* `Leftovers`, `Partials`: a file is both stored and temporary, or partly written,
  only while a save is at exactly this file; `PasteSources`: nobody writes to a file
  that another save is about to paste.

Most parts hold in some environments only (`NoCrash`, `NoFailure`, `Calm`), and each
says so, which makes the invariant one for all environments.
`OneSavePerContent` is what the condition on the clients buys: the steps of one save
leave the invariant of every other one alone but for pasted files.

Only model-checked: `SaveTerminates` (liveness).

## 4. LibraryInstall

### Correspondence

`LibraryInstall.tla` models `LibraryManager.installFromDirectory`
(`src/src/LibraryManager.ts:384-474`) with the whole of `isPatchedLibrary`,
`updateLibrary`, `installLibrary`, `copyLibraryFiles` and `checkConsistency`, the
operations of `FileLibraryStorage` they call, and the two locks they take. A
*library* is one major.minor version of a machine name; a *package* is a library
directory that is to be installed, with its patch version, the files its
`library.json` lists and those it contains.

| Model | Code |
|---|---|
| `disk[l].dir`, `.json`, `.meta`, `.file` | the library's directory; the state of `library.json` and the package it was written from; every other file, with its state and origin |
| `outer[l]`, `inner[l]` | the locks `install-from-directory:...` and `install-library:...`: who runs, who waits, in the order of arrival |
| `job[r].pc`, `.pkg` | how far request `r` is, and what it installs |
| `job[r].unread`, `.patch` | the loop of `listInstalledLibraries` inside `isPatchedLibrary` |
| `job[r].clear`, `.needs` | lists that `clearFiles` and `checkFiles` read before they act |
| `job[r].late`, `.orphan` | the time limit of the outer, the inner lock has been exceeded |
| `copy[r]` | the copies started by `copyLibraryFiles`; they outlive the request |
| `job[r].before`, `installs` | history for the refinement; bound |

`CheckInstalled`, `ListVersions`, `ReadVersion`, `DecidePatch` are the decision
under the outer lock; `AccessLibrary`, `UpdateOpen`, `UpdateWrite`, `ListFiles`,
`ClearFiles` the update, `MakeDirectory`, `AddOpen`, `AddWrite` the addition;
`CopyAccess`, `CopyOpen`, `CopyWrite` the steps of every `addFile`, interleaved;
`EndCopies` is `Promise.all`, which stops waiting at the first failure while the
other copies go on; then `CheckMetadata`, `CheckFiles` and, after an error,
`Rollback`, `RemoveFiles`, `RemoveDirectory`.

Locks are the package async-lock (external, modelled from
`src/src/implementation/SimpleLockProvider.ts` and how it is used): first come,
first served; a request that waits too long leaves the queue (`QueueTimeout`).
Exceeding the occupation time rejects the *caller* only: the work goes on and
keeps the lock until it ends (`OuterLimit`). If the inner lock's limit is exceeded
too, `installLibrary` throws, the callback of the outer lock ends and that lock
passes on, while the work under the inner lock continues (`InnerLimit`).

Not in the model: `clearFiles` removes its files in one step, `deleteLibrary` all
entries in one step; file names are not validated; `isInstalled` reads an error
of the file system as "not installed", here it only errs if the file is absent.

### Runs

| Run | Instance | Environments | Properties | Result |
|---|---|---|---|---|
| `lib_locked` | 1 library, 2 files, 2 patches each healthy or broken, 3 requests, 4 installations | {queueTimeout} | `InstalledIsComplete`, `NoTraces`, `Exclusive`, `SkippedIsComplete`, `ImplementsRegistry` | hold |
| `lib_anything` | 1 library, 1 file, 2 patches and a broken one, 2 requests, 3 installations | {queueTimeout, ioerror, crash}, all freedoms | `TypeOK`, `NoDowngrade`, `InstallTerminates` | hold |
| `lib_leak` | as `lib_locked`, 2 requests | {ioerror} | `NoTraces` | violated |
| `lib_sideBySide` | 2 versions of a library, 2 requests | {} | `PatchCheckAnswers` | violated |

The locks are per library, so one library shows all that requests do to each
other under them; two versions are needed only where the code looks at both
without a lock (`lib_sideBySide`). Three requests are one that holds a lock and
two in its queue. Two files are the least for one copy to fail while another
runs. Four installations are an addition, an update, a broken update and one more
that meets the result.

`ImplementsRegistry` maps the registry's table to the packages on disk, except
that a library being changed shows what it was before the changes
(`job[r].before`). So the two-lock, many-step installation is atomic to an
observer that asks under the lock: a new library appears when the consistency
check has succeeded, an update replaces the package in one step, a failed update
removes it.

Violations:

* `lib_leak`: when one copy fails, the rollback deletes the directory while other
  copies run; one that has passed its check creates the directory again. The
  test *aborts library installation that takes too long*
  (`src/test/LibraryManager.test.ts`) is disabled with a comment about a
  directory that is not empty when it is removed: the same kind of race.
* `lib_sideBySide`: while one version is being installed, the patch check of
  another version finds its directory without a readable `library.json` and
  throws a `TypeError` (`LibraryManager.ts:617`).

`Exclusive` says two things. No two requests are past the locks of one library at
once (`Changing`); this holds whatever fails. And no copies of one request are under way
in a library that another request changes; this holds only while storage works and
the process lives, as `Promise.all` (`LibraryManager.ts:761`) returns at the first failed
copy: the others outlive their request and its locks, and write while the next holder
works. `lib_locked`, with two files, checks both.

Limits of the passing properties:

* With failing storage only the locks exclude each other, not the writes: copies left
  over from a failed installation may put files of their version into what the next
  one installs.
* With the freedom `occupation`, `Exclusive` and `NoDowngrade` do not hold: after
  both limits the outer lock passes on while the first request still copies
  files; and a request that found no library waits for the inner lock of such a
  request and then writes an older `library.json` over it, as `addLibrary`
  swallows its own "already installed" error (`FileLibraryStorage.ts:121`). A
  late installation is also not undone, although the caller is told that it
  failed and the log says "Deleting the library."
* After a crash between the write of `library.json` and the last copy, the
  library counts as installed and stays incomplete: a request for the same patch
  skips it. Hence `InstalledIsComplete` and `SkippedIsComplete` are checked
  without crashes.

### Fairness

`InstallTerminates` assumes weak fairness of `InstallStep(r)` and of `CopyStep(r)`
for every request: storage calls return and their continuations are run. Waiting
for a lock is not assumed to end; it ends because the holder does. No time limit
is assumed to fire.

### Proofs

`LibraryInstallProofs.tla` proves, for any number of libraries, files, packages,
requests and installations:

* `InstallInvariant` and `TypeCorrect`: `Spec => []LibraryInstallInv`, `Spec => []TypeOK`;
* `MutualExclusion`: `Spec => []Exclusive`, the second half of it from the invariant of
  installations on working storage (below);
* `NeverDowngraded`: `Spec => NoDowngrade`.

The invariant has three parts, proved separately for every action. `JobInv`: a
request in flight has a package from `Packages`; past the outer lock it *holds*
it, unless the inner limit took it away (`OuterHeld`), which happens only in an
environment with `occupation`. `DiskInv`: a complete `library.json` comes from a
package. `CopyInv`: so does every running copy, also when its request is over.
That requests past the locks exclude each other follows from `OuterHeld`, as a lock
has one holder.

`NeverDowngraded` needs more: what a request has found out about the installed
version must stay true until it writes. `Relies(r)` states this per program
counter (after the patch check the installed version is older; on the way to
`addLibrary` nothing is installed), and `PatchStep` states that a step of `r`
changes only the version of its own library, and only past the outer lock.
`OthersRely` then uses the lock: the other requests past it have other libraries.

The second half of `LibraryInstallProofs.tla` builds on that invariant and proves
`InstalledLibrariesAreComplete`, `FailureLeavesNoTraces`,
`SkippedInstallationsAreComplete` and `RegistryImplemented` (the properties
`InstalledIsComplete`, `NoTraces`, `SkippedIsComplete`, `ImplementsRegistry`), also
for any number of libraries, files, packages and requests, under the hypothesis
`Faultless`: no environment has more than the freedom `queueTimeout`. This is what
the run `lib_locked` checks, and the hypothesis cannot be dropped: `lib_leak` refutes
`NoTraces` with `ioerror`, and a crash or an exceeded time limit leaves an incomplete
library (see the limits above). The invariant, for such behaviours:

* `AtPhase(j, d, c)`: what the directory `d` holds when a request with local state `j`
  and copies `c` works on it, for every program counter, from the new
  `library.json` over the copies that run (`CopiedSoFar`) to what the roll-back has
  left;
* `FreeLibraries`: a library that no request past the lock works on is absent or
  complete (`Settled`). This is what the next request finds;
* `CopiesAwaited`: copies run only while their request waits for them, which is the
  second half of `Exclusive`. It is false with `ioerror`, where `Promise.all` returns at
  the first failure;
* `Remembers`: the version a request found is older than the one it installs.

`OneAtWork` derives from the locks that only one request is at a library, so a step
of one request need only preserve its own phase. For the refinement each request has
a `View` of its library (what it was before, while it is being changed), `Arrives`
shows for every step that the view stays or changes as one installation of the
abstract registry does (`Transition`), and `Alone` that the other views stay.

Only model-checked: `InstallTerminates` (liveness).

## 5. TemporaryFiles

### Correspondence

`TemporaryFiles.tla` models `TemporaryFileManager` on top of
`DirectoryTemporaryFileStorage` file operation by file operation.

| Model | Code |
|---|---|
| `depth[u]` | how many of the directories `<user>` and `<user>/<media>` exist |
| `file[f]`, `meta[f]` | the file and its `.metadata` companion: absent, truncated or partly written, complete |
| `job[r]` | `saveFile`: `MakeUserDirectory`, `MakeMediaDirectory` (two `mkdir` calls), `OpenFile`, `WriteFile`, `OpenMetadata`, `WriteMetadata`; `deleteFile` of the manager: `CheckExists`, then a removal |
| `removal[a][f]` | `deleteFile` of the storage for a request or for the clean-up: `RemoveFile`, `RemoveMetadata`, then `deleteEmptyDirectory` for the two levels, each a `readdir` and an `rmdir` |
| `clean` | `cleanUp`: `listFiles` over all users (`BeginCleanUp`, `WalkDirectory`, `ReadMetadata`), `SelectExpired`, all deletions at the same time, `EndCleanUp` |
| `owner`, `known`, `old`, `deleted` | who uploaded a file, the names clients know, the files whose time is over, those their owners asked to delete |

Names are fresh: `addFile` draws 8 random characters. Reads change nothing and are
left out.

### Run, fairness and limits

`temp`: one user, two files, two requests and the clean-up; environments {},
{ioerror}, {crash}. `TypeOK`, `Paired`, `ImplementsTemporaryStorage` and
`ExpiredFilesGo` hold. One user is enough for the directory races, which are per
user; two files are the least for a directory that stays in use; two requests and
the clean-up give three concurrent actors on it.

`ImplementsTemporaryStorage` maps the storage to the files that are complete: a
file stays until it has expired or its owner deletes it, whatever overlaps, fails
or crashes. `FairSpec` assumes that storage calls return (`WF` of the steps of
requests and removals) and that the host calls `cleanUp` again and again (`WF` of
`CleanUpStep`): the package itself never calls it, it offers it to a timer of the
host. As file names are finitely many,
uploads pause some time, which `ExpiredFilesGo` needs: a clean-up fails if it meets a
file whose companion is still being written.

`ExpiredFilesGo` and `Paired` are stated without failed writes and crashes. After
either, a file may lack its companion, and then `listFiles` rejects: every later
clean-up fails, for the files of all users. No clean-up repairs this.

### Proofs

`TemporaryFilesProofs.tla` proves, for any number of users, files and requests and
every environment, `TypeCorrect`, `FilesArePaired` (`Paired`) and
`TemporaryStorageImplemented` (`ImplementsTemporaryStorage`). In the inductive
invariant `TemporaryFilesInv`, `Uploads` says how far the file and its companion are
at each step of an upload, whose name nobody else knows yet (`Names`); `Removals` that
only files are removed that their owner deleted or that have expired, which is what
the refinement needs; `Companions` that without failures the two differ only while an
upload or a removal is between them, which `Paired` is the quiet case of.
`TemporaryStorageImplemented` maps every action to an upload, an expiry, a deletion
or a stutter of the abstract storage. Only model-checked: `ExpiredFilesGo` (liveness).

## 6. ContentUserData

### Correspondence

`ContentUserData.tla` models `ContentUserDataManager` and
`FileContentUserDataStorage`. `disk[f]` is the JSON file of states or of results
(`finished`) of a content, as the entries it holds and whether it parses: `empty`
is a file another request has just truncated, `mixed` what two overlapping writes
of different lengths leave. An entry has a user, a slot (data type, sub-content and
context) and the flags `invalidate` and `preload`. Every operation is a `Begin` with
the permission check and then, per file it concerns, `ReadToWrite`, `OpenFile` and
`WriteFile`, or `RemoveFile`, or `ReadToAnswer`; `FailToWrite` and `FailToRemove` are
only logged, as in the code. `Rights` is the permission system: who may act for whom.
`job[r].user` is the user whose entries the storage is asked for, `job[r].forUser` the
one that a deletion is meant for.

### Run and limits

`userData`: two contents, two users of whom one may act for the other, three
slots, five entries that differ in one field each, two requests at a time and
three in all; environments {readers}, {readers, ioerror, crash}, {overlap,
ioerror, crash}. Two requests are enough for a lost update; the third makes the
file they find. `TypeOK`, `OnlySubmitted`, `ImplementsUserDataStore` and
`UserIsForgotten` hold.

`UserDataStore` is a table of entries, one per user and slot, that each request
changes in one step. It promises less in worse environments, and says what: with
`ioerror` or `crash` a whole file may be lost, never single entries; with
`readers` a read may see an empty file; with `overlap` it promises nothing, and only
`OnlySubmitted` is left. Limits found:

* requests on one file that overlap lose states, of other users too: the file is
  read, changed and written without a lock, and one that does not parse counts as
  empty (`FileContentUserDataStorage.ts:117`).
* the doc of `deleteAllContentUserDataByUser` promises to delete the states of
  `forUserId`, "the user for which the contentUserData object should be deleted"
  (`ContentUserDataManager.ts:33-37`), but the code hands the *acting* user to the storage
  (line 67): an administrator who forgets a user loses their own states instead, and
  those of the user stay. The model does the same, so `UserIsForgotten` is stated for
  users who delete their own data, where the two agree.
* an entry may be sent by another user with the right to act for its user.
  `OnlySubmitted` says that it was sent, permitted, for this user, slot and content.
* `saveOrUpdateContent` deletes the invalidated states before the new version is
  stored (`H5PEditor.ts:816`); if storing fails they are gone.
* nothing keeps a state from being stored after its content was deleted.

`UserIsForgotten` says that a deletion by users of their own data is done with a file
only if that file then holds no entry of theirs, whatever other requests do, unless
the write to it failed; a request that overlaps may write entries afterwards.

### Proofs

`ContentUserDataProofs.tla` proves `TypeCorrect`, `OnlySubmittedHolds`,
`UserForgotten` and `UserDataStoreImplemented` for any number of contents, users,
slots, entries and requests and every environment; the constants are assumed to be
non-empty, as `IdleJob` chooses from them. The inductive invariant is `UserDataInv`:
`Jobs` (what a request has read of a file was submitted for this file), `Unparsed` (a
file that does not parse holds nothing), and, in environments without `overlap`,
`Apart` (two requests that write have no file in common) and `Unchanged` (a file is as the
request has read it until it is truncated, and empty until it is written). The last
is what makes read, change and write one step of the abstract table: the refinement
lets this step happen at the write, and a failure or a crash between the truncation
and the write lose the list, which the table names as such.

## 7. LibraryCache

### Correspondence

`LibraryCache.tla` models `CachedLibraryStorage`, with what `LibraryManager` and
`LibraryAdministration` do through it. `store` is the storage behind it (the patch
and the flag `restricted` of `library.json`, and the patch each file comes from),
`cache[k]` one entry per key of `CachedLibraryStorage`. `job[w]` is a change: `pc` is
the next thing its code awaits, a storage call or the deletion of a key; keys that are
deleted with one `Promise.all` are `keys`, the copies of files and the deletions after
them `copy`. A read that misses is two steps, `Miss` (the storage answers) and `Fill`
(the answer is put into the cache). `tainted` is history: the keys whose entry was
read while another request changed something.

| Model | Code |
|---|---|
| `Decide` | the decision of `installFromDirectory`: `libraryExists`, then `isPatchedLibrary` over the list of names and the metadata of each, all cached |
| `AddLibrary`, `UpdateLibrary`, `ClearFiles`, `DeleteLibrary`, `UpdateAdditionalMetadata` | the methods of the cached storage; `StorageAdd` runs beside the deletions of `addLibrary`, which awaits it last |
| `StartCopies`, `StorageAddFile`, `DeleteFileCache` | `copyLibraryFiles`, each file with `addFile` of the cached storage |
| `CheckConsistency` | `checkConsistency`, one step that reads cached answers; `needs` are the files the package's `library.json` lists. If it fails, the library is deleted (`LibraryManager.ts:817-825`, `897-904`) |
| `BeginAdministration` | `checkLibrary` of `LibraryAdministration`, answered from the cache |

Installations and deletions run one at a time (`Free`): installations of one library
hold its lock, which `LibraryInstall` models, and the model has no deletion of a
library that is being installed, although no lock prevents one. With `restrict` an
administrator may restrict a library at any moment.

### Run and limits

`cache`: one library, which is an addon, with one file, which is a language file
(so every kind of key exists), two patches, one reader, two changes at a time,
three in all, one miss; environments {}, {readers}, {restrict}. Changes read through
the cache themselves, so entries arise without a miss of a reader. Three changes are
an installation, an update or deletion, and another installation that decides on
what the cache says about it. `Fresh`, `FilesMatchMetadata` (no library has files of
two patches) and `CheckSucceeds` (the check after an installation is not misled by an
old entry) hold; type correctness is proved.

`Fresh` says that what was read in quiet is never stale afterwards, in every
environment. Limits:

* an answer that was read during a change may be stored after the deletion of its
  key, and stays for the time to live (a day by default). If it is "not
  installed", the next installation calls `addLibrary` for a library that is there
  (and whose error it swallows), and the metadata stay stale.
* the same answer, or "no such file", stored while a library is installed makes its
  consistency check fail, and the complete library is removed again.
* `addLibrary` deletes the keys while the storage call still runs
  (`CachedLibraryStorage.ts:76-90`).
* no update deletes the key of the languages.
* `updateLibrary` drops the flag `restricted`, and `updateAdditionalMetadata`
  (`FileLibraryStorage.ts:468`) may write the patch it has read over a newer one, so
  `FilesMatchMetadata` is stated without `restrict`. It also deletes no entry of the
  list of addons, of which the model only has the patches.
* `getLibrary` localises and `listLanguages` appends to the cached objects
  themselves (`LibraryManager.ts:259-275`, `649-652`). The model has values, not
  references, so it does not show this.
* the time to live is not modelled: an entry that ends early is one deletion more.

### Proofs

`LibraryCacheProofs` proves `TypeOK`, `Fresh`, `FilesMatchMetadata` and
`CheckSucceeds` for any number of libraries, files, readers and changes and any
environments, also those that allow reads and restrictions at once. `Fresh` is not inductive: it says nothing while a
change runs. `CacheInv` says what holds meanwhile:

* `StaleIsDue`: an entry that is not what the storage answers is one that the change
  that made it so has still to delete (`Due`, read off the position in the code). When
  nothing runs nothing is due, which gives `Fresh`.
* `DeletedStays`: a change may make a key stale although it has deleted it before
  (`addLibrary` deletes while the storage still works, `addFile` makes the list of
  files stale that `clearFiles` has deleted). Such a key (`Gone`) has no entry
  meanwhile, or a tainted one.
* `NoMetadata`: a library that is not installed has no cached metadata, unless its
  deletion is about to remove them. `addLibrary` relies on this: it does not delete
  that key.
* `AddonsInv`: a restriction writes the patch it has read. If that is another one by
  now, the list of addons, which it does not delete, is absent or due.
* `ReadersInv`: an answer under way that overlaps with no change is still right.
* `MatchInv`: without overlaps nothing is tainted, a change that adds finds no library
  (which follows from `StaleIsDue`, as nothing is due when it decides), and every
  library has the files of its patch unless it is between the update of its
  `library.json` and the removal of its old files.

`CheckSucceeds` follows as nothing is due at the check, so the cache answers like the
storage (`Reliable`), which has the library and, by `JobInv`, the copied files.
Every step is an instance of one of four lemmas: `Invalidation` deletes keys,
`Storing` changes one library and leaves what it makes stale due or gone,
`Consulting` reads through the cache, `Quiet` is a step of no change.

## 8. PackageServer, ContentTypeHub and H5PServer

### Correspondence

`PackageServer.tla` models `PackageImporter.processPackage` with the parts of
`ContentStorer` it calls, `PackageExporter.createPackage`, the deletion of contents
and `LibraryAdministration.deleteLibrary` with its counts. `installed` are the
libraries, `content[c]` the directory of a content with the libraries its `h5p.json`
names, the files its parameters refer to and those it has, `dirs` the unpacked
packages, `temporary[r]` the files an import for the editor left. Steps that
`Promise.all` starts together (installations, copies) interleave, and go on after
the first failure while the request itself proceeds to `Undo` and `Clean`.

| Model | Code |
|---|---|
| `job[r].libs`, `.changing` | installations of an import that wait for their lock, and those that hold it |
| `SkipLibrary`, `BeginInstall`, `CompleteInstall` | `installFromDirectory`: the library is there; its `library.json` is written, by `addLibrary` or `updateLibrary`, and it counts as installed from here on; all its files are copied |
| `FailToInstall` | a new library is rolled back, and one that should be updated is deleted (`LibraryManager.ts:817-825`, `897-904`), unless the deletion fails, too |
| `FailToBegin`, `FailToList` | a lock is not free in time; the library cannot be read from the package; `listInstalledLibraries` throws because of a directory without a readable `library.json` (`InFlux`, see `lib_sideBySide`) |
| `ListInstalled`, `CheckRequired` | `getNotInstalledLibraries`, without a lock: the names, then each `library.json` |
| `Undo`, `FailToUndo` | `deleteContent` after a failed copy, which may be refused (`ContentManager.ts:173-188`) or fail |
| `FailToImport` at `create` | `addContent` removes the content it cannot write, one that existed before, too (`FileContentStorage.ts:146-157`) |
| `Resolve` | `DependencyGetter`, which takes every library it fails to read for a missing one (`DependencyGetter.ts:86-92`) |
| `lost`, `job[r].steady` | history: libraries whose last installation or removal failed half-way; libraries an export has always found installed and untouched |

`ContentTypeHub.tla` models `ContentTypeCache`, the part of
`ContentTypeInformationRepository` that installs from the hub, and `ContentHub`.
`list` and `listTime`, `meta` and `metaTime` are pairs of keys in the key-value
storage; `uuid` and `saved` the identity of the site in memory and on disk; `writing`
the writes of `ContentHub` that nobody awaits. Contents of lists are versions. The
hub is external.

`H5PServer.tla` composes them: `InstallContentType` hands a downloaded package to
the importer. `focus` chooses per behaviour whose requests are made, as the two
share nothing else.

### Run

`packages`: a content type, the library it loads, and its editor widget, which
loads the content type (the circular case of the code's count); one content, two
files, two requests; a complete package, one without its dependencies that refers to
a file it lacks, one that is not valid; the hub with two queries and two versions. The
server is new at first, or one package has been imported, so two requests are enough
for an update of a library, an export or a deletion next to an import. When the hub is
in focus the server is new. Environments of the packages: {ioerror, undoFails}, {crash,
sameContent}, {deleteLibrary}, and {} beside the hub; of the hub: {}, {lateWrites,
crash}, {overlap, ioerror, crash, lateWrites}. With `ioerror` a step of an import may
fail, any one, a removal of a library may fail half-way, and so may any number of reads
of an export or deletion; with `undoFails` the deletion of a content may be refused or
fail. Nothing has to fail, so these behaviours include those without failures.
Requests are symmetric; about 1.3 million states.

| Property | Says |
|---|---|
| `ContentHasItsLibraries` | a content has the libraries its `h5p.json` names, but for lost ones |
| `DependentsKeepTheirLibraries` | no deletion takes a library from one that depends on it, unless a failed or interrupted installation does |
| `ImportIsAllOrNothing` | success: stored with all files; error: of the content that was created no `h5p.json` is left, if it can be deleted |
| `ExportsCanBeImported` | an exported package has what another server needs, of the libraries that nothing happened to meanwhile |
| `PackagesAreCleanedUp` | no unpacked package stays, unless the process stops |
| `UpdateTimeHasList` | a time of update without a list does not exist |
| `OneIdentity` | the site registers once, even across restarts |
| `MetadataIsAnswered` | a query is answered with metadata, if writes are done by then |

All hold. A server with a content meets an import beside an export, beside a deletion
or beside another import, so each of the read-then-act pairs of the code meets a change
in between.

### Limits

* the import checks the libraries that `h5p.json` names, never the dependencies of
  the libraries themselves.
* a patch update that fails removes the library that was installed
  (`LibraryManager.ts:897-904`) without counting who uses or depends on it, and a new
  library that another import has seen while it was being copied may be rolled back
  after that import has checked its requirements. In both cases contents lose
  libraries, which is why `ContentHasItsLibraries` and `DependentsKeepTheirLibraries`
  exempt `lost`.
* a copy that fails in an update by package deletes the content that existed
  before (`ContentStorer.ts:247-250`), as does an `addContent` that fails, and a copy that
  is still under way makes its directory again afterwards
  (`FileContentStorage.ts:178-194`).
* `ContentStorer.ts:249` deletes the content with the permission check of the user. Who may
  create contents but not delete them leaves what a failed import has created;
  `ImportIsAllOrNothing` exempts the imports for which this happened (`kept`).
* the unpacked package is removed while other installations still read from it
  (`PackageImporter.ts:380`); they fail, and their libraries are removed.
* a library directory without a readable `library.json` (one being written, or what a
  crash or half a removal left) makes the validator, the check of the requirements
  and the counts of `deleteLibrary` fail for everybody.
* `deleteLibrary` counts and then deletes (`LibraryAdministration.ts:36-45`): with
  `deleteLibrary`, an import gets in between. `getAllDependentsCount` does not
  count dependencies that are circular through the editor.
* the exporter follows preloaded and editor dependencies, not dynamic ones, and a
  library it cannot read it silently leaves out, with all that this one loads.
* temporary files of an import that failed stay until they expire.
* the writes of `ContentHub` are not awaited, and `if (cached)` tests a promise
  (`ContentHub.ts:53-55`, `90-91`, `100-101`): a time without data answers nothing.
* the identity is set before it is saved, and a save that failed is not repeated
  before the next start (`ContentTypeCache.ts:242-243`); overlapping queries register
  twice. `OneIdentity` excludes both.

### Proofs

`H5PServerProofs.tla` proves all properties of the run, for any number of requests,
queries, packages, libraries, contents and files, any dependencies, and every
environment. The proof follows the composition. `ServerImplementsPackages` and
`ServerImplementsHub` show that the server, seen from either side, does only what
`PackageServer` and `ContentTypeHub` may do: `InstallContentType` is an
`InstallPackage` of the hub and at the same time one of the imports users may ask
for. So each side has its own inductive invariant, and what it promises holds in the
server.

`HubInv` (theorem `HubInvariant`): `Lists`, a list was received before it is saved and
saved before its time, gives `UpdateTimeHasList`. `Identity`: the identity in memory is
the one on disk but while it is being saved, and only the one on disk has been used,
gives `OneIdentity`, with `OneQuery`. `Metadata`: if the time of the metadata is there
or about to be written, so are the metadata.

`PackageInv` (theorem `PackagesInvariant`): `RequestInv` says of the local state of a
request, the installed libraries and the contents what its next step relies on:

* `RequirementsMet`: what an import has checked is still there or lost when it creates
  its content, and `DeletionSafe`: a deletion has seen that no content needs the library,
  but those whose ids it still has to look at, and when it deletes, no library
  depends on it either. Together with `DeletionAlone` (outside `deleteLibrary` nothing
  else runs during a deletion) they make `ContentHasItsLibraries` inductive and give
  `DependentsKeepTheirLibraries`.
* `ExportComplete`: in the walk of the exporter, what the content needs is seen or
  still to be visited, and what a seen library loads is, too, as far as nothing has
  happened to it (`steady`). At its end this is `ExportsCanBeImported`.
* `Progress`: which files of the package the content has, or a copy that is under way
  will bring; `ImportIsAllOrNothing` is its last case. It needs
  `OneRequestPerContent` (outside `sameContent`), and exempts what could not be deleted
  again (`kept`).
* `Directories`: an unpacked package belongs to an import that is not done, for
  `PackagesAreCleanedUp`.

Assumed of the constants: the dependencies are functions on the libraries, packages
have their type, and the value that stands for "no content" is not a content.

## 9. AssetLists, PackageValidator and ParameterTree

### Correspondence

`AssetLists.tla` follows a content through `DependencyGetter` and `H5PPlayer` (the
stages `save`, `load`, `order` and `played`), or a library through
`H5PEditor.listAssets` (the stage `editor`). The functions are recursive; the model has
the calls still to be made instead:

| Model | Code |
|---|---|
| `todo` | the calls that `addDependenciesRecursive` and `aggregateAssetsRecursive` still make, the next one first: a `root` has the list of libraries not to be added, a `call` has not, a `return` stands for the code after the calls for the dependencies |
| `list` | the set `libraries` of the former, the assets of the latter, library by library |
| `named` | the preloaded dependencies that `generateContentMetadata` puts in `h5p.json` |
| `flights`, `loaded` | the promises of `getMetadataRecursive`, a bag that is answered in any order, and what it has loaded |
| `begun` | what `aggregateAssetsRecursive` was called for |
| `call[l]` | the call of `listAssets` for `l` that did not return `null`, with its three branches: what each has not begun, what it awaits, what it has got |
| `answer` | the assets the player or the editor is given |

A content is saved only if its main library is installed: `generateContentMetadata`
reads its metadata first.

`PackageValidator.tla`: the rules in their order, `throwErrorsNowRule` between
them, one validation per library directory with all of them interleaved, the
library that is skipped because it is installed, and the installation afterwards, with
its beginning and its end as in `PackageServer`. Whether an installed library is
replaced by a patch is asked twice, by the validator without a lock and by
`installFromDirectory` under it. The former throws if any directory of that name has no
readable `library.json` (`LibraryManager.ts:617`), which ends the validation: the error
"unreadable", possible while an installation runs or after a removal (`InFlux`). What
is installed at first came through a validation, so it is well-formed. `removed` are
libraries that were deleted by an administrator or a failed installation, `unchecked`
those of them that had been found installed by an import with a faulty directory.

`ParameterTree.tla`: `ContentScanner`, `ContentFileScanner`, `SemanticsEnforcer`,
`findLibrariesInParameters` and `shortenFilenames` on trees of parameters.

### Run

`algorithms` is one run for all three (`subject` chooses), as they share no state;
about 1,100,000 states. The idle variables of the other two keep their initial values.

| Property | Inputs | Reference |
|---|---|---|
| `PlayerListIsComplete`, `EditorListIsComplete`, `MetadataNamesAll` | all graphs of three libraries with up to two dependencies of a kind, circular ones and a missing library included; all orders of promises | least closed set; order of preloaded dependencies |
| `VerdictsAreRight` | a valid package, a patch, and for every rule a package that breaks it; two imports, failures and a deletion that overlap | `WellFormed`, `WithinLimits` |
| `ParametersAreComplete` | trees with libraries (allowed and not), lists, groups of one and of several fields, media, cropped images, long names; all references | the slots and elements of a tree, whatever its semantics |

### Limits

The conditions in the properties are, again, what the code does:

* the editor's order of assets depends on timing as soon as a library has editor
  dependencies or addons; a missing library makes the editor's list fail, while the
  player leaves it out.
* `doNotAdd` is forgotten one level down, so a content whose dependencies lead back
  to its main library names that one twice in `h5p.json`.
* `H5PPlayer` removes duplicates of objects with a `Set`, which removes none
  (`H5PPlayer.ts:212-230`), and a missing main library is a `TypeError` (238-244);
  the model starts from what is installed.
* a required core version with a zero in it counts as none; the total size is not
  limited unless single files are; preloaded and language files are looked for under
  the ubername only; a missing `library.json` ends the validation with a plain error.
* a library that is removed after its directory was skipped is installed from that
  directory without validation (`unchecked`).
* a package that is not faulty is refused if the patch check throws beside another
  import or after a removal; `VerdictsAreRight` allows this only then.
* a directory may have the machine name for its name (`PackageValidator.ts:767-770`),
  but if such a library preloads files they are looked for under the ubername, and the
  package is refused.
* the enforcer leaves what a list holds directly: deleting by name changes no array.
* a file with a long name that is referenced twice gets two new names, and only the
  last is in the package (`PackageExporter.ts:303-317`).

### Proofs

The hypotheses of the theorems are `AssetListsAssumption` and
`PackageValidatorAssumption`, which say of what type the constants are; TLC evaluates
both in the run.

`AssetListsProofs.tla` proves `MetadataIsComplete`, `PlayerIsComplete` and
`EditorIsComplete` (the properties `MetadataNamesAll`, `PlayerListIsComplete` and
`EditorListIsComplete`) for any number of libraries and any dependencies, circular and
missing ones included. Where the run compares a list with the least closed set of a
graph of three libraries, the proof needs two facts about `Reached`: it is closed
(`ReachedClosed`), and it is in every closed set (`ReachedLeast`). So each walk has an
invariant that says which of the two it owes to what it has done and which to what it
has still to do.

The walks of a content have `WalkInv`:

* `SaveInv`: all that is to be visited comes from something that is reached
  (`VisitsAreNamed`), and what a listed library preloads is listed or still to be
  visited (`ListIsNamed`). The exception is the main library, which is not listed when
  it is the root: its own visit is pending, or its dependencies are.
* `LoadInv`: what is wanted, or preloaded by what is loaded, is loaded or in flight
  (`LoadingInv`). An answer in any order keeps this; with no flights left it says that
  `loaded` is closed.
* `OrderInv`: the calls that have to return are a chain, each library reached from the
  ones it is nested in (`ItemInOrder`, with `Below`), so without circles what a library
  preloads is not among those it is nested in, and has been listed when it is
  (`ListInOrder`).

The editor has `EditInv`. Its three branches go on at the same time, and what one has
begun the others do not wait for, so a list is complete for another reason:

* `CallsAreNeeded`: calls are made for what is reached, and for all of it;
* `CallsAreAwaited`: one branch awaits a call, and no set of active calls without the
  main library is closed under waiting. That there is no circle is what makes every
  library end up in the list of the main one;
* `CallsAreHeld`: each library that is done is in the list of one branch, and once. When
  the main library is done nothing else is active, so it holds all;
* `CallsAreNested` and `HeldInOrder`, for graphs without circles, editor dependencies
  and addons (`Straight`): the calls are a chain again, and what a library preloads is
  held before it or by a library it is nested in. The latter could not be where a
  branch runs next to another, which is why the order depends on timing in general.

The lemmas of the editor are about the calls `c` in any state of theirs, so that one
action is taken apart into the steps of its branches (`GoesOn`, `TakesOver`, `Returns`).

`PackageValidatorProofs.tla` proves `ValidatorInvariant` and from it `ValidatorSafe` (the
property `VerdictsAreRight`) for any number of imports, libraries, packages and limits.
`DirectoryInv` says what the validation of a directory has found out at each of its
stages, `Validated` what the import as a whole relies on, `Verdict` what the rules that
were passed have shown. The validation reads what is installed while other imports
change it: what was skipped stays `Covered`, in its patch or a later one, until it is
removed, as installations only replace a library by a later patch (`Grows`). That
is why a faulty directory that was skipped is not installed afterwards, unless its
library is `unchecked`. `Disturbed` is what a refusal as "unreadable" needs, and it stays.

Only model-checked: `ParametersAreComplete`.

## 10. Not modelled

* Formatting without state: URLs, HTML, translations and their localisation of
  titles and semantics, logging, rendering, byte ranges.
* Data with a verdict: zip archives and JSON schemas are valid or not, a text
  conforms or not, what `sanitize-html` removes is external; file names are model
  values, so sanitising them is not modelled, and generated ones are fresh.
* Hooks of the host (file sanitisers, malware scanners, permission systems): they
  can reject, which is an action or a constant of the models.
* `H5PAjaxEndpoint` dispatches to the operations above after checking the shape of a
  request; it has no state.
* Several processes on one storage directory: the locks and the model of the cache are
  those of one process. The storages for MongoDB and S3 are packages of their own with
  the same interfaces.

The status of every component is in `PROJECT.json`.

### Reach of the provers

Liveness (`SaveTerminates`, `InstallTerminates`, `ExpiredFilesGo`) is checked by TLC
only, as it needs `ENABLED`. `ParameterTree` uses recursive operators on trees, and what
they compute is induction over data, which the provers cannot do: its property
`ParametersAreComplete` is checked by TLC only. The recursion of `AssetLists` is over
graphs and returns through lists of calls, so its properties are invariants of these
lists. No module with theorems uses `ParameterTree`; `MCAlgorithms`, which does, only
instantiates it for TLC. Every inductive invariant was checked by TLC on the bounds of the
component's run before it was proved.

## 11. Files

`X.tla` is a component, `MCX.tla` its instances for TLC, `MCX_<run>.cfg` a run,
`XProofs.tla` its theorems; `LibraryRegistry`, `TemporaryStorage` and `UserDataStore`
are abstract specifications. `CHECK_DEADLOCK FALSE` everywhere: requests are bounded,
and a server without requests is idle, which is no error. Operators commented
"mutant" in a component are deliberately wrong variants of the definition they stand
next to; they are used to test that the properties can fail, never by `Next`.
