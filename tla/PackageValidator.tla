--------------------------- MODULE PackageValidator ---------------------------
(***************************************************************************)
(* PackageValidator: what decides whether an uploaded package is accepted. *)
(* Its rules run one after the other (ValidatorBuilder), but the libraries *)
(* of a package are validated at the same time, with one list of errors,   *)
(* and those that are installed already are skipped: imports that overlap  *)
(* change what is installed while a package is validated and installed.    *)
(***************************************************************************)
EXTENDS Naturals, FiniteSets, FiniteSetsExt

CONSTANTS
  PackageLibraries, \* the libraries that packages may hold
  Imports,   \* imports of packages, each is made once
  Packages,  \* what may be uploaded, see Package
  Scenarios, \* what a behaviour begins with, see Scenario
  Core,      \* coreApiVersion of this server, a pair
  Nothing

\* A directory of a package with all a rule tells apart.
Directory == [
  name     : {"ubername", "machineName", "other", "illegal"},
  metadata : {"valid", "malformed", "missing"},  \* library.json
  library  : PackageLibraries,
  patch    : Nat \ {0},
  core     : Nat \X Nat,                         \* coreApi that it requires
  preloads : {"none", "present", "missing"},     \* preloadedJs and preloadedCss
  language : SUBSET {"badName", "badJson"}]      \* flaws of its language files

Package == [
  sizes       : SUBSET Nat,                      \* of its files
  extensions  : SUBSET {"content", "libraries"}, \* where one is not on the whitelist
  metadata    : {"valid", "malformed", "missing"},  \* h5p.json
  content     : {"valid", "malformed", "missing"},  \* content/content.json
  directories : SUBSET Directory]

Older(v, w) == v[1] < w[1] \/ (v[1] = w[1] /\ v[2] < w[2])

\* Reference: what the rules about a library are there for, with what they are known to
\* miss: the language files in a directory with the machine name.
WellFormed(d) ==
  /\ d.name \in {"ubername", "machineName"}
  /\ d.metadata = "valid"
  /\ d.core[1] = 0 \/ d.core[2] = 0 \/ ~Older(Core, d.core)
  /\ d.preloads # "missing"
  /\ d.name = "ubername" => d.language = {}

\* The limits are maxFileSize and maxTotalSize of the configuration, 0 for none.  What is
\* installed came through a validation.
Scenario == [limits    : [file : Nat, total : Nat],
             installed : [PackageLibraries -> {d \in Directory : WellFormed(d)} \cup {Nothing}],
             packages  : SUBSET Packages]

PackageValidatorAssumption ==
  /\ Core \in Nat \X Nat
  /\ Nothing \notin Directory
  /\ Packages \subseteq Package
  /\ Scenarios \subseteq Scenario

VARIABLES
  scenario,   \* chosen once
  installed,  \* installed[l]: the directory l was installed from, Nothing if it is not
  removed,    \* libraries that were removed, each is removed at most once
  unchecked,  \* those a directory that is not well-formed may come back for, see Removes
  import      \* import[i]: the local state of an import

validatorVars == <<scenario, installed, removed, unchecked, import>>

\* unreadable: not an error of the package, the installed libraries could not be listed
Errors == {"sizes", "extension", "metadata", "content", "name", "core", "mismatch", "preloads",
           "language", "unreadable"}

Stages == {"waiting", "read", "exists", "rules", "skipped", "valid", "failed"}

Import(p) == [pc : {"new", "sizes", "content", "libraries", "install", "refused", "done"},
              package : {p},
              checks : SUBSET {"content", "libraries"},
              stage : [p.directories -> Stages],
              install : SUBSET p.directories,   \* to be installed
              changing : SUBSET p.directories,  \* being installed under their locks
              errors : SUBSET Errors]

NewImport == [pc |-> "new", package |-> Nothing, checks |-> {}, stage |-> <<>>, install |-> {},
              changing |-> {}, errors |-> {}]

-----------------------------------------------------------------------------
ValidatorInit ==
  /\ scenario \in Scenarios
  /\ installed = scenario.installed
  /\ removed = {} /\ unchecked = {}
  /\ import = [i \in Imports |-> NewImport]

At(i, pc) == import[i].pc = pc
Becomes(i, new) == import' = [import EXCEPT ![i] = new]
Checks(i, what) == what \in import[i].checks

\* processPackage validates content only if it is copied and libraries only if the
\* user may install them.
Begin(i, p, checks) ==
  /\ At(i, "new")
  /\ Becomes(i, [pc |-> "sizes", package |-> p, checks |-> checks,
                 stage |-> [d \in p.directories |-> "waiting"], install |-> {},
                 changing |-> {}, errors |-> {}])
  /\ UNCHANGED <<scenario, installed, removed, unchecked>>

Refuse(i, errors) ==
  Becomes(i, [import[i] EXCEPT !.pc = "refused", !.errors = @ \cup errors, !.stage = <<>>])

\* throwErrorsNowRule
Proceed(i, errors, pc) ==
  IF errors # {} THEN Refuse(i, errors) ELSE Becomes(i, [import[i] EXCEPT !.pc = pc])

\* The sizes are added up only if there is a limit for single files.
TooLarge(sizes) ==
  \/ scenario.limits.file # 0 /\ \E s \in sizes : s > scenario.limits.file
  \/ scenario.limits.file # 0 /\ scenario.limits.total # 0 /\ SumSet(sizes) > scenario.limits.total

FileSizeMustBeWithinLimits(i) ==
  /\ At(i, "sizes")
  /\ Proceed(i, IF TooLarge(import[i].package.sizes) THEN {"sizes"} ELSE {}, "content")
  /\ UNCHANGED <<scenario, installed, removed, unchecked>>

\* The rules about extensions collect their errors, the later ones throw them.
ContentErrors(p, checks) ==
  LET extension == IF p.extensions \cap checks # {} THEN {"extension"} ELSE {} IN
  IF "content" \notin checks THEN extension
  ELSE IF p.metadata # "valid" THEN extension \cup {"metadata"}
  ELSE IF p.content # "valid" THEN extension \cup {"content"}
  ELSE extension

ValidateExtractedPackage(i) ==
  LET p == import[i].package IN
  /\ At(i, "content")
  /\ Proceed(i, ContentErrors(p, import[i].checks), "libraries")
  /\ UNCHANGED <<scenario, installed, removed, unchecked>>

-----------------------------------------------------------------------------
(* librariesMustBeValid: one call of validateLibrary per directory *)

Stage(i, d, stage, errors) ==
  Becomes(i, [import[i] EXCEPT !.stage[d] = stage, !.errors = @ \cup errors])

Validating(i, d, stage) ==
  /\ At(i, "libraries") /\ Checks(i, "libraries")
  /\ d \in import[i].package.directories
  /\ import[i].stage[d] = stage

\* A missing library.json is not an error of the package: it ends the validation.
ReadMetadata(i, d) ==
  /\ Validating(i, d, "waiting")
  /\ IF d.name = "illegal" THEN Stage(i, d, "failed", {"name"})
     ELSE IF d.metadata = "missing" THEN Refuse(i, {"metadata"})
     ELSE IF d.metadata = "malformed" THEN Stage(i, d, "failed", {"metadata"})
     ELSE Stage(i, d, "read", {})
  /\ UNCHANGED <<scenario, installed, removed, unchecked>>

LibraryExists(i, d) ==
  /\ Validating(i, d, "read")
  /\ Stage(i, d, IF installed[d.library] = Nothing THEN "rules" ELSE "exists", {})
  /\ UNCHANGED <<scenario, installed, removed, unchecked>>

IsPatchedLibrary(d) ==
  installed[d.library] # Nothing /\ installed[d.library].patch < d.patch

\* Mutant: what is installed is skipped, a patch too.
SkipInstalled(i, d) ==
  /\ Validating(i, d, "exists")
  /\ Stage(i, d, "skipped", {})
  /\ UNCHANGED <<scenario, installed, removed, unchecked>>

\* A directory in the library folder may be without a library.json that can be read:
\* one is being installed, or something is left of a removal.
InFlux == removed # {} \/ \E j \in Imports : import[j].changing # {}

\* isPatchedLibrary lists what is installed without a lock, and throws if it cannot read
\* all it finds; this ends the validation.
SkipInstalledLibraries(i, d) ==
  /\ Validating(i, d, "exists")
  /\ \/ Stage(i, d, IF IsPatchedLibrary(d) THEN "rules" ELSE "skipped", {})
     \/ InFlux /\ Refuse(i, {"unreadable"})
  /\ UNCHANGED <<scenario, installed, removed, unchecked>>

\* checkCoreVersion: a version with a zero in it counts as none.
Unsupported(core) == core[1] # 0 /\ core[2] # 0 /\ Older(Core, core)

\* Preloaded files and language files are looked for under the ubername: in a directory
\* with another name the former are missing and the latter are not seen.
RuleErrors(d) ==
  (IF Unsupported(d.core) THEN {"core"} ELSE {})
  \cup (IF d.name = "other" THEN {"mismatch"} ELSE {})
  \cup (IF d.preloads = "missing" \/ (d.preloads = "present" /\ d.name # "ubername")
        THEN {"preloads"} ELSE {})
  \cup (IF d.language # {} /\ d.name = "ubername" THEN {"language"} ELSE {})

ApplyRules(i, d) ==
  /\ Validating(i, d, "rules")
  /\ Stage(i, d, IF RuleErrors(d) = {} THEN "valid" ELSE "failed", RuleErrors(d))
  /\ UNCHANGED <<scenario, installed, removed, unchecked>>

\* All libraries have been validated; all directories are handed to installFromDirectory,
\* those whose validation was skipped too.
EndValidation(i) ==
  /\ At(i, "libraries")
  /\ Checks(i, "libraries") => \A d \in import[i].package.directories :
                                 import[i].stage[d] \in {"skipped", "valid", "failed"}
  /\ IF import[i].errors # {} THEN Refuse(i, {})
     ELSE Becomes(i, [import[i] EXCEPT !.pc = "install", !.stage = <<>>,
                        !.install = IF Checks(i, "libraries")
                                    THEN import[i].package.directories ELSE {}])
  /\ UNCHANGED <<scenario, installed, removed, unchecked>>

-----------------------------------------------------------------------------
(* LibraryManager, see LibraryInstall *)

\* The installations of one library wait for each other.
LockIsFree(l) == \A j \in Imports : \A e \in import[j].changing : e.library # l

Installing(i, d) == d \in import[i].install /\ LockIsFree(d.library)

SkipInstall(i, d) ==
  /\ Installing(i, d)
  /\ installed[d.library] # Nothing /\ ~IsPatchedLibrary(d)
  /\ Becomes(i, [import[i] EXCEPT !.install = @ \ {d}])
  /\ UNCHANGED <<scenario, installed, removed, unchecked>>

\* library.json is written first: the library counts as installed from here on.
InstallFromDirectory(i, d) ==
  /\ Installing(i, d)
  /\ installed[d.library] = Nothing \/ IsPatchedLibrary(d)
  /\ installed' = [installed EXCEPT ![d.library] = d]
  /\ Becomes(i, [import[i] EXCEPT !.install = @ \ {d}, !.changing = @ \cup {d}])
  /\ UNCHANGED <<scenario, removed, unchecked>>

\* All its files are copied.
CompleteInstall(i, d) ==
  /\ d \in import[i].changing /\ installed[d.library] # Nothing
  /\ Becomes(i, [import[i] EXCEPT !.changing = @ \ {d}])
  /\ UNCHANGED <<scenario, installed, removed, unchecked>>

\* The directories that were found installed, and whose rules are not applied.
Skipped(i) ==
  {d \in DOMAIN import[i].stage : import[i].stage[d] \in {"exists", "skipped"}}
    \cup import[i].install

Removes(l) ==
  /\ installed[l] # Nothing /\ l \notin removed
  /\ installed' = [installed EXCEPT ![l] = Nothing]
  /\ removed' = removed \cup {l}
  /\ unchecked' = unchecked \cup
       {k \in {l} : \E i \in Imports : \E d \in Skipped(i) : d.library = k /\ ~WellFormed(d)}

\* A library that fails to be installed is removed, and one that fails to be updated,
\* too.  The import is answered, its other installations go on.
FailToInstall(i, d) ==
  /\ d \in import[i].changing
  /\ \/ Removes(d.library)
     \/ installed[d.library] = Nothing /\ UNCHANGED <<installed, removed, unchecked>>
  /\ Becomes(i, [import[i] EXCEPT !.pc = "done", !.changing = @ \ {d}])
  /\ UNCHANGED scenario

\* The lock is not free in time, or what is installed cannot be read.
FailToBegin(i, d) ==
  /\ d \in import[i].install /\ InFlux
  /\ Becomes(i, [import[i] EXCEPT !.pc = "done", !.install = @ \ {d}])
  /\ UNCHANGED <<scenario, installed, removed, unchecked>>

\* An administrator deletes a library.
DeleteLibrary(l) ==
  /\ Removes(l)
  /\ UNCHANGED <<scenario, import>>

EndInstalls(i) ==
  /\ At(i, "install") /\ import[i].install = {} /\ import[i].changing = {}
  /\ Becomes(i, [import[i] EXCEPT !.pc = "done"])
  /\ UNCHANGED <<scenario, installed, removed, unchecked>>

-----------------------------------------------------------------------------
ValidatorNext ==
  \/ \E i \in Imports :
       \/ \E p \in scenario.packages, checks \in SUBSET {"content", "libraries"} \ {{}} :
            Begin(i, p, checks)
       \/ FileSizeMustBeWithinLimits(i) \/ ValidateExtractedPackage(i)
       \/ EndValidation(i) \/ EndInstalls(i)
       \/ At(i, "libraries") /\ \E d \in import[i].package.directories :
            ReadMetadata(i, d) \/ LibraryExists(i, d) \/ SkipInstalledLibraries(i, d)
            \/ ApplyRules(i, d)
       \/ \E d \in import[i].install :
            SkipInstall(i, d) \/ InstallFromDirectory(i, d) \/ FailToBegin(i, d)
       \/ \E d \in import[i].changing : CompleteInstall(i, d) \/ FailToInstall(i, d)
  \/ \E l \in PackageLibraries : DeleteLibrary(l)

ValidatorSpec == ValidatorInit /\ [][ValidatorNext]_validatorVars

-----------------------------------------------------------------------------
(* Property *)

\* No total is computed without a limit for single files.
WithinLimits(p) ==
  scenario.limits.file # 0 =>
    /\ \A s \in p.sizes : s <= scenario.limits.file
    /\ scenario.limits.total # 0 => ~(SumSet(p.sizes) > scenario.limits.total)

\* Nothing faulty gets in: a package that is not refused is within the limits, its
\* content is valid if it is imported, and the library directories of all imports
\* together leave only well-formed libraries installed.  Only a library that was removed
\* after a faulty directory had been found installed may come back from that one.
\* A package is refused only if there is something wrong with it, if it preloads
\* files from a directory with the machine name, which the rules allow, or if the check
\* for patches threw because of a library that was installed or removed meanwhile.
VerdictsAreRight ==
  /\ \A i \in Imports :
       LET p == import[i].package
           faulty == \E d \in p.directories :
                       ~WellFormed(d) \/ (d.name = "machineName" /\ d.preloads = "present")
           disturbed == removed # {} \/ \E j \in Imports : import[j].pc \in {"install", "done"}
       IN
       /\ import[i].pc \in {"install", "done"} =>
            /\ WithinLimits(p)
            /\ p.extensions \cap import[i].checks = {}
            /\ Checks(i, "content") => p.metadata = "valid" /\ p.content = "valid"
       /\ import[i].pc = "refused" =>
            \/ ~WithinLimits(p) \/ ContentErrors(p, import[i].checks) # {} \/ faulty
            \/ "unreadable" \in import[i].errors /\ disturbed
  /\ \A l \in PackageLibraries \ unchecked : installed[l] # Nothing => WellFormed(installed[l])

=============================================================================
