------------------------ MODULE PackageValidatorProofs ------------------------
(***************************************************************************)
(* Machine-checked facts about PackageValidator, for every number of       *)
(* imports and libraries and every set of packages and limits.             *)
(***************************************************************************)
EXTENDS PackageValidator, TLAPS

-----------------------------------------------------------------------------
(* The inductive invariant *)

ImportRecord == [
  pc      : {"new", "sizes", "content", "libraries", "install", "refused", "done"},
  package : Packages \cup {Nothing},
  checks  : SUBSET {"content", "libraries"},
  stage   : UNION {[directories -> Stages] : directories \in SUBSET Directory},
  install : SUBSET Directory,
  changing : SUBSET Directory,
  errors  : SUBSET Errors]

TypeOK ==
  /\ scenario \in Scenarios
  /\ installed \in [PackageLibraries -> Directory \cup {Nothing}]
  /\ removed \subseteq PackageLibraries /\ unchecked \subseteq PackageLibraries
  /\ import \in [Imports -> ImportRecord]
  /\ \A i \in Imports : import[i].pc # "new" => import[i].package \in Packages

\* The library of directory d is there in the patch of d or a later one, or was removed
\* while that or a similar directory had been skipped.
Covered(d) ==
  \/ d.library \in unchecked
  \/ installed[d.library] # Nothing /\ installed[d.library].patch >= d.patch

Faulty(p) ==
  \E d \in p.directories : ~WellFormed(d) \/ (d.name = "machineName" /\ d.preloads = "present")

\* A library was removed or may be being installed.
Disturbed == removed # {} \/ \E j \in Imports : import[j].pc \in {"install", "done"}

\* What the validation of directory d by import i has found so far.
DirectoryInv(i, d) ==
  LET stage == import[i].stage[d] IN
  /\ stage \in {"read", "exists", "rules"} => d.name # "illegal" /\ d.metadata = "valid"
  /\ stage = "exists" =>
       WellFormed(d) \/ d.library \in unchecked \/ installed[d.library] # Nothing
  /\ stage = "skipped" => WellFormed(d) \/ Covered(d)
  /\ stage = "valid" => WellFormed(d)
  /\ stage = "failed" => import[i].errors # {}

Validated(i) ==
  /\ At(i, "sizes") \/ At(i, "content") =>
       /\ import[i].errors = {}
       /\ import[i].stage = [d \in import[i].package.directories |-> "waiting"]
  /\ At(i, "libraries") =>
       /\ import[i].stage \in [import[i].package.directories -> Stages]
       /\ import[i].errors # {} => Faulty(import[i].package)
       /\ \A d \in import[i].package.directories : DirectoryInv(i, d)

\* What import i may still install.
Installs(i) ==
  /\ \A d \in import[i].install : WellFormed(d) \/ Covered(d)
  /\ import[i].install \cup import[i].changing # {} => import[i].pc \in {"install", "done"}

Verdict(i) ==
  LET p == import[i].package IN
  /\ import[i].pc \in {"content", "libraries", "install", "done"} => WithinLimits(p)
  /\ import[i].pc \in {"libraries", "install", "done"} =>
       ContentErrors(p, import[i].checks) = {}
  /\ At(i, "refused") =>
       \/ ~WithinLimits(p) \/ ContentErrors(p, import[i].checks) # {} \/ Faulty(p)
       \/ "unreadable" \in import[i].errors /\ Disturbed

Installed ==
  \A l \in PackageLibraries \ unchecked : installed[l] # Nothing => WellFormed(installed[l])

ValidatorInv ==
  /\ TypeOK
  /\ \A i \in Imports : Validated(i) /\ Installs(i) /\ Verdict(i)
  /\ Installed

-----------------------------------------------------------------------------
(* The rules *)

LEMMA DirectoryTypes ==
  ASSUME PackageValidatorAssumption, NEW d \in Directory
  PROVE  /\ d.name \in {"ubername", "machineName", "other", "illegal"}
         /\ d.metadata \in {"valid", "malformed", "missing"}
         /\ d.library \in PackageLibraries
         /\ d.patch \in Nat
         /\ d # Nothing
BY DEF PackageValidatorAssumption, Directory

LEMMA PackageTypes ==
  ASSUME PackageValidatorAssumption, NEW p \in Packages
  PROVE  /\ p.sizes \subseteq Nat
         /\ p.extensions \subseteq {"content", "libraries"}
         /\ p.directories \subseteq Directory
         /\ p.directories \in SUBSET Directory
BY DEF PackageValidatorAssumption, Package

\* A directory that passes all rules is well-formed.
LEMMA RulesAreEnough ==
  ASSUME PackageValidatorAssumption, NEW d \in Directory, d.name # "illegal",
         d.metadata = "valid", RuleErrors(d) = {}
  PROVE  WellFormed(d)
<1>1. /\ ~Unsupported(d.core) /\ d.name # "other" /\ d.preloads # "missing"
      /\ ~(d.language # {} /\ d.name = "ubername")
  BY DEF RuleErrors
<1> QED BY <1>1, DirectoryTypes DEF WellFormed, Unsupported

\* A rule that a directory breaks is one of those that make it well-formed, or asks for
\* the name the installed library will have.
LEMMA RulesAreNeeded ==
  ASSUME NEW d \in Directory, RuleErrors(d) # {}
  PROVE  ~WellFormed(d) \/ (d.name = "machineName" /\ d.preloads = "present")
<1>1. \/ Unsupported(d.core) \/ d.name = "other" \/ d.preloads = "missing"
      \/ (d.preloads = "present" /\ d.name # "ubername")
      \/ (d.language # {} /\ d.name = "ubername")
  BY DEF RuleErrors
<1> QED BY <1>1 DEF WellFormed, Unsupported

LEMMA RuleErrorsType ==
  ASSUME NEW d \in Directory
  PROVE  RuleErrors(d) \subseteq Errors
BY DEF RuleErrors, Errors

LEMMA ContentErrorsType ==
  ASSUME NEW p, NEW checks
  PROVE  ContentErrors(p, checks) \subseteq Errors
BY DEF ContentErrors, Errors

LEMMA ContentIsValid ==
  ASSUME NEW p, NEW checks, ContentErrors(p, checks) = {}
  PROVE  /\ p.extensions \cap checks = {}
         /\ "content" \in checks => p.metadata = "valid" /\ p.content = "valid"
BY DEF ContentErrors

LEMMA LimitsAreExact ==
  ASSUME PackageValidatorAssumption, TypeOK, NEW p \in Packages
  PROVE  TooLarge(p.sizes) <=> ~WithinLimits(p)
<1>1. scenario.limits.file \in Nat
  BY DEF PackageValidatorAssumption, TypeOK, Scenario
<1>2. \A s \in p.sizes : s > scenario.limits.file <=> ~(s <= scenario.limits.file)
  BY <1>1, PackageTypes
<1> QED BY <1>2 DEF TooLarge, WithinLimits

-----------------------------------------------------------------------------
(* Steps *)

\* One import changes its state.
LEMMA RecordTypes ==
  ASSUME NEW m \in ImportRecord
  PROVE  /\ m.pc \in {"new", "sizes", "content", "libraries", "install", "refused", "done"}
         /\ m.package \in Packages \cup {Nothing}
         /\ m.checks \in SUBSET {"content", "libraries"}
         /\ m.stage \in UNION {[directories -> Stages] : directories \in SUBSET Directory}
         /\ m.install \in SUBSET Directory
         /\ m.changing \in SUBSET Directory
         /\ m.errors \in SUBSET Errors
BY DEF ImportRecord

LEMMA RefuseType ==
  ASSUME NEW m \in ImportRecord, NEW errors \in SUBSET Errors
  PROVE  [m EXCEPT !.pc = "refused", !.errors = @ \cup errors, !.stage = <<>>] \in ImportRecord
<1>1. <<>> \in UNION {[directories -> Stages] : directories \in SUBSET Directory}
  <2>1. <<>> \in [{} -> Stages]
    OBVIOUS
  <2> QED BY <2>1
<1> QED BY <1>1, RecordTypes DEF ImportRecord

LEMMA StageType ==
  ASSUME NEW m \in ImportRecord, NEW d, NEW stage \in Stages, NEW errors \in SUBSET Errors,
         d \in DOMAIN m.stage
  PROVE  [m EXCEPT !.stage[d] = stage, !.errors = @ \cup errors] \in ImportRecord
<1>1. PICK directories \in SUBSET Directory : m.stage \in [directories -> Stages]
  BY DEF ImportRecord
<1>2. [m.stage EXCEPT ![d] = stage] \in [directories -> Stages]
  BY <1>1
<1>3. [m.stage EXCEPT ![d] = stage] \in
        UNION {[ds -> Stages] : ds \in SUBSET Directory}
  BY <1>1, <1>2
<1>4. m.errors \cup errors \in SUBSET Errors
  BY RecordTypes
<1> HIDE DEF Stages, Errors
<1> QED BY <1>3, <1>4, RecordTypes DEF ImportRecord

\* What is installed is replaced by later patches only, unless it is removed; this is
\* remembered if a faulty directory has been skipped.
Grows ==
  /\ scenario' = scenario
  /\ removed \subseteq removed' /\ unchecked \subseteq unchecked'
  /\ \A l \in PackageLibraries : installed[l] # Nothing =>
       \/ installed'[l] # Nothing /\ installed'[l].patch >= installed[l].patch
       \/ \A i \in Imports : \A d \in Skipped(i) :
            d.library = l => WellFormed(d) \/ l \in unchecked'
  /\ \A i \in Imports :
       import[i].pc \in {"install", "done"} => import'[i].pc \in {"install", "done"}

LEMMA CoveredStays ==
  ASSUME PackageValidatorAssumption, TypeOK, TypeOK', Grows, NEW i \in Imports,
         NEW d \in Directory, d \in Skipped(i), WellFormed(d) \/ Covered(d)
  PROVE  WellFormed(d) \/ Covered(d)'
<1>1. d.library \in PackageLibraries /\ d.patch \in Nat
  BY DirectoryTypes
<1>2. CASE d.library \in unchecked' \/ WellFormed(d)
  BY <1>2 DEF Covered
<1>3. CASE d.library \notin unchecked' /\ ~WellFormed(d)
  <2>1. /\ installed[d.library] # Nothing /\ installed'[d.library] # Nothing
        /\ installed[d.library].patch >= d.patch
        /\ installed'[d.library].patch >= installed[d.library].patch
    BY <1>1, <1>3 DEF Covered, Grows
  <2>2. installed[d.library] \in Directory /\ installed'[d.library] \in Directory
    BY <1>1, <2>1 DEF TypeOK
  <2>3. installed[d.library].patch \in Nat /\ installed'[d.library].patch \in Nat
    BY <2>2, DirectoryTypes
  <2> QED BY <1>1, <2>1, <2>3 DEF Covered
<1> QED BY <1>2, <1>3

LEMMA DisturbedStays ==
  ASSUME Grows, Disturbed
  PROVE  Disturbed'
BY DEF Grows, Disturbed

\* The steps of other imports and of administrators.
LEMMA OthersKeep ==
  ASSUME PackageValidatorAssumption, ValidatorInv, TypeOK', Grows,
         NEW i \in Imports, import'[i] = import[i]
  PROVE  Validated(i)' /\ Installs(i)' /\ Verdict(i)'
<1>1. TypeOK /\ Validated(i) /\ Installs(i) /\ Verdict(i)
  BY DEF ValidatorInv
<1>2. Verdict(i)'
  BY <1>1, DisturbedStays DEF Verdict, At, WithinLimits, Faulty, Grows
<1>3. import[i].pc # "new" => import[i].package.directories \subseteq Directory
  BY <1>1, PackageTypes DEF TypeOK
<1>4. ASSUME At(i, "libraries"), NEW d \in import[i].package.directories
      PROVE  DirectoryInv(i, d)'
  <2>1. DirectoryInv(i, d)
    BY <1>1, <1>4 DEF Validated
  <2>2. d \in Directory
    BY <1>3, <1>4 DEF At
  <2>3. d.library \in PackageLibraries
    BY <2>2, DirectoryTypes
  <2> DEFINE stage == import[i].stage[d]
  <2>4. /\ stage \in {"read", "exists", "rules"} => d.name # "illegal" /\ d.metadata = "valid"
        /\ stage = "valid" => WellFormed(d)
        /\ stage = "failed" => import[i].errors # {}
    BY <2>1 DEF DirectoryInv
  <2>7. stage \in {"exists", "skipped"} => d \in Skipped(i)
    BY <1>1, <1>4 DEF Validated, Skipped
  <2>5. stage = "exists" =>
          WellFormed(d) \/ d.library \in unchecked' \/ installed'[d.library] # Nothing
    BY <2>1, <2>3, <2>7 DEF DirectoryInv, Grows
  <2>6. stage = "skipped" => WellFormed(d) \/ Covered(d)'
    BY <2>1, <2>2, <2>7, <1>1, CoveredStays DEF DirectoryInv
  <2> QED BY <2>4, <2>5, <2>6 DEF DirectoryInv
<1>5. ASSUME NEW d \in import[i].install
      PROVE  WellFormed(d) \/ Covered(d)'
  <2>1. (WellFormed(d) \/ Covered(d)) /\ d \in Skipped(i)
    BY <1>1, <1>5 DEF Installs, Skipped
  <2>2. d \in Directory
    BY <1>1, <1>5, RecordTypes DEF TypeOK
  <2> QED BY <1>1, <2>1, <2>2, CoveredStays
<1>6. Validated(i)'
  BY <1>1, <1>4 DEF Validated, At, Faulty
<1>7. Installs(i)'
  BY <1>1, <1>5 DEF Installs
<1> QED BY <1>2, <1>6, <1>7

\* A step of import i that leaves what is installed alone.
LEMMA ImportStep ==
  ASSUME PackageValidatorAssumption, ValidatorInv, NEW i \in Imports,
         NEW m \in ImportRecord, m.pc # "new", m.package \in Packages,
         Becomes(i, m), UNCHANGED <<scenario, installed, removed, unchecked>>,
         import[i].pc \in {"install", "done"} => m.pc \in {"install", "done"},
         \/ m.install \subseteq import[i].install /\ m.changing \subseteq import[i].changing
         \/ Installs(i)',
         Validated(i)', Verdict(i)'
  PROVE  ValidatorInv'
<1>1. TypeOK'
  BY DEF ValidatorInv, TypeOK, Becomes
<1>2. Grows
  <2>1. \A l \in PackageLibraries : installed[l] # Nothing => installed[l].patch \in Nat
    BY DirectoryTypes DEF ValidatorInv, TypeOK
  <2>2. \A j \in Imports : import'[j] = IF j = i THEN m ELSE import[j]
    BY DEF ValidatorInv, TypeOK, Becomes
  <2> QED BY <2>1, <2>2 DEF Grows
<1>3. \A j \in Imports \ {i} : import'[j] = import[j]
  BY DEF ValidatorInv, TypeOK, Becomes
<1>4. \A j \in Imports \ {i} : Validated(j)' /\ Installs(j)' /\ Verdict(j)'
  BY <1>1, <1>2, <1>3, OthersKeep
<1>5. Installed'
  BY DEF ValidatorInv, Installed
<1>6. Installs(i)'
  <2>1. import'[i] = m /\ Installs(i)
    BY DEF ValidatorInv, TypeOK, Becomes
  <2> QED BY <2>1 DEF Installs, Covered
<1> QED BY <1>1, <1>4, <1>5, <1>6 DEF ValidatorInv

-----------------------------------------------------------------------------
(* The inductive invariant is preserved *)

\* The new state of import i, and what it is afterwards.
LEMMA BecomesFact ==
  ASSUME TypeOK, NEW i \in Imports, NEW m, Becomes(i, m)
  PROVE  import'[i] = m
BY DEF TypeOK, Becomes

LEMMA BeginKeepsInv ==
  ASSUME PackageValidatorAssumption, ValidatorInv, NEW i \in Imports,
         NEW p \in scenario.packages, NEW checks \in SUBSET {"content", "libraries"} \ {{}},
         Begin(i, p, checks)
  PROVE  ValidatorInv'
<1> DEFINE m == [pc |-> "sizes", package |-> p, checks |-> checks,
                 stage |-> [d \in p.directories |-> "waiting"], install |-> {},
                 changing |-> {}, errors |-> {}]
<1>1. p \in Packages
  BY DEF PackageValidatorAssumption, ValidatorInv, TypeOK, Scenario
<1>2. m \in ImportRecord
  <2>1. [d \in p.directories |-> "waiting"] \in [p.directories -> Stages]
    BY DEF Stages
  <2>2. [d \in p.directories |-> "waiting"] \in
          UNION {[directories -> Stages] : directories \in SUBSET Directory}
    BY <1>1, <2>1, PackageTypes
  <2> QED BY <1>1, <2>2 DEF ImportRecord
<1>3. /\ Becomes(i, m) /\ UNCHANGED <<scenario, installed, removed, unchecked>>
      /\ import[i].pc = "new" /\ m.pc = "sizes" /\ m.package = p
      /\ m.install = {} /\ m.changing = {}
  BY DEF Begin, At
<1>4. import'[i] = m
  BY <1>3, BecomesFact DEF ValidatorInv
<1>5. Validated(i)' /\ Verdict(i)'
  BY <1>4 DEF Validated, Verdict, At
<1> QED BY <1>1, <1>2, <1>3, <1>5, ImportStep

LEMMA SizesKeepInv ==
  ASSUME PackageValidatorAssumption, ValidatorInv, NEW i \in Imports,
         FileSizeMustBeWithinLimits(i)
  PROVE  ValidatorInv'
<1> DEFINE p == import[i].package
           errors == IF TooLarge(p.sizes) THEN {"sizes"} ELSE {}
           m == import[i]
<1>1. /\ TypeOK /\ m \in ImportRecord /\ m.pc = "sizes" /\ p \in Packages
      /\ Validated(i) /\ Verdict(i)
      /\ UNCHANGED <<scenario, installed, removed, unchecked>>
  BY DEF FileSizeMustBeWithinLimits, ValidatorInv, TypeOK, At
<1>2. TooLarge(p.sizes) <=> ~WithinLimits(p)
  BY <1>1, LimitsAreExact
<1>3. CASE TooLarge(p.sizes)
  <2> DEFINE n == [m EXCEPT !.pc = "refused", !.errors = @ \cup {"sizes"}, !.stage = <<>>]
  <2>1. Becomes(i, n)
    BY <1>3 DEF FileSizeMustBeWithinLimits, Proceed, Refuse
  <2>2. n \in ImportRecord
    BY <1>1, RefuseType DEF Errors
  <2>3. /\ import'[i] = n /\ n.pc = "refused" /\ n.package = p
        /\ n.install = m.install /\ n.changing = m.changing
    BY <1>1, <2>1, BecomesFact DEF ImportRecord
  <2>5. Validated(i)' /\ Verdict(i)'
    BY <1>1, <1>2, <1>3, <2>3 DEF Validated, Verdict, At, WithinLimits
  <2> QED BY <1>1, <2>1, <2>2, <2>3, <2>5, ImportStep
<1>4. CASE ~TooLarge(p.sizes)
  <2> DEFINE n == [m EXCEPT !.pc = "content"]
  <2>1. Becomes(i, n)
    BY <1>4 DEF FileSizeMustBeWithinLimits, Proceed
  <2>2. n \in ImportRecord
    BY <1>1 DEF ImportRecord
  <2>3. /\ import'[i] = n /\ n.pc = "content" /\ n.package = p /\ n.errors = m.errors
        /\ n.install = m.install /\ n.changing = m.changing
        /\ n.stage = m.stage
    BY <1>1, <2>1, BecomesFact DEF ImportRecord
  <2>4. Validated(i)' /\ Verdict(i)'
    BY <1>1, <1>2, <1>4, <2>3 DEF Validated, Verdict, At, WithinLimits
  <2> QED BY <1>1, <2>1, <2>2, <2>3, <2>4, ImportStep
<1> QED BY <1>3, <1>4

LEMMA ContentKeepsInv ==
  ASSUME PackageValidatorAssumption, ValidatorInv, NEW i \in Imports,
         ValidateExtractedPackage(i)
  PROVE  ValidatorInv'
<1> DEFINE m == import[i]
           p == import[i].package
           errors == ContentErrors(p, m.checks)
<1>1. /\ TypeOK /\ m \in ImportRecord /\ m.pc = "content" /\ p \in Packages
      /\ Validated(i) /\ Verdict(i)
      /\ UNCHANGED <<scenario, installed, removed, unchecked>>
  BY DEF ValidateExtractedPackage, ValidatorInv, TypeOK, At
<1>2. CASE errors # {}
  <2> DEFINE n == [m EXCEPT !.pc = "refused", !.errors = @ \cup errors, !.stage = <<>>]
  <2>1. Becomes(i, n)
    BY <1>2 DEF ValidateExtractedPackage, Proceed, Refuse
  <2>2. n \in ImportRecord
    BY <1>1, RefuseType, ContentErrorsType
  <2>3. /\ import'[i] = n /\ n.pc = "refused" /\ n.package = p /\ n.checks = m.checks
        /\ n.install = m.install /\ n.changing = m.changing
    BY <1>1, <2>1, BecomesFact DEF ImportRecord
  <2>4. Validated(i)' /\ Verdict(i)'
    BY <1>2, <2>3 DEF Validated, Verdict, At
  <2> QED BY <1>1, <2>1, <2>2, <2>3, <2>4, ImportStep
<1>3. CASE errors = {}
  <2> DEFINE n == [m EXCEPT !.pc = "libraries"]
  <2>1. Becomes(i, n)
    BY <1>3 DEF ValidateExtractedPackage, Proceed
  <2>2. n \in ImportRecord
    BY <1>1 DEF ImportRecord
  <2>3. /\ import'[i] = n /\ n.pc = "libraries" /\ n.package = p /\ n.errors = m.errors
        /\ n.install = m.install /\ n.changing = m.changing
        /\ n.stage = m.stage /\ n.checks = m.checks
    BY <1>1, <2>1, BecomesFact DEF ImportRecord
  <2>4. m.errors = {} /\ m.stage = [d \in p.directories |-> "waiting"]
    BY <1>1 DEF Validated, At
  <2>5. Validated(i)'
    <3>1. n.stage \in [p.directories -> Stages]
      BY <2>3, <2>4 DEF Stages
    <3>2. \A d \in p.directories : DirectoryInv(i, d)'
      BY <2>3, <2>4 DEF DirectoryInv
    <3> QED BY <2>3, <2>4, <3>1, <3>2 DEF Validated, At
  <2>6. Verdict(i)'
    BY <1>1, <1>3, <2>3 DEF Verdict, At, WithinLimits
  <2> QED BY <1>1, <2>1, <2>2, <2>3, <2>5, <2>6, ImportStep
<1> QED BY <1>2, <1>3

\* A directory gets to its next stage.
LEMMA StageKeepsInv ==
  ASSUME PackageValidatorAssumption, ValidatorInv, NEW i \in Imports,
         At(i, "libraries"), NEW d \in import[i].package.directories,
         NEW stage \in Stages, NEW errors \in SUBSET Errors,
         Stage(i, d, stage, errors), UNCHANGED <<scenario, installed, removed, unchecked>>,
         errors # {} => Faulty(import[i].package),
         stage \in {"read", "exists", "rules"} => d.name # "illegal" /\ d.metadata = "valid",
         stage = "exists" =>
           WellFormed(d) \/ d.library \in unchecked \/ installed[d.library] # Nothing,
         stage = "skipped" => WellFormed(d) \/ Covered(d),
         stage = "valid" => WellFormed(d),
         stage = "failed" => errors # {}
  PROVE  ValidatorInv'
<1> DEFINE m == import[i]
           p == m.package
           n == [m EXCEPT !.stage[d] = stage, !.errors = @ \cup errors]
<1>1. /\ TypeOK /\ m \in ImportRecord /\ m.pc = "libraries" /\ p \in Packages
      /\ Validated(i) /\ Verdict(i)
  BY DEF ValidatorInv, TypeOK, At
<1>2. /\ m.stage \in [p.directories -> Stages]
      /\ m.errors # {} => Faulty(p)
      /\ \A e \in p.directories : DirectoryInv(i, e)
  BY <1>1 DEF Validated, At
<1>3. n \in ImportRecord
  BY <1>1, <1>2, StageType
<1>4. Becomes(i, n)
  BY DEF Stage
<1>5. /\ import'[i] = n /\ n.pc = "libraries" /\ n.package = p /\ n.checks = m.checks
      /\ n.install = m.install /\ n.changing = m.changing
      /\ n.stage = [m.stage EXCEPT ![d] = stage] /\ n.errors = m.errors \cup errors
  BY <1>1, <1>4, BecomesFact DEF ImportRecord
<1>6. Verdict(i)'
  BY <1>1, <1>5 DEF Verdict, At, WithinLimits
<1>7. Validated(i)'
  <2>1. n.stage \in [p.directories -> Stages]
    BY <1>2, <1>5
  <2>2. n.errors # {} => Faulty(p)
    BY <1>2, <1>5
  <2>3. ASSUME NEW e \in p.directories
        PROVE  DirectoryInv(i, e)'
    <3>1. CASE e = d
      BY <1>2, <1>5, <3>1 DEF DirectoryInv, Covered
    <3>2. CASE e # d
      <4>1. n.stage[e] = m.stage[e]
        BY <1>2, <1>5, <3>2
      <4>2. DirectoryInv(i, e)
        BY <1>2
      <4> QED BY <1>5, <4>1, <4>2 DEF DirectoryInv, Covered
    <3> QED BY <3>1, <3>2
  <2> QED BY <1>5, <2>1, <2>2, <2>3 DEF Validated, At, Faulty
<1> QED BY <1>1, <1>3, <1>4, <1>5, <1>6, <1>7, ImportStep

LEMMA ReadKeepsInv ==
  ASSUME PackageValidatorAssumption, ValidatorInv, NEW i \in Imports,
         NEW d \in import[i].package.directories, ReadMetadata(i, d)
  PROVE  ValidatorInv'
<1> DEFINE m == import[i]
           p == m.package
<1>1. /\ TypeOK /\ m \in ImportRecord /\ m.pc = "libraries" /\ p \in Packages
      /\ Validated(i) /\ Verdict(i) /\ At(i, "libraries")
      /\ UNCHANGED <<scenario, installed, removed, unchecked>>
  BY DEF ReadMetadata, Validating, ValidatorInv, TypeOK, At
<1>2. d \in Directory
  BY <1>1, PackageTypes
<1>3. CASE d.name = "illegal"
  <2>1. Stage(i, d, "failed", {"name"})
    BY <1>3 DEF ReadMetadata
  <2>2. Faulty(p)
    BY <1>3 DEF Faulty, WellFormed
  <2> QED BY <1>1, <2>1, <2>2, StageKeepsInv DEF Stages, Errors
<1>4. CASE d.name # "illegal" /\ d.metadata = "missing"
  <2> DEFINE n == [m EXCEPT !.pc = "refused", !.errors = @ \cup {"metadata"}, !.stage = <<>>]
  <2>1. Becomes(i, n)
    BY <1>4 DEF ReadMetadata, Refuse
  <2>2. n \in ImportRecord
    BY <1>1, RefuseType DEF Errors
  <2>3. /\ import'[i] = n /\ n.pc = "refused" /\ n.package = p
        /\ n.install = m.install /\ n.changing = m.changing
    BY <1>1, <2>1, BecomesFact DEF ImportRecord
  <2>4. Faulty(p)
    BY <1>4 DEF Faulty, WellFormed
  <2>5. Validated(i)' /\ Verdict(i)'
    BY <2>3, <2>4 DEF Validated, Verdict, At, Faulty
  <2> QED BY <1>1, <2>1, <2>2, <2>3, <2>5, ImportStep
<1>5. CASE d.name # "illegal" /\ d.metadata = "malformed"
  <2>1. Stage(i, d, "failed", {"metadata"})
    BY <1>5 DEF ReadMetadata
  <2>2. Faulty(p)
    BY <1>5 DEF Faulty, WellFormed
  <2> QED BY <1>1, <2>1, <2>2, StageKeepsInv DEF Stages, Errors
<1>6. CASE d.name # "illegal" /\ d.metadata = "valid"
  <2>1. Stage(i, d, "read", {})
    BY <1>6 DEF ReadMetadata
  <2> QED BY <1>1, <1>6, <2>1, StageKeepsInv DEF Stages
<1> QED BY <1>2, <1>3, <1>4, <1>5, <1>6, DirectoryTypes

LEMMA ExistsKeepsInv ==
  ASSUME PackageValidatorAssumption, ValidatorInv, NEW i \in Imports,
         NEW d \in import[i].package.directories, LibraryExists(i, d)
  PROVE  ValidatorInv'
<1> DEFINE stage == IF installed[d.library] = Nothing THEN "rules" ELSE "exists"
<1>1. /\ At(i, "libraries") /\ import[i].stage[d] = "read"
      /\ Stage(i, d, stage, {}) /\ UNCHANGED <<scenario, installed, removed, unchecked>>
  BY DEF LibraryExists, Validating
<1>2. d.name # "illegal" /\ d.metadata = "valid"
  BY <1>1 DEF ValidatorInv, Validated, DirectoryInv
<1>3. stage \in Stages
  BY DEF Stages
<1> QED BY <1>1, <1>2, <1>3, StageKeepsInv

\* What is skipped is installed in the same patch or a later one.
LEMMA SkipKeepsInv ==
  ASSUME PackageValidatorAssumption, ValidatorInv, NEW i \in Imports,
         NEW d \in import[i].package.directories, SkipInstalledLibraries(i, d)
  PROVE  ValidatorInv'
<1> DEFINE m == import[i]
           stage == IF IsPatchedLibrary(d) THEN "rules" ELSE "skipped"
<1>1. /\ At(i, "libraries") /\ import[i].stage[d] = "exists"
      /\ Stage(i, d, stage, {}) \/ (InFlux /\ Refuse(i, {"unreadable"}))
      /\ UNCHANGED <<scenario, installed, removed, unchecked>>
  BY DEF SkipInstalledLibraries, Validating
<1>2. /\ d.name # "illegal" /\ d.metadata = "valid"
      /\ WellFormed(d) \/ d.library \in unchecked \/ installed[d.library] # Nothing
  BY <1>1 DEF ValidatorInv, Validated, DirectoryInv
<1>3. d \in Directory
  BY <1>1, PackageTypes DEF ValidatorInv, TypeOK, At
<1>4. ~IsPatchedLibrary(d) => WellFormed(d) \/ Covered(d)
  <2>1. d.library \in PackageLibraries /\ d.patch \in Nat
    BY <1>3, DirectoryTypes
  <2>2. installed[d.library] # Nothing => installed[d.library].patch \in Nat
    BY <2>1, DirectoryTypes DEF ValidatorInv, TypeOK
  <2> QED BY <1>2, <2>1, <2>2 DEF IsPatchedLibrary, Covered
<1>5. stage \in Stages
  BY DEF Stages
<1>6. CASE Stage(i, d, stage, {})
  BY <1>1, <1>2, <1>4, <1>5, <1>6, StageKeepsInv
<1>7. CASE InFlux /\ Refuse(i, {"unreadable"})
  <2> DEFINE n == [m EXCEPT !.pc = "refused", !.errors = @ \cup {"unreadable"}, !.stage = <<>>]
  <2>1. /\ m \in ImportRecord /\ m.package \in Packages /\ Validated(i) /\ m.pc = "libraries"
    BY <1>1 DEF ValidatorInv, TypeOK, At
  <2>2. Becomes(i, n) /\ n \in ImportRecord
    BY <1>7, <2>1, RefuseType DEF Refuse, Errors
  <2>3. import'[i] = n /\ n.pc = "refused" /\ n.package = m.package /\ n.install = m.install
        /\ n.changing = m.changing /\ "unreadable" \in n.errors
    BY <2>1, <2>2, BecomesFact DEF ImportRecord, ValidatorInv
  <2>4. Disturbed
    BY <1>7 DEF InFlux, Disturbed, ValidatorInv, Installs
  <2>5. Disturbed'
    <3>1. \A j \in Imports : import[j].pc \in {"install", "done"} => import'[j] = import[j]
      BY <2>1, <2>2 DEF Becomes, ValidatorInv, TypeOK
    <3> QED BY <1>1, <2>4, <3>1 DEF Disturbed
  <2>6. Validated(i)' /\ Verdict(i)'
    BY <1>1, <2>1, <2>3, <2>5 DEF Validated, Verdict, At, Covered
  <2> QED BY <1>1, <2>1, <2>2, <2>3, <2>6, ImportStep
<1> QED BY <1>1, <1>6, <1>7

LEMMA RulesKeepInv ==
  ASSUME PackageValidatorAssumption, ValidatorInv, NEW i \in Imports,
         NEW d \in import[i].package.directories, ApplyRules(i, d)
  PROVE  ValidatorInv'
<1> DEFINE stage == IF RuleErrors(d) = {} THEN "valid" ELSE "failed"
<1>1. /\ At(i, "libraries") /\ import[i].stage[d] = "rules"
      /\ Stage(i, d, stage, RuleErrors(d)) /\ UNCHANGED <<scenario, installed, removed, unchecked>>
  BY DEF ApplyRules, Validating
<1>2. d.name # "illegal" /\ d.metadata = "valid"
  BY <1>1 DEF ValidatorInv, Validated, DirectoryInv
<1>3. d \in Directory
  BY <1>1, PackageTypes DEF ValidatorInv, TypeOK, At
<1>4. RuleErrors(d) = {} => WellFormed(d)
  BY <1>2, <1>3, RulesAreEnough
<1>5. RuleErrors(d) # {} => Faulty(import[i].package)
  BY <1>3, RulesAreNeeded DEF Faulty
<1>6. stage \in Stages /\ RuleErrors(d) \in SUBSET Errors
  BY <1>3, RuleErrorsType DEF Stages
<1> QED BY <1>1, <1>4, <1>5, <1>6, StageKeepsInv

LEMMA EndValidationKeepsInv ==
  ASSUME PackageValidatorAssumption, ValidatorInv, NEW i \in Imports, EndValidation(i)
  PROVE  ValidatorInv'
<1> DEFINE m == import[i]
           p == m.package
<1>1. /\ TypeOK /\ m \in ImportRecord /\ m.pc = "libraries" /\ p \in Packages
      /\ Validated(i) /\ Verdict(i) /\ At(i, "libraries")
      /\ UNCHANGED <<scenario, installed, removed, unchecked>>
  BY DEF EndValidation, ValidatorInv, TypeOK, At
<1>2. /\ m.errors # {} => Faulty(p)
      /\ \A d \in p.directories : DirectoryInv(i, d)
  BY <1>1 DEF Validated
<1>3. <<>> \in UNION {[directories -> Stages] : directories \in SUBSET Directory}
  <2>1. <<>> \in [{} -> Stages]
    OBVIOUS
  <2> QED BY <2>1
<1>4. CASE m.errors # {}
  <2> DEFINE n == [m EXCEPT !.pc = "refused", !.errors = @ \cup {}, !.stage = <<>>]
  <2>1. Becomes(i, n)
    BY <1>4 DEF EndValidation, Refuse
  <2>2. n \in ImportRecord
    BY <1>1, RefuseType
  <2>3. /\ import'[i] = n /\ n.pc = "refused" /\ n.package = p
        /\ n.install = m.install /\ n.changing = m.changing
    BY <1>1, <2>1, BecomesFact DEF ImportRecord
  <2>4. Validated(i)' /\ Verdict(i)'
    BY <1>2, <1>4, <2>3 DEF Validated, Verdict, At, Faulty
  <2> QED BY <1>1, <2>1, <2>2, <2>3, <2>4, ImportStep
<1>5. CASE m.errors = {}
  <2> DEFINE install == IF Checks(i, "libraries") THEN p.directories ELSE {}
             n == [m EXCEPT !.pc = "install", !.stage = <<>>, !.install = install]
  <2>1. Becomes(i, n)
    BY <1>5 DEF EndValidation
  <2>2. install \in SUBSET Directory
    BY <1>1, PackageTypes
  <2>3. n \in ImportRecord
    BY <1>1, <1>3, <2>2 DEF ImportRecord
  <2>4. /\ import'[i] = n /\ n.pc = "install" /\ n.package = p /\ n.checks = m.checks
        /\ n.install = install
    BY <1>1, <2>1, BecomesFact DEF ImportRecord
  <2>5. ASSUME NEW d \in install
        PROVE  WellFormed(d) \/ Covered(d)
    <3>1. m.stage[d] \in {"skipped", "valid", "failed"} /\ d \in p.directories
      BY <2>5 DEF EndValidation
    <3> QED BY <1>2, <1>5, <3>1 DEF DirectoryInv
  <2>6. Validated(i)' /\ Installs(i)'
    BY <1>1, <2>4, <2>5 DEF Validated, Installs, At, Covered
  <2>7. Verdict(i)'
    BY <1>1, <2>4 DEF Verdict, At, WithinLimits
  <2> QED BY <1>1, <2>1, <2>3, <2>4, <2>6, <2>7, ImportStep
<1> QED BY <1>4, <1>5

\* An import steps on while nothing is installed by it.
LEMMA EndInstallsKeepsInv ==
  ASSUME PackageValidatorAssumption, ValidatorInv, NEW i \in Imports, EndInstalls(i)
  PROVE  ValidatorInv'
<1> DEFINE m == import[i]
           n == [m EXCEPT !.pc = "done"]
<1>1. /\ TypeOK /\ m \in ImportRecord /\ m.pc = "install" /\ m.package \in Packages
      /\ Verdict(i) /\ Becomes(i, n)
      /\ UNCHANGED <<scenario, installed, removed, unchecked>>
  BY DEF EndInstalls, ValidatorInv, TypeOK, At
<1>2. n \in ImportRecord
  BY <1>1 DEF ImportRecord
<1>3. /\ import'[i] = n /\ n.pc = "done" /\ n.package = m.package /\ n.checks = m.checks
      /\ n.install = m.install /\ n.changing = m.changing
  BY <1>1, BecomesFact DEF ImportRecord
<1>4. Validated(i)' /\ Verdict(i)'
  BY <1>1, <1>3 DEF Validated, Verdict, At, WithinLimits
<1> QED BY <1>1, <1>2, <1>3, <1>4, ImportStep

\* A directory is not installed: its library is there, or cannot be looked at.
LEMMA NoInstallKeepsInv ==
  ASSUME PackageValidatorAssumption, ValidatorInv, NEW i \in Imports,
         NEW d \in import[i].install, SkipInstall(i, d) \/ FailToBegin(i, d)
  PROVE  ValidatorInv'
<1> DEFINE m == import[i]
<1>1. /\ TypeOK /\ m \in ImportRecord /\ m.pc \in {"install", "done"} /\ m.package \in Packages
      /\ Verdict(i)
      /\ UNCHANGED <<scenario, installed, removed, unchecked>>
  BY DEF SkipInstall, FailToBegin, ValidatorInv, TypeOK, Installs
<1>2. PICK pc \in {m.pc, "done"} :
        Becomes(i, [m EXCEPT !.pc = pc, !.install = @ \ {d}])
  <2>1. CASE SkipInstall(i, d)
    <3>1. [m EXCEPT !.install = @ \ {d}] = [m EXCEPT !.pc = m.pc, !.install = @ \ {d}]
      BY <1>1 DEF ImportRecord
    <3> QED BY <2>1, <3>1 DEF SkipInstall
  <2> QED BY <2>1 DEF FailToBegin
<1> DEFINE n == [m EXCEPT !.pc = pc, !.install = @ \ {d}]
<1>3. /\ n \in ImportRecord /\ n.pc \in {"install", "done"} /\ n.package = m.package
      /\ n.checks = m.checks /\ n.install \subseteq m.install /\ n.changing = m.changing
  BY <1>1, <1>2 DEF ImportRecord
<1>4. import'[i] = n
  BY <1>1, <1>2, BecomesFact
<1>5. Validated(i)' /\ Verdict(i)'
  BY <1>1, <1>3, <1>4 DEF Validated, Verdict, At, WithinLimits
<1> QED BY <1>1, <1>2, <1>3, <1>5, ImportStep

LEMMA CompleteKeepsInv ==
  ASSUME PackageValidatorAssumption, ValidatorInv, NEW i \in Imports,
         NEW d \in import[i].changing, CompleteInstall(i, d)
  PROVE  ValidatorInv'
<1> DEFINE m == import[i]
           n == [m EXCEPT !.changing = @ \ {d}]
<1>1. /\ TypeOK /\ m \in ImportRecord /\ m.pc \in {"install", "done"} /\ m.package \in Packages
      /\ Verdict(i) /\ Becomes(i, n)
      /\ UNCHANGED <<scenario, installed, removed, unchecked>>
  BY DEF CompleteInstall, ValidatorInv, TypeOK, Installs
<1>2. n \in ImportRecord
  BY <1>1 DEF ImportRecord
<1>3. /\ import'[i] = n /\ n.pc \in {"install", "done"} /\ n.package = m.package
      /\ n.checks = m.checks /\ n.install = m.install /\ n.changing \subseteq m.changing
  BY <1>1, BecomesFact DEF ImportRecord
<1>4. Validated(i)' /\ Verdict(i)'
  BY <1>1, <1>3 DEF Validated, Verdict, At, WithinLimits
<1> QED BY <1>1, <1>2, <1>3, <1>4, ImportStep

\* An import that installs something, or fails to.
LEMMA InstallStep ==
  ASSUME PackageValidatorAssumption, ValidatorInv, NEW i \in Imports,
         NEW n \in ImportRecord, Becomes(i, n),
         import[i].pc \in {"install", "done"}, n.pc \in {"install", "done"},
         n.package = import[i].package, n.checks = import[i].checks,
         n.install \subseteq import[i].install, scenario' = scenario, Grows, Installed',
         installed' \in [PackageLibraries -> Directory \cup {Nothing}],
         removed' \subseteq PackageLibraries, unchecked' \subseteq PackageLibraries
  PROVE  ValidatorInv'
<1>1. /\ TypeOK /\ import[i] \in ImportRecord /\ import[i].package \in Packages
      /\ Validated(i) /\ Installs(i) /\ Verdict(i)
  BY DEF ValidatorInv, TypeOK
<1>2. import'[i] = n
  BY <1>1, BecomesFact
<1>3. TypeOK'
  BY <1>1, <1>2 DEF TypeOK, Becomes
<1>4. Installs(i)'
  <2>1. ASSUME NEW e \in n.install
        PROVE  WellFormed(e) \/ Covered(e)'
    <3>1. WellFormed(e) \/ Covered(e)
      BY <1>1, <2>1 DEF Installs
    <3>2. e \in Directory /\ e \in Skipped(i)
      BY <1>1, <2>1, RecordTypes DEF Skipped
    <3> QED BY <1>1, <1>3, <3>1, <3>2, CoveredStays
  <2> QED BY <1>2, <2>1 DEF Installs
<1>5. Validated(i)' /\ Verdict(i)'
  BY <1>1, <1>2 DEF Validated, Verdict, At, WithinLimits
<1>6. \A j \in Imports \ {i} : import'[j] = import[j]
  BY <1>1 DEF TypeOK, Becomes
<1>7. \A j \in Imports \ {i} : Validated(j)' /\ Installs(j)' /\ Verdict(j)'
  BY <1>3, <1>6, OthersKeep
<1> QED BY <1>3, <1>4, <1>5, <1>7 DEF ValidatorInv

\* What is installed is well-formed, or the library of a skipped directory that was
\* removed in the meantime.
LEMMA InstallKeepsInv ==
  ASSUME PackageValidatorAssumption, ValidatorInv, NEW i \in Imports,
         NEW d \in import[i].install, InstallFromDirectory(i, d)
  PROVE  ValidatorInv'
<1> DEFINE m == import[i]
           n == [m EXCEPT !.install = @ \ {d}, !.changing = @ \cup {d}]
<1>1. /\ TypeOK /\ m \in ImportRecord /\ m.pc \in {"install", "done"}
      /\ Installs(i) /\ Becomes(i, n)
      /\ UNCHANGED <<scenario, removed, unchecked>>
  BY DEF InstallFromDirectory, ValidatorInv, TypeOK, Installs
<1>2. d \in Directory
  BY <1>1, RecordTypes
<1>3. d.library \in PackageLibraries /\ d.patch \in Nat /\ d # Nothing
  BY <1>2, DirectoryTypes
<1>4. \A l \in PackageLibraries : installed[l] # Nothing => installed[l].patch \in Nat
  BY DirectoryTypes DEF ValidatorInv, TypeOK
<1>5. n \in ImportRecord
  BY <1>1, <1>2 DEF ImportRecord
<1>6. /\ n.pc = m.pc /\ n.package = m.package /\ n.checks = m.checks
      /\ n.install \subseteq m.install
  BY <1>1 DEF ImportRecord
<1>7. /\ installed' \in [PackageLibraries -> Directory \cup {Nothing}]
      /\ \A l \in PackageLibraries \ {d.library} : installed'[l] = installed[l]
      /\ installed[d.library] = Nothing \/ IsPatchedLibrary(d)
      /\ installed'[d.library] = d
  BY <1>1, <1>2, <1>3 DEF InstallFromDirectory, TypeOK
<1>8. \A j \in Imports : import'[j] = IF j = i THEN n ELSE import[j]
  BY <1>1 DEF TypeOK, Becomes
<1>9. Grows
  <2>1. IsPatchedLibrary(d) => d.patch >= installed[d.library].patch
    BY <1>3, <1>4 DEF IsPatchedLibrary
  <2>2. \A l \in PackageLibraries : installed[l] # Nothing =>
          installed'[l] # Nothing /\ installed'[l].patch >= installed[l].patch
    BY <1>3, <1>4, <1>7, <2>1
  <2>3. \A j \in Imports :
          import[j].pc \in {"install", "done"} => import'[j].pc \in {"install", "done"}
    BY <1>1, <1>6, <1>8
  <2> QED BY <1>1, <2>2, <2>3 DEF Grows
<1>10. Installed'
  <2>1. Installed /\ (WellFormed(d) \/ Covered(d))
    BY <1>1 DEF ValidatorInv, Installs
  <2>2. Covered(d) => d.library \in unchecked
    BY <1>3, <1>4, <1>7 DEF Covered, IsPatchedLibrary
  <2> QED BY <1>1, <1>7, <2>1, <2>2 DEF Installed
<1>11. removed' \subseteq PackageLibraries /\ unchecked' \subseteq PackageLibraries
  BY <1>1 DEF TypeOK
<1> QED BY <1>1, <1>5, <1>6, <1>7, <1>9, <1>10, <1>11, InstallStep

\* A library is removed, by an administrator or after a failed installation.
LEMMA RemovalKeeps ==
  ASSUME PackageValidatorAssumption, ValidatorInv, NEW l \in PackageLibraries, Removes(l),
         scenario' = scenario,
         \A j \in Imports : import[j].pc \in {"install", "done"} =>
                            import'[j].pc \in {"install", "done"}
  PROVE  /\ Grows
         /\ Installed'
         /\ installed' \in [PackageLibraries -> Directory \cup {Nothing}]
         /\ removed' \subseteq PackageLibraries /\ unchecked' \subseteq PackageLibraries
<1>1. \A k \in PackageLibraries : installed[k] # Nothing => installed[k].patch \in Nat
  BY DirectoryTypes DEF ValidatorInv, TypeOK
<1>2. /\ \A k \in PackageLibraries \ {l} : installed'[k] = installed[k]
      /\ installed'[l] = Nothing
      /\ installed' \in [PackageLibraries -> Directory \cup {Nothing}]
  BY DEF ValidatorInv, TypeOK, Removes
<1>3. /\ removed \subseteq removed' /\ unchecked \subseteq unchecked'
      /\ removed' \subseteq PackageLibraries /\ unchecked' \subseteq PackageLibraries
  BY DEF Removes, ValidatorInv, TypeOK
<1>4. Installed'
  BY <1>2, <1>3 DEF ValidatorInv, Installed
<1>5. \A i \in Imports : \A d \in Skipped(i) :
        d.library = l => WellFormed(d) \/ l \in unchecked'
  BY DEF Removes
<1>6. \A k \in PackageLibraries : installed[k] # Nothing =>
        \/ installed'[k] # Nothing /\ installed'[k].patch >= installed[k].patch
        \/ k = l
  BY <1>1, <1>2
<1>7. Grows
  BY <1>3, <1>5, <1>6 DEF Grows
<1> QED BY <1>2, <1>3, <1>4, <1>7

LEMMA FailToInstallKeepsInv ==
  ASSUME PackageValidatorAssumption, ValidatorInv, NEW i \in Imports,
         NEW d \in import[i].changing, FailToInstall(i, d)
  PROVE  ValidatorInv'
<1> DEFINE m == import[i]
           n == [m EXCEPT !.pc = "done", !.changing = @ \ {d}]
<1>1. /\ TypeOK /\ m \in ImportRecord /\ m.pc \in {"install", "done"} /\ m.package \in Packages
      /\ Verdict(i) /\ Becomes(i, n) /\ scenario' = scenario
  BY DEF FailToInstall, ValidatorInv, TypeOK, Installs
<1>2. d.library \in PackageLibraries
  BY <1>1, RecordTypes, DirectoryTypes
<1>3. n \in ImportRecord
  BY <1>1 DEF ImportRecord
<1>4. /\ import'[i] = n /\ n.pc = "done" /\ n.package = m.package /\ n.checks = m.checks
      /\ n.install = m.install /\ n.changing \subseteq m.changing
  BY <1>1, BecomesFact DEF ImportRecord
<1>5. CASE Removes(d.library)
  <2>1. \A j \in Imports : import'[j] = IF j = i THEN n ELSE import[j]
    BY <1>1 DEF TypeOK, Becomes
  <2>2. \A j \in Imports : import[j].pc \in {"install", "done"} =>
                           import'[j].pc \in {"install", "done"}
    BY <1>4, <2>1
  <2>3. /\ Grows /\ Installed' /\ installed' \in [PackageLibraries -> Directory \cup {Nothing}]
        /\ removed' \subseteq PackageLibraries /\ unchecked' \subseteq PackageLibraries
    BY <1>1, <1>2, <1>5, <2>2, RemovalKeeps
  <2> QED BY <1>1, <1>3, <1>4, <2>3, InstallStep
<1>6. CASE UNCHANGED <<installed, removed, unchecked>>
  <2>1. Validated(i)' /\ Verdict(i)'
    BY <1>1, <1>4, <1>6 DEF Validated, Verdict, At, WithinLimits
  <2> QED BY <1>1, <1>3, <1>4, <1>6, <2>1, ImportStep
<1> QED BY <1>5, <1>6 DEF FailToInstall

LEMMA DeleteKeepsInv ==
  ASSUME PackageValidatorAssumption, ValidatorInv, NEW l \in PackageLibraries, DeleteLibrary(l)
  PROVE  ValidatorInv'
<1>1. /\ Grows /\ Installed' /\ installed' \in [PackageLibraries -> Directory \cup {Nothing}]
      /\ removed' \subseteq PackageLibraries /\ unchecked' \subseteq PackageLibraries
  BY RemovalKeeps DEF DeleteLibrary
<1>2. TypeOK'
  BY <1>1 DEF DeleteLibrary, ValidatorInv, TypeOK
<1>3. \A j \in Imports : Validated(j)' /\ Installs(j)' /\ Verdict(j)'
  BY <1>1, <1>2, OthersKeep DEF DeleteLibrary
<1> QED BY <1>1, <1>2, <1>3 DEF ValidatorInv

-----------------------------------------------------------------------------
(* The theorems *)

LEMMA InitInv ==
  ASSUME PackageValidatorAssumption, ValidatorInit
  PROVE  ValidatorInv
<1>1. scenario.installed \in [PackageLibraries -> {d \in Directory : WellFormed(d)} \cup {Nothing}]
  BY DEF PackageValidatorAssumption, ValidatorInit, Scenario
<1>2. NewImport \in ImportRecord
  <2>1. <<>> \in [{} -> Stages]
    OBVIOUS
  <2>2. <<>> \in UNION {[directories -> Stages] : directories \in SUBSET Directory}
    BY <2>1
  <2> QED BY <2>2 DEF NewImport, ImportRecord
<1>3. TypeOK
  BY <1>1, <1>2 DEF ValidatorInit, TypeOK, NewImport
<1>4. Installed
  BY <1>1 DEF ValidatorInit, Installed
<1>5. \A i \in Imports : Validated(i) /\ Installs(i) /\ Verdict(i)
  BY DEF ValidatorInit, NewImport, Validated, Installs, Verdict, At
<1> QED BY <1>3, <1>4, <1>5 DEF ValidatorInv

LEMMA NextKeepsInv ==
  ASSUME PackageValidatorAssumption, ValidatorInv, [ValidatorNext]_validatorVars
  PROVE  ValidatorInv'
<1>1. ASSUME NEW i \in Imports, NEW p \in scenario.packages,
             NEW checks \in SUBSET {"content", "libraries"} \ {{}}, Begin(i, p, checks)
      PROVE  ValidatorInv'
  BY <1>1, BeginKeepsInv
<1>2. ASSUME NEW i \in Imports, FileSizeMustBeWithinLimits(i)
      PROVE  ValidatorInv'
  BY <1>2, SizesKeepInv
<1>3. ASSUME NEW i \in Imports, ValidateExtractedPackage(i)
      PROVE  ValidatorInv'
  BY <1>3, ContentKeepsInv
<1>4. ASSUME NEW i \in Imports, EndValidation(i) \/ EndInstalls(i)
      PROVE  ValidatorInv'
  BY <1>4, EndValidationKeepsInv, EndInstallsKeepsInv
<1>5. ASSUME NEW i \in Imports, NEW d \in import[i].package.directories,
             \/ ReadMetadata(i, d) \/ LibraryExists(i, d) \/ SkipInstalledLibraries(i, d)
             \/ ApplyRules(i, d)
      PROVE  ValidatorInv'
  BY <1>5, ReadKeepsInv, ExistsKeepsInv, SkipKeepsInv, RulesKeepInv
<1>6. ASSUME NEW i \in Imports, NEW d \in import[i].install,
             SkipInstall(i, d) \/ InstallFromDirectory(i, d) \/ FailToBegin(i, d)
      PROVE  ValidatorInv'
  BY <1>6, InstallKeepsInv, NoInstallKeepsInv
<1>9. ASSUME NEW i \in Imports, NEW d \in import[i].changing,
             CompleteInstall(i, d) \/ FailToInstall(i, d)
      PROVE  ValidatorInv'
  BY <1>9, CompleteKeepsInv, FailToInstallKeepsInv
<1>7. ASSUME NEW l \in PackageLibraries, DeleteLibrary(l)
      PROVE  ValidatorInv'
  BY <1>7, DeleteKeepsInv
<1>8. CASE UNCHANGED validatorVars
  <2>1. TypeOK' /\ Installed'
    BY <1>8 DEF validatorVars, ValidatorInv, TypeOK, Installed
  <2>2. Grows
    <3>1. \A l \in PackageLibraries : installed[l] # Nothing => installed[l].patch \in Nat
      BY DirectoryTypes DEF ValidatorInv, TypeOK
    <3> QED BY <1>8, <3>1 DEF validatorVars, Grows
  <2>3. \A i \in Imports : import'[i] = import[i]
    BY <1>8 DEF validatorVars
  <2>4. \A i \in Imports : Validated(i)' /\ Installs(i)' /\ Verdict(i)'
    BY <2>1, <2>2, <2>3, OthersKeep
  <2> QED BY <2>1, <2>4 DEF ValidatorInv
<1> QED BY <1>1, <1>2, <1>3, <1>4, <1>5, <1>6, <1>7, <1>8, <1>9 DEF ValidatorNext

\* Every import knows what the rules it has passed have shown, and what it has skipped is
\* well-formed, installed, or remembered as removed.
THEOREM ValidatorInvariant == PackageValidatorAssumption => (ValidatorSpec => []ValidatorInv)
<1> SUFFICES ASSUME PackageValidatorAssumption PROVE ValidatorSpec => []ValidatorInv
  OBVIOUS
<1>1. ValidatorInit => ValidatorInv
  BY InitInv
<1>2. ValidatorInv /\ [ValidatorNext]_validatorVars => ValidatorInv'
  BY NextKeepsInv
<1> QED BY <1>1, <1>2, PTL DEF ValidatorSpec

\* Nothing faulty gets in with a package, however imports overlap with each other, with
\* failed installations and with deletions, but from a directory whose library was found
\* installed and removed later.  A package is refused only for what is wrong with it, or
\* because the check for patches threw while libraries were installed or removed.
THEOREM ValidatorSafe == PackageValidatorAssumption => (ValidatorSpec => []VerdictsAreRight)
<1> SUFFICES ASSUME PackageValidatorAssumption PROVE ValidatorSpec => []VerdictsAreRight
  OBVIOUS
<1>1. ValidatorInv => VerdictsAreRight
  <2> SUFFICES ASSUME ValidatorInv PROVE VerdictsAreRight
    OBVIOUS
  <2>1. ASSUME NEW i \in Imports
        PROVE  LET p == import[i].package
                   faulty == \E d \in p.directories :
                     ~WellFormed(d) \/ (d.name = "machineName" /\ d.preloads = "present")
                   disturbed ==
                     removed # {} \/ \E j \in Imports : import[j].pc \in {"install", "done"}
               IN
               /\ import[i].pc \in {"install", "done"} =>
                    /\ WithinLimits(p)
                    /\ p.extensions \cap import[i].checks = {}
                    /\ Checks(i, "content") => p.metadata = "valid" /\ p.content = "valid"
               /\ import[i].pc = "refused" =>
                    \/ ~WithinLimits(p) \/ ContentErrors(p, import[i].checks) # {} \/ faulty
                    \/ "unreadable" \in import[i].errors /\ disturbed
    BY ContentIsValid DEF ValidatorInv, Verdict, At, Checks, Faulty, Disturbed
  <2> QED BY <2>1 DEF VerdictsAreRight, ValidatorInv, Installed
<1>2. ValidatorSpec => []ValidatorInv
  BY ValidatorInvariant
<1> QED BY <1>1, <1>2, PTL

=============================================================================
