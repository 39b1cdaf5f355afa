---------------------------- MODULE MCAlgorithms ----------------------------
(* Three modules that share no state, in one run: the lists of libraries of a  *)
(* content, the validation of packages, and the walks through parameters.      *)
(* Each behaviour is about one of them, the variables of the others are idle.  *)
EXTENDS AssetLists, PackageValidator, TLC

CONSTANTS Slots, Files, LongFiles, main, a, b, s1, s2, s3, s4, f1, f2, i1, i2

VARIABLES
  subject,                                    \* what the behaviour is about
  phase, tree, path, mentioned, found, packed \* of ParameterTree

parameterVars == <<phase, tree, path, mentioned, found, packed>>

-----------------------------------------------------------------------------
(* Graphs: up to two dependencies of each kind; one library may be missing. *)

Short(l) == {<<>>} \cup {<<d>> : d \in Libraries \ {l}}
Lists(l) == Short(l) \cup {<<d, e>> : d, e \in Libraries \ {l}}
Only(l, s) == [k \in Libraries |-> IF k = l THEN s ELSE <<>>]
MCGraphs ==
  {[installed |-> i,
    preloaded |-> [l \in Libraries |-> CASE l = main -> p [] l = a -> q [] l = b -> r],
    editor |-> [l \in Libraries |-> CASE l = main -> e [] l = a -> f [] OTHER -> <<>>],
    addons |-> Only(main, x), content |-> c, extra |-> x] :
     i \in {Libraries, Libraries \ {b}}, p \in Lists(main), q \in Lists(a), r \in Short(b),
     e \in Short(main), f \in Short(a), c \in {<<>>, <<b>>}, x \in {<<>>, <<b>>}}

-----------------------------------------------------------------------------
(* Packages: valid ones, and for every rule one that breaks it. *)

MCCore == <<1, 1>>

Library(l, patch) == [name |-> "ubername", metadata |-> "valid", library |-> l, patch |-> patch,
                      core |-> MCCore, preloads |-> "present", language |-> {}]
Upload(directories) == [sizes |-> {1}, extensions |-> {}, metadata |-> "valid",
                        content |-> "valid", directories |-> directories]

One == Upload({Library(main, 1)})
Patch == Upload({Library(main, 2), Library(b, 1)})

FaultyLibraries(d) ==
  {[d EXCEPT !.name = n] : n \in {"machineName", "other", "illegal"}}
  \cup {[d EXCEPT !.metadata = m] : m \in {"malformed", "missing"}}
  \cup {[d EXCEPT !.core = c] : c \in {<<1, 2>>, <<2, 0>>, <<2, 1>>}}
  \cup {[d EXCEPT !.preloads = "missing"], [d EXCEPT !.language = {"badName"}],
        [d EXCEPT !.name = "machineName", !.preloads = "none", !.language = {"badJson"}]}

PackagesWithFaultyLibraries ==
  {Upload({d}) : d \in FaultyLibraries(Library(main, 1))} \cup
  {Upload({[Library(main, 2) EXCEPT !.core = <<1, 2>>], Library(b, 1)}),
   Upload({[Library(main, 2) EXCEPT !.core = <<2, 1>>, !.preloads = "missing"]}),
   Upload({[Library(main, 1) EXCEPT !.metadata = "missing"], Library(b, 2)})}

OtherFaultyPackages ==
  {[One EXCEPT !.sizes = s] : s \in {{1, 2}, {3}}}
  \cup {[One EXCEPT !.extensions = {x}] : x \in {"content", "libraries"}}
  \cup {[One EXCEPT !.metadata = "malformed"], [One EXCEPT !.content = "missing"]}

MCPackages == {One, Patch} \cup PackagesWithFaultyLibraries \cup OtherFaultyPackages

Limits == {[file |-> f, total |-> t] : f, t \in {0, 2}}
NoLibraries == [l \in PackageLibraries |-> Nothing]

MCScenarios ==
  {[limits |-> [file |-> 2, total |-> 2], installed |-> i, packages |-> {p, Patch}] :
     i \in {NoLibraries, [NoLibraries EXCEPT ![main] = Library(main, 1)]},
     p \in PackagesWithFaultyLibraries \cup {One}}
  \cup {[limits |-> k, installed |-> NoLibraries, packages |-> {p}] :
          k \in Limits, p \in OtherFaultyPackages}

-----------------------------------------------------------------------------
(* Parameters: main holds a in a library element, a list and a group of one  *)
(* field; b is installed, but not allowed.                                   *)

Entry(type, options, fields) == [type |-> type, options |-> options, fields |-> fields]
Element == Entry("library", {a}, <<>>)
Text  == Entry("text", {}, <<>>)
File  == Entry("file", {}, <<>>)
Media == Entry("media", {}, <<>>)

Semantics ==
  [l \in Libraries |->
     CASE l = main -> <<Element, Entry("list", {}, <<Element>>), Entry("group", {}, <<Element>>),
                        Entry("group", {}, <<Text, File>>), Entry("list", {}, <<Text>>)>>
       [] l = a    -> <<Text, File, Media>>
       [] l = b    -> <<File>>]

Node == [library |-> Nothing, text |-> "none", file |-> Nothing, original |-> Nothing,
         kids |-> <<>>]
Reference(s) == [Node EXCEPT !.file = s]
Parts(kids) == [Node EXCEPT !.kids = kids]
Holds(l, kids) == [Node EXCEPT !.library = l, !.kids = kids]
Unfiltered == [Node EXCEPT !.text = "any"]

Held ==
  {Node, Holds(b, <<Reference(s1)>>), Holds(a, <<Nothing, Reference(s1), Nothing>>),
   Holds(a, <<Unfiltered, [Reference(s1) EXCEPT !.original = s2], Parts(<<Reference(s3)>>)>>)}
Grouped == {Nothing, Parts(<<Unfiltered, Nothing>>), Parts(<<Nothing, Reference(s4)>>)}
Texts == {Nothing, Parts(<<Unfiltered, [Unfiltered EXCEPT !.text = "conforming"]>>)}

Trees ==
  {<<x, Nothing, Nothing, g, t>> : x \in Held \cup {Nothing}, g \in Grouped, t \in Texts}
  \cup {<<Nothing, Nothing, x, g, Nothing>> : x \in Held, g \in Grouped}
  \cup {<<y, Parts(<<x, Holds(b, <<Reference(s4)>>)>>), Nothing, Nothing, Nothing>> :
          x \in Held, y \in {Nothing, Node}}

-----------------------------------------------------------------------------
ParameterTree == INSTANCE ParameterTree WITH stage <- phase, named <- mentioned

ASSUME AlgorithmsAssumption ==
  /\ AssetListsAssumption
  /\ PackageValidatorAssumption
  /\ ParameterTree!ParameterTreeAssumption

algorithmVars == <<subject, vars, validatorVars, parameterVars>>

\* The initial states of what a behaviour is not about.
NoLists ==
  /\ graph = Nothing /\ stage = Nothing /\ call = Nothing /\ todo = Nothing /\ begun = Nothing
  /\ list = Nothing /\ named = Nothing /\ flights = Nothing /\ loaded = Nothing
  /\ answer = Nothing
NoPackages ==
  /\ scenario = Nothing /\ installed = NoLibraries /\ removed = {} /\ unchecked = {}
  /\ import = [i \in Imports |-> NewImport]
NoParameters ==
  /\ phase = Nothing /\ tree = Nothing /\ path = Nothing
  /\ mentioned = Nothing /\ found = Nothing /\ packed = Nothing

AlgorithmsInit ==
  \/ subject = "lists" /\ Init /\ NoPackages /\ NoParameters
  \/ subject = "packages" /\ NoLists /\ ValidatorInit /\ NoParameters
  \/ subject = "parameters" /\ NoLists /\ NoPackages /\ ParameterTree!Init

AlgorithmsNext ==
  /\ UNCHANGED subject
  /\ \/ subject = "lists" /\ Next /\ UNCHANGED <<validatorVars, parameterVars>>
     \/ subject = "packages" /\ ValidatorNext /\ UNCHANGED <<vars, parameterVars>>
     \/ subject = "parameters" /\ ParameterTree!Next /\ UNCHANGED <<vars, validatorVars>>

AlgorithmsSpec == AlgorithmsInit /\ [][AlgorithmsNext]_algorithmVars

ImportSymmetry == Permutations(Imports)

\* Nothing in the parameters is missed by the scans, see ParameterTree.
ParametersAreComplete == subject = "parameters" => ParameterTree!ParametersAreComplete

=============================================================================
