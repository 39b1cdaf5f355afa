------------------------------ MODULE AssetLists ------------------------------
(***************************************************************************)
(* The lists of libraries a content is saved, played and edited with:      *)
(* DependencyGetter walks the dependencies one after the other when a      *)
(* content is saved, H5PPlayer loads them with a tree of promises and then *)
(* puts them in order, and H5PEditor loads and orders them in one go, the  *)
(* preloaded dependencies, the editor dependencies and the addons of each  *)
(* library at the same time, with one set of the libraries already begun.  *)
(* Scripts and styles stand in these lists library by library.             *)
(*                                                                         *)
(* The recursive functions are walks with the list of calls still to be    *)
(* made, the next one first.                                               *)
(***************************************************************************)
EXTENDS Naturals, FiniteSets, SequencesExt

CONSTANTS
  Libraries,
  Main,    \* the main library
  Graphs,  \* installed libraries with their dependencies, see Graph
  None

\* The dependencies are lists; addons lists the addons of the editor, extra those of
\* the player, content the libraries its parameters name.
Graph == [installed : SUBSET Libraries, preloaded : [Libraries -> Seq(Libraries)],
          editor : [Libraries -> Seq(Libraries)], addons : [Libraries -> Seq(Libraries)],
          content : Seq(Libraries), extra : Seq(Libraries)]

AssetListsAssumption ==
  /\ Main \in Libraries
  /\ None \notin Libraries
  /\ Graphs \subseteq Graph

VARIABLES
  graph,   \* what is installed, chosen once
  stage,   \* "editor", or the stages of a content: "save", "load", "order", "played"
  call,    \* call[l]: the call of H5PEditor.listAssets for l that did not return null
  todo,    \* the calls of a walk that are still to be made or to return
  begun,   \* the libraries that H5PPlayer.aggregateAssetsRecursive was called for
  list,    \* the libraries a walk has listed
  named,   \* the preloaded dependencies in the h5p.json of the content
  flights, \* the libraries H5PPlayer.getMetadataRecursive is waiting for
  loaded,  \* those it has loaded
  answer   \* the list, empty before

walk == <<todo, begun, list>>
vars == <<graph, stage, call, todo, begun, list, named, flights, loaded, answer>>

Branches == {"preloaded", "editor", "addons"}

\* rest[b] are the libraries branch b has not begun, wait[b] is the one whose call it
\* awaits, got[b] what its calls have listed.
Call == [pc : {"none", "load", "resolve", "done"}, rest : [Branches -> Seq(Libraries)],
         wait : [Branches -> Libraries \cup {None}], got : [Branches -> Seq(Libraries)],
         list : Seq(Libraries)]

NoCall == [pc |-> "none", rest |-> [b \in Branches |-> <<>>], wait |-> [b \in Branches |-> None],
           got |-> [b \in Branches |-> <<>>], list |-> <<>>]

Error == <<None>>

\* A call of a walk; it returns after those it makes.
Visit == [library : Libraries, step : {"root", "call", "return"}]

Visits(step, libraries) == [i \in DOMAIN libraries |-> [library |-> libraries[i], step |-> step]]

-----------------------------------------------------------------------------
(* DependencyGetter.getDependentLibraries *)

\* Mutant: a library that is not to be added is not followed.
AddDependenciesOfAdded ==
  LET l == Head(todo).library IN
  /\ stage = "save" /\ todo # <<>>
  /\ IF l \in ToSet(list) \/ l \notin graph.installed \/ (l = Main /\ Head(todo).step = "root")
     THEN /\ todo' = Tail(todo)
          /\ UNCHANGED list
     ELSE /\ todo' = Visits("call", graph.preloaded[l]) \o Tail(todo)
          /\ list' = Append(list, l)
  /\ UNCHANGED <<graph, stage, call, begun, named, flights, loaded, answer>>

\* A library that is missing is ignored; the main library, which is not to be added, is
\* forgotten one level down.
AddDependencies ==
  LET l == Head(todo).library IN
  /\ stage = "save" /\ todo # <<>>
  /\ IF l \in ToSet(list) \/ l \notin graph.installed
     THEN /\ todo' = Tail(todo)
          /\ UNCHANGED list
     ELSE /\ todo' = Visits("call", graph.preloaded[l]) \o Tail(todo)
          /\ list' = IF l = Main /\ Head(todo).step = "root" THEN list ELSE Append(list, l)
  /\ UNCHANGED <<graph, stage, call, begun, named, flights, loaded, answer>>

-----------------------------------------------------------------------------
(* H5PPlayer *)

\* The flights of getMetadataRecursive for a list; for what is loaded there is none.
Flights(libraries, done) ==
  [l \in ToSet(libraries) \ done |-> Cardinality({i \in DOMAIN libraries : libraries[i] = l})]

\* The h5p.json is complete, and the content is rendered.
GenerateContentMetadata ==
  /\ stage = "save" /\ todo = <<>>
  /\ stage' = "load"
  /\ named' = Append(list, Main)
  /\ list' = <<>>
  /\ flights' = Flights(named' \o graph.extra, {})
  /\ UNCHANGED <<graph, call, todo, begun, loaded, answer>>

\* The library of one flight has been loaded, or is missing.
GetMetadata(l) ==
  LET done == loaded \cup {l} IN
  /\ stage = "load"
  /\ BagIn(l, flights)
  /\ IF l \in graph.installed
     THEN /\ loaded' = done
          /\ flights' = (flights (-) SetToBag({l})) (+) Flights(graph.preloaded[l], done)
     ELSE /\ flights' = flights (-) SetToBag({l})
          /\ UNCHANGED loaded
  /\ UNCHANGED <<graph, stage, call, walk, named, answer>>

EndLoading ==
  /\ stage = "load" /\ flights = EmptyBag
  /\ stage' = "order"
  /\ todo' = Visits("call", named \o graph.extra)
  /\ UNCHANGED <<graph, call, begun, list, named, flights, loaded, answer>>

\* Mutant: a library is listed before the libraries it loads.
ListBefore ==
  LET l == Head(todo).library IN
  /\ stage = "order" /\ todo # <<>>
  /\ IF l \in begun THEN todo' = Tail(todo) /\ UNCHANGED <<begun, list>>
     ELSE /\ begun' = begun \cup {l}
          /\ IF l \in loaded
             THEN todo' = Visits("call", graph.preloaded[l]) \o Tail(todo) /\ list' = Append(list, l)
             ELSE todo' = Tail(todo) /\ UNCHANGED list
  /\ UNCHANGED <<graph, stage, call, named, flights, loaded, answer>>

\* A library is listed when the calls for its dependencies have returned.
AggregateAssets ==
  LET l == Head(todo).library IN
  /\ stage = "order" /\ todo # <<>>
  /\ \/ /\ Head(todo).step = "return"
        /\ todo' = Tail(todo) /\ list' = Append(list, l) /\ UNCHANGED begun
     \/ /\ Head(todo).step = "call"
        /\ begun' = begun \cup {l}
        /\ todo' = IF l \in begun \/ l \notin loaded THEN Tail(todo)
                   ELSE Visits("call", graph.preloaded[l]) \o Visits("return", <<l>>) \o Tail(todo)
        /\ UNCHANGED list
  /\ UNCHANGED <<graph, stage, call, named, flights, loaded, answer>>

EndOrdering ==
  /\ stage = "order" /\ todo = <<>>
  /\ stage' = "played"
  /\ answer' = list
  /\ UNCHANGED <<graph, call, walk, named, flights, loaded>>

-----------------------------------------------------------------------------
(* H5PEditor.listAssets *)

Begun(c, l) == c[l].pc # "none"

\* A branch goes on with its next library: null comes back for one that has begun.
Continue(c, l, b) ==
  LET rest == c[l].rest[b] IN
  IF rest = <<>> THEN c
  ELSE LET d == Head(rest)
           tail == [c EXCEPT ![l].rest[b] = Tail(rest)] IN
       IF Begun(c, d) THEN tail
       ELSE [tail EXCEPT ![l].wait[b] = d, ![d].pc = "load"]

\* The libraries a branch loads.
DependenciesOf(l) ==
  [b \in Branches |-> CASE b = "preloaded" -> graph.preloaded[l]
                        [] b = "editor"    -> graph.editor[l]
                        [] b = "addons"    -> graph.addons[l]]

\* The library is loaded and the three branches take their first library in order.
LoadLibrary(l) ==
  LET resolving == [call EXCEPT ![l].pc = "resolve", ![l].rest = DependenciesOf(l)] IN
  /\ stage = "editor" /\ answer = <<>>
  /\ call[l].pc = "load"
  /\ IF l \in graph.installed
     THEN /\ call' = Continue(Continue(Continue(resolving, l, "preloaded"), l, "editor"),
                              l, "addons")
          /\ UNCHANGED answer
     ELSE /\ answer' = Error
          /\ UNCHANGED call
  /\ UNCHANGED <<graph, stage, walk, named, flights, loaded>>

\* Mutant: a library that has begun is loaded again.
ResolveAgain(l, b) ==
  LET d == call[l].wait[b] IN
  /\ stage = "editor" /\ answer = <<>>
  /\ call[l].pc = "resolve"
  /\ IF d = None THEN /\ call[l].rest[b] # <<>>
                      /\ call' = [call EXCEPT ![l].wait[b] = Head(call[l].rest[b]),
                           ![l].rest[b] = Tail(@),
                           ![Head(call[l].rest[b])].pc = IF @ = "none" THEN "load" ELSE @]
     ELSE /\ call[d].pc = "done"
          /\ call' = Continue([call EXCEPT ![l].wait[b] = None,
                                           ![l].got[b] = @ \o call[d].list], l, b)
  /\ UNCHANGED <<graph, stage, walk, named, flights, loaded, answer>>

\* The call a branch waits for has returned, or its last one returned null.
Resolve(l, b) ==
  LET d == call[l].wait[b] IN
  /\ stage = "editor" /\ answer = <<>>
  /\ call[l].pc = "resolve"
  /\ IF d = None THEN /\ call[l].rest[b] # <<>>
                      /\ call' = Continue(call, l, b)
     ELSE /\ call[d].pc = "done"
          /\ call' = Continue([call EXCEPT ![l].wait[b] = None,
                                           ![l].got[b] = @ \o call[d].list], l, b)
  /\ UNCHANGED <<graph, stage, walk, named, flights, loaded, answer>>

ListAssets(l) ==
  LET got == call[l].got
      all == got["preloaded"] \o got["editor"] \o got["addons"] \o <<l>>
  IN
  /\ stage = "editor" /\ answer = <<>>
  /\ call[l].pc = "resolve"
  /\ \A b \in Branches : call[l].rest[b] = <<>> /\ call[l].wait[b] = None
  /\ call' = [call EXCEPT ![l].pc = "done", ![l].list = all]
  /\ answer' = IF l = Main THEN all ELSE answer
  /\ UNCHANGED <<graph, stage, walk, named, flights, loaded>>

-----------------------------------------------------------------------------
Init ==
  /\ graph \in Graphs
  /\ stage \in {"editor", "save"}
  /\ stage = "save" => Main \in graph.installed \* generateContentMetadata reads it first
  /\ call = [l \in Libraries |->
               IF stage = "editor" /\ l = Main THEN [NoCall EXCEPT !.pc = "load"] ELSE NoCall]
  /\ todo = IF stage = "save" THEN Visits("root", Append(graph.content, Main)) ELSE <<>>
  /\ begun = {} /\ list = <<>> /\ named = <<>>
  /\ flights = EmptyBag
  /\ loaded = {}
  /\ answer = <<>>

Next ==
  \/ AddDependencies \/ GenerateContentMetadata
  \/ EndLoading \/ AggregateAssets \/ EndOrdering
  \/ \E l \in Libraries :
       \/ GetMetadata(l) \/ LoadLibrary(l) \/ ListAssets(l)
       \/ \E b \in Branches : Resolve(l, b)

Spec == Init /\ [][Next]_vars

-----------------------------------------------------------------------------
(* Reference *)

\* The installed libraries reached from the roots: all that are in every set that holds
\* the roots and the dependencies of its libraries.
Closed(s, roots, deps) ==
  /\ roots \cap graph.installed \subseteq s
  /\ \A l \in s : deps[l] \cap graph.installed \subseteq s

Reached(roots, deps) ==
  {l \in graph.installed : \A s \in SUBSET graph.installed : Closed(s, roots, deps) => l \in s}

Preloads == [l \in Libraries |-> ToSet(graph.preloaded[l])]
Needs == [l \in Libraries |->
            Preloads[l] \cup ToSet(graph.editor[l]) \cup ToSet(graph.addons[l])]
Roots == {Main} \cup ToSet(graph.content)

\* No library reaches itself.
Acyclic == \A l \in graph.installed : l \notin Reached(Preloads[l], Preloads)

InOrder(s) ==
  \A i, j \in DOMAIN s : s[j] \in Preloads[s[i]] => j < i

-----------------------------------------------------------------------------
(* Properties *)

\* However the promises of the player interleave, it loads every installed library
\* the main library or an addon reaches, lists it once, and after what it preloads if
\* no dependencies are circular.
PlayerListIsComplete ==
  stage = "played" =>
    /\ IsInjective(answer)
    /\ ToSet(answer) = Reached(Roots \cup ToSet(graph.extra), Preloads)
    /\ Acyclic => InOrder(answer)

\* However the three branches of the editor interleave, every library that is reached
\* is listed once, and the list is refused only if one of them is missing.  The order
\* is that of the dependencies only if no library has editor dependencies or addons: a
\* library that another branch has begun is missing where it is needed first.
EditorListIsComplete ==
  stage = "editor" /\ answer # <<>> =>
    LET reached == Reached({Main}, Needs)
        missing == ({Main} \cup UNION {Needs[l] : l \in reached}) \ graph.installed
    IN
    IF answer = Error THEN missing # {}
    ELSE /\ IsInjective(answer)
         /\ ToSet(answer) = reached
         /\ Acyclic /\ (\A l \in reached : graph.editor[l] \o graph.addons[l] = <<>>) => InOrder(answer)

\* The h5p.json of a content names every installed library that the libraries of its
\* parameters and its main library reach, each of them once, and the main library last;
\* only a dependency that leads back to the main library names that one twice.
MetadataNamesAll ==
  stage \in {"load", "order", "played"} =>
    LET reached == Reached(Roots, Preloads)
        AtEnd(i) == i = Len(named)
    IN
    /\ reached \cup {Main} = ToSet(named)
    /\ \A i, j \in DOMAIN named : i < j /\ named[i] = named[j] => named[i] = Main /\ AtEnd(j)
    /\ (\E i \in DOMAIN named : ~AtEnd(i) /\ named[i] = Main)
         => \E l \in reached : Main \in Preloads[l]

=============================================================================
