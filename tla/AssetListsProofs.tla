--------------------------- MODULE AssetListsProofs ---------------------------
(***************************************************************************)
(* Machine-checked facts about AssetLists, for every set of libraries and  *)
(* every graph of dependencies.                                            *)
(***************************************************************************)
EXTENDS AssetLists, FiniteSetTheorems, SequenceTheorems, TLAPS

-----------------------------------------------------------------------------
(* Sequences *)

LEMMA InSet ==
  ASSUME NEW s, NEW x
  PROVE  x \in ToSet(s) <=> \E i \in DOMAIN s : s[i] = x
BY DEF ToSet

LEMMA SetOfAppend ==
  ASSUME NEW S, NEW s \in Seq(S), NEW x \in S
  PROVE  /\ Append(s, x) \in Seq(S)
         /\ ToSet(Append(s, x)) = ToSet(s) \cup {x}
<1>1. ASSUME NEW y PROVE y \in ToSet(Append(s, x)) <=> y \in ToSet(s) \/ y = x
  <2>1. ASSUME y \in ToSet(Append(s, x)) PROVE y \in ToSet(s) \/ y = x
    <3> PICK i \in DOMAIN Append(s, x) : Append(s, x)[i] = y
      BY <2>1, InSet
    <3> CASE i = Len(s) + 1
      OBVIOUS
    <3> CASE i # Len(s) + 1
      <4> i \in DOMAIN s /\ s[i] = y
        OBVIOUS
      <4> QED BY InSet
    <3> QED OBVIOUS
  <2>2. ASSUME y \in ToSet(s) PROVE y \in ToSet(Append(s, x))
    <3> PICK i \in DOMAIN s : s[i] = y
      BY <2>2, InSet
    <3> i \in DOMAIN Append(s, x) /\ Append(s, x)[i] = y
      OBVIOUS
    <3> QED BY InSet
  <2>3. x \in ToSet(Append(s, x))
    <3> Len(s) + 1 \in DOMAIN Append(s, x) /\ Append(s, x)[Len(s) + 1] = x
      OBVIOUS
    <3> QED BY InSet
  <2> QED BY <2>1, <2>2, <2>3
<1> QED BY <1>1

LEMMA SetOfConcat ==
  ASSUME NEW S, NEW s \in Seq(S), NEW t \in Seq(S)
  PROVE  /\ s \o t \in Seq(S)
         /\ ToSet(s \o t) = ToSet(s) \cup ToSet(t)
<1>1. ASSUME NEW y \in ToSet(s \o t) PROVE y \in ToSet(s) \/ y \in ToSet(t)
  <2> PICK i \in DOMAIN (s \o t) : (s \o t)[i] = y
    BY InSet
  <2> CASE i \in DOMAIN s
    <3> s[i] = y
      OBVIOUS
    <3> QED BY InSet
  <2> CASE i \notin DOMAIN s
    <3> i - Len(s) \in DOMAIN t /\ t[i - Len(s)] = y
      OBVIOUS
    <3> QED BY InSet
  <2> QED OBVIOUS
<1>2. ASSUME NEW y \in ToSet(s) PROVE y \in ToSet(s \o t)
  <2> PICK i \in DOMAIN s : s[i] = y
    BY InSet
  <2> i \in DOMAIN (s \o t) /\ (s \o t)[i] = y
    OBVIOUS
  <2> QED BY InSet
<1>3. ASSUME NEW y \in ToSet(t) PROVE y \in ToSet(s \o t)
  <2> PICK i \in DOMAIN t : t[i] = y
    BY InSet
  <2> Len(s) + i \in DOMAIN (s \o t) /\ (s \o t)[Len(s) + i] = y
    OBVIOUS
  <2> QED BY InSet
<1> QED BY <1>1, <1>2, <1>3

LEMMA SetOfTail ==
  ASSUME NEW S, NEW s \in Seq(S), s # <<>>
  PROVE  /\ Head(s) \in S /\ Tail(s) \in Seq(S)
         /\ ToSet(s) = {Head(s)} \cup ToSet(Tail(s))
<1> Head(s) = s[1] /\ Tail(s) \in Seq(S) /\ Len(s) \in Nat \ {0} /\ Len(Tail(s)) = Len(s) - 1
  OBVIOUS
<1>1. ASSUME NEW y \in ToSet(s) PROVE y = Head(s) \/ y \in ToSet(Tail(s))
  <2> PICK i \in DOMAIN s : s[i] = y
    BY InSet
  <2> CASE i = 1
    OBVIOUS
  <2> CASE i # 1
    <3> i - 1 \in DOMAIN Tail(s) /\ Tail(s)[i - 1] = y
      OBVIOUS
    <3> QED BY InSet
  <2> QED OBVIOUS
<1>2. ASSUME NEW y \in ToSet(Tail(s)) PROVE y \in ToSet(s)
  <2> PICK i \in DOMAIN Tail(s) : Tail(s)[i] = y
    BY InSet
  <2> i + 1 \in DOMAIN s /\ s[i + 1] = y
    OBVIOUS
  <2> QED BY InSet
<1>3. Head(s) \in ToSet(s)
  BY InSet
<1> QED BY <1>1, <1>2, <1>3

LEMMA SetOfEmpty == ToSet(<<>>) = {}
BY DEF ToSet

LEMMA SetOfSeq ==
  ASSUME NEW S, NEW s \in Seq(S)
  PROVE  ToSet(s) \subseteq S
BY DEF ToSet

LEMMA AppendNew ==
  ASSUME NEW S, NEW s \in Seq(S), NEW x \in S, IsInjective(s), x \notin ToSet(s)
  PROVE  IsInjective(Append(s, x))
<1>1. \A i \in DOMAIN s : s[i] # x
  BY InSet
<1>2. ASSUME NEW i \in DOMAIN Append(s, x), NEW j \in DOMAIN Append(s, x),
             Append(s, x)[i] = Append(s, x)[j]
      PROVE  i = j
  BY <1>1, <1>2 DEF IsInjective
<1> QED BY <1>2 DEF IsInjective

LEMMA ConcatAt ==
  ASSUME NEW S, NEW s \in Seq(S), NEW t \in Seq(S)
  PROVE  /\ DOMAIN s = 1 .. Len(s) /\ Len(s) \in Nat /\ Len(t) \in Nat
         /\ \A i \in 1 .. Len(s) : i \in DOMAIN (s \o t) /\ (s \o t)[i] = s[i]
         /\ \A i \in 1 .. Len(t) : Len(s) + i \in DOMAIN (s \o t) /\ (s \o t)[Len(s) + i] = t[i]
         /\ \A i \in DOMAIN (s \o t) :
              i \in 1 .. Len(s) \/ \E k \in 1 .. Len(t) : i = Len(s) + k
<1>1. ASSUME NEW i \in DOMAIN (s \o t), i \notin 1 .. Len(s)
      PROVE  \E k \in 1 .. Len(t) : i = Len(s) + k
  <2> i - Len(s) \in 1 .. Len(t) /\ i = Len(s) + (i - Len(s))
    BY <1>1
  <2> QED OBVIOUS
<1> QED BY <1>1

LEMMA ConcatNew ==
  ASSUME NEW S, NEW s \in Seq(S), NEW t \in Seq(S), IsInjective(s), IsInjective(t),
         ToSet(s) \cap ToSet(t) = {}
  PROVE  IsInjective(s \o t)
<1>1. ASSUME NEW i \in DOMAIN (s \o t), NEW j \in DOMAIN (s \o t), (s \o t)[i] = (s \o t)[j]
      PROVE  i = j
  <2>0. /\ DOMAIN s = 1 .. Len(s) /\ DOMAIN t = 1 .. Len(t)
        /\ \A k \in DOMAIN s : s[k] \in ToSet(s)
        /\ \A k \in DOMAIN t : t[k] \in ToSet(t)
    BY InSet
  <2>1. CASE i \in 1 .. Len(s) /\ j \in 1 .. Len(s)
    BY <1>1, <2>0, <2>1, ConcatAt DEF IsInjective
  <2>2. CASE i \in 1 .. Len(s) /\ j \notin 1 .. Len(s)
    <3> PICK k \in 1 .. Len(t) : j = Len(s) + k
      BY <2>2, ConcatAt
    <3> s[i] = t[k]
      BY <1>1, <2>2, ConcatAt
    <3> QED BY <2>0, <2>2
  <2>3. CASE i \notin 1 .. Len(s) /\ j \in 1 .. Len(s)
    <3> PICK k \in 1 .. Len(t) : i = Len(s) + k
      BY <2>3, ConcatAt
    <3> s[j] = t[k]
      BY <1>1, <2>3, ConcatAt
    <3> QED BY <2>0, <2>3
  <2>4. CASE i \notin 1 .. Len(s) /\ j \notin 1 .. Len(s)
    <3> PICK h \in 1 .. Len(t) : i = Len(s) + h
      BY <2>4, ConcatAt
    <3> PICK k \in 1 .. Len(t) : j = Len(s) + k
      BY <2>4, ConcatAt
    <3> t[h] = t[k]
      BY <1>1, ConcatAt
    <3> QED BY <2>0 DEF IsInjective
  <2> QED BY <2>1, <2>2, <2>3, <2>4
<1> QED BY <1>1 DEF IsInjective

-----------------------------------------------------------------------------
(* Graphs *)

LEMMA GraphParts ==
  ASSUME graph \in Graph
  PROVE  /\ graph.installed \subseteq Libraries
         /\ \A l \in Libraries :
              /\ graph.preloaded[l] \in Seq(Libraries) /\ graph.editor[l] \in Seq(Libraries)
              /\ graph.addons[l] \in Seq(Libraries)
         /\ graph.content \in Seq(Libraries) /\ graph.extra \in Seq(Libraries)
         /\ Preloads \in [Libraries -> SUBSET Libraries]
         /\ Needs \in [Libraries -> SUBSET Libraries]
<1>1. /\ graph.installed \subseteq Libraries
      /\ \A l \in Libraries :
           /\ graph.preloaded[l] \in Seq(Libraries) /\ graph.editor[l] \in Seq(Libraries)
           /\ graph.addons[l] \in Seq(Libraries)
      /\ graph.content \in Seq(Libraries) /\ graph.extra \in Seq(Libraries)
  BY DEF Graph
<1>2. Preloads \in [Libraries -> SUBSET Libraries]
  BY <1>1, SetOfSeq DEF Preloads
<1>3. Needs \in [Libraries -> SUBSET Libraries]
  BY <1>1, <1>2, SetOfSeq DEF Needs
<1> QED BY <1>1, <1>2, <1>3

\* Reached is closed, and in every closed set.
LEMMA ReachedClosed ==
  ASSUME graph \in Graph, NEW roots \in SUBSET Libraries,
         NEW deps \in [Libraries -> SUBSET Libraries]
  PROVE  /\ Reached(roots, deps) \subseteq graph.installed
         /\ Closed(Reached(roots, deps), roots, deps)
<1> DEFINE R == Reached(roots, deps)
<1>0. graph.installed \subseteq Libraries
  BY GraphParts
<1>1. R \subseteq graph.installed
  BY DEF Reached
<1>2. roots \cap graph.installed \subseteq R
  BY DEF Reached, Closed
<1>3. ASSUME NEW l \in R PROVE deps[l] \cap graph.installed \subseteq R
  <2> SUFFICES ASSUME NEW d \in deps[l] \cap graph.installed,
                      NEW s \in SUBSET graph.installed, Closed(s, roots, deps)
               PROVE  d \in s
    BY DEF Reached
  <2> l \in s
    BY DEF Reached
  <2> QED BY DEF Closed
<1> QED BY <1>1, <1>2, <1>3 DEF Closed

LEMMA ReachedLeast ==
  ASSUME NEW roots, NEW deps, NEW s \in SUBSET graph.installed, Closed(s, roots, deps)
  PROVE  Reached(roots, deps) \subseteq s
BY DEF Reached

LEMMA ReachedMonotone ==
  ASSUME graph \in Graph, NEW roots \in SUBSET Libraries, NEW more \in SUBSET Libraries,
         NEW deps \in [Libraries -> SUBSET Libraries],
         roots \cap graph.installed \subseteq Reached(more, deps)
  PROVE  Reached(roots, deps) \subseteq Reached(more, deps)
<1>1. /\ Reached(more, deps) \in SUBSET graph.installed
      /\ Closed(Reached(more, deps), more, deps)
  BY ReachedClosed
<1>2. Closed(Reached(more, deps), roots, deps)
  BY <1>1 DEF Closed
<1> QED BY <1>1, <1>2, ReachedLeast

-----------------------------------------------------------------------------
(* Types *)

TypeOK ==
  /\ graph \in Graph
  /\ Main \in Libraries /\ None \notin Libraries
  /\ stage \in {"editor", "save", "load", "order", "played"}
  /\ todo \in Seq(Visit)
  /\ begun \subseteq Libraries
  /\ list \in Seq(Libraries)
  /\ named \in Seq(Libraries)
  /\ loaded \subseteq Libraries

Named  == Reached(Roots, Preloads)
Played == Reached(Roots \cup ToSet(graph.extra), Preloads)
Edited == Reached({Main}, Needs)

LEMMA SameGraph ==
  ASSUME graph' = graph
  PROVE  /\ Preloads' = Preloads /\ Needs' = Needs /\ Roots' = Roots
         /\ Named' = Named /\ Played' = Played /\ Edited' = Edited
         /\ Acyclic' = Acyclic
<1>1. Preloads' = Preloads /\ Roots' = Roots
  BY DEF Preloads, Roots
<1>2. Needs' = Needs
  BY <1>1 DEF Needs
<1>3. Named' = Named
  BY <1>1 DEF Named, Reached, Closed
<1>4. Played' = Played
  BY <1>1 DEF Played, Reached, Closed
<1>5. Edited' = Edited
  BY <1>2 DEF Edited, Reached, Closed
<1>6. Acyclic' = Acyclic
  BY <1>1 DEF Acyclic, Reached, Closed
<1> QED BY <1>1, <1>2, <1>3, <1>4, <1>5, <1>6

LEMMA RootTypes ==
  ASSUME TypeOK
  PROVE  Roots \in SUBSET Libraries /\ Roots \cup ToSet(graph.extra) \in SUBSET Libraries
<1> graph.content \in Seq(Libraries) /\ graph.extra \in Seq(Libraries) /\ Main \in Libraries
  BY GraphParts DEF TypeOK
<1> QED BY SetOfSeq DEF Roots

LEMMA NamedClosed ==
  ASSUME TypeOK
  PROVE  /\ Named \subseteq graph.installed
         /\ Roots \cap graph.installed \subseteq Named
         /\ \A l \in Named : Preloads[l] \cap graph.installed \subseteq Named
         /\ \A s \in SUBSET graph.installed :
              /\ Roots \cap graph.installed \subseteq s
              /\ \A l \in s : Preloads[l] \cap graph.installed \subseteq s
              => Named \subseteq s
<1> graph \in Graph /\ Roots \in SUBSET Libraries /\ Preloads \in [Libraries -> SUBSET Libraries]
  BY RootTypes, GraphParts DEF TypeOK
<1>1. Named \subseteq graph.installed /\ Closed(Named, Roots, Preloads)
  BY ReachedClosed DEF Named
<1>2. \A s \in SUBSET graph.installed : Closed(s, Roots, Preloads) => Named \subseteq s
  BY ReachedLeast DEF Named
<1> QED BY <1>1, <1>2 DEF Closed

LEMMA PlayedClosed ==
  ASSUME TypeOK
  PROVE  LET roots == Roots \cup ToSet(graph.extra) IN
         /\ Played \subseteq graph.installed
         /\ roots \cap graph.installed \subseteq Played
         /\ \A l \in Played : Preloads[l] \cap graph.installed \subseteq Played
         /\ \A s \in SUBSET graph.installed :
              /\ roots \cap graph.installed \subseteq s
              /\ \A l \in s : Preloads[l] \cap graph.installed \subseteq s
              => Played \subseteq s
<1> DEFINE roots == Roots \cup ToSet(graph.extra)
<1> graph \in Graph /\ roots \in SUBSET Libraries /\ Preloads \in [Libraries -> SUBSET Libraries]
  BY RootTypes, GraphParts DEF TypeOK
<1>1. Played \subseteq graph.installed /\ Closed(Played, roots, Preloads)
  BY ReachedClosed DEF Played
<1>2. \A s \in SUBSET graph.installed : Closed(s, roots, Preloads) => Played \subseteq s
  BY ReachedLeast DEF Played
<1> QED BY <1>1, <1>2 DEF Closed

LEMMA VisitsOf ==
  ASSUME NEW s \in Seq(Libraries), NEW step \in {"root", "call", "return"}
  PROVE  /\ Visits(step, s) \in Seq(Visit)
         /\ Len(Visits(step, s)) = Len(s)
         /\ \A i \in 1..Len(s) : Visits(step, s)[i] = [library |-> s[i], step |-> step]
         /\ ToSet(Visits(step, s)) = {[library |-> l, step |-> step] : l \in ToSet(s)}
<1>1. DOMAIN s = 1..Len(s) /\ Len(s) \in Nat /\ \A i \in 1..Len(s) : s[i] \in Libraries
  OBVIOUS
<1>2. Visits(step, s) \in [1..Len(s) -> Visit]
  BY <1>1 DEF Visits, Visit
<1>3. Visits(step, s) \in Seq(Visit) /\ Len(Visits(step, s)) = Len(s)
  BY <1>1, <1>2
<1>4. \A i \in 1..Len(s) : Visits(step, s)[i] = [library |-> s[i], step |-> step]
  BY <1>1 DEF Visits
<1>5. ToSet(Visits(step, s)) = {[library |-> l, step |-> step] : l \in ToSet(s)}
  <2>1. ASSUME NEW v \in ToSet(Visits(step, s))
        PROVE  \E l \in ToSet(s) : v = [library |-> l, step |-> step]
    <3> PICK i \in 1..Len(s) : v = Visits(step, s)[i]
      BY <1>1, InSet DEF Visits
    <3> v = [library |-> s[i], step |-> step] /\ s[i] \in ToSet(s)
      BY <1>1, <1>4, InSet
    <3> QED OBVIOUS
  <2>2. ASSUME NEW l \in ToSet(s) PROVE [library |-> l, step |-> step] \in ToSet(Visits(step, s))
    <3> PICK i \in 1..Len(s) : s[i] = l
      BY <1>1, InSet
    <3> Visits(step, s)[i] = [library |-> l, step |-> step] /\ i \in DOMAIN Visits(step, s)
      BY <1>4, <1>1 DEF Visits
    <3> QED BY InSet
  <2> QED BY <2>1, <2>2
<1> QED BY <1>3, <1>4, <1>5

LEMMA VisitsFirst ==
  ASSUME NEW s \in Seq(Libraries), NEW step \in {"root", "call", "return"}, NEW t \in Seq(Visit)
  PROVE  /\ Visits(step, s) \o t \in Seq(Visit)
         /\ ToSet(Visits(step, s) \o t) =
              {[library |-> d, step |-> step] : d \in ToSet(s)} \cup ToSet(t)
<1> DEFINE made == Visits(step, s)
<1>1. made \in Seq(Visit) /\ ToSet(made) = {[library |-> d, step |-> step] : d \in ToSet(s)}
  BY VisitsOf
<1> HIDE DEF made
<1>2. made \o t \in Seq(Visit) /\ ToSet(made \o t) = ToSet(made) \cup ToSet(t)
  BY <1>1, SetOfConcat
<1> QED BY <1>1, <1>2 DEF made

LEMMA CallLibrary == \A d : [library |-> d, step |-> "call"].library = d
OBVIOUS

LEMMA InitType ==
  ASSUME AssetListsAssumption, Init
  PROVE  TypeOK
<1>1. graph \in Graph /\ Main \in Libraries /\ None \notin Libraries
  BY DEF AssetListsAssumption, Init
<1>2. Append(graph.content, Main) \in Seq(Libraries)
  BY <1>1, GraphParts
<1>3. todo \in Seq(Visit)
  <2> Visits("root", Append(graph.content, Main)) \in Seq(Visit)
    BY <1>2, VisitsOf
  <2> QED BY DEF Init
<1> QED BY <1>1, <1>3 DEF Init, TypeOK

LEMMA NextType ==
  ASSUME TypeOK, [Next]_vars
  PROVE  TypeOK'
<1>0. /\ graph \in Graph
      /\ \A l \in Libraries : graph.preloaded[l] \in Seq(Libraries)
      /\ graph.extra \in Seq(Libraries)
  BY GraphParts DEF TypeOK
<1>1. \A s \in Seq(Libraries), step \in {"root", "call", "return"} : Visits(step, s) \in Seq(Visit)
  BY VisitsOf
<1>2. todo # <<>> => Head(todo) \in Visit /\ Tail(todo) \in Seq(Visit)
  BY DEF TypeOK
<1>3. CASE AddDependencies
  <2> Head(todo).library \in Libraries
    BY <1>2, <1>3 DEF AddDependencies, Visit
  <2> Visits("call", graph.preloaded[Head(todo).library]) \o Tail(todo) \in Seq(Visit)
    BY <1>0, <1>1, <1>2, <1>3 DEF AddDependencies
  <2>1. todo' \in Seq(Visit)
    BY <1>2, <1>3 DEF AddDependencies
  <2>2. list' \in Seq(Libraries)
    <3>1. list' = list \/ list' = Append(list, Head(todo).library)
      BY <1>3 DEF AddDependencies
    <3>2. list \in Seq(Libraries) /\ begun \subseteq Libraries
      BY DEF TypeOK
    <3> QED BY <3>1, <3>2
  <2> QED BY <2>1, <2>2, <1>3 DEF AddDependencies, TypeOK
<1>4. CASE GenerateContentMetadata
  BY <1>4 DEF GenerateContentMetadata, TypeOK
<1>5. CASE EndLoading
  <2> named \o graph.extra \in Seq(Libraries)
    BY <1>0 DEF TypeOK
  <2> QED BY <1>1, <1>5 DEF EndLoading, TypeOK
<1>6. CASE AggregateAssets
  <2> DEFINE l == Head(todo).library
  <2> l \in Libraries
    BY <1>2, <1>6 DEF AggregateAssets, Visit
  <2>1. Visits("call", graph.preloaded[l]) \in Seq(Visit) /\ Visits("return", <<l>>) \in Seq(Visit)
    <3> <<l>> \in Seq(Libraries)
      OBVIOUS
    <3> QED BY <1>0, <1>1
  <2>2. Visits("call", graph.preloaded[l]) \o Visits("return", <<l>>) \o Tail(todo) \in Seq(Visit)
    <3> Visits("call", graph.preloaded[l]) \o Visits("return", <<l>>) \in Seq(Visit)
      BY <2>1
    <3> Tail(todo) \in Seq(Visit)
      BY <1>2, <1>6 DEF AggregateAssets
    <3> QED BY ConcatProperties
  <2>3. todo' \in Seq(Visit)
    BY <2>2, <1>2, <1>6 DEF AggregateAssets
  <2>4. list' \in Seq(Libraries) /\ begun' \subseteq Libraries
    <3>1. \/ list' = list /\ begun' = begun \cup {l}
          \/ list' = Append(list, l) /\ begun' = begun
      BY <1>6 DEF AggregateAssets
    <3>2. list \in Seq(Libraries) /\ begun \subseteq Libraries
      BY DEF TypeOK
    <3> QED BY <3>1, <3>2
  <2> QED BY <2>3, <2>4, <1>6 DEF AggregateAssets, TypeOK
<1>7. CASE EndOrdering
  BY <1>7 DEF EndOrdering, walk, TypeOK
<1>8. ASSUME NEW l \in Libraries, GetMetadata(l) PROVE TypeOK'
  BY <1>8 DEF GetMetadata, walk, TypeOK
<1>9. ASSUME NEW l \in Libraries, LoadLibrary(l) \/ ListAssets(l) PROVE TypeOK'
  BY <1>9 DEF LoadLibrary, ListAssets, walk, TypeOK
<1>10. ASSUME NEW l \in Libraries, NEW b \in Branches, Resolve(l, b) PROVE TypeOK'
  BY <1>10 DEF Resolve, walk, TypeOK
<1>11. CASE UNCHANGED vars
  BY <1>11 DEF vars, walk, TypeOK
<1> QED BY <1>3, <1>4, <1>5, <1>6, <1>7, <1>8, <1>9, <1>10, <1>11 DEF Next

-----------------------------------------------------------------------------
(* The h5p.json of a content *)

\* The libraries a walk still comes to.
Pending == {v.library : v \in ToSet(todo)}

RootVisit(l) == [library |-> l, step |-> "root"]

VisitsAreNamed ==
  \A v \in ToSet(todo) :
    \/ v.step = "root" /\ v.library \in Roots
    \/ v.step = "call" /\ \E l \in Named : v.library \in Preloads[l]

\* What has been listed, and nothing it preloads is forgotten.
ListIsNamed ==
  /\ ToSet(list) \subseteq Named
  /\ IsInjective(list)
  /\ (Roots \ {Main}) \cap graph.installed \subseteq ToSet(list) \cup Pending
  /\ \A l \in ToSet(list) :
       Preloads[l] \cap graph.installed \subseteq ToSet(list) \cup {Main} \cup Pending
  /\ Main \in graph.installed =>
       \/ RootVisit(Main) \in ToSet(todo)
       \/ Preloads[Main] \cap graph.installed \subseteq ToSet(list) \cup {Main} \cup Pending
  /\ Main \in ToSet(list) => \E l \in Named : Main \in Preloads[l]

SaveInv ==
  /\ stage = "save" => VisitsAreNamed /\ ListIsNamed
  /\ MetadataNamesAll

\* The properties of a content's list speak of the graph, the stage and h5p.json only.
LEMMA SameMetadata ==
  ASSUME graph' = graph, named' = named, MetadataNamesAll,
         stage' \in {"load", "order", "played"} => stage \in {"load", "order", "played"}
  PROVE  MetadataNamesAll'
<1> Preloads' = Preloads /\ Named' = Named
  BY SameGraph
<1> QED BY DEF MetadataNamesAll, Named

LEMMA InitSaves ==
  ASSUME AssetListsAssumption, Init
  PROVE  SaveInv
<1> DEFINE roots == Append(graph.content, Main)
<1> TypeOK
  BY InitType
<1>1. roots \in Seq(Libraries) /\ ToSet(roots) = Roots
  <2> graph.content \in Seq(Libraries) /\ Main \in Libraries
    BY GraphParts DEF TypeOK
  <2> QED BY SetOfAppend DEF Roots
<1>2. ASSUME stage = "save" PROVE VisitsAreNamed /\ ListIsNamed
  <2>1. todo = Visits("root", roots)
    BY <1>2 DEF Init
  <2>2. ToSet(todo) = {[library |-> l, step |-> "root"] : l \in Roots}
    BY <2>1, <1>1, VisitsOf
  <2>3. VisitsAreNamed
    BY <2>2 DEF VisitsAreNamed
  <2>4. Roots \subseteq Pending
    <3> SUFFICES ASSUME NEW l \in Roots PROVE l \in Pending
      OBVIOUS
    <3> [library |-> l, step |-> "root"] \in ToSet(todo)
      BY <2>2
    <3> [library |-> l, step |-> "root"].library = l
      OBVIOUS
    <3> QED BY DEF Pending
  <2>5. RootVisit(Main) \in ToSet(todo)
    BY <2>2 DEF RootVisit, Roots
  <2>6. ToSet(list) = {} /\ IsInjective(list)
    BY SetOfEmpty DEF Init, IsInjective
  <2> QED BY <2>3, <2>4, <2>5, <2>6 DEF ListIsNamed
<1>3. MetadataNamesAll
  BY DEF Init, MetadataNamesAll
<1> QED BY <1>2, <1>3 DEF SaveInv

LEMMA AddDependenciesSaves ==
  ASSUME TypeOK, SaveInv, AddDependencies
  PROVE  SaveInv'
<1> DEFINE l == Head(todo).library
           others == {v.library : v \in ToSet(Tail(todo))}
           calls == {[library |-> d, step |-> "call"] : d \in Preloads[l]}
<1>1. stage = "save" /\ stage' = "save" /\ graph' = graph /\ todo \in Seq(Visit) /\ todo # <<>>
  BY DEF AddDependencies, TypeOK
<1>2. VisitsAreNamed /\ ListIsNamed
  BY <1>1 DEF SaveInv
<1>3. Preloads' = Preloads /\ Roots' = Roots /\ Named' = Named
  BY <1>1, SameGraph
<1>4. /\ Head(todo) \in Visit /\ Tail(todo) \in Seq(Visit)
      /\ ToSet(todo) = {Head(todo)} \cup ToSet(Tail(todo))
  BY <1>1, SetOfTail
<1>5. l \in Libraries /\ Pending = {l} \cup others
  BY <1>4 DEF Pending, Visit
<1>6. MetadataNamesAll'
  BY <1>1 DEF MetadataNamesAll
<1>7. Named \subseteq graph.installed /\ Roots \cap graph.installed \subseteq Named
      /\ \A k \in Named : Preloads[k] \cap graph.installed \subseteq Named
  BY NamedClosed
<1>8. l \in graph.installed => l \in Named
  BY <1>2, <1>4, <1>7 DEF VisitsAreNamed
<1>9. CASE l \in ToSet(list) \/ l \notin graph.installed
  <2>1. todo' = Tail(todo) /\ list' = list /\ Pending' = others
    BY <1>9 DEF AddDependencies, Pending
  <2>2. VisitsAreNamed'
    BY <1>2, <1>3, <1>4, <2>1 DEF VisitsAreNamed
  <2>3. Pending \cap graph.installed \subseteq ToSet(list') \cup Pending'
    BY <1>5, <1>9, <2>1
  <2>4. ASSUME Main \in graph.installed
        PROVE  \/ RootVisit(Main) \in ToSet(todo')
               \/ Preloads[Main] \cap graph.installed \subseteq ToSet(list') \cup {Main} \cup Pending'
    <3>1. CASE Main \in ToSet(list)
      BY <3>1, <1>2, <2>1, <2>3 DEF ListIsNamed
    <3>2. CASE Main \notin ToSet(list)
      <4> l # Main
        BY <3>2, <2>4, <1>9
      <4> RootVisit(Main) \in ToSet(todo) => RootVisit(Main) \in ToSet(todo')
        BY <1>4, <2>1 DEF RootVisit
      <4> QED BY <1>2, <2>1, <2>3, <2>4 DEF ListIsNamed
    <3> QED BY <3>1, <3>2
  <2>5. ListIsNamed'
    BY <1>1, <1>2, <1>3, <2>1, <2>3, <2>4 DEF ListIsNamed, RootVisit
  <2> QED BY <1>6, <2>2, <2>5 DEF SaveInv
<1>10. CASE l \notin ToSet(list) /\ l \in graph.installed
  <2>1. /\ todo' = Visits("call", graph.preloaded[l]) \o Tail(todo)
        /\ list' = IF l = Main /\ Head(todo).step = "root" THEN list ELSE Append(list, l)
    BY <1>10 DEF AddDependencies
  <2>2. ToSet(todo') = calls \cup ToSet(Tail(todo))
    <3> graph.preloaded[l] \in Seq(Libraries) /\ Preloads[l] = ToSet(graph.preloaded[l])
      BY <1>5, GraphParts DEF TypeOK, Preloads
    <3>1. PICK s \in Seq(Libraries) : s = graph.preloaded[l]
      BY <1>5, GraphParts DEF TypeOK
    <3>2. ToSet(s) = Preloads[l]
      BY <1>5, <3>1 DEF Preloads
    <3>3. ToSet(Visits("call", s) \o Tail(todo)) =
            {[library |-> d, step |-> "call"] : d \in ToSet(s)} \cup ToSet(Tail(todo))
      BY <1>4, VisitsFirst
    <3> QED BY <2>1, <3>1, <3>2, <3>3
  <2>3. Pending' = Preloads[l] \cup others
    <3>1. {v.library : v \in calls} = Preloads[l]
      <4> SUFFICES ASSUME NEW d PROVE d \in {v.library : v \in calls} <=> d \in Preloads[l]
        OBVIOUS
      <4> QED BY CallLibrary
    <3>2. Pending' = {v.library : v \in calls} \cup others
      <4> HIDE DEF calls
      <4> QED BY <2>2 DEF Pending
    <3> QED BY <3>1, <3>2
  <2>4. VisitsAreNamed'
    BY <1>2, <1>3, <1>4, <1>8, <1>10, <2>2 DEF VisitsAreNamed
  <2>5. CASE l = Main /\ Head(todo).step = "root"
    <3>1. list' = list
      BY <2>1, <2>5
    <3>2. Pending \subseteq {Main} \cup Pending'
      BY <1>5, <2>3, <2>5
    <3>3. Preloads[Main] \subseteq Pending'
      BY <2>3, <2>5
    <3>4. Main \notin ToSet(list)
      BY <2>5, <1>10
    <3> QED BY <1>1, <1>2, <1>3, <1>6, <2>4, <3>1, <3>2, <3>3, <3>4
            DEF ListIsNamed, SaveInv, RootVisit
  <2>6. CASE ~(l = Main /\ Head(todo).step = "root")
    <3>1. list' = Append(list, l) /\ ToSet(list') = ToSet(list) \cup {l} /\ IsInjective(list')
      <4> list' = Append(list, l) /\ list \in Seq(Libraries) /\ IsInjective(list)
        BY <1>2, <2>1, <2>6 DEF TypeOK, ListIsNamed
      <4> QED BY <1>5, <1>10, SetOfAppend, AppendNew
    <3>2. Pending \subseteq {l} \cup Pending' /\ Preloads[l] \subseteq Pending'
      BY <1>5, <2>3
    <3>3. ASSUME l = Main PROVE \E k \in Named : Main \in Preloads[k]
      <4> Head(todo).step = "call"
        BY <3>3, <1>2, <1>4, <2>6 DEF VisitsAreNamed
      <4> QED BY <3>3, <1>2, <1>4 DEF VisitsAreNamed
    <3>4. RootVisit(Main) \in ToSet(todo) => RootVisit(Main) \in ToSet(todo')
      BY <1>4, <2>2, <2>6 DEF RootVisit
    <3>5. ListIsNamed'
      <4>1. ToSet(list') \subseteq Named
        BY <1>2, <1>8, <1>10, <3>1 DEF ListIsNamed
      <4>2. (Roots \ {Main}) \cap graph.installed \subseteq ToSet(list') \cup Pending'
        BY <1>2, <3>1, <3>2 DEF ListIsNamed
      <4>3. ASSUME NEW k \in ToSet(list')
            PROVE  Preloads[k] \cap graph.installed \subseteq ToSet(list') \cup {Main} \cup Pending'
        BY <1>2, <3>1, <3>2 DEF ListIsNamed
      <4>4. Main \in graph.installed =>
              \/ RootVisit(Main) \in ToSet(todo')
              \/ Preloads[Main] \cap graph.installed \subseteq ToSet(list') \cup {Main} \cup Pending'
        BY <1>2, <3>1, <3>2, <3>4 DEF ListIsNamed
      <4>5. Main \in ToSet(list') => \E k \in Named : Main \in Preloads[k]
        BY <1>2, <3>1, <3>3 DEF ListIsNamed
      <4> QED BY <1>1, <1>3, <3>1, <4>1, <4>2, <4>3, <4>4, <4>5 DEF ListIsNamed, RootVisit
    <3> QED BY <1>6, <2>4, <3>5 DEF SaveInv
  <2> QED BY <2>5, <2>6
<1> QED BY <1>9, <1>10

LEMMA MetadataComplete ==
  ASSUME TypeOK, SaveInv, GenerateContentMetadata
  PROVE  SaveInv'
<1> DEFINE all == ToSet(list) \cup {Main}
<1>1. /\ stage = "save" /\ stage' = "load" /\ graph' = graph /\ todo = <<>>
      /\ named' = Append(list, Main)
  BY DEF GenerateContentMetadata
<1>2. ListIsNamed
  BY <1>1 DEF SaveInv
<1>3. Preloads' = Preloads /\ Named' = Named
  BY <1>1, SameGraph
<1>4. ToSet(todo) = {} /\ Pending = {}
  BY <1>1, SetOfEmpty DEF Pending
<1>5. list \in Seq(Libraries) /\ Main \in Libraries
  BY DEF TypeOK
<1>6. ToSet(named') = all
  BY <1>1, <1>5, SetOfAppend
<1>7. Named \cup {Main} = all
  <2>1. Roots \cap graph.installed \subseteq all \cap graph.installed
    BY <1>2, <1>4 DEF ListIsNamed
  <2>2. \A l \in all \cap graph.installed :
          Preloads[l] \cap graph.installed \subseteq all \cap graph.installed
    BY <1>2, <1>4 DEF ListIsNamed
  <2>3. Named \subseteq all \cap graph.installed
    <3> all \cap graph.installed \in SUBSET graph.installed
      OBVIOUS
    <3> HIDE DEF all
    <3> QED BY <2>1, <2>2, NamedClosed
  <2> QED BY <2>3, <1>2 DEF ListIsNamed
<1>8. ASSUME NEW i \in DOMAIN named', NEW j \in DOMAIN named', i < j, named'[i] = named'[j]
      PROVE  named'[i] = Main /\ j = Len(named')
  <2>1. i \in DOMAIN list /\ named'[i] = list[i]
    BY <1>1, <1>5, <1>8
  <2>2. CASE j \in DOMAIN list
    <3> named'[j] = list[j]
      BY <1>1, <1>5, <2>2
    <3> IsInjective(list)
      BY <1>2 DEF ListIsNamed
    <3> i = j
      BY <2>1, <2>2, <1>8 DEF IsInjective
    <3> QED BY <1>1, <1>5, <1>8
  <2>3. CASE j \notin DOMAIN list
    BY <1>1, <1>5, <1>8, <2>3
  <2> QED BY <2>2, <2>3
<1>9. ASSUME NEW i \in DOMAIN named', i # Len(named'), named'[i] = Main
      PROVE  \E l \in Named : Main \in Preloads[l]
  <2> i \in DOMAIN list /\ list[i] = Main
    BY <1>1, <1>5, <1>9
  <2> Main \in ToSet(list)
    BY InSet
  <2> QED BY <1>2 DEF ListIsNamed
<1>10. MetadataNamesAll'
  BY <1>3, <1>6, <1>7, <1>8, <1>9 DEF MetadataNamesAll, Named
<1> QED BY <1>1, <1>10 DEF SaveInv

LEMMA NextSaves ==
  ASSUME TypeOK, SaveInv, [Next]_vars
  PROVE  SaveInv'
<1>0. MetadataNamesAll
  BY DEF SaveInv
<1>1. CASE AddDependencies
  BY <1>1, AddDependenciesSaves
<1>2. CASE GenerateContentMetadata
  BY <1>2, MetadataComplete
<1>3. CASE EndLoading \/ AggregateAssets \/ EndOrdering
  <2>1. graph' = graph /\ named' = named /\ stage \in {"load", "order"} /\ stage' # "save"
    BY <1>3 DEF EndLoading, AggregateAssets, EndOrdering, walk
  <2> QED BY <1>0, <2>1, SameMetadata DEF SaveInv
<1>4. ASSUME NEW l \in Libraries, GetMetadata(l) \/ LoadLibrary(l) \/ ListAssets(l)
      PROVE  SaveInv'
  <2>1. graph' = graph /\ named' = named /\ stage \in {"load", "editor"} /\ stage' = stage
    BY <1>4 DEF GetMetadata, LoadLibrary, ListAssets, walk
  <2> QED BY <1>0, <2>1, SameMetadata DEF SaveInv
<1>5. ASSUME NEW l \in Libraries, NEW b \in Branches, Resolve(l, b) PROVE SaveInv'
  <2>1. graph' = graph /\ named' = named /\ stage = "editor" /\ stage' = stage
    BY <1>5 DEF Resolve, walk
  <2> QED BY <1>0, <2>1, SameMetadata DEF SaveInv
<1>6. CASE UNCHANGED vars
  <2>1. graph' = graph /\ named' = named /\ stage' = stage /\ todo' = todo /\ list' = list
    BY <1>6 DEF vars, walk
  <2>2. MetadataNamesAll'
    BY <1>0, <2>1, SameMetadata
  <2>3. stage = "save" => (VisitsAreNamed /\ ListIsNamed)'
    BY <2>1, SameGraph DEF SaveInv, VisitsAreNamed, ListIsNamed, Pending, RootVisit
  <2> QED BY <2>1, <2>2, <2>3 DEF SaveInv
<1> QED BY <1>1, <1>2, <1>3, <1>4, <1>5, <1>6 DEF Next

-----------------------------------------------------------------------------
(* Bags *)

LEMMA BagAdded ==
  ASSUME NEW S, NEW T, NEW B \in [S -> Nat \ {0}], NEW C \in [T -> Nat \ {0}]
  PROVE  B (+) C \in [S \cup T -> Nat \ {0}]
<1>1. \A e \in S \cup T :
        (IF e \in DOMAIN B THEN B[e] ELSE 0) + (IF e \in DOMAIN C THEN C[e] ELSE 0) \in Nat \ {0}
  OBVIOUS
<1> QED BY <1>1 DEF (+)

LEMMA OneRemoved ==
  ASSUME NEW S, NEW B \in [S -> Nat \ {0}], NEW l \in S
  PROVE  \E T : T \subseteq S /\ S \ {l} \subseteq T /\ B (-) SetToBag({l}) \in [T -> Nat \ {0}]
<1> DEFINE C == SetToBag({l})
           D == [e \in DOMAIN B |-> IF e \in DOMAIN C THEN B[e] - C[e] ELSE B[e]]
           T == {d \in DOMAIN D : D[d] > 0}
<1>1. DOMAIN C = {l} /\ C[l] = 1
  BY DEF SetToBag
<1>2. DOMAIN D = S /\ \A e \in S : D[e] = IF e = l THEN B[e] - 1 ELSE B[e]
  BY <1>1
<1>3. T \subseteq S /\ S \ {l} \subseteq T /\ \A e \in T : D[e] \in Nat \ {0}
  BY <1>2
<1>4. B (-) C = [e \in T |-> D[e]]
  BY DEF (-)
<1> HIDE DEF T, D
<1>5. B (-) C \in [T -> Nat \ {0}]
  BY <1>3, <1>4
<1> QED BY <1>3, <1>5

LEMMA FlightsOf ==
  ASSUME NEW s \in Seq(Libraries), NEW done
  PROVE  Flights(s, done) \in [ToSet(s) \ done -> Nat \ {0}]
<1>1. ASSUME NEW l \in ToSet(s) \ done
      PROVE  Cardinality({i \in DOMAIN s : s[i] = l}) \in Nat \ {0}
  <2> DEFINE at == {i \in DOMAIN s : s[i] = l}
  <2>1. Len(s) \in Nat /\ DOMAIN s = 1..Len(s)
    OBVIOUS
  <2>2. IsFiniteSet(1..Len(s))
    BY <2>1, FS_Interval
  <2>3. IsFiniteSet(at)
    BY <2>1, <2>2, FS_Subset
  <2>4. at # {}
    BY InSet
  <2> HIDE DEF at
  <2>5. Cardinality(at) \in Nat /\ Cardinality(at) # 0
    BY <2>3, <2>4, FS_CardinalityType, FS_EmptySet
  <2> QED BY <2>5 DEF at
<1> QED BY <1>1 DEF Flights

-----------------------------------------------------------------------------
(* The player loads what a content needs *)

\* The libraries it starts with.
Wanted == ToSet(named) \cup ToSet(graph.extra)

LoadingInv ==
  LET known == loaded \cup DOMAIN flights IN
  /\ flights \in [DOMAIN flights -> Nat \ {0}]
  /\ DOMAIN flights \subseteq Libraries
  /\ loaded \subseteq Played
  /\ DOMAIN flights \cap graph.installed \subseteq Played
  /\ Wanted \cap graph.installed \subseteq known
  /\ \A l \in loaded : Preloads[l] \cap graph.installed \subseteq known

LoadInv ==
  /\ stage \in {"editor", "save"} => loaded = {}
  /\ stage = "load" => LoadingInv
  /\ stage \in {"order", "played"} => loaded = Played

WantedIsPlayed ==
  /\ Wanted \subseteq Libraries
  /\ Wanted \cap graph.installed \subseteq Played
  /\ (Roots \cup ToSet(graph.extra)) \cap graph.installed \subseteq Wanted

LEMMA WantedReached ==
  TypeOK /\ SaveInv /\ stage \in {"load", "order", "played"} => WantedIsPlayed
<1> SUFFICES ASSUME TypeOK, SaveInv, stage \in {"load", "order", "played"}
             PROVE  WantedIsPlayed
  OBVIOUS
<1>1. graph \in Graph /\ graph.extra \in Seq(Libraries) /\ named \in Seq(Libraries)
  BY GraphParts DEF TypeOK
<1>2. Named \cup {Main} = ToSet(named)
  BY DEF SaveInv, MetadataNamesAll, Named
<1>3. Main \in Roots
  BY DEF Roots
<1>4. Named \subseteq Played
  <2> Roots \cap graph.installed \subseteq Played
    BY PlayedClosed
  <2> QED BY PlayedClosed, NamedClosed
<1>5. Roots \cap graph.installed \subseteq Named
  BY NamedClosed
<1>6. Wanted \subseteq Libraries
  BY <1>1, SetOfSeq DEF Wanted
<1>7. Wanted \cap graph.installed \subseteq Played
  BY <1>2, <1>3, <1>4, PlayedClosed DEF Wanted
<1> QED BY <1>2, <1>5, <1>6, <1>7 DEF Wanted, WantedIsPlayed

LEMMA MetadataLoads ==
  ASSUME TypeOK, SaveInv, LoadInv, TypeOK', SaveInv', GenerateContentMetadata
  PROVE  LoadInv'
<1>1. /\ stage = "save" /\ stage' = "load" /\ graph' = graph /\ loaded' = loaded
      /\ flights' = Flights(named' \o graph.extra, {})
  BY DEF GenerateContentMetadata
<1>2. loaded' = {}
  BY <1>1 DEF LoadInv
<1>3. named' \in Seq(Libraries) /\ graph.extra \in Seq(Libraries)
  BY GraphParts DEF TypeOK
<1>4. flights' \in [ToSet(named' \o graph.extra) -> Nat \ {0}]
  <2> PICK s \in Seq(Libraries) : s = named' \o graph.extra
    BY <1>3, ConcatProperties
  <2> Flights(s, {}) \in [ToSet(s) \ {} -> Nat \ {0}]
    BY FlightsOf
  <2> QED BY <1>1
<1>5. ToSet(named' \o graph.extra) = Wanted'
  BY <1>1, <1>3, SetOfConcat DEF Wanted
<1>6. DOMAIN flights' = Wanted' /\ flights' \in [Wanted' -> Nat \ {0}]
  BY <1>4, <1>5
<1>7. Wanted' \subseteq Libraries /\ (Wanted \cap graph.installed \subseteq Played)'
  <2>1. (TypeOK /\ SaveInv /\ stage \in {"load", "order", "played"})' => WantedIsPlayed'
    BY WantedReached, PTL
  <2> QED BY <1>1, <2>1 DEF WantedIsPlayed
<1> QED BY <1>1, <1>2, <1>6, <1>7 DEF LoadInv, LoadingInv

LEMMA GetMetadataLoads ==
  ASSUME TypeOK, LoadInv, NEW l \in Libraries, GetMetadata(l)
  PROVE  LoadInv'
<1> DEFINE done == loaded \cup {l}
           first == flights (-) SetToBag({l})
<1>1. /\ stage = "load" /\ stage' = "load" /\ graph' = graph /\ named' = named
      /\ l \in DOMAIN flights
  BY DEF GetMetadata, BagIn, BagToSet
<1>2. LoadingInv
  BY <1>1 DEF LoadInv
<1>3. Preloads' = Preloads /\ Played' = Played /\ Wanted' = Wanted
  BY <1>1, SameGraph DEF Wanted
<1>4. PICK rest : /\ rest \subseteq DOMAIN flights /\ DOMAIN flights \ {l} \subseteq rest
                  /\ first \in [rest -> Nat \ {0}]
  BY <1>1, <1>2, OneRemoved DEF LoadingInv
<1> HIDE DEF first
<1>5. CASE l \in graph.installed
  <2>1. loaded' = done /\ flights' = first (+) Flights(graph.preloaded[l], done)
    BY <1>5 DEF GetMetadata, first
  <2>2. /\ graph.preloaded[l] \in Seq(Libraries) /\ Preloads[l] = ToSet(graph.preloaded[l])
        /\ Preloads[l] \subseteq Libraries
    BY GraphParts, SetOfSeq DEF TypeOK, Preloads
  <2>3. Flights(graph.preloaded[l], done) \in [Preloads[l] \ done -> Nat \ {0}]
    BY <2>2, FlightsOf
  <2>4. flights' \in [rest \cup (Preloads[l] \ done) -> Nat \ {0}]
    BY <1>4, <2>1, <2>3, BagAdded
  <2>5. DOMAIN flights' = rest \cup (Preloads[l] \ done)
    BY <2>4
  <2>6. l \in Played /\ Preloads[l] \cap graph.installed \subseteq Played
    BY <1>1, <1>2, <1>5, PlayedClosed DEF LoadingInv
  <2>7. loaded \cup DOMAIN flights \subseteq loaded' \cup DOMAIN flights'
    BY <1>4, <2>1, <2>5
  <2>8. Preloads[l] \subseteq loaded' \cup DOMAIN flights'
    BY <2>1, <2>5
  <2>9. LoadingInv'
    BY <1>1, <1>2, <1>3, <1>4, <2>1, <2>2, <2>4, <2>5, <2>6, <2>7, <2>8 DEF LoadingInv
  <2> QED BY <1>1, <2>9 DEF LoadInv
<1>6. CASE l \notin graph.installed
  <2>1. loaded' = loaded /\ flights' = first
    BY <1>6 DEF GetMetadata, first
  <2>2. DOMAIN flights' = rest /\ flights' \in [rest -> Nat \ {0}]
    BY <1>4, <2>1
  <2>3. (loaded \cup DOMAIN flights) \cap graph.installed \subseteq loaded' \cup DOMAIN flights'
    BY <1>4, <1>6, <2>1, <2>2
  <2>4. LoadingInv'
    BY <1>1, <1>2, <1>3, <1>4, <2>1, <2>2, <2>3 DEF LoadingInv
  <2> QED BY <1>1, <2>4 DEF LoadInv
<1> QED BY <1>5, <1>6

LEMMA EverythingIsLoaded ==
  ASSUME TypeOK, SaveInv, LoadInv, EndLoading
  PROVE  LoadInv'
<1>1. /\ stage = "load" /\ stage' = "order" /\ graph' = graph /\ loaded' = loaded
      /\ flights = EmptyBag
  BY DEF EndLoading
<1>2. LoadingInv /\ WantedIsPlayed
  BY <1>1, WantedReached DEF LoadInv
<1>3. DOMAIN flights = {}
  BY <1>1 DEF EmptyBag, SetToBag
<1>4. loaded \in SUBSET graph.installed
  BY <1>2, PlayedClosed DEF LoadingInv
<1>5. (Roots \cup ToSet(graph.extra)) \cap graph.installed \subseteq loaded
  BY <1>2, <1>3 DEF LoadingInv, WantedIsPlayed
<1>6. \A l \in loaded : Preloads[l] \cap graph.installed \subseteq loaded
  BY <1>2, <1>3 DEF LoadingInv
<1>7. Played \subseteq loaded
  BY <1>4, <1>5, <1>6, PlayedClosed
<1> QED BY <1>1, <1>2, <1>7, SameGraph DEF LoadInv, LoadingInv

LEMMA NextLoads ==
  ASSUME TypeOK, SaveInv, LoadInv, TypeOK', SaveInv', [Next]_vars
  PROVE  LoadInv'
<1>1. CASE AddDependencies
  <2> stage = "save" /\ stage' = "save" /\ loaded' = loaded
    BY <1>1 DEF AddDependencies
  <2> QED BY DEF LoadInv
<1>2. CASE GenerateContentMetadata
  BY <1>2, MetadataLoads
<1>3. CASE EndLoading
  BY <1>3, EverythingIsLoaded
<1>4. CASE AggregateAssets \/ EndOrdering
  <2> stage = "order" /\ stage' \in {"order", "played"} /\ graph' = graph /\ loaded' = loaded
    BY <1>4 DEF AggregateAssets, EndOrdering
  <2> QED BY SameGraph DEF LoadInv
<1>5. ASSUME NEW l \in Libraries, GetMetadata(l) PROVE LoadInv'
  BY <1>5, GetMetadataLoads
<1>6. ASSUME NEW l \in Libraries, LoadLibrary(l) \/ ListAssets(l) PROVE LoadInv'
  <2> stage = "editor" /\ stage' = "editor" /\ loaded' = loaded
    BY <1>6 DEF LoadLibrary, ListAssets
  <2> QED BY DEF LoadInv
<1>7. ASSUME NEW l \in Libraries, NEW b \in Branches, Resolve(l, b) PROVE LoadInv'
  <2> stage = "editor" /\ stage' = "editor" /\ loaded' = loaded
    BY <1>7 DEF Resolve
  <2> QED BY DEF LoadInv
<1>8. CASE UNCHANGED vars
  <2> /\ graph' = graph /\ stage' = stage /\ loaded' = loaded /\ flights' = flights
      /\ named' = named
    BY <1>8 DEF vars
  <2> QED BY SameGraph DEF LoadInv, LoadingInv, Wanted
<1> QED BY <1>1, <1>2, <1>3, <1>4, <1>5, <1>6, <1>7, <1>8 DEF Next

-----------------------------------------------------------------------------
(* The player puts the libraries in order *)

\* The libraries that each library reaches.
Below == [l \in Libraries |-> Reached(Preloads[l], Preloads)]

CallVisit(l) == [library |-> l, step |-> "call"]
ReturnVisit(l) == [library |-> l, step |-> "return"]

\* Item k of what is still to be done.  A library whose return it is will be listed once; what
\* it preloads has begun or comes first, and whatever comes first is reached from it.
ItemInOrder(k) ==
  /\ todo[k].step \in {"call", "return"}
  /\ todo[k].step = "return" =>
       /\ todo[k].library \in (begun \cap loaded) \ ToSet(list)
       /\ \A j \in DOMAIN todo : todo[j] = todo[k] => j = k
       /\ \A d \in Preloads[todo[k].library] \cap loaded :
            d \in begun \/ \E j \in 1 .. k - 1 : todo[j] = CallVisit(d)
       /\ \A j \in 1 .. k - 1 :
            todo[j].library \in loaded => todo[j].library \in Below[todo[k].library]

TodoInOrder == \A k \in DOMAIN todo : ItemInOrder(k)

ListInOrder ==
  /\ IsInjective(list)
  /\ ToSet(list) \subseteq begun \cap loaded
  /\ \A l \in begun \cap loaded :
       l \in ToSet(list) \/ \E k \in DOMAIN todo : todo[k] = ReturnVisit(l)
  /\ \A l \in ToSet(list) : Preloads[l] \cap loaded \subseteq begun
  /\ \A l \in Wanted \cap loaded : l \in begun \/ \E k \in DOMAIN todo : todo[k] = CallVisit(l)
  /\ Acyclic =>
       \A i \in DOMAIN list : \A d \in Preloads[list[i]] \cap loaded :
         \E j \in 1 .. i - 1 : list[j] = d

OrderInv ==
  /\ stage \in {"save", "load"} => begun = {}
  /\ stage = "load" => todo = <<>> /\ list = <<>>
  /\ stage = "order" => TodoInOrder /\ ListInOrder
  /\ PlayerListIsComplete

LEMMA BelowClosed ==
  ASSUME TypeOK, NEW b \in Libraries
  PROVE  /\ Below[b] \subseteq graph.installed
         /\ Preloads[b] \cap graph.installed \subseteq Below[b]
         /\ \A l \in Below[b] : Preloads[l] \cap graph.installed \subseteq Below[b]
         /\ Acyclic /\ b \in graph.installed => b \notin Below[b]
<1>1. graph \in Graph /\ Preloads \in [Libraries -> SUBSET Libraries]
  BY GraphParts DEF TypeOK
<1>2. Below[b] = Reached(Preloads[b], Preloads)
  BY DEF Below
<1>3. /\ Reached(Preloads[b], Preloads) \subseteq graph.installed
      /\ Closed(Reached(Preloads[b], Preloads), Preloads[b], Preloads)
  BY <1>1, ReachedClosed
<1> QED BY <1>2, <1>3 DEF Closed, Acyclic

LEMMA BelowTransitive ==
  ASSUME TypeOK, NEW a \in Libraries, NEW b \in Libraries, b \in Below[a]
  PROVE  Below[b] \subseteq Below[a]
<1>1. graph \in Graph /\ Preloads \in [Libraries -> SUBSET Libraries]
  BY GraphParts DEF TypeOK
<1>2. Below[b] = Reached(Preloads[b], Preloads) /\ Below[a] = Reached(Preloads[a], Preloads)
  BY DEF Below
<1>3. Preloads[b] \cap graph.installed \subseteq Below[a]
  BY BelowClosed
<1> QED BY <1>1, <1>2, <1>3, ReachedMonotone

LEMMA SameBelow ==
  ASSUME graph' = graph
  PROVE  Below' = Below
BY SameGraph DEF Below, Reached, Closed

\* The calls for a library's dependencies and its return take the place of its call.
LEMMA TailItems ==
  ASSUME NEW t \in Seq(Visit), t # <<>>
  PROVE  /\ Tail(t) \in Seq(Visit)
         /\ Len(t) \in Nat \ {0} /\ Len(Tail(t)) = Len(t) - 1
         /\ \A k \in 1 .. Len(t) - 1 : Tail(t)[k] = t[k + 1]
         /\ Head(t) = t[1]
BY HeadTailProperties

LEMMA ConcatItems ==
  ASSUME NEW s \in Seq(Visit), NEW t \in Seq(Visit)
  PROVE  /\ s \o t \in Seq(Visit) /\ Len(s \o t) = Len(s) + Len(t)
         /\ Len(s) \in Nat /\ Len(t) \in Nat
         /\ \A k \in 1 .. Len(s) : (s \o t)[k] = s[k]
         /\ \A k \in 1 .. Len(t) : (s \o t)[Len(s) + k] = t[k]
OBVIOUS

LEMMA CallsAndReturn ==
  ASSUME NEW s \in Seq(Libraries), NEW l \in Libraries, NEW t \in Seq(Visit), t # <<>>
  PROVE  LET q == Visits("call", s) \o Visits("return", <<l>>) \o Tail(t) IN
         /\ q \in Seq(Visit)
         /\ Len(q) = Len(s) + Len(t)
         /\ \A k \in 1 .. Len(s) : q[k] = CallVisit(s[k])
         /\ q[Len(s) + 1] = ReturnVisit(l)
         /\ \A k \in 2 .. Len(t) : q[Len(s) + k] = t[k]
<1>0. Len(s) \in Nat
  OBVIOUS
<1>1. PICK calls \in Seq(Visit) :
        /\ calls = Visits("call", s) /\ Len(calls) = Len(s)
        /\ \A k \in 1 .. Len(s) : calls[k] = CallVisit(s[k])
  BY VisitsOf DEF CallVisit
<1>2. PICK return \in Seq(Visit) :
        return = Visits("return", <<l>>) /\ Len(return) = 1 /\ return[1] = ReturnVisit(l)
  <2>1. PICK one \in Seq(Libraries) : one = <<l>> /\ Len(one) = 1 /\ one[1] = l
    <3> <<l>> \in Seq(Libraries) /\ Len(<<l>>) = 1 /\ <<l>>[1] = l
      OBVIOUS
    <3> QED OBVIOUS
  <2>2. /\ Visits("return", one) \in Seq(Visit) /\ Len(Visits("return", one)) = Len(one)
        /\ \A i \in 1 .. Len(one) : Visits("return", one)[i] = ReturnVisit(one[i])
    BY VisitsOf DEF ReturnVisit
  <2> QED BY <2>1, <2>2
<1>3. PICK rest \in Seq(Visit) :
        /\ rest = Tail(t) /\ Len(t) \in Nat \ {0} /\ Len(rest) = Len(t) - 1
        /\ \A k \in 1 .. Len(t) - 1 : rest[k] = t[k + 1]
  BY TailItems
<1>4. PICK front \in Seq(Visit) :
        /\ front = calls \o return /\ Len(front) = Len(s) + 1
        /\ \A k \in 1 .. Len(s) : front[k] = calls[k]
        /\ front[Len(s) + 1] = return[1]
  <2>1. /\ calls \o return \in Seq(Visit) /\ Len(calls \o return) = Len(calls) + Len(return)
        /\ \A k \in 1 .. Len(calls) : (calls \o return)[k] = calls[k]
        /\ \A k \in 1 .. Len(return) : (calls \o return)[Len(calls) + k] = return[k]
    BY ConcatItems
  <2>2. PICK q \in Seq(Visit) : 
          /\ q = calls \o return /\ Len(q) = Len(calls) + Len(return)
          /\ \A k \in 1 .. Len(calls) : q[k] = calls[k]
          /\ \A k \in 1 .. Len(return) : q[Len(calls) + k] = return[k]
    BY <2>1, Zenon
  <2>3. q[Len(s) + 1] = return[1] /\ Len(q) = Len(s) + 1
    <3>1. 1 \in 1 .. Len(return)
      BY <1>2
    <3>2. q[Len(calls) + 1] = return[1]
      BY <2>2, <3>1, Zenon
    <3> QED BY <1>1, <1>2, <2>2, <3>2, Zenon
  <2> QED BY <1>1, <2>2, <2>3
<1>5. /\ front \o rest \in Seq(Visit) /\ Len(front \o rest) = Len(s) + Len(t)
      /\ \A k \in 1 .. Len(s) + 1 : (front \o rest)[k] = front[k]
      /\ \A k \in 2 .. Len(t) : (front \o rest)[Len(s) + k] = t[k]
  <2>1. /\ front \o rest \in Seq(Visit) /\ Len(front \o rest) = Len(front) + Len(rest)
        /\ \A k \in 1 .. Len(front) : (front \o rest)[k] = front[k]
        /\ \A k \in 1 .. Len(rest) : (front \o rest)[Len(front) + k] = rest[k]
    BY ConcatItems
  <2>2. ASSUME NEW k \in 2 .. Len(t) PROVE (front \o rest)[Len(s) + k] = t[k]
    <3> k - 1 \in 1 .. Len(rest) /\ Len(s) + k = Len(front) + (k - 1) /\ rest[k - 1] = t[k]
      BY <1>0, <1>3, <1>4
    <3> QED BY <2>1
  <2>3. Len(front) + Len(rest) = Len(s) + Len(t)
    BY <1>0, <1>3, <1>4
  <2>4. Len(front \o rest) = Len(s) + Len(t)
    BY <2>1, <2>3, Zenon
  <2>5. \A k \in 1 .. Len(s) + 1 : (front \o rest)[k] = front[k]
    BY <1>4, <2>1, Zenon
  <2> QED BY <2>1, <2>2, <2>4, <2>5, Zenon
<1>6. front \o rest = Visits("call", s) \o Visits("return", <<l>>) \o Tail(t)
  BY <1>1, <1>2, <1>3, <1>4, Zenon
<1> HIDE DEF CallVisit, ReturnVisit
<1>7. \A k \in 1 .. Len(s) : (front \o rest)[k] = CallVisit(s[k])
  BY <1>0, <1>1, <1>4, <1>5
<1>8. (front \o rest)[Len(s) + 1] = ReturnVisit(l)
  BY <1>0, <1>2, <1>4, <1>5
<1> QED BY <1>5, <1>6, <1>7, <1>8, Zenon

LEMMA OrderingEnds ==
  ASSUME TypeOK, SaveInv, LoadInv, OrderInv, EndOrdering
  PROVE  OrderInv'
<1>1. stage = "order" /\ stage' = "played" /\ graph' = graph /\ todo = <<>> /\ answer' = list
  BY DEF EndOrdering
<1>2. TodoInOrder /\ ListInOrder /\ loaded = Played /\ WantedIsPlayed
  BY <1>1, WantedReached DEF OrderInv, LoadInv
<1>3. DOMAIN todo = {}
  BY <1>1
<1>4. begun \cap loaded = ToSet(list)
  BY <1>2, <1>3 DEF ListInOrder
<1>5. Played = ToSet(list)
  <2>1. ToSet(list) \in SUBSET graph.installed
    BY <1>2, <1>4, PlayedClosed
  <2>2. (Roots \cup ToSet(graph.extra)) \cap graph.installed \subseteq ToSet(list)
    BY <1>2, <1>3, <1>4 DEF ListInOrder, WantedIsPlayed
  <2>3. \A l \in ToSet(list) : Preloads[l] \cap graph.installed \subseteq ToSet(list)
    BY <1>2, <1>4, <2>1, PlayedClosed DEF ListInOrder
  <2> QED BY <1>2, <1>4, <2>1, <2>2, <2>3, PlayedClosed
<1>6. ASSUME Acyclic PROVE InOrder(list)
  <2> SUFFICES ASSUME NEW i \in DOMAIN list, NEW j \in DOMAIN list, list[j] \in Preloads[list[i]]
               PROVE  j < i
    BY DEF InOrder
  <2>1. list \in Seq(Libraries) /\ list[j] \in loaded
    BY <1>2, <1>4, InSet DEF TypeOK
  <2>2. PICK k \in 1 .. i - 1 : list[k] = list[j]
    BY <1>2, <1>6, <2>1 DEF ListInOrder
  <2>3. k = j
    BY <1>2, <2>1, <2>2 DEF ListInOrder, IsInjective
  <2> QED BY <2>1, <2>2, <2>3
<1>7. PlayerListIsComplete'
  <2>1. IsInjective(answer') /\ ToSet(answer') = Played'
    BY <1>1, <1>2, <1>5, SameGraph DEF ListInOrder
  <2>2. Acyclic' => InOrder(answer)'
    BY <1>1, <1>6, SameGraph DEF InOrder
  <2> QED BY <2>1, <2>2 DEF PlayerListIsComplete, Played
<1> QED BY <1>1, <1>7 DEF OrderInv

LEMMA OrderingBegins ==
  ASSUME TypeOK, OrderInv, EndLoading
  PROVE  OrderInv'
<1>1. /\ stage = "load" /\ stage' = "order" /\ graph' = graph /\ begun' = begun /\ list' = list
      /\ named' = named /\ todo' = Visits("call", named \o graph.extra)
  BY DEF EndLoading
<1>2. begun' = {} /\ list' = <<>>
  BY <1>1 DEF OrderInv
<1>3. PICK all \in Seq(Libraries) : all = named \o graph.extra /\ ToSet(all) = Wanted
  <2> named \in Seq(Libraries) /\ graph.extra \in Seq(Libraries)
    BY GraphParts DEF TypeOK
  <2> QED BY SetOfConcat DEF Wanted
<1>4. /\ todo' \in Seq(Visit) /\ Len(todo') = Len(all)
      /\ \A k \in 1 .. Len(all) : todo'[k] = CallVisit(all[k])
  BY <1>1, <1>3, VisitsOf DEF CallVisit
<1>5. TodoInOrder'
  <2> \A k \in DOMAIN todo' : todo'[k].step = "call"
    <3> Len(all) \in Nat /\ DOMAIN todo' = 1 .. Len(all)
      BY <1>4
    <3> \A l : CallVisit(l).step = "call"
      BY DEF CallVisit
    <3> QED BY <1>4
  <2> QED BY DEF TodoInOrder, ItemInOrder
<1>6. ASSUME NEW l \in Wanted PROVE \E k \in DOMAIN todo' : todo'[k] = CallVisit(l)
  <2> PICK k \in DOMAIN all : all[k] = l
    BY <1>3, InSet
  <2> k \in DOMAIN todo' /\ todo'[k] = CallVisit(l)
    BY <1>4
  <2> QED OBVIOUS
<1>7. ListInOrder'
  <2>1. ToSet(list') = {} /\ IsInjective(list') /\ DOMAIN list' = {}
    BY <1>2, SetOfEmpty DEF IsInjective
  <2>2. Wanted' = Wanted
    BY <1>1 DEF Wanted
  <2> QED BY <1>2, <1>6, <2>1, <2>2 DEF ListInOrder, CallVisit
<1> QED BY <1>1, <1>5, <1>7 DEF OrderInv, PlayerListIsComplete

LEMMA VisitKinds ==
  /\ \A d : CallVisit(d).library = d /\ CallVisit(d).step = "call"
  /\ \A d : ReturnVisit(d).library = d /\ ReturnVisit(d).step = "return"
  /\ \A v \in Visit : /\ v.step = "return" => v = ReturnVisit(v.library)
                      /\ v.step = "call" => v = CallVisit(v.library)
<1>1. \A d : CallVisit(d).library = d /\ CallVisit(d).step = "call"
  BY DEF CallVisit
<1>2. \A d : ReturnVisit(d).library = d /\ ReturnVisit(d).step = "return"
  BY DEF ReturnVisit
<1>3. ASSUME NEW v \in Visit
      PROVE  /\ v.step = "return" => v = ReturnVisit(v.library)
             /\ v.step = "call" => v = CallVisit(v.library)
  BY DEF Visit, CallVisit, ReturnVisit
<1> QED BY <1>1, <1>2, <1>3

LEMMA ReturnOrders ==
  ASSUME TypeOK, LoadInv, OrderInv, AggregateAssets, Head(todo).step = "return"
  PROVE  OrderInv'
<1> DEFINE n == Len(todo)
<1>1. /\ stage = "order" /\ stage' = "order" /\ graph' = graph /\ loaded' = loaded
      /\ named' = named /\ todo # <<>> /\ todo \in Seq(Visit)
  BY DEF AggregateAssets, TypeOK
<1>2. TodoInOrder /\ ListInOrder /\ loaded \subseteq graph.installed
  BY <1>1, PlayedClosed DEF OrderInv, LoadInv
<1>3. /\ n \in Nat \ {0} /\ DOMAIN todo = 1 .. n /\ todo[1] = Head(todo)
      /\ Tail(todo) \in Seq(Visit) /\ Len(Tail(todo)) = n - 1
      /\ \A k \in 1 .. n - 1 : Tail(todo)[k] = todo[k + 1]
  BY <1>1, TailItems
<1>4. PICK l \in Libraries : todo[1] = ReturnVisit(l)
  <2> todo[1] \in Visit /\ todo[1].step = "return"
    BY <1>1, <1>3
  <2> todo[1].library \in Libraries /\ todo[1] = ReturnVisit(todo[1].library)
    BY VisitKinds DEF Visit
  <2> QED OBVIOUS
<1>5. todo' = Tail(todo) /\ list' = Append(list, l) /\ begun' = begun
  BY <1>3, <1>4, VisitKinds, ZenonT(40) DEF AggregateAssets
<1>6. DOMAIN todo' = 1 .. n - 1 /\ \A k \in 1 .. n - 1 : todo'[k] = todo[k + 1]
  BY <1>3, <1>5
<1> HIDE DEF n
<1>7. /\ l \in begun \cap loaded /\ l \notin ToSet(list)
      /\ \A j \in 1 .. n : todo[j] = ReturnVisit(l) => j = 1
      /\ Preloads[l] \cap loaded \subseteq begun
  <2>1. 1 \in DOMAIN todo /\ todo[1].step = "return" /\ todo[1].library = l
    BY <1>3, <1>4, VisitKinds
  <2>2. \A d \in Preloads[l] \cap loaded : d \in begun \/ \E j \in 1 .. 0 : todo[j] = CallVisit(d)
    BY <1>2, <2>1 DEF TodoInOrder, ItemInOrder
  <2> QED BY <1>2, <1>3, <1>4, <2>1, <2>2 DEF TodoInOrder, ItemInOrder
<1>8. list \in Seq(Libraries) /\ IsInjective(list') /\ ToSet(list') = ToSet(list) \cup {l}
  BY <1>2, <1>5, <1>7, SetOfAppend, AppendNew DEF TypeOK, ListInOrder
<1>9. Preloads' = Preloads /\ Below' = Below /\ Acyclic' = Acyclic /\ Wanted' = Wanted
  BY <1>1, SameGraph, SameBelow DEF Wanted
<1>10. TodoInOrder'
  <2> SUFFICES ASSUME NEW k \in 1 .. n - 1
               PROVE  /\ todo'[k].step \in {"call", "return"}
                      /\ todo'[k].step = "return" =>
                           /\ todo'[k].library \in (begun \cap loaded) \ ToSet(list')
                           /\ \A j \in 1 .. n - 1 : todo'[j] = todo'[k] => j = k
                           /\ \A d \in Preloads[todo'[k].library] \cap loaded :
                                d \in begun \/ \E j \in 1 .. k - 1 : todo'[j] = CallVisit(d)
                           /\ \A j \in 1 .. k - 1 :
                                todo'[j].library \in loaded => todo'[j].library \in Below[todo'[k].library]
    BY <1>1, <1>5, <1>6, <1>9, ZenonT(40) DEF TodoInOrder, ItemInOrder
  <2>1. k + 1 \in DOMAIN todo /\ k + 1 # 1 /\ todo'[k] = todo[k + 1]
    BY <1>3, <1>6
  <2>2. todo'[k].step \in {"call", "return"}
    BY <1>2, <2>1 DEF TodoInOrder, ItemInOrder
  <2>3. ASSUME todo'[k].step = "return"
        PROVE  /\ todo'[k].library \in (begun \cap loaded) \ ToSet(list')
               /\ \A j \in 1 .. n - 1 : todo'[j] = todo'[k] => j = k
               /\ \A d \in Preloads[todo'[k].library] \cap loaded :
                    d \in begun \/ \E j \in 1 .. k - 1 : todo'[j] = CallVisit(d)
               /\ \A j \in 1 .. k - 1 :
                    todo'[j].library \in loaded => todo'[j].library \in Below[todo'[k].library]
    <3> DEFINE b == todo[k + 1].library
    <3>1. /\ b \in (begun \cap loaded) \ ToSet(list)
          /\ \A j \in 1 .. n : todo[j] = todo[k + 1] => j = k + 1
          /\ \A d \in Preloads[b] \cap loaded :
               d \in begun \/ \E j \in 1 .. k : todo[j] = CallVisit(d)
          /\ \A j \in 1 .. k : todo[j].library \in loaded => todo[j].library \in Below[b]
      <4> k + 1 - 1 = k
        OBVIOUS
      <4> QED BY <1>2, <1>3, <2>1, <2>3 DEF TodoInOrder, ItemInOrder
    <3>2. b # l
      <4> todo[k + 1] \in Visit /\ todo[k + 1].step = "return"
        BY <1>1, <2>1, <2>3
      <4> todo[k + 1] = ReturnVisit(b)
        BY VisitKinds
      <4> QED BY <1>3, <1>7, <2>1
    <3>3. \A j \in 1 .. n - 1 : todo'[j] = todo'[k] => j = k
      <4> SUFFICES ASSUME NEW j \in 1 .. n - 1, todo'[j] = todo'[k] PROVE j = k
        OBVIOUS
      <4> j + 1 \in 1 .. n /\ todo[j + 1] = todo[k + 1]
        BY <1>3, <1>6, <2>1
      <4> j + 1 = k + 1
        BY <3>1
      <4> QED OBVIOUS
    <3>4. ASSUME NEW d \in Preloads[b] \cap loaded, d \notin begun
          PROVE  \E j \in 1 .. k - 1 : todo'[j] = CallVisit(d)
      <4>1. PICK j \in 1 .. k : todo[j] = CallVisit(d)
        BY <3>1, <3>4
      <4>2. j # 1
        BY <1>4, <4>1, VisitKinds
      <4>3. j - 1 \in 1 .. k - 1 /\ j - 1 \in 1 .. n - 1 /\ j - 1 + 1 = j
        BY <1>3, <4>1, <4>2
      <4> QED BY <1>6, <4>1, <4>3
    <3>5. \A j \in 1 .. k - 1 : todo'[j].library \in loaded => todo'[j].library \in Below[b]
      <4> SUFFICES ASSUME NEW j \in 1 .. k - 1, todo'[j].library \in loaded
                   PROVE  todo'[j].library \in Below[b]
        OBVIOUS
      <4> j + 1 \in 1 .. k /\ todo'[j] = todo[j + 1]
        BY <1>3, <1>6
      <4> QED BY <3>1
    <3> QED BY <1>8, <2>1, <3>1, <3>2, <3>3, <3>4, <3>5
  <2> QED BY <2>2, <2>3
<1>11. \A v : (\E k \in DOMAIN todo : todo[k] = v) => v = ReturnVisit(l) \/ \E k \in DOMAIN todo' : todo'[k] = v
  <2> SUFFICES ASSUME NEW k \in 1 .. n, k # 1
               PROVE  \E h \in 1 .. n - 1 : todo'[h] = todo[k]
    BY <1>3, <1>4, <1>6
  <2> k - 1 \in 1 .. n - 1 /\ k - 1 + 1 = k
    BY <1>3
  <2> QED BY <1>6
<1>12. ListInOrder'
  <2>1. ToSet(list') \subseteq begun \cap loaded
    BY <1>2, <1>7, <1>8 DEF ListInOrder
  <2>2. ASSUME NEW x \in begun \cap loaded
        PROVE  x \in ToSet(list') \/ \E k \in DOMAIN todo' : todo'[k] = ReturnVisit(x)
    <3>1. CASE x \in ToSet(list)
      BY <1>8, <3>1
    <3>2. CASE x \notin ToSet(list)
      <4>1. \E k \in DOMAIN todo : todo[k] = ReturnVisit(x)
        BY <1>2, <3>2 DEF ListInOrder
      <4>2. ReturnVisit(x) = ReturnVisit(l) => x = l
        BY VisitKinds
      <4> QED BY <1>8, <1>11, <4>1, <4>2
    <3> QED BY <3>1, <3>2
  <2>3. \A x \in ToSet(list') : Preloads[x] \cap loaded \subseteq begun
    BY <1>2, <1>7, <1>8 DEF ListInOrder
  <2>4. ASSUME NEW x \in Wanted \cap loaded, x \notin begun
        PROVE  \E k \in DOMAIN todo' : todo'[k] = CallVisit(x)
    <3>1. \E k \in DOMAIN todo : todo[k] = CallVisit(x)
      BY <1>2, <2>4 DEF ListInOrder
    <3>2. CallVisit(x) # ReturnVisit(l)
      BY VisitKinds
    <3> QED BY <1>11, <3>1, <3>2
  <2>5. ASSUME Acyclic, NEW i \in DOMAIN list', NEW d \in Preloads[list'[i]] \cap loaded
        PROVE  \E j \in 1 .. i - 1 : list'[j] = d
    <3>1. Len(list) \in Nat /\ DOMAIN list = 1 .. Len(list) /\ DOMAIN list' = 1 .. Len(list) + 1
          /\ (\A j \in 1 .. Len(list) : list'[j] = list[j]) /\ list'[Len(list) + 1] = l
      BY <1>5, <1>8
    <3>2. CASE i \in 1 .. Len(list)
      <4>1. PICK j \in 1 .. i - 1 : list[j] = d
        BY <1>2, <2>5, <3>1, <3>2 DEF ListInOrder
      <4>2. j \in 1 .. Len(list)
        BY <3>1, <3>2
      <4> QED BY <3>1, <4>1, <4>2
    <3>3. CASE i = Len(list) + 1
      <4>1. d \in Preloads[l] \cap loaded /\ d \in begun /\ d \in graph.installed
        BY <1>2, <1>7, <2>5, <3>1, <3>3
      <4>2. d \in Libraries
        BY <4>1, GraphParts DEF TypeOK
      <4>3. d # l
        BY <1>4, <2>5, <4>1, BelowClosed
      <4>4. ~\E k \in DOMAIN todo : todo[k] = ReturnVisit(d)
        <5> SUFFICES ASSUME NEW k \in DOMAIN todo, todo[k] = ReturnVisit(d) PROVE FALSE
          OBVIOUS
        <5>1. k # 1
          BY <1>4, <4>3, VisitKinds
        <5>2. 1 \in 1 .. k - 1
          BY <1>3, <5>1
        <5>3. l \in Below[d]
          BY <1>2, <1>4, <1>7, <5>2, VisitKinds DEF TodoInOrder, ItemInOrder
        <5>4. d \in Below[d]
          BY <4>1, <4>2, <5>3, BelowClosed
        <5> QED BY <2>5, <4>1, <4>2, <5>4, BelowClosed
      <4>5. d \in ToSet(list)
        BY <1>2, <4>1, <4>4 DEF ListInOrder
      <4>6. PICK j \in DOMAIN list : list[j] = d
        BY <4>5, InSet
      <4>7. j \in 1 .. i - 1 /\ list'[j] = d
        BY <3>1, <3>3, <4>6
      <4> QED BY <4>7
    <3> QED BY <3>1, <3>2, <3>3
  <2> QED BY <1>1, <1>5, <1>8, <1>9, <2>1, <2>2, <2>3, <2>4, <2>5 DEF ListInOrder, CallVisit, ReturnVisit
<1> QED BY <1>1, <1>10, <1>12 DEF OrderInv, PlayerListIsComplete

\* What the step of a call does, with the first item of todo made a constant.
LEMMA CallParts ==
  ASSUME TypeOK, LoadInv, OrderInv, AggregateAssets, Head(todo).step = "call"
  PROVE  /\ stage = "order" /\ stage' = "order" /\ graph' = graph /\ loaded' = loaded
         /\ named' = named /\ list' = list /\ todo \in Seq(Visit) /\ todo # <<>>
         /\ TodoInOrder /\ ListInOrder /\ loaded \subseteq graph.installed
         /\ Preloads' = Preloads /\ Below' = Below /\ Acyclic' = Acyclic /\ Wanted' = Wanted
         /\ DOMAIN todo = 1 .. Len(todo) /\ Len(todo) \in Nat \ {0}
         /\ \E l \in Libraries :
              /\ todo[1] = CallVisit(l)
              /\ begun' = begun \cup {l}
              /\ todo' = IF l \in begun \/ l \notin loaded THEN Tail(todo)
                         ELSE Visits("call", graph.preloaded[l]) \o Visits("return", <<l>>) \o Tail(todo)
<1>1. /\ stage = "order" /\ stage' = "order" /\ graph' = graph /\ loaded' = loaded
      /\ named' = named /\ todo # <<>> /\ todo \in Seq(Visit) /\ list' = list
  BY DEF AggregateAssets, TypeOK
<1>2. TodoInOrder /\ ListInOrder /\ loaded \subseteq graph.installed
  BY <1>1, PlayedClosed DEF OrderInv, LoadInv
<1>3. /\ Len(todo) \in Nat \ {0} /\ DOMAIN todo = 1 .. Len(todo) /\ todo[1] = Head(todo)
  BY <1>1, TailItems
<1>4. PICK l \in Libraries : todo[1] = CallVisit(l)
  <2> todo[1] \in Visit /\ todo[1].step = "call"
    BY <1>1, <1>3
  <2> todo[1].library \in Libraries /\ todo[1] = CallVisit(todo[1].library)
    BY VisitKinds DEF Visit
  <2> QED OBVIOUS
<1>5. /\ begun' = begun \cup {l}
      /\ todo' = IF l \in begun \/ l \notin loaded THEN Tail(todo)
                 ELSE Visits("call", graph.preloaded[l]) \o Visits("return", <<l>>) \o Tail(todo)
  <2>1. Head(todo).step # "return" /\ Head(todo).library = l
    BY <1>3, <1>4, VisitKinds
  <2> QED BY <2>1, Zenon DEF AggregateAssets
<1>6. Preloads' = Preloads /\ Below' = Below /\ Acyclic' = Acyclic /\ Wanted' = Wanted
  BY <1>1, SameGraph, SameBelow DEF Wanted
<1> QED BY <1>1, <1>2, <1>3, <1>4, <1>5, <1>6

LEMMA SkipOrders ==
  ASSUME TypeOK, LoadInv, OrderInv, AggregateAssets, Head(todo).step = "call",
         NEW l \in Libraries, todo[1] = CallVisit(l), begun' = begun \cup {l},
         todo' = Tail(todo), l \in begun \/ l \notin loaded
  PROVE  OrderInv'
<1> DEFINE n == Len(todo)
<1>1. /\ stage = "order" /\ stage' = "order" /\ graph' = graph /\ loaded' = loaded
      /\ named' = named /\ list' = list /\ todo \in Seq(Visit) /\ todo # <<>>
      /\ TodoInOrder /\ ListInOrder
      /\ Preloads' = Preloads /\ Below' = Below /\ Acyclic' = Acyclic /\ Wanted' = Wanted
      /\ DOMAIN todo = 1 .. n /\ n \in Nat \ {0}
  BY CallParts
<1>2. /\ Tail(todo) \in Seq(Visit) /\ Len(Tail(todo)) = n - 1
      /\ \A k \in 1 .. n - 1 : Tail(todo)[k] = todo[k + 1]
  BY <1>1, TailItems
<1>3. DOMAIN todo' = 1 .. n - 1 /\ \A k \in 1 .. n - 1 : todo'[k] = todo[k + 1]
  BY <1>2
<1> HIDE DEF n
<1>4. begun' \cap loaded = begun \cap loaded
  OBVIOUS
<1>5. \A h \in 1 .. n : h # 1 => h - 1 \in 1 .. n - 1 /\ todo'[h - 1] = todo[h]
  <2> SUFFICES ASSUME NEW h \in 1 .. n, h # 1 PROVE h - 1 \in 1 .. n - 1 /\ todo'[h - 1] = todo[h]
    OBVIOUS
  <2> h - 1 \in 1 .. n - 1 /\ h - 1 + 1 = h
    BY <1>1
  <2> QED BY <1>3
<1>6. ASSUME NEW k \in 1 .. n - 1
      PROVE  ItemInOrder(k)'
  <2>1. k + 1 \in DOMAIN todo /\ k + 1 # 1 /\ todo'[k] = todo[k + 1] /\ k + 1 - 1 = k
    BY <1>1, <1>3
  <2>2. CASE todo[k + 1].step # "return"
    BY <1>1, <2>1, <2>2 DEF TodoInOrder, ItemInOrder
  <2>3. CASE todo[k + 1].step = "return"
    <3> DEFINE b == todo[k + 1].library
    <3>1. /\ b \in (begun \cap loaded) \ ToSet(list)
          /\ \A j \in 1 .. n : todo[j] = todo[k + 1] => j = k + 1
          /\ \A d \in Preloads[b] \cap loaded :
               d \in begun \/ \E j \in 1 .. k : todo[j] = CallVisit(d)
          /\ \A j \in 1 .. k : todo[j].library \in loaded => todo[j].library \in Below[b]
      BY <1>1, <2>1, <2>3 DEF TodoInOrder, ItemInOrder
    <3>2. \A j \in 1 .. n - 1 : todo'[j] = todo'[k] => j = k
      <4> SUFFICES ASSUME NEW j \in 1 .. n - 1, todo'[j] = todo'[k] PROVE j = k
        OBVIOUS
      <4> j + 1 \in 1 .. n /\ todo[j + 1] = todo[k + 1]
        BY <1>1, <1>3, <2>1
      <4> j + 1 = k + 1
        BY <3>1
      <4> QED OBVIOUS
    <3>3. ASSUME NEW d \in Preloads[b] \cap loaded, d \notin begun'
          PROVE  \E j \in 1 .. k - 1 : todo'[j] = CallVisit(d)
      <4>1. PICK j \in 1 .. k : todo[j] = CallVisit(d)
        BY <3>1, <3>3
      <4>2. j # 1
        BY <3>3, <4>1, VisitKinds
      <4>3. j - 1 \in 1 .. k - 1 /\ j \in 1 .. n
        BY <1>1, <4>1, <4>2
      <4> QED BY <1>5, <4>1, <4>2, <4>3
    <3>4. \A j \in 1 .. k - 1 : todo'[j].library \in loaded => todo'[j].library \in Below[b]
      <4> SUFFICES ASSUME NEW j \in 1 .. k - 1, todo'[j].library \in loaded
                   PROVE  todo'[j].library \in Below[b]
        OBVIOUS
      <4> j + 1 \in 1 .. k /\ todo'[j] = todo[j + 1]
        BY <1>1, <1>3
      <4> QED BY <3>1
    <3> QED BY <1>1, <1>3, <1>4, <2>1, <2>3, <3>1, <3>2, <3>3, <3>4 DEF ItemInOrder
  <2> QED BY <2>2, <2>3
<1>7. TodoInOrder'
  BY <1>3, <1>6 DEF TodoInOrder, ItemInOrder
<1>8. \A v : (\E k \in DOMAIN todo : todo[k] = v) => v = CallVisit(l) \/ \E k \in DOMAIN todo' : todo'[k] = v
  BY <1>1, <1>3, <1>5, ZenonT(40)
<1>9. ListInOrder'
  <2>1. ASSUME NEW x \in begun \cap loaded
        PROVE  x \in ToSet(list) \/ \E k \in DOMAIN todo' : todo'[k] = ReturnVisit(x)
    <3>1. ReturnVisit(x) # CallVisit(l)
      BY VisitKinds
    <3> QED BY <1>1, <1>8, <3>1 DEF ListInOrder
  <2>2. ASSUME NEW x \in Wanted \cap loaded, x \notin begun'
        PROVE  \E k \in DOMAIN todo' : todo'[k] = CallVisit(x)
    <3>1. CallVisit(x) # CallVisit(l)
      BY <2>2, VisitKinds
    <3> QED BY <1>1, <1>8, <2>2, <3>1 DEF ListInOrder
  <2>3. \A x \in ToSet(list) : Preloads[x] \cap loaded \subseteq begun'
    BY <1>1 DEF ListInOrder
  <2> QED BY <1>1, <1>4, <2>1, <2>2, <2>3 DEF ListInOrder
<1> QED BY <1>1, <1>7, <1>9 DEF OrderInv, PlayerListIsComplete

LEMMA ExpandOrders ==
  ASSUME TypeOK, LoadInv, OrderInv, AggregateAssets, Head(todo).step = "call",
         NEW l \in Libraries, todo[1] = CallVisit(l), begun' = begun \cup {l},
         todo' = Visits("call", graph.preloaded[l]) \o Visits("return", <<l>>) \o Tail(todo),
         l \notin begun, l \in loaded
  PROVE  OrderInv'
<1> DEFINE n == Len(todo)
<1>1. /\ stage = "order" /\ stage' = "order" /\ graph' = graph /\ loaded' = loaded
      /\ named' = named /\ list' = list /\ todo \in Seq(Visit) /\ todo # <<>>
      /\ TodoInOrder /\ ListInOrder /\ loaded \subseteq graph.installed
      /\ Preloads' = Preloads /\ Below' = Below /\ Acyclic' = Acyclic /\ Wanted' = Wanted
      /\ DOMAIN todo = 1 .. n /\ n \in Nat \ {0}
  BY CallParts
<1>2. PICK s \in Seq(Libraries) : s = graph.preloaded[l] /\ ToSet(s) = Preloads[l]
  BY GraphParts DEF TypeOK, Preloads
<1> DEFINE m == Len(s)
<1>3. /\ m \in Nat /\ DOMAIN todo' = 1 .. m + n
      /\ \A k \in 1 .. m : todo'[k] = CallVisit(s[k]) /\ s[k] \in Preloads[l]
      /\ todo'[m + 1] = ReturnVisit(l)
      /\ \A k \in 2 .. n : todo'[m + k] = todo[k]
  <2>1. PICK q \in Seq(Visit) :
          /\ q = Visits("call", s) \o Visits("return", <<l>>) \o Tail(todo)
          /\ Len(q) = m + n /\ \A k \in 1 .. m : q[k] = CallVisit(s[k])
          /\ q[m + 1] = ReturnVisit(l) /\ \A k \in 2 .. n : q[m + k] = todo[k]
    <3> DEFINE new == Visits("call", s) \o Visits("return", <<l>>) \o Tail(todo)
    <3>1. /\ new \in Seq(Visit)
          /\ Len(new) = Len(s) + Len(todo) /\ \A k \in 1 .. Len(s) : new[k] = CallVisit(s[k])
          /\ new[Len(s) + 1] = ReturnVisit(l) /\ \A k \in 2 .. Len(todo) : new[Len(s) + k] = todo[k]
      BY <1>1, CallsAndReturn
    <3> HIDE DEF new
    <3> QED BY <3>1 DEF new
  <2>2. todo' = q
    BY <1>2, <2>1
  <2>3. m \in Nat /\ DOMAIN q = 1 .. m + n
    BY <2>1
  <2>4. \A k \in 1 .. m : s[k] \in Preloads[l]
    BY <1>2, InSet
  <2> QED BY <2>1, <2>2, <2>3, <2>4
<1> HIDE DEF n, m
\* An index of todo' is that of a call, of the return or of an item that was there.
<1>4. ASSUME NEW k \in 1 .. m + n
      PROVE  k \in 1 .. m \/ k = m + 1 \/ (k - m \in 2 .. n /\ todo'[k] = todo[k - m])
  <2> SUFFICES ASSUME k \notin 1 .. m, k # m + 1 PROVE k - m \in 2 .. n /\ todo'[k] = todo[k - m]
    OBVIOUS
  <2> k - m \in 2 .. n /\ m + (k - m) = k
    BY <1>1, <1>3
  <2> QED BY <1>3
<1>5. l \in Libraries /\ l \notin ToSet(list) /\ l \in graph.installed
  BY <1>1 DEF ListInOrder
<1>6. \A j \in 1 .. n : todo[j] # ReturnVisit(l)
  <2> SUFFICES ASSUME NEW j \in 1 .. n, todo[j] = ReturnVisit(l) PROVE FALSE
    OBVIOUS
  <2> todo[j].step = "return" /\ todo[j].library = l
    BY VisitKinds
  <2> QED BY <1>1 DEF TodoInOrder, ItemInOrder
<1>7. ASSUME NEW k \in 1 .. m + n, k \in 1 .. m
      PROVE  ItemInOrder(k)'
  <2> todo'[k].step = "call"
    <3> todo'[k] = CallVisit(s[k])
      BY <1>3, <1>7
    <3> QED BY VisitKinds
  <2> QED BY DEF ItemInOrder
<1>8. ItemInOrder(m + 1)'
  <2>1. todo'[m + 1].step = "return" /\ todo'[m + 1].library = l
    BY <1>3, VisitKinds
  <2>2. ASSUME NEW j \in 1 .. m + n, todo'[j] = todo'[m + 1] PROVE j = m + 1
    <3>1. j \notin 1 .. m
      <4> SUFFICES ASSUME j \in 1 .. m PROVE FALSE
        OBVIOUS
      <4> CallVisit(s[j]) = ReturnVisit(l)
        BY <1>3, <2>2
      <4> QED BY VisitKinds
    <3>2. ~(j - m \in 2 .. n /\ todo'[j] = todo[j - m])
      <4> SUFFICES ASSUME j - m \in 2 .. n, todo'[j] = todo[j - m] PROVE FALSE
        OBVIOUS
      <4> j - m \in 1 .. n /\ todo[j - m] = ReturnVisit(l)
        BY <1>3, <2>2
      <4> QED BY <1>6
    <3> QED BY <1>4, <3>1, <3>2
  <2>3. ASSUME NEW d \in Preloads[l] PROVE \E j \in 1 .. (m + 1) - 1 : todo'[j] = CallVisit(d)
    <3>1. PICK j \in DOMAIN s : s[j] = d
      BY <1>2, InSet
    <3>2. DOMAIN s = 1 .. m
      BY DEF m
    <3>3. j \in 1 .. (m + 1) - 1
      BY <1>3, <3>1, <3>2
    <3> QED BY <1>3, <3>1, <3>2, <3>3
  <2>4. ASSUME NEW j \in 1 .. (m + 1) - 1, todo'[j].library \in loaded
        PROVE  todo'[j].library \in Below[l]
    <3> j \in 1 .. m
      BY <1>3
    <3> todo'[j].library = s[j] /\ s[j] \in Preloads[l]
      BY <1>3, VisitKinds
    <3> QED BY <1>1, <2>4, BelowClosed
  <2> QED BY <1>1, <1>3, <1>5, <2>1, <2>2, <2>3, <2>4 DEF ItemInOrder
<1>9. ASSUME NEW h \in 2 .. n PROVE ItemInOrder(m + h)'
  <2>1. h \in DOMAIN todo /\ todo'[m + h] = todo[h] /\ m + h \in 1 .. m + n
    <3> h \in 1 .. n /\ m + h \in 1 .. m + n
      BY <1>1, <1>3
    <3> QED BY <1>1, <1>3
  <2>2. CASE todo[h].step # "return"
    BY <1>1, <2>1, <2>2 DEF TodoInOrder, ItemInOrder
  <2>3. CASE todo[h].step = "return"
    <3> DEFINE b == todo[h].library
    <3>1. /\ b \in (begun \cap loaded) \ ToSet(list)
          /\ \A j \in 1 .. n : todo[j] = todo[h] => j = h
          /\ \A d \in Preloads[b] \cap loaded :
               d \in begun \/ \E j \in 1 .. h - 1 : todo[j] = CallVisit(d)
          /\ \A j \in 1 .. h - 1 : todo[j].library \in loaded => todo[j].library \in Below[b]
      BY <1>1, <2>1, <2>3 DEF TodoInOrder, ItemInOrder
    <3>2. todo[h] # ReturnVisit(l) /\ (\A d : todo[h] # CallVisit(d)) /\ b \in Libraries
      BY <1>1, <1>6, <2>1, <2>3, <3>1, VisitKinds DEF TypeOK
    <3>3. l \in Below[b]
      <4> 1 \in 1 .. h - 1 /\ todo[1].library = l
        BY VisitKinds
      <4> QED BY <3>1
    <3>4. ASSUME NEW j \in 1 .. m + n, todo'[j] = todo'[m + h] PROVE j = m + h
      <4>1. j \notin 1 .. m /\ j # m + 1
        BY <1>3, <2>1, <3>2, <3>4
      <4>2. j - m \in 1 .. n /\ todo[j - m] = todo[h]
        <5> j - m \in 2 .. n /\ todo'[j] = todo[j - m]
          BY <1>4, <4>1
        <5> QED BY <2>1, <3>4
      <4>3. j - m = h
        BY <3>1, <4>2
      <4> QED BY <1>3, <4>3
    <3>5. ASSUME NEW d \in Preloads[b] \cap loaded, d \notin begun'
          PROVE  \E j \in 1 .. (m + h) - 1 : todo'[j] = CallVisit(d)
      <4>1. PICK j \in 1 .. h - 1 : todo[j] = CallVisit(d)
        BY <3>1, <3>5
      <4>2. j # 1
        BY <3>5, <4>1, VisitKinds
      <4>3. j \in 2 .. n /\ m + j \in 1 .. (m + h) - 1
        BY <1>1, <1>3, <4>1, <4>2
      <4> QED BY <1>3, <4>1, <4>3
    <3>6. ASSUME NEW j \in 1 .. (m + h) - 1, todo'[j].library \in loaded
          PROVE  todo'[j].library \in Below[b]
      <4>1. j \in 1 .. m + n
        BY <1>1, <1>3
      <4>2. CASE j \in 1 .. m
        <5> todo'[j].library = s[j] /\ s[j] \in Preloads[l]
          BY <1>3, <4>2, VisitKinds
        <5> QED BY <1>1, <3>2, <3>3, <3>6, BelowClosed
      <4>3. CASE j = m + 1
        BY <1>3, <3>3, <4>3, VisitKinds
      <4>4. CASE j - m \in 2 .. n /\ todo'[j] = todo[j - m]
        <5> j - m \in 1 .. h - 1
          BY <1>3, <4>4
        <5> QED BY <3>1, <3>6, <4>4
      <4> QED BY <1>4, <4>1, <4>2, <4>3, <4>4
    <3>7. b \in (begun' \cap loaded) \ ToSet(list)
      BY <3>1
    <3> HIDE DEF b
    <3>8. todo'[m + h].library = b /\ todo'[m + h].step = "return"
      BY <2>1, <2>3 DEF b
    <3> QED BY <1>1, <1>3, <3>4, <3>5, <3>6, <3>7, <3>8 DEF ItemInOrder
  <2> QED BY <2>2, <2>3
<1>10. TodoInOrder'
  <2>1. ASSUME NEW k \in DOMAIN todo' PROVE ItemInOrder(k)'
    <3>1. k \in 1 .. m + n
      BY <1>3
    <3>2. CASE k \in 1 .. m
      BY <1>7, <3>1, <3>2
    <3>3. CASE k = m + 1
      BY <1>8, <3>3
    <3>4. CASE k - m \in 2 .. n
      <4> m + (k - m) = k
        BY <1>3, <3>1
      <4> QED BY <1>9, <3>4
    <3> QED BY <1>4, <3>1, <3>2, <3>3, <3>4
  <2> QED BY <2>1 DEF TodoInOrder, ItemInOrder
<1>11. ASSUME NEW v, NEW k \in 1 .. n, todo[k] = v, v # CallVisit(l)
       PROVE  \E j \in DOMAIN todo' : todo'[j] = v
  <2>1. k \in 2 .. n
    BY <1>1, <1>11
  <2>2. m + k \in DOMAIN todo'
    <3> m + k \in 1 .. m + n
      BY <1>1, <1>3, <2>1
    <3> QED BY <1>3
  <2> QED BY <1>3, <1>11, <2>1, <2>2
<1>12. ListInOrder'
  <2>1. ASSUME NEW x \in begun' \cap loaded
        PROVE  x \in ToSet(list) \/ \E k \in DOMAIN todo' : todo'[k] = ReturnVisit(x)
    <3>1. CASE x = l
      <4> m + 1 \in DOMAIN todo'
        BY <1>1, <1>3
      <4> QED BY <1>3, <3>1
    <3>2. CASE x # l
      <4> ReturnVisit(x) # CallVisit(l)
        BY VisitKinds
      <4> x \in begun \cap loaded
        BY <3>2
      <4> QED BY <1>1, <1>11 DEF ListInOrder
    <3> QED BY <3>1, <3>2
  <2>2. ASSUME NEW x \in Wanted \cap loaded, x \notin begun'
        PROVE  \E k \in DOMAIN todo' : todo'[k] = CallVisit(x)
    <3>1. CallVisit(x) # CallVisit(l)
      BY <2>2, VisitKinds
    <3> QED BY <1>1, <1>11, <2>2, <3>1 DEF ListInOrder
  <2>3. ToSet(list) \subseteq begun' \cap loaded
        /\ \A x \in ToSet(list) : Preloads[x] \cap loaded \subseteq begun'
    BY <1>1 DEF ListInOrder
  <2>4. /\ IsInjective(list)
        /\ Acyclic => \A i \in DOMAIN list : \A d \in Preloads[list[i]] \cap loaded :
                        \E j \in 1 .. i - 1 : list[j] = d
    BY <1>1 DEF ListInOrder
  <2>5. list' = list /\ loaded' = loaded /\ Wanted' = Wanted /\ Preloads' = Preloads
        /\ Acyclic' = Acyclic
    BY <1>1
  <2>6. (\A x \in begun \cap loaded :
           x \in ToSet(list) \/ \E k \in DOMAIN todo : todo[k] = ReturnVisit(x))'
    BY <2>1, <2>5
  <2>7. (\A x \in Wanted \cap loaded : x \in begun \/ \E k \in DOMAIN todo : todo[k] = CallVisit(x))'
    BY <2>2, <2>5
  <2>8. (Acyclic => \A i \in DOMAIN list : \A d \in Preloads[list[i]] \cap loaded :
                      \E j \in 1 .. i - 1 : list[j] = d)'
    BY <2>4, <2>5
  <2>9. (IsInjective(list) /\ ToSet(list) \subseteq begun \cap loaded
         /\ \A x \in ToSet(list) : Preloads[x] \cap loaded \subseteq begun)'
    BY <2>3, <2>4, <2>5
  <2> QED BY <2>6, <2>7, <2>8, <2>9 DEF ListInOrder
<1> QED BY <1>1, <1>10, <1>12 DEF OrderInv, PlayerListIsComplete

LEMMA NextOrders ==
  ASSUME TypeOK, SaveInv, LoadInv, OrderInv, [Next]_vars
  PROVE  OrderInv'
<1>1. CASE AddDependencies
  <2> stage = "save" /\ stage' = "save" /\ begun' = begun
    BY <1>1 DEF AddDependencies
  <2> QED BY DEF OrderInv, PlayerListIsComplete
<1>2. CASE GenerateContentMetadata
  <2> stage = "save" /\ stage' = "load" /\ begun' = begun /\ todo = <<>> /\ todo' = todo /\ list' = <<>>
    BY <1>2 DEF GenerateContentMetadata
  <2> QED BY DEF OrderInv, PlayerListIsComplete
<1>3. CASE EndLoading
  BY <1>3, OrderingBegins
<1>4. CASE AggregateAssets
  <2>1. CASE Head(todo).step = "return"
    BY <1>4, <2>1, ReturnOrders
  <2>2. CASE Head(todo).step = "call"
    <3>1. PICK l \in Libraries :
            /\ todo[1] = CallVisit(l)
            /\ begun' = begun \cup {l}
            /\ todo' = IF l \in begun \/ l \notin loaded THEN Tail(todo)
                       ELSE Visits("call", graph.preloaded[l]) \o Visits("return", <<l>>) \o Tail(todo)
      BY <1>4, <2>2, CallParts
    <3>2. CASE l \in begun \/ l \notin loaded
      BY <1>4, <2>2, <3>1, <3>2, SkipOrders
    <3>3. CASE l \notin begun /\ l \in loaded
      BY <1>4, <2>2, <3>1, <3>3, ExpandOrders
    <3> QED BY <3>2, <3>3
  <2> QED BY <1>4, <2>1, <2>2 DEF AggregateAssets
<1>5. CASE EndOrdering
  BY <1>5, OrderingEnds
<1>6. ASSUME NEW l \in Libraries, GetMetadata(l) PROVE OrderInv'
  <2> stage = "load" /\ stage' = "load" /\ UNCHANGED walk
    BY <1>6 DEF GetMetadata
  <2> QED BY DEF OrderInv, PlayerListIsComplete, walk
<1>7. ASSUME NEW l \in Libraries, LoadLibrary(l) \/ ListAssets(l) PROVE OrderInv'
  <2> stage = "editor" /\ stage' = "editor"
    BY <1>7 DEF LoadLibrary, ListAssets
  <2> QED BY DEF OrderInv, PlayerListIsComplete
<1>8. ASSUME NEW l \in Libraries, NEW b \in Branches, Resolve(l, b) PROVE OrderInv'
  <2> stage = "editor" /\ stage' = "editor"
    BY <1>8 DEF Resolve
  <2> QED BY DEF OrderInv, PlayerListIsComplete
<1>9. CASE UNCHANGED vars
  <2>1. UNCHANGED <<graph, stage, todo, begun, list, named, loaded, answer>>
    BY <1>9 DEF vars, walk
  <2>2. Preloads' = Preloads /\ Below' = Below /\ Acyclic' = Acyclic /\ Wanted' = Wanted
        /\ Played' = Played
    BY <2>1, SameGraph, SameBelow DEF Wanted
  <2>3. TodoInOrder => TodoInOrder'
    BY <2>1, <2>2 DEF TodoInOrder, ItemInOrder
  <2>4. ListInOrder => ListInOrder'
    BY <2>1, <2>2 DEF ListInOrder
  <2>5. PlayerListIsComplete'
    BY <2>1, <2>2 DEF OrderInv, PlayerListIsComplete, Played, InOrder
  <2> QED BY <2>1, <2>3, <2>4, <2>5 DEF OrderInv
<1> QED BY <1>1, <1>2, <1>3, <1>4, <1>5, <1>6, <1>7, <1>8, <1>9 DEF Next

WalkInv == TypeOK /\ SaveInv /\ LoadInv /\ OrderInv

LEMMA WalksAreInvariant == AssetListsAssumption => (Spec => []WalkInv)
<1>1. AssetListsAssumption /\ Init => WalkInv
  <2> SUFFICES ASSUME AssetListsAssumption, Init PROVE WalkInv
    OBVIOUS
  <2>1. TypeOK /\ SaveInv
    BY InitType, InitSaves
  <2>2. LoadInv /\ OrderInv
    BY DEF Init, LoadInv, OrderInv, PlayerListIsComplete
  <2> QED BY <2>1, <2>2 DEF WalkInv
<1>2. WalkInv /\ [Next]_vars => WalkInv'
  <2> SUFFICES ASSUME WalkInv, [Next]_vars PROVE WalkInv'
    OBVIOUS
  <2>1. TypeOK' /\ SaveInv'
    BY NextType, NextSaves DEF WalkInv
  <2>2. LoadInv' /\ OrderInv'
    BY <2>1, NextLoads, NextOrders DEF WalkInv
  <2> QED BY <2>1, <2>2 DEF WalkInv
<1> QED BY <1>1, <1>2, PTL DEF Spec

\* The h5p.json of a content names every installed library that its libraries reach, once:
\* the walk of DependencyGetter forgets nothing, whatever the dependencies are, circular
\* ones and missing libraries included.
THEOREM MetadataIsComplete == AssetListsAssumption => (Spec => []MetadataNamesAll)
<1>1. WalkInv => MetadataNamesAll
  BY DEF WalkInv, SaveInv
<1> QED BY <1>1, WalksAreInvariant, PTL

\* H5PPlayer loads every installed library that a content and the addons reach, in whatever
\* order its promises are answered, and lists each once and after what it preloads.
THEOREM PlayerIsComplete == AssetListsAssumption => (Spec => []PlayerListIsComplete)
<1>1. WalkInv => PlayerListIsComplete
  BY DEF WalkInv, OrderInv
<1> QED BY <1>1, WalksAreInvariant, PTL

-----------------------------------------------------------------------------
(* The editor.  The invariant is about the calls in any state c of theirs, so *)
(* that the steps of an action can be taken one after the other.              *)

Active(c) == {l \in Libraries : c[l].pc \in {"load", "resolve"}}
Done(c) == {l \in Libraries : c[l].pc = "done"}

\* What a branch has listed, with the list of a call that has returned to it.
Held(c, p, b) ==
  LET d == c[p].wait[b] IN
  IF d # None /\ c[d].pc = "done" THEN c[p].got[b] \o c[d].list ELSE c[p].got[b]

\* Calls are made for libraries that are reached, and for all of them.
CallsAreNeeded(c) ==
  /\ c[Main].pc \in {"load", "resolve"}
  /\ \A l \in Libraries :
       /\ c[l].pc # "none" => l = Main \/ \E p \in Edited : l \in Needs[p]
       /\ c[l].pc \in {"resolve", "done"} => l \in graph.installed
       /\ c[l].pc # "resolve" => \A b \in Branches : c[l].rest[b] = <<>> /\ c[l].wait[b] = None
       /\ c[l].pc \in {"none", "load"} => \A b \in Branches : c[l].got[b] = <<>>
       /\ \A b \in Branches : ToSet(c[l].rest[b]) \subseteq Needs[l]
       /\ c[l].pc \in {"resolve", "done"} =>
            \A d \in Needs[l] : Begun(c, d) \/ \E b \in Branches : d \in ToSet(c[l].rest[b])

\* One branch awaits a call, and the calls that are active do not wait for each other in a
\* circle: they hang on one that is not among them.
CallsAreAwaited(c) ==
  /\ \A p \in Libraries : \A b \in Branches :
       c[p].wait[b] # None =>
         /\ Begun(c, c[p].wait[b]) /\ c[p].wait[b] # Main
         /\ \A q \in Libraries : \A e \in Branches :
              c[q].wait[e] = c[p].wait[b] => q = p /\ e = b
  /\ \A s \in SUBSET (Active(c) \ {Main}) :
       s # {} => \E d \in s : \E p \in Active(c) \ s : \E b \in Branches : c[p].wait[b] = d

\* Each library that is done is held by one branch.
CallsAreHeld(c) ==
  /\ \A p \in Active(c) : \A b \in Branches :
       /\ IsInjective(Held(c, p, b))
       /\ ToSet(Held(c, p, b)) \subseteq Done(c)
       /\ \A q \in Active(c) : \A e \in Branches :
            ToSet(Held(c, p, b)) \cap ToSet(Held(c, q, e)) # {} => q = p /\ e = b
  /\ \A d \in Done(c) : \E p \in Active(c) : \E b \in Branches : d \in ToSet(Held(c, p, b))

\* Without editor dependencies and addons one call is made after the other.
Straight == Acyclic /\ \A l \in Edited : graph.editor[l] \o graph.addons[l] = <<>>

Open(c) == Active(c) \cap graph.installed

\* The active calls are a chain, from the main library down, ...
CallsAreNested(c) ==
  /\ \A l \in Libraries : \A b \in Branches \ {"preloaded"} :
       c[l].rest[b] = <<>> /\ c[l].wait[b] = None /\ c[l].got[b] = <<>>
  /\ \A p, q \in Open(c) : p # q => p \in Below[q] \/ q \in Below[p]
  /\ \A q \in Open(c) : q # Main => q \in Below[Main]
  /\ \A p, u \in Open(c) : c[p].wait["preloaded"] = u =>
       \A q \in Open(c) \ {p, u} : p \in Below[q] \/ q \in Below[u]

\* ... and what a library preloads is held before it or higher up.
HeldInOrder(c) ==
  \A p \in Open(c) :
    LET held == Held(c, p, "preloaded") IN
    \A i \in DOMAIN held : \A d \in Preloads[held[i]] \cap graph.installed :
      \/ \E j \in 1 .. i - 1 : held[j] = d
      \/ \E q \in Open(c) : p \in Below[q] /\ d \in ToSet(Held(c, q, "preloaded"))

CallsInv(c) ==
  /\ c \in [Libraries -> Call]
  /\ CallsAreNeeded(c)
  /\ CallsAreAwaited(c)
  /\ CallsAreHeld(c)
  /\ Straight => CallsAreNested(c) /\ HeldInOrder(c)

EditInv ==
  /\ stage = "editor" /\ answer = <<>> => CallsInv(call)
  /\ EditorListIsComplete

LEMMA BranchNames == Branches = {"preloaded", "editor", "addons"}
BY DEF Branches

LEMMA CallTypes ==
  ASSUME NEW c \in [Libraries -> Call]
  PROVE  \A l \in Libraries :
           /\ c[l].pc \in {"none", "load", "resolve", "done"}
           /\ c[l].list \in Seq(Libraries)
           /\ \A b \in Branches :
                /\ c[l].rest[b] \in Seq(Libraries) /\ c[l].got[b] \in Seq(Libraries)
                /\ c[l].wait[b] \in Libraries \cup {None}
BY DEF Call

LEMMA HeldTypes ==
  ASSUME NEW c \in [Libraries -> Call], None \notin Libraries
  PROVE  \A l \in Libraries : \A b \in Branches : Held(c, l, b) \in Seq(Libraries)
<1> SUFFICES ASSUME NEW l \in Libraries, NEW b \in Branches PROVE Held(c, l, b) \in Seq(Libraries)
  OBVIOUS
<1> DEFINE d == c[l].wait[b]
<1>1. c[l].got[b] \in Seq(Libraries) /\ d \in Libraries \cup {None}
  BY CallTypes
<1>2. d # None => c[d].list \in Seq(Libraries)
  BY <1>1, CallTypes
<1>3. d # None => c[l].got[b] \o c[d].list \in Seq(Libraries)
  BY <1>1, <1>2, ConcatProperties
<1> QED BY <1>1, <1>3 DEF Held

\* What Continue does, part by part: d is the library that a branch b of l goes on with.
GoesOn(c, l, b, d, e) ==
  /\ d \in Libraries /\ e \in [Libraries -> Call]
  /\ ToSet(c[l].rest[b]) = {d} \cup ToSet(e[l].rest[b])
  /\ \A k \in Libraries :
       /\ e[k].got = c[k].got /\ e[k].list = c[k].list
       /\ \A f \in Branches : k # l \/ f # b =>
            e[k].rest[f] = c[k].rest[f] /\ e[k].wait[f] = c[k].wait[f]
  /\ Begun(c, d) => e[l].wait[b] = c[l].wait[b] /\ \A k \in Libraries : e[k].pc = c[k].pc
  /\ ~Begun(c, d) =>
       e[l].wait[b] = d /\ \A k \in Libraries : e[k].pc = IF k = d THEN "load" ELSE c[k].pc

LEMMA ContinueMeans ==
  ASSUME NEW c \in [Libraries -> Call], NEW l \in Libraries, NEW b \in Branches,
         c[l].rest[b] # <<>>, NEW e, e = Continue(c, l, b), NEW d, d = Head(c[l].rest[b])
  PROVE  GoesOn(c, l, b, d, e)
<1> DEFINE rest == c[l].rest[b]
           tail == [c EXCEPT ![l].rest[b] = Tail(rest)]
           next == [tail EXCEPT ![l].wait[b] = d, ![d].pc = "load"]
           waiting == [tail EXCEPT ![l].wait[b] = d]
<1>1. rest \in Seq(Libraries) /\ rest # <<>>
  BY CallTypes
<1>2. d \in Libraries /\ Tail(rest) \in Seq(Libraries) /\ ToSet(rest) = {d} \cup ToSet(Tail(rest))
  BY <1>1, SetOfTail
<1>3. e = IF Begun(c, d) THEN tail ELSE next
  BY ZenonT(40) DEF Continue
<1> HIDE DEF rest
<1>4. /\ tail \in [Libraries -> Call] /\ tail[l].rest[b] = Tail(rest)
      /\ \A k \in Libraries :
           /\ tail[k].got = c[k].got /\ tail[k].list = c[k].list /\ tail[k].pc = c[k].pc
           /\ \A f \in Branches :
                /\ tail[k].wait[f] = c[k].wait[f]
                /\ k # l \/ f # b => tail[k].rest[f] = c[k].rest[f]
  BY <1>2 DEF Call
<1> HIDE DEF tail
<1>5. /\ next \in [Libraries -> Call] /\ next[l].wait[b] = d
      /\ \A k \in Libraries :
           /\ next[k].got = tail[k].got /\ next[k].list = tail[k].list
           /\ next[k].pc = IF k = d THEN "load" ELSE tail[k].pc
           /\ \A f \in Branches :
                /\ next[k].rest[f] = tail[k].rest[f]
                /\ k # l \/ f # b => next[k].wait[f] = tail[k].wait[f]
  <2>1. /\ waiting \in [Libraries -> Call] /\ waiting[l].wait[b] = d
        /\ \A k \in Libraries :
             /\ waiting[k].got = tail[k].got /\ waiting[k].list = tail[k].list
             /\ waiting[k].pc = tail[k].pc
             /\ \A f \in Branches :
                  /\ waiting[k].rest[f] = tail[k].rest[f]
                  /\ k # l \/ f # b => waiting[k].wait[f] = tail[k].wait[f]
    <3>1. tail[l] \in Call /\ d \in Libraries \cup {None}
      BY <1>2, <1>4
    <3>2. PICK w : w = [tail[l].wait EXCEPT ![b] = d]
      OBVIOUS
    <3>3. /\ w \in [Branches -> Libraries \cup {None}] /\ w[b] = d
          /\ \A f \in Branches : f # b => w[f] = tail[l].wait[f]
      BY <3>1, <3>2 DEF Call
    <3>4. PICK r : r = [tail[l] EXCEPT !.wait = w]
      OBVIOUS
    <3>5. /\ r \in Call /\ r.wait = w /\ r.pc = tail[l].pc /\ r.rest = tail[l].rest
          /\ r.got = tail[l].got /\ r.list = tail[l].list
      BY <3>1, <3>3, <3>4 DEF Call
    <3>6. waiting = [tail EXCEPT ![l] = r]
      BY <3>2, <3>4
    <3> HIDE DEF waiting
    <3>7. waiting \in [Libraries -> Call] /\ waiting[l] = r /\ \A k \in Libraries : k # l => waiting[k] = tail[k]
      BY <1>4, <3>5, <3>6
    <3> QED BY <3>3, <3>5, <3>7
  <2>2. next = [waiting EXCEPT ![d].pc = "load"]
    OBVIOUS
  <2> HIDE DEF waiting, next
  <2>3. /\ next \in [Libraries -> Call]
        /\ \A k \in Libraries :
             /\ next[k].got = waiting[k].got /\ next[k].list = waiting[k].list
             /\ next[k].rest = waiting[k].rest /\ next[k].wait = waiting[k].wait
             /\ next[k].pc = IF k = d THEN "load" ELSE waiting[k].pc
    <3>1. PICK r : r = [waiting[d] EXCEPT !.pc = "load"]
      OBVIOUS
    <3>2. /\ r \in Call /\ r.wait = waiting[d].wait /\ r.pc = "load" /\ r.rest = waiting[d].rest
          /\ r.got = waiting[d].got /\ r.list = waiting[d].list
      <4>1. waiting[d] \in Call
        BY <1>2, <2>1
      <4> QED BY <3>1, <4>1 DEF Call
    <3>3. next = [waiting EXCEPT ![d] = r]
      BY <2>2, <3>1
    <3>4. next \in [Libraries -> Call] /\ next[d] = r /\ \A k \in Libraries : k # d => next[k] = waiting[k]
      BY <1>2, <2>1, <3>2, <3>3
    <3> QED BY <3>2, <3>4
  <2> QED BY <2>1, <2>3
<1> HIDE DEF next
<1> QED BY <1>2, <1>3, <1>4, <1>5 DEF rest, GoesOn

LEMMA EditedClosed ==
  ASSUME TypeOK
  PROVE  /\ Edited \subseteq graph.installed /\ Edited \subseteq Libraries
         /\ Main \in graph.installed => Main \in Edited
         /\ \A l \in Edited : Needs[l] \cap graph.installed \subseteq Edited
         /\ \A s \in SUBSET graph.installed :
              /\ {Main} \cap graph.installed \subseteq s
              /\ \A l \in s : Needs[l] \cap graph.installed \subseteq s
              => Edited \subseteq s
         /\ Main \in Libraries /\ Needs \in [Libraries -> SUBSET Libraries]
<1>0. /\ graph \in Graph /\ {Main} \in SUBSET Libraries /\ Needs \in [Libraries -> SUBSET Libraries]
      /\ graph.installed \subseteq Libraries
  BY GraphParts DEF TypeOK
<1>1. Edited \subseteq graph.installed /\ Closed(Edited, {Main}, Needs)
  BY <1>0, ReachedClosed DEF Edited
<1>2. \A s \in SUBSET graph.installed : Closed(s, {Main}, Needs) => Edited \subseteq s
  BY ReachedLeast DEF Edited
<1> QED BY <1>0, <1>1, <1>2 DEF Closed

LEMMA NeedsParts ==
  ASSUME TypeOK, NEW l \in Libraries
  PROVE  /\ DependenciesOf(l) \in [Branches -> Seq(Libraries)]
         /\ \A d : d \in Needs[l] <=> \E b \in Branches : d \in ToSet(DependenciesOf(l)[b])
         /\ DependenciesOf(l)["editor"] = graph.editor[l]
         /\ DependenciesOf(l)["addons"] = graph.addons[l]
<1>1. /\ graph.preloaded[l] \in Seq(Libraries) /\ graph.editor[l] \in Seq(Libraries)
      /\ graph.addons[l] \in Seq(Libraries)
  BY GraphParts DEF TypeOK
<1>2. /\ DependenciesOf(l)["preloaded"] = graph.preloaded[l]
      /\ DependenciesOf(l)["editor"] = graph.editor[l]
      /\ DependenciesOf(l)["addons"] = graph.addons[l]
  BY DEF DependenciesOf, Branches
<1>3. DependenciesOf(l) \in [Branches -> Seq(Libraries)]
  BY <1>1 DEF DependenciesOf, Branches
<1>4. Needs[l] = ToSet(graph.preloaded[l]) \cup ToSet(graph.editor[l]) \cup ToSet(graph.addons[l])
  BY DEF Needs, Preloads
<1> QED BY <1>2, <1>3, <1>4 DEF Branches

LEMMA StraightParts ==
  ASSUME TypeOK, Straight, NEW l \in Edited
  PROVE  /\ Needs[l] = Preloads[l]
         /\ DependenciesOf(l)["editor"] = <<>> /\ DependenciesOf(l)["addons"] = <<>>
<1>1. l \in Libraries /\ graph.editor[l] \in Seq(Libraries) /\ graph.addons[l] \in Seq(Libraries)
  BY EditedClosed, GraphParts DEF TypeOK
<1>2. graph.editor[l] = <<>> /\ graph.addons[l] = <<>>
  BY <1>1, ConcatEqualIffEmpty DEF Straight
<1>3. Needs[l] = Preloads[l]
  BY <1>1, <1>2, SetOfEmpty DEF Needs
<1> QED BY <1>1, <1>2, <1>3, NeedsParts

LEMMA CallsReach ==
  ASSUME TypeOK, NEW c, CallsAreNeeded(c)
  PROVE  /\ \A l \in Libraries : c[l].pc # "none" /\ l \in graph.installed => l \in Edited
         /\ \A l \in Libraries : c[l].pc \in {"resolve", "done"} => l \in Edited
         /\ Edited # {} => Main \in Edited
<1>1. ASSUME NEW l \in Libraries, c[l].pc # "none", l \in graph.installed PROVE l \in Edited
  <2> l = Main \/ \E p \in Edited : l \in Needs[p]
    BY <1>1 DEF CallsAreNeeded
  <2> QED BY <1>1, EditedClosed
<1>2. ASSUME NEW l \in Libraries, c[l].pc \in {"resolve", "done"} PROVE l \in Edited
  BY <1>1, <1>2 DEF CallsAreNeeded
<1>3. Edited # {} => Main \in Edited
  <2> SUFFICES ASSUME Main \notin graph.installed PROVE Edited = {}
    BY EditedClosed
  <2> {} \in SUBSET graph.installed
    OBVIOUS
  <2> QED BY EditedClosed
<1> QED BY <1>1, <1>2, <1>3

\* A call that awaits no other is the lowest of the chain.
LEMMA NothingBelow ==
  ASSUME TypeOK, Straight, NEW c \in [Libraries -> Call],
         CallsAreNeeded(c), CallsAreAwaited(c), CallsAreNested(c),
         NEW l \in Open(c), \A b \in Branches : c[l].wait[b] = None
  PROVE  \A q \in Open(c) : q \notin Below[l]
<1> DEFINE s == {q \in Open(c) : q \in Below[l]}
<1> SUFFICES ASSUME s # {} PROVE FALSE
  OBVIOUS
<1>0. /\ Acyclic /\ l \in Libraries /\ l \in graph.installed /\ Main \in Libraries
      /\ Open(c) \subseteq Libraries /\ Open(c) \subseteq Active(c) /\ Open(c) \subseteq graph.installed
  BY DEF Straight, Open, Active, TypeOK
<1>1. Main \notin s
  <2> SUFFICES ASSUME Main \in s PROVE FALSE
    OBVIOUS
  <2>1. Main \in Below[l] /\ Main \in graph.installed
    BY <1>0
  <2>2. CASE l = Main
    BY <1>0, <2>1, <2>2, BelowClosed
  <2>3. CASE l # Main
    <3>1. l \in Below[Main]
      BY <1>0, <2>3 DEF CallsAreNested
    <3>2. Main \in Below[Main]
      BY <1>0, <2>1, <3>1, BelowTransitive
    <3> QED BY <1>0, <2>1, <3>2, BelowClosed
  <2> QED BY <2>2, <2>3
<1>2. s \in SUBSET (Active(c) \ {Main})
  BY <1>0, <1>1
<1>3. PICK d \in s, p \in Active(c) \ s, b \in Branches : c[p].wait[b] = d
  <2> HIDE DEF s
  <2> QED BY <1>2 DEF CallsAreAwaited
<1>4. d \in Libraries /\ d \in Below[l] /\ d \in Open(c) /\ d # None
  BY <1>0, <1>3 DEF TypeOK
<1>5. p \in Open(c) /\ p # l /\ c[p].wait["preloaded"] = d
  <2>1. p \in Libraries /\ c[p].pc = "resolve"
    BY <1>3, <1>4 DEF Active, CallsAreNeeded
  <2>2. b = "preloaded"
    BY <1>3, <1>4, <2>1 DEF CallsAreNested
  <2> QED BY <1>3, <1>4, <2>1, <2>2 DEF Open, CallsAreNeeded
<1>6. p \notin Below[l] /\ p \in Libraries
  BY <1>0, <1>3, <1>5
<1>7. l \in Below[p]
  BY <1>5, <1>6 DEF CallsAreNested
<1>8. l # d
  BY <1>0, <1>4, BelowClosed
<1>9. l \in Open(c) \ {p, d}
  BY <1>5, <1>8
<1>10. p \in Below[l] \/ l \in Below[d]
  BY <1>4, <1>5, <1>9 DEF CallsAreNested
<1>11. l \in Below[d]
  BY <1>6, <1>10
<1>12. d \in Below[d]
  BY <1>0, <1>4, <1>11, BelowTransitive
<1> QED BY <1>0, <1>4, <1>12, BelowClosed

\* A library that has begun is passed over: only the rest of one branch is shorter.
LEMMA PassOver ==
  ASSUME TypeOK, NEW c \in [Libraries -> Call], CallsInv(c), NEW e \in [Libraries -> Call],
         NEW l \in Libraries, NEW b \in Branches, NEW d \in Libraries,
         Begun(c, d), c[l].rest[b] # <<>>, ToSet(c[l].rest[b]) = {d} \cup ToSet(e[l].rest[b]),
         \A k \in Libraries :
           /\ e[k].pc = c[k].pc /\ e[k].got = c[k].got /\ e[k].list = c[k].list
           /\ \A f \in Branches :
                /\ e[k].wait[f] = c[k].wait[f]
                /\ k # l \/ f # b => e[k].rest[f] = c[k].rest[f]
  PROVE  CallsInv(e)
<1>0. None \notin Libraries /\ Main \in Libraries
  BY DEF TypeOK
<1>1. /\ CallsAreNeeded(c) /\ CallsAreAwaited(c) /\ CallsAreHeld(c)
      /\ Straight => CallsAreNested(c) /\ HeldInOrder(c)
  BY DEF CallsInv
<1>2. Active(e) = Active(c) /\ Done(e) = Done(c) /\ Open(e) = Open(c)
      /\ \A k \in Libraries : Begun(e, k) <=> Begun(c, k)
  BY DEF Active, Done, Open, Begun
<1>3. \A p \in Libraries : \A f \in Branches : Held(e, p, f) = Held(c, p, f)
  <2> SUFFICES ASSUME NEW p \in Libraries, NEW f \in Branches PROVE Held(e, p, f) = Held(c, p, f)
    OBVIOUS
  <2>1. e[p].wait[f] = c[p].wait[f] /\ e[p].got = c[p].got /\ c[p].wait[f] \in Libraries \cup {None}
    BY CallTypes
  <2> DEFINE w == c[p].wait[f]
  <2>2. w # None => e[w].pc = c[w].pc /\ e[w].list = c[w].list
    BY <2>1
  <2> QED BY <2>1, <2>2 DEF Held
<1>4. CallsAreNeeded(e)
  <2> SUFFICES ASSUME NEW k \in Libraries
               PROVE  /\ e[k].pc # "none" => k = Main \/ \E p \in Edited : k \in Needs[p]
                      /\ e[k].pc \in {"resolve", "done"} => k \in graph.installed
                      /\ e[k].pc # "resolve" =>
                           \A f \in Branches : e[k].rest[f] = <<>> /\ e[k].wait[f] = None
                      /\ e[k].pc \in {"none", "load"} => \A f \in Branches : e[k].got[f] = <<>>
                      /\ \A f \in Branches : ToSet(e[k].rest[f]) \subseteq Needs[k]
                      /\ e[k].pc \in {"resolve", "done"} =>
                           \A x \in Needs[k] :
                             Begun(e, x) \/ \E f \in Branches : x \in ToSet(e[k].rest[f])
    BY <1>0, <1>1 DEF CallsAreNeeded
  <2>1. CASE k # l
    BY <1>1, <1>2, <2>1, EditedClosed DEF CallsAreNeeded
  <2>2. CASE k = l
    <3>1. c[l].pc = "resolve"
      BY <1>1 DEF CallsAreNeeded
    <3>2. \A f \in Branches : ToSet(e[l].rest[f]) \subseteq Needs[l]
      BY <1>1 DEF CallsAreNeeded
    <3>3. ASSUME NEW x \in Needs[l], ~Begun(e, x)
          PROVE  \E f \in Branches : x \in ToSet(e[l].rest[f])
      <4>1. x \in Libraries
        BY EditedClosed
      <4>2. ~Begun(c, x) /\ x # d
        BY <1>2, <3>3, <4>1
      <4>3. PICK f \in Branches : x \in ToSet(c[l].rest[f])
        BY <1>1, <3>1, <4>2 DEF CallsAreNeeded
      <4> QED BY <4>2, <4>3
    <3> QED BY <1>1, <2>2, <3>1, <3>2, <3>3 DEF CallsAreNeeded
  <2> QED BY <2>1, <2>2
<1>5. CallsAreAwaited(e)
  <2>1. ASSUME NEW p \in Libraries, NEW f \in Branches, e[p].wait[f] # None
        PROVE  /\ Begun(e, e[p].wait[f]) /\ e[p].wait[f] # Main
               /\ \A q \in Libraries : \A h \in Branches :
                    e[q].wait[h] = e[p].wait[f] => q = p /\ h = f
    <3>1. e[p].wait[f] = c[p].wait[f] /\ c[p].wait[f] \in Libraries
      BY <2>1, CallTypes
    <3>2. Begun(c, c[p].wait[f]) /\ c[p].wait[f] # Main
          /\ \A q \in Libraries : \A h \in Branches : c[q].wait[h] = c[p].wait[f] => q = p /\ h = f
      BY <1>1, <2>1, <3>1 DEF CallsAreAwaited
    <3> QED BY <1>2, <3>1, <3>2
  <2>2. ASSUME NEW s \in SUBSET (Active(c) \ {Main}), s # {}
        PROVE  \E x \in s : \E p \in Active(c) \ s : \E f \in Branches : e[p].wait[f] = x
    <3>1. PICK x \in s, p \in Active(c) \ s, f \in Branches : c[p].wait[f] = x
      BY <1>1, <2>2 DEF CallsAreAwaited
    <3>2. p \in Libraries
      BY DEF Active
    <3> QED BY <3>1, <3>2
  <2> QED BY <1>2, <2>1, <2>2 DEF CallsAreAwaited
<1>6. CallsAreHeld(e)
  <2> Active(c) \subseteq Libraries
    BY DEF Active
  <2> QED BY <1>1, <1>2, <1>3 DEF CallsAreHeld
<1>7. ASSUME Straight PROVE CallsAreNested(e) /\ HeldInOrder(e)
  <2> Open(c) \subseteq Libraries /\ "preloaded" \in Branches
    BY DEF Active, Open, Branches
  <2>1. b = "preloaded"
    BY <1>1, <1>7 DEF CallsAreNested
  <2>2. CallsAreNested(e)
    BY <1>1, <1>2, <1>7, <2>1 DEF CallsAreNested
  <2>3. HeldInOrder(e)
    BY <1>1, <1>2, <1>3, <1>7 DEF HeldInOrder
  <2> QED BY <2>2, <2>3
<1> QED BY <1>4, <1>5, <1>6, <1>7 DEF CallsInv

\* A branch that awaits nothing makes the call for a library that has not begun.
LEMMA MakeCall ==
  ASSUME TypeOK, NEW c \in [Libraries -> Call], CallsInv(c), NEW e \in [Libraries -> Call],
         NEW l \in Libraries, NEW b \in Branches, NEW d \in Libraries,
         c[l].pc = "resolve", c[l].wait[b] = None,
         ~Begun(c, d), c[l].rest[b] # <<>>, ToSet(c[l].rest[b]) = {d} \cup ToSet(e[l].rest[b]),
         e[l].wait[b] = d,
         \A k \in Libraries :
           /\ e[k].pc = IF k = d THEN "load" ELSE c[k].pc
           /\ e[k].got = c[k].got /\ e[k].list = c[k].list
           /\ \A f \in Branches : k # l \/ f # b =>
                e[k].rest[f] = c[k].rest[f] /\ e[k].wait[f] = c[k].wait[f]
  PROVE  CallsInv(e)
<1>0. None \notin Libraries /\ Main \in Libraries /\ d # None
  BY DEF TypeOK
<1>1. /\ CallsAreNeeded(c) /\ CallsAreAwaited(c) /\ CallsAreHeld(c)
      /\ Straight => CallsAreNested(c) /\ HeldInOrder(c)
  BY DEF CallsInv
<1>2. d # l /\ d # Main /\ c[d].pc = "none"
  BY <1>1 DEF Begun, CallsAreNeeded
<1>3. /\ Active(e) = Active(c) \cup {d} /\ Done(e) = Done(c) /\ d \notin Active(c)
      /\ \A k \in Libraries : Begun(e, k) <=> Begun(c, k) \/ k = d
      /\ Open(e) = Open(c) \cup ({d} \cap graph.installed)
  BY <1>2 DEF Active, Done, Open, Begun
<1>4. \A f \in Branches : c[d].rest[f] = <<>> /\ c[d].wait[f] = None /\ c[d].got[f] = <<>>
  BY <1>1, <1>2 DEF CallsAreNeeded
<1>5. \A p \in Libraries : \A f \in Branches : c[p].wait[f] # d
  BY <1>0, <1>1 DEF CallsAreAwaited
<1>6. \A p \in Libraries : \A f \in Branches : Held(e, p, f) = Held(c, p, f)
  <2> SUFFICES ASSUME NEW p \in Libraries, NEW f \in Branches PROVE Held(e, p, f) = Held(c, p, f)
    OBVIOUS
  <2> DEFINE w == c[p].wait[f]
  <2>1. CASE p = l /\ f = b
    <3>1. e[p].wait[f] = d /\ e[d].pc = "load" /\ w = None
      BY <2>1
    <3> QED BY <3>1 DEF Held
  <2>2. CASE p # l \/ f # b
    <3>1. e[p].wait[f] = w /\ e[p].got = c[p].got /\ w \in Libraries \cup {None} /\ w # d
      BY <1>5, <2>2, CallTypes
    <3>2. w # None => e[w].pc = c[w].pc /\ e[w].list = c[w].list
      BY <3>1
    <3> QED BY <3>1, <3>2 DEF Held
  <2> QED BY <2>1, <2>2
<1>7. l \in Edited /\ d \in Needs[l]
  BY <1>1, CallsReach DEF CallsAreNeeded
<1>8. CallsAreNeeded(e)
  <2> SUFFICES ASSUME NEW k \in Libraries
               PROVE  /\ e[k].pc # "none" => k = Main \/ \E p \in Edited : k \in Needs[p]
                      /\ e[k].pc \in {"resolve", "done"} => k \in graph.installed
                      /\ e[k].pc # "resolve" =>
                           \A f \in Branches : e[k].rest[f] = <<>> /\ e[k].wait[f] = None
                      /\ e[k].pc \in {"none", "load"} => \A f \in Branches : e[k].got[f] = <<>>
                      /\ \A f \in Branches : ToSet(e[k].rest[f]) \subseteq Needs[k]
                      /\ e[k].pc \in {"resolve", "done"} =>
                           \A x \in Needs[k] :
                             Begun(e, x) \/ \E f \in Branches : x \in ToSet(e[k].rest[f])
    BY <1>0, <1>1, <1>2 DEF CallsAreNeeded
  <2>1. CASE k # l /\ k # d
    BY <1>1, <1>3, <2>1, EditedClosed DEF CallsAreNeeded
  <2>2. CASE k = d
    <3>1. e[d].pc = "load" /\ e[d].got = c[d].got
          /\ \A f \in Branches : e[d].rest[f] = c[d].rest[f] /\ e[d].wait[f] = c[d].wait[f]
      BY <1>2
    <3> QED BY <1>4, <1>7, <2>2, <3>1, SetOfEmpty
  <2>3. CASE k = l
    <3>1. e[l].pc = "resolve"
      BY <1>2
    <3>2. \A f \in Branches : ToSet(e[l].rest[f]) \subseteq Needs[l]
      BY <1>1 DEF CallsAreNeeded
    <3>3. ASSUME NEW x \in Needs[l], ~Begun(e, x)
          PROVE  \E f \in Branches : x \in ToSet(e[l].rest[f])
      <4>1. x \in Libraries
        BY EditedClosed
      <4>2. ~Begun(c, x) /\ x # d
        BY <1>3, <3>3, <4>1
      <4>3. PICK f \in Branches : x \in ToSet(c[l].rest[f])
        BY <1>1, <4>2 DEF CallsAreNeeded
      <4> QED BY <4>2, <4>3
    <3> QED BY <1>1, <2>3, <3>1, <3>2, <3>3 DEF CallsAreNeeded
  <2> QED BY <2>1, <2>2, <2>3
<1>9. CallsAreAwaited(e)
  <2>1. ASSUME NEW p \in Libraries, NEW f \in Branches, e[p].wait[f] # None
        PROVE  /\ Begun(e, e[p].wait[f]) /\ e[p].wait[f] # Main
               /\ \A q \in Libraries : \A h \in Branches :
                    e[q].wait[h] = e[p].wait[f] => q = p /\ h = f
    <3>1. CASE p = l /\ f = b
      <4>1. e[p].wait[f] = d /\ Begun(e, d)
        BY <1>3, <3>1
      <4>2. \A q \in Libraries : \A h \in Branches : e[q].wait[h] = d => q = l /\ h = b
        BY <1>5
      <4> QED BY <1>2, <3>1, <4>1, <4>2
    <3>2. CASE p # l \/ f # b
      <4>1. e[p].wait[f] = c[p].wait[f] /\ c[p].wait[f] \in Libraries /\ c[p].wait[f] # d
        BY <1>5, <2>1, <3>2, CallTypes
      <4>2. Begun(c, c[p].wait[f]) /\ c[p].wait[f] # Main
            /\ \A q \in Libraries : \A h \in Branches : c[q].wait[h] = c[p].wait[f] => q = p /\ h = f
        BY <1>1, <2>1, <4>1 DEF CallsAreAwaited
      <4>3. \A q \in Libraries : \A h \in Branches :
              e[q].wait[h] = c[p].wait[f] => c[q].wait[h] = c[p].wait[f]
        BY <4>1
      <4> QED BY <1>3, <4>1, <4>2, <4>3
    <3> QED BY <3>1, <3>2
  <2>2. ASSUME NEW s \in SUBSET (Active(e) \ {Main}), s # {}
        PROVE  \E x \in s : \E p \in Active(e) \ s : \E f \in Branches : e[p].wait[f] = x
    <3>1. CASE s = {d}
      <4>1. l \in Active(e) \ s
        BY <1>2, <1>3, <3>1 DEF Active
      <4> QED BY <3>1, <4>1
    <3>2. CASE s # {d}
      <4> DEFINE t == s \ {d}
      <4>1. t \in SUBSET (Active(c) \ {Main}) /\ t # {}
        BY <1>3, <2>2, <3>2
      <4> HIDE DEF t
      <4>2. PICK x \in t, p \in Active(c) \ t, f \in Branches : c[p].wait[f] = x
        BY <1>1, <4>1 DEF CallsAreAwaited
      <4>3. x \in s /\ p \in Active(e) \ s /\ p \in Libraries /\ x \in Libraries
        BY <1>3, <4>1, <4>2 DEF t, Active
      <4>4. e[p].wait[f] = x
        BY <1>0, <4>2, <4>3
      <4> QED BY <4>3, <4>4
    <3> QED BY <3>1, <3>2
  <2> QED BY <2>1, <2>2 DEF CallsAreAwaited
<1>10. CallsAreHeld(e)
  <2>1. \A f \in Branches : Held(e, d, f) = <<>> /\ ToSet(Held(e, d, f)) = {} /\ IsInjective(Held(e, d, f))
    <3> SUFFICES ASSUME NEW f \in Branches PROVE Held(c, d, f) = <<>>
      BY <1>6, SetOfEmpty DEF IsInjective
    <3> QED BY <1>4 DEF Held
  <2>2. Active(c) \subseteq Libraries
    BY DEF Active
  <2>3. \A p \in Active(e) : p \in Active(c) \/ p = d
    BY <1>3
  <2>4. ASSUME NEW p \in Active(e), NEW f \in Branches
        PROVE  /\ IsInjective(Held(e, p, f))
               /\ ToSet(Held(e, p, f)) \subseteq Done(e)
               /\ \A q \in Active(e) : \A h \in Branches :
                    ToSet(Held(e, p, f)) \cap ToSet(Held(e, q, h)) # {} => q = p /\ h = f
    <3>1. CASE p = d
      BY <2>1, <3>1
    <3>2. CASE p \in Active(c)
      <4>1. IsInjective(Held(e, p, f)) /\ ToSet(Held(e, p, f)) \subseteq Done(e)
        BY <1>1, <1>3, <1>6, <2>2, <3>2 DEF CallsAreHeld
      <4>2. \A q \in Active(c) : \A h \in Branches :
              ToSet(Held(e, p, f)) \cap ToSet(Held(e, q, h)) # {} => q = p /\ h = f
        BY <1>1, <1>6, <2>2, <3>2 DEF CallsAreHeld
      <4> QED BY <2>1, <2>3, <4>1, <4>2
    <3> QED BY <2>3, <3>1, <3>2
  <2>5. \A x \in Done(e) : \E p \in Active(e) : \E f \in Branches : x \in ToSet(Held(e, p, f))
    BY <1>1, <1>3, <1>6, <2>2 DEF CallsAreHeld
  <2> QED BY <2>4, <2>5 DEF CallsAreHeld
<1>11. ASSUME Straight PROVE CallsAreNested(e) /\ HeldInOrder(e)
  <2>0. /\ "preloaded" \in Branches /\ b = "preloaded"
        /\ Open(c) \subseteq Libraries /\ Open(c) \subseteq graph.installed
        /\ CallsAreNested(c) /\ HeldInOrder(c)
    BY <1>1, <1>11 DEF Active, Open, Branches, CallsAreNested
  <2>1. l \in Open(c) /\ \A f \in Branches : c[l].wait[f] = None
    <3>1. \A f \in Branches \ {"preloaded"} : c[l].wait[f] = None
      BY <2>0 DEF CallsAreNested
    <3>2. l \in graph.installed
      BY <1>1 DEF CallsAreNeeded
    <3> QED BY <2>0, <3>1, <3>2 DEF Active, Open
  <2>2. \A q \in Open(c) : q \notin Below[l]
    BY <1>1, <1>11, <2>0, <2>1, NothingBelow
  <2>3. \A q \in Open(c) : q # l => l \in Below[q]
    BY <2>0, <2>1, <2>2 DEF CallsAreNested
  <2>4. ASSUME d \in graph.installed, NEW q \in Open(c) PROVE d \in Below[q]
    <3>1. d \in Preloads[l]
      BY <1>7, <1>11, StraightParts
    <3>2. CASE q = l
      BY <2>4, <3>1, <3>2, BelowClosed
    <3>3. CASE q # l
      BY <2>0, <2>3, <2>4, <3>1, <3>3, BelowClosed
    <3> QED BY <3>2, <3>3
  <2>5. Main \in Open(c)
    <3> Main \in Edited
      BY <1>1, <1>7, CallsReach
    <3> QED BY <1>1, EditedClosed DEF CallsAreNeeded, Open, Active
  <2>6. CallsAreNested(e)
    <3>1. ASSUME NEW k \in Libraries, NEW f \in Branches \ {"preloaded"}
          PROVE  e[k].rest[f] = <<>> /\ e[k].wait[f] = None /\ e[k].got[f] = <<>>
      BY <2>0 DEF CallsAreNested
    <3>2. ASSUME NEW p \in Open(e), NEW q \in Open(e), p # q
          PROVE  p \in Below[q] \/ q \in Below[p]
      BY <1>3, <2>0, <2>4, <3>2 DEF CallsAreNested
    <3>3. ASSUME NEW q \in Open(e), q # Main PROVE q \in Below[Main]
      BY <1>3, <2>0, <2>4, <2>5, <3>3 DEF CallsAreNested
    <3>4. ASSUME NEW p \in Open(e), NEW u \in Open(e), e[p].wait["preloaded"] = u,
                 NEW q \in Open(e) \ {p, u}
          PROVE  p \in Below[q] \/ q \in Below[u]
      <4>1. p # d
        <5> e[d].wait["preloaded"] = c[d].wait["preloaded"]
          BY <1>2, <2>0
        <5> QED BY <1>0, <1>3, <1>4, <2>0, <3>4
      <4>2. CASE p = l
        <5>1. u = d
          BY <2>0, <3>4, <4>2
        <5>2. q \in Open(c) /\ q # l
          BY <1>3, <3>4, <4>2, <5>1
        <5> QED BY <2>3, <4>2, <5>2
      <4>3. CASE p # l
        <5>1. p \in Open(c) /\ c[p].wait["preloaded"] = u
          BY <1>3, <2>0, <3>4, <4>1, <4>3
        <5>2. u # d
          BY <1>5, <2>0, <5>1
        <5>3. u \in Open(c)
          BY <1>3, <5>2
        <5>4. CASE q = d
          BY <2>4, <3>4, <5>3, <5>4 DEF Open
        <5>5. CASE q # d
          <6>1. q \in Open(c) \ {p, u}
            BY <1>3, <5>5
          <6> QED BY <2>0, <5>1, <5>3, <6>1 DEF CallsAreNested
        <5> QED BY <5>4, <5>5
      <4> QED BY <4>2, <4>3
    <3> QED BY <3>1, <3>2, <3>3, <3>4 DEF CallsAreNested
  <2>7. HeldInOrder(e)
    <3> SUFFICES ASSUME NEW p \in Open(e), NEW i \in DOMAIN Held(e, p, "preloaded"),
                        NEW x \in Preloads[Held(e, p, "preloaded")[i]] \cap graph.installed
                 PROVE  \/ \E j \in 1 .. i - 1 : Held(e, p, "preloaded")[j] = x
                        \/ \E q \in Open(e) : p \in Below[q] /\ x \in ToSet(Held(e, q, "preloaded"))
      BY DEF HeldInOrder
    <3>1. p # d
      <4> Held(c, d, "preloaded") = <<>>
        BY <1>4, <2>0 DEF Held
      <4> QED BY <1>6, <2>0
    <3>2. p \in Open(c) /\ p \in Libraries /\ Held(e, p, "preloaded") = Held(c, p, "preloaded")
      BY <1>3, <1>6, <2>0, <3>1
    <3>3. \/ \E j \in 1 .. i - 1 : Held(c, p, "preloaded")[j] = x
          \/ \E q \in Open(c) : p \in Below[q] /\ x \in ToSet(Held(c, q, "preloaded"))
      BY <2>0, <3>2 DEF HeldInOrder
    <3>4. \A q \in Open(c) : q \in Open(e) /\ Held(e, q, "preloaded") = Held(c, q, "preloaded")
      BY <1>3, <1>6, <2>0
    <3> QED BY <3>2, <3>3, <3>4
  <2> QED BY <2>6, <2>7
<1> QED BY <1>8, <1>9, <1>10, <1>11 DEF CallsInv

LEMMA ContinueKeeps ==
  ASSUME TypeOK, NEW c \in [Libraries -> Call], CallsInv(c),
         NEW l \in Libraries, NEW b \in Branches, c[l].pc = "resolve", c[l].wait[b] = None,
         NEW e, e = Continue(c, l, b)
  PROVE  /\ e \in [Libraries -> Call] /\ CallsInv(e) /\ e[l].pc = "resolve"
         /\ \A f \in Branches \ {b} : e[l].wait[f] = c[l].wait[f]
<1>1. CASE c[l].rest[b] = <<>>
  <2> e = c
    BY <1>1, ZenonT(40) DEF Continue
  <2> QED OBVIOUS
<1>2. CASE c[l].rest[b] # <<>>
  <2>0. PICK d : d = Head(c[l].rest[b])
    OBVIOUS
  <2> GoesOn(c, l, b, d, e)
    BY <1>2, <2>0, ContinueMeans
  <2>1. /\ d \in Libraries /\ e \in [Libraries -> Call]
        /\ ToSet(c[l].rest[b]) = {d} \cup ToSet(e[l].rest[b])
        /\ \A k \in Libraries :
             /\ e[k].got = c[k].got /\ e[k].list = c[k].list
             /\ \A f \in Branches : k # l \/ f # b =>
                  e[k].rest[f] = c[k].rest[f] /\ e[k].wait[f] = c[k].wait[f]
        /\ Begun(c, d) => e[l].wait[b] = c[l].wait[b] /\ \A k \in Libraries : e[k].pc = c[k].pc
        /\ ~Begun(c, d) =>
             e[l].wait[b] = d /\ \A k \in Libraries : e[k].pc = IF k = d THEN "load" ELSE c[k].pc
    BY DEF GoesOn
  <2>2. CASE Begun(c, d)
    <3>1. \A k \in Libraries : \A f \in Branches : e[k].wait[f] = c[k].wait[f]
      BY <2>1, <2>2
    <3>2. CallsInv(e)
      BY <1>2, <2>1, <2>2, <3>1, PassOver
    <3> QED BY <2>1, <2>2, <3>1, <3>2
  <2>3. CASE ~Begun(c, d)
    <3> e[l].wait[b] = d /\ \A k \in Libraries : e[k].pc = IF k = d THEN "load" ELSE c[k].pc
      BY <2>1, <2>3
    <3>1. CallsInv(e)
      BY <1>2, <2>1, <2>3, MakeCall
    <3>2. l # d
      BY <2>3 DEF Begun
    <3> QED BY <2>1, <2>3, <3>1, <3>2
  <2> QED BY <2>2, <2>3
<1> QED BY <1>1, <1>2

\* A library has been loaded; its branches hold what it needs.
LEMMA ResolvingKeeps ==
  ASSUME TypeOK, NEW c \in [Libraries -> Call], CallsInv(c),
         NEW l \in Libraries, c[l].pc = "load", l \in graph.installed,
         NEW e \in [Libraries -> Call], e[l].pc = "resolve", e[l].rest = DependenciesOf(l),
         \A k \in Libraries :
           /\ e[k].wait = c[k].wait /\ e[k].got = c[k].got /\ e[k].list = c[k].list
           /\ k # l => e[k].pc = c[k].pc /\ e[k].rest = c[k].rest
  PROVE  CallsInv(e) /\ \A f \in Branches : e[l].wait[f] = None
<1>0. /\ None \notin Libraries /\ Main \in Libraries
      /\ \A d : d \in Needs[l] <=> \E b \in Branches : d \in ToSet(e[l].rest[b])
  BY NeedsParts DEF TypeOK
<1>1. /\ CallsAreNeeded(c) /\ CallsAreAwaited(c) /\ CallsAreHeld(c)
      /\ Straight => CallsAreNested(c) /\ HeldInOrder(c)
  BY DEF CallsInv
<1>3. \A k \in Libraries : e[k].wait = c[k].wait /\ e[k].got = c[k].got /\ e[k].list = c[k].list
  OBVIOUS
<1>4. Active(e) = Active(c) /\ Done(e) = Done(c) /\ Open(e) = Open(c)
      /\ \A k \in Libraries : Begun(e, k) <=> Begun(c, k)
  BY <1>3 DEF Active, Done, Open, Begun
<1>5. \A p \in Libraries : \A f \in Branches : Held(e, p, f) = Held(c, p, f)
  <2> SUFFICES ASSUME NEW p \in Libraries, NEW f \in Branches PROVE Held(e, p, f) = Held(c, p, f)
    OBVIOUS
  <2> DEFINE w == c[p].wait[f]
  <2>1. e[p].wait[f] = w /\ e[p].got = c[p].got /\ w \in Libraries \cup {None}
    BY <1>3, CallTypes
  <2>2. w # None => (e[w].pc = "done" <=> c[w].pc = "done") /\ e[w].list = c[w].list
    BY <1>3, <2>1
  <2> QED BY <2>1, <2>2 DEF Held
<1>6. CallsAreNeeded(e)
  <2>1. \A k \in Libraries : k # l =>
          /\ e[k].pc # "none" => k = Main \/ \E p \in Edited : k \in Needs[p]
          /\ e[k].pc \in {"resolve", "done"} => k \in graph.installed
          /\ e[k].pc # "resolve" => \A f \in Branches : e[k].rest[f] = <<>> /\ e[k].wait[f] = None
          /\ e[k].pc \in {"none", "load"} => \A f \in Branches : e[k].got[f] = <<>>
          /\ \A f \in Branches : ToSet(e[k].rest[f]) \subseteq Needs[k]
          /\ e[k].pc \in {"resolve", "done"} =>
               \A x \in Needs[k] : Begun(e, x) \/ \E f \in Branches : x \in ToSet(e[k].rest[f])
    BY <1>1, <1>3, <1>4, EditedClosed DEF CallsAreNeeded
  <2>2. l = Main \/ \E p \in Edited : l \in Needs[p]
    BY <1>1 DEF CallsAreNeeded
  <2>3. e[Main].pc \in {"load", "resolve"}
    BY <1>0, <1>1, <1>3 DEF CallsAreNeeded
  <2>4. /\ \A f \in Branches : ToSet(e[l].rest[f]) \subseteq Needs[l]
        /\ \A x \in Needs[l] : \E f \in Branches : x \in ToSet(e[l].rest[f])
    BY <1>0, <1>3
  <2> QED BY <1>3, <2>1, <2>2, <2>3, <2>4 DEF CallsAreNeeded
<1>7. CallsAreAwaited(e)
  <2>1. ASSUME NEW p \in Libraries, NEW f \in Branches, e[p].wait[f] # None
        PROVE  /\ Begun(e, e[p].wait[f]) /\ e[p].wait[f] # Main
               /\ \A q \in Libraries : \A h \in Branches :
                    e[q].wait[h] = e[p].wait[f] => q = p /\ h = f
    <3>1. c[p].wait[f] \in Libraries /\ e[p].wait[f] = c[p].wait[f]
      BY <1>3, <2>1, CallTypes
    <3>2. Begun(c, c[p].wait[f]) /\ c[p].wait[f] # Main
          /\ \A q \in Libraries : \A h \in Branches : c[q].wait[h] = c[p].wait[f] => q = p /\ h = f
      BY <1>1, <2>1, <3>1 DEF CallsAreAwaited
    <3> QED BY <1>3, <1>4, <3>1, <3>2
  <2>2. ASSUME NEW s \in SUBSET (Active(c) \ {Main}), s # {}
        PROVE  \E x \in s : \E p \in Active(c) \ s : \E f \in Branches : e[p].wait[f] = x
    <3>1. PICK x \in s, p \in Active(c) \ s, f \in Branches : c[p].wait[f] = x
      BY <1>1, <2>2 DEF CallsAreAwaited
    <3>2. p \in Libraries
      BY DEF Active
    <3> QED BY <1>3, <3>1, <3>2
  <2> QED BY <1>4, <2>1, <2>2 DEF CallsAreAwaited
<1>8. CallsAreHeld(e)
  <2> Active(c) \subseteq Libraries
    BY DEF Active
  <2> QED BY <1>1, <1>4, <1>5 DEF CallsAreHeld
<1>9. ASSUME Straight PROVE CallsAreNested(e) /\ HeldInOrder(e)
  <2> Open(c) \subseteq Libraries /\ "preloaded" \in Branches
    BY DEF Active, Open, Branches
  <2>1. l \in Edited
    BY <1>1, CallsReach
  <2>2. \A f \in Branches \ {"preloaded"} : e[l].rest[f] = <<>>
    BY <1>9, <2>1, StraightParts DEF Branches
  <2>3. \A k \in Libraries : \A f \in Branches \ {"preloaded"} :
          e[k].rest[f] = <<>> /\ e[k].wait[f] = None /\ e[k].got[f] = <<>>
    BY <1>1, <1>3, <1>9, <2>2 DEF CallsAreNested
  <2>4. CallsAreNested(e)
    BY <1>1, <1>3, <1>4, <1>9, <2>3 DEF CallsAreNested
  <2>5. HeldInOrder(e)
    BY <1>1, <1>4, <1>5, <1>9 DEF HeldInOrder
  <2> QED BY <2>4, <2>5
<1>10. \A f \in Branches : e[l].wait[f] = None
  BY <1>1, <1>3 DEF CallsAreNeeded
<1> QED BY <1>6, <1>7, <1>8, <1>9, <1>10 DEF CallsInv

LEMMA LoadKeeps ==
  ASSUME TypeOK, CallsInv(call), NEW l \in Libraries, LoadLibrary(l), l \in graph.installed
  PROVE  CallsInv(call')
<1>0. call \in [Libraries -> Call] /\ call[l].pc = "load" /\ Branches = {"preloaded", "editor", "addons"}
  BY DEF CallsInv, LoadLibrary, Branches
<1>1. PICK e : e = [call EXCEPT ![l].pc = "resolve", ![l].rest = DependenciesOf(l)]
  OBVIOUS
<1>2. PICK e1 : e1 = Continue(e, l, "preloaded")
  OBVIOUS
<1>3. PICK e2 : e2 = Continue(e1, l, "editor")
  OBVIOUS
<1>4. call' = Continue(e2, l, "addons")
  BY <1>1, <1>2, <1>3 DEF LoadLibrary
<1>5. /\ e \in [Libraries -> Call] /\ CallsInv(e) /\ e[l].pc = "resolve"
      /\ \A f \in Branches : e[l].wait[f] = None
  <2>1. PICK r : r = [call[l] EXCEPT !.pc = "resolve", !.rest = DependenciesOf(l)]
    OBVIOUS
  <2>2. call[l] \in Call /\ DependenciesOf(l) \in [Branches -> Seq(Libraries)]
    BY <1>0, NeedsParts
  <2>3. /\ r \in Call /\ r.pc = "resolve" /\ r.rest = DependenciesOf(l)
        /\ r.wait = call[l].wait /\ r.got = call[l].got /\ r.list = call[l].list
    BY <2>1, <2>2 DEF Call
  <2>4. e = [call EXCEPT ![l] = r]
    BY <1>1, <2>1
  <2>5. e \in [Libraries -> Call] /\ e[l] = r /\ \A k \in Libraries : k # l => e[k] = call[k]
    BY <1>0, <2>3, <2>4
  <2>6. \A k \in Libraries :
          /\ e[k].wait = call[k].wait /\ e[k].got = call[k].got /\ e[k].list = call[k].list
          /\ k # l => e[k].pc = call[k].pc /\ e[k].rest = call[k].rest
    BY <2>3, <2>5
  <2>7. e[l].pc = "resolve" /\ e[l].rest = DependenciesOf(l)
    BY <2>3, <2>5
  <2> QED BY <1>0, <2>5, <2>6, <2>7, ResolvingKeeps
<1>6. /\ e1 \in [Libraries -> Call] /\ CallsInv(e1) /\ e1[l].pc = "resolve"
      /\ \A f \in Branches \ {"preloaded"} : e1[l].wait[f] = e[l].wait[f]
  BY <1>0, <1>2, <1>5, ContinueKeeps
<1>7. /\ e2 \in [Libraries -> Call] /\ CallsInv(e2) /\ e2[l].pc = "resolve"
      /\ \A f \in Branches \ {"editor"} : e2[l].wait[f] = e1[l].wait[f]
  <2> e1[l].wait["editor"] = None
    BY <1>0, <1>5, <1>6
  <2> QED BY <1>0, <1>3, <1>6, ContinueKeeps
<1>8. e2[l].wait["addons"] = None
  BY <1>0, <1>5, <1>6, <1>7
<1> QED BY <1>0, <1>4, <1>7, <1>8, ContinueKeeps

\* The list of the call for d, which has returned, is taken over by branch b of l.
TakesOver(c, l, b, d, e) ==
  /\ e[l].wait[b] = None /\ e[l].got[b] = c[l].got[b] \o c[d].list
  /\ \A k \in Libraries :
       /\ e[k].pc = c[k].pc /\ e[k].list = c[k].list /\ e[k].rest = c[k].rest
       /\ \A f \in Branches : k # l \/ f # b =>
            e[k].wait[f] = c[k].wait[f] /\ e[k].got[f] = c[k].got[f]

LEMMA CollectKeeps ==
  ASSUME TypeOK, NEW c \in [Libraries -> Call], CallsInv(c), NEW e \in [Libraries -> Call],
         NEW l \in Libraries, NEW b \in Branches, NEW d \in Libraries,
         c[l].pc = "resolve", c[l].wait[b] = d, c[d].pc = "done", TakesOver(c, l, b, d, e)
  PROVE  CallsInv(e)
<1> /\ e[l].wait[b] = None /\ e[l].got[b] = c[l].got[b] \o c[d].list
    /\ \A k \in Libraries :
         /\ e[k].pc = c[k].pc /\ e[k].list = c[k].list /\ e[k].rest = c[k].rest
         /\ \A f \in Branches : k # l \/ f # b =>
              e[k].wait[f] = c[k].wait[f] /\ e[k].got[f] = c[k].got[f]
  BY DEF TakesOver
<1>0. None \notin Libraries /\ Main \in Libraries /\ d # None
  BY DEF TypeOK
<1>1. /\ CallsAreNeeded(c) /\ CallsAreAwaited(c) /\ CallsAreHeld(c)
      /\ Straight => CallsAreNested(c) /\ HeldInOrder(c)
  BY DEF CallsInv
<1>2. Active(e) = Active(c) /\ Done(e) = Done(c) /\ Open(e) = Open(c)
      /\ \A k \in Libraries : Begun(e, k) <=> Begun(c, k)
  BY DEF Active, Done, Open, Begun
<1>3. \A p \in Libraries : \A f \in Branches : Held(e, p, f) = Held(c, p, f)
  <2> SUFFICES ASSUME NEW p \in Libraries, NEW f \in Branches PROVE Held(e, p, f) = Held(c, p, f)
    OBVIOUS
  <2> DEFINE w == c[p].wait[f]
  <2>1. CASE p = l /\ f = b
    <3>1. Held(c, l, b) = c[l].got[b] \o c[d].list
      BY <1>0 DEF Held
    <3>2. Held(e, l, b) = e[l].got[b]
      BY DEF Held
    <3> QED BY <2>1, <3>1, <3>2
  <2>2. CASE p # l \/ f # b
    <3>1. e[p].wait[f] = w /\ e[p].got[f] = c[p].got[f] /\ w \in Libraries \cup {None}
      BY <2>2, CallTypes
    <3>2. w # None => e[w].pc = c[w].pc /\ e[w].list = c[w].list
      BY <3>1
    <3> QED BY <3>1, <3>2 DEF Held
  <2> QED BY <2>1, <2>2
<1>4. CallsAreNeeded(e)
  <2>1. ASSUME NEW k \in Libraries, NEW f \in Branches
        PROVE  /\ e[k].pc # "resolve" => e[k].rest[f] = <<>> /\ e[k].wait[f] = None
               /\ e[k].pc \in {"none", "load"} => e[k].got[f] = <<>>
    BY <1>1 DEF CallsAreNeeded
  <2>2. ASSUME NEW k \in Libraries
        PROVE  /\ e[k].pc # "none" => k = Main \/ \E p \in Edited : k \in Needs[p]
               /\ e[k].pc \in {"resolve", "done"} => k \in graph.installed
               /\ \A f \in Branches : ToSet(e[k].rest[f]) \subseteq Needs[k]
               /\ e[k].pc \in {"resolve", "done"} =>
                    \A x \in Needs[k] :
                      Begun(e, x) \/ \E f \in Branches : x \in ToSet(e[k].rest[f])
    BY <1>1, <1>2, EditedClosed DEF CallsAreNeeded
  <2>3. e[Main].pc \in {"load", "resolve"}
    BY <1>0, <1>1 DEF CallsAreNeeded
  <2> QED BY <2>1, <2>2, <2>3 DEF CallsAreNeeded
<1>5. CallsAreAwaited(e)
  <2>1. ASSUME NEW p \in Libraries, NEW f \in Branches, e[p].wait[f] # None
        PROVE  /\ Begun(e, e[p].wait[f]) /\ e[p].wait[f] # Main
               /\ \A q \in Libraries : \A h \in Branches :
                    e[q].wait[h] = e[p].wait[f] => q = p /\ h = f
    <3>1. e[p].wait[f] = c[p].wait[f] /\ c[p].wait[f] \in Libraries
      BY <2>1, CallTypes
    <3>2. Begun(c, c[p].wait[f]) /\ c[p].wait[f] # Main
          /\ \A q \in Libraries : \A h \in Branches : c[q].wait[h] = c[p].wait[f] => q = p /\ h = f
      BY <1>1, <2>1, <3>1 DEF CallsAreAwaited
    <3>3. \A q \in Libraries : \A h \in Branches :
            e[q].wait[h] = c[p].wait[f] => c[q].wait[h] = c[p].wait[f]
      BY <2>1, <3>1
    <3> QED BY <1>2, <3>1, <3>2, <3>3
  <2>2. ASSUME NEW s \in SUBSET (Active(c) \ {Main}), s # {}
        PROVE  \E x \in s : \E p \in Active(c) \ s : \E f \in Branches : e[p].wait[f] = x
    <3>1. PICK x \in s, p \in Active(c) \ s, f \in Branches : c[p].wait[f] = x
      BY <1>1, <2>2 DEF CallsAreAwaited
    <3>2. p \in Libraries /\ x # d
      BY DEF Active
    <3> QED BY <3>1, <3>2
  <2> QED BY <1>2, <2>1, <2>2 DEF CallsAreAwaited
<1>6. CallsAreHeld(e)
  <2> Active(c) \subseteq Libraries
    BY DEF Active
  <2> QED BY <1>1, <1>2, <1>3 DEF CallsAreHeld
<1>7. ASSUME Straight PROVE CallsAreNested(e) /\ HeldInOrder(e)
  <2>0. /\ Open(c) \subseteq Libraries /\ "preloaded" \in Branches
        /\ CallsAreNested(c) /\ HeldInOrder(c)
    BY <1>1, <1>7 DEF Active, Open, Branches
  <2>1. b = "preloaded"
    BY <1>0, <2>0 DEF CallsAreNested
  <2>2. CallsAreNested(e)
    <3>1. ASSUME NEW k \in Libraries, NEW f \in Branches \ {"preloaded"}
          PROVE  e[k].rest[f] = <<>> /\ e[k].wait[f] = None /\ e[k].got[f] = <<>>
      BY <2>0, <2>1 DEF CallsAreNested
    <3>2. ASSUME NEW p \in Open(c), NEW u \in Open(c), e[p].wait["preloaded"] = u
          PROVE  \A q \in Open(c) \ {p, u} : p \in Below[q] \/ q \in Below[u]
      <4>1. c[p].wait["preloaded"] = u
        BY <1>0, <2>0, <2>1, <3>2
      <4> QED BY <2>0, <4>1 DEF CallsAreNested
    <3>3. /\ \A p, q \in Open(c) : p # q => p \in Below[q] \/ q \in Below[p]
          /\ \A q \in Open(c) : q # Main => q \in Below[Main]
      BY <2>0 DEF CallsAreNested
    <3> QED BY <1>2, <3>1, <3>2, <3>3 DEF CallsAreNested
  <2>3. HeldInOrder(e)
    BY <1>2, <1>3, <2>0 DEF HeldInOrder
  <2> QED BY <2>2, <2>3
<1> QED BY <1>4, <1>5, <1>6, <1>7 DEF CallsInv

LEMMA ResolveKeeps ==
  ASSUME TypeOK, CallsInv(call), NEW l \in Libraries, NEW b \in Branches, Resolve(l, b)
  PROVE  CallsInv(call')
<1>0. call \in [Libraries -> Call] /\ call[l].pc = "resolve" /\ None \notin Libraries
  BY DEF CallsInv, Resolve, TypeOK
<1>1. PICK d : d = call[l].wait[b]
  OBVIOUS
<1>2. d \in Libraries \cup {None}
  BY <1>0, <1>1, CallTypes
<1>3. CASE d = None
  <2> call' = Continue(call, l, b)
    BY <1>1, <1>3 DEF Resolve
  <2> QED BY <1>0, <1>1, <1>3, ContinueKeeps
<1>4. CASE d # None
  <2>0. d \in Libraries /\ call[d].pc = "done"
    BY <1>1, <1>2, <1>4 DEF Resolve
  <2>1. PICK e : e = [call EXCEPT ![l].wait[b] = None, ![l].got[b] = @ \o call[d].list]
    OBVIOUS
  <2>2. call' = Continue(e, l, b)
    BY <1>1, <1>4, <2>1 DEF Resolve
  <2>3. PICK got : got = call[l].got[b] \o call[d].list
    OBVIOUS
  <2>4. got \in Seq(Libraries) /\ call[l] \in Call
    <3> call[l].got[b] \in Seq(Libraries) /\ call[d].list \in Seq(Libraries)
      BY <1>0, <2>0, CallTypes
    <3> QED BY <1>0, <2>3, ConcatProperties
  <2>5. PICK w : w = [call[l].wait EXCEPT ![b] = None]
    OBVIOUS
  <2>6. PICK g : g = [call[l].got EXCEPT ![b] = got]
    OBVIOUS
  <2>7. /\ w \in [Branches -> Libraries \cup {None}] /\ w[b] = None
        /\ g \in [Branches -> Seq(Libraries)] /\ g[b] = got
        /\ \A f \in Branches : f # b => w[f] = call[l].wait[f] /\ g[f] = call[l].got[f]
    BY <2>4, <2>5, <2>6 DEF Call
  <2>8. PICK r : r = [call[l] EXCEPT !.wait = w, !.got = g]
    OBVIOUS
  <2>9. /\ r \in Call /\ r.wait = w /\ r.got = g /\ r.pc = call[l].pc
        /\ r.rest = call[l].rest /\ r.list = call[l].list
    BY <2>4, <2>7, <2>8 DEF Call
  <2>10. e = [call EXCEPT ![l] = r]
    BY <1>0, <2>1, <2>3, <2>4, <2>5, <2>6, <2>8 DEF Call
  <2>11. e \in [Libraries -> Call] /\ e[l] = r /\ \A k \in Libraries : k # l => e[k] = call[k]
    BY <1>0, <2>9, <2>10
  <2>12. e[l].wait[b] = None /\ e[l].got[b] = call[l].got[b] \o call[d].list
    BY <2>3, <2>7, <2>9, <2>11
  <2>13. \A k \in Libraries :
           /\ e[k].pc = call[k].pc /\ e[k].list = call[k].list /\ e[k].rest = call[k].rest
           /\ \A f \in Branches : k # l \/ f # b =>
                e[k].wait[f] = call[k].wait[f] /\ e[k].got[f] = call[k].got[f]
    BY <2>7, <2>9, <2>11
  <2>14. CallsInv(e)
    <3>1. /\ call \in [Libraries -> Call] /\ e \in [Libraries -> Call] /\ d \in Libraries
          /\ call[l].pc = "resolve" /\ call[l].wait[b] = d /\ call[d].pc = "done"
      BY <1>0, <1>1, <2>0, <2>11
    <3>2. TakesOver(call, l, b, d, e)
      BY <2>12, <2>13 DEF TakesOver
    <3> QED BY <3>1, <3>2, CollectKeeps
  <2>15. e[l].pc = "resolve"
    BY <1>0, <2>13
  <2> QED BY <2>2, <2>11, <2>12, <2>14, <2>15, ContinueKeeps
<1> QED BY <1>3, <1>4

\* What a call returns whose branches are all at their end: what they hold, and its library.
AtEnd(c, l) ==
  /\ c[l].pc = "resolve"
  /\ \A b \in Branches : c[l].rest[b] = <<>> /\ c[l].wait[b] = None

Returned(c, l) ==
  c[l].got["preloaded"] \o c[l].got["editor"] \o c[l].got["addons"] \o <<l>>

LEMMA ReturnedMeans ==
  ASSUME TypeOK, NEW c \in [Libraries -> Call], CallsInv(c), NEW l \in Libraries, AtEnd(c, l)
  PROVE  /\ Returned(c, l) \in Seq(Libraries)
         /\ IsInjective(Returned(c, l))
         /\ ToSet(Returned(c, l)) = {l} \cup UNION {ToSet(Held(c, l, b)) : b \in Branches}
         /\ \A b \in Branches : Held(c, l, b) = c[l].got[b]
<1> DEFINE p == c[l].got["preloaded"]
           e == c[l].got["editor"]
           a == c[l].got["addons"]
<1>0. Branches = {"preloaded", "editor", "addons"}
  BY DEF Branches
<1>1. \A b \in Branches : Held(c, l, b) = c[l].got[b]
  BY DEF Held, AtEnd
<1>2. p \in Seq(Libraries) /\ e \in Seq(Libraries) /\ a \in Seq(Libraries)
  BY <1>0, CallTypes
<1>3. /\ \A b \in Branches : IsInjective(Held(c, l, b)) /\ ToSet(Held(c, l, b)) \subseteq Done(c)
      /\ \A b, f \in Branches : b # f => ToSet(Held(c, l, b)) \cap ToSet(Held(c, l, f)) = {}
  <2> l \in Active(c) /\ CallsAreHeld(c)
    BY DEF AtEnd, Active, CallsInv
  <2> QED BY DEF CallsAreHeld
<1>4. /\ IsInjective(p) /\ IsInjective(e) /\ IsInjective(a)
      /\ ToSet(p) \cap ToSet(e) = {} /\ ToSet(p) \cap ToSet(a) = {} /\ ToSet(e) \cap ToSet(a) = {}
      /\ ToSet(p) \subseteq Done(c) /\ ToSet(e) \subseteq Done(c) /\ ToSet(a) \subseteq Done(c)
  BY <1>0, <1>1, <1>3
<1>5. ToSet(p) \cup ToSet(e) \cup ToSet(a) = UNION {ToSet(Held(c, l, b)) : b \in Branches}
  BY <1>0, <1>1
<1>6. l \notin Done(c)
  BY DEF AtEnd, Done
<1>7. Returned(c, l) = ((p \o e) \o a) \o <<l>>
  BY DEF Returned
<1> HIDE DEF p, e, a
<1>8. PICK t : t = p \o e
  OBVIOUS
<1>9. t \in Seq(Libraries) /\ ToSet(t) = ToSet(p) \cup ToSet(e) /\ IsInjective(t)
  <2>1. t \in Seq(Libraries) /\ ToSet(t) = ToSet(p) \cup ToSet(e)
    BY <1>2, <1>8, SetOfConcat
  <2>2. IsInjective(t)
    BY <1>2, <1>4, <1>8, ConcatNew
  <2> QED BY <2>1, <2>2
<1>10. PICK s : s = t \o a
  OBVIOUS
<1>11. s \in Seq(Libraries) /\ ToSet(s) = ToSet(p) \cup ToSet(e) \cup ToSet(a) /\ IsInjective(s)
  <2>1. s \in Seq(Libraries) /\ ToSet(s) = ToSet(t) \cup ToSet(a)
    BY <1>2, <1>9, <1>10, SetOfConcat
  <2>2. ToSet(t) \cap ToSet(a) = {}
    BY <1>4, <1>9
  <2>3. IsInjective(s)
    BY <1>2, <1>4, <1>9, <1>10, <2>2, ConcatNew
  <2> QED BY <1>9, <2>1, <2>3
<1>12. Returned(c, l) = Append(s, l)
  BY <1>7, <1>8, <1>10, <1>11
<1>13. l \notin ToSet(s)
  BY <1>4, <1>6, <1>11
<1>14. IsInjective(Append(s, l))
  BY <1>11, <1>13, AppendNew
<1>15. Append(s, l) \in Seq(Libraries) /\ ToSet(Append(s, l)) = ToSet(s) \cup {l}
  BY <1>11, SetOfAppend
<1> QED BY <1>1, <1>5, <1>11, <1>12, <1>14, <1>15

\* The call returns to the branch that awaits it.
Returns(c, l, e) ==
  /\ e[l].pc = "done" /\ e[l].list = Returned(c, l)
  /\ \A k \in Libraries :
       /\ e[k].rest = c[k].rest /\ e[k].wait = c[k].wait /\ e[k].got = c[k].got
       /\ k # l => e[k].pc = c[k].pc /\ e[k].list = c[k].list

LEMMA ReturnTo ==
  ASSUME TypeOK, NEW c \in [Libraries -> Call], CallsInv(c), NEW e \in [Libraries -> Call],
         NEW l \in Libraries, l # Main, AtEnd(c, l), Returns(c, l, e)
  PROVE  \E p \in Active(c) \ {l} : \E b \in Branches :
           /\ c[p].wait[b] = l
           /\ Held(e, p, b) = Held(c, p, b) \o Returned(c, l)
           /\ \A q \in Libraries : \A f \in Branches :
                q # p \/ f # b => Held(e, q, f) = Held(c, q, f)
<1>0. None \notin Libraries /\ CallsAreAwaited(c) /\ l \in Active(c) /\ c[l].pc = "resolve"
      /\ Active(c) \subseteq Libraries
  BY DEF TypeOK, CallsInv, AtEnd, Active
<1>1. PICK p \in Active(c) \ {l}, b \in Branches : c[p].wait[b] = l
  <2>1. PICK s : s = {l}
    OBVIOUS
  <2>2. s \in SUBSET (Active(c) \ {Main}) /\ s # {}
    BY <1>0, <2>1
  <2>3. \E d \in s : \E p \in Active(c) \ s : \E b \in Branches : c[p].wait[b] = d
    BY <1>0, <2>2 DEF CallsAreAwaited
  <2> QED BY <2>1, <2>3
<1>2. p \in Libraries /\ e[p].wait = c[p].wait /\ e[p].got = c[p].got /\ l # None
  BY <1>0, <1>1 DEF Returns
<1>3. Held(e, p, b) = Held(c, p, b) \o Returned(c, l)
  <2>1. Held(c, p, b) = c[p].got[b]
    BY <1>0, <1>1 DEF Held
  <2>2. Held(e, p, b) = e[p].got[b] \o e[l].list
    BY <1>1, <1>2 DEF Held, Returns
  <2> QED BY <1>2, <2>1, <2>2 DEF Returns
<1>4. ASSUME NEW q \in Libraries, NEW f \in Branches, q # p \/ f # b
      PROVE  Held(e, q, f) = Held(c, q, f)
  <2> DEFINE w == c[q].wait[f]
  <2>1. w # l
    BY <1>0, <1>1, <1>2, <1>4 DEF CallsAreAwaited
  <2>2. e[q].wait[f] = w /\ e[q].got[f] = c[q].got[f] /\ w \in Libraries \cup {None}
    BY CallTypes DEF Returns
  <2>3. w # None => e[w].pc = c[w].pc /\ e[w].list = c[w].list
    BY <2>1, <2>2 DEF Returns
  <2> QED BY <2>2, <2>3 DEF Held
<1> QED BY <1>1, <1>3, <1>4

\* In a straight run the caller of the lowest call is right above it.
LEMMA ReturnOrdered ==
  ASSUME TypeOK, Straight, NEW c \in [Libraries -> Call], CallsInv(c), NEW l \in Libraries,
         AtEnd(c, l), NEW p \in Open(c), p # l, c[p].wait["preloaded"] = l
  PROVE  /\ l \in Open(c) /\ \A q \in Open(c) : q \notin Below[l]
         /\ \A q \in Open(c) : q # l /\ q # p => p \in Below[q]
         /\ Held(c, l, "editor") = <<>> /\ Held(c, l, "addons") = <<>>
         /\ \A x \in Preloads[l] \cap graph.installed :
              \E q \in Open(c) : x \in ToSet(Held(c, q, "preloaded"))
<1>1. /\ CallsAreNeeded(c) /\ CallsAreAwaited(c) /\ CallsAreHeld(c)
      /\ CallsAreNested(c) /\ HeldInOrder(c) /\ None \notin Libraries
      /\ Branches = {"preloaded", "editor", "addons"}
  BY DEF CallsInv, TypeOK, Branches
<1>2. l \in Open(c) /\ l \in graph.installed /\ Open(c) \subseteq Libraries
  BY <1>1 DEF AtEnd, CallsAreNeeded, Active, Open
<1>3. \A q \in Open(c) : q \notin Below[l]
  BY <1>1, <1>2, NothingBelow DEF AtEnd
<1>4. \A q \in Open(c) \ {p, l} : p \in Below[q] \/ q \in Below[l]
  BY <1>1, <1>2 DEF CallsAreNested
<1>5. \A q \in Libraries : \A f \in Branches \ {"preloaded"} : Held(c, q, f) = <<>>
  BY <1>1 DEF Held, CallsAreNested
<1>6. ASSUME NEW x \in Preloads[l] \cap graph.installed
      PROVE  \E q \in Open(c) : x \in ToSet(Held(c, q, "preloaded"))
  <2>1. x \in Libraries /\ x \in Below[l]
    BY <1>2, BelowClosed, GraphParts DEF TypeOK
  <2>2. x \in Needs[l]
    <3> l \in Edited
      BY <1>1, CallsReach DEF AtEnd
    <3> QED BY StraightParts
  <2>3. Begun(c, x)
    <3>1. \A f \in Branches : x \notin ToSet(c[l].rest[f])
      BY SetOfEmpty DEF AtEnd
    <3> QED BY <1>1, <2>2, <3>1 DEF CallsAreNeeded, AtEnd
  <2>4. x \notin Active(c)
    BY <1>3, <2>1 DEF Open
  <2>5. x \in Done(c)
    BY <2>1, <2>3, <2>4, CallTypes DEF Begun, Active, Done
  <2>6. PICK q \in Active(c), f \in Branches : x \in ToSet(Held(c, q, f))
    BY <1>1, <2>5 DEF CallsAreHeld
  <2>7. q \in Libraries /\ f = "preloaded"
    BY <1>1, <1>5, <2>6, SetOfEmpty DEF Active
  <2>8. c[q].pc # "load"
    <3> SUFFICES ASSUME c[q].pc = "load" PROVE Held(c, q, f) = <<>>
      BY <2>6, SetOfEmpty
    <3> c[q].wait[f] = None /\ c[q].got[f] = <<>>
      BY <1>1, <2>7 DEF CallsAreNeeded
    <3> QED BY DEF Held
  <2>9. q \in graph.installed
    BY <1>1, <2>6, <2>7, <2>8 DEF CallsAreNeeded, Active
  <2> QED BY <2>6, <2>7, <2>9 DEF Open
<1> QED BY <1>1, <1>2, <1>3, <1>4, <1>5, <1>6

LEMMA FinishKeeps ==
  ASSUME TypeOK, NEW c \in [Libraries -> Call], CallsInv(c), NEW e \in [Libraries -> Call],
         NEW l \in Libraries, l # Main, AtEnd(c, l), Returns(c, l, e)
  PROVE  CallsInv(e)
<1>0. None \notin Libraries /\ Main \in Libraries /\ c[l].pc = "resolve"
  BY DEF TypeOK, AtEnd
<1>1. /\ CallsAreNeeded(c) /\ CallsAreAwaited(c) /\ CallsAreHeld(c)
      /\ Straight => CallsAreNested(c) /\ HeldInOrder(c)
  BY DEF CallsInv
<1>2. /\ Active(e) = Active(c) \ {l} /\ Done(e) = Done(c) \cup {l} /\ Open(e) = Open(c) \ {l}
      /\ \A k \in Libraries : Begun(e, k) <=> Begun(c, k)
      /\ l \in Active(c) /\ Active(c) \subseteq Libraries /\ l \notin Done(c)
  BY <1>0 DEF Active, Done, Open, Begun, Returns
<1>3. \A k \in Libraries : e[k].rest = c[k].rest /\ e[k].wait = c[k].wait /\ e[k].got = c[k].got
  BY DEF Returns
<1>4. PICK p \in Active(c) \ {l}, b \in Branches :
        /\ c[p].wait[b] = l
        /\ Held(e, p, b) = Held(c, p, b) \o Returned(c, l)
        /\ \A q \in Libraries : \A f \in Branches :
             q # p \/ f # b => Held(e, q, f) = Held(c, q, f)
  BY ReturnTo
<1>5. PICK all : all = Returned(c, l)
  OBVIOUS
<1>6. /\ all \in Seq(Libraries) /\ IsInjective(all)
      /\ ToSet(all) = {l} \cup UNION {ToSet(Held(c, l, f)) : f \in Branches}
      /\ \A f \in Branches : Held(c, l, f) = c[l].got[f]
  BY <1>5, ReturnedMeans
<1>7. Held(c, p, b) \in Seq(Libraries) /\ p \in Libraries /\ p \in Active(e) /\ p # l
  BY <1>0, <1>2, HeldTypes
<1>8. ToSet(Held(e, p, b)) = ToSet(Held(c, p, b)) \cup ToSet(all)
  BY <1>4, <1>5, <1>6, <1>7, SetOfConcat
<1>9. CallsAreNeeded(e)
  <2>1. \A k \in Libraries :
          /\ e[k].pc # "none" => c[k].pc # "none"
          /\ e[k].pc \in {"resolve", "done"} => c[k].pc \in {"resolve", "done"}
          /\ e[k].pc \in {"none", "load"} => c[k].pc \in {"none", "load"}
    BY <1>0 DEF Returns
  <2>2. ASSUME NEW k \in Libraries, e[k].pc # "resolve", NEW f \in Branches
        PROVE  c[k].rest[f] = <<>> /\ c[k].wait[f] = None
    BY <1>1, <2>2 DEF CallsAreNeeded, AtEnd, Returns
  <2>3. e[Main].pc \in {"load", "resolve"}
    BY <1>0, <1>1 DEF CallsAreNeeded, Returns
  <2>4. ASSUME NEW k \in Libraries, e[k].pc \in {"resolve", "done"}, NEW x \in Needs[k]
        PROVE  Begun(e, x) \/ \E f \in Branches : x \in ToSet(e[k].rest[f])
    <3> x \in Libraries
      BY EditedClosed
    <3> QED BY <1>1, <1>2, <1>3, <2>1, <2>4 DEF CallsAreNeeded
  <2>5. ASSUME NEW k \in Libraries
        PROVE  /\ e[k].pc # "none" => k = Main \/ \E q \in Edited : k \in Needs[q]
               /\ e[k].pc \in {"resolve", "done"} => k \in graph.installed
               /\ e[k].pc # "resolve" => \A f \in Branches : e[k].rest[f] = <<>> /\ e[k].wait[f] = None
               /\ e[k].pc \in {"none", "load"} => \A f \in Branches : e[k].got[f] = <<>>
               /\ \A f \in Branches : ToSet(e[k].rest[f]) \subseteq Needs[k]
    BY <1>1, <1>3, <2>1, <2>2 DEF CallsAreNeeded
  <2> QED BY <2>3, <2>4, <2>5 DEF CallsAreNeeded
<1>10. CallsAreAwaited(e)
  <2>1. ASSUME NEW q \in Libraries, NEW f \in Branches, e[q].wait[f] # None
        PROVE  /\ Begun(e, e[q].wait[f]) /\ e[q].wait[f] # Main
               /\ \A r \in Libraries : \A h \in Branches :
                    e[r].wait[h] = e[q].wait[f] => r = q /\ h = f
    <3>1. e[q].wait[f] = c[q].wait[f] /\ c[q].wait[f] \in Libraries
      BY <1>3, <2>1, CallTypes
    <3>2. Begun(c, c[q].wait[f]) /\ c[q].wait[f] # Main
          /\ \A r \in Libraries : \A h \in Branches : c[r].wait[h] = c[q].wait[f] => r = q /\ h = f
      BY <1>1, <2>1, <3>1 DEF CallsAreAwaited
    <3> QED BY <1>2, <1>3, <3>1, <3>2
  <2>2. ASSUME NEW s \in SUBSET (Active(e) \ {Main}), s # {}
        PROVE  \E x \in s : \E q \in Active(e) \ s : \E f \in Branches : e[q].wait[f] = x
    <3>1. s \in SUBSET (Active(c) \ {Main})
      BY <1>2, <2>2
    <3>2. PICK x \in s, q \in Active(c) \ s, f \in Branches : c[q].wait[f] = x
      BY <1>1, <2>2, <3>1 DEF CallsAreAwaited
    <3>3. x \in Libraries /\ q \in Libraries
      BY <1>2, <3>1
    <3>4. q # l
      BY <1>0, <3>2, <3>3 DEF AtEnd
    <3> QED BY <1>2, <1>3, <3>2, <3>3, <3>4
  <2> QED BY <2>1, <2>2 DEF CallsAreAwaited
<1>11. CallsAreHeld(e)
  <2>0. /\ \A q \in Active(c) : \A f \in Branches :
             /\ IsInjective(Held(c, q, f)) /\ ToSet(Held(c, q, f)) \subseteq Done(c)
             /\ \A r \in Active(c) : \A h \in Branches :
                  ToSet(Held(c, q, f)) \cap ToSet(Held(c, r, h)) # {} => r = q /\ h = f
        /\ \A x \in Done(c) : \E q \in Active(c) : \E f \in Branches : x \in ToSet(Held(c, q, f))
    BY <1>1 DEF CallsAreHeld
  <2>1. \A q \in Active(e) : \A f \in Branches : ToSet(Held(c, q, f)) \cap ToSet(all) = {}
    <3> SUFFICES ASSUME NEW q \in Active(e), NEW f \in Branches, NEW x \in ToSet(Held(c, q, f)),
                        x \in ToSet(all)
                 PROVE  FALSE
      OBVIOUS
    <3>1. q \in Active(c) /\ q # l /\ x # l
      BY <1>2, <2>0
    <3>2. PICK h \in Branches : x \in ToSet(Held(c, l, h))
      BY <1>6, <3>1
    <3> QED BY <1>2, <2>0, <3>1, <3>2
  <2>2. ToSet(all) \subseteq Done(e)
    BY <1>2, <1>6, <2>0
  <2>3. ASSUME NEW q \in Active(e), NEW f \in Branches
        PROVE  IsInjective(Held(e, q, f)) /\ ToSet(Held(e, q, f)) \subseteq Done(e)
    <3>1. CASE q = p /\ f = b
      <4>1. IsInjective(Held(c, p, b)) /\ ToSet(Held(c, p, b)) \subseteq Done(c)
        BY <2>0
      <4>2. ToSet(Held(c, p, b)) \cap ToSet(all) = {}
        BY <1>7, <2>1
      <4>3. IsInjective(Held(c, p, b) \o all)
        BY <1>6, <1>7, <4>1, <4>2, ConcatNew
      <4> QED BY <1>2, <1>4, <1>5, <1>8, <2>2, <3>1, <4>1, <4>3
    <3>2. CASE q # p \/ f # b
      <4> q \in Active(c) /\ Held(e, q, f) = Held(c, q, f)
        BY <1>2, <1>4, <3>2
      <4> QED BY <1>2, <2>0
    <3> QED BY <3>1, <3>2
  <2>4. \A q \in Active(e) : \A f \in Branches :
          ToSet(Held(e, q, f)) = IF q = p /\ f = b THEN ToSet(Held(c, p, b)) \cup ToSet(all)
                                 ELSE ToSet(Held(c, q, f))
    BY <1>2, <1>4, <1>8
  <2>5. ASSUME NEW q \in Active(e), NEW f \in Branches, NEW r \in Active(e), NEW h \in Branches,
               ToSet(Held(e, q, f)) \cap ToSet(Held(e, r, h)) # {}
        PROVE  r = q /\ h = f
    <3>1. PICK x : x \in ToSet(Held(e, q, f)) /\ x \in ToSet(Held(e, r, h))
      BY <2>5
    <3>2. q \in Active(c) /\ r \in Active(c)
      BY <1>2
    <3>3. CASE x \in ToSet(all)
      <4>1. x \notin ToSet(Held(c, q, f)) /\ x \notin ToSet(Held(c, r, h))
        BY <2>1, <3>3
      <4> QED BY <2>4, <3>1, <4>1
    <3>4. CASE x \notin ToSet(all)
      <4>1. x \in ToSet(Held(c, q, f)) /\ x \in ToSet(Held(c, r, h))
        BY <2>4, <3>1, <3>4
      <4> QED BY <2>0, <3>2, <4>1
    <3> QED BY <3>3, <3>4
  <2>6. ASSUME NEW x \in Done(e)
        PROVE  \E q \in Active(e) : \E f \in Branches : x \in ToSet(Held(e, q, f))
    <3>1. CASE x \in ToSet(all)
      BY <1>7, <1>8, <3>1
    <3>2. CASE x \notin ToSet(all)
      <4>1. x \in Done(c)
        BY <1>2, <1>6, <3>2
      <4>2. PICK q \in Active(c), f \in Branches : x \in ToSet(Held(c, q, f))
        BY <2>0, <4>1
      <4>3. q # l
        BY <1>6, <3>2, <4>2
      <4>4. q \in Active(e)
        BY <1>2, <4>3
      <4>5. x \in ToSet(Held(e, q, f))
        BY <2>4, <4>2, <4>4
      <4> QED BY <4>4, <4>5
    <3> QED BY <3>1, <3>2
  <2> QED BY <2>3, <2>5, <2>6 DEF CallsAreHeld
<1>12. ASSUME Straight PROVE CallsAreNested(e) /\ HeldInOrder(e)
  <2>0. /\ CallsAreNested(c) /\ HeldInOrder(c) /\ "preloaded" \in Branches
        /\ Open(c) \subseteq Libraries /\ Branches = {"preloaded", "editor", "addons"}
    BY <1>1, <1>12 DEF Active, Open, Branches
  <2>1. CallsAreNested(e)
    BY <1>2, <1>3, <2>0 DEF CallsAreNested
  <2>2. b = "preloaded"
    BY <1>0, <1>4, <1>7, <2>0 DEF CallsAreNested
  <2>3. p \in Open(c)
    BY <1>0, <1>1, <1>4, <1>7, <2>2 DEF CallsAreNeeded, Active, Open
  <2>4. /\ l \in Open(c) /\ \A q \in Open(c) : q \notin Below[l]
        /\ \A q \in Open(c) : q # l /\ q # p => p \in Below[q]
        /\ Held(c, l, "editor") = <<>> /\ Held(c, l, "addons") = <<>>
        /\ \A x \in Preloads[l] \cap graph.installed :
             \E q \in Open(c) : x \in ToSet(Held(c, q, "preloaded"))
    BY <1>4, <1>7, <1>12, <2>2, <2>3, ReturnOrdered
  <2>5. PICK hp, hl : hp = Held(c, p, "preloaded") /\ hl = Held(c, l, "preloaded")
    OBVIOUS
  <2>6. hp \in Seq(Libraries) /\ hl \in Seq(Libraries)
    BY <1>0, <1>7, <2>0, <2>5, HeldTypes
  <2>7. all = hl \o <<l>>
    <3>1. c[l].got["preloaded"] = hl /\ c[l].got["editor"] = <<>> /\ c[l].got["addons"] = <<>>
      BY <1>6, <2>0, <2>4, <2>5
    <3>2. all = hl \o <<>> \o <<>> \o <<l>>
      BY <1>5, <3>1 DEF Returned
    <3> QED BY <2>6, <3>2
  <2>8. PICK h : h = Held(e, p, "preloaded")
    OBVIOUS
  <2>9. h = hp \o all
    BY <1>4, <1>5, <2>2, <2>5, <2>8
  <2>10. \A q \in Open(e) : q \in Open(c) /\ q # l /\ q \in Libraries
                 /\ ToSet(Held(c, q, "preloaded")) \subseteq ToSet(Held(e, q, "preloaded"))
    BY <1>2, <1>4, <1>8, <2>0, <2>2
  <2>11. ASSUME NEW x \in ToSet(hp) PROVE \E j \in 1 .. Len(hp) : h[j] = x
    <3>1. PICK j \in DOMAIN hp : hp[j] = x
      BY InSet
    <3>2. j \in 1 .. Len(hp) /\ h[j] = hp[j]
      BY <1>6, <2>6, <2>9, ConcatAt
    <3> QED BY <3>1, <3>2
  <2>12. ASSUME NEW q \in Open(c), q # l, NEW x \in ToSet(Held(c, q, "preloaded"))
         PROVE  \/ \E j \in 1 .. Len(hp) : h[j] = x
                \/ \E r \in Open(e) : p \in Below[r] /\ x \in ToSet(Held(e, r, "preloaded"))
    <3>1. CASE q = p
      BY <2>5, <2>11, <2>12, <3>1
    <3>2. CASE q # p
      <4> q \in Open(e) /\ p \in Below[q]
        BY <1>2, <2>4, <2>12, <3>2
      <4> QED BY <2>10, <2>12
    <3> QED BY <3>1, <3>2
  <2>13. ASSUME NEW i \in DOMAIN h, NEW x \in Preloads[h[i]] \cap graph.installed
         PROVE  \/ \E j \in 1 .. i - 1 : h[j] = x
                \/ \E r \in Open(e) : p \in Below[r] /\ x \in ToSet(Held(e, r, "preloaded"))
    <3>0. /\ Len(hp) \in Nat /\ Len(hl) \in Nat /\ DOMAIN hp = 1 .. Len(hp)
          /\ \A k \in 1 .. Len(hp) : h[k] = hp[k]
          /\ \A k \in 1 .. Len(all) : h[Len(hp) + k] = all[k]
          /\ i \in 1 .. Len(hp) \/ \E k \in 1 .. Len(all) : i = Len(hp) + k
      <4>1. /\ DOMAIN hp = 1 .. Len(hp) /\ Len(hp) \in Nat
            /\ \A k \in 1 .. Len(hp) : h[k] = hp[k]
            /\ \A k \in 1 .. Len(all) : h[Len(hp) + k] = all[k]
            /\ \A j \in DOMAIN h : j \in 1 .. Len(hp) \/ \E k \in 1 .. Len(all) : j = Len(hp) + k
        <5>1. DOMAIN hp = 1 .. Len(hp) /\ Len(hp) \in Nat
          BY <2>6
        <5>2. \A k \in 1 .. Len(hp) : h[k] = hp[k]
          BY <1>6, <2>6, <2>9, ConcatAt
        <5>3. \A k \in 1 .. Len(all) : h[Len(hp) + k] = all[k]
          <6> SUFFICES ASSUME NEW k \in 1 .. Len(all) PROVE (hp \o all)[Len(hp) + k] = all[k]
            BY <2>9
          <6> QED BY <1>6, <2>6
        <5>4. \A j \in DOMAIN h : j \in 1 .. Len(hp) \/ \E k \in 1 .. Len(all) : j = Len(hp) + k
          BY <1>6, <2>6, <2>9, ConcatAt
        <5> QED BY <5>1, <5>2, <5>3, <5>4
      <4>2. Len(hl) \in Nat
        BY <2>6
      <4> QED BY <4>1, <4>2
    <3>1. CASE i \in 1 .. Len(hp)
      <4>1. h[i] = hp[i] /\ i \in DOMAIN hp
        BY <3>0, <3>1
      <4>2. \/ \E j \in 1 .. i - 1 : hp[j] = x
            \/ \E q \in Open(c) : p \in Below[q] /\ x \in ToSet(Held(c, q, "preloaded"))
        BY <2>0, <2>3, <2>5, <2>13, <4>1 DEF HeldInOrder
      <4>3. ASSUME NEW j \in 1 .. i - 1, hp[j] = x PROVE \E k \in 1 .. i - 1 : h[k] = x
        <5> j \in 1 .. Len(hp)
          BY <3>0, <3>1
        <5> QED BY <3>0, <4>3
      <4>4. ASSUME NEW q \in Open(c), p \in Below[q], x \in ToSet(Held(c, q, "preloaded"))
            PROVE  \E r \in Open(e) : p \in Below[r] /\ x \in ToSet(Held(e, r, "preloaded"))
        <5> q \in Open(e)
          BY <1>2, <2>3, <2>4, <4>4
        <5> QED BY <2>10, <4>4
      <4> QED BY <4>2, <4>3, <4>4
    <3>2. CASE i \notin 1 .. Len(hp)
      <4>1. PICK k \in 1 .. Len(all) : i = Len(hp) + k
        BY <3>0, <3>2
      <4>2. /\ Len(all) = Len(hl) + 1 /\ all[Len(hl) + 1] = l
            /\ \A j \in 1 .. Len(hl) : all[j] = hl[j]
            /\ DOMAIN hl = 1 .. Len(hl)
        BY <2>6, <2>7
      <4>3. h[i] = all[k]
        BY <3>0, <4>1
      <4>4. ASSUME \E j \in 1 .. Len(hp) : h[j] = x PROVE \E j \in 1 .. i - 1 : h[j] = x
        <5> PICK j \in 1 .. Len(hp) : h[j] = x
          BY <4>4
        <5> j \in 1 .. i - 1
          BY <3>0, <4>1
        <5> QED OBVIOUS
      <4>5. ASSUME NEW j \in 1 .. k - 1, j \in 1 .. Len(hl), hl[j] = x
            PROVE  \E m \in 1 .. i - 1 : h[m] = x
        <5>1. j \in 1 .. Len(all) /\ all[j] = x
          BY <3>0, <4>2, <4>5
        <5>2. Len(hp) + j \in 1 .. i - 1
          BY <3>0, <4>1, <4>5
        <5>3. h[Len(hp) + j] = x
          BY <3>0, <5>1
        <5> QED BY <5>2, <5>3
      <4>6. CASE k \in 1 .. Len(hl)
        <5>1. h[i] = hl[k] /\ k \in DOMAIN hl
          BY <4>2, <4>3, <4>6
        <5>2. \/ \E j \in 1 .. k - 1 : hl[j] = x
              \/ \E q \in Open(c) : l \in Below[q] /\ x \in ToSet(Held(c, q, "preloaded"))
          BY <2>0, <2>4, <2>5, <2>13, <5>1 DEF HeldInOrder
        <5>3. ASSUME NEW j \in 1 .. k - 1, hl[j] = x PROVE \E m \in 1 .. i - 1 : h[m] = x
          <6> j \in 1 .. Len(hl)
            BY <3>0, <4>6
          <6> QED BY <4>5, <5>3
        <5>4. ASSUME NEW q \in Open(c), l \in Below[q], x \in ToSet(Held(c, q, "preloaded"))
              PROVE  \/ \E j \in 1 .. i - 1 : h[j] = x
                     \/ \E r \in Open(e) : p \in Below[r] /\ x \in ToSet(Held(e, r, "preloaded"))
          <6> q # l
            BY <2>4, <5>4
          <6> QED BY <2>12, <4>4, <5>4
        <5> QED BY <5>2, <5>3, <5>4
      <4>7. CASE k \notin 1 .. Len(hl)
        <5>1. k = Len(hl) + 1 /\ h[i] = l
          BY <3>0, <4>1, <4>2, <4>3, <4>7
        <5>2. PICK q \in Open(c) : x \in ToSet(Held(c, q, "preloaded"))
          BY <2>4, <2>13, <5>1
        <5>3. CASE q = l
          <6>1. PICK j \in DOMAIN hl : hl[j] = x
            BY <2>5, <5>2, <5>3, InSet
          <6>2. j \in 1 .. Len(hl) /\ j \in 1 .. k - 1
            BY <3>0, <4>2, <5>1
          <6> QED BY <4>5, <6>1, <6>2
        <5>4. CASE q # l
          BY <2>12, <4>4, <5>2, <5>4
        <5> QED BY <5>3, <5>4
      <4> QED BY <4>6, <4>7
    <3> QED BY <3>1, <3>2
  <2>14. HeldInOrder(e)
    <3> SUFFICES ASSUME NEW r \in Open(e), NEW i \in DOMAIN Held(e, r, "preloaded"),
                        NEW x \in Preloads[Held(e, r, "preloaded")[i]] \cap graph.installed
                 PROVE  \/ \E j \in 1 .. i - 1 : Held(e, r, "preloaded")[j] = x
                        \/ \E q \in Open(e) : r \in Below[q] /\ x \in ToSet(Held(e, q, "preloaded"))
      BY DEF HeldInOrder
    <3>1. CASE r = p
      BY <2>8, <2>13, <3>1
    <3>2. CASE r # p
      <4>1. r \in Open(c) /\ Held(e, r, "preloaded") = Held(c, r, "preloaded")
        BY <1>4, <2>0, <2>10, <3>2
      <4>2. \/ \E j \in 1 .. i - 1 : Held(c, r, "preloaded")[j] = x
            \/ \E q \in Open(c) : r \in Below[q] /\ x \in ToSet(Held(c, q, "preloaded"))
        BY <2>0, <4>1 DEF HeldInOrder
      <4>3. ASSUME NEW q \in Open(c), r \in Below[q], x \in ToSet(Held(c, q, "preloaded"))
            PROVE  \E m \in Open(e) : r \in Below[m] /\ x \in ToSet(Held(e, m, "preloaded"))
        <5> q \in Open(e)
          BY <1>2, <2>4, <4>1, <4>3
        <5> QED BY <2>10, <4>3
      <4> QED BY <4>1, <4>2, <4>3
    <3> QED BY <3>1, <3>2
  <2> QED BY <2>1, <2>14
<1> QED BY <1>9, <1>10, <1>11, <1>12 DEF CallsInv

\* When the main library returns, every other call has: the list is complete.
LEMMA MainReturns ==
  ASSUME TypeOK, NEW c \in [Libraries -> Call], CallsInv(c), AtEnd(c, Main),
         NEW r, r = Returned(c, Main)
  PROVE  /\ r # Error /\ r # <<>> /\ IsInjective(r) /\ ToSet(r) = Edited
         /\ Acyclic /\ (\A l \in Edited : graph.editor[l] \o graph.addons[l] = <<>>) => InOrder(r)
<1>0. None \notin Libraries /\ Main \in Libraries /\ c[Main].pc = "resolve"
  BY DEF TypeOK, AtEnd
<1>1. /\ CallsAreNeeded(c) /\ CallsAreAwaited(c) /\ CallsAreHeld(c)
      /\ Straight => CallsAreNested(c) /\ HeldInOrder(c)
  BY DEF CallsInv
<1>2. /\ r \in Seq(Libraries) /\ IsInjective(r)
      /\ ToSet(r) = {Main} \cup UNION {ToSet(Held(c, Main, b)) : b \in Branches}
      /\ \A b \in Branches : Held(c, Main, b) = c[Main].got[b]
  BY <1>0, ReturnedMeans
<1>3. Active(c) = {Main}
  <2>1. Main \in Active(c)
    BY <1>0 DEF Active
  <2>2. PICK s : s = Active(c) \ {Main}
    OBVIOUS
  <2>3. ASSUME s # {} PROVE FALSE
    <3>1. PICK d \in s, p \in Active(c) \ s, b \in Branches : c[p].wait[b] = d
      BY <1>1, <2>2, <2>3 DEF CallsAreAwaited
    <3>2. p = Main /\ d \in Libraries
      BY <2>2, <3>1 DEF Active
    <3> QED BY <1>0, <3>1, <3>2 DEF AtEnd
  <2> QED BY <2>1, <2>2, <2>3
<1>4. ToSet(r) = {Main} \cup Done(c)
  BY <1>1, <1>2, <1>3 DEF CallsAreHeld
<1>5. ToSet(r) \subseteq Edited
  BY <1>0, <1>1, <1>4, CallsReach DEF Done
<1>6. Edited \subseteq ToSet(r)
  <2>1. ToSet(r) \in SUBSET graph.installed
    BY <1>5, EditedClosed
  <2>2. ASSUME NEW l \in ToSet(r), NEW x \in Needs[l] \cap graph.installed PROVE x \in ToSet(r)
    <3>1. l \in Libraries /\ x \in Libraries
      BY <1>5, EditedClosed
    <3>2. c[l].pc \in {"resolve", "done"} /\ \A b \in Branches : c[l].rest[b] = <<>>
      BY <1>0, <1>1, <1>4, <2>2, <3>1 DEF Done, AtEnd, CallsAreNeeded
    <3>3. Begun(c, x)
      BY <1>1, <3>1, <3>2, SetOfEmpty DEF CallsAreNeeded
    <3>4. x \in Active(c) \/ x \in Done(c)
      BY <3>1, <3>3, CallTypes DEF Begun, Active, Done
    <3> QED BY <1>3, <1>4, <3>4
  <2>3. \A l \in ToSet(r) : Needs[l] \cap graph.installed \subseteq ToSet(r)
    BY <2>2
  <2> QED BY <1>4, <2>1, <2>3, EditedClosed
<1>7. r # Error /\ r # <<>>
  <2>1. PICK i \in DOMAIN r : r[i] = Main
    BY <1>4, InSet
  <2>2. \A j \in DOMAIN r : r[j] # None
    BY <1>0, <1>2
  <2>3. 1 \in DOMAIN Error /\ Error[1] = None
    BY DEF Error
  <2> QED BY <2>1, <2>2, <2>3
<1>8. ASSUME Straight PROVE InOrder(r)
  <2>0. /\ CallsAreNested(c) /\ HeldInOrder(c) /\ Branches = {"preloaded", "editor", "addons"}
    BY <1>1, <1>8 DEF Branches
  <2>1. Open(c) = {Main} /\ Main \in graph.installed /\ Acyclic
    BY <1>0, <1>1, <1>3, <1>8 DEF Open, CallsAreNeeded, Straight
  <2>2. PICK h : h = Held(c, Main, "preloaded")
    OBVIOUS
  <2>3. h \in Seq(Libraries)
    BY <1>0, <2>0, <2>2, HeldTypes
  <2>4. r = Append(h, Main)
    <3>1. /\ c[Main].got["preloaded"] = h
          /\ c[Main].got["editor"] = <<>> /\ c[Main].got["addons"] = <<>>
      BY <1>0, <1>2, <2>0, <2>2 DEF CallsAreNested
    <3>2. r = h \o <<>> \o <<>> \o <<Main>>
      BY <3>1 DEF Returned
    <3> QED BY <2>3, <3>2
  <2>5. /\ Len(h) \in Nat /\ DOMAIN h = 1 .. Len(h) /\ DOMAIN r = 1 .. Len(h) + 1
        /\ r[Len(h) + 1] = Main /\ \A i \in 1 .. Len(h) : r[i] = h[i]
    BY <2>3, <2>4
  <2> SUFFICES ASSUME NEW i \in DOMAIN r, NEW j \in DOMAIN r, r[j] \in Preloads[r[i]]
               PROVE  j < i
    BY DEF InOrder
  <2>6. PICK x : x = r[j]
    OBVIOUS
  <2>7. x \in graph.installed
    BY <1>5, <2>6, EditedClosed, InSet
  <2>8. CASE i \in 1 .. Len(h)
    <3>1. x \in Preloads[h[i]] \cap graph.installed
      BY <2>5, <2>6, <2>7, <2>8
    <3>2. \/ \E k \in 1 .. i - 1 : h[k] = x
          \/ \E q \in Open(c) : Main \in Below[q] /\ x \in ToSet(Held(c, q, "preloaded"))
      BY <2>0, <2>1, <2>2, <2>5, <2>8, <3>1 DEF HeldInOrder
    <3>3. PICK k \in 1 .. i - 1 : h[k] = x
      BY <1>0, <2>1, <3>2, BelowClosed
    <3>4. k \in 1 .. Len(h) /\ k \in DOMAIN r /\ k < i
      BY <2>5, <2>8
    <3>5. r[k] = r[j]
      BY <2>5, <2>6, <3>3, <3>4
    <3>6. k = j
      BY <1>2, <3>4, <3>5 DEF IsInjective
    <3> QED BY <3>4, <3>6
  <2>9. CASE i \notin 1 .. Len(h)
    <3>1. i = Len(h) + 1 /\ r[i] = Main
      BY <2>5, <2>9
    <3>2. j # i
      <4> SUFFICES ASSUME j = i PROVE FALSE
        OBVIOUS
      <4> Main \in Preloads[Main]
        BY <3>1
      <4> QED BY <1>0, <2>1, BelowClosed
    <3> QED BY <2>5, <3>1, <3>2
  <2> QED BY <2>8, <2>9
<1> QED BY <1>2, <1>5, <1>6, <1>7, <1>8 DEF Straight

LEMMA SameCalls ==
  ASSUME graph' = graph
  PROVE  CallsInv(call)' <=> CallsInv(call')
<1>1. /\ Needs' = Needs /\ Edited' = Edited /\ Acyclic' = Acyclic /\ Below' = Below
      /\ Preloads' = Preloads
  BY SameGraph, SameBelow
<1>2. CallsAreNeeded(call)' <=> CallsAreNeeded(call')
  BY <1>1 DEF CallsAreNeeded, Begun
<1>3. CallsAreAwaited(call)' <=> CallsAreAwaited(call')
  BY DEF CallsAreAwaited, Begun, Active
<1>4. CallsAreHeld(call)' <=> CallsAreHeld(call')
  BY DEF CallsAreHeld, Held, Active, Done
<1>5. Straight' <=> Straight
  BY <1>1 DEF Straight
<1>6. CallsAreNested(call)' <=> CallsAreNested(call')
  BY <1>1 DEF CallsAreNested, Open, Active
<1>7. HeldInOrder(call)' <=> HeldInOrder(call')
  BY <1>1 DEF HeldInOrder, Open, Active, Held
<1> QED BY <1>2, <1>3, <1>4, <1>5, <1>6, <1>7 DEF CallsInv

LEMMA InitEdits ==
  ASSUME AssetListsAssumption, Init, TypeOK
  PROVE  EditInv
<1>1. EditorListIsComplete
  BY DEF Init, EditorListIsComplete
<1> SUFFICES ASSUME stage = "editor" PROVE CallsInv(call)
  BY <1>1 DEF EditInv
<1>2. Main \in Libraries /\ None \notin Libraries /\ graph \in Graph
  BY DEF TypeOK
<1>3. \A l \in Libraries :
        /\ call[l].pc = IF l = Main THEN "load" ELSE "none"
        /\ call[l].list = <<>>
        /\ \A b \in Branches :
             call[l].rest[b] = <<>> /\ call[l].wait[b] = None /\ call[l].got[b] = <<>>
  BY DEF Init, NoCall
<1>4. call \in [Libraries -> Call]
  <2>1. /\ [b \in Branches |-> <<>>] \in [Branches -> Seq(Libraries)]
        /\ [b \in Branches |-> None] \in [Branches -> Libraries \cup {None}]
        /\ <<>> \in Seq(Libraries)
    OBVIOUS
  <2>2. NoCall \in Call
    BY <2>1 DEF NoCall, Call
  <2>3. [NoCall EXCEPT !.pc = "load"] \in Call
    BY <2>2 DEF Call
  <2> QED BY <2>2, <2>3 DEF Init
<1>5. Active(call) = {Main} /\ Done(call) = {} /\ Open(call) \subseteq {Main}
  BY <1>2, <1>3 DEF Active, Done, Open
<1>6. \A b \in Branches : Held(call, Main, b) = <<>>
  BY <1>2, <1>3 DEF Held
<1>7. CallsAreNeeded(call)
  BY <1>2, <1>3, SetOfEmpty DEF CallsAreNeeded
<1>8. CallsAreAwaited(call)
  BY <1>3, <1>5 DEF CallsAreAwaited
<1>9. CallsAreHeld(call)
  <2>1. \A b \in Branches : ToSet(Held(call, Main, b)) = {} /\ IsInjective(Held(call, Main, b))
    BY <1>6, SetOfEmpty DEF IsInjective
  <2> QED BY <1>5, <2>1 DEF CallsAreHeld
<1>10. CallsAreNested(call)
  BY <1>2, <1>3, <1>5 DEF CallsAreNested, Branches
<1>11. HeldInOrder(call)
  BY <1>5, <1>6 DEF HeldInOrder, Branches
<1> QED BY <1>4, <1>7, <1>8, <1>9, <1>10, <1>11 DEF CallsInv

LEMMA ListAssetsEdits ==
  ASSUME TypeOK, CallsInv(call), NEW l \in Libraries, ListAssets(l)
  PROVE  EditInv'
<1>0. /\ call \in [Libraries -> Call] /\ AtEnd(call, l) /\ graph' = graph /\ stage' = stage
      /\ answer = <<>> /\ stage = "editor"
  BY DEF CallsInv, ListAssets, AtEnd
<1>1. PICK all : all = Returned(call, l)
  OBVIOUS
<1>2. /\ call' = [call EXCEPT ![l].pc = "done", ![l].list = all]
      /\ answer' = IF l = Main THEN all ELSE answer
  BY <1>1 DEF ListAssets, Returned
<1>3. CASE l = Main
  <2>1. /\ all # Error /\ all # <<>> /\ IsInjective(all) /\ ToSet(all) = Edited
        /\ Acyclic /\ (\A k \in Edited : graph.editor[k] \o graph.addons[k] = <<>>) => InOrder(all)
    BY <1>0, <1>1, <1>3, MainReturns
  <2>2. answer' = all /\ Edited' = Edited /\ Acyclic' = Acyclic /\ Preloads' = Preloads
    BY <1>0, <1>2, <1>3, SameGraph
  <2>3. Edited' = Reached({Main}, Needs)'
    BY DEF Edited
  <2>4. EditorListIsComplete'
    BY <1>0, <2>1, <2>2, <2>3 DEF EditorListIsComplete, InOrder, Error
  <2> QED BY <2>1, <2>2, <2>4 DEF EditInv
<1>4. CASE l # Main
  <2>1. PICK r : r = [call[l] EXCEPT !.pc = "done", !.list = all]
    OBVIOUS
  <2>2. call[l] \in Call /\ all \in Seq(Libraries)
    BY <1>0, <1>1, ReturnedMeans
  <2>3. /\ r \in Call /\ r.pc = "done" /\ r.list = all
        /\ r.rest = call[l].rest /\ r.wait = call[l].wait /\ r.got = call[l].got
    BY <2>1, <2>2 DEF Call
  <2>4. call' = [call EXCEPT ![l] = r]
    BY <1>2, <2>1
  <2>5. call' \in [Libraries -> Call] /\ call'[l] = r /\ \A k \in Libraries : k # l => call'[k] = call[k]
    BY <1>0, <2>3, <2>4
  <2>6. Returns(call, l, call')
    BY <1>1, <2>3, <2>5 DEF Returns
  <2>7. CallsInv(call')
    BY <1>0, <1>4, <2>5, <2>6, FinishKeeps
  <2>8. CallsInv(call)'
    BY <1>0, <2>7, SameCalls
  <2> QED BY <1>0, <1>2, <1>4, <2>8 DEF EditInv, EditorListIsComplete
<1> QED BY <1>3, <1>4

LEMMA LoadLibraryEdits ==
  ASSUME TypeOK, CallsInv(call), NEW l \in Libraries, LoadLibrary(l)
  PROVE  EditInv'
<1>0. /\ graph' = graph /\ stage' = stage /\ answer = <<>> /\ stage = "editor"
      /\ call[l].pc = "load"
  BY DEF LoadLibrary
<1>1. CASE l \in graph.installed
  <2>1. CallsInv(call')
    BY <1>1, LoadKeeps
  <2>2. CallsInv(call)' /\ answer' = <<>>
    BY <1>0, <1>1, <2>1, SameCalls DEF LoadLibrary
  <2> QED BY <2>2 DEF EditInv, EditorListIsComplete
<1>2. CASE l \notin graph.installed
  <2>1. answer' = Error /\ Error # <<>>
    BY <1>2 DEF LoadLibrary, Error
  <2>2. l = Main \/ \E p \in Edited : l \in Needs[p]
    BY <1>0 DEF CallsInv, CallsAreNeeded
  <2>3. l \in ({Main} \cup UNION {Needs[p] : p \in Edited}) \ graph.installed
    BY <1>2, <2>2
  <2>4. Edited' = Edited /\ Needs' = Needs /\ Edited' = Reached({Main}, Needs)'
    BY <1>0, SameGraph DEF Edited
  <2>5. EditorListIsComplete'
    BY <1>0, <2>1, <2>3, <2>4 DEF EditorListIsComplete, Error
  <2> QED BY <2>1, <2>5 DEF EditInv
<1> QED BY <1>1, <1>2

LEMMA NextEdits ==
  ASSUME TypeOK, EditInv, [Next]_vars
  PROVE  EditInv'
<1>1. ASSUME NEW l \in Libraries, LoadLibrary(l) PROVE EditInv'
  BY <1>1, LoadLibraryEdits DEF EditInv, LoadLibrary
<1>2. ASSUME NEW l \in Libraries, ListAssets(l) PROVE EditInv'
  BY <1>2, ListAssetsEdits DEF EditInv, ListAssets
<1>3. ASSUME NEW l \in Libraries, NEW b \in Branches, Resolve(l, b) PROVE EditInv'
  <2>1. CallsInv(call) /\ graph' = graph /\ answer' = <<>>
    BY <1>3 DEF EditInv, Resolve
  <2>2. CallsInv(call)'
    BY <1>3, <2>1, ResolveKeeps, SameCalls
  <2> QED BY <2>1, <2>2 DEF EditInv, EditorListIsComplete
<1>4. ASSUME stage' # "editor" PROVE EditInv'
  BY <1>4 DEF EditInv, EditorListIsComplete
<1>5. CASE UNCHANGED vars
  <2>1. /\ graph' = graph /\ call' = call /\ stage' = stage /\ answer' = answer
    BY <1>5 DEF vars
  <2>2. /\ Edited' = Edited /\ Needs' = Needs /\ Acyclic' = Acyclic /\ Preloads' = Preloads
        /\ Edited' = Reached({Main}, Needs)' /\ Edited = Reached({Main}, Needs)
    BY <2>1, SameGraph DEF Edited
  <2>3. CallsInv(call)' <=> CallsInv(call)
    BY <2>1, SameCalls
  <2>4. EditorListIsComplete'
    <3> EditorListIsComplete
      BY DEF EditInv
    <3> InOrder(answer)' <=> InOrder(answer)
      BY <2>1, <2>2 DEF InOrder
    <3> QED BY <2>1, <2>2, ZenonT(40) DEF EditorListIsComplete, Error
  <2> QED BY <2>1, <2>3, <2>4 DEF EditInv
<1>6. CASE AddDependencies \/ GenerateContentMetadata \/ EndLoading \/ AggregateAssets \/ EndOrdering
  BY <1>4, <1>6 DEF AddDependencies, GenerateContentMetadata, EndLoading, AggregateAssets, EndOrdering
<1>7. ASSUME NEW l \in Libraries, GetMetadata(l) PROVE EditInv'
  BY <1>4, <1>7 DEF GetMetadata
<1> QED BY <1>1, <1>2, <1>3, <1>5, <1>6, <1>7 DEF Next

\* H5PEditor lists every library that the edited content needs, once, in whatever order its
\* three branches and the calls they share go on; it refuses only when one is missing, and
\* a graph without editor dependencies and addons comes back in the order of its dependencies.
THEOREM EditorIsComplete == AssetListsAssumption => (Spec => []EditorListIsComplete)
<1>1. AssetListsAssumption /\ Init => EditInv /\ TypeOK
  BY InitType, InitEdits
<1>2. EditInv /\ TypeOK /\ [Next]_vars => (EditInv /\ TypeOK)'
  BY NextType, NextEdits
<1>3. EditInv => EditorListIsComplete
  BY DEF EditInv
<1> QED BY <1>1, <1>2, <1>3, PTL DEF Spec

=============================================================================
