---------------------------- MODULE ParameterTree ----------------------------
(***************************************************************************)
(* The parameters of a content, walked along the semantics of its          *)
(* libraries by ContentScanner: SemanticsEnforcer makes them follow the    *)
(* semantics when they are saved, ContentFileScanner finds the files they  *)
(* reference, and PackageExporter shortens the names of these files.       *)
(* H5PEditor walks the same tree without semantics to find its libraries.  *)
(***************************************************************************)
EXTENDS Naturals, FiniteSets, SequencesExt

CONSTANTS
  Libraries,
  Main,       \* the library of the content
  Semantics,  \* Semantics[l]: the entries of semantics.json of l, see Entry
  Trees,      \* parameters the editor may send: a node for every entry of Main
  Slots,      \* the places of file references in a tree
  Files,
  LongFiles,  \* those whose names are too long for a package
  Nothing     \* no node, no library, no slot; a reference that is empty or a URL

\* An entry is [type, options, fields]: the libraries that a library element may hold,
\* the entries of a group or the one of a list.  A node is [library, text, file,
\* original, kids]: what the fields of the element hold, file and original as slots;
\* the kids stand in the order of the entries, Nothing for one that is not used.
Types == {"text", "file", "media", "library", "group", "list"}
Texts == {"none", "any", "conforming"}

\* A file under its own name, 0, or a new one.
Path == [file : Files, new : Nat]

ParameterTreeAssumption ==
  /\ Main \in Libraries
  /\ LongFiles \subseteq Files
  /\ \A l \in Libraries : \A entry \in ToSet(Semantics[l]) : entry.type \in Types

VARIABLES
  stage,   \* "edited", "stored" or "exported"
  tree,    \* the parameters
  path,    \* path[s]: the reference in slot s
  named,   \* the libraries in the parameters, which h5p.json names
  found,   \* the references that the last scan has found
  packed   \* the content files in the exported package

vars == <<stage, tree, path, named, found, packed>>

-----------------------------------------------------------------------------
(* ContentScanner *)

\* A group with a single field holds what its field holds.
Field(entry) ==
  IF entry.type = "group" /\ Len(entry.fields) = 1 THEN entry.fields[1] ELSE entry

\* The entries of the elements inside an element.
Entries(entry, p) ==
  CASE entry.type = "library" -> IF p.library = Nothing THEN <<>> ELSE Semantics[p.library]
    [] entry.type = "group"   -> entry.fields
    [] entry.type = "list"    -> [i \in DOMAIN p.kids |-> entry.fields[1]]
    [] OTHER                  -> <<>>

-----------------------------------------------------------------------------
(* ContentFileScanner *)

CheckFileElement(s) == IF s = Nothing \/ path[s] = Nothing THEN <<>> ELSE <<s>>

MediaFiles(p) == FlattenSeq([i \in DOMAIN p.kids |-> CheckFileElement(p.kids[i].file)])

\* Mutant: the image that one was cropped from is forgotten.
FilesOfCropped(entry, p) ==
  IF entry.type = "media" THEN MediaFiles(p) ELSE CheckFileElement(p.file)

\* An image may have the one it was cropped from, audio and video come in several files.
FilesOf(entry, p) ==
  IF entry.type = "media" THEN MediaFiles(p)
  ELSE CheckFileElement(p.file) \o CheckFileElement(p.original)

RECURSIVE ScanEntry(_, _)
ScanAll(entries, kids) ==
  FlattenSeq([i \in DOMAIN entries |-> ScanEntry(Field(entries[i]), kids[i])])
ScanEntry(entry, p) ==
  IF p = Nothing THEN <<>>
  ELSE IF entry.type \in {"file", "media"} THEN FilesOf(entry, p)
  ELSE ScanAll(Entries(entry, p), p.kids)

\* The slots of the references to local files, in the order of the scan.
ScanForFiles(t) == ScanAll(Semantics[Main], t)

-----------------------------------------------------------------------------
(* SemanticsEnforcer *)

Allowed(entry, p) == p.library \in entry.options

RECURSIVE EnforceEntry(_, _, _)
EnforceAll(entries, kids, inList) ==
  [i \in DOMAIN entries |-> EnforceEntry(Field(entries[i]), kids[i], inList)]

\* What is wrong is deleted from its parent, or replaced there, by its name: that changes
\* nothing if the parent is a list.  What is deleted is not walked.
EnforceEntry(entry, p, inList) ==
  IF p = Nothing \/ entry.type \in {"file", "media"} THEN p
  ELSE IF entry.type = "text" THEN IF inList THEN p ELSE [p EXCEPT !.text = "conforming"]
  ELSE IF entry.type = "library" /\ ~Allowed(entry, p) THEN IF inList THEN p ELSE Nothing
  ELSE [p EXCEPT !.kids = EnforceAll(Entries(entry, p), @, entry.type = "list")]

EnforceSemanticStructure(t) == EnforceAll(Semantics[Main], t, FALSE)

-----------------------------------------------------------------------------
(* H5PEditor.findLibrariesInParameters *)

RECURSIVE LibrariesIn(_)
LibrariesIn(p) ==
  IF p = Nothing THEN {}
  ELSE ({p.library} \ {Nothing}) \cup UNION {LibrariesIn(kid) : kid \in ToSet(p.kids)}

FindLibrariesInParameters(t) == UNION {LibrariesIn(p) : p \in ToSet(t)}

-----------------------------------------------------------------------------
(* PackageExporter.shortenFilenames *)

\* Every reference to a file with a long name gets a new name of its own.
Shortened(slots) ==
  [s \in Slots |-> IF s \in ToSet(slots) /\ path[s].file \in LongFiles
                   THEN [path[s] EXCEPT !.new = SelectInSeq(slots, LAMBDA t : t = s)] ELSE path[s]]

\* The file itself is packed under the last of them.
Substitution(slots, f) ==
  LET uses == {n \in DOMAIN slots : path[slots[n]].file = f} IN
  [file |-> f, new |-> IF f \in LongFiles /\ uses # {} THEN Max(uses) ELSE 0]

-----------------------------------------------------------------------------
Init ==
  /\ stage = "edited"
  /\ tree \in Trees
  /\ path \in [Slots -> {Nothing} \cup [file : Files, new : {0}]]
  /\ named = {} /\ found = <<>> /\ packed = {}

\* The libraries are looked for in the parameters as they came from the editor; the files
\* in those that are stored.
Save ==
  /\ stage = "edited"
  /\ stage' = "stored"
  /\ named' = FindLibrariesInParameters(tree)
  /\ tree' = EnforceSemanticStructure(tree)
  /\ found' = ScanForFiles(tree')
  /\ UNCHANGED <<path, packed>>

\* The content has the files that its references were stored with.
CreatePackage ==
  LET slots == ScanForFiles(tree) IN
  /\ stage = "stored"
  /\ stage' = "exported"
  /\ path' = Shortened(slots)
  /\ packed' = {Substitution(slots, path[s].file) : s \in ToSet(found)}
  /\ UNCHANGED <<tree, named, found>>

Next == Save \/ CreatePackage

Spec == Init /\ [][Next]_vars

-----------------------------------------------------------------------------
(* Property *)

\* Reference: the slots in a tree whatever its semantics.
RECURSIVE SlotsIn(_)
SlotsIn(p) ==
  IF p = Nothing THEN {}
  ELSE ({p.file, p.original} \ {Nothing}) \cup UNION {SlotsIn(kid) : kid \in ToSet(p.kids)}

\* Reference: the elements that are used, with their entries, and whether a list holds
\* them; nothing is said of what is inside a library that is not allowed.
RECURSIVE Elements(_, _, _)
Elements(entry, p, inList) ==
  IF p = Nothing \/ entry.type \in {"file", "media"} THEN {}
  ELSE {<<entry, p, inList>>} \cup
       IF entry.type = "library" /\ ~Allowed(entry, p) THEN {}
       ELSE UNION {Elements(Field(Entries(entry, p)[i]), p.kids[i], entry.type = "list") :
                     i \in DOMAIN p.kids}

Follows(entry, p) ==
  /\ entry.type = "library" => Allowed(entry, p)
  /\ entry.type = "text" => p.text = "conforming"

\* What is stored follows the semantics wherever a list does not hold it directly, all the
\* files and libraries in it are known to the scans that copy its files and write its
\* h5p.json; and the references in a package find their files, unless a file with a
\* long name is referenced twice.
ParametersAreComplete ==
  /\ stage = "stored" =>
       /\ \A i \in DOMAIN tree :
            \A x \in Elements(Field(Semantics[Main][i]), tree[i], FALSE) :
              x[3] \/ Follows(x[1], x[2])
       /\ ToSet(found) = {s \in UNION {SlotsIn(p) : p \in ToSet(tree)} : path[s] # Nothing}
       /\ FindLibrariesInParameters(tree) \subseteq named
  /\ stage = "exported" =>
       \A s \in ToSet(found) :
         \/ path[s] \in packed
         \/ /\ path[s].file \in LongFiles
            /\ \E t \in ToSet(found) \ {s} : path[t].file = path[s].file

=============================================================================
