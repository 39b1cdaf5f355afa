-------------------------- MODULE MCLibraryInstall --------------------------
(***************************************************************************)
(* Instances of LibraryInstall for TLC.                                    *)
(***************************************************************************)
EXTENDS LibraryInstall, TLC

CONSTANTS l1, l2, f1, f2

OneLibrary   == {l1}
TwoLibraries == {l1, l2}
OneFile      == {f1}
TwoFiles     == {f1, f2}

Package(l, patch, needs, files) ==
  [lib |-> l, patch |-> patch, needs |-> needs, files |-> files]

\* Two patches of a library that need different files, and a broken one each.
Patches ==
  {Package(l1, 1, {f1}, {f1}), Package(l1, 2, {f1, f2}, {f1, f2}),
   Package(l1, 1, {f1}, {}),   Package(l1, 2, {f1, f2}, {f2})}

\* Two patches with the same files.
HealthyPatches == {Package(l1, 1, {f1}, {f1}), Package(l1, 2, {f1}, {f1})}

SmallPatches == HealthyPatches \cup {Package(l1, 2, {f1}, {})}

\* A library and its next minor version.
Versions == {Package(l1, 1, {f1}, {f1}), Package(l1, 2, {f1}, {f1}),
             Package(l2, 1, {f1}, {f1})}

\* The environments of the runs (see AllFreedoms).
NoFaults == {{}}
Patience == {{"queueTimeout"}}
Errors   == {{"ioerror"}}
Anything == {{"queueTimeout", "ioerror", "crash"}, AllFreedoms}

Symmetry == Permutations(Requests)

=============================================================================
