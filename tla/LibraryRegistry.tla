-------------------------- MODULE LibraryRegistry --------------------------
(***************************************************************************)
(* What installing libraries promises: a table of the installed versions,  *)
(* changed in one step by every installation.                              *)
(*                                                                         *)
(* LibraryManager.installFromDirectory installs a library that is new,     *)
(* updates one to a newer patch, and removes one if the update fails.      *)
(***************************************************************************)
EXTENDS Naturals

CONSTANTS
  Libraries,  \* the major.minor versions of one machine name
  Packages,   \* the library directories that can be installed
  NoPackage   \* the library is not installed

VARIABLE installed  \* installed[l]: the package library l was installed from

TypeOK == installed \in [Libraries -> Packages \cup {NoPackage}]

\* A package brings all files its library.json lists.
Healthy(p) == p.needs \subseteq p.files

Init == installed = [l \in Libraries |-> NoPackage]

Install(p) ==
  /\ installed[p.lib] = NoPackage
  /\ Healthy(p)
  /\ installed' = [installed EXCEPT ![p.lib] = p]

Newer(p) ==
  /\ installed[p.lib] # NoPackage
  /\ installed[p.lib].patch < p.patch

Update(p) ==
  /\ Newer(p)
  /\ Healthy(p)
  /\ installed' = [installed EXCEPT ![p.lib] = p]

\* "REMOVES THE LIBRARY IF THERE IS AN ERROR!!!"
FailToUpdate(p) ==
  /\ Newer(p)
  /\ ~Healthy(p)
  /\ installed' = [installed EXCEPT ![p.lib] = NoPackage]

Next == \E p \in Packages : Install(p) \/ Update(p) \/ FailToUpdate(p)

Spec == Init /\ [][Next]_installed

=============================================================================
