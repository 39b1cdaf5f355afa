------------------------- MODULE MCContentUserData -------------------------
(***************************************************************************)
(* ContentUserData for TLC: two users, the second of which may act for the *)
(* first, and entries that differ in user, slot and flags.                 *)
(***************************************************************************)
EXTENDS ContentUserData, TLC

Entry(user, slot, invalidate, preload) ==
  [user |-> user, slot |-> slot, invalidate |-> invalidate, preload |-> preload]

MCEntries ==
  {Entry("u1", "s1", TRUE, TRUE), Entry("u1", "s1", FALSE, FALSE), Entry("u1", "s2", FALSE, TRUE),
   Entry("u2", "s1", TRUE, FALSE), Entry("u1", "result", FALSE, FALSE)}
MCContexts == {{"s1"}, {"s2"}}
MCRights == {<<"u1", "u1">>, <<"u2", "u2">>, <<"u2", "u1">>}

MCEnvironments ==
  {{"readers"}, {"readers", "ioerror", "crash"}, {"overlap", "ioerror", "crash"}}

Symmetry == Permutations(Contents) \cup Permutations(Requests)

=============================================================================
