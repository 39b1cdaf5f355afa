----------------------------- MODULE MCH5PServer -----------------------------
(* A content type, the library it loads and its editor widget, which loads it. *)
EXTENDS H5PServer, TLC

CONSTANTS main, part, widget, f1, f2, c1, r1, r2, q1, q2

MCPreloaded ==
  [l \in Libraries |-> CASE l = main -> {part} [] l = widget -> {main} [] OTHER -> {}]
MCEditor == [l \in Libraries |-> IF l = main THEN {widget} ELSE {}]
MCDynamic == [l \in Libraries |-> {}]

Complete == [libs |-> Libraries, main |-> main,
             needs |-> [preloaded |-> {main}, editor |-> {}, dynamic |-> {part}],
             files |-> {f1, f2}, refs |-> {f1}, valid |-> TRUE]
WithoutLibraries == [Complete EXCEPT !.libs = {main}, !.files = {f1}, !.refs = {f1, f2}]
MCPackages == {Complete, WithoutLibraries, [Complete EXCEPT !.valid = FALSE]}

MCEnvironments == {{}, {"ioerror", "undoFails"}, {"crash", "sameContent"}, {"deleteLibrary"}}
MCHubEnvironments == {{}, {"lateWrites", "crash"}, {"overlap", "ioerror", "crash", "lateWrites"}}

RequestSymmetry == Permutations(Requests)

=============================================================================
