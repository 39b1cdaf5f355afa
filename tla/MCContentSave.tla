--------------------------- MODULE MCContentSave ---------------------------
(***************************************************************************)
(* Instances of ContentSave for TLC: sets of model values for the contents, *)
(* requests and file names, which are only compared for equality.          *)
(***************************************************************************)
EXTENDS ContentSave, TLC

\* The environments of the runs (see AllFreedoms).
OneByOne    == {{"parallel", "duplicate", "delete"}, {"parallel", "paste"},
                {"paste", "expiry", "ioerror", "delete", "refusal"},
                {"crash", "expiry", "duplicate"}}
Anything    == {AllFreedoms}
Overlapping == {{"parallel", "overlap"}}

\* Contents, requests and file names are interchangeable.
Symmetry == Permutations(Contents) \cup Permutations(Requests) \cup Permutations(Files)

=============================================================================
