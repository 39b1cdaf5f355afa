-------------------------- MODULE TemporaryStorage --------------------------
(***************************************************************************)
(* What temporary storage promises to the editor and to ContentSave: a     *)
(* stored file stays until it has expired or its owner deletes it.         *)
(***************************************************************************)
CONSTANT Files

VARIABLES
  stored,   \* the files in temporary storage
  gone,     \* the files that were in temporary storage
  expired,  \* the files whose lifetime is over
  deleted   \* the files their owners asked to delete

vars == <<stored, gone, expired, deleted>>

Init == stored = {} /\ gone = {} /\ expired = {} /\ deleted = {}

Store(f) ==
  /\ f \notin stored \cup gone
  /\ stored' = stored \cup {f}
  /\ UNCHANGED <<gone, expired, deleted>>

Remove(f) ==
  /\ f \in stored \cap (expired \cup deleted)
  /\ stored' = stored \ {f}
  /\ gone' = gone \cup {f}
  /\ UNCHANGED <<expired, deleted>>

Expire(f) == expired' = expired \cup {f} /\ UNCHANGED <<stored, gone, deleted>>

Delete(f) == deleted' = deleted \cup {f} /\ UNCHANGED <<stored, gone, expired>>

Next == \E f \in Files : Store(f) \/ Remove(f) \/ Expire(f) \/ Delete(f)

Spec == Init /\ [][Next]_vars

=============================================================================
