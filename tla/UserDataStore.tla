--------------------------- MODULE UserDataStore ---------------------------
(***************************************************************************)
(* What the storage of user data promises: a table of entries per file,    *)
(* one entry for a user and a slot, that every request changes in one step *)
(* and sees as it is.  It promises less if things go wrong:                *)
(*   ioerror, crash  all entries of a file may be lost, never single ones  *)
(*   readers         a request that reads may see an empty file            *)
(*   overlap         nothing                                               *)
(***************************************************************************)
CONSTANTS Requests, Users, Entries, NoAnswer

VARIABLES
  store,   \* store[f]: the entries of file f
  answer,  \* answer[r]: what request r has read
  env      \* what goes wrong

vars == <<store, answer, env>>

Init ==
  /\ \A f \in DOMAIN store : store[f] = {}
  /\ answer = [r \in Requests |-> NoAnswer]

OfUser(f, u) == {e \in store[f] : e.user = u}

Put(f, e) ==
  /\ store' = [store EXCEPT ![f] =
       {x \in @ : x.user # e.user \/ x.slot # e.slot} \cup {e}]
  /\ UNCHANGED answer

\* The entries of one user, all entries, or those a change of the content makes
\* worthless.
Delete(f) ==
  /\ \E gone \in {store[f]} \cup {OfUser(f, u) : u \in Users}
                   \cup {{e \in store[f] : e.invalidate}} :
       store' = [store EXCEPT ![f] = @ \ gone]
  /\ UNCHANGED answer

Lose ==
  /\ env \cap {"ioerror", "crash"} # {}
  /\ \A f \in DOMAIN store : store'[f] \in {store[f], {}}
  /\ DOMAIN store' = DOMAIN store
  /\ \A r \in Requests : answer'[r] \in {answer[r], NoAnswer}
  /\ DOMAIN answer' = Requests

\* One file is read for some slots of a user; a list of all files is read one
\* file after the other.
Read(r, f) ==
  /\ \E u \in Users : \E slots \in SUBSET {e.slot : e \in Entries}, preload \in BOOLEAN :
       LET seen == {e \in OfUser(f, u) : e.slot \in slots /\ (preload => e.preload)}
           before == IF answer[r] = NoAnswer THEN {} ELSE answer[r]
       IN answer' = [answer EXCEPT ![r] = before \cup seen]
  /\ UNCHANGED store

SeeNothing(r) ==
  /\ "readers" \in env
  /\ answer' = [answer EXCEPT ![r] = IF @ = NoAnswer THEN {} ELSE @]
  /\ UNCHANGED store

Begin(r) == answer' = [answer EXCEPT ![r] = NoAnswer] /\ UNCHANGED store

\* A step that is no stutter.
Next ==
  /\ UNCHANGED env
  /\ <<store, answer>>' # <<store, answer>>
  /\ \/ "overlap" \in env
     \/ \E f \in DOMAIN store : Delete(f) \/ \E e \in Entries : Put(f, e)
     \/ \E r \in Requests : Begin(r) \/ SeeNothing(r) \/ \E f \in DOMAIN store : Read(r, f)
     \/ Lose

Spec == Init /\ [][Next]_vars

=============================================================================
