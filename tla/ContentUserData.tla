-------------------------- MODULE ContentUserData --------------------------
(***************************************************************************)
(* The states that users leave in contents and the results they reach:     *)
(* ContentUserDataManager on top of FileContentUserDataStorage, which keeps *)
(* one JSON file of states and one of results per content.  Every request  *)
(* reads a file, changes the list and writes the whole file again.         *)
(***************************************************************************)
EXTENDS Naturals, FiniteSets

CONSTANTS
  Contents,
  Users,
  Slots,         \* the tuples <data type, sub-content, context> of states
  Contexts,      \* sets of slots with the same context
  Entries,       \* the entries a client may send
  Rights,        \* pairs <acting user, user> the permission system accepts
  Requests,      \* requests that can be in flight
  NoAnswer,      \* a request has read nothing
  Environments,  \* what may go wrong, see AllFreedoms
  MaxRequests    \* bound on the number of requests of a behaviour

\* overlap  requests for one file may overlap
\* readers  requests that only read may overlap with others
\* ioerror  writes may fail
\* crash    the process may crash and restart
AllFreedoms == {"overlap", "readers", "ioerror", "crash"}

ASSUME ContentUserDataAssumption ==
  /\ Contents # {} /\ Users # {} /\ Entries # {}
  /\ Contexts \subseteq SUBSET Slots
  /\ \A e \in Entries :
       e.user \in Users /\ e.slot \in Slots /\ e.invalidate \in BOOLEAN /\ e.preload \in BOOLEAN
  /\ Rights \subseteq Users \X Users
  /\ Environments \subseteq SUBSET AllFreedoms
  /\ MaxRequests \in Nat

VARIABLES
  disk,       \* disk[f]: the text of file f and the list it holds
  job,        \* job[r]: the local state of request r
  answer,     \* answer[r]: what request r has read
  submitted,  \* the pairs <file, entry> that permitted requests have sent
  begun,      \* number of requests so far
  env         \* what goes wrong in this behaviour, chosen once

vars == <<disk, job, answer, submitted, begun, env>>

Kinds == {"state", "finished"}
FilesOn(kind) == {kind} \X Contents
DataFiles == Kinds \X Contents

\* "empty" is truncated, "mixed" the remains of two writes; neither parses.
File == [text : {"absent", "empty", "json", "mixed"}, data : SUBSET Entries]

Writes  == {"put", "deleteInvalidated", "deleteByUser"}
Deletes == {"deleteContent"}
Reads   == {"get", "list"}

Job == [pc : {"idle", "next", "open", "write"}, op : Writes \cup Deletes \cup Reads,
        user : Users,              \* whose entries the storage looks for
        forUser : Users,           \* the user the deletion is for
        entry : Entries, slots : SUBSET Slots, preload : BOOLEAN,
        files : SUBSET DataFiles,  \* all files the request is about
        todo : SUBSET DataFiles,   \* those not processed yet, the current one included
        at : DataFiles,            \* the current file
        old : SUBSET Entries]      \* the list that was read from it

IdleJob == [pc |-> "idle", op |-> "get", user |-> CHOOSE u \in Users : TRUE,
            forUser |-> CHOOSE u \in Users : TRUE, entry |-> CHOOSE e \in Entries : TRUE,
            slots |-> {}, preload |-> FALSE, files |-> {}, todo |-> {},
            at |-> CHOOSE f \in DataFiles : TRUE, old |-> {}]

TypeOK ==
  /\ disk \in [DataFiles -> File]
  /\ job \in [Requests -> Job]
  /\ answer \in [Requests -> (SUBSET Entries) \cup {NoAnswer}]
  /\ submitted \subseteq DataFiles \X Entries
  /\ begun \in 0..MaxRequests

Init ==
  /\ disk = [f \in DataFiles |-> [text |-> "absent", data |-> {}]]
  /\ job = [r \in Requests |-> IdleJob]
  /\ answer = [r \in Requests |-> NoAnswer]
  /\ submitted = {}
  /\ begun = 0
  /\ env \in Environments

-----------------------------------------------------------------------------
(* Requests *)

Active(r) == job[r].pc # "idle"

Compatible(q, op, files) ==
  \/ "overlap" \in env
  \/ "readers" \in env /\ (op \in Reads \/ job[q].op \in Reads)
  \/ job[q].files \cap files = {}

\* A request that is refused changes nothing.
Begin(r, new) ==
  /\ \A q \in Requests : Active(q) => Compatible(q, new.op, new.files)
  /\ begun' = begun + 1
  /\ job' = [job EXCEPT ![r] = [new EXCEPT !.pc = "next", !.todo = new.files]]
  /\ answer' = [answer EXCEPT ![r] = NoAnswer]
  /\ UNCHANGED disk

\* The results of a user have no slot: setFinished overwrites the last one.
EntriesOf(kind) == {e \in Entries : (kind = "finished") = (e.slot \notin UNION Contexts)}

Put(r, kind, by, c, e) ==
  /\ <<by, e.user>> \in Rights
  /\ e \in EntriesOf(kind)
  /\ Begin(r, [IdleJob EXCEPT !.op = "put", !.user = e.user, !.entry = e,
                              !.files = {<<kind, c>>}])
  /\ submitted' = submitted \cup {<<<<kind, c>>, e>>}

CreateOrUpdateContentUserData(r, by, c, e) == Put(r, "state", by, c, e)
SetFinished(r, by, c, e) == e.user = by /\ Put(r, "finished", by, c, e)

\* saveOrUpdateContent calls it before it stores a new version of the content.
DeleteInvalidated(r, c) ==
  /\ Begin(r, [IdleJob EXCEPT !.op = "deleteInvalidated", !.files = {<<"state", c>>}])
  /\ UNCHANGED submitted

Listed(kind) == {f \in FilesOn(kind) : disk[f].text # "absent"}

DeleteFrom(r, files, user, forUser) ==
  /\ Begin(r, [IdleJob EXCEPT !.op = "deleteByUser", !.user = user, !.forUser = forUser,
                              !.files = files])
  /\ UNCHANGED submitted

\* The states that go are those of the acting user, whichever user the call
\* names: ContentUserDataManager.ts:67 passes the acting user to the storage.
DeleteAllContentUserDataByUser(r, by, forUser) ==
  <<by, forUser>> \in Rights /\ DeleteFrom(r, Listed("state"), by, forUser)

DeleteFinishedDataByUser(r, user) == DeleteFrom(r, Listed("finished"), user, user)

Remove(r, files) ==
  /\ Begin(r, [IdleJob EXCEPT !.op = "deleteContent", !.files = files])
  /\ UNCHANGED submitted

DeleteAllContentUserDataByContentId(r, c) == Remove(r, {<<"state", c>>})
DeleteFinishedDataByContentId(r, c) == Remove(r, {<<"finished", c>>})

\* ContentManager deletes both files, one after the other.
DeleteContent(r, c) == Remove(r, Kinds \X {c})

Ask(r, user, slots, preload, op, files) ==
  /\ Begin(r, [IdleJob EXCEPT !.op = op, !.user = user, !.slots = slots,
                              !.preload = preload, !.files = files])
  /\ UNCHANGED submitted

GetContentUserData(r, by, user, c, slot) ==
  <<by, user>> \in Rights /\ Ask(r, user, {slot}, FALSE, "get", {<<"state", c>>})

\* The states of a context that are loaded with the content, in no order.
GenerateContentUserDataIntegration(r, by, user, c, slots) ==
  <<by, user>> \in Rights /\ Ask(r, user, slots, TRUE, "get", {<<"state", c>>})

GetContentUserDataByUser(r, user) == Ask(r, user, Slots, FALSE, "list", Listed("state"))
GetFinishedDataByUser(r, user)    == Ask(r, user, Slots, FALSE, "list", Listed("finished"))

-----------------------------------------------------------------------------
(* The storage *)

NextOf(j) == [j EXCEPT !.pc = "next", !.todo = @ \ {j.at}]

\* Mutant: the list keeps entries of other users only.
ResultOfOthers(j) ==
  IF j.op = "put" THEN {e \in j.old : e.user # j.entry.user} \cup {j.entry}
  ELSE {e \in j.old : IF j.op = "deleteByUser" THEN e.user # j.user ELSE ~e.invalidate}

\* What a request makes of a list it has read.
Result(j) ==
  IF j.op = "put"
  THEN {e \in j.old : e.user # j.entry.user \/ e.slot # j.entry.slot} \cup {j.entry}
  ELSE {e \in j.old : IF j.op = "deleteByUser" THEN e.user # j.user ELSE ~e.invalidate}

\* Mutant: the loop ends with the first file that cannot be read.
ReadToWriteOnce(r, f) ==
  /\ job[r].pc = "next" /\ f \in job[r].todo /\ job[r].op \in Writes
  /\ LET j == [job[r] EXCEPT !.at = f]
         readable == disk[f].text = "json"
     IN job' = [job EXCEPT ![r] =
          IF ~readable /\ j.op = "deleteByUser" THEN [j EXCEPT !.todo = {}]
          ELSE [j EXCEPT !.pc = "open", !.old = IF readable THEN disk[f].data ELSE {}]]
  /\ UNCHANGED <<disk, answer, submitted, begun>>

\* A file that does not parse counts as an empty list; only deleteByUser leaves
\* it alone.
ReadToWrite(r, f) ==
  /\ job[r].pc = "next" /\ f \in job[r].todo /\ job[r].op \in Writes
  /\ LET j == [job[r] EXCEPT !.at = f]
         readable == disk[f].text = "json"
     IN job' = [job EXCEPT ![r] =
          IF ~readable /\ j.op = "deleteByUser" THEN NextOf(j)
          ELSE [j EXCEPT !.pc = "open", !.old = IF readable THEN disk[f].data ELSE {}]]
  /\ UNCHANGED <<disk, answer, submitted, begun>>

\* writeFile truncates the file ...
OpenFile(r) ==
  /\ job[r].pc = "open"
  /\ disk' = [disk EXCEPT ![job[r].at] = [text |-> "empty", data |-> {}]]
  /\ job' = [job EXCEPT ![r].pc = "write"]
  /\ UNCHANGED <<answer, submitted, begun>>

\* ... and writes it.  What another request has written since may be longer; a
\* file that was removed since stays so.
WriteFile(r) ==
  LET f == job[r].at
      json  == [text |-> "json", data |-> Result(job[r])]
      mixed == [text |-> "mixed", data |-> {}]
  IN
  /\ job[r].pc = "write"
  /\ IF disk[f].text = "absent" THEN UNCHANGED disk
     ELSE \E new \in {json, mixed} :
            /\ new = mixed => disk[f].text # "empty"
            /\ disk' = [disk EXCEPT ![f] = new]
  /\ job' = [job EXCEPT ![r] = NextOf(@)]
  /\ UNCHANGED <<answer, submitted, begun>>

\* Failed writes are only logged.
FailToWrite(r) ==
  /\ "ioerror" \in env
  /\ job[r].pc \in {"open", "write"}
  /\ job' = [job EXCEPT ![r] = NextOf(@)]
  /\ UNCHANGED <<disk, answer, submitted, begun>>

RemoveFile(r, f) ==
  /\ job[r].pc = "next" /\ f \in job[r].todo /\ job[r].op \in Deletes
  /\ f[1] = "state" \/ <<"state", f[2]>> \notin job[r].todo
  /\ disk' = [disk EXCEPT ![f] = [text |-> "absent", data |-> {}]]
  /\ job' = [job EXCEPT ![r].todo = @ \ {f}]
  /\ UNCHANGED <<answer, submitted, begun>>

FailToRemove(r, f) ==
  /\ "ioerror" \in env
  /\ job[r].pc = "next" /\ f \in job[r].todo /\ job[r].op \in Deletes
  /\ job' = [job EXCEPT ![r].todo = @ \ {f}]
  /\ UNCHANGED <<disk, answer, submitted, begun>>

MatchesSlot(j, e) == e.slot \in j.slots /\ (j.preload => e.preload)  \* mutant
Matches(j, e) == e.user = j.user /\ e.slot \in j.slots /\ (j.preload => e.preload)

\* Mutant: a file that does not parse adds a null to the list.
ReadToAnswerNull(r, f) ==
  /\ job[r].pc = "next" /\ f \in job[r].todo /\ job[r].op \in Reads
  /\ LET before == IF answer[r] = NoAnswer THEN {} ELSE answer[r]
         list == IF disk[f].text = "json" THEN {e \in disk[f].data : Matches(job[r], e)}
                 ELSE {NoAnswer}
     IN answer' = [answer EXCEPT ![r] = before \cup list]
  /\ job' = [job EXCEPT ![r].todo = @ \ {f}]
  /\ UNCHANGED <<disk, submitted, begun>>

\* A file that does not parse counts as an empty list.
ReadToAnswer(r, f) ==
  /\ job[r].pc = "next" /\ f \in job[r].todo /\ job[r].op \in Reads
  /\ LET before == IF answer[r] = NoAnswer THEN {} ELSE answer[r]
         list == IF disk[f].text = "json" THEN disk[f].data ELSE {}
     IN answer' = [answer EXCEPT ![r] = before \cup {e \in list : Matches(job[r], e)}]
  /\ job' = [job EXCEPT ![r].todo = @ \ {f}]
  /\ UNCHANGED <<disk, submitted, begun>>

Return(r) ==
  /\ job[r].pc = "next" /\ job[r].todo = {}
  /\ job' = [job EXCEPT ![r] = IdleJob]
  /\ UNCHANGED <<disk, answer, submitted, begun>>

Crash ==
  /\ "crash" \in env
  /\ job' = [r \in Requests |-> IdleJob]
  /\ answer' = [r \in Requests |-> NoAnswer]
  /\ UNCHANGED <<disk, submitted, begun>>

-----------------------------------------------------------------------------
Start(r) ==
  /\ ~Active(r)
  /\ begun < MaxRequests
  /\ \/ \E by \in Users, c \in Contents :
          \/ \E e \in Entries :
               CreateOrUpdateContentUserData(r, by, c, e) \/ SetFinished(r, by, c, e)
          \/ \E user \in Users :
               \/ \E slot \in Slots : GetContentUserData(r, by, user, c, slot)
               \/ \E slots \in Contexts : GenerateContentUserDataIntegration(r, by, user, c, slots)
     \/ \E by, user \in Users : DeleteAllContentUserDataByUser(r, by, user)
     \/ \E user \in Users :
          \/ DeleteFinishedDataByUser(r, user)
          \/ GetContentUserDataByUser(r, user) \/ GetFinishedDataByUser(r, user)
     \/ \E c \in Contents :
          \/ DeleteInvalidated(r, c) \/ DeleteContent(r, c)
          \/ DeleteAllContentUserDataByContentId(r, c) \/ DeleteFinishedDataByContentId(r, c)

Step(r) ==
  \/ \E f \in DataFiles :
       ReadToWrite(r, f) \/ RemoveFile(r, f) \/ FailToRemove(r, f) \/ ReadToAnswer(r, f)
  \/ OpenFile(r) \/ WriteFile(r) \/ FailToWrite(r) \/ Return(r)

Next ==
  /\ UNCHANGED env
  /\ \/ \E r \in Requests : Start(r) \/ Step(r)
     \/ Crash

Spec == Init /\ [][Next]_vars

-----------------------------------------------------------------------------
(* Properties *)

\* A file that is being written still holds what the request has read from it.
StoredIn(f) ==
  LET writers == {r \in Requests : job[r].pc = "write" /\ job[r].at = f} IN
  IF disk[f].text = "empty" /\ writers # {}
  THEN job[CHOOSE r \in writers : TRUE].old
  ELSE disk[f].data

Store == INSTANCE UserDataStore WITH store <- [f \in DataFiles |-> StoredIn(f)]

\* As long as requests for one file do not overlap, each changes the list of
\* entries in one step, keeps the entries of other users and slots, and reads
\* what is there (FileContentUserDataStorage.ts: read, filter, push, write).
ImplementsUserDataStore == Store!Spec

\* Whatever overlaps or fails, an answer and a file that parses hold only entries
\* that a permitted request has sent for that user and content.
OnlySubmitted ==
  /\ \A f \in DataFiles : \A e \in disk[f].data : <<f, e>> \in submitted
  /\ \A r \in Requests : answer[r] # NoAnswer /\ Active(r) =>
       \A e \in answer[r] : e.user = job[r].user /\ \E f \in DataFiles : <<f, e>> \in submitted

\* A deletion for a user ("for implementing GDPR rights") is done with a file it
\* listed only when it holds no entry of that user or does not parse, whatever
\* happened to the files before and whatever other requests do to them, unless
\* the write to this file failed.  This is said of users who delete their own
\* data only: deleteAllContentUserDataByUser promises to delete the states of
\* forUserId (ContentUserDataManager.ts:33-37), but if another user with the right
\* to do so calls it, the states of this acting user go (line 67).
UserIsForgotten ==
  [][\A r \in Requests :
       /\ job[r].op = "deleteByUser" /\ job'[r].op = "deleteByUser"
       /\ job[r].forUser = job[r].user
       /\ ~FailToWrite(r)
       => \A f \in job[r].todo \ job'[r].todo : \A e \in disk'[f].data :
            e.user # job[r].forUser]_vars

=============================================================================
