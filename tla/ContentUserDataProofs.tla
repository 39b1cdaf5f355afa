----------------------- MODULE ContentUserDataProofs -----------------------
(***************************************************************************)
(* Machine-checked facts about ContentUserData, for every number of users, *)
(* contents, slots, entries and requests and for every environment.        *)
(***************************************************************************)
EXTENDS ContentUserData, TLAPS

-----------------------------------------------------------------------------
(* The inductive invariant *)

\* What a request still has to do is part of what it is about, and it writes a
\* file with entries only that were sent for this file.
Jobs ==
  \A r \in Requests :
    /\ ~Active(r) => job[r] = IdleJob
    /\ job[r].todo \subseteq job[r].files
    /\ job[r].pc \in {"open", "write"} =>
         /\ job[r].op \in Writes
         /\ job[r].at \in job[r].todo
         /\ \A e \in job[r].old : <<job[r].at, e>> \in submitted
    /\ job[r].op = "put" => \A f \in job[r].todo : <<f, job[r].entry>> \in submitted

\* A file that does not parse holds nothing.
Unparsed == \A f \in DataFiles : disk[f].text # "json" => disk[f].data = {}

\* Without overlap only reading requests meet another request in a file.
Apart ==
  "overlap" \notin env => \A q, r \in Requests : q # r /\ Active(q) /\ Active(r) =>
    \/ job[q].files \cap job[r].files = {}
    \/ "readers" \in env /\ (job[q].op \in Reads \/ job[r].op \in Reads)

\* Then the file is as the request has read it until it is truncated, and stays
\* empty until it is written.
Unchanged ==
  "overlap" \notin env => \A r \in Requests :
    /\ job[r].pc = "open" => disk[job[r].at].data = job[r].old
    /\ job[r].pc = "write" => disk[job[r].at].text = "empty"

UserDataInv ==
  /\ TypeOK /\ env \in Environments
  /\ Jobs /\ Unparsed /\ OnlySubmitted /\ Apart /\ Unchanged

-----------------------------------------------------------------------------
(* Jobs *)

\* There is a job for a request that has not begun.
LEMMA IdleTyped ==
  /\ IdleJob \in Job
  /\ IdleJob.pc = "idle" /\ IdleJob.op = "get" /\ IdleJob.files = {} /\ IdleJob.todo = {}
<1>1. (CHOOSE u \in Users : TRUE) \in Users
  BY ContentUserDataAssumption
<1>2. (CHOOSE e \in Entries : TRUE) \in Entries
  BY ContentUserDataAssumption
<1>3. (CHOOSE f \in DataFiles : TRUE) \in DataFiles
  <2>1. PICK c \in Contents : TRUE
    BY ContentUserDataAssumption
  <2>2. <<"state", c>> \in DataFiles
    BY DEF DataFiles, Kinds
  <2> QED BY <2>2
<1> QED BY <1>1, <1>2, <1>3 DEF IdleJob, Job, Reads

\* A request goes on to its next file.
LEMMA NextOfKeeps ==
  ASSUME NEW j \in Job
  PROVE  /\ NextOf(j) \in Job
         /\ NextOf(j).pc = "next" /\ NextOf(j).todo = j.todo \ {j.at}
         /\ NextOf(j).op = j.op /\ NextOf(j).user = j.user /\ NextOf(j).entry = j.entry
         /\ NextOf(j).files = j.files /\ NextOf(j).slots = j.slots
BY DEF NextOf, Job

\* What is written is made of what was read and what the request brings.
LEMMA ResultTyped ==
  ASSUME NEW j \in Job
  PROVE  /\ Result(j) \subseteq Entries
         /\ \A e \in Result(j) : e \in j.old \/ (j.op = "put" /\ e = j.entry)
BY DEF Result, Job

-----------------------------------------------------------------------------
(* Every step preserves the invariant *)

LEMMA InitInv == Init => UserDataInv
<1> SUFFICES ASSUME Init PROVE UserDataInv
  OBVIOUS
<1>1. TypeOK
  <2>1. [text |-> "absent", data |-> {}] \in File
    BY DEF File
  <2> QED BY <2>1, IdleTyped, ContentUserDataAssumption DEF Init, TypeOK
<1>2. Jobs
  BY IdleTyped DEF Init, Jobs
<1>3. Unparsed /\ OnlySubmitted
  BY DEF Init, Unparsed, OnlySubmitted
<1>4. Apart /\ Unchanged
  BY IdleTyped DEF Init, Apart, Unchanged, Active
<1> QED BY <1>1, <1>2, <1>3, <1>4 DEF UserDataInv, Init

\* A request begins where the others leave it room, without an answer.
LEMMA BeginStep ==
  ASSUME UserDataInv, UNCHANGED env, NEW r \in Requests, ~Active(r), begun < MaxRequests,
         NEW new \in Job, Begin(r, new),
         submitted \subseteq submitted', submitted' \subseteq DataFiles \X Entries,
         new.op = "put" => \A f \in new.files : <<f, new.entry>> \in submitted'
  PROVE  UserDataInv'
<1> USE DEF UserDataInv
<1> DEFINE j == [new EXCEPT !.pc = "next", !.todo = new.files]
<1>1. /\ j \in Job /\ j.pc = "next" /\ j.todo = new.files
      /\ j.files = new.files /\ j.op = new.op /\ j.entry = new.entry
  BY DEF Job
<1>2. /\ job' \in [Requests -> Job] /\ job'[r] = j
      /\ \A q \in Requests \ {r} : job'[q] = job[q]
  BY <1>1 DEF Begin, TypeOK
<1>3. /\ answer' \in [Requests -> (SUBSET Entries) \cup {NoAnswer}] /\ answer'[r] = NoAnswer
      /\ \A q \in Requests \ {r} : answer'[q] = answer[q]
  BY DEF Begin, TypeOK
<1>4. UNCHANGED <<disk, env>>
  BY DEF Begin
<1> HIDE DEF j
<1>5. TypeOK'
  BY <1>2, <1>3, <1>4, ContentUserDataAssumption DEF TypeOK, Begin
<1>6. Jobs'
  BY <1>1, <1>2 DEF Jobs, Active
<1>7. Unparsed'
  BY <1>4 DEF Unparsed
<1>8. OnlySubmitted'
  BY <1>2, <1>3, <1>4 DEF OnlySubmitted, Active
<1>9. Apart'
  <2>1. "overlap" \notin env => \A q \in Requests \ {r} : Active(q) =>
          \/ job[q].files \cap j.files = {}
          \/ "readers" \in env /\ (job[q].op \in Reads \/ j.op \in Reads)
    BY <1>1 DEF Begin, Compatible
  <2> QED BY <1>2, <1>4, <2>1 DEF Apart, Active
<1>10. Unchanged'
  BY <1>1, <1>2, <1>4 DEF Unchanged
<1> QED BY <1>4, <1>5, <1>6, <1>7, <1>8, <1>9, <1>10

\* A request that sends an entry.
LEMMA PutStep ==
  ASSUME UserDataInv, UNCHANGED env, NEW r \in Requests, ~Active(r), begun < MaxRequests,
         NEW kind \in Kinds, NEW by \in Users, NEW c \in Contents, NEW e \in Entries,
         Put(r, kind, by, c, e)
  PROVE  UserDataInv'
<1> DEFINE f == <<kind, c>>
           new == [IdleJob EXCEPT !.op = "put", !.user = e.user, !.entry = e, !.files = {f}]
<1>1. f \in DataFiles
  BY DEF DataFiles
<1>2. new \in Job /\ new.op = "put" /\ new.entry = e /\ new.files = {f}
  BY <1>1, IdleTyped, ContentUserDataAssumption DEF Job, Writes
<1>3. Begin(r, new) /\ submitted' = submitted \cup {<<f, e>>}
  BY DEF Put
<1>4. submitted \subseteq DataFiles \X Entries
  BY DEF UserDataInv, TypeOK
<1> HIDE DEF new, f
<1> QED BY <1>1, <1>2, <1>3, <1>4, BeginStep

\* A request that removes entries or files.
LEMMA DeleteStep ==
  ASSUME UserDataInv, UNCHANGED <<env, submitted>>,
         NEW r \in Requests, ~Active(r), begun < MaxRequests,
         NEW op \in {"deleteInvalidated", "deleteByUser", "deleteContent"}, NEW user \in Users,
         NEW forUser \in Users, NEW files \in SUBSET DataFiles,
         \/ Begin(r, [IdleJob EXCEPT !.op = op, !.files = files])
         \/ Begin(r, [IdleJob EXCEPT !.op = op, !.user = user, !.forUser = forUser,
                                     !.files = files])
  PROVE  UserDataInv'
<1> DEFINE new1 == [IdleJob EXCEPT !.op = op, !.files = files]
           new2 == [IdleJob EXCEPT !.op = op, !.user = user, !.forUser = forUser, !.files = files]
<1>1. new1 \in Job /\ new1.op # "put"
  BY IdleTyped DEF Job, Writes, Deletes
<1>2. new2 \in Job /\ new2.op # "put"
  BY IdleTyped DEF Job, Writes, Deletes
<1>3. submitted \subseteq submitted' /\ submitted' \subseteq DataFiles \X Entries
  BY DEF UserDataInv, TypeOK
<1>4. Begin(r, new1) \/ Begin(r, new2)
  OBVIOUS
<1> HIDE DEF new1, new2
<1> QED BY <1>1, <1>2, <1>3, <1>4, BeginStep

\* A request that reads.
LEMMA AskStep ==
  ASSUME UserDataInv, UNCHANGED env, NEW r \in Requests, ~Active(r), begun < MaxRequests,
         NEW user \in Users, NEW slots \in SUBSET Slots, NEW preload \in BOOLEAN,
         NEW op \in Reads, NEW files \in SUBSET DataFiles,
         Ask(r, user, slots, preload, op, files)
  PROVE  UserDataInv'
<1> DEFINE new == [IdleJob EXCEPT !.op = op, !.user = user, !.slots = slots,
                                  !.preload = preload, !.files = files]
<1>1. new \in Job /\ new.op # "put"
  BY IdleTyped DEF Job, Reads
<1>2. Begin(r, new) /\ UNCHANGED submitted
  BY DEF Ask
<1>3. submitted \subseteq submitted' /\ submitted' \subseteq DataFiles \X Entries
  BY <1>2 DEF UserDataInv, TypeOK
<1> HIDE DEF new
<1> QED BY <1>1, <1>2, <1>3, BeginStep

\* Whatever a client calls.
LEMMA StartStep ==
  ASSUME UserDataInv, UNCHANGED env, NEW r \in Requests, Start(r)
  PROVE  UserDataInv'
<1>1. ~Active(r) /\ begun < MaxRequests
  BY DEF Start
<1>2. \A c \in Contents : /\ {<<"state", c>>} \in SUBSET DataFiles
                          /\ {<<"finished", c>>} \in SUBSET DataFiles
                          /\ Kinds \X {c} \in SUBSET DataFiles
  BY DEF DataFiles, Kinds
<1>3. Listed("state") \in SUBSET DataFiles /\ Listed("finished") \in SUBSET DataFiles
  BY DEF Listed, FilesOn, DataFiles, Kinds
<1>4. ASSUME NEW by \in Users, NEW c \in Contents, NEW e \in Entries,
             CreateOrUpdateContentUserData(r, by, c, e) \/ SetFinished(r, by, c, e)
      PROVE  UserDataInv'
  BY <1>1, <1>4, PutStep DEF CreateOrUpdateContentUserData, SetFinished, Kinds
<1>5. ASSUME NEW by \in Users, NEW c \in Contents, NEW user \in Users, NEW slot \in Slots,
             GetContentUserData(r, by, user, c, slot)
      PROVE  UserDataInv'
  <2>1. Ask(r, user, {slot}, FALSE, "get", {<<"state", c>>})
    BY <1>5 DEF GetContentUserData
  <2> QED BY <1>1, <1>2, <2>1, AskStep DEF Reads
<1>6. ASSUME NEW by \in Users, NEW c \in Contents, NEW user \in Users, NEW slots \in Contexts,
             GenerateContentUserDataIntegration(r, by, user, c, slots)
      PROVE  UserDataInv'
  <2>1. Ask(r, user, slots, TRUE, "get", {<<"state", c>>})
    BY <1>6 DEF GenerateContentUserDataIntegration
  <2>2. slots \in SUBSET Slots
    BY ContentUserDataAssumption
  <2> QED BY <1>1, <1>2, <2>1, <2>2, AskStep DEF Reads
<1>7. ASSUME NEW user \in Users, GetContentUserDataByUser(r, user) \/ GetFinishedDataByUser(r, user)
      PROVE  UserDataInv'
  <2>1. Ask(r, user, Slots, FALSE, "list", Listed("state"))
          \/ Ask(r, user, Slots, FALSE, "list", Listed("finished"))
    BY <1>7 DEF GetContentUserDataByUser, GetFinishedDataByUser
  <2> QED BY <1>1, <1>3, <2>1, AskStep DEF Reads
<1>8. ASSUME NEW by \in Users, NEW user \in Users, DeleteAllContentUserDataByUser(r, by, user)
      PROVE  UserDataInv'
  <2>1. Begin(r, [IdleJob EXCEPT !.op = "deleteByUser", !.user = by, !.forUser = user,
                               !.files = Listed("state")])
          /\ UNCHANGED submitted
    BY <1>8 DEF DeleteAllContentUserDataByUser, DeleteFrom
  <2> QED BY <1>1, <1>3, <2>1, DeleteStep
<1>9. ASSUME NEW user \in Users, DeleteFinishedDataByUser(r, user)
      PROVE  UserDataInv'
  <2>1. Begin(r, [IdleJob EXCEPT !.op = "deleteByUser", !.user = user, !.forUser = user,
                               !.files = Listed("finished")])
          /\ UNCHANGED submitted
    BY <1>9 DEF DeleteFinishedDataByUser, DeleteFrom
  <2> QED BY <1>1, <1>3, <2>1, DeleteStep
<1>10. ASSUME NEW c \in Contents, DeleteInvalidated(r, c)
       PROVE  UserDataInv'
  <2>1. Begin(r, [IdleJob EXCEPT !.op = "deleteInvalidated", !.files = {<<"state", c>>}])
          /\ UNCHANGED submitted
    BY <1>10 DEF DeleteInvalidated
  <2>2. PICK user \in Users : TRUE
    BY ContentUserDataAssumption
  <2> QED BY <1>1, <1>2, <2>1, <2>2, DeleteStep
<1>11. ASSUME NEW files \in SUBSET DataFiles, Remove(r, files)
       PROVE  UserDataInv'
  <2>1. Begin(r, [IdleJob EXCEPT !.op = "deleteContent", !.files = files]) /\ UNCHANGED submitted
    BY <1>11 DEF Remove
  <2>2. PICK user \in Users : TRUE
    BY ContentUserDataAssumption
  <2> QED BY <1>1, <2>1, <2>2, DeleteStep
<1>12. ASSUME NEW c \in Contents,
              \/ DeleteContent(r, c)
              \/ DeleteAllContentUserDataByContentId(r, c) \/ DeleteFinishedDataByContentId(r, c)
       PROVE  UserDataInv'
  BY <1>2, <1>11, <1>12
     DEF DeleteContent, DeleteAllContentUserDataByContentId, DeleteFinishedDataByContentId
<1> QED BY <1>4, <1>5, <1>6, <1>7, <1>8, <1>9, <1>10, <1>12 DEF Start

\* A request goes on: it stays the same request, and does no file twice.
LEMMA JobMoves ==
  ASSUME UserDataInv, UNCHANGED <<env, submitted>>, NEW r \in Requests, Active(r),
         NEW k \in Job, job' = [job EXCEPT ![r] = k],
         k.op = job[r].op, k.files = job[r].files, k.user = job[r].user,
         k.entry = job[r].entry, k.todo \subseteq job[r].todo, k.pc # "idle",
         k.pc \in {"open", "write"} =>
           k.op \in Writes /\ k.at \in k.todo /\ \A e \in k.old : <<k.at, e>> \in submitted
  PROVE  /\ job' \in [Requests -> Job] /\ job'[r] = k
         /\ \A q \in Requests \ {r} : job'[q] = job[q]
         /\ Jobs' /\ Apart'
<1> USE DEF UserDataInv
<1>1. /\ job' \in [Requests -> Job] /\ job'[r] = k
      /\ \A q \in Requests \ {r} : job'[q] = job[q]
  BY DEF TypeOK
<1>2. Jobs'
  BY <1>1 DEF Jobs, Active
<1>3. Apart'
  BY <1>1 DEF Apart, Active
<1> QED BY <1>1, <1>2, <1>3

LEMMA ReadToWriteStep ==
  ASSUME UserDataInv, UNCHANGED env, NEW r \in Requests, NEW f \in DataFiles, ReadToWrite(r, f)
  PROVE  UserDataInv'
<1> USE DEF UserDataInv
<1>1. job[r] \in Job /\ disk[f] \in File
  BY DEF TypeOK
<1> DEFINE j == [job[r] EXCEPT !.at = f]
           o == [j EXCEPT !.pc = "open", !.old = IF disk[f].text = "json" THEN disk[f].data ELSE {}]
<1>2. /\ j \in Job /\ j.at = f /\ j.op = job[r].op /\ j.todo = job[r].todo
      /\ j.files = job[r].files /\ j.user = job[r].user /\ j.entry = job[r].entry
  BY <1>1 DEF Job
<1>3. /\ o \in Job /\ o.at = f /\ o.op = job[r].op /\ o.todo = job[r].todo
      /\ o.files = job[r].files /\ o.user = job[r].user /\ o.entry = job[r].entry
      /\ o.pc = "open" /\ o.old = disk[f].data
  BY <1>1 DEF Job, File, Unparsed
<1>4. /\ NextOf(j) \in Job /\ NextOf(j).pc = "next" /\ NextOf(j).todo = job[r].todo \ {f}
      /\ NextOf(j).op = job[r].op /\ NextOf(j).user = job[r].user
      /\ NextOf(j).entry = job[r].entry /\ NextOf(j).files = job[r].files
  BY <1>2, NextOfKeeps
<1>5. PICK k \in {NextOf(j), o} : job' = [job EXCEPT ![r] = k]
  BY DEF ReadToWrite
<1>6. /\ Active(r) /\ UNCHANGED <<disk, answer, submitted, begun>>
      /\ f \in job[r].todo /\ job[r].op \in Writes
  BY DEF ReadToWrite, Active
<1>7. \A e \in disk[f].data : <<f, e>> \in submitted
  BY DEF OnlySubmitted
<1> HIDE DEF j, o
<1>8. /\ job' \in [Requests -> Job] /\ job'[r] = k
      /\ \A q \in Requests \ {r} : job'[q] = job[q]
      /\ Jobs' /\ Apart'
  BY <1>3, <1>4, <1>5, <1>6, <1>7, JobMoves
<1>9. TypeOK' /\ Unparsed'
  BY <1>6, <1>8 DEF TypeOK, Unparsed
<1>10. OnlySubmitted'
  BY <1>3, <1>4, <1>5, <1>6, <1>8 DEF OnlySubmitted, Active
<1>11. Unchanged'
  BY <1>3, <1>4, <1>5, <1>6, <1>8 DEF Unchanged
<1> QED BY <1>8, <1>9, <1>10, <1>11

\* The file is emptied; no other request is about to write it, unless they overlap.
LEMMA OpenStep ==
  ASSUME UserDataInv, UNCHANGED env, NEW r \in Requests, OpenFile(r)
  PROVE  UserDataInv'
<1> USE DEF UserDataInv
<1> DEFINE k == [job[r] EXCEPT !.pc = "write"]
           f == job[r].at
<1>1. job[r] \in Job /\ job[r].pc = "open" /\ f \in DataFiles
  BY DEF TypeOK, OpenFile, Job
<1>2. /\ k \in Job /\ k.pc = "write" /\ k.at = f /\ k.old = job[r].old /\ k.todo = job[r].todo
      /\ k.op = job[r].op /\ k.files = job[r].files /\ k.user = job[r].user /\ k.entry = job[r].entry
  BY <1>1 DEF Job
<1>3. job' = [job EXCEPT ![r] = k] /\ UNCHANGED <<answer, submitted, begun>> /\ Active(r)
  BY DEF OpenFile, Active
<1>4. k.op \in Writes /\ k.at \in k.todo /\ \A e \in k.old : <<k.at, e>> \in submitted
  BY <1>1, <1>2 DEF Jobs
<1>5. /\ disk' \in [DataFiles -> File]
      /\ disk'[f].text = "empty" /\ disk'[f].data = {}
      /\ \A g \in DataFiles \ {f} : disk'[g] = disk[g]
  <2>1. [text |-> "empty", data |-> {}] \in File
    BY DEF File
  <2> QED BY <1>1, <2>1 DEF OpenFile, TypeOK
<1> HIDE DEF k, f
<1>6. /\ job' \in [Requests -> Job] /\ job'[r] = k
      /\ \A q \in Requests \ {r} : job'[q] = job[q]
      /\ Jobs' /\ Apart'
  BY <1>2, <1>3, <1>4, JobMoves
<1>7. TypeOK' /\ Unparsed'
  BY <1>3, <1>5, <1>6 DEF TypeOK, Unparsed
<1>8. OnlySubmitted'
  BY ZenonT(40), <1>2, <1>3, <1>5, <1>6 DEF OnlySubmitted, Active
<1>9. Unchanged'
  <2>1. "overlap" \notin env => \A q \in Requests \ {r} :
          job[q].pc \in {"open", "write"} => job[q].at # f
    BY <1>2, <1>4, <1>3 DEF Apart, Jobs, Active, Writes, Reads
  <2>2. \A q \in Requests : job[q].at \in DataFiles
    BY DEF TypeOK, Job
  <2> QED BY <1>2, <1>5, <1>6, <2>1, <2>2 DEF Unchanged
<1> QED BY <1>6, <1>7, <1>8, <1>9

\* What WriteFile does to a file.
LEMMA WriteChanges ==
  ASSUME UserDataInv, NEW r \in Requests, WriteFile(r)
  PROVE  /\ job[r].at \in DataFiles
         /\ disk' \in [DataFiles -> File]
         /\ \A g \in DataFiles \ {job[r].at} : disk'[g] = disk[g]
         /\ \/ UNCHANGED disk /\ disk[job[r].at].text = "absent"
            \/ disk'[job[r].at] = [text |-> "json", data |-> Result(job[r])]
            \/ /\ disk'[job[r].at] = [text |-> "mixed", data |-> {}]
               /\ disk[job[r].at].text # "empty"
<1> DEFINE f == job[r].at
<1>1. job[r] \in Job /\ f \in DataFiles /\ disk \in [DataFiles -> File]
  BY DEF UserDataInv, TypeOK, Job
<1>2. CASE disk[f].text = "absent"
  BY <1>1, <1>2 DEF WriteFile
<1>3. CASE disk[f].text # "absent"
  <2> DEFINE json  == [text |-> "json", data |-> Result(job[r])]
             mixed == [text |-> "mixed", data |-> {}]
  <2>1. json \in File /\ mixed \in File
    BY <1>1, ResultTyped DEF File
  <2>2. PICK new \in {json, mixed} : /\ new = mixed => disk[f].text # "empty"
                                     /\ disk' = [disk EXCEPT ![f] = new]
    BY <1>3 DEF WriteFile
  <2> HIDE DEF json, mixed, f
  <2>3. disk' \in [DataFiles -> File] /\ \A g \in DataFiles \ {f} : disk'[g] = disk[g]
    BY <1>1, <2>1, <2>2
  <2>4. disk'[f] = new
    BY <1>1, <2>2
  <2> QED BY <1>1, <2>2, <2>3, <2>4 DEF json, mixed, f
<1> QED BY <1>2, <1>3

\* The file is written, or the write fails.
LEMMA WriteStep ==
  ASSUME UserDataInv, UNCHANGED env, NEW r \in Requests, WriteFile(r) \/ FailToWrite(r)
  PROVE  UserDataInv'
<1> USE DEF UserDataInv
<1> DEFINE k == NextOf(job[r])
           f == job[r].at
<1>1. job[r] \in Job /\ job[r].pc \in {"open", "write"} /\ f \in DataFiles
  BY DEF TypeOK, WriteFile, FailToWrite, Job
<1>2. /\ k \in Job /\ k.pc = "next" /\ k.todo = job[r].todo \ {f}
      /\ k.op = job[r].op /\ k.files = job[r].files /\ k.user = job[r].user /\ k.entry = job[r].entry
  BY <1>1, NextOfKeeps
<1>3. job' = [job EXCEPT ![r] = k] /\ UNCHANGED <<answer, submitted, begun>> /\ Active(r)
  BY DEF WriteFile, FailToWrite, Active
<1>4. \A e \in Result(job[r]) : e \in Entries /\ <<f, e>> \in submitted
  BY <1>1, ResultTyped DEF Jobs, Job
<1>5. /\ disk' \in [DataFiles -> File]
      /\ \A g \in DataFiles \ {f} : disk'[g] = disk[g]
      /\ disk'[f] \in {disk[f], [text |-> "json", data |-> Result(job[r])],
                       [text |-> "mixed", data |-> {}]}
  BY WriteChanges DEF FailToWrite, TypeOK
<1> HIDE DEF k, f
<1>6. /\ job' \in [Requests -> Job] /\ job'[r] = k
      /\ \A q \in Requests \ {r} : job'[q] = job[q]
      /\ Jobs' /\ Apart'
  BY <1>2, <1>3, JobMoves
<1>7. TypeOK' /\ Unparsed'
  BY <1>3, <1>5, <1>6 DEF TypeOK, Unparsed
<1>8. OnlySubmitted'
  <2>1. \A e \in disk'[f].data : <<f, e>> \in submitted
    BY <1>1, <1>4, <1>5 DEF OnlySubmitted, f
  <2>2. \A g \in DataFiles : \A e \in disk'[g].data : <<g, e>> \in submitted'
    BY <1>3, <1>5, <2>1 DEF OnlySubmitted
  <2> QED BY <1>2, <1>3, <1>6, <2>2 DEF OnlySubmitted, Active
<1>9. Unchanged'
  <2>1. "overlap" \notin env => \A q \in Requests \ {r} :
          job[q].pc \in {"open", "write"} => job[q].at # f
    <3>1. f \in job[r].files /\ job[r].op \in Writes
      BY <1>1 DEF Jobs, f
    <3> QED BY <1>3, <3>1 DEF Apart, Jobs, Active, Writes, Reads
  <2>2. \A q \in Requests : job[q].at \in DataFiles
    BY DEF TypeOK, Job
  <2> QED BY <1>2, <1>5, <1>6, <2>1, <2>2 DEF Unchanged
<1> QED BY <1>6, <1>7, <1>8, <1>9

\* A file is removed, or the removal fails.
LEMMA RemoveStep ==
  ASSUME UserDataInv, UNCHANGED env, NEW r \in Requests, NEW f \in DataFiles,
         RemoveFile(r, f) \/ FailToRemove(r, f)
  PROVE  UserDataInv'
<1> USE DEF UserDataInv
<1> DEFINE k == [job[r] EXCEPT !.todo = @ \ {f}]
<1>1. /\ job[r] \in Job /\ job[r].pc = "next" /\ f \in job[r].todo /\ job[r].op \in Deletes
      /\ Active(r)
  BY DEF TypeOK, RemoveFile, FailToRemove, Active
<1>2. /\ k \in Job /\ k.pc = "next" /\ k.todo = job[r].todo \ {f}
      /\ k.op = job[r].op /\ k.files = job[r].files /\ k.user = job[r].user /\ k.entry = job[r].entry
  BY <1>1 DEF Job
<1>3. job' = [job EXCEPT ![r] = k] /\ UNCHANGED <<answer, submitted, begun>>
  BY DEF RemoveFile, FailToRemove
<1>4. /\ disk' \in [DataFiles -> File]
      /\ \A g \in DataFiles \ {f} : disk'[g] = disk[g]
      /\ disk'[f] \in {disk[f], [text |-> "absent", data |-> {}]}
  <2>1. [text |-> "absent", data |-> {}] \in File
    BY DEF File
  <2> QED BY <2>1 DEF RemoveFile, FailToRemove, TypeOK
<1> HIDE DEF k
<1>5. /\ job' \in [Requests -> Job] /\ job'[r] = k
      /\ \A q \in Requests \ {r} : job'[q] = job[q]
      /\ Jobs' /\ Apart'
  BY <1>1, <1>2, <1>3, JobMoves
<1>6. TypeOK' /\ Unparsed'
  BY <1>3, <1>4, <1>5 DEF TypeOK, Unparsed
<1>7. OnlySubmitted'
  <2>1. \A e \in disk'[f].data : <<f, e>> \in submitted
    BY <1>4 DEF OnlySubmitted
  <2>2. \A g \in DataFiles : \A e \in disk'[g].data : <<g, e>> \in submitted'
    BY <1>3, <1>4, <2>1 DEF OnlySubmitted
  <2> QED BY <1>1, <1>2, <1>3, <1>5, <2>2 DEF OnlySubmitted, Active
<1>8. Unchanged'
  <2>1. "overlap" \notin env => \A q \in Requests \ {r} :
          job[q].pc \in {"open", "write"} => job[q].at # f
    BY <1>1 DEF Apart, Jobs, Active, Deletes, Writes, Reads
  <2>2. \A q \in Requests : job[q].at \in DataFiles
    BY DEF TypeOK, Job
  <2> QED BY <1>2, <1>4, <1>5, <2>1, <2>2 DEF Unchanged
<1> QED BY <1>5, <1>6, <1>7, <1>8

\* Only entries of the user are added to an answer.
LEMMA AnswerStep ==
  ASSUME UserDataInv, UNCHANGED env, NEW r \in Requests, NEW f \in DataFiles, ReadToAnswer(r, f)
  PROVE  UserDataInv'
<1> USE DEF UserDataInv
<1> DEFINE k == [job[r] EXCEPT !.todo = @ \ {f}]
           before == IF answer[r] = NoAnswer THEN {} ELSE answer[r]
           list == IF disk[f].text = "json" THEN disk[f].data ELSE {}
           read == {e \in list : Matches(job[r], e)}
<1>1. /\ job[r] \in Job /\ job[r].pc = "next" /\ f \in job[r].todo /\ Active(r)
  BY DEF TypeOK, ReadToAnswer, Active
<1>2. /\ k \in Job /\ k.pc = "next" /\ k.todo = job[r].todo \ {f}
      /\ k.op = job[r].op /\ k.files = job[r].files /\ k.user = job[r].user /\ k.entry = job[r].entry
  BY <1>1 DEF Job
<1>3. /\ job' = [job EXCEPT ![r] = k] /\ UNCHANGED <<disk, submitted, begun>>
      /\ answer' = [answer EXCEPT ![r] = before \cup read]
  BY DEF ReadToAnswer
<1>4. /\ list \subseteq Entries
      /\ \A e \in read : e \in Entries /\ e.user = job[r].user /\ <<f, e>> \in submitted
  BY DEF TypeOK, File, Matches, OnlySubmitted
<1>5. /\ before \in SUBSET Entries
      /\ \A e \in before : e.user = job[r].user /\ \E g \in DataFiles : <<g, e>> \in submitted
  BY <1>1 DEF TypeOK, OnlySubmitted
<1> HIDE DEF k, before, read
<1>6. /\ job' \in [Requests -> Job] /\ job'[r] = k
      /\ \A q \in Requests \ {r} : job'[q] = job[q]
      /\ Jobs' /\ Apart'
  BY <1>1, <1>2, <1>3, JobMoves
<1>7. /\ answer' \in [Requests -> (SUBSET Entries) \cup {NoAnswer}]
      /\ answer'[r] = before \cup read
      /\ \A q \in Requests \ {r} : answer'[q] = answer[q]
  BY <1>3, <1>4, <1>5 DEF TypeOK
<1>8. TypeOK' /\ Unparsed'
  BY <1>3, <1>6, <1>7 DEF TypeOK, Unparsed
<1>9. OnlySubmitted'
  BY ZenonT(40), <1>2, <1>3, <1>4, <1>5, <1>6, <1>7 DEF OnlySubmitted, Active
<1>10. Unchanged'
  BY <1>2, <1>3, <1>6 DEF Unchanged
<1> QED BY <1>6, <1>8, <1>9, <1>10

\* A request ends.
LEMMA ReturnStep ==
  ASSUME UserDataInv, UNCHANGED env, NEW r \in Requests, Return(r)
  PROVE  UserDataInv'
<1> USE DEF UserDataInv
<1>1. /\ job' \in [Requests -> Job] /\ job'[r] = IdleJob
      /\ \A q \in Requests \ {r} : job'[q] = job[q]
      /\ UNCHANGED <<disk, answer, submitted, begun>>
  BY IdleTyped DEF Return, TypeOK
<1>2. TypeOK' /\ Unparsed'
  BY <1>1 DEF TypeOK, Unparsed
<1>3. Jobs' /\ Apart'
  BY <1>1, IdleTyped DEF Jobs, Apart, Active
<1>4. OnlySubmitted' /\ Unchanged'
  BY <1>1, IdleTyped DEF OnlySubmitted, Unchanged, Active
<1> QED BY <1>2, <1>3, <1>4

\* All requests are forgotten.
LEMMA CrashStep ==
  ASSUME UserDataInv, UNCHANGED env, Crash
  PROVE  UserDataInv'
<1> USE DEF UserDataInv
<1>1. /\ \A q \in Requests : job'[q] = IdleJob /\ answer'[q] = NoAnswer
      /\ UNCHANGED <<disk, submitted, begun>>
  BY DEF Crash
<1>2. TypeOK' /\ Unparsed'
  BY IdleTyped DEF TypeOK, Unparsed, Crash
<1>3. Jobs' /\ Apart'
  BY <1>1, IdleTyped DEF Jobs, Apart, Active
<1>4. OnlySubmitted' /\ Unchanged'
  BY <1>1, IdleTyped DEF OnlySubmitted, Unchanged, Active
<1> QED BY <1>2, <1>3, <1>4

LEMMA NextPreserves ==
  ASSUME UserDataInv, [Next]_vars
  PROVE  UserDataInv'
<1>1. CASE UNCHANGED vars
  BY <1>1 DEF vars, UserDataInv, TypeOK, Jobs, Unparsed, OnlySubmitted, Apart, Unchanged, Active
<1>2. CASE Next
  <2>1. UNCHANGED env
    BY <1>2 DEF Next
  <2>2. CASE \E r \in Requests : Start(r)
    BY <2>1, <2>2, StartStep
  <2>3. CASE \E r \in Requests : Step(r)
    BY <2>1, <2>3, ReadToWriteStep, OpenStep, WriteStep, RemoveStep, AnswerStep, ReturnStep DEF Step
  <2>4. CASE Crash
    BY <2>1, <2>4, CrashStep
  <2> QED BY <1>2, <2>2, <2>3, <2>4 DEF Next
<1> QED BY <1>1, <1>2

LEMMA InvHolds == Spec => []UserDataInv
<1>1. UserDataInv /\ [Next]_vars => UserDataInv'
  BY NextPreserves
<1> QED BY <1>1, InitInv, PTL DEF Spec

\* The variables keep their types.
THEOREM TypeCorrect == Spec => []TypeOK
<1>1. UserDataInv => TypeOK
  BY DEF UserDataInv
<1> QED BY <1>1, InvHolds, PTL

-----------------------------------------------------------------------------
\* Whatever overlaps or fails, a file that parses and an answer hold only entries
\* that a permitted request has sent for this content and, in answers, for this user
\* (FileContentUserDataStorage: read, filter, push, write).
THEOREM OnlySubmittedHolds == Spec => []OnlySubmitted
<1>1. UserDataInv => OnlySubmitted
  BY DEF UserDataInv
<1> QED BY <1>1, InvHolds, PTL

\* A request to forget a user leaves no file behind that parses and holds an entry
\* of the user, unless the write to this file failed.
LEMMA ForgetStep ==
  ASSUME UserDataInv, Next, NEW r \in Requests,
         job[r].op = "deleteByUser", job'[r].op = "deleteByUser", ~FailToWrite(r),
         NEW f \in job[r].todo \ job'[r].todo
  PROVE  \A e \in disk'[f].data : e.user # job[r].user
<1> USE DEF UserDataInv
<1>1. job[r] \in Job /\ job[r].op \notin Reads \cup Deletes /\ f \in DataFiles
  BY DEF TypeOK, Job, Reads, Deletes
<1>2. Active(r)
  BY IdleTyped DEF Jobs
<1>3. ASSUME NEW q \in Requests \ {r}, Start(q) \/ Step(q)
      PROVE  job'[r] = job[r]
  <2>1. CASE Start(q)
    <3>1. \A new : Begin(q, new) => job'[r] = job[r]
      BY DEF Begin, TypeOK
    <3> QED BY <2>1, <3>1 DEF Start,
          CreateOrUpdateContentUserData, SetFinished, Put, GetContentUserData,
          GenerateContentUserDataIntegration, DeleteAllContentUserDataByUser, DeleteFrom,
          DeleteFinishedDataByUser, GetContentUserDataByUser, GetFinishedDataByUser, Ask,
          DeleteInvalidated, DeleteContent, DeleteAllContentUserDataByContentId,
          DeleteFinishedDataByContentId, Remove
  <2>2. CASE Step(q)
    <3>1. \E new : job' = [job EXCEPT ![q] = new]
      BY <2>2 DEF Step, ReadToWrite, RemoveFile, FailToRemove, ReadToAnswer,
              OpenFile, WriteFile, FailToWrite, Return
    <3> QED BY <3>1 DEF TypeOK
  <2> QED BY <1>3, <2>1, <2>2
<1>4. ~Crash /\ ~Return(r) /\ ~Start(r)
  BY <1>2, IdleTyped DEF Crash, Return, Start, TypeOK
<1>5. ~OpenFile(r)
  <2>1. [job[r] EXCEPT !.pc = "write"].todo = job[r].todo
    BY <1>1 DEF Job
  <2> QED BY <2>1 DEF OpenFile, TypeOK
<1>6. (\E g \in DataFiles : ReadToWrite(r, g)) \/ WriteFile(r)
  <2>1. PICK q \in Requests : Start(q) \/ Step(q)
    BY <1>4 DEF Next
  <2>2. q = r
    BY <1>3, <2>1
  <2>3. \A g : ~RemoveFile(r, g) /\ ~FailToRemove(r, g) /\ ~ReadToAnswer(r, g)
    BY <1>1 DEF RemoveFile, FailToRemove, ReadToAnswer
  <2> QED BY <1>4, <1>5, <2>1, <2>2, <2>3 DEF Step
<1>7. CASE WriteFile(r)
  <2>1. job'[r] = NextOf(job[r])
    BY <1>7 DEF WriteFile, TypeOK
  <2>2. f = job[r].at
    BY <1>1, <2>1, NextOfKeeps
  <2>3. \A e \in Result(job[r]) : e.user # job[r].user
    BY DEF Result
  <2>4. disk[f].text = "absent" => disk[f].data = {}
    BY <1>1 DEF Unparsed
  <2>5. \/ UNCHANGED disk /\ disk[f].text = "absent"
        \/ disk'[f] = [text |-> "json", data |-> Result(job[r])]
        \/ disk'[f] = [text |-> "mixed", data |-> {}]
    BY <1>7, <2>2, WriteChanges
  <2> QED BY <2>3, <2>4, <2>5
<1>8. ASSUME NEW g \in DataFiles, ReadToWrite(r, g)
      PROVE  \A e \in disk'[f].data : e.user # job[r].user
  <2> DEFINE j == [job[r] EXCEPT !.at = g]
             o == [j EXCEPT !.pc = "open", !.old = IF disk[g].text = "json" THEN disk[g].data ELSE {}]
  <2>1. j \in Job /\ j.at = g /\ j.op = job[r].op /\ j.todo = job[r].todo /\ o.todo = job[r].todo
    BY <1>1 DEF Job
  <2>2. NextOf(j).todo = job[r].todo \ {g}
    BY <2>1, NextOfKeeps
  <2>3. job'[r] = IF disk[g].text # "json" /\ j.op = "deleteByUser" THEN NextOf(j) ELSE o
    BY <1>8 DEF ReadToWrite, TypeOK
  <2> HIDE DEF j, o
  <2>4. f = g /\ disk[g].text # "json"
    BY <2>1, <2>2, <2>3
  <2> QED BY <1>8, <2>4 DEF ReadToWrite, Unparsed
<1> QED BY <1>6, <1>7, <1>8

\* A user who deletes their own states (deleteAllContentUserDataByUser) or results
\* (deleteFinishedDataByUser) is gone from a file the deletion is done with, or it
\* does not parse, whatever other requests do meanwhile, unless the write failed.
THEOREM UserForgotten == Spec => UserIsForgotten
<1>1. UserDataInv /\ [Next]_vars =>
        [\A r \in Requests :
           /\ job[r].op = "deleteByUser" /\ job'[r].op = "deleteByUser"
           /\ job[r].forUser = job[r].user
           /\ ~FailToWrite(r)
           => \A f \in job[r].todo \ job'[r].todo : \A e \in disk'[f].data :
                e.user # job[r].forUser]_vars
  BY ForgetStep
<1> QED BY <1>1, InvHolds, PTL DEF Spec, UserIsForgotten

-----------------------------------------------------------------------------
(* ContentUserData implements UserDataStore *)

WritesTo(j, q, f) == j[q].pc = "write" /\ j[q].at = f

\* StoredIn of any disk and any jobs.
StoredOf(d, j, f) ==
  LET writers == {r \in Requests : WritesTo(j, r, f)} IN
  IF d[f].text = "empty" /\ writers # {} THEN j[CHOOSE r \in writers : TRUE].old ELSE d[f].data

LEMMA StoredInIsStoredOf ==
  ASSUME NEW f \in DataFiles
  PROVE  StoredIn(f) = StoredOf(disk, job, f) /\ StoredIn(f)' = StoredOf(disk', job', f)
BY DEF StoredIn, StoredOf, WritesTo

\* Where nobody writes a file, it is what is stored in it.
LEMMA StoredUnwritten ==
  ASSUME NEW d, NEW j, NEW f,
         d[f].text # "empty" \/ \A q \in Requests : ~WritesTo(j, q, f)
  PROVE  StoredOf(d, j, f) = d[f].data
BY DEF StoredOf

\* Where one request writes an empty file, what it has read is stored there.
LEMMA StoredWritten ==
  ASSUME NEW d, NEW j, NEW f, NEW r \in Requests, d[f].text = "empty", WritesTo(j, r, f),
         \A q \in Requests : WritesTo(j, q, f) => q = r
  PROVE  StoredOf(d, j, f) = j[r].old
<1> DEFINE writers == {q \in Requests : WritesTo(j, q, f)}
<1>1. r \in writers /\ \A q \in writers : q = r
  OBVIOUS
<1> HIDE DEF writers
<1>2. (CHOOSE q \in writers : TRUE) = r
  BY <1>1
<1>3. writers # {}
  BY <1>1
<1> QED BY <1>2, <1>3 DEF StoredOf, writers

\* Nothing else matters.
LEMMA StoredSame ==
  ASSUME NEW d, NEW j, NEW e, NEW k, NEW f, e[f] = d[f],
         \A q \in Requests : WritesTo(j, q, f) <=> WritesTo(k, q, f),
         \A q \in Requests : WritesTo(j, q, f) => k[q].old = j[q].old
  PROVE  StoredOf(e, k, f) = StoredOf(d, j, f)
<1> DEFINE before == {q \in Requests : WritesTo(j, q, f)}
           after == {q \in Requests : WritesTo(k, q, f)}
           c == CHOOSE q \in before : TRUE
<1>1. before = after
  OBVIOUS
<1>2. before # {} => c \in before
  OBVIOUS
<1>3. before # {} => k[c].old = j[c].old
  BY <1>2
<1>4. StoredOf(d, j, f) = IF d[f].text = "empty" /\ before # {} THEN j[c].old ELSE d[f].data
  BY DEF StoredOf
<1>5. StoredOf(e, k, f) = IF e[f].text = "empty" /\ after # {}
                          THEN k[CHOOSE q \in after : TRUE].old ELSE e[f].data
  BY DEF StoredOf
<1> HIDE DEF before, after
<1> QED BY <1>1, <1>3, <1>4, <1>5

LEMMA StoreInit == Init => Store!Init
<1> SUFFICES ASSUME Init PROVE Store!Init
  OBVIOUS
<1>1. \A f \in DataFiles : StoredIn(f) = {}
  BY DEF Init, StoredIn
<1> QED BY <1>1 DEF Init, Store!Init

\* Without overlap, one request at most is about to write a file, which is empty by then.
LEMMA OneWriter ==
  ASSUME UserDataInv, "overlap" \notin env, NEW f \in DataFiles
  PROVE  /\ \A q, r \in Requests : WritesTo(job, q, f) /\ WritesTo(job, r, f) => q = r
         /\ \A r \in Requests : WritesTo(job, r, f) =>
              /\ disk[f].text = "empty" /\ disk[f].data = {}
              /\ StoredOf(disk, job, f) = job[r].old
         /\ (\A r \in Requests : ~WritesTo(job, r, f)) => StoredOf(disk, job, f) = disk[f].data
<1>1. \A q, r \in Requests : WritesTo(job, q, f) /\ WritesTo(job, r, f) => q = r
  BY DEF UserDataInv, Apart, Jobs, Active, Writes, Reads, WritesTo
<1>2. \A r \in Requests : WritesTo(job, r, f) => disk[f].text = "empty" /\ disk[f].data = {}
  BY DEF UserDataInv, Unchanged, Unparsed, WritesTo
<1> QED BY <1>1, <1>2, StoredWritten, StoredUnwritten

\* The steps of a request that neither begin nor end the write of a file cannot be seen
\* in the store.
LEMMA QuietStep ==
  ASSUME NEW r \in Requests, UNCHANGED disk, \A q \in Requests \ {r} : job'[q] = job[q],
         job[r].pc # "write", job'[r].pc # "write"
  PROVE  UNCHANGED [f \in DataFiles |-> StoredIn(f)]
<1> SUFFICES ASSUME NEW f \in DataFiles PROVE StoredIn(f)' = StoredIn(f)
  OBVIOUS
<1>1. \A q \in Requests : /\ WritesTo(job, q, f) <=> WritesTo(job', q, f)
                          /\ WritesTo(job, q, f) => job'[q].old = job[q].old
  BY DEF WritesTo
<1>2. StoredOf(disk', job', f) = StoredOf(disk, job, f)
  BY <1>1, StoredSame
<1> QED BY <1>2, StoredInIsStoredOf

\* A step that writes or removes a file changes the store there.
LEMMA LocalStep ==
  ASSUME NEW r \in Requests, \A q \in Requests \ {r} : job'[q] = job[q],
         NEW f \in DataFiles, \A g \in DataFiles \ {f} : disk'[g] = disk[g],
         WritesTo(job, r, f) \/ job[r].pc # "write",
         WritesTo(job', r, f) \/ job'[r].pc # "write"
  PROVE  \A g \in DataFiles \ {f} : StoredIn(g)' = StoredIn(g)
<1> SUFFICES ASSUME NEW g \in DataFiles \ {f} PROVE StoredIn(g)' = StoredIn(g)
  OBVIOUS
<1>1. \A q \in Requests : /\ WritesTo(job, q, g) <=> WritesTo(job', q, g)
                          /\ WritesTo(job, q, g) => job'[q].old = job[q].old
  BY DEF WritesTo
<1>2. StoredOf(disk', job', g) = StoredOf(disk, job, g)
  BY <1>1, StoredSame
<1> QED BY <1>2, StoredInIsStoredOf

\* A request that begins forgets what it has read.
LEMMA StoreBegins ==
  ASSUME UserDataInv, NEW r \in Requests, Start(r)
  PROVE  Store!Begin(r)
<1> DEFINE S == [f \in DataFiles |-> StoredIn(f)]
<1>1. ASSUME NEW new, Begin(r, new)
      PROVE  UNCHANGED S /\ answer' = [answer EXCEPT ![r] = NoAnswer]
  <2>1. job[r].pc # "write"
    BY DEF Start, Active
  <2> DEFINE j == [new EXCEPT !.pc = "next", !.todo = new.files]
  <2>2. job'[r] = j /\ \A q \in Requests \ {r} : job'[q] = job[q]
    BY <1>1 DEF Begin, UserDataInv, TypeOK
  <2>3. j.pc # "write"
    OBVIOUS
  <2> QED BY <1>1, <2>1, <2>2, <2>3, QuietStep DEF Begin
<1> HIDE DEF S
<1>2. UNCHANGED S /\ answer' = [answer EXCEPT ![r] = NoAnswer]
  BY <1>1 DEF Start, CreateOrUpdateContentUserData, SetFinished, Put, GetContentUserData,
      GenerateContentUserDataIntegration, DeleteAllContentUserDataByUser, DeleteFrom,
      DeleteFinishedDataByUser, GetContentUserDataByUser, GetFinishedDataByUser, Ask,
      DeleteInvalidated, DeleteContent, DeleteAllContentUserDataByContentId,
      DeleteFinishedDataByContentId, Remove
<1> QED BY <1>2 DEF Store!Begin, S

\* A file that is emptied still counts as what the request has read from it.
LEMMA StoreKeepsOpened ==
  ASSUME UserDataInv, "overlap" \notin env, NEW r \in Requests, OpenFile(r)
  PROVE  UNCHANGED [f \in DataFiles |-> StoredIn(f)]
<1> USE DEF UserDataInv
<1> DEFINE f == job[r].at
<1>1. f \in DataFiles /\ job[r].pc = "open" /\ job[r] \in Job
  BY DEF OpenFile, TypeOK, Job
<1>2. /\ job'[r].pc = "write" /\ job'[r].at = f /\ job'[r].old = job[r].old
      /\ \A q \in Requests \ {r} : job'[q] = job[q]
  BY <1>1 DEF OpenFile, TypeOK, Job
<1>3. /\ disk'[f].text = "empty"
      /\ \A g \in DataFiles \ {f} : disk'[g] = disk[g]
  BY <1>1 DEF OpenFile, TypeOK
<1>4. \A q \in Requests : ~WritesTo(job, q, f)
  <2>1. f \in job[r].files /\ job[r].op \in Writes
    BY <1>1 DEF Jobs
  <2> QED BY <1>1, <2>1 DEF Apart, Jobs, Active, Writes, Reads, WritesTo
<1>5. StoredOf(disk, job, f) = job[r].old
  BY <1>1, <1>4, OneWriter DEF Unchanged
<1> HIDE DEF f
<1>6. StoredOf(disk', job', f) = job[r].old
  <2>1. \A q \in Requests : WritesTo(job', q, f) => q = r
    BY <1>2, <1>4 DEF WritesTo
  <2>2. WritesTo(job', r, f)
    BY <1>2 DEF WritesTo
  <2> QED BY <1>2, <1>3, <2>1, <2>2, StoredWritten
<1>7. \A g \in DataFiles \ {f} : StoredIn(g)' = StoredIn(g)
  BY <1>1, <1>2, <1>3, LocalStep DEF WritesTo
<1>8. \A g \in DataFiles : StoredIn(g)' = StoredIn(g)
  BY <1>1, <1>5, <1>6, <1>7, StoredInIsStoredOf
<1> QED BY <1>8

\* The list a request writes is the stored one with its change.
LEMMA StoreWrites ==
  ASSUME UserDataInv, "overlap" \notin env, NEW r \in Requests, WriteFile(r)
  PROVE  \E f \in DataFiles : Store!Delete(f) \/ \E e \in Entries : Store!Put(f, e)
<1> USE DEF UserDataInv
<1> DEFINE f == job[r].at
           S == [g \in DataFiles |-> StoredIn(g)]
           e == job[r].entry
<1>1. /\ f \in DataFiles /\ WritesTo(job, r, f) /\ job[r] \in Job /\ job[r].op \in Writes
      /\ e \in Entries /\ job[r].user \in Users
  BY DEF WriteFile, TypeOK, Job, WritesTo, Jobs
<1>2. /\ disk[f].text = "empty" /\ StoredOf(disk, job, f) = job[r].old
      /\ \A q \in Requests : WritesTo(job, q, f) => q = r
  BY <1>1, OneWriter
<1>3. /\ disk'[f] = [text |-> "json", data |-> Result(job[r])]
      /\ \A g \in DataFiles \ {f} : disk'[g] = disk[g]
  BY <1>2, WriteChanges
<1>4. job'[r].pc = "next" /\ \A q \in Requests \ {r} : job'[q] = job[q]
  BY <1>1, NextOfKeeps DEF WriteFile, TypeOK
<1> HIDE DEF f, e
<1>5. StoredOf(disk', job', f) = Result(job[r])
  BY <1>3, StoredUnwritten
<1>6. \A g \in DataFiles \ {f} : StoredIn(g)' = StoredIn(g)
  BY <1>1, <1>3, <1>4, LocalStep
<1>7. /\ S[f] = job[r].old /\ S'[f] = Result(job[r])
      /\ \A g \in DataFiles \ {f} : S'[g] = S[g]
  BY <1>1, <1>2, <1>5, <1>6, StoredInIsStoredOf
<1>8. DOMAIN S = DataFiles /\ DOMAIN S' = DataFiles
      /\ S = [g \in DataFiles |-> S[g]] /\ S' = [g \in DataFiles |-> S'[g]]
  OBVIOUS
<1>9. UNCHANGED answer
  BY DEF WriteFile
<1>10. CASE job[r].op = "put"
  <2>1. Result(job[r]) = {x \in job[r].old : x.user # e.user \/ x.slot # e.slot} \cup {e}
    BY <1>10 DEF Result, e
  <2> HIDE DEF S
  <2>2. S' = [S EXCEPT ![f] = {x \in @ : x.user # e.user \/ x.slot # e.slot} \cup {e}]
    BY <1>1, <1>7, <1>8, <2>1
  <2> QED BY <1>1, <1>9, <2>2 DEF Store!Put, S
<1>11. CASE job[r].op # "put"
  <2> DEFINE gone == IF job[r].op = "deleteByUser" THEN {x \in S[f] : x.user = job[r].user}
                     ELSE {x \in S[f] : x.invalidate}
  <2>1. Result(job[r]) = job[r].old \ gone
    BY <1>7, <1>11 DEF Result
  <2> HIDE DEF S
  <2>2. gone \in {S[f]} \cup {{x \in S[f] : x.user = u} : u \in Users}
                 \cup {{x \in S[f] : x.invalidate}}
    BY <1>1
  <2>3. S' = [S EXCEPT ![f] = @ \ gone]
    BY <1>1, <1>7, <1>8, <2>1
  <2> HIDE DEF gone
  <2> QED BY <1>1, <1>9, <2>2, <2>3 DEF Store!Delete, Store!OfUser, S
<1> QED BY <1>10, <1>11

\* A failed write loses what was stored in its file.
LEMMA StoreFails ==
  ASSUME UserDataInv, "overlap" \notin env, NEW r \in Requests, FailToWrite(r)
  PROVE  Store!Lose
<1> USE DEF UserDataInv
<1>1. job[r] \in Job /\ job[r].pc \in {"open", "write"}
  BY DEF FailToWrite, TypeOK
<1> PICK f \in DataFiles : f = job[r].at
  BY <1>1 DEF Job
<1>2. UNCHANGED <<disk, answer>> /\ "ioerror" \in env
  BY DEF FailToWrite
<1>3. job'[r].pc = "next" /\ \A q \in Requests \ {r} : job'[q] = job[q]
  BY <1>1, NextOfKeeps DEF FailToWrite, TypeOK
<1>4. \A g \in DataFiles : StoredIn(g)' \in {StoredIn(g), {}}
  <2>1. CASE job[r].pc # "write"
    BY <1>2, <1>3, <2>1, QuietStep
  <2>2. CASE job[r].pc = "write"
    <3>1. WritesTo(job, r, f)
      BY <2>2 DEF WritesTo
    <3>2. disk[f].data = {} /\ \A q \in Requests : WritesTo(job, q, f) => q = r
      BY <1>1, <3>1, OneWriter
    <3>3. \A q \in Requests : ~WritesTo(job', q, f)
      BY <1>3, <3>2 DEF WritesTo
    <3>4. StoredOf(disk', job', f) = {}
      BY <1>2, <3>2, <3>3, StoredUnwritten
    <3>5. \A g \in DataFiles \ {f} : StoredIn(g)' = StoredIn(g)
      BY <1>1, <1>2, <1>3, <3>1, LocalStep
    <3> QED BY <3>4, <3>5, StoredInIsStoredOf
  <2> QED BY <2>1, <2>2
<1>5. DOMAIN answer' = Requests
  BY <1>2 DEF TypeOK
<1> QED BY <1>2, <1>4, <1>5 DEF Store!Lose

\* A removed file holds nothing.
LEMMA StoreRemoves ==
  ASSUME UserDataInv, "overlap" \notin env, NEW r \in Requests, NEW f \in DataFiles,
         RemoveFile(r, f)
  PROVE  Store!Delete(f)
<1> USE DEF UserDataInv
<1> DEFINE S == [g \in DataFiles |-> StoredIn(g)]
<1>1. job[r].pc = "next" /\ f \in job[r].todo /\ job[r].op \in Deletes /\ UNCHANGED answer
  BY DEF RemoveFile
<1>2. /\ disk'[f].text = "absent" /\ disk'[f].data = {}
      /\ \A g \in DataFiles \ {f} : disk'[g] = disk[g]
  BY DEF RemoveFile, TypeOK
<1>3. job'[r].pc = "next" /\ \A q \in Requests \ {r} : job'[q] = job[q]
  BY <1>1 DEF RemoveFile, TypeOK, Job
<1>4. StoredIn(f)' = {}
  BY <1>2, StoredUnwritten, StoredInIsStoredOf
<1>5. \A g \in DataFiles \ {f} : StoredIn(g)' = StoredIn(g)
  BY <1>1, <1>2, <1>3, LocalStep
<1>6. S' = [S EXCEPT ![f] = @ \ S[f]]
  BY <1>4, <1>5
<1> HIDE DEF S
<1> QED BY <1>1, <1>6 DEF Store!Delete, S

\* A file that is read is seen as it is, or as empty while another request writes it.
LEMMA StoreIsRead ==
  ASSUME UserDataInv, "overlap" \notin env, NEW r \in Requests, NEW f \in DataFiles,
         ReadToAnswer(r, f)
  PROVE  Store!SeeNothing(r) \/ Store!Read(r, f)
<1> USE DEF UserDataInv
<1> DEFINE before == IF answer[r] = NoAnswer THEN {} ELSE answer[r]
           list == IF disk[f].text = "json" THEN disk[f].data ELSE {}
           S == [g \in DataFiles |-> StoredIn(g)]
<1>1. /\ job[r] \in Job /\ job[r].pc = "next" /\ f \in job[r].todo /\ job[r].op \in Reads
  BY DEF TypeOK, ReadToAnswer
<1>2. answer' = [answer EXCEPT ![r] = before \cup {e \in list : Matches(job[r], e)}]
  BY DEF ReadToAnswer
<1>3. UNCHANGED S
  <2>1. job'[r].pc = "next" /\ \A q \in Requests \ {r} : job'[q] = job[q] /\ UNCHANGED disk
    BY <1>1 DEF ReadToAnswer, TypeOK, Job
  <2>2. UNCHANGED disk
    BY DEF ReadToAnswer
  <2> QED BY <1>1, <2>1, <2>2, QuietStep
<1>4. list = disk[f].data
  BY DEF Unparsed
<1>5. CASE \A q \in Requests : ~WritesTo(job, q, f)
  <2>1. S[f] = disk[f].data
    BY <1>5, OneWriter, StoredInIsStoredOf
  <2> DEFINE slots == job[r].slots \cap {e.slot : e \in Entries}
             seen == {e \in {x \in S[f] : x.user = job[r].user} :
                        e.slot \in slots /\ (job[r].preload => e.preload)}
  <2>2. S[f] \subseteq Entries
    BY <2>1 DEF TypeOK, File
  <2>3. {e \in list : Matches(job[r], e)} = seen
    BY <1>4, <2>1, <2>2 DEF Matches
  <2>4. slots \in SUBSET {e.slot : e \in Entries} /\ job[r].user \in Users /\ job[r].preload \in BOOLEAN
    BY <1>1 DEF Job
  <2>5. answer' = [answer EXCEPT ![r] = before \cup seen]
    BY <1>2, <2>3
  <2>6. \E u \in Users : \E wanted \in SUBSET {e.slot : e \in Entries}, preload \in BOOLEAN :
          answer' = [answer EXCEPT ![r] = before \cup
            {e \in {x \in S[f] : x.user = u} : e.slot \in wanted /\ (preload => e.preload)}]
    <3> HIDE DEF slots, list, S, before
    <3> USE <2>4
    <3> WITNESS job[r].user \in Users
    <3> WITNESS slots \in SUBSET {e.slot : e \in Entries}, job[r].preload \in BOOLEAN
    <3> QED BY <2>5
  <2> QED BY <1>3, <2>6 DEF Store!Read, Store!OfUser
<1>6. CASE \E q \in Requests : WritesTo(job, q, f)
  <2>1. PICK q \in Requests : WritesTo(job, q, f)
    BY <1>6
  <2>2. list = {}
    BY <1>4, <2>1, OneWriter
  <2>3. "readers" \in env
    BY <1>1, <2>1 DEF Apart, Jobs, Active, WritesTo
  <2>4. answer' = [answer EXCEPT ![r] = IF @ = NoAnswer THEN {} ELSE @]
    BY <1>2, <2>2
  <2> QED BY <1>3, <2>3, <2>4 DEF Store!SeeNothing
<1> QED BY <1>5, <1>6

\* A crash loses what was about to be written.
LEMMA StoreCrashes ==
  ASSUME UserDataInv, "overlap" \notin env, Crash
  PROVE  Store!Lose
<1>1. /\ \A q \in Requests : job'[q].pc = "idle" /\ answer'[q] = NoAnswer
      /\ DOMAIN answer' = Requests /\ UNCHANGED disk /\ "crash" \in env
  BY IdleTyped DEF Crash
<1>2. ASSUME NEW f \in DataFiles
      PROVE  StoredIn(f)' \in {StoredIn(f), {}}
  <2>1. StoredIn(f)' = disk[f].data
    BY <1>1, StoredUnwritten, StoredInIsStoredOf DEF WritesTo
  <2> QED BY <2>1, OneWriter, StoredInIsStoredOf
<1> QED BY <1>1, <1>2 DEF Store!Lose

LEMMA StoreStep ==
  ASSUME UserDataInv, [Next]_vars
  PROVE  [Store!Next]_Store!vars
<1> USE DEF UserDataInv
<1> DEFINE S == [f \in DataFiles |-> StoredIn(f)]
<1>1. CASE UNCHANGED vars
  <2>1. \A f \in DataFiles : StoredIn(f)' = StoredIn(f)
    BY <1>1 DEF vars, StoredIn
  <2> QED BY <1>1, <2>1 DEF vars, Store!vars
<1>2. CASE Next /\ "overlap" \in env
  BY <1>2 DEF Next, Store!Next, Store!vars
<1>3. CASE Next /\ "overlap" \notin env
  <2>1. ASSUME NEW r \in Requests, NEW f \in DataFiles, ReadToWrite(r, f)
        PROVE  UNCHANGED <<S, answer>>
    <3> DEFINE j == [job[r] EXCEPT !.at = f]
               o == [j EXCEPT !.pc = "open", !.old = IF disk[f].text = "json" THEN disk[f].data ELSE {}]
    <3>1. job[r] \in Job /\ j \in Job /\ o.pc = "open"
      BY ZenonT(40) DEF TypeOK, Job
    <3>2. NextOf(j).pc = "next"
      BY <3>1, NextOfKeeps
    <3>3. PICK k \in {NextOf(j), o} : job' = [job EXCEPT ![r] = k]
      BY <2>1 DEF ReadToWrite
    <3>4. k.pc # "write"
      BY <3>1, <3>2
    <3> HIDE DEF o, j
    <3>5. job'[r].pc # "write" /\ \A q \in Requests \ {r} : job'[q] = job[q]
      BY <3>3, <3>4 DEF TypeOK
    <3>6. job[r].pc # "write" /\ UNCHANGED <<disk, answer>>
      BY <2>1 DEF ReadToWrite
    <3> QED BY <3>5, <3>6, QuietStep
  <2>2. ASSUME NEW r \in Requests, NEW f \in DataFiles, FailToRemove(r, f)
        PROVE  UNCHANGED <<S, answer>>
    <3>1. job'[r].pc # "write" /\ \A q \in Requests \ {r} : job'[q] = job[q]
      BY <2>2 DEF FailToRemove, TypeOK, Job
    <3> QED BY <2>2, <3>1, QuietStep DEF FailToRemove
  <2>3. ASSUME NEW r \in Requests, Return(r)
        PROVE  UNCHANGED <<S, answer>>
    <3>1. job'[r].pc # "write" /\ \A q \in Requests \ {r} : job'[q] = job[q]
      BY <2>3, IdleTyped DEF Return, TypeOK
    <3> QED BY <2>3, <3>1, QuietStep DEF Return
  <2>4. ASSUME NEW r \in Requests, OpenFile(r)
        PROVE  UNCHANGED <<S, answer>>
    BY <1>3, <2>4, StoreKeepsOpened DEF OpenFile
  <2>5. ASSUME NEW r \in Requests, Step(r)
        PROVE  \/ UNCHANGED <<S, answer>>
               \/ \E f \in DataFiles : Store!Delete(f) \/ \E e \in Entries : Store!Put(f, e)
               \/ Store!SeeNothing(r) \/ \E f \in DataFiles : Store!Read(r, f)
               \/ Store!Lose
    BY <1>3, <2>1, <2>2, <2>3, <2>4, <2>5, StoreWrites, StoreFails, StoreRemoves, StoreIsRead
       DEF Step
  <2>6. \/ UNCHANGED <<S, answer>>
        \/ \E f \in DataFiles : Store!Delete(f) \/ \E e \in Entries : Store!Put(f, e)
        \/ \E r \in Requests :
             Store!Begin(r) \/ Store!SeeNothing(r) \/ \E f \in DataFiles : Store!Read(r, f)
        \/ Store!Lose
    BY <1>3, <2>5, StoreBegins, StoreCrashes DEF Next
  <2>7. UNCHANGED env
    BY <1>3 DEF Next
  <2>8. DOMAIN S = DataFiles
    OBVIOUS
  <2> QED BY <2>6, <2>7, <2>8 DEF Store!Next, Store!vars
<1> QED BY <1>1, <1>2, <1>3

\* The storage of user data keeps its promise: as long as requests for one file do not
\* overlap, each put or deletion is one change of the list of entries that keeps all
\* others, each request that reads sees what is there, and a failure or a crash loses a
\* whole list or nothing (FileContentUserDataStorage.ts: read, filter, push, write).
THEOREM UserDataStoreImplemented == Spec => ImplementsUserDataStore
<1>1. Init => Store!Init
  BY StoreInit
<1>2. UserDataInv /\ [Next]_vars => [Store!Next]_Store!vars
  BY StoreStep
<1> QED BY <1>1, <1>2, InvHolds, PTL DEF Spec, ImplementsUserDataStore, Store!Spec

=============================================================================
