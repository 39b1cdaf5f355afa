---------------------------- MODULE ContentTypeHub ----------------------------
(***************************************************************************)
(* What the server keeps of the H5P Hub: ContentTypeCache, the list of     *)
(* content types with the time of its last update and the identity under   *)
(* which the site is registered, and ContentHub, the metadata of the       *)
(* content hub, whose writes nobody awaits.  The hub itself is external.   *)
(***************************************************************************)
EXTENDS Naturals

CONSTANTS
  Queries,      \* requests, each is made once
  MaxVersion,   \* bound on the versions of what the hub offers
  Environments  \* what may happen, see AllFreedoms

\* overlap     queries may overlap
\* lateWrites  a query may begin before the writes of an earlier one are done
\* ioerror     the hub may be unreachable, or a write may fail
\* crash       the process may stop and start again
AllFreedoms == {"overlap", "lateWrites", "ioerror", "crash"}

ContentTypeHubAssumption ==
  /\ MaxVersion \in Nat \ {0}
  /\ Environments \subseteq SUBSET AllFreedoms

Versions == 1..MaxVersion
Nothing == 0
Ids == Nat \ {0}

VARIABLES
  list,     \* contentTypeCache: the version of the hub's list
  listTime, \* contentTypeCacheUpdate
  uuid,     \* config.uuid in memory
  saved,    \* and in the storage
  meta,     \* contentHubMetadata
  metaTime, \* contentHubMetadataUpdate
  writing,  \* writes of ContentHub that are not done
  hub,      \* the hub: what it offers, how many identities it has given away
  used,     \* the identities that lists were downloaded with
  query,    \* query[q]: the local state of q
  env       \* what happens in this behaviour, chosen once

vars == <<list, listTime, uuid, saved, meta, metaTime, writing, hub, used, query, env>>
cacheVars == <<list, listTime>>
idVars == <<uuid, saved>>
metaVars == <<meta, metaTime, writing>>

Time == {"never", "recent", "old"}  \* as seen from the refresh interval
Write == {"meta", "time"} \X Versions

Kinds == {"get", "update", "install", "metadata"}

Query == [pc : {"new", "load", "time", "register", "response", "save", "download", "list",
                "listTime", "permission", "package",
                "import", "metaTime", "request", "received", "done"},
          kind   : Kinds,
          time   : Time,                       \* the time that was loaded
          got    : {Nothing} \cup Versions,    \* what was loaded or received
          answer : {Nothing} \cup Versions]

NewQuery == [pc |-> "new", kind |-> "get", time |-> "never", got |-> Nothing, answer |-> Nothing]

TypeOK ==
  /\ list \in {Nothing} \cup Versions /\ meta \in {Nothing} \cup Versions
  /\ {listTime, metaTime} \subseteq Time
  /\ {uuid, saved} \subseteq {Nothing} \cup Ids
  /\ writing \subseteq Write
  /\ hub \in [version : Versions, ids : Nat]
  /\ used \subseteq Ids
  /\ query \in [Queries -> Query]

Init ==
  /\ list = Nothing /\ listTime = "never"
  /\ uuid = Nothing /\ saved = Nothing
  /\ meta = Nothing /\ metaTime = "never" /\ writing = {}
  /\ hub = [version |-> 1, ids |-> 0]
  /\ used = {}
  /\ query = [q \in Queries |-> NewQuery]
  /\ env \in Environments

-----------------------------------------------------------------------------
At(q, pc) == query[q].pc = pc
Runs(q) == query[q].pc \notin {"new", "done"}

Becomes(q, new) == query' = [query EXCEPT ![q] = new]
Goto(q, pc) == Becomes(q, [query[q] EXCEPT !.pc = pc])
Answer(q, answer) ==
  Becomes(q, [NewQuery EXCEPT !.pc = "done", !.kind = query[q].kind, !.answer = answer])

\* The list is there: an installation goes on with it.
Listed(q, version) ==
  IF query[q].kind = "install" THEN Goto(q, "permission") ELSE Answer(q, version)

Begin(q, kind) ==
  /\ At(q, "new")
  /\ "overlap" \in env \/ \A p \in Queries : ~Runs(p)
  /\ "lateWrites" \in env \/ writing = {}
  /\ Becomes(q, [NewQuery EXCEPT !.kind = kind,
                                 !.pc = IF kind = "metadata" THEN "metaTime" ELSE "load"])
  /\ UNCHANGED <<cacheVars, idVars, metaVars, hub, used>>

-----------------------------------------------------------------------------
(* ContentTypeCache *)

\* get downloads the list if there is none, updateIfNecessary looks at the time too.
Load(q) ==
  /\ At(q, "load")
  /\ IF list = Nothing THEN Goto(q, "register")
     ELSE IF query[q].kind = "update" THEN Goto(q, "time")
     ELSE Listed(q, list)
  /\ UNCHANGED <<cacheVars, idVars, metaVars, hub, used>>

IsOutdated(q) ==
  /\ At(q, "time")
  /\ IF listTime = "recent" THEN Answer(q, list) ELSE Goto(q, "register")
  /\ UNCHANGED <<cacheVars, idVars, metaVars, hub, used>>

\* registerOrGetUuid
Register(q) ==
  /\ At(q, "register")
  /\ Goto(q, IF uuid = Nothing THEN "response" ELSE "download")
  /\ UNCHANGED <<cacheVars, idVars, metaVars, hub, used>>

\* Mutant: the identity is not saved before it is used.
RegisteredUnsaved(q) ==
  /\ At(q, "response")
  /\ hub' = [hub EXCEPT !.ids = @ + 1]
  /\ uuid' = hub.ids + 1
  /\ Goto(q, "download")
  /\ UNCHANGED <<cacheVars, saved, metaVars, used>>

\* The hub gives the site a new identity.
Registered(q) ==
  /\ At(q, "response")
  /\ hub' = [hub EXCEPT !.ids = @ + 1]
  /\ uuid' = hub.ids + 1
  /\ Goto(q, "save")
  /\ UNCHANGED <<cacheVars, saved, metaVars, used>>

SaveConfig(q) ==
  /\ At(q, "save")
  /\ saved' = uuid
  /\ Goto(q, "download")
  /\ UNCHANGED <<cacheVars, uuid, metaVars, hub, used>>

Download(q) ==
  /\ At(q, "download")
  /\ used' = used \cup {uuid}
  /\ Becomes(q, [query[q] EXCEPT !.pc = "list", !.got = hub.version])
  /\ UNCHANGED <<cacheVars, idVars, metaVars, hub>>

SaveList(q) ==
  /\ At(q, "list")
  /\ list' = query[q].got
  /\ Goto(q, "listTime")
  /\ UNCHANGED <<listTime, idVars, metaVars, hub, used>>

SaveListTime(q) ==
  /\ At(q, "listTime")
  /\ listTime' = "recent"
  /\ Listed(q, query[q].got)
  /\ UNCHANGED <<list, idVars, metaVars, hub, used>>

\* Mutant: an error while downloading leaves the time behind.
FailToUpdateTimed(q) ==
  /\ "ioerror" \in env
  /\ query[q].pc \in {"response", "save", "download", "list", "listTime"}
  /\ listTime' = "recent"
  /\ Answer(q, Nothing)
  /\ UNCHANGED <<list, idVars, metaVars, hub, used>>

\* The hub does not answer or a write fails.
FailToUpdate(q) ==
  /\ "ioerror" \in env
  /\ query[q].pc \in {"response", "save", "download", "list", "listTime"}
  /\ Answer(q, Nothing)
  /\ UNCHANGED <<cacheVars, idVars, metaVars, hub, used>>

-----------------------------------------------------------------------------
(* installContentType *)

\* The content type must be listed and the user may install it; otherwise the
\* installation is refused.
CheckPermission(q) ==
  /\ At(q, "permission")
  /\ Goto(q, "package") \/ Answer(q, Nothing)
  /\ UNCHANGED <<cacheVars, idVars, metaVars, hub, used>>

\* The package is downloaded into a file that is removed after the import.
DownloadPackage(q) ==
  /\ At(q, "package")
  /\ Goto(q, "import") \/ ("ioerror" \in env /\ Answer(q, Nothing))
  /\ UNCHANGED <<cacheVars, idVars, metaVars, hub, used>>

\* PackageImporter takes over.
InstallPackage(q) ==
  /\ At(q, "import")
  /\ Answer(q, Nothing)
  /\ UNCHANGED <<cacheVars, idVars, metaVars, hub, used>>

-----------------------------------------------------------------------------
(* ContentHub.getMetadata *)

LoadMetadataTime(q) ==
  /\ At(q, "metaTime")
  /\ IF metaTime = "recent" THEN Answer(q, meta)
     ELSE Becomes(q, [query[q] EXCEPT !.pc = "request", !.time = metaTime])
  /\ UNCHANGED <<cacheVars, idVars, metaVars, hub, used>>

\* The hub answers 304 if it has not changed since the time that was loaded, with its
\* metadata otherwise.
Request(q) ==
  /\ At(q, "request")
  /\ \/ /\ query[q].time # "never"
        /\ Goto(q, "received")
     \/ Becomes(q, [query[q] EXCEPT !.pc = "received", !.got = hub.version])
  /\ UNCHANGED <<cacheVars, idVars, metaVars, hub, used>>

\* Mutant: only the time is saved.
SaveTimeOnly(q) == {<<"time", hub.version>>}

\* The writes are started and not awaited.
Saves(q) ==
  {<<"time", hub.version>>} \cup
    IF query[q].got = Nothing THEN {} ELSE {<<"meta", query[q].got>>}

Receive(q) ==
  /\ At(q, "received")
  /\ writing' = writing \cup Saves(q)
  /\ Answer(q, IF query[q].got = Nothing THEN meta ELSE query[q].got)
  /\ UNCHANGED <<cacheVars, idVars, meta, metaTime, hub, used>>

FailToRequest(q) ==
  /\ "ioerror" \in env /\ At(q, "request")
  /\ Answer(q, Nothing)
  /\ UNCHANGED <<cacheVars, idVars, metaVars, hub, used>>

EndWrite ==
  \E w \in writing :
    /\ writing' = writing \ {w}
    /\ IF w[1] = "meta" THEN meta' = w[2] /\ UNCHANGED metaTime
       ELSE metaTime' = "recent" /\ UNCHANGED meta
    /\ UNCHANGED <<cacheVars, idVars, hub, used, query>>

FailToWrite ==
  /\ "ioerror" \in env
  /\ \E w \in writing : writing' = writing \ {w}
  /\ UNCHANGED <<cacheVars, idVars, meta, metaTime, hub, used, query>>

-----------------------------------------------------------------------------
HubChanges ==
  /\ hub.version < MaxVersion
  /\ hub' = [hub EXCEPT !.version = @ + 1]
  /\ UNCHANGED <<cacheVars, idVars, metaVars, used, query>>

Aged(time) == IF time = "recent" THEN "old" ELSE time

Tick ==
  /\ "recent" \in {listTime, metaTime}
  /\ listTime' = Aged(listTime) /\ metaTime' = Aged(metaTime)
  /\ UNCHANGED <<list, idVars, meta, writing, hub, used, query>>

\* The process stops; it starts with the configuration that was saved.
Restart ==
  /\ "crash" \in env
  /\ \E q \in Queries : Runs(q)
  /\ query' = [q \in Queries |-> IF Runs(q) THEN [NewQuery EXCEPT !.pc = "done"] ELSE query[q]]
  /\ uuid' = saved
  /\ writing' = {}
  /\ UNCHANGED <<cacheVars, saved, meta, metaTime, hub, used>>

QueryStep(q) ==
  \/ Load(q) \/ IsOutdated(q) \/ Register(q) \/ Registered(q) \/ SaveConfig(q) \/ Download(q)
  \/ SaveList(q) \/ SaveListTime(q) \/ FailToUpdate(q)
  \/ LoadMetadataTime(q) \/ Request(q) \/ Receive(q) \/ FailToRequest(q)
  \/ CheckPermission(q) \/ DownloadPackage(q)

\* What happens but for the imports.
Step ==
  /\ UNCHANGED env
  /\ \/ \E q \in Queries : QueryStep(q) \/ \E kind \in Kinds : Begin(q, kind)
     \/ EndWrite \/ FailToWrite \/ HubChanges \/ Tick \/ Restart

Next == Step \/ (UNCHANGED env /\ \E q \in Queries : InstallPackage(q))

Spec == Init /\ [][Next]_vars

-----------------------------------------------------------------------------
(* Properties *)

\* Whoever finds that the list is not outdated finds a list: the list is saved before
\* its time, and an update that fails in between saves neither, whatever overlaps and
\* wherever the process stops.
UpdateTimeHasList == listTime # "never" => list # Nothing

\* The hub sees the site under one identity, even if the process stops during the
\* registration: the identity is saved before it is first used.  Queries that overlap
\* register twice, and one whose save fails keeps an identity until the next start.
OneIdentity == env \subseteq {"crash", "lateWrites"} => \A i, j \in used : i = j

\* While every write is done before the next query, a query for the metadata of the
\* content hub is answered with them: an answer without data is what a write that is
\* late or lost leaves, since the test for it looks at a promise.
MetadataIsAnswered ==
  env = {} =>
    \A q \in Queries : At(q, "done") /\ query[q].kind = "metadata" => query[q].answer # Nothing

=============================================================================
