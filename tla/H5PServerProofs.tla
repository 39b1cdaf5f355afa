--------------------------- MODULE H5PServerProofs ---------------------------
(***************************************************************************)
(* Machine-checked facts about H5PServer and the two modules it puts       *)
(* together, for every set of requests, libraries, contents and packages,  *)
(* and for every environment.                                              *)
(***************************************************************************)
EXTENDS H5PServer, Naturals, TLAPS

-----------------------------------------------------------------------------
(* The hub *)

\* A list is saved before its time, and it was received before it is saved.
Lists ==
  /\ \A q \in Queries : query[q].pc \in {"list", "listTime"} => query[q].got # Hub!Nothing
  /\ \A q \in Queries : query[q].pc = "listTime" => list # Hub!Nothing
  /\ listTime # "never" => list # Hub!Nothing

\* Unless queries may overlap at most one runs.
OneQuery ==
  "overlap" \notin hubEnv => \A p, q \in Queries : Hub!Runs(p) /\ Hub!Runs(q) => p = q

\* The identity in memory is the one in the storage but while it is being saved, and
\* only the one in the storage has been used.
Identity ==
  /\ \A q \in Queries : query[q].pc \in {"save", "download"} => uuid # Hub!Nothing
  /\ hubEnv \subseteq {"crash", "lateWrites"} =>
       /\ used \subseteq {saved}
       /\ \A q \in Queries :
            /\ query[q].pc \in {"response", "save"} => saved = Hub!Nothing
            /\ query[q].pc = "response" => uuid = Hub!Nothing
       /\ (\A q \in Queries : query[q].pc # "save") => uuid = saved

\* While nothing fails and no query begins before the writes of another are done,
\* the metadata are there, or about to be, when their time is.
Pending(kind, writes) == \E w \in writes : w[1] = kind

Metadata ==
  hubEnv = {} =>
    /\ \A q \in Queries : Hub!Runs(q) => writing = {}
    /\ metaTime # "never" \/ Pending("time", writing)
         => meta # Hub!Nothing \/ Pending("meta", writing)
    /\ \A q \in Queries :
         /\ Hub!Runs(q) /\ query[q].kind = "metadata"
              => query[q].pc \in {"metaTime", "request", "received"}
         /\ query[q].pc \in {"request", "received"} /\ query[q].time # "never" => meta # Hub!Nothing
         /\ query[q].pc = "received" /\ query[q].time = "never" => query[q].got # Hub!Nothing
         /\ query[q].pc = "done" /\ query[q].kind = "metadata" => query[q].answer # Hub!Nothing

HubInv ==
  /\ Hub!TypeOK /\ hubEnv \in HubEnvironments
  /\ Lists /\ OneQuery /\ Identity /\ Metadata

-----------------------------------------------------------------------------
(* The packages *)

\* Only an import needs the directory of its package, and unless the process stops
\* it is there for imports only.
Directories ==
  /\ \A r \in Requests : job[r].pc = "new" => r \notin dirs
  /\ "crash" \notin env => \A r \in dirs : job[r].pc \in Import

\* Copies and installations are left to do, and whether any of the request is.
Leftover(j) == j.libs \cup j.changing # {} \/ j.files \cup j.open # {}
Active(j) == j.pc \notin {"new", "done"} \/ Leftover(j)

\* Libraries are deleted while nothing else runs.
DeletionAlone ==
  "deleteLibrary" \notin env =>
    \A p, q \in Requests : Deletes(p) /\ Active(job[q]) => p = q

\* Requests that run at the same time are about different contents.
OneRequestPerContent ==
  "sameContent" \notin env =>
    \A p, q \in Requests : Runs(p) /\ Runs(q) /\ job[p].content = job[q].content =>
      p = q \/ job[p].content = NoContent

\* What an import has checked is there when the content is created, or was removed by
\* an installation that failed meanwhile.
RequirementsMet(j, lib) == j.pc = "create" => AllNeeds(j.pkg.needs) \subseteq lib

\* A deletion has looked at every content but those whose ids it still has.
Needed(d, l) == d.known /\ l \in AllNeeds(d.needs)

DeletionSafe(j, lib, con) ==
  /\ j.pc = "usage" => j.used \/ \A c \in Contents : Needed(con[c], j.lib) => c \in j.ids
  /\ j.pc = "dependents" =>
       j.seen = lib /\ (j.used \/ \A c \in Contents : ~Needed(con[c], j.lib))
  /\ j.pc = "delete" =>
       /\ \A c \in Contents : ~Needed(con[c], j.lib)
       /\ \A l \in lib : ~DependsOn(l, j.lib)

\* An export resolves the dependencies of libraries, and packs those nothing happens to.
Closed(seen, libs, steady) == \A l \in seen : Followed(l) \cap steady \subseteq libs

ExportComplete(j, lib) ==
  /\ j.pc \in Export => j.steady \subseteq lib
  /\ j.pc \in Export \ {"addLibraries"} => j.pkg.libs = {}
  /\ j.pc \in Export \ {"resolve", "addLibraries"} => j.seen = {}
  /\ j.pc = "resolve" =>
       /\ AllNeeds(j.pkg.needs) \cap j.steady \subseteq j.libs \cup j.seen
       /\ Closed(j.seen, j.libs \cup j.seen, j.steady)
  /\ j.pc = "addLibraries" =>
       /\ AllNeeds(j.pkg.needs) \cap j.steady \subseteq j.seen
       /\ j.pkg.libs \cup j.libs = j.seen
       /\ Closed(j.seen, j.seen, j.steady)

\* How far an import into storage has come with its content d.
Progress(j, d) ==
  /\ j.pc \in Import \ {"clean"} => ~j.ok
  /\ j.pc \in {"extract", "validate", "install", "list", "required", "create"} => ~j.isNew
  /\ j.pc = "temporary" => j.mode # "Install"
  /\ j.pc \in {"files", "undo"} => j.content \in Contents
  /\ j.pc = "files" => d.known /\ j.pkg.files \subseteq d.files \cup j.files \cup j.open
  /\ j.pc = "clean" /\ j.content \in Contents =>
       IF j.ok THEN d.known /\ j.pkg.files \subseteq d.files ELSE j.isNew /\ ~j.kept => ~d.known

\* What holds of the local state j of a request, given the installed libraries, those
\* a failed installation has removed, and the contents: of imports and deletions as long
\* as libraries are not deleted side by side, and contents not shared.
RequestInv(j, lib, gone, con, e) ==
  /\ j.pc = "new" => ~Leftover(j)
  /\ j.pc \in Export => j.content \in Contents
  /\ j.pc \in Export \cup Deletion => ~j.install /\ j.changing = {}
  /\ ExportComplete(j, lib)
  /\ "deleteLibrary" \notin e => RequirementsMet(j, lib \cup gone) /\ DeletionSafe(j, lib, con)
  /\ "sameContent" \notin e =>
       (j.mode = "Install" => Progress(j, con[j.content]))

ExportGood(e) ==
  /\ AllNeeds(e.pkg.needs) \cap e.steady \subseteq e.pkg.libs
  /\ Closed(e.pkg.libs, e.pkg.libs, e.steady)

PackageInv ==
  /\ TypeOK
  /\ Directories /\ DeletionAlone /\ OneRequestPerContent
  /\ \A r \in Requests : RequestInv(job[r], installed, lost, content, env)
  /\ ContentHasItsLibraries
  /\ exported # NoPackage => ExportGood(exported)

-----------------------------------------------------------------------------
(* The hub: proofs *)

LEMMA HubInit == Hub!Init => HubInv
<1> SUFFICES ASSUME Hub!Init PROVE HubInv
  OBVIOUS
<1> USE HubAssumption DEF Hub!ContentTypeHubAssumption, Hub!Init
<1>1. \A q \in Queries : query[q].pc = "new" /\ query[q].got = Hub!Nothing /\ query[q].kind = "get"
  BY DEF Hub!NewQuery
<1>2. Hub!TypeOK
  <2>1. Hub!NewQuery \in Hub!Query
    BY DEF Hub!Query, Hub!NewQuery, Hub!Kinds, Hub!Time
  <2> QED BY <2>1 DEF Hub!TypeOK, Hub!Versions, Hub!Time
<1>3. Lists /\ OneQuery /\ Identity
  BY <1>1 DEF Lists, OneQuery, Identity, Hub!Runs
<1>4. Metadata
  BY <1>1 DEF Metadata, Hub!Runs, Pending
<1> QED BY <1>2, <1>3, <1>4 DEF HubInv

\* A query goes on, or is answered; the others stay as they are.
Stages == {"new", "load", "time", "register", "response", "save", "download", "list", "listTime",
           "permission", "package", "import", "metaTime", "request", "received", "done"}

LEMMA QueryGoes ==
  ASSUME Hub!TypeOK, NEW q \in Queries, NEW pc \in Stages, Hub!Goto(q, pc)
  PROVE  /\ query' \in [Queries -> Hub!Query] /\ \A p \in Queries \ {q} : query'[p] = query[p]
         /\ query'[q].pc = pc /\ query'[q].kind = query[q].kind
         /\ query'[q].time = query[q].time /\ query'[q].got = query[q].got
BY DEF Hub!TypeOK, Hub!Query, Hub!Goto, Hub!Becomes, Stages

LEMMA QueryEnds ==
  ASSUME Hub!TypeOK, NEW q \in Queries, NEW answer \in {Hub!Nothing} \cup Hub!Versions,
         Hub!Answer(q, answer)
  PROVE  /\ query' \in [Queries -> Hub!Query] /\ \A p \in Queries \ {q} : query'[p] = query[p]
         /\ query'[q].pc = "done" /\ query'[q].kind = query[q].kind
         /\ query'[q].answer = answer
<1>1. query[q].kind \in Hub!Kinds
  BY DEF Hub!TypeOK, Hub!Query
<1> DEFINE new == [Hub!NewQuery EXCEPT !.pc = "done", !.kind = query[q].kind, !.answer = answer]
<1>2. new \in Hub!Query
  <2>1. Hub!NewQuery \in Hub!Query
    BY DEF Hub!NewQuery, Hub!Query, Hub!Kinds, Hub!Time
  <2> QED BY <1>1, <2>1 DEF Hub!Query
<1>3. new.pc = "done" /\ new.kind = query[q].kind /\ new.answer = answer
  BY DEF Hub!NewQuery
<1>4. query' = [query EXCEPT ![q] = new]
  BY DEF Hub!Answer, Hub!Becomes
<1> HIDE DEF new
<1> QED BY <1>2, <1>3, <1>4 DEF Hub!TypeOK

\* One part of the invariant after the other, for a step of a query.
LEMMA QueryStepInv ==
  ASSUME HubInv, UNCHANGED hubEnv, NEW q \in Queries, Hub!QueryStep(q) \/ Hub!InstallPackage(q)
  PROVE  HubInv'
<1> USE HubAssumption DEF HubInv
<1>1. CASE Hub!Load(q)
  <2>1. /\ query' \in [Queries -> Hub!Query] /\ \A p \in Queries \ {q} : query'[p] = query[p]
        /\ query'[q].kind = query[q].kind
        /\ UNCHANGED <<list, listTime, uuid, saved, meta, metaTime, writing, used>>
        /\ hub' \in [version : Hub!Versions, ids : Nat]
        /\ query[q].pc = "load" /\ query'[q].pc \in {"register", "time", "permission", "done"}
    BY <1>1, QueryGoes, QueryEnds
    DEF Hub!Load, Hub!Listed, Pending, Hub!TypeOK, Hub!At, Stages, Hub!Query, Hub!Nothing,
        Hub!ContentTypeHubAssumption,
        Hub!cacheVars, Hub!idVars, Hub!metaVars
  <2>2. Hub!TypeOK'
    BY <2>1 DEF Hub!TypeOK, Hub!Query, Hub!Ids, Hub!Nothing, Hub!Time, Identity
  <2>3. Lists'
    BY <2>1 DEF Lists
  <2>4. OneQuery'
    BY <2>1 DEF OneQuery, Hub!Runs
  <2>5. Identity'
    BY <2>1 DEF Identity, Hub!Nothing, OneQuery, Hub!Runs
  <2>6. Metadata'
    BY <2>1 DEF Metadata, Hub!Runs, Pending, Hub!Nothing
  <2> QED BY <2>1, <2>2, <2>3, <2>4, <2>5, <2>6
<1>2. CASE Hub!IsOutdated(q)
  <2>1. /\ query' \in [Queries -> Hub!Query] /\ \A p \in Queries \ {q} : query'[p] = query[p]
        /\ query'[q].kind = query[q].kind
        /\ UNCHANGED <<list, listTime, uuid, saved, meta, metaTime, writing, used>>
        /\ hub' \in [version : Hub!Versions, ids : Nat]
        /\ query[q].pc = "time" /\ query'[q].pc \in {"register", "done"}
    BY <1>2, QueryGoes, QueryEnds
    DEF Hub!IsOutdated, Pending, Hub!TypeOK, Hub!At, Stages, Hub!Query, Hub!Nothing,
        Hub!ContentTypeHubAssumption,
        Hub!cacheVars, Hub!idVars, Hub!metaVars
  <2>2. Hub!TypeOK'
    BY <2>1 DEF Hub!TypeOK, Hub!Query, Hub!Ids, Hub!Nothing, Hub!Time, Identity
  <2>3. Lists'
    BY <2>1 DEF Lists
  <2>4. OneQuery'
    BY <2>1 DEF OneQuery, Hub!Runs
  <2>5. Identity'
    BY <2>1 DEF Identity, Hub!Nothing, OneQuery, Hub!Runs
  <2>6. Metadata'
    BY <2>1 DEF Metadata, Hub!Runs, Pending, Hub!Nothing
  <2> QED BY <2>1, <2>2, <2>3, <2>4, <2>5, <2>6
<1>3. CASE Hub!Register(q)
  <2>1. /\ query' \in [Queries -> Hub!Query] /\ \A p \in Queries \ {q} : query'[p] = query[p]
        /\ query'[q].kind = query[q].kind
        /\ UNCHANGED <<list, listTime, uuid, saved, meta, metaTime, writing, used>>
        /\ hub' \in [version : Hub!Versions, ids : Nat]
        /\ query[q].pc = "register"
        /\ query'[q].pc = IF uuid = Hub!Nothing THEN "response" ELSE "download"
    BY <1>3, QueryGoes, QueryEnds
    DEF Hub!Register, Pending, Hub!TypeOK, Hub!At, Stages, Hub!Query, Hub!Nothing,
        Hub!ContentTypeHubAssumption,
        Hub!cacheVars, Hub!idVars, Hub!metaVars
  <2>2. Hub!TypeOK'
    BY <2>1 DEF Hub!TypeOK, Hub!Query, Hub!Ids, Hub!Nothing, Hub!Time, Identity
  <2>3. Lists'
    BY <2>1 DEF Lists
  <2>4. OneQuery'
    BY <2>1 DEF OneQuery, Hub!Runs
  <2>5. Identity'
    BY <2>1 DEF Identity, Hub!Nothing, OneQuery, Hub!Runs
  <2>6. Metadata'
    BY <2>1 DEF Metadata, Hub!Runs, Pending, Hub!Nothing
  <2> QED BY <2>1, <2>2, <2>3, <2>4, <2>5, <2>6
<1>4. CASE Hub!Registered(q)
  <2>1. /\ query' \in [Queries -> Hub!Query] /\ \A p \in Queries \ {q} : query'[p] = query[p]
        /\ query'[q].kind = query[q].kind
        /\ UNCHANGED <<list, listTime, saved, meta, metaTime, writing, used>>
        /\ hub' \in [version : Hub!Versions, ids : Nat]
        /\ query[q].pc = "response" /\ query'[q].pc = "save"
        /\ uuid' \in Nat \ {0}
    BY <1>4, QueryGoes, QueryEnds
    DEF Hub!Registered, Hub!Ids, Pending, Hub!TypeOK, Hub!At, Stages, Hub!Query, Hub!Nothing,
        Hub!ContentTypeHubAssumption,
        Hub!cacheVars, Hub!idVars, Hub!metaVars
  <2>2. Hub!TypeOK'
    BY <2>1 DEF Hub!TypeOK, Hub!Query, Hub!Ids, Hub!Nothing, Hub!Time, Identity
  <2>3. Lists'
    BY <2>1 DEF Lists
  <2>4. OneQuery'
    BY <2>1 DEF OneQuery, Hub!Runs
  <2>5. Identity'
    BY <2>1 DEF Identity, Hub!Nothing, OneQuery, Hub!Runs
  <2>6. Metadata'
    BY <2>1 DEF Metadata, Hub!Runs, Pending, Hub!Nothing
  <2> QED BY <2>1, <2>2, <2>3, <2>4, <2>5, <2>6
<1>5. CASE Hub!SaveConfig(q)
  <2>1. /\ query' \in [Queries -> Hub!Query] /\ \A p \in Queries \ {q} : query'[p] = query[p]
        /\ query'[q].kind = query[q].kind
        /\ UNCHANGED <<list, listTime, uuid, meta, metaTime, writing, used>>
        /\ hub' \in [version : Hub!Versions, ids : Nat]
        /\ query[q].pc = "save" /\ query'[q].pc = "download"
        /\ saved' = uuid
    BY <1>5, QueryGoes, QueryEnds
    DEF Hub!SaveConfig, Pending, Hub!TypeOK, Hub!At, Stages, Hub!Query, Hub!Nothing,
        Hub!ContentTypeHubAssumption,
        Hub!cacheVars, Hub!idVars, Hub!metaVars
  <2>2. Hub!TypeOK'
    BY <2>1 DEF Hub!TypeOK, Hub!Query, Hub!Ids, Hub!Nothing, Hub!Time, Identity
  <2>3. Lists'
    BY <2>1 DEF Lists
  <2>4. OneQuery'
    BY <2>1 DEF OneQuery, Hub!Runs
  <2>5. Identity'
    BY <2>1 DEF Identity, Hub!Nothing, OneQuery, Hub!Runs, Hub!TypeOK, Hub!Ids
  <2>6. Metadata'
    BY <2>1 DEF Metadata, Hub!Runs, Pending, Hub!Nothing
  <2> QED BY <2>1, <2>2, <2>3, <2>4, <2>5, <2>6
<1>6. CASE Hub!Download(q)
  <2>1. /\ query' \in [Queries -> Hub!Query] /\ \A p \in Queries \ {q} : query'[p] = query[p]
        /\ query'[q].kind = query[q].kind
        /\ UNCHANGED <<list, listTime, uuid, saved, meta, metaTime, writing>>
        /\ hub' \in [version : Hub!Versions, ids : Nat]
        /\ query[q].pc = "download" /\ query'[q].pc = "list"
        /\ query'[q].got # Hub!Nothing
        /\ used' = used \cup {uuid}
    <3>1. hub.version \in Hub!Versions /\ hub.version # Hub!Nothing
      BY DEF Hub!TypeOK, Hub!Versions, Hub!Nothing, Hub!ContentTypeHubAssumption
    <3>2. Hub!Becomes(q, [query[q] EXCEPT !.pc = "list", !.got = hub.version])
      BY <1>6 DEF Hub!Download
    <3>3. /\ query' \in [Queries -> Hub!Query] /\ \A p \in Queries \ {q} : query'[p] = query[p]
          /\ query'[q].pc = "list" /\ query'[q].kind = query[q].kind
          /\ query'[q].got = hub.version
      BY <3>1, <3>2 DEF Hub!Becomes, Hub!Query, Hub!TypeOK
    <3> QED BY <1>6, <3>1, <3>3
    DEF Hub!Download, Hub!At, Hub!cacheVars, Hub!idVars, Hub!metaVars, Hub!TypeOK
  <2>2. Hub!TypeOK'
    BY <2>1 DEF Hub!TypeOK, Hub!Query, Hub!Ids, Hub!Nothing, Hub!Time, Identity
  <2>3. Lists'
    BY <2>1 DEF Lists
  <2>4. OneQuery'
    BY <2>1 DEF OneQuery, Hub!Runs
  <2>5. Identity'
    BY <2>1 DEF Identity, Hub!Nothing, OneQuery, Hub!Runs
  <2>6. Metadata'
    BY <2>1 DEF Metadata, Hub!Runs, Pending, Hub!Nothing
  <2> QED BY <2>1, <2>2, <2>3, <2>4, <2>5, <2>6
<1>7. CASE Hub!SaveList(q)
  <2>1. /\ query' \in [Queries -> Hub!Query] /\ \A p \in Queries \ {q} : query'[p] = query[p]
        /\ query'[q].kind = query[q].kind
        /\ UNCHANGED <<listTime, uuid, saved, meta, metaTime, writing, used>>
        /\ hub' \in [version : Hub!Versions, ids : Nat]
        /\ query[q].pc = "list" /\ query'[q].pc = "listTime"
        /\ query'[q].got = query[q].got /\ list' = query[q].got
    BY <1>7, QueryGoes, QueryEnds
    DEF Hub!SaveList, Pending, Hub!TypeOK, Hub!At, Stages, Hub!Query, Hub!Nothing,
        Hub!ContentTypeHubAssumption,
        Hub!cacheVars, Hub!idVars, Hub!metaVars
  <2>2. Hub!TypeOK'
    BY <2>1 DEF Hub!TypeOK, Hub!Query, Hub!Ids, Hub!Nothing, Hub!Time, Identity
  <2>3. Lists'
    BY <2>1 DEF Lists
  <2>4. OneQuery'
    BY <2>1 DEF OneQuery, Hub!Runs
  <2>5. Identity'
    BY <2>1 DEF Identity, Hub!Nothing, OneQuery, Hub!Runs
  <2>6. Metadata'
    BY <2>1 DEF Metadata, Hub!Runs, Pending, Hub!Nothing
  <2> QED BY <2>1, <2>2, <2>3, <2>4, <2>5, <2>6
<1>8. CASE Hub!SaveListTime(q)
  <2>1. /\ query' \in [Queries -> Hub!Query] /\ \A p \in Queries \ {q} : query'[p] = query[p]
        /\ query'[q].kind = query[q].kind
        /\ UNCHANGED <<list, uuid, saved, meta, metaTime, writing, used>>
        /\ hub' \in [version : Hub!Versions, ids : Nat]
        /\ query[q].pc = "listTime" /\ query'[q].pc \in {"permission", "done"}
        /\ listTime' = "recent"
    BY <1>8, QueryGoes, QueryEnds
    DEF Hub!SaveListTime, Hub!Listed, Pending, Hub!TypeOK, Hub!At, Stages, Hub!Query,
        Hub!Nothing, Hub!ContentTypeHubAssumption,
        Hub!cacheVars, Hub!idVars, Hub!metaVars
  <2>2. Hub!TypeOK'
    BY <2>1 DEF Hub!TypeOK, Hub!Query, Hub!Ids, Hub!Nothing, Hub!Time, Identity
  <2>3. Lists'
    BY <2>1 DEF Lists
  <2>4. OneQuery'
    BY <2>1 DEF OneQuery, Hub!Runs
  <2>5. Identity'
    BY <2>1 DEF Identity, Hub!Nothing, OneQuery, Hub!Runs
  <2>6. Metadata'
    BY <2>1 DEF Metadata, Hub!Runs, Pending, Hub!Nothing
  <2> QED BY <2>1, <2>2, <2>3, <2>4, <2>5, <2>6
<1>9. CASE Hub!FailToUpdate(q)
  <2>1. /\ query' \in [Queries -> Hub!Query] /\ \A p \in Queries \ {q} : query'[p] = query[p]
        /\ query'[q].kind = query[q].kind
        /\ UNCHANGED <<list, listTime, uuid, saved, meta, metaTime, writing, used>>
        /\ hub' \in [version : Hub!Versions, ids : Nat]
        /\ query[q].pc \notin {"new", "done"} /\ query'[q].pc = "done" /\ "ioerror" \in hubEnv
    BY <1>9, QueryGoes, QueryEnds
    DEF Hub!FailToUpdate, Pending, Hub!TypeOK, Hub!At, Stages, Hub!Query, Hub!Nothing,
        Hub!ContentTypeHubAssumption,
        Hub!cacheVars, Hub!idVars, Hub!metaVars
  <2>2. Hub!TypeOK'
    BY <2>1 DEF Hub!TypeOK, Hub!Query, Hub!Ids, Hub!Nothing, Hub!Time, Identity
  <2>3. Lists'
    BY <2>1 DEF Lists
  <2>4. OneQuery'
    BY <2>1 DEF OneQuery, Hub!Runs
  <2>5. Identity'
    BY <2>1 DEF Identity, Hub!Nothing, OneQuery, Hub!Runs
  <2>6. Metadata'
    BY <2>1 DEF Metadata, Hub!Runs, Pending, Hub!Nothing
  <2> QED BY <2>1, <2>2, <2>3, <2>4, <2>5, <2>6
<1>10. CASE Hub!LoadMetadataTime(q)
  <2>1. /\ query' \in [Queries -> Hub!Query] /\ \A p \in Queries \ {q} : query'[p] = query[p]
        /\ query'[q].kind = query[q].kind
        /\ UNCHANGED <<list, listTime, uuid, saved, meta, metaTime, writing, used>>
        /\ hub' \in [version : Hub!Versions, ids : Nat]
        /\ query[q].pc = "metaTime"
        /\ \/ query'[q].pc = "done" /\ metaTime = "recent" /\ query'[q].answer = meta
           \/ query'[q].pc = "request" /\ query'[q].time = metaTime
    <3>1. /\ query[q].pc = "metaTime"
          /\ UNCHANGED <<Hub!cacheVars, Hub!idVars, Hub!metaVars, hub, used>>
      BY <1>10 DEF Hub!LoadMetadataTime, Hub!At
    <3>2. CASE metaTime = "recent"
      <4>1. Hub!Answer(q, meta) /\ meta \in {Hub!Nothing} \cup Hub!Versions
        BY <1>10, <3>2 DEF Hub!LoadMetadataTime, Hub!TypeOK
      <4>2. /\ query' \in [Queries -> Hub!Query] /\ \A p \in Queries \ {q} : query'[p] = query[p]
            /\ query'[q].pc = "done" /\ query'[q].kind = query[q].kind
            /\ query'[q].answer = meta
        BY <4>1, QueryEnds
      <4>3. UNCHANGED <<list, listTime, uuid, saved, meta, metaTime, writing, used, hub>>
        BY <3>1 DEF Hub!cacheVars, Hub!idVars, Hub!metaVars, Hub!TypeOK
      <4>4. hub' \in [version : Hub!Versions, ids : Nat]
        BY <4>3 DEF Hub!TypeOK
      <4> QED BY <3>1, <3>2, <4>2, <4>3, <4>4
    <3>3. CASE metaTime # "recent"
      <4>1. Hub!Becomes(q, [query[q] EXCEPT !.pc = "request", !.time = metaTime])
        BY <1>10, <3>3 DEF Hub!LoadMetadataTime
      <4> QED BY ZenonT(40), <3>1, <4>1
      DEF Hub!Becomes, Hub!Query, Hub!cacheVars, Hub!idVars, Hub!metaVars, Hub!TypeOK
    <3> QED BY <3>2, <3>3
  <2>2. Hub!TypeOK'
    BY <2>1 DEF Hub!TypeOK, Hub!Query, Hub!Ids, Hub!Nothing, Hub!Time, Identity
  <2>3. Lists'
    BY <2>1 DEF Lists
  <2>4. OneQuery'
    BY <2>1 DEF OneQuery, Hub!Runs
  <2>5. Identity'
    BY <2>1 DEF Identity, Hub!Nothing, OneQuery, Hub!Runs
  <2>6. Metadata'
    BY <2>1 DEF Metadata, Hub!Runs, Pending, Hub!Nothing
  <2> QED BY <2>1, <2>2, <2>3, <2>4, <2>5, <2>6
<1>11. CASE Hub!Request(q)
  <2>1. /\ query' \in [Queries -> Hub!Query] /\ \A p \in Queries \ {q} : query'[p] = query[p]
        /\ query'[q].kind = query[q].kind
        /\ UNCHANGED <<list, listTime, uuid, saved, meta, metaTime, writing, used>>
        /\ hub' \in [version : Hub!Versions, ids : Nat]
        /\ query[q].pc = "request" /\ query'[q].pc = "received" /\ query'[q].time = query[q].time
        /\ query[q].time = "never" => query'[q].got # Hub!Nothing
    <3>1. /\ query[q].pc = "request"
          /\ UNCHANGED <<Hub!cacheVars, Hub!idVars, Hub!metaVars, hub, used>>
      BY <1>11 DEF Hub!Request, Hub!At
    <3>2. CASE query[q].time # "never" /\ Hub!Goto(q, "received")
      BY <3>1, <3>2, QueryGoes DEF Stages, Hub!cacheVars, Hub!idVars, Hub!metaVars, Hub!TypeOK
    <3>3. CASE Hub!Becomes(q, [query[q] EXCEPT !.pc = "received", !.got = hub.version])
      <4>1. hub.version \in Hub!Versions /\ hub.version # Hub!Nothing
        BY DEF Hub!TypeOK, Hub!Versions, Hub!Nothing, Hub!ContentTypeHubAssumption
      <4>2. /\ query' \in [Queries -> Hub!Query] /\ \A p \in Queries \ {q} : query'[p] = query[p]
            /\ query'[q].pc = "received" /\ query'[q].kind = query[q].kind
            /\ query'[q].time = query[q].time /\ query'[q].got = hub.version
        BY <3>3, <4>1 DEF Hub!Becomes, Hub!Query, Hub!TypeOK
      <4> QED BY <3>1, <4>1, <4>2 DEF Hub!cacheVars, Hub!idVars, Hub!metaVars, Hub!TypeOK
    <3> QED BY <1>11, <3>2, <3>3 DEF Hub!Request
  <2>2. Hub!TypeOK'
    BY <2>1 DEF Hub!TypeOK, Hub!Query, Hub!Ids, Hub!Nothing, Hub!Time, Identity
  <2>3. Lists'
    BY <2>1 DEF Lists
  <2>4. OneQuery'
    BY <2>1 DEF OneQuery, Hub!Runs
  <2>5. Identity'
    BY <2>1 DEF Identity, Hub!Nothing, OneQuery, Hub!Runs
  <2>6. Metadata'
    BY <2>1 DEF Metadata, Hub!Runs, Pending, Hub!Nothing
  <2> QED BY <2>1, <2>2, <2>3, <2>4, <2>5, <2>6
<1>12. CASE Hub!Receive(q)
  <2>1. /\ query' \in [Queries -> Hub!Query] /\ \A p \in Queries \ {q} : query'[p] = query[p]
        /\ query'[q].kind = query[q].kind
        /\ UNCHANGED <<list, listTime, uuid, saved, meta, metaTime, used>>
        /\ hub' \in [version : Hub!Versions, ids : Nat]
        /\ query[q].pc = "received" /\ query'[q].pc = "done"
        /\ query'[q].answer = IF query[q].got = Hub!Nothing THEN meta ELSE query[q].got
        /\ query[q].got # Hub!Nothing => Pending("meta", writing')
        /\ Pending("meta", writing) => Pending("meta", writing')
        /\ writing' \subseteq Hub!Write
    <3> DEFINE got == query[q].got
    <3>1. /\ query[q].pc = "received" /\ writing' = writing \cup Hub!Saves(q)
          /\ Hub!Answer(q, IF got = Hub!Nothing THEN meta ELSE got)
          /\ UNCHANGED <<list, listTime, uuid, saved, meta, metaTime, hub, used>>
      BY <1>12 DEF Hub!Receive, Hub!At, Hub!cacheVars, Hub!idVars
    <3>2. /\ got \in {Hub!Nothing} \cup Hub!Versions /\ meta \in {Hub!Nothing} \cup Hub!Versions
          /\ hub.version \in Hub!Versions
      BY DEF Hub!TypeOK, Hub!Query
    <3>3. /\ Hub!Saves(q) \subseteq Hub!Write
          /\ got # Hub!Nothing => <<"meta", got>> \in Hub!Saves(q)
      BY <3>2 DEF Hub!Saves, Hub!Write
    <3>4. /\ got # Hub!Nothing => Pending("meta", writing')
          /\ Pending("meta", writing) => Pending("meta", writing')
      BY <3>1, <3>3 DEF Pending
    <3> HIDE DEF got
    <3>5. (IF got = Hub!Nothing THEN meta ELSE got) \in {Hub!Nothing} \cup Hub!Versions
      BY <3>2
    <3>6. /\ query' \in [Queries -> Hub!Query] /\ \A p \in Queries \ {q} : query'[p] = query[p]
          /\ query'[q].pc = "done" /\ query'[q].kind = query[q].kind
          /\ query'[q].answer = IF got = Hub!Nothing THEN meta ELSE got
      BY <3>1, <3>5, QueryEnds
    <3> QED BY <3>1, <3>3, <3>4, <3>6 DEF Hub!TypeOK, got
  <2>2. Hub!TypeOK'
    BY <2>1 DEF Hub!TypeOK, Hub!Query, Hub!Ids, Hub!Nothing, Hub!Time, Identity
  <2>3. Lists'
    BY <2>1 DEF Lists
  <2>4. OneQuery'
    BY <2>1 DEF OneQuery, Hub!Runs
  <2>5. Identity'
    BY <2>1 DEF Identity, Hub!Nothing, OneQuery, Hub!Runs
  <2>6. Metadata'
    <3> SUFFICES ASSUME hubEnv = {}
                 PROVE  Metadata'
      BY DEF Metadata
    <3>1. \A p \in Queries : Hub!Runs(p) => p = q
      BY <2>1 DEF OneQuery, Hub!Runs
    <3>2. \A p \in Queries : ~Hub!Runs(p)'
      BY <2>1, <3>1 DEF Hub!Runs
    <3>3. query[q].got = Hub!Nothing => meta # Hub!Nothing
      BY <2>1 DEF Metadata
    <3> QED BY <2>1, <3>2, <3>3 DEF Metadata, Hub!Runs
  <2> QED BY <2>1, <2>2, <2>3, <2>4, <2>5, <2>6
<1>13. CASE Hub!FailToRequest(q)
  <2>1. /\ query' \in [Queries -> Hub!Query] /\ \A p \in Queries \ {q} : query'[p] = query[p]
        /\ query'[q].kind = query[q].kind
        /\ UNCHANGED <<list, listTime, uuid, saved, meta, metaTime, writing, used>>
        /\ hub' \in [version : Hub!Versions, ids : Nat]
        /\ query[q].pc = "request" /\ query'[q].pc = "done" /\ "ioerror" \in hubEnv
    BY <1>13, QueryGoes, QueryEnds
    DEF Hub!FailToRequest, Pending, Hub!TypeOK, Hub!At, Stages, Hub!Query, Hub!Nothing,
        Hub!ContentTypeHubAssumption,
        Hub!cacheVars, Hub!idVars, Hub!metaVars
  <2>2. Hub!TypeOK'
    BY <2>1 DEF Hub!TypeOK, Hub!Query, Hub!Ids, Hub!Nothing, Hub!Time, Identity
  <2>3. Lists'
    BY <2>1 DEF Lists
  <2>4. OneQuery'
    BY <2>1 DEF OneQuery, Hub!Runs
  <2>5. Identity'
    BY <2>1 DEF Identity, Hub!Nothing, OneQuery, Hub!Runs
  <2>6. Metadata'
    BY <2>1 DEF Metadata, Hub!Runs, Pending, Hub!Nothing
  <2> QED BY <2>1, <2>2, <2>3, <2>4, <2>5, <2>6
<1>14. CASE Hub!CheckPermission(q)
  <2>1. /\ query' \in [Queries -> Hub!Query] /\ \A p \in Queries \ {q} : query'[p] = query[p]
        /\ query'[q].kind = query[q].kind
        /\ UNCHANGED <<list, listTime, uuid, saved, meta, metaTime, writing, used>>
        /\ hub' \in [version : Hub!Versions, ids : Nat]
        /\ query[q].pc = "permission" /\ query'[q].pc \in {"package", "done"}
    BY <1>14, QueryGoes, QueryEnds
    DEF Hub!CheckPermission, Pending, Hub!TypeOK, Hub!At, Stages, Hub!Query, Hub!Nothing,
        Hub!ContentTypeHubAssumption,
        Hub!cacheVars, Hub!idVars, Hub!metaVars
  <2>2. Hub!TypeOK'
    BY <2>1 DEF Hub!TypeOK, Hub!Query, Hub!Ids, Hub!Nothing, Hub!Time, Identity
  <2>3. Lists'
    BY <2>1 DEF Lists
  <2>4. OneQuery'
    BY <2>1 DEF OneQuery, Hub!Runs
  <2>5. Identity'
    BY <2>1 DEF Identity, Hub!Nothing, OneQuery, Hub!Runs
  <2>6. Metadata'
    BY <2>1 DEF Metadata, Hub!Runs, Pending, Hub!Nothing
  <2> QED BY <2>1, <2>2, <2>3, <2>4, <2>5, <2>6
<1>15. CASE Hub!DownloadPackage(q)
  <2>1. /\ query' \in [Queries -> Hub!Query] /\ \A p \in Queries \ {q} : query'[p] = query[p]
        /\ query'[q].kind = query[q].kind
        /\ UNCHANGED <<list, listTime, uuid, saved, meta, metaTime, writing, used>>
        /\ hub' \in [version : Hub!Versions, ids : Nat]
        /\ query[q].pc = "package" /\ query'[q].pc \in {"import", "done"}
    BY <1>15, QueryGoes, QueryEnds
    DEF Hub!DownloadPackage, Pending, Hub!TypeOK, Hub!At, Stages, Hub!Query, Hub!Nothing,
        Hub!ContentTypeHubAssumption,
        Hub!cacheVars, Hub!idVars, Hub!metaVars
  <2>2. Hub!TypeOK'
    BY <2>1 DEF Hub!TypeOK, Hub!Query, Hub!Ids, Hub!Nothing, Hub!Time, Identity
  <2>3. Lists'
    BY <2>1 DEF Lists
  <2>4. OneQuery'
    BY <2>1 DEF OneQuery, Hub!Runs
  <2>5. Identity'
    BY <2>1 DEF Identity, Hub!Nothing, OneQuery, Hub!Runs
  <2>6. Metadata'
    BY <2>1 DEF Metadata, Hub!Runs, Pending, Hub!Nothing
  <2> QED BY <2>1, <2>2, <2>3, <2>4, <2>5, <2>6
<1>16. CASE Hub!InstallPackage(q)
  <2>1. /\ query' \in [Queries -> Hub!Query] /\ \A p \in Queries \ {q} : query'[p] = query[p]
        /\ query'[q].kind = query[q].kind
        /\ UNCHANGED <<list, listTime, uuid, saved, meta, metaTime, writing, used>>
        /\ hub' \in [version : Hub!Versions, ids : Nat]
        /\ query[q].pc = "import" /\ query'[q].pc = "done"
    BY <1>16, QueryGoes, QueryEnds
    DEF Hub!InstallPackage, Pending, Hub!TypeOK, Hub!At, Stages, Hub!Query, Hub!Nothing,
        Hub!ContentTypeHubAssumption,
        Hub!cacheVars, Hub!idVars, Hub!metaVars
  <2>2. Hub!TypeOK'
    BY <2>1 DEF Hub!TypeOK, Hub!Query, Hub!Ids, Hub!Nothing, Hub!Time, Identity
  <2>3. Lists'
    BY <2>1 DEF Lists
  <2>4. OneQuery'
    BY <2>1 DEF OneQuery, Hub!Runs
  <2>5. Identity'
    BY <2>1 DEF Identity, Hub!Nothing, OneQuery, Hub!Runs
  <2>6. Metadata'
    BY <2>1 DEF Metadata, Hub!Runs, Pending, Hub!Nothing
  <2> QED BY <2>1, <2>2, <2>3, <2>4, <2>5, <2>6
<1> QED BY <1>1, <1>2, <1>3, <1>4, <1>5, <1>6, <1>7, <1>8, <1>9, <1>10, <1>11, <1>12, <1>13,
<1>14, <1>15, <1>16 DEF Hub!QueryStep
\* A query begins.
LEMMA BeginInv ==
  ASSUME HubInv, UNCHANGED hubEnv, NEW q \in Queries, NEW kind \in Hub!Kinds, Hub!Begin(q, kind)
  PROVE  HubInv'
<1> USE DEF HubInv
<1> DEFINE pc == IF kind = "metadata" THEN "metaTime" ELSE "load"
           new == [Hub!NewQuery EXCEPT !.kind = kind, !.pc = pc]
<1>1. new \in Hub!Query
  <2>1. Hub!NewQuery \in Hub!Query
    BY DEF Hub!NewQuery, Hub!Query, Hub!Kinds, Hub!Time
  <2> QED BY <2>1 DEF Hub!Query
<1>2. new.pc = pc /\ new.kind = kind
  BY DEF Hub!NewQuery
<1>3. /\ query[q].pc = "new" /\ query' = [query EXCEPT ![q] = new]
      /\ "overlap" \notin hubEnv => \A p \in Queries : ~Hub!Runs(p)
      /\ "lateWrites" \notin hubEnv => writing = {}
      /\ UNCHANGED <<list, listTime, uuid, saved, meta, metaTime, writing, hub, used>>
  BY DEF Hub!Begin, Hub!At, Hub!Becomes, Hub!cacheVars, Hub!idVars, Hub!metaVars
<1> HIDE DEF new
<1>4. /\ query' \in [Queries -> Hub!Query] /\ \A p \in Queries \ {q} : query'[p] = query[p]
      /\ query'[q].pc = pc /\ query'[q].kind = kind
  BY <1>1, <1>2, <1>3 DEF Hub!TypeOK
<1>5. pc \in {"metaTime", "load"} /\ (kind = "metadata" => pc = "metaTime")
  OBVIOUS
<1> HIDE DEF pc
<1>6. Hub!TypeOK'
  BY <1>3, <1>4 DEF Hub!TypeOK
<1>7. Lists'
  BY <1>3, <1>4, <1>5 DEF Lists
<1>8. OneQuery'
  BY <1>3, <1>4, <1>5 DEF OneQuery, Hub!Runs
<1>9. Identity'
  BY <1>3, <1>4, <1>5 DEF Identity
<1>10. Metadata'
  BY <1>3, <1>4, <1>5 DEF Metadata, Hub!Runs
<1> QED BY <1>6, <1>7, <1>8, <1>9, <1>10

\* A write of the metadata or of their time is done, or fails.
LEMMA WriteInv ==
  ASSUME HubInv, UNCHANGED hubEnv, Hub!EndWrite \/ Hub!FailToWrite
  PROVE  HubInv'
<1> USE DEF HubInv
<1>1. PICK w \in writing :
        /\ writing' = writing \ {w}
        /\ UNCHANGED <<list, listTime, uuid, saved, hub, used, query>>
        /\ \/ w[1] = "meta" /\ meta' = w[2] /\ metaTime' = metaTime
           \/ w[1] # "meta" /\ meta' = meta /\ metaTime' = "recent"
           \/ "ioerror" \in hubEnv /\ UNCHANGED <<meta, metaTime>>
  BY DEF Hub!EndWrite, Hub!FailToWrite, Hub!cacheVars, Hub!idVars
<1>2. w[1] \in {"meta", "time"} /\ w[2] \in Hub!Versions /\ w[2] # Hub!Nothing
  BY HubAssumption
  DEF Hub!ContentTypeHubAssumption, Hub!TypeOK, Hub!Write, Hub!Versions, Hub!Nothing
<1>3. Hub!TypeOK'
  BY <1>1, <1>2 DEF Hub!TypeOK, Hub!Time
<1>4. Lists' /\ OneQuery' /\ Identity'
  BY <1>1 DEF Lists, OneQuery, Identity, Hub!Runs
<1>5. Metadata'
  <2> SUFFICES ASSUME hubEnv = {} PROVE Metadata'
    BY DEF Metadata
  <2>1. \A q \in Queries : ~Hub!Runs(q) /\ ~Hub!Runs(q)'
    BY <1>1 DEF Metadata, Hub!Runs
  <2>2. \A q \in Queries : query'[q].pc \notin {"request", "received"}
    BY <1>1, <2>1 DEF Hub!Runs
  <2>3. Pending("meta", writing) => meta' # Hub!Nothing \/ Pending("meta", writing')
    BY <1>1, <1>2 DEF Pending
  <2>4. meta # Hub!Nothing => meta' # Hub!Nothing
    BY <1>1, <1>2
  <2>5. metaTime' # "never" \/ Pending("time", writing')
          => metaTime # "never" \/ Pending("time", writing)
    BY <1>1, <1>2 DEF Pending
  <2> QED BY <1>1, <2>1, <2>2, <2>3, <2>4, <2>5 DEF Metadata
<1> QED BY <1>1, <1>3, <1>4, <1>5

\* The hub offers something new, time passes.
LEMMA TimeInv ==
  ASSUME HubInv, UNCHANGED hubEnv, Hub!HubChanges \/ Hub!Tick
  PROVE  HubInv'
<1> USE DEF HubInv
<1>1. /\ UNCHANGED <<list, uuid, saved, meta, writing, used, query>>
      /\ listTime' \in Hub!Time /\ (listTime' = "never" <=> listTime = "never")
      /\ metaTime' \in Hub!Time /\ (metaTime' = "never" <=> metaTime = "never")
      /\ hub' \in [version : Hub!Versions, ids : Nat]
  BY HubAssumption
  DEF Hub!ContentTypeHubAssumption, Hub!HubChanges, Hub!Tick, Hub!Aged, Hub!TypeOK, Hub!Time,
      Hub!Versions, Hub!cacheVars, Hub!idVars, Hub!metaVars
<1>2. Hub!TypeOK'
  BY <1>1 DEF Hub!TypeOK
<1>3. Lists' /\ OneQuery' /\ Identity'
  BY <1>1 DEF Lists, OneQuery, Identity, Hub!Runs
<1>4. Metadata'
  BY <1>1 DEF Metadata, Hub!Runs
<1> QED BY <1>2, <1>3, <1>4

\* The process stops and starts again.
LEMMA RestartInv ==
  ASSUME HubInv, UNCHANGED hubEnv, Hub!Restart
  PROVE  HubInv'
<1> USE DEF HubInv
<1>1. /\ UNCHANGED <<list, listTime, saved, meta, metaTime, hub, used>>
      /\ uuid' = saved /\ writing' = {} /\ "crash" \in hubEnv
      /\ query' = [q \in Queries |-> IF Hub!Runs(q) THEN [Hub!NewQuery EXCEPT !.pc = "done"]
                                     ELSE query[q]]
  BY DEF Hub!Restart, Hub!cacheVars
<1>2. [Hub!NewQuery EXCEPT !.pc = "done"] \in Hub!Query
  <2>1. Hub!NewQuery \in Hub!Query
    BY DEF Hub!NewQuery, Hub!Query, Hub!Kinds, Hub!Time
  <2> QED BY <2>1 DEF Hub!Query
<1>3. [Hub!NewQuery EXCEPT !.pc = "done"].pc = "done"
  BY DEF Hub!NewQuery
<1>4. query' \in [Queries -> Hub!Query] /\ \A q \in Queries : query'[q].pc \in {"new", "done"}
  BY <1>1, <1>2, <1>3 DEF Hub!TypeOK, Hub!Runs
<1>5. Hub!TypeOK'
  BY <1>1, <1>4 DEF Hub!TypeOK
<1>6. Lists' /\ OneQuery' /\ Identity'
  BY <1>1, <1>4 DEF Lists, OneQuery, Identity, Hub!Runs
<1>7. Metadata'
  BY <1>1 DEF Metadata
<1> QED BY <1>1, <1>5, <1>6, <1>7

LEMMA HubNextInv == HubInv /\ [Hub!Next]_(Hub!vars) => HubInv'
<1> SUFFICES ASSUME HubInv, [Hub!Next]_(Hub!vars)
             PROVE  HubInv'
  OBVIOUS
<1>1. CASE UNCHANGED Hub!vars
  BY <1>1 DEF Hub!vars, HubInv, Hub!TypeOK, Lists, OneQuery, Identity, Metadata, Hub!Runs
<1>2. CASE Hub!Next
  BY <1>2, QueryStepInv, BeginInv, WriteInv, TimeInv, RestartInv DEF Hub!Next, Hub!Step
<1> QED BY <1>1, <1>2

\* What ContentTypeHub keeps: the update time follows the lists, one identity in use,
\* and no query looks for metadata that nothing has written.
THEOREM HubInvariant == Hub!Spec => []HubInv
BY HubInit, HubNextInv, PTL DEF Hub!Spec
-----------------------------------------------------------------------------
(* The packages: proofs *)

LEMMA NewJobHasType == NewJob \in Job
<1>1. EmptyPackage \in Package
  BY DEF EmptyPackage, Package, NoNeeds, Needs
<1> QED BY <1>1 DEF NewJob, Job

LEMMA PackagesInit == Init => PackageInv
<1> SUFFICES ASSUME Init PROVE PackageInv
  OBVIOUS
<1>1. /\ lost = {} /\ dirs = {} /\ exported = NoPackage /\ env \in Environments
      /\ temporary \in [Requests -> SUBSET Files]
      /\ \A r \in Requests : job[r] = NewJob
      /\ job \in [Requests -> Job]
  BY NewJobHasType DEF Init
<1>2. \A r \in Requests : job[r].pc = "new" /\ ~Leftover(job[r])
  BY <1>1 DEF NewJob, Leftover
<1> DEFINE Good == /\ installed \subseteq Libraries /\ content \in [Contents -> Directory]
                   /\ \A c \in Contents : content[c].known =>
                        content[c].there /\ AllNeeds(content[c].needs) \subseteq installed
<1>3. Good
  <2>1. NoDirectory \in Directory /\ ~NoDirectory.known
    BY DEF NoDirectory, Directory, NoNeeds, Needs
  <2>2. CASE installed = {} /\ content = [c \in Contents |-> NoDirectory]
    BY <2>1, <2>2
  <2>3. ASSUME NEW p \in Packages, NEW c \in Contents,
               AllNeeds(p.needs) \subseteq p.libs, installed = p.libs,
               content = [[d \in Contents |-> NoDirectory] EXCEPT ![c] = Imported(p)]
        PROVE  Good
    <3>1. p \in Package
      BY PackageServerAssumption DEF PackageServerAssumption
    <3>2. /\ Imported(p) \in Directory /\ Imported(p).there
          /\ Imported(p).needs = p.needs /\ p.libs \subseteq Libraries
      BY <3>1 DEF Imported, Package, Directory
    <3> QED BY <2>1, <2>3, <3>2
  <2> QED BY <2>2, <2>3 DEF Init
<1>4. TypeOK
  BY <1>1, <1>3 DEF TypeOK
<1>5. Directories /\ DeletionAlone /\ OneRequestPerContent
  BY <1>1, <1>2
  DEF Directories, DeletionAlone, OneRequestPerContent, Runs, Active, Deletes, Deletion
<1>6. \A r \in Requests : RequestInv(job[r], installed, lost, content, env)
  BY <1>2
  DEF RequestInv, RequirementsMet, DeletionSafe, ExportComplete, Progress, Import, Export, Deletion, Deletion
<1>7. ContentHasItsLibraries
  BY <1>3 DEF ContentHasItsLibraries
<1> QED BY <1>1, <1>4, <1>5, <1>6, <1>7 DEF PackageInv

\* A request goes on from x to y.
Follows(x, y) ==
  /\ x.pc # "new" /\ y.pc # "new"
  /\ y.pc # "done" => x.pc # "done" /\ y.content = x.content
  /\ y.pc \in Deletion => x.pc \in Deletion
  /\ y.pc \in Import <=> x.pc \in Import
  /\ y.pc = "done" /\ Leftover(y) => Leftover(x)

LEMMA OthersStay ==
  ASSUME TypeOK, NEW r \in Requests, NEW y \in Job, Becomes(r, y)
  PROVE  /\ job' \in [Requests -> Job] /\ job'[r] = y
         /\ \A q \in Requests \ {r} : job'[q] = job[q]
BY DEF TypeOK, Becomes

\* What a request that goes on leaves as it is.
LEMMA FollowsKeeps ==
  ASSUME PackageInv, UNCHANGED <<dirs, env>>,
         NEW r \in Requests, NEW y \in Job, Becomes(r, y), Follows(job[r], y)
  PROVE  Directories' /\ OneRequestPerContent'
<1> USE DEF PackageInv
<1>1. /\ job' \in [Requests -> Job] /\ job'[r] = y
      /\ \A q \in Requests \ {r} : job'[q] = job[q]
  BY OthersStay
<1>2. Directories'
  BY <1>1 DEF Directories, Follows, TypeOK
<1>3. OneRequestPerContent'
  BY <1>1 DEF OneRequestPerContent, Follows, Runs
<1> QED BY <1>2, <1>3

\* Between two local states of a request nothing but its steady libraries has changed.
Stays(x, z) == /\ z.pc = x.pc /\ z.content = x.content /\ z.libs = x.libs
               /\ z.changing = x.changing /\ z.files = x.files /\ z.open = x.open

\* A step of a request, whatever it changes, part by part.
LEMMA AnyStep ==
  ASSUME PackageInv, UNCHANGED env, NEW r \in Requests, NEW y \in Job,
         job' \in [Requests -> Job], job'[r] = y,
         \A q \in Requests \ {r} : Stays(job[q], job'[q]),
         installed' \subseteq Libraries, lost' \subseteq Libraries,
         content' \in [Contents -> Directory],
         \A c \in Contents : content'[c].known => content'[c].there,
         temporary' \in [Requests -> SUBSET Files], dirs' \subseteq Requests,
         Directories', OneRequestPerContent',
         y.pc \in Deletion => job[r].pc \in Deletion,
         Active(y) => Active(job[r]),
         RequestInv(y, installed', lost', content', env),
         \A q \in Requests \ {r} : RequestInv(job'[q], installed', lost', content', env),
         ContentHasItsLibraries',
         exported' = exported \/ ExportGood(exported')
  PROVE  PackageInv'
<1> USE DEF PackageInv
<1>1. TypeOK'
  BY DEF TypeOK
<1>2. DeletionAlone'
  <2> SUFFICES ASSUME "deleteLibrary" \notin env, NEW p \in Requests, NEW q \in Requests,
                      Deletes(p)', Active(job'[q])
               PROVE  p = q
    BY DEF DeletionAlone
  <2>1. \A s \in Requests : Active(job'[s]) => Active(job[s])
    BY DEF Stays, Active, Leftover
  <2>2. \A s \in Requests : Deletes(s)' => Deletes(s)
    BY DEF Stays, Deletes
  <2> QED BY <2>1, <2>2 DEF DeletionAlone
<1>3. \A q \in Requests : RequestInv(job[q], installed, lost, content, env)'
  OBVIOUS
<1>4. (exported # NoPackage => ExportGood(exported))'
  BY DEF ExportGood
<1> QED BY <1>1, <1>2, <1>3, <1>4

\* The local state of no other request changes.
LEMMA SharedStep ==
  ASSUME PackageInv, UNCHANGED env, NEW r \in Requests, NEW y \in Job, Becomes(r, y),
         installed' \subseteq Libraries, lost' \subseteq Libraries,
         content' \in [Contents -> Directory],
         \A c \in Contents : content'[c].known => content'[c].there,
         temporary' \in [Requests -> SUBSET Files], dirs' \subseteq Requests,
         Directories', OneRequestPerContent',
         y.pc \in Deletion => job[r].pc \in Deletion,
         Active(y) => Active(job[r]),
         RequestInv(y, installed', lost', content', env),
         \A q \in Requests \ {r} : RequestInv(job[q], installed', lost', content', env),
         ContentHasItsLibraries',
         exported' = exported \/ ExportGood(exported')
  PROVE  PackageInv'
<1>1. /\ job' \in [Requests -> Job] /\ job'[r] = y
      /\ \A q \in Requests \ {r} : job'[q] = job[q]
  BY OthersStay DEF PackageInv
<1>2. \A q \in Requests \ {r} : Stays(job[q], job'[q])
  BY <1>1 DEF Stays
<1> QED BY <1>1, <1>2, AnyStep

\* A step that changes nothing but the state of the request, and its temporary files.
LEMMA PlainStep ==
  ASSUME PackageInv, UNCHANGED <<installed, lost, content, dirs, exported, env>>,
         temporary' \in [Requests -> SUBSET Files],
         NEW r \in Requests, NEW y \in Job, Becomes(r, y), Follows(job[r], y),
         RequestInv(y, installed, lost, content, env)
  PROVE  PackageInv'
<1>1. Directories' /\ OneRequestPerContent'
  BY FollowsKeeps
<1>2. ContentHasItsLibraries'
  BY DEF PackageInv, ContentHasItsLibraries
<1>3. /\ installed' \subseteq Libraries /\ lost' \subseteq Libraries
      /\ content' \in [Contents -> Directory]
      /\ \A c \in Contents : content'[c].known => content'[c].there
      /\ dirs' \subseteq Requests
      /\ \A q \in Requests : RequestInv(job[q], installed', lost', content', env)
      /\ RequestInv(y, installed', lost', content', env)
  BY DEF PackageInv, TypeOK
<1>4. Active(y) => Active(job[r])
  BY DEF Follows, Active
<1> QED BY <1>1, <1>2, <1>3, <1>4, SharedStep DEF Follows

\* A request that is no import is answered.
LEMMA AnswerStep ==
  ASSUME PackageInv, UNCHANGED <<installed, lost, content, temporary, dirs, env>>, exported' = exported,
         NEW r \in Requests, job[r].pc \in Export \cup Deletion, Answer(r)
  PROVE  PackageInv'
<1> DEFINE y == [NewJob EXCEPT !.pc = "done"]
<1>1. y \in Job
  BY NewJobHasType DEF Job
<1>2. y.pc = "done" /\ y.mode = "NoCopy" /\ ~Leftover(y)
  BY DEF NewJob, Leftover
<1>3. Becomes(r, y)
  BY DEF Answer, Import, Export, Deletion
<1>4. Follows(job[r], y)
  BY <1>2 DEF Follows, Import, Export, Deletion
<1>5. RequestInv(y, installed, lost, content, env)
  BY <1>2 DEF RequestInv, RequirementsMet, DeletionSafe, ExportComplete, Import, Export, Deletion
<1> HIDE DEF y
<1> QED BY <1>1, <1>3, <1>4, <1>5, PlainStep DEF PackageInv, TypeOK

\* The package is unpacked.
LEMMA ExtractInv ==
  ASSUME PackageInv, UNCHANGED env, NEW r \in Requests, Extract(r)
  PROVE  PackageInv'
<1> DEFINE x == job[r]
           y == [x EXCEPT !.pc = "validate"]
<1>1. /\ x \in Job /\ x.pc = "extract"
      /\ Becomes(r, y) /\ UNCHANGED <<installed, lost, content, dirs, exported>>
      /\ temporary' \in [Requests -> SUBSET Files]
  BY DEF Extract, At, Goto, PackageInv, TypeOK
<1>2. RequestInv(x, installed, lost, content, env)
  BY DEF PackageInv
<1> HIDE DEF x
<1>3. y \in Job
  BY <1>1 DEF Job, Import
<1>4. /\ y.pc = "validate"
      /\ y.pkg = x.pkg /\ y.mode = x.mode /\ y.install = x.install /\ y.content = x.content
      /\ y.isNew = x.isNew /\ y.kept = x.kept /\ y.files = x.files /\ y.open = x.open /\ y.ok = x.ok
  BY <1>1 DEF Job
<1> HIDE DEF y
<1>5. Follows(x, y)
  BY <1>1, <1>4 DEF Follows, Import, Export, Deletion
<1>6. RequestInv(y, installed, lost, content, env)
  BY <1>1, <1>4, <1>2
  DEF RequestInv, RequirementsMet, DeletionSafe, ExportComplete, Progress, Import, Export, Deletion
<1> QED BY <1>1, <1>3, <1>5, <1>6, PlainStep DEF x

\* The package is validated; its libraries are to be installed.
LEMMA ValidateInv ==
  ASSUME PackageInv, UNCHANGED env, NEW r \in Requests, Validate(r)
  PROVE  PackageInv'
<1>1. CASE ~job[r].pkg.valid
  <2> DEFINE x == job[r]
             y == [x EXCEPT !.pc = "clean"]
  <2>1. /\ x \in Job /\ x.pc = "validate"
        /\ Becomes(r, y) /\ UNCHANGED <<installed, lost, content, dirs, exported>>
        /\ temporary' \in [Requests -> SUBSET Files]
    BY <1>1 DEF Validate, At, Goto, PackageInv, TypeOK
  <2>2. RequestInv(x, installed, lost, content, env)
    BY DEF PackageInv
  <2> HIDE DEF x
  <2>3. y \in Job
    BY <2>1 DEF Job, Import
  <2>4. /\ y.pc = "clean"
        /\ y.pkg = x.pkg /\ y.mode = x.mode /\ y.install = x.install
        /\ y.content = x.content /\ y.isNew = x.isNew /\ y.kept = x.kept /\ y.files = x.files
        /\ y.open = x.open /\ y.ok = x.ok
    BY <2>1 DEF Job
  <2> HIDE DEF y
  <2>5. Follows(x, y)
    BY <2>1, <2>4 DEF Follows, Import, Export, Deletion
  <2>6. RequestInv(y, installed, lost, content, env)
    BY <2>1, <2>4, <2>2
    DEF RequestInv, RequirementsMet, DeletionSafe, ExportComplete, Progress, Import, Export, Deletion
  <2> QED BY <2>1, <2>3, <2>5, <2>6, PlainStep DEF x
<1>2. CASE job[r].pkg.valid /\ job[r].install
  <2> DEFINE x == job[r]
             y == [x EXCEPT !.pc = "install", !.libs = x.pkg.libs]
  <2>1. /\ x \in Job /\ x.pc = "validate"
        /\ Becomes(r, y) /\ UNCHANGED <<installed, lost, content, dirs, exported>>
        /\ temporary' \in [Requests -> SUBSET Files]
    BY <1>2 DEF Validate, At, Goto, PackageInv, TypeOK
  <2>2. RequestInv(x, installed, lost, content, env)
    BY DEF PackageInv
  <2> HIDE DEF x
  <2>3. y \in Job
    BY <2>1 DEF Job, Import, Package
  <2>4. /\ y.pc = "install" /\ y.libs = x.pkg.libs
        /\ y.pkg = x.pkg /\ y.mode = x.mode /\ y.install = x.install
        /\ y.content = x.content /\ y.isNew = x.isNew /\ y.kept = x.kept /\ y.files = x.files
        /\ y.open = x.open /\ y.ok = x.ok
    BY <2>1 DEF Job, Package
  <2> HIDE DEF y
  <2>5. Follows(x, y)
    BY <2>1, <2>4 DEF Follows, Import, Export, Deletion
  <2>6. RequestInv(y, installed, lost, content, env)
    BY <2>1, <2>4, <2>2
    DEF RequestInv, RequirementsMet, DeletionSafe, ExportComplete, Progress, Import, Export, Deletion
  <2> QED BY <2>1, <2>3, <2>5, <2>6, PlainStep DEF x
<1>3. CASE job[r].pkg.valid /\ ~job[r].install
  <2> DEFINE x == job[r]
             y == [x EXCEPT !.pc = "list"]
  <2>1. /\ x \in Job /\ x.pc = "validate"
        /\ Becomes(r, y) /\ UNCHANGED <<installed, lost, content, dirs, exported>>
        /\ temporary' \in [Requests -> SUBSET Files]
    BY <1>3 DEF Validate, At, Goto, PackageInv, TypeOK
  <2>2. RequestInv(x, installed, lost, content, env)
    BY DEF PackageInv
  <2> HIDE DEF x
  <2>3. y \in Job
    BY <2>1 DEF Job, Import
  <2>4. /\ y.pc = "list"
        /\ y.pkg = x.pkg /\ y.mode = x.mode /\ y.install = x.install
        /\ y.content = x.content /\ y.isNew = x.isNew /\ y.kept = x.kept /\ y.files = x.files
        /\ y.open = x.open /\ y.ok = x.ok
    BY <2>1 DEF Job
  <2> HIDE DEF y
  <2>5. Follows(x, y)
    BY <2>1, <2>4 DEF Follows, Import, Export, Deletion
  <2>6. RequestInv(y, installed, lost, content, env)
    BY <2>1, <2>4, <2>2
    DEF RequestInv, RequirementsMet, DeletionSafe, ExportComplete, Progress, Import, Export, Deletion
  <2> QED BY <2>1, <2>3, <2>5, <2>6, PlainStep DEF x
<1> QED BY <1>1, <1>2, <1>3

\* All libraries are installed.
LEMMA EndInstallsInv ==
  ASSUME PackageInv, UNCHANGED env, NEW r \in Requests, EndInstalls(r)
  PROVE  PackageInv'
<1>1. CASE job[r].mode = "NoCopy"
  <2> DEFINE x == job[r]
             y == [x EXCEPT !.pc = "clean", !.ok = TRUE]
  <2>1. /\ x \in Job /\ x.pc = "install" /\ x.mode = "NoCopy"
        /\ Becomes(r, y) /\ UNCHANGED <<installed, lost, content, dirs, exported>>
        /\ temporary' \in [Requests -> SUBSET Files]
    BY <1>1 DEF EndInstalls, At, Goto, PackageInv, TypeOK
  <2>2. RequestInv(x, installed, lost, content, env)
    BY DEF PackageInv
  <2> HIDE DEF x
  <2>3. y \in Job
    BY <2>1 DEF Job, Import
  <2>4. /\ y.pc = "clean" /\ y.ok = TRUE
        /\ y.pkg = x.pkg /\ y.mode = x.mode /\ y.install = x.install
        /\ y.content = x.content /\ y.isNew = x.isNew /\ y.kept = x.kept /\ y.files = x.files /\ y.open = x.open
    BY <2>1 DEF Job
  <2> HIDE DEF y
  <2>5. Follows(x, y)
    BY <2>1, <2>4 DEF Follows, Import, Export, Deletion
  <2>6. RequestInv(y, installed, lost, content, env)
    BY <2>1, <2>4, <2>2
    DEF RequestInv, RequirementsMet, DeletionSafe, ExportComplete, Progress, Import, Export, Deletion
  <2> QED BY <2>1, <2>3, <2>5, <2>6, PlainStep DEF x
<1>2. CASE job[r].mode # "NoCopy"
  <2> DEFINE x == job[r]
             y == [x EXCEPT !.pc = "list"]
  <2>1. /\ x \in Job /\ x.pc = "install"
        /\ Becomes(r, y) /\ UNCHANGED <<installed, lost, content, dirs, exported>>
        /\ temporary' \in [Requests -> SUBSET Files]
    BY <1>2 DEF EndInstalls, At, Goto, PackageInv, TypeOK
  <2>2. RequestInv(x, installed, lost, content, env)
    BY DEF PackageInv
  <2> HIDE DEF x
  <2>3. y \in Job
    BY <2>1 DEF Job, Import
  <2>4. /\ y.pc = "list"
        /\ y.pkg = x.pkg /\ y.mode = x.mode /\ y.install = x.install
        /\ y.content = x.content /\ y.isNew = x.isNew /\ y.kept = x.kept /\ y.files = x.files
        /\ y.open = x.open /\ y.ok = x.ok
    BY <2>1 DEF Job
  <2> HIDE DEF y
  <2>5. Follows(x, y)
    BY <2>1, <2>4 DEF Follows, Import, Export, Deletion
  <2>6. RequestInv(y, installed, lost, content, env)
    BY <2>1, <2>4, <2>2
    DEF RequestInv, RequirementsMet, DeletionSafe, ExportComplete, Progress, Import, Export, Deletion
  <2> QED BY <2>1, <2>3, <2>5, <2>6, PlainStep DEF x
<1> QED BY <1>1, <1>2

\* The installed libraries are listed.
LEMMA ListInstalledInv ==
  ASSUME PackageInv, UNCHANGED env, NEW r \in Requests, ListInstalled(r)
  PROVE  PackageInv'
<1> DEFINE x == job[r]
           y == [x EXCEPT !.pc = "required", !.seen = installed]
<1>1. /\ x \in Job /\ x.pc = "list" /\ installed \subseteq Libraries
      /\ Becomes(r, y) /\ UNCHANGED <<installed, lost, content, dirs, exported>>
      /\ temporary' \in [Requests -> SUBSET Files]
  BY DEF ListInstalled, At, Goto, PackageInv, TypeOK
<1>2. RequestInv(x, installed, lost, content, env)
  BY DEF PackageInv
<1> HIDE DEF x
<1>3. y \in Job
  BY <1>1 DEF Job, Import
<1>4. /\ y.pc = "required" /\ y.seen = installed
      /\ y.pkg = x.pkg /\ y.mode = x.mode /\ y.install = x.install /\ y.content = x.content
      /\ y.isNew = x.isNew /\ y.kept = x.kept /\ y.files = x.files /\ y.open = x.open /\ y.ok = x.ok
  BY <1>1 DEF Job
<1> HIDE DEF y
<1>5. Follows(x, y)
  BY <1>1, <1>4 DEF Follows, Import, Export, Deletion
<1>6. RequestInv(y, installed, lost, content, env)
  BY <1>1, <1>4, <1>2
  DEF RequestInv, RequirementsMet, DeletionSafe, ExportComplete, Progress, Import, Export, Deletion
<1> QED BY <1>1, <1>3, <1>5, <1>6, PlainStep DEF x

\* The import goes on if what it needs is there.
LEMMA CheckRequiredInv ==
  ASSUME PackageInv, UNCHANGED env, NEW r \in Requests, CheckRequired(r)
  PROVE  PackageInv'
<1>1. CASE /\ job[r].seen \subseteq installed /\ Required(job[r].pkg.needs) \subseteq job[r].seen
           /\ job[r].mode = "Install"
  <2> DEFINE x == job[r]
             y == [x EXCEPT !.pc = "create"]
  <2>1. /\ x \in Job /\ x.pc = "required" /\ AllNeeds(x.pkg.needs) \subseteq installed
        /\ Becomes(r, y) /\ UNCHANGED <<installed, lost, content, dirs, exported>>
        /\ temporary' \in [Requests -> SUBSET Files]
    BY <1>1 DEF CheckRequired, At, Goto, PackageInv, TypeOK, Required
  <2>2. RequestInv(x, installed, lost, content, env)
    BY DEF PackageInv
  <2> HIDE DEF x
  <2>3. y \in Job
    BY <2>1 DEF Job, Import
  <2>4. /\ y.pc = "create"
        /\ y.pkg = x.pkg /\ y.mode = x.mode /\ y.install = x.install
        /\ y.content = x.content /\ y.isNew = x.isNew /\ y.kept = x.kept /\ y.files = x.files
        /\ y.open = x.open /\ y.ok = x.ok
    BY <2>1 DEF Job
  <2> HIDE DEF y
  <2>5. Follows(x, y)
    BY <2>1, <2>4 DEF Follows, Import, Export, Deletion
  <2>6. RequestInv(y, installed, lost, content, env)
    BY <2>1, <2>4, <2>2
    DEF RequestInv, RequirementsMet, DeletionSafe, ExportComplete, Progress, Import, Export, Deletion
  <2> QED BY <2>1, <2>3, <2>5, <2>6, PlainStep DEF x
<1>2. CASE /\ job[r].seen \subseteq installed /\ Required(job[r].pkg.needs) \subseteq job[r].seen
           /\ job[r].mode # "Install"
  <2> DEFINE x == job[r]
             y == [x EXCEPT !.pc = "temporary", !.files = x.pkg.refs]
  <2>1. /\ x \in Job /\ x.pc = "required" /\ x.mode # "Install"
        /\ Becomes(r, y) /\ UNCHANGED <<installed, lost, content, dirs, exported>>
        /\ temporary' \in [Requests -> SUBSET Files]
    BY <1>2 DEF CheckRequired, At, Goto, PackageInv, TypeOK
  <2>2. RequestInv(x, installed, lost, content, env)
    BY DEF PackageInv
  <2> HIDE DEF x
  <2>3. y \in Job
    BY <2>1 DEF Job, Import, Package
  <2>4. /\ y.pc = "temporary" /\ y.files = x.pkg.refs
        /\ y.pkg = x.pkg /\ y.mode = x.mode /\ y.install = x.install
        /\ y.content = x.content /\ y.isNew = x.isNew /\ y.kept = x.kept /\ y.open = x.open /\ y.ok = x.ok
    BY <2>1 DEF Job, Package
  <2> HIDE DEF y
  <2>5. Follows(x, y)
    BY <2>1, <2>4 DEF Follows, Import, Export, Deletion
  <2>6. RequestInv(y, installed, lost, content, env)
    BY <2>1, <2>4, <2>2
    DEF RequestInv, RequirementsMet, DeletionSafe, ExportComplete, Progress, Import, Export, Deletion
  <2> QED BY <2>1, <2>3, <2>5, <2>6, PlainStep DEF x
<1>3. CASE ~(job[r].seen \subseteq installed /\ Required(job[r].pkg.needs) \subseteq job[r].seen)
  <2> DEFINE x == job[r]
             y == [x EXCEPT !.pc = "clean"]
  <2>1. /\ x \in Job /\ x.pc = "required"
        /\ Becomes(r, y) /\ UNCHANGED <<installed, lost, content, dirs, exported>>
        /\ temporary' \in [Requests -> SUBSET Files]
    BY <1>3 DEF CheckRequired, At, Goto, PackageInv, TypeOK
  <2>2. RequestInv(x, installed, lost, content, env)
    BY DEF PackageInv
  <2> HIDE DEF x
  <2>3. y \in Job
    BY <2>1 DEF Job, Import
  <2>4. /\ y.pc = "clean"
        /\ y.pkg = x.pkg /\ y.mode = x.mode /\ y.install = x.install
        /\ y.content = x.content /\ y.isNew = x.isNew /\ y.kept = x.kept /\ y.files = x.files
        /\ y.open = x.open /\ y.ok = x.ok
    BY <2>1 DEF Job
  <2> HIDE DEF y
  <2>5. Follows(x, y)
    BY <2>1, <2>4 DEF Follows, Import, Export, Deletion
  <2>6. RequestInv(y, installed, lost, content, env)
    BY <2>1, <2>4, <2>2
    DEF RequestInv, RequirementsMet, DeletionSafe, ExportComplete, Progress, Import, Export, Deletion
  <2> QED BY <2>1, <2>3, <2>5, <2>6, PlainStep DEF x
<1> QED BY <1>1, <1>2, <1>3

\* All files are copied.
LEMMA EndFilesInv ==
  ASSUME PackageInv, UNCHANGED env, NEW r \in Requests, EndFiles(r)
  PROVE  PackageInv'
<1> DEFINE x == job[r]
           y == [x EXCEPT !.pc = "clean", !.ok = TRUE]
<1>1. /\ x \in Job /\ x.pc = "files" /\ x.files = {} /\ x.open = {}
      /\ Becomes(r, y) /\ UNCHANGED <<installed, lost, content, dirs, exported>>
      /\ temporary' \in [Requests -> SUBSET Files]
  BY DEF EndFiles, At, Goto, PackageInv, TypeOK
<1>2. RequestInv(x, installed, lost, content, env)
  BY DEF PackageInv
<1> HIDE DEF x
<1>3. y \in Job
  BY <1>1 DEF Job, Import
<1>4. /\ y.pc = "clean" /\ y.ok = TRUE
      /\ y.pkg = x.pkg /\ y.mode = x.mode /\ y.install = x.install /\ y.content = x.content
      /\ y.isNew = x.isNew /\ y.kept = x.kept /\ y.files = x.files /\ y.open = x.open
  BY <1>1 DEF Job
<1> HIDE DEF y
<1>5. Follows(x, y)
  BY <1>1, <1>4 DEF Follows, Import, Export, Deletion
<1>6. RequestInv(y, installed, lost, content, env)
  BY <1>1, <1>4, <1>2
  DEF RequestInv, RequirementsMet, DeletionSafe, ExportComplete, Progress, Import, Export, Deletion
<1> QED BY <1>1, <1>3, <1>5, <1>6, PlainStep DEF x

\* All temporary files are stored.
LEMMA EndTemporaryInv ==
  ASSUME PackageInv, UNCHANGED env, NEW r \in Requests, EndTemporary(r)
  PROVE  PackageInv'
<1> DEFINE x == job[r]
           y == [x EXCEPT !.pc = "clean", !.ok = TRUE]
<1>1. /\ x \in Job /\ x.pc = "temporary"
      /\ Becomes(r, y) /\ UNCHANGED <<installed, lost, content, dirs, exported>>
      /\ temporary' \in [Requests -> SUBSET Files]
  BY DEF EndTemporary, At, Goto, PackageInv, TypeOK
<1>2. RequestInv(x, installed, lost, content, env)
  BY DEF PackageInv
<1> HIDE DEF x
<1>3. y \in Job
  BY <1>1 DEF Job, Import
<1>4. /\ y.pc = "clean" /\ y.ok = TRUE
      /\ y.pkg = x.pkg /\ y.mode = x.mode /\ y.install = x.install /\ y.content = x.content
      /\ y.isNew = x.isNew /\ y.kept = x.kept /\ y.files = x.files /\ y.open = x.open
  BY <1>1 DEF Job
<1> HIDE DEF y
<1>5. Follows(x, y)
  BY <1>1, <1>4 DEF Follows, Import, Export, Deletion
<1>6. RequestInv(y, installed, lost, content, env)
  BY <1>1, <1>4, <1>2
  DEF RequestInv, RequirementsMet, DeletionSafe, ExportComplete, Progress, Import, Export, Deletion
<1> QED BY <1>1, <1>3, <1>5, <1>6, PlainStep DEF x

\* A file becomes a temporary file.
LEMMA CopyToTemporaryInv ==
  ASSUME PackageInv, UNCHANGED env, NEW r \in Requests, NEW f \in Files, CopyToTemporary(r, f)
  PROVE  PackageInv'
<1> DEFINE x == job[r]
           y == [x EXCEPT !.files = @ \ {f}, !.pkg.refs = IF f \in x.pkg.files THEN @ ELSE @ \ {f}]
<1>1. /\ x \in Job /\ x.pc = "temporary"
      /\ Becomes(r, y) /\ UNCHANGED <<installed, lost, content, dirs, exported>>
      /\ temporary' \in [Requests -> SUBSET Files]
  BY DEF CopyToTemporary, At, Goto, PackageInv, TypeOK
<1>2. RequestInv(x, installed, lost, content, env)
  BY DEF PackageInv
<1> HIDE DEF x
<1>3. y \in Job
  BY <1>1 DEF Job, Import, Package
<1>4. /\ y.files = x.files \ {f}
      /\ y.pc = x.pc /\ y.mode = x.mode /\ y.install = x.install /\ y.content = x.content
      /\ y.isNew = x.isNew /\ y.kept = x.kept /\ y.open = x.open /\ y.ok = x.ok
  BY <1>1 DEF Job, Package
<1> HIDE DEF y
<1>5. Follows(x, y)
  BY <1>1, <1>4 DEF Follows, Import, Export, Deletion
<1>6. RequestInv(y, installed, lost, content, env)
  BY <1>1, <1>4, <1>2
  DEF RequestInv, RequirementsMet, DeletionSafe, ExportComplete, Progress, Import, Export, Deletion
<1> QED BY <1>1, <1>3, <1>5, <1>6, PlainStep DEF x

\* A file of the content is going to be written.
LEMMA OpenFileInv ==
  ASSUME PackageInv, UNCHANGED env, NEW r \in Requests, NEW f \in Files, OpenFile(r, f)
  PROVE  PackageInv'
<1> DEFINE x == job[r]
           y == [x EXCEPT !.files = @ \ {f}, !.open = @ \cup {f}]
<1>1. /\ x \in Job /\ f \in x.files
      /\ Becomes(r, y) /\ UNCHANGED <<installed, lost, content, dirs, exported>>
      /\ temporary' \in [Requests -> SUBSET Files]
  BY DEF OpenFile, At, Goto, PackageInv, TypeOK
<1>2. RequestInv(x, installed, lost, content, env)
  BY DEF PackageInv
<1> HIDE DEF x
<1>3. y \in Job
  BY <1>1 DEF Job, Import
<1>4. /\ y.files = x.files \ {f} /\ y.open = x.open \cup {f}
      /\ y.pc = x.pc /\ y.pkg = x.pkg /\ y.mode = x.mode /\ y.install = x.install
      /\ y.content = x.content /\ y.isNew = x.isNew /\ y.kept = x.kept /\ y.ok = x.ok /\ y.lib = x.lib
      /\ y.libs = x.libs /\ y.seen = x.seen /\ y.steady = x.steady /\ y.changing = x.changing /\ y.ids = x.ids
      /\ y.used = x.used
  BY <1>1 DEF Job
<1> HIDE DEF y
<1>5. Follows(x, y)
  BY <1>1, <1>4, <1>2 DEF Follows, Import, Export, Deletion, RequestInv, Leftover
<1>6. RequestInv(y, installed, lost, content, env)
  BY <1>1, <1>4, <1>2
  DEF RequestInv, RequirementsMet, DeletionSafe, ExportComplete, Progress, Import, Export, Deletion,
        Leftover
<1> QED BY <1>1, <1>3, <1>5, <1>6, PlainStep DEF x

\* The copy of a file fails.
LEMMA FailToCopyInv ==
  ASSUME PackageInv, UNCHANGED env, NEW r \in Requests, NEW f \in Files, FailToCopy(r, f)
  PROVE  PackageInv'
<1>1. CASE job[r].pc = "files"
  <2> DEFINE x == job[r]
             y == [x EXCEPT !.files = @ \ {f}, !.open = @ \ {f}, !.failed = TRUE, !.pc = "undo"]
  <2>1. /\ x \in Job /\ f \in x.files \cup x.open /\ x.pc = "files"
        /\ Becomes(r, y) /\ UNCHANGED <<installed, lost, content, dirs, exported>>
        /\ temporary' \in [Requests -> SUBSET Files]
    BY <1>1 DEF FailToCopy, At, Goto, PackageInv, TypeOK
  <2>2. RequestInv(x, installed, lost, content, env)
    BY DEF PackageInv
  <2> HIDE DEF x
  <2>3. y \in Job
    BY <2>1 DEF Job, Import
  <2>4. /\ y.failed = TRUE /\ y.pc = "undo"
        /\ y.pkg = x.pkg /\ y.mode = x.mode /\ y.install = x.install
        /\ y.content = x.content /\ y.isNew = x.isNew /\ y.kept = x.kept /\ y.ok = x.ok
    BY <2>1 DEF Job
  <2> HIDE DEF y
  <2>5. Follows(x, y)
    BY <2>1, <2>4 DEF Follows, Import, Export, Deletion
  <2>6. RequestInv(y, installed, lost, content, env)
    BY <2>1, <2>4, <2>2
    DEF RequestInv, RequirementsMet, DeletionSafe, ExportComplete, Progress, Import, Export, Deletion
  <2> QED BY <2>1, <2>3, <2>5, <2>6, PlainStep DEF x
<1>2. CASE job[r].pc # "files"
  <2> DEFINE x == job[r]
             y == [x EXCEPT !.files = @ \ {f}, !.open = @ \ {f}, !.failed = TRUE, !.pc = @]
  <2>1. /\ x \in Job /\ f \in x.files \cup x.open /\ x.pc # "files"
        /\ Becomes(r, y) /\ UNCHANGED <<installed, lost, content, dirs, exported>>
        /\ temporary' \in [Requests -> SUBSET Files]
    BY <1>2 DEF FailToCopy, At, Goto, PackageInv, TypeOK
  <2>2. RequestInv(x, installed, lost, content, env)
    BY DEF PackageInv
  <2> HIDE DEF x
  <2>3. y \in Job
    BY <2>1 DEF Job, Import
  <2>4. /\ y.failed = TRUE /\ y.pc = x.pc /\ y.files = x.files \ {f}
        /\ y.pkg = x.pkg /\ y.mode = x.mode /\ y.install = x.install
        /\ y.content = x.content /\ y.isNew = x.isNew /\ y.kept = x.kept /\ y.ok = x.ok /\ y.lib = x.lib
        /\ y.libs = x.libs /\ y.seen = x.seen /\ y.steady = x.steady /\ y.changing = x.changing /\ y.ids = x.ids
        /\ y.used = x.used
    BY <2>1 DEF Job
  <2> HIDE DEF y
  <2>5. Follows(x, y)
    BY <2>1, <2>4, <2>2 DEF Follows, Import, Export, Deletion, RequestInv, Leftover
  <2>6. RequestInv(y, installed, lost, content, env)
    BY <2>1, <2>4, <2>2
    DEF RequestInv, RequirementsMet, DeletionSafe, ExportComplete, Progress, Import, Export, Deletion,
        Leftover
  <2> QED BY <2>1, <2>3, <2>5, <2>6, PlainStep DEF x
<1> QED BY <1>1, <1>2

\* A library is installed already.
LEMMA SkipLibraryInv ==
  ASSUME PackageInv, UNCHANGED env, NEW r \in Requests, NEW l \in Libraries, SkipLibrary(r, l)
  PROVE  PackageInv'
<1> DEFINE x == job[r]
           y == [x EXCEPT !.libs = @ \ {l}]
<1>1. /\ x \in Job /\ l \in x.libs /\ x.install
      /\ Becomes(r, y) /\ UNCHANGED <<installed, lost, content, dirs, exported>>
      /\ temporary' \in [Requests -> SUBSET Files]
  BY DEF SkipLibrary, PackageInv, TypeOK
<1>2. RequestInv(x, installed, lost, content, env)
  BY DEF PackageInv
<1> HIDE DEF x
<1>3. y \in Job
  BY <1>1 DEF Job
<1>4. /\ y.libs \subseteq x.libs /\ y.changing \subseteq x.changing
      /\ y.pc = x.pc /\ y.pkg = x.pkg /\ y.mode = x.mode /\ y.install = x.install
      /\ y.content = x.content /\ y.isNew = x.isNew /\ y.kept = x.kept /\ y.files = x.files
      /\ y.open = x.open /\ y.ok = x.ok
  BY <1>1 DEF Job
<1> HIDE DEF y
<1>5. x.pc \notin Export \cup Deletion \cup {"new"}
  BY <1>1, <1>2 DEF RequestInv, Leftover
<1>6. Follows(x, y)
  BY <1>4, <1>5 DEF Follows, Leftover
<1>7. RequestInv(y, installed, lost, content, env)
  BY <1>4, <1>5, <1>2
  DEF RequestInv, RequirementsMet, DeletionSafe, ExportComplete, Progress, Import, Export, Deletion
<1> QED BY <1>1, <1>3, <1>6, <1>7, PlainStep DEF x

\* An installation is complete.
LEMMA CompleteInstallInv ==
  ASSUME PackageInv, UNCHANGED env, NEW r \in Requests, NEW l \in Libraries, CompleteInstall(r, l)
  PROVE  PackageInv'
<1> DEFINE x == job[r]
           y == [x EXCEPT !.changing = @ \ {l}]
<1>1. /\ x \in Job /\ l \in x.changing
      /\ Becomes(r, y) /\ UNCHANGED <<installed, lost, content, dirs, exported>>
      /\ temporary' \in [Requests -> SUBSET Files]
  BY DEF CompleteInstall, PackageInv, TypeOK
<1>2. RequestInv(x, installed, lost, content, env)
  BY DEF PackageInv
<1> HIDE DEF x
<1>3. y \in Job
  BY <1>1 DEF Job
<1>4. /\ y.libs \subseteq x.libs /\ y.changing \subseteq x.changing
      /\ y.pc = x.pc /\ y.pkg = x.pkg /\ y.mode = x.mode /\ y.install = x.install
      /\ y.content = x.content /\ y.isNew = x.isNew /\ y.kept = x.kept /\ y.files = x.files
      /\ y.open = x.open /\ y.ok = x.ok
  BY <1>1 DEF Job
<1> HIDE DEF y
<1>5. x.pc \notin Export \cup Deletion \cup {"new"}
  BY <1>1, <1>2 DEF RequestInv, Leftover
<1>6. Follows(x, y)
  BY <1>4, <1>5 DEF Follows, Leftover
<1>7. RequestInv(y, installed, lost, content, env)
  BY <1>4, <1>5, <1>2
  DEF RequestInv, RequirementsMet, DeletionSafe, ExportComplete, Progress, Import, Export, Deletion
<1> QED BY <1>1, <1>3, <1>6, <1>7, PlainStep DEF x

\* The installation of a library fails before it begins.
LEMMA FailToBeginInv ==
  ASSUME PackageInv, UNCHANGED env, NEW r \in Requests, NEW l \in Libraries, FailToBegin(r, l)
  PROVE  PackageInv'
<1>1. CASE job[r].pc = "install"
  <2> DEFINE x == job[r]
             y == [x EXCEPT !.libs = @ \ {l}, !.changing = @ \ {l}, !.failed = TRUE,
                            !.pc = "clean"]
  <2>1. /\ x \in Job /\ l \in x.libs /\ x.pc = "install"
        /\ Becomes(r, y) /\ UNCHANGED <<installed, lost, content, dirs, exported>>
        /\ temporary' \in [Requests -> SUBSET Files]
    BY <1>1 DEF FailToBegin, WithoutInstall, At, Goto, PackageInv, TypeOK
  <2>2. RequestInv(x, installed, lost, content, env)
    BY DEF PackageInv
  <2> HIDE DEF x
  <2>3. y \in Job
    BY <2>1 DEF Job, Import
  <2>4. /\ y.failed = TRUE /\ y.pc = "clean"
        /\ y.pkg = x.pkg /\ y.mode = x.mode /\ y.install = x.install
        /\ y.content = x.content /\ y.isNew = x.isNew /\ y.kept = x.kept /\ y.files = x.files
        /\ y.open = x.open /\ y.ok = x.ok
    BY <2>1 DEF Job
  <2> HIDE DEF y
  <2>5. Follows(x, y)
    BY <2>1, <2>4 DEF Follows, Import, Export, Deletion
  <2>6. RequestInv(y, installed, lost, content, env)
    BY <2>1, <2>4, <2>2
    DEF RequestInv, RequirementsMet, DeletionSafe, ExportComplete, Progress, Import, Export, Deletion
  <2> QED BY <2>1, <2>3, <2>5, <2>6, PlainStep DEF x
<1>2. CASE job[r].pc # "install"
  <2> DEFINE x == job[r]
             y == [x EXCEPT !.libs = @ \ {l}, !.changing = @ \ {l}, !.failed = TRUE,
                            !.pc = @]
  <2>1. /\ x \in Job /\ l \in x.libs /\ x.install /\ x.pc # "install"
        /\ Becomes(r, y) /\ UNCHANGED <<installed, lost, content, dirs, exported>>
        /\ temporary' \in [Requests -> SUBSET Files]
    BY <1>2 DEF FailToBegin, WithoutInstall, At, Goto, PackageInv, TypeOK
  <2>2. RequestInv(x, installed, lost, content, env)
    BY DEF PackageInv
  <2> HIDE DEF x
  <2>3. y \in Job
    BY <2>1 DEF Job, Import
  <2>4. /\ y.failed = TRUE /\ y.pc = x.pc /\ y.libs = x.libs \ {l}
        /\ y.changing = x.changing \ {l}
        /\ y.pkg = x.pkg /\ y.mode = x.mode /\ y.install = x.install
        /\ y.content = x.content /\ y.isNew = x.isNew /\ y.kept = x.kept /\ y.files = x.files
        /\ y.open = x.open /\ y.ok = x.ok
    BY <2>1 DEF Job
  <2> HIDE DEF y
  <2>7. x.pc \notin Export \cup Deletion \cup {"new"}
    BY <2>1, <2>2 DEF RequestInv, Leftover
  <2>5. Follows(x, y)
    BY <2>4, <2>7 DEF Follows, Leftover
  <2>6. RequestInv(y, installed, lost, content, env)
    BY <2>7, <2>4, <2>2
    DEF RequestInv, RequirementsMet, DeletionSafe, ExportComplete, Progress, Import, Export, Deletion
  <2> QED BY <2>1, <2>3, <2>5, <2>6, PlainStep DEF x
<1> QED BY <1>1, <1>2

\* The libraries cannot be listed.
LEMMA FailToListInv ==
  ASSUME PackageInv, UNCHANGED env, NEW r \in Requests, FailToList(r)
  PROVE  PackageInv'
<1> DEFINE x == job[r]
           y == [x EXCEPT !.pc = "clean"]
<1>1. /\ x \in Job /\ x.pc \in {"validate", "list", "required"}
      /\ Becomes(r, y) /\ UNCHANGED <<installed, lost, content, dirs, exported>>
      /\ temporary' \in [Requests -> SUBSET Files]
  BY DEF FailToList, Goto, PackageInv, TypeOK
<1>2. RequestInv(x, installed, lost, content, env)
  BY DEF PackageInv
<1> HIDE DEF x
<1>3. y \in Job
  BY <1>1 DEF Job, Import
<1>4. /\ y.pc = "clean"
      /\ y.pkg = x.pkg /\ y.mode = x.mode /\ y.install = x.install /\ y.content = x.content
      /\ y.isNew = x.isNew /\ y.kept = x.kept /\ y.files = x.files /\ y.open = x.open /\ y.ok = x.ok
  BY <1>1 DEF Job
<1> HIDE DEF y
<1>5. Follows(x, y)
  BY <1>1, <1>4 DEF Follows, Import, Export, Deletion
<1>6. RequestInv(y, installed, lost, content, env)
  BY <1>1, <1>4, <1>2
  DEF RequestInv, RequirementsMet, DeletionSafe, ExportComplete, Progress, Import, Export, Deletion
<1> QED BY <1>1, <1>3, <1>5, <1>6, PlainStep DEF x

\* The parameters are read.
LEMMA ReadParametersInv ==
  ASSUME PackageInv, UNCHANGED env, NEW r \in Requests, ReadParameters(r)
  PROVE  PackageInv'
<1>1. CASE content[job[r].content].known
  <2> DEFINE x == job[r]
             y == [x EXCEPT !.pc = "metadata", !.pkg.refs = content[x.content].refs]
  <2>1. /\ x \in Job /\ x.pc = "parameters" /\ x.content \in Contents
        /\ content[x.content].refs \in SUBSET Files
        /\ Becomes(r, y) /\ UNCHANGED <<installed, lost, content, dirs, exported>>
        /\ temporary' \in [Requests -> SUBSET Files]
    BY <1>1 DEF ReadParameters, At, Goto, PackageInv, TypeOK, RequestInv, Directory, Export
  <2>2. RequestInv(x, installed, lost, content, env)
    BY DEF PackageInv
  <2> HIDE DEF x
  <2>3. y \in Job
    BY <2>1 DEF Job, Export, Package
  <2>4. /\ y.pc = "metadata" /\ y.pkg.libs = x.pkg.libs
        /\ y.mode = x.mode /\ y.content = x.content /\ y.install = x.install
        /\ y.steady = x.steady /\ y.changing = x.changing /\ y.seen = x.seen /\ y.libs = x.libs
    BY <2>1 DEF Job, Package
  <2> HIDE DEF y
  <2>5. Follows(x, y)
    BY <2>1, <2>4 DEF Follows, Import, Export, Deletion
  <2>6. RequestInv(y, installed, lost, content, env)
    BY <2>1, <2>4, <2>2
    DEF RequestInv, RequirementsMet, DeletionSafe, ExportComplete, Progress, Import, Export, Deletion
  <2> QED BY <2>1, <2>3, <2>5, <2>6, PlainStep DEF x
<1>2. CASE ~content[job[r].content].known
  BY <1>2, AnswerStep DEF ReadParameters, At, Export, Deletion
<1> QED BY <1>1, <1>2

\* The metadata are read, and the libraries they name are there.
LEMMA ReadMetadataInv ==
  ASSUME PackageInv, UNCHANGED env, NEW r \in Requests, ReadMetadata(r)
  PROVE  PackageInv'
<1>1. CASE content[job[r].content].known
  <2> DEFINE x == job[r]
             y == [x EXCEPT !.pc = "scan", !.pkg.needs = content[x.content].needs,
                            !.pkg.main = content[x.content].main]
  <2>1. /\ x \in Job /\ x.pc = "metadata" /\ x.content \in Contents
        /\ content[x.content].needs \in Needs
        /\ content[x.content].main \in Libraries \cup {NoLibrary}
        /\ Becomes(r, y) /\ UNCHANGED <<installed, lost, content, dirs, exported>>
        /\ temporary' \in [Requests -> SUBSET Files]
    BY <1>1
    DEF ReadMetadata, At, Goto, PackageInv, TypeOK, RequestInv, Directory, Export
  <2>2. RequestInv(x, installed, lost, content, env)
    BY DEF PackageInv
  <2> HIDE DEF x
  <2>3. y \in Job
    BY <2>1 DEF Job, Export, Package
  <2>4. /\ y.pc = "scan" /\ y.pkg.libs = x.pkg.libs /\ y.pkg.needs = content[x.content].needs
        /\ y.mode = x.mode /\ y.content = x.content /\ y.install = x.install
        /\ y.steady = x.steady /\ y.changing = x.changing /\ y.seen = x.seen /\ y.libs = x.libs
    BY <2>1 DEF Job, Package
  <2> HIDE DEF y
  <2>5. Follows(x, y)
    BY <2>1, <2>4 DEF Follows, Import, Export, Deletion
  <2>6. RequestInv(y, installed, lost, content, env)
    BY <2>1, <2>4, <2>2
    DEF RequestInv, RequirementsMet, DeletionSafe, ExportComplete, Progress, Import, Export, Deletion
  <2> QED BY <2>1, <2>3, <2>5, <2>6, PlainStep DEF x
<1>2. CASE ~content[job[r].content].known
  BY <1>2, AnswerStep DEF ReadMetadata, At, Export, Deletion
<1> QED BY <1>1, <1>2

\* The main library is needed.
LEMMA ScanFilesInv ==
  ASSUME PackageInv, UNCHANGED env, NEW r \in Requests, ScanFiles(r)
  PROVE  PackageInv'
<1>1. CASE job[r].pkg.main \in installed
  <2> DEFINE x == job[r]
             y == [x EXCEPT !.pc = "listFiles"]
  <2>1. /\ x \in Job /\ x.pc = "scan"
        /\ Becomes(r, y) /\ UNCHANGED <<installed, lost, content, dirs, exported>>
        /\ temporary' \in [Requests -> SUBSET Files]
    BY <1>1 DEF ScanFiles, At, Goto, PackageInv, TypeOK
  <2>2. RequestInv(x, installed, lost, content, env)
    BY DEF PackageInv
  <2> HIDE DEF x
  <2>3. y \in Job
    BY <2>1 DEF Job, Export
  <2>4. /\ y.pc = "listFiles"
        /\ y.mode = x.mode /\ y.content = x.content /\ y.install = x.install
        /\ y.steady = x.steady /\ y.changing = x.changing /\ y.seen = x.seen /\ y.libs = x.libs /\ y.pkg = x.pkg
    BY <2>1 DEF Job
  <2> HIDE DEF y
  <2>5. Follows(x, y)
    BY <2>1, <2>4 DEF Follows, Import, Export, Deletion
  <2>6. RequestInv(y, installed, lost, content, env)
    BY <2>1, <2>4, <2>2
    DEF RequestInv, RequirementsMet, DeletionSafe, ExportComplete, Progress, Import, Export, Deletion
  <2> QED BY <2>1, <2>3, <2>5, <2>6, PlainStep DEF x
<1>2. CASE job[r].pkg.main \notin installed
  BY <1>2, AnswerStep DEF ScanFiles, At, Export, Deletion
<1> QED BY <1>1, <1>2

\* The files of the content are listed.
LEMMA ListContentFilesInv ==
  ASSUME PackageInv, UNCHANGED env, NEW r \in Requests, ListContentFiles(r)
  PROVE  PackageInv'
<1>1. CASE content[job[r].content].there
  <2> DEFINE x == job[r]
             y == [x EXCEPT !.pc = "addFiles", !.files = content[x.content].files]
  <2>1. /\ x \in Job /\ x.pc = "listFiles" /\ x.content \in Contents
        /\ content[x.content].files \in SUBSET Files
        /\ Becomes(r, y) /\ UNCHANGED <<installed, lost, content, dirs, exported>>
        /\ temporary' \in [Requests -> SUBSET Files]
    BY <1>1 DEF ListContentFiles, At, Goto, PackageInv, TypeOK, RequestInv, Directory, Export
  <2>2. RequestInv(x, installed, lost, content, env)
    BY DEF PackageInv
  <2> HIDE DEF x
  <2>3. y \in Job
    BY <2>1 DEF Job, Export
  <2>4. /\ y.pc = "addFiles" /\ y.files = content[x.content].files
        /\ y.mode = x.mode /\ y.content = x.content /\ y.install = x.install
        /\ y.steady = x.steady /\ y.changing = x.changing /\ y.seen = x.seen /\ y.libs = x.libs /\ y.pkg = x.pkg
    BY <2>1 DEF Job
  <2> HIDE DEF y
  <2>5. Follows(x, y)
    BY <2>1, <2>4 DEF Follows, Import, Export, Deletion
  <2>6. RequestInv(y, installed, lost, content, env)
    BY <2>1, <2>4, <2>2
    DEF RequestInv, RequirementsMet, DeletionSafe, ExportComplete, Progress, Import, Export, Deletion
  <2> QED BY <2>1, <2>3, <2>5, <2>6, PlainStep DEF x
<1>2. CASE ~content[job[r].content].there
  BY <1>2, AnswerStep DEF ListContentFiles, At, Export, Deletion
<1> QED BY <1>1, <1>2

\* A file is added to the package.
LEMMA AddContentFileInv ==
  ASSUME PackageInv, UNCHANGED env, NEW r \in Requests, NEW f \in Files, AddContentFile(r, f)
  PROVE  PackageInv'
<1>1. CASE f \in content[job[r].content].files
  <2> DEFINE x == job[r]
             y == [x EXCEPT !.files = @ \ {f}, !.pkg.files = @ \cup {f}]
  <2>1. /\ x \in Job /\ x.pc = "addFiles"
        /\ Becomes(r, y) /\ UNCHANGED <<installed, lost, content, dirs, exported>>
        /\ temporary' \in [Requests -> SUBSET Files]
    BY <1>1 DEF AddContentFile, At, Goto, PackageInv, TypeOK
  <2>2. RequestInv(x, installed, lost, content, env)
    BY DEF PackageInv
  <2> HIDE DEF x
  <2>3. y \in Job
    BY <2>1 DEF Job, Export, Package
  <2>4. /\ y.pkg.libs = x.pkg.libs /\ y.pkg.needs = x.pkg.needs
        /\ y.pc = x.pc /\ y.mode = x.mode /\ y.content = x.content /\ y.install = x.install
        /\ y.steady = x.steady /\ y.changing = x.changing /\ y.seen = x.seen /\ y.libs = x.libs
    BY <2>1 DEF Job, Package
  <2> HIDE DEF y
  <2>5. Follows(x, y)
    BY <2>1, <2>4 DEF Follows, Import, Export, Deletion
  <2>6. RequestInv(y, installed, lost, content, env)
    BY <2>1, <2>4, <2>2
    DEF RequestInv, RequirementsMet, DeletionSafe, ExportComplete, Progress, Import, Export, Deletion
  <2> QED BY <2>1, <2>3, <2>5, <2>6, PlainStep DEF x
<1>2. CASE f \notin content[job[r].content].files
  BY <1>2, AnswerStep DEF AddContentFile, At, Export, Deletion
<1> QED BY <1>1, <1>2

\* The libraries the package needs are looked for.
LEMMA AddLibraryFilesInv ==
  ASSUME PackageInv, UNCHANGED env, NEW r \in Requests, AddLibraryFiles(r)
  PROVE  PackageInv'
<1> DEFINE x == job[r]
           y == [x EXCEPT !.pc = "resolve", !.libs = AllNeeds(x.pkg.needs)]
<1>1. /\ x \in Job /\ x.pc = "addFiles"
      /\ Becomes(r, y) /\ UNCHANGED <<installed, lost, content, dirs, exported>>
      /\ temporary' \in [Requests -> SUBSET Files]
  BY DEF AddLibraryFiles, At, Goto, PackageInv, TypeOK
<1>2. RequestInv(x, installed, lost, content, env)
  BY DEF PackageInv
<1> HIDE DEF x
<1>3. y \in Job
  BY <1>1 DEF Job, Export, AllNeeds, Package, Needs
<1>4. /\ y.pc = "resolve" /\ y.libs = AllNeeds(x.pkg.needs) /\ y.libs = AllNeeds(x.pkg.needs)
      /\ y.mode = x.mode /\ y.content = x.content /\ y.install = x.install
      /\ y.steady = x.steady /\ y.changing = x.changing /\ y.seen = x.seen /\ y.pkg = x.pkg
  BY <1>1 DEF Job, AllNeeds, Package, Needs
<1> HIDE DEF y
<1>5. Follows(x, y)
  BY <1>1, <1>4 DEF Follows, Import, Export, Deletion
<1>6. RequestInv(y, installed, lost, content, env)
  BY <1>1, <1>4, <1>2
  DEF RequestInv, RequirementsMet, DeletionSafe, ExportComplete, Progress, Import, Export, Deletion, Closed
<1> QED BY <1>1, <1>3, <1>5, <1>6, PlainStep DEF x

\* A library is looked at.
LEMMA ResolveInv ==
  ASSUME PackageInv, UNCHANGED env, NEW r \in Requests, NEW l \in Libraries, Resolve(r, l)
  PROVE  PackageInv'
<1> DEFINE Found == [job[r] EXCEPT !.libs = (@ \cup Followed(l)) \ (job[r].seen \cup {l}),
                                   !.seen = @ \cup {l}]
           Missed == [job[r] EXCEPT !.libs = @ \ {l}, !.steady = @ \ {l}]
<1>1. CASE l \in installed /\ Becomes(r, Found)
  <2> DEFINE x == job[r]
             y == [x EXCEPT !.libs = (@ \cup Followed(l)) \ (x.seen \cup {l}), !.seen = @ \cup {l}]
  <2>1. /\ x \in Job /\ x.pc = "resolve" /\ l \in installed /\ Followed(l) \subseteq Libraries
        /\ Becomes(r, y) /\ UNCHANGED <<installed, lost, content, dirs, exported>>
        /\ temporary' \in [Requests -> SUBSET Files]
    BY <1>1, PackageServerAssumption
    DEF Resolve, At, Goto, PackageInv, TypeOK, Followed, PackageServerAssumption
  <2>2. RequestInv(x, installed, lost, content, env)
    BY DEF PackageInv
  <2> HIDE DEF x
  <2>3. y \in Job
    BY <2>1 DEF Job, Export
  <2>4. /\ y.libs = (x.libs \cup Followed(l)) \ (x.seen \cup {l}) /\ y.seen = x.seen \cup {l}
        /\ y.pc = x.pc /\ y.mode = x.mode /\ y.content = x.content /\ y.install = x.install
        /\ y.steady = x.steady /\ y.changing = x.changing /\ y.pkg = x.pkg
    BY <2>1 DEF Job
  <2> HIDE DEF y
  <2>5. Follows(x, y)
    BY <2>1, <2>4 DEF Follows, Import, Export, Deletion
  <2>6. RequestInv(y, installed, lost, content, env)
    BY <2>1, <2>4, <2>2
    DEF RequestInv, RequirementsMet, DeletionSafe, ExportComplete, Progress, Import, Export, Deletion,
        Closed
  <2> QED BY <2>1, <2>3, <2>5, <2>6, PlainStep DEF x
<1>2. CASE Becomes(r, Missed)
  <2> DEFINE x == job[r]
             y == [x EXCEPT !.libs = @ \ {l}, !.steady = @ \ {l}]
  <2>1. /\ x \in Job /\ x.pc = "resolve"
        /\ Becomes(r, y) /\ UNCHANGED <<installed, lost, content, dirs, exported>>
        /\ temporary' \in [Requests -> SUBSET Files]
    BY <1>2, PackageServerAssumption
    DEF Resolve, At, Goto, PackageInv, TypeOK, Followed, PackageServerAssumption
  <2>2. RequestInv(x, installed, lost, content, env)
    BY DEF PackageInv
  <2> HIDE DEF x
  <2>3. y \in Job
    BY <2>1 DEF Job, Export
  <2>4. /\ y.libs = x.libs \ {l} /\ y.steady = x.steady \ {l}
        /\ y.pc = x.pc /\ y.mode = x.mode /\ y.content = x.content /\ y.install = x.install
        /\ y.changing = x.changing /\ y.seen = x.seen /\ y.pkg = x.pkg
    BY <2>1 DEF Job
  <2> HIDE DEF y
  <2>5. Follows(x, y)
    BY <2>1, <2>4 DEF Follows, Import, Export, Deletion
  <2>6. RequestInv(y, installed, lost, content, env)
    BY <2>1, <2>4, <2>2
    DEF RequestInv, RequirementsMet, DeletionSafe, ExportComplete, Progress, Import, Export, Deletion,
        Closed
  <2> QED BY <2>1, <2>3, <2>5, <2>6, PlainStep DEF x
<1> QED BY <1>1, <1>2 DEF Resolve

\* All libraries are found.
LEMMA EndResolveInv ==
  ASSUME PackageInv, UNCHANGED env, NEW r \in Requests, EndResolve(r)
  PROVE  PackageInv'
<1> DEFINE x == job[r]
           y == [x EXCEPT !.pc = "addLibraries", !.libs = x.seen]
<1>1. /\ x \in Job /\ x.pc = "resolve" /\ x.libs = {}
      /\ Becomes(r, y) /\ UNCHANGED <<installed, lost, content, dirs, exported>>
      /\ temporary' \in [Requests -> SUBSET Files]
  BY DEF EndResolve, At, Goto, PackageInv, TypeOK
<1>2. RequestInv(x, installed, lost, content, env)
  BY DEF PackageInv
<1> HIDE DEF x
<1>3. y \in Job
  BY <1>1 DEF Job, Export
<1>4. /\ y.pc = "addLibraries" /\ y.libs = x.seen
      /\ y.mode = x.mode /\ y.content = x.content /\ y.install = x.install
      /\ y.steady = x.steady /\ y.changing = x.changing /\ y.seen = x.seen /\ y.pkg = x.pkg
  BY <1>1 DEF Job
<1> HIDE DEF y
<1>5. Follows(x, y)
  BY <1>1, <1>4 DEF Follows, Import, Export, Deletion
<1>6. RequestInv(y, installed, lost, content, env)
  BY <1>1, <1>4, <1>2
  DEF RequestInv, RequirementsMet, DeletionSafe, ExportComplete, Progress, Import, Export, Deletion
<1> QED BY <1>1, <1>3, <1>5, <1>6, PlainStep DEF x

\* A library is added to the package.
LEMMA AddLibraryInv ==
  ASSUME PackageInv, UNCHANGED env, NEW r \in Requests, NEW l \in Libraries, AddLibrary(r, l)
  PROVE  PackageInv'
<1>1. CASE l \in installed
  <2> DEFINE x == job[r]
             y == [x EXCEPT !.libs = @ \ {l}, !.pkg.libs = @ \cup {l}]
  <2>1. /\ x \in Job /\ x.pc = "addLibraries" /\ l \in x.libs
        /\ Becomes(r, y) /\ UNCHANGED <<installed, lost, content, dirs, exported>>
        /\ temporary' \in [Requests -> SUBSET Files]
    BY <1>1 DEF AddLibrary, At, Goto, PackageInv, TypeOK, First
  <2>2. RequestInv(x, installed, lost, content, env)
    BY DEF PackageInv
  <2> HIDE DEF x
  <2>3. y \in Job
    BY <2>1 DEF Job, Export, Package
  <2>4. /\ y.libs = x.libs \ {l} /\ y.pkg.libs = x.pkg.libs \cup {l} /\ y.pkg.needs = x.pkg.needs
        /\ y.pc = x.pc /\ y.mode = x.mode /\ y.content = x.content /\ y.install = x.install
        /\ y.steady = x.steady /\ y.changing = x.changing /\ y.seen = x.seen
    BY <2>1 DEF Job, Package
  <2> HIDE DEF y
  <2>5. Follows(x, y)
    BY <2>1, <2>4 DEF Follows, Import, Export, Deletion
  <2>6. RequestInv(y, installed, lost, content, env)
    BY <2>1, <2>4, <2>2
    DEF RequestInv, RequirementsMet, DeletionSafe, ExportComplete, Progress, Import, Export, Deletion
  <2> QED BY <2>1, <2>3, <2>5, <2>6, PlainStep DEF x
<1>2. CASE l \notin installed
  BY <1>2, AnswerStep DEF AddLibrary, At, Export, Deletion
<1> QED BY <1>1, <1>2

\* The export fails.
LEMMA FailToExportInv ==
  ASSUME PackageInv, UNCHANGED env, NEW r \in Requests, FailToExport(r)
  PROVE  PackageInv'
BY AnswerStep DEF FailToExport

\* The deletion fails.
LEMMA FailToDeleteInv ==
  ASSUME PackageInv, UNCHANGED env, NEW r \in Requests, FailToDelete(r)
  PROVE  PackageInv'
BY AnswerStep DEF FailToDelete, Deletes

\* The contents are listed.
LEMMA ListContentsInv ==
  ASSUME PackageInv, UNCHANGED env, NEW r \in Requests, ListContents(r)
  PROVE  PackageInv'
<1> DEFINE x == job[r]
           y == [x EXCEPT !.pc = "usage", !.ids = {c \in Contents : content[c].known}]
<1>1. /\ x \in Job /\ x.pc = "contents"
      /\ Becomes(r, y) /\ UNCHANGED <<installed, lost, content, dirs, exported>>
      /\ temporary' \in [Requests -> SUBSET Files]
  BY DEF ListContents, At, Goto, PackageInv, TypeOK
<1>2. RequestInv(x, installed, lost, content, env)
  BY DEF PackageInv
<1> HIDE DEF x
<1>3. y \in Job
  BY <1>1 DEF Job, Deletion
<1>4. /\ y.pc = "usage" /\ y.ids = {c \in Contents : content[c].known}
      /\ y.ids = {c \in Contents : content[c].known}
      /\ y.lib = x.lib /\ y.seen = x.seen /\ y.used = x.used /\ y.content = x.content
      /\ y.install = x.install /\ y.mode = x.mode
        /\ y.changing = x.changing
  BY <1>1 DEF Job
<1> HIDE DEF y
<1>5. Follows(x, y)
  BY <1>1, <1>4 DEF Follows, Import, Export, Deletion
<1>6. RequestInv(y, installed, lost, content, env)
  BY <1>1, <1>4, <1>2
  DEF RequestInv, RequirementsMet, DeletionSafe, ExportComplete, Progress, Import, Export, Deletion,
      Needed, HasDependencyOn
<1> QED BY <1>1, <1>3, <1>5, <1>6, PlainStep DEF x

\* A content is looked at.
LEMMA ReadUsageInv ==
  ASSUME PackageInv, UNCHANGED env, NEW r \in Requests, NEW c \in Contents, ReadUsage(r, c)
  PROVE  PackageInv'
<1>1. CASE content[c].known
  <2> DEFINE x == job[r]
             y == [x EXCEPT !.ids = @ \ {c}, !.used = @ \/ HasDependencyOn(c, x.lib)]
  <2>1. /\ x \in Job /\ x.pc = "usage"
        /\ Becomes(r, y) /\ UNCHANGED <<installed, lost, content, dirs, exported>>
        /\ temporary' \in [Requests -> SUBSET Files]
    BY <1>1 DEF ReadUsage, At, Goto, PackageInv, TypeOK
  <2>2. RequestInv(x, installed, lost, content, env)
    BY DEF PackageInv
  <2> HIDE DEF x
  <2>3. y \in Job
    BY ZenonT(40), <2>1 DEF Job, Deletion, HasDependencyOn
  <2>4. /\ y.ids = x.ids \ {c} /\ y.used = (x.used \/ HasDependencyOn(c, x.lib))
        /\ y.pc = x.pc /\ y.lib = x.lib /\ y.seen = x.seen /\ y.content = x.content
        /\ y.install = x.install /\ y.mode = x.mode
        /\ y.changing = x.changing
    BY <2>1 DEF Job, HasDependencyOn
  <2> HIDE DEF y
  <2>5. Follows(x, y)
    BY <2>1, <2>4 DEF Follows, Import, Export, Deletion
  <2>6. RequestInv(y, installed, lost, content, env)
    BY <2>1, <2>4, <2>2
    DEF RequestInv, RequirementsMet, DeletionSafe, ExportComplete, Progress, Import, Export, Deletion,
        Needed, HasDependencyOn
  <2> QED BY <2>1, <2>3, <2>5, <2>6, PlainStep DEF x
<1>2. CASE ~content[c].known
  BY <1>2, AnswerStep DEF ReadUsage, At, Export, Deletion
<1> QED BY <1>1, <1>2

\* The libraries are listed.
LEMMA ListLibrariesInv ==
  ASSUME PackageInv, UNCHANGED env, NEW r \in Requests, ListLibraries(r)
  PROVE  PackageInv'
<1> DEFINE x == job[r]
           y == [x EXCEPT !.pc = "dependents", !.seen = installed]
<1>1. /\ x \in Job /\ x.pc = "usage" /\ x.ids = {} /\ installed \subseteq Libraries
      /\ Becomes(r, y) /\ UNCHANGED <<installed, lost, content, dirs, exported>>
      /\ temporary' \in [Requests -> SUBSET Files]
  BY DEF ListLibraries, At, Goto, PackageInv, TypeOK
<1>2. RequestInv(x, installed, lost, content, env)
  BY DEF PackageInv
<1> HIDE DEF x
<1>3. y \in Job
  BY <1>1 DEF Job, Deletion
<1>4. /\ y.pc = "dependents" /\ y.seen = installed
      /\ y.lib = x.lib /\ y.ids = x.ids /\ y.used = x.used /\ y.content = x.content
      /\ y.install = x.install /\ y.mode = x.mode
        /\ y.changing = x.changing
  BY <1>1 DEF Job
<1> HIDE DEF y
<1>5. Follows(x, y)
  BY <1>1, <1>4 DEF Follows, Import, Export, Deletion
<1>6. RequestInv(y, installed, lost, content, env)
  BY <1>1, <1>4, <1>2
  DEF RequestInv, RequirementsMet, DeletionSafe, ExportComplete, Progress, Import, Export, Deletion
<1> QED BY <1>1, <1>3, <1>5, <1>6, PlainStep DEF x

\* The dependents are counted.
LEMMA CountDependentsInv ==
  ASSUME PackageInv, UNCHANGED env, NEW r \in Requests, CountDependents(r)
  PROVE  PackageInv'
<1>1. CASE \/ job[r].used \/ (\E l \in job[r].seen : DependsOn(l, job[r].lib))
           \/ ~(job[r].seen \subseteq installed)
  BY <1>1, AnswerStep DEF CountDependents, At, Export, Deletion
<1>2. CASE /\ ~job[r].used /\ (\A l \in job[r].seen : ~DependsOn(l, job[r].lib))
           /\ job[r].seen \subseteq installed
  <2> DEFINE x == job[r]
             y == [x EXCEPT !.pc = "delete"]
  <2>1. /\ x \in Job /\ x.pc = "dependents" /\ ~x.used /\ \A l \in x.seen : ~DependsOn(l, x.lib)
        /\ Becomes(r, y) /\ UNCHANGED <<installed, lost, content, dirs, exported>>
        /\ temporary' \in [Requests -> SUBSET Files]
    BY <1>2 DEF CountDependents, At, Goto, PackageInv, TypeOK
  <2>2. RequestInv(x, installed, lost, content, env)
    BY DEF PackageInv
  <2> HIDE DEF x
  <2>3. y \in Job
    BY <2>1 DEF Job, Deletion
  <2>4. /\ y.pc = "delete"
        /\ y.lib = x.lib /\ y.ids = x.ids /\ y.seen = x.seen /\ y.used = x.used
        /\ y.content = x.content /\ y.install = x.install /\ y.mode = x.mode
        /\ y.changing = x.changing
    BY <2>1 DEF Job
  <2> HIDE DEF y
  <2>5. Follows(x, y)
    BY <2>1, <2>4 DEF Follows, Import, Export, Deletion
  <2>6. RequestInv(y, installed, lost, content, env)
    BY <2>1, <2>4, <2>2
    DEF RequestInv, RequirementsMet, DeletionSafe, ExportComplete, Progress, Import, Export, Deletion
  <2> QED BY <2>1, <2>3, <2>5, <2>6, PlainStep DEF x
<1> QED BY <1>1, <1>2
-----------------------------------------------------------------------------
(* Steps that change what requests share *)

\* The state of the other requests after that.
LEMMA OthersDisturbed ==
  ASSUME PackageInv, NEW r \in Requests, NEW y \in Job, NEW l, Disturbs(r, y, l),
         UNCHANGED <<content, env>>, installed \ {l} \subseteq installed',
         "deleteLibrary" \notin env => \A q \in Requests \ {r} :
           /\ job[q].pc \notin Deletion
           /\ installed \cup lost \subseteq installed' \cup lost' \/ job[q].pc \in {"new", "done"}
  PROVE  /\ job' \in [Requests -> Job] /\ job'[r] = y
         /\ \A q \in Requests \ {r} : Stays(job[q], job'[q])
         /\ \A q \in Requests \ {r} : RequestInv(job'[q], installed', lost', content', env)
<1>1. job \in [Requests -> Job]
  BY DEF PackageInv, TypeOK
<1>2. ASSUME NEW q \in Requests \ {r}
      PROVE  /\ job'[q] \in Job /\ Stays(job[q], job'[q])
             /\ RequestInv(job'[q], installed', lost', content', env)
  <2>1. job'[q] = [job[q] EXCEPT !.steady = @ \ {l}]
    BY DEF Disturbs
  <2>2. job[q] \in Job /\ RequestInv(job[q], installed, lost, content, env)
    BY <1>1 DEF PackageInv
  <2>3. "deleteLibrary" \notin env =>
          /\ job[q].pc \notin Deletion
          /\ installed \cup lost \subseteq installed' \cup lost' \/ job[q].pc \in {"new", "done"}
    OBVIOUS
  <2> DEFINE z == [job[q] EXCEPT !.steady = @ \ {l}]
  <2>4. z = [job[q] EXCEPT !.steady = @ \ {l}]
    OBVIOUS
  <2> HIDE DEF z
  <2>5. /\ z \in Job /\ z.steady = job[q].steady \ {l}
        /\ z.pc = job[q].pc /\ z.pkg = job[q].pkg /\ z.mode = job[q].mode
        /\ z.install = job[q].install /\ z.content = job[q].content
        /\ z.isNew = job[q].isNew /\ z.kept = job[q].kept /\ z.lib = job[q].lib /\ z.libs = job[q].libs
        /\ z.changing = job[q].changing /\ z.seen = job[q].seen /\ z.files = job[q].files
        /\ z.open = job[q].open /\ z.ids = job[q].ids /\ z.used = job[q].used
        /\ z.ok = job[q].ok
    BY <2>2, <2>4 DEF Job
  <2>6. content' = content /\ installed \ {l} \subseteq installed'
    OBVIOUS
  <2>7. Stays(job[q], z)
    BY <2>5 DEF Stays
  <2>8. ExportComplete(z, installed')
    BY <2>2, <2>5, <2>6 DEF RequestInv, ExportComplete, Closed
  <2>9. "deleteLibrary" \notin env => RequirementsMet(z, installed' \cup lost')
    BY <2>2, <2>3, <2>5 DEF RequestInv, RequirementsMet
  <2>10. "deleteLibrary" \notin env => DeletionSafe(z, installed', content')
    BY <2>3, <2>5 DEF DeletionSafe, Deletion
  <2>11. z.mode = "Install" /\ Progress(job[q], content[job[q].content]) =>
           Progress(z, content'[z.content])
    BY <2>5, <2>6 DEF Progress
  <2>12. RequestInv(z, installed', lost', content', env)
    BY <2>2, <2>5, <2>8, <2>9, <2>10, <2>11 DEF RequestInv, Leftover
  <2> QED BY <2>1, <2>4, <2>5, <2>7, <2>12
<1>3. job'[r] = y /\ DOMAIN job' = Requests /\ job' = [q \in Requests |-> job'[q]]
  BY DEF Disturbs
<1> QED BY <1>2, <1>3

\* What a request that goes on leaves as it is, also then.
LEMMA DisturbsKeeps ==
  ASSUME PackageInv, UNCHANGED <<dirs, env>>, NEW r \in Requests, NEW y \in Job,
         job' \in [Requests -> Job], job'[r] = y,
         \A q \in Requests \ {r} : Stays(job[q], job'[q]), Follows(job[r], y)
  PROVE  Directories' /\ OneRequestPerContent'
<1> USE DEF PackageInv
<1>1. Directories'
  BY DEF Directories, Follows, Stays, TypeOK
<1>2. OneRequestPerContent'
  BY DEF OneRequestPerContent, Follows, Stays, Runs
<1> QED BY <1>1, <1>2

\* The directory of a content that nobody else works on becomes another one, or gets
\* another file.
LEMMA DirectoryChanges ==
  ASSUME NEW j, NEW lib, NEW gone, NEW con, NEW con2, NEW e, RequestInv(j, lib, gone, con, e),
         NEW c, \A d \in Contents \ {c} : con2[d] = con[d],
         "deleteLibrary" \notin e => j.pc \notin Deletion,
         "sameContent" \notin e =>
           j.content # c \/ j.pc \in {"new", "done"}
  PROVE  RequestInv(j, lib, gone, con2, e)
<1>1. "sameContent" \notin e /\ j.mode = "Install" =>
        Progress(j, con2[j.content])
  <2>1. CASE j.pc \in {"new", "done"}
    BY <2>1 DEF Progress, Import
  <2>2. CASE j.pc \notin {"new", "done"} /\ j.content \in Contents
    BY <2>2 DEF RequestInv
  <2>3. CASE j.content \notin Contents
    BY <2>3 DEF RequestInv, Progress
  <2> QED BY <2>1, <2>2, <2>3
<1> QED BY <1>1 DEF RequestInv, DeletionSafe, Deletion

LEMMA FileArrives ==
  ASSUME NEW j, NEW lib, NEW gone, NEW con, NEW con2, NEW e, RequestInv(j, lib, gone, con, e),
         \A d \in Contents : /\ con2[d].known = con[d].known /\ con2[d].needs = con[d].needs
                             /\ con[d].files \subseteq con2[d].files
  PROVE  RequestInv(j, lib, gone, con2, e)
<1>1. "sameContent" \notin e /\ j.mode = "Install" =>
        Progress(j, con2[j.content])
  <2>1. CASE j.content \in Contents
    BY <2>1 DEF RequestInv, Progress
  <2>2. CASE j.content \notin Contents
    BY <2>2 DEF RequestInv, Progress
  <2> QED BY <2>1, <2>2
<1>2. "deleteLibrary" \notin e => DeletionSafe(j, lib, con2)
  BY DEF RequestInv, DeletionSafe, Needed
<1> QED BY <1>1, <1>2 DEF RequestInv

\* While a request that deletes nothing runs, or has left something to do, nobody deletes.
LEMMA NobodyDeletes ==
  ASSUME PackageInv, NEW r \in Requests, Active(job[r]), job[r].pc \notin Deletion,
         "deleteLibrary" \notin env
  PROVE  \A q \in Requests : job[q].pc \notin Deletion
BY DEF PackageInv, DeletionAlone, Deletes

\* A library is about to be installed.
LEMMA BeginInstallInv ==
  ASSUME PackageInv, UNCHANGED env, NEW r \in Requests, NEW l \in Libraries,
         BeginInstall(r, l)
  PROVE  PackageInv'
<1> DEFINE x == job[r]
           y == [x EXCEPT !.libs = @ \ {l}, !.changing = @ \cup {l}]
<1>1. /\ x \in Job /\ x.install /\ l \in x.libs
      /\ Disturbs(r, y, l) /\ installed' = installed \cup {l} /\ lost' = lost \ {l}
      /\ UNCHANGED <<content, temporary, dirs, exported>>
  BY DEF BeginInstall, PackageInv, TypeOK
<1>2. RequestInv(x, installed, lost, content, env)
  BY DEF PackageInv
<1>3. x.pc \notin Export \cup Deletion \cup {"new"} /\ Active(x)
  BY <1>1, <1>2 DEF RequestInv, Leftover, Active
<1>4. "deleteLibrary" \notin env => \A q \in Requests : job[q].pc \notin Deletion
  BY <1>3, NobodyDeletes
<1>5. y \in Job /\ Follows(x, y) /\ y.pc = x.pc
      /\ RequestInv(y, installed', lost', content', env)
  <2> HIDE DEF x
  <2>1. y \in Job
    BY <1>1 DEF Job
  <2>2. /\ y.pc = x.pc /\ y.pkg = x.pkg /\ y.mode = x.mode /\ y.install = x.install
        /\ y.content = x.content /\ y.isNew = x.isNew /\ y.kept = x.kept /\ y.files = x.files /\ y.open = x.open
        /\ y.ok = x.ok
    BY <1>1 DEF Job
  <2> HIDE DEF y
  <2>3. Follows(x, y)
    BY <1>1, <1>3, <2>2 DEF Follows, Leftover
  <2>4. RequestInv(y, installed', lost', content', env)
    BY <1>1, <1>2, <1>3, <2>2
    DEF RequestInv, RequirementsMet, DeletionSafe, ExportComplete, Progress, Import, Export,
        Deletion
  <2> QED BY <2>1, <2>2, <2>3, <2>4
<1> HIDE DEF y
<1>6. /\ job' \in [Requests -> Job] /\ job'[r] = y
      /\ \A q \in Requests \ {r} : Stays(job[q], job'[q])
      /\ \A q \in Requests \ {r} : RequestInv(job'[q], installed', lost', content', env)
  BY <1>1, <1>4, <1>5, OthersDisturbed
<1>7. ContentHasItsLibraries'
  BY <1>1 DEF PackageInv, ContentHasItsLibraries
<1>8. Directories' /\ OneRequestPerContent'
  BY <1>1, <1>5, <1>6, DisturbsKeeps
<1>9. Active(y) => Active(x)
  BY <1>3
<1> QED BY <1>1, <1>3, <1>5, <1>6, <1>7, <1>8, <1>9, AnyStep DEF PackageInv, TypeOK

\* The installation of a library fails, and the library is removed.
LEMMA FailToInstallInv ==
  ASSUME PackageInv, UNCHANGED env, NEW r \in Requests, NEW l \in Libraries,
         FailToInstall(r, l)
  PROVE  PackageInv'
<1> DEFINE x == job[r]
           y == WithoutInstall(r, l)
<1>1. /\ x \in Job /\ l \in x.changing
      /\ Disturbs(r, y, l) /\ installed \ {l} \subseteq installed' /\ installed' \subseteq installed
      /\ lost' = lost \cup {l}
      /\ UNCHANGED <<content, temporary, dirs, exported>>
  BY DEF FailToInstall, PackageInv, TypeOK
<1>2. RequestInv(x, installed, lost, content, env)
  BY DEF PackageInv
<1>3. x.pc \notin Export \cup Deletion \cup {"new"} /\ Active(x)
  BY <1>1, <1>2 DEF RequestInv, Leftover, Active
<1>4. "deleteLibrary" \notin env => \A q \in Requests : job[q].pc \notin Deletion
  BY <1>3, NobodyDeletes
<1>5. y \in Job /\ Follows(x, y) /\ y.pc = (IF x.pc = "install" THEN "clean" ELSE x.pc)
      /\ RequestInv(y, installed', lost', content', env)
  <2>1. y = [x EXCEPT !.libs = @ \ {l}, !.changing = @ \ {l}, !.failed = TRUE,
                      !.pc = IF @ = "install" THEN "clean" ELSE @]
    BY DEF WithoutInstall
  <2> HIDE DEF x, y
  <2>2. y \in Job
    <3>1. CASE x.pc = "install"
      <4>1. y = [x EXCEPT !.libs = @ \ {l}, !.changing = @ \ {l}, !.failed = TRUE, !.pc = "clean"]
        BY <1>1, <2>1, <3>1
      <4> QED BY <1>1, <4>1 DEF Job, Import
    <3>2. CASE x.pc # "install"
      <4>1. y = [x EXCEPT !.libs = @ \ {l}, !.changing = @ \ {l}, !.failed = TRUE]
        BY <1>1, <2>1, <3>2 DEF Job
      <4> QED BY <1>1, <4>1 DEF Job
    <3> QED BY <3>1, <3>2
  <2>3. /\ y.pc = (IF x.pc = "install" THEN "clean" ELSE x.pc)
        /\ y.pkg = x.pkg /\ y.mode = x.mode /\ y.install = x.install
        /\ y.content = x.content /\ y.isNew = x.isNew /\ y.kept = x.kept /\ y.files = x.files /\ y.open = x.open
        /\ y.ok = x.ok
    BY <1>1, <2>1 DEF Job
  <2>4. Follows(x, y)
    BY <1>1, <1>3, <2>3 DEF Follows, Leftover, Import, Deletion
  <2>5. RequestInv(y, installed', lost', content', env)
    BY <1>1, <1>2, <1>3, <2>3
    DEF RequestInv, RequirementsMet, DeletionSafe, ExportComplete, Progress, Import, Export,
        Deletion
  <2> QED BY <2>2, <2>3, <2>4, <2>5
<1> HIDE DEF y
<1>6. /\ job' \in [Requests -> Job] /\ job'[r] = y
      /\ \A q \in Requests \ {r} : Stays(job[q], job'[q])
      /\ \A q \in Requests \ {r} : RequestInv(job'[q], installed', lost', content', env)
  <2>1. installed \ {l} \subseteq installed' /\ installed \cup lost \subseteq installed' \cup lost'
    BY <1>1
  <2> QED BY <1>1, <1>4, <1>5, <2>1, OthersDisturbed
<1>7. ContentHasItsLibraries'
  BY <1>1 DEF PackageInv, ContentHasItsLibraries
<1>8. Directories' /\ OneRequestPerContent'
  BY <1>1, <1>5, <1>6, DisturbsKeeps
<1>9. (Active(y) => Active(x)) /\ y.pc \notin Deletion
  BY <1>3, <1>5 DEF Deletion
<1> QED BY <1>1, <1>5, <1>6, <1>7, <1>8, <1>9, AnyStep DEF PackageInv, TypeOK

\* A file of a content has been written.
LEMMA WriteFileInv ==
  ASSUME PackageInv, UNCHANGED env, NEW r \in Requests, NEW f \in Files, WriteFile(r, f)
  PROVE  PackageInv'
<1> DEFINE x == job[r]
           y == [x EXCEPT !.open = @ \ {f}]
<1>1. /\ x \in Job /\ f \in x.open /\ Becomes(r, y)
      /\ content' = [content EXCEPT ![x.content].there = TRUE, ![x.content].files = @ \cup {f}]
      /\ UNCHANGED <<installed, lost, temporary, dirs, exported>>
  BY DEF WriteFile, PackageInv, TypeOK
<1>2. /\ content' \in [Contents -> Directory]
      /\ \A c \in Contents :
           /\ content'[c].known = content[c].known /\ content'[c].needs = content[c].needs
           /\ content[c].files \subseteq content'[c].files
           /\ content'[c].known => content'[c].there
           /\ c = x.content => f \in content'[c].files
  <2> DEFINE d == x.content
  <2>1. /\ content \in [Contents -> Directory]
        /\ \A c \in Contents : content[c].known => content[c].there
    BY DEF PackageInv, TypeOK
  <2>2. content' = [content EXCEPT ![d].there = TRUE, ![d].files = @ \cup {f}]
    BY <1>1
  <2> HIDE DEF d
  <2>3. \A c \in Contents \ {d} : content'[c] = content[c]
    BY <2>1, <2>2
  <2>4. ASSUME d \in Contents
        PROVE  /\ content'[d] \in Directory /\ content'[d].there
               /\ content'[d].known = content[d].known
               /\ content'[d].needs = content[d].needs
               /\ content'[d].files = content[d].files \cup {f}
    BY <2>1, <2>2, <2>4 DEF Directory
  <2>5. content' \in [Contents -> Directory]
    <3>1. DOMAIN content' = Contents /\ content' = [c \in Contents |-> content'[c]]
      BY <2>1, <2>2
    <3> QED BY <2>1, <2>3, <2>4, <3>1
  <2> QED BY <2>1, <2>3, <2>4, <2>5 DEF d
<1>3. \A q \in Requests : RequestInv(job[q], installed', lost', content', env)
  BY <1>1, <1>2, FileArrives DEF PackageInv
<1>4. RequestInv(x, installed', lost', content', env)
  BY <1>3
<1>5. Follows(x, y) /\ y \in Job /\ y.pc = x.pc
      /\ RequestInv(y, installed', lost', content', env)
  <2> HIDE DEF x
  <2>1. y \in Job
    BY <1>1 DEF Job
  <2>2. /\ y.pc = x.pc /\ y.pkg = x.pkg /\ y.mode = x.mode /\ y.install = x.install
        /\ y.content = x.content /\ y.isNew = x.isNew /\ y.kept = x.kept /\ y.files = x.files
        /\ y.open = x.open \ {f}
        /\ y.ok = x.ok /\ y.lib = x.lib /\ y.libs = x.libs /\ y.seen = x.seen
        /\ y.steady = x.steady /\ y.changing = x.changing /\ y.ids = x.ids /\ y.used = x.used
    BY <1>1 DEF Job
  <2> HIDE DEF y
  <2>3. Follows(x, y)
    BY <1>1, <1>4, <2>2 DEF Follows, RequestInv, Leftover
  <2>4. "sameContent" \notin env /\ y.mode = "Install" =>
          Progress(y, content'[y.content])
    BY <1>2, <1>4, <2>2 DEF RequestInv, Progress
  <2>5. RequestInv(y, installed', lost', content', env)
    BY <1>1, <1>4, <2>2, <2>4
    DEF RequestInv, RequirementsMet, DeletionSafe, ExportComplete, Leftover
  <2> QED BY <2>1, <2>2, <2>3, <2>5
<1> HIDE DEF y
<1>6. ContentHasItsLibraries'
  BY <1>1, <1>2 DEF PackageInv, ContentHasItsLibraries
<1>7. Directories' /\ OneRequestPerContent'
  BY <1>1, <1>5, FollowsKeeps
<1>8. Active(y) => Active(x)
  BY <1>5 DEF Follows, Active
<1> QED BY <1>1, <1>2, <1>3, <1>5, <1>6, <1>7, <1>8, SharedStep DEF PackageInv, TypeOK, Follows

\* The content of an import is created, or written anew.
LEMMA CreateContentInv ==
  ASSUME PackageInv, UNCHANGED env, NEW r \in Requests, NEW c \in Contents, CreateContent(r, c)
  PROVE  PackageInv'
<1> DEFINE x == job[r]
           y == [x EXCEPT !.pc = "files", !.files = x.pkg.files, !.content = c,
                          !.isNew = x.content = NoContent]
           d == [content[c] EXCEPT !.there = TRUE, !.known = TRUE, !.main = x.pkg.main,
                                   !.needs = x.pkg.needs, !.refs = x.pkg.refs]
<1>1. /\ x \in Job /\ x.pc = "create" /\ Becomes(r, y) /\ content' = [content EXCEPT ![c] = d]
      /\ c = x.content \/ \A q \in Requests : job[q].content # c
      /\ content[c] \in Directory
      /\ UNCHANGED <<installed, lost, temporary, dirs, exported>>
  BY DEF CreateContent, At, PackageInv, TypeOK
<1>2. RequestInv(x, installed, lost, content, env)
  BY DEF PackageInv
<1>3. Runs(r) /\ Active(x) /\ x.pc \notin Deletion /\ x.pc \in Import
  BY <1>1 DEF Runs, Active, Deletion, Import
<1>4. "deleteLibrary" \notin env => \A q \in Requests : job[q].pc \notin Deletion
  BY <1>3, NobodyDeletes
<1>5. "sameContent" \notin env =>
        \A q \in Requests \ {r} : job[q].content # c \/ job[q].pc \in {"new", "done"}
  BY <1>1, <1>3, PackageServerAssumption
  DEF PackageInv, OneRequestPerContent, Runs, PackageServerAssumption
<1> HIDE DEF x
<1>6. y \in Job
  <2>1. x.pkg \in Package
    BY <1>1 DEF Job
  <2>2. x.pkg.files \in SUBSET Files
    BY <2>1 DEF Package
  <2> QED BY ZenonT(40), <1>1, <2>2 DEF Job, Import
<1>7. /\ y.pc = "files" /\ y.files = x.pkg.files /\ y.content = c
      /\ y.pkg = x.pkg /\ y.mode = x.mode /\ y.install = x.install /\ y.ok = x.ok
  BY <1>1 DEF Job
<1>8. d \in Directory /\ d.known /\ d.there /\ d.needs = x.pkg.needs
  <2>1. x.pkg \in Package
    BY <1>1 DEF Job
  <2>2. /\ x.pkg.main \in Libraries \cup {NoLibrary}
        /\ x.pkg.needs \in Needs /\ x.pkg.refs \in SUBSET Files
    BY <2>1 DEF Package
  <2> QED BY <1>1, <2>2 DEF Directory
<1> HIDE DEF y, d
<1>9. /\ content' \in [Contents -> Directory] /\ content'[c] = d
      /\ \A e \in Contents \ {c} : content'[e] = content[e]
  BY <1>1, <1>8 DEF PackageInv, TypeOK
<1>10. \A q \in Requests \ {r} : RequestInv(job[q], installed', lost', content', env)
  BY <1>1, <1>4, <1>5, <1>9, DirectoryChanges DEF PackageInv
<1>11. RequestInv(y, installed', lost', content', env)
  BY <1>1, <1>2, <1>7, <1>8, <1>9
  DEF RequestInv, RequirementsMet, DeletionSafe, ExportComplete, Progress, Import, Export, Deletion
<1>12. ContentHasItsLibraries'
  BY <1>1, <1>2, <1>8, <1>9
  DEF PackageInv, ContentHasItsLibraries, RequestInv, RequirementsMet
<1>13. /\ job' \in [Requests -> Job] /\ job'[r] = y
       /\ \A q \in Requests \ {r} : job'[q] = job[q]
  BY <1>1, <1>6, OthersStay DEF PackageInv
<1>14. Directories'
  BY <1>1, <1>3, <1>7, <1>13 DEF PackageInv, Directories, Import, TypeOK, x
<1>15. OneRequestPerContent'
  BY <1>1, <1>5, <1>7, <1>13 DEF PackageInv, OneRequestPerContent, Runs
<1>16. y.pc \notin Deletion /\ (Active(y) => Active(x))
  BY <1>3, <1>7 DEF Deletion
<1>17. \A e \in Contents : content'[e].known => content'[e].there
  BY <1>8, <1>9 DEF PackageInv, TypeOK
<1> QED BY <1>1, <1>6, <1>9, <1>10, <1>11, <1>12, <1>14, <1>15, <1>16, <1>17, SharedStep
        DEF PackageInv, TypeOK, x

\* The content of an import that has failed is deleted, or loses its metadata.
LEMMA ContentGoes ==
  ASSUME PackageInv, UNCHANGED <<installed, lost, temporary, dirs, exported, env>>,
         NEW r \in Requests, NEW y \in Job, Becomes(r, y),
         job[r].pc \in {"undo", "create"}, y.pc = "clean", y.content = job[r].content,
         y.mode = job[r].mode, y.ok = job[r].ok, NEW d \in Directory, ~d.known,
         content' = [content EXCEPT ![job[r].content] = d]
  PROVE  PackageInv'
<1> DEFINE x == job[r]
           c == x.content
<1>1. /\ x \in Job /\ x.pc \in {"undo", "create"}
      /\ content' = [content EXCEPT ![c] = d]
  BY DEF PackageInv, TypeOK
<1>2. RequestInv(x, installed, lost, content, env)
  BY DEF PackageInv
<1>3. Runs(r) /\ Active(x) /\ x.pc \notin Deletion /\ x.pc \in Import
  BY <1>1 DEF Runs, Active, Deletion, Import
<1>4. "deleteLibrary" \notin env => \A q \in Requests : job[q].pc \notin Deletion
  BY <1>3, NobodyDeletes
<1>5. "sameContent" \notin env /\ c \in Contents =>
        \A q \in Requests \ {r} : job[q].content # c \/ job[q].pc \in {"new", "done"}
  BY <1>1, <1>3, PackageServerAssumption
  DEF PackageInv, OneRequestPerContent, Runs, PackageServerAssumption
<1>6. y.content = c /\ y.mode = x.mode /\ y.ok = x.ok
  OBVIOUS
<1> HIDE DEF x
<1>7. /\ content' \in [Contents -> Directory] /\ (c \in Contents => content'[c] = d)
      /\ \A e \in Contents \ {c} : content'[e] = content[e]
  BY <1>1 DEF PackageInv, TypeOK
<1>8. \A q \in Requests \ {r} : RequestInv(job[q], installed', lost', content', env)
  <2>1. ASSUME c \in Contents, NEW q \in Requests \ {r}
        PROVE  RequestInv(job[q], installed', lost', content', env)
    <3>1. RequestInv(job[q], installed, lost, content, env)
      BY DEF PackageInv
    <3>2. /\ "deleteLibrary" \notin env => job[q].pc \notin Deletion
          /\ "sameContent" \notin env => job[q].content # c \/ job[q].pc \in {"new", "done"}
      BY <1>4, <1>5, <2>1
    <3> QED BY <1>7, <2>1, <3>1, <3>2, DirectoryChanges
  <2>2. CASE c \notin Contents
    <3>1. content' = content
      BY <1>1, <2>2 DEF PackageInv, TypeOK
    <3> QED BY <1>1, <3>1 DEF PackageInv
  <2> QED BY <2>1, <2>2
<1>9. RequestInv(y, installed', lost', content', env)
  <2>1. "sameContent" \notin env /\ y.mode = "Install" /\ y.ok =>
          Progress(y, content'[y.content])
    BY <1>1, <1>2, <1>6, <1>7 DEF RequestInv, Progress, Import
  <2> QED BY <2>1, <1>1, <1>2, <1>6, <1>7
      DEF RequestInv, RequirementsMet, DeletionSafe, ExportComplete, Progress, Import, Export,
          Deletion
<1>10. ContentHasItsLibraries'
  BY <1>1, <1>7 DEF PackageInv, ContentHasItsLibraries
<1>11. Follows(x, y)
  BY <1>1, <1>6 DEF Follows, Import, Deletion
<1>12. Directories' /\ OneRequestPerContent'
  BY <1>1, <1>11, FollowsKeeps DEF x
<1>13. \A e \in Contents : content'[e].known => content'[e].there
  BY <1>7 DEF PackageInv, TypeOK
<1>14. (Active(y) => Active(x)) /\ y.pc \notin Deletion
  BY <1>3 DEF Deletion
<1> QED BY <1>7, <1>8, <1>9, <1>10, <1>12, <1>13, <1>14, SharedStep DEF PackageInv, TypeOK, x

\* The content of an import that failed is deleted.
LEMMA UndoInv ==
  ASSUME PackageInv, UNCHANGED env, NEW r \in Requests, Undo(r)
  PROVE  PackageInv'
<1> DEFINE y == [job[r] EXCEPT !.pc = "clean"]
<1>1. /\ job[r] \in Job /\ job[r].pc = "undo" /\ Becomes(r, y)
      /\ content' = [content EXCEPT ![job[r].content] = NoDirectory]
      /\ UNCHANGED <<installed, lost, temporary, dirs, exported>>
  BY DEF Undo, At, Goto, PackageInv, TypeOK
<1>2. /\ y \in Job /\ y.pc = "clean" /\ y.content = job[r].content
      /\ y.mode = job[r].mode /\ y.ok = job[r].ok
  BY <1>1 DEF Job, Import
<1>3. NoDirectory \in Directory /\ ~NoDirectory.known
  BY DEF NoDirectory, Directory, NoNeeds, Needs
<1> HIDE DEF y
<1> QED BY <1>1, <1>2, <1>3, ContentGoes

\* It cannot be deleted, or not wholly.
LEMMA FailToUndoInv ==
  ASSUME PackageInv, UNCHANGED env, NEW r \in Requests, FailToUndo(r)
  PROVE  PackageInv'
<1> DEFINE x == job[r]
           y == [x EXCEPT !.pc = "clean", !.kept = TRUE]
           d == [content[x.content] EXCEPT !.known = FALSE]
<1>1. /\ x \in Job /\ x.pc = "undo" /\ Becomes(r, y)
      /\ UNCHANGED <<installed, lost, temporary, dirs, exported>>
      /\ content \in [Contents -> Directory] /\ temporary \in [Requests -> SUBSET Files]
  BY DEF FailToUndo, At, PackageInv, TypeOK
<1>2. RequestInv(x, installed, lost, content, env)
  BY DEF PackageInv
<1>3. /\ y \in Job /\ y.pc = "clean" /\ y.content = x.content /\ y.mode = x.mode
      /\ y.install = x.install /\ y.ok = x.ok /\ y.kept
  BY <1>1 DEF Job, Import
<1>4. UNCHANGED content \/ content' = [content EXCEPT ![x.content] = d]
  BY DEF FailToUndo
<1>5. CASE UNCHANGED content
  <2> HIDE DEF y
  <2>1. Follows(x, y)
    BY <1>1, <1>3 DEF Follows, Import, Export, Deletion
  <2>2. RequestInv(y, installed, lost, content, env)
    BY <1>1, <1>2, <1>3
    DEF RequestInv, RequirementsMet, DeletionSafe, ExportComplete, Progress, Import, Export, Deletion
  <2> QED BY <1>1, <1>3, <1>5, <2>1, <2>2, PlainStep
<1>6. CASE content' = [content EXCEPT ![x.content] = d] /\ x.content \in Contents
  <2>1. d \in Directory /\ ~d.known
    BY <1>1, <1>6 DEF Directory
  <2> HIDE DEF y, d
  <2> QED BY <1>1, <1>3, <1>6, <2>1, ContentGoes
<1>7. CASE content' = [content EXCEPT ![x.content] = d] /\ x.content \notin Contents
  <2>1. UNCHANGED content
    BY <1>1, <1>7
  <2> QED BY <2>1, <1>5
<1> QED BY <1>4, <1>5, <1>6, <1>7

\* Something else fails, and the content that should have been written may be removed.
LEMMA FailToImportInv ==
  ASSUME PackageInv, UNCHANGED env, NEW r \in Requests, FailToImport(r)
  PROVE  PackageInv'
<1> DEFINE x == job[r]
           y == [x EXCEPT !.pc = "clean", !.failed = TRUE, !.files = {}]
<1>1. /\ x \in Job
      /\ x.pc \in {"extract", "validate", "list", "required", "create", "temporary"}
      /\ Becomes(r, y) /\ UNCHANGED <<installed, lost, temporary, dirs, exported>>
      /\ temporary \in [Requests -> SUBSET Files]
  BY DEF FailToImport, PackageInv, TypeOK
<1>2. RequestInv(x, installed, lost, content, env)
  BY DEF PackageInv
<1>3. \/ UNCHANGED content
      \/ x.pc = "create" /\ content' = [content EXCEPT ![x.content] = NoDirectory]
  BY DEF FailToImport, At
<1> HIDE DEF x
<1>4. /\ y \in Job /\ y.pc = "clean" /\ y.mode = x.mode /\ y.install = x.install
      /\ y.content = x.content /\ y.isNew = x.isNew /\ y.kept = x.kept /\ y.ok = x.ok
  BY <1>1 DEF Job, Import
<1> HIDE DEF y
<1>5. CASE UNCHANGED content
  <2>1. Follows(x, y)
    BY <1>1, <1>4 DEF Follows, Import, Export, Deletion
  <2>2. RequestInv(y, installed, lost, content, env)
    BY <1>1, <1>2, <1>4
    DEF RequestInv, RequirementsMet, DeletionSafe, ExportComplete, Progress, Import, Export,
        Deletion
  <2> QED BY <1>1, <1>4, <1>5, <2>1, <2>2, PlainStep DEF x
<1>6. CASE x.pc = "create" /\ content' = [content EXCEPT ![x.content] = NoDirectory]
  <2>1. NoDirectory \in Directory /\ ~NoDirectory.known
    BY DEF NoDirectory, Directory, NoNeeds, Needs
  <2> QED BY <1>1, <1>4, <1>6, <2>1, ContentGoes DEF x
<1> QED BY <1>3, <1>5, <1>6

\* The directory of the package is removed, and the import is answered.
LEMMA CleanInv ==
  ASSUME PackageInv, UNCHANGED env, NEW r \in Requests, Clean(r)
  PROVE  PackageInv'
<1>1. /\ job[r] \in Job /\ job[r].pc = "clean"
      /\ dirs' = dirs \ {r} /\ UNCHANGED <<installed, lost, content, temporary, exported>>
  BY DEF Clean, At, PackageInv, TypeOK
<1>2. PICK x \in {NewJob, job[r]} : Becomes(r, [x EXCEPT !.pc = "done"])
  BY DEF Clean, Answer
<1> DEFINE y == [x EXCEPT !.pc = "done"]
<1>3. y \in Job /\ y.pc = "done"
  BY <1>1, <1>2, NewJobHasType DEF Job
<1>4. Becomes(r, y)
  BY <1>2
<1> HIDE DEF y
<1>5. /\ job' \in [Requests -> Job] /\ job'[r] = y
      /\ \A q \in Requests \ {r} : job'[q] = job[q]
  BY <1>3, <1>4, OthersStay DEF PackageInv
<1>6. RequestInv(y, installed, lost, content, env)
  BY <1>3 DEF RequestInv, RequirementsMet, DeletionSafe, ExportComplete, Progress, Import, Export, Deletion
<1>7. Directories'
  BY <1>1, <1>3, <1>5 DEF PackageInv, Directories, TypeOK
<1>8. OneRequestPerContent'
  BY <1>3, <1>5 DEF PackageInv, OneRequestPerContent, Runs
<1>9. ContentHasItsLibraries'
  BY <1>1 DEF PackageInv, ContentHasItsLibraries
<1>10. /\ RequestInv(y, installed', lost', content', env)
       /\ \A q \in Requests \ {r} : RequestInv(job[q], installed', lost', content', env)
       /\ y.pc \notin Deletion /\ Active(job[r])
  BY <1>1, <1>3, <1>6 DEF PackageInv, Deletion, Active
<1> QED BY <1>1, <1>3, <1>4, <1>7, <1>8, <1>9, <1>10, SharedStep DEF PackageInv, TypeOK

\* The package of an export is complete.
LEMMA EndExportInv ==
  ASSUME PackageInv, UNCHANGED env, NEW r \in Requests, EndExport(r)
  PROVE  PackageInv'
<1> DEFINE y == [NewJob EXCEPT !.pc = "done"]
           x == job[r]
<1>1. /\ x.pc = "addLibraries" /\ x.libs = {}
      /\ exported' = [pkg |-> x.pkg, steady |-> x.steady]
      /\ UNCHANGED <<installed, lost, content, temporary, dirs>>
  BY DEF EndExport, At
<1>2. y \in Job /\ y.pc = "done" /\ y.mode = "NoCopy" /\ ~Leftover(y)
  <2>1. y \in Job
    BY NewJobHasType DEF Job
  <2> QED BY <2>1 DEF NewJob, Leftover
<1>3. Becomes(r, y)
  BY <1>1 DEF EndExport, Answer, Import
<1>4. RequestInv(x, installed, lost, content, env)
  BY DEF PackageInv
<1> HIDE DEF x, y
<1>5. ExportGood(exported')
  BY <1>1, <1>4 DEF RequestInv, ExportComplete, ExportGood
<1>6. Follows(x, y)
  BY <1>1, <1>2 DEF Follows, Import, Deletion
<1>7. RequestInv(y, installed, lost, content, env)
  BY <1>2 DEF RequestInv, RequirementsMet, DeletionSafe, ExportComplete, Import, Export, Deletion
<1>8. Directories' /\ OneRequestPerContent'
  BY <1>1, <1>2, <1>3, <1>6, FollowsKeeps DEF x
<1>9. ContentHasItsLibraries'
  BY <1>1 DEF PackageInv, ContentHasItsLibraries
<1>10. /\ RequestInv(y, installed', lost', content', env)
       /\ \A q \in Requests \ {r} : RequestInv(job[q], installed', lost', content', env)
       /\ y.pc \notin Deletion /\ ~Active(y)
  BY <1>1, <1>2, <1>7 DEF PackageInv, Deletion, Active
<1> QED BY <1>1, <1>2, <1>3, <1>5, <1>8, <1>9, <1>10, SharedStep DEF PackageInv, TypeOK

\* A library is deleted.
LEMMA RemoveLibraryInv ==
  ASSUME PackageInv, UNCHANGED env, NEW r \in Requests, RemoveLibrary(r)
  PROVE  PackageInv'
<1> DEFINE y == [NewJob EXCEPT !.pc = "done"]
           x == job[r]
<1>0. lost' \subseteq Libraries
  BY DEF RemoveLibrary, PackageInv, TypeOK
<1>1. /\ x.pc = "delete" /\ installed' = installed \ {x.lib} /\ Disturbs(r, y, x.lib)
      /\ lost \subseteq lost'
      /\ UNCHANGED <<content, temporary, dirs, exported>>
  BY DEF RemoveLibrary, At
<1>2. y \in Job /\ y.pc = "done" /\ y.mode = "NoCopy" /\ ~Leftover(y)
  <2>1. y \in Job
    BY NewJobHasType DEF Job
  <2> QED BY <2>1 DEF NewJob, Leftover
<1>3. RequestInv(x, installed, lost, content, env)
  BY DEF PackageInv
<1>4. "deleteLibrary" \notin env => \A q \in Requests \ {r} : job[q].pc \in {"new", "done"}
  BY <1>1 DEF PackageInv, DeletionAlone, Deletes, Deletion, Active
<1> HIDE DEF x, y
<1>5. Follows(x, y)
  BY <1>1, <1>2 DEF Follows, Import, Deletion
<1>6. RequestInv(y, installed', lost', content', env)
  BY <1>2 DEF RequestInv, RequirementsMet, DeletionSafe, ExportComplete, Import, Export, Deletion
<1>7. /\ job' \in [Requests -> Job] /\ job'[r] = y
      /\ \A q \in Requests \ {r} : Stays(job[q], job'[q])
      /\ \A q \in Requests \ {r} : RequestInv(job'[q], installed', lost', content', env)
  <2>1. /\ installed \ {x.lib} \subseteq installed'
        /\ "deleteLibrary" \notin env => \A q \in Requests \ {r} :
             job[q].pc \notin Deletion /\ job[q].pc \in {"new", "done"}
    BY <1>1, <1>4 DEF Deletion
  <2> QED BY <1>1, <1>2, <2>1, OthersDisturbed
<1>8. Directories' /\ OneRequestPerContent'
  BY <1>1, <1>2, <1>5, <1>7, DisturbsKeeps DEF x
<1>9. ContentHasItsLibraries'
  BY <1>1, <1>3 DEF PackageInv, ContentHasItsLibraries, RequestInv, DeletionSafe, Needed
<1>10. ~Active(y) /\ y.pc \notin Deletion
  BY <1>2 DEF Active, Deletion
<1> QED BY <1>0, <1>1, <1>2, <1>6, <1>7, <1>8, <1>9, <1>10, AnyStep DEF PackageInv, TypeOK

\* A request begins that works on content c, if on any.
LEMMA Begins ==
  ASSUME PackageInv, UNCHANGED env, NEW r \in Requests, NEW y \in Job, Begin(r, y),
         job[r].pc = "new", y.pc # "new",
         UNCHANGED <<installed, lost, exported>>, temporary' = temporary,
         content' \in [Contents -> Directory],
         \A c \in Contents : content'[c].known => content'[c].there,
         \A q \in Requests \ {r} : RequestInv(job[q], installed, lost, content', env),
         RequestInv(y, installed, lost, content', env), ContentHasItsLibraries',
         dirs' = dirs \/ (dirs' = dirs \cup {r} /\ y.pc \in Import)
  PROVE  PackageInv'
<1> USE DEF PackageInv
<1>1. /\ job' \in [Requests -> Job] /\ job'[r] = y
      /\ \A q \in Requests \ {r} : job'[q] = job[q]
  BY OthersStay DEF Begin
<1>2. TypeOK'
  BY <1>1 DEF TypeOK
<1>3. Directories'
  BY <1>1 DEF Directories, TypeOK
<1>4. DeletionAlone'
  BY <1>1 DEF DeletionAlone, Runs, Works, Deletes, Begin, Deletion, Active, Leftover
<1>5. OneRequestPerContent'
  BY <1>1 DEF OneRequestPerContent, Runs, Begin
<1>6. \A q \in Requests : RequestInv(job[q], installed, lost, content, env)'
  BY <1>1
<1>7. (exported # NoPackage => ExportGood(exported))'
  BY DEF ExportGood
<1> QED BY <1>2, <1>3, <1>4, <1>5, <1>6, <1>7

LEMMA BeginImportInv ==
  ASSUME PackageInv, UNCHANGED env, NEW r \in Requests, job[r].pc = "new",
         NEW p \in Packages, NEW mode \in {"Install", "Temporary", "NoCopy"},
         NEW install \in BOOLEAN, NEW c \in Contents \cup {NoContent},
         BeginImport(r, p, mode, install, c)
  PROVE  PackageInv'
<1> DEFINE y == [NewJob EXCEPT !.pc = "extract", !.pkg = p, !.mode = mode, !.install = install,
                               !.content = c]
<1>1. y \in Job
  BY NewJobHasType, PackageServerAssumption DEF Job, Import, PackageServerAssumption
<1>2. y.pc = "extract" /\ ~y.ok /\ ~y.isNew
  BY DEF NewJob
<1>3. Begin(r, y) /\ dirs' = dirs \cup {r} /\ UNCHANGED <<installed, lost, content, temporary, exported>>
  BY DEF BeginImport
<1> HIDE DEF y
<1>4. RequestInv(y, installed, lost, content, env)
  BY <1>2 DEF RequestInv, RequirementsMet, DeletionSafe, ExportComplete, Progress, Import, Export, Deletion
<1>5. /\ content' \in [Contents -> Directory]
      /\ \A e \in Contents : content'[e].known => content'[e].there
      /\ \A q \in Requests \ {r} : RequestInv(job[q], installed, lost, content', env)
      /\ RequestInv(y, installed, lost, content', env) /\ ContentHasItsLibraries'
  BY <1>3, <1>4 DEF PackageInv, TypeOK, ContentHasItsLibraries
<1> QED BY <1>1, <1>2, <1>3, <1>5, Begins DEF Import

LEMMA BeginExportInv ==
  ASSUME PackageInv, UNCHANGED env, NEW r \in Requests, job[r].pc = "new",
         NEW c \in Contents, BeginExport(r, c)
  PROVE  PackageInv'
<1> DEFINE y == [NewJob EXCEPT !.pc = "parameters", !.content = c,
                               !.steady = installed \ Changing]
<1>1. y \in Job
  BY NewJobHasType DEF Job, Export, PackageInv, TypeOK
<1>2. /\ y.pc = "parameters" /\ y.content = c /\ y.steady \subseteq installed /\ y.pkg.libs = {}
      /\ y.seen = {} /\ ~y.install /\ y.changing = {} /\ y.mode = "NoCopy"
  BY DEF NewJob, EmptyPackage
<1>3. Begin(r, y) /\ UNCHANGED <<installed, lost, content, temporary, dirs, exported>>
  BY DEF BeginExport
<1> HIDE DEF y
<1>4. RequestInv(y, installed, lost, content, env)
  BY <1>2 DEF RequestInv, RequirementsMet, DeletionSafe, ExportComplete, Export, Deletion
<1>5. /\ content' \in [Contents -> Directory]
      /\ \A e \in Contents : content'[e].known => content'[e].there
      /\ \A q \in Requests \ {r} : RequestInv(job[q], installed, lost, content', env)
      /\ RequestInv(y, installed, lost, content', env) /\ ContentHasItsLibraries'
  BY <1>3, <1>4 DEF PackageInv, TypeOK, ContentHasItsLibraries
<1> QED BY <1>1, <1>2, <1>3, <1>5, Begins

LEMMA DeleteContentInv ==
  ASSUME PackageInv, UNCHANGED env, NEW r \in Requests, job[r].pc = "new",
         NEW c \in Contents, DeleteContent(r, c)
  PROVE  PackageInv'
<1> DEFINE y == [NewJob EXCEPT !.pc = "done", !.content = c]
<1>1. y \in Job
  BY NewJobHasType DEF Job
<1>2. y.pc = "done" /\ y.content = c
  BY DEF NewJob
<1>3. /\ Begin(r, y) /\ content' = [content EXCEPT ![c] = NoDirectory]
      /\ UNCHANGED <<installed, lost, temporary, dirs, exported>>
  BY DEF DeleteContent
<1> HIDE DEF y
<1>4. NoDirectory \in Directory /\ ~NoDirectory.known
  BY DEF NoDirectory, Directory, NoNeeds, Needs
<1>5. /\ content' \in [Contents -> Directory] /\ content'[c] = NoDirectory
      /\ \A e \in Contents \ {c} : content'[e] = content[e]
  BY <1>3, <1>4 DEF PackageInv, TypeOK
<1>6. "deleteLibrary" \notin env => \A q \in Requests : job[q].pc \notin Deletion
  BY <1>2, <1>3 DEF Begin, Deletes, Deletion
<1>7. "sameContent" \notin env =>
        \A q \in Requests : job[q].content # c \/ job[q].pc \in {"new", "done"}
  BY <1>2, <1>3, PackageServerAssumption DEF Begin, Runs, PackageServerAssumption
<1>8. \A q \in Requests \ {r} : RequestInv(job[q], installed, lost, content', env)
  BY <1>5, <1>6, <1>7, DirectoryChanges DEF PackageInv
<1>9. RequestInv(y, installed, lost, content', env)
  BY <1>2 DEF RequestInv, RequirementsMet, DeletionSafe, ExportComplete, Progress, Import, Export, Deletion
<1>10. ContentHasItsLibraries'
  BY <1>3, <1>4, <1>5 DEF PackageInv, ContentHasItsLibraries
<1>11. \A e \in Contents : content'[e].known => content'[e].there
  BY <1>4, <1>5 DEF PackageInv, TypeOK
<1> QED BY <1>1, <1>2, <1>3, <1>5, <1>8, <1>9, <1>10, <1>11, Begins

LEMMA BeginDeleteLibraryInv ==
  ASSUME PackageInv, UNCHANGED env, NEW r \in Requests, job[r].pc = "new",
         NEW l \in Libraries, BeginDeleteLibrary(r, l)
  PROVE  PackageInv'
<1> DEFINE y == [NewJob EXCEPT !.pc = "contents", !.lib = l]
<1>1. y \in Job
  BY NewJobHasType DEF Job, Deletion
<1>2. y.pc = "contents" /\ ~y.install /\ y.changing = {} /\ y.mode = "NoCopy"
  BY DEF NewJob
<1>3. Begin(r, y) /\ UNCHANGED <<installed, lost, content, temporary, dirs, exported>>
  BY DEF BeginDeleteLibrary
<1> HIDE DEF y
<1>4. RequestInv(y, installed, lost, content, env)
  BY <1>2 DEF RequestInv, RequirementsMet, DeletionSafe, ExportComplete, Export, Deletion
<1>5. /\ content' \in [Contents -> Directory]
      /\ \A e \in Contents : content'[e].known => content'[e].there
      /\ \A q \in Requests \ {r} : RequestInv(job[q], installed, lost, content', env)
      /\ RequestInv(y, installed, lost, content', env) /\ ContentHasItsLibraries'
  BY <1>3, <1>4 DEF PackageInv, TypeOK, ContentHasItsLibraries
<1> QED BY <1>1, <1>2, <1>3, <1>5, Begins

\* The process stops.
LEMMA CrashInv ==
  ASSUME PackageInv, UNCHANGED env, Crash
  PROVE  PackageInv'
<1> DEFINE y == [NewJob EXCEPT !.pc = "done"]
<1>1. y \in Job /\ y.pc = "done" /\ y.mode = "NoCopy" /\ ~Leftover(y)
  <2>1. y \in Job
    BY NewJobHasType DEF Job
  <2> QED BY <2>1 DEF NewJob, Leftover
<1>2. /\ job' = [r \in Requests |-> IF job[r].pc = "new" THEN job[r] ELSE y]
      /\ installed' \subseteq installed /\ installed \subseteq installed' \cup lost'
      /\ lost' = lost \cup Changing
      /\ "crash" \in env /\ UNCHANGED <<content, temporary, dirs, exported>>
  BY DEF Crash, At
<1> HIDE DEF y
<1>3. /\ job' \in [Requests -> Job]
      /\ \A r \in Requests : \/ job[r].pc = "new" /\ job'[r] = job[r]
                             \/ job'[r] = y
  BY <1>1, <1>2 DEF PackageInv, TypeOK
<1>4. TypeOK'
  <2>1. Changing \subseteq Libraries
    BY DEF PackageInv, TypeOK, Changing, Job
  <2> QED BY <1>2, <1>3, <2>1 DEF PackageInv, TypeOK
<1>5. Directories'
  BY <1>1, <1>2, <1>3 DEF PackageInv, Directories, TypeOK
<1>6. DeletionAlone' /\ OneRequestPerContent'
  BY <1>1, <1>3 DEF DeletionAlone, OneRequestPerContent, Runs, Deletes, Deletion
<1>7. RequestInv(y, installed', lost', content', env)
  BY <1>1 DEF RequestInv, RequirementsMet, DeletionSafe, ExportComplete, Export, Deletion
<1>8. \A r \in Requests : job[r].pc = "new" =>
        RequestInv(job[r], installed', lost', content', env)
  BY <1>2
  DEF PackageInv, RequestInv, RequirementsMet, DeletionSafe, ExportComplete, Export, Deletion
<1>9. \A r \in Requests : RequestInv(job[r], installed, lost, content, env)'
  BY <1>3, <1>7, <1>8
<1>10. ContentHasItsLibraries' /\ (exported # NoPackage => ExportGood(exported))'
  BY <1>2 DEF PackageInv, ContentHasItsLibraries, ExportGood
<1> QED BY <1>4, <1>5, <1>6, <1>9, <1>10 DEF PackageInv

LEMMA PackagesNextInv == PackageInv /\ [Next]_vars => PackageInv'
<1> SUFFICES ASSUME PackageInv, [Next]_vars
             PROVE  PackageInv'
  OBVIOUS
<1>1. CASE UNCHANGED vars
  BY <1>1
  DEF vars, PackageInv, TypeOK, Directories, DeletionAlone, OneRequestPerContent, Runs, Deletes,
      ContentHasItsLibraries
<1>2. ASSUME UNCHANGED env, NEW r \in Requests, BeginRequest(r)
      PROVE  PackageInv'
  BY <1>2, BeginImportInv, BeginExportInv, DeleteContentInv, BeginDeleteLibraryInv
  DEF BeginRequest, At
<1>3. ASSUME UNCHANGED env, NEW r \in Requests, ImportStep(r)
      PROVE  PackageInv'
  BY <1>3, ExtractInv, ValidateInv, EndInstallsInv, ListInstalledInv, CheckRequiredInv,
     EndFilesInv,
     UndoInv, EndTemporaryInv, CleanInv, SkipLibraryInv, BeginInstallInv, CompleteInstallInv,
     CreateContentInv, OpenFileInv,
     WriteFileInv, CopyToTemporaryInv
  DEF ImportStep
<1>4. ASSUME UNCHANGED env, NEW r \in Requests, ExportStep(r)
      PROVE  PackageInv'
  BY <1>4, ReadParametersInv, ReadMetadataInv, ScanFilesInv, ListContentFilesInv,
     AddLibraryFilesInv, EndResolveInv, EndExportInv, AddContentFileInv, ResolveInv, AddLibraryInv
  DEF ExportStep
<1>5. ASSUME UNCHANGED env, NEW r \in Requests, DeletionStep(r)
      PROVE  PackageInv'
  BY <1>5, ListContentsInv, ListLibrariesInv, CountDependentsInv, RemoveLibraryInv, ReadUsageInv
  DEF DeletionStep
<1>6. ASSUME UNCHANGED env, NEW r \in Requests, Failure(r)
      PROVE  PackageInv'
  BY <1>6, FailToBeginInv, FailToInstallInv, FailToCopyInv, FailToUndoInv, FailToImportInv,
     FailToListInv, FailToExportInv, FailToDeleteInv
  DEF Failure
<1>7. CASE Next
  BY <1>7, <1>2, <1>3, <1>4, <1>5, <1>6, CrashInv DEF Next, Step
<1> QED BY <1>1, <1>7

\* What PackageServer keeps: the parts of the invariant for each request under way, and
\* with them the libraries of the contents and the exports.
THEOREM PackagesInvariant == Spec => []PackageInv
BY PackagesInit, PackagesNextInv, PTL DEF Spec

-----------------------------------------------------------------------------
(* What leaves the server is what deleteLibrary or a failed installation removes *)

LEMMA OnlyRemovedLibrariesLeave ==
  ASSUME Next, NEW m \in installed \ (installed' \cup lost')
  PROVE  \E r \in Requests : RemoveLibrary(r)
<1>1. ASSUME NEW r \in Requests, BeginRequest(r) PROVE installed' = installed
  BY <1>1 DEF BeginRequest, BeginImport, BeginExport, DeleteContent, BeginDeleteLibrary
<1>2. ASSUME NEW r \in Requests, ImportStep(r) PROVE installed \subseteq installed'
  BY <1>2
  DEF ImportStep, Extract, Validate, EndInstalls, ListInstalled, CheckRequired, EndFiles, Undo,
      EndTemporary, Clean, SkipLibrary, BeginInstall, CompleteInstall, CreateContent, OpenFile,
      WriteFile, CopyToTemporary
<1>3. ASSUME NEW r \in Requests, ExportStep(r) PROVE installed' = installed
  BY <1>3
  DEF ExportStep, ReadParameters, ReadMetadata, ScanFiles, ListContentFiles, AddLibraryFiles,
      EndResolve, EndExport, AddContentFile, Resolve, AddLibrary
<1>4. ASSUME NEW r \in Requests, DeletionStep(r), ~RemoveLibrary(r) PROVE installed' = installed
  BY <1>4 DEF DeletionStep, ListContents, ListLibraries, CountDependents, ReadUsage
<1>5. ASSUME NEW r \in Requests, Failure(r) PROVE installed \subseteq installed' \cup lost'
  BY <1>5
  DEF Failure, FailToBegin, FailToInstall, FailToCopy, FailToUndo, FailToImport, FailToList,
      FailToExport, FailToDelete
<1>6. Crash => installed \subseteq installed' \cup lost'
  BY DEF Crash
<1> QED BY <1>1, <1>2, <1>3, <1>4, <1>5, <1>6 DEF Next, Step

LEMMA DependentsKept ==
  ASSUME PackageInv, [Next]_vars, "deleteLibrary" \notin env,
         NEW m \in installed \ (installed' \cup lost'), NEW l \in installed',
         m \in Preloaded[l] \cup Editor[l] \cup Dynamic[l]
  PROVE  Circular(l, m)
<1>1. Next
  BY DEF vars
<1>2. PICK r \in Requests : RemoveLibrary(r)
  BY <1>1, OnlyRemovedLibrariesLeave
<1>3. m = job[r].lib /\ l \in installed /\ job[r].pc = "delete"
  BY <1>2 DEF RemoveLibrary, At
<1>4. ~DependsOn(l, m)
  BY <1>2, <1>3 DEF PackageInv, RequestInv, DeletionSafe
<1> QED BY <1>4 DEF DependsOn

-----------------------------------------------------------------------------
(* The server is made of the two *)

\* Seen without the hub, the server does what PackageServer may do: what a hub query
\* hands to PackageImporter is one of the imports users may ask for.
THEOREM ServerImplementsPackages == ServerSpec => Spec
<1>1. ServerInit => Init
  BY DEF ServerInit
<1>2. [ServerNext]_serverVars => [Next]_vars
  <2> SUFFICES ASSUME [ServerNext]_serverVars PROVE [Next]_vars
    OBVIOUS
  <2>1. CASE UNCHANGED serverVars
    BY <2>1 DEF serverVars, vars
  <2>2. CASE Next
    BY <2>2
  <2>3. CASE UNCHANGED vars
    BY <2>3
  <2>4. ASSUME UNCHANGED env, NEW q \in Queries, NEW r \in Requests, NEW p \in Packages,
               InstallContentType(q, r, p)
        PROVE  Next
    <3>1. BeginRequest(r)
      BY <2>4 DEF InstallContentType, BeginRequest
    <3> QED BY <2>4, <3>1 DEF Next
  <2>5. ASSUME UNCHANGED env, NEW r \in Requests, ImportStep(r)
        PROVE  Next
    BY <2>5 DEF Next, Step
  <2> QED BY <2>1, <2>2, <2>3, <2>4, <2>5 DEF ServerNext, HubNext
<1> QED BY <1>1, <1>2, PTL DEF ServerSpec, Spec

\* Seen without the packages, it does what ContentTypeHub may do.
THEOREM ServerImplementsHub == ServerSpec => Hub!Spec
<1>1. ServerInit => Hub!Init
  BY DEF ServerInit
<1>2. [ServerNext]_serverVars => [Hub!Next]_(Hub!vars)
  <2> SUFFICES ASSUME [ServerNext]_serverVars PROVE [Hub!Next]_(Hub!vars)
    OBVIOUS
  <2>1. CASE UNCHANGED serverVars
    BY <2>1 DEF serverVars, hubVars, Hub!vars
  <2>2. CASE UNCHANGED hubVars
    BY <2>2 DEF hubVars, Hub!vars
  <2>3. CASE Hub!Step
    BY <2>3 DEF Hub!Next
  <2>4. ASSUME NEW q \in Queries, NEW r \in Requests, NEW p \in Packages,
               InstallContentType(q, r, p)
        PROVE  Hub!Next
    BY <2>4 DEF InstallContentType, Hub!Next
  <2> QED BY <2>1, <2>2, <2>3, <2>4 DEF ServerNext, HubNext
<1> QED BY <1>1, <1>2, PTL DEF ServerSpec, Hub!Spec

-----------------------------------------------------------------------------
(* The theorems *)

\* Every variable of the server has its type.
THEOREM ServerTypeCorrect == ServerSpec => []ServerTypeOK
<1>1. PackageInv /\ HubInv => ServerTypeOK
  BY DEF PackageInv, HubInv, ServerTypeOK
<1> QED BY <1>1, ServerImplementsPackages, ServerImplementsHub, PackagesInvariant,
HubInvariant, PTL

\* Every content has the libraries its h5p.json names, but for those a failed or
\* interrupted installation has removed, whatever imports, deletions, failures and crashes
\* come between: the requirements are checked after the installation, and deleteLibrary
\* looks at every content before it removes a library.
THEOREM ContentsHaveTheirLibraries == ServerSpec => []ContentHasItsLibraries
<1>1. PackageInv => ContentHasItsLibraries
  BY DEF PackageInv
<1> QED BY <1>1, ServerImplementsPackages, PackagesInvariant, PTL

\* No deletion takes a library from an installed one that depends on it; a library that
\* leaves otherwise is one whose installation has failed or was interrupted.
THEOREM DependentsAreKept == ServerSpec => DependentsKeepTheirLibraries
<1>1. PackageInv /\ [Next]_vars =>
        [ "deleteLibrary" \notin env =>
            \A m \in installed \ (installed' \cup lost'), l \in installed' :
              m \in Preloaded[l] \cup Editor[l] \cup Dynamic[l] => Circular(l, m) ]_vars
  BY DependentsKept
<1> QED BY <1>1, ServerImplementsPackages, PackagesInvariant, PTL
        DEF Spec, DependentsKeepTheirLibraries

\* An import that is answered without an error has stored its content with all its
\* files, one that is answered with an error has left none it created, if that may and can
\* be deleted.
THEOREM ImportsAreAllOrNothing == ServerSpec => []ImportIsAllOrNothing
<1>1. PackageInv => ImportIsAllOrNothing
  <2> SUFFICES ASSUME PackageInv, "sameContent" \notin env,
                      NEW r \in Requests,
                      job[r].pc = "clean", job[r].mode = "Install", job[r].content # NoContent
               PROVE  IF job[r].ok
                      THEN /\ content[job[r].content].known
                           /\ job[r].pkg.files \subseteq content[job[r].content].files
                      ELSE job[r].isNew /\ ~job[r].kept => ~content[job[r].content].known
    BY DEF ImportIsAllOrNothing, At
  <2>1. job[r].content \in Contents
    BY DEF PackageInv, TypeOK, Job
  <2> QED BY <2>1 DEF PackageInv, RequestInv, Progress
<1> QED BY <1>1, ServerImplementsPackages, PackagesInvariant, PTL

\* An export packs all that is needed and that stays installed and readable while it runs.
THEOREM ExportsAreComplete == ServerSpec => []ExportsCanBeImported
<1>1. PackageInv => ExportsCanBeImported
  BY DEF PackageInv, ExportsCanBeImported, ExportGood, Closed, Followed
<1> QED BY <1>1, ServerImplementsPackages, PackagesInvariant, PTL

\* The directory of a package is gone when its import has been answered.
THEOREM DirectoriesAreRemoved == ServerSpec => []PackagesAreCleanedUp
<1>1. PackageInv => PackagesAreCleanedUp
  BY DEF PackageInv, Directories, PackagesAreCleanedUp, Import
<1> QED BY <1>1, ServerImplementsPackages, PackagesInvariant, PTL

\* Whoever finds a time of the last update finds a list.
THEOREM UpdateTimesHaveLists == ServerSpec => []UpdateTimeHasList
<1>1. HubInv => UpdateTimeHasList
  BY DEF HubInv, Lists, UpdateTimeHasList, Hub!UpdateTimeHasList
<1> QED BY <1>1, ServerImplementsHub, HubInvariant, PTL

\* While queries do not overlap and nothing fails the hub sees one identity, even if
\* the process stops while it registers.
THEOREM IdentityIsUnique == ServerSpec => []OneIdentity
<1>1. HubInv => OneIdentity
  BY DEF HubInv, Identity, OneIdentity, Hub!OneIdentity
<1> QED BY <1>1, ServerImplementsHub, HubInvariant, PTL

\* While all writes are done before the next query, and nothing fails, a query for the
\* metadata of the content hub is answered with them.
THEOREM MetadataQueriesAreAnswered == ServerSpec => []MetadataIsAnswered
<1>1. HubInv => MetadataIsAnswered
  BY DEF HubInv, Metadata, MetadataIsAnswered, Hub!MetadataIsAnswered, Hub!At
<1> QED BY <1>1, ServerImplementsHub, HubInvariant, PTL

=============================================================================
