------------------------------ MODULE H5PServer ------------------------------
(***************************************************************************)
(* The server with the H5P Hub behind it: PackageServer, and               *)
(* ContentTypeHub, whose installations of content types are imports of     *)
(* downloaded packages.  A behaviour is about one of the two.              *)
(***************************************************************************)
EXTENDS PackageServer

CONSTANTS Queries, MaxVersion, HubEnvironments

VARIABLES list, listTime, uuid, saved, meta, metaTime, writing, hub, used, query, hubEnv,
          focus  \* whose requests are made

Hub == INSTANCE ContentTypeHub WITH Environments <- HubEnvironments, env <- hubEnv

ASSUME HubAssumption == Hub!ContentTypeHubAssumption

hubVars == <<list, listTime, uuid, saved, meta, metaTime, writing, hub, used, query, hubEnv>>
serverVars == <<vars, hubVars, focus>>

ServerInit ==
  /\ Init /\ Hub!Init
  /\ focus \in {"packages", "hub"}
  /\ focus = "hub" => env = {} /\ installed = {}
  /\ focus = "packages" => env # {} /\ hubEnv = {}

\* installContentType hands the package it has downloaded to PackageImporter.
InstallContentType(q, r, p) ==
  /\ Hub!InstallPackage(q)
  /\ At(r, "new")
  /\ BeginImport(r, p, "NoCopy", TRUE, NoContent)
  /\ UNCHANGED hubEnv

HubNext ==
  \/ Hub!Step /\ UNCHANGED vars
  \/ /\ UNCHANGED env
     /\ \E q \in Queries, r \in Requests, p \in Packages : InstallContentType(q, r, p)
  \/ /\ UNCHANGED <<env, hubVars>>
     /\ \E r \in Requests : ImportStep(r)

ServerNext ==
  /\ UNCHANGED focus
  /\ \/ focus = "packages" /\ Next /\ UNCHANGED hubVars
     \/ focus = "hub" /\ HubNext

ServerSpec == ServerInit /\ [][ServerNext]_serverVars

-----------------------------------------------------------------------------
(* Properties *)

\* Every variable has its type.
ServerTypeOK == TypeOK /\ Hub!TypeOK

\* As in ContentTypeHub.
UpdateTimeHasList == Hub!UpdateTimeHasList
OneIdentity       == Hub!OneIdentity
MetadataIsAnswered == Hub!MetadataIsAnswered

=============================================================================
