--------------------------- MODULE HostOperations ---------------------------
(***************************************************************************)
(* Who issues which references, and which references an operation asks     *)
(* for.  Main (apps/desktop/src/main/ipc.ts) gives every reference a kind, *)
(* a set of permissions and possibly one use at the place where it is      *)
(* issued: a file dialog, the list of recent items, the result of another  *)
(* operation.  Every handler names the kind and the permission again where *)
(* it resolves a reference, and once more where it consumes it.  Nothing   *)
(* in the code ties the two ends together but the way the workbench page   *)
(* (renderer/App.tsx) passes a reference on from the one to the other.     *)
(***************************************************************************)
EXTENDS Naturals, Sequences

\* Two tables as one; the tables below share no name.
f ++ g == [x \in DOMAIN f \cup DOMAIN g |-> IF x \in DOMAIN f THEN f[x] ELSE g[x]]

\* The arguments of registry.issue.
Grant(kind, permissions, oneUse) ==
    [kind |-> kind, permissions |-> permissions, oneUse |-> oneUse]

Once(kind, permission)        == Grant(kind, {permission}, TRUE)
Repeatedly(kind, permissions) == Grant(kind, permissions, FALSE)

\* WORKSPACE_PERMISSIONS, of every workspace reference the page is given.
Workspace ==
    Repeatedly("workspace",
        {"loadWorkspace", "addAsset", "recordEvent", "sealPackage",
         "exportWorkspaceOutput", "getCreationSessions",
         "createC2paObservation"})

\* The permissions of a package are spelled out where one is issued.
Package ==
    Repeatedly("package", {"verifyPackage", "inspectPackage",
                           "matchImageToPackage", "requestTrustedTimestamp"})

Provider ==
    Repeatedly("provider-installation",
        {"inspectProviderInstallation", "createCreationSession"})

\* Mutant of RecentGrant: a recent package does not grant what came later.
RecentGrantOld(kind) ==
    IF kind = "workspace" THEN Workspace
    ELSE Repeatedly("package", {"verifyPackage", "inspectPackage"})

\* issueRecent in publicState.
RecentGrant(kind) == IF kind = "workspace" THEN Workspace ELSE Package

\* The dialogs of a workspace and its creations.
WorkspaceDialogs ==
    [ chooseWorkspaceParent |->
         Repeatedly("workspace-parent",
                    {"previewWorkspaceTarget", "initializeWorkspace"}),
      chooseExistingWorkspace |-> Workspace,
      chooseAsset             |-> Once("asset", "addAsset"),
      chooseImage             |-> Once("image", "matchImageToPackage"),
      chooseCreationOutput    |-> Once("image-output", "exportWorkspaceOutput") ]

\* Of packages and their timestamps.
PackageDialogs ==
    [ choosePackage                |-> Package,
      choosePackageOutput          |-> Once("package-output", "sealPackage"),
      chooseTsaProfile             |-> Once("tsa-profile", "importTsaProfile"),
      chooseTimestampPackageOutput |->
         Once("timestamp-package-output", "requestTrustedTimestamp") ]

\* Of C2PA and of the official identity.
TrustDialogs ==
    [ chooseC2paTrustProfile |-> Once("c2pa-trust-profile", "importC2paTrustProfile"),
      chooseC2paImage        |-> Repeatedly("image", {"inspectC2paImage"}),
      chooseC2paSidecar      |->
         Repeatedly("c2pa-sidecar", {"inspectC2paImage", "createC2paObservation"}),
      chooseOfficialAttestation |->
         Once("official-attestation", "verifyOfficialIdentity"),
      chooseOfficialIssuerTrust |->
         Once("official-issuer-trust", "verifyOfficialIdentity"),
      chooseOfficialStatus      |-> Once("official-status", "verifyOfficialIdentity") ]

ReportDialog   == [chooseReportOutput |-> Once("report-output", "saveReport")]
ProviderDialog == [chooseProviderInstallation |-> Provider]

\* References that are part of a result: of a workspace that was made or loaded, a
\* sealed or a timestamped package, an exported image;
ResultGrants ==
    [ publishWorkspace   |-> Workspace,
      sealedPackage      |-> Package,
      timestampedPackage |-> Package,
      exportedImage      |-> Once("image", "matchImageToPackage") ]

\* of a creation session;
SessionGrants ==
    [ sessionWorkspace |-> Workspace,
      sessionProvider  |-> Provider,
      sessionPackage   |-> Package ]

\* and those that runCreationSession, completeCreationProof and
\* exportCreationOutput issue to call another operation with.
HandlerGrants ==
    [ runAsset          |-> Once("asset", "addAsset"),
      runWorkspace      |-> Workspace,
      completeWorkspace |-> Workspace,
      exportWorkspace   |-> Repeatedly("workspace", {"exportWorkspaceOutput"}) ]

RecentGrants == [recentWorkspace |-> RecentGrant("workspace"),
                 recentPackage   |-> RecentGrant("package")]

GrantOf == WorkspaceDialogs ++ PackageDialogs ++ TrustDialogs ++ ReportDialog
              ++ ProviderDialog ++ ResultGrants ++ SessionGrants
              ++ HandlerGrants ++ RecentGrants

Sources == DOMAIN GrantOf

-----------------------------------------------------------------------------
\* A reference an operation resolves: its kind, the permission that is asked
\* for, whether it is consumed once the work is under way or done, and where
\* the callers of the operation have it from.
Input(kind, permission, consumed, from) ==
    [kind |-> kind, permission |-> permission, consumed |-> consumed, from |-> from]

\* The page works in the workspace that enterWorkspaceScope was given.
InWorkspace(permission) == Input("workspace", permission, FALSE, {"publishWorkspace"})

\* Where packageReference of the page comes from.
OfPackage(permission) ==
    Input("package", permission, FALSE,
          {"choosePackage", "recentPackage", "sealedPackage",
           "timestampedPackage", "sessionPackage"})

\* startAuthorizedJob: the references an operation resolves, in its order.
WorkspaceJobs ==
    [ initializeWorkspace |->
         <<Input("workspace-parent", "initializeWorkspace", FALSE,
                 {"chooseWorkspaceParent"})>>,
      loadWorkspace |->
         <<Input("workspace", "loadWorkspace", FALSE,
                 {"chooseExistingWorkspace", "recentWorkspace",
                  "publishWorkspace", "sessionWorkspace"})>>,
      addAsset |->
         <<Input("workspace", "addAsset", FALSE, {"publishWorkspace", "runWorkspace"}),
           Input("asset", "addAsset", TRUE, {"chooseAsset", "runAsset"})>> ]

ImageJobs ==
    [ exportWorkspaceOutput |->
         <<Input("workspace", "exportWorkspaceOutput", FALSE, {"exportWorkspace"}),
           Input("image-output", "exportWorkspaceOutput", TRUE,
                 {"chooseCreationOutput"})>>,
      matchImageToPackage |->
         <<OfPackage("matchImageToPackage"),
           Input("image", "matchImageToPackage", TRUE,
                 {"chooseImage", "exportedImage"})>> ]

ProofJobs ==
    [ recordEvent    |-> <<InWorkspace("recordEvent")>>,
      sealPackage    |->
         <<Input("workspace", "sealPackage", FALSE,
                 {"publishWorkspace", "completeWorkspace"}),
           Input("package-output", "sealPackage", TRUE, {"choosePackageOutput"})>>,
      verifyPackage  |-> <<OfPackage("verifyPackage")>>,
      inspectPackage |-> <<OfPackage("inspectPackage")>> ]

\* The handlers that do their work themselves or call executeUtility.
ProviderRequests ==
    [ inspectProviderInstallation |->
         <<Input("provider-installation", "inspectProviderInstallation", FALSE,
                 {"chooseProviderInstallation"})>>,
      createCreationSession |->
         <<InWorkspace("addAsset"),
           Input("provider-installation", "createCreationSession", FALSE,
                 {"chooseProviderInstallation"})>>,
      getCreationSessions |-> <<InWorkspace("getCreationSessions")>> ]

ProfileImports ==
    [ importTsaProfile |->
         <<Input("tsa-profile", "importTsaProfile", TRUE, {"chooseTsaProfile"})>>,
      importC2paTrustProfile |->
         <<Input("c2pa-trust-profile", "importC2paTrustProfile", TRUE,
                 {"chooseC2paTrustProfile"})>> ]

C2paRequests ==
    [ inspectC2paImage |->
         <<Input("image", "inspectC2paImage", FALSE, {"chooseC2paImage"}),
           Input("c2pa-sidecar", "inspectC2paImage", FALSE, {"chooseC2paSidecar"})>>,
      createC2paObservation |->
         <<InWorkspace("createC2paObservation"),
           Input("c2pa-sidecar", "createC2paObservation", FALSE,
                 {"chooseC2paSidecar"})>> ]

IdentityRequests ==
    [ verifyOfficialIdentity |->
         <<Input("official-attestation", "verifyOfficialIdentity", TRUE,
                 {"chooseOfficialAttestation"}),
           Input("official-issuer-trust", "verifyOfficialIdentity", TRUE,
                 {"chooseOfficialIssuerTrust"}),
           Input("official-status", "verifyOfficialIdentity", TRUE,
                 {"chooseOfficialStatus"})>> ]

TimestampRequests ==
    [ requestTrustedTimestamp |->
         <<OfPackage("requestTrustedTimestamp"),
           Input("timestamp-package-output", "requestTrustedTimestamp", TRUE,
                 {"chooseTimestampPackageOutput"})>> ]

TargetPreviews ==
    [ previewWorkspaceTarget |->
         <<Input("workspace-parent", "previewWorkspaceTarget", FALSE,
                 {"chooseWorkspaceParent"})>> ]

ReportRequests ==
    [ saveReport |->
         <<Input("report-output", "saveReport", TRUE, {"chooseReportOutput"})>> ]

JobInputs    == WorkspaceJobs ++ ImageJobs ++ ProofJobs
DirectInputs == ProviderRequests ++ ProfileImports ++ C2paRequests
                   ++ IdentityRequests ++ TimestampRequests ++ TargetPreviews
                   ++ ReportRequests

Operations == DOMAIN JobInputs \union DOMAIN DirectInputs

\* A sidecar and a status snapshot, which come last, may be left out.
Optional == {"c2pa-sidecar", "official-status"}

\* What a request for an operation may carry.
InputsOf(operation) ==
    LET all == (JobInputs ++ DirectInputs)[operation] IN
    {all} \union (IF all[Len(all)].kind \in Optional
                  THEN {SubSeq(all, 1, Len(all) - 1)} ELSE {})
=============================================================================
