------------------------ MODULE HostReferences_proofs ------------------------
(* What a reference is spent for, for any number of requests and renderers, *)
(* and that every place the page has a reference from issues it as the      *)
(* operation asks for it.                                                   *)
EXTENDS HostReferences, TLAPS, SequenceTheorems

(***************************************************************************)
(* The tables of HostOperations.                                            *)
(***************************************************************************)
\* What a table is that was put together from two.
LEMMA Merged ==
    ASSUME NEW f, NEW g
    PROVE  /\ DOMAIN (f ++ g) = DOMAIN f \cup DOMAIN g
           /\ \A x \in DOMAIN f : (f ++ g)[x] = f[x]
           /\ \A x \in DOMAIN g : x \notin DOMAIN f => (f ++ g)[x] = g[x]
  BY DEF ++

LEMMA GrantTables ==
    /\ DOMAIN WorkspaceDialogs = {"chooseWorkspaceParent", "chooseExistingWorkspace", "chooseAsset",
                                  "chooseImage", "chooseCreationOutput"}
    /\ DOMAIN PackageDialogs = {"choosePackage", "choosePackageOutput", "chooseTsaProfile",
                                "chooseTimestampPackageOutput"}
    /\ DOMAIN TrustDialogs = {"chooseC2paTrustProfile", "chooseC2paImage", "chooseC2paSidecar",
                              "chooseOfficialAttestation", "chooseOfficialIssuerTrust",
                              "chooseOfficialStatus"}
    /\ DOMAIN ReportDialog = {"chooseReportOutput"}
    /\ DOMAIN ProviderDialog = {"chooseProviderInstallation"}
    /\ DOMAIN ResultGrants = {"publishWorkspace", "sealedPackage", "timestampedPackage", "exportedImage"}
    /\ DOMAIN SessionGrants = {"sessionWorkspace", "sessionProvider", "sessionPackage"}
    /\ DOMAIN HandlerGrants = {"runAsset", "runWorkspace", "completeWorkspace", "exportWorkspace"}
    /\ DOMAIN RecentGrants = {"recentWorkspace", "recentPackage"}
  BY DEF WorkspaceDialogs, PackageDialogs, TrustDialogs, ReportDialog, ProviderDialog, ResultGrants,
         SessionGrants, HandlerGrants, RecentGrants

\* No two tables issue in the same place.
LEMMA GrantsMerged ==
    /\ \A s \in DOMAIN WorkspaceDialogs : s \in Sources /\ GrantOf[s] = WorkspaceDialogs[s]
    /\ \A s \in DOMAIN PackageDialogs : s \in Sources /\ GrantOf[s] = PackageDialogs[s]
    /\ \A s \in DOMAIN TrustDialogs : s \in Sources /\ GrantOf[s] = TrustDialogs[s]
    /\ \A s \in DOMAIN ReportDialog : s \in Sources /\ GrantOf[s] = ReportDialog[s]
    /\ \A s \in DOMAIN ProviderDialog : s \in Sources /\ GrantOf[s] = ProviderDialog[s]
    /\ \A s \in DOMAIN ResultGrants : s \in Sources /\ GrantOf[s] = ResultGrants[s]
    /\ \A s \in DOMAIN SessionGrants : s \in Sources /\ GrantOf[s] = SessionGrants[s]
    /\ \A s \in DOMAIN HandlerGrants : s \in Sources /\ GrantOf[s] = HandlerGrants[s]
    /\ \A s \in DOMAIN RecentGrants : s \in Sources /\ GrantOf[s] = RecentGrants[s]
  <1> DEFINE g2 == WorkspaceDialogs ++ PackageDialogs
             g3 == g2 ++ TrustDialogs
             g4 == g3 ++ ReportDialog
             g5 == g4 ++ ProviderDialog
             g6 == g5 ++ ResultGrants
             g7 == g6 ++ SessionGrants
             g8 == g7 ++ HandlerGrants
             g9 == g8 ++ RecentGrants
  <1>1. GrantOf = g9 /\ Sources = DOMAIN g9
    BY DEF GrantOf, Sources
  <1> HIDE DEF g9
  <1>9. /\ DOMAIN g9 = DOMAIN g8 \cup DOMAIN RecentGrants
        /\ \A s \in DOMAIN g8 : g9[s] = g8[s]
        /\ \A s \in DOMAIN RecentGrants : s \notin DOMAIN g8 => g9[s] = RecentGrants[s]
    BY Merged DEF g9
  <1> HIDE DEF g8
  <1>8. /\ DOMAIN g8 = DOMAIN g7 \cup DOMAIN HandlerGrants
        /\ \A s \in DOMAIN g7 : g8[s] = g7[s]
        /\ \A s \in DOMAIN HandlerGrants : s \notin DOMAIN g7 => g8[s] = HandlerGrants[s]
    BY Merged DEF g8
  <1> HIDE DEF g7
  <1>7. /\ DOMAIN g7 = DOMAIN g6 \cup DOMAIN SessionGrants
        /\ \A s \in DOMAIN g6 : g7[s] = g6[s]
        /\ \A s \in DOMAIN SessionGrants : s \notin DOMAIN g6 => g7[s] = SessionGrants[s]
    BY Merged DEF g7
  <1> HIDE DEF g6
  <1>6. /\ DOMAIN g6 = DOMAIN g5 \cup DOMAIN ResultGrants
        /\ \A s \in DOMAIN g5 : g6[s] = g5[s]
        /\ \A s \in DOMAIN ResultGrants : s \notin DOMAIN g5 => g6[s] = ResultGrants[s]
    BY Merged DEF g6
  <1> HIDE DEF g5
  <1>5. /\ DOMAIN g5 = DOMAIN g4 \cup DOMAIN ProviderDialog
        /\ \A s \in DOMAIN g4 : g5[s] = g4[s]
        /\ \A s \in DOMAIN ProviderDialog : s \notin DOMAIN g4 => g5[s] = ProviderDialog[s]
    BY Merged DEF g5
  <1> HIDE DEF g4
  <1>4. /\ DOMAIN g4 = DOMAIN g3 \cup DOMAIN ReportDialog
        /\ \A s \in DOMAIN g3 : g4[s] = g3[s]
        /\ \A s \in DOMAIN ReportDialog : s \notin DOMAIN g3 => g4[s] = ReportDialog[s]
    BY Merged DEF g4
  <1> HIDE DEF g3
  <1>3. /\ DOMAIN g3 = DOMAIN g2 \cup DOMAIN TrustDialogs
        /\ \A s \in DOMAIN g2 : g3[s] = g2[s]
        /\ \A s \in DOMAIN TrustDialogs : s \notin DOMAIN g2 => g3[s] = TrustDialogs[s]
    BY Merged DEF g3
  <1> HIDE DEF g2
  <1>2. /\ DOMAIN g2 = DOMAIN WorkspaceDialogs \cup DOMAIN PackageDialogs
        /\ \A s \in DOMAIN WorkspaceDialogs : g2[s] = WorkspaceDialogs[s]
        /\ \A s \in DOMAIN PackageDialogs : s \notin DOMAIN WorkspaceDialogs => g2[s] = PackageDialogs[s]
    BY Merged DEF g2
  <1>10. /\ \A s \in DOMAIN WorkspaceDialogs : s \in DOMAIN g3 /\ g3[s] = WorkspaceDialogs[s]
         /\ \A s \in DOMAIN PackageDialogs : s \in DOMAIN g3 /\ g3[s] = PackageDialogs[s]
         /\ \A s \in DOMAIN TrustDialogs : s \in DOMAIN g3 /\ g3[s] = TrustDialogs[s]
    BY <1>2, <1>3, GrantTables
  <1>11. /\ \A s \in DOMAIN g3 : s \in DOMAIN g6 /\ g6[s] = g3[s]
         /\ \A s \in DOMAIN ReportDialog : s \in DOMAIN g6 /\ g6[s] = ReportDialog[s]
         /\ \A s \in DOMAIN ProviderDialog : s \in DOMAIN g6 /\ g6[s] = ProviderDialog[s]
         /\ \A s \in DOMAIN ResultGrants : s \in DOMAIN g6 /\ g6[s] = ResultGrants[s]
    BY <1>2, <1>3, <1>4, <1>5, <1>6, GrantTables
  <1>12. /\ \A s \in DOMAIN g6 : s \in DOMAIN g9 /\ g9[s] = g6[s]
         /\ \A s \in DOMAIN SessionGrants : s \in DOMAIN g9 /\ g9[s] = SessionGrants[s]
         /\ \A s \in DOMAIN HandlerGrants : s \in DOMAIN g9 /\ g9[s] = HandlerGrants[s]
         /\ \A s \in DOMAIN RecentGrants : s \in DOMAIN g9 /\ g9[s] = RecentGrants[s]
    BY <1>2, <1>3, <1>4, <1>5, <1>6, <1>7, <1>8, <1>9, GrantTables
  <1> QED
    BY <1>1, <1>10, <1>11, <1>12

\* Every place an input is passed on from issues what the input asks for, for one
\* use just when the operation consumes it.
Matches(input) ==
    \A s \in input.from :
        /\ s \in Sources
        /\ GrantOf[s].kind = input.kind
        /\ input.permission \in GrantOf[s].permissions
        /\ GrantOf[s].oneUse = input.consumed

\* The references of an operation: at least one, and one more if the last may be
\* left out.
Sound(all) ==
    /\ \E inputSet : all \in Seq(inputSet)
    /\ Len(all) > 0
    /\ all[Len(all)].kind \in Optional => Len(all) > 1
    /\ \A r \in 1 .. Len(all) : Matches(all[r])

LEMMA SoundInput ==
    ASSUME NEW kind, NEW permission, NEW consumes, NEW from,
           \A s \in from :
              /\ s \in Sources
              /\ GrantOf[s].kind = kind /\ permission \in GrantOf[s].permissions
              /\ GrantOf[s].oneUse = consumes
    PROVE  /\ Input(kind, permission, consumes, from).kind = kind
           /\ Matches(Input(kind, permission, consumes, from))
  BY DEF Matches, Input

LEMMA DialogGrants ==
    /\ GrantOf["chooseWorkspaceParent"] =
          Repeatedly("workspace-parent", {"previewWorkspaceTarget", "initializeWorkspace"})
    /\ GrantOf["chooseExistingWorkspace"] = Workspace
    /\ GrantOf["chooseAsset"] = Once("asset", "addAsset")
    /\ GrantOf["chooseImage"] = Once("image", "matchImageToPackage")
    /\ GrantOf["chooseCreationOutput"] = Once("image-output", "exportWorkspaceOutput")
    /\ GrantOf["choosePackage"] = Package
    /\ GrantOf["choosePackageOutput"] = Once("package-output", "sealPackage")
    /\ GrantOf["chooseTsaProfile"] = Once("tsa-profile", "importTsaProfile")
    /\ GrantOf["chooseTimestampPackageOutput"] =
          Once("timestamp-package-output", "requestTrustedTimestamp")
    /\ GrantOf["chooseReportOutput"] = Once("report-output", "saveReport")
    /\ GrantOf["chooseProviderInstallation"] = Provider
    /\ {"chooseWorkspaceParent", "chooseExistingWorkspace", "chooseAsset", "chooseImage",
        "chooseCreationOutput", "choosePackage", "choosePackageOutput", "chooseTsaProfile",
        "chooseTimestampPackageOutput", "chooseReportOutput", "chooseProviderInstallation"}
          \subseteq Sources
  <1>1. /\ WorkspaceDialogs["chooseWorkspaceParent"] =
              Repeatedly("workspace-parent", {"previewWorkspaceTarget", "initializeWorkspace"})
        /\ WorkspaceDialogs["chooseExistingWorkspace"] = Workspace
        /\ WorkspaceDialogs["chooseAsset"] = Once("asset", "addAsset")
        /\ WorkspaceDialogs["chooseImage"] = Once("image", "matchImageToPackage")
        /\ WorkspaceDialogs["chooseCreationOutput"] = Once("image-output", "exportWorkspaceOutput")
    BY DEF WorkspaceDialogs
  <1>2. /\ PackageDialogs["choosePackage"] = Package
        /\ PackageDialogs["choosePackageOutput"] = Once("package-output", "sealPackage")
        /\ PackageDialogs["chooseTsaProfile"] = Once("tsa-profile", "importTsaProfile")
        /\ PackageDialogs["chooseTimestampPackageOutput"] =
              Once("timestamp-package-output", "requestTrustedTimestamp")
    BY DEF PackageDialogs
  <1>3. /\ ReportDialog["chooseReportOutput"] = Once("report-output", "saveReport")
        /\ ProviderDialog["chooseProviderInstallation"] = Provider
    BY DEF ReportDialog, ProviderDialog
  <1> QED
    BY <1>1, <1>2, <1>3, GrantsMerged, GrantTables

LEMMA TrustGrants ==
    /\ GrantOf["chooseC2paTrustProfile"] = Once("c2pa-trust-profile", "importC2paTrustProfile")
    /\ GrantOf["chooseC2paImage"] = Repeatedly("image", {"inspectC2paImage"})
    /\ GrantOf["chooseC2paSidecar"] =
          Repeatedly("c2pa-sidecar", {"inspectC2paImage", "createC2paObservation"})
    /\ GrantOf["chooseOfficialAttestation"] = Once("official-attestation", "verifyOfficialIdentity")
    /\ GrantOf["chooseOfficialIssuerTrust"] = Once("official-issuer-trust", "verifyOfficialIdentity")
    /\ GrantOf["chooseOfficialStatus"] = Once("official-status", "verifyOfficialIdentity")
    /\ {"chooseC2paTrustProfile", "chooseC2paImage", "chooseC2paSidecar", "chooseOfficialAttestation",
        "chooseOfficialIssuerTrust", "chooseOfficialStatus"} \subseteq Sources
  <1>1. /\ TrustDialogs["chooseC2paTrustProfile"] = Once("c2pa-trust-profile", "importC2paTrustProfile")
        /\ TrustDialogs["chooseC2paImage"] = Repeatedly("image", {"inspectC2paImage"})
        /\ TrustDialogs["chooseC2paSidecar"] =
              Repeatedly("c2pa-sidecar", {"inspectC2paImage", "createC2paObservation"})
        /\ TrustDialogs["chooseOfficialAttestation"] = Once("official-attestation", "verifyOfficialIdentity")
        /\ TrustDialogs["chooseOfficialIssuerTrust"] = Once("official-issuer-trust", "verifyOfficialIdentity")
        /\ TrustDialogs["chooseOfficialStatus"] = Once("official-status", "verifyOfficialIdentity")
    BY DEF TrustDialogs
  <1> QED
    BY <1>1, GrantsMerged, GrantTables

LEMMA HandedOnGrants ==
    /\ GrantOf["publishWorkspace"] = Workspace /\ GrantOf["sealedPackage"] = Package
    /\ GrantOf["timestampedPackage"] = Package
    /\ GrantOf["exportedImage"] = Once("image", "matchImageToPackage")
    /\ GrantOf["sessionWorkspace"] = Workspace /\ GrantOf["sessionProvider"] = Provider
    /\ GrantOf["sessionPackage"] = Package
    /\ GrantOf["runAsset"] = Once("asset", "addAsset") /\ GrantOf["runWorkspace"] = Workspace
    /\ GrantOf["completeWorkspace"] = Workspace
    /\ GrantOf["exportWorkspace"] = Repeatedly("workspace", {"exportWorkspaceOutput"})
    /\ GrantOf["recentWorkspace"] = Workspace /\ GrantOf["recentPackage"] = Package
    /\ {"publishWorkspace", "sealedPackage", "timestampedPackage", "exportedImage", "sessionWorkspace",
        "sessionProvider", "sessionPackage", "runAsset", "runWorkspace", "completeWorkspace",
        "exportWorkspace", "recentWorkspace", "recentPackage"} \subseteq Sources
  <1>1. /\ ResultGrants["publishWorkspace"] = Workspace /\ ResultGrants["sealedPackage"] = Package
        /\ ResultGrants["timestampedPackage"] = Package
        /\ ResultGrants["exportedImage"] = Once("image", "matchImageToPackage")
    BY DEF ResultGrants
  <1>2. /\ SessionGrants["sessionWorkspace"] = Workspace /\ SessionGrants["sessionProvider"] = Provider
        /\ SessionGrants["sessionPackage"] = Package
    BY DEF SessionGrants
  <1>3. /\ HandlerGrants["runAsset"] = Once("asset", "addAsset")
        /\ HandlerGrants["runWorkspace"] = Workspace /\ HandlerGrants["completeWorkspace"] = Workspace
        /\ HandlerGrants["exportWorkspace"] = Repeatedly("workspace", {"exportWorkspaceOutput"})
    BY DEF HandlerGrants
  <1>4. RecentGrants["recentWorkspace"] = Workspace /\ RecentGrants["recentPackage"] = Package
    BY DEF RecentGrants, RecentGrant
  <1> QED
    BY <1>1, <1>2, <1>3, <1>4, GrantsMerged, GrantTables

LEMMA SoundSequences ==
    ASSUME NEW a, NEW b, NEW c,
           Matches(a), Matches(b), Matches(c)
    PROVE  /\ a.kind \notin Optional => Sound(<<a>>)
           /\ Sound(<<a, b>>)
           /\ Sound(<<a, b, c>>)
  <1>1. \A r \in 1 .. 1 : <<a>>[r] = a
    OBVIOUS
  <1>2. \A r \in 1 .. 2 : <<a, b>>[r] = a \/ <<a, b>>[r] = b
    OBVIOUS
  <1>3. \A r \in 1 .. 3 : <<a, b, c>>[r] = a \/ <<a, b, c>>[r] = b \/ <<a, b, c>>[r] = c
    OBVIOUS
  <1>4. /\ <<a>> \in Seq({a, b, c}) /\ Len(<<a>>) = 1 /\ <<a>>[1] = a
        /\ <<a, b>> \in Seq({a, b, c}) /\ Len(<<a, b>>) = 2
        /\ <<a, b, c>> \in Seq({a, b, c}) /\ Len(<<a, b, c>>) = 3
    OBVIOUS
  <1>5. /\ \A r \in 1 .. 1 : Matches(<<a>>[r])
        /\ \A r \in 1 .. 2 : Matches(<<a, b>>[r])
        /\ \A r \in 1 .. 3 : Matches(<<a, b, c>>[r])
    BY <1>1, <1>2, <1>3
  <1>6. \A q : (\E n \in 1 .. 3 : q \in Seq({a, b, c}) /\ Len(q) = n /\ \A r \in 1 .. n : Matches(q[r]))
               /\ (q[Len(q)].kind \in Optional => Len(q) > 1)
               => Sound(q)
    BY DEF Sound
  <1>7. ASSUME a.kind \notin Optional PROVE Sound(<<a>>)
    <2> DEFINE q == <<a>>
    <2>1. q \in Seq({a, b, c}) /\ Len(q) = 1 /\ q[1] = a /\ \A r \in 1 .. 1 : Matches(q[r])
      BY <1>4, <1>5
    <2> HIDE DEF q
    <2>2. Sound(q)
      BY <1>6, <1>7, <2>1
    <2> QED
      BY <2>2 DEF q
  <1>8. Sound(<<a, b>>)
    <2> DEFINE q == <<a, b>>
    <2>1. q \in Seq({a, b, c}) /\ Len(q) = 2 /\ \A r \in 1 .. 2 : Matches(q[r])
      BY <1>4, <1>5
    <2> HIDE DEF q
    <2>2. Sound(q)
      BY <1>6, <2>1
    <2> QED
      BY <2>2 DEF q
  <1>9. Sound(<<a, b, c>>)
    <2> DEFINE q == <<a, b, c>>
    <2>1. q \in Seq({a, b, c}) /\ Len(q) = 3 /\ \A r \in 1 .. 3 : Matches(q[r])
      BY <1>4, <1>5
    <2> HIDE DEF q
    <2>2. Sound(q)
      BY <1>6, <2>1
    <2> QED
      BY <2>2 DEF q
  <1> QED
    BY <1>7, <1>8, <1>9

\* A workspace and a package the page is given serve every operation on them.
LEMMA WorkspaceServes ==
    ASSUME NEW permission \in {"loadWorkspace", "addAsset", "recordEvent", "sealPackage",
                               "getCreationSessions", "createC2paObservation"},
           NEW from \in SUBSET {"publishWorkspace", "runWorkspace", "completeWorkspace",
                                "chooseExistingWorkspace", "recentWorkspace", "sessionWorkspace"}
    PROVE  /\ Input("workspace", permission, FALSE, from).kind = "workspace"
           /\ Matches(Input("workspace", permission, FALSE, from))
  <1>1. \A s \in from : s \in Sources /\ GrantOf[s] = Workspace
    BY DialogGrants, HandedOnGrants
  <1>2. /\ Workspace.kind = "workspace" /\ permission \in Workspace.permissions
        /\ Workspace.oneUse = FALSE
    BY DEF Workspace, Repeatedly, Grant
  <1> QED
    BY <1>1, <1>2, SoundInput

LEMMA PackageServes ==
    ASSUME NEW permission \in {"verifyPackage", "inspectPackage", "matchImageToPackage",
                               "requestTrustedTimestamp"}
    PROVE  /\ OfPackage(permission).kind = "package"
           /\ Matches(OfPackage(permission))
  <1> DEFINE from == {"choosePackage", "recentPackage", "sealedPackage", "timestampedPackage",
                      "sessionPackage"}
  <1>1. \A s \in from : s \in Sources /\ GrantOf[s] = Package
    BY DialogGrants, HandedOnGrants
  <1>2. Package.kind = "package" /\ permission \in Package.permissions /\ Package.oneUse = FALSE
    BY DEF Package, Repeatedly, Grant
  <1>3. OfPackage(permission) = Input("package", permission, FALSE, from)
    BY DEF OfPackage
  <1> HIDE DEF from
  <1>4. /\ Input("package", permission, FALSE, from).kind = "package"
        /\ Matches(Input("package", permission, FALSE, from))
    BY <1>1, <1>2, SoundInput
  <1> QED
    BY <1>3, <1>4

\* What is issued for one use, for one operation.
LEMMA OneUseServes ==
    ASSUME NEW kind, NEW permission, NEW from,
           \A s \in from : s \in Sources /\ GrantOf[s] = Once(kind, permission)
    PROVE  /\ Input(kind, permission, TRUE, from).kind = kind
           /\ Matches(Input(kind, permission, TRUE, from))
  <1>1. /\ Once(kind, permission).kind = kind /\ permission \in Once(kind, permission).permissions
        /\ Once(kind, permission).oneUse = TRUE
    BY DEF Once, Grant
  <1> QED
    BY ZenonT(60), <1>1, SoundInput

\* What is issued for repeated use, for several operations.
LEMMA RepeatedServes ==
    ASSUME NEW kind, NEW permissions, NEW permission \in permissions, NEW from,
           \A s \in from : s \in Sources /\ GrantOf[s] = Repeatedly(kind, permissions)
    PROVE  /\ Input(kind, permission, FALSE, from).kind = kind
           /\ Matches(Input(kind, permission, FALSE, from))
  <1>1. /\ Repeatedly(kind, permissions).kind = kind
        /\ permission \in Repeatedly(kind, permissions).permissions
        /\ Repeatedly(kind, permissions).oneUse = FALSE
    BY DEF Repeatedly, Grant
  <1> QED
    BY <1>1, SoundInput

LEMMA ParentGrant ==
    /\ "chooseWorkspaceParent" \in Sources
    /\ GrantOf["chooseWorkspaceParent"] =
          Repeatedly("workspace-parent", {"previewWorkspaceTarget", "initializeWorkspace"})
  BY DialogGrants

LEMMA WorkspaceJobsSound ==
    /\ DOMAIN WorkspaceJobs = {"initializeWorkspace", "loadWorkspace", "addAsset"}
    /\ \A o \in DOMAIN WorkspaceJobs : Sound(WorkspaceJobs[o])
  <1> DEFINE parent == Input("workspace-parent", "initializeWorkspace", FALSE, {"chooseWorkspaceParent"})
             load == Input("workspace", "loadWorkspace", FALSE,
                           {"chooseExistingWorkspace", "recentWorkspace",
                            "publishWorkspace", "sessionWorkspace"})
             add == Input("workspace", "addAsset", FALSE, {"publishWorkspace", "runWorkspace"})
             asset == Input("asset", "addAsset", TRUE, {"chooseAsset", "runAsset"})
  <1>1. /\ DOMAIN WorkspaceJobs = {"initializeWorkspace", "loadWorkspace", "addAsset"}
        /\ WorkspaceJobs["initializeWorkspace"] = <<parent>>
        /\ WorkspaceJobs["loadWorkspace"] = <<load>>
        /\ WorkspaceJobs["addAsset"] = <<add, asset>>
    BY DEF WorkspaceJobs
  <1>2. parent.kind = "workspace-parent" /\ Matches(parent)
    BY ParentGrant, RepeatedServes
  <1>3. load.kind = "workspace" /\ Matches(load)
    BY WorkspaceServes
  <1>4. add.kind = "workspace" /\ Matches(add)
    BY WorkspaceServes
  <1>5. asset.kind = "asset" /\ Matches(asset)
    BY DialogGrants, HandedOnGrants, OneUseServes
  <1> HIDE DEF parent, load, add, asset
  <1>6. Sound(<<parent>>) /\ Sound(<<load>>) /\ Sound(<<add, asset>>)
    BY <1>2, <1>3, <1>4, <1>5, SoundSequences DEF Optional
  <1> QED
    BY <1>1, <1>6

LEMMA ImageJobsSound ==
    /\ DOMAIN ImageJobs = {"exportWorkspaceOutput", "matchImageToPackage"}
    /\ \A o \in DOMAIN ImageJobs : Sound(ImageJobs[o])
  <1> DEFINE workspace == Input("workspace", "exportWorkspaceOutput", FALSE, {"exportWorkspace"})
             output == Input("image-output", "exportWorkspaceOutput", TRUE, {"chooseCreationOutput"})
             package == OfPackage("matchImageToPackage")
             image == Input("image", "matchImageToPackage", TRUE, {"chooseImage", "exportedImage"})
  <1>1. /\ DOMAIN ImageJobs = {"exportWorkspaceOutput", "matchImageToPackage"}
        /\ ImageJobs["exportWorkspaceOutput"] = <<workspace, output>>
        /\ ImageJobs["matchImageToPackage"] = <<package, image>>
    BY DEF ImageJobs
  <1>2. workspace.kind = "workspace" /\ Matches(workspace)
    <2>1. /\ "exportWorkspace" \in Sources
          /\ GrantOf["exportWorkspace"] = Repeatedly("workspace", {"exportWorkspaceOutput"})
      BY HandedOnGrants
    <2> QED
      BY <2>1, RepeatedServes
  <1>3. output.kind = "image-output" /\ Matches(output)
    BY DialogGrants, OneUseServes
  <1>4. package.kind = "package" /\ Matches(package)
    BY PackageServes
  <1>5. image.kind = "image" /\ Matches(image)
    BY DialogGrants, HandedOnGrants, OneUseServes
  <1> HIDE DEF workspace, output, package, image
  <1>6. Sound(<<workspace, output>>) /\ Sound(<<package, image>>)
    BY <1>2, <1>3, <1>4, <1>5, SoundSequences
  <1> QED
    BY <1>1, <1>6

LEMMA ProofJobsSound ==
    /\ DOMAIN ProofJobs = {"recordEvent", "sealPackage", "verifyPackage", "inspectPackage"}
    /\ \A o \in DOMAIN ProofJobs : Sound(ProofJobs[o])
  <1> DEFINE record == Input("workspace", "recordEvent", FALSE, {"publishWorkspace"})
             seal == Input("workspace", "sealPackage", FALSE, {"publishWorkspace", "completeWorkspace"})
             output == Input("package-output", "sealPackage", TRUE, {"choosePackageOutput"})
             verify == OfPackage("verifyPackage")
             inspect == OfPackage("inspectPackage")
  <1>1. /\ DOMAIN ProofJobs = {"recordEvent", "sealPackage", "verifyPackage", "inspectPackage"}
        /\ ProofJobs["recordEvent"] = <<record>> /\ ProofJobs["sealPackage"] = <<seal, output>>
        /\ ProofJobs["verifyPackage"] = <<verify>> /\ ProofJobs["inspectPackage"] = <<inspect>>
    BY DEF ProofJobs, InWorkspace
  <1>2. record.kind = "workspace" /\ Matches(record) /\ seal.kind = "workspace" /\ Matches(seal)
    BY WorkspaceServes
  <1>3. output.kind = "package-output" /\ Matches(output)
    BY DialogGrants, OneUseServes
  <1>4. verify.kind = "package" /\ Matches(verify) /\ inspect.kind = "package" /\ Matches(inspect)
    BY PackageServes
  <1> HIDE DEF record, seal, output, verify, inspect
  <1>5. Sound(<<record>>) /\ Sound(<<seal, output>>) /\ Sound(<<verify>>) /\ Sound(<<inspect>>)
    BY <1>2, <1>3, <1>4, SoundSequences DEF Optional
  <1> QED
    BY <1>1, <1>5

LEMMA ProviderRequestsSound ==
    /\ DOMAIN ProviderRequests = {"inspectProviderInstallation", "createCreationSession",
                                  "getCreationSessions"}
    /\ \A o \in DOMAIN ProviderRequests : Sound(ProviderRequests[o])
  <1> DEFINE inspect == Input("provider-installation", "inspectProviderInstallation", FALSE,
                              {"chooseProviderInstallation"})
             create == Input("provider-installation", "createCreationSession", FALSE,
                             {"chooseProviderInstallation"})
             add == Input("workspace", "addAsset", FALSE, {"publishWorkspace"})
             get == Input("workspace", "getCreationSessions", FALSE, {"publishWorkspace"})
  <1>1. /\ DOMAIN ProviderRequests = {"inspectProviderInstallation", "createCreationSession",
                                      "getCreationSessions"}
        /\ ProviderRequests["inspectProviderInstallation"] = <<inspect>>
        /\ ProviderRequests["createCreationSession"] = <<add, create>>
        /\ ProviderRequests["getCreationSessions"] = <<get>>
    BY DEF ProviderRequests, InWorkspace
  <1>2. add.kind = "workspace" /\ Matches(add) /\ get.kind = "workspace" /\ Matches(get)
    BY WorkspaceServes
  <1>3. /\ inspect.kind = "provider-installation" /\ Matches(inspect)
        /\ create.kind = "provider-installation" /\ Matches(create)
    <2>1. /\ "chooseProviderInstallation" \in Sources
          /\ GrantOf["chooseProviderInstallation"] =
                Repeatedly("provider-installation",
                           {"inspectProviderInstallation", "createCreationSession"})
      BY DialogGrants DEF Provider
    <2>2. inspect.kind = "provider-installation" /\ Matches(inspect)
      BY <2>1, RepeatedServes
    <2>3. create.kind = "provider-installation" /\ Matches(create)
      BY <2>1, RepeatedServes
    <2> QED
      BY <2>2, <2>3
  <1> HIDE DEF inspect, create, add, get
  <1>4. Sound(<<inspect>>) /\ Sound(<<add, create>>) /\ Sound(<<get>>)
    BY <1>2, <1>3, SoundSequences DEF Optional
  <1> QED
    BY <1>1, <1>4

LEMMA ProfileImportsSound ==
    /\ DOMAIN ProfileImports = {"importTsaProfile", "importC2paTrustProfile"}
    /\ \A o \in DOMAIN ProfileImports : Sound(ProfileImports[o])
  <1> DEFINE tsa == Input("tsa-profile", "importTsaProfile", TRUE, {"chooseTsaProfile"})
             c2pa == Input("c2pa-trust-profile", "importC2paTrustProfile", TRUE,
                           {"chooseC2paTrustProfile"})
  <1>1. /\ DOMAIN ProfileImports = {"importTsaProfile", "importC2paTrustProfile"}
        /\ ProfileImports["importTsaProfile"] = <<tsa>>
        /\ ProfileImports["importC2paTrustProfile"] = <<c2pa>>
    BY DEF ProfileImports
  <1>2. tsa.kind = "tsa-profile" /\ Matches(tsa)
    BY DialogGrants, OneUseServes
  <1>3. c2pa.kind = "c2pa-trust-profile" /\ Matches(c2pa)
    BY TrustGrants, OneUseServes
  <1> HIDE DEF tsa, c2pa
  <1>4. Sound(<<tsa>>) /\ Sound(<<c2pa>>)
    BY <1>2, <1>3, SoundSequences DEF Optional
  <1> QED
    BY <1>1, <1>4

LEMMA C2paRequestsSound ==
    /\ DOMAIN C2paRequests = {"inspectC2paImage", "createC2paObservation"}
    /\ \A o \in DOMAIN C2paRequests : Sound(C2paRequests[o])
  <1> DEFINE image == Input("image", "inspectC2paImage", FALSE, {"chooseC2paImage"})
             read == Input("c2pa-sidecar", "inspectC2paImage", FALSE, {"chooseC2paSidecar"})
             workspace == Input("workspace", "createC2paObservation", FALSE, {"publishWorkspace"})
             observe == Input("c2pa-sidecar", "createC2paObservation", FALSE, {"chooseC2paSidecar"})
  <1>1. /\ DOMAIN C2paRequests = {"inspectC2paImage", "createC2paObservation"}
        /\ C2paRequests["inspectC2paImage"] = <<image, read>>
        /\ C2paRequests["createC2paObservation"] = <<workspace, observe>>
    BY DEF C2paRequests, InWorkspace
  <1>2. Matches(workspace)
    BY WorkspaceServes
  <1>3. Matches(image) /\ Matches(read) /\ Matches(observe)
    <2>1. /\ "chooseC2paImage" \in Sources /\ "chooseC2paSidecar" \in Sources
          /\ GrantOf["chooseC2paImage"] = Repeatedly("image", {"inspectC2paImage"})
          /\ GrantOf["chooseC2paSidecar"] =
                Repeatedly("c2pa-sidecar", {"inspectC2paImage", "createC2paObservation"})
      BY TrustGrants
    <2>2. Matches(image)
      BY <2>1, RepeatedServes
    <2>3. Matches(read) /\ Matches(observe)
      BY <2>1, RepeatedServes
    <2> QED
      BY <2>2, <2>3
  <1> HIDE DEF image, read, workspace, observe
  <1>4. Sound(<<image, read>>) /\ Sound(<<workspace, observe>>)
    BY <1>2, <1>3, SoundSequences
  <1> QED
    BY <1>1, <1>4

LEMMA OtherRequestsSound ==
    /\ DOMAIN IdentityRequests = {"verifyOfficialIdentity"}
    /\ DOMAIN TimestampRequests = {"requestTrustedTimestamp"}
    /\ DOMAIN TargetPreviews = {"previewWorkspaceTarget"}
    /\ DOMAIN ReportRequests = {"saveReport"}
    /\ Sound(IdentityRequests["verifyOfficialIdentity"])
    /\ Sound(TimestampRequests["requestTrustedTimestamp"])
    /\ Sound(TargetPreviews["previewWorkspaceTarget"])
    /\ Sound(ReportRequests["saveReport"])
  <1> DEFINE attestation == Input("official-attestation", "verifyOfficialIdentity", TRUE,
                                  {"chooseOfficialAttestation"})
             issuer == Input("official-issuer-trust", "verifyOfficialIdentity", TRUE,
                             {"chooseOfficialIssuerTrust"})
             status == Input("official-status", "verifyOfficialIdentity", TRUE, {"chooseOfficialStatus"})
             package == OfPackage("requestTrustedTimestamp")
             output == Input("timestamp-package-output", "requestTrustedTimestamp", TRUE,
                             {"chooseTimestampPackageOutput"})
             parent == Input("workspace-parent", "previewWorkspaceTarget", FALSE, {"chooseWorkspaceParent"})
             report == Input("report-output", "saveReport", TRUE, {"chooseReportOutput"})
  <1>1. /\ DOMAIN IdentityRequests = {"verifyOfficialIdentity"}
        /\ DOMAIN TimestampRequests = {"requestTrustedTimestamp"}
        /\ DOMAIN TargetPreviews = {"previewWorkspaceTarget"} /\ DOMAIN ReportRequests = {"saveReport"}
        /\ IdentityRequests["verifyOfficialIdentity"] = <<attestation, issuer, status>>
        /\ TimestampRequests["requestTrustedTimestamp"] = <<package, output>>
        /\ TargetPreviews["previewWorkspaceTarget"] = <<parent>>
        /\ ReportRequests["saveReport"] = <<report>>
    BY DEF IdentityRequests, TimestampRequests, TargetPreviews, ReportRequests
  <1>2. Matches(attestation) /\ Matches(issuer) /\ Matches(status)
    BY TrustGrants, OneUseServes
  <1>3. Matches(package)
    BY PackageServes
  <1>4. Matches(output) /\ report.kind = "report-output" /\ Matches(report)
    BY DialogGrants, OneUseServes
  <1>5. parent.kind = "workspace-parent" /\ Matches(parent)
    BY ParentGrant, RepeatedServes
  <1> HIDE DEF attestation, issuer, status, package, output, parent, report
  <1>6. /\ Sound(<<attestation, issuer, status>>) /\ Sound(<<package, output>>)
        /\ Sound(<<parent>>) /\ Sound(<<report>>)
    BY <1>2, <1>3, <1>4, <1>5, SoundSequences DEF Optional
  <1> QED
    BY <1>1, <1>6

LEMMA JobsSound == \A o \in DOMAIN JobInputs : Sound(JobInputs[o])
  <1> DEFINE j2 == WorkspaceJobs ++ ImageJobs
             j3 == j2 ++ ProofJobs
  <1>1. JobInputs = j3
    BY DEF JobInputs
  <1> HIDE DEF j3
  <1>2. /\ DOMAIN j3 = DOMAIN j2 \cup DOMAIN ProofJobs
        /\ \A o \in DOMAIN j2 : j3[o] = j2[o]
        /\ \A o \in DOMAIN ProofJobs : o \notin DOMAIN j2 => j3[o] = ProofJobs[o]
    BY Merged DEF j3
  <1> HIDE DEF j2
  <1>3. /\ DOMAIN j2 = DOMAIN WorkspaceJobs \cup DOMAIN ImageJobs
        /\ \A o \in DOMAIN WorkspaceJobs : j2[o] = WorkspaceJobs[o]
        /\ \A o \in DOMAIN ImageJobs : o \notin DOMAIN WorkspaceJobs => j2[o] = ImageJobs[o]
    BY Merged DEF j2
  <1>4. \A o \in DOMAIN j2 : Sound(j2[o])
    BY <1>3, WorkspaceJobsSound, ImageJobsSound
  <1>5. \A o \in DOMAIN j3 : Sound(j3[o])
    BY <1>2, <1>4, ProofJobsSound
  <1> QED
    BY <1>1, <1>5

LEMMA DirectRequestsSound == \A o \in DOMAIN DirectInputs : Sound(DirectInputs[o])
  <1> DEFINE d2 == ProviderRequests ++ ProfileImports
             d3 == d2 ++ C2paRequests
             d4 == d3 ++ IdentityRequests
             d5 == d4 ++ TimestampRequests
             d6 == d5 ++ TargetPreviews
             d7 == d6 ++ ReportRequests
  <1>1. DirectInputs = d7
    BY DEF DirectInputs
  <1> HIDE DEF d7
  <1>7. /\ DOMAIN d7 = DOMAIN d6 \cup DOMAIN ReportRequests
        /\ \A o \in DOMAIN d6 : d7[o] = d6[o]
        /\ \A o \in DOMAIN ReportRequests : o \notin DOMAIN d6 => d7[o] = ReportRequests[o]
    BY Merged DEF d7
  <1> HIDE DEF d6
  <1>6. /\ DOMAIN d6 = DOMAIN d5 \cup DOMAIN TargetPreviews
        /\ \A o \in DOMAIN d5 : d6[o] = d5[o]
        /\ \A o \in DOMAIN TargetPreviews : o \notin DOMAIN d5 => d6[o] = TargetPreviews[o]
    BY Merged DEF d6
  <1> HIDE DEF d5
  <1>5. /\ DOMAIN d5 = DOMAIN d4 \cup DOMAIN TimestampRequests
        /\ \A o \in DOMAIN d4 : d5[o] = d4[o]
        /\ \A o \in DOMAIN TimestampRequests : o \notin DOMAIN d4 => d5[o] = TimestampRequests[o]
    BY Merged DEF d5
  <1> HIDE DEF d4
  <1>4. /\ DOMAIN d4 = DOMAIN d3 \cup DOMAIN IdentityRequests
        /\ \A o \in DOMAIN d3 : d4[o] = d3[o]
        /\ \A o \in DOMAIN IdentityRequests : o \notin DOMAIN d3 => d4[o] = IdentityRequests[o]
    BY Merged DEF d4
  <1> HIDE DEF d3
  <1>3. /\ DOMAIN d3 = DOMAIN d2 \cup DOMAIN C2paRequests
        /\ \A o \in DOMAIN d2 : d3[o] = d2[o]
        /\ \A o \in DOMAIN C2paRequests : o \notin DOMAIN d2 => d3[o] = C2paRequests[o]
    BY Merged DEF d3
  <1> HIDE DEF d2
  <1>2. /\ DOMAIN d2 = DOMAIN ProviderRequests \cup DOMAIN ProfileImports
        /\ \A o \in DOMAIN ProviderRequests : d2[o] = ProviderRequests[o]
        /\ \A o \in DOMAIN ProfileImports : o \notin DOMAIN ProviderRequests => d2[o] = ProfileImports[o]
    BY Merged DEF d2
  <1>8. \A o \in DOMAIN d2 : Sound(d2[o])
    BY <1>2, ProviderRequestsSound, ProfileImportsSound
  <1>9. \A o \in DOMAIN d3 : Sound(d3[o])
    BY <1>3, <1>8, C2paRequestsSound
  <1>10. \A o \in DOMAIN d4 : Sound(d4[o])
    BY <1>4, <1>9, OtherRequestsSound
  <1>11. \A o \in DOMAIN d5 : Sound(d5[o])
    BY <1>5, <1>10, OtherRequestsSound
  <1>12. \A o \in DOMAIN d6 : Sound(d6[o])
    BY <1>6, <1>11, OtherRequestsSound
  <1>13. \A o \in DOMAIN d7 : Sound(d7[o])
    BY <1>7, <1>12, OtherRequestsSound
  <1> QED
    BY <1>1, <1>13

\* What a request for any operation carries, with its optional last reference or
\* without it.
LEMMA InputsMatch ==
    ASSUME NEW o \in Operations, NEW carried \in InputsOf(o)
    PROVE  /\ Len(carried) \in Nat \ {0}
           /\ DOMAIN carried = 1 .. Len(carried)
           /\ \A r \in 1 .. Len(carried) : Matches(carried[r])
  <1> DEFINE both == JobInputs ++ DirectInputs
             all == both[o]
  <1>1. Sound(all)
    <2>0. /\ \A x \in DOMAIN JobInputs : both[x] = JobInputs[x]
          /\ \A x \in DOMAIN DirectInputs : x \notin DOMAIN JobInputs => both[x] = DirectInputs[x]
      BY Merged
    <2> HIDE DEF both
    <2>1. CASE o \in DOMAIN JobInputs
      <3>1. all = JobInputs[o]
        BY <2>0, <2>1
      <3> QED
        BY <2>1, <3>1, JobsSound
    <2>2. CASE o \in DOMAIN DirectInputs /\ o \notin DOMAIN JobInputs
      <3>1. all = DirectInputs[o]
        BY <2>0, <2>2
      <3> QED
        BY <2>2, <3>1, DirectRequestsSound
    <2> QED
      BY <2>1, <2>2 DEF Operations
  <1>2. carried = all \/ (all[Len(all)].kind \in Optional /\ carried = SubSeq(all, 1, Len(all) - 1))
    BY DEF InputsOf
  <1> HIDE DEF both, all
  <1>3. PICK inputSet : all \in Seq(inputSet)
    BY <1>1 DEF Sound
  <1>4. Len(all) > 0 /\ \A r \in 1 .. Len(all) : Matches(all[r])
    BY <1>1 DEF Sound
  <1>5. CASE carried = all
    BY <1>3, <1>4, <1>5
  <1>6. CASE all[Len(all)].kind \in Optional /\ carried = SubSeq(all, 1, Len(all) - 1)
    <2>1. Len(all) > 1 /\ Len(all) \in Nat
      BY <1>1, <1>3, <1>6 DEF Sound
    <2>2. /\ carried \in Seq(inputSet) /\ Len(carried) = Len(all) - 1
          /\ \A r \in 1 .. Len(all) - 1 : carried[r] = all[r]
      BY <1>3, <1>6, <2>1
    <2>3. \A r \in 1 .. Len(carried) : Matches(carried[r])
      BY <1>4, <2>1, <2>2
    <2> QED
      BY <2>1, <2>2, <2>3
  <1> QED
    BY <1>2, <1>5, <1>6

(***************************************************************************)
(* The requests.                                                            *)
(***************************************************************************)
\* Each reference comes from a place the page has it from.
Provided == \A r \in Refs : source[r] \in inputs[r].from

\* Only a request that has been answered has done work.
WorkAnswered == \A q \in worked : at[q] = "answered"

\* A request that came late has still to come to a reference that is spent.
LateIsStopped ==
    \A q \in late :
        /\ q \notin worked
        /\ at[q] \in {"resolving", "answered"}
        /\ at[q] = "resolving" => \E r \in consumed : step[q] < r

NeverMismatched ==
    \A q \in Requests :
        answer[q] \notin {"HOST_REFERENCE_KIND_MISMATCH", "HOST_REFERENCE_PERMISSION_DENIED"}

IInv == /\ TypeOK /\ Provided /\ WorkAnswered /\ LateIsStopped /\ NeverMismatched
        /\ SpentOnce /\ SpentForWork

LEMMA FormFacts ==
    ASSUME TypeOK, Provided
    PROVE  /\ Refs = 1 .. Len(inputs) /\ Len(inputs) \in Nat \ {0}
           /\ \A r \in Refs : /\ Record(r).kind = inputs[r].kind
                              /\ inputs[r].permission \in Record(r).permissions
                              /\ Record(r).oneUse = inputs[r].consumed
  <1>1. operation \in Operations /\ inputs \in InputsOf(operation)
    BY DEF TypeOK
  <1>2. /\ Len(inputs) \in Nat \ {0} /\ DOMAIN inputs = 1 .. Len(inputs)
        /\ \A r \in 1 .. Len(inputs) : Matches(inputs[r])
    BY <1>1, InputsMatch
  <1>3. \A r \in Refs : /\ GrantOf[source[r]].kind = inputs[r].kind
                        /\ inputs[r].permission \in GrantOf[source[r]].permissions
                        /\ GrantOf[source[r]].oneUse = inputs[r].consumed
    BY <1>2 DEF Matches, Provided, Refs
  <1> QED
    BY <1>2, <1>3 DEF Record, Refs

LEMMA InitHolds == Init => IInv
  <1> SUFFICES ASSUME Init PROVE IInv
    OBVIOUS
  <1>1. /\ operation \in Operations /\ inputs \in InputsOf(operation)
        /\ source \in [Refs -> Sources] /\ Provided
    BY DEF Init, Refs, Provided
  <1>2. 1 \in Refs
    BY <1>1, InputsMatch DEF Refs
  <1>3. TypeOK
    BY <1>1, <1>2, ReferenceAssumption DEF Init, TypeOK, Codes
  <1> QED
    BY <1>1, <1>3 DEF Init, IInv, WorkAnswered, LateIsStopped, NeverMismatched, SpentOnce, SpentForWork

\* The check of a reference, of a request whose operation it was issued for.
LEMMA CheckFacts ==
    ASSUME TypeOK, Provided, NEW q \in Requests, NEW r \in Refs
    PROVE  /\ Check(q, r) \in {"none"} \cup Codes
           /\ Check(q, r) # "ok"
           /\ Check(q, r) \notin {"HOST_REFERENCE_KIND_MISMATCH", "HOST_REFERENCE_PERMISSION_DENIED"}
           /\ Check(q, r) = "none" => r \notin consumed
  <1>1. Record(r).kind = inputs[r].kind /\ inputs[r].permission \in Record(r).permissions
    BY FormFacts
  <1> QED
    BY <1>1 DEF Check, Codes

\* A step of the handler that resolves one more reference.
LEMMA ResolveKeeps ==
    ASSUME IInv, NEW q \in Requests, NEW n \in Refs, Resolve(q, n), at[q] \in {"idle", "resolving"},
           late' = late \/ (at[q] = "idle" /\ n = 1 /\ late' = late \cup {q} /\ consumed # {}),
           at[q] = "resolving" => n = step[q] + 1,
           at[q] = "idle" /\ consumed # {} => q \in late'
    PROVE  IInv'
  <1> DEFINE error == Check(q, n)
  <1>1. /\ known' = (IF error = "HOST_REFERENCE_EXPIRED" THEN known \ {n} ELSE known)
        /\ step' = [step EXCEPT ![q] = n]
        /\ UNCHANGED <<operation, inputs, source, consumed, expired, moved, worked, changes>>
        /\ \/ error = "none" /\ at' = [at EXCEPT ![q] = "resolving"] /\ answer' = answer
           \/ /\ error # "none" /\ at' = [at EXCEPT ![q] = "answered"]
              /\ answer' = [answer EXCEPT ![q] = error]
    BY DEF Resolve, Answered, form
  <1>2. TypeOK /\ Provided /\ NeverMismatched /\ WorkAnswered /\ LateIsStopped /\ SpentOnce /\ SpentForWork
    BY DEF IInv
  <1>3. /\ error \in {"none"} \cup Codes /\ error # "ok"
        /\ error \notin {"HOST_REFERENCE_KIND_MISMATCH", "HOST_REFERENCE_PERMISSION_DENIED"}
        /\ error = "none" => n \notin consumed
    BY <1>2, CheckFacts
  <1> HIDE DEF error
  <1>4. TypeOK'
    <2>1. Refs' = Refs /\ OneUse' = OneUse
      BY <1>1 DEF Refs, OneUse, Record
    <2>2. n \in Nat
      BY <1>2, FormFacts
    <2> QED
      BY <1>1, <1>2, <1>3, <2>1, <2>2 DEF TypeOK
  <1>5. Provided' /\ SpentForWork'
    BY <1>1, <1>2 DEF Provided, SpentForWork, Refs
  <1>6. WorkAnswered'
    BY <1>1, <1>2 DEF WorkAnswered, TypeOK
  <1>7. NeverMismatched'
    BY <1>1, <1>2, <1>3 DEF NeverMismatched, TypeOK
  <1>8. SpentOnce'
    <2>1. OneUse' = OneUse
      BY <1>1 DEF Refs, OneUse, Record
    <2>2. \A p \in Requests : answer'[p] = "ok" => answer[p] = "ok"
      BY <1>1, <1>2, <1>3 DEF TypeOK
    <2> QED
      BY <1>1, <1>2, <2>1, <2>2 DEF SpentOnce
  <1>9. LateIsStopped'
    <2> SUFFICES ASSUME NEW p \in late'
                 PROVE  /\ p \notin worked /\ at'[p] \in {"resolving", "answered"}
                        /\ at'[p] = "resolving" => \E r \in consumed : step'[p] < r
      BY <1>1 DEF LateIsStopped
    <2>1. CASE p # q
      BY <1>1, <1>2, <2>1 DEF LateIsStopped, TypeOK
    <2>2. CASE p = q
      <3>1. q \notin worked
        BY <1>2 DEF WorkAnswered
      <3>2. /\ at'[q] \in {"resolving", "answered"} /\ step'[q] = n
            /\ at'[q] = "resolving" => n \notin consumed
        BY <1>1, <1>3, <1>2 DEF TypeOK
      <3>3. ASSUME at'[q] = "resolving" PROVE \E r \in consumed : n < r
        <4>1. consumed \subseteq Refs /\ Refs = 1 .. Len(inputs) /\ Len(inputs) \in Nat
          BY <1>2, FormFacts DEF TypeOK, OneUse
        <4>2. CASE at[q] = "idle"
          <5>1. consumed # {} /\ n = 1
            BY <1>2, <2>2, <4>2 DEF LateIsStopped
          <5>2. PICK r \in consumed : TRUE
            BY <5>1
          <5> QED
            BY <3>2, <3>3, <4>1, <5>1, <5>2
        <4>3. CASE at[q] = "resolving"
          <5>1. q \in late /\ n = step[q] + 1
            BY <2>2, <4>3
          <5>2. PICK r \in consumed : step[q] < r
            BY <1>2, <4>3, <5>1 DEF LateIsStopped
          <5>3. step[q] \in Nat /\ r \in Nat /\ r # n
            BY <1>2, <3>2, <3>3, <4>1 DEF TypeOK
          <5> QED
            BY <5>1, <5>2, <5>3
        <4> QED
          BY <4>2, <4>3
      <3> QED
        BY <2>2, <3>1, <3>2, <3>3
    <2> QED
      BY <2>1, <2>2
  <1> QED
    BY <1>4, <1>5, <1>6, <1>7, <1>8, <1>9 DEF IInv

\* The end of a handler without work.
LEMMA AnswerKeeps ==
    ASSUME IInv, NEW q \in Requests, NEW a \in Codes, Answered(q, a),
           a \notin {"HOST_REFERENCE_KIND_MISMATCH", "HOST_REFERENCE_PERMISSION_DENIED"},
           UNCHANGED <<form, known, consumed, expired, moved, step, worked, late, changes>>
    PROVE  IInv'
  <1>1. /\ at' = [at EXCEPT ![q] = "answered"] /\ answer' = [answer EXCEPT ![q] = a]
        /\ UNCHANGED <<operation, inputs, source, known, consumed, expired, moved, step, worked,
                       late, changes>>
    BY DEF Answered, form
  <1>2. TypeOK /\ Provided /\ NeverMismatched /\ WorkAnswered /\ LateIsStopped /\ SpentOnce /\ SpentForWork
    BY DEF IInv
  <1>3. Refs' = Refs /\ OneUse' = OneUse
    BY <1>1 DEF Refs, OneUse, Record
  <1>4. TypeOK'
    BY <1>1, <1>2, <1>3 DEF TypeOK
  <1>5. Provided' /\ SpentForWork'
    BY <1>1, <1>2 DEF Provided, SpentForWork, Refs
  <1>6. WorkAnswered' /\ NeverMismatched'
    BY <1>1, <1>2 DEF WorkAnswered, NeverMismatched, TypeOK
  <1>7. SpentOnce'
    <2>1. \A p \in Requests : answer'[p] = "ok" => answer[p] = "ok"
      BY <1>1, <1>2 DEF TypeOK, Codes
    <2> QED
      BY <1>1, <1>2, <1>3, <2>1 DEF SpentOnce
  <1>8. LateIsStopped'
    BY <1>1, <1>2 DEF LateIsStopped, TypeOK
  <1> QED
    BY <1>4, <1>5, <1>6, <1>7, <1>8 DEF IInv

\* The end of a handler that has done its work: a reference that was spent before
\* makes the answer a refusal.
LEMMA ConsumeKeeps ==
    ASSUME IInv, NEW q \in Requests, ConsumeAll(q), q \notin late,
           UNCHANGED <<form, known, expired, moved, step, late, changes>>
    PROVE  IInv'
  <1> DEFINE Fails(r) == inputs[r].consumed /\ ~Consumable(q, r)
             Before(r) == \A m \in Refs : Fails(m) => r < m
             a == IF \E r \in Refs : Fails(r) THEN "HOST_REFERENCE_REUSED" ELSE "ok"
             spent == {r \in OneUse : inputs[r].consumed /\ Before(r)}
  <1>1. /\ at' = [at EXCEPT ![q] = "answered"] /\ answer' = [answer EXCEPT ![q] = a]
        /\ consumed' = consumed \cup spent /\ worked' = worked \cup {q}
        /\ UNCHANGED <<operation, inputs, source, known, expired, moved, step, late, changes>>
    BY DEF ConsumeAll, Answered, form
  <1>2. TypeOK /\ Provided /\ NeverMismatched /\ WorkAnswered /\ LateIsStopped /\ SpentOnce /\ SpentForWork
    BY DEF IInv
  <1>3. Refs' = Refs /\ OneUse' = OneUse
    BY <1>1 DEF Refs, OneUse, Record
  <1>4. a \in {"HOST_REFERENCE_REUSED", "ok"} /\ spent \subseteq OneUse
    OBVIOUS
  <1>5. a = "ok" => OneUse \subseteq spent /\ OneUse \cap consumed = {}
    <2> SUFFICES ASSUME a = "ok", NEW r \in OneUse PROVE r \in spent /\ r \notin consumed
      OBVIOUS
    <2>1. \A m \in Refs : ~Fails(m)
      OBVIOUS
    <2>2. r \in Refs /\ inputs[r].consumed
      BY <1>2, FormFacts DEF OneUse
    <2>3. r \notin consumed
      BY <2>1, <2>2 DEF Consumable
    <2> QED
      BY <2>1, <2>2, <2>3
  <1> HIDE DEF a, spent
  <1>6. TypeOK'
    BY <1>1, <1>2, <1>3, <1>4 DEF TypeOK, Codes
  <1>7. Provided' /\ SpentForWork'
    BY <1>1, <1>2 DEF Provided, SpentForWork, Refs
  <1>8. WorkAnswered'
    BY <1>1, <1>2 DEF WorkAnswered, TypeOK
  <1>9. NeverMismatched'
    BY <1>1, <1>2, <1>4 DEF NeverMismatched, TypeOK
  <1>10. SpentOnce'
    <2> SUFFICES ASSUME OneUse # {}
                 PROVE  /\ \A p, s \in Requests : answer'[p] = "ok" /\ answer'[s] = "ok" => p = s
                        /\ \A p \in Requests : answer'[p] = "ok" => OneUse \subseteq consumed'
      BY <1>3 DEF SpentOnce
    <2>1. \A p \in Requests : p # q => answer'[p] = answer[p]
      BY <1>1, <1>2 DEF TypeOK
    <2>2. answer'[q] = a
      BY <1>1, <1>2 DEF TypeOK
    <2>3. \A p \in Requests : answer[p] = "ok" => OneUse \subseteq consumed
      BY <1>2 DEF SpentOnce
    <2>4. a = "ok" => \A p \in Requests : answer[p] # "ok"
      BY <1>5, <2>3
    <2>5. \A p, s \in Requests : answer[p] = "ok" /\ answer[s] = "ok" => p = s
      BY <1>2 DEF SpentOnce
    <2> QED
      BY <1>1, <1>5, <2>1, <2>2, <2>3, <2>4, <2>5
  <1>11. LateIsStopped'
    BY <1>1, <1>2 DEF LateIsStopped, TypeOK
  <1> QED
    BY <1>6, <1>7, <1>8, <1>9, <1>10, <1>11 DEF IInv

\* Neither the registry nor the beginning of the work disturbs a request.
LEMMA SurroundingsKeep ==
    ASSUME IInv, UNCHANGED <<form, consumed, step, answer, worked, late>>,
           known' \subseteq Refs, expired' \subseteq Refs, moved' \subseteq Refs, changes' \in 0 .. MaxChanges,
           at' = at \/ \E q \in Requests : at[q] = "resolving" /\ q \notin late
                                            /\ at' = [at EXCEPT ![q] = "executing"]
    PROVE  IInv'
  <1>1. UNCHANGED <<operation, inputs, source, consumed, step, answer, worked, late>>
    BY DEF form
  <1>2. TypeOK /\ Provided /\ NeverMismatched /\ WorkAnswered /\ LateIsStopped /\ SpentOnce /\ SpentForWork
    BY DEF IInv
  <1>3. Refs' = Refs /\ OneUse' = OneUse
    BY <1>1 DEF Refs, OneUse, Record
  <1>4. /\ at' \in [Requests -> {"idle", "resolving", "executing", "answered"}]
        /\ \A p \in Requests : p \in late \/ at[p] = "answered" => at'[p] = at[p]
    BY <1>2 DEF TypeOK
  <1>5. TypeOK'
    BY <1>1, <1>2, <1>3, <1>4 DEF TypeOK
  <1>6. Provided' /\ SpentForWork' /\ NeverMismatched' /\ SpentOnce'
    BY <1>1, <1>2, <1>3 DEF Provided, SpentForWork, NeverMismatched, SpentOnce
  <1>7. WorkAnswered' /\ LateIsStopped'
    BY <1>1, <1>2, <1>4 DEF WorkAnswered, LateIsStopped, TypeOK
  <1> QED
    BY <1>5, <1>6, <1>7 DEF IInv

LEMMA StepHolds == IInv /\ [Next]_vars => IInv'
  <1> SUFFICES ASSUME IInv, [Next]_vars PROVE IInv'
    OBVIOUS
  <1>1. TypeOK /\ Provided /\ WorkAnswered /\ LateIsStopped
    BY DEF IInv
  <1>2. Refs = 1 .. Len(inputs) /\ Len(inputs) \in Nat \ {0}
    BY <1>1, FormFacts
  <1>3. ASSUME NEW r \in Refs, Issue(r) \/ Expire(r) \/ Move(r) PROVE IInv'
    <2>1. /\ UNCHANGED <<form, consumed, step, answer, worked, late>> /\ at' = at
          /\ known' \subseteq Refs /\ expired' \subseteq Refs /\ moved' \subseteq Refs
          /\ changes' \in 0 .. MaxChanges
      BY <1>1, <1>3, ReferenceAssumption DEF Issue, Expire, Move, TypeOK
    <2> QED
      BY <2>1, SurroundingsKeep
  <1>4. ASSUME NEW q \in Requests, Receive(q) PROVE IInv'
    <2>1. /\ at[q] = "idle" /\ Resolve(q, 1) /\ 1 \in Refs
          /\ late' = IF consumed # {} THEN late \cup {q} ELSE late
      BY <1>2, <1>4 DEF Receive
    <2> QED
      BY <2>1, ResolveKeeps
  <1>5. ASSUME NEW q \in Requests, ResolveFails(q) PROVE IInv'
    <2>1. /\ Answered(q, "HOST_REFERENCE_PATH_CHANGED")
          /\ UNCHANGED <<form, known, consumed, expired, moved, step, worked, late, changes>>
      BY <1>5 DEF ResolveFails
    <2>2. "HOST_REFERENCE_PATH_CHANGED" \in Codes
      BY DEF Codes
    <2> QED
      BY <2>1, <2>2, AnswerKeeps
  <1>6. ASSUME NEW q \in Requests, ResolveNext(q) PROVE IInv'
    <2>1. at[q] = "resolving" /\ step[q] < Len(inputs) /\ Resolve(q, step[q] + 1) /\ late' = late
      BY <1>6 DEF ResolveNext, Resolved
    <2>2. step[q] + 1 \in Refs
      BY <1>1, <1>2, <2>1 DEF TypeOK
    <2> QED
      BY <2>1, <2>2, ResolveKeeps
  \* A late request never comes to the end of its references.
  <1>7. ASSUME NEW q \in Requests, at[q] = "executing" \/ (at[q] = "resolving" /\ step[q] = Len(inputs))
        PROVE  q \notin late
    <2> SUFFICES ASSUME q \in late PROVE FALSE
      OBVIOUS
    <2>1. at[q] = "resolving" /\ step[q] = Len(inputs)
      BY <1>1, <1>7 DEF LateIsStopped
    <2>2. PICK r \in consumed : step[q] < r
      BY <1>1, <2>1 DEF LateIsStopped
    <2>3. r \in 1 .. Len(inputs)
      BY <1>1, <1>2 DEF TypeOK, OneUse
    <2> QED
      BY <1>2, <2>1, <2>2, <2>3
  <1>8. ASSUME NEW q \in Requests, NEW code \in {"JOB_QUEUE_FULL", "FAILED"}, Refuse(q, code) PROVE IInv'
    <2>1. code \in Codes
      BY DEF Codes
    <2> QED
      BY <1>8, <2>1, AnswerKeeps DEF Refuse
  <1>9. ASSUME NEW q \in Requests, Enqueue(q) PROVE IInv'
    <2>1. at[q] = "resolving" /\ step[q] = Len(inputs)
      BY <1>9 DEF Enqueue, Resolved
    <2>2. CASE Refuse(q, "JOB_QUEUE_FULL")
      BY <1>8, <2>2
    <2>3. CASE ConsumeAll(q) /\ UNCHANGED <<form, known, expired, moved, step, late, changes>>
      BY <1>7, <2>1, <2>3, ConsumeKeeps
    <2> QED
      BY <1>9, <2>2, <2>3 DEF Enqueue
  <1>10. ASSUME NEW q \in Requests, Execute(q) PROVE IInv'
    <2>1. /\ at[q] = "resolving" /\ step[q] = Len(inputs) /\ at' = [at EXCEPT ![q] = "executing"]
          /\ UNCHANGED <<form, known, consumed, expired, moved, step, answer, worked, late, changes>>
      BY <1>10 DEF Execute, Resolved
    <2>2. q \notin late
      BY <1>7, <2>1
    <2>3. /\ known' \subseteq Refs /\ expired' \subseteq Refs /\ moved' \subseteq Refs
          /\ changes' \in 0 .. MaxChanges
      BY <1>1, <2>1 DEF TypeOK
    <2> QED
      BY <2>1, <2>2, <2>3, SurroundingsKeep
  <1>11. ASSUME NEW q \in Requests, ExecuteReturns(q) PROVE IInv'
    <2>1. at[q] = "executing"
      BY <1>11 DEF ExecuteReturns
    <2>2. CASE Refuse(q, "FAILED")
      BY <1>8, <2>2
    <2>3. CASE ConsumeAll(q) /\ UNCHANGED <<form, known, expired, moved, step, late, changes>>
      BY <1>7, <2>1, <2>3, ConsumeKeeps
    <2> QED
      BY <1>11, <2>2, <2>3 DEF ExecuteReturns
  <1>12. CASE UNCHANGED vars
    <2>1. UNCHANGED <<form, known, consumed, expired, moved, at, step, answer, worked, late, changes>>
      BY <1>12 DEF vars, form
    <2>2. /\ known' \subseteq Refs /\ expired' \subseteq Refs /\ moved' \subseteq Refs
          /\ changes' \in 0 .. MaxChanges
      BY <1>1, <2>1 DEF TypeOK
    <2> QED
      BY <2>1, <2>2, SurroundingsKeep
  <1> QED
    BY <1>3, <1>4, <1>5, <1>6, <1>9, <1>10, <1>11, <1>12 DEF Next, Handle

\* IInv is an inductive invariant of the reference table.
THEOREM Inductive == Spec => []IInv
  <1> QED
    BY InitHolds, StepHolds, PTL DEF Spec

\* A reference the user gave for one use is used by one request at most, whatever
\* the number of requests that carry it and however their awaits interleave, and
\* it is spent by the time that request is answered.
THEOREM UsedOnce == Spec => []SpentOnce
  <1>1. IInv => SpentOnce
    BY DEF IInv
  <1> QED
    BY <1>1, Inductive, PTL

\* Only work that was done spends a reference.
THEOREM WorkSpends == Spec => []SpentForWork
  <1>1. IInv => SpentForWork
    BY DEF IInv
  <1> QED
    BY <1>1, Inductive, PTL

\* No request that comes after the reference was spent does work, however many
\* references it resolves before that one.
THEOREM LateIsRefused == Spec => []LateDoesNoWork
  <1>1. IInv => LateDoesNoWork
    BY DEF IInv, LateIsStopped, LateDoesNoWork
  <1> QED
    BY <1>1, Inductive, PTL

\* Every place the page has a reference from issues it with the kind and the
\* permission each operation asks for: for these no request is ever refused.
THEOREM GrantsAreEnough == Spec => []GrantsSuffice
  <1>1. IInv => GrantsSuffice
    BY DEF IInv, NeverMismatched, GrantsSuffice
  <1> QED
    BY <1>1, Inductive, PTL
=============================================================================
