---------------------------- MODULE Verification ----------------------------
(* The verification of a package (crates/proof-core/src/verify.rs) and the  *)
(* attachment of a timestamp response (timestamp_package.rs).  A package is *)
(* what each stage finds in it; the report is a function of the package, of *)
(* the local record of its creator's key, of the imported trust snapshot of *)
(* the timestamp authority, and of the time.  Those change while the        *)
(* package stays as it is.  What a COSE signature or an RFC 3161 response   *)
(* is found to be is part of the package.                                   *)
EXTENDS FiniteSets

CONSTANT Packages    \* the packages that are verified

VARIABLES package, trust, profile, late
vars == <<package, trust, profile, late>>

Versions == {"0.2", "0.3", "0.4", "0.5", "1.0", "other"}
Signed == {"0.3", "0.4", "0.5", "1.0"}
Timed == {"0.4", "0.5", "1.0"}
Observing == {"0.5", "1.0"}

\* What an attached response is found to be when the snapshot is the one that the
\* plan names: the fault that is met first, or none.  A response without a byte is
\* malformed under any snapshot; indeterminate revocation is met after the validity
\* of the snapshot.
EarlyFaults == {"malformed", "imprint_mismatch", "invalid_chain"}
Responses == EarlyFaults \cup {"empty", "indeterminate_revocation", "good"}

\* A package: what is found of its container, of its manifest and the security part
\* in it, of its assets and events, of the entries of the creator's key and
\* signature and of the response, and of the C2PA observations among the events.
PackageRecords ==
    [version      : Versions,
     container    : {"safe", "unsafe", "unreadable"},
     manifest     : {"good", "faulty", "lost"},
     security     : {"none", "signed", "planned"},
     assets       : {"good", "bad"},
     events       : {"good", "broken", "unreadable", "missing"},
     keyEntry     : {"present", "malformed", "oversized", "missing"},
     signature    : {"good", "unsupported", "malformed", "invalid", "oversized", "missing"},
     stamp        : {"absent", "oversized"} \cup Responses,
     observations : SUBSET {"trusted", "valid", "invalid"},
     observed     : {"good", "faulty"}]

ASSUME PackagesAssumption == Packages \subseteq PackageRecords

(***************************************************************************)
(* The stages.  Each gives the errors it reports.                           *)
(***************************************************************************)
\* Fault: a plan is not asked for.
SecurityAllowedUnplanned(p) ==
    CASE p.version = "0.2" -> p.security = "none"
      [] OTHER -> p.version # "other" /\ p.security # "none"

\* The version rules of the manifest's security part.
SecurityAllowed(p) ==
    CASE p.version = "0.2" -> p.security = "none"
      [] p.version = "0.3" -> p.security = "signed"
      [] p.version \in {"0.4", "0.5"} -> p.security = "planned"
      [] p.version = "1.0" -> p.security # "none"
      [] OTHER -> FALSE

\* The entries are those that the manifest declares, the response if it is there.
Covered(p) ==
    /\ p.events # "missing"
    /\ IF p.security = "none"
       THEN p.keyEntry = "missing" /\ p.signature = "missing"
       ELSE p.keyEntry # "missing" /\ p.signature # "missing"
    /\ p.security = "planned" \/ p.stamp = "absent"

Structural(p) ==
    {stage \in {"manifest", "assets", "events"} :
        CASE stage = "manifest" -> p.manifest = "faulty" \/ ~SecurityAllowed(p) \/ ~Covered(p)
          [] stage = "assets" -> p.assets = "bad"
          [] stage = "events" -> p.events \in {"broken", "unreadable"}}

\* The creator signature, and what the local record says of its key.
SignatureOf(p, t) ==
    IF p.version = "0.2" THEN "not_present"
    ELSE IF p.version = "other" THEN "absent"
    ELSE IF p.security = "none" \/ p.keyEntry = "missing" \/ p.signature = "missing" THEN "absent"
    ELSE IF "oversized" \in {p.keyEntry, p.signature} THEN "malformed"
    ELSE IF p.signature = "unsupported" THEN "unsupported"
    ELSE IF p.keyEntry = "malformed" THEN "malformed"
    ELSE IF p.signature # "good" THEN p.signature
    ELSE t

ValidSignatures == {"valid_untrusted", "valid_locally_trusted", "disabled"}
SignatureErrors(p, t) ==
    IF p.version \in Signed /\ SignatureOf(p, t) \notin ValidSignatures THEN {"signature"} ELSE {}

\* The response against the snapshot.
Strict(stamp, prof, isLate) ==
    IF stamp = "empty" THEN "malformed"
    ELSE IF prof # "matching" THEN "untrusted"
    ELSE IF stamp \in EarlyFaults THEN stamp
    ELSE IF isLate THEN "expired_or_stale"
    ELSE IF stamp # "good" THEN stamp
    ELSE "valid_trusted"

HasPlan(p) == p.version \in Timed /\ p.security = "planned"
TimeOf(p, prof, isLate) ==
    IF p.version \in {"0.2", "0.3"} THEN "not_present"
    ELSE IF ~HasPlan(p) \/ p.stamp = "absent" THEN "absent"
    ELSE IF p.stamp = "oversized" \/ p.signature \in {"missing", "oversized"} THEN "malformed"
    ELSE IF prof = "none" THEN "untrusted"
    ELSE Strict(p.stamp, prof, isLate)

\* Fault: a response that is not trusted is an error of the package.
TimeErrorsOf(p, prof, isLate) ==
    IF HasPlan(p) /\ TimeOf(p, prof, isLate) \notin {"absent", "valid_trusted"} THEN {"time"} ELSE {}
\* The stage of the timestamp reports warnings only.
TimeErrors(p, prof, isLate) == {}

\* The observations that are kept of the events that could be read.
Kept(p) == IF p.events \in {"good", "broken"} THEN p.observations ELSE {}
C2paOf(p) ==
    IF p.version \notin Observing \cup {"other"} THEN "none"
    ELSE IF p.version = "other" \/ Kept(p) = {} THEN "absent"
    ELSE IF "invalid" \in Kept(p) THEN "observed_invalid"
    ELSE IF Kept(p) = {"trusted"} THEN "observed_trusted"
    ELSE "observed_valid_untrusted"
C2paErrors(p) ==
    IF p.version \in Observing /\ p.events \in {"good", "broken"} /\ p.observed = "faulty"
    THEN {"c2pa"} ELSE {}

(***************************************************************************)
(* The report.                                                              *)
(***************************************************************************)
\* The report of a verification that ends before there is a manifest.
Stopped(stage, status) ==
    [version |-> "1.0",
     status |-> status,
     integrity |-> IF status = "error" THEN "not_evaluated" ELSE "invalid",
     identity |-> "not_verified", signature |-> "absent", creator |-> FALSE,
     time |-> "absent", evidence |-> FALSE, c2pa |-> "absent",
     errors |-> {stage}, warnsAbsent |-> FALSE]

Errors(p, t, prof, isLate) ==
    Structural(p) \cup SignatureErrors(p, t) \cup TimeErrors(p, prof, isLate) \cup C2paErrors(p)
Verified(p, t) == p.version \in Signed /\ SignatureOf(p, t) \in ValidSignatures
Unstamped(p) == HasPlan(p) /\ p.stamp = "absent"

\* The report of one that goes through every stage of the version.
Full(p, t, prof, isLate) ==
    [version |-> IF p.version = "other" THEN "1.0" ELSE p.version,
     status |-> IF Errors(p, t, prof, isLate) = {} THEN "valid" ELSE "invalid",
     integrity |-> IF Structural(p) = {} THEN "valid" ELSE "invalid",
     identity |-> IF Verified(p, t) THEN "self_asserted" ELSE "not_verified",
     signature |-> SignatureOf(p, t), creator |-> Verified(p, t),
     time |-> TimeOf(p, prof, isLate), evidence |-> HasPlan(p), c2pa |-> C2paOf(p),
     errors |-> Errors(p, t, prof, isLate), warnsAbsent |-> Unstamped(p)]

ReportOf(p, t, prof, isLate) ==
    IF p.container = "unreadable" THEN Stopped("container", "error")
    ELSE IF p.container = "unsafe" THEN Stopped("container", "invalid")
    ELSE IF p.manifest = "lost" THEN Stopped("manifest", "invalid")
    ELSE Full(p, t, prof, isLate)

Report == ReportOf(package, trust, profile, late)

(***************************************************************************)
(* What changes around a package, and the attachment to it.                 *)
(***************************************************************************)
Profiles == {"none", "other", "matching"}

TypeOK ==
    /\ package \in PackageRecords
    /\ trust \in ValidSignatures
    /\ profile \in Profiles
    /\ late \in BOOLEAN

Init ==
    /\ package \in Packages
    /\ trust = "valid_untrusted"
    /\ profile = "none"
    /\ late = FALSE

\* The local signer's record becomes another one.
SignerChanges == trust' \in ValidSignatures \ {trust} /\ UNCHANGED <<package, profile, late>>

\* Another snapshot is imported, or none is given.
ProfileChanges == profile' \in Profiles \ {profile} /\ UNCHANGED <<package, trust, late>>

\* The snapshot's validity ends.
ProfileExpires == ~late /\ late' = TRUE /\ UNCHANGED <<package, trust, profile>>

\* The response is checked before it is written, and the new package after.
MayAttach(response, new) ==
    /\ profile # "none"
    /\ Report.status = "valid"
    /\ package.security = "planned" /\ package.stamp = "absent"
    /\ Strict(response, profile, late) = "valid_trusted"
    /\ LET r == ReportOf(new, "valid_untrusted", profile, late)
       IN  r.status = "valid" /\ r.time = "valid_trusted"

Attach(response) ==
    LET new == [package EXCEPT !.stamp = response]
    IN  /\ MayAttach(response, new)
        /\ package' = new
        /\ UNCHANGED <<trust, profile, late>>

Next ==
    \/ SignerChanges
    \/ ProfileChanges
    \/ ProfileExpires
    \/ \E response \in Responses : Attach(response)

Spec == Init /\ [][Next]_vars

(***************************************************************************)
(* Properties.                                                              *)
(***************************************************************************)
\* Whatever stage stopped the verification and whatever version the manifest
\* claims, the report meets schemas/v*/verification-result.schema.json of the
\* version it states (the command line refuses to print one that does not).
MeetsSchema ==
    LET r == Report IN
    /\ r.version # "other"
    /\ r.version = "0.2" => r.identity = "not_verified" /\ r.signature = "not_present" /\ ~r.creator
    /\ r.version # "0.2" => r.signature # "not_present"
    /\ r.version \in {"0.2", "0.3"} <=> r.time = "not_present"
    /\ r.version \in {"0.2", "0.3"} => ~r.evidence
    /\ r.version \in Observing <=> r.c2pa # "none"
    /\ r.status = "valid" =>
        /\ r.integrity = "valid" /\ r.errors = {}
        /\ r.version # "0.2" => r.identity = "self_asserted" /\ r.signature \in ValidSignatures /\ r.creator
        /\ r.version \in {"0.4", "0.5"} => r.evidence
    /\ r.status = "invalid" => r.errors # {} /\ (r.version = "0.2" => r.integrity = "invalid")
    /\ r.status = "error" => r.integrity = "not_evaluated" /\ r.errors # {}

\* docs/ASSURANCE-LEVELS.md: a missing, broken or untrusted response never
\* changes what is said of the creator signature, the integrity or the package,
\* a snapshot or the time neither, and the local record of the key changes only
\* which of the valid signatures it is.
SameBut(r, s, parts) == \A part \in DOMAIN r \ parts : r[part] = s[part]
LayersIndependent ==
    /\ \A stamp \in {"absent", "oversized"} \cup Responses, prof \in Profiles, isLate \in BOOLEAN :
        LET p == [package EXCEPT !.stamp = stamp] IN
        HasPlan(package) =>
            SameBut(Report, ReportOf(p, trust, prof, isLate), {"time", "warnsAbsent"})
    /\ \A t \in ValidSignatures :
        SameBut(Report, ReportOf(package, t, profile, late), {"signature"})

\* An attached response makes the time of the package trusted, and nothing else.
AttachAddsTime ==
    [][ package' # package =>
            /\ Report'.time = "valid_trusted" /\ Report'.status = "valid"
            /\ SameBut(Report, Report', {"time", "warnsAbsent"}) ]_vars

\* verify.rs:817: the warning of a missing response says that the creator
\* signature is valid.
AbsentWarningIsTrue == Report.warnsAbsent => Report.signature \in ValidSignatures
=============================================================================
