------------------------ MODULE Verification_proofs ------------------------
(***************************************************************************)
(* Proofs about what is said of a creator: what a report says of the layers *)
(* of any package (Verification); the key that a package is signed with and *)
(* locally trusted by, for any number of calls (LocalSigner); and the       *)
(* decision about an official identity, for any times, policies and numbers *)
(* of snapshots, of an issuer that never takes a revocation back            *)
(* (OfficialIdentity).                                                      *)
(***************************************************************************)
EXTENDS Verification, LocalSigner, OfficialIdentity, SequenceTheorems, TLAPS

-----------------------------------------------------------------------------
(* The report.                                                              *)

Parts == {"version", "status", "integrity", "identity", "signature", "creator", "time",
          "evidence", "c2pa", "errors", "warnsAbsent"}

LEMMA ReportParts ==
    ASSUME NEW p, NEW t, NEW prof, NEW isLate
    PROVE  /\ DOMAIN ReportOf(p, t, prof, isLate) = Parts
           /\ DOMAIN Full(p, t, prof, isLate) = Parts
  BY DEF ReportOf, Full, Stopped, Parts

\* The response of a package that has a plan is nowhere but in the time.
LEMMA StampOnlyInTime ==
    ASSUME NEW p \in PackageRecords, NEW stamp, NEW t, NEW prof, NEW isLate, NEW prof2, NEW isLate2,
           HasPlan(p)
    PROVE  SameBut(ReportOf(p, t, prof, isLate),
                   ReportOf([p EXCEPT !.stamp = stamp], t, prof2, isLate2), {"time", "warnsAbsent"})
  <1> DEFINE q == [p EXCEPT !.stamp = stamp]
             r == Full(p, t, prof, isLate)
             s == Full(q, t, prof2, isLate2)
  <1>1. p.version \in Timed /\ p.security = "planned"
    BY DEF HasPlan
  <1>2. /\ q.version = p.version /\ q.security = p.security
        /\ q.container = p.container /\ q.manifest = p.manifest /\ q.assets = p.assets /\ q.events = p.events
        /\ q.keyEntry = p.keyEntry /\ q.signature = p.signature
        /\ q.observations = p.observations /\ q.observed = p.observed
    BY DEF PackageRecords
  <1> HIDE DEF q
  <1>3. HasPlan(q) = HasPlan(p)
    BY <1>2 DEF HasPlan
  <1>4. Covered(p) = Covered(q) /\ SecurityAllowed(p) = SecurityAllowed(q)
    BY <1>1, <1>2 DEF Covered, SecurityAllowed
  <1>5. Structural(p) = Structural(q)
    BY <1>2, <1>4 DEF Structural
  <1>6. SignatureOf(p, t) = SignatureOf(q, t)
    BY <1>1, <1>2 DEF SignatureOf
  <1>7. SignatureErrors(p, t) = SignatureErrors(q, t)
    BY <1>2, <1>6 DEF SignatureErrors
  <1>8. C2paOf(p) = C2paOf(q) /\ C2paErrors(p) = C2paErrors(q)
    BY <1>2 DEF C2paOf, C2paErrors, Kept
  <1>9. /\ r.version = s.version /\ r.status = s.status /\ r.integrity = s.integrity
        /\ r.identity = s.identity /\ r.signature = s.signature /\ r.creator = s.creator
        /\ r.evidence = s.evidence /\ r.c2pa = s.c2pa /\ r.errors = s.errors
    <2>1. Errors(p, t, prof, isLate) = Errors(q, t, prof2, isLate2)
      BY <1>5, <1>7, <1>8 DEF Errors, TimeErrors
    <2>2. Verified(p, t) = Verified(q, t)
      BY <1>2, <1>6 DEF Verified
    <2> QED
      BY <1>2, <1>3, <1>5, <1>6, <1>8, <2>1, <2>2 DEF Full
  <1> HIDE DEF r, s
  <1>10. SameBut(r, s, {"time", "warnsAbsent"})
    <2>1. DOMAIN r = Parts
      BY ReportParts DEF r
    <2> QED
      BY <1>9, <2>1 DEF SameBut, Parts
  <1>11. CASE p.container = "safe" /\ p.manifest # "lost"
    <2>1. ReportOf(p, t, prof, isLate) = r /\ ReportOf(q, t, prof2, isLate2) = s
      BY <1>2, <1>11, Zenon DEF ReportOf, r, s
    <2> QED
      BY <2>1, <1>10 DEF q
  <1>12. CASE ~(p.container = "safe" /\ p.manifest # "lost")
    <2>1. ReportOf(p, t, prof, isLate) = ReportOf(q, t, prof2, isLate2)
      <3>1. CASE p.container \in {"unsafe", "unreadable"}
        BY <1>2, <3>1 DEF ReportOf
      <3>2. CASE p.container = "safe" /\ p.manifest = "lost"
        BY <1>2, <3>2 DEF ReportOf
      <3> QED
        BY <1>12, <3>1, <3>2 DEF PackageRecords
    <2> QED
      BY <2>1 DEF SameBut, q
  <1> QED
    BY <1>11, <1>12

\* The record of the key is nowhere but in which valid signature it is.
LEMMA TrustOnlyInSignature ==
    ASSUME NEW p, NEW t \in ValidSignatures, NEW u \in ValidSignatures, NEW prof, NEW isLate
    PROVE  SameBut(ReportOf(p, t, prof, isLate), ReportOf(p, u, prof, isLate), {"signature"})
  <1> DEFINE r == Full(p, t, prof, isLate)
             s == Full(p, u, prof, isLate)
  <1>1. SignatureOf(p, t) \in ValidSignatures <=> SignatureOf(p, u) \in ValidSignatures
    BY DEF SignatureOf
  <1>2. SignatureErrors(p, t) = SignatureErrors(p, u)
    BY <1>1 DEF SignatureErrors
  <1>3. /\ r.version = s.version /\ r.status = s.status /\ r.integrity = s.integrity
        /\ r.identity = s.identity /\ r.creator = s.creator /\ r.time = s.time
        /\ r.evidence = s.evidence /\ r.c2pa = s.c2pa /\ r.errors = s.errors
        /\ r.warnsAbsent = s.warnsAbsent
    <2>1. Errors(p, t, prof, isLate) = Errors(p, u, prof, isLate)
      BY <1>2 DEF Errors
    <2>2. Verified(p, t) = Verified(p, u)
      BY <1>1 DEF Verified
    <2> QED
      BY <2>1, <2>2 DEF Full
  <1> HIDE DEF r, s
  <1>4. SameBut(r, s, {"signature"})
    <2>1. DOMAIN r = Parts
      BY ReportParts DEF r
    <2> QED
      BY <1>3, <2>1 DEF SameBut, Parts
  <1>5. \/ ReportOf(p, t, prof, isLate) = r /\ ReportOf(p, u, prof, isLate) = s
        \/ ReportOf(p, t, prof, isLate) = ReportOf(p, u, prof, isLate)
    BY DEF ReportOf, r, s
  <1> QED
    BY <1>4, <1>5 DEF SameBut

\* The variables stay in their types: an attachment gives a package.
LEMMA TypeInvariant == Spec => []TypeOK
  <1>1. Init => TypeOK
    BY PackagesAssumption DEF Init, TypeOK, ValidSignatures, Profiles
  <1>2. TypeOK /\ [Next]_vars => TypeOK'
    <2> SUFFICES ASSUME TypeOK, [Next]_vars PROVE TypeOK'
      OBVIOUS
    <2>1. CASE SignerChanges \/ ProfileChanges \/ ProfileExpires
      BY <2>1 DEF SignerChanges, ProfileChanges, ProfileExpires, TypeOK
    <2>2. ASSUME NEW response \in Responses, Attach(response) PROVE TypeOK'
      <3>1. package' = [package EXCEPT !.stamp = response] /\ UNCHANGED <<trust, profile, late>>
        BY <2>2 DEF Attach
      <3>2. package' \in PackageRecords
        BY <3>1 DEF TypeOK, PackageRecords
      <3> QED
        BY <3>1, <3>2 DEF TypeOK
    <2>3. CASE UNCHANGED vars
      BY <2>3 DEF vars, TypeOK
    <2> QED
      BY <2>1, <2>2, <2>3 DEF Next
  <1> QED
    BY <1>1, <1>2, PTL DEF Spec

\* No timestamp evidence, trust snapshot, time or local key record changes what
\* the other layers of any package are reported to be.
THEOREM LayersStayApart == Spec => []LayersIndependent
  <1>1. TypeOK => LayersIndependent
    <2> SUFFICES ASSUME TypeOK PROVE LayersIndependent
      OBVIOUS
    <2>1. package \in PackageRecords /\ trust \in ValidSignatures
      BY DEF TypeOK
    <2>2. ASSUME NEW stamp \in {"absent", "oversized"} \cup Responses, NEW prof \in Profiles,
                 NEW isLate \in BOOLEAN, HasPlan(package)
          PROVE  SameBut(Report, ReportOf([package EXCEPT !.stamp = stamp], trust, prof, isLate),
                         {"time", "warnsAbsent"})
      BY <2>1, <2>2, StampOnlyInTime DEF Report
    <2>3. ASSUME NEW t \in ValidSignatures
          PROVE  SameBut(Report, ReportOf(package, t, profile, late), {"signature"})
      BY <2>1, TrustOnlyInSignature DEF Report
    <2> QED
      BY <2>2, <2>3 DEF LayersIndependent
  <1> QED
    BY <1>1, TypeInvariant, PTL

\* What an attachment changes: the time, which is trusted from then on.
THEOREM AttachmentAddsTime == Spec => AttachAddsTime
  <1>1. TypeOK /\ [Next]_vars => (package' # package =>
            /\ Report'.time = "valid_trusted" /\ Report'.status = "valid"
            /\ SameBut(Report, Report', {"time", "warnsAbsent"}))
    <2> SUFFICES ASSUME TypeOK, [Next]_vars, package' # package
                 PROVE  /\ Report'.time = "valid_trusted" /\ Report'.status = "valid"
                        /\ SameBut(Report, Report', {"time", "warnsAbsent"})
      OBVIOUS
    <2>1. PICK response \in Responses : Attach(response)
      BY DEF Next, vars, SignerChanges, ProfileChanges, ProfileExpires
    <2> DEFINE new == [package EXCEPT !.stamp = response]
               checked == ReportOf(new, "valid_untrusted", profile, late)
    <2>2. package' = new /\ UNCHANGED <<trust, profile, late>> /\ MayAttach(response, new)
      BY <2>1 DEF Attach
    <2>3. package \in PackageRecords /\ trust \in ValidSignatures /\ "valid_untrusted" \in ValidSignatures
      BY DEF TypeOK, ValidSignatures
    <2>4. checked.status = "valid" /\ checked.time = "valid_trusted" /\ Report.status = "valid"
      BY <2>2 DEF MayAttach
    <2>5. Report' = ReportOf(new, trust, profile, late)
      BY <2>2 DEF Report
    <2>6. SameBut(checked, ReportOf(new, trust, profile, late), {"signature"})
      BY <2>3, TrustOnlyInSignature
    <2>7. Report'.time = "valid_trusted" /\ Report'.status = "valid"
      <3>1. DOMAIN checked = Parts
        BY ReportParts
      <3> QED
        BY <2>4, <2>5, <2>6, <3>1 DEF SameBut, Parts
    <2>8. HasPlan(package)
      <3>1. package.security = "planned"
        BY <2>2 DEF MayAttach
      <3>2. HasPlan(new)
        BY <2>4, <3>1 DEF ReportOf, Stopped, Full, TimeOf
      <3> QED
        BY <3>1, <3>2, <2>3 DEF HasPlan, PackageRecords
    <2>9. SameBut(Report, Report', {"time", "warnsAbsent"})
      BY <2>3, <2>5, <2>8, StampOnlyInTime DEF Report
    <2> QED
      BY <2>7, <2>9
  <1> QED
    BY <1>1, TypeInvariant, PTL DEF Spec, AttachAddsTime

\* What each layer of a full report may say, by the version of the manifest.
LEMMA LayersByVersion ==
    ASSUME NEW p \in PackageRecords, NEW t \in ValidSignatures, NEW prof \in Profiles, NEW isLate \in BOOLEAN
    PROVE  /\ SignatureOf(p, t) = "not_present" <=> p.version = "0.2"
           /\ TimeOf(p, prof, isLate) = "not_present" <=> p.version \in {"0.2", "0.3"}
           /\ C2paOf(p) = "none" <=> p.version \notin Observing \cup {"other"}
           /\ HasPlan(p) => p.version \in Timed
           /\ Verified(p, t) => p.version \in Signed
  <1>1. p.signature # "not_present" /\ t # "not_present" /\ p.stamp # "not_present" /\ p.version \in Versions
    BY DEF PackageRecords, ValidSignatures, Responses, EarlyFaults
  <1>2. SignatureOf(p, t) = "not_present" <=> p.version = "0.2"
    BY <1>1 DEF SignatureOf
  <1>3. TimeOf(p, prof, isLate) = "not_present" <=> p.version \in {"0.2", "0.3"}
    <2>1. Strict(p.stamp, prof, isLate) # "not_present"
      BY <1>1 DEF Strict
    <2> QED
      BY <2>1 DEF TimeOf
  <1>4. C2paOf(p) = "none" <=> p.version \notin Observing \cup {"other"}
    <2>1. CASE p.version \notin Observing \cup {"other"}
      BY <2>1 DEF C2paOf
    <2>2. CASE p.version \in Observing \cup {"other"}
      <3>1. C2paOf(p) \in {"absent", "observed_invalid", "observed_trusted", "observed_valid_untrusted"}
        BY <2>2 DEF C2paOf
      <3> QED
        BY <2>2, <3>1
    <2> QED
      BY <2>1, <2>2
  <1> QED
    BY <1>2, <1>3, <1>4 DEF HasPlan, Verified

\* A full report says valid only of a package each stage of its version agrees to.
LEMMA ValidMeansVerified ==
    ASSUME NEW p \in PackageRecords, NEW t \in ValidSignatures, NEW prof, NEW isLate,
           Errors(p, t, prof, isLate) = {}
    PROVE  /\ Structural(p) = {}
           /\ p.version # "other"
           /\ p.version # "0.2" => Verified(p, t)
           /\ p.version \in {"0.4", "0.5"} => HasPlan(p)
  <1>1. Structural(p) = {} /\ SignatureErrors(p, t) = {}
    BY DEF Errors
  <1>2. SecurityAllowed(p)
    <2>1. "manifest" \notin Structural(p)
      BY <1>1
    <2> QED
      BY <2>1 DEF Structural
  <1>3. p.version \in Versions /\ p.version # "other"
    BY <1>2 DEF SecurityAllowed, PackageRecords
  <1>4. p.version # "0.2" => Verified(p, t)
    BY <1>1, <1>3 DEF SignatureErrors, Verified, Versions, Signed
  <1>5. p.version \in {"0.4", "0.5"} => HasPlan(p)
    BY <1>2 DEF SecurityAllowed, HasPlan, Timed
  <1> QED
    BY <1>1, <1>3, <1>4, <1>5

\* The only stage that can fault a package of version 0.2 is a structural one.
LEMMA UnsignedFaults ==
    ASSUME NEW p, NEW t, NEW prof, NEW isLate, p.version = "0.2"
    PROVE  Errors(p, t, prof, isLate) = Structural(p)
  <1>1. SignatureErrors(p, t) = {} /\ C2paErrors(p) = {} /\ TimeErrors(p, prof, isLate) = {}
    BY DEF SignatureErrors, C2paErrors, TimeErrors, Signed, Observing
  <1> QED
    BY <1>1 DEF Errors

\* Every report that the verification gives, of any package, at any time, with any
\* snapshot and local record, meets the result schema of the version it states.
THEOREM ReportsMeetSchema == Spec => []MeetsSchema
  <1>1. TypeOK => MeetsSchema
    <2> SUFFICES ASSUME TypeOK PROVE MeetsSchema
      OBVIOUS
    <2> DEFINE r == Report
               errors == Errors(package, trust, profile, late)
    <2>1. /\ package \in PackageRecords /\ trust \in ValidSignatures
          /\ profile \in Profiles /\ late \in BOOLEAN
      BY DEF TypeOK
    <2>2. package.version \in Versions
      BY <2>1 DEF PackageRecords
    <2>3. CASE package.container = "safe" /\ package.manifest # "lost"
      <3>1. r = Full(package, trust, profile, late)
        BY <2>3, Zenon DEF Report, ReportOf
      <3>2. /\ r.version = IF package.version = "other" THEN "1.0" ELSE package.version
            /\ r.status = IF errors = {} THEN "valid" ELSE "invalid"
            /\ r.integrity = IF Structural(package) = {} THEN "valid" ELSE "invalid"
            /\ r.identity = IF Verified(package, trust) THEN "self_asserted" ELSE "not_verified"
            /\ r.signature = SignatureOf(package, trust) /\ r.creator = Verified(package, trust)
            /\ r.time = TimeOf(package, profile, late) /\ r.evidence = HasPlan(package)
            /\ r.c2pa = C2paOf(package) /\ r.errors = errors
        BY <3>1 DEF Full
      <3>3. /\ SignatureOf(package, trust) = "not_present" <=> package.version = "0.2"
            /\ TimeOf(package, profile, late) = "not_present" <=> package.version \in {"0.2", "0.3"}
            /\ C2paOf(package) = "none" <=> package.version \notin Observing \cup {"other"}
            /\ HasPlan(package) => package.version \in Timed
            /\ Verified(package, trust) => package.version \in Signed
        BY <2>1, LayersByVersion
      <3>4. errors = {} =>
              /\ Structural(package) = {} /\ package.version # "other"
              /\ package.version # "0.2" => Verified(package, trust)
              /\ package.version \in {"0.4", "0.5"} => HasPlan(package)
        BY <2>1, ValidMeansVerified
      <3>5. package.version = "0.2" => errors = Structural(package)
        BY UnsignedFaults
      <3>6. Verified(package, trust) => SignatureOf(package, trust) \in ValidSignatures
        BY DEF Verified
      <3> HIDE DEF r, errors
      <3>7. r.version # "other" /\ (r.version = "0.2" <=> package.version = "0.2")
        BY <3>2
      <3>8. r.version = "0.2" => r.identity = "not_verified" /\ r.signature = "not_present" /\ ~r.creator
        BY <3>2, <3>3, <3>7 DEF Signed
      <3>9. /\ r.version # "0.2" => r.signature # "not_present"
            /\ r.version \in {"0.2", "0.3"} <=> r.time = "not_present"
            /\ r.version \in {"0.2", "0.3"} => ~r.evidence
        BY <3>2, <3>3, <3>7 DEF Timed
      <3>10. r.version \in Observing <=> r.c2pa # "none"
        BY <3>2, <3>3 DEF Observing
      <3>11. r.status = "valid" =>
               /\ r.integrity = "valid" /\ r.errors = {}
               /\ r.version # "0.2" => r.identity = "self_asserted" /\ r.signature \in ValidSignatures /\ r.creator
               /\ r.version \in {"0.4", "0.5"} => r.evidence
        BY <3>2, <3>4, <3>6, <3>7
      <3>12. r.status = "invalid" => r.errors # {} /\ (r.version = "0.2" => r.integrity = "invalid")
        BY <3>2, <3>5, <3>7
      <3>13. r.status # "error"
        BY <3>2
      <3> QED
        BY <3>7, <3>8, <3>9, <3>10, <3>11, <3>12, <3>13 DEF MeetsSchema, r
    <2>4. CASE ~(package.container = "safe" /\ package.manifest # "lost")
      <3>1. PICK stage \in {"container", "manifest"}, status \in {"error", "invalid"} :
                r = Stopped(stage, status)
        BY <2>1, <2>4 DEF Report, ReportOf, PackageRecords
      <3>2. /\ r.version = "1.0" /\ r.status = status
            /\ r.integrity = IF status = "error" THEN "not_evaluated" ELSE "invalid"
            /\ r.signature = "absent" /\ r.time = "absent" /\ ~r.evidence /\ r.c2pa = "absent"
            /\ r.errors = {stage}
        BY <3>1 DEF Stopped
      <3> HIDE DEF r
      <3>3. r.errors # {}
        BY <3>2
      <3>4. r.version \in Observing /\ r.version # "other"
        BY <3>2 DEF Observing
      <3>5. r.version \notin {"0.2", "0.3", "0.4", "0.5"} /\ r.status # "valid"
        BY <3>2
      <3>6. r.time # "not_present" /\ r.signature # "not_present" /\ r.c2pa # "none"
        BY <3>2
      <3>7. r.status = "error" => r.integrity = "not_evaluated"
        BY <3>2
      <3> QED
        BY <3>3, <3>4, <3>5, <3>6, <3>7 DEF MeetsSchema, r
    <2> QED
      BY <2>3, <2>4
  <1> QED
    BY <1>1, TypeInvariant, PTL

-----------------------------------------------------------------------------
(* The local signer.                                                        *)

\* A key that no call has stored yet: it is nowhere but in its own call.
Unborn(c) ==
    /\ c \notin retired
    /\ stored.key # c
    /\ \A d \in Calls : call[d].read.key # c

Fresh == \A c \in Calls : call[c].at \in {"idle", "loaded"} => Unborn(c)

\* A call that goes on after its load got a record it accepts.
Accepted == \A c \in Calls :
    /\ call[c].at = "loaded" => call[c].kind \in Kinds \ {"trust"}
    /\ call[c].at = "loaded" /\ call[c].kind = "disable" => call[c].read.state = "active"
    /\ call[c].at = "loaded" /\ call[c].kind \in Writers => call[c].key = call[c].read.key

\* While a writer is alone, no other is under way.
Alone == \A c \in alone :
    /\ call[c].kind \in Writers
    /\ call[c].at # "idle"
    /\ \A d \in Calls : UnderWay(d) /\ IsWriter(d) => d = c

\* A seal that is under way holds a key that was not retired when it began.
SealUnderWay == \A c \in Calls :
    call[c].kind = "seal" /\ call[c].at = "loaded" => call[c].key \notin call[c].barred

SignerInv == SignerTypeOK /\ Fresh /\ Accepted /\ RetiredStaysRetired /\ SealUnderWay /\ RetiredNotUsed
        /\ Alone /\ AnswerHolds

\* What a record of the store looks like.
LEMMA RecordFacts ==
    /\ \A r \in Records : r.state \in {"missing", "active", "disabled"} /\ r.key \in Keys \cup {None}
    /\ \A r \in Records : r.state # "missing" => r.key \in Keys
    /\ \A r \in Records : r # Missing => r.state \in {"active", "disabled"}
    /\ \A r \in Records : r.state = "active" => r = Active(r.key)
    /\ \A k \in Keys : Active(k) \in Records /\ Disabled(k) \in Records
    /\ Missing \in Records
  <1>1. \A k \in Keys : Active(k) \in Records /\ Disabled(k) \in Records
    BY DEF Records
  <1>2. Missing \in Records
    BY DEF Records
  <1> SUFFICES ASSUME NEW r \in Records
               PROVE  /\ r.state \in {"missing", "active", "disabled"} /\ r.key \in Keys \cup {None}
                      /\ r.state # "missing" => r.key \in Keys
                      /\ r # Missing => r.state \in {"active", "disabled"}
                      /\ r.state = "active" => r = Active(r.key)
    BY <1>1, <1>2
  <1>3. CASE r = Missing
    BY <1>3 DEF Missing
  <1>4. ASSUME NEW k \in Keys, r = Active(k)
        PROVE  r.state = "active" /\ r.key = k
    BY <1>4 DEF Active
  <1>5. ASSUME NEW k \in Keys, r = Disabled(k)
        PROVE  r.state = "disabled" /\ r.key = k
    BY <1>5 DEF Disabled
  <1> QED
    BY <1>3, <1>4, <1>5 DEF Records

LEMMA SignerInitHolds == SignerInit => SignerInv
  <1> SUFFICES ASSUME SignerInit PROVE SignerInv
    OBVIOUS
  <1>1. SignerTypeOK
    <2>1. stored \in Records
      BY DEF SignerInit, Records, Missing, Active, Disabled, Keys
    <2>2. NotCalled \in CallRecords
      BY DEF NotCalled, CallRecords, Places, Records
    <2> QED
      BY <2>1, <2>2 DEF SignerInit, SignerTypeOK, Keys
  <1>2. Fresh
    BY CallsAssumption DEF SignerInit, Fresh, Unborn, NotCalled, Missing, Active, Disabled
  <1>3. RetiredStaysRetired
    BY DEF SignerInit, RetiredStaysRetired, Missing, Active, Disabled
  <1>4. Accepted /\ SealUnderWay /\ RetiredNotUsed
    BY DEF SignerInit, Accepted, SealUnderWay, RetiredNotUsed, Trust, NotCalled
  <1>5. Alone /\ AnswerHolds
    BY DEF SignerInit, Alone, AnswerHolds
  <1> QED
    BY <1>1, <1>2, <1>3, <1>4, <1>5 DEF SignerInv

(***************************************************************************)
(* The load.                                                                *)
(***************************************************************************)
LEMMA LoadsKeeps ==
    ASSUME SignerInv, NEW c \in Calls, NEW kind \in Kinds, NEW k \in Keys, NEW at \in Places,
           Loads(c, kind, k, at)
    PROVE  SignerInv'
  <1> DEFINE new == [kind |-> kind, at |-> at, read |-> stored,
                     key |-> IF kind = "trust" THEN k ELSE stored.key, barred |-> retired]
  <1>1. /\ call' = [call EXCEPT ![c] = new]
        /\ call[c].at = "idle"
        /\ stored' = stored /\ retired' = retired
    BY DEF Loads
  <1>2. SignerTypeOK /\ stored \in Records /\ call \in [Calls -> CallRecords] /\ retired \subseteq Keys
    BY DEF SignerInv, SignerTypeOK
  <1>3. new \in CallRecords
    BY <1>2, RecordFacts DEF CallRecords
  <1>4. call' \in [Calls -> CallRecords] /\ call'[c] = new /\ \A d \in Calls : d # c => call'[d] = call[d]
    BY <1>1, <1>2, <1>3
  <1>5. at # "failed" => at = Outcome(kind)
    BY DEF Loads
  <1>6. at = "loaded" => /\ kind \in Kinds \ {"trust"}
                         /\ kind = "disable" => stored.state = "active"
                         /\ kind = "seal" => stored.state = "active"
    BY <1>2, <1>5, RecordFacts DEF Outcome, Accepts, Kinds
  <1>7. SignerTypeOK'
    BY <1>1, <1>2, <1>4 DEF SignerTypeOK, Loads
  <1>8. Fresh'
    <2> SUFFICES ASSUME NEW d \in Calls, call'[d].at \in {"idle", "loaded"} PROVE Unborn(d)'
      BY DEF Fresh
    <2>1. Unborn(d)
      BY <1>1, <1>4 DEF SignerInv, Fresh
    <2>2. \A e \in Calls : call'[e].read.key # d
      BY <2>1, <1>4 DEF Unborn
    <2> QED
      BY <2>1, <2>2, <1>1 DEF Unborn
  <1>9. Accepted'
    BY <1>4, <1>6 DEF SignerInv, Accepted, Kinds, Writers
  <1>10. RetiredStaysRetired'
    BY <1>1 DEF SignerInv, RetiredStaysRetired
  <1>11. SealUnderWay'
    BY <1>4, <1>6 DEF SignerInv, SealUnderWay, RetiredStaysRetired
  <1>12. RetiredNotUsed'
    <2>1. kind = "seal" => at # "ok"
      BY <1>5 DEF Outcome
    <2>2. kind = "trust" /\ Trust(c)' = "trusted" => k \notin retired
      <3> SUFFICES ASSUME kind = "trust", Trust(c)' = "trusted" PROVE k \notin retired
        OBVIOUS
      <3>1. new.at = "ok" /\ new.read.key = new.key /\ new.read.state # "disabled"
        BY <1>4 DEF Trust
      <3>2. stored.key = k /\ stored.state # "disabled"
        BY <3>1
      <3>3. stored.state = "active"
        BY <3>2, <1>2, CallsAssumption DEF Records, Missing, Active, Disabled, Keys
      <3> QED
        BY <3>2, <3>3 DEF SignerInv, RetiredStaysRetired
    <2> SUFFICES ASSUME NEW d \in Calls
                 PROVE  /\ call'[d].kind = "seal" /\ call'[d].at = "ok" => call'[d].key \notin call'[d].barred
                        /\ call'[d].kind = "trust" /\ Trust(d)' = "trusted" => call'[d].key \notin call'[d].barred
      BY DEF RetiredNotUsed
    <2>3. CASE d = c
      BY <2>1, <2>2, <2>3, <1>4
    <2>4. CASE d # c
      BY <2>4, <1>4 DEF SignerInv, RetiredNotUsed, Trust
    <2> QED
      BY <2>3, <2>4
  <1>13. c \notin alone
    BY <1>1 DEF SignerInv, Alone
  <1>14. CASE kind \in Writers /\ at = "loaded"
    <2>1. alone' = {} \/ (alone' = {c} /\ \A d \in Calls : ~(IsWriter(d) /\ UnderWay(d)))
      BY <1>14 DEF Loads
    <2>2. Alone'
      BY <2>1, <1>4, <1>14 DEF Alone, IsWriter, UnderWay
    <2>3. AnswerHolds'
      BY <2>1, <1>4, <1>14 DEF AnswerHolds
    <2> QED
      BY <1>7, <1>8, <1>9, <1>10, <1>11, <1>12, <2>2, <2>3 DEF SignerInv
  <1>15. CASE ~(kind \in Writers /\ at = "loaded")
    <2>1. alone' = alone
      BY <1>15 DEF Loads
    <2>2. \A d \in alone : d # c /\ d \in Calls /\ call'[d] = call[d]
      BY <1>2, <1>4, <1>13 DEF SignerTypeOK
    <2>3. Alone'
      BY <2>1, <2>2, <1>4, <1>15 DEF SignerInv, Alone, IsWriter, UnderWay
    <2>4. AnswerHolds'
      BY <2>1, <2>2, <1>1 DEF SignerInv, AnswerHolds
    <2> QED
      BY <1>7, <1>8, <1>9, <1>10, <1>11, <1>12, <2>3, <2>4 DEF SignerInv
  <1> QED
    BY <1>14, <1>15

(***************************************************************************)
(* The steps after it.                                                      *)
(***************************************************************************)
\* What every call keeps when one that is under way ends without a store.
LEMMA EndsKeeps ==
    ASSUME SignerInv, NEW c \in Calls, NEW at \in {"ok", "failed", "killed"}, UnderWay(c),
           IsWriter(c) => at # "ok",
           call' = [call EXCEPT ![c].at = at], UNCHANGED <<stored, retired, alone>>
    PROVE  SignerInv'
  <1>1. SignerTypeOK /\ call \in [Calls -> CallRecords]
    BY DEF SignerInv, SignerTypeOK
  <1>2. call[c].at = "loaded"
    BY DEF UnderWay
  <1>3. /\ call' \in [Calls -> CallRecords]
        /\ call'[c].at = at /\ call'[c].kind = call[c].kind /\ call'[c].read = call[c].read
        /\ call'[c].key = call[c].key /\ call'[c].barred = call[c].barred
        /\ \A d \in Calls : d # c => call'[d] = call[d]
    BY <1>1 DEF CallRecords, Places
  <1>4. SignerTypeOK'
    BY <1>1, <1>3 DEF SignerTypeOK
  <1>5. Fresh'
    BY <1>2, <1>3 DEF SignerInv, Fresh, Unborn
  <1>6. Accepted' /\ SealUnderWay'
    BY <1>2, <1>3 DEF SignerInv, Accepted, SealUnderWay
  <1>7. RetiredStaysRetired'
    BY DEF SignerInv, RetiredStaysRetired
  <1>8. RetiredNotUsed'
    <2>1. call[c].kind # "trust"
      BY <1>2 DEF SignerInv, Accepted, Kinds
    <2> QED
      BY <2>1, <1>2, <1>3 DEF SignerInv, RetiredNotUsed, SealUnderWay, Trust
  <1>9. Alone'
    BY <1>1, <1>2, <1>3 DEF SignerInv, Alone, UnderWay, IsWriter, SignerTypeOK
  <1>10. AnswerHolds'
    BY <1>1, <1>3 DEF SignerInv, AnswerHolds, Alone, IsWriter, SignerTypeOK
  <1> QED
    BY <1>4, <1>5, <1>6, <1>7, <1>8, <1>9, <1>10 DEF SignerInv

LEMMA StoresKeeps ==
    ASSUME SignerInv, NEW c \in Calls, Stores(c)
    PROVE  SignerInv'
  <1>1. PICK at \in {"ok", "failed", "killed"} : call' = [call EXCEPT ![c].at = at]
    BY DEF Stores
  <1>2. SignerTypeOK /\ call \in [Calls -> CallRecords] /\ stored \in Records /\ retired \subseteq Keys
    BY DEF SignerInv, SignerTypeOK
  <1>3. /\ call[c].at = "loaded" /\ call[c].kind \in Writers
        /\ alone' = alone
        /\ stored' = Written(c)
        /\ retired' = IF stored.state = "active" /\ stored # Written(c)
                      THEN retired \cup {stored.key} ELSE retired
    BY DEF Stores, UnderWay, IsWriter, Put
  <1>4. /\ call' \in [Calls -> CallRecords]
        /\ call'[c].at = at /\ call'[c].kind = call[c].kind /\ call'[c].read = call[c].read
        /\ call'[c].key = call[c].key /\ call'[c].barred = call[c].barred
        /\ \A d \in Calls : d # c => call'[d] = call[d]
    BY <1>1, <1>2 DEF CallRecords, Places
  <1>5. call[c].read \in Records
    BY <1>2 DEF CallRecords
  <1>6. Unborn(c)
    BY <1>3 DEF SignerInv, Fresh
  <1>7. \/ call[c].kind = "disable" /\ Written(c) = Disabled(call[c].read.key) /\ call[c].read.key \in Keys
        \/ call[c].kind # "disable" /\ Written(c) = Active(c)
    BY <1>3, <1>5, RecordFacts DEF SignerInv, Accepted, Written
  <1>8. Written(c) \in Records
    BY <1>7, RecordFacts DEF Keys
  <1>9. SignerTypeOK'
    <2>1. stored.state = "active" => stored.key \in Keys
      BY <1>2, RecordFacts
    <2> QED
      BY <2>1, <1>2, <1>3, <1>4, <1>8 DEF SignerTypeOK
  <1>10. Fresh'
    <2> SUFFICES ASSUME NEW d \in Calls, call'[d].at \in {"idle", "loaded"} PROVE Unborn(d)'
      BY DEF Fresh
    <2>1. d # c /\ Unborn(d)
      BY <1>3, <1>4 DEF SignerInv, Fresh
    <2>2. stored'.key # d
      BY <2>1, <1>3, <1>7 DEF Unborn, Active, Disabled
    <2>3. d \notin retired'
      BY <2>1, <1>3 DEF Unborn
    <2>4. \A e \in Calls : call'[e].read.key # d
      BY <2>1, <1>4 DEF Unborn
    <2> QED
      BY <2>2, <2>3, <2>4 DEF Unborn
  <1>11. Accepted' /\ SealUnderWay'
    BY <1>4 DEF SignerInv, Accepted, SealUnderWay
  <1>12. RetiredStaysRetired'
    <2>1. CASE call[c].kind = "disable"
      BY <2>1, <1>3, <1>7 DEF RetiredStaysRetired, Disabled
    <2>2. CASE call[c].kind # "disable"
      BY <2>2, <1>3, <1>6, <1>7 DEF RetiredStaysRetired, Active, Unborn
    <2> QED
      BY <2>1, <2>2
  <1>13. RetiredNotUsed'
    <2>1. call[c].kind \notin {"seal", "trust"}
      BY <1>3 DEF Writers
    <2> QED
      BY <2>1, <1>4 DEF SignerInv, RetiredNotUsed, Trust
  <1>14. \A d \in alone : d = c
    BY <1>3 DEF SignerInv, Alone, UnderWay, IsWriter
  <1>15. Alone'
    BY <1>2, <1>3, <1>4, <1>14 DEF SignerInv, Alone, UnderWay, IsWriter, SignerTypeOK
  <1>16. AnswerHolds'
    <2>1. call[c].key = call[c].read.key
      BY <1>3 DEF SignerInv, Accepted
    <2> QED
      BY <2>1, <1>3, <1>4, <1>7, <1>14 DEF AnswerHolds
  <1> QED
    BY <1>9, <1>10, <1>11, <1>12, <1>13, <1>15, <1>16 DEF SignerInv

LEMMA SignerStepKeeps == SignerInv /\ [SignerNext]_signerVars => SignerInv'
  <1> SUFFICES ASSUME SignerInv, [SignerNext]_signerVars PROVE SignerInv'
    OBVIOUS
  <1>1. ASSUME NEW c \in Calls, NEW kind \in Kinds, NEW k \in Keys, NEW at \in Places,
               Loads(c, kind, k, at)
        PROVE  SignerInv'
    BY <1>1, LoadsKeeps
  <1>2. ASSUME NEW c \in Calls, Stores(c) PROVE SignerInv'
    BY <1>2, StoresKeeps
  <1>3. ASSUME NEW c \in Calls, NotStored(c) PROVE SignerInv'
    BY <1>3, EndsKeeps DEF NotStored
  <1>4. ASSUME NEW c \in Calls, Signs(c) PROVE SignerInv'
    <2>1. ~IsWriter(c) /\ UnderWay(c)
      BY <1>4 DEF Signs, IsWriter, Writers
    <2> QED
      BY <2>1, <1>4, EndsKeeps DEF Signs
  <1>5. CASE UNCHANGED signerVars
    BY <1>5 DEF signerVars, SignerInv, SignerTypeOK, Fresh, Unborn, Accepted, Alone, SealUnderWay, RetiredStaysRetired,
                RetiredNotUsed, Trust, AnswerHolds, UnderWay, IsWriter
  <1> QED
    BY <1>1, <1>2, <1>3, <1>4, <1>5 DEF SignerNext

\* SignerInv is an inductive invariant of the local signer.
THEOREM SignerInductive == SignerSpec => []SignerInv
  BY SignerInitHolds, SignerStepKeeps, PTL DEF SignerSpec

\* Whatever calls interleave, a key that was replaced or disabled is never the
\* active key again.
THEOREM RetirementIsFinal == SignerSpec => []RetiredStaysRetired
  BY SignerInductive, PTL DEF SignerInv

\* No seal and no verification that begins later uses it.
THEOREM RetiredKeysUnused == SignerSpec => []RetiredNotUsed
  BY SignerInductive, PTL DEF SignerInv

\* A writer's answer holds until another writer begins.
THEOREM AnswersHold == SignerSpec => []AnswerHolds
  BY SignerInductive, PTL DEF SignerInv

-----------------------------------------------------------------------------
(* The official identity.                                                   *)

Revoked(n) == statuses[n].entry.state = "revoked"

\* The times of the status snapshots never go back.
Ordered ==
    /\ \A n \in DOMAIN statuses : statuses[n].generated <= now
    /\ \A m, n \in DOMAIN statuses : m <= n => statuses[m].generated <= statuses[n].generated

\* A revocation that was published is not taken back.
EntryFinal == \A m \in DOMAIN statuses : Revoked(m) =>
    /\ entry.state = "revoked"
    /\ \A n \in DOMAIN statuses : m <= n => statuses[n].entry.state # "valid"
KeyFinal == \A m \in DOMAIN trusts : trusts[m] = "revoked" =>
    /\ key = "revoked"
    /\ \A n \in DOMAIN trusts : m <= n => trusts[n] = "revoked"

\* What was found valid was so by a snapshot that was fresh at the time asked about.
FoundFresh == valid # NotFoundValid =>
    \E s \in DOMAIN statuses : /\ statuses[s].entry.state = "valid"
                               /\ valid.at <= statuses[s].generated + MaxAge

\* What the keeping caller was told is within the floors it keeps.
ToldKept == told =>
    \/ \E m \in DOMAIN trusts : m <= floors.trust /\ trusts[m] = "revoked"
    \/ \E m \in DOMAIN statuses : m <= floors.status /\ Revoked(m)

EntrySet == [state : {"valid", "revoked", "expired"}, since : Nat]
ListedSet == [state : {"valid", "revoked", "expired", "absent"}, since : Nat]
StatusSet == [generated : Nat, entry : ListedSet]

Types ==
    /\ now \in Nat
    /\ entry \in EntrySet
    /\ key \in KeyStates
    /\ statuses \in Seq(StatusSet)
    /\ trusts \in Seq(KeyStates)
    /\ floors \in [trust : Nat, status : Nat]
    /\ told \in BOOLEAN
    /\ valid \in [by : {"keeper", "page", "nobody"}, at : Nat]

IdentityInv == Types /\ Ordered /\ EntryFinal /\ KeyFinal /\ FoundFresh /\ ToldKept /\ NeverTrustedAgain

LEMMA Constants ==
    /\ MaxTime \in Nat /\ MaxSnapshots \in Nat /\ MaxAge \in Nat /\ Skew \in Nat
    /\ Issued \in Nat /\ Expires \in Nat /\ KeyUntil \in Nat
  BY TimesAssumption

LEMMA LastOrBefore == \A k \in Nat : \A n \in 1..(k + 1) : n = k + 1 \/ (n \in 1..k /\ n < k + 1)
  OBVIOUS

\* What the types say of a snapshot.
LEMMA Snapshots ==
    ASSUME Types
    PROVE  /\ Len(statuses) \in Nat /\ DOMAIN statuses = 1..Len(statuses)
           /\ Len(trusts) \in Nat /\ DOMAIN trusts = 1..Len(trusts)
           /\ \A n \in DOMAIN statuses : /\ statuses[n].generated \in Nat
                /\ statuses[n].entry.state \in {"valid", "revoked", "expired", "absent"}
  <1>1. /\ Len(statuses) \in Nat /\ DOMAIN statuses = 1..Len(statuses)
        /\ Len(trusts) \in Nat /\ DOMAIN trusts = 1..Len(trusts)
    BY DEF Types
  <1>2. \A n \in DOMAIN statuses : statuses[n] \in StatusSet
    BY <1>1 DEF Types
  <1> QED
    BY <1>1, <1>2 DEF StatusSet, ListedSet

LEMMA IdentityInitHolds == IdentityInit => IdentityInv
  <1> SUFFICES ASSUME IdentityInit PROVE IdentityInv
    OBVIOUS
  <1>0. <<"active">> \in Seq(KeyStates)
    BY DEF KeyStates
  <1>1. entry \in EntrySet
    BY DEF IdentityInit, EntrySet
  <1>5. Types
    <2>1. statuses \in Seq(StatusSet) /\ trusts \in Seq(KeyStates)
      BY <1>0 DEF IdentityInit
    <2> QED
      BY <1>1, <2>1 DEF IdentityInit, Types, KeyStates, NotFoundValid
  <1>2. Ordered /\ EntryFinal
    BY DEF IdentityInit, Ordered, EntryFinal
  <1>3. KeyFinal
    BY DEF IdentityInit, KeyFinal
  <1>4. FoundFresh /\ ToldKept /\ NeverTrustedAgain
    BY DEF IdentityInit, FoundFresh, ToldKept, NeverTrustedAgain, NotFoundValid
  <1> QED
    BY <1>2, <1>3, <1>4, <1>5 DEF IdentityInv

\* What a decision rests on: the snapshots it says valid, or revoked, by.
LEMMA DecisionRestsOn ==
    ASSUME Types, NEW i \in Inputs, NEW floor \in [trust : Nat, status : Nat]
    PROVE  /\ Decision(i, floor) \in {"valid_trusted", "revoked"} =>
                /\ i.trust >= floor.trust /\ trusts[i.trust] # "revoked"
                /\ i.status \in DOMAIN statuses /\ i.status >= floor.status
           /\ Decision(i, floor) = "valid_trusted" =>
                /\ statuses[i.status].entry.state = "valid"
                /\ i.at <= statuses[i.status].generated + MaxAge
           /\ Decision(i, floor) = "revoked" => Revoked(i.status)
           /\ KeyRevoked(i, Decision(i, floor)) =>
                i.trust >= floor.trust /\ trusts[i.trust] = "revoked"
  <1> DEFINE d == Decision(i, floor)
             s == StatusState(i.status, i.fault, i.at, floor.status, i.previous)
             t == TrustState(i.trust, i.at, floor.trust)
             a == AttestationState(i.fault, i.at)
  <1>01. /\ DOMAIN statuses = 1..Len(statuses) /\ Len(statuses) \in Nat
         /\ DOMAIN trusts = 1..Len(trusts) /\ Len(trusts) \in Nat
    BY Snapshots
  <1>02. /\ i.trust \in 1..Len(trusts) /\ i.status \in 0..Len(statuses)
         /\ i.at \in 0..(MaxTime + 1) /\ i.previous \in 0..Len(statuses)
    BY DEF Inputs, Asked
  <1>0. /\ i.trust \in 1..Len(trusts) /\ i.status \in 0..Len(statuses)
        /\ i.at \in Nat /\ i.previous \in Nat
        /\ DOMAIN statuses = 1..Len(statuses) /\ Len(statuses) \in Nat
        /\ DOMAIN trusts = 1..Len(trusts) /\ Len(trusts) \in Nat
        /\ floor.trust \in Nat /\ floor.status \in Nat
    BY <1>01, <1>02, Constants
  <1>1. t \in {"refused", "untrusted", "accepted"}
        /\ (t # "refused" => i.trust >= floor.trust)
        /\ (t = "accepted" => trusts[i.trust] # "revoked")
        /\ (trusts[i.trust] = "revoked" => t \in {"refused", "untrusted"})
    BY <1>0 DEF TrustState, RolledBack
  <1>2. a \in {"refused", "expired", "untrusted", "accepted"}
    BY DEF AttestationState
  <1>3. d = IF t # "accepted" THEN t ELSE IF a # "accepted" THEN a ELSE s
    BY DEF Decision
  <1>4. s \in {"valid_trusted", "revoked"} => i.status # 0 /\ ~RolledBack(i.status, floor.status)
    BY DEF StatusState
  <1>5. i.status # 0 => /\ i.status \in DOMAIN statuses
                        /\ statuses[i.status].entry.state \in {"valid", "revoked", "expired", "absent"}
                        /\ statuses[i.status].generated \in Nat
    BY <1>0, Snapshots
  <1>6. s = "revoked" => Revoked(i.status)
    BY <1>4, <1>5 DEF StatusState, Revoked
  <1>7. s = "valid_trusted" => /\ statuses[i.status].entry.state = "valid"
                               /\ ~Stale(statuses[i.status].generated, i.at)
    BY <1>4, <1>5 DEF StatusState
  <1>8. ~RolledBack(i.status, floor.status) => i.status >= floor.status
    BY <1>0 DEF RolledBack
  <1>9. i.status # 0 /\ ~Stale(statuses[i.status].generated, i.at)
          => i.at <= statuses[i.status].generated + MaxAge
    BY <1>0, <1>5, Constants DEF Stale
  <1>10. d \in {"valid_trusted", "revoked"} => d = s /\ t = "accepted"
    BY <1>1, <1>2, <1>3
  <1>11. KeyRevoked(i, d) => i.trust >= floor.trust /\ trusts[i.trust] = "revoked"
    BY <1>1, <1>3 DEF KeyRevoked
  <1> QED
    BY <1>1, <1>4, <1>5, <1>6, <1>7, <1>8, <1>9, <1>10, <1>11

\* The issuer's steps leave the decisions alone.
LEMMA IssuerKeeps ==
    ASSUME IdentityInv,
           \/ Tick
           \/ \E state \in {"revoked", "expired"} : Ends(state)
           \/ \E state \in {"retired", "revoked"} : KeyEnds(state)
    PROVE  IdentityInv'
  <1>1. /\ UNCHANGED <<statuses, trusts, floors, told, valid>>
        /\ now' \in Nat /\ now' >= now
        /\ entry' \in EntrySet
        /\ entry.state = "revoked" => entry' = entry
        /\ key' \in KeyStates
        /\ key = "revoked" => key' = key
    <2>1. now \in Nat /\ entry \in EntrySet /\ key \in KeyStates
      BY DEF IdentityInv, Types
    <2>2. CASE Tick
      BY <2>1, <2>2 DEF Tick
    <2>3. ASSUME NEW state \in {"revoked", "expired"}, Ends(state)
          PROVE  /\ UNCHANGED <<now, key, statuses, trusts, floors, told, valid>>
                 /\ entry.state = "valid" /\ entry' \in EntrySet
      BY <2>1, <2>3 DEF Ends, EntrySet
    <2>4. ASSUME NEW state \in {"retired", "revoked"}, KeyEnds(state)
          PROVE  /\ UNCHANGED <<now, entry, statuses, trusts, floors, told, valid>>
                 /\ key # "revoked" /\ key' \in KeyStates
      BY <2>1, <2>4 DEF KeyEnds, KeyStates
    <2> QED
      BY <2>1, <2>2, <2>3, <2>4
  <1>2. Types'
    BY <1>1 DEF IdentityInv, Types
  <1>3. Ordered'
    BY <1>1, Snapshots DEF IdentityInv, Types, Ordered
  <1>4. EntryFinal'
    BY <1>1 DEF IdentityInv, EntryFinal, Revoked
  <1>5. KeyFinal'
    BY <1>1 DEF IdentityInv, KeyFinal
  <1>6. FoundFresh' /\ ToldKept' /\ NeverTrustedAgain'
    BY <1>1 DEF IdentityInv, FoundFresh, ToldKept, NeverTrustedAgain, Revoked
  <1> QED
    BY <1>2, <1>3, <1>4, <1>5, <1>6 DEF IdentityInv

\* A new status snapshot is of this time, and of what is held now.
LEMMA StatusKeeps ==
    ASSUME IdentityInv, NEW e \in {entry, Absent}, PublishStatus(e)
    PROVE  IdentityInv'
  <1> DEFINE new == [generated |-> now, entry |-> e]
             last == Len(statuses) + 1
  <1>1. /\ UNCHANGED <<now, entry, key, trusts, floors, told, valid>>
        /\ statuses' = Append(statuses, new)
    BY DEF PublishStatus
  <1>2. new \in StatusSet
    <2>1. entry \in EntrySet /\ now \in Nat
      BY DEF IdentityInv, Types
    <2>2. e \in ListedSet
      BY <2>1 DEF EntrySet, ListedSet, Absent
    <2> QED
      BY <2>1, <2>2 DEF StatusSet
  <1> HIDE DEF new
  <1>3. Types'
    BY <1>1, <1>2 DEF IdentityInv, Types
  <1>4. /\ DOMAIN statuses = 1..Len(statuses) /\ Len(statuses) \in Nat
        /\ DOMAIN statuses' = 1..last
        /\ \A n \in DOMAIN statuses : statuses'[n] = statuses[n]
        /\ statuses'[last] = new
    BY <1>1, <1>2, AppendProperties DEF IdentityInv, Types
  <1>5. \A n \in DOMAIN statuses' : n = last \/ (n \in DOMAIN statuses /\ n < last)
    BY <1>4, LastOrBefore
  <1>6. \A n \in DOMAIN statuses : statuses[n].generated \in Nat
    BY Snapshots DEF IdentityInv
  <1>7. Ordered'
    BY <1>1, <1>4, <1>5, <1>6 DEF IdentityInv, Types, Ordered, new
  <1>8. EntryFinal'
    BY <1>1, <1>4, <1>5 DEF IdentityInv, EntryFinal, Revoked, Absent, new
  <1>9. KeyFinal'
    BY <1>1 DEF IdentityInv, KeyFinal
  <1>10. FoundFresh'
    BY <1>1, <1>4 DEF IdentityInv, FoundFresh
  <1>11. ToldKept'
    BY <1>1, <1>4 DEF IdentityInv, ToldKept, Revoked
  <1>12. NeverTrustedAgain'
    BY <1>1 DEF IdentityInv, NeverTrustedAgain
  <1> QED
    BY <1>3, <1>7, <1>8, <1>9, <1>10, <1>11, <1>12 DEF IdentityInv

LEMMA TrustKeeps ==
    ASSUME IdentityInv, PublishTrust
    PROVE  IdentityInv'
  <1> DEFINE last == Len(trusts) + 1
  <1>1. /\ UNCHANGED <<now, entry, key, statuses, floors, told, valid>>
        /\ trusts' = Append(trusts, key)
    BY DEF PublishTrust
  <1>2. Types'
    BY <1>1 DEF IdentityInv, Types
  <1>3. /\ DOMAIN trusts = 1..Len(trusts) /\ Len(trusts) \in Nat
        /\ DOMAIN trusts' = 1..last
        /\ \A n \in DOMAIN trusts : trusts'[n] = trusts[n]
        /\ trusts'[last] = key
    BY <1>1, AppendProperties DEF IdentityInv, Types
  <1>4. \A n \in DOMAIN trusts' : n = last \/ (n \in DOMAIN trusts /\ n < last)
    BY <1>3, LastOrBefore
  <1>5. KeyFinal'
    BY <1>1, <1>3, <1>4 DEF IdentityInv, KeyFinal
  <1>6. Ordered' /\ EntryFinal' /\ FoundFresh' /\ NeverTrustedAgain'
    BY <1>1 DEF IdentityInv, Ordered, EntryFinal, FoundFresh, NeverTrustedAgain, Revoked
  <1>7. ToldKept'
    BY <1>1, <1>3 DEF IdentityInv, ToldKept, Revoked
  <1> QED
    BY <1>2, <1>5, <1>6, <1>7 DEF IdentityInv

LEMMA PageKeeps ==
    ASSUME IdentityInv, NEW i \in Inputs, VerifyByPage(i)
    PROVE  IdentityInv'
  <1> DEFINE d == Decision(i, [trust |-> 1, status |-> 1])
  <1>1. UNCHANGED <<now, entry, key, statuses, trusts, floors, told>>
    BY DEF VerifyByPage
  <1>2. i.at \in Nat
    BY Constants DEF Inputs, Asked
  <1>3. valid' = IF d = "valid_trusted" THEN [by |-> "page", at |-> i.at] ELSE NotFoundValid
    BY DEF VerifyByPage, Finding
  <1>4. Types'
    BY <1>1, <1>2, <1>3 DEF IdentityInv, Types, NotFoundValid
  <1>5. d = "valid_trusted" => /\ i.status \in DOMAIN statuses
                               /\ statuses[i.status].entry.state = "valid"
                               /\ i.at <= statuses[i.status].generated + MaxAge
    <2>1. [trust |-> 1, status |-> 1] \in [trust : Nat, status : Nat]
      OBVIOUS
    <2> HIDE DEF d
    <2> QED
      BY <2>1, DecisionRestsOn DEF IdentityInv, d
  <1>6. FoundFresh'
    BY <1>1, <1>3, <1>5 DEF FoundFresh
  <1>7. NeverTrustedAgain'
    BY <1>3 DEF NeverTrustedAgain, NotFoundValid
  <1>8. Ordered' /\ EntryFinal' /\ KeyFinal' /\ ToldKept'
    BY <1>1 DEF IdentityInv, Ordered, EntryFinal, KeyFinal, ToldKept, Revoked
  <1> QED
    BY <1>4, <1>6, <1>7, <1>8 DEF IdentityInv

LEMMA KeeperKeeps ==
    ASSUME IdentityInv, NEW i \in Inputs, VerifyByKeeper(i)
    PROVE  IdentityInv'
  <1> DEFINE d == Decision(i, floors)
             rests == d \in {"valid_trusted", "revoked"}
  <1>1. /\ UNCHANGED <<now, entry, key, statuses, trusts>>
        /\ valid' = IF d = "valid_trusted" THEN [by |-> "keeper", at |-> i.at] ELSE NotFoundValid
        /\ floors' = [trust |-> IF rests \/ KeyRevoked(i, d) THEN i.trust ELSE floors.trust,
                      status |-> IF rests THEN i.status ELSE floors.status]
        /\ told' = (told \/ d = "revoked" \/ KeyRevoked(i, d))
    BY DEF VerifyByKeeper, Finding
  <1>2. /\ i.at \in Nat /\ i.trust \in DOMAIN trusts /\ i.trust \in Nat /\ i.status \in Nat
        /\ floors \in [trust : Nat, status : Nat]
        /\ DOMAIN trusts \subseteq Nat /\ DOMAIN statuses \subseteq Nat
    BY SMTT(30), Snapshots, Constants DEF Inputs, Asked, IdentityInv, Types
  <1>3. /\ rests => /\ i.trust >= floors.trust /\ trusts[i.trust] # "revoked"
                    /\ i.status \in DOMAIN statuses /\ i.status >= floors.status
        /\ d = "valid_trusted" => /\ statuses[i.status].entry.state = "valid"
                                  /\ i.at <= statuses[i.status].generated + MaxAge
        /\ d = "revoked" => Revoked(i.status)
        /\ KeyRevoked(i, d) => i.trust >= floors.trust /\ trusts[i.trust] = "revoked"
    BY <1>2, DecisionRestsOn DEF IdentityInv
  <1> HIDE DEF d
  <1>4. Types'
    BY <1>1, <1>2 DEF IdentityInv, Types, NotFoundValid, KeyRevoked
  <1>5. FoundFresh'
    BY <1>1, <1>3 DEF FoundFresh
  <1>6. floors'.trust >= floors.trust /\ floors'.status >= floors.status
    BY <1>1, <1>2, <1>3
  <1>7. ToldKept'
    <2>1. CASE told
      <3>1. CASE \E m \in DOMAIN trusts : m <= floors.trust /\ trusts[m] = "revoked"
        <4>1. PICK m \in DOMAIN trusts : m <= floors.trust /\ trusts[m] = "revoked"
          BY <3>1
        <4>2. m \in Nat /\ floors.trust \in Nat /\ floors'.trust \in Nat
          BY <1>1, <1>2
        <4>3. m <= floors'.trust
          BY <4>1, <4>2, <1>6
        <4> QED
          BY <4>1, <4>3, <1>1 DEF ToldKept
      <3>2. CASE \E m \in DOMAIN statuses : m <= floors.status /\ Revoked(m)
        <4>1. PICK m \in DOMAIN statuses : m <= floors.status /\ Revoked(m)
          BY <3>2
        <4>2. m \in Nat /\ floors.status \in Nat /\ floors'.status \in Nat
          BY <1>1, <1>2
        <4>3. m <= floors'.status
          BY <4>1, <4>2, <1>6
        <4> QED
          BY <4>1, <4>3, <1>1 DEF ToldKept, Revoked
      <3> QED
        BY <2>1, <3>1, <3>2 DEF IdentityInv, ToldKept
    <2>2. CASE d = "revoked"
      <3>1. i.status \in DOMAIN statuses /\ floors'.status = i.status /\ Revoked(i.status)
        BY <2>2, <1>1, <1>3
      <3> QED
        BY <3>1, <1>1, <1>2 DEF ToldKept, Revoked
    <2>3. CASE KeyRevoked(i, d)
      <3>1. floors'.trust = i.trust /\ trusts[i.trust] = "revoked"
        BY <2>3, <1>1, <1>3
      <3> QED
        BY <3>1, <1>1, <1>2 DEF ToldKept
    <2> QED
      BY <2>1, <2>2, <2>3, <1>1 DEF ToldKept
  <1>8. NeverTrustedAgain'
    <2> SUFFICES ASSUME told', d = "valid_trusted" PROVE FALSE
      BY <1>1 DEF NeverTrustedAgain, NotFoundValid
    <2>1. told
      BY <1>1 DEF KeyRevoked
    <2>2. CASE \E m \in DOMAIN trusts : m <= floors.trust /\ trusts[m] = "revoked"
      BY <2>2, <1>2, <1>3 DEF IdentityInv, KeyFinal
    <2>3. CASE \E m \in DOMAIN statuses : m <= floors.status /\ Revoked(m)
      BY <2>3, <1>2, <1>3 DEF IdentityInv, EntryFinal
    <2> QED
      BY <2>1, <2>2, <2>3 DEF IdentityInv, ToldKept
  <1>9. Ordered' /\ EntryFinal' /\ KeyFinal'
    BY <1>1 DEF IdentityInv, Ordered, EntryFinal, KeyFinal, Revoked
  <1> QED
    BY <1>4, <1>5, <1>7, <1>8, <1>9 DEF IdentityInv

LEMMA IdentityStepKeeps == IdentityInv /\ [IdentityNext]_identityVars => IdentityInv'
  <1> SUFFICES ASSUME IdentityInv, [IdentityNext]_identityVars PROVE IdentityInv'
    OBVIOUS
  <1>1. CASE UNCHANGED identityVars
    BY <1>1 DEF identityVars, IdentityInv, Types, Ordered, EntryFinal, KeyFinal, FoundFresh, ToldKept,
                NeverTrustedAgain, Revoked
  <1> QED
    BY <1>1, IssuerKeeps, StatusKeeps, TrustKeeps, PageKeeps, KeeperKeeps DEF IdentityNext

\* IdentityInv is an inductive invariant of issuer, keeper and page.
THEOREM IdentityInductive == IdentitySpec => []IdentityInv
  BY IdentityInitHolds, IdentityStepKeeps, PTL DEF IdentitySpec

\* An attestation found valid for a time was not listed as revoked MaxAge before it.
THEOREM StalenessBounded == IdentitySpec => []RevocationBounded
  <1>1. IdentityInv => RevocationBounded
    <2> SUFFICES ASSUME IdentityInv, valid # NotFoundValid, NEW n \in DOMAIN statuses, Revoked(n)
                 PROVE  statuses[n].generated + MaxAge >= valid.at
      BY DEF RevocationBounded, Revoked
    <2>1. PICK s \in DOMAIN statuses : /\ statuses[s].entry.state = "valid"
                                       /\ valid.at <= statuses[s].generated + MaxAge
      BY DEF IdentityInv, FoundFresh
    <2>2. s \in Nat /\ n \in Nat /\ statuses[s].generated \in Nat /\ statuses[n].generated \in Nat
          /\ valid.at \in Nat
      BY Snapshots DEF IdentityInv, Types
    <2>3. s <= n
      BY <2>1, <2>2 DEF IdentityInv, EntryFinal
    <2>4. statuses[s].generated <= statuses[n].generated
      BY <2>3 DEF IdentityInv, Ordered
    <2> QED
      BY <2>1, <2>2, <2>4, Constants
  <1> QED
    BY <1>1, IdentityInductive, PTL

\* A caller that keeps the sequences is never shown an attestation valid again.
THEOREM RevocationIsRemembered == IdentitySpec => []NeverTrustedAgain
  BY IdentityInductive, PTL DEF IdentityInv
=============================================================================
