-------------------------- MODULE OfficialIdentity --------------------------
(* The offline decision about an official identity attestation              *)
(* (crates/proof-core/src/official_attestation.rs), over the snapshots that *)
(* an issuer publishes one after the other and that reach the verifier in   *)
(* any order, late, or again.  The issuer is external.  Its status          *)
(* snapshots are signed and numbered; its trust snapshots are plain JSON    *)
(* that the caller imports explicitly, numbered too, here with one key and  *)
(* one interval of validity.  Their times never go back, and a revocation,  *)
(* of the attestation or of the key, is never taken back.  The verifier is  *)
(* told the time and the floors; a caller that keeps the sequences it was   *)
(* shown raises them, the page passes 1 each time.                          *)
EXTENDS Integers, Sequences

CONSTANTS MaxTime,       \* bound on the time
          MaxSnapshots,  \* bound on what the issuer publishes of each kind
          Issued, Expires,   \* the interval of the attestation
          KeyUntil,      \* the end of the key's validity, which begins at 0
          MaxAge, Skew   \* the freshness policy and the tolerated clock error

ASSUME TimesAssumption ==
    /\ {MaxTime, MaxSnapshots, Issued, Expires, KeyUntil, MaxAge, Skew} \subseteq Nat
    /\ Issued < Expires

VARIABLES now,        \* the issuer's clock
          entry,      \* what the issuer holds of the attestation, and since when
          key,        \* what it holds of its key
          statuses,   \* the status snapshots: when generated, with which entry
          trusts,     \* the trust snapshots: the state of the key
          floors,     \* the sequences that the keeping caller passes
          told,       \* history: the keeping caller was told of a revocation
          valid       \* history: the last decision, if it found the attestation valid
identityVars == <<now, entry, key, statuses, trusts, floors, told, valid>>

Times == 0..MaxTime
Entries == [state : {"valid", "revoked", "expired"}, since : Times]
Absent == [state |-> "absent", since |-> 0]
KeyStates == {"active", "retired", "revoked"}
Statuses == [generated : Times, entry : Entries \cup {Absent}]
Asked == 0..(MaxTime + 1)   \* what a caller may ask about, beyond the issuer's now
NotFoundValid == [by |-> "nobody", at |-> 0]

IdentityTypeOK ==
    /\ now \in Times
    /\ entry \in Entries
    /\ key \in KeyStates
    /\ statuses \in Seq(Statuses)
    /\ trusts \in Seq(KeyStates) /\ trusts # <<>>
    /\ floors \in [trust : Nat, status : Nat]
    /\ told \in BOOLEAN
    /\ valid \in {NotFoundValid} \cup [by : {"keeper", "page"}, at : Asked]

IdentityInit ==
    /\ now = 0
    /\ entry = [state |-> "valid", since |-> 0]
    /\ key = "active"
    /\ statuses = <<>>
    /\ trusts = <<"active">>
    /\ floors = [trust |-> 1, status |-> 1]
    /\ told = FALSE
    /\ valid = NotFoundValid

(***************************************************************************)
(* The issuer.                                                              *)
(***************************************************************************)
Tick == now < MaxTime /\ now' = now + 1
        /\ UNCHANGED <<entry, key, statuses, trusts, floors, told, valid>>

\* An entry ends once, a key is retired or revoked, a retired key revoked.
Ends(state) ==
    /\ entry.state = "valid" /\ entry' = [state |-> state, since |-> now]
    /\ UNCHANGED <<now, key, statuses, trusts, floors, told, valid>>
KeyEnds(state) ==
    /\ key = "active" \/ (key = "retired" /\ state = "revoked")
    /\ key' = state
    /\ UNCHANGED <<now, entry, statuses, trusts, floors, told, valid>>

\* A snapshot lists what is held now, or, incomplete, nothing of the attestation.
PublishStatus(e) ==
    /\ Len(statuses) < MaxSnapshots
    /\ statuses' = Append(statuses, [generated |-> now, entry |-> e])
    /\ UNCHANGED <<now, entry, key, trusts, floors, told, valid>>
PublishTrust ==
    /\ Len(trusts) < MaxSnapshots
    /\ trusts' = Append(trusts, key)
    /\ UNCHANGED <<now, entry, key, statuses, floors, told, valid>>

(***************************************************************************)
(* The decision, in the order of the code: the trust snapshot, the          *)
(* attestation and its interval, the status snapshot, its entry.            *)
(* Refused stands for unsupported, malformed and invalid.                   *)
(***************************************************************************)
\* Fault: the age of the snapshot is not looked at.
StaleFuture(generated, at) == generated > at + Skew
Stale(generated, at) == generated > at + Skew \/ at - generated > MaxAge

\* Fault: a snapshot is refused only when it is the first of all.
RolledBackFirst(n, floor) == n < 1
RolledBack(n, floor) == n < floor

\* The trust snapshot t, which holds the key and says it is valid until KeyUntil.
TrustState(t, at, floor) ==
    IF RolledBack(t, floor) THEN "refused"
    ELSE IF trusts[t] = "revoked" THEN "untrusted"
    ELSE "accepted"

\* The attestation: whether it is sound, then its interval.
AttestationState(fault, at) ==
    IF fault = "attestation" \/ Issued >= KeyUntil THEN "refused"
    ELSE IF at >= Expires THEN "expired"
    ELSE IF at < Issued THEN "refused"
    ELSE IF at >= KeyUntil THEN "untrusted"
    ELSE "accepted"

\* The status snapshot s (0: none was given), whether it is sound, and the
\* predecessor that is expected (0: none).
StatusState(s, fault, at, floor, previous) ==
    IF s = 0 THEN "indeterminate"
    ELSE IF fault = "status" \/ RolledBack(s, floor) THEN "refused"
    ELSE IF previous # 0 /\ s # previous + 1 THEN "refused"
    ELSE IF Stale(statuses[s].generated, at) THEN "indeterminate"
    ELSE IF statuses[s].entry = Absent \/ statuses[s].entry.since > at THEN "indeterminate"
    ELSE IF statuses[s].entry.state = "valid" THEN "valid_trusted"
    ELSE statuses[s].entry.state

Decision(i, floor) ==
    LET t == TrustState(i.trust, i.at, floor.trust)
        a == AttestationState(i.fault, i.at)
    IN  IF t # "accepted" THEN t
        ELSE IF a # "accepted" THEN a
        ELSE StatusState(i.status, i.fault, i.at, floor.status, i.previous)

\* What is unsound, if anything: its signature, its profile or what it binds.
Inputs == [trust : 1..Len(trusts), status : 0..Len(statuses), at : Asked,
           fault : {"none", "attestation", "status"}, previous : 0..Len(statuses)]

Finding(by, state, at) ==
    IF state = "valid_trusted" THEN [by |-> by, at |-> at] ELSE NotFoundValid

\* The page: the floors are 1 and no predecessor is expected.
VerifyByPage(i) ==
    /\ i.previous = 0
    /\ valid' = Finding("page", Decision(i, [trust |-> 1, status |-> 1]), i.at)
    /\ UNCHANGED <<now, entry, key, statuses, trusts, floors, told>>

\* The decision rests on the trust snapshot, which says the key is revoked.
KeyRevoked(i, state) == state = "untrusted" /\ trusts[i.trust] = "revoked"

\* A caller of the command line that keeps the sequences of the decisions that
\* rest on them: a key said revoked, an attestation said valid or revoked.
VerifyByKeeper(i) ==
    LET state == Decision(i, floors) IN
    /\ valid' = Finding("keeper", state, i.at)
    /\ floors' = [trust |-> IF state \in {"valid_trusted", "revoked"} \/ KeyRevoked(i, state)
                            THEN i.trust ELSE floors.trust,
                  status |-> IF state \in {"valid_trusted", "revoked"} THEN i.status ELSE floors.status]
    /\ told' = (told \/ state = "revoked" \/ KeyRevoked(i, state))
    /\ UNCHANGED <<now, entry, key, statuses, trusts>>

IdentityNext ==
    \/ Tick
    \/ \E state \in {"revoked", "expired"} : Ends(state)
    \/ \E state \in {"retired", "revoked"} : KeyEnds(state)
    \/ \E e \in {entry, Absent} : PublishStatus(e)
    \/ PublishTrust
    \/ \E i \in Inputs : VerifyByPage(i) \/ VerifyByKeeper(i)

IdentitySpec == IdentityInit /\ [][IdentityNext]_identityVars

(***************************************************************************)
(* Properties.                                                              *)
(***************************************************************************)
\* However old the snapshots that a verifier is given, an attestation found valid
\* for a time was not listed as revoked MaxAge before that time: what a stale
\* snapshot can hide is bounded by the freshness policy, without any kept state.
RevocationBounded ==
    valid # NotFoundValid =>
        \A n \in DOMAIN statuses : statuses[n].entry.state = "revoked" =>
            statuses[n].generated + MaxAge >= valid.at

\* A caller that keeps the sequences and was once told that the attestation, or the
\* issuer's key, is revoked, never finds the attestation valid again, whatever older
\* snapshots it is given and whatever time it asks about.
NeverTrustedAgain == told => valid.by # "keeper"
=============================================================================
