---------------------------- MODULE LocalSigner ----------------------------
(* The local creator key (crates/proof-core/src/signing.rs): one record in  *)
(* the credential store of the operating system, which command lines and    *)
(* the Utility process load and store without a lock.  A call is one use of *)
(* the service: it loads the record, decides, and perhaps stores another    *)
(* one later.  The store is external: a load or a store is atomic and may   *)
(* be refused, and a refused store may or may not have been written.  A     *)
(* process may be killed before any step.  Keys are named by the call that  *)
(* generated them, so that two generations never give the same key.         *)
EXTENDS FiniteSets

CONSTANTS Calls,     \* the uses of the service that are followed
          FirstKey,  \* the key of a record made before them
          None

ASSUME CallsAssumption == FirstKey \notin Calls /\ None \notin Calls \cup {FirstKey}

VARIABLES stored,   \* the record in the credential store
          call,     \* what is known of each call
          retired,  \* history: keys that were active in the store and were replaced or disabled
          alone     \* history: writers that no other writer has met or followed
signerVars == <<stored, call, retired, alone>>

Keys == Calls \cup {FirstKey}
Kinds == {"create", "rotate", "disable", "seal", "trust"}
Writers == {"create", "rotate", "disable"}

\* The record: absent, active with the private key, or disabled without it.
Missing == [state |-> "missing", key |-> None]
Active(k) == [state |-> "active", key |-> k]
Disabled(k) == [state |-> "disabled", key |-> k]
Records == {Missing} \cup {Active(k) : k \in Keys} \cup {Disabled(k) : k \in Keys}

\* A call: its kind, where it is, the record it loaded, the key it is about
\* (the key it signs with, or the key of the signature it is asked to trust),
\* and the keys retired before it loaded.
NotCalled == [kind |-> None, at |-> "idle", read |-> Missing, key |-> None, barred |-> {}]
Places == {"idle", "loaded", "ok", "failed", "killed"}
CallRecords == [kind : Kinds \cup {None}, at : Places, read : Records,
                key : Keys \cup {None}, barred : SUBSET Keys]

SignerTypeOK ==
    /\ stored \in Records
    /\ call \in [Calls -> CallRecords]
    /\ retired \subseteq Keys
    /\ alone \subseteq Calls

SignerInit ==
    /\ stored \in {Missing, Active(FirstKey), Disabled(FirstKey)}
    /\ call = [c \in Calls |-> NotCalled]
    /\ retired = IF stored = Disabled(FirstKey) THEN {FirstKey} ELSE {}
    /\ alone = {}

(***************************************************************************)
(* One call.                                                                *)
(***************************************************************************)
UnderWay(c) == call[c].at = "loaded"
IsWriter(c) == call[c].kind \in Writers

\* The store gets a record: the key that was active in it, if another one, is retired.
Put(record) ==
    /\ stored' = record
    /\ retired' = IF stored.state = "active" /\ stored # record
                  THEN retired \cup {stored.key} ELSE retired

\* Fault: sealing does not ask whether the record is disabled.
AcceptsAnyRecord(kind, record) ==
    CASE kind = "create" -> record = Missing
      [] OTHER -> record # Missing

\* What each kind asks of the record it loads.
Accepts(kind, record) ==
    CASE kind = "create" -> record = Missing
      [] kind \in {"rotate", "disable"} -> record # Missing
      [] kind = "seal" -> record.state = "active"
      [] OTHER -> TRUE

\* To disable a disabled record, and to say what is trusted, needs no store.
Outcome(kind) ==
    IF ~Accepts(kind, stored) THEN "failed"
    ELSE IF kind = "trust" \/ (kind = "disable" /\ stored.state = "disabled") THEN "ok"
    ELSE "loaded"

\* The call loads the record.  Its label or its confirmation may be refused
\* before, or the load by the store (which for trust means untrusted).
Loads(c, kind, key, at) ==
    /\ call[c].at = "idle"
    /\ at \in {"failed", Outcome(kind)}
    /\ call' = [call EXCEPT ![c] =
                  [kind   |-> kind,
                   at     |-> at,
                   read   |-> stored,
                   key    |-> IF kind = "trust" THEN key ELSE stored.key,
                   barred |-> retired]]
    /\ alone' = IF kind \notin Writers \/ at # "loaded" THEN alone
                ELSE IF \E d \in Calls : IsWriter(d) /\ UnderWay(d) THEN {}
                ELSE {c}
    /\ UNCHANGED <<stored, retired>>

\* Fault: disable marks the record in its answer only and puts back what it read.
WrittenAsRead(c) == IF call[c].kind = "disable" THEN call[c].read ELSE Active(c)

\* The record the writer puts: a new key, or the public half of the one it read.
Written(c) == IF call[c].kind = "disable" THEN Disabled(call[c].read.key) ELSE Active(c)

Stores(c) ==
    /\ UnderWay(c) /\ IsWriter(c)
    /\ Put(Written(c))
    /\ \E at \in {"ok", "failed", "killed"} : call' = [call EXCEPT ![c].at = at]
    /\ UNCHANGED alone

\* The store refuses the record, or the process is killed first.
NotStored(c) ==
    /\ UnderWay(c) /\ IsWriter(c)
    /\ \E at \in {"failed", "killed"} : call' = [call EXCEPT ![c].at = at]
    /\ UNCHANGED <<stored, retired, alone>>

\* The seal signs with the key it loaded when it began, however long ago.
Signs(c) ==
    /\ UnderWay(c) /\ call[c].kind = "seal"
    /\ \E at \in {"ok", "failed", "killed"} : call' = [call EXCEPT ![c].at = at]
    /\ UNCHANGED <<stored, retired, alone>>

\* The local trust in the key of a signature, by the record just loaded.
Trust(c) ==
    IF call[c].at = "ok" /\ call[c].read.key = call[c].key
    THEN IF call[c].read.state = "disabled" THEN "disabled" ELSE "trusted"
    ELSE "untrusted"

SignerNext == \E c \in Calls :
    \/ \E kind \in Kinds, key \in Keys, at \in Places : Loads(c, kind, key, at)
    \/ Stores(c)
    \/ NotStored(c)
    \/ Signs(c)

SignerSpec == SignerInit /\ [][SignerNext]_signerVars

(***************************************************************************)
(* Properties.                                                              *)
(***************************************************************************)
\* A key that was replaced or disabled never becomes the active key again,
\* whatever writer read the record before and stores after (disable writes the
\* record it read, and rotate and create always a new key).
RetiredStaysRetired == stored.state = "active" => stored.key \notin retired

\* A seal or a verification that begins after a key was replaced or disabled
\* never signs with it, and never reports its signatures as locally trusted.
RetiredNotUsed == \A c \in Calls :
    /\ call[c].kind = "seal" /\ call[c].at = "ok" => call[c].key \notin call[c].barred
    /\ call[c].kind = "trust" /\ Trust(c) = "trusted" => call[c].key \notin call[c].barred

\* What a writer was answered stays the truth until another writer begins: after
\* create or rotate its key is active, after disable no key is.
AnswerHolds == \A c \in alone :
    call[c].at = "ok" => IF call[c].kind = "disable" THEN stored = Disabled(call[c].key)
                         ELSE stored = Active(c)

\* docs/SIGNATURE-PROFILE.md:26: rotation replaces the current private key only
\* after explicit confirmation; docs/CLI.md:45: create refuses an existing record.
ReplacedByRotation ==
    [][ \A c \in Calls : call[c].kind = "create" /\ call[c].at = "loaded" /\ call'[c].at = "ok"
            => stored = Missing ]_signerVars
=============================================================================
