--------------------------- MODULE MCVerification ---------------------------
(* Every package with at most MaxFaults parts that differ from a good one   *)
(* of its version.                                                          *)
EXTENDS Verification, Naturals

CONSTANT MaxFaults

Good(version) ==
    [version |-> version, container |-> "safe", manifest |-> "good",
     security |-> CASE version = "0.2" -> "none" [] version = "0.3" -> "signed" [] OTHER -> "planned",
     assets |-> "good", events |-> "good",
     keyEntry |-> IF version = "0.2" THEN "missing" ELSE "present",
     signature |-> IF version = "0.2" THEN "missing" ELSE "good",
     stamp |-> "absent", observations |-> {}, observed |-> "good"]

Values ==
    [container    |-> {"safe", "unsafe", "unreadable"},
     manifest     |-> {"good", "faulty", "lost"},
     security     |-> {"none", "signed", "planned"},
     assets       |-> {"good", "bad"},
     events       |-> {"good", "broken", "unreadable", "missing"},
     keyEntry     |-> {"present", "malformed", "oversized", "missing"},
     signature    |-> {"good", "unsupported", "malformed", "invalid", "oversized",
                       "missing"},
     stamp        |-> {"absent", "oversized"} \cup Responses,
     observations |-> SUBSET {"trusted", "valid", "invalid"},
     observed     |-> {"good", "faulty"}]

Altered(packages) ==
    UNION {{[p EXCEPT ![f] = x] : x \in Values[f]} : f \in DOMAIN Values, p \in packages}

MCPackages ==
    LET altered[n \in 0..MaxFaults] ==
            IF n = 0 THEN {Good(v) : v \in Versions} ELSE Altered(altered[n - 1])
    IN  altered[MaxFaults]
=============================================================================
