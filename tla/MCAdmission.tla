---- MODULE MCAdmission ----
(* An instance of Admission for TLC: an account whose name has an underscore *)
(* and one of a name that is refused.                                        *)
EXTENDS Admission, TLC

MCStarts == {"ann", "b2", "x", "7777", "b2-mid", "15", "city", "sid", "time"}
MCLegal == MCStarts \cup {"", "-1"}
MCSIDs == {"7777", "FACE", "face"}
MCHex64 == {"FACE", "face"}
MCNumber == ("-1" :> -1) @@ ("10" :> 10) @@ ("15" :> 15) @@ ("20" :> 20)
            @@ ("90" :> 90) @@ ("180" :> 180) @@ ("999" :> 999)
MCWords == MCLegal \cup MCSIDs \cup DOMAIN MCNumber \cup Keywords \cup {"rotate", "Sticky", "sticky"}
MCMidBase == [w \in {"b2-mid"} |-> "b2"]
MCLowerCase == [w \in {"FACE", "Sticky"} |-> IF w = "FACE" THEN "face" ELSE "sticky"]

MCNames == {<<"ann", "b2">>, <<"ann", "sid", "x">>}
MCSpecs == {[ip |-> <<1, 3>>, bits |-> 4], [ip |-> <<2, 1>>, bits |-> 3]}
MCInputs == {[on |-> TRUE, mode |-> "rotate", ttl |-> 0, max |-> 0],
             [on |-> FALSE, mode |-> "sticky", ttl |-> 90, max |-> 20]}
MCMinutes == {0, 15, 999}
MCRequests == [sid : {"", "7777"}, time : {"", "-1", "999"}, mode : {"", "rotate", "Sticky"}, geo : {<<>>}]
              \cup [sid : {"", "7777"}, time : {"15"}, mode : {""},
                    geo : {<<"zone", "city">>, <<"st", "x", "city", "time">>, <<"city", "", "x">>}]
====
