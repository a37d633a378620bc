--------------------------- MODULE MCControlPlane ----------------------------
EXTENDS ControlPlane, TLC

CONSTANTS a1, high, low, t1, r1, r2, p1, p2

MCSeverity == a1 :> high
MCTaskCase == t1 :> 1
\* Linked by hand: a report as raw evidence that has the alert's raw_ref among its
\* data too, and a result of a task without any reference to what it reported.
MCByHand == {[type |-> "raw_evidence", ref |-> <<t1, r2>>, raw |-> a1],
             [type |-> "task_result", ref |-> t1, raw |-> None]}
\* Two paths that differ only in characters _safe_segment replaces.
MCSegment == [p \in {p1, p2} |-> "segment"]

\* Three processes, of which the first and the third had the same process id.
\* Addresses of which one contains the other, and names that one pattern matches:
\* with a backslash (as DOMAIN\user), without it, and with a wildcard in its place.
\* Two of them are needles too, and so is a letter in the other case.
CONSTANTS addr, longer, slashed, joined, wild, upper, pidA, pidB

MCTexts == {addr, longer, slashed, joined, wild}
MCNeedles == {addr, longer, slashed, wild, upper}
MCChars == {"1", "2", "a", "A", "b", "_", "\\"}
MCSpelling == addr :> <<"1">> @@ longer :> <<"1", "2">> @@ slashed :> <<"a", "\\", "b">>
              @@ joined :> <<"a", "b">> @@ wild :> <<"a", "_", "b">> @@ upper :> <<"A">>
MCLower == [c \in MCChars |-> IF c = "A" THEN "a" ELSE c]
\* Two events in one millisecond, and two in the next.
MCTimestamp == <<998, 999, 1000, 1001>>
MCRemotesOf == 1 :> {addr, longer} @@ 2 :> {longer} @@ 3 :> {}
MCPidOf == 1 :> pidA @@ 2 :> pidB @@ 3 :> pidA
MCNameOf == 1 :> slashed @@ 2 :> joined @@ 3 :> wild
==============================================================================
