----------------------------- MODULE MCEvidence -----------------------------
(***************************************************************************)
(* Evidence on small instances of its components.                          *)
(***************************************************************************)
EXTENDS Evidence

OfBothProofs(value) == [p \in {"p1", "p2"} |-> value]
OneScope == OfBothProofs("s1")
FromOne == OfBothProofs(1)
UntilTwo == OfBothProofs(2)
OneRevocation ==
    {[id |-> "r1", kind |-> "REGISTERED_PROOF", target |-> "p1", reason |-> "REVOKED"]}

\* A dataset without and one with a gap.
TwoSeries == {<<1, 2, 3, 4>>, <<1, 2, 4>>}

\* Same bars and other prices; other bars.
ThreeExports ==
    {{<<1, "a">>, <<2, "a">>}, {<<1, "a">>, <<2, "b">>}, {<<2, "b">>, <<3, "a">>}}

TwoRanges == {{1, 2}, {3}}
FivePrices == 1 .. 5
=============================================================================
