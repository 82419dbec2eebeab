-------------------------- MODULE MCEvidenceSupply --------------------------
(***************************************************************************)
(* Two checkpoints of a segment and what each opening took of a            *)
(* predecessor's: a trail, then a fork of it.                              *)
(***************************************************************************)
EXTENDS EvidenceSupply

OwnTops == <<<<"s", "a">>, <<"s", "a", "b">>>>
TakenTops == <<{<<"p", "a">>}, {<<"p", "z">>}>>
ForkedTops == <<{<<"p", "a", "b", "c">>}, {<<"p", "z">>}>>

Plan(without, damage, breaks, restores) ==
    [without |-> without, damage |-> damage, breaks |-> breaks, restores |-> restores]
LeftOut == {<<"package", Broken>>, <<"trail", <<"p", "a">>>>, <<"trail", <<"s", "a">>>>}
DamagePlans == {Plan({}, 1, 0, 0)}
RunPlans == {Plan({}, 0, 1, 0), Plan({}, 0, 0, 1), Plan({}, 1, 0, 0)}
    \cup {Plan({<<source, left[1], left[2]>>}, 0, 0, 0) : source \in {Journal, Replica}, left \in LeftOut}
=============================================================================
