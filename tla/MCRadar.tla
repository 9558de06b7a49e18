------------------------------ MODULE MCRadar ------------------------------
(* Instances of Radar: from a Thursday to the Tuesday after it. *)
EXTENDS Radar, TLC

CONSTANTS ali, eda, can, oya

F(t, i, d, p) == [tick |-> t, ins |-> i, day |-> d, pub |-> p]

\* The first ticker's cluster grows past a full count score, by a filing that
\* is late and by one of after the weekend; the second forms on the Friday.
SomeFilings == {F(1, ali, 1, 1), F(1, eda, 1, 2), F(1, can, 2, 2), F(1, oya, 5, 5),
                F(2, ali, 1, 1), F(2, eda, 2, 2)}

\* Thursday, Friday, Monday, Tuesday.
FromThursday == {1, 2, 5, 6}

Roster == (ali :> 50) @@ (eda :> 50) @@ (can :> 70) @@ (oya :> 70)

=============================================================================
