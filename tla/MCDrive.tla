------------------------------- MODULE MCDrive -------------------------------
(* Instances of Drive for TLC. *)
EXTENDS Drive

TwoBuilders == {<<"builder", "t1">>, <<"builder", "t2">>}
OneBuilder == {<<"builder", "t1">>}
OneScout == {<<"scout", "t1">>}
Nobodies == {}
OneTop == {Top}
Everybody == Agents
=============================================================================
