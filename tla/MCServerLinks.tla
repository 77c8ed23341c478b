---------------------------- MODULE MCServerLinks ----------------------------
(* Two servers that run the same version, or not; one sends, or both do.    *)
EXTENDS ServerLinks

SameVersion == [s \in Servers |-> 1]
TwoVersions == [s \in Servers |-> s]

OneWay  == {<<1, 2>>}
BothWays == {<<1, 2>>, <<2, 1>>}
=============================================================================
