---------------------------- MODULE MCDiscovery ----------------------------
(***************************************************************************)
(* A small instance of Discovery: three searches whose results overlap.    *)
(***************************************************************************)
EXTENDS Discovery

CONSTANTS s1, s2, s3, i1, i2, sneakers, runners, vintage

MCResults == [s \in Searches |-> IF s = s3 THEN {i1, i2} ELSE {i1}]
MCName    == [s \in Searches |-> CASE s = s1 -> sneakers [] s = s2 -> runners [] s = s3 -> vintage]

=============================================================================
