----------------------------- MODULE MCSourcing -----------------------------
(***************************************************************************)
(* A small instance of Sourcing: two searches that overlap on a listing,   *)
(* room for a third, and a URL the API accepts but the worker cannot parse.*)
(***************************************************************************)
EXTENDS Sourcing

CONSTANTS i1, sneakers, runners

Whole   == [host |-> "vinted.de", prices |-> "whole"]
Decimal == [host |-> "vinted.de", prices |-> "decimal"]
French  == [host |-> "vinted.fr", prices |-> "whole"]

MCURLs  == {Whole, Decimal, French}
MCFinds == [url \in MCURLs |-> IF url = Whole THEN {i1} ELSE {}]
MCRows  == [id \in 1..2 |-> [name    |-> IF id = 1 THEN sneakers ELSE runners,
                             url     |-> Whole,
                             enabled |-> TRUE]]

=============================================================================
