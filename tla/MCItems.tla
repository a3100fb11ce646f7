------------------------------- MODULE MCItems -------------------------------
(* ItemsConnectionManager for TLC: two good addresses and a malformed one.  *)
EXTENDS ItemsConnectionManager

at(host, port) == [host |-> host, port |-> port, database |-> "app"]

MCSecret == {at("old", 5432), at("new", 5432), at("new", 0)}
=============================================================================
