---------------------------- MODULE MCAppRegistry ----------------------------
(* AppRegistry with two app servers of one name and one alone.             *)
EXTENDS AppRegistry

MCInstance == {"a1", "a2", "b"}
MCNameOf == [a \in MCInstance |-> IF a = "b" THEN "billing" ELSE "account"]
=============================================================================
