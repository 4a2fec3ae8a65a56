-------------------------------- MODULE MCClient --------------------------------
(* An instance of Client for TLC. *)
EXTENDS Client

MCNameLists == {<<"a">>, <<"b">>, <<"a", "b">>}
MCBegins == {<<t, t>> : t \in Texts} \cup {<<"", t>> : t \in Texts} \cup {<<"a", "ab">>}
=============================================================================
