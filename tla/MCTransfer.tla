----------------------------- MODULE MCTransfer -----------------------------
(***************************************************************************)
(* Values of the constants of Transfer for TLC, for two jobs.              *)
(*                                                                         *)
(* Two files whose names collide: the second name of "f" is the first name *)
(* of "g", as "x (1)" is of "x".  "f" has one block, "g" is empty.         *)
(***************************************************************************)
EXTENDS Transfer

MCBlock == {"a", "b"}

\* No path of these jobs is the name of a partial file.
NoPartialAt == <<>>

TwoPath == {"f", "g"}
TwoPlace == {"x", "x1", "x11", "x2"}
TwoQueue == <<"f", "g">>
TwoCandidates == [p \in TwoPath |->
    IF p = "f" THEN <<"x", "x1", "x2">> ELSE <<"x1", "x11">>]
TwoVersions == [p \in TwoPath |->
    IF p = "f" THEN {<<"a">>, <<"b">>} ELSE {<<>>}]

(***************************************************************************)
(* One file of two blocks, whose blocks somebody may exchange, so that a   *)
(* hash taken meanwhile is of a content the file never had, or cut off;    *)
(* and a name for every copy that failed confirmations may leave behind.   *)
(***************************************************************************)
OnePath == {"f"}
OnePlace == {"x", "x1", "x2", "x3"}
OneQueue == <<"f">>
OneCandidates == [p \in OnePath |-> <<"x", "x1", "x2", "x3">>]
OneVersions == [p \in OnePath |-> {<<"a", "b">>, <<"b", "a">>, <<"a">>}]
=============================================================================
