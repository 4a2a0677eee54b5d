--------------------------- MODULE MCSharedFolder ---------------------------
(* Values of the constants of SharedFolder for TLC: two versions of a file. *)
EXTENDS SharedFolder

Old == [path |-> "x", data |-> <<"a", "b">>]
New == [path |-> "x", data |-> <<"a", "c">>]

MCReceivers == {"window", "console"}
Both == [window |-> {Old, New}, console |-> {New}]
=============================================================================
