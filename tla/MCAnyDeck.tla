----------------------------- MODULE MCAnyDeck ------------------------------
(***************************************************************************)
(* Values of the constants of AnyDeck for TLC: acceptances of this and of  *)
(* another transfer, with offsets inside and beyond the files, too few and *)
(* too many of them.                                                       *)
(***************************************************************************)
EXTENDS AnyDeck

MCPath == {"f", "g"}
MCBlock == {"a", "b"}
MCQueue == <<"f", "g">>
MCVersions == [p \in MCPath |->
    IF p = "f" THEN {<<"a", "b">>, <<"b", "b">>, <<"a">>} ELSE {<<"b">>, <<>>}]

MCOffsets == {<<0, 0>>, <<1, 0>>, <<2, 1>>, <<3, 0>>, <<0>>, <<0, 0, 0>>}

MCDeckFrames(c) ==
    {HelloAck, Complete(2), Complete(1)}
      \cup {AcceptFrame(id, offsets) : id \in {0, c}, offsets \in MCOffsets}
=============================================================================
