----------------------------- MODULE MCAnyPeer ------------------------------
(***************************************************************************)
(* Values of the constants of AnyPeer for TLC: an offer of the same file   *)
(* twice, which makes both its entries resume from one partial file;       *)
(* an offer of a longer file at the name of that partial file, and of the  *)
(* file itself; chunks that fit and others that do not.                    *)
(***************************************************************************)
EXTENDS AnyPeer

MCPath == {"f", "s"}
MCBlock == {"a", "b"}
MCPlace == {"x", "x1", "part"}
MCCandidates == [p \in MCPath |-> IF p = "s" THEN <<"part">> ELSE <<"x", "x1">>]

F == [path |-> "f", size |-> 1, hash |-> <<"a">>]
S == [path |-> "s", size |-> 2, hash |-> <<"b", "b">>]

MCPartialAt == [d \in {"part"} |-> F]

MCPeerFrames ==
    {Hello, OfferFrame(1, <<F, F>>), OfferFrame(1, <<S, F>>),
     FileEnd(1, F.hash), FileEnd(2, F.hash), FileEnd(1, S.hash), Complete(2)}
      \cup {FileStart(i, offset) : i \in {1, 2}, offset \in {0, 1}}
      \cup {FileChunk(i, bytes) : i \in {1, 2}, bytes \in {<<"a">>, <<"b">>}}
=============================================================================
