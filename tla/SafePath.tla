------------------------------ MODULE SafePath ------------------------------
(***************************************************************************)
(* SafeRelativePath (crates/core/src/lib.rs): which paths the Deck takes   *)
(* from a peer, and the normal form they get.                              *)
(*                                                                         *)
(* A path that arrives as text is the sequence of words between its        *)
(* slashes: "/a//.." is <<"", "a", "", "..">>, and "" is <<"">>.           *)
(***************************************************************************)
EXTENDS Naturals, SequencesExt

IsAbsolute(path) == Len(path) > 1 /\ path[1] = ""

\* What PathBuf::push has collected when every component was normal.
Normalized(path) ==
    LET taken[n \in 0 .. Len(path)] ==
            IF n = 0 THEN <<>>
            ELSE IF path[n] \in {"", "."} THEN taken[n - 1]
            ELSE Append(taken[n - 1], path[n])
    IN  taken[Len(path)]

Accepted(path) ==
    /\ ~IsAbsolute(path)
    /\ ".." \notin Range(path)
    /\ Normalized(path) # <<>>
=============================================================================
