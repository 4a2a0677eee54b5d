------------------------------ MODULE MCCopy ------------------------------
(***************************************************************************)
(* Values of the constants of Copy for TLC.  The PC has a disk with two    *)
(* folders that have files of the same name, small ones with a link or     *)
(* something else, names with backslashes, two huge files, and more files  *)
(* or longer paths than an offer has room for.  Of the offers, four are    *)
(* followed at the Deck: a name that is a file and a folder, a file that   *)
(* wants the numbered name of another, a folder that has the numbered name *)
(* of a file, and a folder in a folder.                                    *)
(***************************************************************************)
EXTENDS Copy

a == <<"a">>
a1 == <<"a1">>             \* "a (1)"
d == <<"d">>
z == <<"z">>               \* stands for a name that cannot be sent
sub == <<"a", "a1">>       \* "a\a (1)"
up == <<"..", "a">>        \* "..\a"

Disk(nodes) == [p \in {<<>>} \cup DOMAIN nodes |-> IF p = <<>> THEN "dir" ELSE nodes[p]]

Work == Disk(<<a>> :> "file" @@ <<a1>> :> "dir" @@ <<a1, a>> :> "file"
               @@ <<d>> :> "dir" @@ <<d, a>> :> "file" @@ <<d, a1>> :> "dir"
               @@ <<d, a1, a>> :> "file")

MCRank == a :> 1 @@ a1 :> 2 @@ d :> 3 @@ z :> 4 @@ sub :> 5 @@ up :> 0
MCFresh == {a, a1, d}
MCUnsendable == {z}
MCHuge == {d}
MCPcTrees ==
    {Work, Disk(<<d>> :> "dir" @@ <<d, a>> :> "link"),
     Disk(<<a>> :> "link"), Disk(<<a>> :> "other" @@ <<d>> :> "dir"),
     Disk(<<d>> :> "dir" @@ <<d, a>> :> "file" @@ <<d, z>> :> "file"),
     Disk(<<a>> :> "file" @@ <<d>> :> "dir" @@ <<d, a>> :> "dir" @@ <<d, a, a1>> :> "file"),
     Disk(<<d>> :> "dir" @@ <<d, a>> :> "file" @@ <<d, a1>> :> "file"),
     Disk(<<d>> :> "dir" @@ <<d, a1>> :> "dir" @@ <<d, a1, a>> :> "file"),
     Disk(<<d>> :> "dir" @@ <<d, a>> :> "dir" @@ <<d, a, a1>> :> "file"
            @@ <<d, sub>> :> "file"),
     Disk(<<d>> :> "dir" @@ <<d, up>> :> "file"),
     Disk(<<d>> :> "file" @@ <<a1>> :> "dir" @@ <<a1, d>> :> "file"),
     Disk(<<d>> :> "dir" @@ <<d, a>> :> "file" @@ <<d, a1>> :> "file" @@ <<d, d>> :> "file"),
     Disk(<<d>> :> "dir" @@ <<d, a>> :> "dir" @@ <<d, a, a1>> :> "file"
            @@ <<d, a1>> :> "dir" @@ <<d, a1, a>> :> "dir" @@ <<d, a1, a, a>> :> "file")}
MCSelections == {<< <<a>>, <<a1>> >>, <<>>, << <<>> >>, << <<a>> >>, << <<d>> >>, << <<d>>, <<a1>> >>,
                 << <<d>>, <<a>> >>, << <<a>>, <<d, a>> >>, << <<d>>, <<d, a1>> >>}

MCVariants == [a |-> <<"a", "a1", "a2", "a3">>, a1 |-> <<"a1", "a11", "a12">>]

MCOffers == {<< <<"a">>, <<"a", "a1">> >>,
             << <<"d", "a">>, <<"d", "a1">> >>,
             << <<"a">>, <<"a1", "a">> >>,
             << <<"d", "a1", "a">> >>}

MCSpots == {<<>>, <<"p">>, <<"a">>, <<"d">>, <<"d", "a">>, <<"d", "a1">>}

Dir == [kind |-> "dir", by |-> 0]
File == [kind |-> "file", by |-> 0]
Link == [kind |-> "link", by |-> 0]
Dangling == [kind |-> "dangling", by |-> 0]

At(nodes) == [p \in {<<>>} \cup DOMAIN nodes |-> IF p = <<>> THEN Dir ELSE nodes[p]]

MCDeckTrees ==
    {<<>>, (<<>> :> Dir), (<<>> :> Link),
     At(<<"a">> :> File), At(<<"a">> :> Dangling), At(<<"d">> :> Link),
     At(<<"d">> :> Dir @@ <<"d", "a">> :> File),
     At(<<"a">> :> Dir @@ <<"a", "a1">> :> File @@ <<"a", "a11">> :> Link
          @@ <<"a", "a12">> :> Dir)}

MCRawPaths == SeqOf({"a", "", ".", ".."}, 4)
=============================================================================
