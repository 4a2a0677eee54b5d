------------------------------- MODULE AnyDeck ------------------------------
(***************************************************************************)
(* The sender facing any program that answers in frames.  That program     *)
(* reads nothing, so that up[c] is the whole stream the PC has written on  *)
(* connection c.                                                           *)
(***************************************************************************)
EXTENDS Sender, FiniteSets

CONSTANT DeckFrames(_)    \* DeckFrames(c): the frames that may be answered
                          \* on connection c

ASSUME DeckAssumption == \A c \in Conn : DeckFrames(c) \subseteq Frame

vars == <<linkVars, senderVars>>

TypeOK == LinkTypeOK /\ SenderTypeOK

Init == LinkInit /\ SenderInit

DeckAnswers(c) ==
    /\ sOpen[c]
    /\ rOpen[c]
    /\ down[c] = <<>>
    /\ \E m \in DeckFrames(c) : DeckWrites(c, m)
    /\ UNCHANGED <<up, sOpen, rOpen, backlog, bound, faults, senderVars>>

DeckLeaves(c) ==
    /\ rOpen[c]
    /\ rOpen' = [rOpen EXCEPT ![c] = FALSE]
    /\ broken' = [broken EXCEPT ![c] = TRUE]
    /\ UNCHANGED <<up, down, sOpen, backlog, bound, faults, senderVars>>

\* Its port is closed, and opened again.
DeckListens ==
    /\ bound' = ~bound
    /\ UNCHANGED <<up, down, sOpen, rOpen, broken, backlog, faults, senderVars>>

Next ==
    \/ SenderNext
    \/ \E c \in Conn : DeckAnswers(c) \/ DeckLeaves(c)
    \/ DeckListens

Spec == Init /\ [][Next]_vars

-----------------------------------------------------------------------------
(* The stream of a connection: Hello, the offer, then for each file a      *)
(* start, chunks and an end.                                               *)

\* Where the frames of a kind about file i stand in stream s.
Places(s, kind, i) == {k \in DOMAIN s : s[k].kind = kind /\ s[k].index = i}

\* The bytes of file i in the first n frames of stream s.
Bytes(s, i, n) ==
    UNION {{k} \X DOMAIN s[k].bytes : k \in Places(s, "FileChunk", i) \cap 1 .. n}

\* How many they are.
Carried(s, i, n) == Cardinality(Bytes(s, i, n))

FileFits(s, i, file) ==
    LET starts == Places(s, "FileStart", i)
        ends == Places(s, "FileEnd", i)
    IN  /\ \A k, l \in starts : k = l
        /\ \A k \in Places(s, "FileChunk", i) : \E b \in starts : b < k
        /\ \A b \in starts : s[b].offset + Carried(s, i, Len(s)) <= file.size
        /\ \A e \in ends :
              /\ s[e].hash = file.hash
              /\ \E b \in starts : s[b].offset + Carried(s, i, e) = file.size
        /\ \A k \in DOMAIN s : s[k].kind = "Complete" => ends # {}

\* Whatever offsets the Deck asks for, the chunks of a file never go beyond
\* its offered size, its end is sent when they reach that size exactly, and
\* the completion is sent when that is so for every file.
StreamFitsOffer ==
    \A c \in Conn : Len(up[c]) > 1 =>
        \A i \in DOMAIN up[c][2].files : FileFits(up[c], i, up[c][2].files[i])

\* Every chunk of file i holds what file holds after the bytes sent before it.
ChunksOf(s, i, file) ==
    \A b \in Places(s, "FileStart", i), k \in Places(s, "FileChunk", i) :
        LET at == s[b].offset + Carried(s, i, k - 1)
        IN  s[k].bytes = SubSeq(file, at + 1, at + Len(s[k].bytes))

\* While nobody edits the files, what is sent of a file is what was hashed,
\* from the offset the Deck has asked for.
SentIsHashed ==
    faults = 0 =>
        \A c \in Conn : Len(up[c]) > 1 =>
            \A i \in DOMAIN up[c][2].files :
                ChunksOf(up[c], i, up[c][2].files[i].hash)
=============================================================================
