------------------------------- MODULE Stream -------------------------------
(***************************************************************************)
(* write_frame and read_frame (crates/core/src/protocol.rs) over a byte    *)
(* stream that may end anywhere.  Link has whole frames; this is why it    *)
(* may: the two ends agree where a frame ends.                             *)
(*                                                                         *)
(* The stream is a sequence of the pieces that write_frame writes, of      *)
(* which the payload is one piece for each of its bytes.                   *)
(***************************************************************************)
EXTENDS Naturals, SequencesExt

CONSTANTS
    MaxControl,   \* MAX_CONTROL_PAYLOAD
    MaxChunk,     \* MAX_CHUNK_BYTES
    IndexSize,    \* size_of::<u32>()
    Kind,         \* the kinds of frame
    Sizes,        \* sizes of the payloads that are written
    Peers,        \* what may be at the writing end: this program ("same"), one
                  \* of another version ("newer"), or anything ("any")
    MaxFrames,    \* bound: frames that are written
    MaxPieces     \* bound: pieces that "any" writes

ASSUME StreamAssumption ==
    /\ MaxControl \in Nat /\ MaxChunk \in Nat /\ IndexSize \in Nat
    /\ Sizes \subseteq Nat
    /\ "Hello" \in Kind /\ "FileChunk" \in Kind /\ "Error" \in Kind

VARIABLES
    peer,      \* the writing end
    stream,    \* pieces that have been written and not read
    writing,   \* pieces of the current frame that are left to write
    written,   \* history: the frames begun, with the pieces of their payload
    open,      \* the writing end has not closed the stream
    reads,     \* the piece read_frame reads next
    error,     \* what it returned instead of a frame
    kind,      \* of the frame that is read
    buffer,    \* the size of the payload buffer of that frame
    got,       \* the frames read_frame has returned
    lost       \* history: the stream ended in a way nobody meant it to

vars == <<peer, stream, writing, written, open, reads, error,
          kind, buffer, got, lost>>

Magic == [piece |-> "magic"]
Version(p) == [piece |-> "version", of |-> p]
KindPiece(k) == [piece |-> "kind", kind |-> k]
Length(n) == [piece |-> "length", size |-> n]

\* Byte b of the payload of frame n.
Byte(n, b) == [piece |-> "payload", frame |-> n, at |-> b]

Init ==
    /\ peer \in Peers
    /\ stream = <<>>
    /\ writing = <<>>
    /\ written = <<>>
    /\ open = TRUE
    /\ reads = "magic"
    /\ error = "none"
    /\ kind = "Hello"
    /\ buffer = 0
    /\ got = <<>>
    /\ lost = FALSE

\* What the writing end and the network leave alone.
reading == <<reads, error, kind, buffer, got>>

-----------------------------------------------------------------------------
(* write_frame.  encode_file_chunk keeps to MaxChunk by itself.            *)

WriteLimit(k) == IF k = "FileChunk" THEN MaxChunk + IndexSize ELSE MaxControl

Begin(k, n) ==
    /\ peer # "any" /\ open /\ writing = <<>> /\ Len(written) < MaxFrames
    /\ LET payload == [b \in 1 .. n |-> Byte(Len(written) + 1, b)]
           pieces == <<Magic, Version(peer), KindPiece(k), Length(n)>> \o payload
       IN  IF n > WriteLimit(k)
           THEN /\ open' = FALSE    \* the caller returns the error
                /\ UNCHANGED <<writing, written>>
           ELSE /\ writing' = pieces
                /\ written' = Append(written, [kind |-> k, payload |-> payload])
                /\ UNCHANGED open
    /\ UNCHANGED <<peer, stream, lost, reading>>

\* write_all, as much as the network takes.
WriteSome ==
    /\ open /\ writing # <<>>
    /\ \E m \in {1, Len(writing)} :
         /\ stream' = stream \o SubSeq(writing, 1, m)
         /\ writing' = SubSeq(writing, m + 1, Len(writing))
    /\ UNCHANGED <<peer, written, open, lost, reading>>

\* The program at the writing end is done, or is killed in the middle of a
\* frame.
Close ==
    /\ open
    /\ open' = FALSE
    /\ lost' = (lost \/ writing # <<>>)
    /\ UNCHANGED <<peer, stream, writing, written, reading>>

\* The connection is lost with what is in flight.
Lose ==
    /\ stream # <<>>
    /\ \E m \in 0 .. Len(stream) - 1 : stream' = SubSeq(stream, 1, m)
    /\ open' = FALSE
    /\ lost' = TRUE
    /\ UNCHANGED <<peer, writing, written, reading>>

\* Mutant: Read::read in the place of read_exact.
ReadyWithSome == stream # <<>> \/ buffer = 0

\* Mutant: one byte more.
ReadyWithMore == Len(stream) > buffer

\* read_exact has the whole payload.
Ready == Len(stream) >= buffer

\* The reader waits for more.
Waits == error = "none" /\ IF reads = "payload" THEN ~Ready ELSE stream = <<>>

\* Something that does not speak the protocol.  That it writes when the reader
\* waits makes no difference to the reader.
Scribble ==
    /\ peer = "any" /\ open /\ Waits /\ Len(written) < MaxPieces
    /\ \E piece \in {Magic, Version("same"), Byte(0, 0)}
             \cup {KindPiece(k) : k \in Kind \cup {"unknown"}}
             \cup {Length(n) : n \in Sizes} :
         stream' = Append(stream, piece)
    /\ written' = Append(written, [kind |-> "any", payload |-> <<>>])
    /\ UNCHANGED <<peer, writing, open, lost, reading>>

-----------------------------------------------------------------------------
(* read_frame.  A piece other than the one it reads next stands for bytes  *)
(* that make no sense there.                                               *)

\* Mutant: the index is not counted.
LimitOfBytes(k) == IF k = "FileChunk" THEN MaxChunk ELSE MaxControl

ReadLimit(k) == IF k = "FileChunk" THEN MaxChunk + IndexSize ELSE MaxControl

\* The next piece, which makes sense or is an error.
Read(what, fits, wrong) ==
    /\ reads = what /\ error = "none" /\ stream # <<>>
    /\ stream' = Tail(stream)
    /\ error' = IF Head(stream).piece = what /\ fits THEN "none" ELSE wrong
    /\ UNCHANGED <<peer, writing, written, open, got, lost>>

Goto(piece) == reads' = IF error' = "none" THEN piece ELSE reads

ReadMagic ==
    /\ Read("magic", TRUE, "BadMagic")
    /\ Goto("version")
    /\ UNCHANGED <<kind, buffer>>

\* Mutant: any version will do.
AnyVersion(piece) == TRUE

Speaks(piece) == piece = Version("same")

ReadVersion ==
    /\ Read("version", Speaks(Head(stream)), "UnsupportedVersion")
    /\ Goto("kind")
    /\ UNCHANGED <<kind, buffer>>

ReadKind ==
    /\ Read("kind", Head(stream) \in {KindPiece(k) : k \in Kind}, "UnknownKind")
    /\ Goto("length")
    /\ kind' = IF error' = "none" THEN Head(stream).kind ELSE kind
    /\ UNCHANGED buffer

\* Mutant: the limit of the other kinds.
FitsControl(n) == n <= MaxControl

Fits(n) == n <= ReadLimit(kind)

\* The buffer is allocated when the length is known to be within the limit.
ReadLength ==
    /\ LET piece == Head(stream) IN
       /\ Read("length", piece.piece = "length" /\ Fits(piece.size), "OversizedFrame")
       /\ buffer' = IF error' = "none" THEN piece.size ELSE buffer
    /\ Goto("payload")
    /\ UNCHANGED kind

Payload == [k \in DOMAIN stream \cap (1 .. buffer) |-> stream[k]]

ReadPayload ==
    /\ reads = "payload" /\ error = "none" /\ Ready
    /\ stream' = SubSeq(stream, Len(Payload) + 1, Len(stream))
    /\ IF kind = "Error"
       THEN error' = "Remote" /\ UNCHANGED <<reads, got>>
       ELSE /\ reads' = "magic"
            /\ got' = Append(got, [kind |-> kind, payload |-> Payload])
            /\ UNCHANGED error
    /\ buffer' = 0
    /\ UNCHANGED <<peer, writing, written, open, kind, lost>>

\* read_exact meets the end of the stream.
ReadEnd ==
    /\ Waits /\ ~open
    /\ error' = "UnexpectedEof"
    /\ stream' = <<>>
    /\ UNCHANGED <<peer, writing, written, open, reads, kind, buffer, got, lost>>

Reader == ReadMagic \/ ReadVersion \/ ReadKind \/ ReadLength \/ ReadPayload \/ ReadEnd

Next ==
    \/ \E k \in Kind, n \in Sizes : Begin(k, n)
    \/ WriteSome
    \/ Close
    \/ Lose
    \/ Scribble
    \/ Reader

\* The reader's thread only reads; a write that has begun goes on.
Spec == Init /\ [][Next]_vars /\ WF_vars(Reader) /\ WF_vars(WriteSome)

-----------------------------------------------------------------------------
\* The reader has room for the frame it reads and never for more than a frame
\* may have, whatever the other end writes.
TypeOK ==
    /\ reads \in {"magic", "version", "kind", "length", "payload"}
    /\ error \in {"none", "BadMagic", "UnsupportedVersion", "UnknownKind",
                  "OversizedFrame", "Remote", "UnexpectedEof"}
    /\ kind \in Kind
    /\ buffer \in 0 .. IF kind = "FileChunk" THEN MaxChunk + IndexSize ELSE MaxControl
    /\ \A k \in DOMAIN got : got[k].kind \in Kind \ {"Error"}

\* What read_frame returns is what write_frame was given, frame by frame,
\* however the bytes are cut up on the way and wherever they end.
GotIsWritten == peer = "same" => IsPrefix(got, written)

\* A frame that write_frame lets go is one that read_frame lets in: between
\* two of these programs it returns no error but the one the other end sent,
\* and the end of the stream, which is between two frames unless the stream
\* was broken.
ErrorsAreReal ==
    peer = "same" =>
        /\ error \in {"none", "Remote", "UnexpectedEof"}
        /\ error = "Remote" => written[Len(got) + 1].kind = "Error"
        /\ error = "UnexpectedEof" => ~open /\ (lost \/ reads = "magic")

\* Two programs of different versions find out before a frame gets through
\* ("fails clearly instead of guessing compatibility").
VersionsFailClearly ==
    peer = "newer" => got = <<>> /\ error \in {"none", "UnsupportedVersion", "UnexpectedEof"}

\* Every frame that is written is returned in the end, unless the stream is
\* lost or the frame comes after an error.
EveryFrameArrives ==
    \A n \in 1 .. MaxFrames :
        (peer = "same" /\ Len(written) = n /\ error = "none") ~>
            (Len(got) >= n \/ lost \/ error = "Remote")
=============================================================================
