-------------------------------- MODULE Wire --------------------------------
(***************************************************************************)
(* The frames of the SDFT wire protocol (crates/core/src/protocol.rs) and  *)
(* the data they carry.                                                    *)
(*                                                                         *)
(* A file's bytes are a sequence of blocks.  A BLAKE3 hash is modelled by  *)
(* the content it was computed from, which is to say that different        *)
(* contents have different hashes.  File indices count from 1 here and     *)
(* from 0 in the code.                                                     *)
(***************************************************************************)
EXTENDS Naturals, Sequences

CONSTANTS
    Path,      \* the wire paths (values of SafeRelativePath)
    Block,     \* the unit in which file contents are told apart
    MaxChunk   \* MAX_CHUNK_BYTES, in blocks

ASSUME WireAssumption == MaxChunk \in Nat \ {0}

Content == Seq(Block)

(***************************************************************************)
(* What the PC offers for one file.  It is also the name of the partial    *)
(* file on the Deck: partial_name hashes exactly these three fields.       *)
(***************************************************************************)
FileOffer == [path : Path, size : Nat, hash : Content]

\* f is a function whose domain is a part of D and whose values are in R.
IsPartialMap(f, D, R) ==
    /\ f = [x \in DOMAIN f |-> f[x]]
    /\ DOMAIN f \subseteq D
    /\ \A x \in DOMAIN f : f[x] \in R

\* f with value v for x.
With(f, x, v) == [y \in DOMAIN f \cup {x} |-> IF y = x THEN v ELSE f[y]]

\* More data can be appended to d to make the file that f offers.
CanBecome(d, f) ==
    /\ f.size = Len(f.hash)
    /\ \A k \in DOMAIN d : k \in DOMAIN f.hash /\ d[k] = f.hash[k]

Hello == [kind |-> "Hello"]
HelloAck == [kind |-> "HelloAck"]
OfferFrame(id, files) == [kind |-> "Offer", id |-> id, files |-> files]
AcceptFrame(id, offsets) == [kind |-> "Accept", id |-> id, offsets |-> offsets]
FileStart(index, offset) ==
    [kind |-> "FileStart", index |-> index, offset |-> offset]
FileChunk(index, bytes) ==
    [kind |-> "FileChunk", index |-> index, bytes |-> bytes]
FileEnd(index, hash) == [kind |-> "FileEnd", index |-> index, hash |-> hash]
Complete(count) == [kind |-> "Complete", count |-> count]

(***************************************************************************)
(* The frames a peer can decode.  FrameKind::Error is left out: read_frame *)
(* knows it, and nothing in the repository writes it.                      *)
(***************************************************************************)
Frame ==
    [kind : {"Hello", "HelloAck"}]
      \cup [kind : {"Offer"}, id : Nat, files : Seq(FileOffer)]
      \cup [kind : {"Accept"}, id : Nat, offsets : Seq(Nat)]
      \cup [kind : {"FileStart"}, index : Nat, offset : Nat]
      \cup [kind : {"FileChunk"}, index : Nat, bytes : Content]
      \cup [kind : {"FileEnd"}, index : Nat, hash : Content]
      \cup [kind : {"Complete"}, count : Nat]
=============================================================================
