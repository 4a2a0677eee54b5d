------------------------------- MODULE Sender -------------------------------
(***************************************************************************)
(* The PC's side of a transfer: send_paths (crates/core/src/sender.rs) and *)
(* the user who runs it again until it succeeds, from the command line or  *)
(* the window of apps/pc.  One behaviour is one job: the same files, sent  *)
(* as often as it takes.                                                   *)
(*                                                                         *)
(* The files are read three times, to learn their size, to hash them and   *)
(* to send them, and may be edited at any point in between.                *)
(***************************************************************************)
EXTENDS Link

CONSTANTS
    Queue,      \* the files of the job, sorted by their wire paths
    Versions    \* Versions[p]: the contents file p may have

ASSUME SenderAssumption ==
    /\ Queue \in Seq(Path)
    /\ Queue # <<>>
    /\ \A i, j \in DOMAIN Queue : Queue[i] = Queue[j] => i = j
    /\ Versions \in [Path -> SUBSET Content]

VARIABLES
    sPc,        \* where send_paths is
    sConn,      \* the last connection made; it also names the transfer
    source,     \* source[p]: what file p holds now
    sOffer,     \* the offer as far as it is collected, by position in Queue
    sSize,      \* size of the file that is being hashed
    sHash,      \* what its hasher has been fed
    sOffsets,   \* the resume offsets of the Accept frame
    sIndex,     \* the file that is being collected or sent
    sPos        \* position in the file that is being sent

senderVars == <<sPc, sConn, source, sOffer, sSize, sHash, sOffsets, sIndex, sPos>>

SenderTypeOK ==
    /\ sPc \in {"idle", "collect", "hash", "connect", "ack", "accept", "open",
                "chunks", "complete", "confirm", "done"}
    /\ sConn \in Conn \cup {NoConn}
    /\ source \in [Path -> Content]
    /\ IsPartialMap(sOffer, DOMAIN Queue, FileOffer)
    /\ sSize \in Nat
    /\ sHash \in Content
    /\ sOffsets \in Seq(Nat)
    /\ sIndex \in 0 .. Len(Queue)
    /\ sPos \in Nat

SenderInit ==
    /\ sPc = "idle"
    /\ sConn = NoConn
    /\ source \in {s \in [Path -> UNION {Versions[p] : p \in Path}] :
                      \A p \in Path : s[p] \in Versions[p]}
    /\ sOffer = <<>>
    /\ sSize = 0
    /\ sHash = <<>>
    /\ sOffsets = <<>>
    /\ sIndex = 0
    /\ sPos = 0

\* The PC waits in a read, with nothing to read.
SenderWaits ==
    /\ sPc \in {"ack", "accept", "confirm"}
    /\ down[sConn] = <<>>

SenderConnected ==
    sPc \in {"ack", "accept", "open", "chunks", "complete", "confirm"}

-----------------------------------------------------------------------------
(* Leaving send_paths drops the stream and everything else it holds. *)

SenderForgets ==
    /\ sSize' = 0
    /\ sHash' = <<>>
    /\ sOffsets' = <<>>
    /\ sIndex' = 0
    /\ sPos' = 0

SenderFails(unread) ==
    /\ PcCloses(sConn, unread)
    /\ sPc' = "idle"
    /\ sOffer' = <<>>
    /\ SenderForgets
    /\ UNCHANGED <<up, rOpen, backlog, bound, sConn, source>>

\* Leaving before there is a stream; nobody but the user learns of it.
SenderGivesUp ==
    /\ sPc' = "idle"
    /\ sOffer' = <<>>
    /\ SenderForgets
    /\ UNCHANGED <<up, down, sOpen, rOpen, broken, backlog, bound, sConn, source>>

-----------------------------------------------------------------------------
(* collect_sources. *)

\* The user starts the job, or starts it again after it failed.
Send ==
    /\ sPc = "idle"
    /\ sPc' = "collect"
    /\ UNCHANGED <<linkVars, sConn, source, sOffer, sSize, sHash, sOffsets,
                   sIndex, sPos>>

\* The order in which the inputs are walked is the user's and the file
\* system's; the final sort puts each file at its place in Queue.
StatSource(i) ==
    /\ sPc = "collect"
    /\ i \notin DOMAIN sOffer
    /\ sPc' = "hash"
    /\ sIndex' = i
    /\ sSize' = Len(source[Queue[i]])
    /\ sHash' = <<>>
    /\ UNCHANGED <<linkVars, sConn, source, sOffer, sOffsets, sPos>>

\* One read of hash_file; the end of the file completes the offer's entry.
HashSource ==
    LET file == source[Queue[sIndex]]
        read == Len(sHash)
        entry == [path |-> Queue[sIndex], size |-> sSize, hash |-> sHash]
    IN  /\ sPc = "hash"
        /\ \/ /\ read < Len(file)
              /\ sHash' = Append(sHash, file[read + 1])
              /\ UNCHANGED <<sPc, sOffer, sSize, sIndex>>
           \/ /\ read >= Len(file)
              /\ sOffer' = [i \in DOMAIN sOffer \cup {sIndex} |->
                               IF i = sIndex THEN entry ELSE sOffer[i]]
              /\ sPc' = IF DOMAIN sOffer' = DOMAIN Queue THEN "connect"
                                                        ELSE "collect"
              /\ sIndex' = 0
              /\ sSize' = 0
              /\ sHash' = <<>>
        /\ UNCHANGED <<linkVars, sConn, source, sOffsets, sPos>>

-----------------------------------------------------------------------------
(* Connecting and the handshake. *)

Connect ==
    /\ sPc = "connect"
    /\ bound
    /\ sConn < MaxConns
    /\ sConn' = sConn + 1
    /\ Establish(sConn', Hello)
    /\ sPc' = "ack"
    /\ UNCHANGED <<down, broken, bound, faults>>
    /\ UNCHANGED <<source, sOffer, sSize, sHash, sOffsets, sIndex, sPos>>

ConnectRefused ==
    /\ sPc = "connect"
    /\ ~bound
    /\ SenderGivesUp
    /\ UNCHANGED faults

\* The frames the PC takes where it is; every other frame ends the transfer.
SenderTakes(m) ==
    \/ sPc = "ack" /\ m = HelloAck
    \/ /\ sPc = "accept"
       /\ m.kind = "Accept"
       /\ m.id = sConn
       /\ Len(m.offsets) = Len(sOffer)
    \/ sPc = "confirm" /\ m = Complete(Len(sOffer))

\* A frame has arrived for a PC that waits for one.
SenderHasFrame ==
    /\ sPc \in {"ack", "accept", "confirm"}
    /\ down[sConn] # <<>>

RecvHelloAck ==
    /\ sPc = "ack"
    /\ SenderHasFrame
    /\ SenderTakes(Head(down[sConn]))
    /\ CanWrite(sConn)
    /\ PcReads(sConn)
    /\ PcWrites(sConn, OfferFrame(sConn, sOffer))
    /\ sPc' = "accept"
    /\ UNCHANGED <<sOpen, rOpen, backlog, bound, faults>>
    /\ UNCHANGED <<sConn, source, sOffer, sSize, sHash, sOffsets, sIndex, sPos>>

RecvAccept ==
    /\ sPc = "accept"
    /\ SenderHasFrame
    /\ SenderTakes(Head(down[sConn]))
    /\ PcReads(sConn)
    /\ sOffsets' = Head(down[sConn]).offsets
    /\ sPc' = "open"
    /\ sIndex' = 1
    /\ UNCHANGED <<up, sOpen, rOpen, broken, backlog, bound, faults>>
    /\ UNCHANGED <<sConn, source, sOffer, sSize, sHash, sPos>>

-----------------------------------------------------------------------------
(* The files.  A frame is read from the file and written to the stream in  *)
(* one step: what the file held while the write was blocked is what it     *)
(* held a little earlier.                                                  *)

SenderWrites(m) ==
    /\ CanWrite(sConn)
    /\ PcWrites(sConn, m)
    /\ UNCHANGED <<down, sOpen, rOpen, backlog, bound, faults>>
    /\ UNCHANGED <<sConn, source, sOffer, sSize, sHash, sOffsets>>

CurrentSource == source[sOffer[sIndex].path]

\* The opened file can be sent from the offset the Deck asked for.
Sendable ==
    /\ sOffsets[sIndex] <= sOffer[sIndex].size
    /\ Len(CurrentSource) = sOffer[sIndex].size

OpenFile ==
    /\ sPc = "open"
    /\ Sendable
    /\ SenderWrites(FileStart(sIndex, sOffsets[sIndex]))
    /\ sPos' = sOffsets[sIndex]
    /\ sPc' = "chunks"
    /\ UNCHANGED sIndex

\* Mutant: the file is sent to its end, whatever its size was.
ChunkEndsOfFile == {e \in sPos + 1 .. sPos + MaxChunk : e <= Len(CurrentSource)}

\* A read returns any part of what is left of the file, up to MAX_CHUNK_BYTES
\* and never beyond the size that was offered.
ChunkEnds ==
    {e \in sPos + 1 .. sPos + MaxChunk :
        e <= sOffer[sIndex].size /\ e <= Len(CurrentSource)}

\* Mutant: no seek to the resume offset.
BytesFromStart(e) == SubSeq(CurrentSource, sPos + 1 - sOffsets[sIndex],
                                           e - sOffsets[sIndex])

BytesUpTo(e) == SubSeq(CurrentSource, sPos + 1, e)

SendChunk ==
    /\ sPc = "chunks"
    /\ \E e \in ChunkEnds :
          /\ SenderWrites(FileChunk(sIndex, BytesUpTo(e)))
          /\ sPos' = e
    /\ UNCHANGED <<sPc, sIndex>>

\* SourceChanged: the file has another size than was offered, or is at its
\* end before the offered size was read.
SourceChanged ==
    /\ \/ sPc = "open" /\ ~Sendable
       \/ sPc = "chunks" /\ sPos < sOffer[sIndex].size /\ ChunkEnds = {}
    /\ SenderFails(down[sConn])
    /\ UNCHANGED faults

\* Mutant: the loop goes one beyond the last file.
IndexPlusOne == sIndex + 1

NextIndex == IF sIndex < Len(sOffer) THEN sIndex + 1 ELSE 0

SendFileEnd ==
    /\ sPc = "chunks"
    /\ sPos = sOffer[sIndex].size
    /\ SenderWrites(FileEnd(sIndex, sOffer[sIndex].hash))
    /\ sPos' = 0
    /\ sIndex' = NextIndex
    /\ sPc' = IF sIndex < Len(sOffer) THEN "open" ELSE "complete"

SendComplete ==
    /\ sPc = "complete"
    /\ SenderWrites(Complete(Len(sOffer)))
    /\ sPc' = "confirm"
    /\ UNCHANGED <<sIndex, sPos>>

\* The Deck confirms: send_paths returns Ok, and the user is told.
RecvComplete ==
    /\ sPc = "confirm"
    /\ SenderHasFrame
    /\ SenderTakes(Head(down[sConn]))
    /\ PcCloses(sConn, Tail(down[sConn]))
    /\ sPc' = "done"
    /\ SenderForgets
    /\ UNCHANGED <<up, rOpen, backlog, bound, faults, sConn, source, sOffer>>

-----------------------------------------------------------------------------
(* Failures. *)

\* A frame of the wrong kind, transfer or count.
SenderReject ==
    /\ SenderHasFrame
    /\ ~SenderTakes(Head(down[sConn]))
    /\ SenderFails(Tail(down[sConn]))
    /\ UNCHANGED faults

\* A write can fail only after a reset; a read also at the end of the stream.
SenderLinkError ==
    /\ SenderConnected
    /\ broken[sConn] \/ (SenderWaits /\ PcSeesError(sConn))
    /\ SenderFails(down[sConn])
    /\ UNCHANGED faults

\* The minute of set_read_timeout passes although the Deck is alive: it is
\* hashing a long prefix, syncing, or busy with an earlier connection.
SenderTimeout ==
    /\ SenderWaits
    /\ ~PcSeesError(sConn)
    /\ SenderFails(<<>>)
    /\ Fault

\* A source cannot be inspected, opened or read, or is not what collect_sources
\* takes: it is gone, unreadable, or a symbolic link by now.
SourceUnreadable ==
    /\ Fault
    /\ \/ sPc \in {"collect", "hash"} /\ SenderGivesUp
       \/ /\ \/ sPc = "open"
             \/ sPc = "chunks" /\ sPos < sOffer[sIndex].size
          /\ SenderFails(down[sConn])

\* The user closes the window or interrupts the command, which is the only way
\* to cancel a job; the process ends and its socket is closed.
Quit ==
    /\ Fault
    /\ \/ sPc \in {"collect", "hash", "connect"} /\ SenderGivesUp
       \/ SenderConnected /\ SenderFails(down[sConn])

\* Somebody edits a file of the job.
EditSource(p) ==
    /\ sPc # "done"
    /\ \E v \in Versions[p] \ {source[p]} :
          source' = [source EXCEPT ![p] = v]
    /\ Fault
    /\ UNCHANGED <<up, down, sOpen, rOpen, broken, backlog, bound>>
    /\ UNCHANGED <<sPc, sConn, sOffer, sSize, sHash, sOffsets, sIndex, sPos>>

-----------------------------------------------------------------------------
\* What send_paths does on its own once it was started.
SenderStep ==
    \/ \E i \in DOMAIN Queue : StatSource(i)
    \/ HashSource
    \/ Connect
    \/ ConnectRefused
    \/ RecvHelloAck
    \/ RecvAccept
    \/ OpenFile
    \/ SendChunk
    \/ SourceChanged
    \/ SendFileEnd
    \/ SendComplete
    \/ RecvComplete
    \/ SenderReject
    \/ SenderLinkError

SenderNext ==
    \/ Send
    \/ SenderStep
    \/ SenderTimeout
    \/ SourceUnreadable
    \/ Quit
    \/ \E p \in Path : EditSource(p)
=============================================================================
