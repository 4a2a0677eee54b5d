----------------------------- MODULE EngineProofs ---------------------------
(***************************************************************************)
(* The two halves of the transfer engine, each over any link that carries  *)
(* frames, and neither with anything that is known of the other: what is   *)
(* shown of one says nothing of the other's state.                         *)
(*                                                                         *)
(* The sender's type invariant is inductive, with what its control state   *)
(* says about the offer; what it writes is what its offer and its offsets  *)
(* make of it.                                                             *)
(*                                                                         *)
(* The receiver's invariant is inductive for every step of the receiver    *)
(* and of its environment, until a file is stored at the name of a partial *)
(* file.  With it, every such step is a step of Delivery, and what is      *)
(* stored is safe.                                                         *)
(***************************************************************************)
EXTENDS Sender, Receiver, SequenceTheorems, TLAPS

-----------------------------------------------------------------------------
(* The sender. *)

SenderShape ==
    /\ sPc \notin {"idle", "collect", "hash"} => DOMAIN sOffer = DOMAIN Queue
    /\ sPc \in {"hash", "open", "chunks"} => sIndex \in DOMAIN Queue
    /\ SenderConnected => sConn \in Conn
    /\ sPc \in {"open", "chunks"} => Len(sOffsets) = Len(sOffer)

SenderInv == SenderTypeOK /\ SenderShape

-----------------------------------------------------------------------------
(* What the PC does to a connection keeps the type of the link. *)

\* The frames the two programs write are frames.
LEMMA FrameKinds ==
    /\ Hello \in Frame
    /\ HelloAck \in Frame
    /\ \A id \in Nat, files \in Seq(FileOffer) : OfferFrame(id, files) \in Frame
    /\ \A id \in Nat, offsets \in Seq(Nat) : AcceptFrame(id, offsets) \in Frame
    /\ \A i, offset \in Nat : FileStart(i, offset) \in Frame
    /\ \A i \in Nat, bytes \in Content : FileChunk(i, bytes) \in Frame
    /\ \A i \in Nat, hash \in Content : FileEnd(i, hash) \in Frame
    /\ \A count \in Nat : Complete(count) \in Frame
  BY DEF Frame, Hello, HelloAck, OfferFrame, AcceptFrame, FileStart, FileChunk,
         FileEnd, Complete

\* What the fields of a frame hold, by its kind.
LEMMA FrameFields ==
    ASSUME NEW m \in Frame
    PROVE  /\ m.kind = "Offer" => m.id \in Nat /\ m.files \in Seq(FileOffer)
           /\ m.kind = "Accept" => m.id \in Nat /\ m.offsets \in Seq(Nat)
           /\ m.kind = "FileStart" => m.index \in Nat /\ m.offset \in Nat
           /\ m.kind = "FileChunk" => m.index \in Nat /\ m.bytes \in Content
           /\ m.kind = "FileEnd" => m.index \in Nat /\ m.hash \in Content
           /\ m.kind = "Complete" => m.count \in Nat
  BY DEF Frame

\* A queue of frames that is not empty.
LEMMA QueueHead ==
    ASSUME NEW q \in [Conn -> Seq(Frame)], NEW c \in Conn, q[c] # <<>>
    PROVE  Head(q[c]) \in Frame /\ Tail(q[c]) \in Seq(Frame)
<1>1. q[c] \in Seq(Frame)
  OBVIOUS
<1> QED BY <1>1, HeadTailProperties

\* A new connection.
LEMMA EstablishType ==
    ASSUME LinkTypeOK, NEW c \in Conn, NEW m \in Frame, Establish(c, m),
           UNCHANGED <<down, broken, bound, faults>>
    PROVE  LinkTypeOK'
<1>1. <<m>> \in Seq(Frame)
  OBVIOUS
<1>2. backlog' \in Seq(Conn)
  BY AppendProperties DEF LinkTypeOK, Establish
<1> QED BY <1>1, <1>2 DEF LinkTypeOK, Establish

\* A frame written by the PC.
LEMMA PcWritesType ==
    ASSUME LinkTypeOK, NEW c \in Conn, NEW m \in Frame, PcWrites(c, m)
    PROVE  up' \in [Conn -> Seq(Frame)] /\ broken' \in [Conn -> BOOLEAN]
<1>1. Append(up[c], m) \in Seq(Frame)
  BY AppendProperties DEF LinkTypeOK
<1> QED BY <1>1 DEF LinkTypeOK, PcWrites

\* A frame read by the PC.
LEMMA PcReadsType ==
    ASSUME LinkTypeOK, NEW c \in Conn, down[c] # <<>>, PcReads(c)
    PROVE  down' \in [Conn -> Seq(Frame)]
  BY QueueHead DEF LinkTypeOK, PcReads

\* The PC closes its end.
LEMMA PcClosesType ==
    ASSUME LinkTypeOK, NEW c \in Conn, NEW unread, PcCloses(c, unread),
           UNCHANGED <<up, rOpen, backlog, bound>>, faults' \in 0 .. MaxFaults
    PROVE  LinkTypeOK'
  BY EmptySeq DEF LinkTypeOK, PcCloses

-----------------------------------------------------------------------------
(* The offer. *)

\* A complete offer is a sequence, one entry for each file of the queue.
LEMMA WholeOffer ==
    ASSUME SenderTypeOK, DOMAIN sOffer = DOMAIN Queue
    PROVE  /\ sOffer \in Seq(FileOffer)
           /\ Len(sOffer) = Len(Queue)
           /\ Len(sOffer) \in Nat
           /\ DOMAIN Queue = 1 .. Len(Queue)
<1>1. Queue \in Seq(Path)
  BY SenderAssumption
<1>2. Len(Queue) \in Nat /\ DOMAIN Queue = 1 .. Len(Queue)
  BY <1>1, LenProperties
<1>3. sOffer \in [1 .. Len(Queue) -> FileOffer]
  BY <1>2 DEF SenderTypeOK, IsPartialMap
<1>4. sOffer \in Seq(FileOffer)
  BY <1>2, <1>3, SeqDef
<1>5. Len(sOffer) = Len(Queue)
  BY <1>2, <1>3, <1>4, LenProperties
<1> QED BY <1>2, <1>4, <1>5

\* The file that is being sent.
LEMMA CurrentEntry ==
    ASSUME SenderInv, sPc \in {"open", "chunks"}
    PROVE  /\ sOffer[sIndex] \in FileOffer
           /\ sIndex \in Nat
           /\ sIndex \in 1 .. Len(sOffer)
           /\ sOffsets[sIndex] \in Nat
           /\ CurrentSource \in Content
<1>1. /\ sIndex \in 1 .. Len(sOffer)
      /\ sOffer \in Seq(FileOffer)
      /\ Len(sOffer) \in Nat
      /\ Len(sOffsets) = Len(sOffer)
      /\ sOffsets \in Seq(Nat)
  BY WholeOffer DEF SenderInv, SenderShape, SenderTypeOK
<1>2. sOffer[sIndex] \in FileOffer /\ sOffsets[sIndex] \in Nat
  BY <1>1, ElementOfSeq
<1> QED BY <1>1, <1>2 DEF CurrentSource, FileOffer, SenderInv, SenderTypeOK

\* The invariant holds before the first job.
LEMMA SenderInit_Inv ==
    ASSUME SenderInit
    PROVE  SenderInv
<1>1. source \in [Path -> Content]
  BY SenderAssumption DEF SenderInit
<1>2. IsPartialMap(sOffer, DOMAIN Queue, FileOffer)
  BY DEF SenderInit, IsPartialMap
<1>3. sIndex \in 0 .. Len(Queue)
  BY SenderAssumption, LenProperties DEF SenderInit
<1> QED BY <1>1, <1>2, <1>3, EmptySeq
        DEF SenderInit, SenderInv, SenderTypeOK, SenderShape, SenderConnected,
            NoConn, Content

\* Every way out of send_paths with an error.
LEMMA FailsInv ==
    ASSUME LinkTypeOK, SenderInv, SenderConnected, NEW unread,
           SenderFails(unread), faults' = faults \/ Fault
    PROVE  LinkTypeOK' /\ SenderInv'
<1>1. faults' \in 0 .. MaxFaults
  BY LinkAssumption DEF LinkTypeOK, Fault
<1>2. LinkTypeOK'
  BY <1>1, PcClosesType DEF SenderFails, SenderInv, SenderShape
<1>3. IsPartialMap(sOffer', DOMAIN Queue, FileOffer)
  BY DEF SenderFails, IsPartialMap
<1>4. Len(Queue) \in Nat
  BY SenderAssumption, LenProperties
<1> QED BY <1>2, <1>3, <1>4, EmptySeq
        DEF SenderFails, SenderForgets, SenderInv, SenderTypeOK, SenderShape,
            SenderConnected, Content

\* Writing a frame of a file.
LEMMA SenderWritesInv ==
    ASSUME LinkTypeOK, SenderInv, SenderConnected, NEW m \in Frame,
           SenderWrites(m),
           sPc' \in {"open", "chunks", "complete", "confirm"},
           sPos' \in Nat, sIndex' \in 0 .. Len(Queue),
           sPc' \in {"open", "chunks"} =>
              /\ sPc \in {"open", "chunks"}
              /\ sIndex' \in DOMAIN Queue
    PROVE  LinkTypeOK' /\ SenderInv'
<1>1. up' \in [Conn -> Seq(Frame)] /\ broken' \in [Conn -> BOOLEAN]
  BY PcWritesType DEF SenderWrites, SenderInv, SenderShape
<1>2. LinkTypeOK'
  BY <1>1 DEF SenderWrites, LinkTypeOK
<1> QED BY <1>2
        DEF SenderWrites, SenderInv, SenderTypeOK, SenderShape, SenderConnected

\* HashSource keeps the invariant.
LEMMA HashSourceInv ==
    ASSUME SenderInv, HashSource
    PROVE  SenderInv'
<1> DEFINE file == source[Queue[sIndex]]
           read == Len(sHash)
           entry == [path |-> Queue[sIndex], size |-> sSize, hash |-> sHash]
<1>1. /\ sPc = "hash"
      /\ sIndex \in DOMAIN Queue
      /\ Queue[sIndex] \in Path
      /\ file \in Content
      /\ sHash \in Content
      /\ sSize \in Nat
      /\ Len(Queue) \in Nat
  BY SenderAssumption, ElementOfSeq, LenProperties
     DEF HashSource, SenderInv, SenderTypeOK, SenderShape
<1>2. CASE /\ read < Len(file)
           /\ sHash' = Append(sHash, file[read + 1])
           /\ UNCHANGED <<sPc, sOffer, sSize, sIndex>>
  <2>1. read + 1 \in 1 .. Len(file)
    BY <1>1, <1>2, LenProperties DEF Content
  <2>2. file[read + 1] \in Block
    BY <1>1, <2>1, ElementOfSeq DEF Content
  <2>3. sHash' \in Content
    BY <1>1, <1>2, <2>2, AppendProperties DEF Content
  <2> QED BY <1>2, <2>3
          DEF HashSource, SenderInv, SenderTypeOK, SenderShape, SenderConnected
<1>3. CASE /\ sOffer' = [i \in DOMAIN sOffer \cup {sIndex} |->
                            IF i = sIndex THEN entry ELSE sOffer[i]]
           /\ sPc' = IF DOMAIN sOffer' = DOMAIN Queue THEN "connect"
                                                     ELSE "collect"
           /\ sIndex' = 0
           /\ sSize' = 0
           /\ sHash' = <<>>
  <2>1. entry \in FileOffer
    BY <1>1 DEF FileOffer
  <2>2. IsPartialMap(sOffer', DOMAIN Queue, FileOffer)
    BY <1>1, <1>3, <2>1 DEF SenderInv, SenderTypeOK, IsPartialMap
  <2>3. sPc' \in {"connect", "collect"}
        /\ (sPc' = "connect" => DOMAIN sOffer' = DOMAIN Queue)
    BY <1>3
  <2>4. <<>> \in Content
    BY EmptySeq DEF Content
  <2> QED BY <1>1, <1>3, <2>2, <2>3, <2>4
          DEF HashSource, SenderInv, SenderTypeOK, SenderShape, SenderConnected
<1> QED BY <1>2, <1>3 DEF HashSource

\* StatSource keeps the invariant.
LEMMA StatSourceInv ==
    ASSUME SenderInv, NEW i \in DOMAIN Queue, StatSource(i)
    PROVE  SenderInv'
<1>1. /\ source[Queue[i]] \in Content
      /\ DOMAIN Queue = 1 .. Len(Queue)
      /\ Len(Queue) \in Nat
  BY SenderAssumption, ElementOfSeq, LenProperties DEF SenderInv, SenderTypeOK
<1>2. Len(source[Queue[i]]) \in Nat /\ <<>> \in Content
  BY <1>1, LenProperties, EmptySeq DEF Content
<1> QED BY <1>1, <1>2
        DEF StatSource, SenderInv, SenderTypeOK, SenderShape, SenderConnected

\* Connect keeps the invariant.
LEMMA ConnectInv ==
    ASSUME LinkTypeOK, SenderInv, Connect
    PROVE  LinkTypeOK' /\ SenderInv'
<1>1. sConn' \in Conn
  BY LinkAssumption DEF Connect, Conn, NoConn, SenderInv, SenderTypeOK
<1>2. LinkTypeOK'
  BY <1>1, FrameKinds, EstablishType DEF Connect
<1> QED BY <1>1, <1>2
        DEF Connect, SenderInv, SenderTypeOK, SenderShape, SenderConnected

\* Every way out before the connection is made.
LEMMA GivesUpInv ==
    ASSUME LinkTypeOK, SenderInv, SenderGivesUp, faults' = faults \/ Fault
    PROVE  LinkTypeOK' /\ SenderInv'
<1>1. LinkTypeOK'
  BY LinkAssumption DEF SenderGivesUp, LinkTypeOK, Fault
<1>2. IsPartialMap(sOffer', DOMAIN Queue, FileOffer)
  BY DEF SenderGivesUp, IsPartialMap
<1>3. Len(Queue) \in Nat
  BY SenderAssumption, LenProperties
<1> QED BY <1>1, <1>2, <1>3, EmptySeq
        DEF SenderGivesUp, SenderForgets, SenderInv, SenderTypeOK, SenderShape,
            SenderConnected, Content

\* RecvHelloAck keeps the invariant.
LEMMA RecvHelloAckInv ==
    ASSUME LinkTypeOK, SenderInv, RecvHelloAck
    PROVE  LinkTypeOK' /\ SenderInv'
<1>1. sConn \in Conn /\ down[sConn] # <<>>
  BY DEF RecvHelloAck, SenderHasFrame, SenderInv, SenderShape, SenderConnected
<1>2. OfferFrame(sConn, sOffer) \in Frame
  BY <1>1, WholeOffer, FrameKinds
     DEF RecvHelloAck, SenderInv, SenderShape, Conn
<1>3. up' \in [Conn -> Seq(Frame)] /\ broken' \in [Conn -> BOOLEAN]
  BY <1>1, <1>2, PcWritesType DEF RecvHelloAck
<1>4. down' \in [Conn -> Seq(Frame)]
  BY <1>1, PcReadsType DEF RecvHelloAck
<1> QED BY <1>3, <1>4
        DEF RecvHelloAck, LinkTypeOK, SenderInv, SenderTypeOK, SenderShape,
            SenderConnected

\* RecvAccept keeps the invariant.
LEMMA RecvAcceptInv ==
    ASSUME LinkTypeOK, SenderInv, RecvAccept
    PROVE  LinkTypeOK' /\ SenderInv'
<1>1. sConn \in Conn /\ down[sConn] # <<>>
  BY DEF RecvAccept, SenderHasFrame, SenderInv, SenderShape, SenderConnected
<1>2. Head(down[sConn]) \in Frame
  BY <1>1, QueueHead DEF LinkTypeOK
<1>3. sOffsets' \in Seq(Nat) /\ Len(sOffsets') = Len(sOffer)
  BY <1>2, FrameFields DEF RecvAccept, SenderTakes
<1>4. down' \in [Conn -> Seq(Frame)]
  BY <1>1, PcReadsType DEF RecvAccept
<1>5. 1 \in DOMAIN Queue /\ DOMAIN Queue = 1 .. Len(Queue) /\ Len(Queue) \in Nat
  BY SenderAssumption, LenProperties, EmptySeq
<1> QED BY <1>3, <1>4, <1>5
        DEF RecvAccept, LinkTypeOK, SenderInv, SenderTypeOK, SenderShape,
            SenderConnected

\* The queue is a sequence.
LEMMA QueueLength == Len(Queue) \in Nat /\ DOMAIN Queue = 1 .. Len(Queue)
  BY SenderAssumption, LenProperties

\* OpenFile keeps the invariant.
LEMMA OpenFileInv ==
    ASSUME LinkTypeOK, SenderInv, OpenFile
    PROVE  LinkTypeOK' /\ SenderInv'
<1>1. FileStart(sIndex, sOffsets[sIndex]) \in Frame
  BY CurrentEntry, FrameKinds DEF OpenFile
<1>2. sPos' \in Nat /\ sIndex' \in DOMAIN Queue /\ sIndex' \in 0 .. Len(Queue)
  BY CurrentEntry, QueueLength
     DEF OpenFile, SenderInv, SenderShape, SenderTypeOK
<1> QED BY <1>1, <1>2, SenderWritesInv DEF OpenFile, SenderConnected

\* SendChunk keeps the invariant.
LEMMA SendChunkInv ==
    ASSUME LinkTypeOK, SenderInv, SendChunk
    PROVE  LinkTypeOK' /\ SenderInv'
<1>1. PICK e \in ChunkEnds :
         /\ SenderWrites(FileChunk(sIndex, SubSeq(CurrentSource, sPos + 1, e)))
         /\ sPos' = e
  BY DEF SendChunk, BytesUpTo
<1>2. sPos \in Nat /\ e \in Nat /\ sPos + 1 <= e /\ e <= Len(CurrentSource)
  BY WireAssumption DEF ChunkEnds, SenderInv, SenderTypeOK
<1>3. SubSeq(CurrentSource, sPos + 1, e) \in Content
  BY <1>2, CurrentEntry, LenProperties, SubSeqProperties DEF SendChunk, Content
<1>4. FileChunk(sIndex, SubSeq(CurrentSource, sPos + 1, e)) \in Frame
  BY <1>3, CurrentEntry, FrameKinds DEF SendChunk
<1>5. sIndex' \in DOMAIN Queue /\ sIndex' \in 0 .. Len(Queue)
  BY QueueLength DEF SendChunk, SenderInv, SenderShape, SenderTypeOK
<1> QED BY <1>1, <1>2, <1>4, <1>5, SenderWritesInv DEF SendChunk, SenderConnected

\* SendFileEnd keeps the invariant.
LEMMA SendFileEndInv ==
    ASSUME LinkTypeOK, SenderInv, SendFileEnd
    PROVE  LinkTypeOK' /\ SenderInv'
<1>1. sOffer[sIndex].hash \in Content /\ sIndex \in Nat
  BY CurrentEntry DEF SendFileEnd, FileOffer
<1>2. FileEnd(sIndex, sOffer[sIndex].hash) \in Frame
  BY <1>1, FrameKinds
<1>3. Len(sOffer) = Len(Queue) /\ Len(Queue) \in Nat /\ DOMAIN Queue = 1 .. Len(Queue)
  BY WholeOffer, QueueLength DEF SendFileEnd, SenderInv, SenderShape
<1>4. /\ sPc' \in {"open", "complete"}
      /\ sPos' \in Nat
      /\ sIndex' \in 0 .. Len(Queue)
      /\ sPc' = "open" => sIndex' \in DOMAIN Queue
  <2>1. sIndex \in DOMAIN Queue
    BY DEF SendFileEnd, SenderInv, SenderShape
  <2> QED BY <1>1, <1>3, <2>1 DEF SendFileEnd, NextIndex
<1> QED BY <1>2, <1>4, SenderWritesInv DEF SendFileEnd, SenderConnected

\* SendComplete keeps the invariant.
LEMMA SendCompleteInv ==
    ASSUME LinkTypeOK, SenderInv, SendComplete
    PROVE  LinkTypeOK' /\ SenderInv'
<1>1. Complete(Len(sOffer)) \in Frame
  BY WholeOffer, FrameKinds DEF SendComplete, SenderInv, SenderShape
<1> QED BY <1>1, SenderWritesInv
        DEF SendComplete, SenderConnected, SenderInv, SenderTypeOK

\* RecvComplete keeps the invariant.
LEMMA RecvCompleteInv ==
    ASSUME LinkTypeOK, SenderInv, RecvComplete
    PROVE  LinkTypeOK' /\ SenderInv'
<1>1. LinkTypeOK'
  BY PcClosesType
     DEF RecvComplete, SenderInv, SenderShape, SenderConnected, LinkTypeOK
<1> QED BY <1>1, QueueLength, EmptySeq
        DEF RecvComplete, SenderForgets, SenderInv, SenderTypeOK, SenderShape,
            SenderConnected, Content

\* EditSource keeps the invariant.
LEMMA EditSourceInv ==
    ASSUME LinkTypeOK, SenderInv, NEW p \in Path, EditSource(p)
    PROVE  LinkTypeOK' /\ SenderInv'
<1>1. source' \in [Path -> Content]
  BY SenderAssumption DEF EditSource, SenderInv, SenderTypeOK
<1>2. LinkTypeOK'
  BY LinkAssumption DEF EditSource, LinkTypeOK, Fault
<1> QED BY <1>1, <1>2
        DEF EditSource, SenderInv, SenderTypeOK, SenderShape, SenderConnected

-----------------------------------------------------------------------------
(* All steps together. *)

\* Every step of the sender and of its environment keeps the invariant and the
\* link within its type: what it writes is what the Deck can decode.
THEOREM SenderNext_Inv ==
    ASSUME LinkTypeOK, SenderInv, SenderNext
    PROVE  LinkTypeOK' /\ SenderInv'
<1>1. CASE Send
  BY <1>1 DEF Send, linkVars, LinkTypeOK, SenderInv, SenderTypeOK, SenderShape,
              SenderConnected
<1>2. CASE SenderStep
  <2>1. ASSUME UNCHANGED linkVars PROVE LinkTypeOK'
    BY <2>1 DEF linkVars, LinkTypeOK
  <2>2. ASSUME NEW i \in DOMAIN Queue, StatSource(i)
        PROVE  LinkTypeOK' /\ SenderInv'
    BY <2>1, <2>2, StatSourceInv DEF StatSource
  <2>3. CASE HashSource
    BY <2>1, <2>3, HashSourceInv DEF HashSource
  <2>4. CASE Connect
    BY <2>4, ConnectInv
  <2>5. CASE ConnectRefused
    BY <2>5, GivesUpInv DEF ConnectRefused
  <2>6. CASE RecvHelloAck
    BY <2>6, RecvHelloAckInv
  <2>7. CASE RecvAccept
    BY <2>7, RecvAcceptInv
  <2>8. CASE OpenFile
    BY <2>8, OpenFileInv
  <2>9. CASE SendChunk
    BY <2>9, SendChunkInv
  <2>10. CASE SourceChanged
    BY <2>10, FailsInv DEF SourceChanged, SenderConnected
  <2>11. CASE SendFileEnd
    BY <2>11, SendFileEndInv
  <2>12. CASE SendComplete
    BY <2>12, SendCompleteInv
  <2>13. CASE RecvComplete
    BY <2>13, RecvCompleteInv
  <2>14. CASE SenderReject
    BY <2>14, FailsInv DEF SenderReject, SenderHasFrame, SenderConnected
  <2>15. CASE SenderLinkError
    BY <2>15, FailsInv DEF SenderLinkError
  <2> QED BY <1>2, <2>2, <2>3, <2>4, <2>5, <2>6, <2>7, <2>8, <2>9, <2>10,
             <2>11, <2>12, <2>13, <2>14, <2>15 DEF SenderStep
<1>3. CASE SenderTimeout
  BY <1>3, FailsInv DEF SenderTimeout, SenderWaits, SenderConnected
<1>4. ASSUME NEW p \in Path, EditSource(p)
      PROVE  LinkTypeOK' /\ SenderInv'
  BY <1>4, EditSourceInv
<1>5. CASE SourceUnreadable
  BY <1>5, GivesUpInv, FailsInv DEF SourceUnreadable, SenderConnected
<1>6. CASE Quit
  BY <1>6, GivesUpInv, FailsInv DEF Quit
<1> QED BY <1>1, <1>2, <1>3, <1>4, <1>5, <1>6 DEF SenderNext

\* Steps of the Deck and of the network.
THEOREM SenderUnchanged ==
    ASSUME SenderInv, UNCHANGED senderVars
    PROVE  SenderInv'
  BY DEF senderVars, SenderInv, SenderTypeOK, SenderShape, SenderConnected

-----------------------------------------------------------------------------
(* The frames of a transfer, once the offsets are known: from cursor x in  *)
(* the offered files f, which start at the offsets o, the frames of s lead *)
(* to cursor y.                                                            *)

Cursor == [pc : {"start", "data", "complete", "finished"}, index : Nat, pos : Nat]

At(pc, index, pos) == [pc |-> pc, index |-> index, pos |-> pos]

\* Where the end of file i leads to.
AfterFile(f, i) == IF i < Len(f) THEN At("start", i + 1, 0)
                                 ELSE At("complete", 0, 0)

\* Frame m leads from cursor x to cursor y.
Moves(f, o, x, m, y) ==
    \/ /\ x.pc = "start"
       /\ x.index \in DOMAIN f
       /\ m = FileStart(x.index, o[x.index])
       /\ y = At("data", x.index, o[x.index])
    \/ /\ x.pc = "data"
       /\ x.index \in DOMAIN f
       /\ m.kind = "FileChunk"
       /\ m.index = x.index
       /\ m.bytes # <<>>
       /\ x.pos + Len(m.bytes) <= f[x.index].size
       /\ y = At("data", x.index, x.pos + Len(m.bytes))
    \/ /\ x.pc = "data"
       /\ x.index \in DOMAIN f
       /\ x.pos = f[x.index].size
       /\ m = FileEnd(x.index, f[x.index].hash)
       /\ y = AfterFile(f, x.index)
    \/ /\ x.pc = "complete"
       /\ m = Complete(Len(f))
       /\ y = At("finished", 0, 0)

\* cur[k] is the cursor after k frames.
Follows(f, o, s, cur) ==
    /\ cur \in [Nat -> Cursor]
    /\ \A k \in 1 .. Len(s) : Moves(f, o, cur[k - 1], s[k], cur[k])

Run(f, o, x, s, y) ==
    \E cur : Follows(f, o, s, cur) /\ cur[0] = x /\ cur[Len(s)] = y

\* Where the sender is in the files.
PcCursor ==
    CASE sPc = "open" -> At("start", sIndex, 0)
      [] sPc = "chunks" -> At("data", sIndex, sPos)
      [] sPc = "complete" -> At("complete", 0, 0)
      [] OTHER -> At("finished", 0, 0)

\* No frames lead from a cursor to itself.
LEMMA RunStart ==
    ASSUME NEW f, NEW o, NEW x \in Cursor
    PROVE  Run(f, o, x, <<>>, x)
<1> DEFINE cur == [n \in Nat |-> x]
<1>1. cur \in [Nat -> Cursor] /\ cur[0] = x /\ cur[Len(<<>>)] = x
  BY LenProperties, EmptySeq
<1>2. 1 .. Len(<<>>) = {}
  BY EmptySeq
<1>3. Follows(f, o, <<>>, cur)
  BY <1>1, <1>2 DEF Follows
<1> QED BY <1>1, <1>3 DEF Run

\* They lead nowhere else.
LEMMA RunEmpty ==
    ASSUME NEW f, NEW o, NEW x, NEW y, Run(f, o, x, <<>>, y)
    PROVE  x = y
  BY EmptySeq DEF Run

\* One more frame at the end.
LEMMA RunAppend ==
    ASSUME NEW f, NEW o, NEW x, NEW s \in Seq(Frame), NEW y, NEW m,
           NEW z \in Cursor, Run(f, o, x, s, y), Moves(f, o, y, m, z)
    PROVE  Run(f, o, x, Append(s, m), z)
<1>1. PICK cur : Follows(f, o, s, cur) /\ cur[0] = x /\ cur[Len(s)] = y
  BY DEF Run
<1>2. /\ Len(s) \in Nat
      /\ Len(Append(s, m)) = Len(s) + 1
      /\ \A k \in 1 .. Len(s) : Append(s, m)[k] = s[k]
      /\ Append(s, m)[Len(s) + 1] = m
  BY LenProperties
<1> DEFINE new == [cur EXCEPT ![Len(s) + 1] = z]
<1>3. /\ new \in [Nat -> Cursor]
      /\ new[Len(s) + 1] = z
      /\ \A k \in 0 .. Len(s) : new[k] = cur[k]
  BY <1>1, <1>2 DEF Follows
<1>4. ASSUME NEW k \in 1 .. Len(s) + 1
      PROVE  Moves(f, o, new[k - 1], Append(s, m)[k], new[k])
  <2>1. CASE k = Len(s) + 1
    <3>1. k - 1 = Len(s) /\ Len(s) \in 0 .. Len(s)
      BY <1>2, <2>1
    <3> QED BY <1>1, <1>2, <1>3, <2>1, <3>1
  <2>2. CASE k # Len(s) + 1
    <3>1. k \in 1 .. Len(s) /\ k - 1 \in 0 .. Len(s) /\ k \in 0 .. Len(s)
      BY <1>2, <2>2
    <3>2. Moves(f, o, cur[k - 1], s[k], cur[k])
      BY <1>1, <3>1 DEF Follows
    <3> HIDE DEF new
    <3> QED BY <1>2, <1>3, <3>1, <3>2
  <2> QED BY <2>1, <2>2
<1>5. Follows(f, o, Append(s, m), new)
  BY <1>2, <1>3, <1>4 DEF Follows
<1>6. new[0] = x
  BY <1>1, <1>2, <1>3
<1> HIDE DEF new
<1> QED BY <1>2, <1>3, <1>5, <1>6 DEF Run

\* The first frame is read.
LEMMA RunTail ==
    ASSUME NEW f, NEW o, NEW x, NEW s \in Seq(Frame), NEW y,
           s # <<>>, Run(f, o, x, s, y)
    PROVE  \E z \in Cursor : Moves(f, o, x, Head(s), z) /\ Run(f, o, z, Tail(s), y)
<1>1. PICK cur : Follows(f, o, s, cur) /\ cur[0] = x /\ cur[Len(s)] = y
  BY DEF Run
<1>2. /\ Head(s) = s[1]
      /\ Len(s) \in Nat /\ Len(s) >= 1
      /\ Len(Tail(s)) = Len(s) - 1
      /\ \A i \in 1 .. Len(s) - 1 : Tail(s)[i] = s[i + 1]
  BY HeadTailProperties, LenProperties, EmptySeq
<1> DEFINE rest == [n \in Nat |-> cur[n + 1]]
<1>3. rest \in [Nat -> Cursor] /\ cur[1] \in Cursor
  BY <1>1 DEF Follows
<1>4. Moves(f, o, x, Head(s), cur[1])
  <2>1. 1 \in 1 .. Len(s)
    BY <1>2
  <2>2. Moves(f, o, cur[1 - 1], s[1], cur[1])
    BY <1>1, <2>1 DEF Follows
  <2> QED BY <1>1, <1>2, <2>2
<1>5. ASSUME NEW k \in 1 .. Len(Tail(s))
      PROVE  Moves(f, o, rest[k - 1], Tail(s)[k], rest[k])
  <2>1. /\ k + 1 \in 1 .. Len(s) /\ k \in 1 .. Len(s) - 1
        /\ k - 1 \in Nat /\ k \in Nat
    BY <1>2
  <2>2. rest[k - 1] = cur[k] /\ rest[k] = cur[k + 1] /\ k + 1 - 1 = k
    BY <2>1
  <2>3. Moves(f, o, cur[k + 1 - 1], s[k + 1], cur[k + 1])
    BY <1>1, <2>1 DEF Follows
  <2> HIDE DEF rest
  <2> QED BY <1>2, <2>1, <2>2, <2>3
<1>6. rest[0] = cur[1] /\ rest[Len(Tail(s))] = y
  BY <1>1, <1>2
<1>7. Follows(f, o, Tail(s), rest)
  BY <1>3, <1>5 DEF Follows
<1>8. Run(f, o, cur[1], Tail(s), y)
  BY <1>6, <1>7 DEF Run
<1> QED BY <1>3, <1>4, <1>8

\* The last frames are lost.
LEMMA RunPrefix ==
    ASSUME NEW f, NEW o, NEW x, NEW s \in Seq(Frame), NEW y,
           NEW k \in 0 .. Len(s), Run(f, o, x, s, y)
    PROVE  \E z \in Cursor : Run(f, o, x, SubSeq(s, 1, k), z)
<1>1. PICK cur : Follows(f, o, s, cur) /\ cur[0] = x
  BY DEF Run
<1>2. /\ Len(s) \in Nat /\ k \in Nat
      /\ Len(SubSeq(s, 1, k)) = k
      /\ \A i \in 1 .. k : SubSeq(s, 1, k)[i] = s[i] /\ i \in 1 .. Len(s)
  <2>1. DOMAIN s = 1 .. Len(s) /\ Len(s) \in Nat
    BY LenProperties
  <2>2. 1 \in Int /\ k \in Int /\ \A i \in 1 .. k : s[i] \in Frame
    BY <2>1, ElementOfSeq
  <2>3. /\ Len(SubSeq(s, 1, k)) = IF 1 <= k THEN k - 1 + 1 ELSE 0
        /\ \A i \in 1 .. k - 1 + 1 : SubSeq(s, 1, k)[i] = s[1 + i - 1]
    BY <2>2, SubSeqProperties
  <2> QED BY <2>1, <2>3
<1>3. Follows(f, o, SubSeq(s, 1, k), cur)
  BY <1>1, <1>2 DEF Follows
<1>4. cur[k] \in Cursor /\ cur[Len(SubSeq(s, 1, k))] = cur[k]
  BY <1>1, <1>2 DEF Follows
<1>5. Run(f, o, x, SubSeq(s, 1, k), cur[k])
  BY <1>1, <1>3, <1>4 DEF Run
<1> QED BY <1>4, <1>5

\* Nothing follows the completion.
LEMMA RunFinished ==
    ASSUME NEW f, NEW o, NEW x, NEW s \in Seq(Frame), NEW y,
           Run(f, o, x, s, y), x.pc = "finished"
    PROVE  s = <<>> /\ y = x
<1>1. s = <<>>
  <2>1. SUFFICES ASSUME s # <<>> PROVE FALSE
    OBVIOUS
  <2>2. PICK z \in Cursor : Moves(f, o, x, Head(s), z)
    BY <2>1, RunTail
  <2> QED BY <2>2 DEF Moves
<1> QED BY <1>1, RunEmpty

\* Every frame of a file that the sender writes leads to where it is then, and
\* a chunk holds what the file holds after that position.
LEMMA WritesMove ==
    ASSUME SenderInv, OpenFile \/ SendChunk \/ SendFileEnd \/ SendComplete
    PROVE  /\ sPc \in {"open", "chunks", "complete"}
           /\ sPc' \in {"open", "chunks", "complete", "confirm"}
           /\ PcCursor' \in Cursor
           /\ \E m \in Frame :
                 /\ SenderWrites(m)
                 /\ Moves(sOffer, sOffsets, PcCursor, m, PcCursor')
                 /\ m.kind = "FileChunk" =>
                       /\ m.index = sIndex /\ PcCursor = At("data", sIndex, sPos)
                       /\ m.bytes = SubSeq(CurrentSource, sPos + 1, sPos + Len(m.bytes))
<1>1. CASE OpenFile
  <2>1. /\ sPc = "open" /\ sPc' = "chunks"
        /\ SenderWrites(FileStart(sIndex, sOffsets[sIndex]))
        /\ sIndex' = sIndex /\ sPos' = sOffsets[sIndex]
        /\ sIndex \in 1 .. Len(sOffer) /\ sIndex \in Nat /\ sOffsets[sIndex] \in Nat
        /\ sOffer \in Seq(FileOffer)
    BY <1>1, CurrentEntry, WholeOffer DEF OpenFile, SenderInv, SenderShape
  <2>2. sIndex \in DOMAIN sOffer
    BY <2>1, LenProperties
  <2>3. PcCursor = At("start", sIndex, 0)
        /\ PcCursor' = At("data", sIndex, sOffsets[sIndex])
    BY <2>1 DEF PcCursor
  <2>4. Moves(sOffer, sOffsets, PcCursor, FileStart(sIndex, sOffsets[sIndex]),
              PcCursor')
    BY <2>2, <2>3 DEF Moves, At
  <2>5. FileStart(sIndex, sOffsets[sIndex]) \in Frame
    BY <2>1, FrameKinds
  <2>6. FileStart(sIndex, sOffsets[sIndex]).kind # "FileChunk"
    BY DEF FileStart
  <2>7. PcCursor' \in Cursor
    BY <2>1, <2>3 DEF At, Cursor
  <2> QED BY <2>1, <2>4, <2>5, <2>6, <2>7
<1>2. CASE SendChunk
  <2>1. PICK e \in ChunkEnds :
           SenderWrites(FileChunk(sIndex, BytesUpTo(e))) /\ sPos' = e
    BY <1>2 DEF SendChunk
  <2>2. /\ sPc = "chunks" /\ sPc' = "chunks" /\ sIndex' = sIndex
        /\ sIndex \in 1 .. Len(sOffer) /\ sIndex \in Nat
        /\ sOffer \in Seq(FileOffer)
        /\ sPos \in Nat /\ CurrentSource \in Content
    BY <1>2, CurrentEntry, WholeOffer
       DEF SendChunk, SenderInv, SenderShape, SenderTypeOK
  <2>3. /\ e \in Nat /\ sPos + 1 <= e /\ e <= Len(CurrentSource)
        /\ e <= sOffer[sIndex].size
    BY <2>2, WireAssumption DEF ChunkEnds
  <2>4. /\ BytesUpTo(e) \in Content
        /\ Len(BytesUpTo(e)) = e - sPos
    <3>1. /\ sPos + 1 \in Int /\ e \in Int
          /\ \A i \in sPos + 1 .. e : CurrentSource[i] \in Block
      BY <2>2, <2>3, ElementOfSeq, LenProperties DEF Content
    <3> QED BY <2>2, <2>3, <3>1, SubSeqProperties DEF BytesUpTo, Content
  <2>5. BytesUpTo(e) # <<>> /\ sPos + Len(BytesUpTo(e)) = e
    BY <2>2, <2>3, <2>4, EmptySeq
  <2>6. sIndex \in DOMAIN sOffer
    BY <2>2, LenProperties
  <2>7. PcCursor = At("data", sIndex, sPos) /\ PcCursor' = At("data", sIndex, e)
    BY <2>1, <2>2 DEF PcCursor
  <2>8. Moves(sOffer, sOffsets, PcCursor, FileChunk(sIndex, BytesUpTo(e)), PcCursor')
    BY <2>3, <2>5, <2>6, <2>7 DEF Moves, At, FileChunk
  <2>9. FileChunk(sIndex, BytesUpTo(e)) \in Frame
    BY <2>2, <2>4, FrameKinds
  <2>10. /\ FileChunk(sIndex, BytesUpTo(e)).index = sIndex
         /\ FileChunk(sIndex, BytesUpTo(e)).bytes = BytesUpTo(e)
    BY DEF FileChunk
  <2>11. BytesUpTo(e) = SubSeq(CurrentSource, sPos + 1, sPos + Len(BytesUpTo(e)))
    BY <2>5 DEF BytesUpTo
  <2>12. PcCursor' \in Cursor
    BY <2>2, <2>3, <2>7 DEF At, Cursor
  <2> QED BY <2>1, <2>2, <2>7, <2>8, <2>9, <2>10, <2>11, <2>12
<1>3. CASE SendFileEnd
  <2>1. /\ sPc = "chunks" /\ sPos = sOffer[sIndex].size
        /\ SenderWrites(FileEnd(sIndex, sOffer[sIndex].hash))
        /\ sIndex \in 1 .. Len(sOffer) /\ sIndex \in Nat
        /\ sOffer \in Seq(FileOffer)
        /\ sOffer[sIndex] \in FileOffer
        /\ IF sIndex < Len(sOffer) THEN sPc' = "open" /\ sIndex' = sIndex + 1
                                   ELSE sPc' = "complete"
    BY <1>3, CurrentEntry, WholeOffer
       DEF SendFileEnd, NextIndex, SenderInv, SenderShape
  <2>2. sIndex \in DOMAIN sOffer
    BY <2>1, LenProperties
  <2>3. /\ PcCursor = At("data", sIndex, sPos)
        /\ PcCursor' = AfterFile(sOffer, sIndex)
    BY <2>1 DEF PcCursor, AfterFile
  <2>4. Moves(sOffer, sOffsets, PcCursor, FileEnd(sIndex, sOffer[sIndex].hash),
              PcCursor')
    BY <2>1, <2>2, <2>3 DEF Moves, At
  <2>5. FileEnd(sIndex, sOffer[sIndex].hash) \in Frame
    BY <2>1, FrameKinds DEF FileOffer
  <2>6. AfterFile(sOffer, sIndex) \in Cursor
    BY <2>1 DEF AfterFile, At, Cursor
  <2>7. FileEnd(sIndex, sOffer[sIndex].hash).kind # "FileChunk"
    BY DEF FileEnd
  <2> QED BY <2>1, <2>3, <2>4, <2>5, <2>6, <2>7
<1>4. CASE SendComplete
  <2>1. /\ sPc = "complete" /\ sPc' = "confirm"
        /\ SenderWrites(Complete(Len(sOffer)))
        /\ Complete(Len(sOffer)) \in Frame
    BY <1>4, WholeOffer, FrameKinds DEF SendComplete, SenderInv, SenderShape
  <2>2. /\ PcCursor = At("complete", 0, 0)
        /\ PcCursor' = At("finished", 0, 0)
    BY <2>1 DEF PcCursor
  <2>3. Moves(sOffer, sOffsets, PcCursor, Complete(Len(sOffer)), PcCursor')
    BY <2>2 DEF Moves, At
  <2>4. Complete(Len(sOffer)).kind # "FileChunk"
    BY DEF Complete
  <2>5. PcCursor' \in Cursor
    BY <2>2 DEF At, Cursor
  <2> QED BY <2>1, <2>3, <2>4, <2>5
<1> QED BY <1>1, <1>2, <1>3, <1>4

-----------------------------------------------------------------------------
(* The receiver. *)

\* The control state fits the plan.
ReceiverShape ==
    /\ rPc \notin {"off", "listening"} => rConn \in Conn
    /\ rPc \in {"off", "listening", "hello", "offer"} => plan = <<>>
    /\ rPc = "prepare" => rOffer.files # <<>>
    /\ rPc \in {"start", "data", "rename"} => rIndex \in DOMAIN plan

\* What was hashed is in the file, at its beginning; the file is there until it
\* is renamed.
StreamIsThere ==
    /\ rPc = "data" =>
          /\ CurrentFile \in DOMAIN partials
          /\ Len(rHash) = rPos
          /\ rPos <= Len(CurrentPartial.data)
          /\ \A k \in 1 .. rPos : CurrentPartial.data[k] = rHash[k]
    /\ rPc = "rename" => CurrentFile \in DOMAIN partials

\* What holds whatever is stored at the names of partial files.
ReceiverBase == ReceiverTypeOK /\ ReceiverShape /\ StreamIsThere

\* What was hashed is the file.
FedIsWritten ==
    rPc = "data" =>
        /\ CurrentFile \in DOMAIN partials
        /\ CurrentPartial.data = rHash
        /\ Len(rHash) = rPos

\* What is about to be renamed is verified and on the disk.
ReadyToRename ==
    rPc = "rename" =>
        /\ CurrentFile \in DOMAIN partials
        /\ CurrentPartial = [data |-> CurrentFile.hash, synced |-> TRUE]

\* Everything in the receive folder survives a power loss, and so does
\* everything a power loss may bring back to it.
Durable ==
    /\ \A p \in DOMAIN inbox : inbox[p].synced
    /\ \A r \in unflushed : \A e \in r.over :
          e.synced /\ \A f \in e.by : e.data = f.hash
    /\ \A r \in unflushed : r.place \notin DOMAIN PartialAt

DiskTypeOK ==
    /\ IsPartialMap(partials, FileOffer, PartialFile)
    /\ IsPartialMap(inbox, Place, Stored)
    /\ unflushed \subseteq [place : Place, file : FileOffer,
                            was : PartialFile, over : SUBSET Stored]
    /\ aliased \in BOOLEAN

DiskInv == DiskTypeOK /\ NamesAreWhole /\ Durable

\* What holds besides as long as no file was stored at such a name.
ReceiverInv ==
    /\ ReceiverTypeOK
    /\ ReceiverShape
    /\ DiskInv
    /\ FedIsWritten
    /\ ReadyToRename
    /\ OffsetsAreGood

-----------------------------------------------------------------------------
(* The operators. *)

\* Changing or adding one value of a map.
LEMMA WithMap ==
    ASSUME NEW D, NEW R, NEW f, IsPartialMap(f, D, R), NEW x \in D, NEW v \in R
    PROVE  /\ IsPartialMap(With(f, x, v), D, R)
           /\ DOMAIN With(f, x, v) = DOMAIN f \cup {x}
           /\ With(f, x, v)[x] = v
           /\ \A y \in DOMAIN f : y # x => With(f, x, v)[y] = f[y]
  BY DEF IsPartialMap, With

\* Removing one value of a map.
LEMMA WithoutMap ==
    ASSUME NEW D, NEW R, NEW f, IsPartialMap(f, D, R), NEW x
    PROVE  /\ IsPartialMap(Without(f, x), D, R)
           /\ DOMAIN Without(f, x) = DOMAIN f \ {x}
           /\ \A y \in DOMAIN f \ {x} : Without(f, x)[y] = f[y]
  BY DEF IsPartialMap, Without, Restrict

\* A write inside a file or at its end leaves a content.
LEMMA WriteAtType ==
    ASSUME NEW d \in Content, NEW pos \in Nat, NEW bytes \in Content,
           pos <= Len(d)
    PROVE  WriteAt(d, pos, bytes) \in Content
<1> DEFINE n == IF Len(d) > pos + Len(bytes) THEN Len(d) ELSE pos + Len(bytes)
<1>1. n \in Nat
  BY DEF Content
<1>2. ASSUME NEW k \in 1 .. n
      PROVE  (IF k \in pos + 1 .. pos + Len(bytes) THEN bytes[k - pos] ELSE d[k])
                \in Block
  <2>1. CASE k \in pos + 1 .. pos + Len(bytes)
    <3>1. k - pos \in 1 .. Len(bytes)
      BY <2>1 DEF Content
    <3> QED BY <2>1, <3>1 DEF Content
  <2>2. CASE k \notin pos + 1 .. pos + Len(bytes)
    <3>1. k \in 1 .. Len(d)
      BY <2>2 DEF Content
    <3> QED BY <2>2, <3>1 DEF Content
  <2> QED BY <2>1, <2>2
<1> HIDE DEF n
<1>3. WriteAt(d, pos, bytes) =
        [k \in 1 .. n |-> IF k \in pos + 1 .. pos + Len(bytes)
                          THEN bytes[k - pos] ELSE d[k]]
  BY DEF WriteAt, n
<1>4. WriteAt(d, pos, bytes) \in [1 .. n -> Block]
  BY <1>2, <1>3
<1> QED BY <1>1, <1>4 DEF Content

\* Writing at the end of a file appends.
LEMMA WriteAtEnd ==
    ASSUME NEW d \in Content, NEW bytes \in Content
    PROVE  WriteAt(d, Len(d), bytes) = d \o bytes
<1>1. /\ Len(d) \in Nat /\ Len(bytes) \in Nat
      /\ (IF Len(d) > Len(d) + Len(bytes) THEN Len(d) ELSE Len(d) + Len(bytes))
            = Len(d) + Len(bytes)
  BY DEF Content
<1>2. WriteAt(d, Len(d), bytes) =
        [k \in 1 .. Len(d) + Len(bytes) |->
            IF k \in Len(d) + 1 .. Len(d) + Len(bytes)
            THEN bytes[k - Len(d)] ELSE d[k]]
  BY <1>1 DEF WriteAt
<1>3. /\ d \o bytes \in Seq(Block)
      /\ Len(d \o bytes) = Len(d) + Len(bytes)
      /\ \A k \in 1 .. Len(d) + Len(bytes) :
            (d \o bytes)[k] = IF k <= Len(d) THEN d[k] ELSE bytes[k - Len(d)]
  BY ConcatProperties DEF Content
<1>4. d \o bytes \in [1 .. Len(d \o bytes) -> Block]
  BY <1>3, LenProperties
<1>5. d \o bytes = [k \in 1 .. Len(d) + Len(bytes) |-> (d \o bytes)[k]]
  BY <1>3, <1>4
<1>6. \A k \in 1 .. Len(d) + Len(bytes) :
         (IF k \in Len(d) + 1 .. Len(d) + Len(bytes)
          THEN bytes[k - Len(d)] ELSE d[k]) = (d \o bytes)[k]
  BY <1>1, <1>3
<1> QED BY <1>2, <1>5, <1>6

\* The prefix of full length is the whole.
LEMMA WholeSubSeq ==
    ASSUME NEW d \in Content
    PROVE  SubSeq(d, 1, Len(d)) = d
  BY DEF Content

-----------------------------------------------------------------------------
(* What the Deck does to a connection keeps the type of the link. *)

\* The frames the Deck writes are frames.
LEMMA DeckKinds ==
    /\ HelloAck \in Frame
    /\ \A id \in Nat, offsets \in Seq(Nat) : AcceptFrame(id, offsets) \in Frame
    /\ \A count \in Nat : Complete(count) \in Frame
  BY DEF Frame, HelloAck, AcceptFrame, Complete

\* The next frame for the Deck, and what its fields hold, by its kind.
LEMMA HeadUp ==
    ASSUME LinkTypeOK, NEW c \in Conn, up[c] # <<>>
    PROVE  /\ Head(up[c]) \in Frame /\ Tail(up[c]) \in Seq(Frame)
           /\ LET m == Head(up[c])
              IN  /\ m.kind = "Offer" => m.id \in Nat /\ m.files \in Seq(FileOffer)
                  /\ m.kind = "FileChunk" => m.bytes \in Content
<1>1. up[c] \in Seq(Frame)
  BY DEF LinkTypeOK
<1>2. Head(up[c]) \in Frame /\ Tail(up[c]) \in Seq(Frame)
  BY <1>1, HeadTailProperties
<1> QED BY <1>2 DEF Frame

\* A frame written by the Deck.
LEMMA DeckWritesType ==
    ASSUME LinkTypeOK, NEW c \in Conn, NEW m \in Frame, DeckWrites(c, m)
    PROVE  down' \in [Conn -> Seq(Frame)] /\ broken' \in [Conn -> BOOLEAN]
<1>1. Append(down[c], m) \in Seq(Frame)
  BY AppendProperties DEF LinkTypeOK
<1> QED BY <1>1 DEF LinkTypeOK, DeckWrites

\* A frame read by the Deck.
LEMMA DeckReadsType ==
    ASSUME LinkTypeOK, NEW c \in Conn, up[c] # <<>>, DeckReads(c)
    PROVE  up' \in [Conn -> Seq(Frame)]
  BY HeadTailProperties DEF LinkTypeOK, DeckReads

\* The Deck closes its end.
LEMMA DeckClosesType ==
    ASSUME LinkTypeOK, NEW c \in Conn, NEW unread, DeckCloses(c, unread),
           UNCHANGED <<down, sOpen, backlog, bound>>, faults' \in 0 .. MaxFaults
    PROVE  LinkTypeOK'
  BY EmptySeq DEF LinkTypeOK, DeckCloses

\* The process on the Deck ends.
LEMMA DeckGoneType ==
    ASSUME LinkTypeOK, DeckGone, UNCHANGED <<down, sOpen>>,
           faults' \in 0 .. MaxFaults
    PROVE  LinkTypeOK'
  BY EmptySeq DEF LinkTypeOK, DeckGone

-----------------------------------------------------------------------------
(* Leaving receive_stream: only the disk remains. *)

\* The invariant after the receiver has dropped everything but the disk.
LEMMA LeaveKeepsInv ==
    ASSUME ReceiverForgets, rPc' \in {"off", "listening"}, DiskInv'
    PROVE  ReceiverInv'
<1>1. ReceiverTypeOK'
  BY DEF ReceiverForgets, DiskInv, DiskTypeOK, ReceiverTypeOK, NoOffer, NoConn,
         Content
<1>2. ReceiverShape'
  BY DEF ReceiverForgets, ReceiverShape
<1>3. FedIsWritten' /\ ReadyToRename'
  BY DEF FedIsWritten, ReadyToRename
<1>4. OffsetsAreGood'
  BY DEF ReceiverForgets, OffsetsAreGood
<1> QED BY <1>1, <1>2, <1>3, <1>4 DEF ReceiverInv

\* Steps that leave the disk alone.
LEMMA DiskUnchanged ==
    ASSUME DiskInv, UNCHANGED diskVars
    PROVE  DiskInv'
  BY DEF DiskInv, DiskTypeOK, NamesAreWhole, Durable, diskVars

\* Partial files alone do not matter to what is stored.
LEMMA PartialsChanged ==
    ASSUME DiskInv, IsPartialMap(partials', FileOffer, PartialFile),
           UNCHANGED <<inbox, unflushed, aliased>>
    PROVE  DiskInv'
  BY DEF DiskInv, DiskTypeOK, NamesAreWhole, Durable

-----------------------------------------------------------------------------
(* The steps before the first file. *)

\* Listen keeps the invariant.
LEMMA ListenInv == ASSUME ReceiverInv, Listen PROVE ReceiverInv'
<1> USE DEF Listen
<1>1. DiskInv'
  BY DiskUnchanged DEF ReceiverInv
<1> QED BY <1>1 DEF ReceiverInv, ReceiverTypeOK, ReceiverShape, FedIsWritten,
                    ReadyToRename, OffsetsAreGood, Receiving, Held, diskVars,
                    CurrentFile

\* Accept keeps the invariant.
LEMMA AcceptInv == ASSUME LinkTypeOK, ReceiverInv, Accept PROVE ReceiverInv'
<1> USE DEF Accept
<1>1. DiskInv'
  BY DiskUnchanged DEF ReceiverInv
<1>2. rConn' \in Conn
  BY HeadTailProperties DEF LinkTypeOK
<1> QED BY <1>1, <1>2 DEF ReceiverInv, ReceiverTypeOK, ReceiverShape,
                    FedIsWritten, ReadyToRename, OffsetsAreGood, Receiving,
                    Held, diskVars, CurrentFile

\* ReadHello keeps the invariant.
LEMMA ReadHelloInv == ASSUME ReceiverInv, ReadHello PROVE ReceiverInv'
<1> USE DEF ReadHello
<1>1. DiskInv'
  BY DiskUnchanged DEF ReceiverInv
<1> QED BY <1>1 DEF ReceiverInv, ReceiverTypeOK, ReceiverShape, FedIsWritten,
                    ReadyToRename, OffsetsAreGood, Receiving, Held, diskVars,
                    CurrentFile

\* ReadOffer keeps the invariant.
LEMMA ReadOfferInv == ASSUME LinkTypeOK, ReceiverInv, ReadOffer
                      PROVE  ReceiverInv'
<1> USE DEF ReadOffer
<1>1. DiskInv'
  BY DiskUnchanged DEF ReceiverInv
<1>2. rConn \in Conn /\ up[rConn] # <<>> /\ TakesOffer(Head(up[rConn]))
  BY DEF ReceiverInv, ReceiverShape, HasFrame, Takes
<1>3. rOffer' \in [id : Nat, files : Seq(FileOffer)] /\ rOffer'.files # <<>>
  BY <1>2, HeadUp DEF TakesOffer
<1> QED BY <1>1, <1>2, <1>3
        DEF ReceiverInv, ReceiverTypeOK, ReceiverShape, FedIsWritten,
            ReadyToRename, OffsetsAreGood, Receiving, Held, diskVars, CurrentFile

\* SendAccept keeps the invariant.
LEMMA SendAcceptInv == ASSUME ReceiverInv, SendAccept PROVE ReceiverInv'
<1> USE DEF SendAccept
<1>1. DiskInv'
  BY DiskUnchanged DEF ReceiverInv
<1>2. rIndex' \in DOMAIN plan'
  BY EmptySeq DEF ReceiverInv, ReceiverTypeOK, ReceiverShape
<1>3. OffsetsAreGood'
  BY DEF ReceiverInv, OffsetsAreGood, Receiving, Held, diskVars
<1> QED BY <1>1, <1>2, <1>3
        DEF ReceiverInv, ReceiverTypeOK, ReceiverShape, FedIsWritten,
            ReadyToRename, diskVars

\* ReadComplete keeps the invariant.
LEMMA ReadCompleteInv == ASSUME ReceiverInv, ReadComplete PROVE ReceiverInv'
<1> USE DEF ReadComplete
<1>1. DiskInv'
  BY DiskUnchanged DEF ReceiverInv
<1> QED BY <1>1 DEF ReceiverInv, ReceiverTypeOK, ReceiverShape, FedIsWritten,
                    ReadyToRename, OffsetsAreGood, diskVars

-----------------------------------------------------------------------------
(* prepare_files. *)

\* The length of a partial file is a number.
LEMMA HeldType ==
    ASSUME DiskTypeOK, NEW g
    PROVE  Held(g) \in Nat
  BY LenProperties DEF Held, DiskTypeOK, IsPartialMap, PartialFile, Content

\* The lengths of the partial files when one of them has changed.
LEMMA HeldWith ==
    ASSUME IsPartialMap(partials, FileOffer, PartialFile),
           NEW f \in FileOffer, NEW v \in PartialFile,
           partials' = With(partials, f, v)
    PROVE  \A g : Held(g)' = IF g = f THEN Len(v.data) ELSE Held(g)
<1>1. /\ DOMAIN partials' = DOMAIN partials \cup {f}
      /\ partials'[f] = v
      /\ \A y \in DOMAIN partials : y # f => partials'[y] = partials[y]
  BY DEF With
<1> QED BY <1>1 DEF Held

\* PrepareFile keeps the invariant.
LEMMA PrepareFileInv ==
    ASSUME ReceiverInv, NEW f \in FileOffer, PrepareFile(f)
    PROVE  ReceiverInv'
<1> DEFINE none == [data |-> <<>>, synced |-> FALSE]
<1>1. DiskTypeOK /\ IsPartialMap(partials, FileOffer, PartialFile)
  BY DEF ReceiverInv, DiskInv, DiskTypeOK
<1>2. none \in PartialFile /\ Len(none.data) = 0
  BY EmptySeq DEF PartialFile, Content
<1>3. /\ IsPartialMap(partials', FileOffer, PartialFile)
      /\ \A g : Held(g)' = IF g = f /\ Held(f) > f.size THEN 0 ELSE Held(g)
  <2>1. CASE Held(f) > f.size
    <3>1. partials' = With(partials, f, none)
      BY <2>1 DEF PrepareFile, EmptyPartial
    <3> HIDE DEF none
    <3>2. IsPartialMap(partials', FileOffer, PartialFile)
      BY <1>1, <1>2, <3>1, WithMap
    <3>3. \A g : Held(g)' = IF g = f THEN Len(none.data) ELSE Held(g)
      BY <1>1, <1>2, <3>1, HeldWith
    <3> QED BY <1>2, <2>1, <3>2, <3>3
  <2>2. CASE ~(Held(f) > f.size)
    BY <1>1, <2>2 DEF PrepareFile, Held
  <2> QED BY <2>1, <2>2
<1>4. DiskInv'
  BY <1>3, PartialsChanged DEF PrepareFile, ReceiverInv
<1>5. PICK d \in Place :
        plan' = Append(plan, [file |-> f, destination |-> d,
                    resume |-> IF Held(f) > f.size THEN 0 ELSE Held(f)])
  BY DEF PrepareFile
<1>6. /\ plan \in Seq(Planned)
      /\ plan' \in Seq(Planned)
      /\ DOMAIN plan' = DOMAIN plan \cup {Len(plan) + 1}
      /\ \A k \in DOMAIN plan : plan'[k] = plan[k]
      /\ plan'[Len(plan) + 1].file = f
      /\ plan'[Len(plan) + 1].resume = IF Held(f) > f.size THEN 0 ELSE Held(f)
  <2>1. plan \in Seq(Planned)
    BY DEF ReceiverInv, ReceiverTypeOK
  <2>2. [file |-> f, destination |-> d,
         resume |-> IF Held(f) > f.size THEN 0 ELSE Held(f)] \in Planned
    BY <1>1, HeldType DEF Planned
  <2> QED BY <1>5, <2>1, <2>2, AppendProperties, LenProperties
<1>7. ReceiverTypeOK'
  BY <1>3, <1>6 DEF PrepareFile, ReceiverInv, ReceiverTypeOK, linkVars
<1>8. OffsetsAreGood'
  <2>1. rPc = "prepare" /\ rPc' = "prepare"
    BY DEF PrepareFile, Preparing
  <2>2. ASSUME NEW k \in DOMAIN plan'
        PROVE  Held(plan[k].file)' \in {plan'[k].resume, 0}
    <3>1. CASE k = Len(plan) + 1
      BY <1>3, <1>6, <3>1
    <3>2. CASE k \in DOMAIN plan
      <4>1. Held(plan[k].file) \in {plan[k].resume, 0}
        BY <2>1, <3>2 DEF ReceiverInv, OffsetsAreGood, Receiving
      <4> QED BY <1>3, <1>6, <3>2, <4>1
    <3> QED BY <1>6, <3>1, <3>2
  <2> QED BY <2>2 DEF OffsetsAreGood
<1> QED BY <1>4, <1>7, <1>8
        DEF PrepareFile, Preparing, ReceiverInv, ReceiverShape, FedIsWritten,
            ReadyToRename

-----------------------------------------------------------------------------
(* The files. *)

\* The file that is being received is in the plan.
LEMMA CurrentFileType ==
    ASSUME ReceiverTypeOK, ReceiverShape, rPc \in {"start", "data", "rename"}
    PROVE  /\ rIndex \in DOMAIN plan
           /\ plan[rIndex] \in Planned
           /\ CurrentFile \in FileOffer
<1>1. rIndex \in DOMAIN plan /\ plan \in Seq(Planned)
  BY DEF ReceiverShape, ReceiverTypeOK
<1>2. plan[rIndex] \in Planned
  BY <1>1, LenProperties
<1> QED BY <1>1, <1>2 DEF CurrentFile, Planned

\* Opening a partial file keeps its length and its type.
LEMMA OpenedPartialType ==
    ASSUME ReceiverTypeOK, ReceiverShape, rPc = "start"
    PROVE  /\ OpenedPartial \in PartialFile
           /\ Len(OpenedPartial.data) = Held(CurrentFile)
           /\ IsPartialMap(With(partials, CurrentFile, OpenedPartial),
                           FileOffer, PartialFile)
<1>1. OpenedPartial \in PartialFile
  BY DEF OpenedPartial, CurrentPartial, PartialFile, Content, EmptyPartial,
         ReceiverTypeOK, IsPartialMap
<1>2. Len(OpenedPartial.data) = Held(CurrentFile)
  BY DEF OpenedPartial, CurrentPartial, Held, EmptyPartial
<1>3. IsPartialMap(With(partials, CurrentFile, OpenedPartial),
                   FileOffer, PartialFile)
  BY <1>1, CurrentFileType, WithMap DEF ReceiverTypeOK
<1> QED BY <1>1, <1>2, <1>3

\* While one file is received, the partial files of the later ones keep still.
LEMMA ResumeLater ==
    ASSUME ReceiverInv, rPc \in {"start", "data"}, rPc' \in {"data", "rename"},
           UNCHANGED <<plan, rIndex>>,
           \A g : g # CurrentFile => Held(g)' = Held(g)
    PROVE  OffsetsAreGood'
<1>1. rIndex \in DOMAIN plan /\ DOMAIN plan \subseteq Nat
  BY CurrentFileType, LenProperties DEF ReceiverInv, ReceiverTypeOK
<1>2. CurrentFile' = CurrentFile
  BY DEF CurrentFile
<1>3. ASSUME NEW k \in DOMAIN plan, k > rIndex, plan[k].file # CurrentFile
      PROVE  Held(plan[k].file) \in {plan[k].resume, 0}
  BY <1>1, <1>3 DEF ReceiverInv, OffsetsAreGood, Receiving
<1>4. ASSUME NEW k \in DOMAIN plan, k > rIndex, plan[k].file # CurrentFile
      PROVE  Held(plan[k].file)' \in {plan[k].resume, 0}
  BY <1>3, <1>4
<1> QED BY <1>1, <1>2, <1>4 DEF OffsetsAreGood, Receiving

\* ReadFileStart keeps the invariant.
LEMMA ReadFileStartInv ==
    ASSUME ReceiverInv, ReadFileStart
    PROVE  ReceiverInv'
<1>1. /\ rIndex \in DOMAIN plan
      /\ plan[rIndex] \in Planned
      /\ CurrentFile \in FileOffer
      /\ OpenedPartial \in PartialFile
      /\ Len(OpenedPartial.data) = Held(CurrentFile)
      /\ IsPartialMap(partials, FileOffer, PartialFile)
      /\ partials' = With(partials, CurrentFile, OpenedPartial)
      /\ IsPartialMap(partials', FileOffer, PartialFile)
      /\ rPc = "start"
  BY CurrentFileType, OpenedPartialType
     DEF ReadFileStart, ReceiverInv, ReceiverTypeOK
<1>2. plan[rIndex].resume = Len(OpenedPartial.data)
  <2>1. Held(CurrentFile) \in {plan[rIndex].resume, 0}
    BY <1>1 DEF ReceiverInv, OffsetsAreGood, Receiving, CurrentFile, ReceiverTypeOK
  <2> QED BY <1>1, <2>1 DEF Planned, ReadFileStart
<1>3. rHash' = OpenedPartial.data /\ rPos' = Len(rHash') /\ rHash' \in Content
  BY <1>1, <1>2, WholeSubSeq DEF PartialFile, ReadFileStart, HashedPrefix
<1>4. /\ CurrentFile' = CurrentFile
      /\ CurrentFile \in DOMAIN partials'
      /\ partials'[CurrentFile] = OpenedPartial
  <2>1. CurrentFile' = CurrentFile
    BY DEF CurrentFile, ReadFileStart
  <2> QED BY <1>1, <2>1 DEF With
<1>5. DiskInv'
  BY <1>1, PartialsChanged DEF ReceiverInv, ReadFileStart
<1>6. ReceiverTypeOK'
  BY <1>1, <1>3, LenProperties
     DEF ReceiverInv, ReceiverTypeOK, Content, ReadFileStart
<1>7. OffsetsAreGood'
  <2>1. \A g : Held(g)' = Held(g)
    BY <1>1, HeldWith
  <2> QED BY <1>1, <2>1, ResumeLater DEF ReadFileStart
<1> QED BY <1>1, <1>3, <1>4, <1>5, <1>6, <1>7
        DEF ReceiverInv, ReceiverShape, FedIsWritten, ReadyToRename,
            CurrentPartial, ReadFileStart

\* StalePartial keeps the invariant.
LEMMA StalePartialInv == ASSUME ReceiverInv, StalePartial PROVE ReceiverInv'
<1>1. DiskInv'
  BY OpenedPartialType, PartialsChanged DEF StalePartial, ReceiverInv
<1> QED BY <1>1, LeaveKeepsInv DEF StalePartial, Leave

\* ReadFileChunk keeps the invariant.
LEMMA ReadFileChunkInv ==
    ASSUME LinkTypeOK, ReceiverInv, ReadFileChunk
    PROVE  ReceiverInv'
<1> DEFINE bytes == Head(up[rConn]).bytes
           file == [data |-> WriteAt(CurrentPartial.data, rPos, bytes),
                    synced |-> FALSE]
<1>1. /\ rPc = "data"
      /\ rIndex \in DOMAIN plan
      /\ CurrentFile \in FileOffer
      /\ CurrentFile \in DOMAIN partials
      /\ CurrentPartial.data = rHash
      /\ rHash \in Content
      /\ Len(rHash) = rPos
      /\ IsPartialMap(partials, FileOffer, PartialFile)
  BY CurrentFileType
     DEF ReadFileChunk, ReceiverInv, ReceiverTypeOK, FedIsWritten
<1>2. bytes \in Content
  <2>1. rConn \in Conn /\ up[rConn] # <<>>
    BY DEF ReadFileChunk, HasFrame, ReceiverInv, ReceiverShape
  <2> QED BY <2>1, HeadUp DEF ReadFileChunk
<1> HIDE DEF bytes
<1>3. file.data = rHash \o bytes /\ file.synced = FALSE /\ file \in PartialFile
  <2>1. file.data = rHash \o bytes
    BY <1>1, <1>2, WriteAtEnd
  <2>2. rHash \o bytes \in Content
    BY <1>1, <1>2, ConcatProperties DEF Content
  <2> QED BY <2>1, <2>2 DEF PartialFile
<1>4. partials' = With(partials, CurrentFile, file)
  BY DEF ReadFileChunk, Written, bytes
<1> HIDE DEF file
<1>5. IsPartialMap(partials', FileOffer, PartialFile)
  BY <1>1, <1>3, <1>4, WithMap
<1>6. DiskInv'
  BY <1>5, PartialsChanged DEF ReceiverInv, ReadFileChunk
<1>7. rHash' = rHash \o bytes /\ rHash' \in Content /\ rPos' = Len(rHash')
  BY <1>1, <1>2, ConcatProperties DEF ReadFileChunk, bytes, Content
<1>8. ReceiverTypeOK'
  BY <1>5, <1>7, LenProperties
     DEF ReceiverInv, ReceiverTypeOK, ReadFileChunk, Content
<1>9. CurrentFile' = CurrentFile
  BY DEF CurrentFile, ReadFileChunk
<1>10. FedIsWritten'
  <2>1. CurrentFile \in DOMAIN partials' /\ partials'[CurrentFile] = file
    BY <1>4 DEF With
  <2> QED BY <1>3, <1>7, <1>9, <2>1
          DEF FedIsWritten, CurrentPartial, ReadFileChunk
<1>11. OffsetsAreGood'
  <2>1. \A g : Held(g)' = IF g = CurrentFile THEN Len(file.data) ELSE Held(g)
    BY <1>1, <1>3, <1>4, HeldWith
  <2> QED BY <1>1, <2>1, ResumeLater DEF ReadFileChunk
<1> QED BY <1>1, <1>6, <1>8, <1>10, <1>11
        DEF ReceiverInv, ReceiverShape, ReadyToRename, ReadFileChunk

\* ReadFileEnd keeps the invariant.
LEMMA ReadFileEndInv ==
    ASSUME ReceiverInv, ReadFileEnd
    PROVE  ReceiverInv'
<1> DEFINE file == [data |-> CurrentFile.hash, synced |-> TRUE]
<1>1. /\ rPc = "data"
      /\ rIndex \in DOMAIN plan
      /\ CurrentFile \in FileOffer
      /\ CurrentFile \in DOMAIN partials
      /\ CurrentPartial \in PartialFile
      /\ CurrentPartial.data = CurrentFile.hash
      /\ IsPartialMap(partials, FileOffer, PartialFile)
  BY CurrentFileType
     DEF ReadFileEnd, Verified, ReceiverInv, ReceiverTypeOK, FedIsWritten,
         SyncedPartial, IsPartialMap, CurrentPartial
<1>2. file \in PartialFile
  BY <1>1 DEF PartialFile, FileOffer
<1>3. partials' = With(partials, CurrentFile, file)
  BY <1>1 DEF ReadFileEnd, SyncedPartial
<1> HIDE DEF file
<1>4. IsPartialMap(partials', FileOffer, PartialFile)
  BY <1>1, <1>2, <1>3, WithMap
<1>5. DiskInv'
  BY <1>4, PartialsChanged DEF ReceiverInv, ReadFileEnd
<1>6. ReceiverTypeOK'
  BY <1>4 DEF ReceiverInv, ReceiverTypeOK, ReadFileEnd, ReadsFrame
<1>7. CurrentFile' = CurrentFile
  BY DEF CurrentFile, ReadFileEnd
<1>8. ReadyToRename'
  <2>1. CurrentFile \in DOMAIN partials' /\ partials'[CurrentFile] = file
    BY <1>3 DEF With
  <2> QED BY <1>7, <2>1 DEF ReadyToRename, CurrentPartial, file
<1>9. OffsetsAreGood'
  <2>1. \A g : Held(g)' = IF g = CurrentFile THEN Len(file.data) ELSE Held(g)
    BY <1>1, <1>2, <1>3, HeldWith
  <2> QED BY <1>1, <2>1, ResumeLater DEF ReadFileEnd
<1> QED BY <1>1, <1>5, <1>6, <1>8, <1>9
        DEF ReceiverInv, ReceiverShape, FedIsWritten, ReadFileEnd

\* HashMismatch keeps the invariant.
LEMMA HashMismatchInv == ASSUME ReceiverInv, HashMismatch PROVE ReceiverInv'
<1> DEFINE none == [data |-> <<>>, synced |-> FALSE]
<1>1. /\ CurrentFile \in FileOffer
      /\ CurrentFile \in DOMAIN partials
      /\ IsPartialMap(partials, FileOffer, PartialFile)
  BY CurrentFileType
     DEF HashMismatch, ReceiverInv, ReceiverTypeOK, FedIsWritten,
         ResetPartial, EmptyPartial
<1>2. none \in PartialFile
  BY DEF PartialFile, Content
<1>3. partials' = With(partials, CurrentFile, none)
  BY DEF HashMismatch, ResetPartial, EmptyPartial
<1> HIDE DEF none
<1>4. IsPartialMap(partials', FileOffer, PartialFile)
  BY <1>1, <1>2, <1>3, WithMap
<1>5. DiskInv'
  BY <1>4, PartialsChanged DEF ReceiverInv, HashMismatch
<1> QED BY <1>5, LeaveKeepsInv DEF HashMismatch, Leave

\* The rename, unless it stores a file at the name of a partial file.
LEMMA PlainRename ==
    ASSUME Rename, ~aliased'
    PROVE  StoreAt(plan[rIndex].destination)
  BY DEF Rename, StoreOverPartial

\* Rename keeps the invariant.
LEMMA RenameInv == ASSUME ReceiverInv, Rename, ~aliased' PROVE ReceiverInv'
<1> DEFINE d == plan[rIndex].destination
           file == [data |-> CurrentPartial.data, synced |-> CurrentPartial.synced,
                    by |-> {CurrentFile}]
           r == [place |-> d, file |-> CurrentFile, was |-> CurrentPartial,
                 over |-> {inbox[x] : x \in {d} \cap DOMAIN inbox}]
<1>1. /\ rPc = "rename"
      /\ rIndex \in DOMAIN plan
      /\ plan \in Seq(Planned)
      /\ CurrentFile \in FileOffer
      /\ d \in Place
      /\ CurrentFile \in DOMAIN partials
      /\ CurrentPartial = [data |-> CurrentFile.hash, synced |-> TRUE]
      /\ CurrentPartial \in PartialFile
      /\ DiskInv
      /\ IsPartialMap(partials, FileOffer, PartialFile)
      /\ IsPartialMap(inbox, Place, Stored)
  BY CurrentFileType
     DEF Rename, ReceiverInv, ReceiverTypeOK, ReadyToRename, Planned,
         DiskInv, DiskTypeOK, IsPartialMap, CurrentPartial
<1>2. file \in Stored /\ file.data = CurrentFile.hash /\ file.synced
  <2>1. CurrentFile.hash \in Content
    BY <1>1 DEF FileOffer
  <2> QED BY <1>1, <2>1 DEF Stored
<1>3. inbox' = With(inbox, d, file)
  BY PlainRename DEF StoreAt
<1>4. unflushed' = unflushed \cup {r} /\ UNCHANGED aliased
  BY PlainRename DEF StoreAt
<1>5. /\ IsPartialMap(inbox', Place, Stored)
      /\ DOMAIN inbox' = DOMAIN inbox \cup {d}
      /\ inbox'[d] = file
      /\ \A p \in DOMAIN inbox : p # d => inbox'[p] = inbox[p]
  <2> HIDE DEF d, file
  <2>1. IsPartialMap(inbox', Place, Stored)
    BY <1>1, <1>2, <1>3, WithMap
  <2> QED BY <1>3, <2>1 DEF With
<1>6. /\ r \in [place : Place, file : FileOffer, was : PartialFile,
                over : SUBSET Stored]
      /\ \A e \in r.over : e.synced /\ \A f \in e.by : e.data = f.hash
      /\ r.place \notin DOMAIN PartialAt
  BY <1>1, PlainRename DEF IsPartialMap, DiskInv, NamesAreWhole, Durable, StoreAt
<1>7. /\ IsPartialMap(partials', FileOffer, PartialFile)
      /\ \A g : Held(g)' = IF g = CurrentFile THEN 0 ELSE Held(g)
  <2>1. partials' = Without(partials, CurrentFile)
    BY PlainRename DEF StoreAt
  <2>2. IsPartialMap(partials', FileOffer, PartialFile)
    BY <1>1, <2>1, WithoutMap
  <2>3. /\ DOMAIN partials' = DOMAIN partials \ {CurrentFile}
        /\ \A y \in DOMAIN partials' : partials'[y] = partials[y]
    BY <2>1 DEF Without, Restrict
  <2> QED BY <2>2, <2>3 DEF Held
<1>8. DiskInv'
  <2> HIDE DEF d, r
  <2>1. DiskTypeOK'
    BY <1>1, <1>4, <1>5, <1>6, <1>7 DEF DiskInv, DiskTypeOK
  <2>2. NamesAreWhole'
    BY <1>1, <1>2, <1>5 DEF DiskInv, NamesAreWhole
  <2>3. Durable'
    BY <1>1, <1>2, <1>4, <1>5, <1>6 DEF DiskInv, Durable
  <2> QED BY <2>1, <2>2, <2>3 DEF DiskInv
<1>9. ReceiverTypeOK'
  <2>1. rIndex' \in Nat
    BY <1>1, LenProperties DEF Rename, ReceiverInv, ReceiverTypeOK
  <2> QED BY <1>8, <2>1
          DEF DiskInv, DiskTypeOK, Rename, ReceiverInv, ReceiverTypeOK,
              linkVars, Content
<1>10. ReceiverShape'
  BY <1>1, LenProperties
     DEF Rename, ReceiverInv, ReceiverShape, ReceiverTypeOK
<1>11. OffsetsAreGood'
  <2>1. CASE rIndex = Len(plan)
    BY <2>1 DEF Rename, OffsetsAreGood
  <2>2. CASE rIndex # Len(plan)
    <3>1. rPc' = "start" /\ rIndex' = rIndex + 1 /\ plan' = plan
      BY <2>2 DEF Rename
    <3>2. DOMAIN plan \subseteq Nat /\ rIndex \in Nat
      BY <1>1, LenProperties
    <3>3. ASSUME NEW k \in DOMAIN plan, k > rIndex, plan[k].file # CurrentFile
          PROVE  Held(plan[k].file) \in {plan[k].resume, 0}
      BY <1>1, <3>2, <3>3 DEF ReceiverInv, OffsetsAreGood, Receiving
    <3>4. ASSUME NEW k \in DOMAIN plan, k > rIndex
          PROVE  Held(plan[k].file)' \in {plan[k].resume, 0}
      BY <1>7, <3>1, <3>3, <3>4
    <3> QED BY <3>1, <3>2, <3>4 DEF OffsetsAreGood
  <2> QED BY <2>1, <2>2
<1> QED BY <1>8, <1>9, <1>10, <1>11
        DEF Rename, ReceiverInv, FedIsWritten, ReadyToRename

-----------------------------------------------------------------------------
(* Failures, and the disk. *)

\* Leaving receive_stream without touching the disk.
LEMMA LeaveInv ==
    ASSUME ReceiverInv, Leave(<<>>) \/ Leave(up[rConn]) \/ Leave(Tail(up[rConn])),
           UNCHANGED diskVars
    PROVE  ReceiverInv'
<1>1. DiskInv'
  BY DiskUnchanged DEF ReceiverInv
<1> QED BY <1>1, LeaveKeepsInv DEF Leave

\* DiskFails keeps the invariant.
LEMMA DiskFailsInv ==
    ASSUME LinkTypeOK, ReceiverInv, DiskFails
    PROVE  ReceiverInv'
<1>1. IsPartialMap(partials, FileOffer, PartialFile)
  BY DEF ReceiverInv, ReceiverTypeOK
<1>2. IsPartialMap(partials', FileOffer, PartialFile)
  <2>1. CASE UNCHANGED partials
    BY <1>1, <2>1
  <2>2. CASE /\ rPc = "data"
             /\ HasFrame
             /\ Head(up[rConn]).kind = "FileChunk"
             /\ \E k \in 0 .. Len(Head(up[rConn]).bytes) - 1 :
                   partials' = Written(SubSeq(Head(up[rConn]).bytes, 1, k))
    <3>1. rConn \in Conn /\ up[rConn] # <<>>
      BY <2>2 DEF HasFrame, ReceiverInv, ReceiverShape
    <3>2. Head(up[rConn]).bytes \in Content
      BY <2>2, <3>1, HeadUp
    <3>3. PICK k \in 0 .. Len(Head(up[rConn]).bytes) - 1 :
             partials' = Written(SubSeq(Head(up[rConn]).bytes, 1, k))
      BY <2>2
    <3> DEFINE bytes == SubSeq(Head(up[rConn]).bytes, 1, k)
    <3>4. bytes \in Content /\ partials' = Written(bytes)
      BY <3>2, <3>3, LenProperties, SubSeqProperties DEF Content
    <3> HIDE DEF bytes
    <3>5. /\ CurrentFile \in FileOffer
          /\ CurrentPartial.data \in Content
          /\ rPos \in Nat
          /\ rPos <= Len(CurrentPartial.data)
      BY <2>2, CurrentFileType
         DEF ReceiverInv, ReceiverTypeOK, FedIsWritten
    <3>6. [data |-> WriteAt(CurrentPartial.data, rPos, bytes), synced |-> FALSE]
             \in PartialFile
      BY <3>4, <3>5, WriteAtType DEF PartialFile
    <3> QED BY <1>1, <3>4, <3>5, <3>6, WithMap DEF Written
  <2> QED BY <2>1, <2>2 DEF DiskFails
<1>3. DiskInv'
  BY <1>2, PartialsChanged DEF ReceiverInv, DiskFails
<1> QED BY <1>3, LeaveKeepsInv DEF DiskFails, Leave

\* Crash keeps the invariant.
LEMMA CrashInv == ASSUME ReceiverInv, Crash PROVE ReceiverInv'
<1>1. DiskInv'
  BY DiskUnchanged DEF ReceiverInv, Crash
<1> QED BY <1>1, LeaveKeepsInv DEF Crash

\* Flush keeps the invariant.
LEMMA FlushInv == ASSUME ReceiverInv, Flush PROVE ReceiverInv'
<1>1. DiskInv'
  BY DEF Flush, ReceiverInv, DiskInv, DiskTypeOK, NamesAreWhole, Durable
<1> QED BY <1>1
        DEF Flush, ReceiverInv, ReceiverTypeOK, ReceiverShape, FedIsWritten,
            ReadyToRename, OffsetsAreGood, Receiving, Held, receiverVars,
            CurrentFile, CurrentPartial

\* LocalWrite keeps the invariant.
LEMMA LocalWriteInv ==
    ASSUME ReceiverInv, NEW p \in Place, LocalWrite(p)
    PROVE  ReceiverInv'
<1> DEFINE file == [data |-> <<>>, synced |-> TRUE, by |-> {}]
<1>1. file \in Stored /\ file.synced /\ file.by = {}
  BY DEF Stored, Content
<1>2. inbox' = With(inbox, p, file)
  BY DEF LocalWrite
<1> HIDE DEF file
<1>3. IsPartialMap(inbox', Place, Stored)
  BY <1>1, <1>2, WithMap DEF ReceiverInv, ReceiverTypeOK
<1>4. /\ DOMAIN inbox' = DOMAIN inbox \cup {p}
      /\ inbox'[p] = file
      /\ \A q \in DOMAIN inbox : q # p => inbox'[q] = inbox[q]
  BY <1>2 DEF With
<1>5. DiskInv'
  BY <1>1, <1>3, <1>4
     DEF LocalWrite, ReceiverInv, DiskInv, DiskTypeOK, NamesAreWhole, Durable
<1> QED BY <1>3, <1>5
        DEF LocalWrite, ReceiverInv, ReceiverTypeOK, ReceiverShape,
            FedIsWritten, ReadyToRename, OffsetsAreGood, Receiving, Held,
            receiverVars, CurrentFile, CurrentPartial

\* What a power loss leaves of the partial files.
LEMMA PartialsAfterType ==
    ASSUME DiskTypeOK, NEW lost \in SUBSET unflushed, NEW g \in PartialsAfter(lost)
    PROVE  IsPartialMap(g, FileOffer, PartialFile)
<1> DEFINE names == DOMAIN partials \cup {r.file : r \in lost} \cup Disturbed(lost)
           clear == names \ Disturbed(lost)
           safe == {f \in clear : Before(f, lost).synced}
           Left(f, v) == IF v.synced THEN {v} ELSE Remains(f, v.data)
           May(f) == IF f \in clear
                     THEN Left(f, Before(f, lost))
                     ELSE UNION {Left(f, v) : v \in Forms(f, lost)}
<1>1. names \subseteq FileOffer
  BY ReceiverAssumption DEF DiskTypeOK, IsPartialMap, Disturbed
<1>2. ASSUME NEW f \in clear PROVE Before(f, lost) \in PartialFile
  BY <1>2 DEF Before, DiskTypeOK, IsPartialMap
<1>3. ASSUME NEW f \in names, NEW v \in PartialFile
      PROVE  Left(f, v) \subseteq PartialFile
  <2> DEFINE longest == IF Len(v.data) > f.size THEN Len(v.data) ELSE f.size
  <2>1. longest \in Nat
    BY <1>1, <1>3, LenProperties DEF FileOffer, PartialFile, Content
  <2> HIDE DEF longest
  <2>2. \A n \in 0 .. longest : [1 .. n -> Block] \subseteq Content
    BY <2>1, SeqDef DEF Content
  <2>3. Remains(f, v.data) \subseteq PartialFile
    BY <2>2 DEF Remains, PartialFile, longest
  <2> QED BY <1>3, <2>3
<1>4. ASSUME NEW f PROVE Forms(f, lost) \subseteq PartialFile
  BY DEF Forms, DiskTypeOK, IsPartialMap, Stored, PartialFile
<1> HIDE DEF Left
<1>5. ASSUME NEW f \in names PROVE May(f) \subseteq PartialFile
  BY <1>2, <1>3, <1>4
<1>6. PICK kept \in SUBSET names :
         /\ g \in [kept -> UNION {May(f) : f \in kept}]
         /\ \A f \in kept : g[f] \in May(f)
  BY DEF PartialsAfter, Left
<1>7. ASSUME NEW f \in kept PROVE g[f] \in PartialFile
  BY <1>5, <1>6
<1> HIDE DEF May, names
<1> QED BY <1>1, <1>6, <1>7 DEF IsPartialMap

\* What a power loss leaves in the receive folder are files.
LEMMA InboxAfterType ==
    ASSUME DiskTypeOK, NEW lost \in SUBSET unflushed, inbox' = InboxAfter(lost)
    PROVE  IsPartialMap(inbox', Place, Stored)
<1> DEFINE Undone(p) == {r \in lost : r.place = p}
           left == {p \in DOMAIN inbox : \A r \in Undone(p) : r.over # {}}
           Old(p) == CHOOSE e \in UNION {r.over : r \in Undone(p)} : TRUE
           New(p) == IF Undone(p) # {} THEN Old(p)
                     ELSE IF inbox[p].synced THEN inbox[p]
                     ELSE [inbox[p] EXCEPT !.data = <<>>]
<1>1. inbox' = [p \in left |-> New(p)]
  BY DEF InboxAfter
<1>2. ASSUME NEW p \in left
      PROVE  New(p) \in Stored
  <2>1. CASE Undone(p) # {}
    <3>1. PICK r \in Undone(p) : r.over # {}
      BY <2>1
    <3>2. PICK e : e \in r.over
      BY <3>1
    <3>3. e \in UNION {q.over : q \in Undone(p)}
      BY <3>1, <3>2
    <3>4. Old(p) \in UNION {q.over : q \in Undone(p)}
      BY <3>3
    <3>5. PICK q \in lost : Old(p) \in q.over
      BY <3>4
    <3> HIDE DEF Old
    <3>6. Old(p) \in Stored
      BY <3>5 DEF DiskTypeOK
    <3> QED BY <2>1, <3>6
  <2>2. CASE Undone(p) = {}
    <3>1. inbox[p] \in Stored /\ <<>> \in Content
      BY EmptySeq DEF DiskTypeOK, IsPartialMap, Content
    <3>2. [inbox[p] EXCEPT !.data = <<>>] \in Stored
      BY <3>1 DEF Stored
    <3> QED BY <2>2, <3>1, <3>2
  <2> QED BY <2>1, <2>2
<1>3. left \subseteq Place
  BY DEF DiskTypeOK, IsPartialMap
<1> HIDE DEF left, New
<1> QED BY <1>1, <1>2, <1>3 DEF IsPartialMap

\* What a power loss leaves in the receive folder is still whole and durable.
LEMMA InboxAfterInv ==
    ASSUME DiskInv, NEW lost \in SUBSET unflushed, inbox' = InboxAfter(lost)
    PROVE  /\ IsPartialMap(inbox', Place, Stored)
           /\ NamesAreWhole'
           /\ \A p \in DOMAIN inbox' : inbox'[p].synced
<1> DEFINE Undone(p) == {r \in lost : r.place = p}
           left == {p \in DOMAIN inbox : \A r \in Undone(p) : r.over # {}}
           Old(p) == CHOOSE e \in UNION {r.over : r \in Undone(p)} : TRUE
           New(p) == IF Undone(p) # {} THEN Old(p) ELSE inbox[p]
<1>1. inbox' = [p \in left |->
                  IF Undone(p) # {} THEN Old(p)
                  ELSE IF inbox[p].synced THEN inbox[p]
                  ELSE [inbox[p] EXCEPT !.data = <<>>]]
  BY DEF InboxAfter
<1>2. ASSUME NEW p \in left
      PROVE  /\ inbox'[p] \in Stored
             /\ inbox'[p].synced
             /\ \A f \in inbox'[p].by : inbox'[p].data = f.hash
  <2>1. CASE Undone(p) # {}
    <3>1. Old(p) \in UNION {r.over : r \in Undone(p)}
      <4>1. PICK r \in Undone(p) : r.over # {}
        BY <2>1
      <4>2. PICK e : e \in r.over
        BY <4>1
      <4>3. e \in UNION {q.over : q \in Undone(p)}
        BY <4>1, <4>2
      <4> QED BY <4>3
    <3>2. PICK r \in lost : Old(p) \in r.over
      BY <3>1
    <3>3. inbox'[p] = Old(p)
      BY <1>1, <2>1
    <3> HIDE DEF Old
    <3> QED BY <3>2, <3>3 DEF DiskInv, DiskTypeOK, Durable
  <2>2. CASE Undone(p) = {}
    <3>1. inbox[p].synced
      BY DEF DiskInv, Durable
    <3>2. inbox'[p] = inbox[p]
      BY <1>1, <2>2, <3>1
    <3> QED BY <3>1, <3>2
            DEF DiskInv, DiskTypeOK, IsPartialMap, NamesAreWhole
  <2> QED BY <2>1, <2>2
<1>3. DOMAIN inbox' = left /\ left \subseteq Place
  BY <1>1 DEF DiskInv, DiskTypeOK, IsPartialMap
<1>4. inbox' = [p \in DOMAIN inbox' |-> inbox'[p]]
  BY <1>1
<1> HIDE DEF left
<1> QED BY <1>2, <1>3, <1>4 DEF IsPartialMap, NamesAreWhole

\* PowerLoss keeps the invariant.
LEMMA PowerLossInv == ASSUME ReceiverInv, PowerLoss PROVE ReceiverInv'
<1>1. PICK lost \in SUBSET unflushed :
         inbox' = InboxAfter(lost) /\ partials' \in PartialsAfter(lost)
  BY DEF PowerLoss
<1>2. DiskInv
  BY DEF ReceiverInv
<1>3. IsPartialMap(partials', FileOffer, PartialFile)
  BY <1>1, <1>2, PartialsAfterType DEF DiskInv
<1>4. DiskInv'
  BY <1>1, <1>2, <1>3, InboxAfterInv
     DEF PowerLoss, DiskInv, DiskTypeOK, Durable
<1> QED BY <1>4, LeaveKeepsInv DEF PowerLoss

-----------------------------------------------------------------------------
(* What holds whatever is stored at the names of partial files. *)

\* The disk is a part of the receiver's type.
LEMMA DiskOfType ==
    ASSUME ReceiverTypeOK
    PROVE  DiskTypeOK
  BY DEF ReceiverTypeOK, DiskTypeOK

\* The disk when only partial files have changed.
LEMMA DiskTypeChanged ==
    ASSUME ReceiverTypeOK, IsPartialMap(partials', FileOffer, PartialFile),
           UNCHANGED <<inbox, unflushed, aliased>>
    PROVE  DiskTypeOK'
  BY DEF ReceiverTypeOK, DiskTypeOK

\* After the receiver has dropped everything but the disk.
LEMMA LeaveKeepsBase ==
    ASSUME ReceiverForgets, rPc' \in {"off", "listening"}, DiskTypeOK'
    PROVE  ReceiverBase'
<1>1. ReceiverTypeOK'
  BY DEF ReceiverForgets, DiskTypeOK, ReceiverTypeOK, NoOffer, NoConn, Content
<1>2. ReceiverShape'
  BY DEF ReceiverForgets, ReceiverShape
<1> QED BY <1>1, <1>2 DEF ReceiverBase, StreamIsThere

\* The steps that leave the disk alone and stay on the connection.
LEMMA QuietBase ==
    ASSUME LinkTypeOK, ReceiverBase,
           \/ Listen \/ Accept \/ ReadHello \/ ReadOffer \/ SendAccept
           \/ ReadComplete
    PROVE  ReceiverBase'
<1> USE DEF ReceiverBase, ReceiverTypeOK, ReceiverShape, StreamIsThere, diskVars
<1>1. CASE Listen \/ ReadHello \/ ReadComplete
  BY <1>1 DEF Listen, ReadHello, ReadComplete
<1>2. CASE Accept
  <2>1. rConn' \in Conn
    BY <1>2, HeadTailProperties DEF Accept, LinkTypeOK
  <2> QED BY <1>2, <2>1 DEF Accept
<1>3. CASE ReadOffer
  <2>1. rConn \in Conn /\ up[rConn] # <<>> /\ TakesOffer(Head(up[rConn]))
    BY <1>3 DEF ReadOffer, HasFrame, Takes
  <2>2. rOffer' \in [id : Nat, files : Seq(FileOffer)] /\ rOffer'.files # <<>>
    BY <1>3, <2>1, HeadUp DEF ReadOffer, TakesOffer
  <2> QED BY <1>3, <2>2 DEF ReadOffer
<1>4. CASE SendAccept
  <2>1. rIndex' \in DOMAIN plan'
    BY <1>4, EmptySeq DEF SendAccept
  <2> QED BY <1>4, <2>1 DEF SendAccept
<1> QED BY <1>1, <1>2, <1>3, <1>4

\* prepare_files.
LEMMA PrepareFileBase ==
    ASSUME ReceiverBase, NEW f \in FileOffer, PrepareFile(f)
    PROVE  ReceiverBase'
<1>1. ReceiverTypeOK /\ DiskTypeOK /\ EmptyPartial \in PartialFile
  BY DiskOfType, EmptySeq DEF ReceiverBase, EmptyPartial, PartialFile, Content
<1>2. IsPartialMap(partials', FileOffer, PartialFile)
  <2>1. CASE Held(f) > f.size
    <3>1. partials' = With(partials, f, EmptyPartial)
      BY <2>1 DEF PrepareFile
    <3> QED BY <1>1, <3>1, WithMap DEF ReceiverTypeOK
  <2>2. CASE ~(Held(f) > f.size)
    BY <1>1, <2>2 DEF PrepareFile, ReceiverTypeOK
  <2> QED BY <2>1, <2>2
<1>3. PICK d \in Place :
        plan' = Append(plan, [file |-> f, destination |-> d,
                    resume |-> IF Held(f) > f.size THEN 0 ELSE Held(f)])
  BY DEF PrepareFile
<1>4. [file |-> f, destination |-> d,
       resume |-> IF Held(f) > f.size THEN 0 ELSE Held(f)] \in Planned
  BY <1>1, HeldType DEF Planned
<1>5. plan' \in Seq(Planned)
  BY <1>1, <1>3, <1>4, AppendProperties DEF ReceiverTypeOK
<1>6. ReceiverTypeOK'
  BY <1>1, <1>2, <1>5 DEF PrepareFile, ReceiverTypeOK
<1> QED BY <1>6
        DEF PrepareFile, Preparing, ReceiverBase, ReceiverShape, StreamIsThere

\* FileStart: the hasher has read what is kept of the file.
LEMMA ReadFileStartBase ==
    ASSUME ReceiverBase, ReadFileStart
    PROVE  ReceiverBase'
<1> DEFINE n == plan[rIndex].resume
           d == OpenedPartial.data
<1>1. /\ rIndex \in DOMAIN plan
      /\ n \in Nat
      /\ CurrentFile \in FileOffer
      /\ OpenedPartial \in PartialFile
      /\ partials' = With(partials, CurrentFile, OpenedPartial)
      /\ IsPartialMap(partials', FileOffer, PartialFile)
      /\ rPc = "start"
  BY CurrentFileType, OpenedPartialType
     DEF ReadFileStart, ReceiverBase, Planned
<1>2. d \in Content /\ Len(d) \in Nat /\ n <= Len(d)
  BY <1>1, LenProperties DEF PartialFile, Content, ReadFileStart
<1>3. /\ rHash' = SubSeq(d, 1, n) /\ rPos' = n /\ rPc' = "data"
      /\ CurrentFile' = CurrentFile
      /\ CurrentPartial' = OpenedPartial
      /\ CurrentFile \in DOMAIN partials'
  <2>1. rHash' = SubSeq(d, 1, n) /\ rPos' = n /\ rPc' = "data"
    BY DEF ReadFileStart, HashedPrefix
  <2>2. CurrentFile' = CurrentFile
    BY DEF CurrentFile, ReadFileStart
  <2>3. CurrentFile \in DOMAIN partials' /\ partials'[CurrentFile] = OpenedPartial
    BY <1>1 DEF With
  <2> QED BY <2>1, <2>2, <2>3 DEF CurrentPartial
<1> HIDE DEF d, n
<1>4. /\ rHash' \in Content
      /\ Len(rHash') = n
      /\ \A k \in 1 .. n : rHash'[k] = d[k]
  <2>1. \A k \in 1 .. n : d[k] \in Block
    BY <1>1, <1>2, ElementOfSeq DEF Content
  <2>2. /\ SubSeq(d, 1, n) \in Seq(Block)
        /\ Len(SubSeq(d, 1, n)) = IF 1 <= n THEN n - 1 + 1 ELSE 0
        /\ \A k \in 1 .. n - 1 + 1 : SubSeq(d, 1, n)[k] = d[1 + k - 1]
    BY <1>1, <2>1, SubSeqProperties
  <2> QED BY <1>1, <1>3, <2>2 DEF Content
<1>5. ReceiverTypeOK'
  BY <1>1, <1>3, <1>4 DEF ReceiverBase, ReceiverTypeOK, ReadFileStart
<1>6. StreamIsThere'
  <2>1. CurrentPartial'.data = d
    BY <1>3 DEF d
  <2> QED BY <1>2, <1>3, <1>4, <2>1 DEF StreamIsThere
<1>7. ReceiverShape'
  BY <1>1 DEF ReceiverBase, ReceiverShape, ReadFileStart
<1> QED BY <1>5, <1>6, <1>7 DEF ReceiverBase

\* A chunk is written where it is hashed.
LEMMA ReadFileChunkBase ==
    ASSUME LinkTypeOK, ReceiverBase, ReadFileChunk
    PROVE  ReceiverBase'
<1> DEFINE bytes == Head(up[rConn]).bytes
           old == CurrentPartial.data
           d == WriteAt(old, rPos, bytes)
           file == [data |-> d, synced |-> FALSE]
<1>1. /\ rPc = "data"
      /\ rIndex \in DOMAIN plan
      /\ CurrentFile \in FileOffer
      /\ CurrentFile \in DOMAIN partials
      /\ old \in Content
      /\ rHash \in Content
      /\ rPos \in Nat
      /\ Len(rHash) = rPos /\ rPos <= Len(old)
      /\ \A k \in 1 .. rPos : old[k] = rHash[k]
      /\ IsPartialMap(partials, FileOffer, PartialFile)
  <2>1. rPc = "data" /\ ReceiverTypeOK /\ ReceiverShape
    BY DEF ReadFileChunk, ReceiverBase
  <2>2. CurrentFile \in DOMAIN partials
    BY <2>1 DEF ReceiverBase, StreamIsThere
  <2>3. CurrentPartial \in PartialFile
    BY <2>1, <2>2 DEF ReceiverTypeOK, IsPartialMap, CurrentPartial
  <2> QED BY <2>1, <2>2, <2>3, CurrentFileType
          DEF ReceiverBase, StreamIsThere, ReceiverTypeOK, PartialFile
<1>2. bytes \in Content /\ Len(bytes) \in Nat /\ Len(old) \in Nat
  <2>1. rConn \in Conn /\ up[rConn] # <<>>
    BY DEF ReadFileChunk, HasFrame, ReceiverBase, ReceiverShape
  <2>2. bytes \in Content
    BY <2>1, HeadUp DEF ReadFileChunk
  <2> QED BY <1>1, <2>2, LenProperties DEF Content
<1>3. /\ partials' = With(partials, CurrentFile, file)
      /\ rHash' = rHash \o bytes /\ rPos' = rPos + Len(bytes)
      /\ rPc' = "data"
      /\ CurrentFile' = CurrentFile
  BY DEF ReadFileChunk, Written, CurrentFile
<1>4. CurrentFile \in DOMAIN partials' /\ CurrentPartial' = file
  BY <1>3 DEF With, CurrentPartial
<1> HIDE DEF bytes, old
<1>5. d \in Content
  BY <1>1, <1>2, WriteAtType
<1>6. /\ rHash' \in Content
      /\ Len(rHash') = rPos + Len(bytes)
      /\ \A k \in 1 .. rPos + Len(bytes) :
            rHash'[k] = IF k <= rPos THEN rHash[k] ELSE bytes[k - rPos]
  BY <1>1, <1>2, <1>3, ConcatProperties DEF Content
<1>7. /\ Len(d) >= rPos + Len(bytes)
      /\ \A k \in 1 .. rPos + Len(bytes) :
            d[k] = IF k <= rPos THEN old[k] ELSE bytes[k - rPos]
  <2> DEFINE n == IF Len(old) > rPos + Len(bytes) THEN Len(old)
                                                  ELSE rPos + Len(bytes)
  <2>1. n \in Nat /\ n >= rPos + Len(bytes)
    BY <1>1, <1>2
  <2>2. d = [k \in 1 .. n |-> IF k \in rPos + 1 .. rPos + Len(bytes)
                              THEN bytes[k - rPos] ELSE old[k]]
    BY DEF WriteAt
  <2> HIDE DEF d, n
  <2>3. Len(d) = n
    <3>1. DOMAIN d = 1 .. n
      BY <2>2
    <3>2. Len(d) \in Nat /\ DOMAIN d = 1 .. Len(d)
      BY <1>5, LenProperties DEF Content
    <3> QED BY <2>1, <3>1, <3>2
  <2> QED BY <1>1, <1>2, <2>1, <2>2, <2>3
<1> HIDE DEF d
<1>8. StreamIsThere'
  <2>1. CurrentPartial'.data = d
    BY <1>4
  <2>2. \A k \in 1 .. rPos + Len(bytes) : d[k] = rHash'[k]
    BY <1>1, <1>2, <1>6, <1>7
  <2>3. rPos' = rPos + Len(bytes) /\ Len(rHash') = rPos'
    BY <1>3, <1>6
  <2> QED BY <1>3, <1>4, <1>7, <2>1, <2>2, <2>3 DEF StreamIsThere
<1>9. file \in PartialFile
  BY <1>5 DEF PartialFile
<1> HIDE DEF file
<1>10. IsPartialMap(partials', FileOffer, PartialFile)
  BY <1>1, <1>3, <1>9, WithMap
<1>11. rPos' \in Nat
  BY <1>1, <1>2, <1>3
<1>12. ReceiverTypeOK'
  BY <1>6, <1>10, <1>11 DEF ReceiverBase, ReceiverTypeOK, ReadFileChunk
<1> QED BY <1>8, <1>12 DEF ReceiverBase, ReceiverShape, ReadFileChunk

\* The partial file while it is open.
LEMMA OpenFileType ==
    ASSUME ReceiverBase, rPc \in {"data", "rename"}
    PROVE  /\ CurrentFile \in FileOffer
           /\ CurrentFile \in DOMAIN partials
           /\ CurrentPartial \in PartialFile
<1>1. CurrentFile \in FileOffer /\ CurrentFile \in DOMAIN partials
  BY CurrentFileType DEF ReceiverBase, StreamIsThere
<1> QED BY <1>1
        DEF ReceiverBase, ReceiverTypeOK, IsPartialMap, CurrentPartial

\* The end of a file.
LEMMA ReadFileEndBase ==
    ASSUME ReceiverBase, ReadFileEnd
    PROVE  ReceiverBase'
<1>1. /\ rPc = "data" /\ rPc' = "rename"
      /\ CurrentFile \in FileOffer
      /\ SyncedPartial \in PartialFile
      /\ partials' = With(partials, CurrentFile, SyncedPartial)
      /\ CurrentFile' = CurrentFile
  BY OpenFileType
     DEF ReadFileEnd, SyncedPartial, PartialFile, CurrentFile
<1>2. IsPartialMap(partials', FileOffer, PartialFile)
  BY <1>1, WithMap DEF ReceiverBase, ReceiverTypeOK
<1>3. CurrentFile \in DOMAIN partials'
  BY <1>1 DEF With
<1> QED BY <1>1, <1>2, <1>3
        DEF ReceiverBase, ReceiverTypeOK, ReceiverShape, StreamIsThere,
            ReadFileEnd

\* The history variable is a truth value.
LEMMA AliasedType ==
    ASSUME aliased \in BOOLEAN, UNCHANGED aliased \/ aliased' = TRUE
    PROVE  (aliased \in BOOLEAN)'
  BY Zenon

\* The types of the disk, from those of its parts.
LEMMA DiskTypeNext ==
    ASSUME IsPartialMap(partials', FileOffer, PartialFile),
           IsPartialMap(inbox', Place, Stored),
           unflushed' \subseteq [place : Place, file : FileOffer,
                                 was : PartialFile, over : SUBSET Stored],
           (aliased \in BOOLEAN)'
    PROVE  DiskTypeOK'
  BY Zenon DEF DiskTypeOK

\* A rename, wherever it leads.
LEMMA RenameBase ==
    ASSUME ReceiverBase, Rename
    PROVE  ReceiverBase'
<1> DEFINE d == plan[rIndex].destination
           c == CurrentFile
           v == CurrentPartial
<1>1. /\ rPc = "rename"
      /\ rIndex \in DOMAIN plan
      /\ plan \in Seq(Planned)
      /\ d \in Place /\ c \in FileOffer /\ v \in PartialFile
      /\ IsPartialMap(partials, FileOffer, PartialFile)
      /\ IsPartialMap(inbox, Place, Stored)
      /\ DiskTypeOK
  BY CurrentFileType, OpenFileType, DiskOfType
     DEF Rename, ReceiverBase, ReceiverTypeOK, Planned
<1>2. ASSUME StoreAt(d) PROVE DiskTypeOK'
  <2> DEFINE file == [data |-> v.data, synced |-> v.synced, by |-> {c}]
             r == [place |-> d, file |-> c, was |-> v,
                   over |-> {inbox[x] : x \in {d} \cap DOMAIN inbox}]
  <2>1. /\ inbox' = With(inbox, d, file)
        /\ partials' = Without(partials, c)
        /\ unflushed' = unflushed \cup {r}
        /\ UNCHANGED aliased
    BY <1>2 DEF StoreAt
  <2> HIDE DEF d, c, v
  <2>2. file \in Stored
    BY <1>1 DEF Stored, PartialFile
  <2>3. r \in [place : Place, file : FileOffer, was : PartialFile,
               over : SUBSET Stored]
    BY <1>1 DEF IsPartialMap
  <2> HIDE DEF file, r
  <2>4. IsPartialMap(inbox', Place, Stored)
    BY <1>1, <2>1, <2>2, WithMap
  <2>5. IsPartialMap(partials', FileOffer, PartialFile)
    BY <1>1, <2>1, WithoutMap
  <2>6. unflushed' \subseteq [place : Place, file : FileOffer,
                              was : PartialFile, over : SUBSET Stored]
    BY <1>1, <2>1, <2>3 DEF DiskTypeOK
  <2>7. (aliased \in BOOLEAN)'
    BY <1>1, <2>1, AliasedType, Zenon DEF DiskTypeOK
  <2> QED BY <2>4, <2>5, <2>6, <2>7, DiskTypeNext
<1>3. ASSUME StoreOverPartial(d) PROVE DiskTypeOK'
  <2> DEFINE g == PartialAt[d]
             over == {[data |-> partials[x].data, synced |-> partials[x].synced,
                       by |-> {}] : x \in {g} \cap DOMAIN partials}
             r == [place |-> d, file |-> c, was |-> v, over |-> over]
  <2>1. /\ partials' = With(Without(partials, c), g, v)
        /\ unflushed' = unflushed \cup {r}
        /\ aliased' = TRUE
        /\ UNCHANGED inbox
        /\ d \in DOMAIN PartialAt
    BY <1>3 DEF StoreOverPartial, MovedToPartial
  <2>2. g \in FileOffer
    BY <2>1, ReceiverAssumption DEF IsPartialMap
  <2> HIDE DEF d, c, v, g
  <2>3. over \subseteq Stored
    BY <1>1 DEF IsPartialMap, Stored, PartialFile
  <2> HIDE DEF over
  <2>4. r \in [place : Place, file : FileOffer, was : PartialFile,
               over : SUBSET Stored]
    BY <1>1, <2>3
  <2> HIDE DEF r
  <2>5. IsPartialMap(Without(partials, c), FileOffer, PartialFile)
    BY <1>1, WithoutMap
  <2>6. IsPartialMap(partials', FileOffer, PartialFile)
    BY <1>1, <2>1, <2>2, <2>5, WithMap
  <2>7. unflushed' \subseteq [place : Place, file : FileOffer,
                              was : PartialFile, over : SUBSET Stored]
    BY <1>1, <2>1, <2>4 DEF DiskTypeOK
  <2>8. IsPartialMap(inbox', Place, Stored)
    BY <1>1, <2>1
  <2>9. (aliased \in BOOLEAN)'
    BY <1>1, <2>1, AliasedType, Zenon DEF DiskTypeOK
  <2> QED BY <2>6, <2>7, <2>8, <2>9, DiskTypeNext
<1>4. DiskTypeOK'
  <2>1. StoreAt(d) \/ StoreOverPartial(d)
    BY DEF Rename
  <2> QED BY <1>2, <1>3, <2>1
<1>5. rIndex' \in Nat
  BY <1>1, LenProperties DEF Rename, ReceiverBase, ReceiverTypeOK
<1>6. ReceiverTypeOK'
  BY <1>4, <1>5, EmptySeq
     DEF DiskTypeOK, Rename, ReceiverBase, ReceiverTypeOK, Content
<1>7. ReceiverShape'
  BY <1>1, LenProperties DEF Rename, ReceiverBase, ReceiverShape, ReceiverTypeOK
<1> QED BY <1>6, <1>7 DEF Rename, ReceiverBase, StreamIsThere

\* The disk after a failed operation.
LEMMA DiskFailsType ==
    ASSUME LinkTypeOK, ReceiverBase, DiskFails
    PROVE  DiskTypeOK'
<1>1. IsPartialMap(partials', FileOffer, PartialFile)
  <2>1. CASE UNCHANGED partials
    BY <2>1 DEF ReceiverBase, ReceiverTypeOK
  <2>2. CASE /\ rPc = "data"
             /\ HasFrame
             /\ Head(up[rConn]).kind = "FileChunk"
             /\ \E k \in 0 .. Len(Head(up[rConn]).bytes) - 1 :
                   partials' = Written(SubSeq(Head(up[rConn]).bytes, 1, k))
    <3>1. rConn \in Conn /\ up[rConn] # <<>>
      BY <2>2 DEF HasFrame, ReceiverBase, ReceiverShape
    <3>2. Head(up[rConn]).bytes \in Content
      BY <2>2, <3>1, HeadUp
    <3>3. PICK k \in 0 .. Len(Head(up[rConn]).bytes) - 1 :
             partials' = Written(SubSeq(Head(up[rConn]).bytes, 1, k))
      BY <2>2
    <3> DEFINE bytes == SubSeq(Head(up[rConn]).bytes, 1, k)
    <3>4. bytes \in Content /\ partials' = Written(bytes)
      BY <3>2, <3>3, LenProperties, SubSeqProperties DEF Content
    <3> HIDE DEF bytes
    <3>5. /\ CurrentFile \in FileOffer
          /\ CurrentPartial.data \in Content
          /\ rPos \in Nat
          /\ rPos <= Len(CurrentPartial.data)
      BY <2>2, OpenFileType
         DEF ReceiverBase, StreamIsThere, ReceiverTypeOK, PartialFile
    <3>6. [data |-> WriteAt(CurrentPartial.data, rPos, bytes), synced |-> FALSE]
             \in PartialFile
      BY <3>4, <3>5, WriteAtType DEF PartialFile
    <3> QED BY <3>4, <3>5, <3>6, WithMap
            DEF Written, ReceiverBase, ReceiverTypeOK
  <2> QED BY <2>1, <2>2 DEF DiskFails
<1> QED BY <1>1, DiskTypeChanged DEF ReceiverBase, DiskFails

\* Flush, and somebody else's file.
LEMMA DiskBase ==
    ASSUME ReceiverBase, Flush \/ \E p \in Place : LocalWrite(p)
    PROVE  ReceiverBase'
<1>1. /\ UNCHANGED <<receiverVars, partials, aliased>>
      /\ unflushed' \subseteq unflushed
  BY DEF Flush, LocalWrite
<1>2. IsPartialMap(inbox', Place, Stored) /\ foreign' \subseteq Place
  <2>1. CASE Flush
    BY <2>1 DEF Flush, ReceiverBase, ReceiverTypeOK
  <2>2. ASSUME NEW p \in Place, LocalWrite(p)
        PROVE  IsPartialMap(inbox', Place, Stored) /\ foreign' \subseteq Place
    <3> DEFINE file == [data |-> <<>>, synced |-> TRUE, by |-> {}]
    <3>1. file \in Stored
      BY EmptySeq DEF Stored, Content
    <3>2. inbox' = With(inbox, p, file)
      BY <2>2 DEF LocalWrite
    <3> HIDE DEF file
    <3>3. IsPartialMap(inbox', Place, Stored)
      BY <3>1, <3>2, WithMap DEF ReceiverBase, ReceiverTypeOK
    <3>4. foreign' = foreign \cup ({p} \cap PlannedPlaces)
      BY <2>2 DEF LocalWrite
    <3> QED BY <2>2, <3>3, <3>4 DEF ReceiverBase, ReceiverTypeOK
  <2> QED BY <2>1, <2>2
<1>3. CurrentFile' = CurrentFile /\ CurrentPartial' = CurrentPartial
  BY <1>1 DEF CurrentFile, CurrentPartial, receiverVars
<1>4. (aliased \in BOOLEAN)'
  <2>1. aliased \in BOOLEAN /\ UNCHANGED aliased
    BY <1>1, Zenon DEF ReceiverBase, ReceiverTypeOK
  <2> QED BY <2>1, AliasedType, Zenon
<1>5. DiskTypeOK'
  <2>1. IsPartialMap(partials', FileOffer, PartialFile)
    BY <1>1 DEF ReceiverBase, ReceiverTypeOK
  <2>2. unflushed' \subseteq [place : Place, file : FileOffer,
                              was : PartialFile, over : SUBSET Stored]
    BY <1>1 DEF ReceiverBase, ReceiverTypeOK
  <2> QED BY <1>2, <1>4, <2>1, <2>2, DiskTypeNext
<1>6. ReceiverTypeOK'
  BY <1>1, <1>2, <1>5
     DEF ReceiverBase, ReceiverTypeOK, DiskTypeOK, receiverVars
<1> QED BY <1>1, <1>3, <1>6
        DEF ReceiverBase, ReceiverShape, StreamIsThere, receiverVars

\* Every way out of receive_stream, and the end of the process.
LEMMA LeaveBase ==
    ASSUME LinkTypeOK, ReceiverBase,
           \/ NoFreeName \/ StalePartial \/ HashMismatch \/ Finish \/ Reject
           \/ ReceiverLinkError \/ ReceiverTimeout \/ DiskFails \/ Crash
           \/ PowerLoss
    PROVE  ReceiverBase'
<1>1. ReceiverForgets /\ rPc' \in {"off", "listening"}
  BY DEF NoFreeName, StalePartial, HashMismatch, Finish, Reject,
         ReceiverLinkError, ReceiverTimeout, DiskFails, Crash, PowerLoss, Leave
<1>2. ReceiverTypeOK /\ ReceiverShape /\ DiskTypeOK
  BY DiskOfType DEF ReceiverBase
<1>3. ASSUME NoFreeName \/ Finish \/ Reject \/ ReceiverLinkError
             \/ ReceiverTimeout \/ Crash
      PROVE  DiskTypeOK'
  <2>1. UNCHANGED diskVars
    BY <1>3
       DEF NoFreeName, Finish, Reject, ReceiverLinkError, ReceiverTimeout, Crash
  <2>2. (aliased \in BOOLEAN)'
    BY <1>2, <2>1, AliasedType, Zenon DEF DiskTypeOK, diskVars
  <2> QED BY <1>2, <2>1, <2>2, DiskTypeNext DEF DiskTypeOK, diskVars
<1>4. ASSUME StalePartial PROVE DiskTypeOK'
  BY <1>2, <1>4, OpenedPartialType, DiskTypeChanged DEF StalePartial
<1>5. ASSUME HashMismatch PROVE DiskTypeOK'
  <2>1. /\ CurrentFile \in FileOffer /\ ResetPartial \in PartialFile
        /\ partials' = With(partials, CurrentFile, ResetPartial)
    BY <1>5, OpenFileType, EmptySeq
       DEF HashMismatch, ResetPartial, EmptyPartial, PartialFile, Content
  <2>2. IsPartialMap(partials', FileOffer, PartialFile)
    BY <1>2, <2>1, WithMap DEF ReceiverTypeOK
  <2> QED BY <1>2, <1>5, <2>2, DiskTypeChanged DEF HashMismatch
<1>6. ASSUME DiskFails PROVE DiskTypeOK'
  BY <1>6, DiskFailsType
<1>7. ASSUME PowerLoss PROVE DiskTypeOK'
  <2>1. PICK lost \in SUBSET unflushed :
           inbox' = InboxAfter(lost) /\ partials' \in PartialsAfter(lost)
    BY <1>7 DEF PowerLoss
  <2>2. IsPartialMap(partials', FileOffer, PartialFile)
    BY <1>2, <2>1, PartialsAfterType
  <2>3. IsPartialMap(inbox', Place, Stored)
    BY <1>2, <2>1, InboxAfterType
  <2>4. unflushed' = {} /\ UNCHANGED aliased
    BY <1>7 DEF PowerLoss
  <2>5. (aliased \in BOOLEAN)'
    BY <1>2, <2>4, AliasedType, Zenon DEF DiskTypeOK
  <2> QED BY <2>2, <2>3, <2>4, <2>5, DiskTypeNext
<1>8. DiskTypeOK'
  BY <1>3, <1>4, <1>5, <1>6, <1>7
<1> QED BY <1>1, <1>8, LeaveKeepsBase

\* At first.
THEOREM ReceiverInit_Base ==
    ASSUME ReceiverInit
    PROVE  ReceiverBase
<1>1. (aliased \in BOOLEAN)
  BY Zenon DEF ReceiverInit
<1> QED BY <1>1, EmptySeq
        DEF ReceiverInit, ReceiverBase, ReceiverTypeOK, ReceiverShape,
            StreamIsThere, IsPartialMap, NoOffer, NoConn, Content

\* Every step of the receiver keeps its types, and keeps what it has hashed at
\* the beginning of the open partial file, also when files are stored at the
\* names of partial files.
THEOREM ReceiverNext_Base ==
    ASSUME LinkTypeOK, ReceiverBase, ReceiverNext
    PROVE  ReceiverBase'
<1>1. ASSUME NEW i \in DOMAIN rOffer.files, PrepareFile(rOffer.files[i])
      PROVE  ReceiverBase'
  <2>1. PICK f \in FileOffer : f = rOffer.files[i]
    BY ElementOfSeq DEF ReceiverBase, ReceiverTypeOK
  <2> QED BY <1>1, <2>1, PrepareFileBase
<1> QED BY <1>1, QuietBase, ReadFileStartBase, ReadFileChunkBase,
           ReadFileEndBase, RenameBase, DiskBase, LeaveBase
        DEF ReceiverNext, ReceiverStep

-----------------------------------------------------------------------------
(* All steps together. *)

\* The invariant holds of an empty receive folder.
THEOREM ReceiverInit_Inv ==
    ASSUME ReceiverInit
    PROVE  ReceiverInv
<1>1. (aliased \in BOOLEAN)
  BY Zenon DEF ReceiverInit
<1> QED
  BY <1>1, EmptySeq
     DEF ReceiverInit, ReceiverInv, ReceiverTypeOK, ReceiverShape, DiskInv,
         DiskTypeOK, NamesAreWhole, Durable, FedIsWritten, ReadyToRename,
         OffsetsAreGood, IsPartialMap, NoOffer, NoConn, Content

\* Nothing that was stored at the name of a partial file is forgotten.
LEMMA AliasedStays ==
    ASSUME ReceiverTypeOK, ReceiverNext, ~aliased'
    PROVE  ~aliased
  BY DEF ReceiverNext, ReceiverStep, Listen, Accept, ReadHello, ReadOffer,
         PrepareFile, NoFreeName, SendAccept, ReadFileStart, StalePartial,
         ReadFileChunk, ReadFileEnd, HashMismatch, Rename, StoreAt,
         StoreOverPartial, ReadComplete, Finish, Reject, ReceiverLinkError,
         ReceiverTimeout, DiskFails, Crash, PowerLoss, Flush, LocalWrite,
         diskVars

\* Every step of the receiver and of its environment keeps the invariant, but
\* for a rename to the name of a partial file.
THEOREM ReceiverNext_Inv ==
    ASSUME LinkTypeOK, ReceiverInv, ReceiverNext, ~aliased'
    PROVE  ReceiverInv'
<1>1. CASE Listen
  BY <1>1, ListenInv
<1>2. CASE ReceiverStep
  <2>1. CASE Accept
    BY <2>1, AcceptInv
  <2>2. CASE ReadHello
    BY <2>2, ReadHelloInv
  <2>3. CASE ReadOffer
    BY <2>3, ReadOfferInv
  <2>4. ASSUME NEW i \in DOMAIN rOffer.files, PrepareFile(rOffer.files[i])
        PROVE  ReceiverInv'
    <3>1. PICK f \in FileOffer : f = rOffer.files[i]
      BY ElementOfSeq DEF ReceiverInv, ReceiverTypeOK
    <3> QED BY <2>4, <3>1, PrepareFileInv
  <2>5. CASE NoFreeName
    BY <2>5, LeaveInv DEF NoFreeName
  <2>6. CASE SendAccept
    BY <2>6, SendAcceptInv
  <2>7. CASE ReadFileStart
    BY <2>7, ReadFileStartInv
  <2>8. CASE StalePartial
    BY <2>8, StalePartialInv
  <2>9. CASE ReadFileChunk
    BY <2>9, ReadFileChunkInv
  <2>10. CASE ReadFileEnd
    BY <2>10, ReadFileEndInv
  <2>11. CASE HashMismatch
    BY <2>11, HashMismatchInv
  <2>12. CASE Rename
    BY <2>12, RenameInv
  <2>13. CASE ReadComplete
    BY <2>13, ReadCompleteInv
  <2>14. CASE Finish
    BY <2>14, LeaveInv DEF Finish
  <2>15. CASE Reject
    BY <2>15, LeaveInv DEF Reject
  <2>16. CASE ReceiverLinkError
    BY <2>16, LeaveInv DEF ReceiverLinkError
  <2> QED BY <1>2, <2>1, <2>2, <2>3, <2>4, <2>5, <2>6, <2>7, <2>8, <2>9,
             <2>10, <2>11, <2>12, <2>13, <2>14, <2>15, <2>16
          DEF ReceiverStep
<1>3. CASE ReceiverTimeout
  BY <1>3, LeaveInv DEF ReceiverTimeout
<1>4. CASE DiskFails
  BY <1>4, DiskFailsInv
<1>5. CASE Crash
  BY <1>5, CrashInv
<1>6. CASE PowerLoss
  BY <1>6, PowerLossInv
<1>7. CASE Flush
  BY <1>7, FlushInv
<1>8. ASSUME NEW p \in Place, LocalWrite(p)
      PROVE  ReceiverInv'
  BY <1>8, LocalWriteInv
<1> QED BY <1>1, <1>2, <1>3, <1>4, <1>5, <1>6, <1>7, <1>8 DEF ReceiverNext

-----------------------------------------------------------------------------
(* The receiver's steps keep the link's type invariant. *)

\* Closing the connection.
LEMMA LeaveLink ==
    ASSUME LinkTypeOK, rConn \in Conn, faults' = faults \/ Fault,
           Leave(<<>>) \/ Leave(up[rConn]) \/ Leave(Tail(up[rConn]))
    PROVE  LinkTypeOK'
<1>1. faults' \in 0 .. MaxFaults
  BY LinkAssumption DEF LinkTypeOK, Fault
<1> QED BY <1>1, DeckClosesType DEF Leave

\* Reading a frame.
LEMMA ReadsFrameLink ==
    ASSUME LinkTypeOK, rConn \in Conn, up[rConn] # <<>>, ReadsFrame
    PROVE  LinkTypeOK'
  BY DeckReadsType DEF LinkTypeOK, ReadsFrame

\* The offsets of the Accept frame.
LEMMA OffsetsType ==
    ASSUME ReceiverTypeOK
    PROVE  [i \in DOMAIN plan |-> plan[i].resume] \in Seq(Nat)
<1>1. plan \in [1 .. Len(plan) -> Planned] /\ Len(plan) \in Nat
  BY LenProperties DEF ReceiverTypeOK
<1>2. [i \in DOMAIN plan |-> plan[i].resume] \in [1 .. Len(plan) -> Nat]
  BY <1>1 DEF Planned
<1> QED BY <1>1, <1>2, SeqDef

\* Every step of the receiver keeps the link within its type: what it writes is
\* what the PC can decode.
THEOREM ReceiverNext_Link ==
    ASSUME LinkTypeOK, ReceiverBase, ReceiverNext
    PROVE  LinkTypeOK'
<1> USE DEF ReceiverBase, ReceiverShape
<1>1. CASE Listen
  BY <1>1 DEF Listen, LinkTypeOK
<1>2. CASE ReceiverStep
  <2>1. CASE Accept
    BY <2>1, HeadTailProperties DEF Accept, LinkTypeOK
  <2>2. CASE ReadHello
    <3>1. up' \in [Conn -> Seq(Frame)]
      BY <2>2, DeckReadsType DEF ReadHello, HasFrame
    <3>2. down' \in [Conn -> Seq(Frame)] /\ broken' \in [Conn -> BOOLEAN]
      BY <2>2, DeckKinds, DeckWritesType DEF ReadHello
    <3> QED BY <2>2, <3>1, <3>2 DEF ReadHello, LinkTypeOK
  <2>3. CASE ReadOffer
    BY <2>3, ReadsFrameLink DEF ReadOffer, HasFrame
  <2>4. ASSUME NEW i \in DOMAIN rOffer.files, PrepareFile(rOffer.files[i])
        PROVE  LinkTypeOK'
    BY <2>4 DEF PrepareFile, LinkTypeOK, linkVars
  <2>5. CASE NoFreeName
    BY <2>5, LeaveLink DEF NoFreeName, Preparing
  <2>6. CASE SendAccept
    <3>1. rOffer.id \in Nat
      BY DEF ReceiverTypeOK
    <3>2. down' \in [Conn -> Seq(Frame)] /\ broken' \in [Conn -> BOOLEAN]
      BY <2>6, <3>1, OffsetsType, DeckKinds, DeckWritesType DEF SendAccept
    <3> QED BY <2>6, <3>2 DEF SendAccept, LinkTypeOK
  <2>7. CASE ReadFileStart
    BY <2>7, ReadsFrameLink DEF ReadFileStart, HasFrame
  <2>8. CASE StalePartial
    BY <2>8, LeaveLink DEF StalePartial
  <2>9. CASE ReadFileChunk
    BY <2>9, ReadsFrameLink DEF ReadFileChunk, HasFrame
  <2>10. CASE ReadFileEnd
    BY <2>10, ReadsFrameLink DEF ReadFileEnd, HasFrame
  <2>11. CASE HashMismatch
    BY <2>11, LeaveLink DEF HashMismatch
  <2>12. CASE Rename
    BY <2>12 DEF Rename, LinkTypeOK, linkVars
  <2>13. CASE ReadComplete
    <3>1. up' \in [Conn -> Seq(Frame)]
      BY <2>13, DeckReadsType DEF ReadComplete, HasFrame
    <3>2. Len(plan) \in Nat
      BY LenProperties DEF ReceiverTypeOK
    <3>3. down' \in [Conn -> Seq(Frame)] /\ broken' \in [Conn -> BOOLEAN]
      BY <2>13, <3>2, DeckKinds, DeckWritesType DEF ReadComplete
    <3> QED BY <2>13, <3>1, <3>3 DEF ReadComplete, LinkTypeOK
  <2>14. CASE Finish
    BY <2>14, LeaveLink DEF Finish
  <2>15. CASE Reject
    BY <2>15, LeaveLink DEF Reject, ReceiverReads
  <2>16. CASE ReceiverLinkError
    BY <2>16, LeaveLink DEF ReceiverLinkError, ReceiverReads
  <2> QED BY <1>2, <2>1, <2>2, <2>3, <2>4, <2>5, <2>6, <2>7, <2>8, <2>9,
             <2>10, <2>11, <2>12, <2>13, <2>14, <2>15, <2>16
          DEF ReceiverStep
<1>3. CASE ReceiverTimeout
  BY <1>3, LeaveLink DEF ReceiverTimeout, ReceiverWaits, ReceiverReads
<1>4. CASE DiskFails
  BY <1>4, LeaveLink DEF DiskFails, Preparing
<1>5. CASE Crash
  BY <1>5, LinkAssumption, DeckGoneType DEF Crash, Fault, LinkTypeOK
<1>6. CASE PowerLoss
  BY <1>6, LinkAssumption, DeckGoneType DEF PowerLoss, Fault, LinkTypeOK
<1>7. CASE Flush
  BY <1>7 DEF Flush, LinkTypeOK, linkVars
<1>8. ASSUME NEW p \in Place, LocalWrite(p)
      PROVE  LinkTypeOK'
  BY <1>8, LinkAssumption DEF LocalWrite, LinkTypeOK, Fault
<1> QED BY <1>1, <1>2, <1>3, <1>4, <1>5, <1>6, <1>7, <1>8 DEF ReceiverNext

-----------------------------------------------------------------------------
(* Destinations. *)

\* The planned destinations are different from each other, and those still to
\* be filled are free unless somebody has filled them meanwhile.
Reserved ==
    /\ \A i, j \in DOMAIN plan :
          plan[i].destination = plan[j].destination => i = j
    /\ \A i \in DOMAIN plan :
          \/ plan[i].destination \notin DOMAIN inbox
          \/ plan[i].destination \in foreign
          \/ rPc \in {"start", "data", "rename"} /\ i < rIndex
          \/ rPc \in {"complete", "finished"}

\* Steps that leave plan and receive folder alone.
LEMMA ReservedUnchanged ==
    ASSUME Reserved, UNCHANGED <<plan, inbox, foreign>>,
           \/ UNCHANGED <<rPc, rIndex>>
           \/ /\ {rPc, rPc'} \subseteq {"start", "data", "rename"}
              /\ UNCHANGED rIndex
           \/ rPc = "prepare"
           \/ rPc' = "finished"
    PROVE  Reserved'
  BY DEF Reserved

\* Without a plan nothing is reserved.
LEMMA ReservedEmpty ==
    ASSUME plan' = <<>>
    PROVE  Reserved'
  BY DEF Reserved

\* prepare_files reserves the place it has found free.
LEMMA ReservedPrepare ==
    ASSUME ReceiverBase, Reserved, NEW f, PrepareFile(f)
    PROVE  Reserved'
<1>1. PICK d \in Place :
        /\ d \notin DOMAIN inbox
        /\ d \notin PlannedPlaces
        /\ plan' = Append(plan, [file |-> f, destination |-> d,
                    resume |-> IF Held(f) > f.size THEN 0 ELSE Held(f)])
  BY DEF PrepareFile, FirstFree, IsFree, Exists
<1>2. plan \in Seq(Planned)
  BY DEF ReceiverBase, ReceiverTypeOK
<1>3. /\ DOMAIN plan = 1 .. Len(plan) /\ Len(plan) \in Nat
      /\ DOMAIN plan' = DOMAIN plan \cup {Len(plan) + 1}
      /\ \A k \in DOMAIN plan : plan'[k] = plan[k]
      /\ plan'[Len(plan) + 1].destination = d
  BY <1>1, <1>2, LenProperties
<1>4. rPc = "prepare" /\ UNCHANGED <<rPc, inbox, foreign>>
  BY DEF PrepareFile, Preparing
<1>5. \A k \in DOMAIN plan : plan[k].destination # d
  BY <1>1 DEF PlannedPlaces
<1> QED BY <1>1, <1>3, <1>4, <1>5 DEF Reserved

\* A rename uses up its own place, and no other.
LEMMA ReservedRename ==
    ASSUME ReceiverBase, Reserved, Rename
    PROVE  Reserved'
<1>1. /\ rIndex \in DOMAIN plan
      /\ DOMAIN plan = 1 .. Len(plan)
      /\ Len(plan) \in Nat
      /\ rPc = "rename"
  BY CurrentFileType, LenProperties DEF Rename, ReceiverBase, ReceiverTypeOK
<1>2. DOMAIN inbox' \subseteq DOMAIN inbox \cup {plan[rIndex].destination}
  BY DEF Rename, StoreAt, StoreOverPartial, With
<1>3. UNCHANGED <<plan, foreign>>
  BY DEF Rename
<1>4. CASE rIndex = Len(plan)
  BY <1>3, <1>4 DEF Rename, Reserved
<1>5. CASE rIndex # Len(plan)
  <2>1. rPc' = "start" /\ rIndex' = rIndex + 1
    BY <1>5 DEF Rename
  <2>2. ASSUME NEW i \in DOMAIN plan, i > rIndex
        PROVE  \/ plan[i].destination \notin DOMAIN inbox'
               \/ plan[i].destination \in foreign
    BY <1>1, <1>2, <2>2 DEF Reserved
  <2> QED BY <1>1, <1>3, <2>1, <2>2 DEF Reserved
<1> QED BY <1>4, <1>5

\* A file of somebody else at a reserved place is remembered in foreign.
LEMMA ReservedLocalWrite ==
    ASSUME ReceiverBase, Reserved, NEW p \in Place, LocalWrite(p)
    PROVE  Reserved'
<1>1. /\ DOMAIN inbox' = DOMAIN inbox \cup {p}
      /\ foreign' = foreign \cup ({p} \cap PlannedPlaces)
      /\ UNCHANGED <<plan, rPc, rIndex>>
  BY DEF LocalWrite, With, receiverVars
<1>2. \A i \in DOMAIN plan : plan[i].destination \in PlannedPlaces
  BY DEF PlannedPlaces
<1> QED BY <1>1, <1>2 DEF Reserved

\* Leaving receive_stream gives the plan up.
LEMMA ReservedLeave ==
    ASSUME Leave(<<>>) \/ Leave(up[rConn]) \/ Leave(Tail(up[rConn]))
    PROVE  Reserved'
  BY ReservedEmpty DEF Leave, ReceiverForgets

\* The destinations of a plan stay its own in every step of the receiver.
THEOREM ReceiverNext_Reserved ==
    ASSUME ReceiverBase, Reserved, ReceiverNext
    PROVE  Reserved'
<1>1. CASE Listen
  BY <1>1, ReservedEmpty DEF Listen, ReceiverBase, ReceiverShape
<1>2. CASE ReceiverStep
  <2>1. CASE Accept \/ ReadHello \/ ReadOffer
    BY <2>1, ReservedEmpty
       DEF Accept, ReadHello, ReadOffer, ReceiverBase, ReceiverShape
  <2>2. ASSUME NEW i \in DOMAIN rOffer.files, PrepareFile(rOffer.files[i])
        PROVE  Reserved'
    <3>1. PICK f : f = rOffer.files[i]
      OBVIOUS
    <3> QED BY <2>2, <3>1, ReservedPrepare
  <2>3. CASE SendAccept
    BY <2>3, ReservedUnchanged DEF SendAccept, diskVars
  <2>4. CASE ReadFileStart \/ ReadFileChunk \/ ReadFileEnd
    BY <2>4, ReservedUnchanged DEF ReadFileStart, ReadFileChunk, ReadFileEnd
  <2>5. CASE Rename
    BY <2>5, ReservedRename
  <2>6. CASE ReadComplete
    BY <2>6, ReservedUnchanged DEF ReadComplete, diskVars
  <2>7. CASE NoFreeName \/ StalePartial \/ HashMismatch \/ Finish \/ Reject
               \/ ReceiverLinkError
    BY <2>7, ReservedLeave
       DEF NoFreeName, StalePartial, HashMismatch, Finish, Reject,
           ReceiverLinkError
  <2> QED BY <1>2, <2>1, <2>2, <2>3, <2>4, <2>5, <2>6, <2>7 DEF ReceiverStep
<1>3. CASE ReceiverTimeout \/ DiskFails
  BY <1>3, ReservedLeave DEF ReceiverTimeout, DiskFails
<1>4. CASE Crash \/ PowerLoss
  BY <1>4, ReservedEmpty DEF Crash, PowerLoss, ReceiverForgets
<1>5. CASE Flush
  BY <1>5, ReservedUnchanged DEF Flush, receiverVars
<1>6. ASSUME NEW p \in Place, LocalWrite(p)
      PROVE  Reserved'
  BY <1>6, ReservedLocalWrite
<1> QED BY <1>1, <1>2, <1>3, <1>4, <1>5, <1>6 DEF ReceiverNext

\* What KeepsBoth says of one step.
KeepsBothStep ==
    \A p \in DOMAIN inbox :
        \/ p \in DOMAIN inbox' /\ inbox'[p] = inbox[p]
        \/ p \in foreign
        \/ rPc' = "off"

\* No step of the receiver replaces a file, except by a power loss or where
\* somebody else has taken a reserved place.
THEOREM ReceiverNext_KeepsBoth ==
    ASSUME ReceiverBase, Reserved, ReceiverNext
    PROVE  KeepsBothStep
<1>1. CASE UNCHANGED inbox
  BY <1>1 DEF KeepsBothStep
<1>2. CASE Rename
  <2>1. rIndex \in DOMAIN plan /\ rPc = "rename" /\ DOMAIN plan \subseteq Nat
    BY <1>2, CurrentFileType, LenProperties
       DEF Rename, ReceiverBase, ReceiverTypeOK
  <2>2. \/ plan[rIndex].destination \notin DOMAIN inbox
        \/ plan[rIndex].destination \in foreign
    BY <2>1 DEF Reserved
  <2>3. \A p \in DOMAIN inbox :
           p # plan[rIndex].destination =>
               p \in DOMAIN inbox' /\ inbox'[p] = inbox[p]
    BY <1>2 DEF Rename, StoreAt, StoreOverPartial, With
  <2> QED BY <2>2, <2>3 DEF KeepsBothStep
<1>3. CASE PowerLoss
  BY <1>3 DEF PowerLoss, KeepsBothStep
<1>4. ASSUME NEW p \in Place, LocalWrite(p)
      PROVE  KeepsBothStep
  BY <1>4 DEF LocalWrite, With, KeepsBothStep
<1>5. ReceiverNext => \/ UNCHANGED inbox \/ Rename \/ PowerLoss
                      \/ \E p \in Place : LocalWrite(p)
  BY DEF ReceiverNext, ReceiverStep, Listen, Accept, ReadHello, ReadOffer,
         PrepareFile, NoFreeName, SendAccept, ReadFileStart, StalePartial,
         ReadFileChunk, ReadFileEnd, HashMismatch, ReadComplete, Finish,
         Reject, ReceiverLinkError, ReceiverTimeout, DiskFails, Crash, Flush,
         diskVars
<1> QED BY <1>1, <1>2, <1>3, <1>4, <1>5

-----------------------------------------------------------------------------
(* What earlier transfers have received. *)

\* What ResumeKept says of one step.
ResumeKeptStep ==
    \A f \in DOMAIN partials :
        \/ f \in DOMAIN partials' /\ Len(partials'[f].data) >= Len(partials[f].data)
        \/ ~CanBecome(partials[f].data, f)
        \/ \E p \in DOMAIN inbox' : f \in inbox'[p].by
        \/ rPc' = "off"
        \/ aliased'

\* Data that can become the offered file are not longer than it, and are the
\* whole of it when they are as long.
LEMMA CanBecomeLength ==
    ASSUME NEW f \in FileOffer, NEW d \in Content, CanBecome(d, f)
    PROVE  Len(d) <= f.size /\ (Len(d) >= f.size => d = f.hash)
<1>1. /\ f.hash \in Seq(Block) /\ d \in Seq(Block)
      /\ Len(d) \in Nat /\ Len(f.hash) \in Nat
      /\ DOMAIN d = 1 .. Len(d) /\ DOMAIN f.hash = 1 .. Len(f.hash)
      /\ f.size = Len(f.hash)
  BY LenProperties DEF FileOffer, Content, CanBecome
<1>2. \A k \in 1 .. Len(d) : k \in 1 .. Len(f.hash) /\ d[k] = f.hash[k]
  BY <1>1 DEF CanBecome
<1>3. Len(d) <= Len(f.hash)
  <2>1. CASE Len(d) = 0
    BY <1>1, <2>1
  <2>2. CASE Len(d) # 0
    <3>1. Len(d) \in 1 .. Len(d)
      BY <1>1, <2>2
    <3>2. Len(d) \in 1 .. Len(f.hash)
      BY <1>2, <3>1
    <3> QED BY <1>1, <3>2
  <2> QED BY <2>1, <2>2
<1>4. ASSUME Len(d) >= f.size
      PROVE  d = f.hash
  <2>1. Len(d) = Len(f.hash)
    BY <1>1, <1>3, <1>4
  <2> QED BY <1>1, <1>2, <2>1, SeqEqual
<1> QED BY <1>1, <1>3, <1>4

\* A step that changes one partial file, and does not make it shorter.
LEMMA GrownIsKept ==
    ASSUME DiskTypeOK, NEW f, NEW v, partials' = With(partials, f, v),
           f \in DOMAIN partials => Len(v.data) >= Len(partials[f].data)
    PROVE  ResumeKeptStep
<1>1. \A g \in DOMAIN partials : Len(partials[g].data) \in Nat
  BY LenProperties DEF DiskTypeOK, IsPartialMap, PartialFile, Content
<1>2. \A g \in DOMAIN partials :
         /\ g \in DOMAIN partials'
         /\ partials'[g] = IF g = f THEN v ELSE partials[g]
  BY DEF With
<1> QED BY <1>1, <1>2 DEF ResumeKeptStep

\* Nothing a step of the receiver does shortens a partial file that is worth
\* keeping: it is opened without truncating, and written at its end.
THEOREM ReceiverNext_ResumeKept ==
    ASSUME LinkTypeOK, ReceiverInv, ReceiverNext, ~aliased'
    PROVE  ResumeKeptStep
<1>1. DiskTypeOK
  BY DEF ReceiverInv, DiskInv
<1>2. \A g \in DOMAIN partials :
         /\ g \in FileOffer
         /\ partials[g].data \in Content
         /\ Len(partials[g].data) \in Nat
  BY <1>1, LenProperties DEF DiskTypeOK, IsPartialMap, PartialFile, Content
<1>3. CASE UNCHANGED partials
  BY <1>2, <1>3 DEF ResumeKeptStep
<1>4. ASSUME NEW i \in DOMAIN rOffer.files, PrepareFile(rOffer.files[i]),
             ~UNCHANGED partials
      PROVE  ResumeKeptStep
  <2> DEFINE f == rOffer.files[i]
  <2>1. Held(f) > f.size /\ partials' = With(partials, f, EmptyPartial)
    BY <1>4 DEF PrepareFile
  <2>2. \A g \in DOMAIN partials :
           g # f => g \in DOMAIN partials' /\ partials'[g] = partials[g]
    BY <2>1 DEF With
  <2>3. f \in DOMAIN partials => ~CanBecome(partials[f].data, f)
    BY <1>2, <2>1, CanBecomeLength DEF Held, FileOffer
  <2> HIDE DEF f
  <2> QED BY <1>2, <2>2, <2>3 DEF ResumeKeptStep
<1>5. CASE ReadFileStart \/ StalePartial
  <2>1. partials' = With(partials, CurrentFile, OpenedPartial)
    BY <1>5 DEF ReadFileStart, StalePartial
  <2>2. CurrentFile \in DOMAIN partials => OpenedPartial = partials[CurrentFile]
    BY DEF OpenedPartial, CurrentPartial
  <2> QED BY <1>1, <1>2, <2>1, <2>2, GrownIsKept
<1>6. ASSUME NEW bytes \in Content, partials' = Written(bytes), rPc = "data"
      PROVE  ResumeKeptStep
  <2>1. CurrentPartial.data \in Content /\ Len(CurrentPartial.data) = rPos
    BY <1>2, <1>6 DEF ReceiverInv, FedIsWritten, CurrentPartial
  <2>2. WriteAt(CurrentPartial.data, rPos, bytes) = CurrentPartial.data \o bytes
    BY <1>6, <2>1, WriteAtEnd
  <2>3. Len(CurrentPartial.data \o bytes) >= Len(CurrentPartial.data)
    BY <1>6, <2>1, ConcatProperties, LenProperties DEF Content
  <2>4. partials' = With(partials, CurrentFile,
              [data |-> CurrentPartial.data \o bytes, synced |-> FALSE])
    BY <1>6, <2>2 DEF Written
  <2> QED BY <1>1, <2>3, <2>4, GrownIsKept DEF CurrentPartial
<1>7. ASSUME rPc = "data", HasFrame, Head(up[rConn]).kind = "FileChunk"
      PROVE  Head(up[rConn]).bytes \in Content
  <2>1. rConn \in Conn /\ up[rConn] # <<>>
    BY <1>7 DEF HasFrame, ReceiverInv, ReceiverShape
  <2> QED BY <1>7, <2>1, HeadUp
<1>8. CASE ReadFileChunk
  BY <1>6, <1>7, <1>8 DEF ReadFileChunk
<1>9. ASSUME DiskFails, ~UNCHANGED partials
      PROVE  ResumeKeptStep
  <2>1. rPc = "data" /\ HasFrame /\ Head(up[rConn]).kind = "FileChunk"
    BY <1>9 DEF DiskFails
  <2>2. PICK k \in 0 .. Len(Head(up[rConn]).bytes) - 1 :
           partials' = Written(SubSeq(Head(up[rConn]).bytes, 1, k))
    BY <1>9 DEF DiskFails
  <2>3. SubSeq(Head(up[rConn]).bytes, 1, k) \in Content
    BY <1>7, <2>1, LenProperties, SubSeqProperties DEF Content
  <2> QED BY <1>6, <2>1, <2>2, <2>3
<1>10. CASE ReadFileEnd
  <2>1. partials' = With(partials, CurrentFile, SyncedPartial)
    BY <1>10 DEF ReadFileEnd
  <2>2. SyncedPartial.data = CurrentPartial.data
    BY DEF SyncedPartial
  <2> QED BY <1>1, <1>2, <2>1, <2>2, GrownIsKept DEF CurrentPartial
<1>11. CASE HashMismatch
  <2>1. /\ CurrentFile \in FileOffer
        /\ CurrentFile \in DOMAIN partials
        /\ CurrentPartial.data = rHash
        /\ Len(rHash) = rPos
        /\ rHash # CurrentFile.hash
    BY <1>11, CurrentFileType
       DEF HashMismatch, Verified, ReceiverInv, FedIsWritten
  <2>2. rPos >= CurrentFile.size
    BY <1>11 DEF HashMismatch, HasFrame, Takes, TakesFileChunk, TakesFileEnd, Hello
  <2>3. ~CanBecome(CurrentPartial.data, CurrentFile)
    BY <1>2, <2>1, <2>2, CanBecomeLength DEF CurrentPartial
  <2>4. \A g \in DOMAIN partials : g # CurrentFile =>
           g \in DOMAIN partials' /\ partials'[g] = partials[g]
    BY <1>11 DEF HashMismatch, With
  <2> QED BY <1>2, <2>3, <2>4 DEF ResumeKeptStep, CurrentPartial
<1>12. CASE Rename
  <2>1. \A g \in DOMAIN partials : g # CurrentFile =>
           g \in DOMAIN partials' /\ partials'[g] = partials[g]
    BY <1>12, PlainRename DEF StoreAt, Without, Restrict
  <2>2. \E p \in DOMAIN inbox' : CurrentFile \in inbox'[p].by
    BY <1>12, PlainRename DEF StoreAt, With
  <2> QED BY <1>2, <2>1, <2>2 DEF ResumeKeptStep
<1>13. CASE PowerLoss
  BY <1>13 DEF PowerLoss, ResumeKeptStep
<1>14. ReceiverNext =>
         \/ UNCHANGED partials \/ ReadFileStart \/ StalePartial \/ ReadFileChunk
         \/ ReadFileEnd \/ HashMismatch \/ Rename \/ PowerLoss \/ DiskFails
         \/ \E i \in DOMAIN rOffer.files : PrepareFile(rOffer.files[i])
  BY DEF ReceiverNext, ReceiverStep, Listen, Accept, ReadHello, ReadOffer,
         NoFreeName, SendAccept, ReadComplete, Finish, Reject,
         ReceiverLinkError, ReceiverTimeout, Crash, Flush, LocalWrite, diskVars
<1> QED BY <1>3, <1>4, <1>5, <1>8, <1>9, <1>10, <1>11, <1>12, <1>13, <1>14

-----------------------------------------------------------------------------
\* Steps of the peer and of the network.
THEOREM ReceiverUnchanged ==
    ASSUME UNCHANGED <<receiverVars, diskVars, foreign>>
    PROVE  /\ ReceiverBase => ReceiverBase'
           /\ Reserved => Reserved'
           /\ ReceiverInv => ReceiverInv'
<1> USE DEF receiverVars, diskVars
<1>1. CurrentFile' = CurrentFile /\ CurrentPartial' = CurrentPartial
  BY DEF CurrentFile, CurrentPartial
<1>2. ReceiverTypeOK => ReceiverTypeOK'
  BY DEF ReceiverTypeOK
<1>3. ReceiverShape => ReceiverShape'
  BY DEF ReceiverShape
<1>4. StreamIsThere => StreamIsThere'
  BY <1>1 DEF StreamIsThere
<1>5. DiskInv => DiskInv'
  BY DiskUnchanged
<1>6. /\ FedIsWritten => FedIsWritten'
      /\ ReadyToRename => ReadyToRename'
  BY <1>1 DEF FedIsWritten, ReadyToRename
<1>7. OffsetsAreGood => OffsetsAreGood'
  BY <1>1 DEF OffsetsAreGood, Receiving, Held
<1>8. Reserved => Reserved'
  BY DEF Reserved
<1> QED BY <1>2, <1>3, <1>4, <1>5, <1>6, <1>7, <1>8 DEF ReceiverBase, ReceiverInv

-----------------------------------------------------------------------------
\* Delivery as far as the Deck is concerned: nobody is told anything.
Alone == INSTANCE Delivery
    WITH inbox <- InboxView, held <- HeldView, agreed <- AgreedView, told <- {}

\* Nothing that is received is longer than what was offered.
Fits ==
    /\ \A i \in DOMAIN plan : plan[i].resume <= plan[i].file.size
    /\ rPc = "data" => rPos <= CurrentFile.size
    /\ rPc = "rename" => CurrentFile.size = Len(CurrentFile.hash)

\* A rename that a power loss may undo gave a whole file a place that nothing
\* received had, and that it still has.
Uncommitted ==
    \A r \in unflushed :
        /\ r.was = [data |-> r.file.hash, synced |-> TRUE]
        /\ r.file.size = Len(r.file.hash)
        /\ r.place \in DOMAIN inbox
        /\ inbox[r.place].by = {r.file}
        /\ \A e \in r.over : e.by = {}

\* What is at a destination that is not used yet was not received.
Vacant ==
    \A i \in DOMAIN plan :
        \/ plan[i].destination \notin DOMAIN inbox
        \/ inbox[plan[i].destination].by = {}
        \/ rPc \in {"start", "data", "rename"} /\ i < rIndex
        \/ rPc \in {"complete", "finished"}

\* What the refinement needs besides the invariant of the receiver.
Kept == Fits /\ Uncommitted /\ Vacant

\* All that holds as long as no file was stored at the name of a partial file.
Sound == ~aliased => ReceiverInv /\ Kept

\* What is hashed is at the beginning of the partial file, and nothing is behind
\* it as long as no file was stored at its name.
LEMMA FedIsHashed ==
    ASSUME ReceiverBase, Sound
    PROVE  HashedIsStored
<1>1. ASSUME ReceiverInv, rPc = "data"
      PROVE  Len(CurrentPartial.data) = rPos
  BY <1>1 DEF ReceiverInv, FedIsWritten
<1>2. ASSUME rPc = "data"
      PROVE  ~aliased => Len(CurrentPartial.data) = rPos
  BY <1>1, <1>2, Zenon DEF Sound
<1>3. ASSUME rPc = "data"
      PROVE  /\ CurrentFile \in DOMAIN partials
             /\ Len(rHash) = rPos
             /\ rPos <= Len(CurrentPartial.data)
             /\ \A k \in 1 .. rPos : CurrentPartial.data[k] = rHash[k]
  BY <1>3, Zenon DEF ReceiverBase, StreamIsThere
<1> QED BY <1>2, <1>3, Zenon DEF HashedIsStored

-----------------------------------------------------------------------------
(* The invariant. *)

\* Nothing is received at first.
LEMMA KeptInit == ReceiverInit => Kept
  BY DEF ReceiverInit, Kept, Fits, Uncommitted, Vacant

\* Steps of the peer and of the network.
LEMMA KeptUnchanged ==
    ASSUME Kept, UNCHANGED <<receiverVars, diskVars>>
    PROVE  Kept'
  BY DEF receiverVars, diskVars, Kept, Fits, Uncommitted, Vacant, CurrentFile

\* Without a plan, only the disk matters.
LEMMA KeptLeave ==
    ASSUME Kept, plan' = <<>>, rPc' \in {"off", "listening", "hello", "offer", "prepare"},
           UNCHANGED <<inbox, unflushed>>
    PROVE  Kept'
<1>1. DOMAIN plan' = {}
  OBVIOUS
<1> QED BY <1>1 DEF Kept, Fits, Uncommitted, Vacant

\* Steps within a connection that leave the receive folder alone.
LEMMA KeptStays ==
    ASSUME Kept, UNCHANGED <<plan, inbox, unflushed>>, Fits',
           \/ UNCHANGED <<rPc, rIndex>>
           \/ /\ {rPc, rPc'} \subseteq {"start", "data", "rename"}
              /\ UNCHANGED rIndex
           \/ rPc = "prepare"
           \/ rPc' = "finished"
    PROVE  Kept'
  BY DEF Kept, Uncommitted, Vacant

\* prepare_files plans only places that are free, and no more than is offered.
LEMMA KeptPrepare ==
    ASSUME ReceiverInv, Kept, NEW f \in FileOffer, PrepareFile(f)
    PROVE  Kept'
<1>1. PICK d \in Place :
        /\ d \notin DOMAIN inbox
        /\ plan' = Append(plan, [file |-> f, destination |-> d,
                    resume |-> IF Held(f) > f.size THEN 0 ELSE Held(f)])
  BY DEF PrepareFile, FirstFree, IsFree, Exists
<1>2. plan \in Seq(Planned) /\ DiskTypeOK
  BY DEF ReceiverInv, ReceiverTypeOK, DiskInv
<1>3. /\ DOMAIN plan = 1 .. Len(plan) /\ Len(plan) \in Nat
      /\ DOMAIN plan' = DOMAIN plan \cup {Len(plan) + 1}
      /\ \A k \in DOMAIN plan : plan'[k] = plan[k]
      /\ plan'[Len(plan) + 1].destination = d
      /\ plan'[Len(plan) + 1].file = f
      /\ plan'[Len(plan) + 1].resume = IF Held(f) > f.size THEN 0 ELSE Held(f)
  BY <1>1, <1>2, LenProperties
<1>4. rPc = "prepare" /\ UNCHANGED <<rPc, inbox, unflushed>>
  BY DEF PrepareFile, Preparing
<1>5. plan'[Len(plan) + 1].resume <= f.size
  <2>1. f.size \in Nat /\ Held(f) \in Nat
    BY <1>2, HeldType DEF FileOffer
  <2> QED BY <1>3, <2>1
<1>6. Fits'
  BY <1>3, <1>4, <1>5 DEF Kept, Fits
<1>7. Vacant'
  BY <1>1, <1>3, <1>4 DEF Kept, Vacant
<1> QED BY <1>4, <1>6, <1>7 DEF Kept, Uncommitted

\* A rename gives the place it has found free to a whole, synced file.
LEMMA KeptRename ==
    ASSUME ReceiverInv, Reserved, Kept, Rename, ~aliased'
    PROVE  Kept'
<1> DEFINE d == plan[rIndex].destination
<1>1. /\ rIndex \in DOMAIN plan /\ rPc = "rename" /\ UNCHANGED plan
      /\ DOMAIN plan \subseteq Nat
      /\ CurrentPartial = [data |-> CurrentFile.hash, synced |-> TRUE]
      /\ CurrentFile.size = Len(CurrentFile.hash)
  BY CurrentFileType, LenProperties
     DEF Rename, ReceiverInv, ReceiverTypeOK, ReadyToRename, Kept, Fits
<1>2. d \in DOMAIN inbox => inbox[d].by = {}
  BY <1>1 DEF Kept, Vacant
<1>3. /\ DOMAIN inbox' = DOMAIN inbox \cup {d}
      /\ inbox'[d].by = {CurrentFile}
      /\ \A p \in DOMAIN inbox : p # d => inbox'[p] = inbox[p]
  BY PlainRename DEF StoreAt, With
<1>4. Uncommitted'
  <2> SUFFICES ASSUME NEW r \in unflushed'
               PROVE  /\ r.was = [data |-> r.file.hash, synced |-> TRUE]
                      /\ r.file.size = Len(r.file.hash)
                      /\ r.place \in DOMAIN inbox'
                      /\ inbox'[r.place].by = {r.file}
                      /\ \A e \in r.over : e.by = {}
    BY DEF Uncommitted
  <2>1. CASE r \in unflushed
    <3>1. r.place # d
      BY <1>2, <2>1 DEF Kept, Uncommitted
    <3> QED BY <1>3, <2>1, <3>1 DEF Kept, Uncommitted
  <2>2. CASE r = [place |-> d, file |-> CurrentFile, was |-> CurrentPartial,
                  over |-> {inbox[x] : x \in {d} \cap DOMAIN inbox}]
    <3> HIDE DEF d
    <3>1. /\ r.place = d /\ r.file = CurrentFile /\ r.was = CurrentPartial
          /\ r.over = {inbox[x] : x \in {d} \cap DOMAIN inbox}
      BY <2>2
    <3>2. \A e \in r.over : e.by = {}
      BY <1>2, <3>1
    <3> QED BY <1>1, <1>3, <3>1, <3>2
  <2> QED BY <2>1, <2>2, PlainRename DEF StoreAt
<1>5. CASE rIndex = Len(plan)
  <2>1. rPc' = "complete"
    BY <1>5 DEF Rename
  <2> QED BY <1>1, <1>4, <2>1 DEF Kept, Fits, Vacant
<1>6. CASE rIndex # Len(plan)
  <2>1. rPc' = "start" /\ rIndex' = rIndex + 1
    BY <1>6 DEF Rename
  <2>2. ASSUME NEW i \in DOMAIN plan, ~(i < rIndex + 1)
        PROVE  \/ plan[i].destination \notin DOMAIN inbox'
               \/ inbox'[plan[i].destination].by = {}
    <3>1. i # rIndex /\ ~(i < rIndex)
      BY <1>1, <2>2
    <3>2. plan[i].destination # d
      BY <1>1, <3>1 DEF Reserved
    <3> QED BY <1>1, <1>3, <3>1, <3>2 DEF Kept, Vacant
  <2>3. Vacant'
    BY <1>1, <2>1, <2>2 DEF Vacant
  <2>4. Fits'
    BY <1>1, <2>1 DEF Kept, Fits
  <2> QED BY <1>4, <2>3, <2>4 DEF Kept
<1> QED BY <1>5, <1>6

\* Somebody else's file is at a place that nobody received anything for.
LEMMA KeptLocalWrite ==
    ASSUME ReceiverInv, Kept, NEW p \in Place, LocalWrite(p)
    PROVE  Kept'
<1>1. /\ DOMAIN inbox' = DOMAIN inbox \cup {p}
      /\ inbox'[p].by = {}
      /\ p \notin DOMAIN inbox
      /\ \A q \in DOMAIN inbox : inbox'[q] = inbox[q]
  BY DEF LocalWrite, With
<1>2. UNCHANGED <<plan, rPc, rIndex, rPos, unflushed>>
  BY DEF LocalWrite, receiverVars
<1>3. Fits'
  BY <1>2 DEF Kept, Fits, CurrentFile
<1>4. Uncommitted'
  BY <1>1, <1>2 DEF Kept, Uncommitted
<1>5. Vacant'
  BY <1>1, <1>2 DEF Kept, Vacant
<1> QED BY <1>3, <1>4, <1>5 DEF Kept

\* The position in a file that is being received.
LEMMA FitsData ==
    ASSUME LinkTypeOK, ReceiverInv, Kept, ReadFileStart \/ ReadFileChunk \/ ReadFileEnd
    PROVE  Fits'
<1>1. /\ rIndex \in DOMAIN plan /\ CurrentFile \in FileOffer
      /\ CurrentFile' = CurrentFile /\ UNCHANGED plan
  BY CurrentFileType
     DEF ReceiverInv, ReadFileStart, ReadFileChunk, ReadFileEnd, CurrentFile
<1>2. CASE ReadFileStart
  <2>1. rPos' = plan[rIndex].resume /\ rPc' = "data"
    BY <1>2 DEF ReadFileStart
  <2> QED BY <1>1, <2>1 DEF Kept, Fits, CurrentFile
<1>3. CASE ReadFileChunk
  <2>1. rPc' = "data" /\ rPos' = rPos + Len(Head(up[rConn]).bytes) /\ rPc = "data"
        /\ HasFrame /\ Head(up[rConn]).kind = "FileChunk"
    BY <1>3 DEF ReadFileChunk
  <2>2. rPos + Len(Head(up[rConn]).bytes) <= CurrentFile.size
    BY <2>1 DEF HasFrame, Takes, TakesFileChunk, TakesFileEnd
  <2> QED BY <1>1, <2>1, <2>2 DEF Kept, Fits
<1>4. CASE ReadFileEnd
  <2>1. rPc' = "rename" /\ rPc = "data" /\ HasFrame
        /\ Head(up[rConn]).kind = "FileEnd" /\ rHash = CurrentFile.hash
    BY <1>4 DEF ReadFileEnd, Verified
  <2>2. rPos >= CurrentFile.size
    BY <2>1 DEF HasFrame, Takes, TakesFileChunk, TakesFileEnd
  <2>3. rPos = Len(rHash) /\ rPos <= CurrentFile.size /\ rPos \in Nat
        /\ CurrentFile.size \in Nat
    BY <1>1, <2>1 DEF ReceiverInv, ReceiverTypeOK, FedIsWritten, Kept, Fits, FileOffer
  <2> QED BY <1>1, <2>1, <2>2, <2>3 DEF Kept, Fits
<1> QED BY <1>2, <1>3, <1>4

\* A power loss undoes a rename only to bring back what was there before.
LEMMA KeptPowerLoss ==
    ASSUME PowerLoss
    PROVE  Kept'
<1>1. plan' = <<>> /\ unflushed' = {} /\ rPc' = "off"
  BY DEF PowerLoss, ReceiverForgets
<1>2. DOMAIN plan' = {}
  BY <1>1
<1> QED BY <1>1, <1>2 DEF Kept, Fits, Uncommitted, Vacant

\* Every step of the receiver keeps it.
LEMMA ReceiverNext_Kept ==
    ASSUME LinkTypeOK, ReceiverInv, Reserved, Kept, ReceiverNext, ~aliased'
    PROVE  Kept'
<1>1. CASE Listen
  BY <1>1, KeptLeave DEF Listen, ReceiverInv, ReceiverShape, diskVars
<1>2. CASE ReceiverStep
  <2>1. CASE Accept \/ ReadHello \/ ReadOffer
    BY <2>1, KeptLeave
       DEF Accept, ReadHello, ReadOffer, ReceiverInv, ReceiverShape, diskVars
  <2>2. ASSUME NEW i \in DOMAIN rOffer.files, PrepareFile(rOffer.files[i])
        PROVE  Kept'
    <3>1. PICK f \in FileOffer : f = rOffer.files[i]
      BY ElementOfSeq DEF ReceiverInv, ReceiverTypeOK
    <3> QED BY <2>2, <3>1, KeptPrepare
  <2>3. CASE SendAccept \/ ReadComplete
    <3>1. UNCHANGED <<plan, inbox, unflushed>> /\ rPc' \in {"start", "finished"}
          /\ (rPc = "prepare" \/ rPc' = "finished")
      BY <2>3 DEF SendAccept, ReadComplete, diskVars
    <3>2. Fits'
      BY <3>1 DEF Kept, Fits
    <3> QED BY <3>1, <3>2, KeptStays
  <2>4. CASE ReadFileStart \/ ReadFileChunk \/ ReadFileEnd
    BY <2>4, FitsData, KeptStays DEF ReadFileStart, ReadFileChunk, ReadFileEnd
  <2>5. CASE Rename
    BY <2>5, KeptRename
  <2>6. CASE NoFreeName \/ StalePartial \/ HashMismatch \/ Finish \/ Reject
               \/ ReceiverLinkError
    BY <2>6, KeptLeave
       DEF NoFreeName, StalePartial, HashMismatch, Finish, Reject,
           ReceiverLinkError, Leave, ReceiverForgets, diskVars
  <2> QED BY <1>2, <2>1, <2>2, <2>3, <2>4, <2>5, <2>6 DEF ReceiverStep
<1>3. CASE ReceiverTimeout \/ DiskFails \/ Crash
  BY <1>3, KeptLeave
     DEF ReceiverTimeout, DiskFails, Crash, Leave, ReceiverForgets, diskVars
<1>4. CASE PowerLoss
  BY <1>4, KeptPowerLoss
<1>5. CASE Flush
  BY <1>5 DEF Flush, receiverVars, Kept, Fits, Uncommitted, Vacant, CurrentFile
<1>6. ASSUME NEW p \in Place, LocalWrite(p) PROVE Kept'
  BY <1>6, KeptLocalWrite
<1> QED BY <1>1, <1>2, <1>3, <1>4, <1>5, <1>6 DEF ReceiverNext

\* Both together.
LEMMA ReceiverNext_Sound ==
    ASSUME LinkTypeOK, ReceiverBase, Reserved, Sound, ReceiverNext
    PROVE  Sound'
<1> SUFFICES ASSUME ~aliased'
             PROVE  ReceiverInv' /\ Kept'
  BY DEF Sound
<1>1. ReceiverInv /\ Kept
  BY AliasedStays DEF Sound, ReceiverBase
<1> QED BY <1>1, ReceiverNext_Inv, ReceiverNext_Kept

-----------------------------------------------------------------------------
(* What Delivery sees of a step. *)

\* One partial file has changed.
LEMMA HeldViewWith ==
    ASSUME NEW f, NEW v, partials' = With(partials, f, v)
    PROVE  HeldView' = With(HeldView, f, v.data)
  BY DEF HeldView, With

\* A partial file that is opened without a change stays what it is.
LEMMA HeldViewSame ==
    ASSUME DiskTypeOK, NEW f \in DOMAIN partials,
           partials' = With(partials, f, partials[f])
    PROVE  partials' = partials
  BY DEF With, DiskTypeOK, IsPartialMap

\* The loop over the planned files.
Files == {"start", "data", "rename"}

\* The files that are agreed and not stored.
LEMMA AgreedNext ==
    ASSUME ReceiverTypeOK, ReceiverShape, rPc \in Files
    PROVE  /\ AgreedView \in Seq(FileOffer)
           /\ Len(AgreedView) = Len(plan) + 1 - rIndex
           /\ AgreedView # <<>>
           /\ Head(AgreedView) = CurrentFile
           /\ \A i \in 1 .. Len(AgreedView) : AgreedView[i] = plan[rIndex + i - 1].file
<1> DEFINE n == Len(plan) + 1 - rIndex
<1>1. /\ rIndex \in 1 .. Len(plan) /\ Len(plan) \in Nat
      /\ plan \in Seq(Planned)
      /\ \A k \in 1 .. Len(plan) : plan[k].file \in FileOffer
  <2>1. rIndex \in DOMAIN plan /\ plan \in Seq(Planned)
    BY CurrentFileType DEF Files, ReceiverTypeOK
  <2>2. Len(plan) \in Nat /\ DOMAIN plan = 1 .. Len(plan)
    BY <2>1, LenProperties
  <2>3. \A k \in 1 .. Len(plan) : plan[k] \in Planned
    BY <2>1, <2>2, ElementOfSeq
  <2> QED BY <2>1, <2>2, <2>3 DEF Planned
<1>2. n \in Nat /\ n >= 1
  BY <1>1
<1>3. AgreedView = [i \in 1 .. n |-> plan[rIndex + i - 1].file]
  BY DEF AgreedView, Files
<1>4. \A i \in 1 .. n : rIndex + i - 1 \in 1 .. Len(plan)
  BY <1>1
<1>5. AgreedView \in [1 .. n -> FileOffer]
  BY <1>1, <1>3, <1>4
<1> HIDE DEF n
<1>6. AgreedView \in Seq(FileOffer) /\ Len(AgreedView) = n
  BY <1>2, <1>5, SeqDef, LenProperties
<1>7. AgreedView # <<>>
  BY <1>2, <1>6, EmptySeq
<1>8. Head(AgreedView) = AgreedView[1]
  BY <1>6, <1>7, HeadTailProperties
<1>9. AgreedView[1] = plan[rIndex + 1 - 1].file /\ rIndex + 1 - 1 = rIndex
  BY <1>1, <1>2, <1>3
<1> QED BY <1>3, <1>6, <1>7, <1>8, <1>9 DEF n, CurrentFile

\* Within a file nothing changes.
LEMMA AgreedSame ==
    ASSUME {rPc, rPc'} \subseteq Files, UNCHANGED <<plan, rIndex>>
    PROVE  AgreedView' = AgreedView
  BY DEF AgreedView, Files

\* Outside the loop over the files nothing is agreed.
LEMMA AgreedNothing ==
    ASSUME rPc' \notin Files
    PROVE  AgreedView' = <<>>
  BY DEF AgreedView, Files

\* The rename is done with the first of them.
LEMMA AgreedRename ==
    ASSUME ReceiverTypeOK, ReceiverShape, Rename
    PROVE  AgreedView' = Tail(AgreedView)
<1>1. rPc = "rename" /\ UNCHANGED plan
  BY DEF Rename
<1>2. /\ AgreedView \in Seq(FileOffer)
      /\ Len(AgreedView) = Len(plan) + 1 - rIndex
      /\ AgreedView # <<>>
      /\ \A i \in 1 .. Len(AgreedView) : AgreedView[i] = plan[rIndex + i - 1].file
  BY <1>1, AgreedNext DEF Files
<1>3. /\ Tail(AgreedView) \in Seq(FileOffer)
      /\ Len(Tail(AgreedView)) = Len(AgreedView) - 1
      /\ \A i \in 1 .. Len(Tail(AgreedView)) : Tail(AgreedView)[i] = AgreedView[i + 1]
  BY <1>2, HeadTailProperties
<1>4. Len(plan) \in Nat /\ rIndex \in 1 .. Len(plan)
  BY <1>1, CurrentFileType, LenProperties DEF ReceiverTypeOK
<1>5. CASE rIndex = Len(plan)
  <2>1. AgreedView' = <<>>
    BY <1>5, AgreedNothing DEF Rename, Files
  <2>2. Len(Tail(AgreedView)) = 0
    BY <1>2, <1>3, <1>4, <1>5
  <2> QED BY <1>3, <2>1, <2>2, EmptySeq
<1>6. CASE rIndex # Len(plan)
  <2>1. rPc' = "start" /\ rIndex' = rIndex + 1
    BY <1>6 DEF Rename
  <2>2. /\ AgreedView' \in Seq(FileOffer)
        /\ Len(AgreedView') = Len(plan) + 1 - (rIndex + 1)
        /\ \A i \in 1 .. Len(AgreedView') : AgreedView'[i] = plan[rIndex + 1 + i - 1].file
    <3> DEFINE n == Len(plan) + 1 - (rIndex + 1)
    <3>1. AgreedView' = [i \in 1 .. n |-> plan[rIndex + 1 + i - 1].file]
      BY <1>1, <2>1 DEF AgreedView
    <3>2. n \in Nat /\ \A i \in 1 .. n : rIndex + 1 + i - 1 \in 1 .. Len(plan)
      BY <1>4, <1>6
    <3>3. \A k \in 1 .. Len(plan) : plan[k].file \in FileOffer
      <4>1. \A k \in 1 .. Len(plan) : plan[k] \in Planned
        BY ElementOfSeq DEF ReceiverTypeOK
      <4> QED BY <4>1 DEF Planned
    <3>4. AgreedView' \in [1 .. n -> FileOffer]
      BY <3>1, <3>2, <3>3
    <3> HIDE DEF n
    <3>5. AgreedView' \in Seq(FileOffer) /\ Len(AgreedView') = n
      BY <3>2, <3>4, SeqDef, LenProperties
    <3> QED BY <3>1, <3>5 DEF n
  <2>3. Len(AgreedView') = Len(Tail(AgreedView))
    BY <1>2, <1>3, <1>4, <2>2
  <2>4. ASSUME NEW i \in 1 .. Len(AgreedView')
        PROVE  AgreedView'[i] = Tail(AgreedView)[i]
    <3>1. AgreedView'[i] = plan[rIndex + 1 + i - 1].file
      BY <2>2, <2>4
    <3>2. Tail(AgreedView)[i] = AgreedView[i + 1]
      BY <1>3, <2>3, <2>4
    <3>3. i + 1 \in 1 .. Len(AgreedView) /\ rIndex + 1 + i - 1 = rIndex + (i + 1) - 1
      BY <1>2, <1>3, <1>4, <2>3, <2>4
    <3>4. AgreedView[i + 1] = plan[rIndex + (i + 1) - 1].file
      BY <1>2, <3>3
    <3> QED BY <3>1, <3>2, <3>3, <3>4
  <2> QED BY <1>3, <2>2, <2>3, <2>4, SeqEqual
<1> QED BY <1>5, <1>6

-----------------------------------------------------------------------------
(* Every step of the receiver is a step of Delivery, or none. *)

\* Delivery allows this step.
PromiseStep == Alone!Next \/ UNCHANGED Alone!vars

\* Steps that Delivery does not see.
LEMMA Stutters ==
    ASSUME UNCHANGED <<inbox, partials>>, AgreedView' = AgreedView
    PROVE  PromiseStep
  BY DEF PromiseStep, Alone!vars, InboxView, HeldView

\* Steps that leave the connection.
LEMMA BreaksOff ==
    ASSUME UNCHANGED <<inbox, partials>>, AgreedView' = <<>>
    PROVE  PromiseStep
  BY DEF PromiseStep, Alone!Next, Alone!Abandon, InboxView, HeldView

\* More is held of the next file.
LEMMA Receives ==
    ASSUME NEW f \in FileOffer, AgreedView # <<>>, Head(AgreedView) = f,
           NEW have \in Content, NEW data \in Content,
           have = IF f \in DOMAIN partials THEN partials[f].data ELSE <<>>,
           Len(have) <= Len(data), Len(data) <= f.size,
           SubSeq(data, 1, Len(have)) = have,
           HeldView' = With(HeldView, f, data),
           AgreedView' \in {AgreedView, <<>>}, UNCHANGED inbox
    PROVE  PromiseStep
<1>1. InboxView' = InboxView
  BY DEF InboxView
<1>2. have = IF f \in DOMAIN HeldView THEN HeldView[f] ELSE <<>>
  BY DEF HeldView
<1>3. /\ Len(data) \in Len(have) .. f.size
      /\ data \in [1 .. Len(data) -> Block]
  BY LenProperties DEF Content, FileOffer
<1>4. HeldView' = Alone!With(HeldView, f, data)
  BY DEF With, Alone!With
<1>5. Alone!Receive
  BY <1>1, <1>2, <1>3, <1>4 DEF Alone!Receive
<1> QED BY <1>5 DEF PromiseStep, Alone!Next

\* What is held of a file is emptied because it is wrong.
LEMMA Discards ==
    ASSUME DiskTypeOK, NEW f \in DOMAIN partials,
           ~CanBecome(partials[f].data, f),
           partials' = With(partials, f, EmptyPartial),
           AgreedView' \in {AgreedView, <<>>}, UNCHANGED inbox
    PROVE  PromiseStep
<1>1. InboxView' = InboxView
  BY DEF InboxView
<1>2. HeldView' = Alone!With(HeldView, f, <<>>)
  <2>1. EmptyPartial.data = <<>>
    BY DEF EmptyPartial
  <2>2. HeldView' = With(HeldView, f, <<>>)
    BY <2>1, HeldViewWith
  <2> QED BY <2>2 DEF With, Alone!With
<1>3. ~Alone!CanBecome(HeldView[f], f)
  BY DEF CanBecome, Alone!CanBecome, HeldView
<1>4. f \in DOMAIN HeldView
  BY DEF HeldView
<1>5. Alone!Discard(f)
  BY <1>1, <1>2, <1>3 DEF Alone!Discard
<1> QED BY <1>4, <1>5 DEF PromiseStep, Alone!Next

\* prepare_files empties what cannot be the beginning of the file.
LEMMA PrepareStep ==
    ASSUME ReceiverInv, NEW f \in FileOffer, PrepareFile(f)
    PROVE  PromiseStep
<1>1. rPc = "prepare" /\ UNCHANGED <<rPc, inbox>>
  BY DEF PrepareFile, Preparing
<1>2. AgreedView = <<>> /\ AgreedView' = <<>>
  BY <1>1 DEF AgreedView
<1>3. DiskTypeOK
  BY DEF ReceiverInv, DiskInv
<1>4. CASE Held(f) > f.size
  <2>1. f \in DOMAIN partials
    <3>1. f \notin DOMAIN partials => Held(f) = 0
      BY DEF Held
    <3> QED BY <1>4, <3>1 DEF FileOffer
  <2>2. partials[f].data \in Content /\ Len(partials[f].data) = Held(f)
    BY <1>3, <2>1 DEF DiskTypeOK, IsPartialMap, PartialFile, Held
  <2>3. Held(f) \in Nat /\ f.size \in Nat
    BY <1>3, HeldType DEF FileOffer
  <2>4. ~CanBecome(partials[f].data, f)
    BY <1>4, <2>2, <2>3, CanBecomeLength
  <2>5. partials' = With(partials, f, EmptyPartial)
    BY <1>4 DEF PrepareFile
  <2> QED BY <1>1, <1>2, <1>3, <2>1, <2>4, <2>5, Discards
<1>5. CASE ~(Held(f) > f.size)
  BY <1>1, <1>2, <1>5, Stutters DEF PrepareFile
<1> QED BY <1>4, <1>5

\* The Accept frame is the agreement.
LEMMA AcceptStep ==
    ASSUME ReceiverInv, SendAccept
    PROVE  PromiseStep
<1>1. rPc = "prepare" /\ rPc' = "start" /\ rIndex' = 1
      /\ UNCHANGED <<plan, inbox, partials>>
  BY DEF SendAccept, diskVars
<1>2. plan \in Seq(Planned) /\ Len(plan) \in Nat
  BY LenProperties DEF ReceiverInv, ReceiverTypeOK
<1>3. AgreedView = <<>>
  BY <1>1 DEF AgreedView
<1>4. AgreedView' = [i \in 1 .. Len(plan) + 1 - 1 |-> plan[1 + i - 1].file]
  BY <1>1 DEF AgreedView
<1>5. ASSUME NEW i \in 1 .. Len(plan) + 1 - 1
      PROVE  plan[1 + i - 1].file \in FileOffer
  <2>1. 1 + i - 1 \in 1 .. Len(plan)
    BY <1>2
  <2>2. plan[1 + i - 1] \in Planned
    BY <1>2, <2>1, ElementOfSeq
  <2> QED BY <2>2 DEF Planned
<1>6. AgreedView' \in [1 .. Len(plan) -> FileOffer]
  BY <1>2, <1>4, <1>5
<1>7. AgreedView' \in Seq(Alone!FileOffer)
  <2>1. Alone!FileOffer = FileOffer
    BY DEF FileOffer, Alone!FileOffer, Content, Alone!Content
  <2> QED BY <1>2, <1>6, <2>1, SeqDef
<1>8. UNCHANGED <<InboxView, HeldView>>
  BY <1>1 DEF InboxView, HeldView
<1>9. Alone!Agree
  BY <1>3, <1>7, <1>8 DEF Alone!Agree
<1> QED BY <1>9 DEF PromiseStep, Alone!Next

\* FileStart opens a partial file, which may be new.
LEMMA StartStep ==
    ASSUME ReceiverInv, ReadFileStart \/ StalePartial
    PROVE  PromiseStep
<1>1. /\ rPc = "start"
      /\ partials' = With(partials, CurrentFile, OpenedPartial)
      /\ UNCHANGED inbox
  BY DEF ReadFileStart, StalePartial
<1>2. AgreedView' \in {AgreedView, <<>>}
  <2>1. CASE ReadFileStart
    BY <2>1, AgreedSame DEF ReadFileStart, Files
  <2>2. CASE StalePartial
    BY <2>2, AgreedNothing DEF StalePartial, Leave, Files
  <2> QED BY <2>1, <2>2
<1>3. CurrentFile \in FileOffer /\ DiskTypeOK
  BY <1>1, CurrentFileType DEF ReceiverInv, DiskInv
<1>4. AgreedView # <<>> /\ Head(AgreedView) = CurrentFile
  BY <1>1, AgreedNext DEF ReceiverInv, Files
<1>5. CASE CurrentFile \in DOMAIN partials
  <2>1. UNCHANGED partials
    BY <1>1, <1>3, <1>5, HeldViewSame DEF OpenedPartial, CurrentPartial
  <2> QED BY <1>1, <1>2, <2>1, Stutters, BreaksOff
<1>6. CASE CurrentFile \notin DOMAIN partials
  <2> DEFINE f == CurrentFile
  <2>1. OpenedPartial.data = <<>>
    BY <1>6 DEF OpenedPartial, EmptyPartial
  <2>2. HeldView' = With(HeldView, f, <<>>)
    BY <1>1, <2>1, HeldViewWith
  <2>3. <<>> \in Content /\ Len(<<>>) = 0 /\ SubSeq(<<>>, 1, 0) = <<>>
    BY EmptySeq, SubSeqEmpty DEF Content
  <2>4. f \in FileOffer /\ f.size \in Nat /\ f \notin DOMAIN partials
        /\ Head(AgreedView) = f
    BY <1>3, <1>4, <1>6 DEF FileOffer
  <2> HIDE DEF f
  <2>5. /\ <<>> = IF f \in DOMAIN partials THEN partials[f].data ELSE <<>>
        /\ SubSeq(<<>>, 1, Len(<<>>)) = <<>>
        /\ Len(<<>>) <= Len(<<>>) /\ Len(<<>>) <= f.size
    BY <2>3, <2>4
  <2> QED BY <1>1, <1>2, <1>4, <2>2, <2>3, <2>4, <2>5, Receives
<1> QED BY <1>5, <1>6

\* Writing a chunk, or a part of it.
LEMMA WriteStep ==
    ASSUME ReceiverInv, rPc = "data", NEW bytes \in Content,
           rPos + Len(bytes) <= CurrentFile.size,
           partials' = Written(bytes),
           AgreedView' \in {AgreedView, <<>>}, UNCHANGED inbox
    PROVE  PromiseStep
<1> DEFINE f == CurrentFile
           data == rHash \o bytes
<1>1. /\ f \in FileOffer
      /\ f \in DOMAIN partials
      /\ CurrentPartial.data = rHash
      /\ partials[f].data = rHash
      /\ rHash \in Content
      /\ Len(rHash) = rPos
  BY CurrentFileType
     DEF ReceiverInv, FedIsWritten, ReceiverTypeOK, CurrentPartial
<1>2. AgreedView # <<>> /\ Head(AgreedView) = f
  BY AgreedNext DEF ReceiverInv, Files
<1>3. Len(rHash) \in Nat /\ Len(bytes) \in Nat
  BY <1>1, LenProperties DEF Content
<1>4. /\ data \in Content
      /\ Len(data) = Len(rHash) + Len(bytes)
      /\ \A i \in 1 .. Len(rHash) + Len(bytes) :
            data[i] = IF i <= Len(rHash) THEN rHash[i] ELSE bytes[i - Len(rHash)]
  BY <1>1, ConcatProperties DEF Content
<1>5. HeldView' = With(HeldView, f, data)
  <2>1. WriteAt(CurrentPartial.data, rPos, bytes) = data
    BY <1>1, WriteAtEnd
  <2>2. partials' = With(partials, f, [data |-> data, synced |-> FALSE])
    BY <2>1 DEF Written
  <2> HIDE DEF data, f
  <2> QED BY <2>2, HeldViewWith
<1> HIDE DEF data
<1>6. SubSeq(data, 1, Len(rHash)) = rHash
  <2>1. ASSUME NEW i \in 1 .. Len(rHash)
        PROVE  data[i] = rHash[i] /\ rHash[i] \in Block
    <3>1. i \in 1 .. Len(rHash) + Len(bytes) /\ i <= Len(rHash)
      BY <1>3
    <3>2. data[i] = rHash[i]
      BY <1>4, <3>1
    <3>3. rHash \in Seq(Block)
      BY <1>1 DEF Content
    <3> QED BY <3>2, <3>3, ElementOfSeq
  <2>2. /\ SubSeq(data, 1, Len(rHash)) \in Seq(Block)
        /\ Len(SubSeq(data, 1, Len(rHash))) = Len(rHash)
        /\ \A i \in 1 .. Len(rHash) : SubSeq(data, 1, Len(rHash))[i] = data[i]
    <3>1. 1 \in Int /\ Len(rHash) \in Int /\ \A i \in 1 .. Len(rHash) : data[i] \in Block
      BY <1>3, <2>1
    <3>2. /\ SubSeq(data, 1, Len(rHash)) \in Seq(Block)
          /\ Len(SubSeq(data, 1, Len(rHash))) =
                IF 1 <= Len(rHash) THEN Len(rHash) - 1 + 1 ELSE 0
          /\ \A i \in 1 .. Len(rHash) - 1 + 1 :
                SubSeq(data, 1, Len(rHash))[i] = data[1 + i - 1]
      BY <3>1, SubSeqProperties
    <3> QED BY <1>3, <3>2
  <2> QED BY <1>1, <2>1, <2>2, SeqEqual DEF Content
<1> HIDE DEF f
<1>7. Len(rHash) <= Len(data) /\ Len(data) <= f.size
  BY <1>1, <1>3, <1>4 DEF f
<1> QED BY <1>1, <1>2, <1>4, <1>5, <1>6, <1>7, Receives

\* The bytes of a chunk that is taken.
LEMMA TakenBytes ==
    ASSUME LinkTypeOK, ReceiverInv, rPc = "data", HasFrame,
           Head(up[rConn]).kind = "FileChunk"
    PROVE  /\ Head(up[rConn]).bytes \in Content
           /\ rPos + Len(Head(up[rConn]).bytes) <= CurrentFile.size
<1>1. rConn \in Conn /\ up[rConn] # <<>>
  BY DEF HasFrame, ReceiverInv, ReceiverShape
<1>2. Head(up[rConn]).bytes \in Content
  BY <1>1, HeadUp
<1>3. rPos + Len(Head(up[rConn]).bytes) <= CurrentFile.size
  BY DEF HasFrame, Takes, TakesFileChunk, TakesFileEnd
<1> QED BY <1>2, <1>3

\* A chunk is appended to what is held.
LEMMA ChunkStep ==
    ASSUME LinkTypeOK, ReceiverInv, ReadFileChunk
    PROVE  PromiseStep
<1>1. /\ rPc = "data" /\ HasFrame
      /\ Head(up[rConn]).kind = "FileChunk"
      /\ partials' = Written(Head(up[rConn]).bytes)
      /\ UNCHANGED inbox
  BY DEF ReadFileChunk
<1>2. AgreedView' = AgreedView
  BY AgreedSame DEF ReadFileChunk, Files
<1> QED BY <1>1, <1>2, TakenBytes, WriteStep

\* A verified file is synced: Delivery does not see it.
LEMMA EndStep ==
    ASSUME ReceiverInv, ReadFileEnd
    PROVE  PromiseStep
<1>1. /\ rPc = "data"
      /\ CurrentFile \in DOMAIN partials
      /\ partials' = With(partials, CurrentFile, SyncedPartial)
      /\ UNCHANGED inbox
  BY DEF ReadFileEnd, ReceiverInv, FedIsWritten
<1>2. AgreedView' = AgreedView
  BY AgreedSame DEF ReadFileEnd, Files
<1>3. HeldView' = HeldView
  <2>1. SyncedPartial.data = partials[CurrentFile].data
    BY DEF SyncedPartial, CurrentPartial
  <2>2. HeldView' = With(HeldView, CurrentFile, SyncedPartial.data)
    BY <1>1, HeldViewWith
  <2> QED BY <1>1, <2>1, <2>2 DEF With, HeldView
<1>4. InboxView' = InboxView
  BY <1>1 DEF InboxView
<1> QED BY <1>2, <1>3, <1>4 DEF PromiseStep, Alone!vars

\* What has a wrong hash cannot become the offered file: all of it is there.
LEMMA MismatchStep ==
    ASSUME ReceiverInv, HashMismatch
    PROVE  PromiseStep
<1>1. /\ CurrentFile \in FileOffer
      /\ CurrentFile \in DOMAIN partials
      /\ partials[CurrentFile].data = rHash
      /\ rHash \in Content
      /\ Len(rHash) = rPos
      /\ rHash # CurrentFile.hash
  BY CurrentFileType
     DEF HashMismatch, Verified, ReceiverInv, FedIsWritten, CurrentPartial,
         ReceiverTypeOK
<1>2. rPos >= CurrentFile.size
  BY DEF HashMismatch, HasFrame, Takes, TakesFileChunk, TakesFileEnd, Hello
<1>3. ~CanBecome(partials[CurrentFile].data, CurrentFile)
  BY <1>1, <1>2, CanBecomeLength
<1>4. partials' = With(partials, CurrentFile, EmptyPartial) /\ UNCHANGED inbox
  BY DEF HashMismatch, ResetPartial
<1>5. AgreedView' = <<>>
  BY AgreedNothing DEF HashMismatch, Leave, Files
<1>6. DiskTypeOK
  BY DEF ReceiverInv, DiskInv
<1> QED BY <1>1, <1>3, <1>4, <1>5, <1>6, Discards

\* The rename stores the next file.
LEMMA RenameStep ==
    ASSUME ReceiverInv, Kept, Rename, ~aliased'
    PROVE  PromiseStep
<1> DEFINE d == plan[rIndex].destination
           f == CurrentFile
<1>1. /\ rPc = "rename"
      /\ rIndex \in DOMAIN plan
      /\ d \in Place
      /\ f \in DOMAIN partials
      /\ CurrentPartial = [data |-> f.hash, synced |-> TRUE]
      /\ f.size = Len(f.hash)
  BY CurrentFileType
     DEF Rename, ReceiverInv, ReadyToRename, Kept, Fits, Planned
<1>2. AgreedView # <<>> /\ Head(AgreedView) = f
  BY <1>1, AgreedNext DEF ReceiverInv, Files
<1>3. AgreedView' = Tail(AgreedView)
  BY AgreedRename DEF ReceiverInv
<1>4. d \in DOMAIN inbox => inbox[d].by = {}
  <2>1. DOMAIN plan \subseteq Nat
    BY LenProperties DEF ReceiverInv, ReceiverTypeOK
  <2> QED BY <1>1, <2>1 DEF Kept, Vacant
<1>5. /\ inbox' = With(inbox, d, [data |-> f.hash, synced |-> TRUE, by |-> {f}])
      /\ partials' = Without(partials, f)
  BY <1>1, PlainRename DEF StoreAt
<1> HIDE DEF d, f
<1>6. InboxView' = Alone!With(InboxView, d, [data |-> f.hash, by |-> {f}])
  BY <1>5 DEF InboxView, With, Alone!With
<1>7. HeldView' = Restrict(HeldView, DOMAIN HeldView \ {f})
  BY <1>5 DEF HeldView, Without, Restrict
<1>8. f \in DOMAIN HeldView /\ HeldView[f] = f.hash
  BY <1>1 DEF HeldView, CurrentPartial, f
<1>9. d \in DOMAIN InboxView => InboxView[d].by = {}
  BY <1>4 DEF InboxView
<1>10. Alone!Store(d)
  BY <1>1, <1>2, <1>3, <1>6, <1>7, <1>8, <1>9
     DEF Alone!Store, Alone!HeldWhole, Alone!Restrict, Restrict
<1> QED BY <1>1, <1>10 DEF PromiseStep, Alone!Next

\* A failure of the disk breaks off, and may leave a part of a chunk.
LEMMA DiskFailsStep ==
    ASSUME LinkTypeOK, ReceiverInv, DiskFails
    PROVE  PromiseStep
<1>1. UNCHANGED inbox
  BY DEF DiskFails
<1>2. AgreedView' = <<>>
  BY AgreedNothing DEF DiskFails, Leave, Files
<1>3. CASE UNCHANGED partials
  BY <1>1, <1>2, <1>3, BreaksOff
<1>4. CASE ~UNCHANGED partials
  <2>1. rPc = "data" /\ HasFrame /\ Head(up[rConn]).kind = "FileChunk"
    BY <1>4 DEF DiskFails
  <2>2. PICK k \in 0 .. Len(Head(up[rConn]).bytes) - 1 :
           partials' = Written(SubSeq(Head(up[rConn]).bytes, 1, k))
    BY <1>4 DEF DiskFails
  <2> DEFINE bytes == Head(up[rConn]).bytes
             part == SubSeq(bytes, 1, k)
  <2>3. bytes \in Content /\ rPos + Len(bytes) <= CurrentFile.size
    BY <2>1, TakenBytes
  <2>4. Len(bytes) \in Nat /\ \A i \in 1 .. k : bytes[i] \in Block
    BY <2>2, <2>3, LenProperties, ElementOfSeq DEF Content
  <2>5. k \in Int /\ 1 \in Int /\ k <= Len(bytes) /\ k >= 0
    BY <2>2, <2>4
  <2> HIDE DEF bytes
  <2>6. part \in Content /\ Len(part) = IF 1 <= k THEN k - 1 + 1 ELSE 0
    BY <2>4, <2>5, SubSeqProperties DEF Content
  <2>7. Len(part) <= Len(bytes) /\ Len(part) \in Nat
    BY <2>4, <2>5, <2>6
  <2>8. rPos \in Nat /\ CurrentFile.size \in Nat
    BY <2>1, CurrentFileType DEF ReceiverInv, ReceiverTypeOK, FileOffer
  <2>9. rPos + Len(part) <= CurrentFile.size
    BY <2>3, <2>4, <2>7, <2>8
  <2>10. partials' = Written(part)
    BY <2>2 DEF bytes
  <2> HIDE DEF part
  <2> QED BY <1>1, <1>2, <2>1, <2>6, <2>9, <2>10, WriteStep
<1> QED BY <1>3, <1>4

\* Somebody else's file.
LEMMA LocalWriteStep ==
    ASSUME NEW p \in Place, LocalWrite(p)
    PROVE  PromiseStep
<1>1. /\ p \notin DOMAIN inbox
      /\ inbox' = With(inbox, p, [data |-> <<>>, synced |-> TRUE, by |-> {}])
      /\ UNCHANGED <<partials, plan, rPc, rIndex>>
  BY DEF LocalWrite, receiverVars
<1>2. UNCHANGED <<HeldView, AgreedView>>
  BY <1>1 DEF HeldView, AgreedView
<1>3. /\ p \notin DOMAIN InboxView
      /\ DOMAIN InboxView' = DOMAIN InboxView \cup {p}
      /\ \A q \in DOMAIN InboxView : InboxView'[q] = InboxView[q]
      /\ InboxView'[p].by = {}
  BY <1>1 DEF InboxView, With
<1>4. Alone!LocalWrite(p)
  BY <1>2, <1>3 DEF Alone!LocalWrite
<1> QED BY <1>4 DEF PromiseStep, Alone!Next

\* As long as no file was stored at the name of a partial file.
LEMMA NothingDisturbed ==
    ASSUME Durable, NEW lost \in SUBSET unflushed
    PROVE  Disturbed(lost) = {}
  BY DEF Durable, Disturbed

\* A partial file that is whole and synced if the renames in lost had never
\* happened is there after the power loss.
LEMMA SafePartial ==
    ASSUME NEW lost, NEW g \in PartialsAfter(lost), Disturbed(lost) = {},
           NEW f, f \in DOMAIN partials \/ \E r \in lost : r.file = f,
           Before(f, lost).synced
    PROVE  f \in DOMAIN g /\ g[f] = Before(f, lost)
<1> DEFINE names == DOMAIN partials \cup {x.file : x \in lost} \cup Disturbed(lost)
           clear == names \ Disturbed(lost)
           safe == {x \in clear : Before(x, lost).synced}
           Left(x, v) == IF v.synced THEN {v} ELSE Remains(x, v.data)
           May(x) == IF x \in clear
                     THEN Left(x, Before(x, lost))
                     ELSE UNION {Left(x, v) : v \in Forms(x, lost)}
<1>1. PICK kept \in {k \in SUBSET names : safe \subseteq k} :
         /\ DOMAIN g = kept
         /\ \A x \in kept : g[x] \in May(x)
  BY DEF PartialsAfter
<1>2. f \in safe
  OBVIOUS
<1>3. May(f) = {Before(f, lost)}
  BY <1>2
<1> HIDE DEF May, safe
<1> QED BY <1>1, <1>2, <1>3

\* The files without the renames in lost are there as before, or were not
\* received.
LEMMA InboxLeft ==
    ASSUME DiskInv, Kept, NEW lost \in SUBSET unflushed,
           inbox' = InboxAfter(lost)
    PROVE  /\ DOMAIN inbox' \subseteq DOMAIN inbox
           /\ \A p \in DOMAIN inbox' : inbox'[p] = inbox[p] \/ inbox'[p].by = {}
           /\ \A p \in DOMAIN inbox :
                 \/ \E r \in lost : r.place = p
                 \/ p \in DOMAIN inbox' /\ inbox'[p] = inbox[p]
<1> DEFINE Undone(p) == {r \in lost : r.place = p}
           left == {p \in DOMAIN inbox : \A r \in Undone(p) : r.over # {}}
           Old(p) == CHOOSE e \in UNION {r.over : r \in Undone(p)} : TRUE
<1>1. inbox' = [p \in left |->
                  IF Undone(p) # {} THEN Old(p)
                  ELSE IF inbox[p].synced THEN inbox[p]
                  ELSE [inbox[p] EXCEPT !.data = <<>>]]
  BY DEF InboxAfter
<1>2. \A p \in DOMAIN inbox : inbox[p].synced
  BY DEF DiskInv, Durable
<1>3. ASSUME NEW p \in left, Undone(p) # {}
      PROVE  Old(p).by = {}
  <2>1. Old(p) \in UNION {r.over : r \in Undone(p)}
    <3>1. PICK r \in Undone(p) : r.over # {}
      BY <1>3
    <3>2. PICK e : e \in r.over
      BY <3>1
    <3>3. e \in UNION {q.over : q \in Undone(p)}
      BY <3>1, <3>2
    <3> QED BY <3>3
  <2>2. PICK r \in lost : Old(p) \in r.over
    BY <2>1
  <2> QED BY <2>2 DEF Kept, Uncommitted
<1>4. DOMAIN inbox' = left
  BY <1>1
<1>5. \A p \in left : inbox'[p] = IF Undone(p) # {} THEN Old(p) ELSE inbox[p]
  BY <1>1, <1>2
<1>6. \A p \in DOMAIN inbox' : inbox'[p] = inbox[p] \/ inbox'[p].by = {}
  BY <1>3, <1>4, <1>5
<1>7. \A p \in DOMAIN inbox : Undone(p) # {} \/ (p \in left /\ inbox'[p] = inbox[p])
  BY <1>5
<1> QED BY <1>4, <1>6, <1>7

\* After a power loss every file that was stored is stored, or held whole
\* because it was synced before it was renamed.
LEMMA PowerLossStep ==
    ASSUME ReceiverInv, Kept, PowerLoss
    PROVE  PromiseStep
<1>1. PICK lost \in SUBSET unflushed :
         inbox' = InboxAfter(lost) /\ partials' \in PartialsAfter(lost)
  BY DEF PowerLoss
<1>2. /\ DOMAIN inbox' \subseteq DOMAIN inbox
      /\ \A p \in DOMAIN inbox' : inbox'[p] = inbox[p] \/ inbox'[p].by = {}
      /\ \A p \in DOMAIN inbox :
            \/ \E r \in lost : r.place = p
            \/ p \in DOMAIN inbox' /\ inbox'[p] = inbox[p]
  BY <1>1, InboxLeft DEF ReceiverInv
<1>3. AgreedView' = <<>>
  BY AgreedNothing DEF PowerLoss, Files
<1>4. /\ DOMAIN InboxView' \subseteq DOMAIN InboxView
      /\ \A p \in DOMAIN InboxView' :
            InboxView'[p] = InboxView[p] \/ InboxView'[p].by = {}
  BY <1>2 DEF InboxView
<1>5. ASSUME NEW f \in Alone!Stored
      PROVE  Alone!Delivered(f)'
  <2>1. PICK p \in DOMAIN inbox : f \in inbox[p].by
    BY <1>5 DEF Alone!Stored, InboxView
  <2>2. CASE p \in DOMAIN inbox' /\ inbox'[p] = inbox[p]
    <3>1. p \in DOMAIN InboxView' /\ f \in InboxView'[p].by
      BY <2>1, <2>2 DEF InboxView
    <3> QED BY <3>1 DEF Alone!Delivered, Alone!Stored
  <2>3. CASE \E r \in lost : r.place = p
    <3>1. PICK r \in lost : r.place = p
      BY <2>3
    <3>2. /\ inbox[r.place].by = {r.file}
          /\ r.file.size = Len(r.file.hash)
          /\ \A x \in lost : x.was = [data |-> x.file.hash, synced |-> TRUE]
      BY DEF Kept, Uncommitted
    <3>3. r.file = f /\ f.size = Len(f.hash)
      BY <2>1, <3>1, <3>2
    <3>4. Before(f, lost) = [data |-> f.hash, synced |-> TRUE]
      BY <3>2, <3>3 DEF Before
    <3>5. Before(f, lost).synced
      BY <3>4
    <3>6. f \in DOMAIN partials' /\ partials'[f] = Before(f, lost)
      BY <1>1, <3>1, <3>3, <3>5, NothingDisturbed, SafePartial
         DEF ReceiverInv, DiskInv
    <3>7. f \in DOMAIN HeldView' /\ HeldView'[f] = f.hash
      BY <3>4, <3>6 DEF HeldView
    <3> QED BY <3>3, <3>7 DEF Alone!Delivered, Alone!HeldWhole
  <2> QED BY <1>2, <2>1, <2>2, <2>3
<1>6. Alone!PowerLoss
  BY <1>3, <1>4, <1>5 DEF Alone!PowerLoss
<1> QED BY <1>6 DEF PromiseStep, Alone!Next

\* All steps of the receiver and of its environment, as long as no file is
\* stored at the name of a partial file.
THEOREM ReceiverNext_Promise ==
    ASSUME LinkTypeOK, ReceiverInv, Kept, ReceiverNext, ~aliased'
    PROVE  PromiseStep
<1>1. CASE \/ Listen \/ Accept \/ ReadHello \/ ReadOffer \/ ReadComplete
           \/ Finish \/ NoFreeName \/ Reject \/ ReceiverLinkError
           \/ ReceiverTimeout \/ Crash
  <2>1. UNCHANGED <<inbox, partials>>
    BY <1>1 DEF Listen, Accept, ReadHello, ReadOffer, ReadComplete, Finish,
                NoFreeName, Reject, ReceiverLinkError, ReceiverTimeout, Crash,
                diskVars
  <2>2. AgreedView' = <<>>
    BY <1>1, AgreedNothing
       DEF Listen, Accept, ReadHello, ReadOffer, ReadComplete, Finish,
           NoFreeName, Reject, ReceiverLinkError, ReceiverTimeout, Crash,
           Leave, Files
  <2> QED BY <2>1, <2>2, BreaksOff
<1>2. ASSUME NEW i \in DOMAIN rOffer.files, PrepareFile(rOffer.files[i])
      PROVE  PromiseStep
  <2>1. PICK f \in FileOffer : f = rOffer.files[i]
    BY ElementOfSeq DEF ReceiverInv, ReceiverTypeOK
  <2> QED BY <1>2, <2>1, PrepareStep
<1>3. CASE Flush
  BY <1>3, Stutters DEF Flush, receiverVars, AgreedView
<1>4. ASSUME NEW p \in Place, LocalWrite(p)
      PROVE  PromiseStep
  BY <1>4, LocalWriteStep
<1> QED
  BY <1>1, <1>2, <1>3, <1>4, AcceptStep, StartStep, ChunkStep, EndStep,
     MismatchStep, RenameStep, DiskFailsStep, PowerLossStep
     DEF ReceiverNext, ReceiverStep

-----------------------------------------------------------------------------
(* What is stored stays stored, or held whole. *)

\* The file is in the receive folder, or whole and synced as a partial file.
Safe(f) ==
    \/ \E p \in DOMAIN inbox : inbox[p].by = {f}
    \/ /\ f \in DOMAIN partials
       /\ partials[f] = [data |-> f.hash, synced |-> TRUE]
       /\ f.size = Len(f.hash)

\* One partial file has changed, and it was not safe or has only been synced.
LEMMA SafeWith ==
    ASSUME NEW f, Safe(f), NEW g, NEW v, partials' = With(partials, g, v),
           UNCHANGED inbox,
           \/ g \notin DOMAIN partials
           \/ partials[g] # [data |-> g.hash, synced |-> TRUE]
           \/ g.size # Len(g.hash)
           \/ v = partials[g]
    PROVE  Safe(f)'
<1>1. CASE \E p \in DOMAIN inbox : inbox[p].by = {f}
  BY <1>1 DEF Safe
<1>2. CASE /\ f \in DOMAIN partials
           /\ partials[f] = [data |-> f.hash, synced |-> TRUE]
           /\ f.size = Len(f.hash)
  <2>1. f \in DOMAIN partials' /\ partials'[f] = partials[f]
    BY <1>2 DEF With
  <2> QED BY <1>2, <2>1 DEF Safe
<1> QED BY <1>1, <1>2 DEF Safe

\* Nothing is appended to a file that is whole.
LEMMA SafeWrite ==
    ASSUME LinkTypeOK, ReceiverInv, rPc = "data", HasFrame,
           Head(up[rConn]).kind = "FileChunk", NEW bytes,
           partials' = Written(bytes), UNCHANGED inbox, NEW f, Safe(f)
    PROVE  Safe(f)'
<1> DEFINE v == [data |-> WriteAt(CurrentPartial.data, rPos, bytes),
                 synced |-> FALSE]
           g == CurrentFile
<1>1. g.size \in Nat /\ rPos \in Nat /\ rPos < g.size
  BY CurrentFileType
     DEF HasFrame, Takes, TakesFileChunk, TakesFileEnd, FileOffer, ReceiverInv,
         ReceiverTypeOK
<1>2. partials[g].data = rHash /\ Len(rHash) = rPos
  BY DEF ReceiverInv, FedIsWritten, CurrentPartial
<1>3. \/ partials[g] # [data |-> g.hash, synced |-> TRUE]
      \/ g.size # Len(g.hash)
  BY <1>1, <1>2
<1>4. partials' = With(partials, g, v)
  BY DEF Written
<1> HIDE DEF g, v
<1> QED BY <1>3, <1>4, SafeWith

\* A rename gives a name to the current file and takes none away.
LEMMA SafeRename ==
    ASSUME ReceiverInv, Kept, Rename, ~aliased'
    PROVE  \A f : f = CurrentFile \/ Safe(f) => Safe(f)'
<1> DEFINE d == plan[rIndex].destination
           c == CurrentFile
<1>1. d \in DOMAIN inbox => inbox[d].by = {}
  <2>1. DOMAIN plan \subseteq Nat /\ rIndex \in DOMAIN plan /\ rPc = "rename"
    BY CurrentFileType, LenProperties DEF Rename, ReceiverInv, ReceiverTypeOK
  <2> QED BY <2>1 DEF Kept, Vacant
<1>2. /\ DOMAIN inbox' = DOMAIN inbox \cup {d}
      /\ inbox'[d].by = {c}
      /\ \A p \in DOMAIN inbox : p # d => inbox'[p] = inbox[p]
  BY PlainRename DEF StoreAt, With
<1>3. \A f \in DOMAIN partials :
         f # c => f \in DOMAIN partials' /\ partials'[f] = partials[f]
  BY PlainRename DEF StoreAt, Without, Restrict
<1> HIDE DEF d, c
<1>4. ASSUME NEW f, Safe(f)
      PROVE  Safe(f)'
  <2>1. ASSUME NEW p \in DOMAIN inbox, inbox[p].by = {f}
        PROVE  Safe(f)'
    <3>1. p # d
      BY <1>1, <2>1
    <3> QED BY <1>2, <2>1, <3>1 DEF Safe
  <2>2. ASSUME f \in DOMAIN partials,
               partials[f] = [data |-> f.hash, synced |-> TRUE],
               f.size = Len(f.hash)
        PROVE  Safe(f)'
    BY <1>2, <1>3, <2>2 DEF Safe
  <2> QED BY <1>4, <2>1, <2>2 DEF Safe
<1>5. ASSUME NEW f, f = c
      PROVE  Safe(f)'
  BY <1>2, <1>5 DEF Safe
<1> QED BY <1>4, <1>5 DEF c

\* A power loss undoes only renames of files that were whole and synced.
LEMMA SafePowerLoss ==
    ASSUME ReceiverInv, Kept, PowerLoss, NEW f, Safe(f)
    PROVE  Safe(f)'
<1>1. PICK lost \in SUBSET unflushed :
         inbox' = InboxAfter(lost) /\ partials' \in PartialsAfter(lost)
  BY DEF PowerLoss
<1>2. /\ \A x \in lost : x.was = [data |-> x.file.hash, synced |-> TRUE]
      /\ \A x \in lost : x.file.size = Len(x.file.hash)
      /\ \A x \in lost : inbox[x.place].by = {x.file}
      /\ Disturbed(lost) = {}
  BY NothingDisturbed DEF Kept, Uncommitted, ReceiverInv, DiskInv
<1>3. ASSUME NEW r \in lost, r.file = f
      PROVE  Safe(f)'
  <2>1. Before(f, lost) = [data |-> f.hash, synced |-> TRUE]
    BY <1>2, <1>3 DEF Before
  <2>2. Before(f, lost).synced
    BY <2>1
  <2>3. f \in DOMAIN partials' /\ partials'[f] = Before(f, lost)
    BY <1>1, <1>2, <1>3, <2>2, SafePartial
  <2> QED BY <1>2, <1>3, <2>1, <2>3 DEF Safe
<1>4. ASSUME NEW p \in DOMAIN inbox, inbox[p].by = {f}
      PROVE  Safe(f)'
  <2>1. CASE p \in DOMAIN inbox' /\ inbox'[p] = inbox[p]
    BY <1>4, <2>1 DEF Safe
  <2>2. CASE \E r \in lost : r.place = p
    <3>1. PICK r \in lost : r.place = p
      BY <2>2
    <3>2. r.file = f
      BY <1>2, <1>4, <3>1
    <3> QED BY <1>3, <3>1, <3>2
  <2>3. \/ \E r \in lost : r.place = p
        \/ p \in DOMAIN inbox' /\ inbox'[p] = inbox[p]
    BY <1>1, InboxLeft DEF ReceiverInv
  <2> QED BY <2>1, <2>2, <2>3
<1>5. ASSUME f \in DOMAIN partials,
             partials[f] = [data |-> f.hash, synced |-> TRUE],
             f.size = Len(f.hash)
      PROVE  Safe(f)'
  <2>1. CASE \E r \in lost : r.file = f
    BY <1>3, <2>1
  <2>2. CASE ~\E r \in lost : r.file = f
    <3>1. Before(f, lost) = partials[f]
      BY <2>2 DEF Before
    <3>2. Before(f, lost).synced
      BY <1>5, <3>1
    <3>3. f \in DOMAIN partials' /\ partials'[f] = Before(f, lost)
      BY <1>1, <1>2, <1>5, <3>2, SafePartial
    <3> QED BY <1>5, <3>1, <3>3 DEF Safe
  <2> QED BY <2>1, <2>2
<1> QED BY <1>4, <1>5 DEF Safe

\* Whatever happens, a file that is safe stays safe, as long as no file is
\* stored at the name of a partial file.
THEOREM ReceiverNext_Safe ==
    ASSUME LinkTypeOK, ReceiverInv, Kept, ReceiverNext, ~aliased', NEW f, Safe(f)
    PROVE  Safe(f)'
<1>1. CASE UNCHANGED <<inbox, partials>>
  BY <1>1 DEF Safe
<1>2. ASSUME NEW g \in FileOffer, PrepareFile(g), Held(g) > g.size
      PROVE  Safe(f)'
  <2>1. partials' = With(partials, g, EmptyPartial) /\ UNCHANGED inbox
    BY <1>2 DEF PrepareFile
  <2>2. g \notin DOMAIN partials \/ Len(partials[g].data) > g.size
    BY <1>2 DEF Held
  <2>3. g.size \in Nat
    BY DEF FileOffer
  <2>4. \/ g \notin DOMAIN partials
        \/ partials[g] # [data |-> g.hash, synced |-> TRUE]
        \/ g.size # Len(g.hash)
    BY <2>2, <2>3
  <2> QED BY <2>1, <2>4, SafeWith
<1>3. CASE ReadFileStart \/ StalePartial
  <2> DEFINE c == CurrentFile
             v == OpenedPartial
  <2>1. partials' = With(partials, c, v) /\ UNCHANGED inbox
    BY <1>3 DEF ReadFileStart, StalePartial
  <2>2. c \notin DOMAIN partials \/ v = partials[c]
    BY DEF OpenedPartial, CurrentPartial
  <2> HIDE DEF c, v
  <2> QED BY <2>1, <2>2, SafeWith
<1>4. CASE ReadFileChunk
  BY <1>4, SafeWrite DEF ReadFileChunk
<1>5. ASSUME DiskFails, ~UNCHANGED partials
      PROVE  Safe(f)'
  <2>1. /\ rPc = "data" /\ HasFrame
        /\ Head(up[rConn]).kind = "FileChunk"
        /\ UNCHANGED inbox
    BY <1>5 DEF DiskFails
  <2>2. PICK k \in 0 .. Len(Head(up[rConn]).bytes) - 1 :
           partials' = Written(SubSeq(Head(up[rConn]).bytes, 1, k))
    BY <1>5 DEF DiskFails
  <2> QED BY <2>1, <2>2, SafeWrite
<1>6. CASE ReadFileEnd
  <2> DEFINE c == CurrentFile
             v == SyncedPartial
  <2>1. partials' = With(partials, c, v) /\ UNCHANGED inbox
    BY <1>6 DEF ReadFileEnd
  <2>2. ASSUME partials[c] = [data |-> c.hash, synced |-> TRUE]
        PROVE  v = partials[c]
    <3>1. v = [data |-> partials[c].data, synced |-> TRUE]
      BY DEF SyncedPartial, CurrentPartial
    <3> HIDE DEF c, v
    <3> QED BY <2>2, <3>1
  <2> HIDE DEF c, v
  <2> QED BY <2>1, <2>2, SafeWith
<1>7. CASE HashMismatch
  <2> DEFINE c == CurrentFile
  <2>1. partials' = With(partials, c, EmptyPartial) /\ UNCHANGED inbox
    BY <1>7 DEF HashMismatch, ResetPartial
  <2>2. partials[c].data # c.hash
    BY <1>7 DEF HashMismatch, Verified, ReceiverInv, FedIsWritten, CurrentPartial
  <2> HIDE DEF c
  <2>3. partials[c] # [data |-> c.hash, synced |-> TRUE]
    BY <2>2
  <2> QED BY <2>1, <2>3, SafeWith
<1>8. CASE Rename
  BY <1>8, SafeRename
<1>9. CASE PowerLoss
  BY <1>9, SafePowerLoss
<1>10. ASSUME NEW p \in Place, LocalWrite(p)
       PROVE  Safe(f)'
  <2>1. /\ \A q \in DOMAIN inbox : q \in DOMAIN inbox' /\ inbox'[q] = inbox[q]
        /\ UNCHANGED partials
    BY <1>10 DEF LocalWrite, With
  <2> QED BY <2>1 DEF Safe
<1>11. ASSUME NEW i \in DOMAIN rOffer.files, PrepareFile(rOffer.files[i])
       PROVE  Safe(f)'
  <2>1. PICK g \in FileOffer : g = rOffer.files[i]
    BY ElementOfSeq DEF ReceiverInv, ReceiverTypeOK
  <2>2. CASE Held(g) > g.size
    BY <1>2, <1>11, <2>1, <2>2
  <2>3. CASE ~(Held(g) > g.size)
    BY <1>1, <1>11, <2>1, <2>3 DEF PrepareFile
  <2> QED BY <2>2, <2>3
<1>12. ReceiverNext =>
         \/ UNCHANGED <<inbox, partials>>
         \/ ReadFileStart \/ StalePartial \/ ReadFileChunk
         \/ ReadFileEnd \/ HashMismatch \/ Rename \/ PowerLoss
         \/ DiskFails /\ (~UNCHANGED partials \/ UNCHANGED <<inbox, partials>>)
         \/ \E i \in DOMAIN rOffer.files : PrepareFile(rOffer.files[i])
         \/ \E p \in Place : LocalWrite(p)
  BY DEF ReceiverNext, ReceiverStep, Listen, Accept, ReadHello, ReadOffer,
         NoFreeName, SendAccept, ReadComplete, Finish, Reject, DiskFails,
         ReceiverLinkError, ReceiverTimeout, Crash, Flush, diskVars
<1> QED BY <1>1, <1>3, <1>4, <1>5, <1>6, <1>7, <1>8, <1>9, <1>10, <1>11, <1>12

-----------------------------------------------------------------------------
(* What the receiver has done of an offer. *)

\* The plan follows the offer, and what it is through with is safe unless a file
\* was stored at the name of a partial file.
Fulfilled ==
    /\ Len(plan) <= Len(rOffer.files)
    /\ \A i \in DOMAIN plan : plan[i].file = rOffer.files[i]
    /\ rPc \in Files \cup {"complete", "finished"} => Len(plan) = Len(rOffer.files)
    /\ \A i \in DOMAIN plan :
          (rPc \in Files /\ i < rIndex) \/ rPc \in {"complete", "finished"}
              => aliased \/ Safe(plan[i].file)

\* Nothing is planned.
LEMMA FulfilledEmpty ==
    ASSUME plan' = <<>>, rOffer'.files \in Seq(FileOffer),
           rPc' \notin Files \cup {"complete", "finished"}
    PROVE  Fulfilled'
<1>1. Len(plan') = 0 /\ DOMAIN plan' = {} /\ Len(rOffer'.files) \in Nat
  BY LenProperties
<1> QED BY <1>1 DEF Fulfilled

\* Steps that leave the plan and the offer alone.
LEMMA FulfilledStays ==
    ASSUME Sound, LinkTypeOK, ReceiverBase, Fulfilled, ReceiverNext,
           UNCHANGED <<plan, rOffer>>,
           \/ UNCHANGED <<rPc, rIndex>>
           \/ {rPc, rPc'} \subseteq Files /\ UNCHANGED rIndex
           \/ {rPc, rPc'} \subseteq {"complete", "finished"}
    PROVE  Fulfilled'
<1>1. ASSUME NEW i \in DOMAIN plan, aliased \/ Safe(plan[i].file), ~aliased'
      PROVE  Safe(plan[i].file)'
  <2>1. PICK f : f = plan[i].file
    OBVIOUS
  <2>2. ~aliased /\ ReceiverInv /\ Kept
    BY <1>1, AliasedStays DEF Sound, ReceiverBase
  <2>3. Safe(f)'
    BY <1>1, <2>1, <2>2, ReceiverNext_Safe
  <2> QED BY <2>1, <2>3 DEF Safe
<1> QED BY <1>1 DEF Fulfilled, Files

\* prepare_files goes through the offer in its order.
LEMMA FulfilledPrepare ==
    ASSUME ReceiverBase, Fulfilled, NEW f \in FileOffer, PrepareFile(f)
    PROVE  Fulfilled'
<1>1. plan \in Seq(Planned) /\ Len(plan) \in Nat /\ DOMAIN plan = 1 .. Len(plan)
  BY LenProperties DEF ReceiverBase, ReceiverTypeOK
<1>2. PICK e : plan' = Append(plan, e) /\ e.file = f
  BY DEF PrepareFile
<1>3. /\ DOMAIN plan' = DOMAIN plan \cup {Len(plan) + 1}
      /\ Len(plan') = Len(plan) + 1
      /\ \A k \in DOMAIN plan : plan'[k] = plan[k]
      /\ plan'[Len(plan) + 1] = e
  BY <1>1, <1>2, LenProperties
<1>4. /\ rPc = "prepare" /\ UNCHANGED <<rPc, rOffer>>
      /\ Len(plan) < Len(rOffer.files) /\ f = rOffer.files[Len(plan) + 1]
  BY DEF PrepareFile, Preparing
<1>5. Len(rOffer.files) \in Nat
  BY LenProperties DEF ReceiverBase, ReceiverTypeOK
<1> QED BY <1>1, <1>2, <1>3, <1>4, <1>5 DEF Fulfilled, Files

\* A renamed file is one more that is safe.
LEMMA FulfilledRename ==
    ASSUME Sound, ReceiverBase, Fulfilled, ReceiverNext, Rename
    PROVE  Fulfilled'
<1>1. /\ rIndex \in DOMAIN plan /\ DOMAIN plan = 1 .. Len(plan)
      /\ Len(plan) \in Nat /\ rPc = "rename"
      /\ UNCHANGED <<plan, rOffer>>
  BY CurrentFileType, LenProperties DEF Rename, ReceiverBase, ReceiverTypeOK
<1>2. ASSUME NEW i \in DOMAIN plan, i <= rIndex
      PROVE  aliased' \/ Safe(plan[i].file)'
  <2> SUFFICES ASSUME ~aliased'
               PROVE  Safe(plan[i].file)'
    OBVIOUS
  <2>1. PICK f : f = plan[i].file
    OBVIOUS
  <2>2. ~aliased /\ ReceiverInv /\ Kept
    BY AliasedStays DEF Sound, ReceiverBase
  <2>3. f = CurrentFile \/ Safe(f)
    <3>1. i = rIndex \/ i < rIndex
      BY <1>1, <1>2
    <3> QED BY <1>1, <2>1, <2>2, <3>1 DEF Fulfilled, Files, CurrentFile
  <2>4. Safe(f)'
    BY <2>2, <2>3, SafeRename
  <2> QED BY <1>1, <2>1, <2>4 DEF Safe
<1>3. CASE rIndex = Len(plan)
  <2>1. rPc' = "complete"
    BY <1>3 DEF Rename
  <2> QED BY <1>1, <1>2, <1>3, <2>1 DEF Fulfilled, Files
<1>4. CASE rIndex # Len(plan)
  <2>1. rPc' = "start" /\ rIndex' = rIndex + 1
    BY <1>4 DEF Rename
  <2> QED BY <1>1, <1>2, <2>1 DEF Fulfilled, Files
<1> QED BY <1>3, <1>4

\* Every step of the receiver.
THEOREM ReceiverNext_Fulfilled ==
    ASSUME Sound, LinkTypeOK, ReceiverBase, ReceiverBase', Fulfilled,
           ReceiverNext
    PROVE  Fulfilled'
<1>1. rOffer'.files \in Seq(FileOffer)
  BY DEF ReceiverBase, ReceiverTypeOK
<1>2. CASE \/ Listen \/ Accept \/ ReadHello \/ ReadOffer \/ NoFreeName
           \/ StalePartial \/ HashMismatch \/ Finish \/ Reject
           \/ ReceiverLinkError \/ ReceiverTimeout \/ DiskFails \/ Crash
           \/ PowerLoss
  <2>1. plan' = <<>> /\ rPc' \notin Files \cup {"complete", "finished"}
    BY <1>2 DEF Listen, Accept, ReadHello, ReadOffer, NoFreeName, StalePartial,
                HashMismatch, Finish, Reject, ReceiverLinkError,
                ReceiverTimeout, DiskFails, Crash, PowerLoss, Leave,
                ReceiverForgets, ReceiverBase, ReceiverShape, Files
  <2> QED BY <1>1, <2>1, FulfilledEmpty
<1>3. ASSUME NEW i \in DOMAIN rOffer.files, PrepareFile(rOffer.files[i])
      PROVE  Fulfilled'
  <2>1. PICK f \in FileOffer : f = rOffer.files[i]
    BY ElementOfSeq DEF ReceiverBase, ReceiverTypeOK
  <2> QED BY <1>3, <2>1, FulfilledPrepare
<1>4. CASE SendAccept
  <2>1. /\ UNCHANGED <<plan, rOffer>> /\ rPc' = "start" /\ rIndex' = 1
        /\ Len(plan) = Len(rOffer.files)
    BY <1>4 DEF SendAccept
  <2>2. DOMAIN plan = 1 .. Len(plan) /\ Len(plan) \in Nat
    BY LenProperties DEF ReceiverBase, ReceiverTypeOK
  <2> QED BY <2>1, <2>2 DEF Fulfilled, Files
<1>5. CASE \/ ReadFileStart \/ ReadFileChunk \/ ReadFileEnd \/ ReadComplete
           \/ Flush \/ \E p \in Place : LocalWrite(p)
  <2>1. /\ UNCHANGED <<plan, rOffer>>
        /\ \/ UNCHANGED <<rPc, rIndex>>
           \/ {rPc, rPc'} \subseteq Files /\ UNCHANGED rIndex
           \/ {rPc, rPc'} \subseteq {"complete", "finished"}
    BY <1>5 DEF ReadFileStart, ReadFileChunk, ReadFileEnd, ReadComplete, Flush,
                LocalWrite, receiverVars, Files
  <2> QED BY <2>1, FulfilledStays
<1>6. CASE Rename
  BY <1>6, FulfilledRename
<1> QED BY <1>2, <1>3, <1>4, <1>5, <1>6 DEF ReceiverNext, ReceiverStep
=============================================================================
