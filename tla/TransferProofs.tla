--------------------------- MODULE TransferProofs ---------------------------
(***************************************************************************)
(* The PC and the Deck together, for every value of the constants.         *)
(***************************************************************************)
EXTENDS Transfer, EngineProofs

\* Every file of the job is safe on the Deck, unless a file was stored at the
\* name of a partial file.
AllSafe == aliased \/ \A i \in DOMAIN sOffer : Safe(sOffer[i])

\* Connections that were not made yet are known to nobody.
Fresh ==
    \A c \in Conn : c > sConn =>
        Range(down[c]) = {} /\ c \notin Range(backlog) /\ c # rConn

\* While the PC is connected, what the Deck has been offered on its connection
\* is its offer.
SameOffer ==
    SenderConnected =>
        /\ \A m \in Range(up[sConn]) : m.kind = "Offer" => m.files = sOffer
        /\ rConn = sConn /\ rPc \notin {"hello", "offer"} => rOffer.files = sOffer

\* A confirmation that is on its way, or has been taken, is true.
Confirmed ==
    \/ sPc = "done"
    \/ SenderConnected /\ \E m \in Range(down[sConn]) : m.kind = "Complete"
    => AllSafe

Agreement == Fresh /\ SameOffer /\ Confirmed

Inv ==
    /\ LinkTypeOK
    /\ SenderInv
    /\ ReceiverBase
    /\ Reserved
    /\ Sound
    /\ Fulfilled
    /\ Agreement

-----------------------------------------------------------------------------
(* The frames of a queue. *)

\* Reading a frame.
LEMMA TailRange ==
    ASSUME NEW s \in Seq(Frame), s # <<>>
    PROVE  Range(Tail(s)) \subseteq Range(s) /\ Head(s) \in Range(s)
<1>1. /\ Head(s) = s[1]
      /\ Len(s) \in Nat /\ Len(s) >= 1
      /\ DOMAIN Tail(s) = 1 .. Len(s) - 1
      /\ \A i \in 1 .. Len(s) - 1 : Tail(s)[i] = s[i + 1]
      /\ DOMAIN s = 1 .. Len(s)
  BY HeadTailProperties, LenProperties, EmptySeq
<1> QED BY <1>1 DEF Range

\* Writing a frame.
LEMMA AppendRange ==
    ASSUME NEW S, NEW s \in Seq(S), NEW m
    PROVE  Range(Append(s, m)) = Range(s) \cup {m}
<1>1. /\ DOMAIN s = 1 .. Len(s) /\ Len(s) \in Nat
      /\ DOMAIN Append(s, m) = 1 .. Len(s) + 1
      /\ \A i \in 1 .. Len(s) : Append(s, m)[i] = s[i]
      /\ Append(s, m)[Len(s) + 1] = m
  BY LenProperties
<1> QED BY <1>1 DEF Range

\* Losing the last frames.
LEMMA PrefixRange ==
    ASSUME NEW s \in Seq(Frame), NEW k \in 0 .. Len(s)
    PROVE  Range(SubSeq(s, 1, k)) \subseteq Range(s)
<1>1. DOMAIN s = 1 .. Len(s) /\ Len(s) \in Nat
  BY LenProperties
<1>2. 1 \in Int /\ k \in Int /\ \A i \in 1 .. k : s[i] \in Frame
  BY <1>1, ElementOfSeq
<1>3. /\ SubSeq(s, 1, k) \in Seq(Frame)
      /\ Len(SubSeq(s, 1, k)) = IF 1 <= k THEN k - 1 + 1 ELSE 0
      /\ \A i \in 1 .. k - 1 + 1 : SubSeq(s, 1, k)[i] = s[1 + i - 1]
  BY <1>2, SubSeqProperties
<1>4. DOMAIN SubSeq(s, 1, k) = 1 .. k
  BY <1>1, <1>3, LenProperties
<1> QED BY <1>1, <1>3, <1>4 DEF Range

\* A queue without frames.
LEMMA EmptyRange == Range(<<>>) = {}
  BY DEF Range

-----------------------------------------------------------------------------
(* Steps of the PC. *)

\* What the PC does without a connection, or on its way out.
LEMMA AgreementApart ==
    ASSUME Agreement, ~SenderConnected', sPc' # "done",
           UNCHANGED <<sConn, backlog, rConn>>,
           \A c \in Conn : down'[c] \in {down[c], <<>>}
    PROVE  Agreement'
<1>1. \A c \in Conn : Range(down'[c]) \subseteq Range(down[c])
  BY EmptyRange
<1> QED BY <1>1 DEF Agreement, Fresh, SameOffer, Confirmed

\* What the PC does while it is connected.
LEMMA AgreementWithin ==
    ASSUME Agreement, SenderConnected, SenderConnected',
           UNCHANGED <<sConn, sOffer, backlog, receiverVars, inbox, partials,
                       aliased>>,
           \A m \in Range(up'[sConn]) :
              m \in Range(up[sConn]) \/ m.kind # "Offer" \/ m.files = sOffer,
           \A c \in Conn : Range(down'[c]) \subseteq Range(down[c]),
           sConn \in Conn
    PROVE  Agreement'
<1>1. sPc' # "done"
  BY DEF SenderConnected
<1>2. AllSafe => AllSafe'
  <2>1. UNCHANGED <<sOffer, inbox, partials, aliased>>
    OBVIOUS
  <2> QED BY <2>1 DEF AllSafe, Safe
<1>3. Fresh'
  BY DEF Agreement, Fresh, receiverVars
<1>4. SameOffer'
  BY DEF Agreement, SameOffer, receiverVars
<1>5. Confirmed'
  BY <1>1, <1>2 DEF Agreement, Confirmed
<1> QED BY <1>3, <1>4, <1>5 DEF Agreement

\* A frame that is written.
LEMMA WrittenFrames ==
    ASSUME LinkTypeOK, NEW c \in Conn, NEW m, PcWrites(c, m)
    PROVE  \A x \in Range(up'[c]) : x \in Range(up[c]) \/ x = m
<1>1. up[c] \in Seq(Frame)
  BY DEF LinkTypeOK
<1>2. Range(Append(up[c], m)) = Range(up[c]) \cup {m}
  BY <1>1, AppendRange
<1> QED BY <1>2 DEF PcWrites, LinkTypeOK

\* A frame that is read.
LEMMA ReadFrames ==
    ASSUME LinkTypeOK, NEW c \in Conn, down[c] # <<>>, PcReads(c)
    PROVE  \A d \in Conn : Range(down'[d]) \subseteq Range(down[d])
<1>1. down[c] \in Seq(Frame)
  BY DEF LinkTypeOK
<1>2. Range(Tail(down[c])) \subseteq Range(down[c])
  BY <1>1, TailRange
<1> QED BY <1>2 DEF PcReads, LinkTypeOK

\* Every step of the PC.
LEMMA PcStepAgreement ==
    ASSUME Inv, SenderNext, UNCHANGED <<receiverVars, diskVars, foreign>>
    PROVE  Agreement'
<1> USE DEF receiverVars, diskVars
<1>1. LinkTypeOK /\ SenderTypeOK /\ Agreement
      /\ (SenderConnected => sConn \in Conn)
  BY DEF Inv, SenderInv, SenderShape
<1>2. CASE \/ Send \/ (\E i \in DOMAIN Queue : StatSource(i)) \/ HashSource
           \/ ConnectRefused \/ SourceChanged \/ SenderReject
           \/ SenderLinkError \/ SenderTimeout \/ SourceUnreadable \/ Quit
  <2>1. /\ sPc' \in {"idle", "collect", "hash", "connect"}
        /\ UNCHANGED <<sConn, backlog>>
        /\ UNCHANGED down \/ (SenderConnected /\ down' = [down EXCEPT ![sConn] = <<>>])
    <3>1. CASE Send \/ (\E i \in DOMAIN Queue : StatSource(i)) \/ HashSource
      BY <3>1 DEF Send, StatSource, HashSource, linkVars
    <3>2. CASE ConnectRefused \/ SourceChanged \/ SenderReject \/ SenderLinkError
               \/ SenderTimeout \/ SourceUnreadable \/ Quit
      BY <3>2 DEF ConnectRefused, SourceChanged, SenderReject, SenderLinkError,
                  SenderTimeout, SourceUnreadable, Quit, SenderGivesUp,
                  SenderFails, PcCloses, SenderConnected, SenderHasFrame,
                  SenderWaits
    <3> QED BY <1>2, <3>1, <3>2
  <2>2. \A c \in Conn : down'[c] \in {down[c], <<>>}
    BY <1>1, <2>1 DEF LinkTypeOK
  <2> QED BY <1>1, <2>1, <2>2, AgreementApart DEF SenderConnected
<1>3. CASE \E p \in Path : EditSource(p)
  BY <1>1, <1>3
     DEF EditSource, Agreement, Fresh, SameOffer, Confirmed, AllSafe, Safe,
         SenderConnected
<1>4. CASE Connect
  <2>1. /\ sPc' = "ack" /\ sConn' = sConn + 1 /\ sConn' \in Conn
        /\ sConn \in Nat
        /\ up' = [up EXCEPT ![sConn'] = <<Hello>>]
        /\ backlog' = Append(backlog, sConn')
        /\ UNCHANGED down
    BY <1>1, <1>4, LinkAssumption
       DEF Connect, Establish, SenderTypeOK, Conn, NoConn
  <2>2. Range(backlog') = Range(backlog) \cup {sConn'}
    BY <1>1, <2>1, AppendRange DEF LinkTypeOK
  <2>3. Fresh'
    BY <1>1, <2>1, <2>2 DEF Agreement, Fresh, Conn
  <2>4. \A m \in Range(up'[sConn']) : m.kind # "Offer"
    BY <1>1, <2>1 DEF LinkTypeOK, Range, Hello
  <2>5. rConn # sConn' /\ Range(down[sConn']) = {}
    BY <1>1, <2>1 DEF Agreement, Fresh
  <2>6. SameOffer'
    BY <2>4, <2>5 DEF SameOffer
  <2>7. Confirmed'
    BY <2>1, <2>5 DEF Confirmed
  <2> QED BY <2>3, <2>6, <2>7 DEF Agreement
<1>5. CASE RecvHelloAck
  <2>1. /\ SenderConnected /\ SenderConnected' /\ sConn \in Conn
        /\ UNCHANGED <<sConn, sOffer, backlog>>
        /\ PcReads(sConn) /\ down[sConn] # <<>>
        /\ PcWrites(sConn, OfferFrame(sConn, sOffer))
    BY <1>1, <1>5 DEF RecvHelloAck, SenderHasFrame, SenderConnected
  <2>2. OfferFrame(sConn, sOffer).files = sOffer
    BY DEF OfferFrame
  <2> QED BY <1>1, <2>1, <2>2, WrittenFrames, ReadFrames, AgreementWithin
<1>6. CASE RecvAccept
  <2>1. /\ SenderConnected /\ SenderConnected' /\ sConn \in Conn
        /\ UNCHANGED <<sConn, sOffer, backlog, up>>
        /\ PcReads(sConn) /\ down[sConn] # <<>>
    BY <1>1, <1>6 DEF RecvAccept, SenderHasFrame, SenderConnected
  <2> QED BY <1>1, <2>1, ReadFrames, AgreementWithin
<1>7. ASSUME NEW m, SenderWrites(m), m.kind # "Offer",
             SenderConnected, SenderConnected'
      PROVE  Agreement'
  <2>1. /\ sConn \in Conn
        /\ UNCHANGED <<sConn, sOffer, backlog, down>>
        /\ PcWrites(sConn, m)
    BY <1>1, <1>7 DEF SenderWrites
  <2> QED BY <1>1, <1>7, <2>1, WrittenFrames, AgreementWithin
<1>8. CASE OpenFile
  BY <1>7, <1>8 DEF OpenFile, FileStart, SenderConnected
<1>9. CASE SendChunk
  BY <1>7, <1>9 DEF SendChunk, FileChunk, SenderConnected
<1>10. CASE SendFileEnd
  BY <1>7, <1>10 DEF SendFileEnd, FileEnd, SenderConnected
<1>11. CASE SendComplete
  BY <1>7, <1>11 DEF SendComplete, Complete, SenderConnected
<1>12. CASE RecvComplete
  <2>1. /\ sPc = "confirm" /\ SenderConnected /\ sConn \in Conn
        /\ sPc' = "done"
        /\ down[sConn] # <<>> /\ down[sConn] \in Seq(Frame)
        /\ Head(down[sConn]) = Complete(Len(sOffer))
        /\ down' = [down EXCEPT ![sConn] = <<>>]
        /\ UNCHANGED <<sConn, sOffer, backlog>>
    BY <1>1, <1>12
       DEF RecvComplete, SenderHasFrame, SenderTakes, PcCloses,
           SenderConnected, LinkTypeOK
  <2>2. Head(down[sConn]) \in Range(down[sConn])
        /\ Head(down[sConn]).kind = "Complete"
    BY <2>1, TailRange DEF Complete
  <2>3. AllSafe
    BY <1>1, <2>1, <2>2 DEF Agreement, Confirmed
  <2>4. AllSafe'
    BY <2>1, <2>3 DEF AllSafe, Safe
  <2>5. \A c \in Conn : Range(down'[c]) \subseteq Range(down[c])
    BY <1>1, <2>1, EmptyRange DEF LinkTypeOK
  <2> QED BY <1>1, <2>1, <2>4, <2>5
          DEF Agreement, Fresh, SameOffer, Confirmed, SenderConnected
<1> QED BY <1>2, <1>3, <1>4, <1>5, <1>6, <1>8, <1>9, <1>10, <1>11, <1>12
        DEF SenderNext, SenderStep

-----------------------------------------------------------------------------
(* Steps of the Deck and of the network. *)

\* What the Deck takes from its queues of frames and connections.
LEMMA DeckTakes ==
    ASSUME LinkTypeOK, ReceiverBase, ReceiverNext
    PROVE  /\ \A c \in Conn : Range(up'[c]) \subseteq Range(up[c])
           /\ Range(backlog') \subseteq Range(backlog)
           /\ rConn' \in {rConn, NoConn} \cup Range(backlog)
<1>1. rPc \notin {"off", "listening"} => rConn \in Conn
  BY DEF ReceiverBase, ReceiverShape
<1>2. ASSUME NEW c \in Conn, up[c] # <<>>
      PROVE  Range(Tail(up[c])) \subseteq Range(up[c])
  BY <1>2, TailRange DEF LinkTypeOK
<1>3. CASE Accept
  <2>1. backlog \in Seq(Conn) /\ backlog # <<>> /\ UNCHANGED up
        /\ rConn' = Head(backlog) /\ backlog' = Tail(backlog)
    BY <1>3 DEF Accept, LinkTypeOK
  <2>2. /\ DOMAIN backlog = 1 .. Len(backlog) /\ Len(backlog) \in Nat
        /\ Len(backlog) >= 1
        /\ Head(backlog) = backlog[1]
        /\ DOMAIN Tail(backlog) = 1 .. Len(backlog) - 1
        /\ \A i \in 1 .. Len(backlog) - 1 : Tail(backlog)[i] = backlog[i + 1]
    BY <2>1, HeadTailProperties, LenProperties, EmptySeq
  <2> QED BY <2>1, <2>2 DEF Range
<1>4. CASE \/ ReadHello \/ ReadOffer \/ ReadFileStart \/ ReadFileChunk
           \/ ReadFileEnd \/ ReadComplete
  <2>1. /\ rConn \in Conn /\ up[rConn] # <<>>
        /\ up' = [up EXCEPT ![rConn] = Tail(up[rConn])]
        /\ UNCHANGED <<backlog, rConn>>
    BY <1>1, <1>4 DEF ReadHello, ReadOffer, ReadFileStart, ReadFileChunk,
                 ReadFileEnd, ReadComplete, HasFrame, ReadsFrame, DeckReads
  <2> QED BY <1>2, <2>1 DEF LinkTypeOK
<1>5. CASE \/ NoFreeName \/ StalePartial \/ HashMismatch \/ Finish \/ Reject
           \/ ReceiverLinkError \/ ReceiverTimeout \/ DiskFails
  <2>1. /\ up' = [up EXCEPT ![rConn] = <<>>]
        /\ rConn' = NoConn
        /\ UNCHANGED backlog
    BY <1>5 DEF NoFreeName, StalePartial, HashMismatch, Finish, Reject,
                ReceiverLinkError, ReceiverTimeout, DiskFails, Leave,
                DeckCloses, ReceiverForgets
  <2> QED BY <2>1, EmptyRange DEF LinkTypeOK
<1>6. CASE Crash \/ PowerLoss
  <2>1. /\ up' = [c \in Conn |-> <<>>]
        /\ rConn' = NoConn
        /\ backlog' = <<>>
    BY <1>6 DEF Crash, PowerLoss, DeckGone, ReceiverForgets
  <2> QED BY <2>1, EmptyRange
<1>7. CASE \/ Listen \/ SendAccept \/ Rename \/ Flush
           \/ (\E i \in DOMAIN rOffer.files : PrepareFile(rOffer.files[i]))
           \/ \E p \in Place : LocalWrite(p)
  BY <1>7 DEF Listen, SendAccept, Rename, Flush, PrepareFile, LocalWrite,
              linkVars, receiverVars
<1> QED BY <1>3, <1>4, <1>5, <1>6, <1>7 DEF ReceiverNext, ReceiverStep

\* What the Deck answers: a confirmation only when it is through.
LEMMA DeckAnswers ==
    ASSUME LinkTypeOK, ReceiverBase, ReceiverNext
    PROVE  \A c \in Conn : \A m \in Range(down'[c]) :
              \/ m \in Range(down[c])
              \/ c = rConn /\ (m.kind # "Complete" \/ rPc = "complete")
<1>1. ASSUME NEW m, DeckWrites(rConn, m), rConn \in Conn,
             m.kind # "Complete" \/ rPc = "complete"
      PROVE  \A c \in Conn : \A x \in Range(down'[c]) :
                \/ x \in Range(down[c])
                \/ c = rConn /\ (x.kind # "Complete" \/ rPc = "complete")
  <2>1. down[rConn] \in Seq(Frame)
    BY <1>1 DEF LinkTypeOK
  <2>2. Range(Append(down[rConn], m)) = Range(down[rConn]) \cup {m}
    BY <2>1, AppendRange
  <2> QED BY <1>1, <2>2 DEF DeckWrites, LinkTypeOK
<1>2. rPc \notin {"off", "listening"} => rConn \in Conn
  BY DEF ReceiverBase, ReceiverShape
<1>3. CASE ReadHello
  BY <1>1, <1>2, <1>3 DEF ReadHello, HelloAck
<1>4. CASE SendAccept
  BY <1>1, <1>2, <1>4 DEF SendAccept, AcceptFrame
<1>5. CASE ReadComplete
  BY <1>1, <1>2, <1>5 DEF ReadComplete
<1>6. CASE UNCHANGED down
  BY <1>6
<1>7. ReceiverNext => UNCHANGED down \/ ReadHello \/ SendAccept \/ ReadComplete
  BY DEF ReceiverNext, ReceiverStep, Listen, Accept, ReadOffer, PrepareFile,
         NoFreeName, ReadFileStart, StalePartial, ReadFileChunk, ReadFileEnd,
         HashMismatch, Rename, Finish, Reject, ReceiverLinkError,
         ReceiverTimeout, DiskFails, Crash, PowerLoss, Flush, LocalWrite,
         ReadsFrame, Leave, linkVars
<1> QED BY <1>3, <1>4, <1>5, <1>6, <1>7

\* The offer the Deck goes by is the one it has read on its connection.
LEMMA DeckOffer ==
    ASSUME LinkTypeOK, ReceiverBase, ReceiverNext
    PROVE  \/ rConn' = NoConn
           \/ rPc' \in {"hello", "offer"}
           \/ /\ rConn' = rConn
              /\ rPc \notin {"hello", "offer"}
              /\ rOffer' = rOffer
           \/ /\ rConn' = rConn
              /\ \E m \in Range(up[rConn]) :
                    m.kind = "Offer" /\ rOffer'.files = m.files
<1>1. CASE ReadOffer
  <2>1. /\ rPc = "offer" /\ rConn \in Conn /\ up[rConn] # <<>>
        /\ Head(up[rConn]).kind = "Offer"
        /\ rOffer'.files = Head(up[rConn]).files
        /\ rConn' = rConn
    BY <1>1 DEF ReadOffer, HasFrame, Takes, TakesOffer, ReceiverBase, ReceiverShape
  <2>2. Head(up[rConn]) \in Range(up[rConn])
    BY <2>1, TailRange DEF LinkTypeOK
  <2> QED BY <2>1, <2>2
<1>2. CASE \/ NoFreeName \/ StalePartial \/ HashMismatch \/ Finish \/ Reject
           \/ ReceiverLinkError \/ ReceiverTimeout \/ DiskFails \/ Crash
           \/ PowerLoss
  BY <1>2 DEF NoFreeName, StalePartial, HashMismatch, Finish, Reject,
              ReceiverLinkError, ReceiverTimeout, DiskFails, Crash, PowerLoss,
              Leave, ReceiverForgets
<1>3. CASE Accept \/ ReadHello
  BY <1>3 DEF Accept, ReadHello
<1>4. CASE \/ Listen \/ SendAccept \/ Rename \/ Flush \/ ReadFileStart
           \/ ReadFileChunk \/ ReadFileEnd \/ ReadComplete
           \/ (\E i \in DOMAIN rOffer.files : PrepareFile(rOffer.files[i]))
           \/ \E p \in Place : LocalWrite(p)
  BY <1>4 DEF Listen, SendAccept, Rename, Flush, ReadFileStart, ReadFileChunk,
              ReadFileEnd, ReadComplete, PrepareFile, Preparing, LocalWrite,
              receiverVars
<1> QED BY <1>1, <1>2, <1>3, <1>4 DEF ReceiverNext, ReceiverStep

\* Every step of the Deck.
LEMMA DeckStepAgreement ==
    ASSUME Inv, ReceiverNext, UNCHANGED senderVars
    PROVE  Agreement'
<1>1. LinkTypeOK /\ ReceiverBase /\ Sound /\ Fulfilled /\ Agreement
      /\ (SenderConnected => sConn \in Conn)
  BY DEF Inv, SenderInv, SenderShape
<1>2. UNCHANGED <<sPc, sConn, sOffer>> /\ (SenderConnected' <=> SenderConnected)
  BY DEF senderVars, SenderConnected
<1>3. ASSUME AllSafe PROVE AllSafe'
  <2> SUFFICES ASSUME ~aliased', NEW i \in DOMAIN sOffer PROVE Safe(sOffer[i])'
    BY <1>2 DEF AllSafe
  <2>1. PICK f : f = sOffer[i]
    OBVIOUS
  <2>2. ~aliased /\ ReceiverInv /\ Kept
    BY <1>1, AliasedStays DEF Sound, ReceiverBase
  <2>3. Safe(f)
    BY <1>3, <2>1, <2>2 DEF AllSafe
  <2>4. Safe(f)'
    BY <1>1, <2>2, <2>3, ReceiverNext_Safe
  <2> QED BY <1>2, <2>1, <2>4 DEF Safe
<1>4. Fresh'
  <2> SUFFICES ASSUME NEW c \in Conn, c > sConn
               PROVE  Range(down'[c]) = {} /\ c \notin Range(backlog') /\ c # rConn'
    BY <1>2 DEF Fresh
  <2>1. Range(down[c]) = {} /\ c \notin Range(backlog) /\ c # rConn
    BY <1>1 DEF Agreement, Fresh
  <2>2. Range(down'[c]) = {}
    BY <1>1, <2>1, DeckAnswers
  <2> QED BY <1>1, <2>1, <2>2, DeckTakes DEF Conn, NoConn
<1>5. SameOffer'
  <2> SUFFICES ASSUME SenderConnected
               PROVE  /\ \A m \in Range(up'[sConn]) :
                            m.kind = "Offer" => m.files = sOffer
                      /\ rConn' = sConn /\ rPc' \notin {"hello", "offer"}
                            => rOffer'.files = sOffer
    BY <1>2 DEF SameOffer
  <2>1. /\ \A m \in Range(up[sConn]) : m.kind = "Offer" => m.files = sOffer
        /\ rConn = sConn /\ rPc \notin {"hello", "offer"} => rOffer.files = sOffer
    BY <1>1 DEF Agreement, SameOffer
  <2>2. sConn \in Conn /\ sConn # NoConn
    BY <1>1 DEF Conn, NoConn
  <2>3. Range(up'[sConn]) \subseteq Range(up[sConn])
    BY <1>1, <2>2, DeckTakes
  <2> QED BY <1>1, <2>1, <2>2, <2>3, DeckOffer
<1>6. Confirmed'
  <2>1. CASE sPc = "done"
    BY <1>1, <1>2, <1>3, <2>1 DEF Agreement, Confirmed
  <2>2. ASSUME SenderConnected, NEW m \in Range(down'[sConn]), m.kind = "Complete"
        PROVE  AllSafe'
    <3>1. CASE m \in Range(down[sConn])
      BY <1>1, <1>3, <2>2, <3>1 DEF Agreement, Confirmed
    <3>2. CASE sConn = rConn /\ rPc = "complete"
      <4>1. rOffer.files = sOffer
        BY <1>1, <2>2, <3>2 DEF Agreement, SameOffer
      <4>2. /\ Len(plan) = Len(sOffer)
            /\ \A i \in DOMAIN plan : plan[i].file = sOffer[i]
                                     /\ (aliased \/ Safe(plan[i].file))
        BY <1>1, <3>2, <4>1 DEF Fulfilled
      <4>3. DOMAIN plan = 1 .. Len(plan) /\ DOMAIN sOffer = 1 .. Len(sOffer)
        BY <1>1, <4>1, LenProperties DEF ReceiverBase, ReceiverTypeOK
      <4>4. AllSafe
        BY <4>2, <4>3 DEF AllSafe
      <4> QED BY <1>3, <4>4
    <3> QED BY <1>1, <2>2, <3>1, <3>2, DeckAnswers
  <2> QED BY <1>2, <2>1, <2>2 DEF Confirmed
<1> QED BY <1>4, <1>5, <1>6 DEF Agreement

\* The network loses frames, and makes none.
LEMMA DropAgreement ==
    ASSUME Inv, NEW c \in Conn, Drop(c)
    PROVE  Agreement'
<1>1. LinkTypeOK /\ Agreement /\ (SenderConnected => sConn \in Conn)
  BY DEF Inv, SenderInv, SenderShape
<1>2. UNCHANGED <<senderVars, receiverVars, diskVars, backlog>>
  BY DEF Drop, Disconnect
<1>3. \A d \in Conn : /\ Range(up'[d]) \subseteq Range(up[d])
                      /\ Range(down'[d]) \subseteq Range(down[d])
  <2>1. up[c] \in Seq(Frame) /\ down[c] \in Seq(Frame)
    BY <1>1 DEF LinkTypeOK
  <2>2. /\ \A k \in 0 .. Len(up[c]) : Range(SubSeq(up[c], 1, k)) \subseteq Range(up[c])
        /\ \A k \in 0 .. Len(down[c]) :
              Range(SubSeq(down[c], 1, k)) \subseteq Range(down[c])
    BY <2>1, PrefixRange
  <2> QED BY <1>1, <2>2 DEF Drop, Disconnect, LinkTypeOK
<1> QED BY <1>1, <1>2, <1>3
        DEF Agreement, Fresh, SameOffer, Confirmed, AllSafe, Safe,
            SenderConnected, senderVars, receiverVars, diskVars

-----------------------------------------------------------------------------
(* The handshake, and the frames of the files, as both sides see them.     *)

\* The offsets the Deck has promised.
Resumes == [i \in DOMAIN plan |-> plan[i].resume]

\* The Deck has accepted the offer.
InFiles == {"start", "data", "rename", "complete", "finished"}

\* Where the Deck is in the files.
DeckCursor ==
    CASE rPc = "start" -> At("start", rIndex, 0)
      [] rPc = "data" -> At("data", rIndex, rPos)
      [] rPc = "rename" -> AfterFile(rOffer.files, rIndex)
      [] OTHER -> At(rPc, 0, 0)

\* The Deck reads the frames of connection c, or will.
Live(c) == c \in Range(backlog) \/ c = rConn

DeckAt(c) == IF c = rConn THEN rPc ELSE "hello"

\* A connection is accepted once.
Queued ==
    /\ \A i, j \in DOMAIN backlog : backlog[i] = backlog[j] => i = j
    /\ rConn \notin Range(backlog)
    /\ rPc \in {"off", "listening"} => rConn = NoConn

\* What the Deck has yet to read on c is what it takes where it is, also if the
\* PC has given c up.
Legal(c) ==
    /\ DeckAt(c) = "hello" => up[c] \in {<<>>, <<Hello>>}
    /\ DeckAt(c) = "offer" =>
          up[c] = <<>> \/ \E m \in Frame : up[c] = <<m>> /\ TakesOffer(m)
    /\ DeckAt(c) = "prepare" => up[c] = <<>>
    /\ DeckAt(c) \in InFiles =>
          \E y \in Cursor : Run(rOffer.files, Resumes, DeckCursor, up[c], y)

\* What the PC has yet to read is what it takes where it is.
Answers ==
    /\ sPc \in {"ack", "accept", "confirm"} =>
          down[sConn] = <<>> \/ \E m : down[sConn] = <<m>> /\ SenderTakes(m)
    /\ sPc \in {"open", "chunks", "complete"} => down[sConn] = <<>>

\* The Deck has been offered what the PC has collected.
Agreed == rOffer = [id |-> sConn, files |-> sOffer]

\* The steps of the handshake on the PC's connection, which is live and whole:
\* every frame is in one place, and one side is to move.
HelloSent ==
    /\ sPc = "ack" /\ DeckAt(sConn) = "hello"
    /\ up[sConn] = <<Hello>> /\ down[sConn] = <<>>

HelloRead ==
    /\ sPc = "ack" /\ DeckAt(sConn) = "offer"
    /\ up[sConn] = <<>> /\ down[sConn] = <<HelloAck>>

OfferSent ==
    /\ sPc = "accept" /\ DeckAt(sConn) = "offer"
    /\ up[sConn] = <<OfferFrame(sConn, sOffer)>> /\ down[sConn] = <<>>

OfferRead ==
    /\ sPc = "accept" /\ DeckAt(sConn) = "prepare" /\ Agreed
    /\ up[sConn] = <<>> /\ down[sConn] = <<>>

AcceptSent ==
    /\ sPc = "accept" /\ DeckAt(sConn) = "start" /\ rIndex = 1 /\ Agreed
    /\ up[sConn] = <<>> /\ down[sConn] = <<AcceptFrame(sConn, Resumes)>>

InStep ==
    /\ sPc \in {"open", "chunks", "complete", "confirm"}
    /\ DeckAt(sConn) \in InFiles
    /\ Agreed /\ sOffsets = Resumes
    /\ Run(sOffer, sOffsets, DeckCursor, up[sConn], PcCursor)
    /\ down[sConn] = IF DeckAt(sConn) = "finished" THEN <<Complete(Len(sOffer))>>
                                                   ELSE <<>>

Together == SenderConnected /\ Live(sConn) /\ ~broken[sConn]

Lockstep ==
    Together => \/ HelloSent \/ HelloRead \/ OfferSent \/ OfferRead
                \/ AcceptSent \/ InStep

Handshake ==
    /\ Queued
    /\ \A c \in Conn : Live(c) => Legal(c)
    /\ Answers
    /\ Lockstep

-----------------------------------------------------------------------------
(* Queues and frames. *)

\* Of one frame, one or none arrives.
LEMMA SinglePrefix ==
    ASSUME NEW m, NEW s \in Seq(Frame), s \in {<<>>, <<m>>}, NEW k \in 0 .. Len(s)
    PROVE  SubSeq(s, 1, k) \in {<<>>, <<m>>}
<1>1. /\ Len(s) \in {0, 1}
      /\ SubSeq(s, 1, k) \in Seq(Frame)
      /\ Len(SubSeq(s, 1, k)) = k
      /\ \A i \in 1 .. k : SubSeq(s, 1, k)[i] = s[i]
  <2>1. DOMAIN s = 1 .. Len(s) /\ Len(s) \in Nat /\ Len(s) \in {0, 1}
    BY LenProperties
  <2>2. 1 \in Int /\ k \in Int /\ \A i \in 1 .. k : s[i] \in Frame
    BY <2>1, ElementOfSeq
  <2> QED BY <2>1, <2>2, SubSeqProperties
<1>2. CASE k = 0
  BY <1>1, <1>2, EmptySeq
<1>3. CASE k = 1
  <2>1. s = <<m>> /\ Len(s) = 1
    BY <1>1, <1>3, EmptySeq
  <2>2. SubSeq(s, 1, k) = s
    BY <1>1, <1>3, <2>1, SeqEqual
  <2> QED BY <2>1, <2>2
<1> QED BY <1>1, <1>2, <1>3

\* Of no frame, none arrives.
LEMMA EmptyPrefix ==
    ASSUME NEW s \in Seq(Frame), s = <<>>, NEW k \in 0 .. Len(s)
    PROVE  SubSeq(s, 1, k) = <<>>
<1>1. k = 0 /\ 1 \in Int
  BY EmptySeq
<1>2. /\ SubSeq(s, 1, k) \in Seq(Frame)
      /\ Len(SubSeq(s, 1, k)) = 0
  BY <1>1, SubSeqProperties
<1> QED BY <1>2, EmptySeq

\* A queue that holds nothing.
LEMMA EmptyByRange ==
    ASSUME NEW s \in Seq(Frame), Range(s) = {}
    PROVE  s = <<>>
<1>1. DOMAIN s = 1 .. Len(s) /\ Len(s) \in Nat
  BY LenProperties
<1>2. 1 \notin DOMAIN s
  BY DEF Range
<1> QED BY <1>1, <1>2, EmptySeq

\* A queue of one frame.
LEMMA Single ==
    ASSUME NEW m
    PROVE  /\ <<m>> # <<>> /\ Head(<<m>>) = m /\ Tail(<<m>>) = <<>>
           /\ Append(<<>>, m) = <<m>>
  OBVIOUS

\* What a write of the PC does to the queues.
LEMMA PcWritesUp ==
    ASSUME LinkTypeOK, NEW c \in Conn, NEW m, PcWrites(c, m)
    PROVE  /\ \A d \in Conn : d # c => up'[d] = up[d] /\ broken'[d] = broken[d]
           /\ \/ up'[c] = up[c]
              \/ up'[c] = Append(up[c], m) /\ ~broken[c]
           /\ ~broken'[c] => up'[c] = Append(up[c], m) /\ ~broken[c]
  BY DEF LinkTypeOK, PcWrites

\* What a write of the Deck does to the queues.
LEMMA DeckWritesDown ==
    ASSUME LinkTypeOK, NEW c \in Conn, NEW m, DeckWrites(c, m)
    PROVE  /\ \A d \in Conn : d # c => down'[d] = down[d] /\ broken'[d] = broken[d]
           /\ \/ down'[c] = down[c]
              \/ down'[c] = Append(down[c], m) /\ ~broken[c]
           /\ ~broken'[c] => down'[c] = Append(down[c], m) /\ ~broken[c]
  BY DEF LinkTypeOK, DeckWrites

\* A connection that nothing happens to.
LEMMA LegalStays ==
    ASSUME NEW c, Legal(c), up'[c] = up[c], UNCHANGED receiverVars
    PROVE  Legal(c)'
<1>1. DeckAt(c)' = DeckAt(c) /\ DeckCursor' = DeckCursor /\ Resumes' = Resumes
      /\ rOffer' = rOffer
  BY DEF receiverVars, DeckAt, DeckCursor, Resumes
<1> QED BY <1>1 DEF Legal

\* A connection that waits to be accepted.
LEMMA LegalWaiting ==
    ASSUME NEW c, DeckAt(c)' = "hello", up'[c] \in {<<>>, <<Hello>>}
    PROVE  Legal(c)'
  BY DEF Legal, InFiles

-----------------------------------------------------------------------------
(* Steps of the PC. *)

\* Steps that change neither the queues nor where the programs are.
LEMMA HandshakeStays ==
    ASSUME Handshake,
           UNCHANGED <<up, down, broken, backlog, sPc, sConn, sOffer, sOffsets,
                       sIndex, sPos, receiverVars>>
    PROVE  Handshake'
<1>1. /\ UNCHANGED <<rPc, rConn, rOffer, plan, rIndex, rPos>>
      /\ DeckCursor' = DeckCursor /\ Resumes' = Resumes /\ PcCursor' = PcCursor
      /\ \A c : DeckAt(c)' = DeckAt(c) /\ (Live(c)' <=> Live(c))
  BY DEF receiverVars, DeckAt, DeckCursor, Resumes, PcCursor, Live
<1>2. Queued'
  BY <1>1 DEF Handshake, Queued
<1>3. \A c \in Conn : Live(c)' => Legal(c)'
  BY <1>1, LegalStays DEF Handshake
<1>4. Answers'
  BY <1>1 DEF Handshake, Answers, SenderTakes
<1>5. Lockstep'
  BY <1>1 DEF Handshake, Lockstep, Together, HelloSent, HelloRead, OfferSent,
              OfferRead, AcceptSent, InStep, Agreed, SenderConnected
<1> QED BY <1>2, <1>3, <1>4, <1>5 DEF Handshake

\* What the PC does without a connection, or on its way out.
LEMMA HandshakeApart ==
    ASSUME Handshake, ~SenderConnected', UNCHANGED <<up, backlog, receiverVars>>
    PROVE  Handshake'
<1>1. \A c : Live(c)' <=> Live(c)
  BY DEF receiverVars, Live
<1>2. Queued'
  BY DEF receiverVars, Handshake, Queued
<1>3. \A c \in Conn : Live(c)' => Legal(c)'
  BY <1>1, LegalStays DEF Handshake
<1> QED BY <1>2, <1>3 DEF Handshake, Answers, Lockstep, Together, SenderConnected

\* A new connection.
LEMMA ConnectHandshake ==
    ASSUME Inv, Handshake, Connect, UNCHANGED receiverVars
    PROVE  Handshake'
<1>1. /\ sPc' = "ack" /\ sConn' = sConn + 1 /\ sConn' \in Conn
      /\ sConn' > sConn
      /\ up' = [up EXCEPT ![sConn'] = <<Hello>>]
      /\ backlog' = Append(backlog, sConn')
      /\ UNCHANGED <<down, broken, rConn, rPc>>
      /\ LinkTypeOK /\ Agreement
  BY LinkAssumption DEF Inv, SenderInv, SenderTypeOK, Connect, Establish, Conn,
                        NoConn, receiverVars
<1>2. /\ down[sConn'] = <<>>
      /\ sConn' \notin Range(backlog) /\ sConn' # rConn
  <2>1. Range(down[sConn']) = {} /\ sConn' \notin Range(backlog) /\ sConn' # rConn
    BY <1>1 DEF Agreement, Fresh
  <2>2. down[sConn'] \in Seq(Frame)
    BY <1>1 DEF LinkTypeOK
  <2> QED BY <2>1, <2>2, EmptyByRange
<1>3. /\ backlog \in Seq(Conn)
      /\ DOMAIN backlog = 1 .. Len(backlog) /\ Len(backlog) \in Nat
      /\ DOMAIN backlog' = 1 .. Len(backlog) + 1
      /\ \A i \in 1 .. Len(backlog) : backlog'[i] = backlog[i]
      /\ backlog'[Len(backlog) + 1] = sConn'
      /\ Range(backlog') = Range(backlog) \cup {sConn'}
  BY <1>1, AppendRange, LenProperties DEF LinkTypeOK
<1>4. Queued'
  <2>1. \A i \in DOMAIN backlog : backlog[i] \in Range(backlog)
    BY DEF Range
  <2> QED BY <1>1, <1>2, <1>3, <2>1 DEF Handshake, Queued, Conn, NoConn
<1>5. ASSUME NEW c \in Conn, Live(c)'
      PROVE  Legal(c)'
  <2>1. CASE c = sConn'
    BY <1>1, <1>2, <2>1, LegalWaiting DEF LinkTypeOK, DeckAt, receiverVars
  <2>2. CASE c # sConn'
    <3>1. Live(c) /\ up'[c] = up[c]
      BY <1>1, <1>3, <1>5, <2>2 DEF Live, LinkTypeOK
    <3> QED BY <3>1, LegalStays DEF Handshake
  <2> QED BY <2>1, <2>2
<1>6. Answers'
  BY <1>1, <1>2 DEF Answers, SenderTakes
<1>7. HelloSent'
  BY <1>1, <1>2 DEF HelloSent, DeckAt, LinkTypeOK
<1> QED BY <1>4, <1>5, <1>6, <1>7 DEF Handshake, Lockstep

\* The offer is written.
LEMMA RecvHelloAckHandshake ==
    ASSUME Inv, Handshake, RecvHelloAck, UNCHANGED receiverVars
    PROVE  Handshake'
<1> DEFINE offer == OfferFrame(sConn, sOffer)
<1>1. /\ sPc = "ack" /\ sPc' = "accept" /\ sConn \in Conn
      /\ down[sConn] # <<>>
      /\ down' = [down EXCEPT ![sConn] = Tail(@)]
      /\ PcWrites(sConn, offer)
      /\ UNCHANGED <<backlog, sConn, sOffer, rConn, rPc, rOffer>>
      /\ LinkTypeOK
  BY DEF Inv, SenderInv, SenderShape, SenderConnected, RecvHelloAck,
         SenderHasFrame, PcReads, receiverVars
<1>2. /\ offer \in Frame /\ TakesOffer(offer)
  <2>1. sOffer \in Seq(FileOffer) /\ sConn \in Nat /\ Len(sOffer) = Len(Queue)
    BY <1>1, WholeOffer DEF Inv, SenderInv, SenderShape, Conn
  <2>2. sOffer # <<>>
    BY <2>1, SenderAssumption, EmptySeq
  <2> QED BY <2>1, <2>2, FrameKinds DEF OfferFrame, TakesOffer
<1>3. down'[sConn] = <<>>
  <2>1. PICK m : down[sConn] = <<m>>
    BY <1>1 DEF Handshake, Answers
  <2> QED BY <1>1, <2>1, Single DEF LinkTypeOK
<1>4. \A c : /\ DeckAt(c)' = DeckAt(c)
             /\ Live(c)' <=> Live(c)
  BY <1>1 DEF DeckAt, Live
<1>5. ~broken[sConn] /\ Live(sConn) => HelloRead
  BY <1>1 DEF Handshake, Lockstep, Together, SenderConnected, HelloSent,
              OfferSent, OfferRead, AcceptSent, InStep
<1>6. Queued'
  BY <1>1 DEF Handshake, Queued
<1>7. ASSUME NEW c \in Conn, Live(c)'
      PROVE  Legal(c)'
  <2>1. Live(c) /\ Legal(c)
    BY <1>4, <1>7 DEF Handshake
  <2>2. CASE up'[c] = up[c]
    BY <2>1, <2>2, LegalStays
  <2>3. CASE up'[c] # up[c]
    <3>1. c = sConn /\ ~broken[sConn] /\ up'[c] = Append(up[c], offer)
      BY <1>1, <2>3, PcWritesUp
    <3>2. DeckAt(c)' = "offer" /\ up'[c] = <<offer>>
      BY <1>4, <1>5, <2>1, <3>1, Single DEF HelloRead
    <3> QED BY <1>2, <3>2 DEF Legal, InFiles
  <2> QED BY <2>2, <2>3
<1>8. Answers'
  BY <1>1, <1>3 DEF Answers
<1>9. Together' => OfferSent'
  <2>1. ASSUME Together'
        PROVE  ~broken[sConn] /\ Live(sConn) /\ up'[sConn] = Append(up[sConn], offer)
    BY <1>1, <1>4, <2>1, PcWritesUp DEF Together
  <2> QED BY <1>1, <1>3, <1>4, <1>5, <2>1, Single DEF HelloRead, OfferSent
<1> QED BY <1>6, <1>7, <1>8, <1>9 DEF Handshake, Lockstep

\* The offsets are read.
LEMMA RecvAcceptHandshake ==
    ASSUME Inv, Handshake, RecvAccept, UNCHANGED receiverVars
    PROVE  Handshake'
<1>1. /\ sPc = "accept" /\ sPc' = "open" /\ sConn \in Conn
      /\ down[sConn] # <<>>
      /\ down' = [down EXCEPT ![sConn] = Tail(@)]
      /\ sOffsets' = Head(down[sConn]).offsets /\ sIndex' = 1
      /\ UNCHANGED <<up, broken, backlog, sConn, sOffer>>
      /\ UNCHANGED <<rConn, rPc, rOffer, rIndex, plan>>
      /\ LinkTypeOK
  BY DEF Inv, SenderInv, SenderShape, SenderConnected, RecvAccept,
         SenderHasFrame, PcReads, receiverVars
<1>2. down'[sConn] = <<>>
  <2>1. PICK m : down[sConn] = <<m>>
    BY <1>1 DEF Handshake, Answers
  <2> QED BY <1>1, <2>1, Single DEF LinkTypeOK
<1>3. \A c : /\ DeckAt(c)' = DeckAt(c)
             /\ Live(c)' <=> Live(c)
  BY <1>1 DEF DeckAt, Live
<1>4. Queued'
  BY <1>1 DEF Handshake, Queued
<1>5. \A c \in Conn : Live(c)' => Legal(c)'
  BY <1>1, <1>3, LegalStays DEF Handshake
<1>6. Answers'
  BY <1>1, <1>2 DEF Answers
<1>7. ASSUME Together'
      PROVE  InStep'
  <2>1. AcceptSent
    BY <1>1, <1>3, <1>7 DEF Handshake, Lockstep, Together, SenderConnected,
              HelloSent, HelloRead, OfferSent, OfferRead, InStep
  <2>2. sOffsets' = Resumes /\ Resumes' = Resumes
    BY <1>1, <2>1, Single DEF AcceptSent, AcceptFrame, Resumes
  <2>3. rPc = "start" /\ DeckAt(sConn)' = "start"
    <3>1. DeckAt(sConn) = "start"
      BY <2>1 DEF AcceptSent
    <3>2. DeckAt(sConn)' = "start"
      BY <1>1, <1>3, <3>1
    <3>3. rPc = "start"
      BY <3>1 DEF DeckAt
    <3> QED BY <3>2, <3>3
  <2>4. DeckCursor' = At("start", 1, 0) /\ PcCursor' = At("start", 1, 0)
    BY <1>1, <2>1, <2>3 DEF AcceptSent, DeckCursor, PcCursor
  <2>5. At("start", 1, 0) \in Cursor
    BY DEF At, Cursor
  <2>6. Run(sOffer, sOffsets', DeckCursor', <<>>, PcCursor')
    BY <2>4, <2>5, RunStart
  <2> QED BY <1>1, <1>2, <2>1, <2>2, <2>3, <2>6
          DEF AcceptSent, InStep, Agreed, InFiles
<1> QED BY <1>4, <1>5, <1>6, <1>7 DEF Handshake, Lockstep

\* A frame of a file is written.
LEMMA FileFrameHandshake ==
    ASSUME Inv, Handshake, OpenFile \/ SendChunk \/ SendFileEnd \/ SendComplete,
           UNCHANGED receiverVars
    PROVE  Handshake'
<1>1. /\ sPc \in {"open", "chunks", "complete"}
      /\ sPc' \in {"open", "chunks", "complete", "confirm"}
      /\ PcCursor' \in Cursor
  BY WritesMove DEF Inv
<1>2. PICK m \in Frame : /\ SenderWrites(m)
                         /\ Moves(sOffer, sOffsets, PcCursor, m, PcCursor')
  BY WritesMove DEF Inv
<1>3. /\ sConn \in Conn
      /\ PcWrites(sConn, m)
      /\ UNCHANGED <<down, backlog, sConn, sOffer, sOffsets>>
      /\ UNCHANGED <<rConn, rPc, rOffer, rIndex, plan>>
      /\ Resumes' = Resumes /\ DeckCursor' = DeckCursor
      /\ LinkTypeOK /\ up[sConn] \in Seq(Frame)
  BY <1>1, <1>2 DEF Inv, SenderInv, SenderShape, SenderConnected, SenderWrites,
         receiverVars, LinkTypeOK, Resumes, DeckCursor
<1>4. \A c : /\ DeckAt(c)' = DeckAt(c)
             /\ Live(c)' <=> Live(c)
  BY <1>3 DEF DeckAt, Live
<1>5. ~broken[sConn] /\ Live(sConn) => InStep
  BY <1>1 DEF Handshake, Lockstep, Together, SenderConnected, HelloSent,
              HelloRead, OfferSent, OfferRead, AcceptSent
<1>6. InStep => Run(sOffer, sOffsets, DeckCursor, Append(up[sConn], m), PcCursor')
  BY <1>1, <1>2, <1>3, RunAppend DEF InStep
<1>7. Queued'
  BY <1>3 DEF Handshake, Queued
<1>8. ASSUME NEW c \in Conn, Live(c)'
      PROVE  Legal(c)'
  <2>1. Live(c) /\ Legal(c)
    BY <1>4, <1>8 DEF Handshake
  <2>2. CASE up'[c] = up[c]
    BY <2>1, <2>2, LegalStays
  <2>3. CASE up'[c] # up[c]
    <3>1. c = sConn /\ ~broken[sConn] /\ up'[c] = Append(up[c], m)
      BY <1>3, <2>3, PcWritesUp
    <3>2. /\ DeckAt(c)' \in InFiles /\ rOffer'.files = sOffer /\ sOffsets = Resumes'
          /\ Run(sOffer, sOffsets, DeckCursor', up'[c], PcCursor')
      BY <1>3, <1>4, <1>5, <1>6, <2>1, <3>1 DEF InStep, Agreed
    <3> QED BY <1>1, <3>2 DEF Legal, InFiles
  <2> QED BY <2>2, <2>3
<1>9. Answers'
  BY <1>1, <1>3 DEF Handshake, Answers
<1>10. ASSUME Together'
       PROVE  InStep'
  <2>1. ~broken[sConn] /\ Live(sConn) /\ up'[sConn] = Append(up[sConn], m)
    BY <1>3, <1>4, <1>10, PcWritesUp DEF Together
  <2> QED BY <1>1, <1>3, <1>4, <1>5, <1>6, <2>1 DEF InStep, Agreed
<1> QED BY <1>7, <1>8, <1>9, <1>10 DEF Handshake, Lockstep

\* Every step of the PC.
LEMMA PcStepHandshake ==
    ASSUME Inv, Handshake, SenderNext, UNCHANGED <<receiverVars, diskVars, foreign>>
    PROVE  Handshake'
<1>1. CASE \/ Send \/ (\E i \in DOMAIN Queue : StatSource(i)) \/ HashSource
           \/ ConnectRefused \/ SourceChanged \/ SenderReject
           \/ SenderLinkError \/ SenderTimeout \/ SourceUnreadable \/ Quit
           \/ RecvComplete
  <2>1. /\ sPc' \in {"idle", "collect", "hash", "connect", "done"}
        /\ UNCHANGED <<up, backlog>>
    <3>1. CASE Send \/ (\E i \in DOMAIN Queue : StatSource(i)) \/ HashSource
      BY <3>1 DEF Send, StatSource, HashSource, linkVars
    <3>2. CASE ConnectRefused \/ SourceChanged \/ SenderReject \/ SenderLinkError
               \/ SenderTimeout \/ SourceUnreadable \/ Quit \/ RecvComplete
      BY <3>2 DEF ConnectRefused, SourceChanged, SenderReject, SenderLinkError,
                  SenderTimeout, SourceUnreadable, Quit, SenderGivesUp,
                  SenderFails, PcCloses, RecvComplete
    <3> QED BY <1>1, <3>1, <3>2
  <2> QED BY <2>1, HandshakeApart DEF SenderConnected
<1>2. CASE \E p \in Path : EditSource(p)
  BY <1>2, HandshakeStays DEF EditSource
<1> QED BY <1>1, <1>2, ConnectHandshake, RecvHelloAckHandshake,
           RecvAcceptHandshake, FileFrameHandshake DEF SenderNext, SenderStep

-----------------------------------------------------------------------------
(* Steps of the Deck. *)

\* What the Deck does on its connection is nothing to the others.
LEMMA LegalElsewhere ==
    ASSUME Handshake, NEW c \in Conn, c # rConn, c # rConn', up'[c] = up[c],
           Range(backlog') \subseteq Range(backlog), Live(c)'
    PROVE  Legal(c)' /\ Live(c) /\ DeckAt(c)' = "hello" /\ DeckAt(c) = "hello"
<1>1. Live(c) /\ DeckAt(c) = "hello" /\ DeckAt(c)' = "hello"
  BY DEF Live, DeckAt
<1>2. up[c] \in {<<>>, <<Hello>>}
  BY <1>1 DEF Handshake, Legal
<1> QED BY <1>1, <1>2, LegalWaiting

\* The PC's connection, when the Deck serves another or none.
LEMMA LockstepElsewhere ==
    ASSUME Handshake, SenderConnected => sConn \in Conn,
           sConn # rConn, sConn # rConn',
           SenderConnected => /\ up'[sConn] = up[sConn]
                              /\ down'[sConn] = down[sConn]
                              /\ broken'[sConn] = broken[sConn],
           Range(backlog') \subseteq Range(backlog), UNCHANGED senderVars
    PROVE  Lockstep'
<1> SUFFICES ASSUME Together'
             PROVE  HelloSent'
  BY DEF Lockstep
<1>1. /\ SenderConnected /\ sConn \in Conn /\ sConn' = sConn /\ sPc' = sPc
      /\ ~broken[sConn] /\ Live(sConn)'
  BY DEF Together, SenderConnected, senderVars
<1>2. Live(sConn) /\ DeckAt(sConn)' = "hello" /\ DeckAt(sConn) = "hello"
  BY <1>1 DEF Live, DeckAt
<1>3. HelloSent
  BY <1>1, <1>2 DEF Handshake, Lockstep, Together, HelloRead, OfferSent,
                    OfferRead, AcceptSent, InStep, InFiles
<1> QED BY <1>1, <1>2, <1>3 DEF HelloSent

\* Nothing arrives at the PC.
LEMMA AnswersStay ==
    ASSUME Handshake, SenderConnected => down'[sConn] = down[sConn],
           UNCHANGED senderVars
    PROVE  Answers'
  BY DEF Handshake, Answers, SenderTakes, SenderConnected, senderVars

\* A step on the connection that is served.
LEMMA ServedHandshake ==
    ASSUME Inv, Handshake, rPc' \notin {"off", "listening"}, rConn \in Conn,
           UNCHANGED <<rConn, backlog, senderVars>>,
           \A c \in Conn : c # rConn =>
              /\ up'[c] = up[c] /\ down'[c] = down[c] /\ broken'[c] = broken[c],
           Legal(rConn)',
           rConn = sConn => Answers' /\ Lockstep'
    PROVE  Handshake'
<1>1. Queued'
  BY DEF Handshake, Queued
<1>2. \A c \in Conn : Live(c)' => Legal(c)'
  <2> SUFFICES ASSUME NEW c \in Conn, Live(c)' PROVE Legal(c)'
    OBVIOUS
  <2>1. CASE c = rConn
    BY <2>1 DEF Legal, DeckAt
  <2>2. CASE c # rConn
    BY <2>2, LegalElsewhere
  <2> QED BY <2>1, <2>2
<1>3. SenderConnected => sConn \in Conn
  BY DEF Inv, SenderInv, SenderShape
<1>4. CASE rConn # sConn
  <2>1. SenderConnected => /\ up'[sConn] = up[sConn] /\ down'[sConn] = down[sConn]
                           /\ broken'[sConn] = broken[sConn]
    BY <1>3, <1>4
  <2>2. Answers'
    BY <2>1, AnswersStay
  <2>3. Lockstep'
    BY <1>3, <1>4, <2>1, LockstepElsewhere
  <2> QED BY <1>1, <1>2, <2>2, <2>3 DEF Handshake
<1>5. CASE rConn = sConn
  BY <1>1, <1>2, <1>5 DEF Handshake
<1> QED BY <1>4, <1>5

\* Every way out of receive_stream but the end of the process.
LEMMA LeaveHandshake ==
    ASSUME Inv, Handshake, rConn \in Conn, NEW unread, Leave(unread),
           UNCHANGED senderVars
    PROVE  Handshake'
<1>1. /\ rPc' = "listening" /\ rConn' = NoConn
      /\ up' = [up EXCEPT ![rConn] = <<>>]
      /\ broken' = [broken EXCEPT ![rConn] = @ \/ unread # <<>>]
      /\ UNCHANGED <<down, backlog>>
      /\ LinkTypeOK /\ backlog \in Seq(Conn)
  BY DEF Leave, DeckCloses, ReceiverForgets, Inv, LinkTypeOK
<1>2. \A c \in Conn : Live(c)' => c # rConn /\ c # rConn'
  BY <1>1 DEF Handshake, Queued, Live, Conn, NoConn
<1>3. Queued'
  <2>1. \A i \in DOMAIN backlog : backlog[i] \in Conn
    BY <1>1, ElementOfSeq, LenProperties
  <2>2. NoConn \notin Range(backlog)
    BY <2>1 DEF Range, Conn, NoConn
  <2> QED BY <1>1, <2>2 DEF Handshake, Queued
<1>4. \A c \in Conn : Live(c)' => Legal(c)'
  <2> SUFFICES ASSUME NEW c \in Conn, Live(c)' PROVE Legal(c)'
    OBVIOUS
  <2>1. c # rConn /\ c # rConn' /\ up'[c] = up[c]
    BY <1>1, <1>2 DEF LinkTypeOK
  <2> QED BY <1>1, <2>1, LegalElsewhere
<1>5. Answers'
  BY <1>1, AnswersStay
<1>6. Lockstep'
  <2>1. SenderConnected => sConn \in Conn
    BY DEF Inv, SenderInv, SenderShape
  <2>2. CASE SenderConnected /\ sConn # rConn
    <3>1. sConn # rConn'
      BY <1>1, <2>1, <2>2 DEF Conn, NoConn
    <3>2. up'[sConn] = up[sConn] /\ down'[sConn] = down[sConn]
          /\ broken'[sConn] = broken[sConn]
      BY <1>1, <2>1, <2>2 DEF LinkTypeOK
    <3> QED BY <1>1, <2>1, <2>2, <3>1, <3>2, LockstepElsewhere
  <2>3. CASE SenderConnected /\ sConn = rConn
    <3>1. ~Live(sConn)' /\ sConn' = sConn
      BY <1>2, <2>1, <2>3 DEF senderVars
    <3> QED BY <3>1 DEF Lockstep, Together
  <2>4. CASE ~SenderConnected
    BY <2>4 DEF Lockstep, Together, SenderConnected, senderVars
  <2> QED BY <2>2, <2>3, <2>4
<1> QED BY <1>3, <1>4, <1>5, <1>6 DEF Handshake

\* The process ends.
LEMMA GoneHandshake ==
    ASSUME Inv, Handshake, rPc' = "off", DeckGone, ReceiverForgets,
           UNCHANGED <<down, senderVars>>
    PROVE  Handshake'
<1>1. rConn' = NoConn /\ backlog' = <<>>
  BY DEF DeckGone, ReceiverForgets
<1>2. \A c \in Conn : ~Live(c)'
  BY <1>1, EmptyRange DEF Live, Conn, NoConn
<1>3. Queued'
  BY <1>1, EmptyRange DEF Queued
<1>4. SenderConnected' => sConn' \in Conn
  BY DEF SenderConnected, Inv, SenderInv, SenderShape, senderVars
<1>5. Lockstep'
  BY <1>2, <1>4 DEF Lockstep, Together
<1> QED BY <1>2, <1>3, <1>5, AnswersStay DEF Handshake

\* listen takes the next connection.
LEMMA AcceptHandshake ==
    ASSUME Inv, Handshake, Accept, UNCHANGED senderVars
    PROVE  Handshake'
<1>1. /\ rPc = "listening" /\ rPc' = "hello" /\ rConn = NoConn
      /\ rConn' = Head(backlog) /\ backlog' = Tail(backlog)
      /\ UNCHANGED <<up, down, broken>>
      /\ backlog \in Seq(Conn) /\ backlog # <<>>
  BY DEF Accept, Handshake, Queued, Inv, LinkTypeOK
<1>2. /\ Head(backlog) = backlog[1]
      /\ Len(backlog) \in Nat /\ Len(backlog) >= 1
      /\ DOMAIN Tail(backlog) = 1 .. Len(backlog) - 1
      /\ \A i \in 1 .. Len(backlog) - 1 : Tail(backlog)[i] = backlog[i + 1]
      /\ DOMAIN backlog = 1 .. Len(backlog)
      /\ Head(backlog) \in Conn
  BY <1>1, HeadTailProperties, LenProperties, EmptySeq
<1>3. Range(backlog) = {rConn'} \cup Range(backlog')
  <2>1. \A i \in DOMAIN backlog : i = 1 \/ i - 1 \in DOMAIN backlog'
    BY <1>1, <1>2
  <2>2. \A i \in DOMAIN backlog' : i + 1 \in DOMAIN backlog
    BY <1>1, <1>2
  <2>3. \A i \in DOMAIN backlog : i # 1 => backlog[i] = backlog'[i - 1]
    BY <1>1, <1>2
  <2>4. 1 \in DOMAIN backlog
    BY <1>2
  <2> QED BY <1>1, <1>2, <2>1, <2>2, <2>3, <2>4 DEF Range
<1>4. \A c \in Conn : (Live(c)' <=> Live(c)) /\ DeckAt(c)' = "hello" /\ DeckAt(c) = "hello"
  BY <1>1, <1>2, <1>3 DEF Live, DeckAt, Conn, NoConn
<1>5. Queued'
  BY <1>1, <1>2 DEF Handshake, Queued, Range
<1>6. \A c \in Conn : Live(c)' => Legal(c)'
  BY <1>1, <1>4, LegalWaiting DEF Handshake, Legal
<1>7. Answers'
  BY <1>1, AnswersStay
<1>8. Lockstep'
  <2> SUFFICES ASSUME Together'
               PROVE  HelloSent'
    BY DEF Lockstep
  <2>1. /\ sConn \in Conn /\ sConn' = sConn /\ sPc' = sPc /\ Together
    BY <1>1, <1>4 DEF Together, SenderConnected, senderVars, Inv, SenderInv, SenderShape
  <2>2. DeckAt(sConn)' = "hello" /\ DeckAt(sConn) = "hello"
    BY <1>4, <2>1
  <2>3. HelloSent
    BY <2>1, <2>2 DEF Handshake, Lockstep, HelloRead, OfferSent,
                      OfferRead, AcceptSent, InStep, InFiles
  <2> QED BY <1>1, <2>1, <2>2, <2>3 DEF HelloSent
<1> QED BY <1>5, <1>6, <1>7, <1>8 DEF Handshake

\* Hello is answered.
LEMMA ReadHelloHandshake ==
    ASSUME Inv, Handshake, ReadHello, UNCHANGED senderVars
    PROVE  Handshake'
<1>1. /\ rPc = "hello" /\ rPc' = "offer" /\ rConn \in Conn /\ rConn' = rConn
      /\ up[rConn] # <<>> /\ up' = [up EXCEPT ![rConn] = Tail(@)]
      /\ DeckWrites(rConn, HelloAck)
      /\ UNCHANGED backlog
      /\ LinkTypeOK
  BY DEF ReadHello, HasFrame, DeckReads, Inv, ReceiverBase, ReceiverShape
<1>2. up[rConn] = <<Hello>> /\ up'[rConn] = <<>>
  <2>1. up[rConn] = <<Hello>>
    BY <1>1 DEF Handshake, Live, Legal, DeckAt
  <2> QED BY <1>1, <2>1, Single DEF LinkTypeOK
<1>3. \A c \in Conn : c # rConn =>
         up'[c] = up[c] /\ down'[c] = down[c] /\ broken'[c] = broken[c]
  BY <1>1, DeckWritesDown DEF LinkTypeOK
<1>4. Legal(rConn)'
  BY <1>1, <1>2 DEF Legal, DeckAt, InFiles
<1>5. ASSUME rConn = sConn, SenderConnected
      PROVE  Answers' /\ Lockstep'
  <2>1. ~broken[sConn] => HelloSent
    BY <1>1, <1>2, <1>5, Single
       DEF Handshake, Lockstep, Together, Live, HelloRead, OfferSent, OfferRead,
           AcceptSent, InStep, DeckAt, InFiles
  <2>2. /\ sConn' = sConn /\ sPc' = sPc /\ sOffer' = sOffer
    BY DEF senderVars
  <2>3. CASE down'[sConn] = down[sConn] /\ broken'[sConn]
    <3>1. Answers'
      BY <2>3, AnswersStay
    <3> QED BY <2>2, <2>3, <3>1 DEF Lockstep, Together
  <2>4. CASE down'[sConn] = Append(down[sConn], HelloAck) /\ ~broken[sConn]
    <3>1. sPc = "ack" /\ down'[sConn] = <<HelloAck>>
      BY <2>1, <2>4, Single DEF HelloSent
    <3>2. HelloRead'
      BY <1>1, <1>2, <1>5, <2>2, <3>1 DEF HelloRead, DeckAt
    <3>3. Answers'
      BY <2>2, <3>1 DEF Answers, SenderTakes
    <3> QED BY <3>2, <3>3 DEF Lockstep
  <2> QED BY <1>1, <1>5, <2>3, <2>4, DeckWritesDown
<1>6. ~SenderConnected => Answers' /\ Lockstep'
  BY DEF Answers, Lockstep, Together, SenderConnected, senderVars
<1> QED BY <1>1, <1>3, <1>4, <1>5, <1>6, ServedHandshake

\* The offer is read.
LEMMA ReadOfferHandshake ==
    ASSUME Inv, Handshake, ReadOffer, UNCHANGED senderVars
    PROVE  Handshake'
<1>1. /\ rPc = "offer" /\ rPc' = "prepare" /\ rConn \in Conn /\ rConn' = rConn
      /\ up[rConn] # <<>> /\ up' = [up EXCEPT ![rConn] = Tail(@)]
      /\ rOffer' = [id |-> Head(up[rConn]).id, files |-> Head(up[rConn]).files]
      /\ UNCHANGED <<down, broken, backlog>>
      /\ LinkTypeOK
  BY DEF ReadOffer, HasFrame, ReadsFrame, DeckReads, Inv, ReceiverBase,
         ReceiverShape
<1>2. up'[rConn] = <<>>
  <2>1. PICK m : up[rConn] = <<m>>
    BY <1>1 DEF Handshake, Live, Legal, DeckAt
  <2> QED BY <1>1, <2>1, Single DEF LinkTypeOK
<1>3. \A c \in Conn : c # rConn =>
         up'[c] = up[c] /\ down'[c] = down[c] /\ broken'[c] = broken[c]
  BY <1>1 DEF LinkTypeOK
<1>4. Legal(rConn)'
  BY <1>1, <1>2 DEF Legal, DeckAt, InFiles
<1>5. Answers'
  BY <1>1, AnswersStay
<1>6. ASSUME rConn = sConn, Together'
      PROVE  OfferRead'
  <2>1. sConn' = sConn /\ sPc' = sPc /\ sOffer' = sOffer
    BY DEF senderVars
  <2>2. OfferSent
    BY <1>1, <1>6, <2>1
       DEF Handshake, Lockstep, Together, Live, SenderConnected, HelloSent,
           HelloRead, OfferRead, AcceptSent, InStep, DeckAt, InFiles
  <2>3. rOffer' = [id |-> sConn, files |-> sOffer]
    BY <1>1, <1>6, <2>2, Single DEF OfferSent, OfferFrame
  <2> QED BY <1>1, <1>2, <1>6, <2>1, <2>2, <2>3
          DEF OfferSent, OfferRead, DeckAt, Agreed
<1> QED BY <1>1, <1>3, <1>4, <1>5, <1>6, ServedHandshake DEF Lockstep

\* A file is planned.
LEMMA PrepareFileHandshake ==
    ASSUME Inv, Handshake, NEW f, PrepareFile(f), UNCHANGED senderVars
    PROVE  Handshake'
<1>1. /\ rPc = "prepare" /\ rPc' = "prepare" /\ rConn \in Conn
      /\ UNCHANGED <<rConn, rOffer, rIndex, up, down, broken, backlog>>
  BY DEF PrepareFile, Preparing, Inv, ReceiverBase, ReceiverShape, linkVars
<1>2. Legal(rConn)'
  BY <1>1 DEF Handshake, Live, Legal, DeckAt, InFiles
<1>3. Answers'
  BY <1>1, AnswersStay
<1>4. ASSUME rConn = sConn, Together'
      PROVE  OfferRead'
  <2>1. sConn' = sConn /\ sPc' = sPc /\ sOffer' = sOffer
    BY DEF senderVars
  <2>2. OfferRead
    BY <1>1, <1>4, <2>1
       DEF Handshake, Lockstep, Together, Live, SenderConnected, HelloSent,
           HelloRead, OfferSent, AcceptSent, InStep, DeckAt, InFiles
  <2> QED BY <1>1, <1>4, <2>1, <2>2 DEF OfferRead, DeckAt, Agreed
<1> QED BY <1>1, <1>2, <1>3, <1>4, ServedHandshake DEF Lockstep

\* The offer is accepted.
LEMMA SendAcceptHandshake ==
    ASSUME Inv, Handshake, SendAccept, UNCHANGED senderVars
    PROVE  Handshake'
<1> DEFINE accept == AcceptFrame(rOffer.id, Resumes)
<1>1. /\ rPc = "prepare" /\ rPc' = "start" /\ rConn \in Conn /\ rConn' = rConn
      /\ rIndex' = 1 /\ rOffer' = rOffer /\ plan' = plan
      /\ Len(plan) = Len(rOffer.files)
      /\ DeckWrites(rConn, accept)
      /\ UNCHANGED <<up, backlog>>
      /\ LinkTypeOK
  BY DEF SendAccept, Resumes, Inv, ReceiverBase, ReceiverShape
<1>2. up'[rConn] = <<>>
  BY <1>1 DEF Handshake, Live, Legal, DeckAt
<1>3. \A c \in Conn : c # rConn =>
         up'[c] = up[c] /\ down'[c] = down[c] /\ broken'[c] = broken[c]
  BY <1>1, DeckWritesDown
<1>4. Legal(rConn)'
  <2>1. DeckCursor' = At("start", 1, 0) /\ At("start", 1, 0) \in Cursor
    BY <1>1 DEF DeckCursor, At, Cursor
  <2>2. Run(rOffer'.files, Resumes', DeckCursor', up'[rConn], DeckCursor')
    BY <1>2, <2>1, RunStart
  <2> QED BY <1>1, <2>1, <2>2 DEF Legal, DeckAt, InFiles
<1>5. ASSUME rConn = sConn, SenderConnected
      PROVE  Answers' /\ Lockstep'
  <2>1. ~broken[sConn] => OfferRead
    BY <1>1, <1>2, <1>5
       DEF Handshake, Lockstep, Together, Live, HelloSent, HelloRead, OfferSent,
           AcceptSent, InStep, DeckAt, InFiles
  <2>2. /\ sConn' = sConn /\ sPc' = sPc /\ sOffer' = sOffer
    BY DEF senderVars
  <2>3. CASE down'[sConn] = down[sConn] /\ broken'[sConn]
    <3>1. Answers'
      BY <2>3, AnswersStay
    <3> QED BY <2>2, <2>3, <3>1 DEF Lockstep, Together
  <2>4. CASE down'[sConn] = Append(down[sConn], accept) /\ ~broken[sConn]
    <3>1. /\ sPc = "accept" /\ Agreed
          /\ down'[sConn] = <<AcceptFrame(sConn, Resumes)>>
      <4>1. sPc = "accept" /\ Agreed /\ down[sConn] = <<>>
        BY <2>1, <2>4 DEF OfferRead
      <4>2. rOffer.id = sConn
        BY <4>1 DEF Agreed
      <4> QED BY <2>4, <4>1, <4>2, Single
    <3>2. AcceptSent'
      BY <1>1, <1>2, <1>5, <2>2, <3>1 DEF AcceptSent, DeckAt, Agreed, Resumes
    <3>3. SenderTakes(AcceptFrame(sConn, Resumes))'
      <4>1. Resumes' = Resumes
        BY <1>1 DEF Resumes
      <4>2. Len(Resumes) = Len(sOffer)
        <5>1. plan \in Seq(Planned) /\ Len(plan) = Len(sOffer)
          BY <1>1, <3>1 DEF Agreed, Inv, ReceiverBase, ReceiverTypeOK
        <5>2. DOMAIN Resumes = 1 .. Len(plan) /\ Len(plan) \in Nat
              /\ \A i \in 1 .. Len(plan) : Resumes[i] \in Nat
          <6>1. DOMAIN plan = 1 .. Len(plan) /\ Len(plan) \in Nat
            BY <5>1, LenProperties
          <6>2. \A i \in 1 .. Len(plan) : plan[i].resume \in Nat
            <7>1. \A i \in 1 .. Len(plan) : plan[i] \in Planned
              BY <5>1, ElementOfSeq
            <7> QED BY <7>1 DEF Planned
          <6> QED BY <6>1, <6>2 DEF Resumes
        <5>3. Resumes \in Seq(Nat)
          BY <5>2, SeqDef DEF Resumes
        <5> QED BY <5>1, <5>2, <5>3, LenProperties
      <4> QED BY <2>2, <3>1, <4>1, <4>2 DEF SenderTakes, AcceptFrame
    <3>4. Answers'
      BY <1>1, <2>2, <3>1, <3>3 DEF Answers, Resumes
    <3> QED BY <3>2, <3>4 DEF Lockstep
  <2> QED BY <1>1, <1>5, <2>3, <2>4, DeckWritesDown
<1>6. ~SenderConnected => Answers' /\ Lockstep'
  BY DEF Answers, Lockstep, Together, SenderConnected, senderVars
<1> QED BY <1>1, <1>3, <1>4, <1>5, <1>6, ServedHandshake

\* A frame of a file is read, and leads to where the Deck is then.
LEMMA FileFrameRead ==
    ASSUME Inv, Handshake, HasFrame, ReadsFrame,
           rPc \in {"start", "data"}, rPc' \in {"data", "rename"},
           \A z : Moves(rOffer.files, Resumes, DeckCursor, Head(up[rConn]), z)
                     => z = DeckCursor',
           UNCHANGED <<rConn, rOffer, plan, senderVars>>
    PROVE  Handshake'
<1>1. /\ rConn \in Conn /\ up[rConn] # <<>>
      /\ up' = [up EXCEPT ![rConn] = Tail(@)]
      /\ UNCHANGED <<down, broken, backlog>>
      /\ LinkTypeOK /\ up[rConn] \in Seq(Frame)
      /\ Resumes' = Resumes
      /\ DeckAt(rConn) = rPc /\ DeckAt(rConn)' = rPc'
      /\ Live(rConn)
  BY DEF HasFrame, ReadsFrame, DeckReads, Inv, ReceiverBase, ReceiverShape,
         LinkTypeOK, Resumes, DeckAt, Live
<1>2. /\ up'[rConn] = Tail(up[rConn])
      /\ \A c \in Conn : c # rConn =>
            up'[c] = up[c] /\ down'[c] = down[c] /\ broken'[c] = broken[c]
  BY <1>1 DEF LinkTypeOK
<1>3. ASSUME NEW y, Run(rOffer.files, Resumes, DeckCursor, up[rConn], y)
      PROVE  Run(rOffer.files, Resumes, DeckCursor', up'[rConn], y)
  <2>1. PICK z \in Cursor :
           /\ Moves(rOffer.files, Resumes, DeckCursor, Head(up[rConn]), z)
           /\ Run(rOffer.files, Resumes, z, Tail(up[rConn]), y)
    BY <1>1, <1>3, RunTail
  <2> QED BY <1>2, <2>1
<1>4. Legal(rConn)'
  <2>1. PICK y \in Cursor : Run(rOffer.files, Resumes, DeckCursor, up[rConn], y)
    BY <1>1 DEF Handshake, Legal, InFiles
  <2>2. Run(rOffer'.files, Resumes', DeckCursor', up'[rConn], y)
    BY <1>1, <1>3, <2>1
  <2> QED BY <1>1, <2>2 DEF Legal
<1>5. Answers'
  BY <1>1, AnswersStay
<1>6. ASSUME rConn = sConn, Together'
      PROVE  InStep'
  <2>1. /\ sConn' = sConn /\ sPc' = sPc /\ sOffer' = sOffer
        /\ sOffsets' = sOffsets /\ PcCursor' = PcCursor
    BY DEF senderVars, PcCursor
  <2>2. InStep
    BY <1>1, <1>6, <2>1
       DEF Handshake, Lockstep, Together, SenderConnected, HelloSent,
           HelloRead, OfferSent, OfferRead, AcceptSent
  <2>3. Run(sOffer, sOffsets, DeckCursor', up'[sConn], PcCursor)
    BY <1>3, <1>6, <2>2 DEF InStep, Agreed
  <2> QED BY <1>1, <1>6, <2>1, <2>2, <2>3 DEF InStep, Agreed, InFiles
<1> QED BY <1>1, <1>2, <1>4, <1>5, <1>6, ServedHandshake DEF Lockstep

\* The frames of the current file.
LEMMA FileStepHandshake ==
    ASSUME Inv, Handshake, ReadFileStart \/ ReadFileChunk \/ ReadFileEnd,
           UNCHANGED senderVars
    PROVE  Handshake'
<1> DEFINE m == Head(up[rConn])
<1>1. CASE ReadFileStart
  <2>1. /\ rPc = "start" /\ rPc' = "data" /\ HasFrame /\ ReadsFrame
        /\ rPos' = plan[rIndex].resume /\ rIndex \in DOMAIN plan
        /\ UNCHANGED <<rConn, rOffer, plan, rIndex>>
    BY <1>1 DEF ReadFileStart, Inv, ReceiverBase, ReceiverShape
  <2>2. /\ DeckCursor = At("start", rIndex, 0)
        /\ DeckCursor' = At("data", rIndex, Resumes[rIndex])
    BY <2>1 DEF DeckCursor, Resumes
  <2>3. \A z : Moves(rOffer.files, Resumes, DeckCursor, m, z) => z = DeckCursor'
    BY <2>2 DEF Moves, At
  <2> QED BY <2>1, <2>3, FileFrameRead
<1>2. CASE ReadFileChunk
  <2>1. /\ rPc = "data" /\ rPc' = "data" /\ HasFrame /\ ReadsFrame
        /\ m.kind = "FileChunk"
        /\ rPos' = rPos + Len(m.bytes)
        /\ UNCHANGED <<rConn, rOffer, plan, rIndex>>
    BY <1>2 DEF ReadFileChunk
  <2>2. /\ DeckCursor = At("data", rIndex, rPos)
        /\ DeckCursor' = At("data", rIndex, rPos + Len(m.bytes))
    BY <2>1 DEF DeckCursor
  <2>3. \A z : Moves(rOffer.files, Resumes, DeckCursor, m, z) => z = DeckCursor'
    BY <2>1, <2>2 DEF Moves, At, FileEnd
  <2> QED BY <2>1, <2>3, FileFrameRead
<1>3. CASE ReadFileEnd
  <2>1. /\ rPc = "data" /\ rPc' = "rename" /\ HasFrame /\ ReadsFrame
        /\ m.kind = "FileEnd"
        /\ UNCHANGED <<rConn, rOffer, plan, rIndex>>
    BY <1>3 DEF ReadFileEnd
  <2>2. /\ DeckCursor = At("data", rIndex, rPos)
        /\ DeckCursor' = AfterFile(rOffer.files, rIndex)
    BY <2>1 DEF DeckCursor
  <2>3. \A z : Moves(rOffer.files, Resumes, DeckCursor, m, z) => z = DeckCursor'
    BY <2>1, <2>2 DEF Moves, At
  <2> QED BY <2>1, <2>3, FileFrameRead
<1> QED BY <1>1, <1>2, <1>3

\* A file is renamed: the Deck is where the end of the file has led it.
LEMMA RenameHandshake ==
    ASSUME Inv, Handshake, Rename, UNCHANGED senderVars
    PROVE  Handshake'
<1>1. /\ rPc = "rename" /\ rConn \in Conn
      /\ IF rIndex = Len(plan) THEN rPc' = "complete" /\ rIndex' = 0
                               ELSE rPc' = "start" /\ rIndex' = rIndex + 1
      /\ UNCHANGED <<up, down, broken, backlog, rConn, rOffer, plan>>
      /\ rIndex \in Nat /\ rIndex <= Len(plan) /\ Len(plan) \in Nat
      /\ Len(plan) = Len(rOffer.files)
      /\ Resumes' = Resumes
  <2>1. rIndex \in DOMAIN plan /\ plan \in Seq(Planned)
    BY DEF Rename, Inv, ReceiverBase, ReceiverShape, ReceiverTypeOK
  <2>2. DOMAIN plan = 1 .. Len(plan) /\ Len(plan) \in Nat
    BY <2>1, LenProperties
  <2>3. Len(plan) = Len(rOffer.files)
    BY DEF Rename, Inv, Fulfilled, Files
  <2> QED BY <2>1, <2>2, <2>3
          DEF Rename, linkVars, Resumes, Inv, ReceiverBase, ReceiverShape
<1>2. DeckCursor' = DeckCursor
  BY <1>1 DEF DeckCursor, AfterFile
<1>3. DeckAt(rConn) \in InFiles /\ DeckAt(rConn)' \in InFiles
      /\ DeckAt(rConn) # "finished" /\ DeckAt(rConn)' # "finished"
      /\ rPc' \notin {"off", "listening"}
  BY <1>1 DEF DeckAt, InFiles
<1>4. Legal(rConn)'
  <2>1. \E y \in Cursor : Run(rOffer.files, Resumes, DeckCursor, up[rConn], y)
    BY <1>1, <1>3 DEF Handshake, Legal, Live
  <2> QED BY <1>1, <1>2, <1>3, <2>1 DEF Legal, InFiles
<1>5. Answers'
  BY <1>1, AnswersStay
<1>6. ASSUME rConn = sConn, Together'
      PROVE  InStep'
  <2>1. /\ sConn' = sConn /\ sPc' = sPc /\ sOffer' = sOffer
        /\ sOffsets' = sOffsets /\ PcCursor' = PcCursor
    BY DEF senderVars, PcCursor
  <2>2. InStep
    BY <1>1, <1>6, <2>1
       DEF Handshake, Lockstep, Together, SenderConnected, HelloSent, Live,
           HelloRead, OfferSent, OfferRead, AcceptSent, DeckAt
  <2> QED BY <1>1, <1>2, <1>3, <1>6, <2>1, <2>2 DEF InStep, Agreed
<1> QED BY <1>1, <1>3, <1>4, <1>5, <1>6, ServedHandshake DEF Lockstep

\* The completion is read, and confirmed.
LEMMA ReadCompleteHandshake ==
    ASSUME Inv, Handshake, ReadComplete, UNCHANGED senderVars
    PROVE  Handshake'
<1> DEFINE confirm == Complete(Len(plan))
<1>1. /\ rPc = "complete" /\ rPc' = "finished" /\ rConn \in Conn
      /\ up[rConn] # <<>> /\ up' = [up EXCEPT ![rConn] = Tail(@)]
      /\ DeckWrites(rConn, confirm)
      /\ UNCHANGED <<backlog, rConn, rOffer, plan>>
      /\ LinkTypeOK /\ up[rConn] \in Seq(Frame)
      /\ Len(plan) = Len(rOffer.files)
      /\ Resumes' = Resumes
  BY DEF ReadComplete, HasFrame, DeckReads, Inv, ReceiverBase, ReceiverShape,
         LinkTypeOK, Fulfilled, Resumes
<1>2. /\ DeckCursor = At("complete", 0, 0) /\ DeckCursor' = At("finished", 0, 0)
      /\ DeckCursor' \in Cursor
  BY <1>1 DEF DeckCursor, At, Cursor
<1>3. ASSUME NEW y, Run(rOffer.files, Resumes, DeckCursor, up[rConn], y)
      PROVE  Tail(up[rConn]) = <<>> /\ y = DeckCursor'
  <2>1. PICK z \in Cursor :
           /\ Moves(rOffer.files, Resumes, DeckCursor, Head(up[rConn]), z)
           /\ Run(rOffer.files, Resumes, z, Tail(up[rConn]), y)
    BY <1>1, <1>3, RunTail
  <2>2. z = DeckCursor' /\ z.pc = "finished"
    BY <1>2, <2>1 DEF Moves, At
  <2>3. Tail(up[rConn]) \in Seq(Frame)
    BY <1>1, HeadTailProperties
  <2> QED BY <2>1, <2>2, <2>3, RunFinished
<1>4. up'[rConn] = <<>>
  <2>1. PICK y \in Cursor : Run(rOffer.files, Resumes, DeckCursor, up[rConn], y)
    BY <1>1 DEF Handshake, Legal, InFiles, Live, DeckAt
  <2>2. Tail(up[rConn]) = <<>>
    BY <1>3, <2>1
  <2> QED BY <1>1, <2>2 DEF LinkTypeOK
<1>5. \A c \in Conn : c # rConn =>
         up'[c] = up[c] /\ down'[c] = down[c] /\ broken'[c] = broken[c]
  BY <1>1, DeckWritesDown DEF LinkTypeOK
<1>6. Legal(rConn)'
  <2>1. Run(rOffer'.files, Resumes', DeckCursor', up'[rConn], DeckCursor')
    BY <1>2, <1>4, RunStart
  <2> QED BY <1>1, <1>2, <2>1 DEF Legal, InFiles, DeckAt
<1>7. ASSUME rConn = sConn, SenderConnected
      PROVE  Answers' /\ Lockstep'
  <2>1. ~broken[sConn] => InStep
    BY <1>1, <1>7
       DEF Handshake, Lockstep, Together, Live, HelloSent, HelloRead, OfferSent,
           OfferRead, AcceptSent, DeckAt
  <2>2. /\ sConn' = sConn /\ sPc' = sPc /\ sOffer' = sOffer
        /\ sOffsets' = sOffsets /\ PcCursor' = PcCursor
    BY DEF senderVars, PcCursor
  <2>3. CASE down'[sConn] = down[sConn] /\ broken'[sConn]
    <3>1. Answers'
      BY <2>3, AnswersStay
    <3> QED BY <2>2, <2>3, <3>1 DEF Lockstep, Together
  <2>4. CASE down'[sConn] = Append(down[sConn], confirm) /\ ~broken[sConn]
    <3>1. /\ Agreed /\ sOffsets = Resumes
          /\ down[sConn] = <<>>
          /\ Run(sOffer, sOffsets, DeckCursor, up[sConn], PcCursor)
          /\ sPc \in {"open", "chunks", "complete", "confirm"}
      BY <1>1, <1>7, <2>1, <2>4 DEF InStep, DeckAt
    <3>2. rOffer.files = sOffer
      BY <3>1 DEF Agreed
    <3>3. PcCursor = DeckCursor'
      BY <1>3, <1>7, <3>1, <3>2
    <3>4. sPc = "confirm"
      BY <1>2, <3>1, <3>3 DEF PcCursor, At
    <3>5. down'[sConn] = <<Complete(Len(sOffer))>>
      BY <1>1, <2>4, <3>1, <3>2, Single
    <3>6. SenderTakes(Complete(Len(sOffer)))'
      BY <2>2, <3>4 DEF SenderTakes
    <3>7. Answers'
      BY <2>2, <3>4, <3>5, <3>6 DEF Answers
    <3>8. Run(sOffer, sOffsets, DeckCursor', up'[sConn], PcCursor)
      BY <1>2, <1>4, <1>7, <3>3, RunStart
    <3>9. InStep'
      BY <1>1, <1>7, <2>2, <3>1, <3>4, <3>5, <3>8
         DEF InStep, DeckAt, InFiles, Agreed
    <3> QED BY <3>7, <3>9 DEF Lockstep
  <2> QED BY <1>1, <1>7, <2>3, <2>4, DeckWritesDown
<1>8. ~SenderConnected => Answers' /\ Lockstep'
  BY DEF Answers, Lockstep, Together, SenderConnected, senderVars
<1> QED BY <1>1, <1>5, <1>6, <1>7, <1>8, ServedHandshake

\* Every step of the Deck.
LEMMA DeckStepHandshake ==
    ASSUME Inv, Handshake, ReceiverNext, UNCHANGED senderVars
    PROVE  Handshake'
<1>1. rPc \notin {"off", "listening"} => rConn \in Conn
  BY DEF Inv, ReceiverBase, ReceiverShape
<1>2. CASE \/ NoFreeName \/ StalePartial \/ HashMismatch \/ Finish \/ Reject
           \/ ReceiverLinkError \/ ReceiverTimeout \/ DiskFails
  <2>1. rPc \notin {"off", "listening"}
    BY <1>2 DEF NoFreeName, StalePartial, HashMismatch, Finish, Reject,
                ReceiverLinkError, ReceiverTimeout, DiskFails, Preparing,
                ReceiverReads, ReceiverWaits
  <2>2. \E unread : Leave(unread)
    BY <1>2 DEF NoFreeName, StalePartial, HashMismatch, Finish, Reject,
                ReceiverLinkError, ReceiverTimeout, DiskFails
  <2> QED BY <1>1, <2>1, <2>2, LeaveHandshake
<1>3. CASE Crash \/ PowerLoss
  BY <1>3, GoneHandshake DEF Crash, PowerLoss
<1>4. CASE Flush \/ \E p \in Place : LocalWrite(p)
  BY <1>4, HandshakeStays DEF Flush, LocalWrite, linkVars, senderVars
<1>5. CASE Listen
  <2>1. /\ rPc = "off" /\ rPc' = "listening" /\ rConn = NoConn
        /\ UNCHANGED <<rConn, backlog, up, down, broken>>
    BY <1>5 DEF Listen, Handshake, Queued
  <2>2. Queued'
    BY <2>1 DEF Handshake, Queued
  <2>3. \A c \in Conn : Live(c)' => Legal(c)'
    BY <2>1, LegalElsewhere DEF Conn, NoConn
  <2>4. Answers'
    BY <2>1, AnswersStay
  <2>5. Lockstep'
    <3>1. SenderConnected => sConn \in Conn
      BY DEF Inv, SenderInv, SenderShape
    <3>2. CASE SenderConnected
      BY <2>1, <3>1, <3>2, LockstepElsewhere DEF Conn, NoConn
    <3>3. CASE ~SenderConnected
      BY <3>3 DEF Lockstep, Together, SenderConnected, senderVars
    <3> QED BY <3>2, <3>3
  <2> QED BY <2>2, <2>3, <2>4, <2>5 DEF Handshake
<1> QED BY <1>2, <1>3, <1>4, <1>5, AcceptHandshake, ReadHelloHandshake,
           ReadOfferHandshake, PrepareFileHandshake, SendAcceptHandshake,
           FileStepHandshake, RenameHandshake, ReadCompleteHandshake
        DEF ReceiverNext, ReceiverStep

\* The network loses frames from the end, and the connection with them.
LEMMA DropHandshake ==
    ASSUME Inv, Handshake, NEW d \in Conn, Drop(d)
    PROVE  Handshake'
<1>1. /\ LinkTypeOK /\ (SenderConnected => sConn \in Conn)
      /\ UNCHANGED <<senderVars, receiverVars, backlog>>
      /\ broken' = [broken EXCEPT ![d] = TRUE]
  BY DEF Inv, SenderInv, SenderShape, Drop, Disconnect
<1>2. PICK k \in 0 .. Len(up[d]) : up' = [up EXCEPT ![d] = SubSeq(@, 1, k)]
  BY DEF Drop, Disconnect
<1>3. PICK n \in 0 .. Len(down[d]) : down' = [down EXCEPT ![d] = SubSeq(@, 1, n)]
  BY DEF Drop, Disconnect
<1>4. /\ up[d] \in Seq(Frame) /\ down[d] \in Seq(Frame)
      /\ up'[d] = SubSeq(up[d], 1, k) /\ down'[d] = SubSeq(down[d], 1, n)
      /\ \A c \in Conn : c # d =>
            up'[c] = up[c] /\ down'[c] = down[c] /\ broken'[c] = broken[c]
      /\ broken'[d]
  BY <1>1, <1>2, <1>3 DEF LinkTypeOK
<1>5. /\ \A c : DeckAt(c)' = DeckAt(c) /\ (Live(c)' <=> Live(c))
      /\ DeckCursor' = DeckCursor /\ Resumes' = Resumes /\ PcCursor' = PcCursor
      /\ UNCHANGED <<rPc, rConn, rOffer, rIndex>>
      /\ UNCHANGED <<sPc, sConn, sOffer, sOffsets>>
  BY <1>1 DEF senderVars, receiverVars, DeckAt, Live, DeckCursor, Resumes,
              PcCursor
<1>6. Queued'
  BY <1>1, <1>5 DEF Handshake, Queued
<1>7. ASSUME NEW c \in Conn, Live(c)'
      PROVE  Legal(c)'
  <2>1. Legal(c)
    BY <1>5, <1>7 DEF Handshake
  <2>2. CASE c # d
    BY <1>1, <1>4, <2>1, <2>2, LegalStays
  <2>3. CASE c = d
    <3>1. \A m : up[c] \in {<<>>, <<m>>} => up'[c] \in {<<>>, <<m>>}
      BY <1>4, <2>3, SinglePrefix
    <3>2. up[c] = <<>> => up'[c] = <<>>
      BY <1>4, <2>3, EmptyPrefix
    <3>3. \A y : Run(rOffer.files, Resumes, DeckCursor, up[c], y) =>
             \E z \in Cursor : Run(rOffer.files, Resumes, DeckCursor, up'[c], z)
      BY <1>4, <2>3, RunPrefix
    <3>4. DeckAt(c) = "hello" => up'[c] \in {<<>>, <<Hello>>}
      BY <2>1, <3>1 DEF Legal
    <3>5. DeckAt(c) = "offer" =>
             up'[c] = <<>> \/ \E m \in Frame : up'[c] = <<m>> /\ TakesOffer(m)
      <4>1. SUFFICES ASSUME DeckAt(c) = "offer", up[c] # <<>>
                     PROVE  \/ up'[c] = <<>>
                            \/ \E m \in Frame : up'[c] = <<m>> /\ TakesOffer(m)
        BY <3>2
      <4>2. PICK m \in Frame : up[c] = <<m>> /\ TakesOffer(m)
        BY <2>1, <4>1 DEF Legal
      <4>3. up'[c] \in {<<>>, <<m>>}
        BY <3>1, <4>2
      <4> QED BY <4>2, <4>3
    <3>6. DeckAt(c) = "prepare" => up'[c] = <<>>
      BY <2>1, <3>2 DEF Legal
    <3>7. DeckAt(c) \in InFiles => \E z \in Cursor :
             Run(rOffer'.files, Resumes', DeckCursor', up'[c], z)
      BY <1>5, <2>1, <3>3 DEF Legal
    <3> QED BY <1>5, <3>4, <3>5, <3>6, <3>7 DEF Legal
  <2> QED BY <2>2, <2>3
<1>8. Answers'
  <2>1. ASSUME SenderConnected
        PROVE  /\ down[sConn] = <<>> => down'[sConn] = <<>>
               /\ \A m : down[sConn] = <<m>> => down'[sConn] \in {<<>>, <<m>>}
    BY <1>1, <1>4, <2>1, EmptyPrefix, SinglePrefix
  <2>2. \A m : SenderTakes(m)' <=> SenderTakes(m)
    BY <1>5 DEF SenderTakes
  <2>3. CASE sPc \in {"ack", "accept", "confirm"} /\ down[sConn] = <<>>
    BY <1>5, <2>1, <2>3 DEF Answers, SenderConnected
  <2>4. CASE sPc \in {"ack", "accept", "confirm"} /\ down[sConn] # <<>>
    <3>1. PICK m : down[sConn] = <<m>> /\ SenderTakes(m)
      BY <2>4 DEF Handshake, Answers
    <3>2. down'[sConn] = <<>> \/ (down'[sConn] = <<m>> /\ SenderTakes(m)')
      BY <2>1, <2>2, <2>4, <3>1 DEF SenderConnected
    <3>3. sPc' \notin {"open", "chunks", "complete"} /\ sConn' = sConn
      BY <1>5, <2>4
    <3> QED BY <3>2, <3>3 DEF Answers
  <2>5. CASE sPc \notin {"ack", "accept", "confirm"}
    BY <1>5, <2>1, <2>5 DEF Handshake, Answers, SenderConnected
  <2> QED BY <2>3, <2>4, <2>5
<1>9. ASSUME Together'
      PROVE  Together /\ sConn # d /\ sConn \in Conn
  BY <1>1, <1>4, <1>5, <1>9 DEF Together, SenderConnected
<1>10. Lockstep'
  BY <1>4, <1>5, <1>9 DEF Handshake, Lockstep, HelloSent, HelloRead, OfferSent,
              OfferRead, AcceptSent, InStep, Agreed
<1> QED BY <1>6, <1>7, <1>8, <1>10 DEF Handshake

-----------------------------------------------------------------------------
\* The network drops a connection.
LEMMA DisconnectType ==
    ASSUME LinkTypeOK, NEW c \in Conn, Disconnect(c)
    PROVE  LinkTypeOK'
<1>1. \A s \in Seq(Frame) : \A k \in 0 .. Len(s) : SubSeq(s, 1, k) \in Seq(Frame)
  BY SubSeqProperties, LenProperties
<1>2. up' \in [Conn -> Seq(Frame)]
  BY <1>1 DEF LinkTypeOK, Disconnect
<1>3. down' \in [Conn -> Seq(Frame)]
  BY <1>1 DEF LinkTypeOK, Disconnect
<1> QED BY <1>2, <1>3, LinkAssumption DEF LinkTypeOK, Disconnect, Fault

\* The invariant holds at the start.
LEMMA InitInv == Init => Inv
<1>1. LinkInit => LinkTypeOK
  BY LinkAssumption DEF LinkInit, LinkTypeOK
<1>2. ReceiverInit => ReceiverBase /\ Reserved /\ Sound
  <2>1. ReceiverInit => Reserved
    BY DEF ReceiverInit, Reserved
  <2>2. ReceiverInit => Sound
    BY ReceiverInit_Inv, KeptInit, Zenon DEF Sound
  <2> QED BY <2>1, <2>2, ReceiverInit_Base
<1>3. SenderInit => SenderInv
  BY SenderInit_Inv
<1>4. ReceiverInit => Fulfilled
  <2>1. ReceiverInit => plan = <<>> /\ rOffer.files = <<>> /\ rPc = "listening"
    BY DEF ReceiverInit, NoOffer
  <2> QED BY <2>1 DEF Fulfilled, Files
<1>5. Init => Agreement
  <2>1. Init => /\ \A c \in Conn : Range(down[c]) = {} /\ c # rConn
                /\ Range(backlog) = {}
                /\ ~SenderConnected /\ sPc # "done"
    BY EmptyRange DEF Init, LinkInit, SenderInit, ReceiverInit, SenderConnected,
                      Conn, NoConn
  <2> QED BY <2>1 DEF Agreement, Fresh, SameOffer, Confirmed
<1> QED BY <1>1, <1>2, <1>3, <1>4, <1>5 DEF Init, Inv

\* A receiver that does nothing has done the same of its offer.
LEMMA FulfilledUnchanged ==
    ASSUME Fulfilled, UNCHANGED <<receiverVars, diskVars>>
    PROVE  Fulfilled'
  BY DEF receiverVars, diskVars, Fulfilled, Safe

\* Nor has it stored a file at the name of a partial file.
LEMMA SoundUnchanged ==
    ASSUME Sound, UNCHANGED <<receiverVars, diskVars, foreign>>
    PROVE  Sound'
<1>1. ReceiverInv => ReceiverInv'
  BY ReceiverUnchanged
<1>2. Kept => Kept'
  BY KeptUnchanged
<1>3. UNCHANGED aliased
  BY DEF diskVars
<1> QED BY <1>1, <1>2, <1>3, Zenon DEF Sound

\* What the PC's user has been told.
Told == IF sPc = "done" THEN {sOffer[i] : i \in DOMAIN sOffer} ELSE {}

\* What is safe is delivered.
LEMMA SafeDelivered ==
    ASSUME NEW f, Safe(f)'
    PROVE  Promise!Delivered(f)'
<1>1. CASE \E p \in DOMAIN inbox' : inbox'[p].by = {f}
  <2>1. PICK p \in DOMAIN inbox' : inbox'[p].by = {f}
    BY <1>1
  <2>2. p \in DOMAIN InboxView' /\ f \in InboxView'[p].by
    BY <2>1 DEF InboxView
  <2> QED BY <2>2 DEF Promise!Delivered, Promise!Stored
<1>2. CASE /\ f \in DOMAIN partials'
           /\ partials'[f] = [data |-> f.hash, synced |-> TRUE]
           /\ f.size = Len(f.hash)
  <2>1. f \in DOMAIN HeldView' /\ HeldView'[f] = f.hash /\ f.size = Len(f.hash)
    BY <1>2 DEF HeldView
  <2> QED BY <2>1 DEF Promise!Delivered, Promise!HeldWhole
<1> QED BY <1>1, <1>2 DEF Safe

\* The user is told only when the PC reads the confirmation.
LEMMA ToldByThePc ==
    ASSUME SenderNext, SenderInv
    PROVE  Told' = Told \/ (Told = {} /\ sPc' = "done" /\ sPc = "confirm")
  BY DEF SenderNext, SenderStep, Send, StatSource, HashSource, Connect,
         ConnectRefused, RecvHelloAck, RecvAccept, OpenFile, SendChunk,
         SourceChanged, SendFileEnd, SendComplete, RecvComplete, SenderReject,
         SenderLinkError, SenderTimeout, SourceUnreadable, Quit, EditSource,
         SenderGivesUp, SenderFails, SenderHasFrame, SenderConnected,
         SenderWaits, Told

\* Every step of the PC is a step of Delivery, or none.
LEMMA PcStepPromise ==
    ASSUME Inv, Inv', SenderNext, UNCHANGED <<receiverVars, diskVars, foreign>>,
           ~aliased'
    PROVE  [Promise!Next]_(Promise!vars)
<1>1. UNCHANGED <<InboxView, HeldView, AgreedView>>
  BY DEF receiverVars, diskVars, InboxView, HeldView, AgreedView
<1>2. CASE Told' = Told
  BY <1>1, <1>2 DEF Promise!vars, Told
<1>3. CASE Told = {} /\ sPc' = "done" /\ sPc = "confirm"
  <2>1. AllSafe'
    BY <1>3 DEF Inv, Agreement, Confirmed
  <2>2. DOMAIN sOffer' # {}
    <3>1. DOMAIN sOffer = DOMAIN Queue /\ 1 \in DOMAIN Queue
      BY <1>3, SenderAssumption, LenProperties, EmptySeq
         DEF Inv, SenderInv, SenderShape
    <3>2. sOffer' = sOffer
      BY <1>3 DEF SenderNext, SenderStep, Send, StatSource, HashSource, Connect,
         ConnectRefused, RecvHelloAck, RecvAccept, OpenFile, SendChunk,
         SourceChanged, SendFileEnd, SendComplete, RecvComplete, SenderReject,
         SenderLinkError, SenderTimeout, SourceUnreadable, Quit, EditSource,
         SenderGivesUp, SenderFails
    <3> QED BY <3>1, <3>2
  <2>3. Told' # {}
    BY <1>3, <2>2 DEF Told
  <2>4. ASSUME NEW f \in Told'
        PROVE  Promise!Delivered(f)
    <3>1. PICK i \in DOMAIN sOffer' : f = sOffer'[i]
      BY <1>3, <2>4 DEF Told
    <3>2. Safe(f)'
      BY <2>1, <3>1 DEF AllSafe, Safe
    <3>3. Promise!Delivered(f)'
      BY <3>2, SafeDelivered
    <3> QED BY <1>1, <3>3 DEF Promise!Delivered, Promise!Stored, Promise!HeldWhole
  <2>5. Promise!Confirm
    BY <1>1, <1>3, <2>3, <2>4 DEF Promise!Confirm, Told
  <2> QED BY <2>5 DEF Promise!Next
<1> QED BY <1>2, <1>3, ToldByThePc DEF Inv

\* Every step of the Deck is one, too.
LEMMA DeckStepPromise ==
    ASSUME Inv, Inv', ReceiverNext, UNCHANGED senderVars, ~aliased'
    PROVE  [Promise!Next]_(Promise!vars)
<1>1. PromiseStep
  <2>1. ReceiverInv /\ Kept /\ LinkTypeOK
    BY AliasedStays DEF Inv, Sound, ReceiverBase
  <2> QED BY <2>1, ReceiverNext_Promise
<1>2. Told' = Told
  BY DEF senderVars, Told
<1>3. ASSUME NEW f \in Told
      PROVE  Promise!Delivered(f)'
  <2>1. PICK i \in DOMAIN sOffer' : f = sOffer'[i]
    BY <1>2, <1>3 DEF Told
  <2>2. AllSafe'
    BY <1>3 DEF Inv, Agreement, Confirmed, Told, senderVars
  <2>3. Safe(f)'
    BY <2>1, <2>2 DEF AllSafe, Safe
  <2> QED BY <2>3, SafeDelivered
<1>4. CASE UNCHANGED Alone!vars
  BY <1>2, <1>4 DEF Alone!vars, Promise!vars, Told
<1>5. CASE Alone!PowerLoss
  <2>1. Promise!PowerLoss
    BY <1>2, <1>3, <1>5
       DEF Alone!PowerLoss, Promise!PowerLoss, Alone!Delivered,
           Promise!Delivered, Alone!Stored, Promise!Stored, Alone!HeldWhole,
           Promise!HeldWhole, Told
  <2> QED BY <2>1 DEF Promise!Next
<1>6. CASE Alone!Next /\ ~Alone!PowerLoss
  BY <1>2, <1>6
     DEF Alone!Next, Promise!Next, Alone!Agree, Promise!Agree,
         Alone!Abandon, Promise!Abandon, Alone!Receive, Promise!Receive,
         Alone!Discard, Promise!Discard, Alone!Store, Promise!Store,
         Alone!LocalWrite, Promise!LocalWrite, Alone!Confirm, Alone!HeldWhole,
         Promise!HeldWhole, Alone!With, Promise!With, Alone!CanBecome,
         Promise!CanBecome, Alone!FileOffer, Promise!FileOffer,
         Alone!Content, Promise!Content, Alone!Restrict, Promise!Restrict, Told
<1> QED BY <1>1, <1>4, <1>5, <1>6 DEF PromiseStep

\* Every step keeps the invariant, and what the receiver holds on its disk.
LEMMA NextInv ==
    ASSUME Inv, [Next]_vars
    PROVE  /\ Inv'
           /\ aliased' \/ [Promise!Next]_(Promise!vars)
           /\ \/ KeepsBothStep /\ ResumeKeptStep
              \/ UNCHANGED <<receiverVars, diskVars, foreign>>
<1>1. CASE PcStep
  <2>1. SenderNext /\ UNCHANGED <<receiverVars, diskVars, foreign>>
    BY <1>1 DEF PcStep
  <2>2. Inv'
    BY <2>1, SenderNext_Inv, ReceiverUnchanged, SoundUnchanged,
       FulfilledUnchanged, PcStepAgreement DEF Inv
  <2> QED BY <2>1, <2>2, PcStepPromise
<1>2. CASE DeckStep
  <2>1. ReceiverNext /\ UNCHANGED senderVars
    BY <1>2 DEF DeckStep
  <2>2. LinkTypeOK' /\ SenderInv' /\ ReceiverBase' /\ Reserved' /\ Sound'
    BY <2>1, SenderUnchanged, ReceiverNext_Base, ReceiverNext_Link,
       ReceiverNext_Reserved, ReceiverNext_Sound DEF Inv
  <2>3. Inv'
    BY <2>1, <2>2, ReceiverNext_Fulfilled, DeckStepAgreement DEF Inv
  <2>4. KeepsBothStep
    BY <2>1, ReceiverNext_KeepsBoth DEF Inv
  <2>5. ASSUME ~aliased'
        PROVE  ResumeKeptStep
    <3>1. ReceiverInv
      BY <2>1, <2>5, AliasedStays DEF Inv, Sound, ReceiverBase
    <3> QED BY <2>1, <2>5, <3>1, ReceiverNext_ResumeKept DEF Inv
  <2>6. ASSUME aliased'
        PROVE  ResumeKeptStep
    BY <2>6, Zenon DEF ResumeKeptStep
  <2>7. ResumeKeptStep
    BY <2>5, <2>6, Zenon
  <2> QED BY <2>1, <2>3, <2>4, <2>7, DeckStepPromise
<1>3. ASSUME UNCHANGED <<senderVars, receiverVars, diskVars, foreign>>
      PROVE  /\ SenderInv' /\ ReceiverBase' /\ Reserved' /\ Sound' /\ Fulfilled'
             /\ [Promise!Next]_(Promise!vars)
  <2>1. SenderInv' /\ ReceiverBase' /\ Reserved' /\ Sound' /\ Fulfilled'
    BY <1>3, SenderUnchanged, ReceiverUnchanged, SoundUnchanged,
       FulfilledUnchanged DEF Inv
  <2>2. UNCHANGED Promise!vars
    BY <1>3 DEF Promise!vars, InboxView, HeldView, AgreedView, senderVars,
                receiverVars, diskVars
  <2> QED BY <2>1, <2>2
<1>4. ASSUME NEW c \in Conn, Drop(c)
      PROVE  Inv' /\ [Promise!Next]_(Promise!vars)
                  /\ UNCHANGED <<receiverVars, diskVars, foreign>>
  <2>1. Disconnect(c) /\ UNCHANGED <<senderVars, receiverVars, diskVars, foreign>>
    BY <1>4 DEF Drop
  <2> QED BY <1>3, <1>4, <2>1, DisconnectType, DropAgreement DEF Inv
<1>5. CASE UNCHANGED vars
  <2>1. UNCHANGED <<linkVars, senderVars>>
        /\ UNCHANGED <<receiverVars, diskVars, foreign>>
    BY <1>5 DEF vars
  <2>2. LinkTypeOK' /\ Agreement'
    BY <2>1 DEF Inv, linkVars, LinkTypeOK, Agreement, Fresh, SameOffer,
                Confirmed, AllSafe, Safe, SenderConnected, senderVars,
                receiverVars, diskVars
  <2> QED BY <1>3, <2>1, <2>2 DEF Inv
<1> QED BY <1>1, <1>2, <1>4, <1>5 DEF Next

-----------------------------------------------------------------------------
\* The invariant holds in every reachable state.
THEOREM Invariance == Spec => []Inv
<1>1. Inv /\ [Next]_vars => Inv'
  BY NextInv
<1> QED BY InitInv, <1>1, PTL DEF Spec

\* Type correctness of the whole system: the frames send_paths writes are the
\* frames receive_stream can decode, and the other way round.
THEOREM TypeCorrect == Spec => []TypeOK
<1>1. Inv => TypeOK
  BY DEF Inv, TypeOK, SenderInv, ReceiverBase
<1> QED BY Invariance, <1>1, PTL

\* The handshake is kept in every reachable state.
THEOREM HandshakeInvariance == Spec => [](Inv /\ Handshake)
<1>1. Init => Handshake
  <2>1. ASSUME Init
        PROVE  Handshake
    <3>1. /\ backlog = <<>> /\ rConn = NoConn /\ rPc = "listening"
          /\ sPc = "idle"
      BY <2>1 DEF Init, LinkInit, ReceiverInit, SenderInit
    <3>2. Queued
      BY <3>1, EmptyRange DEF Queued
    <3>3. \A c \in Conn : ~Live(c)
      BY <3>1, EmptyRange DEF Live, Conn, NoConn
    <3> QED BY <3>1, <3>2, <3>3
            DEF Handshake, Answers, Lockstep, Together, SenderConnected
  <2> QED BY <2>1
<1>2. Inv /\ Handshake /\ [Next]_vars => Inv' /\ Handshake'
  <2> SUFFICES ASSUME Inv, Handshake, [Next]_vars PROVE Inv' /\ Handshake'
    OBVIOUS
  <2>1. CASE PcStep
    BY <2>1, NextInv, PcStepHandshake DEF PcStep
  <2>2. CASE DeckStep
    BY <2>2, NextInv, DeckStepHandshake DEF DeckStep
  <2>3. ASSUME NEW c \in Conn, Drop(c)
        PROVE  Handshake'
    BY <2>3, DropHandshake
  <2>4. CASE UNCHANGED vars
    BY <2>4, NextInv, HandshakeStays DEF vars, linkVars, senderVars
  <2> QED BY <2>1, <2>2, <2>3, <2>4, NextInv DEF Next
<1> QED BY InitInv, <1>1, <1>2, PTL DEF Spec

\* The two programs never refuse each other's frames, on a connection that is
\* dropped, given up or left over from an earlier attempt as on a whole one:
\* what one of them has yet to read is what it takes where it is.
THEOREM PeersAgreeTheorem == Spec => []PeersAgree
<1>1. ASSUME Inv, Handshake
      PROVE  PeersAgree
  <2>1. ASSUME SenderHasFrame
        PROVE  SenderTakes(Head(down[sConn]))
    <3>1. PICK m : down[sConn] = <<m>> /\ SenderTakes(m)
      BY <1>1, <2>1 DEF Handshake, Answers, SenderHasFrame
    <3> QED BY <3>1, Single
  <2>2. ASSUME ReceiverReads, up[rConn] # <<>>
        PROVE  Takes(Head(up[rConn]))
    <3> DEFINE m == Head(up[rConn])
    <3>1. /\ rConn \in Conn /\ up[rConn] \in Seq(Frame) /\ Legal(rConn)
          /\ DeckAt(rConn) = rPc
      BY <1>1, <2>2 DEF ReceiverReads, Inv, LinkTypeOK, ReceiverBase,
                        ReceiverShape, Handshake, Live, DeckAt
    <3>2. CASE rPc = "hello"
      BY <2>2, <3>1, <3>2, Single DEF Legal, Takes
    <3>3. CASE rPc = "offer"
      <4>1. PICK x \in Frame : up[rConn] = <<x>> /\ TakesOffer(x)
        BY <2>2, <3>1, <3>3 DEF Legal
      <4> QED BY <3>3, <4>1, Single DEF Takes
    <3>4. CASE rPc \in {"start", "data", "complete"}
      <4>1. PICK y : Run(rOffer.files, Resumes, DeckCursor, up[rConn], y)
        BY <3>1, <3>4 DEF Legal, InFiles
      <4>2. PICK z \in Cursor : Moves(rOffer.files, Resumes, DeckCursor, m, z)
        BY <2>2, <3>1, <4>1, RunTail
      <4>3. /\ Len(plan) = Len(rOffer.files)
            /\ rPc \in {"start", "data"} =>
                  /\ rIndex \in DOMAIN plan
                  /\ CurrentFile = rOffer.files[rIndex]
                  /\ CurrentFile.size \in Nat
        <5>1. /\ rPc \in {"start", "data"} => rIndex \in DOMAIN plan
              /\ plan \in Seq(Planned)
          BY <1>1 DEF Inv, ReceiverBase, ReceiverShape, ReceiverTypeOK
        <5>2. \A i \in DOMAIN plan : plan[i] \in Planned
          BY <5>1, ElementOfSeq, LenProperties
        <5>3. \A i \in DOMAIN plan : plan[i].file.size \in Nat
          BY <5>2 DEF Planned, FileOffer
        <5> QED BY <1>1, <3>4, <5>1, <5>3 DEF Inv, Fulfilled, Files, CurrentFile
      <4>4. CASE rPc = "start"
        <5>1. m = FileStart(rIndex, plan[rIndex].resume)
          BY <4>2, <4>3, <4>4 DEF Moves, DeckCursor, At, Resumes
        <5> QED BY <4>4, <5>1 DEF Takes, TakesFileStart, FileStart
      <4>5. CASE rPc = "data"
        <5>1. DeckCursor.pc = "data" /\ DeckCursor.index = rIndex
              /\ DeckCursor.pos = rPos
          BY <4>5 DEF DeckCursor, At
        <5>2. CASE /\ m.kind = "FileChunk" /\ m.index = rIndex /\ m.bytes # <<>>
                   /\ rPos + Len(m.bytes) <= CurrentFile.size
          <6>1. m \in Frame
            BY <2>2, <3>1, HeadTailProperties
          <6>2. m.bytes \in Seq(Block) /\ Len(m.bytes) \in Nat
            BY <5>2, <6>1, FrameFields, LenProperties DEF Content
          <6>3. Len(m.bytes) > 0
            BY <5>2, <6>2, EmptySeq
          <6>4. rPos < CurrentFile.size /\ rPos \in Nat
            BY <1>1, <4>3, <4>5, <5>2, <6>2, <6>3
               DEF Inv, ReceiverBase, ReceiverTypeOK
          <6> QED BY <4>5, <5>2, <6>4 DEF Takes, TakesFileChunk
        <5>3. CASE /\ m = FileEnd(rIndex, CurrentFile.hash)
                   /\ rPos = CurrentFile.size
          BY <4>3, <4>5, <5>3 DEF Takes, TakesFileEnd, FileEnd
        <5> QED BY <4>2, <4>3, <4>5, <5>1, <5>2, <5>3 DEF Moves
      <4>6. CASE rPc = "complete"
        <5>1. m = Complete(Len(plan))
          BY <4>2, <4>3, <4>6 DEF Moves, DeckCursor, At
        <5> QED BY <4>6, <5>1 DEF Takes
      <4> QED BY <3>4, <4>4, <4>5, <4>6
    <3> QED BY <2>2, <3>2, <3>3, <3>4 DEF ReceiverReads
  <2> QED BY <2>1, <2>2 DEF PeersAgree
<1> QED BY HandshakeInvariance, <1>1, PTL

\* Neither side of a live connection waits for a frame that the other side,
\* waiting itself, will not send: the protocol cannot deadlock.
THEOREM NeverBothWaitingTheorem == Spec => []NeverBothWaiting
<1>1. ASSUME Inv, Handshake
      PROVE  NeverBothWaiting
  <2> SUFFICES ASSUME SenderWaits, ReceiverWaits, rConn = sConn, ~broken[sConn]
               PROVE  FALSE
    BY DEF NeverBothWaiting
  <2>1. /\ up[sConn] = <<>> /\ down[sConn] = <<>>
        /\ sPc \in {"ack", "accept", "confirm"}
        /\ rPc \in {"hello", "offer", "start", "data", "complete"}
        /\ DeckAt(sConn) = rPc
        /\ Together
    BY DEF SenderWaits, ReceiverWaits, ReceiverReads, DeckAt, Together, Live,
           SenderConnected
  <2>2. InStep
    BY <1>1, <2>1, Single
       DEF Handshake, Lockstep, HelloSent, HelloRead, OfferSent, OfferRead,
           AcceptSent
  <2>3. sPc = "confirm" /\ Run(sOffer, sOffsets, DeckCursor, <<>>, PcCursor)
    BY <2>1, <2>2 DEF InStep
  <2>4. DeckCursor = At("finished", 0, 0)
    BY <2>3, RunEmpty DEF PcCursor
  <2> QED BY <2>1, <2>2, <2>4 DEF InStep, InFiles, DeckCursor, At
<1> QED BY HandshakeInvariance, <1>1, PTL

\* A transfer between the two programs never gives a name in the receive
\* folder to a file that is not, byte for byte, what was offered, as long as no
\* file was stored at the name of a partial file.
THEOREM StoredWholeTheorem == Spec => []StoredWhole
<1>1. ReceiverInv => NamesAreWhole
  BY DEF ReceiverInv, DiskInv
<1>2. Inv => StoredWhole
  BY <1>1, Zenon DEF Inv, Sound, StoredWhole
<1> QED BY Invariance, <1>2, PTL

\* The hash that receive_stream verifies, which it feeds from the stream, is
\* the hash of what it has written to the disk.
THEOREM HashedIsStoredTheorem == Spec => []HashedIsStored
<1>1. ASSUME Inv
      PROVE  HashedIsStored
  BY <1>1, FedIsHashed DEF Inv
<1> QED BY Invariance, <1>1, PTL

\* Keep both: whatever the PC sends and however often, the receiver replaces no
\* file, except where somebody else has put one at a destination it had found
\* free.
THEOREM KeepsBothTheorem == Spec => KeepsBoth
<1>1. Inv /\ [Next]_vars =>
        [KeepsBothStep]_<<receiverVars, diskVars, foreign>>
  BY NextInv
<1>2. KeepsBothStep <=>
        \A p \in DOMAIN inbox :
          (p \in DOMAIN inbox' /\ inbox'[p] = inbox[p])
              \/ p \in foreign \/ rPc' = "off"
  BY DEF KeepsBothStep
<1> QED BY Invariance, <1>1, <1>2, PTL DEF KeepsBoth, Spec

\* Resuming never loses ground: what was received of a file is given up only
\* when it proves wrong, when the file is stored, or when the power fails, as
\* long as no file was stored at the name of a partial file.
THEOREM ResumeKeptTheorem == Spec => ResumeKept
<1>1. Inv /\ [Next]_vars =>
        [ResumeKeptStep]_<<receiverVars, diskVars, foreign>>
  BY NextInv
<1>2. ResumeKeptStep <=>
        \A f \in DOMAIN partials :
          \/ f \in DOMAIN partials' /\ Len(partials'[f].data) >= Len(partials[f].data)
          \/ ~CanBecome(partials[f].data, f)
          \/ \E p \in DOMAIN inbox' : f \in inbox'[p].by
          \/ rPc' = "off"
          \/ aliased'
  BY DEF ResumeKeptStep
<1> QED BY Invariance, <1>1, <1>2, PTL DEF ResumeKept, Spec

\* When send_paths returns Ok every file of the job is in the receive folder,
\* or still whole in its partial file after a power loss, whatever was lost,
\* killed, edited or retried before, as long as no file was stored at the name
\* of a partial file.
THEOREM DoneMeansStoredTheorem == Spec => []DoneMeansStored
<1>1. ASSUME Inv
      PROVE  DoneMeansStored
  <2> DEFINE IsStored(f) ==
        \/ \E p \in DOMAIN inbox : inbox[p].by = {f} /\ inbox[p].data = f.hash
        \/ f \in DOMAIN partials /\ partials[f].data = f.hash
  <2> SUFFICES ASSUME ~aliased PROVE DoneMeansStored
    BY DEF DoneMeansStored
  <2>1. /\ sPc = "done" => \A i \in DOMAIN sOffer : Safe(sOffer[i])
        /\ NamesAreWhole
    BY <1>1 DEF Inv, Agreement, Confirmed, AllSafe, Sound, ReceiverInv, DiskInv
  <2>2. ASSUME NEW f, Safe(f)
        PROVE  IsStored(f)
    <3>1. CASE f \in DOMAIN partials /\ partials[f] = [data |-> f.hash, synced |-> TRUE]
      <4>1. partials[f].data = f.hash
        BY <3>1
      <4> QED BY <3>1, <4>1
    <3>2. CASE \E p \in DOMAIN inbox : inbox[p].by = {f}
      <4>1. PICK p \in DOMAIN inbox : inbox[p].by = {f}
        BY <3>2
      <4>2. inbox[p].data = f.hash
        BY <2>1, <4>1 DEF NamesAreWhole
      <4> QED BY <4>1, <4>2
    <3> QED BY <2>2, <3>1, <3>2 DEF Safe
  <2>3. sPc = "done" => \A i \in DOMAIN sOffer : IsStored(sOffer[i])
    <3> HIDE DEF IsStored
    <3> QED BY <2>1, <2>2
  <2> QED BY <2>3 DEF DoneMeansStored
<1> QED BY Invariance, <1>1, PTL

\* The two programs implement Delivery: they store only whole files that were
\* agreed to, lose nothing that is stored, and tell the user the truth, until a
\* file is stored at the name of a partial file.
THEOREM DeliversTheorem == Spec => Delivers
<1>1. Init => Promise!Init
  BY DEF Init, ReceiverInit, SenderInit, Promise!Init, InboxView, HeldView,
         AgreedView
<1>2. Inv /\ [Next]_vars => [Promise!Next \/ aliased']_(Promise!vars)
  BY NextInv
<1> QED BY Invariance, <1>1, <1>2, PTL DEF Spec, Delivers
=============================================================================
