--------------------------- MODULE AnyPeerProofs ----------------------------
(***************************************************************************)
(* What the receiver promises whatever program connects to it, for every   *)
(* value of the constants.                                                 *)
(***************************************************************************)
EXTENDS AnyPeer, EngineProofs

Inv == TypeOK /\ ReceiverBase /\ Reserved /\ Sound

\* A new connection.
LEMMA PeerConnectsType ==
    ASSUME LinkTypeOK, NEW c \in Conn, NEW m \in Frame, Establish(c, m),
           UNCHANGED <<down, broken, bound, faults>>
    PROVE  LinkTypeOK'
<1>1. <<m>> \in Seq(Frame)
  OBVIOUS
<1>2. backlog' \in Seq(Conn)
  BY AppendProperties DEF LinkTypeOK, Establish
<1> QED BY <1>1, <1>2 DEF LinkTypeOK, Establish

\* A frame written by a peer.
LEMMA PeerSendsType ==
    ASSUME LinkTypeOK, NEW c \in Conn, NEW m \in Frame, PcWrites(c, m)
    PROVE  up' \in [Conn -> Seq(Frame)] /\ broken' \in [Conn -> BOOLEAN]
<1>1. Append(up[c], m) \in Seq(Frame)
  BY AppendProperties DEF LinkTypeOK
<1> QED BY <1>1 DEF LinkTypeOK, PcWrites

\* The peer closes its end.
LEMMA PeerLeavesType ==
    ASSUME LinkTypeOK, NEW c \in Conn, NEW unread, PcCloses(c, unread),
           UNCHANGED <<up, rOpen, backlog, bound>>, faults' \in 0 .. MaxFaults
    PROVE  LinkTypeOK'
  BY EmptySeq DEF LinkTypeOK, PcCloses

\* Whatever the peer does, the link carries frames.
LEMMA PeerStepType ==
    ASSUME TypeOK, ReceiverBase', PeerStep
    PROVE  TypeOK'
<1>1. LinkTypeOK /\ ReceiverTypeOK'
  BY DEF TypeOK, ReceiverBase
<1>2. CASE PeerConnects
  <2>1. made' \in Conn
    BY <1>2, LinkAssumption DEF PeerConnects, TypeOK, Conn, NoConn
  <2>2. PICK m \in PeerFrames : Establish(made', m)
    BY <1>2 DEF PeerConnects
  <2>3. LinkTypeOK'
    BY <1>1, <1>2, <2>1, <2>2, PeerAssumption, PeerConnectsType DEF PeerConnects
  <2> QED BY <1>1, <2>1, <2>3 DEF TypeOK
<1>3. ASSUME NEW c \in Conn, PeerSends(c)
      PROVE  TypeOK'
  <2>1. PICK m \in PeerFrames : PcWrites(c, m)
    BY <1>3 DEF PeerSends
  <2>2. up' \in [Conn -> Seq(Frame)] /\ broken' \in [Conn -> BOOLEAN]
    BY <1>1, <2>1, PeerAssumption, PeerSendsType
  <2> QED BY <1>1, <1>3, <2>2 DEF PeerSends, TypeOK, LinkTypeOK
<1>4. ASSUME NEW c \in Conn, PeerLeaves(c)
      PROVE  TypeOK'
  <2>1. LinkTypeOK'
    BY <1>1, <1>4, PeerLeavesType DEF PeerLeaves, LinkTypeOK
  <2> QED BY <1>1, <1>4, <2>1 DEF PeerLeaves, TypeOK
<1> QED BY <1>2, <1>3, <1>4 DEF PeerStep

\* The invariant holds at the start.
LEMMA InitInv == Init => Inv
<1>1. LinkInit => LinkTypeOK
  BY LinkAssumption DEF LinkInit, LinkTypeOK
<1>2. ReceiverInit => ReceiverBase /\ Reserved /\ Sound
  <2>1. ReceiverInit => Reserved
    BY DEF ReceiverInit, Reserved
  <2>2. ReceiverInit => Sound
    BY ReceiverInit_Inv, KeptInit, Zenon DEF Sound
  <2> QED BY <2>1, <2>2, ReceiverInit_Base
<1> QED BY <1>1, <1>2 DEF Init, Inv, TypeOK, ReceiverBase

\* Every step keeps the invariant, and what the receiver holds on its disk.
LEMMA NextInv ==
    ASSUME Inv, [Next]_vars
    PROVE  /\ Inv'
           /\ aliased' \/ PromiseStep
           /\ \/ KeepsBothStep /\ ResumeKeptStep
              \/ UNCHANGED <<receiverVars, diskVars, foreign>>
<1>1. CASE PeerStep \/ UNCHANGED vars
  <2>1. UNCHANGED <<receiverVars, diskVars, foreign>>
    BY <1>1 DEF PeerStep, vars
  <2>2. ReceiverBase' /\ Reserved' /\ (ReceiverInv => ReceiverInv')
    BY <2>1, ReceiverUnchanged DEF Inv
  <2>3. Kept => Kept'
    BY <2>1, KeptUnchanged
  <2>4. Sound'
    <3>1. UNCHANGED aliased
      BY <2>1 DEF diskVars
    <3> QED BY <2>2, <2>3, <3>1, Zenon DEF Inv, Sound
  <2>5. PromiseStep
    BY <2>1, Stutters DEF receiverVars, diskVars, AgreedView
  <2>6. TypeOK'
    BY <1>1, <2>2, PeerStepType
       DEF Inv, TypeOK, vars, linkVars, LinkTypeOK, ReceiverBase
  <2> QED BY <2>1, <2>2, <2>4, <2>5, <2>6 DEF Inv
<1>2. CASE DeckStep
  <2>1. ReceiverNext /\ LinkTypeOK /\ ReceiverBase /\ Reserved /\ Sound
    BY <1>2 DEF DeckStep, Inv, TypeOK
  <2>2. ReceiverBase' /\ LinkTypeOK' /\ Reserved' /\ Sound' /\ KeepsBothStep
    BY <2>1, ReceiverNext_Base, ReceiverNext_Link, ReceiverNext_Reserved,
       ReceiverNext_Sound, ReceiverNext_KeepsBoth
  <2>3. ASSUME ~aliased'
        PROVE  PromiseStep /\ ResumeKeptStep
    <3>1. ReceiverInv /\ Kept
      BY <2>1, <2>3, AliasedStays DEF Sound, ReceiverBase
    <3> QED BY <2>1, <2>3, <3>1, ReceiverNext_Promise, ReceiverNext_ResumeKept
  <2>4. ASSUME aliased'
        PROVE  ResumeKeptStep
    BY <2>4, Zenon DEF ResumeKeptStep
  <2>5. made' \in Conn \cup {NoConn}
    BY <1>2 DEF DeckStep, Inv, TypeOK
  <2>6. Inv'
    BY <2>2, <2>5 DEF Inv, TypeOK, ReceiverBase
  <2> QED BY <2>2, <2>3, <2>4, <2>6, Zenon
<1> QED BY <1>1, <1>2 DEF Next

-----------------------------------------------------------------------------
\* The invariant holds in every reachable state.
THEOREM Invariance == Spec => []Inv
<1>1. Inv /\ [Next]_vars => Inv'
  BY NextInv
<1> QED BY InitInv, <1>1, PTL DEF Spec

\* Type correctness of the link and the receiver: no frame that read_frame can
\* deliver takes the receiver to a state outside its types.
THEOREM TypeCorrect == Spec => []TypeOK
<1>1. Inv => TypeOK
  BY DEF Inv
<1> QED BY Invariance, <1>1, PTL

\* receive_stream never gives a name in the receive folder to a file that is
\* not, byte for byte, what was offered, whoever connects, whenever the
\* process is killed, and also after a power loss, as long as no file was
\* stored at the name of a partial file.
THEOREM StoredWholeTheorem == Spec => []StoredWhole
<1>1. ReceiverInv => NamesAreWhole
  BY DEF ReceiverInv, DiskInv
<1>2. Inv => StoredWhole
  BY <1>1, Zenon DEF Inv, Sound, StoredWhole
<1> QED BY Invariance, <1>2, PTL

\* The hash that receive_stream verifies, which it feeds from the stream, is
\* the hash of what it has written to the disk, at the beginning of the partial
\* file; as long as no file was stored at the name of a partial file there is
\* nothing behind it.
THEOREM HashedIsStoredTheorem == Spec => []HashedIsStored
<1>1. ASSUME Inv
      PROVE  HashedIsStored
  BY <1>1, FedIsHashed DEF Inv
<1> QED BY Invariance, <1>1, PTL

\* The offsets in an Accept frame stay good until the files are started, as
\* long as no file was stored at the name of a partial file.
THEOREM ResumeCurrentTheorem == Spec => []ResumeCurrent
<1>1. ReceiverInv => OffsetsAreGood
  BY DEF ReceiverInv
<1>2. Inv => ResumeCurrent
  BY <1>1, Zenon DEF Inv, Sound, ResumeCurrent
<1> QED BY Invariance, <1>2, PTL

\* Keep both: the receiver replaces no file outside .sdft-partials, except where
\* somebody else has put one at a destination it had found free.
THEOREM KeepsBothTheorem == Spec => KeepsBoth
<1>1. Inv /\ [Next]_vars =>
        [KeepsBothStep]_<<receiverVars, diskVars, foreign>>
  BY NextInv
<1>2. KeepsBothStep <=>
        \A p \in DOMAIN inbox :
          (p \in DOMAIN inbox' /\ inbox'[p] = inbox[p])
              \/ p \in foreign \/ rPc' = "off"
  BY DEF KeepsBothStep
<1> QED BY Invariance, <1>1, <1>2, PTL DEF KeepsBoth, Spec

\* Resuming never loses ground: what was received of a file is given up only
\* when it proves wrong, when the file is stored, or when the power fails, as
\* long as no file was stored at the name of a partial file.
THEOREM ResumeKeptTheorem == Spec => ResumeKept
<1>1. Inv /\ [Next]_vars =>
        [ResumeKeptStep]_<<receiverVars, diskVars, foreign>>
  BY NextInv
<1>2. ResumeKeptStep <=>
        \A f \in DOMAIN partials :
          \/ f \in DOMAIN partials' /\ Len(partials'[f].data) >= Len(partials[f].data)
          \/ ~CanBecome(partials[f].data, f)
          \/ \E p \in DOMAIN inbox' : f \in inbox'[p].by
          \/ rPc' = "off"
          \/ aliased'
  BY DEF ResumeKeptStep
<1> QED BY Invariance, <1>1, <1>2, PTL DEF ResumeKept, Spec

\* Whatever program connects to it, and whenever it is killed or the power
\* fails, receive_stream does what Delivery allows and nothing else until a file
\* is stored at the name of a partial file: it stores only whole files it has
\* agreed to, gives up only what is wrong, and loses nothing that it has stored.
THEOREM DeliversTheorem == Spec => Delivers
<1>1. Init => Promise!Init
  BY DEF Init, ReceiverInit, Promise!Init, InboxView, HeldView, AgreedView
<1>2. Inv /\ [Next]_vars => [Promise!Next \/ aliased']_(Promise!vars)
  <2>1. Alone!Next => Promise!Next
    BY DEF Alone!Next, Promise!Next, Alone!Agree, Promise!Agree,
           Alone!Abandon, Promise!Abandon, Alone!Receive, Promise!Receive,
           Alone!Discard, Promise!Discard, Alone!Store, Promise!Store,
           Alone!LocalWrite, Promise!LocalWrite, Alone!Confirm, Promise!Confirm,
           Alone!PowerLoss, Promise!PowerLoss, Alone!Delivered,
           Promise!Delivered, Alone!Stored, Promise!Stored, Alone!HeldWhole,
           Promise!HeldWhole, Alone!With, Promise!With, Alone!CanBecome,
           Promise!CanBecome, Alone!FileOffer, Promise!FileOffer,
           Alone!Content, Promise!Content, Alone!Restrict, Promise!Restrict
  <2>2. PromiseStep => [Promise!Next]_(Promise!vars)
    BY <2>1 DEF PromiseStep, Alone!vars, Promise!vars
  <2>3. ASSUME Inv, [Next]_vars
        PROVE  aliased' \/ [Promise!Next]_(Promise!vars)
    BY <2>2, <2>3, NextInv
  <2> QED BY <2>3, Zenon
<1> QED BY Invariance, <1>1, <1>2, PTL DEF Spec, Delivers
=============================================================================
