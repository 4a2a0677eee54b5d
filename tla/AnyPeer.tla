------------------------------ MODULE AnyPeer -------------------------------
(***************************************************************************)
(* The receiver facing any program that speaks frames: the port is open to *)
(* the whole network, and what the receiver keeps on its disk must not     *)
(* depend on who connects.  The peer opens connections, sends whatever     *)
(* frames it likes on them, and goes away when it likes.                   *)
(***************************************************************************)
EXTENDS Receiver

CONSTANT PeerFrames    \* the frames the peer sends

ASSUME PeerAssumption == PeerFrames \subseteq Frame

VARIABLE made          \* connections the peer has made

vars == <<linkVars, receiverVars, diskVars, foreign, made>>

TypeOK == LinkTypeOK /\ ReceiverTypeOK /\ made \in Conn \cup {NoConn}

Init == LinkInit /\ ReceiverInit /\ made = NoConn

PeerConnects ==
    /\ bound
    /\ made < MaxConns
    /\ made' = made + 1
    /\ \E m \in PeerFrames : Establish(made', m)
    /\ UNCHANGED <<down, broken, bound, faults>>

PeerSends(c) ==
    /\ sOpen[c]
    /\ rOpen[c]
    /\ CanWrite(c)
    /\ \E m \in PeerFrames : PcWrites(c, m)
    /\ UNCHANGED <<down, sOpen, rOpen, backlog, bound, faults, made>>

PeerLeaves(c) ==
    /\ sOpen[c]
    /\ \E unread \in {<<>>, down[c]} : PcCloses(c, unread)
    /\ UNCHANGED <<up, rOpen, backlog, bound, faults, made>>

PeerStep ==
    /\ \/ PeerConnects
       \/ \E c \in Conn : PeerSends(c) \/ PeerLeaves(c)
    /\ UNCHANGED <<receiverVars, diskVars, foreign>>

DeckStep == ReceiverNext /\ UNCHANGED made

Next == PeerStep \/ DeckStep

Spec == Init /\ [][Next]_vars

-----------------------------------------------------------------------------
Promise == INSTANCE Delivery
    WITH inbox <- InboxView, held <- HeldView, agreed <- AgreedView, told <- {}

\* Whatever the peer sends, the receiver does nothing to the receive folder and
\* to what it holds that Delivery does not allow, until a file is stored at the
\* name of a partial file, in the folder .sdft-partials.
Delivers == Promise!Init /\ [][Promise!Next \/ aliased']_(Promise!vars)
=============================================================================
