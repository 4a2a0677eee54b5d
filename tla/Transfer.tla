------------------------------ MODULE Transfer ------------------------------
(***************************************************************************)
(* A PC and a Deck: send_paths on one side of the link, the receiver's     *)
(* loop on the other, a network that drops connections, and a user on      *)
(* either side who starts the program again when it has ended.             *)
(***************************************************************************)
EXTENDS Sender, Receiver

vars == <<linkVars, senderVars, receiverVars, diskVars, foreign>>

TypeOK == LinkTypeOK /\ SenderTypeOK /\ ReceiverTypeOK

Init == LinkInit /\ SenderInit /\ ReceiverInit

PcStep == SenderNext /\ UNCHANGED <<receiverVars, diskVars, foreign>>
DeckStep == ReceiverNext /\ UNCHANGED senderVars

Drop(c) ==
    /\ Disconnect(c)
    /\ UNCHANGED <<senderVars, receiverVars, diskVars, foreign>>

Next ==
    \/ PcStep
    \/ DeckStep
    \/ \E c \in Conn : Drop(c)

Spec == Init /\ [][Next]_vars

(***************************************************************************)
(* Both programs are ordinary threads that the operating system runs, and  *)
(* both users want the files: the one on the PC sends again after a        *)
(* failure, the one on the Deck starts the receiver again after a crash.   *)
(* Nothing obliges the environment to do anything.                         *)
(***************************************************************************)
Fairness ==
    /\ WF_vars(SenderStep /\ UNCHANGED <<receiverVars, diskVars, foreign>>)
    /\ WF_vars(ReceiverStep /\ UNCHANGED senderVars)
    /\ WF_vars(Send /\ UNCHANGED <<receiverVars, diskVars, foreign>>)
    /\ WF_vars(Listen /\ UNCHANGED senderVars)

FairSpec == Spec /\ Fairness

-----------------------------------------------------------------------------
(* Safety. *)

\* When send_paths returns Ok, the Deck holds every file of the offer with the
\* content that was hashed: under a name in the receive folder or as its whole
\* partial file, as which a power loss before the rename was committed brings
\* it back.  (Unless a file was stored at the name of a partial file.)
DoneMeansStored ==
    sPc = "done" /\ ~aliased =>
        \A i \in DOMAIN sOffer :
            \/ \E p \in DOMAIN inbox :
                  inbox[p].by = {sOffer[i]} /\ inbox[p].data = sOffer[i].hash
            \/ /\ sOffer[i] \in DOMAIN partials
               /\ partials[sOffer[i]].data = sOffer[i].hash

\* Neither side of a live connection ever waits for a frame that the other
\* side, waiting itself, will not send.
NeverBothWaiting ==
    ~(SenderWaits /\ ReceiverWaits /\ rConn = sConn /\ ~broken[sConn])

\* Two conforming peers never refuse each other's frames, whatever files
\* change, and whatever connections were dropped or given up before.
PeersAgree ==
    /\ SenderHasFrame => SenderTakes(Head(down[sConn]))
    /\ (ReceiverReads /\ up[rConn] # <<>>) => Takes(Head(up[rConn]))

Promise == INSTANCE Delivery
    WITH inbox <- InboxView, held <- HeldView, agreed <- AgreedView,
         told <- IF sPc = "done" THEN {sOffer[i] : i \in DOMAIN sOffer} ELSE {}

\* The two programs together implement Delivery: in particular send_paths
\* returns Ok only when every file has arrived, and that stays true, until a
\* file is stored at the name of a partial file.
Delivers == Promise!Init /\ [][Promise!Next \/ aliased']_(Promise!vars)

-----------------------------------------------------------------------------
(* Liveness. *)

\* The files arrive, if faults are finite and both users keep trying.
EventuallyDone == <>(sPc = "done")

\* A connection, however it ends, gives the receiver back to the next one.
ReceiverReturns == (rConn # NoConn) ~> (rConn = NoConn)

-----------------------------------------------------------------------------
(* What the documents say, and the code does not do. *)

\* README.md:19, "keeps existing destination files by default": nothing in the
\* receive folder is replaced while the receiver runs.
NeverReplaces ==
    [][\A p \in DOMAIN inbox :
          (p \in DOMAIN inbox' /\ inbox'[p] = inbox[p]) \/ rPc' = "off"]_vars

\* docs/PLAN.md:231, "Resume after Wi-Fi loss without rewriting completed
\* files": a file that is in the receive folder is not received a second time
\* for the same offer.
CompletedNotRewritten ==
    \A p, q \in DOMAIN inbox :
        (inbox[p].by # {} /\ inbox[p].by = inbox[q].by) => p = q

\* docs/PLAN.md:111, "A mismatch keeps the partial file and reports a retryable
\* error": a transfer that fails while a file is received leaves what it has.
MismatchKeepsPartial ==
    [][\A f \in DOMAIN partials :
          \/ rPc' # "listening" \/ rPc # "data"
          \/ f \in DOMAIN partials' /\ Len(partials'[f].data) >= Len(partials[f].data)]_vars
=============================================================================
