------------------------------ MODULE Windows ------------------------------
(***************************************************************************)
(* A machine that shows one of the two windows: the PC's (PcWindow) or the *)
(* Deck's (DeckWindow).  What is left of the other program does not move.  *)
(***************************************************************************)
EXTENDS Naturals, Sequences

CONSTANTS Path, MaxQueue, MaxTransfers, Counts, MaxStarts, MaxConnections

ASSUME CountsAssumption == Counts \subseteq Nat

VARIABLES
    app,                                                \* "pc" or "deck"
    ui, channel, polling, repaint,                      \* of both
    thread, result, sends,                              \* of PcWindow
    at, left, outcome, starts, connections              \* of DeckWindow

pcOnly == <<thread, result, sends>>
deckOnly == <<at, left, outcome, starts, connections>>
vars == <<app, ui, channel, polling, repaint, pcOnly, deckOnly>>

Pc == INSTANCE PcWindow
Deck == INSTANCE DeckWindow

Init ==
    \/ /\ app = "pc" /\ Pc!Init
       /\ at = "off" /\ left = <<>> /\ outcome = "none" /\ starts = 0 /\ connections = 0
    \/ /\ app = "deck" /\ Deck!Init
       /\ thread = {} /\ result = "none" /\ sends = 0

Next ==
    /\ UNCHANGED app
    /\ \/ app = "pc" /\ Pc!Next /\ UNCHANGED deckOnly
       \/ app = "deck" /\ Deck!Next /\ UNCHANGED pcOnly

Spec ==
    /\ Init /\ [][Next]_vars
    /\ WF_vars(app = "pc" /\ Pc!Work /\ UNCHANGED <<app, deckOnly>>)
    /\ WF_vars(app = "pc" /\ Pc!Draw /\ UNCHANGED <<app, deckOnly>>)
    /\ WF_vars(app = "deck" /\ Deck!Thread /\ UNCHANGED <<app, pcOnly>>)
    /\ WF_vars(app = "deck" /\ Deck!Draw /\ UNCHANGED <<app, pcOnly>>)

-----------------------------------------------------------------------------
\* The properties of the two windows; PcWindow and DeckWindow say what they
\* mean.
TypeOK == IF app = "pc" THEN Pc!TypeOK ELSE Deck!TypeOK

\* There is one worker at most: the PC's sends the queue that the window shows,
\* and the Deck's window starts no receiver while there is one.
OneWorker == IF app = "pc" THEN Pc!SendsTheQueue ELSE Deck!OneReceiver

\* The PC's window shows success only if there was success, and the Deck's does
\* not show the end of the last transfer during the next.
StatusIsTrue == IF app = "pc" THEN Pc!CompleteIsTrue ELSE Deck!StatusIsCurrent

\* The PC's progress bar never goes back during a transfer.
ProgressAdvances == Pc!ProgressAdvances

\* The PC's window shows how every transfer ended; the Deck's shows how the last
\* one ended, and that the receiver has stopped.
OutcomeShown ==
    /\ Pc!OutcomeShown
    /\ Deck!OutcomeShown
    /\ app = "pc" \/ Deck!StoppedShown
=============================================================================
