----------------------------- MODULE DeckWindow -----------------------------
(***************************************************************************)
(* The Deck's window (apps/deck/src/main.rs): its widgets, the worker      *)
(* thread that runs listen, and the channel between them.  Receiver has    *)
(* what listen does; here it is the events it reports.  egui is external,  *)
(* as in PcWindow.                                                         *)
(***************************************************************************)
EXTENDS Naturals, SequencesExt

CONSTANTS
    Counts,           \* numbers of files that are offered
    MaxStarts,        \* bound: receivers that are started in one behaviour
    MaxConnections    \* bound: connections that are accepted in one behaviour

VARIABLES
    ui,            \* DeckApp
    at,            \* where the worker thread is in listen, or "off"
    left,          \* what receive_stream will report as long as nothing fails
    channel,       \* messages of the worker that no frame has taken
    polling,       \* a frame is emptying the channel
    repaint,       \* egui will show another frame
    outcome,       \* history: of the last connection of this receiver
    starts, connections

vars == <<ui, at, left, channel, polling, repaint, outcome, starts, connections>>

Init ==
    /\ ui = [address |-> "right", output |-> "set", status |-> "choose", progress |-> 0,
             worker |-> FALSE]
    /\ at = "off"
    /\ left = <<>>
    /\ channel = <<>>
    /\ polling = FALSE
    /\ repaint = TRUE
    /\ outcome = "none"
    /\ starts = 0
    /\ connections = 0

-----------------------------------------------------------------------------
(* The worker thread. *)

Event(kind) == [kind |-> kind, progress |-> 0]

\* progress_fraction, in percent.
Progress(done, total) == [Event("Progress") EXCEPT !.progress = (100 * done) \div total]

\* What receive_stream reports of file k of n, from the resume offset on.
FileReports(k, n) ==
    <<Event("FileStarted"), Progress(2 * k - 1, 2 * n), Progress(2 * k, 2 * n),
      Event("FileCompleted")>>

Reports(n) ==
    <<Event("TransferOffered")>>
      \o [i \in 1 .. 4 * n |-> FileReports((i + 3) \div 4, n)[1 + ((i + 3) % 4)]]
      \o <<Event("Complete")>>

\* The thread goes to place and sends message m.
Says(m, place) == channel' = Append(channel, Event(m)) /\ at' = place

Listening ==
    /\ at = "start"
    /\ Says("Listening", "accept")
    /\ UNCHANGED <<ui, left, polling, repaint, outcome, starts, connections>>

\* prepare_root, bind or accept fails: listen returns.
ListenFails ==
    /\ at \in {"start", "accept"}
    /\ Says("Done", "off")
    /\ UNCHANGED <<ui, left, polling, repaint, outcome, starts, connections>>

Accept ==
    /\ at = "accept" /\ connections < MaxConnections
    /\ connections' = connections + 1
    /\ \E n \in Counts : left' = Reports(n)
    /\ Says("Connected", "serve")
    /\ UNCHANGED <<ui, polling, repaint, outcome, starts>>

Report ==
    /\ at = "serve" /\ Len(left) > 1
    /\ channel' = Append(channel, Head(left))
    /\ left' = Tail(left)
    /\ UNCHANGED <<ui, at, polling, repaint, outcome, starts, connections>>

\* receive_stream returns: it has confirmed the transfer, or it failed.
Served ==
    /\ at = "serve"
    /\ \E o \in IF Len(left) = 1 THEN {"Complete", "Failed"} ELSE {"Failed"} :
         Says(o, "accept") /\ outcome' = o
    /\ left' = <<>>
    /\ UNCHANGED <<ui, polling, repaint, starts, connections>>

-----------------------------------------------------------------------------
(* A frame: poll_worker and the widgets. *)

\* Mutant: the end of a transfer only moves the bar.
HandledByBar(u, m) ==
    CASE m.kind = "Progress" -> [u EXCEPT !.status = "Progress", !.progress = m.progress]
      [] m.kind = "Complete" -> [u EXCEPT !.progress = 100]
      [] m.kind = "Done" -> [u EXCEPT !.status = "Done", !.worker = FALSE]
      [] m.kind = "FileStarted" -> u
      [] OTHER -> [u EXCEPT !.status = m.kind]

\* handle_event, and the end of the worker.  A FileStarted event changes the
\* name above the bar and no status.
Handled(u, m) ==
    CASE m.kind = "Progress" -> [u EXCEPT !.status = "Progress", !.progress = m.progress]
      [] m.kind = "Complete" -> [u EXCEPT !.status = "Complete", !.progress = 100]
      [] m.kind = "Done" -> [u EXCEPT !.status = "Done", !.worker = FALSE]
      [] m.kind = "FileStarted" -> u
      [] OTHER -> [u EXCEPT !.status = m.kind]

\* Mutant: frames are asked for while the bar moves.
RepaintsWithBar(u) == u.worker /\ u.progress < 100

\* request_repaint_after.
RepaintsAfter(u) == u.worker

\* A frame begins.  Without a worker there is no channel, and the frame does
\* nothing more.
Begin ==
    /\ ~polling
    /\ polling' = ui.worker
    /\ repaint' = FALSE
    /\ UNCHANGED <<ui, at, left, channel, outcome, starts, connections>>

\* The next message, until there is none.
Poll ==
    /\ polling /\ channel # <<>>
    /\ ui' = Handled(ui, Head(channel))
    /\ channel' = Tail(channel)
    /\ UNCHANGED <<at, left, polling, repaint, outcome, starts, connections>>

Polled ==
    /\ polling /\ channel = <<>>
    /\ polling' = FALSE
    /\ repaint' = (repaint \/ RepaintsAfter(ui))
    /\ UNCHANGED <<ui, at, left, channel, outcome, starts, connections>>

Repaint == repaint /\ Begin

\* The mouse moves over the window.
Wake == ~repaint /\ Begin

\* The widgets are enabled when there is no worker.
Type ==
    /\ ~ui.worker /\ ~polling
    /\ \E a \in {"right", "wrong"}, o \in {"set", "empty"} :
         ui' = [ui EXCEPT !.address = a, !.output = o]
    /\ repaint' = TRUE
    /\ UNCHANGED <<at, left, channel, polling, outcome, starts, connections>>

\* start_receiver.
Start ==
    /\ ~ui.worker /\ ~polling /\ starts < MaxStarts
    /\ starts' = starts + 1
    /\ IF ui.address = "wrong" \/ ui.output = "empty"
       THEN ui' = [ui EXCEPT !.status = "Invalid"] /\ UNCHANGED <<at, outcome>>
       ELSE /\ ui' = [ui EXCEPT !.status = "Starting", !.worker = TRUE]
            /\ at' = "start"
            /\ outcome' = "none"
    /\ repaint' = TRUE
    /\ UNCHANGED <<left, channel, polling, connections>>

Thread == Listening \/ Report \/ Served
Draw == Repaint \/ Poll \/ Polled

Next == Thread \/ ListenFails \/ Accept \/ Draw \/ Wake \/ Type \/ Start

\* A receiver may wait for a connection for ever; it serves one in the time
\* the PC and the timeouts give it.  egui shows the frames it was asked for.
Spec == Init /\ [][Next]_vars /\ WF_vars(Thread) /\ WF_vars(Draw)

-----------------------------------------------------------------------------
TypeOK ==
    /\ ui.progress \in 0 .. 100
    /\ at \in {"off", "start", "accept", "serve"}
    /\ left # <<>> <=> at = "serve"
    /\ outcome \in {"none", "Complete", "Failed"}

\* The window offers to start a receiver only when none is running, whose end
\* nobody would learn of and whose port and folder the new one would want.
OneReceiver == at # "off" \/ channel # <<>> => ui.worker

\* A window that has taken every message shows how the last transfer ended,
\* and never shows one as ended that is under way.
StatusIsCurrent ==
    channel = <<>> /\ ui.worker =>
        /\ at = "accept" /\ outcome # "none" => ui.status = outcome
        /\ at = "serve" => ui.status \notin {"Complete", "Failed"}

\* The user who does nothing learns how a transfer ended, even when nothing
\* else happens.
OutcomeShown ==
    (at = "accept" /\ outcome # "none") ~> (ui.status = outcome \/ at # "accept")

\* A receiver that ended is seen to have ended, and can be started again.
StoppedShown == (at = "off" /\ ui.worker) ~> (~ui.worker /\ ui.status = "Done")
=============================================================================
