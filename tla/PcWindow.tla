------------------------------ MODULE PcWindow ------------------------------
(***************************************************************************)
(* The PC's window (apps/pc/src/main.rs): its widgets, which one frame     *)
(* after the other shows, the worker thread that runs send_paths, and the  *)
(* channel between them, which every frame empties, one message after the  *)
(* other, while the worker goes on sending.  poll_worker puts them aside   *)
(* and handles them when the channel is empty, which nobody can tell from  *)
(* handling each at once.  Sender has what send_paths does; here it is the *)
(* events it reports.                                                      *)
(*                                                                         *)
(* egui is external: it shows a frame when the user does something, one    *)
(* more after it, and one when a frame asked for it.  A click needs a      *)
(* widget that was enabled in the frame before.                            *)
(***************************************************************************)
EXTENDS Naturals, SequencesExt

CONSTANTS
    Path,          \* what the user may choose
    MaxQueue,      \* bound: paths in the queue
    MaxTransfers   \* bound: clicks on Send in one behaviour

VARIABLES
    ui,         \* PcApp, and the messages it holds the receiving end of
    thread,     \* the worker threads that run: their files and what they will
                \* report as long as nothing fails
    channel,    \* messages of the worker that no frame has taken
    polling,    \* a frame is emptying the channel
    repaint,    \* egui will show another frame
    result,     \* history: of the last transfer that ended
    sends       \* clicks on Send so far

vars == <<ui, thread, channel, polling, repaint, result, sends>>

None == "none"

Init ==
    /\ ui = [host |-> "empty", typed |-> None, files |-> <<>>, status |-> "drop",
             current |-> None, progress |-> 0, worker |-> FALSE]
    /\ thread = {}
    /\ channel = <<>>
    /\ polling = FALSE
    /\ repaint = TRUE
    /\ result = None
    /\ sends = 0

-----------------------------------------------------------------------------
(* The worker thread. *)

Event(kind) == [kind |-> kind, progress |-> 0, of |-> None]
FileStarted(f) == [Event("FileStarted") EXCEPT !.of = f]

\* progress_fraction, in percent.
Progress(done, total) == [Event("Progress") EXCEPT !.progress = (100 * done) \div total]
Done(r) == [Event("Done") EXCEPT !.of = r]

\* Mutant: the progress of each file, from nothing on.
FileReportsOfFile(files, k) ==
    <<FileStarted(files[k]), Progress(0, 1), Progress(1, 1)>>

\* What send_paths reports of a file: from the resume offset to the end of it.
FileReports(files, k) ==
    <<FileStarted(files[k]), Progress(2 * k - 1, 2 * Len(files)),
      Progress(2 * k, 2 * Len(files))>>

Reports(files) ==
    [k \in DOMAIN files |-> Event("Preparing")]
      \o <<Event("Connected"), Event("TransferStarted")>>
      \o [i \in 1 .. 3 * Len(files) |->
           FileReports(files, (i + 2) \div 3)[1 + ((i + 2) % 3)]]
      \o <<Event("Complete")>>

Report ==
    \E t \in thread :
        /\ t.left # <<>>
        /\ channel' = Append(channel, Head(t.left))
        /\ thread' = (thread \ {t}) \cup {[t EXCEPT !.left = Tail(t.left)]}
        /\ UNCHANGED <<ui, polling, repaint, result, sends>>

\* send_paths returns, with an error unless everything was reported.
Return ==
    \E t \in thread :
        /\ result' = IF t.left = <<>> THEN "complete" ELSE "failed"
        /\ channel' = Append(channel, Done(result'))
        /\ thread' = thread \ {t}
        /\ UNCHANGED <<ui, polling, repaint, sends>>

-----------------------------------------------------------------------------
(* A frame: accept_dropped_files, poll_worker, the widgets. *)

\* handle_event, and the end of the worker.
Handled(u, m) ==
    CASE m.kind = "FileStarted" -> [u EXCEPT !.current = m.of]
      [] m.kind = "Progress" -> [u EXCEPT !.status = "sending", !.progress = m.progress]
      [] m.kind = "Done" /\ m.of = "complete" ->
           [u EXCEPT !.worker = FALSE, !.status = "complete", !.progress = 100]
      [] m.kind = "Done" /\ m.of = "failed" ->
           [u EXCEPT !.worker = FALSE, !.status = "failed"]
      [] OTHER -> [u EXCEPT !.status = "sending"]

\* request_repaint_after.
RepaintsAfter(u) == u.worker

\* Mutant: a path is added twice.
AddedAgain(u, p) ==
    [u EXCEPT !.files = Append(@, p), !.typed = None, !.status = "ready"]

Added(u, p) ==
    IF p \in Range(u.files) THEN u
    ELSE [u EXCEPT !.files = Append(@, p), !.status = "ready"]

\* Mutant: the queue is open during a transfer.
TakesDropsAlways(u) == TRUE

TakesDrops(u) == ~u.worker

\* add_path of what may or may not exist.
Tried(u, p) == {[u EXCEPT !.status = "missing"], Added(u, p)}

\* A frame begins, with u after the files that were dropped.  Without a worker
\* there is no channel, and the frame does nothing more.
Begin(u, again) ==
    /\ ~polling
    /\ ui' = u
    /\ polling' = u.worker
    /\ repaint' = again
    /\ UNCHANGED <<thread, channel, result, sends>>

\* The next message, until there is none.
Poll ==
    /\ polling /\ channel # <<>>
    /\ ui' = Handled(ui, Head(channel))
    /\ channel' = Tail(channel)
    /\ UNCHANGED <<thread, polling, repaint, result, sends>>

Polled ==
    /\ polling /\ channel = <<>>
    /\ polling' = FALSE
    /\ repaint' = (repaint \/ RepaintsAfter(ui))
    /\ UNCHANGED <<ui, thread, channel, result, sends>>

Repaint == repaint /\ Begin(ui, FALSE)

\* The mouse moves over the window.
Wake == ~repaint /\ Begin(ui, FALSE)

\* Files dropped on the window are added, or ignored during a transfer.
Drop ==
    \E p \in Path :
        /\ Len(ui.files) < MaxQueue
        /\ \E u \in IF TakesDrops(ui) THEN Tried(ui, p) ELSE {ui} : Begin(u, TRUE)

\* A click or a key in a widget that is enabled when there is no worker.
Input(u) ==
    /\ ~ui.worker /\ ~polling
    /\ ui' = u
    /\ repaint' = TRUE
    /\ UNCHANGED <<channel, polling>>

TypeHost ==
    /\ \E host \in {"empty", "wrong", "deck"} : Input([ui EXCEPT !.host = host])
    /\ UNCHANGED <<thread, result, sends>>

TypePath ==
    /\ \E p \in Path : Input([ui EXCEPT !.typed = p])
    /\ UNCHANGED <<thread, result, sends>>

\* The input is cleared, whether the path exists or not.
AddTypedPath ==
    /\ ui.typed # None /\ Len(ui.files) < MaxQueue
    /\ \E u \in Tried(ui, ui.typed) : Input([u EXCEPT !.typed = None])
    /\ UNCHANGED <<thread, result, sends>>

Clear ==
    /\ ui.files # <<>>
    /\ Input([ui EXCEPT !.files = <<>>])
    /\ UNCHANGED <<thread, result, sends>>

RemovePath ==
    /\ \E k \in DOMAIN ui.files : Input([ui EXCEPT !.files = RemoveAt(@, k)])
    /\ UNCHANGED <<thread, result, sends>>

Send ==
    /\ ui.host # "empty" /\ ui.files # <<>> /\ sends < MaxTransfers
    /\ sends' = sends + 1
    /\ IF ui.host = "wrong"
       THEN Input([ui EXCEPT !.status = "invalid"]) /\ UNCHANGED thread
       ELSE /\ Input([ui EXCEPT !.status = "preparing", !.progress = 0, !.worker = TRUE])
            /\ thread' = thread \cup
                 {[id |-> sends, files |-> ui.files, left |-> Reports(ui.files)]}
    /\ UNCHANGED result

Work == Report \/ Return
Draw == Repaint \/ Poll \/ Polled

Next ==
    \/ Work
    \/ Draw \/ Wake \/ Drop \/ TypeHost \/ TypePath \/ AddTypedPath \/ Clear
    \/ RemovePath \/ Send

\* send_paths waits for nothing longer than a minute, and egui shows the
\* frames it was asked for.
Spec == Init /\ [][Next]_vars /\ WF_vars(Work) /\ WF_vars(Draw)

-----------------------------------------------------------------------------
TypeOK ==
    /\ ui.host \in {"empty", "wrong", "deck"}
    /\ ui.typed \in Path \cup {None}
    /\ ui.current \in Path \cup {None}
    /\ ui.progress \in 0 .. 100
    /\ IsInjective(ui.files) /\ Range(ui.files) \subseteq Path
    /\ Cardinality(thread) <= 1

\* The queue in the window is what the worker sends, from the click on Send
\* until the frame that learns of its end: there is never a second worker, nor
\* one whose end nobody waits for.
SendsTheQueue ==
    /\ \A t \in thread : ui.worker /\ t.files = ui.files
    /\ channel # <<>> => ui.worker

\* "Transfer complete and verified." is only shown of a transfer for which
\* send_paths returned Ok.
CompleteIsTrue == ui.status = "complete" => result = "complete" /\ thread = {}

\* The progress bar never goes back until the next click on Send.
ProgressAdvances == [][sends > 0 /\ sends' = sends => ui'.progress >= ui.progress]_vars

\* The window of a user who does nothing more shows how each transfer ended,
\* and is ready for another.
OutcomeShown ==
    \A n \in 1 .. MaxTransfers :
        (sends = n /\ ui.worker) ~> (~ui.worker /\ ui.status = result)
=============================================================================
