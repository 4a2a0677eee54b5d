-------------------------------- MODULE Link --------------------------------
(***************************************************************************)
(* The TCP connections between the PC and the Deck, as the code uses them: *)
(* std::net streams and a listener with a backlog.  Frames on one          *)
(* connection arrive in order and at most once.  A connection is made by   *)
(* the kernel as soon as the port is bound, and waits in the backlog until *)
(* the single-threaded receiver accepts it, so that a connection the PC    *)
(* has given up may still hold frames the Deck has yet to read.            *)
(***************************************************************************)
EXTENDS Wire

CONSTANTS
    MaxConns,   \* bound: connections made in one behaviour
    Window,     \* frames the sockets buffer before a writer blocks
    MaxFaults   \* bound: faults the environment injects in one behaviour

ASSUME LinkAssumption ==
    /\ MaxConns \in Nat
    /\ Window \in Nat \ {0}
    /\ MaxFaults \in Nat

VARIABLES
    up,        \* up[c]: frames from the PC the Deck has not read
    down,      \* down[c]: frames from the Deck the PC has not read
    sOpen,     \* the PC's end of c is open
    rOpen,     \* the Deck's end of c is open
    broken,    \* c was reset or lost: either end may find out at any time
    backlog,   \* connections made and not yet accepted
    bound,     \* the Deck's port is bound
    faults     \* faults injected so far

linkVars == <<up, down, sOpen, rOpen, broken, backlog, bound, faults>>

Conn == 1 .. MaxConns
NoConn == 0

LinkTypeOK ==
    /\ up \in [Conn -> Seq(Frame)]
    /\ down \in [Conn -> Seq(Frame)]
    /\ sOpen \in [Conn -> BOOLEAN]
    /\ rOpen \in [Conn -> BOOLEAN]
    /\ broken \in [Conn -> BOOLEAN]
    /\ backlog \in Seq(Conn)
    /\ bound \in BOOLEAN
    /\ faults \in 0 .. MaxFaults

LinkInit ==
    /\ up = [c \in Conn |-> <<>>]
    /\ down = [c \in Conn |-> <<>>]
    /\ sOpen = [c \in Conn |-> FALSE]
    /\ rOpen = [c \in Conn |-> FALSE]
    /\ broken = [c \in Conn |-> FALSE]
    /\ backlog = <<>>
    /\ bound = TRUE
    /\ faults = 0

Fault ==
    /\ faults < MaxFaults
    /\ faults' = faults + 1

-----------------------------------------------------------------------------
(* What the two ends do to a connection. *)

\* connect_timeout succeeds and the first frame is written.
Establish(c, m) ==
    /\ up' = [up EXCEPT ![c] = <<m>>]
    /\ sOpen' = [sOpen EXCEPT ![c] = TRUE]
    /\ rOpen' = [rOpen EXCEPT ![c] = TRUE]
    /\ backlog' = Append(backlog, c)

\* write_frame does not block: there is room, or nobody reads any more.
CanWrite(c) == Len(up[c]) < Window \/ broken[c] \/ ~rOpen[c]

\* Mutant: write_frame does not flush.
WritesUnflushed(c, m) == UNCHANGED <<up, broken>>

\* A write to an end that is closed or lost succeeds and its frame is gone;
\* the answer to a frame for a closed end is a reset.
PcWrites(c, m) ==
    /\ up' = IF rOpen[c] /\ ~broken[c] THEN [up EXCEPT ![c] = Append(@, m)]
                                       ELSE up
    /\ broken' = [broken EXCEPT ![c] = @ \/ ~rOpen[c]]

DeckWrites(c, m) ==
    /\ down' = IF sOpen[c] /\ ~broken[c] THEN [down EXCEPT ![c] = Append(@, m)]
                                         ELSE down
    /\ broken' = [broken EXCEPT ![c] = @ \/ ~sOpen[c]]

PcReads(c) == down' = [down EXCEPT ![c] = Tail(@)]
DeckReads(c) == up' = [up EXCEPT ![c] = Tail(@)]

\* Closing an end throws its unread frames away; if there were any the other
\* end gets a reset instead of an end of stream.
PcCloses(c, unread) ==
    /\ sOpen' = [sOpen EXCEPT ![c] = FALSE]
    /\ down' = [down EXCEPT ![c] = <<>>]
    /\ broken' = [broken EXCEPT ![c] = @ \/ unread # <<>>]

DeckCloses(c, unread) ==
    /\ rOpen' = [rOpen EXCEPT ![c] = FALSE]
    /\ up' = [up EXCEPT ![c] = <<>>]
    /\ broken' = [broken EXCEPT ![c] = @ \/ unread # <<>>]

\* The process that owns the listener ends: the port is free and every
\* connection, accepted or not, is reset.
DeckGone ==
    /\ bound' = FALSE
    /\ backlog' = <<>>
    /\ rOpen' = [c \in Conn |-> FALSE]
    /\ up' = [c \in Conn |-> <<>>]
    /\ broken' = [c \in Conn |-> broken[c] \/ rOpen[c]]

\* When a read or a write can fail: after a reset, or at the end of stream.
PcSeesError(c) == broken[c] \/ (~rOpen[c] /\ down[c] = <<>>)

\* Mutant: the end of the stream reads as nothing yet.
DeckSeesReset(c) == broken[c]

DeckSeesError(c) == broken[c] \/ (~sOpen[c] /\ up[c] = <<>>)

-----------------------------------------------------------------------------
\* The network drops a connection.  Of the frames in flight each end receives
\* some prefix.
Disconnect(c) ==
    /\ ~broken[c]
    /\ sOpen[c] \/ rOpen[c]
    /\ \E k \in 0 .. Len(up[c]) : up' = [up EXCEPT ![c] = SubSeq(@, 1, k)]
    /\ \E k \in 0 .. Len(down[c]) : down' = [down EXCEPT ![c] = SubSeq(@, 1, k)]
    /\ broken' = [broken EXCEPT ![c] = TRUE]
    /\ Fault
    /\ UNCHANGED <<sOpen, rOpen, backlog, bound>>
=============================================================================
