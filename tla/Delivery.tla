------------------------------ MODULE Delivery ------------------------------
(***************************************************************************)
(* What the Deck and the success the PC reports promise, without the       *)
(* connections, frames and retries that keep the promise.  The Deck agrees *)
(* to receive some files, receives each of them bit by bit, and gives it a *)
(* name when it is whole.  It may break off at any point and keeps what it *)
(* has.                                                                    *)
(***************************************************************************)
EXTENDS Wire, Functions

CONSTANT Place    \* names in the receive folder

VARIABLES
    inbox,     \* the receive folder; by is {f} for a file stored for offer f
    held,      \* what has been received of the files that are not stored yet
    agreed,    \* the files the Deck has agreed to receive and not stored yet
    told       \* the files the PC's user was told have arrived

vars == <<inbox, held, agreed, told>>

Stored == UNION {inbox[p].by : p \in DOMAIN inbox}

HeldWhole(f) ==
    f \in DOMAIN held /\ held[f] = f.hash /\ f.size = Len(f.hash)

Delivered(f) == f \in Stored \/ HeldWhole(f)

Init ==
    /\ inbox = <<>>
    /\ held = <<>>
    /\ agreed = <<>>
    /\ told = {}

Agree ==
    /\ agreed = <<>>
    /\ agreed' \in Seq(FileOffer)
    /\ UNCHANGED <<inbox, held, told>>

Abandon ==
    /\ agreed' = <<>>
    /\ UNCHANGED <<inbox, held, told>>

\* More of the next file arrives, after which the transfer may break off.
Receive ==
    /\ agreed # <<>>
    /\ LET f == Head(agreed)
           have == IF f \in DOMAIN held THEN held[f] ELSE <<>>
       IN  \E n \in Len(have) .. f.size : \E data \in [1 .. n -> Block] :
              /\ SubSeq(data, 1, Len(have)) = have
              /\ held' = With(held, f, data)
    /\ agreed' \in {agreed, <<>>}
    /\ UNCHANGED <<inbox, told>>

\* Only what cannot become the offered file is thrown away.
Discard(f) ==
    /\ ~CanBecome(held[f], f)
    /\ held' = With(held, f, <<>>)
    /\ agreed' \in {agreed, <<>>}
    /\ UNCHANGED <<inbox, told>>

\* The next file, received whole, gets a name.  The name is free, or taken by a
\* file that the Deck has not received.
Store(p) ==
    /\ agreed # <<>>
    /\ HeldWhole(Head(agreed))
    /\ p \in DOMAIN inbox => inbox[p].by = {}
    /\ inbox' = With(inbox, p, [data |-> Head(agreed).hash, by |-> {Head(agreed)}])
    /\ held' = Restrict(held, DOMAIN held \ {Head(agreed)})
    /\ agreed' = Tail(agreed)
    /\ UNCHANGED told

Confirm ==
    /\ told = {}
    /\ told' # {}
    /\ \A f \in told' : Delivered(f)
    /\ UNCHANGED <<inbox, held, agreed>>

\* The Deck loses power.  What was stored is still stored or held whole, what
\* has a name was there before, and nothing that was told becomes untrue.  What
\* is held of other files may be changed or lost, and so may the files that the
\* Deck did not receive.
PowerLoss ==
    /\ agreed' = <<>>
    /\ \A f \in Stored \cup told : Delivered(f)'
    /\ DOMAIN inbox' \subseteq DOMAIN inbox
    /\ \A p \in DOMAIN inbox' : inbox'[p] = inbox[p] \/ inbox'[p].by = {}
    /\ UNCHANGED told

\* Somebody else puts a file into the receive folder.
LocalWrite(p) ==
    /\ p \notin DOMAIN inbox
    /\ DOMAIN inbox' = DOMAIN inbox \cup {p}
    /\ \A q \in DOMAIN inbox : inbox'[q] = inbox[q]
    /\ inbox'[p].by = {}
    /\ UNCHANGED <<held, agreed, told>>

Next ==
    \/ Agree
    \/ Abandon
    \/ Receive
    \/ \E f \in DOMAIN held : Discard(f)
    \/ \E p \in Place : Store(p) \/ LocalWrite(p)
    \/ Confirm
    \/ PowerLoss

Spec == Init /\ [][Next]_vars

-----------------------------------------------------------------------------
\* What the user was told is true and stays true.
ToldIsTrue == \A f \in told : Delivered(f)

\* A name means a whole file.
NamedIsWhole == \A p \in DOMAIN inbox : \A f \in inbox[p].by : inbox[p].data = f.hash
=============================================================================
