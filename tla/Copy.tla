-------------------------------- MODULE Copy --------------------------------
(***************************************************************************)
(* From what the user chooses on the PC to what is in the receive folder:  *)
(* the offer that Collect makes is the one that Destinations stores.  The  *)
(* Deck's folder is looked at from the moment the PC sends the offer       *)
(* (send_paths, crates/core/src/sender.rs), and the PC's no longer.        *)
(***************************************************************************)
EXTENDS SafePath

CONSTANTS
    Rank, Unsendable, Huge, MaxFiles, MaxWords,                  \* of Collect
    PcTrees, Selections, Fresh, MaxPcEdits,
    Variants, Partials, DeckTrees, Spots, MaxDeckEdits,          \* of Destinations
    MaxFaults,
    Offers,       \* bound: the offers that are followed at the Deck
    RawPaths      \* paths that any peer may send

VARIABLES
    handed,                                                        \* an offer was
    pcTree, chosen, next, todo, sources, pcAt, wanted, touched, unread, pcEdits,
    deckTree, deckAt, offer, entry, depth, plan, outside, relinked, late,
    deckEdits, faults

pcVars ==
    <<pcTree, chosen, next, todo, sources, pcAt, wanted, touched, unread, pcEdits>>
deckVars == <<deckTree, deckAt, offer, entry, depth, plan, outside, relinked, late,
              deckEdits, faults>>
vars == <<handed, pcVars, deckVars>>

C == INSTANCE Collect WITH
         Trees <- PcTrees, MaxEdits <- MaxPcEdits,
         tree <- pcTree, pc <- pcAt, edits <- pcEdits

D == INSTANCE Destinations WITH
         Trees <- DeckTrees, MaxEdits <- MaxDeckEdits,
         tree <- deckTree, pc <- deckAt, edits <- deckEdits

\* The names on the PC are texts between backslashes, and none is empty, "." or
\* ".."; what is on its disk is a tree.  An offer has files, and their names have
\* variants; the receive folder is a tree.  Nothing is offered beneath the folder
\* of the partial files, and the user leaves the partial files alone.
ASSUME CopyAssumption ==
    /\ \A n \in DOMAIN Rank :
          /\ n \in Seq(STRING) /\ n # <<>> /\ Rank[n] \in Nat
          /\ Len(n) = 1 => n[1] \notin {"", ".", ".."}
    /\ \A t \in PcTrees : C!IsDisk(t)
    /\ Selections \subseteq Seq(Seq(DOMAIN Rank))
    /\ Fresh \subseteq DOMAIN Rank
    /\ MaxFiles \in Nat /\ MaxWords \in Nat /\ MaxPcEdits \in Nat
    /\ RawPaths \subseteq Seq(STRING)
    /\ \A o \in Offers :
          /\ o \in Seq(Seq(STRING)) /\ o # <<>> /\ <<>> \notin Range(o)
          /\ \A p \in Range(o) :
                Variants[Last(p)] \in Seq(STRING) /\ ~IsStrictPrefix(<<Partials>>, p)
    /\ \A t \in DeckTrees : D!IsTree(t)
    /\ Partials \in STRING
    /\ Spots \subseteq Seq(STRING) /\ \A p \in Spots : ~IsStrictPrefix(<<Partials>>, p)
    /\ MaxDeckEdits \in Nat /\ MaxFaults \in Nat

\* Nothing is known of the Deck yet.
DeckUnseen ==
    /\ deckTree = <<>> /\ deckAt = "off" /\ offer = <<>> /\ entry = 1
    /\ depth = 0 /\ plan = <<>> /\ outside = {} /\ relinked = {} /\ late = {}
    /\ deckEdits = 0 /\ faults = 0

Init == handed = FALSE /\ C!Init /\ DeckUnseen

NoTree == [p \in {<<>>} |-> "dir"]

\* A peer that is not this program offers one file, by any path.
OfferAnything ==
    /\ ~handed /\ pcAt = "collect" /\ chosen = <<>> /\ touched = {} /\ unread = {}
    /\ \E raw \in RawPaths : wanted' = <<raw>>
    /\ pcAt' = "sent"
    /\ pcTree' = NoTree /\ pcEdits' = MaxPcEdits
    /\ UNCHANGED <<handed, chosen, next, todo, sources, touched, unread, deckVars>>

\* The offer is sent to a Deck whatever is in its folder; what the PC knew is
\* not needed any more.
HandOver ==
    /\ ~handed /\ pcAt = "taken" /\ wanted \in Offers
    /\ handed' = TRUE
    /\ deckTree' \in DeckTrees /\ offer' = wanted
    /\ UNCHANGED
         <<deckAt, entry, depth, plan, outside, relinked, late, deckEdits, faults>>
    /\ pcTree' = NoTree /\ chosen' = <<>> /\ next' = 1
    /\ todo' = <<>> /\ sources' = <<>> /\ wanted' = <<>>
    /\ touched' = {} /\ unread' = {} /\ pcEdits' = 0 /\ UNCHANGED pcAt

Pc(A) == ~handed /\ A /\ UNCHANGED <<handed, deckVars>>
Deck(A) == handed /\ A /\ UNCHANGED <<handed, pcVars>>

Next == Pc(C!Next) \/ OfferAnything \/ HandOver \/ Deck(D!Next)

Spec ==
    /\ Init /\ [][Next]_vars
    /\ WF_vars(Pc(C!Walk)) /\ WF_vars(HandOver)
    /\ WF_vars(Deck(D!Listen)) /\ WF_vars(Deck(D!ReceiveOffer)) /\ WF_vars(Deck(D!Step))

-----------------------------------------------------------------------------
Above == <<"..">>

\* Where the operating system gets to from a root when it follows a path.
Step(here, w) ==
    IF here = Above \/ w \in {"", "."} THEN here
    ELSE IF w # ".." THEN Append(here, w)
    ELSE IF here = <<>> THEN Above
    ELSE Front(here)

Reached(path) ==
    LET at[n \in 0 .. Len(path)] ==
            IF n = 0 THEN <<>> ELSE Step(at[n - 1], path[n])
    IN  at[Len(path)]

\* A path that SafeRelativePath::new takes leads to something beneath the root,
\* and its normal form, which is taken too, is the way there.
IsBeneath(raw) ==
    LET way == Normalized(raw)
    IN  /\ Reached(raw) = way /\ way \notin {<<>>, Above}
        /\ Accepted(way) /\ Normalized(way) = way

\* The trees of both machines are trees, and so on.
TypeOK == C!TypeOK /\ (handed => D!TypeOK)

\* What Collect promises: every file that stays is offered, by its path.
OfferIsTheTree == C!OfferIsTheTree

\* A selection fails only if there is something wrong with it or with the disk.
RefusedForAReason == C!RefusedForAReason

\* Two files that the Deck reads by the same path are due to a backslash.
NoTwoAlike == C!NoTwoAlike

\* Whatever path a peer sends, a path that is taken leads beneath the root; and
\* no link there is followed, but one the user put where ensure_real_directory
\* had found or made a real folder for this offer, or prepare_root for the root.
StaysInside ==
    /\ pcAt = "sent" => \A raw \in Range(wanted) : Accepted(raw) => IsBeneath(raw)
    /\ D!StaysInside

\* The receiver replaces nothing but what it cannot see, whatever is there.
KeepsBoth == [][handed => D!KeepsBothStep]_vars

\* An attempt fails on its own only for one of the reasons that are named.
FailsForAReason == [][handed => D!FailsForAReasonStep]_vars

\* Collecting ends, with an offer the Deck has read or with an error, and what
\* was offered is stored unless something stays in the way for ever.  A failed
\* attempt never makes the next one fail.
EventuallyStored == C!WalkEnds /\ (handed ~> (deckAt = "done" \/ []D!Blocked))
=============================================================================
