---------------------------- MODULE Destinations ----------------------------
(***************************************************************************)
(* The receive folder as a tree: prepare_root, ensure_real_directory,      *)
(* unique_destination and the rename (crates/core/src/receiver.rs), with   *)
(* folders, symbolic links, files put in the way while the offer is        *)
(* received, and a PC that offers the same files until they are stored.    *)
(* Receiver has what happens to the data; here a file is received in one   *)
(* step, the one that names it.                                            *)
(*                                                                         *)
(* A path is a sequence of names; the receive folder itself is Root.  What *)
(* lies beyond a link is not modelled: whatever is looked for, made or     *)
(* stored there may be found, may succeed, or may fail.  The partial files *)
(* are not nodes either, and no offer names a path beneath their folder:   *)
(* see Receiver for one that does.                                         *)
(***************************************************************************)
EXTENDS Naturals, SequencesExt

CONSTANTS
    Variants,     \* Variants[n]: name n, then its numbered variants; 10,000 of
                  \* them in the code
    Partials,     \* the name .sdft-partials
    Offers,       \* offers the PC may make: the paths of the files
    Trees,        \* what may be in the receive folder at first
    Spots,        \* paths the Deck's user may put something at
    MaxEdits,     \* bound: what the user does in the folder in one behaviour
    MaxFaults     \* bound: attempts that are cut off in one behaviour

VARIABLES
    tree,      \* what is at each path
    pc,        \* where the receiver is
    offer,     \* the paths of the offer
    entry,     \* the file that is planned or received
    depth,     \* its folders that have been ensured
    plan,      \* the destinations found so far
    outside,   \* links through which something of the offer was made or stored
    relinked,  \* history: links put where the receiver had found a real folder
    late,      \* history: planned destinations filled since by the user
    edits, faults

vars ==
    <<tree, pc, offer, entry, depth, plan, outside, relinked, late, edits, faults>>

Root == <<>>
Parent(p) == Front(p)

\* by tells which file of the offer this is, and is 0 for what the receiver did
\* not store.  "link" leads to a folder elsewhere, "dangling" to nothing.
Node == [kind : {"dir", "file", "link", "dangling"}, by : Nat]
Dir == [kind |-> "dir", by |-> 0]

IsDir(p) == p \in DOMAIN tree /\ tree[p].kind = "dir"

\* The links on the way into folder f; the system follows them.
LinksInto(f) == {q \in DOMAIN tree : IsPrefix(q, f) /\ tree[q].kind = "link"}

\* Mutant: Path::is_file.
IsFile(p) == p \in DOMAIN tree /\ tree[p].kind = "file"

\* Path::exists follows links.
Exists(p) == p \in DOMAIN tree /\ tree[p].kind # "dangling"

Grow(p, node) == [q \in DOMAIN tree \cup {p} |-> IF q = p THEN node ELSE tree[q]]

\* What is in a tree is in a folder of it, and t is a tree.
IsTree(t) ==
    \A p \in DOMAIN t :
        /\ p \in Seq(STRING) /\ t[p] \in Node
        /\ p # Root => Parent(p) \in DOMAIN t /\ t[Parent(p)].kind = "dir"

TypeOK ==
    /\ IsTree(tree)
    /\ pc \in {"off", "listening", "plan", "rename", "confirm", "done"}
    /\ offer \in Offers
    /\ entry \in DOMAIN offer
    /\ depth \in 0 .. Len(offer[entry])
    /\ Len(plan) <= Len(offer)
    /\ edits \in 0 .. MaxEdits
    /\ faults \in 0 .. MaxFaults

Init ==
    /\ tree \in Trees
    /\ offer \in Offers
    /\ pc = "off"
    /\ entry = 1
    /\ depth = 0
    /\ plan = <<>>
    /\ outside = {}
    /\ relinked = {}
    /\ late = {}
    /\ edits = 0
    /\ faults = 0

\* receive_stream returns, and the receiver waits for the next offer.
Leave ==
    /\ pc' = "listening"
    /\ entry' = 1
    /\ depth' = 0
    /\ plan' = <<>>
    /\ late' = {}

\* prepare_root: create_dir_all, and the result is a real directory.
Listen ==
    /\ pc = "off"
    /\ Root \in DOMAIN tree => IsDir(Root)
    /\ tree' = IF Root \in DOMAIN tree THEN tree ELSE Grow(Root, Dir)
    /\ pc' = "listening"
    /\ outside' = {} /\ relinked' = {}
    /\ UNCHANGED <<offer, entry, depth, plan, late, edits, faults>>

ReceiveOffer ==
    /\ pc = "listening"
    /\ pc' = "plan"
    /\ outside' = {} /\ relinked' = relinked \cap {Root}
    /\ UNCHANGED <<tree, offer, entry, depth, plan, late, edits, faults>>

-----------------------------------------------------------------------------
(* prepare_files. *)

\* Mutant: create_dir of the parent alone.
FoldersLastOnly(e) ==
    (IF e = 1 THEN <<<<Partials>>>> ELSE <<>>)
      \o IF Len(offer[e]) > 1 THEN <<Parent(offer[e])>> ELSE <<>>

\* The folders that are ensured before file e gets a destination.
Folders(e) ==
    (IF e = 1 THEN <<<<Partials>>>> ELSE <<>>)
      \o [k \in 1 .. Len(offer[e]) - 1 |-> SubSeq(offer[e], 1, k)]

\* Mutant: symlink_metadata is not looked at.
IsOrCanBeAnything(p) == p \in DOMAIN tree \/ IsDir(Parent(p))

\* ensure_real_directory finds or can make a directory.
IsOrCanBeFolder(p) == IF p \in DOMAIN tree THEN IsDir(p) ELSE IsDir(Parent(p))

\* Beyond a link, it may find one or make one.
EnsureFolder ==
    LET folder == Folders(entry)[depth + 1]
        links == LinksInto(Parent(folder))
    IN  /\ pc = "plan"
        /\ depth < Len(Folders(entry))
        /\ \/ /\ IsOrCanBeFolder(folder)
              /\ tree' = IF folder \in DOMAIN tree THEN tree ELSE Grow(folder, Dir)
              /\ UNCHANGED outside
           \/ /\ links # {}
              /\ outside' \in {outside, outside \cup links}
              /\ UNCHANGED tree
        /\ depth' = depth + 1
        /\ UNCHANGED <<pc, offer, entry, plan, relinked, late, edits, faults>>

\* Mutant: destinations of the same offer are not looked at.
NotOnDisk(d) == ~Exists(d)

IsFree(d) == ~Exists(d) /\ d \notin Range(plan)

Candidates(e) ==
    [k \in DOMAIN Variants[Last(offer[e])] |->
        Append(Parent(offer[e]), Variants[Last(offer[e])][k])]

\* d is taken, or may be, beyond a link.
MayBeTaken(d) == ~IsFree(d) \/ LinksInto(Parent(d)) # {}

\* unique_destination.
ChooseDestination ==
    /\ pc = "plan"
    /\ depth = Len(Folders(entry))
    /\ \E k \in DOMAIN Candidates(entry) :
          /\ IsFree(Candidates(entry)[k])
          /\ \A j \in 1 .. k - 1 : MayBeTaken(Candidates(entry)[j])
          /\ plan' = Append(plan, Candidates(entry)[k])
    /\ IF entry = Len(offer) THEN pc' = "rename" /\ entry' = 1
                             ELSE pc' = "plan" /\ entry' = entry + 1
    /\ depth' = 0
    /\ UNCHANGED <<tree, offer, outside, relinked, late, edits, faults>>

\* A folder cannot be made, or no name is free.
Refuse ==
    /\ pc = "plan"
    /\ IF depth < Len(Folders(entry))
       THEN ~IsOrCanBeFolder(Folders(entry)[depth + 1])
       ELSE \A d \in Range(Candidates(entry)) : MayBeTaken(d)
    /\ Leave
    /\ UNCHANGED <<tree, offer, outside, relinked, edits, faults>>

-----------------------------------------------------------------------------
(* The loop over the planned files. *)

Destination == plan[entry]

\* The partial file can be opened: create(true) makes it.
CanOpen == IsDir(<<Partials>>)

\* fs::rename replaces anything but a folder.
CanName == IsDir(Parent(Destination)) /\ ~IsDir(Destination)

\* The file is received, and renamed to its destination.
Rename ==
    /\ pc = "rename"
    /\ CanOpen \/ LinksInto(<<Partials>>) # {}
    /\ LET links == LinksInto(Parent(Destination)) IN
          /\ CanName \/ links # {}
          /\ tree' = IF links # {} THEN tree
                     ELSE Grow(Destination, [kind |-> "file", by |-> entry])
          /\ outside' = outside \cup LinksInto(<<Partials>>) \cup links
    /\ IF entry = Len(offer) THEN pc' = "confirm" /\ UNCHANGED entry
                             ELSE pc' = "rename" /\ entry' = entry + 1
    /\ UNCHANGED <<offer, depth, plan, relinked, late, edits, faults>>

\* The partial file cannot be opened, or cannot be renamed once it was.
RenameFails ==
    /\ pc = "rename"
    /\ ~(CanOpen /\ CanName)
    /\ outside' \in {outside, outside \cup LinksInto(<<Partials>>)}
    /\ Leave
    /\ UNCHANGED <<tree, offer, relinked, edits, faults>>

\* The PC learns that everything is stored, and offers nothing more.
Confirm ==
    /\ pc = "confirm"
    /\ pc' = "done"
    /\ UNCHANGED
         <<tree, offer, entry, depth, plan, outside, relinked, late, edits, faults>>

-----------------------------------------------------------------------------
(* Everybody else. *)

\* The connection is lost, or the receiver ends.
CutOff ==
    /\ pc \in {"plan", "rename", "confirm"}
    /\ faults < MaxFaults
    /\ faults' = faults + 1
    /\ \/ Leave
       \/ pc' = "off" /\ entry' = 1 /\ depth' = 0 /\ plan' = <<>> /\ late' = {}
    /\ UNCHANGED <<tree, offer, outside, relinked, edits>>

Edit ==
    /\ pc # "done"
    /\ edits < MaxEdits
    /\ edits' = edits + 1
    /\ UNCHANGED <<pc, offer, entry, depth, plan, outside, faults>>

\* The folders that the receiver has found or made real for the offer under way,
\* and the receive folder from prepare_root on.
Ensured ==
    IF pc = "off" THEN {}
    ELSE {Root} \cup
         IF pc = "listening" THEN {}
         ELSE UNION {
           {Folders(e)[k] : k \in {k \in DOMAIN Folders(e) :
                                    pc = "plan" /\ e = entry => k <= depth}} :
           e \in {e \in DOMAIN offer : pc = "plan" => e <= entry}}

\* The user puts something where nothing is.
Put(p, kind) ==
    /\ Edit
    /\ p \notin DOMAIN tree
    /\ p # Root => IsDir(Parent(p))
    /\ tree' = Grow(p, [kind |-> kind, by |-> 0])
    /\ late' = late \cup ({p} \cap Range(plan))
    /\ relinked' = IF kind = "link" THEN relinked \cup ({p} \cap Ensured) ELSE relinked

\* The user removes something, with everything in it.
TakeAway(p) ==
    /\ Edit
    /\ p \in DOMAIN tree
    /\ tree' = [q \in {q \in DOMAIN tree : ~IsPrefix(p, q)} |-> tree[q]]
    /\ UNCHANGED <<relinked, late>>

-----------------------------------------------------------------------------
Step ==
    \/ EnsureFolder
    \/ ChooseDestination
    \/ Refuse
    \/ Rename
    \/ RenameFails
    \/ Confirm

Next ==
    \/ Listen
    \/ ReceiveOffer
    \/ Step
    \/ CutOff
    \/ \E p \in Spots, kind \in {"dir", "file", "link", "dangling"} : Put(p, kind)
    \/ \E p \in Spots \cup {Root, <<Partials>>} : TakeAway(p)

Spec == Init /\ [][Next]_vars

-----------------------------------------------------------------------------
\* No link is followed but one that took the place of a folder after it had been
\* found to be real.
StaysInside == outside \subseteq relinked

\* The receiver replaces nothing in the tree but dangling links, which
\* Path::exists does not see, and what the user has put at a destination after
\* unique_destination had found it free.
KeepsBothStep ==
    \A p \in DOMAIN tree :
        \/ p \in DOMAIN tree' /\ tree'[p] = tree[p]
        \/ edits' # edits
        \/ tree[p].kind = "dangling"
        \/ p \in late

\* The offer cannot be stored: something else is where a folder has to be, the
\* receive folder was removed under a running receiver, which only
\* prepare_root makes again, or the names are used up.
Blocked ==
    \/ IF Root \in DOMAIN tree THEN ~IsDir(Root) ELSE pc # "off"
    \/ \E e \in DOMAIN offer :
          \/ \E p \in Range(Folders(e)) : p \in DOMAIN tree /\ ~IsDir(p)
          \/ \A d \in Range(Candidates(e)) : Exists(d)

\* A name that a file of the offer may get is a folder of another.
NameIsFolder ==
    \E e, f \in DOMAIN offer :
        \E d \in Range(Candidates(e)) : IsStrictPrefix(d, offer[f])

\* No name is left for the file that is planned, also because of the others.
NamesUsedUp == pc = "plan" /\ \A d \in Range(Candidates(entry)) : ~IsFree(d)

Fails == pc \in {"plan", "rename"} /\ pc' = "listening" /\ faults' = faults

\* An attempt fails on its own only if it is blocked, if the user has edited the
\* folder, if a name of the offer, numbered or not, is both a file and a folder,
\* or if there are too few names.
FailsForAReasonStep == Fails => Blocked \/ edits > 0 \/ NameIsFolder \/ NamesUsedUp
=============================================================================
