------------------------------ MODULE Collect ------------------------------
(***************************************************************************)
(* How the PC makes an offer of what the user chose: collect_sources,      *)
(* collect_directory and add_source (crates/core/src/sender.rs), while the *)
(* user goes on working in the chosen folders, and what encode_offer and   *)
(* decode_offer (crates/core/src/protocol.rs) make of the paths.  Sender   *)
(* has what happens to the data.                                           *)
(*                                                                         *)
(* A path is a sequence of names, and a name is the sequence of words      *)
(* between its backslashes, which are ordinary characters on the PC.       *)
(***************************************************************************)
EXTENDS SafePath

CONSTANTS
    Rank,         \* the names of files and folders, and their order
    Unsendable,   \* those that are not Unicode, or too long for push_string
    Huge,         \* the names of files of which no two have a total in a u64
    MaxFiles,     \* MAX_FILES: 100,000 in the code
    MaxWords,     \* words that a frame has room for, for MAX_CONTROL_PAYLOAD
    Trees,        \* what may be on the PC's disk at first
    Selections,   \* the inputs that may be chosen: sequences of paths
    Fresh,        \* bound: names the user may give
    MaxEdits      \* bound: what the user does on the disk in one behaviour

VARIABLES
    tree,       \* the kind of what is at each path
    chosen,     \* the inputs
    next,       \* the input that is taken next
    todo,       \* entries that have been listed and not visited, first first
    sources,    \* the files that have been added
    pc,         \* where send_paths is
    wanted,     \* the paths of the offer as the Deck reads them
    touched,    \* history: where the user did something
    unread,     \* history: what could not be read although it is there
    edits

vars == <<tree, chosen, next, todo, sources, pc, wanted, touched, unread, edits>>

Init ==
    /\ tree \in Trees
    /\ chosen \in Selections
    /\ next = 1
    /\ todo = <<>>
    /\ sources = <<>>
    /\ pc = "collect"
    /\ wanted = <<>>
    /\ touched = {}
    /\ unread = {}
    /\ edits = 0

Fails ==
    /\ pc' = "failed"
    /\ UNCHANGED <<tree, chosen, next, todo, sources, wanted, touched, edits>>

Fail == Fails /\ UNCHANGED unread

\* The system does not let the PC read what is at p, or cannot.
CannotRead(p) == Fails /\ unread' = unread \cup {p}

-----------------------------------------------------------------------------
(* collect_sources.  todo is what is left to do in the calls of            *)
(* collect_directory that are under way.                                   *)

TakeInput ==
    /\ pc = "collect" /\ todo = <<>> /\ next <= Len(chosen)
    /\ LET p == chosen[next] IN
       IF p \notin DOMAIN tree \/ p = <<>> THEN Fail
       ELSE
         \/ CannotRead(p)
         \/ /\ todo' = << [at |-> p, path |-> <<Last(p)>>, kind |-> tree[p]] >>
            /\ next' = next + 1
            /\ UNCHANGED <<tree, chosen, sources, pc, wanted, touched, unread, edits>>

Visiting(kinds) == pc = "collect" /\ todo # <<>> /\ Head(todo).kind \in kinds

\* Symbolic links and whatever is not a file or a folder.
RefuseEntry == Visiting({"link", "other"}) /\ Fail

Children(p) == {q \in DOMAIN tree : q # <<>> /\ Front(q) = p}

\* The children of a folder by name.
ByName(p) ==
    {s \in SetToSeqs(Children(p)) :
       \A j, k \in DOMAIN s : j < k => ~(Rank[Last(s[k])] < Rank[Last(s[j])])}

\* Mutant: the kinds are those behind the links.
ListingsBehindLinks(e) ==
    {[k \in DOMAIN s |->
        [at |-> s[k], path |-> Append(e.path, Last(s[k])),
         kind |-> IF tree[s[k]] = "link" THEN "dir" ELSE tree[s[k]]]] : s \in ByName(e.at)}

\* read_dir and the sort; the kinds are the ones that were listed.
Listings(e) ==
    {[k \in DOMAIN s |->
        [at |-> s[k], path |-> Append(e.path, Last(s[k])), kind |-> tree[s[k]]]] :
       s \in ByName(e.at)}

\* Mutant: the entries after the folder are lost.
DescendOnly(listed) == listed

\* The recursive call: the entries of the folder come before those after it.
Descend(listed) == listed \o Tail(todo)

EnterDirectory ==
    /\ Visiting({"dir"})
    /\ LET e == Head(todo) IN
       IF e.at \notin DOMAIN tree \/ tree[e.at] # "dir" THEN Fail
       ELSE
         \/ CannotRead(e.at)
         \/ /\ \E listed \in Listings(e) : todo' = Descend(listed)
            /\ UNCHANGED <<tree, chosen, next, sources, pc, wanted, touched, unread, edits>>

\* Mutant: two inputs may produce the same path.
NeverTaken(path) == FALSE

\* The path is in wire_paths.
Taken(path) == \E k \in DOMAIN sources : sources[k].path = path

\* SafeRelativePath::new takes every path of names that a disk can have.
AddSource ==
    /\ Visiting({"file"})
    /\ LET e == Head(todo) IN
       IF Taken(e.path) \/ e.at \notin DOMAIN tree \/ tree[e.at] # "file"
       THEN Fail
       ELSE
         \/ CannotRead(e.at)
         \/ /\ sources' = Append(sources, [at |-> e.at, path |-> e.path])
            /\ todo' = Tail(todo)
            /\ UNCHANGED <<tree, chosen, next, pc, wanted, touched, unread, edits>>

\* Path::cmp, which compares name by name.
IsBefore(p, q) ==
    \/ IsStrictPrefix(p, q)
    \/ \E k \in DOMAIN p \cap DOMAIN q :
         /\ SubSeq(p, 1, k - 1) = SubSeq(q, 1, k - 1)
         /\ Rank[p[k]] < Rank[q[k]]

\* Every input has been taken; an offer has at least one file.
Collected ==
    /\ pc = "collect" /\ todo = <<>> /\ next > Len(chosen)
    /\ IF sources = <<>> THEN Fail
       ELSE
         /\ pc' = "offer"
         /\ sources' \in
              {s \in SetToSeqs(Range(sources)) :
                 \A j, k \in DOMAIN s : j < k => ~IsBefore(s[k].path, s[j].path)}
         /\ UNCHANGED <<tree, chosen, next, todo, wanted, touched, unread, edits>>

-----------------------------------------------------------------------------
(* encode_offer at the PC and decode_offer at the Deck. *)

\* replace('\\', "/").
Encoded(path) == FlattenSeq(path)

\* The names can be written, by to_str and push_string.
CanBeSent == \A k \in DOMAIN sources : Range(sources[k].path) \cap Unsendable = {}

\* The sizes add up to a u64, which is computed before the PC connects.
TotalFits ==
    \A j, k \in DOMAIN sources :
        Last(sources[j].at) \in Huge /\ Last(sources[k].at) \in Huge => j = k

\* Mutant: one file too many is let through.
OneMore == Len(sources) <= MaxFiles + 1

FewEnough == Len(sources) <= MaxFiles

\* write_frame sends the paths in one frame.
FitsFrame ==
    Len(FlattenSeq([k \in DOMAIN sources |-> Encoded(sources[k].path)])) <= MaxWords

EncodeOffer ==
    /\ pc = "offer"
    /\ IF ~(TotalFits /\ FewEnough /\ CanBeSent /\ FitsFrame) THEN Fail
       ELSE
         /\ pc' = "sent"
         /\ wanted' = [k \in DOMAIN sources |-> Encoded(sources[k].path)]
         /\ UNCHANGED <<tree, chosen, next, todo, sources, touched, unread, edits>>

DecodeOffer ==
    /\ pc = "sent"
    /\ IF Len(wanted) > MaxFiles \/ \E k \in DOMAIN wanted : ~Accepted(wanted[k])
       THEN Fail
       ELSE
         /\ pc' = "taken"
         /\ wanted' = [k \in DOMAIN wanted |-> Normalized(wanted[k])]
         /\ UNCHANGED <<tree, chosen, next, todo, sources, touched, unread, edits>>

-----------------------------------------------------------------------------
(* The user in the chosen folders. *)

Edit(p) ==
    /\ edits < MaxEdits
    /\ edits' = edits + 1
    /\ touched' = touched \cup {p}
    /\ UNCHANGED <<chosen, next, todo, sources, pc, wanted, unread>>

Create(p, kind) ==
    /\ Edit(p)
    /\ p \notin DOMAIN tree
    /\ tree' = [q \in DOMAIN tree \cup {p} |-> IF q = p THEN kind ELSE tree[q]]

\* With everything beneath it.
Delete(p) ==
    /\ Edit(p)
    /\ tree' = [q \in {q \in DOMAIN tree : ~IsPrefix(p, q)} |-> tree[q]]

\* send_paths has returned, or the Deck has the offer.
Finished == pc \in {"failed", "taken"} /\ UNCHANGED vars

Walk == TakeInput \/ RefuseEntry \/ EnterDirectory \/ AddSource \/ Collected
          \/ EncodeOffer \/ DecodeOffer

Next ==
    \/ Walk
    \/ Finished
    \/ \E d \in DOMAIN tree, n \in Fresh, kind \in {"dir", "file"} :
         tree[d] = "dir" /\ Create(Append(d, n), kind)
    \/ \E p \in DOMAIN tree \ {<<>>} : Delete(p)

\* The walk runs on a thread of its own and waits for nobody.
Spec == Init /\ [][Next]_vars /\ WF_vars(Walk)

-----------------------------------------------------------------------------
\* Nothing was done at p or above it.
Stays(p) == \A t \in touched : ~IsPrefix(t, p)

\* The names are those that are ordered, what is in a tree is in a folder of it,
\* and t is a tree.
IsDisk(t) ==
    /\ IsFiniteSet(DOMAIN t)
    /\ \A p \in DOMAIN t :
          /\ p \in Seq(DOMAIN Rank)
          /\ t[p] \in {"dir", "file", "link", "other"}
          /\ p # <<>> => Front(p) \in DOMAIN t /\ t[Front(p)] = "dir"

\* The shape of the tree, and that what was listed is what is there, as long
\* as nobody touched it.
TypeOK ==
    /\ IsDisk(tree)
    /\ \A k \in DOMAIN todo :
         LET e == todo[k] IN
         Stays(e.at) => e.at \in DOMAIN tree /\ e.kind = tree[e.at]
    /\ next \in 1 .. Len(chosen) + 1
    /\ pc \in {"collect", "offer", "sent", "taken", "failed"}
    /\ edits \in 0 .. MaxEdits

Beneath(i, kinds) == {p \in DOMAIN tree : IsPrefix(i, p) /\ tree[p] \in kinds}

\* The files beneath input i that stay, with the paths they must be offered by.
Expected(i) ==
    {[at |-> p, path |-> SubSeq(p, Len(i), Len(p))] :
       p \in {p \in Beneath(i, {"file"}) : Stays(p)}}

\* Whatever else happens in the folders meanwhile, collect_sources returns
\* every file that stayed where it was, by the path from its input on, and
\* every other one is one the user touched.
OfferIsTheTree ==
    pc \in {"offer", "sent", "taken"} =>
        {s \in Range(sources) : Stays(s.at)} = UNION {Expected(i) : i \in Range(chosen)}

\* The reasons to refuse a selection in which nobody touches anything, and all
\* of which can be read: what is not there or not of a kind that is sent, nothing
\* to send, two files of one path, a name that cannot be sent, or that becomes a
\* path out of the folder by its backslashes, and more than an offer has room for.
Faulty ==
    \/ \E i \in Range(chosen) :
         i = <<>> \/ i \notin DOMAIN tree \/ Beneath(i, {"link", "other"}) # {}
    \/ \A i \in Range(chosen) : Expected(i) = {}
    \/ \E j, k \in DOMAIN chosen :
         /\ j # k
         /\ \E s \in Expected(chosen[j]), t \in Expected(chosen[k]) : s.path = t.path
    \/ \E i \in Range(chosen) : \E s \in Expected(i) :
         Range(s.path) \cap Unsendable # {} \/ ~Accepted(Encoded(s.path))
    \/ ~(TotalFits /\ FewEnough /\ FitsFrame)

\* A selection fails only if there is something wrong with it or with the disk:
\* the PC does not refuse what it can send, nor the Deck what the PC offers.
RefusedForAReason == pc = "failed" /\ touched = {} /\ unread = {} => Faulty

\* A name of an offered path has a backslash.
Backslashed == \E s \in Range(sources) : \E n \in Range(s.path) : Len(n) > 1

\* The Deck reads an offer that names two files alike ("two inputs produce the
\* same destination path") only if a name has a backslash, which encode_offer
\* replaces after collect_sources has compared the paths.
NoTwoAlike == pc = "taken" => IsInjective(wanted) \/ Backslashed

\* Collecting ends, with an offer the Deck has read or with an error.
WalkEnds == <>(pc \in {"taken", "failed"})
=============================================================================
