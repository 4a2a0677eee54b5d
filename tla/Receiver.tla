------------------------------ MODULE Receiver ------------------------------
(***************************************************************************)
(* The Deck's side of a transfer: listen and receive_stream                *)
(* (crates/core/src/receiver.rs), and the files they leave behind.  One    *)
(* thread serves one connection at a time, for ever; a connection that     *)
(* fails is reported and the next one is accepted.                         *)
(*                                                                         *)
(* Chunks are written to a partial file, whose name is made of the offer's *)
(* path, size and hash.  A complete and verified partial file is synced    *)
(* and renamed to its destination in the receive folder.                   *)
(*                                                                         *)
(* The partial files lie in the folder .sdft-partials of the receive       *)
(* folder, and no wire path is refused for beginning with that name: the   *)
(* destination of one file can be the partial file of another one.         *)
(***************************************************************************)
EXTENDS Link, Functions, FiniteSets

CONSTANTS
    Place,       \* names in the receive folder
    Candidates,  \* Candidates[p]: the requested destination of wire path p,
                 \* then its numbered variants; 10,000 of them in the code
    PartialAt    \* PartialAt[d]: the offer whose partial file has the name d,
                 \* for the places that are names of partial files

ASSUME ReceiverAssumption ==
    /\ Candidates \in [Path -> Seq(Place)]
    /\ IsPartialMap(PartialAt, Place, FileOffer)

VARIABLES
    rPc,         \* where the receiver is
    rConn,       \* the connection it serves
    rOffer,      \* the offer it was made
    plan,        \* prepare_files' plan as far as it is made
    rIndex,      \* the file it expects or receives
    rPos,        \* position in that file
    rHash,       \* what the hasher has been fed
    partials,    \* the partial files, by name
    inbox,       \* the other files in the receive folder, by place
    unflushed,   \* renames the disk has not committed yet
    aliased,     \* history: a file was stored at the name of a partial file
    foreign      \* history: planned places that somebody else has filled
                 \* since they were found free

receiverVars == <<rPc, rConn, rOffer, plan, rIndex, rPos, rHash>>
diskVars == <<partials, inbox, unflushed, aliased>>

NoOffer == [id |-> 0, files |-> <<>>]

Planned == [file : FileOffer, destination : Place, resume : Nat]

\* A file with the data in it, and whether the disk is known to hold them.
PartialFile == [data : Content, synced : BOOLEAN]

\* by is {f} for a file the receiver stored for offer f, and {} for a file
\* it did not store.
Stored == [data : Content, synced : BOOLEAN, by : SUBSET FileOffer]

ReceiverTypeOK ==
    /\ rPc \in {"off", "listening", "hello", "offer", "prepare", "start",
                "data", "rename", "complete", "finished"}
    /\ rConn \in Conn \cup {NoConn}
    /\ rOffer \in [id : Nat, files : Seq(FileOffer)]
    /\ plan \in Seq(Planned)
    /\ rIndex \in Nat
    /\ rPos \in Nat
    /\ rHash \in Content
    /\ IsPartialMap(partials, FileOffer, PartialFile)
    /\ IsPartialMap(inbox, Place, Stored)
    /\ unflushed \subseteq [place : Place, file : FileOffer,
                            was : PartialFile, over : SUBSET Stored]
    /\ aliased \in BOOLEAN
    /\ foreign \subseteq Place

ReceiverInit ==
    /\ rPc = "listening"
    /\ rConn = NoConn
    /\ rOffer = NoOffer
    /\ plan = <<>>
    /\ rIndex = 0
    /\ rPos = 0
    /\ rHash = <<>>
    /\ partials = <<>>
    /\ inbox = <<>>
    /\ unflushed = {}
    /\ aliased = FALSE
    /\ foreign = {}

Without(f, x) == Restrict(f, DOMAIN f \ {x})

\* A file that was just created, or emptied by set_len(0).
EmptyPartial == [data |-> <<>>, synced |-> FALSE]

\* write_all at position pos of a file that holds d.
WriteAt(d, pos, bytes) ==
    [k \in 1 .. (IF Len(d) > pos + Len(bytes) THEN Len(d) ELSE pos + Len(bytes))
        |-> IF k \in pos + 1 .. pos + Len(bytes) THEN bytes[k - pos] ELSE d[k]]

CurrentFile == plan[rIndex].file
CurrentPartial == partials[CurrentFile]

\* The partial file of the current file is open.
Receiving == rPc \in {"data", "rename"}

-----------------------------------------------------------------------------
(* Leaving receive_stream. *)

\* Mutant: the plan outlives the connection it was made for.
ForgetsAllButPlan ==
    /\ rConn' = NoConn
    /\ rOffer' = NoOffer
    /\ rIndex' = 0
    /\ rPos' = 0
    /\ rHash' = <<>>
    /\ foreign' = {}
    /\ UNCHANGED plan

ReceiverForgets ==
    /\ rConn' = NoConn
    /\ rOffer' = NoOffer
    /\ plan' = <<>>
    /\ rIndex' = 0
    /\ rPos' = 0
    /\ rHash' = <<>>
    /\ foreign' = {}

\* The stream is dropped, and the loop of listen accepts the next one.
Leave(unread) ==
    /\ DeckCloses(rConn, unread)
    /\ rPc' = "listening"
    /\ ReceiverForgets
    /\ UNCHANGED <<down, sOpen, backlog, bound>>

-----------------------------------------------------------------------------
(* listen. *)

Listen ==
    /\ rPc = "off"
    /\ rPc' = "listening"
    /\ bound' = TRUE
    /\ UNCHANGED <<up, down, sOpen, rOpen, broken, backlog, faults>>
    /\ UNCHANGED <<rConn, rOffer, plan, rIndex, rPos, rHash, diskVars, foreign>>

Accept ==
    /\ rPc = "listening"
    /\ backlog # <<>>
    /\ rConn' = Head(backlog)
    /\ backlog' = Tail(backlog)
    /\ rPc' = "hello"
    /\ UNCHANGED <<up, down, sOpen, rOpen, broken, bound, faults>>
    /\ UNCHANGED <<rOffer, plan, rIndex, rPos, rHash, diskVars, foreign>>

-----------------------------------------------------------------------------
(* What the receiver takes from the stream at each point.  Any other frame *)
(* ends the transfer.                                                      *)

ReceiverReads == rPc \in {"hello", "offer", "start", "data", "complete"}

\* The receiver waits in a read, with nothing to read.
ReceiverWaits == ReceiverReads /\ up[rConn] = <<>>

TakesOffer(m) == m.kind = "Offer" /\ m.files # <<>>

TakesFileStart(m) ==
    /\ m.kind = "FileStart"
    /\ m.index = rIndex
    /\ m.offset = plan[rIndex].resume

TakesFileChunk(m) ==
    /\ m.kind = "FileChunk"
    /\ rPos < CurrentFile.size
    /\ m.index = rIndex
    /\ m.bytes # <<>>
    /\ rPos + Len(m.bytes) <= CurrentFile.size

\* Mutant: a file has at least one chunk.
TakesFileEndNonEmpty(m) ==
    /\ m.kind = "FileEnd"
    /\ rPos > 0
    /\ rPos >= CurrentFile.size
    /\ m.index = rIndex
    /\ m.hash = CurrentFile.hash

TakesFileEnd(m) ==
    /\ m.kind = "FileEnd"
    /\ rPos >= CurrentFile.size
    /\ m.index = rIndex
    /\ m.hash = CurrentFile.hash

Takes(m) ==
    \/ rPc = "hello" /\ m = Hello
    \/ rPc = "offer" /\ TakesOffer(m)
    \/ rPc = "start" /\ TakesFileStart(m)
    \/ rPc = "data" /\ (TakesFileChunk(m) \/ TakesFileEnd(m))
    \/ rPc = "complete" /\ m = Complete(Len(plan))

\* A frame has arrived that the receiver takes.
HasFrame ==
    /\ ReceiverReads
    /\ up[rConn] # <<>>
    /\ Takes(Head(up[rConn]))

\* read_frame, and nothing else happens to the connection.
ReadsFrame ==
    /\ DeckReads(rConn)
    /\ UNCHANGED <<down, sOpen, rOpen, broken, backlog, bound, faults>>

ReadHello ==
    /\ rPc = "hello"
    /\ HasFrame
    /\ DeckReads(rConn)
    /\ DeckWrites(rConn, HelloAck)
    /\ rPc' = "offer"
    /\ UNCHANGED <<sOpen, rOpen, backlog, bound, faults>>
    /\ UNCHANGED <<rConn, rOffer, plan, rIndex, rPos, rHash, diskVars, foreign>>

ReadOffer ==
    /\ rPc = "offer"
    /\ HasFrame
    /\ ReadsFrame
    /\ rOffer' = [id |-> Head(up[rConn]).id, files |-> Head(up[rConn]).files]
    /\ rPc' = "prepare"
    /\ UNCHANGED <<rConn, plan, rIndex, rPos, rHash, diskVars, foreign>>

-----------------------------------------------------------------------------
(* prepare_files, one file of the offer per step.                          *)

PlannedPlaces == {plan[i].destination : i \in DOMAIN plan}

\* Path::exists.
Exists(d) ==
    \/ d \in DOMAIN inbox
    \/ d \in DOMAIN PartialAt /\ PartialAt[d] \in DOMAIN partials

\* Mutant: the names given to other files of the offer are not looked at.
IsFreeOnDisk(d) == ~Exists(d)

IsFree(d) == ~Exists(d) /\ d \notin PlannedPlaces

\* Mutant: no look at what is there.
FirstName(p, d) == Candidates[p] # <<>> /\ d = Candidates[p][1]

\* unique_destination: the first candidate that nothing occupies.
FirstFree(p, d) ==
    \E i \in DOMAIN Candidates[p] :
        /\ d = Candidates[p][i]
        /\ IsFree(d)
        /\ \A j \in 1 .. i - 1 : ~IsFree(Candidates[p][j])

\* Mutant: the last block is fetched again, to be safe.
HeldButLast(f) == IF f \in DOMAIN partials THEN Len(partials[f].data) - 1 ELSE 0

Held(f) == IF f \in DOMAIN partials THEN Len(partials[f].data) ELSE 0

Preparing == rPc = "prepare" /\ Len(plan) < Len(rOffer.files)

\* A partial file that is longer than the file is emptied.
PrepareFile(f) ==
    /\ Preparing
    /\ f = rOffer.files[Len(plan) + 1]
    /\ \E d \in Place :
          /\ FirstFree(f.path, d)
          /\ plan' = Append(plan,
                [file |-> f, destination |-> d,
                 resume |-> IF Held(f) > f.size THEN 0 ELSE Held(f)])
    /\ partials' = IF Held(f) > f.size
                   THEN With(partials, f, EmptyPartial)
                   ELSE partials
    /\ UNCHANGED <<linkVars, rPc, rConn, rOffer, rIndex, rPos, rHash>>
    /\ UNCHANGED <<inbox, unflushed, aliased, foreign>>

NoFreeName ==
    /\ Preparing
    /\ \A d \in Place : ~FirstFree(rOffer.files[Len(plan) + 1].path, d)
    /\ Leave(up[rConn])
    /\ UNCHANGED <<faults, diskVars>>

SendAccept ==
    /\ rPc = "prepare"
    /\ Len(plan) = Len(rOffer.files)
    /\ DeckWrites(rConn, AcceptFrame(rOffer.id,
                            [i \in DOMAIN plan |-> plan[i].resume]))
    /\ rPc' = "start"
    /\ rIndex' = 1
    /\ UNCHANGED <<up, sOpen, rOpen, backlog, bound, faults>>
    /\ UNCHANGED <<rConn, rOffer, plan, rPos, rHash, diskVars, foreign>>

-----------------------------------------------------------------------------
(* The loop over the planned files. *)

\* Mutant: the partial file is opened with truncate(true).
OpenedTruncated == EmptyPartial

\* The partial file as it is once FileStart has opened or created it.
OpenedPartial == IF CurrentFile \in DOMAIN partials
                 THEN CurrentPartial
                 ELSE EmptyPartial

\* Mutant: the hasher starts at the resume offset.
NothingHashed == <<>>

\* hash_prefix reads back what is kept of an earlier transfer.
HashedPrefix == SubSeq(OpenedPartial.data, 1, plan[rIndex].resume)

ReadFileStart ==
    /\ rPc = "start"
    /\ HasFrame
    /\ plan[rIndex].resume <= Len(OpenedPartial.data)
    /\ ReadsFrame
    /\ partials' = With(partials, CurrentFile, OpenedPartial)
    /\ rHash' = HashedPrefix
    /\ rPos' = plan[rIndex].resume
    /\ rPc' = "data"
    /\ UNCHANGED <<rConn, rOffer, plan, rIndex>>
    /\ UNCHANGED <<inbox, unflushed, aliased, foreign>>

\* hash_prefix meets the end of the partial file before the resume offset.
StalePartial ==
    /\ rPc = "start"
    /\ HasFrame
    /\ plan[rIndex].resume > Len(OpenedPartial.data)
    /\ partials' = With(partials, CurrentFile, OpenedPartial)
    /\ Leave(Tail(up[rConn]))
    /\ UNCHANGED <<faults, inbox, unflushed, aliased>>

\* The partial file after bytes were written to it at the current position.
Written(bytes) ==
    With(partials, CurrentFile,
         [data |-> WriteAt(CurrentPartial.data, rPos, bytes), synced |-> FALSE])

ReadFileChunk ==
    /\ rPc = "data"
    /\ HasFrame
    /\ Head(up[rConn]).kind = "FileChunk"
    /\ ReadsFrame
    /\ partials' = Written(Head(up[rConn]).bytes)
    /\ rHash' = rHash \o Head(up[rConn]).bytes
    /\ rPos' = rPos + Len(Head(up[rConn]).bytes)
    /\ UNCHANGED <<rPc, rConn, rOffer, plan, rIndex>>
    /\ UNCHANGED <<inbox, unflushed, aliased, foreign>>

\* Mutant: any hash will do.
NeverVerified == TRUE

Verified == rHash = CurrentFile.hash

\* Mutant: no sync_all.
UnsyncedPartial == CurrentPartial

SyncedPartial == [data |-> CurrentPartial.data, synced |-> TRUE]

\* The partial file is synced, and its hash is the one that was offered.
ReadFileEnd ==
    /\ rPc = "data"
    /\ HasFrame
    /\ Head(up[rConn]).kind = "FileEnd"
    /\ Verified
    /\ ReadsFrame
    /\ partials' = With(partials, CurrentFile, SyncedPartial)
    /\ rPc' = "rename"
    /\ UNCHANGED <<rConn, rOffer, plan, rIndex, rPos, rHash>>
    /\ UNCHANGED <<inbox, unflushed, aliased, foreign>>

\* Mutant: what has proved wrong is kept.
KeptPartial == CurrentPartial

\* set_len(0).
ResetPartial == EmptyPartial

\* The hash is wrong, and the transfer has failed.
HashMismatch ==
    /\ rPc = "data"
    /\ HasFrame
    /\ Head(up[rConn]).kind = "FileEnd"
    /\ ~Verified
    /\ partials' = With(partials, CurrentFile, ResetPartial)
    /\ Leave(Tail(up[rConn]))
    /\ UNCHANGED <<faults, inbox, unflushed, aliased>>

\* fs::rename replaces whatever has come to be at the destination d.
StoreAt(d) ==
    /\ d \notin DOMAIN PartialAt
    /\ inbox' = With(inbox, d, [data |-> CurrentPartial.data,
                                synced |-> CurrentPartial.synced,
                                by |-> {CurrentFile}])
    /\ partials' = Without(partials, CurrentFile)
    /\ unflushed' = unflushed \cup
          {[place |-> d, file |-> CurrentFile, was |-> CurrentPartial,
            over |-> {inbox[x] : x \in {d} \cap DOMAIN inbox}]}
    /\ UNCHANGED aliased

MovedToPartial(d) ==
    With(Without(partials, CurrentFile), PartialAt[d], CurrentPartial)

\* The destination d is the partial file of some offer, which is from now on
\* taken for what an earlier transfer has left of it.
StoreOverPartial(d) ==
    /\ d \in DOMAIN PartialAt
    /\ partials' = MovedToPartial(d)
    /\ unflushed' = unflushed \cup
          {[place |-> d, file |-> CurrentFile, was |-> CurrentPartial,
            over |-> {[data |-> partials[g].data, synced |-> partials[g].synced,
                       by |-> {}] : g \in {PartialAt[d]} \cap DOMAIN partials}]}
    /\ aliased' = TRUE
    /\ UNCHANGED inbox

Rename ==
    LET d == plan[rIndex].destination
        last == rIndex = Len(plan)
    IN  /\ rPc = "rename"
        /\ StoreAt(d) \/ StoreOverPartial(d)
        /\ rPc' = IF last THEN "complete" ELSE "start"
        /\ rIndex' = IF last THEN 0 ELSE rIndex + 1
        /\ rPos' = 0
        /\ rHash' = <<>>
        /\ UNCHANGED <<linkVars, rConn, rOffer, plan, foreign>>

ReadComplete ==
    /\ rPc = "complete"
    /\ HasFrame
    /\ DeckReads(rConn)
    /\ DeckWrites(rConn, Complete(Len(plan)))
    /\ rPc' = "finished"
    /\ UNCHANGED <<sOpen, rOpen, backlog, bound, faults>>
    /\ UNCHANGED <<rConn, rOffer, plan, rIndex, rPos, rHash, diskVars, foreign>>

\* receive_stream returns Ok.
Finish ==
    /\ rPc = "finished"
    /\ Leave(up[rConn])
    /\ UNCHANGED <<faults, diskVars>>

-----------------------------------------------------------------------------
(* Failures. *)

\* A frame that does not belong here.
Reject ==
    /\ ReceiverReads
    /\ up[rConn] # <<>>
    /\ ~Takes(Head(up[rConn]))
    /\ Leave(Tail(up[rConn]))
    /\ UNCHANGED <<faults, diskVars>>

\* A read fails at the end of the stream or after a reset; so does the write
\* of the Accept frame after a reset.
ReceiverLinkError ==
    /\ \/ ReceiverReads /\ DeckSeesError(rConn)
       \/ rPc = "prepare" /\ ~Preparing /\ broken[rConn]
    /\ Leave(up[rConn])
    /\ UNCHANGED <<faults, diskVars>>

\* The minute of set_read_timeout passes although the PC is alive.
ReceiverTimeout ==
    /\ ReceiverWaits
    /\ ~DeckSeesError(rConn)
    /\ Leave(<<>>)
    /\ Fault
    /\ UNCHANGED diskVars

\* An operation on the disk fails: making a folder, renaming, writing a chunk,
\* of which a part may be in the file, opening a partial file, or syncing it.
DiskFails ==
    /\ \/ /\ Preparing \/ rPc = "rename"
          /\ Leave(up[rConn])
          /\ UNCHANGED partials
       \/ /\ rPc = "data"
          /\ HasFrame
          /\ Head(up[rConn]).kind = "FileChunk"
          /\ \E k \in 0 .. Len(Head(up[rConn]).bytes) - 1 :
                partials' = Written(SubSeq(Head(up[rConn]).bytes, 1, k))
          /\ Leave(Tail(up[rConn]))
       \/ /\ rPc \in {"start", "data"}
          /\ HasFrame
          /\ Head(up[rConn]).kind \in {"FileStart", "FileEnd"}
          /\ Leave(Tail(up[rConn]))
          /\ UNCHANGED partials
    /\ Fault
    /\ UNCHANGED <<inbox, unflushed, aliased>>

\* The process ends.  What it wrote is with the operating system.
Crash ==
    /\ rPc # "off"
    /\ rPc' = "off"
    /\ DeckGone
    /\ ReceiverForgets
    /\ Fault
    /\ UNCHANGED <<down, sOpen, diskVars>>

-----------------------------------------------------------------------------
(* The disk and the people who use it. *)

\* The file system commits its journal.
Flush ==
    /\ unflushed # {}
    /\ unflushed' = {}
    /\ UNCHANGED <<linkVars, receiverVars, partials, inbox, aliased, foreign>>

\* What is left of the partial file f if its data were not synced.
Remains(f, data) ==
    LET longest == IF Len(data) > f.size THEN Len(data) ELSE f.size
    IN  [data : UNION {[1 .. n -> Block] : n \in 0 .. longest}, synced : {TRUE}]

\* The partial file f if the renames in lost had never happened.
Before(f, lost) ==
    IF \E r \in lost : r.file = f THEN (CHOOSE r \in lost : r.file = f).was
                                  ELSE partials[f]

\* The partial files at whose names the renames in lost have stored a file.
Disturbed(lost) ==
    {PartialAt[r.place] : r \in {x \in lost : x.place \in DOMAIN PartialAt}}

\* All that has been the partial file f since the renames in lost.
Forms(f, lost) ==
    LET over == {r \in lost : r.place \in DOMAIN PartialAt /\ PartialAt[r.place] = f}
    IN  {partials[g] : g \in {f} \cap DOMAIN partials}
          \cup {r.was : r \in {x \in lost : x.file = f}}
          \cup {[data |-> e.data, synced |-> e.synced] :
                   e \in UNION {r.over : r \in over}}

\* The partial files a power loss may leave: an unsynced one may be garbled,
\* cut short or gone, and one with a file stored over it may be either.
PartialsAfter(lost) ==
    LET names == DOMAIN partials \cup {r.file : r \in lost} \cup Disturbed(lost)
        clear == names \ Disturbed(lost)
        safe == {f \in clear : Before(f, lost).synced}
        Left(f, v) == IF v.synced THEN {v} ELSE Remains(f, v.data)
        May(f) == IF f \in clear
                  THEN Left(f, Before(f, lost))
                  ELSE UNION {Left(f, v) : v \in Forms(f, lost)}
    IN  UNION {{g \in [kept -> UNION {May(f) : f \in kept}] :
                   \A f \in kept : g[f] \in May(f)} :
               kept \in {k \in SUBSET names : safe \subseteq k}}

\* The receive folder without the renames in lost: the files they replaced
\* are back.
InboxAfter(lost) ==
    LET Undone(p) == {r \in lost : r.place = p}
        left == {p \in DOMAIN inbox : \A r \in Undone(p) : r.over # {}}
        Old(p) == CHOOSE e \in UNION {r.over : r \in Undone(p)} : TRUE
    IN  [p \in left |->
            IF Undone(p) # {} THEN Old(p)
            ELSE IF inbox[p].synced THEN inbox[p]
            ELSE [inbox[p] EXCEPT !.data = <<>>]]

\* The Deck loses power.  Renames the disk has not committed may be undone,
\* and data that were not synced may be lost.
PowerLoss ==
    /\ \E lost \in SUBSET unflushed :
          /\ inbox' = InboxAfter(lost)
          /\ partials' \in PartialsAfter(lost)
    /\ unflushed' = {}
    /\ rPc' = "off"
    /\ DeckGone
    /\ ReceiverForgets
    /\ Fault
    /\ UNCHANGED <<down, sOpen, aliased>>

\* Somebody puts a file into the receive folder, and not into the folder of
\* the partial files.
LocalWrite(p) ==
    /\ p \notin DOMAIN inbox \cup DOMAIN PartialAt
    /\ inbox' = With(inbox, p, [data |-> <<>>, synced |-> TRUE, by |-> {}])
    /\ foreign' = foreign \cup ({p} \cap PlannedPlaces)
    /\ Fault
    /\ UNCHANGED <<up, down, sOpen, rOpen, broken, backlog, bound>>
    /\ UNCHANGED <<receiverVars, partials, unflushed, aliased>>

-----------------------------------------------------------------------------
\* What the receiver does on its own once it runs.
ReceiverStep ==
    \/ Accept
    \/ ReadHello
    \/ ReadOffer
    \/ \E i \in DOMAIN rOffer.files : PrepareFile(rOffer.files[i])
    \/ NoFreeName
    \/ SendAccept
    \/ ReadFileStart
    \/ StalePartial
    \/ ReadFileChunk
    \/ ReadFileEnd
    \/ HashMismatch
    \/ Rename
    \/ ReadComplete
    \/ Finish
    \/ Reject
    \/ ReceiverLinkError

ReceiverNext ==
    \/ Listen
    \/ ReceiverStep
    \/ ReceiverTimeout
    \/ DiskFails
    \/ Crash
    \/ PowerLoss
    \/ Flush
    \/ \E p \in Place : LocalWrite(p)

-----------------------------------------------------------------------------
(* What Delivery knows of the receiver. *)

InboxView == [p \in DOMAIN inbox |-> [data |-> inbox[p].data, by |-> inbox[p].by]]
HeldView == [f \in DOMAIN partials |-> partials[f].data]
AgreedView == IF rPc \in {"start", "data", "rename"}
              THEN [i \in 1 .. Len(plan) + 1 - rIndex |-> plan[rIndex + i - 1].file]
              ELSE <<>>

-----------------------------------------------------------------------------
(* What the receiver promises whatever its peer sends, most of it as long  *)
(* as no file was stored at the name of a partial file.                    *)

NamesAreWhole ==
    \A p \in DOMAIN inbox : \A f \in inbox[p].by : inbox[p].data = f.hash

\* A file the receiver has put into the receive folder holds exactly the bytes
\* whose hash was offered, also after crashes, power losses and resumed
\* transfers: receive_stream syncs and verifies before it renames.  (A file
\* that was stored at the name of a partial file may lie behind the bytes of
\* the file that is received there next.)
StoredWhole == ~aliased => NamesAreWhole

\* The hash that is verified is fed from the stream, not from the disk; it is
\* the hash of the file on the disk because nothing but the receiver writes
\* there and because it writes where it hashes.  More than was hashed is there
\* only if a file was stored at the name of a partial file.
HashedIsStored ==
    rPc = "data" =>
        /\ CurrentFile \in DOMAIN partials
        /\ Len(rHash) = rPos
        /\ rPos <= Len(CurrentPartial.data)
        /\ \A k \in 1 .. rPos : CurrentPartial.data[k] = rHash[k]
        /\ ~aliased => Len(CurrentPartial.data) = rPos

OffsetsAreGood ==
    \A i \in DOMAIN plan :
        \/ Held(plan[i].file) \in {plan[i].resume, 0}
        \/ Receiving /\ (i <= rIndex \/ plan[i].file = CurrentFile)
        \/ rPc = "start" /\ i < rIndex
        \/ rPc \in {"complete", "finished"}

\* A resume offset the receiver has promised is the length of the partial file
\* when its file is started.  Only an earlier entry of the same offer with the
\* same name may use the partial file up, and then it is gone; or a file was
\* stored at the name of a partial file.
ResumeCurrent == ~aliased => OffsetsAreGood

\* Nothing in the receive folder is replaced or lost except by a power loss,
\* which ends the process, and in places that somebody else took between the
\* look of unique_destination and the rename.  The names of partial files are
\* no part of this: what is stored there is lost when the file of that name is
\* received.
KeepsBoth ==
    [][\A p \in DOMAIN inbox :
          (p \in DOMAIN inbox' /\ inbox'[p] = inbox[p])
              \/ p \in foreign \/ rPc' = "off"]_<<receiverVars, diskVars, foreign>>

\* What an earlier transfer has received is given up only when it proves
\* wrong, when the whole file is stored, or when the power fails, unless a file
\* was stored at the name of a partial file.
ResumeKept ==
    [][\A f \in DOMAIN partials :
          \/ f \in DOMAIN partials' /\ Len(partials'[f].data) >= Len(partials[f].data)
          \/ ~CanBecome(partials[f].data, f)
          \/ \E p \in DOMAIN inbox' : f \in inbox'[p].by
          \/ rPc' = "off"
          \/ aliased']_<<receiverVars, diskVars, foreign>>
=============================================================================
