# Steam Deck File Transfer: models, checks and proofs

This directory holds a TLA+ model of the transfer engine in `src/crates/core`
(a PC sends files, a Steam Deck receives them over one TCP connection) and of the
two windows in `src/apps`, the TLC runs that check it on small instances, and
TLAPS proofs of its most important properties for all instances. `PROJECT.json` lists the components, the runs, the
theorems, the source lines of every definition, and the hazards the properties
are for.

Paths below are relative to the repository (`src/`); `receiver.rs`, `sender.rs`
and `protocol.rs` are in `crates/core/src`.

## The system

| part | state it keeps | operations | interacts with |
|---|---|---|---|
| wire protocol (`protocol.rs`) | none | encode, decode, `read_frame`, `write_frame` | both engines |
| sender (`sender.rs`) | list of sources, offer, resume offsets, file and position | `collect_sources` and the walk; `send_paths`: hash, connect, handshake, stream, confirm | PC file system, TCP |
| receiver (`receiver.rs`) | plan of the current offer, hasher, position; on disk: partial files and the receive folder | `listen`, `receive_stream`, `prepare_root`, `prepare_files`, `ensure_real_directory`, `unique_destination`, `hash_prefix` | TCP, Deck file system |
| safe paths (`lib.rs`) | none | `SafeRelativePath::new` | sender, decoder, receiver |
| PC application (`apps/pc`) | queue of files, status, progress, worker channel | add, remove, send, poll | `send_paths` in a thread |
| Deck application (`apps/deck`) | status, progress, worker channel | start, poll | `listen` in a thread |
| packaging | none | install, uninstall, release | none |

A transfer is one connection:

    PC    Hello           Offer                 FileStart Chunk* FileEnd ...   Complete
    Deck        HelloAck          Accept(offsets)                                       Complete

The receiver serves one connection at a time. It writes a file to a *partial
file*, whose name is a hash of the offered path, size and hash; when the file is
complete, synced and verified it is renamed to its destination. A transfer that
fails leaves its partial file, and the next offer of the same file is resumed
from its length. The sender does not retry; its user does.

What is hard here:

- **Failure at every point.** Either program may end, the network may drop the
  connection, a read may time out after a minute while the peer is only slow,
  and the disk may fill up in the middle of a chunk. Every `?` is a way out.
- **State that outlives the connection.** The partial files and the receive
  folder are read when an offer is planned and used much later.
- **Two programs that each trust a memory of a file.** The PC takes size, hash
  and content of a source in three passes; the Deck hashes the stream and never
  reads back what it has written, except a resumed prefix.
- **Power loss.** What a rename or an unsynced write leaves is up to the disk.
- **Retries that overlap.** A connection the PC has given up may wait in the
  listener's backlog, or still be served, when the next one arrives.
- **Folders that are in use.** The user of either machine goes on working in the
  folders that are walked, planned and written.
- **Partial files within reach.** They lie in `.sdft-partials` in the receive folder
  itself, and no wire path is refused for beginning with that name.
- **A stream of bytes.** A frame arrives in any pieces and may be cut anywhere;
  the reader must not slip, or believe a length.
- **Two threads and a channel.** A window learns what its worker does only when
  it draws a frame, and draws one only when somebody asks for it.
- **Several receivers on one folder.** Nothing locks a partial file.

What makes the parts correct:

- receiver: a name in the receive folder means complete and verified content;
  nothing there is replaced; received data are kept until they are of no use;
  all of this whatever the peer sends, as long as no offer names a file of the folder
  `.sdft-partials` (below).
- sender: the offer is the tree that was chosen; what it streams fits the offer it
  made, whatever offsets it is given and whatever happens to its files.
- frames: the reader returns what was written, and no error that is not one.
- receive folder: everything is stored beneath it, through no link but one that took
  the place of a folder after it was checked, and an attempt that fails fails for a reason.
- windows: success is shown only of a success, the end of every transfer is
  shown, and there is one worker at most.
- both: they never block each other or refuse each other's frames; success
  reported by the sender means the files are on the Deck; if faults stop, the
  job succeeds.

## Modules

| module | models |
|---|---|
| `Wire` | the frames (`protocol.rs`), the offer of a file |
| `Link` | TCP connections: backlog, ordered bounded queues, end of stream, reset, loss |
| `Sender` | `send_paths`, the user who repeats it or quits, edits of the sources |
| `Receiver` | `listen`, `receive_stream`, the partial files, the receive folder, the disk |
| `Transfer` | `Sender` and `Receiver` over `Link`, fairness, end-to-end properties |
| `AnyPeer`, `AnyDeck` | `Receiver` and `Sender` with any program at the other end |
| `Delivery` | the abstract promise: what a user of both programs may rely on |
| `SafePath` | `SafeRelativePath::new` |
| `Collect` | the walk over the chosen files, `encode_offer` and `decode_offer` on paths |
| `Destinations` | the receive folder as a tree: `prepare_root`, `ensure_real_directory`, `unique_destination`, the rename |
| `Copy` | `Collect`, then `Destinations` with the offer it made |
| `Stream` | `write_frame` and `read_frame` over a stream of bytes |
| `SharedFolder` | several receivers on one receive folder |
| `PcWindow`, `DeckWindow`, `Windows` | the windows of the two applications |
| `EngineProofs` | invariants of the sender and of the receiver, each over any link; each step of the receiver is a step of `Delivery` or none, and what it has stored stays safe |
| `AnyPeerProofs`, `AnyDeckProofs`, `TransferProofs`, `CopyProofs`, `StreamProofs`, `SharedFolderProofs`, `WindowsProofs` | theorems about the systems that are checked |
| `MC...` | values of the constants for TLC |

How they fit together. `Transfer`, `AnyPeer` and `AnyDeck` put the two engines
over a link; their frames are whole, and `Stream` shows why they may be. Their
destinations are a flat set of names and their sources a queue of files;
`Destinations` and `Collect` have the folders, and leave out the data. `Copy` runs
these two in sequence: an offer that `Collect` made is handed to `Destinations`.
`Windows` is a sum: one machine shows one of the two windows, which meet only
through the engines.

### State and actions of the engines

A file's content is a sequence of *blocks*; a BLAKE3 hash is modelled by the
content it was computed from, so that hashes are equal exactly when contents are.
Wire paths and destination names are opaque; `Candidates[p]` lists the requested
destination of `p` and its numbered variants ("x (1)", "x (2)" ... in the code).
Indices count from 1. A transfer is named by the number of its connection,
where the code hashes a timestamp.

`Receiver`: `rPc` is the place in `receive_stream`; `plan` is the vector of
`ReceiveFile`; `partials` maps a file offer (which determines the name) to the
bytes and to whether they are synced; `inbox` is the rest of the receive folder.
A destination may also be the name of a partial file: `PartialAt` says of which offer,
`Exists` sees the partial file there (`unique_destination` would), and the rename to such
a place, `StoreOverPartial`, moves the received file to that name in `partials`, over whatever an
earlier transfer has left there. The next entry with that name opens it as its own.
`unflushed` holds the renames the file system has not committed: `PowerLoss` may undo any
of them, brings replaced files back, and garbles, cuts or removes partial files
that were not synced (`Forms` is all that may come back under the name of a partial file that had a file
stored over it). `foreign` is a history variable: planned destinations that
somebody else has filled since. So is `aliased`: a file was stored at the name of a
partial file. There is one action for each frame that is
taken, one for each file that is planned (`PrepareFile`), one for the rename, and one
for each way out: a frame that does not fit (`Reject`), a failed read
(`ReceiverLinkError`), a timeout, a disk error (before, in or after a write),
a hash mismatch, a partial file shorter than promised, no free name.
Closing a connection and returning to `accept` is the operator `Leave`, part of
each of these.

`Sender`: `sPc` is the place in `send_paths`; `sOffer` is the offer as far as it
is collected; `sHash` and `sSize` are the file being hashed. `StatSource`,
`HashSource` (one block per read), `OpenFile` and `SendChunk` each read
`source` anew, so `EditSource` may come between any two of them. A refused or
unreadable source, before or after the connection is made, is the action
`SourceUnreadable`. `SenderTimeout` is the minute that a read
may take; `SenderGivesUp` is what a failure before there is a connection does; `Quit` is
the program that is closed in the middle.

`Link`: `up[c]` and `down[c]` are the frames in flight on connection `c`.
A writer blocks when `Window` frames are in flight. Closing an end that has
unread frames resets the connection, otherwise the peer reads an end of stream.
`Disconnect` loses a suffix of the frames in both directions.

`Delivery` has no connections, frames or positions: the Deck *agrees* to a list
of files, *holds* part of them, *stores* each under a new name when it holds it
whole, throws away only what cannot become the file, and the PC's user is *told*
that files have arrived when they have. `Promise` in `Transfer` and in `AnyPeer`
is the refinement mapping: held is what the partial files hold, agreed is the
plan from the current file on, told is the offer of a sender that is done.

### State and actions of the rest

`Collect`: `todo` holds the entries that were listed and not visited, in the order of
the recursion; the kind of an entry is the one seen when its folder was listed, as in
`collect_directory`. `Create` and `Delete` are the user's; `touched` is the history of
them. An input, a folder or a file that is there may still not be readable, for want of a permission or
because the disk fails (`CannotRead`, with the history `unread`). `EncodeOffer` and `DecodeOffer` have
the limits: the total size (`TotalFits`: no two files of the names in `Huge`), the number of files
(`FewEnough`, `MaxFiles`) and the frame (`FitsFrame`, `MaxWords`). A name is a sequence of words between its backslashes, a character like any
other on the PC: `Encoded` is what `replace('\\', "/")` makes of it, and the Deck
reads the result with `SafePath`.

`Destinations`: `tree` maps paths to folders, files, links and dangling links.
`EnsureFolder` is one round of the loop in `ensure_real_directory`, `ChooseDestination`
is `unique_destination`. A file is received in the step that renames it. The
Deck's user puts and removes things between any two steps, links on the folders of the
offer under way included; the PC offers again until the files are stored. The system
follows a link that it meets (`LinksInto`): what is looked for, made or stored beyond it may be found,
may succeed or may fail, and `outside` collects the links through which something was
made or stored. `relinked` is the history of links put where `ensure_real_directory` has found or
made a real folder for this offer, or `prepare_root` the receive folder (`Ensured`).

`Stream`: a frame is the pieces `write_frame` writes, with one piece for each byte
of the payload. `WriteSome` and `Lose` cut anywhere. `read_frame` has one action for
each field, and the buffer is allocated in `ReadLength`. The writing end may be this
program, another version of it, or anything.

`SharedFolder`: a name leads to an inode, and an open file stays the same inode when its
name goes. The actions are the stages of `receive_stream` between which another receiver
may run: plan, open, each chunk, verify, rename.

`PcWindow`, `DeckWindow`: a frame of `egui` begins (`Begin`, with the files that were
dropped), takes one message after the other while the worker goes on sending
(`Poll`), and ends when it finds the channel empty (`Polled`); `polling` says that a frame
is at it. `poll_worker` puts the messages aside and handles them after the last one;
until then nothing else looks at the window, so that handling each at once makes no
difference. A click is a step of its own, between two frames. `repaint` is what
`request_repaint_after` asked for: without it, and without a user, no frame is
drawn. What the worker has still to report is in `thread` or in `left`; it may fail before any
report.

Definitions whose comment begins with "Mutant" belong to no specification. Each
is the definition that follows it with a plausible bug, and each property of
each passing run is known to fail when such a mutant takes the place of its
original (`PROJECT.json`, "mutants").

## Runs

Each run finishes in less than three minutes. Deadlock is checked in `windows`, where one may
always move the mouse; all the others end: the job is done, or a bound is
reached.

| run | asks |
|---|---|
| `two_files` | Names that collide across two files of a job ("x (1)" of one is the name of the other), an empty file, files put in the way. `KeepsBoth`, `DoneMeansStored`, `NeverBothWaiting`, `PeersAgree`, `Delivers`, `TypeOK` |
| `one_file` | Blocks, resume offsets 0, 1 and 2 of 2, garbled partial files, sources edited at any time. `ResumeKept`, `Delivers` |
| `live` | `EventuallyDone`, `ReceiverReturns` under fairness |
| `any_peer` | Any order of frames; an offer that lists the same file twice: both entries resume from one partial file; an offer of a longer file at the name of that partial file, and of the file itself. `StoredWhole`, `HashedIsStored`, `ResumeCurrent`, `KeepsBoth`, `Delivers`, `TypeOK` |
| `any_deck` | Any offsets, also beyond the file, too few or too many of them, sources that grow and shrink. `StreamFitsOffer`, `SentIsHashed`, `TypeOK` |
| `copy` | Thirteen trees on the PC, nine selections and eight receive folders, while both users work in them; inputs that cannot be read, offers beyond each limit, links put on folders after they were checked. `OfferIsTheTree`: every file that stays put is offered by its path. `RefusedForAReason`, `FailsForAReason`: what is refused or fails has one of the reasons that are listed. `StaysInside`: no path leads out, and no link but a late one is followed. `NoTwoAlike`, `KeepsBoth`, `EventuallyStored`, `TypeOK` |
| `stream` | Payloads around both size limits, streams that are cut. `GotIsWritten`: the frames that are read are those that were written. `ErrorsAreReal`, `VersionsFailClearly`, `EveryFrameArrives`, `TypeOK` (which bounds the buffer) |
| `windows` | Clicks, drops, frames and messages in any order. `OneWorker`, `StatusIsTrue`, `ProgressAdvances`, `OutcomeShown`, `TypeOK` |
| `shared_folder` | Two receivers and two versions of a file. `NoPartialAtName`, `HashedIsStored`, `TypeOK` (no file has two names) |
| `never_replaces`, `not_rewritten`, `mismatch_keeps` | what the documents say and the code does not do, see below |

### Bounds, and why they are enough

- `MaxConns` = 3 connections in the safety runs: one that fails, one that
  resumes, one more that meets what the first two have left. `live` has 5, so
  that after two faults, each of which may also spoil the connection that waits
  behind it, the bound is never what stops the job; a smaller bound would
  show as a violation of `EventuallyDone`, not hide one.
- `MaxFaults` = 2 faults per behaviour, of any kind and at any point (1 in the
  runs `any_peer` and `any_deck`, whose peer does what it likes anyway). Two
  faults give the pairs that matter: a power loss after a lost connection, a
  file put in the way and a retry, an edit and a crash. `one_file` was also run
  with 3 faults (1.3 million states), with the same result.
- Files of 0, 1 and 2 blocks with chunks of one block, of 2 in `any_deck`:
  an empty file, a file of one chunk, and one that can be resumed in the middle.
  Two values of a block tell right data from wrong.
- `Window` = 2 or 1: a writer that blocks, and frames in flight when a
  connection ends.
- `Place`: enough names for every copy that lost confirmations may cause
  (`one_file`), and fewer than that (`two_files`), so that `NoFreeName` happens.
- `any_peer`: two paths, one of which (`part`) is the name of the other's partial file and
  longer, so that opening it without truncation, resuming it, and storing what is
  behind it all happen. `PartialAt` is empty in the runs of both programs: their user would have to choose
  a folder `.sdft-partials` with a file named by the hash of an offer. The theorems are for any.
- `copy`: `PcTrees` and `Selections` have every kind of entry, one file chosen twice, a
  file that is chosen with its folder, equal names in two folders, names with backslashes and one that
  cannot be sent. `MaxPcEdits` = 2 lets a folder become a file; `Fresh` is the
  names a user may give. `MaxFiles` = 2 and `MaxWords` = 6, so that an offer of three files, one of
  seven words and one with two files of the name in `Huge` are all met. `Spots`, where the Deck's user
  puts things, has the receive folder itself, the folder of the partial files and every folder of an offer. Of the offers, the four in `Offers` are followed at
  the Deck, one for each hazard there; `MaxDeckEdits` = 2 and `MaxFaults` = 1. `RawPaths`, what any
  peer may send as a path, has all sequences of up to four words of one name, "", "."
  and "..": every absolute, climbing and empty path up to that length.
- `stream`: `MaxControl` = 3 and `MaxChunk` + `IndexSize` = 2 with payloads of 0 to 4
  bytes, so that both limits are met, passed by one, and told apart. Two frames show
  that the reader does not slip; `MaxPieces` = 8 is the length of what another
  program writes, enough for a frame with a payload of 4.
- `windows`: a queue of 2 (`MaxQueue`), 2 transfers (`MaxTransfers`), 2 starts of the receiver
  (`MaxStarts`), 2 connections of 1 or 2 files (`MaxConnections`, `Counts`): what one
  leaves is met by the next.
- `shared_folder`: `MaxTransfers` = 5 in all, of two versions of a file that differ
  in their last block, and `MaxFaults` = 1 wrong block. Without the condition on
  `clash`, 2 transfers are enough to violate `NoPartialAtName`.

### Fairness

`FairSpec` of `Transfer` assumes four weak fairness conditions: the sender's and the
receiver's thread are scheduled, the user on the PC sends again after a failure,
and the user on the Deck starts the receiver again after it ended. The first two
are what an operating system gives a thread; the last two are an assumption about
people, and without them the job may simply stay undone, as neither program
retries on its own. No fault, edit, timeout or flush is fair. `EventuallyDone`
therefore says: there is no state from which retrying does not help. That is
where `set_len(0)` after a mismatch matters: without it a partial file
garbled by a power loss would be resumed and rejected for ever.

`Copy` assumes the same of the walk, of the receiver and of the users who try again.
`Stream` assumes that the reader's thread reads and that a write that has begun goes on;
the writer may close or lose the stream instead. `Windows` assumes that the worker
threads run, that `egui` draws a frame that was asked for, and that a frame that has begun is
finished. It does not
assume that the user moves the mouse (`Wake`), which would draw a frame too and hide
a missing request. `ListenFails` and `Accept` are not fair: a Deck may wait for a
connection for ever.

### What the documents say and the code does not

With a run that shows it:

- `README.md:19` "keeps existing destination files by default". A file that
  appears at a destination after `unique_destination` has looked
  (`receiver.rs:331`) is replaced by the rename (`receiver.rs:208`). `KeepsBoth`
  says what does hold.
- `docs/PLAN.md:231` "Resume after Wi-Fi loss without rewriting completed
  files." A completed file has lost its partial file; sent again it is transferred
  from offset 0 and stored once more under a second name. A lost Wi-Fi is one of the
  ways in which an attempt breaks (a timeout or a reset at the sender); any of them does this.
- `docs/PLAN.md:111` "A mismatch keeps the partial file and reports a retryable
  error." The partial file is emptied (`receiver.rs:202`), and nothing is
  reported to the PC but the end of the stream.

As an exception that a property of a passing run names:

- `README.md:18-19` "Verifies every file with BLAKE3 and keeps existing destination files by
  default". An offer may name the partial file of another of its entries: A at
  `.sdft-partials/<partial name of B>`. `prepare_files` takes it (`receiver.rs:250`), the rename stores A there
  (`receiver.rs:208`), and B opens that file without truncating it
  (`receiver.rs:158-163`), writes its own bytes over the first of A's, verifies the stream, and gets
  its name with the rest of A behind it. A is gone; the sender is told that both arrived. Two
  of these programs come there only by a contrived selection, but any other peer may. `StoredWhole`,
  `ResumeCurrent`, `ResumeKept`, `DoneMeansStored`, `Delivers` and the last part of `HashedIsStored` hold until a
  file is stored at the name of a partial file (`aliased`). The other parts of `HashedIsStored` hold always: the bytes
  that were hashed are the first ones of the file. So does `KeepsBoth` for every name that is not one of
  a partial file, and what `PeersAgree`, `NeverBothWaiting` and the type invariants say.
- `docs/PLAN.md:122` "Never follow a symlink or junction while creating destination paths" and the
  "symlink escapes" of `docs/PLAN.md:232`. A folder is looked at while the offer is planned (`receiver.rs:294-322`); a link that
  takes its place afterwards is followed, by the checks of the folders and names below it and by the rename
  (`receiver.rs:208`), and so is one in the place of the receive folder, which only `prepare_root`
  looks at, or of `.sdft-partials`. `StaysInside` has the exception `relinked`, exactly those links.
- `docs/PLAN.md:131` has "Keep both" for names that are taken. An offer in which one
  name is a file and a folder (two chosen inputs, `a` and a folder with `a` in it,
  after a backslash was replaced, or another peer) makes the folder while it is planned
  (`receiver.rs:254`) and then fails to rename the file to it
  (`receiver.rs:208`). The same happens to a file that gets a numbered name, because its own
  is taken, when that name is a folder of the offer: `a` becomes `a (1)`, and `a (1)` has files of its
  own. The next attempt finds the folder and stores the file under
  another name. `FailsForAReason` has the exception `NameIsFolder`.
- `sender.rs:306` refuses two inputs that produce the same path, but backslashes are
  replaced later (`protocol.rs:200`). Two files may therefore arrive under one
  path; both are stored, one under a numbered name (`NoTwoAlike`). A file called
  `..\x` becomes a path that the Deck refuses, after everything was hashed
  (`RefusedForAReason`).
- `docs/PLAN.md:234` has "Never place a partial file at the final destination name".
  Two receivers on one folder that are sent the very same file at once write one
  partial file, and the one that finishes first renames it while the other
  still writes or has written more (`receiver.rs:208`). `NoPartialAtName` holds until that happens
  (`clash`): two versions of a file, or the same file one after the other, do no
  harm.

## Proofs

All theorems hold for every value of the constants that satisfies the named
assumptions: `MaxChunk` and `Window` are positive, `MaxConns` and `MaxFaults` are
numbers, `Candidates` are sequences of places, the queue lists different
paths and is not empty, versions are contents; `PeerFrames` and `DeckFrames` are
frames; a place is the name of at most one partial file (`PartialAt`, any partial map); in `SharedFolder`, files have a path and a sequence of blocks; in `Stream`, the
kinds include a greeting, chunks and errors, and the limits are numbers; in `Copy`, an offer has
files, a name has numbered variants, what is on the PC's disk and in the receive folder is a
tree, no name on the disk is empty, "." or "..", nothing is offered or put beneath the folder of the
partial files, and the limits are numbers; in `Windows`, the numbers of files are
numbers. `Block`, `Path`, `Place`, `Offers`,
`PcTrees`, `Selections`, `RawPaths`, `DeckTrees` and `Receivers` may be infinite.

| theorems of | state |
|---|---|
| `AnyPeer!Spec` | `TypeOK`, `StoredWhole`, `HashedIsStored`, `ResumeCurrent`, `KeepsBoth`, `ResumeKept`, `Delivers` |
| `Transfer!Spec` | `TypeOK`, `PeersAgree`, `NeverBothWaiting`, `StoredWhole`, `HashedIsStored`, `KeepsBoth`, `ResumeKept`, `DoneMeansStored`, `Delivers` |
| `AnyDeck!Spec` | `TypeOK`, `StreamFitsOffer`, `SentIsHashed` |
| `Copy!Spec` | `TypeOK`, `OfferIsTheTree`, `RefusedForAReason`, `NoTwoAlike`, `StaysInside`, `KeepsBoth`, `FailsForAReason` |
| `Stream!Spec` | `TypeOK`, `GotIsWritten`, `ErrorsAreReal`, `VersionsFailClearly` |
| `SharedFolder!Spec` | `TypeOK`, `HashedIsStored`, `NoPartialAtName` |
| `Windows!Spec` | `TypeOK`, `OneWorker`, `StatusIsTrue`, `ProgressAdvances` |

These are all safety properties of the passing runs.

`ReceiverBase` holds of the receiver always, whatever is stored at the names of partial
files: its type, the shape of its state, and that the hashed bytes are the beginning of the file it
writes (`StreamIsThere`). The rest is `Sound`: as long as `aliased` is false, so are `ReceiverInv` and
`Kept`. As `aliased` never becomes false again, each action has to keep `ReceiverInv` only if it does not
set `aliased`; the one that does, `StoreOverPartial`, has to keep `ReceiverBase`.

`ReceiverInv` is the inductive invariant of a receiver that is not aliased. `StoredWhole` alone is not
inductive; it rests on these parts:

- `ReadyToRename`: between the verification and the rename, the partial file
  is synced and equals the offered content. This follows from
- `HashedIsStored`: while a file is received, what the hasher was fed is what
  the partial file holds, and its length is the position. A chunk keeps that
  because writing at the end of a file appends (`WriteAtEnd`); opening a partial
  file establishes it because the promised offset is the file's length, which is
- `ResumeCurrent`: an offset in the plan is still the length of the partial file
  when its turn comes, or the partial file was used up by an earlier entry of
  the same offer, in which case opening it fails.
- `Durable`: everything in the receive folder is synced, and so is everything that
  an uncommitted rename has replaced; a power loss therefore puts whole files
  back, or none.
- `ReceiverShape`: the place in the code fits the plan.

`Reserved` says that the destinations of a plan are different from each other,
and those not yet used are free or in `foreign`; with it `KeepsBoth` holds of
every step, aliased or not. `ResumeKept` follows from `ReceiverInv`: partial files are opened
without truncation and written at their end, and a mismatch of a file that has
its offered length means that the data could never have become the file.

`EngineProofs` shows that each step of the receiver and of its environment keeps
these, over any link that carries frames, and does the same for the
sender's type and control state. Neither half uses anything about the other. `AnyPeerProofs`, `AnyDeckProofs` and `TransferProofs`
compose them: a step of the other side leaves this side's variables alone and the
link within its type.

`Delivers`, the refinement of `Delivery`, is proved in `EngineProofs` for one step at a
time. Besides `ReceiverInv` it needs `Kept`: nothing held is longer than what was
offered (`Fits`); a rename that a power loss may undo gave a whole file a place that
nothing received had (`Uncommitted`); and what is at a destination not used yet
was not received (`Vacant`). Every action of the receiver maps to one of `Delivery` or
to a stutter: a chunk to `Receive`, a mismatch to `Discard`, the rename to `Store`, and a
power loss to `PowerLoss`, where `Safe` is the heart of the argument. A file that has a name
of its own, or is whole and synced under its partial name, stays so through every step, the
power loss included (`ReceiverNext_Safe`).

`DoneMeansStored` follows the promise to the PC. `Fulfilled` says that the plan is
the offer, entry by entry, and that every entry the receiver is through with is `Safe`. In
`Transfer`, `Fresh` and `SameOffer` say that the Deck can only have taken its offer on the
PC's connection from the PC; so when it writes the confirmation, the whole offer of the
PC is safe, and `Confirmed` carries that from the frame in flight to the PC's `done`, past
crashes of the Deck and lost power in between. `Delivers` of `Transfer` needs it for
its `Confirm` step; the other steps are those of `AnyPeer`.

`SharedFolderProofs` has an invariant of its own. `NoPartialAtName` rests on `Knows`: as long
as `clash` is false, the partial name of every receiver that has a file open leads to that
very inode, which holds exactly what it has hashed. Another receiver's step keeps this because
two receivers at work have different files (`Apart`), hence different partial names, and
no inode has two names (`Names`, which is `TypeOK` and holds also after a clash).
So what is renamed is what was verified. After a clash the file that is renamed
may be one that somebody else is still writing, and the argument ends there.

`PeersAgree` and `NeverBothWaiting` rest on `Handshake`, an invariant over everything in
flight. The protocol is a sequence of frames that the offer and the offsets determine; a
`Cursor` is a place in it, `Moves` says which frame leads from one to the next, and a `Run`
is a sequence of frames that leads from one cursor to another. On every live connection, the frames
that the Deck has not read are a run from where it is (`Legal`), so that it takes the next one;
on a connection that is whole they lead to where the PC is, and the answers in flight are
those it waits for (`Lockstep`, `Answers`). A dropped connection keeps a prefix of a run, which is a
run; a connection that waits in the backlog holds a greeting and no more (`Queued`). Both
programs waiting with nothing in flight would be two cursors that are equal and wait for
different frames.

`StreamFitsOffer` and `SentIsHashed` count bytes. The bytes of a file in a stream are a finite set of
pairs of a frame and a place in it, so that what was sent of a file is a cardinality (`Carried`) and
needs no recursion; the invariant says that the sender is that far beyond the offset it was
asked for, as long as the connection is whole (`FileAt`). `OfferIsSource` relates the hash
to the file, for files that nobody edits.

`Stream`: the frames that were begun determine where every piece of them lies in the stream. `Layout`
says that what is unread is what lies there, from where the reader is, as far as nothing was
lost, and `Header` what the reader has in hand. A length is therefore never read from a payload, and no
byte of one frame is taken for one of the next, however the stream is cut.

`Copy` follows the receive folder from check to use while its user works in it. From the
moment in which `ensure_real_directory` has found or made a folder on, the folder
may go and come back, also as a link; but a link in its place is then one of `relinked`
(`OnlyLateLinks`). What is above a destination is such a
folder, or the receive folder itself, whose links are in `relinked` from `prepare_root` on; so every link on the way
to a destination and to the partial files is a late one (`WayToDestination`), and in an attempt that meets no
late link nothing is stored outside. What is at a destination that was found
free is a link that leads nowhere, a folder, or what the user has put there since
(`Vacant`), hence `KeepsBoth`; and the destinations of an offer differ (`Shape`), also when
the numbered name of one file is the name of another. `Intact` says what a user who does
nothing can rely on: folders stay, and a destination becomes a folder only if it is one of the
offer. From it follows `FailsForAReason`. That proof found the case of the numbered name above,
which the smaller offers of an earlier version of the run did not have.

On the PC, `PcInv` follows the walk. What is listed is beneath the input that was taken last, and
no entry is beneath another (`Todo`); what was added is beneath an input, by the path from
that input on, and beneath no entry that is still listed (`Added`); and every file beneath an
input that nobody touched is added, or beneath an entry that is listed (`Complete`). Entering
a folder replaces one entry by its children, and a file beneath the folder is beneath exactly one
of them (`NextName`, `AroundChild`). When nothing is listed any more, `Added` and
`Complete` together are `OfferIsTheTree`. `Reasons` is `RefusedForAReason`: each place in which
the walk fails shows a fault of the selection if nobody was there and everything could be read, because then what was listed
is still there; and whatever is refused for its size is a list of files that is beyond a limit. `Offered` says what the paths have become at the Deck; names without a
backslash come out as they were (`EncodedSame`, `NormalizedSame`), hence `NoTwoAlike`.

`StaysInside` compares two recursions, what `SafeRelativePath::new` collects and where the
operating system gets to, for paths of any length (`AcceptedIsBeneath`). `Normalized`,
`Encoded` and `Reached` are recursive functions on an interval. No induction theorem with an operator
as its parameter is available, so these are unfolded with two facts about numbers: a set of numbers
that is not empty has a least one (`LeastNumber`), and a set that has the
first number of an interval and with each one the next has them all (`CountUp`). From them
follows that a function defined by recursion exists (`Recursion`).

`Windows`: a window knows its worker by the channel only, so that the invariants relate three
things: what it shows, the messages no frame has taken, and what the worker has still to
report. On the PC, progress rises through all three (`Rising`). A frame moves the first message of
the second into the first and the worker the first report of the third to the end of the
second, and neither changes the order, hence `ProgressAdvances`; a click on Send begins with a bar
at nothing, an empty channel and reports of which each is at least as far as the one before
(`ReportsFit`, for a queue of any length). The end of the worker is the last message there
is, it says how the worker ended, and there is no worker when it is in the channel (`Endings`): the window
may therefore believe it, and offer another transfer. On the Deck, the end of a connection
is the last message when the receiver waits for the next one; while it serves one, an old
end in the channel or in the window has a message behind it that gives the window another
status (`Current`, `Replaced`). That a `FileStarted` event does not (it changes the name of the
file only) is why the message has to be looked for.

Model-checked only: the liveness properties `EventuallyDone`, `ReceiverReturns`, `EventuallyStored`,
`EveryFrameArrives` and `OutcomeShown`, which rest on fairness and are out of reach of the
provers; and the three runs that end in a violation, whose counterexample is the result.

## Not modelled

- The order and width of the fields in a payload and the `Decoder` that takes them apart;
  a payload that does not decode acts like a frame that does not fit.
- `FrameKind::Error`: `Stream` reads it, and nothing ever sends it.
- What lies beyond a link in the receive folder: whether something is found, made or stored
  there is a choice.
- In `Destinations`, the partial files: they are no nodes of the tree, no offer names a path
  beneath their folder (`Receiver` has the offers that do), and a partial file that cannot be opened because
  something else has its name (`receiver.rs:259-266`) is a disk error of `Receiver`.
- Anybody but the receiver who writes in `.sdft-partials`, except another receiver (`SharedFolder`).
- A worker thread that panics, and a receive folder on a file system without links or
  with names that differ only in case.
- The command lines, which call the engines once and print their events; the
  resolution of host names; what the windows look like.
- `receive_once`, one round of `listen` that only tests use. Packaging.
- Partial files that no offer ever asks for again: nothing removes them.

## What is left

The fields of a payload, and `Decoder`.
