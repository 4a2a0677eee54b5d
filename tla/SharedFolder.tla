---------------------------- MODULE SharedFolder ----------------------------
(***************************************************************************)
(* Several receivers on one receive folder (crates/core/src/receiver.rs):  *)
(* the window and the command line, say, on two ports.  A name leads to an *)
(* inode, and a file that is open stays the same inode whatever its names  *)
(* become.  Receiver has one receiver with everything that can happen to   *)
(* it; here transfers have one file and no power is lost.                  *)
(***************************************************************************)
EXTENDS Naturals, SequencesExt, FiniteSetsExt

CONSTANTS
    Receivers,
    Offered,        \* Offered[r]: files that PCs send to r, [path, data]
    MaxTransfers,   \* bound: offers in one behaviour
    MaxFaults       \* bound: wrong blocks in one behaviour

File == [path : STRING, data : Seq(STRING)]

ASSUME FolderAssumption ==
    /\ Offered \in [Receivers -> SUBSET File]
    /\ MaxTransfers \in Nat
    /\ MaxFaults \in Nat

VARIABLES
    disk,        \* the data of each inode
    partials,    \* the inodes of .sdft-partials, by name
    final,       \* the inodes of the receive folder, by name: a path, a number
    at,          \* what each receiver does next
    job,         \* what it knows of the file it receives
    clash,       \* history: two receivers have received the same file at once
    transfers, faults

vars == <<disk, partials, final, at, job, clash, transfers, faults>>

Nothing == [file |-> [path |-> "", data |-> <<>>], dest |-> <<"", 0>>,
            inode |-> 0, position |-> 0, hashed |-> <<>>]

Put(f, x, v) == [y \in DOMAIN f \cup {x} |-> IF y = x THEN v ELSE f[y]]

Init ==
    /\ disk = <<>>
    /\ partials = <<>>
    /\ final = <<>>
    /\ at = [r \in Receivers |-> "accept"]
    /\ job = [r \in Receivers |-> Nothing]
    /\ clash = FALSE
    /\ transfers = 0
    /\ faults = 0

Goto(r, place) == at' = [at EXCEPT ![r] = place]

\* receive_stream returns.
Leave(r) ==
    /\ Goto(r, "accept")
    /\ job' = [job EXCEPT ![r] = Nothing]

-----------------------------------------------------------------------------
\* Mutant: the path alone.
PartialByPath(f) == f.path

\* partial_name: the path, the size and the hash.
PartialName(f) == f

\* unique_destination: the number of the first name that is free.  There are
\* never more names than transfers.
FirstFree(path) ==
    {k \in 0 .. MaxTransfers :
        /\ <<path, k>> \notin DOMAIN final
        /\ \A j \in 0 .. k - 1 : <<path, j>> \in DOMAIN final}

\* prepare_files and the answer with the resume offset.
Plan(r) ==
    /\ at[r] = "accept" /\ transfers < MaxTransfers
    /\ transfers' = transfers + 1
    /\ \E f \in Offered[r] : \E k \in FirstFree(f.path) :
         LET name == PartialName(f)
             size == IF name \in DOMAIN partials THEN Len(disk[partials[name]]) ELSE 0
         IN  /\ job' = [job EXCEPT ![r] =
                  [Nothing EXCEPT !.file = f, !.dest = <<f.path, k>>,
                                  !.position = IF size > Len(f.data) THEN 0 ELSE size]]
             /\ disk' = IF size > Len(f.data) THEN [disk EXCEPT ![partials[name]] = <<>>]
                        ELSE disk
             /\ clash' = (clash \/ \E other \in Receivers \ {r} :
                            at[other] # "accept" /\ job[other].file = f)
    /\ Goto(r, "open")
    /\ UNCHANGED <<partials, final, faults>>

\* The partial file is opened, or created, and its prefix hashed.
Open(r) ==
    LET name == PartialName(job[r].file)
        inode == IF name \in DOMAIN partials THEN partials[name] ELSE Len(disk) + 1
        data == IF name \in DOMAIN partials THEN disk[inode] ELSE <<>>
    IN  /\ at[r] = "open"
        /\ disk' = IF inode \in DOMAIN disk THEN disk ELSE Append(disk, <<>>)
        /\ partials' = Put(partials, name, inode)
        /\ IF Len(data) < job[r].position THEN Leave(r)
           ELSE /\ job' = [job EXCEPT ![r].inode = inode,
                                      ![r].hashed = SubSeq(data, 1, job[r].position)]
                /\ Goto(r, "data")
        /\ UNCHANGED <<final, clash, transfers, faults>>

\* What write_all makes of d: a file that became shorter is filled with zeros.
Written(d, position, block) ==
    [k \in 1 .. Max({Len(d), position + 1}) |->
       IF k = position + 1 THEN block ELSE IF k \in DOMAIN d THEN d[k] ELSE "zero"]

\* A chunk, which is not the one that was offered if the PC's file changed.
Write(r) ==
    LET j == job[r] IN
    /\ at[r] = "data" /\ j.position < Len(j.file.data)
    /\ \E block \in {j.file.data[j.position + 1]} \cup
                    (IF faults < MaxFaults THEN {"wrong"} ELSE {}) :
         /\ disk' = [disk EXCEPT ![j.inode] = Written(@, j.position, block)]
         /\ job' = [job EXCEPT ![r].position = @ + 1, ![r].hashed = Append(@, block)]
         /\ faults' = IF block = "wrong" THEN faults + 1 ELSE faults
    /\ UNCHANGED <<partials, final, at, clash, transfers>>

\* Mutant: whatever arrived is renamed.
AnyHash(r) == TRUE

HashMatches(r) == job[r].hashed = job[r].file.data

\* The hash decides; a file that does not match is emptied.
Verify(r) ==
    /\ at[r] = "data" /\ job[r].position = Len(job[r].file.data)
    /\ IF HashMatches(r)
       THEN Goto(r, "rename") /\ UNCHANGED <<disk, job>>
       ELSE Leave(r) /\ disk' = [disk EXCEPT ![job[r].inode] = <<>>]
    /\ UNCHANGED <<partials, final, clash, transfers, faults>>

\* Mutant: the file gets a second name.
WithPartial(name) == partials

WithoutPartial(name) == [n \in DOMAIN partials \ {name} |-> partials[n]]

\* fs::rename takes what the partial name leads to now, and fails if that is
\* nothing.
Rename(r) ==
    LET name == PartialName(job[r].file) IN
    /\ at[r] = "rename"
    /\ IF name \in DOMAIN partials
       THEN /\ final' = Put(final, job[r].dest, partials[name])
            /\ partials' = WithoutPartial(name)
       ELSE UNCHANGED <<final, partials>>
    /\ Leave(r)
    /\ UNCHANGED <<disk, clash, transfers, faults>>

\* The connection ends, or the program.
Cut(r) ==
    /\ at[r] \in {"open", "data", "rename"}
    /\ Leave(r)
    /\ UNCHANGED <<disk, partials, final, clash, transfers, faults>>

Next == \E r \in Receivers : Plan(r) \/ Open(r) \/ Write(r) \/ Verify(r) \/ Rename(r) \/ Cut(r)

Spec == Init /\ [][Next]_vars

-----------------------------------------------------------------------------
Files == UNION {Offered[r] : r \in Receivers}

\* Names lead to inodes, none has two names, and so no later transfer opens
\* what already has a final name.
TypeOK ==
    /\ \A n \in DOMAIN partials : partials[n] \in DOMAIN disk
    /\ \A n \in DOMAIN final : final[n] \in DOMAIN disk
    /\ IsInjective(partials) /\ IsInjective(final)
    /\ Range(partials) \cap Range(final) = {}
    /\ \A r \in Receivers : at[r] \in {"data", "rename"} =>
         job[r].inode \in DOMAIN disk /\ job[r].position = Len(job[r].hashed)

\* As long as no two receivers received the same file at once: of every partial
\* file that is written, the receiver has hashed exactly what it holds up to the
\* place where the next chunk goes.
HashedIsStored ==
    ~clash => \A r \in Receivers : at[r] \in {"data", "rename"} =>
        IsPrefix(job[r].hashed, disk[job[r].inode])

Whole(n) == \E f \in Files : f.path = n[1] /\ disk[final[n]] = f.data

\* "Never place a partial file at the final destination name" holds for several
\* receivers too, as long as no two of them received the same file at once; two
\* versions of a file, or two files that end up side by side, do not disturb
\* each other.
NoPartialAtName == ~clash => \A n \in DOMAIN final : Whole(n)
=============================================================================
