------------------------- MODULE SharedFolderProofs -------------------------
(***************************************************************************)
(* Any number of receivers on one receive folder, for every value of the   *)
(* constants.                                                              *)
(***************************************************************************)
EXTENDS SharedFolder, SequenceTheorems, TLAPS

\* What a file on the disk consists of.
Byte == STRING \cup {"wrong", "zero"}

Job == [file : File, dest : STRING \X Nat, inode : Nat, position : Nat,
        hashed : Seq(Byte)]

Types ==
    /\ disk \in Seq(Seq(Byte))
    /\ at \in [Receivers -> {"accept", "open", "data", "rename"}]
    /\ job \in [Receivers -> Job \cup {Nothing}]
    /\ clash \in BOOLEAN

\* Receivers that are at work receive different files.
Apart ==
    ~clash => \A r, s \in Receivers :
        at[r] # "accept" /\ at[s] # "accept" /\ r # s => job[r].file # job[s].file

\* What a receiver knows of its file is what is on the disk.
Knows(r) ==
    LET j == job[r] IN
    /\ at[r] # "accept" => j \in Job /\ j.file \in Offered[r] /\ j.dest[1] = j.file.path
    /\ at[r] \in {"data", "rename"} =>
         j.inode \in DOMAIN disk /\ j.position = Len(j.hashed)
    /\ at[r] = "rename" => j.hashed = j.file.data
    /\ ~clash /\ at[r] = "open" =>
         IF j.file \in DOMAIN partials THEN j.position = Len(disk[partials[j.file]])
                                       ELSE j.position = 0
    /\ ~clash /\ at[r] \in {"data", "rename"} =>
         /\ j.file \in DOMAIN partials
         /\ partials[j.file] = j.inode
         /\ disk[j.inode] = j.hashed

Names ==
    /\ \A n \in DOMAIN partials : partials[n] \in DOMAIN disk
    /\ \A n \in DOMAIN final : final[n] \in DOMAIN disk
    /\ \A m, n \in DOMAIN partials : partials[m] = partials[n] => m = n
    /\ \A m, n \in DOMAIN final : final[m] = final[n] => m = n
    /\ \A m \in DOMAIN partials, n \in DOMAIN final : partials[m] # final[n]

Inv ==
    /\ Types
    /\ Names
    /\ Apart
    /\ \A r \in Receivers : Knows(r)
    /\ NoPartialAtName

-----------------------------------------------------------------------------
\* An empty folder and receivers that wait.
LEMMA InitInv == Init => Inv
<1> SUFFICES ASSUME Init PROVE Inv
  OBVIOUS
<1>2. Types
  BY EmptySeq DEF Init, Types
<1>3. DOMAIN partials = {} /\ DOMAIN final = {}
  BY EmptySeq, Z3 DEF Init
<1> QED BY <1>2, <1>3 DEF Init, Inv, Names, Apart, Knows, NoPartialAtName

\* A sequence of the disk.
LEMMA Inode ==
    ASSUME Types, NEW i \in DOMAIN disk
    PROVE  /\ disk[i] \in Seq(Byte)
           /\ Len(disk[i]) \in Nat
           /\ i \in Nat
           /\ \A d \in Seq(Byte) :
                /\ [disk EXCEPT ![i] = d] \in Seq(Seq(Byte))
                /\ DOMAIN [disk EXCEPT ![i] = d] = DOMAIN disk
                /\ [disk EXCEPT ![i] = d][i] = d
                /\ \A k \in DOMAIN disk : k # i => [disk EXCEPT ![i] = d][k] = disk[k]
<1>1. Len(disk) \in Nat /\ DOMAIN disk = 1 .. Len(disk) /\ disk \in [1 .. Len(disk) -> Seq(Byte)]
  BY LenProperties DEF Types
<1>2. disk[i] \in Seq(Byte)
  BY <1>1
<1>3. Len(disk[i]) \in Nat
  BY <1>2, LenProperties
<1>4. ASSUME NEW d \in Seq(Byte)
      PROVE  [disk EXCEPT ![i] = d] \in Seq(Seq(Byte))
  BY <1>1, ExceptSeq DEF Types
<1> QED BY <1>1, <1>2, <1>3, <1>4

\* A new inode.
LEMMA NewInode ==
    ASSUME Types
    PROVE  /\ Append(disk, <<>>) \in Seq(Seq(Byte))
           /\ Len(disk) + 1 \in Nat
           /\ Len(disk) + 1 \notin DOMAIN disk
           /\ DOMAIN Append(disk, <<>>) = DOMAIN disk \cup {Len(disk) + 1}
           /\ \A k \in DOMAIN disk : Append(disk, <<>>)[k] = disk[k]
           /\ Append(disk, <<>>)[Len(disk) + 1] = <<>>
<1>1. Len(disk) \in Nat /\ DOMAIN disk = 1 .. Len(disk)
  BY LenProperties DEF Types
<1>2. <<>> \in Seq(Byte)
  BY EmptySeq
<1>3. /\ Append(disk, <<>>) \in Seq(Seq(Byte))
      /\ Len(Append(disk, <<>>)) = Len(disk) + 1
      /\ \A i \in 1 .. Len(disk) : Append(disk, <<>>)[i] = disk[i]
      /\ Append(disk, <<>>)[Len(disk) + 1] = <<>>
  BY <1>2, AppendProperties DEF Types
<1>4. DOMAIN Append(disk, <<>>) = 1 .. Len(disk) + 1
  BY <1>3, LenProperties
<1> QED BY <1>1, <1>3, <1>4

\* A chunk at the end of what is there.
LEMMA WrittenAtEnd ==
    ASSUME NEW d \in Seq(Byte), NEW block \in Byte
    PROVE  Written(d, Len(d), block) = Append(d, block)
<1> DEFINE n == Len(d)
<1>1. n \in Nat /\ DOMAIN d = 1 .. n
  BY LenProperties
<1>2. Max({n, n + 1}) = n + 1
  <2>1. n + 1 \in {n, n + 1} /\ \A y \in {n, n + 1} : n + 1 >= y
    BY <1>1
  <2>2. ASSUME NEW m \in {n, n + 1}, \A y \in {n, n + 1} : m >= y
        PROVE  m = n + 1
    BY <1>1, <2>2
  <2> HIDE DEF n
  <2> QED BY <2>1, <2>2 DEF Max
<1>3. Written(d, n, block) = [k \in 1 .. n + 1 |-> IF k = n + 1 THEN block ELSE IF k \in DOMAIN d THEN d[k] ELSE "zero"]
  BY <1>2 DEF Written
<1>4. (\A k \in 1 .. n : d[k] \in Byte) /\ "zero" \in Byte
  BY <1>1, ElementOfSeq DEF Byte
<1>5. Written(d, n, block) \in Seq(Byte) /\ Len(Written(d, n, block)) = n + 1
  <2> DEFINE w == Written(d, n, block)
  <2>1. w \in [1 .. n + 1 -> Byte]
    BY <1>1, <1>3, <1>4
  <2> HIDE DEF w, n
  <2>2. w \in Seq(Byte)
    BY <1>1, <2>1, SeqDef
  <2>3. Len(w) = n + 1
    BY <1>1, <2>1, <2>2, LenProperties
  <2> QED BY <2>2, <2>3 DEF w
<1>6. /\ Append(d, block) \in Seq(Byte)
      /\ Len(Append(d, block)) = n + 1
      /\ \A i \in 1 .. n : Append(d, block)[i] = d[i]
      /\ Append(d, block)[n + 1] = block
  <2> HIDE DEF Byte
  <2> QED BY AppendProperties
<1>7. \A i \in 1 .. n + 1 : Written(d, n, block)[i] = Append(d, block)[i]
  BY <1>1, <1>3, <1>6
<1> HIDE DEF n
<1>8. Written(d, n, block) = Append(d, block)
  BY <1>5, <1>6, <1>7, SeqEqual
<1> QED BY <1>8 DEF n

\* A chunk anywhere.
LEMMA WrittenType ==
    ASSUME NEW d \in Seq(Byte), NEW position \in Nat, NEW block \in Byte
    PROVE  Written(d, position, block) \in Seq(Byte)
<1> DEFINE n == Len(d)
           m == Max({n, position + 1})
<1>1. n \in Nat /\ DOMAIN d = 1 .. n
  BY LenProperties
<1>2. m \in Nat
  <2>1. PICK x \in {n, position + 1} : \A y \in {n, position + 1} : x >= y
    <3> HIDE DEF n
    <3>1. n >= position + 1 \/ position + 1 >= n
      BY <1>1
    <3> QED BY <1>1, <3>1
  <2>2. m \in {n, position + 1}
    <3> HIDE DEF n
    <3> QED BY <2>1 DEF Max
  <2> HIDE DEF n, m
  <2> QED BY <1>1, <2>2
<1>3. (\A k \in DOMAIN d : d[k] \in Byte) /\ "zero" \in Byte
  BY <1>1, ElementOfSeq DEF Byte
<1>4. Written(d, position, block) \in [1 .. m -> Byte]
  <2>1. Written(d, position, block) =
          [k \in 1 .. m |-> IF k = position + 1 THEN block
                            ELSE IF k \in DOMAIN d THEN d[k] ELSE "zero"]
    BY DEF Written
  <2> HIDE DEF m, n
  <2> QED BY <1>3, <2>1
<1> HIDE DEF m
<1> QED BY <1>2, <1>4, SeqDef
-----------------------------------------------------------------------------
(* The steps of one receiver, r. *)

\* What another receiver knows stays true if its files are left alone.
LEMMA OthersKnow ==
    ASSUME NEW s \in Receivers, Knows(s),
           at'[s] = at[s], job'[s] = job[s], clash => clash',
           DOMAIN disk \subseteq DOMAIN disk',
           at[s] # "accept" /\ ~clash' =>
             LET f == job[s].file IN
             /\ f \in DOMAIN partials' <=> f \in DOMAIN partials
             /\ f \in DOMAIN partials =>
                  /\ partials'[f] = partials[f]
                  /\ disk'[partials[f]] = disk[partials[f]]
    PROVE  Knows(s)'
  BY DEF Knows

\* The steps that change neither names nor files.
LEMMA LeaveInv ==
    ASSUME Inv, NEW r \in Receivers, Leave(r), UNCHANGED <<disk, partials, final, clash>>
    PROVE  Inv'
<1>1. Types'
  BY DEF Leave, Goto, Inv, Types
<1>2. at'[r] = "accept" /\ \A s \in Receivers : s # r => at'[s] = at[s] /\ job'[s] = job[s]
  BY DEF Leave, Goto, Inv, Types
<1>3. Apart'
  BY <1>2 DEF Inv, Apart
<1>4. \A s \in Receivers : Knows(s)'
  BY <1>2 DEF Inv, Knows
<1> QED BY <1>1, <1>3, <1>4 DEF Inv, Names, NoPartialAtName, Whole

\* A receiver that plans a file touches no data.
LEMMA PlanInv ==
    ASSUME Inv, NEW r \in Receivers, Plan(r)
    PROVE  Inv'
<1> DEFINE size(f) == IF f \in DOMAIN partials THEN Len(disk[partials[f]]) ELSE 0
           position(f) == IF size(f) > Len(f.data) THEN 0 ELSE size(f)
<1>0. PICK f \in Offered[r] : \E k \in FirstFree(f.path) :
        /\ job' = [job EXCEPT ![r] =
              [Nothing EXCEPT !.file = f, !.dest = <<f.path, k>>, !.position = position(f)]]
        /\ disk' = IF size(f) > Len(f.data) THEN [disk EXCEPT ![partials[f]] = <<>>] ELSE disk
        /\ clash' = (clash \/ \E other \in Receivers \ {r} :
                       at[other] # "accept" /\ job[other].file = f)
  BY DEF Plan, PartialName
<1>1. PICK k \in FirstFree(f.path) :
        /\ job' = [job EXCEPT ![r] =
              [Nothing EXCEPT !.file = f, !.dest = <<f.path, k>>, !.position = position(f)]]
        /\ disk' = IF size(f) > Len(f.data) THEN [disk EXCEPT ![partials[f]] = <<>>] ELSE disk
        /\ clash' = (clash \/ \E other \in Receivers \ {r} :
                       at[other] # "accept" /\ job[other].file = f)
  BY <1>0
<1>2. /\ f \in File /\ f.path \in STRING /\ k \in Nat /\ Len(f.data) \in Nat
      /\ <<>> \in Seq(Byte)
  <2>1. f \in File
    BY FolderAssumption
  <2>2. f.path \in STRING /\ f.data \in Seq(STRING)
    BY <2>1 DEF File
  <2>3. Len(f.data) \in Nat
    BY <2>2, LenProperties
  <2>4. k \in Nat
    BY FolderAssumption DEF FirstFree
  <2> QED BY <2>1, <2>2, <2>3, <2>4, EmptySeq
<1>3. size(f) \in Nat /\ position(f) \in Nat
  BY Inode DEF Inv, Names
<1>4. /\ job'[r] = [file |-> f, dest |-> <<f.path, k>>, inode |-> 0,
                    position |-> position(f), hashed |-> <<>>]
      /\ \A s \in Receivers : s # r => job'[s] = job[s] /\ at'[s] = at[s]
      /\ at'[r] = "open"
      /\ job' = [job EXCEPT ![r] = job'[r]]
      /\ at[r] = "accept"
  BY <1>1 DEF Plan, Goto, Nothing, Inv, Types
<1>5. job'[r] \in Job
  <2>1. <<f.path, k>> \in STRING \X Nat
    BY <1>2
  <2> HIDE DEF position
  <2> QED BY <1>2, <1>3, <1>4, <2>1 DEF Job
<1>6. /\ disk' \in Seq(Seq(Byte))
      /\ DOMAIN disk' = DOMAIN disk
      /\ \A i \in DOMAIN disk : f \notin DOMAIN partials \/ i # partials[f] => disk'[i] = disk[i]
      /\ f \in DOMAIN partials => Len(disk'[partials[f]]) = position(f)
  <2>1. CASE size(f) > Len(f.data)
    <3>1. f \in DOMAIN partials /\ partials[f] \in DOMAIN disk
      BY <1>2, <2>1 DEF Inv, Names
    <3>2. disk' = [disk EXCEPT ![partials[f]] = <<>>]
      BY <1>1, <2>1
    <3>3. Len(<<>>) = 0
      BY EmptySeq
    <3> QED BY <1>2, <2>1, <3>1, <3>2, <3>3, Inode DEF Inv
  <2>2. CASE ~(size(f) > Len(f.data))
    BY <1>1, <2>2 DEF Inv, Types
  <2> QED BY <2>1, <2>2
<1>7. Types'
  <2>1. job' \in [Receivers -> Job \cup {Nothing}]
    BY <1>4, <1>5 DEF Inv, Types
  <2>2. at' \in [Receivers -> {"accept", "open", "data", "rename"}] /\ clash' \in BOOLEAN
    BY <1>1 DEF Plan, Goto, Inv, Types
  <2> QED BY <1>6, <2>1, <2>2 DEF Types
<1>8. Names'
  BY <1>6 DEF Plan, Inv, Names
<1>9. Apart'
  <2> SUFFICES ASSUME ~clash', NEW s \in Receivers, NEW t \in Receivers,
                      at'[s] # "accept", at'[t] # "accept", s # t
               PROVE  job'[s].file # job'[t].file
    BY DEF Apart
  <2>1. ~clash /\ \A other \in Receivers \ {r} : at[other] # "accept" => job[other].file # f
    BY <1>1
  <2>2. job'[r].file = f
    BY <1>4
  <2> QED BY <1>4, <2>1, <2>2 DEF Inv, Apart
<1>10. Knows(r)'
  <2>1. /\ job'[r].file = f /\ job'[r].dest = <<f.path, k>>
        /\ job'[r].position = position(f)
    BY <1>4
  <2>2. f \notin DOMAIN partials => position(f) = 0
    BY <1>2
  <2>3. partials' = partials
    BY DEF Plan
  <2> HIDE DEF position, size
  <2> QED BY <1>4, <1>5, <1>6, <2>1, <2>2, <2>3 DEF Knows
<1>11. ASSUME NEW s \in Receivers, s # r PROVE Knows(s)'
  <2>1. clash => clash'
    BY <1>1
  <2>2. ASSUME at[s] # "accept", ~clash', job[s].file \in DOMAIN partials
        PROVE  disk'[partials[job[s].file]] = disk[partials[job[s].file]]
    <3>1. job[s].file # f
      BY <1>1, <1>11, <2>2
    <3> QED BY <1>6, <2>2, <3>1 DEF Inv, Names
  <2>3. UNCHANGED partials
    BY DEF Plan
  <2> QED BY <1>4, <1>6, <1>11, <2>1, <2>2, <2>3, OthersKnow DEF Inv
<1>12. NoPartialAtName'
  <2> SUFFICES ASSUME ~clash', NEW n \in DOMAIN final' PROVE Whole(n)'
    BY DEF NoPartialAtName
  <2>1. ~clash /\ final' = final
    BY <1>1 DEF Plan
  <2>2. disk'[final[n]] = disk[final[n]]
    BY <1>6, <2>1 DEF Inv, Names
  <2> QED BY <2>1, <2>2 DEF Inv, NoPartialAtName, Whole
<1> QED BY <1>7, <1>8, <1>9, <1>10, <1>11, <1>12 DEF Inv

\* Opening a partial file makes its receiver know what is in it.
LEMMA OpenInv ==
    ASSUME Inv, NEW r \in Receivers, Open(r)
    PROVE  Inv'
<1> DEFINE name == job[r].file
           inode == IF name \in DOMAIN partials THEN partials[name] ELSE Len(disk) + 1
           data == IF name \in DOMAIN partials THEN disk[inode] ELSE <<>>
           hashed == SubSeq(data, 1, job[r].position)
<1>1. /\ at[r] = "open"
      /\ disk' = IF inode \in DOMAIN disk THEN disk ELSE Append(disk, <<>>)
      /\ partials' = Put(partials, name, inode)
      /\ UNCHANGED <<final, clash, transfers, faults>>
  BY DEF Open, PartialName
<1>2. /\ disk' \in Seq(Seq(Byte))
      /\ DOMAIN disk \subseteq DOMAIN disk'
      /\ \A i \in DOMAIN disk : disk'[i] = disk[i]
      /\ inode \in DOMAIN disk' /\ inode \in Nat
      /\ disk'[inode] = data
      /\ data \in Seq(Byte)
  <2>1. CASE name \in DOMAIN partials
    <3>1. inode \in DOMAIN disk
      BY <2>1 DEF Inv, Names
    <3> QED BY <1>1, <2>1, <3>1, Inode DEF Inv, Types
  <2>2. CASE name \notin DOMAIN partials
    BY <1>1, <2>2, NewInode, EmptySeq DEF Inv
  <2> QED BY <2>1, <2>2
<1>3. /\ DOMAIN partials' = DOMAIN partials \cup {name}
      /\ \A n \in DOMAIN partials : partials'[n] = partials[n]
      /\ partials'[name] = inode
      /\ name \notin DOMAIN partials => inode \notin DOMAIN disk
  BY <1>1, NewInode DEF Put, Inv
<1>4. Names'
  <2> HIDE DEF name, inode
  <2>1. Names /\ final' = final
    BY <1>1 DEF Inv
  <2>2. CASE name \in DOMAIN partials
    <3>1. DOMAIN partials' = DOMAIN partials /\ \A n \in DOMAIN partials : partials'[n] = partials[n]
      BY <1>3, <2>2
    <3> QED BY <1>2, <2>1, <3>1 DEF Names
  <2>3. CASE name \notin DOMAIN partials
    <3>1. \A n \in DOMAIN partials' : n = name \/ (n \in DOMAIN partials /\ partials'[n] = partials[n])
      BY <1>3
    <3>2. \A m, n \in DOMAIN partials' : partials'[m] = partials'[n] => m = n
      BY <1>3, <2>1, <2>3, <3>1 DEF Names
    <3>3. \A n \in DOMAIN partials' : partials'[n] \in DOMAIN disk'
      BY <1>2, <1>3, <2>1, <3>1 DEF Names
    <3>4. \A m \in DOMAIN partials', n \in DOMAIN final : partials'[m] # final[n]
      BY <1>3, <2>1, <2>3, <3>1 DEF Names
    <3> QED BY <1>2, <2>1, <3>2, <3>3, <3>4 DEF Names
  <2> QED BY <2>2, <2>3
<1>5. NoPartialAtName'
  <2> SUFFICES ASSUME ~clash, NEW n \in DOMAIN final PROVE Whole(n)'
    BY <1>1 DEF NoPartialAtName
  <2>1. disk'[final[n]] = disk[final[n]]
    BY <1>2 DEF Inv, Names
  <2> QED BY <1>1, <2>1 DEF Inv, NoPartialAtName, Whole
<1>6. job[r] \in Job /\ name \in Offered[r]
  BY <1>1 DEF Inv, Knows
<1>7. CASE Len(data) < job[r].position
  <2>1. Leave(r)
    BY <1>7 DEF Open, PartialName
  <2>2. Types'
    BY <1>1, <1>2, <2>1 DEF Leave, Goto, Inv, Types
  <2>3. at'[r] = "accept" /\ \A s \in Receivers : s # r => at'[s] = at[s] /\ job'[s] = job[s]
    BY <2>1 DEF Leave, Goto, Inv, Types
  <2>4. Apart'
    BY <1>1, <2>3 DEF Inv, Apart
  <2>5. Knows(r)'
    BY <2>3 DEF Knows
  <2>6. ASSUME NEW s \in Receivers, s # r PROVE Knows(s)'
    <3>1. ASSUME at[s] # "accept", ~clash' PROVE job[s].file # name
      BY <1>1, <2>6, <3>1 DEF Inv, Apart
    <3>2. ASSUME job[s].file \in DOMAIN partials
          PROVE  disk'[partials[job[s].file]] = disk[partials[job[s].file]]
      BY <1>2, <3>2 DEF Inv, Names
    <3> HIDE DEF name, inode
    <3> QED BY <1>1, <1>2, <1>3, <2>3, <2>6, <3>1, <3>2, OthersKnow DEF Inv
  <2> QED BY <1>4, <1>5, <2>2, <2>4, <2>5, <2>6 DEF Inv
<1>8. CASE ~(Len(data) < job[r].position)
  <2>1. /\ job' = [job EXCEPT ![r].inode = inode, ![r].hashed = hashed]
        /\ Goto(r, "data")
    BY <1>8 DEF Open, PartialName
  <2>2. /\ job'[r] = [job[r] EXCEPT !.inode = inode, !.hashed = hashed]
        /\ at'[r] = "data"
        /\ \A s \in Receivers : s # r => at'[s] = at[s] /\ job'[s] = job[s]
        /\ job' = [job EXCEPT ![r] = job'[r]]
    BY <2>1 DEF Goto, Inv, Types
  <2>3. Len(data) \in Nat /\ job[r].position \in 0 .. Len(data)
    BY <1>2, <1>6, <1>8, LenProperties DEF Job
  <2>4. hashed \in Seq(Byte) /\ Len(hashed) = job[r].position
    <3>1. \A i \in 1 .. job[r].position : data[i] \in Byte
      BY <1>2, <2>3, ElementOfSeq
    <3> HIDE DEF data
    <3> QED BY <2>3, <3>1, SubSeqProperties
  <2>5. /\ job'[r] \in Job
        /\ job'[r].file = name /\ job'[r].inode = inode
        /\ job'[r].hashed = hashed /\ job'[r].position = job[r].position
        /\ job'[r].dest = job[r].dest
    <3> HIDE DEF inode, hashed
    <3> QED BY <1>2, <1>6, <2>2, <2>4 DEF Job
  <2>6. Types'
    <3>1. job' \in [Receivers -> Job \cup {Nothing}]
      BY <2>2, <2>5 DEF Inv, Types
    <3>2. at' \in [Receivers -> {"accept", "open", "data", "rename"}]
      BY <2>1 DEF Goto, Inv, Types
    <3> QED BY <1>1, <1>2, <3>1, <3>2 DEF Inv, Types
  <2>7. Apart'
    <3> HIDE DEF inode, hashed
    <3>1. \A s \in Receivers :
             job'[s].file = job[s].file /\ (at'[s] # "accept" <=> at[s] # "accept")
      BY <1>1, <2>2, <2>5
    <3>2. Apart /\ clash' = clash
      BY <1>1 DEF Inv
    <3> HIDE DEF name
    <3> QED BY <3>1, <3>2 DEF Apart
  <2>8. ~clash => hashed = data
    <3> SUFFICES ASSUME ~clash PROVE hashed = data
      OBVIOUS
    <3>1. Len(<<>>) = 0
      BY EmptySeq
    <3>2. job[r].position = Len(data)
      BY <1>1, <3>1 DEF Inv, Knows
    <3> HIDE DEF data
    <3> QED BY <1>2, <3>2, SubSeqFull
  <2>9. Knows(r)'
    <3> HIDE DEF name, inode, data, hashed
    <3>1. job'[r].dest[1] = name.path
      BY <1>1, <2>5 DEF Inv, Knows, name
    <3> QED BY <1>1, <1>2, <1>3, <1>6, <2>2, <2>4, <2>5, <2>8, <3>1 DEF Knows
  <2>10. ASSUME NEW s \in Receivers, s # r PROVE Knows(s)'
    <3>1. ASSUME at[s] # "accept", ~clash' PROVE job[s].file # name
      BY <1>1, <2>10, <3>1 DEF Inv, Apart
    <3>2. ASSUME job[s].file \in DOMAIN partials
          PROVE  disk'[partials[job[s].file]] = disk[partials[job[s].file]]
      BY <1>2, <3>2 DEF Inv, Names
    <3> HIDE DEF name, inode
    <3> QED BY <1>1, <1>2, <1>3, <2>2, <2>10, <3>1, <3>2, OthersKnow DEF Inv
  <2> QED BY <1>4, <1>5, <2>6, <2>7, <2>9, <2>10 DEF Inv
<1> QED BY <1>7, <1>8

\* Writing to the file that r has open, which nobody else and no final name
\* leads to.
LEMMA OpenFileKnown ==
    ASSUME Inv, NEW r \in Receivers, at[r] \in {"data", "rename"}
    PROVE  /\ job[r] \in Job
           /\ job[r].inode \in DOMAIN disk
           /\ job[r].hashed \in Seq(Byte)
           /\ job[r].position = Len(job[r].hashed)
           /\ ~clash => /\ job[r].file \in DOMAIN partials
                        /\ partials[job[r].file] = job[r].inode
                        /\ disk[job[r].inode] = job[r].hashed
                        /\ \A n \in DOMAIN final : final[n] # job[r].inode
                        /\ \A n \in DOMAIN partials :
                             n # job[r].file => partials[n] # job[r].inode
<1>1. Knows(r)
  BY DEF Inv
<1>2. job[r] \in Job
  BY <1>1 DEF Knows
<1>3. job[r].hashed \in Seq(Byte)
  BY <1>2 DEF Job
<1> QED BY <1>1, <1>2, <1>3 DEF Inv, Knows, Names

\* A receiver that writes to its own inode leaves the others' files alone.
LEMMA FilesLeftAlone ==
    ASSUME Inv, NEW r \in Receivers, at[r] \in {"data", "rename"},
           NEW d \in Seq(Byte), disk' = [disk EXCEPT ![job[r].inode] = d],
           UNCHANGED <<partials, final, clash>>,
           \A s \in Receivers : s # r => at'[s] = at[s] /\ job'[s] = job[s]
    PROVE  /\ disk' \in Seq(Seq(Byte))
           /\ Names'
           /\ NoPartialAtName'
           /\ \A s \in Receivers : s # r => Knows(s)'
<1>1. /\ disk' \in Seq(Seq(Byte))
      /\ DOMAIN disk' = DOMAIN disk
      /\ \A k \in DOMAIN disk : k # job[r].inode => disk'[k] = disk[k]
  BY OpenFileKnown, Inode DEF Inv
<1>2. Names'
  BY <1>1 DEF Inv, Names
<1>3. NoPartialAtName'
  <2> SUFFICES ASSUME ~clash, NEW n \in DOMAIN final PROVE Whole(n)'
    BY DEF NoPartialAtName
  <2>1. disk'[final[n]] = disk[final[n]]
    BY <1>1, OpenFileKnown DEF Inv, Names
  <2> QED BY <2>1 DEF Inv, NoPartialAtName, Whole
<1>4. ASSUME NEW s \in Receivers, s # r PROVE Knows(s)'
  <2>1. ASSUME at[s] # "accept", ~clash', job[s].file \in DOMAIN partials
        PROVE  disk'[partials[job[s].file]] = disk[partials[job[s].file]]
    <3>1. job[s].file # job[r].file
      BY <1>4, <2>1 DEF Inv, Apart
    <3>2. partials[job[s].file] # job[r].inode
      BY <2>1, <3>1, OpenFileKnown
    <3> QED BY <1>1, <2>1, <3>2 DEF Inv, Names
  <2> QED BY <1>1, <1>4, <2>1, OthersKnow DEF Inv
<1> QED BY <1>1, <1>2, <1>3, <1>4

\* A block is written where it is hashed.
LEMMA WriteInv ==
    ASSUME Inv, NEW r \in Receivers, Write(r)
    PROVE  Inv'
<1> DEFINE j == job[r]
<1>1. PICK block \in {j.file.data[j.position + 1]} \cup (IF faults < MaxFaults THEN {"wrong"} ELSE {}) :
        /\ disk' = [disk EXCEPT ![j.inode] = Written(@, j.position, block)]
        /\ job' = [job EXCEPT ![r].position = @ + 1, ![r].hashed = Append(@, block)]
  BY DEF Write
<1>2. at[r] = "data" /\ j.position < Len(j.file.data) /\ UNCHANGED <<partials, final, at, clash>>
  BY DEF Write
<1>3. /\ j \in Job /\ j.inode \in DOMAIN disk /\ j.hashed \in Seq(Byte)
      /\ j.position = Len(j.hashed) /\ j.position \in Nat
      /\ ~clash => /\ j.file \in DOMAIN partials
                   /\ partials[j.file] = j.inode
                   /\ disk[j.inode] = j.hashed
  BY <1>2, OpenFileKnown DEF Job
<1>4. block \in Byte
  <2>1. j.file.data \in Seq(STRING)
    BY <1>3 DEF Job, File
  <2>2. Len(j.file.data) \in Nat
    BY <2>1, LenProperties
  <2>3. j.position + 1 \in 1 .. Len(j.file.data)
    BY <1>2, <1>3, <2>2
  <2> HIDE DEF j
  <2>4. j.file.data[j.position + 1] \in STRING
    BY <2>1, <2>3, ElementOfSeq
  <2> QED BY <1>1, <2>4 DEF Byte
<1> DEFINE new == Written(disk[j.inode], j.position, block)
           hashed == Append(j.hashed, block)
<1>5. disk[j.inode] \in Seq(Byte)
  BY <1>3, Inode DEF Inv
<1>6. new \in Seq(Byte) /\ disk' = [disk EXCEPT ![j.inode] = new]
  <2> HIDE DEF j
  <2> QED BY <1>1, <1>3, <1>4, <1>5, WrittenType
<1>7. hashed \in Seq(Byte) /\ Len(hashed) = j.position + 1
  <2> HIDE DEF j
  <2> QED BY <1>3, <1>4, AppendProperties
<1>8. ~clash => new = hashed
  <2> HIDE DEF j
  <2> QED BY <1>3, <1>4, WrittenAtEnd
<1> HIDE DEF new, hashed
<1>9. /\ job'[r] = [j EXCEPT !.position = @ + 1, !.hashed = hashed]
      /\ \A s \in Receivers : s # r => at'[s] = at[s] /\ job'[s] = job[s]
      /\ job' = [job EXCEPT ![r] = job'[r]]
  BY <1>1, <1>2 DEF hashed, Inv, Types
<1>10. /\ job'[r] \in Job
       /\ job'[r].file = j.file /\ job'[r].inode = j.inode /\ job'[r].dest = j.dest
       /\ job'[r].hashed = hashed /\ job'[r].position = Len(hashed)
  <2> HIDE DEF j
  <2> DEFINE p == j.position + 1
  <2>1. p \in Nat /\ p = Len(hashed)
    BY <1>3, <1>7
  <2>2. job'[r] = [j EXCEPT !.position = p, !.hashed = hashed]
    BY <1>9
  <2> HIDE DEF p
  <2>3. job'[r] = [file |-> j.file, dest |-> j.dest, inode |-> j.inode,
                   position |-> p, hashed |-> hashed]
    BY <1>3, <2>2 DEF Job
  <2> QED BY <1>3, <1>7, <2>1, <2>3 DEF Job
<1>11. /\ disk' \in Seq(Seq(Byte)) /\ Names' /\ NoPartialAtName'
       /\ \A s \in Receivers : s # r => Knows(s)'
  BY <1>2, <1>6, <1>9, FilesLeftAlone
<1>12. DOMAIN disk' = DOMAIN disk /\ disk'[j.inode] = new
  BY <1>3, <1>6, Inode DEF Inv
<1>13. Types'
  <2>1. job' \in [Receivers -> Job \cup {Nothing}]
    BY <1>9, <1>10 DEF Inv, Types
  <2> QED BY <1>2, <1>11, <2>1 DEF Inv, Types
<1>14. Apart'
  <2>1. \A s \in Receivers : job'[s].file = job[s].file
    BY <1>9, <1>10
  <2> HIDE DEF j
  <2> QED BY <1>2, <2>1 DEF Inv, Apart
<1>15. Knows(r)'
  <2>1. Knows(r)
    BY DEF Inv
  <2>2. /\ at'[r] = "data" /\ partials' = partials /\ clash' = clash
        /\ j.file \in Offered[r] /\ j.dest[1] = j.file.path
    BY <1>2, <2>1 DEF Knows
  <2> HIDE DEF j
  <2> QED BY <1>3, <1>8, <1>10, <1>12, <2>2 DEF Knows
<1> QED BY <1>11, <1>13, <1>14, <1>15 DEF Inv

\* A file is ready for its name when its hash matches, and emptied otherwise.
LEMMA VerifyInv ==
    ASSUME Inv, NEW r \in Receivers, Verify(r)
    PROVE  Inv'
<1>1. at[r] = "data" /\ UNCHANGED <<partials, final, clash>>
  BY DEF Verify
<1>2. CASE HashMatches(r)
  <2>1. Goto(r, "rename") /\ UNCHANGED <<disk, job>>
    BY <1>2 DEF Verify
  <2>2. at'[r] = "rename" /\ \A s \in Receivers : s # r => at'[s] = at[s]
    BY <2>1 DEF Goto, Inv, Types
  <2>3. Types'
    BY <1>1, <2>1 DEF Goto, Inv, Types
  <2>4. Apart'
    BY <1>1, <2>1, <2>2 DEF Inv, Apart
  <2>5. Knows(r)'
    BY <1>1, <1>2, <2>1, <2>2 DEF Inv, Knows, HashMatches
  <2>6. ASSUME NEW s \in Receivers, s # r PROVE Knows(s)'
    BY <1>1, <2>1, <2>2, <2>6 DEF Inv, Knows
  <2> QED BY <1>1, <2>1, <2>3, <2>4, <2>5, <2>6 DEF Inv, Names, NoPartialAtName, Whole
<1>3. CASE ~HashMatches(r)
  <2>1. Leave(r) /\ disk' = [disk EXCEPT ![job[r].inode] = <<>>]
    BY <1>3 DEF Verify
  <2>2. at'[r] = "accept" /\ \A s \in Receivers : s # r => at'[s] = at[s] /\ job'[s] = job[s]
    BY <2>1 DEF Leave, Goto, Inv, Types
  <2>3. <<>> \in Seq(Byte)
    BY EmptySeq
  <2>4. /\ disk' \in Seq(Seq(Byte)) /\ Names' /\ NoPartialAtName'
        /\ \A s \in Receivers : s # r => Knows(s)'
    BY <1>1, <2>1, <2>2, <2>3, FilesLeftAlone
  <2>5. Types'
    BY <1>1, <2>1, <2>4 DEF Leave, Goto, Inv, Types
  <2>6. Apart'
    BY <1>1, <2>2 DEF Inv, Apart
  <2>7. Knows(r)'
    BY <2>2 DEF Knows
  <2> QED BY <2>4, <2>5, <2>6, <2>7 DEF Inv
<1> QED BY <1>2, <1>3

\* The file that gets its final name is whole, and nothing leads to it any more
\* but that name.
LEMMA RenameInv ==
    ASSUME Inv, NEW r \in Receivers, Rename(r)
    PROVE  Inv'
<1> DEFINE name == job[r].file
           dest == job[r].dest
<1>1. /\ at[r] = "rename" /\ Leave(r) /\ UNCHANGED <<disk, clash>>
      /\ IF name \in DOMAIN partials
         THEN /\ final' = Put(final, dest, partials[name])
              /\ partials' = WithoutPartial(name)
         ELSE UNCHANGED <<final, partials>>
  BY DEF Rename, PartialName
<1>2. CASE name \notin DOMAIN partials
  BY <1>1, <1>2, LeaveInv
<1>3. CASE name \in DOMAIN partials
  <2>1. /\ at'[r] = "accept" /\ \A s \in Receivers : s # r => at'[s] = at[s] /\ job'[s] = job[s]
        /\ Types'
    BY <1>1 DEF Leave, Goto, Inv, Types
  <2>2. /\ DOMAIN partials' = DOMAIN partials \ {name}
        /\ \A n \in DOMAIN partials' : partials'[n] = partials[n]
    BY <1>1, <1>3 DEF WithoutPartial
  <2>3. /\ DOMAIN final' = DOMAIN final \cup {dest}
        /\ final'[dest] = partials[name]
        /\ \A n \in DOMAIN final' : n # dest => n \in DOMAIN final /\ final'[n] = final[n]
    BY <1>1, <1>3 DEF Put
  <2> HIDE DEF name, dest
  <2>4. Names'
    <3>1. \A n \in DOMAIN partials' : n \in DOMAIN partials /\ n # name
      BY <2>2
    <3>2. \A m \in DOMAIN partials', n \in DOMAIN final' : partials'[m] # final'[n]
      BY <1>3, <2>2, <2>3, <3>1 DEF Inv, Names
    <3>3. \A m, n \in DOMAIN final' : final'[m] = final'[n] => m = n
      BY <1>3, <2>3 DEF Inv, Names
    <3>4. \A m, n \in DOMAIN partials' : partials'[m] = partials'[n] => m = n
      BY <2>2, <3>1 DEF Inv, Names
    <3>5. \A n \in DOMAIN partials' : partials'[n] \in DOMAIN disk'
      BY <1>1, <2>2, <3>1 DEF Inv, Names
    <3>6. \A n \in DOMAIN final' : final'[n] \in DOMAIN disk'
      BY <1>1, <1>3, <2>3 DEF Inv, Names
    <3> QED BY <3>2, <3>3, <3>4, <3>5, <3>6 DEF Names
  <2>5. Apart'
    BY <1>1, <2>1 DEF Inv, Apart
  <2>6. Knows(r)'
    BY <2>1 DEF Knows
  <2>7. ASSUME NEW s \in Receivers, s # r PROVE Knows(s)'
    <3>1. ASSUME at[s] # "accept", ~clash' PROVE job[s].file # name
      BY <1>1, <2>7, <3>1 DEF Inv, Apart, name
    <3> QED BY <1>1, <2>1, <2>2, <2>7, <3>1, OthersKnow DEF Inv
  <2>8. NoPartialAtName'
    <3> SUFFICES ASSUME ~clash, NEW n \in DOMAIN final' PROVE Whole(n)'
      BY <1>1 DEF NoPartialAtName
    <3>1. CASE n = dest
      <4>1. Knows(r)
        BY DEF Inv
      <4>2. /\ name \in Offered[r] /\ dest[1] = name.path
            /\ disk[partials[name]] = name.data
        BY <1>1, <4>1 DEF Knows, name, dest
      <4>3. name \in Files
        BY <4>2 DEF Files
      <4> QED BY <1>1, <2>3, <3>1, <4>2, <4>3 DEF Whole
    <3>2. CASE n # dest
      BY <1>1, <2>3, <3>2 DEF Inv, NoPartialAtName, Whole
    <3> QED BY <3>1, <3>2
  <2> QED BY <2>1, <2>4, <2>5, <2>6, <2>7, <2>8 DEF Inv
<1> QED BY <1>2, <1>3

\* Every step of every receiver keeps the invariant.
LEMMA NextInv == Inv /\ [Next]_vars => Inv'
<1> SUFFICES ASSUME Inv, [Next]_vars PROVE Inv'
  OBVIOUS
<1>1. ASSUME NEW r \in Receivers, Plan(r) PROVE Inv'
  BY <1>1, PlanInv
<1>2. ASSUME NEW r \in Receivers, Open(r) PROVE Inv'
  BY <1>2, OpenInv
<1>3. ASSUME NEW r \in Receivers, Write(r) PROVE Inv'
  BY <1>3, WriteInv
<1>4. ASSUME NEW r \in Receivers, Verify(r) PROVE Inv'
  BY <1>4, VerifyInv
<1>5. ASSUME NEW r \in Receivers, Rename(r) PROVE Inv'
  BY <1>5, RenameInv
<1>6. ASSUME NEW r \in Receivers, Cut(r) PROVE Inv'
  BY <1>6, LeaveInv DEF Cut
<1>7. CASE UNCHANGED vars
  BY <1>7 DEF vars, Inv, Types, Names, Apart, Knows, NoPartialAtName, Whole
<1> QED BY <1>1, <1>2, <1>3, <1>4, <1>5, <1>6, <1>7 DEF Next

-----------------------------------------------------------------------------
\* The invariant holds for ever.
LEMMA Invariance == Spec => []Inv
<1> QED BY InitInv, NextInv, PTL DEF Spec

\* However many receivers share the folder, whatever they are sent and whenever
\* their connections end, no file has two names.
THEOREM OneNameEach == Spec => []TypeOK
<1>1. Inv => TypeOK
  <2> SUFFICES ASSUME Inv PROVE TypeOK
    OBVIOUS
  <2>1. IsInjective(partials) /\ IsInjective(final)
    BY DEF Inv, Names, IsInjective
  <2>2. Range(partials) \cap Range(final) = {}
    BY DEF Inv, Names, Range
  <2> QED BY <2>1, <2>2 DEF Inv, Names, Knows, TypeOK
<1> QED BY <1>1, Invariance, PTL

\* Receivers that are not sent the same file at once store what they hash.
THEOREM SharedHashedIsStored == Spec => []HashedIsStored
<1>1. Inv => HashedIsStored
  <2> SUFFICES ASSUME Inv, ~clash, NEW r \in Receivers, at[r] \in {"data", "rename"}
               PROVE  IsPrefix(job[r].hashed, disk[job[r].inode])
    BY DEF HashedIsStored
  <2>1. disk[job[r].inode] = job[r].hashed /\ job[r].hashed \in Seq(Byte)
    BY OpenFileKnown
  <2> QED BY <2>1, LenProperties, SubSeqFull DEF IsPrefix
<1> QED BY <1>1, Invariance, PTL

\* Receivers that are not sent the same file at once place none but whole files
\* at the final names.
THEOREM SharedNoPartialAtName == Spec => []NoPartialAtName
<1>1. Inv => NoPartialAtName
  BY DEF Inv
<1> QED BY <1>1, Invariance, PTL
=============================================================================
