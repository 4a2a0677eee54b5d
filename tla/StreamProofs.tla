---------------------------- MODULE StreamProofs ----------------------------
(***************************************************************************)
(* The two ends agree where a frame ends, for every value of the           *)
(* constants: what the reader has not read lies where the frames that were *)
(* begun put it, as far as it has not been lost.                           *)
(***************************************************************************)
EXTENDS Stream, SequenceTheorems, TLAPS

Pieces ==
    [piece : {"magic"}]
    \cup [piece : {"version"}, of : Peers \cup {"same"}]
    \cup [piece : {"kind"}, kind : Kind \cup {"unknown"}]
    \cup [piece : {"length"}, size : Nat]
    \cup [piece : {"payload"}, frame : Nat, at : Nat]

Frames == [kind : Kind \cup {"any"}, payload : Seq(Pieces)]

Types ==
    /\ TypeOK
    /\ stream \in Seq(Pieces) /\ writing \in Seq(Pieces)
    /\ written \in Seq(Frames) /\ got \in Seq(Frames)
    /\ open \in BOOLEAN /\ lost \in BOOLEAN
    /\ open => ~lost
    /\ peer \in Peers
    /\ reads # "payload" => buffer = 0
    /\ peer = "any" => writing = <<>>

\* What write_frame puts on the stream for frame j, piece by piece.
Laid(j, i) ==
    CASE i = 1 -> Magic
      [] i = 2 -> Version(peer)
      [] i = 3 -> KindPiece(written[j].kind)
      [] i = 4 -> Length(Len(written[j].payload))
      [] OTHER -> Byte(j, i - 4)

Total(j) == 4 + Len(written[j].payload)

\* The pieces of the frame it reads that the reader has behind it.
Consumed ==
    CASE reads = "magic" -> 0
      [] reads = "version" -> 1
      [] reads = "kind" -> 2
      [] reads = "length" -> 3
      [] reads = "payload" -> 4

\* What the reader can still read, if nothing happens to it.
Unread == IF open THEN stream \o writing ELSE stream

\* The frame the reader is in.
Current == Len(got) + 1

\* Frame j begins behind position start[j] of what is unread.
Starts(start) ==
    /\ start[Current] = 0 - Consumed
    /\ \A j \in Current .. Len(written) : start[j + 1] = start[j] + Total(j)
    /\ \A j \in Current .. Len(written) + 1 : start[j] <= start[Len(written) + 1]
    /\ Len(Unread) <= start[Len(written) + 1]
    /\ ~lost => Len(Unread) = start[Len(written) + 1]

\* What is unread is the frames that begin there.
Holds(start) ==
    \A j \in Current .. Len(written) : \A i \in 1 .. Total(j) :
        \A at \in 1 .. Len(Unread) : at = start[j] + i => Unread[at] = Laid(j, i)

Layout == \E start \in [Nat -> Int] : Starts(start) /\ Holds(start)

\* The frames begun are ones write_frame lets go.
Written ==
    \A j \in DOMAIN written :
        /\ written[j].kind \in Kind
        /\ Len(written[j].payload) <= WriteLimit(written[j].kind)
        /\ \A b \in DOMAIN written[j].payload : written[j].payload[b] = Byte(j, b)

\* What was read of the header of a frame.
Header ==
    /\ reads \in {"length", "payload"} =>
         Len(got) < Len(written) /\ kind = written[Current].kind
    /\ reads = "payload" => buffer = Len(written[Current].payload)

Returned ==
    /\ Len(got) <= Len(written)
    /\ \A j \in DOMAIN got : got[j] = written[j]

\* Why the reader stopped.
Stopped ==
    /\ peer = "same" =>
         /\ error \in {"none", "Remote", "UnexpectedEof"}
         /\ error = "Remote" =>
              Len(got) < Len(written) /\ written[Current].kind = "Error"
         /\ error = "UnexpectedEof" => ~open /\ (lost \/ reads = "magic")
    /\ peer = "newer" =>
         /\ got = <<>>
         /\ error \in {"none", "UnsupportedVersion", "UnexpectedEof"}
         /\ error = "none" => reads \in {"magic", "version"}

Inv ==
    /\ Types
    /\ peer # "any" =>
         /\ Written
         /\ Returned
         /\ Stopped
         /\ error = "none" => Layout /\ Header

-----------------------------------------------------------------------------
\* What is unread is a sequence of pieces.
LEMMA UnreadType ==
    ASSUME Types
    PROVE  Unread \in Seq(Pieces) /\ Len(Unread) \in Nat
<1>1. stream \in Seq(Pieces) /\ stream \o writing \in Seq(Pieces)
  BY ConcatProperties DEF Types
<1>2. Unread \in Seq(Pieces)
  BY <1>1 DEF Unread
<1> QED BY <1>2, LenProperties

\* The lengths of the histories are numbers.
LEMMA Lengths ==
    ASSUME Types
    PROVE  /\ Len(got) \in Nat /\ DOMAIN got = 1 .. Len(got)
           /\ Len(written) \in Nat /\ DOMAIN written = 1 .. Len(written)
           /\ Len(stream) \in Nat /\ Len(writing) \in Nat
           /\ \A j \in 1 .. Len(written) : Total(j) \in Nat /\ Total(j) >= 4
<1>1. \A j \in 1 .. Len(written) : Len(written[j].payload) \in Nat
  <2> SUFFICES ASSUME NEW j \in 1 .. Len(written) PROVE Len(written[j].payload) \in Nat
    OBVIOUS
  <2>1. written[j] \in Frames
    BY ElementOfSeq DEF Types
  <2> QED BY <2>1, LenProperties DEF Frames
<1> QED BY <1>1, LenProperties DEF Types, Total

\* A reader that has not met an error has less than a frame's header, or the
\* header, behind it.
LEMMA ConsumedRange ==
    ASSUME Types
    PROVE  Consumed \in 0 .. 4
  BY DEF Types, TypeOK, Consumed

\* Nothing that is unread moves.
LEMMA LayoutStays ==
    ASSUME Layout, UNCHANGED <<got, written, reads, lost, peer, Unread>>
    PROVE  Layout'
<1>1. PICK start \in [Nat -> Int] : Starts(start) /\ Holds(start)
  BY DEF Layout
<1>2. Starts(start)' /\ Holds(start)'
  BY <1>1 DEF Starts, Holds, Current, Consumed, Total, Laid
<1> QED BY <1>2 DEF Layout

\* A position in the shorter of two sequences is one in the longer.
LEMMA LongerRange ==
    ASSUME NEW n \in Nat, NEW m \in Nat, n <= m, NEW at \in 1 .. n
    PROVE  at \in 1 .. m
  OBVIOUS

\* The end of what is unread is lost.
LEMMA LayoutCut ==
    ASSUME Types, Layout, UNCHANGED <<got, written, reads, peer>>, lost' = TRUE,
           Len(Unread') \in Nat, Len(Unread') <= Len(Unread),
           \A k \in 1 .. Len(Unread') : Unread'[k] = Unread[k]
    PROVE  Layout'
<1>1. PICK start \in [Nat -> Int] : Starts(start) /\ Holds(start)
  BY DEF Layout
<1>2. Len(Unread) \in Nat /\ start[Len(written) + 1] \in Int
  BY UnreadType, Lengths
<1>3. Starts(start)'
  BY <1>1, <1>2 DEF Starts, Current, Consumed, Total
<1>4. Holds(start)'
  <2>1. /\ Current' = Current /\ written' = written
        /\ \A j : Total(j)' = Total(j)
        /\ \A j : \A i : Laid(j, i)' = Laid(j, i)
    <3>1. Current' = Current /\ written' = written /\ \A j : Total(j)' = Total(j)
      BY DEF Current, Total
    <3>2. \A j : \A i : Laid(j, i)' = Laid(j, i)
      BY DEF Laid
    <3> QED BY <3>1, <3>2
  <2> SUFFICES ASSUME NEW j \in Current .. Len(written), NEW i \in 1 .. Total(j),
                      NEW at \in 1 .. Len(Unread'), at = start[j] + i
               PROVE  Unread'[at] = Laid(j, i)
    BY <2>1 DEF Holds
  <2>2. at \in 1 .. Len(Unread)
    BY <1>2, LongerRange, Zenon
  <2> QED BY <1>1, <2>2 DEF Holds
<1> QED BY <1>3, <1>4 DEF Layout

\* The one sequence is the other without its first m pieces.
Drops(long, m, short) ==
    /\ m <= Len(long)
    /\ Len(short) = Len(long) - m
    /\ \A at \in 1 .. Len(short) : short[at] = long[at + m]

\* The first m pieces of what is unread are read.
Takes(m) == Drops(Unread, m, Unread')

\* With them the reader is further in the same frame, or at the beginning of
\* the next.
Advances(m) ==
    \/ got' = got /\ Consumed' = Consumed + m
    \/ /\ Len(got) < Len(written) /\ Len(got') = Len(got) + 1
       /\ Consumed' = 0 /\ Consumed + m = Total(Current)

\* A position in what is left after m pieces.
LEMMA LaterPosition ==
    ASSUME NEW u \in Nat, NEW m \in Nat, NEW at \in 1 .. u - m
    PROVE  at + m \in 1 .. u
  OBVIOUS

\* A position counted from m pieces earlier.
LEMMA ShiftedPosition ==
    ASSUME NEW from \in Int, NEW i \in Int, NEW m \in Nat
    PROVE  ((from - m) + i) + m = from + i
  OBVIOUS

\* The frames begin that much earlier in what is unread.
LEMMA LayoutShift ==
    ASSUME Types, Layout, NEW m \in Nat,
           UNCHANGED <<written, lost, peer>>, Takes(m), Advances(m)
    PROVE  Layout'
<1>1. PICK start \in [Nat -> Int] : Starts(start) /\ Holds(start)
  BY DEF Layout
<1> DEFINE moved == [j \in Nat |-> start[j] - m]
<1>2. moved \in [Nat -> Int] /\ \A j \in Nat : moved[j] = start[j] - m /\ start[j] \in Int
  OBVIOUS
<1> HIDE DEF moved
<1> DEFINE w == Len(written)
           last == Len(written) + 1
           g == Len(got)
           u == Len(Unread)
<1>3. g \in Nat /\ w \in Nat /\ u \in Nat /\ last \in Nat /\ last = w + 1
  BY Lengths, UnreadType
<1>8. \A j \in 1 .. w : Total(j) \in Nat
  BY Lengths
<1> HIDE DEF w, last, g, u
<1>4. Consumed \in Int
  BY ConsumedRange
<1>20. Len(Unread') = u - m
  BY DEF Takes, Drops, u
<1>5. Current = g + 1 /\ Current' \in {g + 1, g + 2}
  <2>1. got' = got \/ Len(got') = g + 1
    BY DEF Advances, g
  <2> QED BY <2>1, <1>3 DEF Current, g
<1>6. /\ start[Current] = 0 - Consumed
      /\ \A j \in Current .. w : start[j + 1] = start[j] + Total(j)
      /\ \A j \in Current .. last : start[j] <= start[last]
      /\ u <= start[last]
      /\ ~lost => u = start[last]
  BY <1>1 DEF Starts, w, last, u
<1>7. moved[last] = start[last] - m /\ start[last] \in Int
  BY <1>2, <1>3
<1>9. moved[Current'] = 0 - Consumed'
  <2>1. CASE got' = got /\ Consumed' = Consumed + m
    <3>1. Current' = Current /\ Current \in Nat
      BY <2>1, <1>3, <1>5 DEF Current
    <3>2. moved[Current] = start[Current] - m
      BY <3>1, <1>2
    <3> QED BY <2>1, <3>1, <3>2, <1>4, <1>6
  <2>2. CASE /\ Len(got) < Len(written) /\ Len(got') = Len(got) + 1
             /\ Consumed' = 0 /\ Consumed + m = Total(Current)
    <3>1. Current \in Current .. w /\ Current' = Current + 1 /\ Current' \in Nat
      BY <2>2, <1>3, <1>5 DEF Current, g, w
    <3>2. start[Current'] = start[Current] + Total(Current)
      BY <1>6, <3>1
    <3>3. moved[Current'] = start[Current'] - m
      BY <3>1, <1>2
    <3> QED BY <2>2, <3>2, <3>3, <1>4, <1>6
  <2> QED BY <2>1, <2>2 DEF Advances
<1>10. ASSUME NEW j \in Current' .. w
       PROVE  j \in Nat /\ j + 1 \in Nat /\ j \in Current .. w /\ j \in 1 .. w
  BY <1>3, <1>5
<1>11. ASSUME NEW j \in Current' .. last
       PROVE  j \in Nat /\ j \in Current .. last
  BY <1>3, <1>5
<1>12. Starts(moved)'
  <2>1. ASSUME NEW j \in Current' .. w
        PROVE  moved[j + 1] = moved[j] + Total(j)
    <3>1. start[j + 1] = start[j] + Total(j) /\ Total(j) \in Nat
      BY <1>6, <1>8, <1>10
    <3>2. /\ moved[j + 1] = start[j + 1] - m
          /\ moved[j] = start[j] - m
          /\ start[j] \in Int
      BY <1>2, <1>10
    <3> QED BY <3>1, <3>2
  <2>2. ASSUME NEW j \in Current' .. last
        PROVE  moved[j] <= moved[last]
    <3>1. start[j] <= start[last]
      BY <1>6, <1>11
    <3>2. moved[j] = start[j] - m /\ start[j] \in Int
      BY <1>2, <1>11
    <3> QED BY <1>7, <3>1, <3>2
  <2>3. Len(Unread') <= moved[last] /\ (~lost => Len(Unread') = moved[last])
    BY <1>20, <1>3, <1>6, <1>7
  <2>4. written' = written /\ lost' = lost /\ \A j : Total(j)' = Total(j)
    BY DEF Total
  <2> QED BY <1>9, <2>1, <2>2, <2>3, <2>4 DEF Starts, w, last
<1>13. Holds(moved)'
  <2>1. written' = written /\ \A j : Total(j)' = Total(j) /\ \A i : Laid(j, i)' = Laid(j, i)
    BY DEF Total, Laid
  <2> SUFFICES ASSUME NEW j \in Current' .. w, NEW i \in 1 .. Total(j),
                      NEW at \in 1 .. Len(Unread'), at = (start[j] - m) + i
               PROVE  Unread'[at] = Laid(j, i)
    <3>1. \A j \in Current' .. w : moved[j] = start[j] - m
      BY <1>2, <1>10
    <3> QED BY <2>1, <3>1 DEF Holds, w
  <2> DEFINE before == at + m
  <2>2. i \in Int /\ start[j] \in Int
    BY <1>2, <1>8, <1>10
  <2>3. before \in 1 .. u /\ before = start[j] + i
    <3>1. at \in 1 .. u - m
      BY <1>20
    <3>2. u \in Nat /\ at \in Nat
      BY <1>3, <3>1
    <3>3. before \in 1 .. u
      BY <3>1, <3>2, LaterPosition, Zenon
    <3>4. ((start[j] - m) + i) + m = start[j] + i
      BY <2>2, ShiftedPosition, Zenon
    <3>5. before = start[j] + i
      BY <3>4, Zenon
    <3> QED BY <3>3, <3>5
  <2>4. Unread'[at] = Unread[before]
    BY DEF Takes, Drops
  <2> HIDE DEF before
  <2> QED BY <1>1, <1>10, <2>3, <2>4 DEF Holds, w, u
<1> QED BY <1>2, <1>12, <1>13 DEF Layout

\* A frame of so many pieces is put behind what is unread.
Grows(total) ==
    /\ Len(Unread') = Len(Unread) + total
    /\ \A at \in 1 .. Len(Unread) : Unread'[at] = Unread[at]
    /\ \A i \in 1 .. total : \A at \in 1 .. Len(Unread') :
          at = Len(Unread) + i => Unread'[at] = Laid(Len(written), i)'

\* A position before the end of what was unread.
LEMMA EarlierPosition ==
    ASSUME NEW u \in Nat, NEW more \in Nat, NEW at \in 1 .. u + more, at <= u
    PROVE  at \in 1 .. u
  OBVIOUS

\* A position in a frame that ends before u.
LEMMA PositionInFrame ==
    ASSUME NEW from \in Int, NEW size \in Nat, NEW u \in Nat, from + size <= u,
           NEW i \in 1 .. size, NEW at, at = from + i
    PROVE  at <= u
  OBVIOUS

\* The sums below are numbers.
LEMMA SumsOfNat == \A n \in Nat : n + 1 \in Nat /\ n + 2 \in Nat /\ 4 + n \in Nat
  OBVIOUS

\* A sum is not less than its first part, nor than what is not more than that.
LEMMA SumIsMore ==
    ASSUME NEW s \in Int, NEW n \in Nat
    PROVE  s + n \in Int /\ s <= s + n /\ \A x \in Int : x <= s => x <= s + n
  OBVIOUS

\* A frame that is begun begins where the last one ends.
LEMMA LayoutExtend ==
    ASSUME Types, Layout, ~lost, Len(got) <= Len(written), NEW f \in Frames,
           UNCHANGED <<got, reads, lost, peer>>, written' = Append(written, f),
           Grows(4 + Len(f.payload))
    PROVE  Layout'
<1>1. PICK start \in [Nat -> Int] : Starts(start) /\ Holds(start)
  BY DEF Layout
<1>2. PICK w \in Nat, last \in Nat, after \in Nat, u \in Nat, total \in Nat :
        /\ w = Len(written) /\ last = Len(written) + 1 /\ after = Len(written) + 2
        /\ last = w + 1 /\ after = w + 2
        /\ u = Len(Unread) /\ total = 4 + Len(f.payload)
  <2>1. Len(written) \in Nat /\ Len(Unread) \in Nat /\ Len(f.payload) \in Nat
    BY Lengths, UnreadType, LenProperties DEF Frames
  <2>2. Len(written) + 1 \in Nat /\ Len(written) + 2 \in Nat /\ 4 + Len(f.payload) \in Nat
    BY <2>1, SumsOfNat, Zenon
  <2> QED BY <2>1, <2>2
<1>3. last = w + 1 /\ after = w + 2
  BY <1>2
<1>4. Len(written') = last /\ written'[last] = f
      /\ \A j \in 1 .. w : written'[j] = written[j]
  BY <1>2, AppendProperties DEF Types
<1>5. Total(last)' = total /\ \A j \in 1 .. w : Total(j)' = Total(j)
  BY <1>2, <1>4 DEF Total
<1>6. \A j \in 1 .. w : \A i : Laid(j, i)' = Laid(j, i)
  BY <1>4 DEF Laid
<1>7. /\ start[Current] = 0 - Consumed
      /\ \A j \in Current .. w : start[j + 1] = start[j] + Total(j)
      /\ \A j \in Current .. last : start[j] <= start[last]
      /\ u = start[last]
  BY <1>1, <1>2 DEF Starts
<1>8. \A j \in 1 .. w : Total(j) \in Nat
  BY <1>2, Lengths
<1>9. /\ Len(Unread') = u + total
      /\ \A at \in 1 .. u : Unread'[at] = Unread[at]
      /\ \A i \in 1 .. total : \A at \in 1 .. Len(Unread') :
            at = u + i => Unread'[at] = Laid(last, i)'
  <2>1. Len(written') = last /\ Len(Unread) = u /\ 4 + Len(f.payload) = total
    BY <1>2, <1>4
  <2>2. Grows(total)
    BY <2>1
  <2>3. \A i : Laid(Len(written), i)' = Laid(last, i)'
    BY <2>1 DEF Laid
  <2> QED BY <2>1, <2>2, <2>3 DEF Grows
<1>10. PICK longer \in [Nat -> Int] :
        /\ longer[after] = start[last] + total
        /\ \A j \in Nat : j # after => longer[j] = start[j]
  <2> WITNESS [j \in Nat |-> IF j = after THEN start[last] + total ELSE start[j]]
                \in [Nat -> Int]
  <2> QED OBVIOUS
<1>11. \A j \in Nat : j # after => longer[j] = start[j]
  BY <1>10
<1>12. \A j \in Nat : start[j] \in Int /\ longer[j] \in Int
  OBVIOUS
<1>13. Current \in Nat /\ Current >= 1 /\ Current <= last /\ Current' = Current
  <2>1. PICK g \in Nat : g = Len(got)
    BY Lengths
  <2>2. Current = g + 1 /\ Current' = Current
    BY <2>1 DEF Current
  <2>3. g <= w
    BY <1>2, <2>1
  <2>4. g + 1 \in Nat /\ g + 1 >= 1 /\ g + 1 <= last
    BY <1>3, <2>3
  <2> QED BY <2>2, <2>4
<1>14. Consumed' = Consumed
  BY DEF Consumed
<1>15. ASSUME NEW j \in Current .. w
       PROVE  j \in 1 .. w /\ j \in Nat /\ j + 1 \in Nat /\ j + 1 \in Current .. last
              /\ longer[j] = start[j] /\ longer[j + 1] = start[j + 1]
  <2>1. j \in 1 .. w /\ j \in Nat /\ j + 1 \in Nat /\ j + 1 \in Current .. last
        /\ j # after /\ j + 1 # after
    BY <1>3, <1>13
  <2> QED BY <2>1, <1>11
<1>16. longer[last] = start[last] /\ last \in Nat
  BY <1>3, <1>11
<1>17. Starts(longer)'
  <2>1. longer[Current] = 0 - Consumed
    BY <1>3, <1>7, <1>11, <1>13
  <2>2. ASSUME NEW j \in Current .. last
        PROVE  longer[j + 1] = longer[j] + Total(j)'
    <3>1. CASE j = last
      <4>1. j + 1 = after
        BY <3>1, <1>3
      <4> QED BY <3>1, <4>1, <1>5, <1>10, <1>16
    <3>2. CASE j # last
      <4>1. j \in Current .. w
        BY <3>2, <1>3, <1>13
      <4> QED BY <4>1, <1>5, <1>7, <1>15
    <3> QED BY <3>1, <3>2
  <2>3. ASSUME NEW j \in Current .. last + 1
        PROVE  longer[j] <= longer[last + 1]
    <3>1. last + 1 = after
      BY <1>3
    <3>2. PICK s \in Int, t \in Int :
            /\ s = start[last] /\ t = longer[after] /\ s <= t
            /\ \A x \in Int : x <= s => x <= t
      <4>1. PICK s \in Int : s = start[last]
        BY <1>12, <1>16
      <4>2. s + total \in Int /\ s <= s + total /\ \A x \in Int : x <= s => x <= s + total
        BY <4>1, SumIsMore, Zenon
      <4> QED BY <4>1, <4>2, <1>10
    <3>3. CASE j = after
      BY <3>1, <3>2, <3>3
    <3>4. CASE j # after
      <4>1. j \in Current .. last /\ j \in Nat
        BY <3>1, <3>4, <1>3, <1>13
      <4>2. PICK x \in Int : x = longer[j] /\ x <= s
        BY <4>1, <3>2, <3>4, <1>7, <1>11, <1>12
      <4>3. x <= t
        BY <3>2, <4>2, Zenon
      <4> QED BY <3>1, <3>2, <4>2, <4>3
    <3> QED BY <3>3, <3>4
  <2>4. Len(Unread') = longer[last + 1]
    <3>1. last + 1 = after
      BY <1>3
    <3> QED BY <3>1, <1>7, <1>9, <1>10
  <2>5. Len(Unread') <= longer[last + 1]
    BY <2>4, <1>3, <1>9
  <2> QED BY <2>1, <2>2, <2>3, <2>4, <2>5, <1>4, <1>13, <1>14 DEF Starts
<1>18. \A j \in Current .. w : \A i \in 1 .. Total(j) : \A at \in 1 .. u :
          at = start[j] + i => Unread[at] = Laid(j, i)
  BY <1>1, <1>2 DEF Holds
<1>19. Holds(longer)'
  <2> SUFFICES ASSUME NEW j \in Current .. last, NEW i \in 1 .. Total(j)',
                      NEW at \in 1 .. Len(Unread'), at = longer[j] + i
               PROVE  Unread'[at] = Laid(j, i)'
    BY <1>4, <1>13 DEF Holds
  <2>1. CASE j = last
    BY <2>1, <1>5, <1>7, <1>9, <1>16
  <2>2. CASE j # last
    <3>1. j \in Current .. w
      BY <2>2, <1>3, <1>13
    <3>2. Total(j)' = Total(j) /\ Total(j) \in Nat /\ i \in 1 .. Total(j)
          /\ longer[j] = start[j] /\ start[j] \in Int
      BY <3>1, <1>5, <1>8, <1>12, <1>15
    <3>3. start[j] + Total(j) <= u
      BY <3>1, <1>7, <1>15
    <3>4. at <= u
      BY <3>2, <3>3, PositionInFrame, Zenon
    <3>5. at \in 1 .. u
      BY <3>4, <1>3, <1>9, EarlierPosition
    <3>6. Unread[at] = Laid(j, i)
      BY <3>1, <3>2, <3>5, <1>18
    <3> QED BY <3>1, <3>5, <3>6, <1>6, <1>9, <1>15
  <2> QED BY <2>1, <2>2
<1> QED BY <1>10, <1>17, <1>19 DEF Layout

-----------------------------------------------------------------------------
\* What is on the stream is the beginning of what is unread.
LEMMA StreamFirst ==
    ASSUME Types
    PROVE  /\ Len(Unread) = Len(stream) + (IF open THEN Len(writing) ELSE 0)
           /\ \A at \in 1 .. Len(stream) : at \in 1 .. Len(Unread) /\ Unread[at] = stream[at]
<1>1. Len(stream) \in Nat /\ Len(writing) \in Nat
  BY Lengths
<1>2. stream \in Seq(Pieces) /\ writing \in Seq(Pieces)
  BY DEF Types
<1>3. CASE open
  <2>1. Len(Unread) = Len(stream) + Len(writing)
    BY <1>2, <1>3, ConcatProperties DEF Unread
  <2>2. \A at \in 1 .. Len(stream) :
          at \in 1 .. Len(stream) + Len(writing) /\ at <= Len(stream)
    BY <1>1
  <2>3. \A at \in 1 .. Len(stream) : Unread[at] = stream[at]
    BY <1>2, <1>3, <2>2, ConcatProperties DEF Unread
  <2> QED BY <1>3, <2>1, <2>2, <2>3
<1>4. CASE ~open
  BY <1>1, <1>4 DEF Unread
<1> QED BY <1>3, <1>4

\* What is left of two sequences of which the first is cut at the front.
LEMMA DropConcat ==
    ASSUME NEW S, NEW a \in Seq(S), NEW b \in Seq(S), NEW m \in Nat,
           NEW rest \in Seq(S), Drops(a, m, rest)
    PROVE  Drops(a \o b, m, rest \o b)
<1>1. Len(a) \in Nat /\ Len(b) \in Nat /\ Len(rest) \in Nat
  BY LenProperties
<1>20. /\ m <= Len(a)
      /\ Len(rest) = Len(a) - m
      /\ \A at \in 1 .. Len(rest) : rest[at] = a[at + m]
  BY DEF Drops
<1>2. /\ Len(a \o b) = Len(a) + Len(b)
      /\ \A at \in 1 .. Len(a) + Len(b) :
            (a \o b)[at] = IF at <= Len(a) THEN a[at] ELSE b[at - Len(a)]
  BY ConcatProperties, Zenon
<1>3. /\ Len(rest \o b) = Len(rest) + Len(b)
      /\ \A at \in 1 .. Len(rest) + Len(b) :
            (rest \o b)[at] = IF at <= Len(rest) THEN rest[at] ELSE b[at - Len(rest)]
  BY ConcatProperties, Zenon
<1>4. ASSUME NEW at \in 1 .. Len(rest) + Len(b)
      PROVE  (rest \o b)[at] = (a \o b)[at + m]
  <2>1. at + m \in 1 .. Len(a) + Len(b) /\ at \in Nat
    BY <1>1, <1>20
  <2>2. CASE at <= Len(rest)
    <3>1. at \in 1 .. Len(rest) /\ at + m <= Len(a)
      BY <1>1, <1>20, <2>1, <2>2
    <3>2. rest[at] = a[at + m]
      BY <3>1, <1>20
    <3>3. (rest \o b)[at] = rest[at]
      BY <2>2, <1>3
    <3>4. (a \o b)[at + m] = a[at + m]
      BY <3>1, <2>1, <1>2
    <3> QED BY <3>2, <3>3, <3>4
  <2>3. CASE ~(at <= Len(rest))
    <3>1. ~(at + m <= Len(a)) /\ at - Len(rest) = at + m - Len(a)
      BY <1>1, <1>20, <2>1, <2>3
    <3>2. (rest \o b)[at] = b[at - Len(rest)]
      BY <2>3, <1>3
    <3>3. (a \o b)[at + m] = b[at + m - Len(a)]
      BY <3>1, <2>1, <1>2
    <3> QED BY <3>1, <3>2, <3>3
  <2> QED BY <2>2, <2>3
<1> QED BY <1>1, <1>20, <1>2, <1>3, <1>4 DEF Drops

\* What is read off the stream is read off what is unread.
LEMMA StreamTakes ==
    ASSUME Types, NEW m \in Nat, m <= Len(stream), UNCHANGED <<writing, open>>,
           stream' = SubSeq(stream, m + 1, Len(stream))
    PROVE  Takes(m)
<1>1. PICK s \in Nat, w \in Nat, left \in Nat :
        s = Len(stream) /\ w = Len(writing) /\ left = s - m
  <2>1. Len(stream) \in Nat /\ Len(writing) \in Nat /\ Len(stream) - m \in Nat
    BY Lengths
  <2> QED BY <2>1
<1>2. stream \in Seq(Pieces) /\ writing \in Seq(Pieces)
  BY DEF Types
<1>3. PICK rest \in Seq(Pieces) :
        /\ rest = stream' /\ Len(rest) = left
        /\ \A at \in 1 .. left : rest[at] = stream[at + m]
  <2>1. \A at \in m + 1 .. s : stream[at] \in Pieces
    BY <1>1, <1>2, ElementOfSeq
  <2>2. m + 1 \in Int /\ s \in Int
    BY <1>1
  <2>3. /\ SubSeq(stream, m + 1, s) \in Seq(Pieces)
        /\ Len(SubSeq(stream, m + 1, s)) = IF m + 1 <= s THEN s - (m + 1) + 1 ELSE 0
        /\ \A at \in 1 .. s - (m + 1) + 1 :
              SubSeq(stream, m + 1, s)[at] = stream[(m + 1) + at - 1]
    BY <2>1, <2>2, SubSeqProperties
  <2>4. (IF m + 1 <= s THEN s - (m + 1) + 1 ELSE 0) = left /\ s - (m + 1) + 1 = left
    BY <1>1
  <2>5. \A at \in 1 .. left : (m + 1) + at - 1 = at + m
    BY <1>1
  <2> QED BY <1>1, <2>3, <2>4, <2>5
<1>4. CASE open
  <2>1. Unread = stream \o writing /\ Unread' = rest \o writing
    BY <1>3, <1>4 DEF Unread
  <2>2. Drops(stream, m, rest)
    BY <1>1, <1>3 DEF Drops
  <2>3. Drops(stream \o writing, m, rest \o writing)
    BY <1>2, <2>2, DropConcat
  <2> QED BY <2>1, <2>3 DEF Takes
<1>5. CASE ~open
  <2>1. Unread = stream /\ Unread' = rest
    BY <1>3, <1>5 DEF Unread
  <2> QED BY <1>1, <1>3, <2>1 DEF Takes, Drops
<1> QED BY <1>4, <1>5

\* What the reader finds on the stream is the frame it is in.
LEMMA StreamIsLaid ==
    ASSUME Types, Returned, Layout, NEW at \in 1 .. Len(stream)
    PROVE  /\ Len(got) < Len(written)
           /\ Consumed + at <= Total(Current) => stream[at] = Laid(Current, Consumed + at)
<1>1. PICK start \in [Nat -> Int] : Starts(start) /\ Holds(start)
  BY DEF Layout
<1>2. PICK c \in Nat, g \in Nat, w \in Nat, u \in Nat :
        c = Consumed /\ g = Len(got) /\ w = Len(written) /\ u = Len(Unread)
  <2>1. Len(got) \in Nat /\ Len(written) \in Nat /\ Len(Unread) \in Nat
    BY Lengths, UnreadType
  <2>2. Consumed \in Nat
    BY ConsumedRange
  <2> QED BY <2>1, <2>2
<1>3. at \in 1 .. u /\ Unread[at] = stream[at]
  BY <1>2, StreamFirst
<1>4. start[Current] = 0 - c /\ u <= start[w + 1] /\ Current = g + 1
  BY <1>1, <1>2 DEF Starts, Current
<1>5. g < w
  <2>1. SUFFICES ASSUME g = w PROVE FALSE
    BY <1>2 DEF Returned
  <2>2. u <= 0 - c
    BY <2>1, <1>4
  <2> QED BY <2>2, <1>2, <1>3
<1>6. ASSUME c + at <= Total(Current)
      PROVE  stream[at] = Laid(Current, c + at)
  <2>1. Current \in Current .. w
    BY <1>4, <1>5
  <2>2. Current \in 1 .. w
    <3>1. g + 1 \in 1 .. w
      BY <1>5
    <3> QED BY <3>1, <1>4
  <2>3. Total(Current) \in Nat
    BY <1>2, <2>2, Lengths
  <2>4. PICK i \in Nat : i = c + at
    BY <1>2
  <2>5. i \in 1 .. Total(Current) /\ at = start[Current] + i
    BY <1>2, <1>4, <1>6, <2>3, <2>4
  <2> QED BY <1>1, <1>2, <1>3, <2>1, <2>4, <2>5 DEF Holds
<1> QED BY <1>2, <1>5, <1>6

-----------------------------------------------------------------------------
\* The pieces that are written.
LEMMA PieceKinds ==
    /\ Magic \in Pieces
    /\ \A p \in Peers \cup {"same"} : Version(p) \in Pieces
    /\ \A k \in Kind \cup {"unknown"} : KindPiece(k) \in Pieces
    /\ \A n \in Nat : Length(n) \in Pieces
    /\ \A j \in Nat, b \in Nat : Byte(j, b) \in Pieces
  BY DEF Pieces, Magic, Version, KindPiece, Length, Byte

HeaderOf(p, k, n) == <<Magic, Version(p), KindPiece(k), Length(n)>>
PayloadOf(j, n) == [b \in 1 .. n |-> Byte(j, b)]

\* The header and the payload of a frame.
LEMMA FramePieces ==
    ASSUME NEW p \in Peers, NEW k \in Kind, NEW n \in Nat, NEW j \in Nat
    PROVE  /\ HeaderOf(p, k, n) \in Seq(Pieces) /\ Len(HeaderOf(p, k, n)) = 4
           /\ PayloadOf(j, n) \in Seq(Pieces) /\ Len(PayloadOf(j, n)) = n
           /\ \A b \in 1 .. n : PayloadOf(j, n)[b] = Byte(j, b)
           /\ [kind |-> k, payload |-> PayloadOf(j, n)] \in Frames
<1>1. HeaderOf(p, k, n) \in Seq(Pieces) /\ Len(HeaderOf(p, k, n)) = 4
  <2>1. Magic \in Pieces /\ Version(p) \in Pieces /\ KindPiece(k) \in Pieces
        /\ Length(n) \in Pieces
    BY PieceKinds
  <2> QED BY <2>1 DEF HeaderOf
<1>2. \A b \in 1 .. n : Byte(j, b) \in Pieces
  BY PieceKinds
<1>3. PayloadOf(j, n) \in Seq(Pieces) /\ Len(PayloadOf(j, n)) = n
      /\ \A b \in 1 .. n : PayloadOf(j, n)[b] = Byte(j, b)
  BY <1>2 DEF PayloadOf
<1> QED BY <1>1, <1>3 DEF Frames

\* A frame that is too large is not begun.
LEMMA BeginTooLarge ==
    ASSUME Inv, writing = <<>>, open, open' = FALSE,
           UNCHANGED <<writing, written, peer, stream, lost, reading>>
    PROVE  Inv'
<1>1. Types'
  BY DEF Inv, Types, TypeOK, reading
<1>2. Unread' = Unread
  BY ConcatEmptySeq DEF Inv, Types, Unread
<1>3. peer # "any" /\ error = "none" => Layout'
  BY <1>2, LayoutStays DEF Inv, reading
<1>4. peer # "any" => Written' /\ Returned' /\ Stopped' /\ (error = "none" => Header')
  BY DEF Inv, Written, Returned, Stopped, Header, Current, reading
<1> QED BY <1>1, <1>3, <1>4 DEF Inv, reading

\* A frame that is begun.
LEMMA BeginFrame ==
    ASSUME Inv, peer # "any", open, writing = <<>>,
           NEW k \in Kind, NEW n \in Nat, n <= WriteLimit(k),
           writing' = HeaderOf(peer, k, n) \o PayloadOf(Len(written) + 1, n),
           written' = Append(written,
                             [kind |-> k, payload |-> PayloadOf(Len(written) + 1, n)]),
           UNCHANGED <<open, peer, stream, lost, reading>>
    PROVE  Inv'
<1>1. PICK j \in Nat : j = Len(written) + 1
  BY Lengths DEF Inv
<1>2. PICK header \in Seq(Pieces), payload \in Seq(Pieces), f \in Frames :
        /\ header = HeaderOf(peer, k, n) /\ payload = PayloadOf(j, n)
        /\ f = [kind |-> k, payload |-> payload]
        /\ Len(header) = 4 /\ Len(payload) = n
        /\ \A b \in 1 .. n : payload[b] = Byte(j, b)
  <2>1. peer \in Peers
    BY DEF Inv, Types
  <2>2. /\ HeaderOf(peer, k, n) \in Seq(Pieces) /\ Len(HeaderOf(peer, k, n)) = 4
        /\ PayloadOf(j, n) \in Seq(Pieces) /\ Len(PayloadOf(j, n)) = n
        /\ \A b \in 1 .. n : PayloadOf(j, n)[b] = Byte(j, b)
        /\ [kind |-> k, payload |-> PayloadOf(j, n)] \in Frames
    BY <2>1, FramePieces
  <2> QED BY <2>2
<1>3. writing' = header \o payload /\ written' = Append(written, f)
  BY <1>1, <1>2
<1>4. header \o payload \in Seq(Pieces) /\ Len(header \o payload) = 4 + n
      /\ \A i \in 1 .. 4 + n :
            (header \o payload)[i] = IF i <= 4 THEN header[i] ELSE payload[i - 4]
  <2>1. /\ header \o payload \in Seq(Pieces)
        /\ Len(header \o payload) = Len(header) + Len(payload)
        /\ \A i \in 1 .. Len(header) + Len(payload) :
              (header \o payload)[i] =
                  IF i <= Len(header) THEN header[i] ELSE payload[i - Len(header)]
    BY ConcatProperties, Zenon
  <2>2. Len(header) = 4 /\ Len(payload) = n
    BY <1>2
  <2> QED BY <2>1, <2>2
<1>5. /\ written' \in Seq(Frames) /\ Len(written') = j /\ written'[j] = f
      /\ \A i \in DOMAIN written : written'[i] = written[i]
      /\ DOMAIN written' = 1 .. j /\ DOMAIN written = 1 .. j - 1
      /\ Len(written) = j - 1 /\ Len(written) \in Nat
  BY <1>1, <1>3, AppendProperties, LenProperties DEF Inv, Types
<1>6. Types'
  BY <1>3, <1>4, <1>5 DEF Inv, Types, TypeOK, reading
<1>7. \A i \in 1 .. 4 + n : (header \o payload)[i] = Laid(j, i)'
  <2> SUFFICES ASSUME NEW i \in 1 .. 4 + n
               PROVE  (header \o payload)[i] = Laid(j, i)'
    OBVIOUS
  <2>1. f.kind = k /\ f.payload = payload /\ peer' = peer
    BY <1>2
  <2>2. header[1] = Magic /\ header[2] = Version(peer) /\ header[3] = KindPiece(k)
        /\ header[4] = Length(n)
    BY <1>2 DEF HeaderOf
  <2>3. CASE i \in {1, 2, 3, 4}
    <3>1. written'[j].kind = k /\ Len(written'[j].payload) = n
      BY <2>1, <1>2, <1>5
    <3>2. header[i] = Laid(j, i)'
      BY <2>1, <2>2, <2>3, <3>1 DEF Laid
    <3>3. i <= 4
      BY <2>3
    <3> QED BY <3>2, <3>3, <1>4
  <2>4. CASE i \notin {1, 2, 3, 4}
    <3>1. i - 4 \in 1 .. n /\ ~(i <= 4) /\ i # 1 /\ i # 2 /\ i # 3 /\ i # 4
      BY <2>4
    <3>2. (header \o payload)[i] = Byte(j, i - 4)
      BY <3>1, <1>2, <1>4
    <3> QED BY <3>1, <3>2 DEF Laid
  <2> QED BY <2>3, <2>4
<1>8. Grows(4 + Len(f.payload))
  <2>1. Unread = stream /\ Unread' = stream \o (header \o payload)
        /\ stream \in Seq(Pieces)
    BY <1>3, ConcatEmptySeq DEF Inv, Types, Unread
  <2>2. PICK s \in Nat : s = Len(stream)
    BY <2>1, LenProperties
  <2>3. /\ Len(stream \o (header \o payload)) = s + (4 + n)
        /\ \A at \in 1 .. s + (4 + n) :
              (stream \o (header \o payload))[at] =
                  IF at <= s THEN stream[at] ELSE (header \o payload)[at - s]
    <3>1. stream \in Seq(Pieces) /\ header \o payload \in Seq(Pieces)
      BY <2>1, <1>4
    <3>2. /\ Len(stream \o (header \o payload)) = Len(stream) + Len(header \o payload)
          /\ \A at \in 1 .. Len(stream) + Len(header \o payload) :
                (stream \o (header \o payload))[at] =
                    IF at <= Len(stream) THEN stream[at]
                    ELSE (header \o payload)[at - Len(stream)]
      BY <3>1, ConcatProperties, Zenon
    <3>3. Len(stream) = s /\ Len(header \o payload) = 4 + n
      BY <2>2, <1>4
    <3> QED BY <3>2, <3>3
  <2>4. \A at \in 1 .. s : at <= s /\ at \in 1 .. s + (4 + n)
    BY <2>2
  <2>5. \A i \in 1 .. 4 + n : \A at \in 1 .. s + (4 + n) :
          at = s + i => ~(at <= s) /\ at - s = i
    BY <2>2
  <2>6. \A i \in 1 .. 4 + n : \A at \in 1 .. s + (4 + n) :
          at = s + i => (stream \o (header \o payload))[at] = Laid(j, i)'
    BY <2>3, <2>5, <1>7
  <2>7. \A at \in 1 .. s : (stream \o (header \o payload))[at] = stream[at]
    BY <2>3, <2>4
  <2>8. Len(f.payload) = n
    BY <1>2
  <2> QED BY <2>1, <2>2, <2>3, <2>6, <2>7, <2>8, <1>5 DEF Grows
<1>9. error = "none" => Layout'
  BY <1>3, <1>8, LayoutExtend DEF Inv, Types, Returned, reading
<1>10. Written'
  <2>1. f.kind = k /\ f.payload = payload /\ DOMAIN payload = 1 .. n
    BY <1>2, LenProperties
  <2> QED BY <2>1, <1>2, <1>5 DEF Inv, Written, WriteLimit
<1>11. Returned' /\ Stopped' /\ (error = "none" => Header')
  <2>1. got' = got /\ error' = error /\ reads' = reads /\ kind' = kind
        /\ buffer' = buffer /\ peer' = peer /\ open' = open /\ lost' = lost
    BY DEF reading
  <2>2. Len(got) \in Nat /\ DOMAIN got = 1 .. Len(got) /\ Len(got) <= Len(written)
    BY Lengths DEF Inv, Returned
  <2>3. Len(written) <= Len(written')
    BY <1>5
  <2>4. Returned'
    BY <2>1, <2>2, <2>3, <1>5 DEF Inv, Returned
  <2>5. Len(got) < Len(written) =>
          /\ Len(got') < Len(written')
          /\ Current' = Current /\ written'[Current] = written[Current]
    BY <2>1, <2>2, <2>3, <1>5 DEF Current
  <2>6. Stopped'
    BY <2>1, <2>5 DEF Inv, Stopped
  <2>7. error = "none" => Header'
    BY <2>1, <2>5 DEF Inv, Header
  <2> QED BY <2>4, <2>6, <2>7
<1> QED BY <1>6, <1>9, <1>10, <1>11 DEF Inv, reading

\* write_frame is called.
LEMMA BeginInv ==
    ASSUME Inv, NEW k \in Kind, NEW n \in Sizes, Begin(k, n)
    PROVE  Inv'
<1>1. n \in Nat
  BY StreamAssumption
<1>2. CASE n > WriteLimit(k)
  BY <1>2, BeginTooLarge DEF Begin
<1>3. CASE ~(n > WriteLimit(k))
  <2>1. WriteLimit(k) \in Nat
    BY StreamAssumption DEF WriteLimit
  <2>2. n <= WriteLimit(k)
    BY <1>1, <1>3, <2>1
  <2>3. /\ peer # "any" /\ open /\ writing = <<>>
        /\ writing' = HeaderOf(peer, k, n) \o PayloadOf(Len(written) + 1, n)
        /\ written' = Append(written,
                             [kind |-> k, payload |-> PayloadOf(Len(written) + 1, n)])
        /\ UNCHANGED <<open, peer, stream, lost, reading>>
    BY <1>3 DEF Begin, HeaderOf, PayloadOf
  <2> QED BY <1>1, <2>2, <2>3, BeginFrame
<1> QED BY <1>2, <1>3

\* A part of a sequence of pieces is one.
LEMMA PartOfPieces ==
    ASSUME NEW s \in Seq(Pieces), NEW a \in Nat, NEW b \in Nat, a >= 1, b <= Len(s)
    PROVE  SubSeq(s, a, b) \in Seq(Pieces)
<1>1. \A i \in a .. b : s[i] \in Pieces
  <2>1. Len(s) \in Nat
    BY LenProperties
  <2>2. \A i \in a .. b : i \in 1 .. Len(s)
    BY <2>1
  <2> QED BY <2>2, ElementOfSeq
<1>2. a \in Int /\ b \in Int
  OBVIOUS
<1> QED BY <1>1, <1>2, SubSeqProperties, Zenon

\* What nothing but the writing end and the network touches.
LEMMA ReaderStays ==
    ASSUME Inv, peer # "any", UNCHANGED <<peer, written, reading>>,
           open' => open, lost => lost'
    PROVE  Written' /\ Returned' /\ Stopped' /\ (error = "none" => Header')
<1>1. got' = got /\ error' = error /\ reads' = reads /\ kind' = kind
      /\ buffer' = buffer /\ peer' = peer /\ written' = written
  BY DEF reading
<1> QED BY <1>1 DEF Inv, Written, Returned, Stopped, Header, Current

\* The network takes some pieces.
LEMMA WriteSomeInv ==
    ASSUME Inv, WriteSome
    PROVE  Inv'
<1>1. PICK m \in {1, Len(writing)} :
        /\ stream' = stream \o SubSeq(writing, 1, m)
        /\ writing' = SubSeq(writing, m + 1, Len(writing))
  BY DEF WriteSome
<1>2. /\ open /\ open' = open /\ writing # <<>> /\ lost' = lost /\ written' = written
      /\ peer' = peer /\ UNCHANGED reading
  BY DEF WriteSome
<1>3. stream \in Seq(Pieces) /\ writing \in Seq(Pieces)
  BY DEF Inv, Types
<1>4. Len(writing) \in Nat /\ Len(writing) >= 1
  BY <1>2, <1>3, EmptySeq
<1>5. PICK w \in Nat : w = Len(writing) /\ m \in Nat /\ m + 1 \in Nat /\ 1 <= m /\ m <= w
  BY <1>4
<1>6. SubSeq(writing, 1, m) \in Seq(Pieces) /\ SubSeq(writing, m + 1, w) \in Seq(Pieces)
  BY <1>3, <1>5, PartOfPieces
<1>7. stream' \in Seq(Pieces) /\ writing' \in Seq(Pieces)
  BY <1>1, <1>3, <1>5, <1>6, ConcatProperties
<1>8. SubSeq(writing, 1, m) \o SubSeq(writing, m + 1, w) = writing
  <2>1. 1 \in 1 .. w + 1 /\ m \in 0 .. w /\ w \in m .. w /\ 1 - 1 = 0
    BY <1>5
  <2>2. SubSeq(writing, 1, m) \o SubSeq(writing, m + 1, w) = SubSeq(writing, 1, w)
    BY <1>3, <1>5, <2>1, ConcatAdjacentSubSeq
  <2> QED BY <1>3, <1>5, <2>2, SubSeqFull
<1>9. Unread' = Unread
  <2>1. PICK a \in Seq(Pieces), b \in Seq(Pieces) :
          a = SubSeq(writing, 1, m) /\ b = SubSeq(writing, m + 1, w)
    BY <1>6
  <2>2. (stream \o a) \o b = stream \o (a \o b)
    BY <1>3, ConcatAssociative
  <2> QED BY <2>1, <2>2, <1>1, <1>2, <1>5, <1>8 DEF Unread
<1>10. Types'
  BY <1>2, <1>7 DEF Inv, Types, TypeOK, reading
<1>11. peer # "any" /\ error = "none" => Layout'
  BY <1>2, <1>9, LayoutStays DEF Inv, reading
<1> QED BY <1>2, <1>10, <1>11, ReaderStays DEF Inv, reading

\* The writing end closes the stream.
LEMMA CloseInv ==
    ASSUME Inv, Close
    PROVE  Inv'
<1>1. /\ open /\ open' = FALSE /\ lost' = (lost \/ writing # <<>>)
      /\ peer' = peer /\ stream' = stream /\ writing' = writing /\ written' = written
      /\ UNCHANGED reading
  BY DEF Close
<1>2. stream \in Seq(Pieces) /\ writing \in Seq(Pieces) /\ lost \in BOOLEAN
  BY DEF Inv, Types
<1>3. Types'
  BY <1>1, <1>2 DEF Inv, Types, TypeOK, reading
<1>4. peer # "any" /\ error = "none" => Layout'
  <2>1. CASE writing = <<>>
    <3>1. Unread' = Unread /\ lost' = lost
      BY <1>1, <1>2, <2>1, ConcatEmptySeq DEF Unread
    <3> QED BY <3>1, <1>1, LayoutStays DEF Inv, reading
  <2>2. CASE writing # <<>>
    <3>1. Unread' = stream /\ lost' = TRUE
      BY <1>1, <2>2 DEF Unread
    <3>2. Len(stream) \in Nat /\ Len(writing) \in Nat
      BY <1>2, LenProperties
    <3>3. Len(Unread) = Len(stream) + Len(writing)
          /\ \A at \in 1 .. Len(stream) : Unread[at] = stream[at]
      BY <1>1, StreamFirst DEF Inv
    <3>4. Len(Unread') \in Nat /\ Len(Unread') <= Len(Unread)
      BY <3>1, <3>2, <3>3
    <3> QED BY <3>1, <3>3, <3>4, <1>1, LayoutCut DEF Inv, reading
  <2> QED BY <2>1, <2>2
<1> QED BY <1>1, <1>3, <1>4, ReaderStays DEF Inv, reading

\* The connection is lost.
LEMMA LoseInv ==
    ASSUME Inv, Lose
    PROVE  Inv'
<1>1. PICK m \in 0 .. Len(stream) - 1 : stream' = SubSeq(stream, 1, m)
  BY DEF Lose
<1>2. /\ open' = FALSE /\ lost' = TRUE /\ peer' = peer /\ writing' = writing
      /\ written' = written /\ UNCHANGED reading
  BY DEF Lose
<1>3. stream \in Seq(Pieces) /\ Len(stream) \in Nat
  BY LenProperties DEF Inv, Types
<1>4. m \in Nat /\ m <= Len(stream) /\ 1 \in Nat
  BY <1>3
<1>5. stream' \in Seq(Pieces)
  BY <1>1, <1>3, <1>4, PartOfPieces
<1>6. Len(stream') = m /\ \A at \in 1 .. m : stream'[at] = stream[at]
  <2>1. \A at \in 1 .. m : stream[at] \in Pieces /\ at \in 1 .. Len(stream)
    BY <1>3, <1>4, ElementOfSeq
  <2>2. /\ Len(SubSeq(stream, 1, m)) = IF 1 <= m THEN m - 1 + 1 ELSE 0
        /\ \A at \in 1 .. m - 1 + 1 : SubSeq(stream, 1, m)[at] = stream[1 + at - 1]
    BY <2>1, <1>4, SubSeqProperties
  <2>3. m - 1 + 1 = m /\ (~(1 <= m) => m = 0) /\ \A at \in 1 .. m : 1 + at - 1 = at
    BY <1>4
  <2> QED BY <2>2, <2>3, <1>1
<1>7. Types'
  BY <1>2, <1>5 DEF Inv, Types, TypeOK, reading
<1>8. peer # "any" /\ error = "none" => Layout'
  <2>1. Unread' = stream'
    BY <1>2 DEF Unread
  <2>2. /\ Len(Unread) = Len(stream) + (IF open THEN Len(writing) ELSE 0)
        /\ \A at \in 1 .. Len(stream) : Unread[at] = stream[at]
    BY StreamFirst DEF Inv
  <2>3. Len(writing) \in Nat
    BY Lengths DEF Inv
  <2>4. m <= Len(Unread) /\ \A at \in 1 .. m : at \in 1 .. Len(stream)
    BY <2>2, <2>3, <1>3, <1>4
  <2>5. /\ Len(Unread') \in Nat /\ Len(Unread') <= Len(Unread)
        /\ \A at \in 1 .. Len(Unread') : Unread'[at] = Unread[at]
    BY <2>1, <2>2, <2>4, <1>4, <1>6
  <2> QED BY <2>5, <1>2, LayoutCut DEF Inv, reading
<1> QED BY <1>2, <1>7, <1>8, ReaderStays DEF Inv, reading

\* Something that does not speak the protocol writes a piece.
LEMMA ScribbleInv ==
    ASSUME Inv, Scribble
    PROVE  Inv'
<1>1. PICK piece \in {Magic, Version("same"), Byte(0, 0)}
             \cup {KindPiece(k) : k \in Kind \cup {"unknown"}}
             \cup {Length(n) : n \in Sizes} :
         stream' = Append(stream, piece)
  BY DEF Scribble
<1>2. piece \in Pieces
  BY PieceKinds, StreamAssumption
<1>3. [kind |-> "any", payload |-> <<>>] \in Frames
  BY EmptySeq DEF Frames
<1>4. stream' \in Seq(Pieces) /\ written' \in Seq(Frames)
  BY <1>1, <1>2, <1>3, AppendProperties DEF Inv, Types, Scribble
<1>5. Types'
  BY <1>4 DEF Inv, Types, TypeOK, Scribble, reading
<1> QED BY <1>5 DEF Inv, Scribble

-----------------------------------------------------------------------------
\* One piece less on the stream.
LEMMA NextPiece ==
    ASSUME Types, stream # <<>>, stream' = Tail(stream), UNCHANGED <<writing, open>>
    PROVE  /\ Head(stream) \in Pieces /\ stream' \in Seq(Pieces)
           /\ 1 \in 1 .. Len(stream) /\ Head(stream) = stream[1]
           /\ Takes(1)
<1>1. stream \in Seq(Pieces)
  BY DEF Types
<1>2. Head(stream) \in Pieces /\ stream' \in Seq(Pieces)
  BY <1>1, HeadTailProperties
<1>3. Len(stream) \in Nat /\ 1 <= Len(stream) /\ 1 \in 1 .. Len(stream)
  BY <1>1, EmptySeq
<1>4. Head(stream) = stream[1]
  BY <1>1
<1>5. stream' = SubSeq(stream, 1 + 1, Len(stream))
  BY <1>1, TailIsSubSeq
<1>6. Takes(1)
  BY <1>3, <1>5, StreamTakes
<1> QED BY <1>2, <1>3, <1>4, <1>6

\* The next piece is the one that was laid there.
LEMMA NextIsLaid ==
    ASSUME Inv, peer # "any", error = "none", reads # "payload", stream # <<>>
    PROVE  /\ Len(got) < Len(written) /\ Current \in 1 .. Len(written)
           /\ Head(stream) = Laid(Current, Consumed + 1)
<1>1. Types /\ Returned /\ Layout
  BY DEF Inv
<1>2. stream \in Seq(Pieces)
  BY DEF Inv, Types
<1>3. 1 \in 1 .. Len(stream) /\ Head(stream) = stream[1]
  BY <1>2, EmptySeq
<1>4. Len(got) < Len(written)
      /\ (Consumed + 1 <= Total(Current) => stream[1] = Laid(Current, Consumed + 1))
  BY <1>1, <1>3, StreamIsLaid
<1>5. Current \in 1 .. Len(written)
  BY <1>1, <1>4, Lengths DEF Current
<1>6. Consumed \in 0 .. 3
  BY <1>1 DEF Consumed, Types, TypeOK
<1>7. Total(Current) \in Nat /\ Total(Current) >= 4
  BY <1>1, <1>5, Lengths
<1>8. Consumed + 1 <= Total(Current)
  BY <1>6, <1>7
<1> QED BY <1>3, <1>4, <1>5, <1>8

\* A piece of the header is read and is right.
LEMMA HeaderLayout ==
    ASSUME Inv, peer # "any", error = "none", stream # <<>>, stream' = Tail(stream),
           UNCHANGED <<writing, written, open, got, lost, peer>>,
           Consumed' = Consumed + 1
    PROVE  Layout'
<1>1. Types /\ Layout
  BY DEF Inv
<1>2. Takes(1) /\ 1 \in Nat
  BY <1>1, NextPiece
<1>3. Advances(1)
  BY DEF Advances
<1> QED BY <1>1, <1>2, <1>3, LayoutShift

\* What a piece of the header leaves alone.
LEMMA HeaderStays ==
    ASSUME Inv, peer # "any", UNCHANGED <<peer, writing, written, open, got, lost>>
    PROVE  Written' /\ Returned'
  BY DEF Inv, Written, Returned

\* The magic bytes.
LEMMA ReadMagicInv ==
    ASSUME Inv, ReadMagic
    PROVE  Inv'
<1>1. /\ reads = "magic" /\ error = "none" /\ stream # <<>> /\ stream' = Tail(stream)
      /\ error' = IF Head(stream).piece = "magic" THEN "none" ELSE "BadMagic"
      /\ reads' = IF error' = "none" THEN "version" ELSE reads
      /\ UNCHANGED <<peer, writing, written, open, got, lost>>
      /\ kind' = kind /\ buffer' = buffer
  BY DEF ReadMagic, Read, Goto
<1>2. Types'
  <2>1. stream' \in Seq(Pieces)
    BY <1>1, NextPiece DEF Inv
  <2> QED BY <2>1, <1>1 DEF Inv, Types, TypeOK
<1>3. ASSUME peer # "any"
      PROVE  Written' /\ Returned' /\ Stopped' /\ Layout' /\ Header'
  <2>1. Consumed = 0 /\ Head(stream) = Laid(Current, 0 + 1)
    BY <1>1, <1>3, NextIsLaid DEF Consumed
  <2>2. Head(stream).piece = "magic"
    BY <2>1 DEF Laid, Magic
  <2>3. error' = "none" /\ reads' = "version"
    BY <1>1, <2>2
  <2>4. Consumed' = 0 + 1
    BY <2>3 DEF Consumed
  <2>5. Layout'
    BY <1>1, <1>3, <2>1, <2>4, HeaderLayout
  <2>6. Stopped' /\ Header'
    BY <1>1, <1>3, <2>3 DEF Inv, Stopped, Header
  <2> QED BY <1>1, <1>3, <2>5, <2>6, HeaderStays
<1> QED BY <1>1, <1>2, <1>3 DEF Inv

\* The version.
LEMMA ReadVersionInv ==
    ASSUME Inv, ReadVersion
    PROVE  Inv'
<1>1. /\ reads = "version" /\ error = "none" /\ stream # <<>> /\ stream' = Tail(stream)
      /\ error' = IF Head(stream).piece = "version" /\ Speaks(Head(stream)) THEN "none"
                  ELSE "UnsupportedVersion"
      /\ reads' = IF error' = "none" THEN "kind" ELSE reads
      /\ UNCHANGED <<peer, writing, written, open, got, lost>>
      /\ kind' = kind /\ buffer' = buffer
  BY DEF ReadVersion, Read, Goto
<1>2. Types'
  <2>1. stream' \in Seq(Pieces)
    BY <1>1, NextPiece DEF Inv
  <2> QED BY <2>1, <1>1 DEF Inv, Types, TypeOK
<1>3. ASSUME peer # "any"
      PROVE  Written' /\ Returned' /\ Stopped' /\ (error' = "none" => Layout' /\ Header')
  <2>1. Consumed = 1 /\ Head(stream) = Laid(Current, 1 + 1)
    BY <1>1, <1>3, NextIsLaid DEF Consumed
  <2>2. Head(stream) = Version(peer)
    BY <2>1 DEF Laid
  <2>3. ASSUME error' = "none"
        PROVE  Layout' /\ Header'
    <3>1. reads' = "kind" /\ Consumed' = 1 + 1
      BY <1>1, <2>3 DEF Consumed
    <3>2. Layout'
      BY <1>1, <1>3, <2>1, <3>1, HeaderLayout
    <3>3. Header'
      BY <3>1 DEF Header
    <3> QED BY <3>2, <3>3
  <2>4. Stopped'
    <3>1. peer = "same" => error' = "none"
      BY <1>1, <2>2 DEF Speaks, Version
    <3>2. peer = "newer" => error' = "UnsupportedVersion"
      BY <1>1, <2>2 DEF Speaks, Version
    <3> QED BY <1>1, <1>3, <3>1, <3>2 DEF Inv, Stopped
  <2> QED BY <1>1, <1>3, <2>3, <2>4, HeaderStays
<1> QED BY <1>1, <1>2, <1>3 DEF Inv

\* The kind.
LEMMA ReadKindInv ==
    ASSUME Inv, ReadKind
    PROVE  Inv'
<1>1. /\ reads = "kind" /\ error = "none" /\ stream # <<>> /\ stream' = Tail(stream)
      /\ error' = IF /\ Head(stream).piece = "kind"
                     /\ Head(stream) \in {KindPiece(k) : k \in Kind} THEN "none"
                  ELSE "UnknownKind"
      /\ reads' = IF error' = "none" THEN "length" ELSE reads
      /\ UNCHANGED <<peer, writing, written, open, got, lost>>
      /\ kind' = IF error' = "none" THEN Head(stream).kind ELSE kind
      /\ buffer' = buffer
  BY DEF ReadKind, Read, Goto
<1>2. Types'
  <2>1. stream' \in Seq(Pieces)
    BY <1>1, NextPiece DEF Inv
  <2>2. kind' \in Kind
    <3>1. kind \in Kind
      BY DEF Inv, Types, TypeOK
    <3>2. CASE error' = "none"
      <4>1. PICK k \in Kind : Head(stream) = KindPiece(k)
        BY <1>1, <3>2
      <4> QED BY <4>1, <3>2, <1>1 DEF KindPiece
    <3> QED BY <3>1, <3>2, <1>1
  <2>3. buffer' = 0 /\ buffer' \in 0 .. IF kind' = "FileChunk" THEN MaxChunk + IndexSize
                                                               ELSE MaxControl
    BY <1>1, StreamAssumption DEF Inv, Types
  <2> QED BY <2>1, <2>2, <2>3, <1>1 DEF Inv, Types, TypeOK
<1>3. ASSUME peer # "any"
      PROVE  Written' /\ Returned' /\ Stopped' /\ Layout' /\ Header'
  <2>1. Consumed = 2 /\ Head(stream) = Laid(Current, 2 + 1)
        /\ Len(got) < Len(written) /\ Current \in 1 .. Len(written)
    BY <1>1, <1>3, NextIsLaid DEF Consumed
  <2>2. Head(stream) = KindPiece(written[Current].kind)
    BY <2>1 DEF Laid
  <2>3. written[Current].kind \in Kind
    BY <1>3, <2>1, Lengths DEF Inv, Written
  <2>4. error' = "none" /\ reads' = "length" /\ kind' = written[Current].kind
    BY <1>1, <2>2, <2>3 DEF KindPiece
  <2>5. Consumed' = 2 + 1
    BY <2>4 DEF Consumed
  <2>6. Layout'
    BY <1>1, <1>3, <2>1, <2>5, HeaderLayout
  <2>7. Header'
    BY <1>1, <2>1, <2>4 DEF Header, Current
  <2>8. Stopped'
    BY <1>1, <1>3, <2>4 DEF Inv, Stopped
  <2> QED BY <1>1, <1>3, <2>6, <2>7, <2>8, HeaderStays
<1> QED BY <1>1, <1>2, <1>3 DEF Inv

\* The length.
LEMMA ReadLengthInv ==
    ASSUME Inv, ReadLength
    PROVE  Inv'
<1>1. /\ reads = "length" /\ error = "none" /\ stream # <<>> /\ stream' = Tail(stream)
      /\ error' = IF /\ Head(stream).piece = "length"
                     /\ Head(stream).piece = "length" /\ Fits(Head(stream).size)
                  THEN "none" ELSE "OversizedFrame"
      /\ reads' = IF error' = "none" THEN "payload" ELSE reads
      /\ UNCHANGED <<peer, writing, written, open, got, lost>>
      /\ kind' = kind
      /\ buffer' = IF error' = "none" THEN Head(stream).size ELSE buffer
  BY DEF ReadLength, Read, Goto
<1>2. Types'
  <2>1. stream' \in Seq(Pieces) /\ Head(stream) \in Pieces
    BY <1>1, NextPiece DEF Inv
  <2>2. ReadLimit(kind) \in Nat
    BY StreamAssumption DEF ReadLimit
  <2>3. buffer' \in 0 .. ReadLimit(kind)
    <3>1. CASE error' = "none"
      <4>1. Head(stream).size \in Nat
        BY <1>1, <2>1, <3>1 DEF Pieces
      <4>2. Head(stream).size <= ReadLimit(kind)
        BY <1>1, <3>1 DEF Fits
      <4> QED BY <4>1, <4>2, <2>2, <3>1, <1>1
    <3>2. CASE error' # "none"
      BY <1>1, <2>2, <3>2 DEF Inv, Types
    <3> QED BY <3>1, <3>2
  <2> QED BY <2>1, <2>3, <1>1 DEF Inv, Types, TypeOK, ReadLimit
<1>3. ASSUME peer # "any"
      PROVE  Written' /\ Returned' /\ Stopped' /\ Layout' /\ Header'
  <2>1. Consumed = 3 /\ Head(stream) = Laid(Current, 3 + 1)
        /\ Len(got) < Len(written) /\ Current \in 1 .. Len(written)
    BY <1>1, <1>3, NextIsLaid DEF Consumed
  <2>2. Head(stream) = Length(Len(written[Current].payload))
    BY <2>1 DEF Laid
  <2>3. kind = written[Current].kind
    BY <1>1, <1>3 DEF Inv, Header
  <2>4. Len(written[Current].payload) <= ReadLimit(kind)
    BY <1>3, <2>1, <2>3, Lengths DEF Inv, Written, WriteLimit, ReadLimit
  <2>5. error' = "none" /\ reads' = "payload"
        /\ buffer' = Len(written[Current].payload)
    BY <1>1, <2>2, <2>4 DEF Length, Fits
  <2>6. Consumed' = 3 + 1
    BY <2>5 DEF Consumed
  <2>7. Layout'
    BY <1>1, <1>3, <2>1, <2>6, HeaderLayout
  <2>8. Header'
    BY <1>1, <2>1, <2>3, <2>5 DEF Header, Current
  <2>9. Stopped'
    BY <1>1, <1>3, <2>5 DEF Inv, Stopped
  <2> QED BY <1>1, <1>3, <2>7, <2>8, <2>9, HeaderStays
<1> QED BY <1>1, <1>2, <1>3 DEF Inv

\* read_exact has the whole payload, and takes no more than that.
LEMMA WholePayload ==
    ASSUME Inv, reads = "payload", Ready
    PROVE  /\ buffer \in Nat /\ buffer <= Len(stream)
           /\ Payload \in Seq(Pieces) /\ Len(Payload) = buffer
           /\ \A b \in 1 .. buffer : b \in 1 .. Len(stream) /\ Payload[b] = stream[b]
<1>1. stream \in Seq(Pieces) /\ Len(stream) \in Nat /\ DOMAIN stream = 1 .. Len(stream)
  BY LenProperties DEF Inv, Types
<1>2. buffer \in Nat
  BY StreamAssumption DEF Inv, Types, TypeOK
<1>3. buffer <= Len(stream)
  BY <1>1, <1>2 DEF Ready
<1>4. DOMAIN stream \cap (1 .. buffer) = 1 .. buffer
  BY <1>1, <1>2, <1>3
<1>5. \A b \in 1 .. buffer : b \in 1 .. Len(stream) /\ stream[b] \in Pieces
  BY <1>1, <1>2, <1>3, ElementOfSeq
<1>6. Payload = [b \in 1 .. buffer |-> stream[b]]
  BY <1>4 DEF Payload
<1> QED BY <1>2, <1>3, <1>5, <1>6

\* It is the payload that was written.
LEMMA PayloadIsLaid ==
    ASSUME Inv, peer # "any", error = "none", reads = "payload", Ready
    PROVE  /\ Len(got) < Len(written) /\ Current \in 1 .. Len(written)
           /\ kind = written[Current].kind
           /\ buffer = Len(written[Current].payload)
           /\ Payload = written[Current].payload
<1>1. Types /\ Returned /\ Layout /\ Header /\ Written
  BY DEF Inv
<1>2. Len(got) < Len(written) /\ kind = written[Current].kind
      /\ buffer = Len(written[Current].payload)
  BY <1>1 DEF Header
<1>3. Current \in 1 .. Len(written) /\ Current \in Nat
  BY <1>1, <1>2, Lengths DEF Current
<1>4. PICK n \in Nat : n = buffer
  BY WholePayload
<1>5. Payload \in Seq(Pieces) /\ Len(Payload) = n
      /\ \A b \in 1 .. n : b \in 1 .. Len(stream) /\ Payload[b] = stream[b]
  BY <1>4, WholePayload
<1>6. written[Current].payload \in Seq(Pieces) /\ Len(written[Current].payload) = n
  <2>1. written[Current] \in Frames
    BY <1>1, <1>3, ElementOfSeq DEF Types
  <2> QED BY <2>1, <1>2, <1>4 DEF Frames
<1>7. \A b \in 1 .. n : written[Current].payload[b] = Byte(Current, b)
  BY <1>1, <1>3, <1>6, Lengths, LenProperties DEF Written
<1>8. \A b \in 1 .. n : stream[b] = Byte(Current, b)
  <2> SUFFICES ASSUME NEW b \in 1 .. n
               PROVE  stream[b] = Byte(Current, b)
    OBVIOUS
  <2>1. Consumed = 4 /\ Total(Current) = 4 + n
    BY <1>6 DEF Consumed, Total
  <2>2. Consumed + b <= Total(Current)
    BY <2>1
  <2>3. stream[b] = Laid(Current, Consumed + b)
    BY <1>1, <1>5, <2>2, StreamIsLaid
  <2>4. PICK i \in Nat : i = 4 + b /\ i # 1 /\ i # 2 /\ i # 3 /\ i # 4 /\ i - 4 = b
    OBVIOUS
  <2> QED BY <2>1, <2>3, <2>4 DEF Laid
<1>9. Payload = written[Current].payload
  BY <1>5, <1>6, <1>7, <1>8, SeqEqual
<1> QED BY <1>2, <1>3, <1>9

\* The payload: an error ends the reading, anything else is returned.
LEMMA ReadPayloadInv ==
    ASSUME Inv, ReadPayload
    PROVE  Inv'
<1>1. /\ reads = "payload" /\ error = "none" /\ Ready /\ buffer' = 0
      /\ stream' = SubSeq(stream, Len(Payload) + 1, Len(stream))
      /\ UNCHANGED <<peer, writing, written, open, kind, lost>>
  BY DEF ReadPayload
<1>2. PICK n \in Nat, whole \in Seq(Pieces) :
        /\ n = buffer /\ whole = Payload /\ n <= Len(stream) /\ Len(whole) = n
  BY <1>1, WholePayload
<1>3. stream' = SubSeq(stream, n + 1, Len(stream))
  BY <1>1, <1>2
<1>4. stream' \in Seq(Pieces)
  <2>1. Len(stream) \in Nat /\ n + 1 \in Nat /\ n + 1 >= 1 /\ stream \in Seq(Pieces)
    BY LenProperties DEF Inv, Types
  <2> QED BY <2>1, <1>3, PartOfPieces
<1>5. Types /\ kind \in Kind /\ got \in Seq(Frames)
  BY DEF Inv, Types, TypeOK
<1>6. buffer' \in 0 .. IF kind' = "FileChunk" THEN MaxChunk + IndexSize ELSE MaxControl
  BY <1>1, StreamAssumption
<1>7. CASE kind = "Error"
  <2>1. error' = "Remote" /\ reads' = reads /\ got' = got
    BY <1>7 DEF ReadPayload
  <2>2. Types'
    <3>1. error' = "Remote" /\ reads' = "payload" /\ got' = got /\ kind' = kind
      BY <2>1, <1>1
    <3> QED BY <3>1, <1>1, <1>4, <1>6 DEF Inv, Types, TypeOK
  <2>3. ASSUME peer # "any"
        PROVE  Written' /\ Returned' /\ Stopped'
    <3>1. Len(got) < Len(written) /\ kind = written[Current].kind
      BY <1>1, <2>3, PayloadIsLaid
    <3>2. Written' /\ Returned'
      BY <1>1, <2>1, <2>3 DEF Inv, Written, Returned
    <3>3. peer # "newer"
      BY <1>1, <2>3 DEF Inv, Stopped
    <3>4. Stopped'
      BY <3>1, <3>3, <1>1, <1>7, <2>1 DEF Stopped, Current
    <3> QED BY <3>2, <3>4
  <2> QED BY <2>1, <2>2, <2>3, <1>1 DEF Inv
<1>8. CASE kind # "Error"
  <2>1. error' = error /\ reads' = "magic"
        /\ got' = Append(got, [kind |-> kind, payload |-> whole])
    BY <1>2, <1>8 DEF ReadPayload
  <2>2. PICK f \in Frames : f = [kind |-> kind, payload |-> whole]
    BY <1>5 DEF Frames
  <2>3. PICK g \in Nat : g = Len(got)
    BY <1>5, LenProperties
  <2>4. /\ got' \in Seq(Frames) /\ Len(got') = g + 1 /\ got'[g + 1] = f
        /\ DOMAIN got = 1 .. g /\ DOMAIN got' = 1 .. g + 1
        /\ \A j \in 1 .. g : got'[j] = got[j]
    BY <1>5, <2>1, <2>2, <2>3, AppendProperties, LenProperties
  <2>5. \A j \in DOMAIN got' : got'[j].kind \in Kind \ {"Error"}
    <3>1. f.kind = kind
      BY <2>2
    <3>2. \A j \in 1 .. g : got[j].kind \in Kind \ {"Error"}
      BY <2>4 DEF Inv, Types, TypeOK
    <3> QED BY <3>1, <3>2, <2>3, <2>4, <1>5, <1>8
  <2>6. Types'
    BY <2>1, <2>4, <2>5, <1>1, <1>4, <1>6 DEF Inv, Types, TypeOK
  <2>7. ASSUME peer # "any"
        PROVE  Written' /\ Returned' /\ Stopped' /\ Layout' /\ Header'
    <3>1. /\ g < Len(written) /\ Current = g + 1 /\ Current \in 1 .. Len(written)
          /\ kind = written[Current].kind /\ n = Len(written[Current].payload)
          /\ whole = written[Current].payload
      BY <1>1, <1>2, <2>3, <2>7, PayloadIsLaid DEF Current
    <3>2. written[Current] = f
      <4>1. written[Current] \in Frames
        BY <3>1, <1>5, ElementOfSeq DEF Types
      <4> QED BY <4>1, <3>1, <2>2 DEF Frames
    <3>3. Written'
      BY <1>1, <2>7 DEF Inv, Written
    <3>4. Returned'
      <4>1. Len(written) \in Nat /\ g + 1 <= Len(written)
        BY <3>1, <1>5, Lengths
      <4>2. \A j \in 1 .. g : got[j] = written[j]
        BY <2>4, <2>7 DEF Inv, Returned
      <4>3. \A j \in 1 .. g + 1 : got'[j] = written[j]
        <5>1. \A j \in 1 .. g + 1 : j \in 1 .. g \/ j = g + 1
          BY <2>3
        <5> QED BY <5>1, <4>2, <2>4, <3>1, <3>2
      <4> QED BY <4>1, <4>3, <2>4, <1>1 DEF Returned
    <3>5. Stopped'
      BY <1>1, <2>1, <2>7 DEF Inv, Stopped
    <3>6. Header'
      BY <2>1 DEF Header
    <3>7. Layout'
      <4>1. Takes(n)
        <5>1. UNCHANGED <<writing, open>>
          BY <1>1
        <5> QED BY <5>1, <1>2, <1>3, <1>5, StreamTakes
      <4>2. Consumed = 4 /\ Consumed' = 0
        BY <1>1, <2>1 DEF Consumed
      <4>3. Total(Current) = 4 + n
        BY <3>1 DEF Total
      <4>4. Advances(n)
        BY <4>2, <4>3, <2>3, <2>4, <3>1 DEF Advances
      <4>5. Layout
        BY <1>1, <2>7 DEF Inv
      <4>6. UNCHANGED <<written, lost, peer>>
        BY <1>1
      <4> QED BY <4>1, <4>4, <4>5, <4>6, <1>5, LayoutShift
    <3> QED BY <3>3, <3>4, <3>5, <3>6, <3>7
  <2> QED BY <2>6, <2>7, <1>1 DEF Inv
<1> QED BY <1>7, <1>8

\* The stream ends: between two frames, unless it was broken.
LEMMA ReadEndInv ==
    ASSUME Inv, ReadEnd
    PROVE  Inv'
<1>1. /\ Waits /\ ~open /\ error' = "UnexpectedEof" /\ stream' = <<>> /\ error = "none"
      /\ UNCHANGED <<peer, writing, written, open, reads, kind, buffer, got, lost>>
  BY DEF ReadEnd, Waits
<1>2. Types'
  BY <1>1, EmptySeq DEF Inv, Types, TypeOK
<1>3. ASSUME peer # "any"
      PROVE  Written' /\ Returned' /\ Stopped'
  <2>1. Written' /\ Returned'
    BY <1>1, <1>3 DEF Inv, Written, Returned
  <2>2. ASSUME ~lost PROVE reads = "magic"
    <3> SUFFICES ASSUME reads # "magic" PROVE FALSE
      OBVIOUS
    <3>1. Types /\ Returned /\ Layout /\ Header
      BY <1>1, <1>3 DEF Inv
    <3>2. PICK start \in [Nat -> Int] : Starts(start)
      BY <3>1 DEF Layout
    <3>3. PICK g \in Nat, w \in Nat, u \in Nat, c \in Nat :
            g = Len(got) /\ w = Len(written) /\ u = Len(Unread) /\ c = Consumed
      <4>1. Len(got) \in Nat /\ Len(written) \in Nat /\ Len(Unread) \in Nat
        BY <3>1, Lengths, UnreadType
      <4>2. Consumed \in Nat
        BY <3>1, ConsumedRange
      <4> QED BY <4>1, <4>2
    <3>4. u = start[w + 1] /\ start[g + 1] = 0 - c /\ Current = g + 1
      BY <2>2, <3>2, <3>3 DEF Starts, Current
    <3>5. c >= 1
      BY <3>1, <3>3 DEF Consumed, Types, TypeOK
    <3>6. g <= w
      BY <3>1, <3>3 DEF Returned
    <3>7. g # w
      BY <3>3, <3>4, <3>5
    <3>8. g + 1 \in g + 1 .. w /\ g + 2 \in g + 1 .. w + 1 /\ g + 1 \in 1 .. w
          /\ (g + 1) + 1 = g + 2
      BY <3>6, <3>7
    <3>9. PICK t \in Nat : t = Total(g + 1) /\ t >= 4
      BY <3>1, <3>3, <3>8, Lengths
    <3>10. start[g + 2] = (0 - c) + t /\ start[g + 2] <= u
      <4>1. start[(g + 1) + 1] = start[g + 1] + Total(g + 1)
        BY <3>2, <3>3, <3>4, <3>8 DEF Starts
      <4>2. start[g + 2] <= start[w + 1]
        BY <3>2, <3>3, <3>4, <3>8 DEF Starts
      <4> QED BY <4>1, <4>2, <3>4, <3>8, <3>9
    <3>11. u = Len(stream)
      BY <1>1, <3>3 DEF Unread
    <3>12. CASE reads = "payload"
      <4>1. c = 4 /\ buffer = Len(written[g + 1].payload) /\ t = 4 + buffer
        BY <3>12, <3>1, <3>3, <3>4, <3>9 DEF Consumed, Header, Total
      <4>2. buffer \in Nat
        BY <3>1, StreamAssumption DEF Types, TypeOK
      <4>3. ~(u >= buffer)
        BY <1>1, <3>11, <3>12 DEF Waits, Ready
      <4> QED BY <4>1, <4>2, <4>3, <3>10
    <3>13. CASE reads # "payload"
      <4>1. c <= 3
        BY <3>13, <3>1, <3>3 DEF Consumed, Types, TypeOK
      <4>2. u = 0
        BY <1>1, <3>11, <3>13 DEF Waits
      <4> QED BY <4>1, <4>2, <3>9, <3>10
    <3> QED BY <3>12, <3>13
  <2>3. Stopped'
    BY <1>1, <1>3, <2>2 DEF Inv, Stopped, Types
  <2> QED BY <2>1, <2>3
<1> QED BY <1>1, <1>2, <1>3 DEF Inv

-----------------------------------------------------------------------------
\* Nothing has been written and nothing has been read.
LEMMA InitInv == Init => Inv
<1> SUFFICES ASSUME Init PROVE Inv
  OBVIOUS
<1>1. Types
  <2>1. <<>> \in Seq(Pieces) /\ <<>> \in Seq(Frames)
    BY EmptySeq
  <2>2. 0 \in 0 .. MaxChunk + IndexSize /\ 0 \in 0 .. MaxControl
    BY StreamAssumption
  <2>3. TypeOK
    BY <2>2, StreamAssumption DEF Init, TypeOK
  <2> QED BY <2>1, <2>3 DEF Init, Types
<1>2. Layout
  <2>1. PICK start \in [Nat -> Int] : \A j \in Nat : start[j] = 0
    <3>1. [j \in Nat |-> 0] \in [Nat -> Int]
      OBVIOUS
    <3> QED BY <3>1
  <2>2. Len(got) = 0 /\ Len(written) = 0 /\ Len(Unread) = 0 /\ Consumed = 0
    BY EmptySeq, ConcatEmptySeq DEF Init, Unread, Consumed, Types
  <2>3. Starts(start)
    BY <2>1, <2>2 DEF Starts, Current
  <2>4. Holds(start)
    BY <2>2 DEF Holds, Current
  <2> QED BY <2>3, <2>4 DEF Layout
<1>3. Written /\ Returned /\ Stopped /\ Header
  BY DEF Init, Written, Returned, Stopped, Header
<1> QED BY <1>1, <1>2, <1>3 DEF Inv

\* Every step keeps the invariant.
LEMMA NextInv == Inv /\ [Next]_vars => Inv'
<1> SUFFICES ASSUME Inv, [Next]_vars PROVE Inv'
  OBVIOUS
<1>1. CASE UNCHANGED vars
  <2>1. Unread' = Unread /\ Types'
    BY <1>1 DEF Inv, Types, TypeOK, Unread, vars
  <2>2. peer # "any" /\ error = "none" => Layout'
    BY <1>1, <2>1, LayoutStays DEF Inv, vars
  <2>3. peer # "any" => Written' /\ Returned' /\ Stopped' /\ (error = "none" => Header')
    BY <1>1, ReaderStays DEF vars, reading
  <2> QED BY <1>1, <2>1, <2>2, <2>3 DEF Inv, vars
<1>2. CASE \E k \in Kind, n \in Sizes : Begin(k, n)
  BY <1>2, BeginInv
<1>3. CASE WriteSome \/ Close \/ Lose \/ Scribble
  BY <1>3, WriteSomeInv, CloseInv, LoseInv, ScribbleInv
<1>4. CASE Reader
  BY <1>4, ReadMagicInv, ReadVersionInv, ReadKindInv, ReadLengthInv, ReadPayloadInv,
     ReadEndInv DEF Reader
<1> QED BY <1>1, <1>2, <1>3, <1>4 DEF Next

\* The frames lie where they were laid, and the reader knows where it is.
THEOREM Invariance == Spec => []Inv
  BY InitInv, NextInv, PTL DEF Spec

\* The reader has room for the frame it reads and never for more than a frame
\* may have, whatever the other end writes.
THEOREM TypeCorrect == Spec => []TypeOK
<1>1. Inv => TypeOK
  BY DEF Inv, Types
<1> QED BY <1>1, Invariance, PTL

\* What read_frame returns is what write_frame was given, frame by frame.
THEOREM GotIsWrittenTheorem == Spec => []GotIsWritten
<1>1. Inv => GotIsWritten
  <2> SUFFICES ASSUME Inv, peer = "same" PROVE IsPrefix(got, written)
    BY DEF GotIsWritten
  <2>1. got \in Seq(Frames) /\ written \in Seq(Frames) /\ Returned
    BY DEF Inv, Types
  <2>2. PICK g \in Nat, w \in Nat : g = Len(got) /\ w = Len(written) /\ g <= w
    BY <2>1, LenProperties DEF Returned
  <2>3. \A j \in 1 .. g : got[j] = written[j] /\ got[j] \in Frames
    BY <2>1, <2>2, LenProperties, ElementOfSeq DEF Returned
  <2>4. SubSeq(written, 1, g) = got
    <3>1. 1 \in Int /\ g \in Int /\ \A j \in 1 .. g : written[j] \in Frames
      BY <2>2, <2>3
    <3>2. /\ SubSeq(written, 1, g) \in Seq(Frames)
          /\ Len(SubSeq(written, 1, g)) = IF 1 <= g THEN g - 1 + 1 ELSE 0
          /\ \A j \in 1 .. g - 1 + 1 : SubSeq(written, 1, g)[j] = written[1 + j - 1]
      BY <3>1, SubSeqProperties
    <3>3. g - 1 + 1 = g /\ (~(1 <= g) => g = 0) /\ \A j \in 1 .. g : 1 + j - 1 = j
      BY <2>2
    <3>4. Len(SubSeq(written, 1, g)) = g /\ \A j \in 1 .. g : SubSeq(written, 1, g)[j] = got[j]
      BY <3>2, <3>3, <2>3
    <3> QED BY <3>2, <3>4, <2>1, <2>2, SeqEqual
  <2>5. SubSeq(got, 1, g) = got
    BY <2>1, <2>2, SubSeqFull
  <2> QED BY <2>2, <2>4, <2>5 DEF IsPrefix
<1> QED BY <1>1, Invariance, PTL

\* Between two of these programs read_frame fails only with the error that was
\* sent and at the end of the stream, which is between two frames unless the
\* stream was broken.
THEOREM ErrorsAreRealTheorem == Spec => []ErrorsAreReal
<1>1. Inv => ErrorsAreReal
  BY DEF Inv, Stopped, ErrorsAreReal, Current
<1> QED BY <1>1, Invariance, PTL

\* No frame gets from one version to another, and the error says why.
THEOREM VersionsFailClearlyTheorem == Spec => []VersionsFailClearly
<1>1. Inv => VersionsFailClearly
  BY DEF Inv, Stopped, VersionsFailClearly
<1> QED BY <1>1, Invariance, PTL
=============================================================================
