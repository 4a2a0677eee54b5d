--------------------------- MODULE WindowsProofs ----------------------------
(***************************************************************************)
(* What the two windows show is true, however the worker and the frames    *)
(* take turns, for queues and offers of any length.                        *)
(*                                                                         *)
(* A window knows its worker by what it has taken from the channel.  The   *)
(* invariants relate three things: what the window shows, the messages no  *)
(* frame has taken, and what the worker has still to report.               *)
(***************************************************************************)
EXTENDS Windows, SequenceTheorems, FiniteSetTheorems, TLAPS

-----------------------------------------------------------------------------
(* Percentages. *)

Share(done, total) == (100 * done) \div total

\* More of the same is not a smaller share of it.
LEMMA ShareRises ==
    ASSUME NEW a \in Nat, NEW b \in Nat, a <= b, NEW n \in Nat \ {0}
    PROVE  Share(a, n) <= Share(b, n)
  BY DEF Share

LEMMA ShareOfAll ==
    ASSUME NEW n \in Nat \ {0}, NEW a \in 0 .. n
    PROVE  Share(a, n) \in 0 .. 100
  BY DEF Share

-----------------------------------------------------------------------------
(* The PC's window. *)

PcKind ==
    {"Preparing", "Connected", "TransferStarted", "FileStarted", "Progress",
     "Complete", "Done"}

PcMessage ==
    [kind : PcKind, progress : 0 .. 100, of : Path \cup {Pc!None, "complete", "failed"}]

PcStatus ==
    {"drop", "ready", "missing", "invalid", "preparing", "sending", "complete", "failed"}

PcUi ==
    [host : {"empty", "wrong", "deck"}, typed : Path \cup {Pc!None}, files : Seq(Path),
     status : PcStatus, current : Path \cup {Pc!None}, progress : 0 .. 100,
     worker : BOOLEAN]

Worker == [id : Nat, files : Seq(Path), left : Seq(PcMessage)]

\* A message that names a file does so to show it.
Named(s) == \A i \in DOMAIN s : s[i].kind = "FileStarted" => s[i].of \in Path

PcType ==
    /\ ui \in PcUi /\ Pc!IsInjective(ui.files)
    /\ channel \in Seq(PcMessage) /\ Named(channel)
    /\ thread \subseteq Worker /\ \A t \in thread : Named(t.left)
    /\ sends \in Nat

OneThread == \A t, u \in thread : t = u

\* The end of the worker is its last message, and only that.
Endings ==
    /\ \A i \in DOMAIN channel : channel[i].kind = "Done" =>
         i = Len(channel) /\ thread = {} /\ channel[i].of = result
    /\ \A t \in thread : \A i \in DOMAIN t.left : t.left[i].kind # "Done"

\* Success is shown by the message of it, when there is no worker any more.
Shown == ui.status = "complete" => ~ui.worker /\ result = "complete"

IsProgress(m) == m.kind = "Progress"

\* The progress in s rises, from low on.
Rises(low, s) ==
    /\ \A i \in DOMAIN s : IsProgress(s[i]) => low <= s[i].progress
    /\ \A i, j \in DOMAIN s :
         i < j /\ IsProgress(s[i]) /\ IsProgress(s[j]) => s[i].progress <= s[j].progress

\* The bar, what is on its way to it, and what is still to be reported.
Rising ==
    /\ Rises(ui.progress, channel)
    /\ \A t \in thread :
         /\ Rises(ui.progress, t.left)
         /\ \A i \in DOMAIN channel : IsProgress(channel[i]) =>
              Rises(channel[i].progress, t.left)

PcInv == PcType /\ OneThread /\ Pc!SendsTheQueue /\ Endings /\ Shown /\ Rising

-----------------------------------------------------------------------------
(* What the PC's worker reports. *)

\* What it may report until it ends.
Fit(s) ==
    /\ s \in Seq(PcMessage)
    /\ Named(s) /\ Rises(0, s)
    /\ \A i \in DOMAIN s : s[i].kind # "Done"

\* Messages that only change the status.
Plain(s) ==
    /\ s \in Seq(PcMessage)
    /\ \A i \in DOMAIN s : s[i].kind \notin {"FileStarted", "Progress", "Done"}

LEMMA PcProgress == \A m \in PcMessage : m.progress \in Nat /\ m.progress <= 100
  BY DEF PcMessage

LEMMA EventIsMessage ==
    ASSUME NEW kind \in PcKind
    PROVE  /\ Pc!Event(kind) \in PcMessage
           /\ Pc!Event(kind).kind = kind
<1>1. Pc!Event(kind) = [kind |-> kind, progress |-> 0, of |-> Pc!None]
  BY DEF Pc!Event
<1>2. 0 \in 0 .. 100
  OBVIOUS
<1> QED BY <1>1, <1>2 DEF PcMessage, PcKind

LEMMA FileStartedIsMessage ==
    ASSUME NEW f \in Path
    PROVE  /\ Pc!FileStarted(f) \in PcMessage
           /\ Pc!FileStarted(f).kind = "FileStarted"
           /\ Pc!FileStarted(f).of = f
<1>1. Pc!FileStarted(f) = [kind |-> "FileStarted", progress |-> 0, of |-> f]
  BY DEF Pc!FileStarted, Pc!Event
<1>2. 0 \in 0 .. 100
  OBVIOUS
<1> QED BY <1>1, <1>2 DEF PcMessage, PcKind

LEMMA DoneIsMessage ==
    ASSUME NEW r \in {"complete", "failed"}
    PROVE  /\ Pc!Done(r) \in PcMessage
           /\ Pc!Done(r).kind = "Done"
           /\ Pc!Done(r).of = r
<1>1. Pc!Done(r) = [kind |-> "Done", progress |-> 0, of |-> r]
  BY DEF Pc!Done, Pc!Event
<1>2. 0 \in 0 .. 100
  OBVIOUS
<1> QED BY <1>1, <1>2 DEF PcMessage, PcKind

LEMMA ProgressIsMessage ==
    ASSUME NEW n \in Nat \ {0}, NEW a \in 0 .. n
    PROVE  /\ Pc!Progress(a, n) \in PcMessage
           /\ Pc!Progress(a, n).kind = "Progress"
           /\ Pc!Progress(a, n).progress = Share(a, n)
<1>1. Share(a, n) \in 0 .. 100
  BY ShareOfAll
<1>2. Pc!Progress(a, n) = [kind |-> "Progress", progress |-> Share(a, n), of |-> Pc!None]
  BY DEF Pc!Progress, Pc!Event, Share
<1> QED BY <1>1, <1>2 DEF PcMessage, PcKind

LEMMA PlainConcat ==
    ASSUME NEW s, Plain(s), NEW p, Plain(p)
    PROVE  Plain(s \o p)
<1>1. /\ s \o p \in Seq(PcMessage) /\ Len(s \o p) = Len(s) + Len(p)
      /\ \A i \in 1 .. Len(s) + Len(p) :
           (s \o p)[i] = IF i <= Len(s) THEN s[i] ELSE p[i - Len(s)]
  BY ConcatProperties DEF Plain
<1> QED BY <1>1, LenProperties DEF Plain

LEMMA FitConcat ==
    ASSUME NEW s, Fit(s), NEW p, Plain(p)
    PROVE  Fit(s \o p) /\ Fit(p \o s)
<1>1. s \in Seq(PcMessage) /\ p \in Seq(PcMessage)
  BY DEF Fit, Plain
<1>2. /\ s \o p \in Seq(PcMessage) /\ Len(s \o p) = Len(s) + Len(p)
      /\ \A i \in 1 .. Len(s) + Len(p) :
           (s \o p)[i] = IF i <= Len(s) THEN s[i] ELSE p[i - Len(s)]
  BY <1>1, ConcatProperties
<1>3. /\ p \o s \in Seq(PcMessage) /\ Len(p \o s) = Len(p) + Len(s)
      /\ \A i \in 1 .. Len(p) + Len(s) :
           (p \o s)[i] = IF i <= Len(p) THEN p[i] ELSE s[i - Len(p)]
  BY <1>1, ConcatProperties
<1>4. /\ Len(s) \in Nat /\ DOMAIN s = 1 .. Len(s)
      /\ Len(p) \in Nat /\ DOMAIN p = 1 .. Len(p)
      /\ DOMAIN (s \o p) = 1 .. Len(s) + Len(p)
      /\ DOMAIN (p \o s) = 1 .. Len(p) + Len(s)
  BY <1>1, <1>2, <1>3, LenProperties
<1>5. Fit(s \o p)
  BY <1>2, <1>4 DEF Fit, Plain, Named, Rises, IsProgress
<1>6. Fit(p \o s)
  BY <1>3, <1>4 DEF Fit, Plain, Named, Rises, IsProgress
<1> QED BY <1>5, <1>6

\* As many percent are reported of a file as the job has reached with it.
LEMMA FileReportsAre ==
    ASSUME NEW files \in Seq(Path), NEW k \in 1 .. Len(files), NEW e \in 1 .. 3,
           NEW m, m = Pc!FileReports(files, k)[e],
           NEW n, n = 2 * Len(files), NEW done, done = 2 * k + e - 3
    PROVE  /\ m \in PcMessage
           /\ e = 1 => m.kind = "FileStarted" /\ m.of \in Path
           /\ e # 1 => /\ m.kind = "Progress"
                       /\ m.progress = Share(done, n)
<1>1. /\ n \in Nat \ {0} /\ 2 * k - 1 \in 0 .. n /\ 2 * k \in 0 .. n
      /\ files[k] \in Path
  BY LenProperties, ElementOfSeq
<1>2. CASE e = 1
  BY <1>1, <1>2, FileStartedIsMessage DEF Pc!FileReports
<1>3. CASE e # 1
  <2>1. done \in 0 .. n
    BY <1>1, <1>3
  <2>2. m = Pc!Progress(done, n)
    <3>1. CASE e = 2
      <4>1. done = 2 * k - 1
        BY <3>1
      <4> QED BY <3>1, <4>1 DEF Pc!FileReports
    <3>2. CASE e = 3
      <4>1. done = 2 * k
        BY <3>2
      <4> QED BY <3>2, <4>1 DEF Pc!FileReports
    <3> QED BY <1>3, <3>1, <3>2
  <2>3. m \in PcMessage /\ m.kind = "Progress" /\ m.progress = Share(done, n)
    BY <1>1, <2>1, <2>2, ProgressIsMessage
  <2> QED BY <1>3, <2>3
<1> QED BY <1>2, <1>3

LEMMA FilesFit ==
    ASSUME NEW files \in Seq(Path)
    PROVE  Fit([i \in 1 .. 3 * Len(files) |->
                  Pc!FileReports(files, (i + 2) \div 3)[1 + ((i + 2) % 3)]])
<1> DEFINE n == Len(files)
           At(i) == (i + 2) \div 3
           Nth(i) == 1 + ((i + 2) % 3)
           s == [i \in 1 .. 3 * n |-> Pc!FileReports(files, At(i))[Nth(i)]]
           Reached(i) == 2 * At(i) + Nth(i) - 3
<1>1. n \in Nat
  BY LenProperties
<1>2. \A i \in 1 .. 3 * n :
        /\ At(i) \in 1 .. n /\ Nth(i) \in 1 .. 3
        /\ i + 2 = 3 * At(i) + Nth(i) - 1
  BY <1>1
<1>3. \A i \in 1 .. 3 * n :
        /\ s[i] \in PcMessage
        /\ Nth(i) = 1 => s[i].kind = "FileStarted" /\ s[i].of \in Path
        /\ Nth(i) # 1 => /\ s[i].kind = "Progress"
                         /\ s[i].progress = Share(Reached(i), 2 * n)
  <2> TAKE i \in 1 .. 3 * n
  <2>1. At(i) \in 1 .. Len(files) /\ Nth(i) \in 1 .. 3
    BY <1>2
  <2>2. s[i] = Pc!FileReports(files, At(i))[Nth(i)]
    OBVIOUS
  <2> HIDE DEF n, s, At, Nth
  <2>3. /\ s[i] \in PcMessage
        /\ Nth(i) = 1 => s[i].kind = "FileStarted" /\ s[i].of \in Path
        /\ Nth(i) # 1 =>
             /\ s[i].kind = "Progress"
             /\ s[i].progress = Share(Reached(i), 2 * n)
    <3>1. 2 * n = 2 * Len(files) /\ Reached(i) = 2 * At(i) + Nth(i) - 3
      BY DEF n
    <3> HIDE DEF Reached
    <3> QED BY <2>1, <2>2, <3>1, FileReportsAre
  <2> QED BY <2>3
<1>4. s \in Seq(PcMessage) /\ DOMAIN s = 1 .. 3 * n
  BY <1>1, <1>3, IsASeq
<1>5. ASSUME NEW i \in 1 .. 3 * n, NEW j \in 1 .. 3 * n, i < j,
             IsProgress(s[i]), IsProgress(s[j])
      PROVE  s[i].progress <= s[j].progress
  <2>1. Nth(i) # 1 /\ Nth(j) # 1
    BY <1>2, <1>3, <1>5 DEF IsProgress
  <2>2. Reached(i) \in Nat /\ Reached(j) \in Nat /\ Reached(i) <= Reached(j)
    BY <1>1, <1>2, <1>5, <2>1
  <2>3. 2 * n \in Nat \ {0}
    BY <1>1, <1>2
  <2>4. Share(Reached(i), 2 * n) <= Share(Reached(j), 2 * n)
    <3> HIDE DEF Reached
    <3> QED BY <2>2, <2>3, ShareRises
  <2> QED BY <1>3, <2>1, <2>4
<1>6. \A i \in 1 .. 3 * n : IsProgress(s[i]) => 0 <= s[i].progress
  <2> HIDE DEF s
  <2> HIDE DEF n, At, Nth, Reached
  <2> QED BY <1>3, PcProgress
<1>7. Named(s) /\ \A i \in DOMAIN s : s[i].kind # "Done"
  BY <1>2, <1>3, <1>4 DEF Named
<1>8. Rises(0, s)
  BY <1>4, <1>5, <1>6 DEF Rises
<1> QED BY <1>4, <1>7, <1>8 DEF Fit

LEMMA ReportsFit ==
    ASSUME NEW files \in Seq(Path)
    PROVE  Fit(Pc!Reports(files))
<1> DEFINE a == [k \in DOMAIN files |-> Pc!Event("Preparing")]
           b == <<Pc!Event("Connected"), Pc!Event("TransferStarted")>>
           c == [i \in 1 .. 3 * Len(files) |->
                   Pc!FileReports(files, (i + 2) \div 3)[1 + ((i + 2) % 3)]]
           d == <<Pc!Event("Complete")>>
<1>1. Plain(a)
  <2>1. a = [k \in 1 .. Len(files) |-> Pc!Event("Preparing")] /\ Len(files) \in Nat
    BY LenProperties
  <2>2. a \in Seq(PcMessage) /\ \A k \in DOMAIN a : a[k].kind = "Preparing"
    BY <2>1, EventIsMessage, IsASeq DEF PcKind
  <2> QED BY <2>2 DEF Plain
<1>2. Plain(b) /\ Plain(d)
  <2>1. /\ DOMAIN b = 1 .. 2 /\ b[1].kind = "Connected" /\ b[2].kind = "TransferStarted"
        /\ b \in Seq(PcMessage)
    BY EventIsMessage DEF PcKind
  <2>2. DOMAIN d = 1 .. 1 /\ d[1].kind = "Complete" /\ d \in Seq(PcMessage)
    BY EventIsMessage DEF PcKind
  <2> QED BY <2>1, <2>2 DEF Plain
<1>3. Fit(a \o b \o c \o d)
  BY <1>1, <1>2, PlainConcat, FitConcat, FilesFit
<1> QED BY <1>3 DEF Pc!Reports

-----------------------------------------------------------------------------
(* The steps of the PC. *)

LEMMA PcStart == Pc!Init => PcInv
<1> SUFFICES ASSUME Pc!Init
             PROVE  PcInv
  OBVIOUS
<1> USE DEF Pc!Init
<1>1. ui \in PcUi /\ Pc!IsInjective(ui.files)
  <2>1. <<>> \in Seq(Path) /\ 0 \in 0 .. 100
    BY EmptySeq
  <2> QED BY <2>1 DEF PcUi, PcStatus, Pc!IsInjective
<1>2. channel \in Seq(PcMessage) /\ DOMAIN channel = {}
  BY EmptySeq
<1> QED BY <1>1, <1>2 DEF PcInv, PcType, Named, OneThread, Pc!SendsTheQueue, Endings,
           Shown, Rising, Rises

\* A step of the user or of a frame in which no message is taken.
LEMMA QuietStep ==
    ASSUME PcInv, UNCHANGED <<thread, channel, result>>, sends' \in Nat,
           ui' \in PcUi, ui'.worker = ui.worker, ui'.progress = ui.progress,
           ui'.files = ui.files \/ (~ui.worker /\ Pc!IsInjective(ui'.files)),
           ui'.status \in {ui.status, "ready", "missing", "invalid"}
    PROVE  PcInv'
<1>1. PcType'
  BY DEF PcInv, PcType, Named
<1>2. Pc!SendsTheQueue'
  BY DEF PcInv, Pc!SendsTheQueue
<1>3. Shown'
  BY DEF PcInv, Shown
<1>4. OneThread' /\ Endings' /\ Rising'
  BY DEF PcInv, OneThread, Endings, Rising, Rises
<1> QED BY <1>1, <1>2, <1>3, <1>4 DEF PcInv

LEMMA RisesTail ==
    ASSUME NEW low, NEW s \in Seq(PcMessage), s # <<>>, Rises(low, s)
    PROVE  /\ Rises(low, Tail(s))
           /\ IsProgress(s[1]) => Rises(s[1].progress, Tail(s))
<1>1. /\ Len(s) \in Nat \ {0} /\ DOMAIN s = 1 .. Len(s)
      /\ DOMAIN Tail(s) = 1 .. Len(s) - 1
      /\ \A i \in 1 .. Len(s) - 1 : Tail(s)[i] = s[i + 1]
  BY HeadTailProperties, EmptySeq, LenProperties
<1>2. ASSUME NEW i \in DOMAIN Tail(s), IsProgress(Tail(s)[i])
      PROVE  /\ low <= Tail(s)[i].progress
             /\ IsProgress(s[1]) => s[1].progress <= Tail(s)[i].progress
  <2>1. 1 \in DOMAIN s /\ i + 1 \in DOMAIN s /\ Tail(s)[i] = s[i + 1] /\ 1 < i + 1
    BY <1>1
  <2> QED BY <1>2, <2>1 DEF Rises
<1>3. ASSUME NEW i \in DOMAIN Tail(s), NEW j \in DOMAIN Tail(s), i < j,
             IsProgress(Tail(s)[i]), IsProgress(Tail(s)[j])
      PROVE  Tail(s)[i].progress <= Tail(s)[j].progress
  <2>1. /\ i + 1 \in DOMAIN s /\ Tail(s)[i] = s[i + 1]
        /\ j + 1 \in DOMAIN s /\ Tail(s)[j] = s[j + 1] /\ i + 1 < j + 1
    BY <1>1, <1>3
  <2> QED BY <1>3, <2>1 DEF Rises
<1> QED BY <1>2, <1>3 DEF Rises

LEMMA RisesAppend ==
    ASSUME NEW low, NEW s \in Seq(PcMessage), Rises(low, s), NEW m \in PcMessage,
           IsProgress(m) => /\ low <= m.progress
                            /\ \A i \in DOMAIN s :
                                 IsProgress(s[i]) => s[i].progress <= m.progress
    PROVE  Rises(low, Append(s, m))
<1> DEFINE t == Append(s, m)
<1>1. /\ Len(s) \in Nat /\ DOMAIN s = 1 .. Len(s) /\ DOMAIN t = 1 .. Len(s) + 1
      /\ \A i \in 1 .. Len(s) : t[i] = s[i]
      /\ t[Len(s) + 1] = m
  BY AppendProperties, LenProperties
<1> HIDE DEF t
<1>2. \A i \in DOMAIN t : i \in DOMAIN s \/ i = Len(s) + 1
  BY <1>1
<1>3. ASSUME NEW i \in DOMAIN t, IsProgress(t[i])
      PROVE  low <= t[i].progress
  BY <1>1, <1>2, <1>3 DEF Rises
<1>4. ASSUME NEW i \in DOMAIN t, NEW j \in DOMAIN t, i < j,
             IsProgress(t[i]), IsProgress(t[j])
      PROVE  t[i].progress <= t[j].progress
  <2>1. i \in DOMAIN s
    BY <1>1, <1>4
  <2>2. CASE j \in DOMAIN s
    BY <1>1, <1>4, <2>1, <2>2 DEF Rises
  <2>3. CASE j = Len(s) + 1
    BY <1>1, <1>4, <2>1, <2>3
  <2> QED BY <1>2, <2>2, <2>3
<1> QED BY <1>3, <1>4 DEF Rises, t

\* The worker reports.
LEMMA ReportStep ==
    ASSUME PcInv, Pc!Report
    PROVE  PcInv'
<1>1. PICK t \in thread :
        /\ t.left # <<>>
        /\ channel' = Append(channel, Head(t.left))
        /\ thread' = (thread \ {t}) \cup {[t EXCEPT !.left = Tail(t.left)]}
        /\ UNCHANGED <<ui, polling, repaint, result, sends>>
  BY DEF Pc!Report
<1> DEFINE m == Head(t.left)
           u == [t EXCEPT !.left = Tail(t.left)]
<1>2. /\ t \in Worker /\ t.left \in Seq(PcMessage) /\ Named(t.left)
      /\ channel \in Seq(PcMessage)
  BY DEF PcInv, PcType, Worker
<1>3. /\ m \in PcMessage /\ m = t.left[1] /\ Len(t.left) \in Nat \ {0}
      /\ Tail(t.left) \in Seq(PcMessage) /\ Len(Tail(t.left)) = Len(t.left) - 1
      /\ \A i \in 1 .. Len(t.left) - 1 : Tail(t.left)[i] = t.left[i + 1]
      /\ DOMAIN t.left = 1 .. Len(t.left)
      /\ DOMAIN Tail(t.left) = 1 .. Len(t.left) - 1
  BY <1>1, <1>2, HeadTailProperties, EmptySeq, LenProperties
<1>4. /\ channel' \in Seq(PcMessage) /\ Len(channel) \in Nat
      /\ Len(channel') = Len(channel) + 1
      /\ \A i \in 1 .. Len(channel) : channel'[i] = channel[i]
      /\ channel'[Len(channel) + 1] = m
      /\ DOMAIN channel = 1 .. Len(channel)
      /\ DOMAIN channel' = 1 .. Len(channel) + 1
  BY <1>1, <1>2, <1>3, AppendProperties, LenProperties
<1>5. thread = {t} /\ thread' = {u}
  BY <1>1 DEF PcInv, OneThread
<1>6. u \in Worker /\ u.left = Tail(t.left) /\ u.files = t.files
  BY <1>2, <1>3 DEF Worker
<1> HIDE DEF m, u
<1>7. PcType'
  <2>1. Named(channel')
    BY <1>2, <1>3, <1>4 DEF PcInv, PcType, Named
  <2>2. Named(u.left)
    BY <1>2, <1>3, <1>6 DEF Named
  <2> QED BY <1>1, <1>4, <1>5, <1>6, <2>1, <2>2 DEF PcInv, PcType
<1>8. OneThread' /\ Pc!SendsTheQueue' /\ Shown'
  BY <1>1, <1>5, <1>6 DEF PcInv, OneThread, Pc!SendsTheQueue, Shown
<1>9. Endings'
  <2>1. \A i \in DOMAIN t.left : t.left[i].kind # "Done"
    BY <1>5 DEF PcInv, Endings
  <2>2. \A i \in DOMAIN channel : channel[i].kind # "Done"
    BY <1>5 DEF PcInv, Endings
  <2>3. \A i \in DOMAIN u.left : u.left[i].kind # "Done"
    BY <1>3, <1>6, <2>1
  <2>4. \A i \in DOMAIN channel' : channel'[i].kind # "Done"
    BY <1>3, <1>4, <2>1, <2>2
  <2> QED BY <1>5, <2>3, <2>4 DEF Endings
<1>10. Rising'
  <2>1. /\ Rises(ui.progress, channel) /\ Rises(ui.progress, t.left)
        /\ \A i \in DOMAIN channel : IsProgress(channel[i]) =>
             Rises(channel[i].progress, t.left)
    BY <1>5 DEF PcInv, Rising
  <2>2. Rises(ui.progress, channel')
    <3>1. 1 \in DOMAIN t.left
      BY <1>3
    <3>2. IsProgress(m) => /\ ui.progress <= m.progress
                           /\ \A i \in DOMAIN channel :
                                IsProgress(channel[i]) => channel[i].progress <= m.progress
      BY <1>3, <2>1, <3>1 DEF Rises
    <3> QED BY <1>1, <1>2, <1>3, <2>1, <3>2, RisesAppend DEF m
  <2>3. Rises(ui.progress, u.left)
    BY <1>1, <1>2, <1>6, <2>1, RisesTail
  <2>4. ASSUME NEW i \in DOMAIN channel', IsProgress(channel'[i])
        PROVE  Rises(channel'[i].progress, u.left)
    <3>1. CASE i \in DOMAIN channel
      <4>1. channel'[i] = channel[i]
        BY <1>4, <3>1
      <4> QED BY <1>1, <1>2, <1>6, <2>1, <2>4, <3>1, <4>1, RisesTail
    <3>2. CASE i = Len(channel) + 1
      <4>1. channel'[i] = t.left[1]
        BY <1>3, <1>4, <3>2
      <4> QED BY <1>1, <1>2, <1>6, <2>1, <2>4, <4>1, RisesTail
    <3> QED BY <1>4, <3>1, <3>2
  <2> QED BY <1>1, <1>5, <2>2, <2>3, <2>4 DEF Rising
<1> QED BY <1>7, <1>8, <1>9, <1>10 DEF PcInv

\* The worker ends.
LEMMA ReturnStep ==
    ASSUME PcInv, Pc!Return
    PROVE  PcInv'
<1>1. PICK t \in thread :
        /\ result' = IF t.left = <<>> THEN "complete" ELSE "failed"
        /\ channel' = Append(channel, Pc!Done(result'))
        /\ thread' = thread \ {t}
        /\ UNCHANGED <<ui, polling, repaint, sends>>
  BY DEF Pc!Return
<1> DEFINE m == Pc!Done(result')
<1>2. m \in PcMessage /\ m.kind = "Done" /\ m.of = result'
  BY <1>1, DoneIsMessage
<1>3. /\ channel' \in Seq(PcMessage) /\ Len(channel) \in Nat
      /\ Len(channel') = Len(channel) + 1
      /\ \A i \in 1 .. Len(channel) : channel'[i] = channel[i]
      /\ channel'[Len(channel) + 1] = m
      /\ DOMAIN channel = 1 .. Len(channel)
      /\ DOMAIN channel' = 1 .. Len(channel) + 1
  BY <1>1, <1>2, AppendProperties, LenProperties DEF PcInv, PcType
<1>4. thread' = {} /\ ui.worker /\ UNCHANGED ui
  BY <1>1 DEF PcInv, OneThread, Pc!SendsTheQueue
<1> HIDE DEF m
<1>5. PcType'
  BY <1>1, <1>2, <1>3, <1>4 DEF PcInv, PcType, Named
<1>6. OneThread' /\ Pc!SendsTheQueue' /\ Shown'
  BY <1>4 DEF PcInv, OneThread, Pc!SendsTheQueue, Shown
<1>7. \A i \in DOMAIN channel : channel[i].kind # "Done"
  BY <1>1 DEF PcInv, Endings
<1>8. Endings'
  BY <1>2, <1>3, <1>4, <1>7 DEF Endings
<1>9. Rising'
  <2>1. Rises(ui.progress, channel')
    BY <1>2, <1>3 DEF PcInv, Rising, Rises, IsProgress
  <2> QED BY <1>4, <2>1 DEF Rising
<1> QED BY <1>5, <1>6, <1>8, <1>9 DEF PcInv

\* A frame takes a message.  The bar does not go back.
LEMMA PollStep ==
    ASSUME PcInv, Pc!Poll
    PROVE  PcInv' /\ ui'.progress >= ui.progress
<1> DEFINE m == Head(channel)
<1>1. /\ channel # <<>> /\ ui' = Pc!Handled(ui, m) /\ channel' = Tail(channel)
      /\ UNCHANGED <<thread, polling, repaint, result, sends>>
  BY DEF Pc!Poll
<1>2. /\ m \in PcMessage /\ m = channel[1] /\ Len(channel) \in Nat \ {0}
      /\ channel' \in Seq(PcMessage) /\ Len(channel') = Len(channel) - 1
      /\ \A i \in 1 .. Len(channel) - 1 : channel'[i] = channel[i + 1]
      /\ DOMAIN channel = 1 .. Len(channel)
      /\ DOMAIN channel' = 1 .. Len(channel) - 1
  BY <1>1, HeadTailProperties, EmptySeq, LenProperties DEF PcInv, PcType
<1>3. ui \in PcUi /\ ui.worker /\ ui.status # "complete"
  BY <1>1 DEF PcInv, PcType, Pc!SendsTheQueue, Shown
<1> HIDE DEF m
<1>4. m.kind = "Done" => channel' = <<>> /\ thread = {} /\ m.of = result
  BY <1>2, EmptySeq DEF PcInv, Endings
<1>5. /\ ui' \in PcUi /\ ui'.files = ui.files
      /\ ui'.worker <=> ~(m.kind = "Done" /\ m.of \in {"complete", "failed"})
      /\ ui'.status = "complete" <=> m.kind = "Done" /\ m.of = "complete"
      /\ ui'.progress = IF IsProgress(m) THEN m.progress
                        ELSE IF m.kind = "Done" /\ m.of = "complete" THEN 100
                        ELSE ui.progress
  <2>1. CASE m.kind = "FileStarted"
    <3>1. m.of \in Path
      BY <1>2, <2>1 DEF PcInv, PcType, Named
    <3> QED BY <1>1, <1>3, <2>1, <3>1 DEF Pc!Handled, PcUi, PcStatus, IsProgress
  <2>2. CASE m.kind = "Progress"
    <3>1. m.progress \in 0 .. 100
      BY <1>2 DEF PcMessage
    <3> QED BY <1>1, <1>3, <2>2, <3>1 DEF Pc!Handled, PcUi, PcStatus, IsProgress
  <2>3. CASE m.kind = "Done" /\ m.of = "complete"
    <3>1. 100 \in 0 .. 100
      OBVIOUS
    <3>2. ui' = [ui EXCEPT !.worker = FALSE, !.status = "complete", !.progress = 100]
      BY <1>1, <2>3 DEF Pc!Handled
    <3> QED BY <1>3, <2>3, <3>1, <3>2 DEF PcUi, PcStatus, IsProgress
  <2>4. CASE m.kind = "Done" /\ m.of = "failed"
    BY <1>1, <1>3, <2>4 DEF Pc!Handled, PcUi, PcStatus, IsProgress
  <2>5. CASE /\ m.kind \notin {"FileStarted", "Progress"}
             /\ ~(m.kind = "Done" /\ m.of \in {"complete", "failed"})
    BY <1>1, <1>3, <2>5 DEF Pc!Handled, PcUi, PcStatus, IsProgress
  <2> QED BY <2>1, <2>2, <2>3, <2>4, <2>5
<1>6. ui.progress \in 0 .. 100 /\ ui'.progress \in 0 .. 100
  BY <1>3, <1>5 DEF PcUi
<1>7. ui'.progress >= ui.progress
  <2>1. 1 \in DOMAIN channel
    BY <1>2
  <2>2. IsProgress(m) => ui.progress <= m.progress
    BY <1>2, <2>1 DEF PcInv, Rising, Rises
  <2> QED BY <1>5, <1>6, <2>2
<1>8. PcType'
  BY <1>1, <1>2, <1>5 DEF PcInv, PcType, Named
<1>9. OneThread' /\ Pc!SendsTheQueue'
  BY <1>1, <1>4, <1>5 DEF PcInv, OneThread, Pc!SendsTheQueue
<1>10. Endings'
  BY <1>1, <1>2 DEF PcInv, Endings
<1>11. Shown'
  BY <1>1, <1>4, <1>5 DEF Shown
<1>12. Rising'
  <2>1. CASE m.kind = "Done"
    BY <1>1, <1>4, <2>1 DEF Rising, Rises
  <2>2. CASE IsProgress(m)
    <3>1. ui'.progress = channel[1].progress /\ IsProgress(channel[1])
      BY <1>2, <1>5, <2>2
    <3> QED BY <1>1, <1>2, <3>1 DEF PcInv, Rising, Rises
  <2>3. CASE m.kind # "Done" /\ ~IsProgress(m)
    <3>1. ui'.progress = ui.progress
      BY <1>5, <2>3
    <3> QED BY <1>1, <1>2, <3>1 DEF PcInv, Rising, Rises
  <2> QED BY <2>1, <2>2, <2>3
<1> QED BY <1>7, <1>8, <1>9, <1>10, <1>11, <1>12 DEF PcInv

\* A path that is added is new.
LEMMA TriedFits ==
    ASSUME NEW v \in PcUi, Pc!IsInjective(v.files), NEW p \in Path,
           NEW u \in Pc!Tried(v, p)
    PROVE  /\ u \in PcUi /\ Pc!IsInjective(u.files)
           /\ u.worker = v.worker /\ u.progress = v.progress
           /\ u.status \in {v.status, "ready", "missing"}
<1>1. CASE u = [v EXCEPT !.status = "missing"]
  BY <1>1 DEF PcUi, PcStatus
<1>2. CASE u = v
  BY <1>2
<1>3. CASE p \notin Pc!Range(v.files)
           /\ u = [v EXCEPT !.files = Append(@, p), !.status = "ready"]
  <2>1. v.files \in Seq(Path)
    BY DEF PcUi
  <2>2. /\ Append(v.files, p) \in Seq(Path) /\ Len(v.files) \in Nat
        /\ DOMAIN v.files = 1 .. Len(v.files)
        /\ DOMAIN Append(v.files, p) = 1 .. Len(v.files) + 1
        /\ \A i \in 1 .. Len(v.files) : Append(v.files, p)[i] = v.files[i]
        /\ Append(v.files, p)[Len(v.files) + 1] = p
    BY <2>1, AppendProperties, LenProperties
  <2>3. \A i \in 1 .. Len(v.files) : v.files[i] # p
    BY <1>3, <2>2 DEF Pc!Range
  <2>4. Pc!IsInjective(Append(v.files, p))
    BY <2>2, <2>3 DEF Pc!IsInjective
  <2> QED BY <1>3, <2>2, <2>4 DEF PcUi, PcStatus
<1> QED BY <1>1, <1>2, <1>3 DEF Pc!Tried, Pc!Added

\* A path that is removed leaves no other one twice.
LEMMA RemovedFits ==
    ASSUME NEW s \in Seq(Path), Pc!IsInjective(s), NEW k \in DOMAIN s
    PROVE  Pc!RemoveAt(s, k) \in Seq(Path) /\ Pc!IsInjective(Pc!RemoveAt(s, k))
<1> DEFINE a == SubSeq(s, 1, k - 1)
           b == SubSeq(s, k + 1, Len(s))
<1>1. Len(s) \in Nat /\ DOMAIN s = 1 .. Len(s) /\ k \in 1 .. Len(s)
  BY LenProperties
<1>2. /\ a \in Seq(Path) /\ Len(a) = k - 1
      /\ \A i \in 1 .. k - 1 : a[i] = s[i]
  BY <1>1, SubSeqProperties
<1>3. /\ b \in Seq(Path) /\ Len(b) = Len(s) - k
      /\ \A i \in 1 .. Len(s) - k : b[i] = s[k + i]
  BY <1>1, SubSeqProperties
<1> HIDE DEF a, b
<1>4. /\ a \o b \in Seq(Path) /\ DOMAIN (a \o b) = 1 .. Len(s) - 1
      /\ \A i \in 1 .. Len(s) - 1 : (a \o b)[i] = IF i <= k - 1 THEN s[i] ELSE s[i + 1]
  <2>1. /\ a \o b \in Seq(Path) /\ Len(a \o b) = Len(s) - 1
        /\ \A i \in 1 .. Len(s) - 1 :
             (a \o b)[i] = IF i <= k - 1 THEN a[i] ELSE b[i - (k - 1)]
    <3>1. Len(a) + Len(b) = Len(s) - 1
      BY <1>1, <1>2, <1>3
    <3>2. /\ a \o b \in Seq(Path) /\ Len(a \o b) = Len(a) + Len(b)
          /\ \A i \in 1 .. Len(a) + Len(b) :
               (a \o b)[i] = IF i <= Len(a) THEN a[i] ELSE b[i - Len(a)]
      BY <1>2, <1>3, ConcatProperties
    <3> QED BY <1>2, <3>1, <3>2
  <2>2. DOMAIN (a \o b) = 1 .. Len(s) - 1
    BY <2>1, LenProperties
  <2>3. ASSUME NEW i \in 1 .. Len(s) - 1
        PROVE  (a \o b)[i] = IF i <= k - 1 THEN s[i] ELSE s[i + 1]
    <3>1. CASE i <= k - 1
      BY <1>1, <1>2, <2>1, <3>1
    <3>2. CASE i > k - 1
      <4>1. i - (k - 1) \in 1 .. Len(s) - k /\ k + (i - (k - 1)) = i + 1
        BY <1>1, <3>2
      <4> QED BY <1>1, <1>3, <2>1, <3>2, <4>1
    <3>3. i <= k - 1 \/ i > k - 1
      BY <1>1
    <3>4. i > k - 1 => ~(i <= k - 1)
      BY <1>1
    <3> QED BY <3>1, <3>2, <3>3, <3>4
  <2> QED BY <2>1, <2>2, <2>3
<1>5. ASSUME NEW i \in 1 .. Len(s) - 1
      PROVE  \E x \in DOMAIN s :
               (a \o b)[i] = s[x] /\ x = IF i <= k - 1 THEN i ELSE i + 1
  <2> DEFINE x == IF i <= k - 1 THEN i ELSE i + 1
  <2>1. x \in DOMAIN s
    BY <1>1
  <2>2. (a \o b)[i] = IF i <= k - 1 THEN s[i] ELSE s[i + 1]
    BY <1>4
  <2>3. (a \o b)[i] = s[x]
    BY <2>2
  <2> QED BY <2>1, <2>3
<1>6. Pc!IsInjective(a \o b)
  <2> SUFFICES ASSUME NEW i \in 1 .. Len(s) - 1, NEW j \in 1 .. Len(s) - 1,
                      (a \o b)[i] = (a \o b)[j]
               PROVE  i = j
    BY <1>4 DEF Pc!IsInjective
  <2>1. PICK x \in DOMAIN s : (a \o b)[i] = s[x] /\ x = IF i <= k - 1 THEN i ELSE i + 1
    BY <1>5
  <2>2. PICK y \in DOMAIN s : (a \o b)[j] = s[y] /\ y = IF j <= k - 1 THEN j ELSE j + 1
    BY <1>5
  <2>3. x = y
    BY <2>1, <2>2 DEF Pc!IsInjective
  <2> QED BY <1>1, <2>1, <2>2, <2>3
<1> QED BY <1>4, <1>6 DEF Pc!RemoveAt, a, b

\* A click on Send, by which the window and a worker begin with the same queue.
LEMMA SendStep ==
    ASSUME PcInv, Pc!Send
    PROVE  PcInv' /\ sends' # sends
<1>1. /\ ~ui.worker /\ UNCHANGED <<channel, result>> /\ sends' = sends + 1
      /\ sends \in Nat /\ ui \in PcUi /\ ui.files \in Seq(Path)
  BY DEF Pc!Send, Pc!Input, PcInv, PcType, PcUi
<1>2. thread = {} /\ channel = <<>>
  BY <1>1 DEF PcInv, Pc!SendsTheQueue
<1>3. CASE ui.host = "wrong"
  <2>1. ui' = [ui EXCEPT !.status = "invalid"] /\ UNCHANGED thread
    BY <1>3 DEF Pc!Send, Pc!Input
  <2>2. /\ ui' \in PcUi /\ ui'.files = ui.files /\ ui'.worker = ui.worker
        /\ ui'.progress = ui.progress /\ ui'.status = "invalid"
    BY <1>1, <2>1 DEF PcUi, PcStatus
  <2> QED BY <1>1, <2>1, <2>2, QuietStep
<1>4. CASE ui.host # "wrong"
  <2> DEFINE t == [id |-> sends, files |-> ui.files, left |-> Pc!Reports(ui.files)]
  <2>1. /\ ui' = [ui EXCEPT !.status = "preparing", !.progress = 0, !.worker = TRUE]
        /\ thread' = {t}
    BY <1>2, <1>4 DEF Pc!Send, Pc!Input
  <2>2. /\ Pc!Reports(ui.files) \in Seq(PcMessage) /\ Named(Pc!Reports(ui.files))
        /\ Rises(0, Pc!Reports(ui.files))
        /\ \A i \in DOMAIN Pc!Reports(ui.files) : Pc!Reports(ui.files)[i].kind # "Done"
    BY <1>1, ReportsFit DEF Fit
  <2>3. /\ t \in Worker /\ t.files = ui.files /\ t.left \in Seq(PcMessage)
        /\ Named(t.left) /\ Rises(0, t.left)
        /\ \A i \in DOMAIN t.left : t.left[i].kind # "Done"
    BY <1>1, <2>2 DEF Worker
  <2> HIDE DEF t
  <2>4. /\ ui' \in PcUi /\ ui'.files = ui.files /\ ui'.worker /\ ui'.progress = 0
        /\ ui'.status = "preparing"
    <3>1. 0 \in 0 .. 100
      OBVIOUS
    <3> QED BY <1>1, <2>1, <3>1 DEF PcUi, PcStatus
  <2>5. channel' = <<>> /\ DOMAIN channel' = {}
    BY <1>1, <1>2
  <2>6. PcType'
    BY <1>1, <2>1, <2>3, <2>4, <2>5 DEF PcInv, PcType, Named
  <2>7. OneThread' /\ Pc!SendsTheQueue' /\ Shown'
    BY <2>1, <2>3, <2>4, <2>5 DEF OneThread, Pc!SendsTheQueue, Shown
  <2>8. Endings' /\ Rising'
    BY <2>1, <2>3, <2>4, <2>5 DEF Endings, Rising, Rises
  <2> QED BY <1>1, <2>6, <2>7, <2>8 DEF PcInv
<1> QED BY <1>3, <1>4

\* Every step keeps the invariant, and the bar goes back only for a new
\* transfer.
LEMMA PcStep ==
    ASSUME PcInv, [Pc!Next]_(Pc!vars)
    PROVE  PcInv' /\ (sends' = sends => ui'.progress >= ui.progress)
<1>1. /\ ui \in PcUi /\ Pc!IsInjective(ui.files) /\ ui.files \in Seq(Path)
      /\ ui.progress \in 0 .. 100 /\ sends \in Nat
  BY DEF PcInv, PcType, PcUi
<1>2. ui.progress >= ui.progress
  <2>1. \A x \in 0 .. 100 : x >= x
    OBVIOUS
  <2> QED BY <1>1, <2>1
<1>3. CASE UNCHANGED Pc!vars
  BY <1>1, <1>2, <1>3, QuietStep DEF Pc!vars
<1>4. CASE Pc!Report
  BY <1>2, <1>4, ReportStep DEF Pc!Report
<1>5. CASE Pc!Return
  BY <1>2, <1>5, ReturnStep DEF Pc!Return
<1>6. CASE Pc!Repaint \/ Pc!Wake
  BY <1>1, <1>2, <1>6, QuietStep DEF Pc!Repaint, Pc!Wake, Pc!Begin
<1>7. CASE Pc!Poll
  BY <1>7, PollStep
<1>8. CASE Pc!Polled
  BY <1>1, <1>2, <1>8, QuietStep DEF Pc!Polled
<1>9. CASE Pc!Drop
  <2>1. PICK p \in Path :
          /\ ui' \in IF ~ui.worker THEN Pc!Tried(ui, p) ELSE {ui}
          /\ UNCHANGED <<thread, channel, result, sends>>
    BY <1>9 DEF Pc!Drop, Pc!TakesDrops, Pc!Begin
  <2>2. CASE ui.worker
    BY <1>1, <1>2, <2>1, <2>2, QuietStep
  <2>3. CASE ~ui.worker
    <3>1. ui' \in Pc!Tried(ui, p)
      BY <2>1, <2>3
    <3> QED BY <1>1, <1>2, <2>1, <2>3, <3>1, TriedFits, QuietStep
  <2> QED BY <2>2, <2>3
<1>10. CASE Pc!TypeHost
  <2>1. PICK host \in {"empty", "wrong", "deck"} :
          /\ ui' = [ui EXCEPT !.host = host] /\ ~ui.worker
          /\ UNCHANGED <<thread, channel, result, sends>>
    BY <1>10 DEF Pc!TypeHost, Pc!Input
  <2> QED BY <1>1, <1>2, <2>1, QuietStep DEF PcUi
<1>11. CASE Pc!TypePath
  <2>1. PICK p \in Path :
          /\ ui' = [ui EXCEPT !.typed = p] /\ ~ui.worker
          /\ UNCHANGED <<thread, channel, result, sends>>
    BY <1>11 DEF Pc!TypePath, Pc!Input
  <2> QED BY <1>1, <1>2, <2>1, QuietStep DEF PcUi
<1>12. CASE Pc!AddTypedPath
  <2>1. PICK u \in Pc!Tried(ui, ui.typed) :
          /\ ui' = [u EXCEPT !.typed = Pc!None] /\ ~ui.worker
          /\ UNCHANGED <<thread, channel, result, sends>>
    BY <1>12 DEF Pc!AddTypedPath, Pc!Input
  <2>2. ui.typed \in Path
    BY <1>1, <1>12 DEF Pc!AddTypedPath, PcUi
  <2>3. /\ u \in PcUi /\ Pc!IsInjective(u.files)
        /\ u.worker = ui.worker /\ u.progress = ui.progress
        /\ u.status \in {ui.status, "ready", "missing"}
    BY <1>1, <2>2, TriedFits
  <2>4. /\ ui' \in PcUi /\ ui'.files = u.files /\ ui'.worker = u.worker
        /\ ui'.progress = u.progress /\ ui'.status = u.status
    BY <2>1, <2>3 DEF PcUi
  <2> QED BY <1>1, <1>2, <2>1, <2>3, <2>4, QuietStep
<1>13. CASE Pc!Clear
  <2>1. /\ ui' = [ui EXCEPT !.files = <<>>] /\ ~ui.worker
        /\ UNCHANGED <<thread, channel, result, sends>>
    BY <1>13 DEF Pc!Clear, Pc!Input
  <2>2. <<>> \in Seq(Path) /\ Pc!IsInjective(<<>>)
    BY EmptySeq DEF Pc!IsInjective
  <2>3. /\ ui' \in PcUi /\ ui'.files = <<>> /\ ui'.worker = ui.worker
        /\ ui'.progress = ui.progress /\ ui'.status = ui.status
    BY <1>1, <2>1, <2>2 DEF PcUi
  <2> QED BY <1>1, <1>2, <2>1, <2>2, <2>3, QuietStep
<1>14. CASE Pc!RemovePath
  <2>1. PICK k \in DOMAIN ui.files :
          /\ ui' = [ui EXCEPT !.files = Pc!RemoveAt(@, k)] /\ ~ui.worker
          /\ UNCHANGED <<thread, channel, result, sends>>
    BY <1>14 DEF Pc!RemovePath, Pc!Input
  <2> DEFINE rest == Pc!RemoveAt(ui.files, k)
  <2>2. rest \in Seq(Path) /\ Pc!IsInjective(rest)
    BY <1>1, RemovedFits
  <2> HIDE DEF rest
  <2>3. ui' = [ui EXCEPT !.files = rest]
    BY <2>1 DEF rest
  <2>4. /\ ui' \in PcUi /\ ui'.files = rest /\ ui'.worker = ui.worker
        /\ ui'.progress = ui.progress /\ ui'.status = ui.status
    BY <1>1, <2>2, <2>3 DEF PcUi
  <2> QED BY <1>1, <1>2, <2>1, <2>2, <2>4, QuietStep
<1>15. CASE Pc!Send
  BY <1>15, SendStep
<1> QED BY <1>3, <1>4, <1>5, <1>6, <1>7, <1>8, <1>9, <1>10, <1>11, <1>12, <1>13,
           <1>14, <1>15 DEF Pc!Next, Pc!Work, Pc!Draw

LEMMA PcInvIsEnough == PcInv => Pc!TypeOK /\ Pc!SendsTheQueue /\ Pc!CompleteIsTrue
<1> SUFFICES ASSUME PcInv
             PROVE  Pc!TypeOK /\ Pc!SendsTheQueue /\ Pc!CompleteIsTrue
  OBVIOUS
<1>1. Cardinality(thread) <= 1
  <2>1. CASE thread = {}
    BY <2>1, FS_EmptySet
  <2>2. CASE thread # {}
    <3>1. PICK t \in thread : thread = {t}
      BY <2>2 DEF PcInv, OneThread
    <3> QED BY <3>1, FS_Singleton
  <2> QED BY <2>1, <2>2
<1>2. Pc!Range(ui.files) \subseteq Path
  BY LenProperties, ElementOfSeq DEF PcInv, PcType, PcUi, Pc!Range
<1>3. Pc!TypeOK
  BY <1>1, <1>2 DEF PcInv, PcType, PcUi, Pc!TypeOK, Pc!Cardinality, Cardinality
<1>4. Pc!CompleteIsTrue
  BY DEF PcInv, Shown, Pc!SendsTheQueue, Pc!CompleteIsTrue
<1> QED BY <1>3, <1>4 DEF PcInv

-----------------------------------------------------------------------------
(* The Deck's window. *)

DeckKind ==
    {"Listening", "Connected", "TransferOffered", "FileStarted", "Progress",
     "FileCompleted", "Complete", "Failed", "Done"}

DeckMessage == [kind : DeckKind, progress : 0 .. 100]

DeckUi ==
    [address : {"right", "wrong"}, output : {"set", "empty"},
     status : DeckKind \cup {"choose", "Invalid", "Starting"},
     progress : 0 .. 100, worker : BOOLEAN]

DeckType ==
    /\ ui \in DeckUi
    /\ channel \in Seq(DeckMessage) /\ left \in Seq(DeckMessage)
    /\ at \in {"off", "start", "accept", "serve"}
    /\ left # <<>> <=> at = "serve"
    /\ outcome \in {"none", "Complete", "Failed"}

Outcomes == {"Complete", "Failed"}

\* receive_stream reports its success last, and no failure.
Ahead ==
    \A i \in DOMAIN left :
        /\ left[i].kind \notin {"Done", "Failed"}
        /\ left[i].kind = "Complete" => i = Len(left)

\* The end of the worker is its last message.
LastWord == \A i \in DOMAIN channel : channel[i].kind = "Done" => i = Len(channel) /\ at = "off"

\* A later message of the channel gives the window another status.
Replaced(i) ==
    \E j \in DOMAIN channel : i < j /\ channel[j].kind \notin Outcomes \cup {"FileStarted"}

\* The last thing said between two connections is how the first one ended, and
\* during a connection the window shows, or is about to show, something of it.
Current ==
    /\ at = "start" => outcome = "none"
    /\ at = "accept" /\ outcome # "none" =>
         IF channel = <<>> THEN ui.status = outcome
         ELSE channel[Len(channel)].kind = outcome
    /\ at = "serve" =>
         /\ ui.status \in Outcomes => Replaced(0)
         /\ \A i \in DOMAIN channel : channel[i].kind \in Outcomes => Replaced(i)

DeckInv == DeckType /\ Deck!OneReceiver /\ Ahead /\ LastWord /\ Current

-----------------------------------------------------------------------------
(* What the Deck's worker reports. *)

LEMMA DeckEventIsMessage ==
    ASSUME NEW kind \in DeckKind
    PROVE  /\ Deck!Event(kind) \in DeckMessage
           /\ Deck!Event(kind).kind = kind
<1>1. Deck!Event(kind) = [kind |-> kind, progress |-> 0]
  BY DEF Deck!Event
<1>2. 0 \in 0 .. 100
  OBVIOUS
<1> QED BY <1>1, <1>2 DEF DeckMessage

LEMMA DeckProgressIsMessage ==
    ASSUME NEW n \in Nat \ {0}, NEW a \in 0 .. n
    PROVE  /\ Deck!Progress(a, n) \in DeckMessage
           /\ Deck!Progress(a, n).kind = "Progress"
<1>1. Share(a, n) \in 0 .. 100
  BY ShareOfAll
<1>2. Deck!Progress(a, n) = [kind |-> "Progress", progress |-> Share(a, n)]
  BY DEF Deck!Progress, Deck!Event, Share
<1> QED BY <1>1, <1>2 DEF DeckMessage, DeckKind

LEMMA DeckFileReportsAre ==
    ASSUME NEW n \in Nat, NEW k \in 1 .. n, NEW e \in 1 .. 4,
           NEW m, m = Deck!FileReports(k, n)[e]
    PROVE  /\ m \in DeckMessage
           /\ m.kind \in {"FileStarted", "Progress", "FileCompleted"}
<1>1. 2 * n \in Nat \ {0} /\ 2 * k - 1 \in 0 .. 2 * n /\ 2 * k \in 0 .. 2 * n
  OBVIOUS
<1>2. CASE e = 1
  BY <1>2, DeckEventIsMessage DEF Deck!FileReports, DeckKind
<1>3. CASE e = 2
  <2>1. m = Deck!Progress(2 * k - 1, 2 * n)
    BY <1>3 DEF Deck!FileReports
  <2> QED BY <1>1, <2>1, DeckProgressIsMessage
<1>4. CASE e = 3
  <2>1. m = Deck!Progress(2 * k, 2 * n)
    BY <1>4 DEF Deck!FileReports
  <2> QED BY <1>1, <2>1, DeckProgressIsMessage
<1>5. CASE e = 4
  BY <1>5, DeckEventIsMessage DEF Deck!FileReports, DeckKind
<1> QED BY <1>2, <1>3, <1>4, <1>5

\* The reports of a connection end with its success, and have no other.
LEMMA DeckReportsAre ==
    ASSUME NEW n \in Nat, NEW r, r = Deck!Reports(n)
    PROVE  /\ r \in Seq(DeckMessage) /\ r # <<>>
           /\ \A i \in DOMAIN r : /\ r[i].kind \notin {"Done", "Failed"}
                                  /\ r[i].kind = "Complete" => i = Len(r)
<1> DEFINE a == <<Deck!Event("TransferOffered")>>
           At(i) == (i + 3) \div 4
           Nth(i) == 1 + ((i + 3) % 4)
           b == [i \in 1 .. 4 * n |-> Deck!FileReports(At(i), n)[Nth(i)]]
           c == <<Deck!Event("Complete")>>
<1>1. r = a \o b \o c
  BY DEF Deck!Reports
<1>2. a \in Seq(DeckMessage) /\ Len(a) = 1 /\ a[1].kind = "TransferOffered"
  BY DeckEventIsMessage DEF DeckKind
<1>3. c \in Seq(DeckMessage) /\ Len(c) = 1 /\ c[1].kind = "Complete"
  BY DeckEventIsMessage DEF DeckKind
<1>4. ASSUME NEW i \in 1 .. 4 * n
      PROVE  /\ b[i] \in DeckMessage
             /\ b[i].kind \in {"FileStarted", "Progress", "FileCompleted"}
  <2>1. At(i) \in 1 .. n /\ Nth(i) \in 1 .. 4
    OBVIOUS
  <2>2. b[i] = Deck!FileReports(At(i), n)[Nth(i)]
    OBVIOUS
  <2> HIDE DEF b, At, Nth
  <2> QED BY <2>1, <2>2, DeckFileReportsAre
<1>5. b \in Seq(DeckMessage) /\ Len(b) = 4 * n
  <2>1. b \in [1 .. 4 * n -> DeckMessage] /\ 4 * n \in Nat
    BY <1>4
  <2> HIDE DEF b
  <2> QED BY <2>1
<1> HIDE DEF a, b, c
<1>6. /\ a \o b \in Seq(DeckMessage) /\ Len(a \o b) = 4 * n + 1
      /\ \A i \in 1 .. 4 * n + 1 :
           (a \o b)[i].kind \in {"TransferOffered", "FileStarted", "Progress", "FileCompleted"}
  <2>0. /\ a \o b \in Seq(DeckMessage) /\ Len(a \o b) = Len(a) + Len(b)
        /\ \A i \in 1 .. Len(a) + Len(b) :
             (a \o b)[i] = IF i <= Len(a) THEN a[i] ELSE b[i - Len(a)]
    BY <1>2, <1>5, ConcatProperties
  <2>1. /\ a \o b \in Seq(DeckMessage) /\ Len(a \o b) = 1 + 4 * n
        /\ \A i \in 1 .. 1 + 4 * n : (a \o b)[i] = IF i <= 1 THEN a[i] ELSE b[i - 1]
    BY <1>2, <1>5, <2>0
  <2>2. ASSUME NEW i \in 1 .. 4 * n + 1
        PROVE  (a \o b)[i].kind
                 \in {"TransferOffered", "FileStarted", "Progress", "FileCompleted"}
    <3>1. CASE i = 1
      BY <1>2, <2>1, <3>1
    <3>2. CASE i # 1
      <4>1. i - 1 \in 1 .. 4 * n /\ (a \o b)[i] = b[i - 1]
        BY <2>1, <3>2
      <4> QED BY <1>4, <4>1
    <3> QED BY <3>1, <3>2
  <2> QED BY <2>1, <2>2
<1>7. /\ r \in Seq(DeckMessage) /\ Len(r) = 4 * n + 2 /\ DOMAIN r = 1 .. 4 * n + 2
      /\ \A i \in 1 .. 4 * n + 1 : r[i] = (a \o b)[i]
      /\ r[4 * n + 2] = c[1]
  <2> DEFINE ab == a \o b
  <2>1. ab \in Seq(DeckMessage) /\ Len(ab) = 4 * n + 1 /\ r = ab \o c
    BY <1>1, <1>6
  <2> HIDE DEF ab
  <2>2. /\ r \in Seq(DeckMessage) /\ Len(r) = Len(ab) + Len(c)
        /\ \A i \in 1 .. Len(ab) + Len(c) :
             r[i] = IF i <= Len(ab) THEN ab[i] ELSE c[i - Len(ab)]
    <3>1. ab \in Seq(DeckMessage) /\ c \in Seq(DeckMessage)
      BY <1>3, <2>1
    <3>2. /\ ab \o c \in Seq(DeckMessage) /\ Len(ab \o c) = Len(ab) + Len(c)
          /\ \A i \in 1 .. Len(ab) + Len(c) :
               (ab \o c)[i] = IF i <= Len(ab) THEN ab[i] ELSE c[i - Len(ab)]
      BY <3>1, ConcatProperties
    <3> QED BY <2>1, <3>2
  <2>3. Len(ab) + Len(c) = 4 * n + 2
    BY <1>3, <2>1
  <2>4. Len(r) = 4 * n + 2 /\ DOMAIN r = 1 .. 4 * n + 2
    BY <2>2, <2>3, LenProperties
  <2>5. \A i \in 1 .. 4 * n + 1 : r[i] = ab[i]
    BY <2>1, <2>2, <2>3
  <2>6. r[4 * n + 2] = c[1]
    <3>1. 4 * n + 2 \in 1 .. 4 * n + 2 /\ ~(4 * n + 2 <= 4 * n + 1)
          /\ (4 * n + 2) - (4 * n + 1) = 1
      OBVIOUS
    <3> QED BY <2>1, <2>2, <2>3, <3>1
  <2> QED BY <2>2, <2>4, <2>5, <2>6 DEF ab
<1>8. r # <<>>
  BY <1>7, EmptySeq
<1>9. ASSUME NEW i \in DOMAIN r
      PROVE  /\ r[i].kind \notin {"Done", "Failed"}
             /\ r[i].kind = "Complete" => i = Len(r)
  <2>1. CASE i \in 1 .. 4 * n + 1
    <3>1. r[i].kind \in {"TransferOffered", "FileStarted", "Progress", "FileCompleted"}
      BY <1>6, <1>7, <2>1
    <3> QED BY <3>1
  <2>2. CASE i = 4 * n + 2
    BY <1>3, <1>7, <2>2
  <2> QED BY <1>7, <2>1, <2>2
<1> QED BY <1>7, <1>8, <1>9

-----------------------------------------------------------------------------
(* The steps of the Deck. *)

LEMMA DeckStart == Deck!Init => DeckInv
<1> SUFFICES ASSUME Deck!Init
             PROVE  DeckInv
  OBVIOUS
<1> USE DEF Deck!Init
<1>1. ui \in DeckUi
  <2>1. 0 \in 0 .. 100
    OBVIOUS
  <2> QED BY <2>1 DEF DeckUi
<1>2. /\ channel \in Seq(DeckMessage) /\ left \in Seq(DeckMessage)
      /\ DOMAIN channel = {} /\ DOMAIN left = {}
  BY EmptySeq
<1> QED BY <1>1, <1>2 DEF DeckInv, DeckType, Deck!OneReceiver, Ahead, LastWord, Current

\* A step of the user, or of a frame in which no message is taken.
LEMMA DeckQuietStep ==
    ASSUME DeckInv, UNCHANGED <<at, left, channel, outcome>>, ui' \in DeckUi,
           ui'.worker = ui.worker, ui' = ui \/ ~ui.worker
    PROVE  DeckInv'
<1>1. DeckType' /\ Deck!OneReceiver' /\ Ahead' /\ LastWord'
  BY DEF DeckInv, DeckType, Deck!OneReceiver, Ahead, LastWord
<1>2. Current'
  BY DEF DeckInv, Deck!OneReceiver, Current, Replaced
<1> QED BY <1>1, <1>2 DEF DeckInv

\* The thread says m and goes to place.
LEMMA SaysStep ==
    ASSUME DeckInv, NEW m \in DeckMessage, at # "off",
           channel' = Append(channel, m), UNCHANGED ui,
           at' \in {"off", "accept", "serve"}, left' \in Seq(DeckMessage),
           left' # <<>> <=> at' = "serve", Ahead',
           outcome' \in {"none", "Complete", "Failed"},
           m.kind = "Done" <=> at' = "off",
           at' = "accept" /\ outcome' # "none" => m.kind = outcome',
           at' = "serve" => m.kind \notin Outcomes,
           at' = "serve" /\ at # "serve" => m.kind # "FileStarted"
    PROVE  DeckInv'
<1>1. /\ channel' \in Seq(DeckMessage) /\ Len(channel) \in Nat
      /\ Len(channel') = Len(channel) + 1 /\ channel' # <<>>
      /\ \A i \in 1 .. Len(channel) : channel'[i] = channel[i]
      /\ channel'[Len(channel) + 1] = m
      /\ DOMAIN channel = 1 .. Len(channel)
      /\ DOMAIN channel' = 1 .. Len(channel) + 1
  BY AppendProperties, LenProperties DEF DeckInv, DeckType
<1>2. ui.worker
  BY DEF DeckInv, Deck!OneReceiver
<1>3. DeckType' /\ Deck!OneReceiver'
  BY <1>1, <1>2 DEF DeckInv, DeckType, Deck!OneReceiver
<1>4. \A i \in DOMAIN channel : channel[i].kind # "Done"
  BY DEF DeckInv, LastWord
<1>5. LastWord'
  BY <1>1, <1>4 DEF LastWord
<1>6. Current'
  <2>1. at' = "accept" /\ outcome' # "none" => channel'[Len(channel')].kind = outcome'
    BY <1>1
  <2>2. ASSUME at' = "serve"
        PROVE  /\ ui.status \in Outcomes => Replaced(0)'
               /\ \A i \in DOMAIN channel' : channel'[i].kind \in Outcomes => Replaced(i)'
    <3>1. \A i \in DOMAIN channel' : channel'[i].kind \in Outcomes => i \in DOMAIN channel
      BY <1>1, <2>2
    <3>2. CASE m.kind # "FileStarted"
      <4>1. \A i \in {0} \cup DOMAIN channel : Replaced(i)'
        BY <1>1, <2>2, <3>2 DEF Replaced
      <4> QED BY <3>1, <4>1
    <3>3. CASE at = "serve"
      <4>1. ASSUME NEW i \in {0} \cup DOMAIN channel, Replaced(i)
            PROVE  Replaced(i)'
        BY <1>1, <4>1 DEF Replaced
      <4>2. /\ ui.status \in Outcomes => Replaced(0)
            /\ \A i \in DOMAIN channel : channel[i].kind \in Outcomes => Replaced(i)
        BY <3>3 DEF DeckInv, Current
      <4> QED BY <1>1, <3>1, <4>1, <4>2
    <3> QED BY <2>2, <3>2, <3>3
  <2> QED BY <1>1, <2>1, <2>2 DEF Current
<1> QED BY <1>3, <1>5, <1>6 DEF DeckInv

\* The next report of a connection, which is not its last.
LEMMA DeckReportStep ==
    ASSUME DeckInv, Deck!Report
    PROVE  DeckInv'
<1> DEFINE m == Head(left)
<1>1. /\ at = "serve" /\ Len(left) > 1 /\ left \in Seq(DeckMessage)
      /\ channel' = Append(channel, m) /\ left' = Tail(left)
      /\ UNCHANGED <<ui, at, outcome>>
  BY DEF Deck!Report, DeckInv, DeckType
<1>2. /\ m \in DeckMessage /\ m = left[1] /\ Len(left) \in Nat \ {0}
      /\ left' \in Seq(DeckMessage) /\ Len(left') = Len(left) - 1
      /\ \A i \in 1 .. Len(left) - 1 : left'[i] = left[i + 1]
      /\ DOMAIN left = 1 .. Len(left)
      /\ DOMAIN left' = 1 .. Len(left) - 1
  BY <1>1, HeadTailProperties, EmptySeq, LenProperties
<1>3. left' # <<>>
  BY <1>1, <1>2, EmptySeq
<1>4. m.kind \notin {"Done", "Failed", "Complete"}
  <2>1. 1 \in DOMAIN left /\ Len(left) # 1
    BY <1>1, <1>2
  <2> QED BY <1>2, <2>1 DEF DeckInv, Ahead
<1>5. Ahead'
  <2>1. ASSUME NEW i \in DOMAIN left'
        PROVE  /\ left'[i].kind \notin {"Done", "Failed"}
               /\ left'[i].kind = "Complete" => i = Len(left')
    <3>1. i + 1 \in DOMAIN left /\ left'[i] = left[i + 1]
      BY <1>2
    <3>2. /\ left[i + 1].kind \notin {"Done", "Failed"}
          /\ left[i + 1].kind = "Complete" => i + 1 = Len(left)
      BY <3>1 DEF DeckInv, Ahead
    <3>3. i + 1 = Len(left) => i = Len(left')
      BY <1>2
    <3> QED BY <3>1, <3>2, <3>3
  <2> QED BY <2>1 DEF Ahead
<1> HIDE DEF m
<1> QED BY <1>1, <1>2, <1>3, <1>4, <1>5, SaysStep DEF DeckInv, DeckType, Outcomes

\* A frame takes a message.
LEMMA DeckPollStep ==
    ASSUME DeckInv, Deck!Poll
    PROVE  DeckInv'
<1> DEFINE m == Head(channel)
<1>1. /\ channel # <<>> /\ ui' = Deck!Handled(ui, m) /\ channel' = Tail(channel)
      /\ UNCHANGED <<at, left, outcome>>
  BY DEF Deck!Poll
<1>2. /\ m \in DeckMessage /\ m = channel[1] /\ Len(channel) \in Nat \ {0}
      /\ channel' \in Seq(DeckMessage) /\ Len(channel') = Len(channel) - 1
      /\ \A i \in 1 .. Len(channel) - 1 : channel'[i] = channel[i + 1]
      /\ DOMAIN channel = 1 .. Len(channel)
      /\ DOMAIN channel' = 1 .. Len(channel) - 1
  BY <1>1, HeadTailProperties, EmptySeq, LenProperties DEF DeckInv, DeckType
<1>3. ui \in DeckUi /\ ui.worker
  BY <1>1 DEF DeckInv, DeckType, Deck!OneReceiver
<1>4. m.kind \in DeckKind /\ m.progress \in 0 .. 100
  BY <1>2 DEF DeckMessage
<1> HIDE DEF m
<1>5. /\ ui' \in DeckUi
      /\ ui'.worker <=> m.kind # "Done"
      /\ ui'.status = IF m.kind = "FileStarted" THEN ui.status ELSE m.kind
  <2>1. CASE m.kind = "Progress"
    BY <1>1, <1>3, <1>4, <2>1 DEF Deck!Handled, DeckUi, DeckKind
  <2>2. CASE m.kind = "Complete"
    <3>1. 100 \in 0 .. 100
      OBVIOUS
    <3> QED BY <1>1, <1>3, <2>2, <3>1 DEF Deck!Handled, DeckUi, DeckKind
  <2>3. CASE m.kind = "Done"
    BY <1>1, <1>3, <2>3 DEF Deck!Handled, DeckUi, DeckKind
  <2>4. CASE m.kind = "FileStarted"
    BY <1>1, <1>3, <2>4 DEF Deck!Handled, DeckUi, DeckKind
  <2>5. CASE m.kind \notin {"Progress", "Complete", "Done", "FileStarted"}
    <3>1. ui' = [ui EXCEPT !.status = m.kind]
      BY <1>1, <2>5 DEF Deck!Handled
    <3> QED BY <1>3, <1>4, <2>5, <3>1 DEF DeckUi
  <2> QED BY <2>1, <2>2, <2>3, <2>4, <2>5
<1>6. DeckType' /\ Ahead'
  BY <1>1, <1>2, <1>5 DEF DeckInv, DeckType, Ahead
<1>7. m.kind = "Done" => channel' = <<>> /\ at = "off"
  BY <1>2, EmptySeq DEF DeckInv, LastWord
<1>8. Deck!OneReceiver'
  BY <1>1, <1>5, <1>7 DEF Deck!OneReceiver
<1>9. LastWord'
  <2>1. ASSUME NEW i \in DOMAIN channel', channel'[i].kind = "Done"
        PROVE  i = Len(channel') /\ at = "off"
    <3>1. i + 1 \in DOMAIN channel /\ channel'[i] = channel[i + 1]
      BY <1>2
    <3>2. i + 1 = Len(channel) /\ at = "off"
      BY <2>1, <3>1 DEF DeckInv, LastWord
    <3> QED BY <1>2, <3>2
  <2> QED BY <1>1, <2>1 DEF LastWord
<1>10. Current'
  <2>1. ASSUME at = "accept", outcome # "none"
        PROVE  IF channel' = <<>> THEN ui'.status = outcome
               ELSE channel'[Len(channel')].kind = outcome
    <3>1. channel[Len(channel)].kind = outcome
      BY <1>1, <2>1 DEF DeckInv, Current
    <3>2. CASE channel' = <<>>
      <4>1. Len(channel) = 1
        BY <1>2, <3>2, EmptySeq
      <4>2. m.kind = outcome /\ outcome # "FileStarted"
        BY <1>2, <2>1, <3>1, <4>1 DEF DeckInv, DeckType
      <4> QED BY <1>5, <3>2, <4>2
    <3>3. CASE channel' # <<>>
      <4>1. Len(channel') \in 1 .. Len(channel) - 1 /\ Len(channel') + 1 = Len(channel)
        BY <1>2, <3>3, EmptySeq
      <4> QED BY <1>2, <3>1, <3>3, <4>1
    <3> QED BY <3>2, <3>3
  <2>2. ASSUME at = "serve"
        PROVE  /\ ui'.status \in Outcomes => Replaced(0)'
               /\ \A i \in DOMAIN channel' : channel'[i].kind \in Outcomes => Replaced(i)'
    <3>1. /\ ui.status \in Outcomes => Replaced(0)
          /\ \A i \in DOMAIN channel : channel[i].kind \in Outcomes => Replaced(i)
      BY <2>2 DEF DeckInv, Current
    <3>2. ASSUME NEW i \in Nat, Replaced(i + 1)
          PROVE  Replaced(i)'
      <4>1. PICK j \in DOMAIN channel :
              i + 1 < j /\ channel[j].kind \notin Outcomes \cup {"FileStarted"}
        BY <3>2 DEF Replaced
      <4>2. j - 1 \in DOMAIN channel' /\ i < j - 1 /\ channel'[j - 1] = channel[(j - 1) + 1]
            /\ (j - 1) + 1 = j
        BY <1>2, <4>1
      <4> QED BY <4>1, <4>2 DEF Replaced
    <3>3. ASSUME ui'.status \in Outcomes
          PROVE  Replaced(0)'
      <4>1. 1 \in DOMAIN channel /\ 0 + 1 = 1 /\ 0 \in Nat
        BY <1>2
      <4>2. CASE m.kind = "FileStarted"
        <5>1. PICK j \in DOMAIN channel :
                0 < j /\ channel[j].kind \notin Outcomes \cup {"FileStarted"}
          BY <1>5, <3>1, <3>3, <4>2 DEF Replaced
        <5>2. 0 + 1 < j
          BY <1>2, <4>2, <5>1
        <5>3. Replaced(0 + 1)
          BY <5>1, <5>2 DEF Replaced
        <5> QED BY <3>2, <4>1, <5>3
      <4>3. CASE m.kind # "FileStarted"
        <5>1. Replaced(0 + 1)
          BY <1>2, <1>5, <3>1, <3>3, <4>1, <4>3
        <5> QED BY <3>2, <4>1, <5>1
      <4> QED BY <4>2, <4>3
    <3>4. ASSUME NEW i \in DOMAIN channel', channel'[i].kind \in Outcomes
          PROVE  Replaced(i)'
      <4>1. i \in Nat /\ i + 1 \in DOMAIN channel /\ channel'[i] = channel[i + 1]
        BY <1>2
      <4> QED BY <3>1, <3>2, <3>4, <4>1
    <3> QED BY <3>3, <3>4
  <2> QED BY <1>1, <2>1, <2>2 DEF DeckInv, Current
<1> QED BY <1>6, <1>8, <1>9, <1>10 DEF DeckInv

\* Every step, with what is left in the channel and what is left to report.
LEMMA DeckStep ==
    ASSUME DeckInv, [Deck!Next]_(Deck!vars)
    PROVE  DeckInv'
<1> USE DEF DeckInv, DeckType
<1>1. CASE UNCHANGED Deck!vars
  BY <1>1, DeckQuietStep DEF Deck!vars
<1>2. CASE Deck!Listening
  <2>1. /\ at = "start" /\ at' = "accept" /\ UNCHANGED <<ui, left, outcome>>
        /\ channel' = Append(channel, Deck!Event("Listening"))
        /\ outcome' = "none"
    BY <1>2 DEF Deck!Listening, Deck!Says, Current
  <2>2. Deck!Event("Listening") \in DeckMessage /\ Deck!Event("Listening").kind = "Listening"
    BY DeckEventIsMessage DEF DeckKind
  <2>3. Ahead'
    BY <2>1 DEF Ahead
  <2> QED BY <2>1, <2>2, <2>3, SaysStep
<1>3. CASE Deck!ListenFails
  <2>1. /\ at \in {"start", "accept"} /\ at' = "off" /\ UNCHANGED <<ui, left, outcome>>
        /\ channel' = Append(channel, Deck!Event("Done"))
    BY <1>3 DEF Deck!ListenFails, Deck!Says
  <2>2. Deck!Event("Done") \in DeckMessage /\ Deck!Event("Done").kind = "Done"
    BY DeckEventIsMessage DEF DeckKind
  <2>3. Ahead'
    BY <2>1 DEF Ahead
  <2> QED BY <2>1, <2>2, <2>3, SaysStep
<1>4. CASE Deck!Accept
  <2>1. /\ at = "accept" /\ at' = "serve" /\ UNCHANGED <<ui, outcome>>
        /\ channel' = Append(channel, Deck!Event("Connected"))
    BY <1>4 DEF Deck!Accept, Deck!Says
  <2>2. PICK n \in Counts : left' = Deck!Reports(n)
    BY <1>4 DEF Deck!Accept
  <2>3. left' \in Seq(DeckMessage) /\ left' # <<>> /\ Ahead'
    BY <2>2, CountsAssumption, DeckReportsAre DEF Ahead
  <2>4. Deck!Event("Connected") \in DeckMessage /\ Deck!Event("Connected").kind = "Connected"
    BY DeckEventIsMessage DEF DeckKind
  <2> QED BY <2>1, <2>3, <2>4, SaysStep DEF Outcomes
<1>5. CASE Deck!Report
  BY <1>5, DeckReportStep
<1>6. CASE Deck!Served
  <2>1. PICK o \in {"Complete", "Failed"} :
          channel' = Append(channel, Deck!Event(o)) /\ at' = "accept" /\ outcome' = o
    BY <1>6 DEF Deck!Served, Deck!Says
  <2>2. at = "serve" /\ left' = <<>> /\ UNCHANGED ui
    BY <1>6 DEF Deck!Served
  <2>3. left' \in Seq(DeckMessage) /\ DOMAIN left' = {}
    BY <2>2, EmptySeq
  <2>4. Ahead'
    BY <2>3 DEF Ahead
  <2>5. Deck!Event(o) \in DeckMessage /\ Deck!Event(o).kind = o
    BY DeckEventIsMessage DEF DeckKind
  <2> QED BY <2>1, <2>2, <2>3, <2>4, <2>5, SaysStep
<1>7. CASE Deck!Repaint \/ Deck!Wake \/ Deck!Polled
  <2>1. UNCHANGED <<ui, at, left, channel, outcome>>
    BY <1>7 DEF Deck!Repaint, Deck!Wake, Deck!Polled, Deck!Begin
  <2> QED BY <2>1, DeckQuietStep
<1>8. CASE Deck!Poll
  BY <1>8, DeckPollStep
<1>9. CASE Deck!Type
  <2>1. PICK a \in {"right", "wrong"}, o \in {"set", "empty"} :
          ui' = [ui EXCEPT !.address = a, !.output = o]
    BY <1>9 DEF Deck!Type
  <2>2. ui' \in DeckUi /\ ui'.worker = ui.worker
    BY <2>1 DEF DeckUi
  <2>3. ~ui.worker /\ UNCHANGED <<at, left, channel, outcome>>
    BY <1>9 DEF Deck!Type
  <2> QED BY <2>2, <2>3, DeckQuietStep
<1>10. CASE Deck!Start
  <2>1. ~ui.worker /\ at = "off" /\ channel = <<>> /\ UNCHANGED <<left, channel>>
    BY <1>10 DEF Deck!Start, Deck!OneReceiver
  <2>2. CASE ui.address = "wrong" \/ ui.output = "empty"
    <3>1. ui' = [ui EXCEPT !.status = "Invalid"] /\ UNCHANGED <<at, outcome>>
      BY <1>10, <2>2 DEF Deck!Start
    <3>2. ui' \in DeckUi /\ ui'.worker = ui.worker
      BY <3>1 DEF DeckUi
    <3> QED BY <2>1, <3>1, <3>2, DeckQuietStep
  <2>3. CASE ~(ui.address = "wrong" \/ ui.output = "empty")
    <3>1. /\ ui' = [ui EXCEPT !.status = "Starting", !.worker = TRUE]
          /\ at' = "start" /\ outcome' = "none"
      BY <1>10, <2>3 DEF Deck!Start
    <3>2. ui' \in DeckUi /\ ui'.worker
      BY <3>1 DEF DeckUi
    <3>3. DeckType' /\ Deck!OneReceiver' /\ Ahead' /\ Current'
      BY <2>1, <3>1, <3>2 DEF Deck!OneReceiver, Ahead, Current
    <3>4. LastWord'
      <4>1. DOMAIN channel' = {}
        BY <2>1, EmptySeq
      <4> QED BY <4>1 DEF LastWord
    <3> QED BY <3>3, <3>4
  <2> QED BY <2>2, <2>3
<1> QED
  BY <1>1, <1>2, <1>3, <1>4, <1>5, <1>6, <1>7, <1>8, <1>9, <1>10
  DEF Deck!Next, Deck!Thread, Deck!Draw

\* With an empty channel nothing can still replace what the window shows.
LEMMA DeckInvIsEnough ==
    DeckInv => Deck!TypeOK /\ Deck!OneReceiver /\ Deck!StatusIsCurrent
<1> SUFFICES ASSUME DeckInv
             PROVE  Deck!TypeOK /\ Deck!OneReceiver /\ Deck!StatusIsCurrent
  OBVIOUS
<1>1. Deck!TypeOK
  BY DEF DeckInv, DeckType, DeckUi, Deck!TypeOK
<1>2. ASSUME channel = <<>>, at = "serve"
      PROVE  ui.status \notin Outcomes
  <2>1. DOMAIN channel = {}
    BY <1>2, EmptySeq
  <2>2. ~Replaced(0)
    BY <2>1 DEF Replaced
  <2> QED BY <1>2, <2>2 DEF DeckInv, Current
<1>3. Deck!StatusIsCurrent
  BY <1>2 DEF DeckInv, Current, Outcomes, Deck!StatusIsCurrent
<1> QED BY <1>1, <1>3 DEF DeckInv

-----------------------------------------------------------------------------
\* What holds in every state of the machine that shows one of them.
Inv == IF app = "pc" THEN PcInv ELSE DeckInv /\ sends = 0

LEMMA Start == Init => Inv
<1>1. CASE app = "pc" /\ Pc!Init
  BY <1>1, PcStart DEF Inv
<1>2. CASE app = "deck" /\ Deck!Init /\ sends = 0
  BY <1>2, DeckStart DEF Inv
<1> QED BY <1>1, <1>2 DEF Init

\* A step of one program leaves the other's invariant alone; the Deck never sends.
LEMMA Step ==
    ASSUME Inv, [Next]_vars
    PROVE  Inv' /\ (sends > 0 /\ sends' = sends => ui'.progress >= ui.progress)
<1>1. UNCHANGED app
  BY DEF Next, vars
<1>2. CASE app = "pc"
  <2>1. [Pc!Next]_(Pc!vars)
    BY <1>2 DEF Next, vars, pcOnly, Pc!vars
  <2> QED BY <1>1, <1>2, <2>1, PcStep DEF Inv
<1>3. CASE app # "pc"
  <2>1. [Deck!Next]_(Deck!vars) /\ UNCHANGED sends
    BY <1>3 DEF Next, vars, pcOnly, deckOnly, Deck!vars
  <2>2. DeckInv' /\ sends' = 0 /\ sends = 0
    BY <1>3, <2>1, DeckStep DEF Inv
  <2> QED BY <1>1, <1>3, <2>2 DEF Inv
<1> QED BY <1>2, <1>3

\* Whichever window a machine shows, what its worker reported and no frame has
\* taken, what the worker will report, and what the window shows fit each other.
THEOREM Invariance == Spec => []Inv
<1>1. Init => Inv
  BY Start
<1>2. Inv /\ [Next]_vars => Inv'
  BY Step
<1> QED BY <1>1, <1>2, PTL DEF Spec

\* The widgets, the queue without a path that is in it twice, and the bar keep
\* their types.
THEOREM TypeCorrect == Spec => []TypeOK
<1>1. Inv => TypeOK
  BY PcInvIsEnough, DeckInvIsEnough DEF Inv, TypeOK
<1> QED BY <1>1, Invariance, PTL

\* However the frames and the worker take turns, there is never a second worker
\* nor one whose end nobody waits for (show_send and start_receiver look at
\* worker_rx only).
THEOREM OneWorkerTheorem == Spec => []OneWorker
<1>1. Inv => OneWorker
  BY PcInvIsEnough, DeckInvIsEnough DEF Inv, OneWorker
<1> QED BY <1>1, Invariance, PTL

\* poll_worker never shows a success that send_paths did not return, nor the end
\* of a connection while the next one is served.
THEOREM StatusIsTrueTheorem == Spec => []StatusIsTrue
<1>1. Inv => StatusIsTrue
  BY PcInvIsEnough, DeckInvIsEnough DEF Inv, StatusIsTrue
<1> QED BY <1>1, Invariance, PTL

\* The progress the worker reports of one file after the other never moves the
\* PC's bar back.
THEOREM ProgressAdvancesTheorem == Spec => ProgressAdvances
<1>1. Inv /\ [Next]_vars
        => [sends > 0 /\ sends' = sends => ui'.progress >= ui.progress]_(Pc!vars)
  BY Step
<1> QED BY <1>1, Invariance, PTL DEF Spec, ProgressAdvances, Pc!ProgressAdvances
=============================================================================
