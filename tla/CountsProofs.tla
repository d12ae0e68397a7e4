------------------------------ MODULE CountsProofs ------------------------------
(***************************************************************************)
(* Proofs that an import adds up what its files of reports say: that the   *)
(* reader, line by line, accepts exactly the files that are sound, and     *)
(* that rows and values together are at each line the sum of what has      *)
(* been read.                                                              *)
(***************************************************************************)
EXTENDS IngestionProofs, WellFoundedInduction

-----------------------------------------------------------------------------
(* Sums over the lines of a file.                                          *)

LEMMA LeastNumber ==
  ASSUME NEW N \in SUBSET Nat, N # {}
  PROVE  \E m \in N : \A k \in N : m <= k
<1>1. PICK m \in N : \A k \in N : <<k, m>> \notin OpToRel(<, Nat)
  BY NatLessThanWellFounded, WFMin, Zenon
<1>2. \A k \in N : ~(k < m)
  BY <1>1, Zenon DEF OpToRel
<1> QED
  BY <1>2

\* A line of a file.
LEMMA LineTyped ==
  ASSUME NEW f \in Seq(Lines), NEW n \in DOMAIN f
  PROVE  /\ f[n].kind = "samples" =>
              /\ f[n].unit \in Units /\ f[n].thread \in Nat
              /\ Size(f, n) \in Nat /\ Size(f, n) = Len(Sites[f[n].unit])
              /\ \A m \in 1 .. Size(f, n) : Sites[f[n].unit][m] \in Nat
         /\ f[n].kind = "counts" => f[n].counts \in Seq(Nat)
<1>1. f[n] \in Lines
  BY ElementOfSeq
<1>2. f[n].kind = "samples" => f[n].unit \in Units /\ f[n].thread \in Nat
  BY <1>1 DEF Lines
<1>3. f[n].kind = "counts" => f[n].counts \in Seq(Nat)
  BY <1>1 DEF Lines
<1>4. ASSUME f[n].kind = "samples"
      PROVE  /\ Size(f, n) \in Nat /\ Size(f, n) = Len(Sites[f[n].unit])
             /\ \A m \in 1 .. Size(f, n) : Sites[f[n].unit][m] \in Nat
  <2>1. Sites[f[n].unit] \in Seq(Nat)
    BY <1>2, <1>4, IngestionAssumption
  <2> QED
    BY <2>1 DEF Size
<1> QED
  BY <1>2, <1>3, <1>4

LEMMA SiteTyped ==
  ASSUME NEW u \in Units, NEW m \in DOMAIN Sites[u]
  PROVE  Sites[u][m] \in Nat
<1>1. Sites[u] \in Seq(Nat)
  BY IngestionAssumption
<1> QED
  BY <1>1, ElementOfSeq

LEMMA CountedType ==
  ASSUME NEW f \in Seq(Lines), NEW k, NEW n \in DOMAIN f
  PROVE  Counted(f, n, k) \in Nat
<1>1. CASE f[n].kind = "counts" /\ k.field \in DOMAIN f[n].counts
  <2>1. f[n].counts[k.field] \in Nat
    BY <1>1, LineTyped
  <2> QED
    BY <2>1 DEF Counted
<1>2. CASE ~(f[n].kind = "counts" /\ k.field \in DOMAIN f[n].counts)
  BY <1>2 DEF Counted
<1> QED
  BY <1>1, <1>2

\* The function that CountedUpTo describes exists: there is no least line up to
\* which it does not.
LEMMA SumExists ==
  ASSUME NEW f \in Seq(Lines), NEW k
  PROVE  \E g : g = [j \in 0 .. Len(f) |-> IF j = 0 THEN 0 ELSE g[j - 1] + Counted(f, j, k)]
<1> DEFINE Good(g, m) == /\ g \in [0 .. m -> Nat] /\ g[0] = 0
                         /\ \A j \in 1 .. m : g[j] = g[j - 1] + Counted(f, j, k)
           Bad == {m \in 0 .. Len(f) : \A g : ~Good(g, m)}
<1>1. Len(f) \in Nat /\ DOMAIN f = 1 .. Len(f)
  OBVIOUS
<1>2. Bad = {}
  <2>1. SUFFICES ASSUME Bad # {} PROVE FALSE
    OBVIOUS
  <2>2. PICK m \in Bad : \A i \in Bad : m <= i
    <3>1. Bad \in SUBSET Nat
      BY <1>1
    <3> HIDE DEF Bad
    <3> QED
      BY <2>1, <3>1, LeastNumber
  <2>3. CASE m = 0
    <3>1. Good([j \in 0 .. 0 |-> 0], 0)
      OBVIOUS
    <3> QED
      BY <2>3, <3>1
  <2>4. CASE m # 0
    <3>1. m \in 0 .. Len(f)
      OBVIOUS
    <3>2. m - 1 \in 0 .. Len(f) /\ m - 1 \notin Bad
      <4> HIDE DEF Bad
      <4> QED
        BY <1>1, <2>2, <2>4, <3>1
    <3>3. PICK g : Good(g, m - 1)
      <4> HIDE DEF Good
      <4> QED
        BY <3>2
    <3> DEFINE h == [j \in 0 .. m |-> IF j = m THEN g[m - 1] + Counted(f, m, k) ELSE g[j]]
    <3>4. m \in 1 .. Len(f) /\ Counted(f, m, k) \in Nat
      BY <1>1, <2>4, <3>1, CountedType
    <3> HIDE DEF Bad
    <3>5. h \in [0 .. m -> Nat]
      BY <3>3, <3>4
    <3>6. h[0] = 0
      BY <3>3, <3>4
    <3>7. ASSUME NEW j \in 1 .. m PROVE h[j] = h[j - 1] + Counted(f, j, k)
      <4>1. /\ j \in 0 .. m /\ j - 1 \in 0 .. m /\ j - 1 # m
            /\ j # m => j \in 1 .. m - 1
        BY <3>4
      <4>2. h[j - 1] = g[j - 1]
        BY <4>1
      <4>3. CASE j = m
        BY <4>1, <4>2, <4>3
      <4>4. CASE j # m
        BY <3>3, <4>1, <4>2, <4>4
      <4> QED
        BY <4>3, <4>4
    <3>8. Good(h, m)
      BY <3>5, <3>6, <3>7
    <3> QED
      BY <3>8 DEF Bad
  <2> QED
    BY <2>3, <2>4
<1>3. PICK g : Good(g, Len(f))
  <2>1. Len(f) \in 0 .. Len(f) /\ Len(f) \notin Bad
    BY <1>1, <1>2
  <2> HIDE DEF Good
  <2> QED
    BY <2>1
<1>4. g = [j \in 0 .. Len(f) |-> IF j = 0 THEN 0 ELSE g[j - 1] + Counted(f, j, k)]
  <2>1. \A j \in 0 .. Len(f) : g[j] = IF j = 0 THEN 0 ELSE g[j - 1] + Counted(f, j, k)
    BY <1>1, <1>3
  <2> QED
    BY <1>3, <2>1
<1> QED
  BY <1>4

LEMMA CountedUpToStep ==
  ASSUME NEW f \in Seq(Lines), NEW k
  PROVE  /\ CountedUpTo(f, k)[0] = 0
         /\ \A n \in DOMAIN f : CountedUpTo(f, k)[n] = CountedUpTo(f, k)[n - 1] + Counted(f, n, k)
         /\ \A n \in 0 .. Len(f) : CountedUpTo(f, k)[n] \in Nat
<1> DEFINE g == CountedUpTo(f, k)
           Wrong == {n \in 0 .. Len(f) : g[n] \notin Nat}
<1>1. g = [j \in 0 .. Len(f) |-> IF j = 0 THEN 0 ELSE g[j - 1] + Counted(f, j, k)]
  BY SumExists DEF CountedUpTo
<1> HIDE DEF g
<1>2. g[0] = 0 /\ \A n \in DOMAIN f : g[n] = g[n - 1] + Counted(f, n, k)
  BY <1>1
<1>3. Wrong = {}
  <2>1. SUFFICES ASSUME Wrong # {} PROVE FALSE
    OBVIOUS
  <2>2. PICK m \in Wrong : \A i \in Wrong : m <= i
    <3>1. Wrong \in SUBSET Nat
      OBVIOUS
    <3> HIDE DEF Wrong
    <3> QED
      BY <2>1, <3>1, LeastNumber
  <2>3. m # 0 /\ m \in 0 .. Len(f)
    BY <1>2
  <2>4. m \in DOMAIN f /\ Counted(f, m, k) \in Nat
    BY <2>3, CountedType
  <2>5. m - 1 \in 0 .. Len(f) /\ m - 1 \notin Wrong
    <3> HIDE DEF Wrong
    <3> QED
      BY <2>2, <2>3
  <2> QED
    BY <1>2, <2>4, <2>5
<1> QED
  BY <1>2, <1>3 DEF g

-----------------------------------------------------------------------------
(* Reports and blocks in a file.                                           *)

\* The report that begins on line i has ended before line n.
Over(f, i, n) == \E e \in 1 .. n - 1 : Within(f, i, e) /\ f[e].kind = "endreport"

LEMMA WithinStep ==
  ASSUME NEW f, NEW i, NEW n \in Nat \ {0}
  PROVE  Within(f, i, n + 1) <=> \/ i = n /\ f[n].kind = "report"
                                 \/ Within(f, i, n) /\ f[n].kind \notin {"report", "endreport"}
  BY DEF Within

LEMMA WithinUnique ==
  ASSUME NEW f, NEW j \in Nat, NEW i, NEW d, Within(f, i, j), Within(f, d, j)
  PROVE  i = d
  BY DEF Within

LEMMA OverStays ==
  ASSUME NEW f, NEW i, NEW n \in Nat, Over(f, i, n)
  PROVE  /\ \A j \in Nat : j >= n => ~Within(f, i, j)
         /\ Over(f, i, n + 1)
  BY DEF Over, Within

LEMMA BlockTyped ==
  ASSUME NEW f \in Seq(Lines), NEW b \in Blocks(f)
  PROVE  /\ b \in DOMAIN f /\ b \in Nat /\ b >= 1 /\ b <= Len(f)
         /\ f[b].kind = "samples" /\ f[b].unit \in Units /\ f[b].thread \in Nat
         /\ Size(f, b) \in Nat /\ Size(f, b) = Len(Sites[f[b].unit])
         /\ \A m \in 1 .. Size(f, b) : Sites[f[b].unit][m] \in Nat
<1>1. b \in DOMAIN f /\ f[b].kind = "samples"
  BY DEF Blocks
<1>2. DOMAIN f = 1 .. Len(f) /\ Len(f) \in Nat
  OBVIOUS
<1> QED
  BY <1>1, <1>2, LineTyped

LEMMA BlockHere ==
  ASSUME NEW f \in Seq(Lines), NEW n \in DOMAIN f
  PROVE  /\ (\A i : ~Within(f, i, n)) => n \notin Blocks(f)
         /\ \A o : Within(f, o, n) =>
              (n \in Blocks(f) <=> f[n].kind = "samples" /\ f[o].id = "samples")
<1>1. DOMAIN f = 1 .. Len(f) /\ Len(f) \in Nat
  OBVIOUS
<1>2. \A o : Within(f, o, n) => o \in DOMAIN f
  BY <1>1 DEF Within
<1> QED
  BY <1>1, <1>2, WithinUnique DEF Blocks

-----------------------------------------------------------------------------
(* The steps of readReport, from s to t over a line l.                     *)

Kept(s, t) ==
  /\ t.line = s.line + 1 /\ t.started = s.started
  /\ t.unit = s.unit /\ t.thread = s.thread /\ t.site = s.site
  /\ t.values = s.values /\ t.observed = s.observed /\ t.shared = s.shared

Outside(s, t, l) ==
  /\ s.state = "INITIAL" /\ Kept(s, t)
  /\ \/ l.kind # "report" /\ t.state = "INITIAL"
     \/ l.kind = "report" /\ l.id = "samples" /\ t.state = "REPORT"
     \/ l.kind = "report" /\ l.id # "samples" /\ t.state = "DISCARD"

Skipping(s, t, l) ==
  /\ s.state = "DISCARD" /\ Kept(s, t) /\ t.state = "DISCARD"
  /\ l.kind \notin {"report", "samples", "endsamples", "endreport"}

Closing(s, t, l) ==
  /\ s.state \in {"DISCARD", "REPORT"} /\ Kept(s, t) /\ t.state = "INITIAL"
  /\ l.kind = "endreport"

Heading(s, t, l) ==
  /\ s.state = "REPORT" /\ l.kind = "samples"
  /\ s.started => s.site = Len(Sites[s.unit])
  /\ t.line = s.line + 1 /\ t.state = "READING" /\ t.started = TRUE
  /\ t.unit = l.unit /\ t.thread = l.thread /\ t.site = 0 /\ t.values = <<>>
  /\ t.observed = s.observed \cup {l.unit} /\ t.shared = (l.unit \in s.observed)

Ending(s, t, l) ==
  /\ s.state = "READING" /\ Kept(s, t) /\ t.state = "REPORT"
  /\ l.kind = "endsamples"

Counting(s, t, l) ==
  /\ s.state = "READING" /\ l.kind = "counts" /\ t.state = "READING"
  /\ s.site < Len(Sites[s.unit]) /\ Len(l.counts) = Fields[s.unit]
  /\ t.line = s.line + 1 /\ t.site = s.site + 1
  /\ t.started = s.started /\ t.unit = s.unit /\ t.thread = s.thread
  /\ t.observed = s.observed /\ t.shared = s.shared

Reads(s, t, l) ==
  \/ Outside(s, t, l) \/ Skipping(s, t, l) \/ Closing(s, t, l)
  \/ Heading(s, t, l) \/ Ending(s, t, l) \/ Counting(s, t, l)

-----------------------------------------------------------------------------
(* What the reader knows on line s.line: the invariant of the loop.        *)

\* The reports read so far have ended, but for the one the reader is in.
ReportsRead(f, s) ==
  /\ s.state \in {"INITIAL", "DISCARD", "REPORT", "READING"}
  /\ s.state = "INITIAL" =>
       \A i \in 1 .. s.line - 1 : f[i].kind = "report" => Over(f, i, s.line)
  /\ s.state # "INITIAL" =>
       \E o \in 1 .. s.line - 1 :
         /\ Within(f, o, s.line)
         /\ f[o].id = "samples" <=> s.state \in {"REPORT", "READING"}
         /\ \A i \in 1 .. s.line - 1 : f[i].kind = "report" /\ i # o => Over(f, i, s.line)

\* They hold what they may.
LineAllowed(f, i, j) ==
  IF f[i].id = "samples" THEN \E b \in Blocks(f) : j \in b .. b + Size(f, b) + 1
                         ELSE f[j].kind \notin {"samples", "endsamples"}

LinesRead(f, n) ==
  \A i, j \in 1 .. n - 1 : Within(f, i, j) /\ f[j].kind # "endreport" => LineAllowed(f, i, j)

\* The last block that has begun is b; s.site of its rows have been read.
IsCurrent(f, s, b) ==
  /\ b \in Blocks(f) /\ b < s.line
  /\ s.unit = f[b].unit /\ s.thread = f[b].thread
  /\ s.site \in 0 .. Size(f, b)
  /\ \A m \in 1 .. s.site :
       f[b + m].kind = "counts" /\ Len(f[b + m].counts) = Fields[f[b].unit]
  /\ s.state = "READING" => s.line = b + s.site + 1
  /\ s.state # "READING" =>
       b + s.site + 1 < s.line /\ f[b + s.site + 1].kind = "endsamples"

\* The blocks before block b are whole.
WholeBefore(f, n, b) ==
  \A d \in Blocks(f) : d < n /\ d # b => d + Size(f, d) + 1 < b /\ Whole(f, d)

BlocksRead(f, s) ==
  /\ ~s.started => \A b \in Blocks(f) : b >= s.line
  /\ s.started => \E b \in Blocks(f) : IsCurrent(f, s, b) /\ WholeBefore(f, s.line, b)

PlaceInv(f, s) ==
  /\ s.line \in 1 .. Len(f) + 1
  /\ s.started \in BOOLEAN /\ (s.state = "READING" => s.started)
  /\ ReportsRead(f, s) /\ LinesRead(f, s.line) /\ BlocksRead(f, s)

\* The report that line n belongs to.
LEMMA PlaceReport ==
  ASSUME NEW f, NEW s, s.line \in Nat, ReportsRead(f, s)
  PROVE  /\ s.state = "INITIAL" => \A i : ~Within(f, i, s.line)
         /\ s.state # "INITIAL" =>
              \E o : /\ Within(f, o, s.line)
                     /\ f[o].id = "samples" <=> s.state \in {"REPORT", "READING"}
<1>1. ASSUME s.state = "INITIAL", NEW i, Within(f, i, s.line) PROVE FALSE
  <2>1. i \in 1 .. s.line - 1 /\ f[i].kind = "report"
    BY <1>1 DEF Within
  <2>2. Over(f, i, s.line)
    BY <1>1, <2>1 DEF ReportsRead
  <2> QED
    BY <1>1, <2>2, OverStays
<1> QED
  BY <1>1 DEF ReportsRead

LEMMA ReportsStep ==
  ASSUME NEW f \in Seq(Lines), NEW s, NEW t, PlaceInv(f, s), s.line \in DOMAIN f,
         Reads(s, t, f[s.line])
  PROVE  ReportsRead(f, t)
<1> DEFINE n == s.line
           l == f[n]
<1>1. n \in Nat \ {0} /\ t.line = n + 1 /\ ReportsRead(f, s)
  BY DEF PlaceInv, Reads, Outside, Skipping, Closing, Heading, Ending, Counting, Kept
<1>2. \A i \in 1 .. n - 1 : Over(f, i, n) => Over(f, i, n + 1)
  BY <1>1, OverStays
<1>3. CASE s.state = "INITIAL"
  <2>1. \A i \in 1 .. n - 1 : f[i].kind = "report" => Over(f, i, n + 1)
    BY <1>1, <1>2, <1>3 DEF ReportsRead
  <2>2. CASE l.kind # "report"
    <3>1. t.state = "INITIAL"
      BY <1>3, <2>2 DEF Reads, Outside, Skipping, Closing, Heading, Ending, Counting
    <3> QED
      BY <1>1, <2>1, <2>2, <3>1 DEF ReportsRead
  <2>3. CASE l.kind = "report"
    <3>1. t.state \in {"REPORT", "DISCARD"} /\ (l.id = "samples" <=> t.state = "REPORT")
      BY <1>3, <2>3 DEF Reads, Outside, Skipping, Closing, Heading, Ending, Counting
    <3>2. Within(f, n, n + 1)
      BY <1>1, <2>3, WithinStep
    <3> HIDE DEF n
    <3> QED
      BY <1>1, <2>1, <3>1, <3>2 DEF ReportsRead, l, n
  <2> QED
    BY <2>2, <2>3
<1>4. CASE s.state # "INITIAL"
  <2>1. PICK o \in 1 .. n - 1 :
          /\ Within(f, o, n)
          /\ f[o].id = "samples" <=> s.state \in {"REPORT", "READING"}
          /\ \A i \in 1 .. n - 1 : f[i].kind = "report" /\ i # o => Over(f, i, n)
    BY <1>1, <1>4 DEF ReportsRead
  <2>2. CASE l.kind = "endreport"
    <3>1. t.state = "INITIAL"
      BY <1>4, <2>2 DEF Reads, Outside, Skipping, Closing, Heading, Ending, Counting
    <3>2. Over(f, o, n + 1)
      BY <1>1, <2>1, <2>2 DEF Over
    <3> QED
      BY <1>1, <1>2, <2>1, <2>2, <3>1, <3>2 DEF ReportsRead
  <2>3. CASE l.kind # "endreport"
    <3>1. /\ l.kind # "report" /\ t.state \in {"DISCARD", "REPORT", "READING"}
          /\ t.state \in {"REPORT", "READING"} <=> s.state \in {"REPORT", "READING"}
      BY <1>4, <2>3 DEF Reads, Outside, Skipping, Closing, Heading, Ending, Counting
    <3>2. Within(f, o, n + 1)
      BY <1>1, <2>1, <2>3, <3>1, WithinStep
    <3>3. \A i \in 1 .. n : f[i].kind = "report" /\ i # o => Over(f, i, n + 1)
      BY <1>1, <1>2, <2>1, <3>1
    <3> HIDE DEF n
    <3> QED
      BY <1>1, <2>1, <3>1, <3>2, <3>3 DEF ReportsRead
  <2> QED
    BY <2>2, <2>3
<1> QED
  BY <1>3, <1>4

LEMMA LinesStep ==
  ASSUME NEW f \in Seq(Lines), NEW s, NEW t, PlaceInv(f, s), s.line \in DOMAIN f,
         Reads(s, t, f[s.line])
  PROVE  LinesRead(f, s.line + 1)
<1> DEFINE n == s.line
           l == f[n]
<1>1. n \in Nat \ {0} /\ n <= Len(f) /\ ReportsRead(f, s) /\ LinesRead(f, n)
  BY DEF PlaceInv
<1>2. ASSUME NEW i, Within(f, i, n), l.kind # "endreport" PROVE LineAllowed(f, i, n)
  <2>1. s.state # "INITIAL"
    BY <1>1, <1>2, PlaceReport
  <2>2. f[i].id = "samples" <=> s.state \in {"REPORT", "READING"}
    BY <1>1, <1>2, <2>1, PlaceReport, WithinUnique
  <2>3. CASE s.state = "DISCARD"
    <3>1. l.kind \notin {"samples", "endsamples"}
      BY <1>2, <2>3 DEF Reads, Outside, Skipping, Closing, Heading, Ending, Counting
    <3> QED
      BY <2>2, <2>3, <3>1 DEF LineAllowed
  <2>4. CASE s.state = "REPORT"
    <3>1. l.kind = "samples"
      BY <1>2, <2>4 DEF Reads, Outside, Skipping, Closing, Heading, Ending, Counting
    <3>2. n \in Blocks(f)
      BY <1>2, <2>2, <2>4, <3>1, BlockHere
    <3>3. n \in n .. n + Size(f, n) + 1
      BY <1>1, <3>2, BlockTyped
    <3> QED
      BY <2>2, <2>4, <3>2, <3>3 DEF LineAllowed
  <2>5. CASE s.state = "READING"
    <3>1. PICK b \in Blocks(f) : IsCurrent(f, s, b)
      BY <2>5 DEF PlaceInv, BlocksRead
    <3>2. s.site \in 0 .. Size(f, b) /\ n = b + s.site + 1 /\ Size(f, b) \in Nat /\ b \in Nat
      BY <2>5, <3>1, BlockTyped DEF IsCurrent
    <3> HIDE DEF n
    <3>3. n \in b .. b + Size(f, b) + 1
      BY <3>2
    <3> QED
      BY <2>2, <2>5, <3>3 DEF LineAllowed
  <2> QED
    BY <1>1, <2>1, <2>3, <2>4, <2>5 DEF ReportsRead
<1>3. ASSUME NEW i \in 1 .. n, NEW j \in 1 .. n, Within(f, i, j), f[j].kind # "endreport"
      PROVE  LineAllowed(f, i, j)
  <2>1. CASE j = n
    BY <1>2, <1>3, <2>1
  <2>2. CASE j # n
    <3>1. j \in 1 .. n - 1 /\ i \in 1 .. n - 1
      BY <1>1, <1>3, <2>2 DEF Within
    <3> QED
      BY <1>1, <1>3, <3>1 DEF LinesRead
  <2> QED
    BY <2>1, <2>2
<1>4. n + 1 - 1 = n
  BY <1>1
<1> QED
  BY <1>3, <1>4 DEF LinesRead

\* Only a line that the reader takes for a header begins a block.
LEMMA BlockIsHeader ==
  ASSUME NEW f \in Seq(Lines), NEW s, NEW t, PlaceInv(f, s), s.line \in DOMAIN f,
         Reads(s, t, f[s.line])
  PROVE  s.line \in Blocks(f) <=> Heading(s, t, f[s.line])
<1>1. s.line \in Nat /\ ReportsRead(f, s)
  BY DEF PlaceInv
<1>2. CASE s.state = "INITIAL"
  <2>1. s.line \notin Blocks(f)
    BY <1>1, <1>2, PlaceReport, BlockHere
  <2> QED
    BY <1>2, <2>1 DEF Heading
<1>3. CASE s.state # "INITIAL"
  <2>1. PICK o : /\ Within(f, o, s.line)
                 /\ f[o].id = "samples" <=> s.state \in {"REPORT", "READING"}
    BY <1>1, <1>3, PlaceReport
  <2>2. s.line \in Blocks(f) <=> f[s.line].kind = "samples" /\ f[o].id = "samples"
    BY <2>1, BlockHere
  <2>3. CASE Heading(s, t, f[s.line])
    BY <2>1, <2>2, <2>3 DEF Heading
  <2>4. CASE ~Heading(s, t, f[s.line])
    <3>1. f[s.line].kind # "samples"
      BY <1>3, <2>4 DEF Reads, Outside, Skipping, Closing, Ending, Counting
    <3> QED
      BY <2>2, <2>4, <3>1
  <2> QED
    BY <2>3, <2>4
<1> QED
  BY <1>2, <1>3

\* When the last block has been read to its end, so have all that have begun.
LEMMA BlocksBehind ==
  ASSUME NEW f \in Seq(Lines), NEW s, PlaceInv(f, s), s.state # "READING",
         s.started => s.site = Len(Sites[s.unit]),
         NEW d \in Blocks(f), d < s.line
  PROVE  d + Size(f, d) + 1 < s.line /\ Whole(f, d)
<1>1. /\ s.line \in Nat /\ Len(f) \in Nat /\ s.line <= Len(f) + 1 /\ DOMAIN f = 1 .. Len(f)
      /\ d \in Nat /\ d >= 1 /\ Size(f, d) \in Nat
  BY BlockTyped DEF PlaceInv
<1>2. s.started
  BY <1>1 DEF PlaceInv, BlocksRead
<1>3. PICK b \in Blocks(f) : IsCurrent(f, s, b) /\ WholeBefore(f, s.line, b)
  BY <1>2 DEF PlaceInv, BlocksRead
<1>4. CASE d # b
  <2>1. d + Size(f, d) + 1 < b /\ Whole(f, d)
    BY <1>3, <1>4 DEF WholeBefore
  <2>2. b < s.line /\ b \in Nat
    BY <1>3, BlockTyped DEF IsCurrent
  <2> QED
    BY <1>1, <2>1, <2>2
<1>5. CASE d = b
  <2>1. s.site = Size(f, d)
    BY <1>2, <1>3, <1>5, BlockTyped DEF IsCurrent
  <2>2. /\ d + Size(f, d) + 1 < s.line /\ f[d + Size(f, d) + 1].kind = "endsamples"
        /\ \A m \in 1 .. Size(f, d) :
             f[d + m].kind = "counts" /\ Len(f[d + m].counts) = Fields[f[d].unit]
    BY <1>3, <1>5, <2>1 DEF IsCurrent
  <2>3. d + Size(f, d) + 1 \in DOMAIN f
    BY <1>1, <2>2
  <2> QED
    BY <2>2, <2>3 DEF Whole
<1> QED
  BY <1>4, <1>5

LEMMA BlocksStep ==
  ASSUME NEW f \in Seq(Lines), NEW s, NEW t, PlaceInv(f, s), s.line \in DOMAIN f,
         Reads(s, t, f[s.line])
  PROVE  BlocksRead(f, t)
<1> DEFINE n == s.line
           l == f[n]
<1>1. n \in Nat \ {0} /\ n <= Len(f) /\ t.line = n + 1 /\ BlocksRead(f, s)
  BY DEF PlaceInv, Reads, Outside, Skipping, Closing, Heading, Ending, Counting, Kept
<1>2. CASE ~Heading(s, t, l)
  <2>1. \A b \in Blocks(f) : b # n /\ b \in Nat
    BY <1>2, BlockIsHeader, BlockTyped
  <2>2. CASE ~s.started
    <3>1. ~t.started
      BY <1>2, <2>2 DEF PlaceInv, Reads, Outside, Skipping, Closing, Ending, Counting, Kept
    <3>2. \A b \in Blocks(f) : b >= n + 1
      <4>1. \A b \in Blocks(f) : b >= n
        BY <1>1, <2>2 DEF BlocksRead
      <4> QED
        BY <1>1, <2>1, <4>1
    <3> QED
      BY <1>1, <3>1, <3>2 DEF BlocksRead
  <2>3. CASE s.started
    <3>1. PICK b \in Blocks(f) : IsCurrent(f, s, b) /\ WholeBefore(f, n, b)
      BY <1>1, <2>3 DEF BlocksRead
    <3>2. /\ b \in Nat /\ Size(f, b) \in Nat /\ s.site \in 0 .. Size(f, b) /\ b < n
          /\ Size(f, b) = Len(Sites[f[b].unit]) /\ s.unit = f[b].unit
      BY <3>1, BlockTyped DEF IsCurrent
    <3>3. WholeBefore(f, n + 1, b)
      BY <1>1, <2>1, <3>1 DEF WholeBefore
    <3>4. IsCurrent(f, t, b)
      <4>1. CASE Counting(s, t, l)
        <5>1. n = b + s.site + 1
          BY <3>1, <4>1 DEF IsCurrent, Counting
        <5>2. /\ t.site = s.site + 1 /\ t.site \in 0 .. Size(f, b)
              /\ t.state = "READING" /\ t.unit = s.unit /\ t.thread = s.thread
          <6>1. /\ t.site = s.site + 1 /\ s.site < Size(f, b)
                /\ t.state = "READING" /\ t.unit = s.unit /\ t.thread = s.thread
            BY <3>2, <4>1, Zenon DEF Counting
          <6>2. Size(f, b) \in Nat /\ s.site \in Nat
            BY <3>2
          <6> QED
            BY <6>1, <6>2
        <5>3. \A m \in 1 .. t.site :
                f[b + m].kind = "counts" /\ Len(f[b + m].counts) = Fields[f[b].unit]
          <6>1. l.kind = "counts" /\ Len(l.counts) = Fields[f[b].unit] /\ b + t.site = n
            BY <3>2, <4>1, <5>1, <5>2 DEF Counting
          <6> HIDE DEF n
          <6>2. ASSUME NEW m \in 1 .. t.site
                PROVE  f[b + m].kind = "counts" /\ Len(f[b + m].counts) = Fields[f[b].unit]
            <7>1. CASE m = t.site
              BY <6>1, <7>1
            <7>2. CASE m # t.site
              <8>1. m \in 1 .. s.site
                BY <3>2, <5>2, <7>2
              <8> QED
                BY <3>1, <8>1 DEF IsCurrent
            <7> QED
              BY <7>1, <7>2
          <6> QED
            BY <6>2
        <5>4. t.line = b + t.site + 1 /\ b < t.line
          <6>1. b \in Nat /\ s.site \in Nat
            BY <3>2
          <6>2. t.line = n + 1 /\ t.site = s.site + 1
            BY <1>1, <5>2
          <6> HIDE DEF n
          <6> QED
            BY <5>1, <6>1, <6>2
        <5>5. t.unit = f[b].unit /\ t.thread = f[b].thread
          BY <3>1, <5>2 DEF IsCurrent
        <5> QED
          BY <5>2, <5>3, <5>4, <5>5 DEF IsCurrent
      <4>2. CASE Ending(s, t, l)
        <5>1. n = b + s.site + 1
          BY <3>1, <4>2 DEF IsCurrent, Ending
        <5>2. f[b + s.site + 1].kind = "endsamples"
          BY <4>2, <5>1 DEF Ending
        <5>3. b < n + 1 /\ b + s.site + 1 < n + 1
          BY <1>1, <3>2, <5>1
        <5> QED
          BY <1>1, <3>1, <4>2, <5>2, <5>3 DEF IsCurrent, Ending, Kept
      <4>3. CASE Outside(s, t, l) \/ Skipping(s, t, l) \/ Closing(s, t, l)
        <5>1. Kept(s, t) /\ s.state # "READING" /\ t.state # "READING"
          BY <4>3 DEF Outside, Skipping, Closing
        <5>2. b + s.site + 1 < n + 1 /\ b < n + 1
          BY <1>1, <3>1, <3>2, <5>1 DEF IsCurrent
        <5> QED
          BY <1>1, <3>1, <5>1, <5>2 DEF IsCurrent, Kept
      <4> QED
        BY <1>2, <4>1, <4>2, <4>3 DEF Reads
    <3> QED
      BY <1>1, <3>3, <3>4, <1>2, <2>3
      DEF BlocksRead, Reads, Outside, Skipping, Closing, Ending, Counting, Kept
  <2> QED
    BY <2>2, <2>3
<1>3. CASE Heading(s, t, l)
  <2>1. n \in Blocks(f)
    BY <1>3, BlockIsHeader
  <2>2. IsCurrent(f, t, n)
    <3>1. /\ t.unit = l.unit /\ t.thread = l.thread /\ t.site = 0 /\ t.state = "READING"
          /\ Size(f, n) \in Nat
      BY <1>3, <2>1, BlockTyped DEF Heading
    <3> HIDE DEF n
    <3> QED
      BY <1>1, <2>1, <3>1 DEF IsCurrent, l
  <2>3. WholeBefore(f, n + 1, n)
    <3>1. ASSUME NEW d \in Blocks(f), d < n + 1, d # n
          PROVE  d + Size(f, d) + 1 < n /\ Whole(f, d)
      <4>1. d < n
        BY <1>1, <3>1, BlockTyped
      <4> QED
        BY <1>3, <4>1, BlocksBehind DEF Heading
    <3> QED
      BY <3>1 DEF WholeBefore
  <2> QED
    BY <1>1, <1>3, <2>1, <2>2, <2>3 DEF BlocksRead, Heading
<1> QED
  BY <1>2, <1>3

LEMMA PlaceStep ==
  ASSUME NEW f \in Seq(Lines), NEW s, NEW t, PlaceInv(f, s), s.line \in DOMAIN f,
         Reads(s, t, f[s.line])
  PROVE  PlaceInv(f, t)
<1>1. /\ t.line = s.line + 1 /\ t.started \in BOOLEAN
      /\ t.state = "READING" => t.started
  BY DEF PlaceInv, Reads, Outside, Skipping, Closing, Heading, Ending, Counting, Kept
<1>2. t.line \in 1 .. Len(f) + 1
  BY <1>1
<1>3. ReportsRead(f, t) /\ LinesRead(f, t.line) /\ BlocksRead(f, t)
  BY <1>1, ReportsStep, LinesStep, BlocksStep
<1> QED
  BY <1>1, <1>2, <1>3 DEF PlaceInv

LEMMA PlaceInit ==
  ASSUME NEW f \in Seq(Lines), NEW s, s.line = 1, s.state = "INITIAL", s.started = FALSE
  PROVE  PlaceInv(f, s)
<1>1. Len(f) \in Nat
  OBVIOUS
<1>2. \A b \in Blocks(f) : b >= 1
  BY BlockTyped
<1>3. ReportsRead(f, s)
  BY DEF ReportsRead
<1>4. LinesRead(f, s.line)
  BY DEF LinesRead
<1>5. BlocksRead(f, s)
  BY <1>2 DEF BlocksRead
<1>6. s.line \in 1 .. Len(f) + 1
  BY <1>1
<1>7. s.started \in BOOLEAN /\ s.state # "READING"
  OBVIOUS
<1> QED
  BY <1>3, <1>4, <1>5, <1>6, <1>7 DEF PlaceInv

-----------------------------------------------------------------------------
(* The files that are accepted to their end are those that are sound.      *)

\* The end of the file raises no exception, but for values of Bounds.
Ends(s) == s.state = "INITIAL" /\ s.started /\ s.site = Len(Sites[s.unit])

LEMMA EndIsSound ==
  ASSUME NEW f \in Seq(Lines), NEW s, PlaceInv(f, s), s.line = Len(f) + 1, Ends(s)
  PROVE  Sound(f)
<1>1. Len(f) \in Nat /\ DOMAIN f = 1 .. Len(f) /\ s.line - 1 = Len(f)
  OBVIOUS
<1>2. Blocks(f) # {}
  BY DEF PlaceInv, BlocksRead, Ends
<1>3. ASSUME NEW d \in Blocks(f) PROVE Whole(f, d)
  <2>1. d < s.line
    BY <1>1, BlockTyped
  <2> QED
    BY <2>1, BlocksBehind DEF Ends
<1>4. ASSUME NEW i \in DOMAIN f, f[i].kind = "report"
      PROVE  \E e \in DOMAIN f : Within(f, i, e) /\ f[e].kind = "endreport"
  BY <1>1, <1>4 DEF PlaceInv, ReportsRead, Ends, Over
<1>5. ASSUME NEW i \in DOMAIN f, NEW j \in DOMAIN f, Within(f, i, j), f[j].kind # "endreport"
      PROVE  LineAllowed(f, i, j)
  BY <1>1, <1>5 DEF PlaceInv, LinesRead
<1> QED
  BY <1>2, <1>3, <1>4, <1>5 DEF Sound, LineAllowed

\* In a sound file, a block that is behind the reader, or that the reader ends,
\* has been read to its end.
LEMMA SoundBlock ==
  ASSUME NEW f \in Seq(Lines), NEW s, PlaceInv(f, s), Sound(f), s.state # "READING"
  PROVE  /\ s.started => s.site = Len(Sites[s.unit])
         /\ \A d \in Blocks(f) : d < s.line => d + Size(f, d) + 1 < s.line
<1>1. s.line \in Nat /\ BlocksRead(f, s)
  BY DEF PlaceInv
<1>2. CASE ~s.started
  BY <1>1, <1>2, BlockTyped DEF BlocksRead
<1>3. CASE s.started
  <2>1. PICK b \in Blocks(f) : IsCurrent(f, s, b) /\ WholeBefore(f, s.line, b)
    BY <1>1, <1>3 DEF BlocksRead
  <2>2. /\ b \in Nat /\ Size(f, b) \in Nat /\ Size(f, b) = Len(Sites[s.unit])
        /\ s.site \in 0 .. Size(f, b) /\ b + s.site + 1 < s.line
        /\ f[b + s.site + 1].kind = "endsamples"
    BY <2>1, BlockTyped DEF IsCurrent
  <2>3. Whole(f, b)
    BY DEF Sound
  <2>4. s.site = Size(f, b)
    <3>1. SUFFICES ASSUME s.site # Size(f, b) PROVE FALSE
      OBVIOUS
    <3>2. s.site + 1 \in 1 .. Size(f, b)
      BY <2>2, <3>1
    <3>3. f[b + (s.site + 1)].kind = "counts"
      BY <2>3, <3>2 DEF Whole
    <3>4. b + (s.site + 1) = b + s.site + 1
      BY <2>2
    <3> QED
      BY <2>2, <3>3, <3>4
  <2> QED
    BY <2>2, <2>4, BlocksBehind
<1> QED
  BY <1>2, <1>3

\* The report of a line of a sound file ends on that line or after it.
LEMMA SoundReport ==
  ASSUME NEW f \in Seq(Lines), NEW s, PlaceInv(f, s), Sound(f), s.state # "INITIAL",
         NEW o, Within(f, o, s.line)
  PROVE  s.line \in DOMAIN f /\ f[s.line].kind # "report"
<1>1. s.line \in Nat /\ ReportsRead(f, s) /\ Len(f) \in Nat /\ DOMAIN f = 1 .. Len(f)
      /\ s.line <= Len(f) + 1
  BY DEF PlaceInv
<1>2. o \in DOMAIN f /\ o < s.line /\ f[o].kind = "report"
  BY <1>1 DEF Within
<1>3. PICK e \in DOMAIN f : Within(f, o, e) /\ f[e].kind = "endreport"
  BY <1>2 DEF Sound
<1>4. e >= s.line
  <2>1. SUFFICES ASSUME e < s.line PROVE FALSE
    BY <1>1
  <2>2. Over(f, o, s.line)
    BY <1>1, <1>3, <2>1 DEF Over
  <2> QED
    BY <1>1, <2>2, OverStays
<1>5. s.line \in DOMAIN f
  BY <1>1, <1>2, <1>4
<1>6. f[s.line].kind # "report"
  <2>1. CASE e = s.line
    BY <1>3, <2>1
  <2>2. CASE e # s.line
    <3>1. s.line \in o + 1 .. e - 1
      BY <1>1, <1>2, <1>4, <2>2
    <3> QED
      BY <1>3, <3>1 DEF Within
  <2> QED
    BY <2>1, <2>2
<1> QED
  BY <1>5, <1>6

\* What Accepts asks of a line, but for Storable.
Acceptable(s, l) ==
  \/ s.state = "INITIAL"
  \/ s.state = "DISCARD" /\ l.kind \notin {"report", "samples", "endsamples"}
  \/ s.state = "REPORT" /\ l.kind = "endreport"
  \/ /\ s.state = "REPORT" /\ l.kind = "samples"
     /\ s.started => s.site = Len(Sites[s.unit])
  \/ s.state = "READING" /\ l.kind = "endsamples"
  \/ /\ s.state = "READING" /\ l.kind = "counts"
     /\ s.site < Len(Sites[s.unit]) /\ Len(l.counts) = Fields[s.unit]

LEMMA SoundIsAccepted ==
  ASSUME NEW f \in Seq(Lines), NEW s, PlaceInv(f, s), Sound(f)
  PROVE  /\ s.line \in DOMAIN f => Acceptable(s, f[s.line])
         /\ s.line = Len(f) + 1 => Ends(s)
<1> DEFINE n == s.line
           l == f[n]
<1>1. n \in Nat \ {0} /\ Len(f) \in Nat /\ DOMAIN f = 1 .. Len(f)
      /\ ReportsRead(f, s) /\ BlocksRead(f, s)
  BY DEF PlaceInv
<1>2. CASE s.state = "INITIAL"
  <2>1. n = Len(f) + 1 => s.started
    <3>1. SUFFICES ASSUME n = Len(f) + 1, ~s.started PROVE FALSE
      OBVIOUS
    <3>2. PICK b \in Blocks(f) : TRUE
      BY DEF Sound
    <3>3. b >= n
      BY <1>1, <3>1 DEF BlocksRead
    <3> QED
      BY <1>1, <3>1, <3>3, BlockTyped
  <2> QED
    BY <1>2, <2>1, SoundBlock DEF Ends, Acceptable
<1>3. CASE s.state # "INITIAL"
  <2>1. PICK o : /\ Within(f, o, n)
                 /\ f[o].id = "samples" <=> s.state \in {"REPORT", "READING"}
    BY <1>1, <1>3, PlaceReport
  <2>2. n \in DOMAIN f /\ l.kind # "report" /\ n # Len(f) + 1
    BY <1>1, <1>3, <2>1, SoundReport
  <2>3. l.kind # "endreport" => LineAllowed(f, o, n)
    <3>1. o \in DOMAIN f
      BY <1>1, <2>1, <2>2 DEF Within
    <3> QED
      BY <2>1, <2>2, <3>1 DEF Sound, LineAllowed
  <2>4. CASE s.state = "DISCARD"
    BY <2>1, <2>2, <2>3, <2>4 DEF LineAllowed, Acceptable
  <2>5. CASE s.state = "REPORT" /\ l.kind = "endreport"
    BY <2>2, <2>5 DEF Acceptable
  <2>6. CASE s.state = "REPORT" /\ l.kind # "endreport"
    <3>1. PICK b \in Blocks(f) : n \in b .. b + Size(f, b) + 1
      BY <2>1, <2>3, <2>6 DEF LineAllowed
    <3>2. b = n
      <4>1. b \in Nat /\ Size(f, b) \in Nat
        BY BlockTyped
      <4>2. b < n => b + Size(f, b) + 1 < n
        BY <2>6, SoundBlock
      <4> HIDE DEF n
      <4> QED
        BY <1>1, <3>1, <4>1, <4>2
    <3>3. l.kind = "samples"
      BY <3>2, BlockTyped
    <3> QED
      BY <2>2, <2>6, <3>3, SoundBlock DEF Acceptable
  <2>7. CASE s.state = "READING"
    <3>1. PICK b \in Blocks(f) : IsCurrent(f, s, b)
      BY <2>7 DEF PlaceInv, BlocksRead
    <3>2. /\ b \in Nat /\ Size(f, b) \in Nat /\ Size(f, b) = Len(Sites[s.unit])
          /\ s.site \in 0 .. Size(f, b) /\ n = b + s.site + 1 /\ s.unit = f[b].unit
      BY <2>7, <3>1, BlockTyped DEF IsCurrent
    <3>3. Whole(f, b)
      BY DEF Sound
    <3>4. CASE s.site = Size(f, b)
      <4>1. l.kind = "endsamples"
        BY <3>2, <3>3, <3>4 DEF Whole
      <4> QED
        BY <2>2, <2>7, <4>1 DEF Acceptable
    <3>5. CASE s.site # Size(f, b)
      <4>1. s.site + 1 \in 1 .. Size(f, b) /\ b + (s.site + 1) = n
        <5> DEFINE site == s.site
                   size == Size(f, b)
        <5>1. site \in 0 .. size /\ size \in Nat /\ b \in Nat /\ n = b + site + 1 /\ site # size
          BY <3>2, <3>5, Zenon
        <5> HIDE DEF n, l, site, size
        <5>2. site + 1 \in 1 .. size /\ b + (site + 1) = n
          BY <5>1
        <5> QED
          BY <5>2, Zenon DEF site, size
      <4>2. l.kind = "counts" /\ Len(l.counts) = Fields[f[b].unit]
        <5> HIDE DEF n
        <5> QED
          BY <3>3, <4>1 DEF Whole
      <4>3. s.site < Size(f, b)
        BY <3>2, <3>5
      <4> QED
        BY <2>2, <2>7, <3>2, <4>2, <4>3, Zenon DEF Acceptable
    <3> QED
      BY <3>4, <3>5
  <2> QED
    BY <1>1, <1>3, <2>4, <2>5, <2>6, <2>7 DEF ReportsRead
<1> QED
  BY <1>2, <1>3

-----------------------------------------------------------------------------
(* Rows and values as sums.                                                *)

Keys == [run : Nat, site : Nat, field : Nat, thread : Nat]

Count(rows, k) == IF k \in DOMAIN rows THEN rows[k] ELSE 0

\* Storing adds, unless an unshared block has a value for a row that is there.
LEMMA StoreAdds ==
  ASSUME NEW rows, NEW k,
         k \in DOMAIN rows => rows[k] \in Nat,
         k \in DOMAIN reader.values => reader.values[k] \in Nat,
         k \in DOMAIN rows /\ k \in DOMAIN reader.values => reader.shared
  PROVE  Count(Store(rows), k) = Count(rows, k) + Count(reader.values, k)
<1> DEFINE updated == IF reader.shared THEN Update(rows, reader.values) ELSE rows
<1>1. DOMAIN updated = DOMAIN rows
  BY DEF Update
<1>2. k \in DOMAIN rows =>
        updated[k] = IF k \in DOMAIN reader.values THEN rows[k] + reader.values[k] ELSE rows[k]
  BY DEF Update
<1>3. Store(rows) = Insert(updated, reader.values)
  BY DEF Store
<1> HIDE DEF updated
<1>4. /\ DOMAIN Store(rows) = DOMAIN rows \cup DOMAIN reader.values
      /\ k \in DOMAIN Store(rows) =>
           Store(rows)[k] = IF k \in DOMAIN rows THEN updated[k] ELSE reader.values[k]
  BY <1>1, <1>3 DEF Insert
<1> QED
  BY <1>2, <1>4 DEF Count

LEMMA StoreElsewhere ==
  ASSUME NEW rows, NEW k, k \notin DOMAIN reader.values
  PROVE  Count(Store(rows), k) = Count(rows, k)
<1> DEFINE updated == IF reader.shared THEN Update(rows, reader.values) ELSE rows
<1>1. DOMAIN updated = DOMAIN rows
  BY DEF Update
<1>2. k \in DOMAIN rows => updated[k] = rows[k]
  BY DEF Update
<1>3. Store(rows) = Insert(updated, reader.values)
  BY DEF Store
<1> HIDE DEF updated
<1> QED
  BY <1>1, <1>2, <1>3 DEF Insert, Count

LEMMA StoreDomain ==
  ASSUME NEW rows
  PROVE  DOMAIN Store(rows) = DOMAIN rows \cup DOMAIN reader.values
  BY DEF Store, Insert, Update

\* The site whose counts come next.
SiteHere == Sites[reader.unit][reader.site + 1]

LEMMA ValuesAre ==
  ASSUME NEW c, RunOf(c) \in Nat, NEW counts \in Seq(Nat),
         SiteHere \in Nat, reader.thread \in Nat
  PROVE  /\ \A k \in DOMAIN Values(c, counts) :
              /\ k \in Keys /\ k.run = RunOf(c) /\ k.site = SiteHere /\ k.thread = reader.thread
              /\ Values(c, counts)[k] \in Nat
         /\ \A k \in Keys : k.run = RunOf(c) =>
              Count(Values(c, counts), k) =
                IF k.field \in DOMAIN counts /\ reader.thread = k.thread /\ SiteHere = k.site
                THEN counts[k.field] ELSE 0
<1> DEFINE key(i) == [run |-> RunOf(c), site |-> SiteHere, field |-> i, thread |-> reader.thread]
           kept == {j \in DOMAIN counts : counts[j] # 0 \/ reader.unit \in Bounds}
           values == Values(c, counts)
<1>1. values = [k \in {key(i) : i \in kept} |-> counts[k.field]]
  BY DEF Values, SiteHere
<1>2. \A i \in kept : i \in Nat /\ counts[i] \in Nat
  OBVIOUS
<1>3. \A i \in Nat : key(i) \in Keys /\ key(i).run = RunOf(c) /\ key(i).site = SiteHere
                     /\ key(i).field = i /\ key(i).thread = reader.thread
  BY DEF Keys
<1> HIDE DEF values
<1>4. DOMAIN values = {key(i) : i \in kept} /\ \A k \in DOMAIN values : values[k] = counts[k.field]
  BY <1>1
<1>5. ASSUME NEW k \in DOMAIN values
      PROVE  /\ k \in Keys /\ k.run = RunOf(c) /\ k.site = SiteHere /\ k.thread = reader.thread
             /\ values[k] \in Nat
  <2>1. PICK i \in kept : k = key(i)
    BY <1>4
  <2> QED
    BY <1>2, <1>3, <1>4, <2>1
<1>6. ASSUME NEW k \in Keys, k.run = RunOf(c)
      PROVE  Count(values, k) =
               IF k.field \in DOMAIN counts /\ reader.thread = k.thread /\ SiteHere = k.site
               THEN counts[k.field] ELSE 0
  <2>1. k.thread = reader.thread /\ k.site = SiteHere => k = key(k.field)
    BY <1>6 DEF Keys
  <2>2. k \in DOMAIN values <=> k.thread = reader.thread /\ k.site = SiteHere /\ k.field \in kept
    <3>1. ASSUME k \in DOMAIN values
          PROVE  k.thread = reader.thread /\ k.site = SiteHere /\ k.field \in kept
      <4>1. PICK i \in kept : k = key(i)
        BY <1>4, <3>1
      <4> QED
        BY <1>2, <1>3, <4>1
    <3>2. ASSUME k.thread = reader.thread, k.site = SiteHere, k.field \in kept
          PROVE  k \in DOMAIN values
      BY <1>4, <2>1, <3>2
    <3> QED
      BY <3>1, <3>2
  <2>3. k.field \in DOMAIN counts /\ k.field \notin kept => counts[k.field] = 0
    OBVIOUS
  <2> HIDE DEF kept
  <2>4. k.field \in kept => k.field \in DOMAIN counts
    BY DEF kept
  <2> QED
    BY <1>4, <2>2, <2>3, <2>4 DEF Count
<1> QED
  BY <1>5, <1>6 DEF values

\* A line of counts in a block counts for its site and thread.
LEMMA CountedHere ==
  ASSUME NEW f \in Seq(Lines), NEW s, PlaceInv(f, s), s.line \in DOMAIN f,
         s.state = "READING", f[s.line].kind = "counts", s.site < Len(Sites[s.unit]), NEW k
  PROVE  Counted(f, s.line, k) =
           IF /\ k.field \in DOMAIN f[s.line].counts /\ s.thread = k.thread
              /\ Sites[s.unit][s.site + 1] = k.site
           THEN f[s.line].counts[k.field] ELSE 0
<1>1. PICK b \in Blocks(f) : IsCurrent(f, s, b) /\ WholeBefore(f, s.line, b)
  BY DEF PlaceInv, BlocksRead
<1>2. /\ b \in Nat /\ Size(f, b) \in Nat /\ Size(f, b) = Len(Sites[f[b].unit])
      /\ s.line = b + s.site + 1 /\ s.site \in 0 .. Size(f, b)
      /\ s.unit = f[b].unit /\ s.thread = f[b].thread
  BY <1>1, BlockTyped DEF IsCurrent
<1>3. s.line - b = s.site + 1 /\ s.line - b \in 1 .. Size(f, b) /\ s.line \in Nat
  <2>1. s.site < Size(f, b)
    BY <1>2
  <2>2. ASSUME NEW m, NEW n, NEW z \in Nat, m \in 0 .. z, m < z, n = b + m + 1
        PROVE  n - b = m + 1 /\ n - b \in 1 .. z /\ n \in Nat
    BY <1>2, <2>2
  <2> QED
    BY <1>2, <2>1, <2>2
<1>4. ASSUME NEW d \in Blocks(f), s.line - d \in 1 .. Size(f, d) PROVE d = b
  <2>1. d \in Nat /\ Size(f, d) \in Nat
    BY BlockTyped
  <2>2. SUFFICES ASSUME d # b PROVE FALSE
    OBVIOUS
  <2>3. d < s.line
    BY <1>3, <1>4, <2>1
  <2>4. d + Size(f, d) + 1 < b
    BY <1>1, <2>2, <2>3 DEF WholeBefore
  <2> QED
    BY <1>2, <1>3, <1>4, <2>1, <2>4
<1>5. (\E d \in Blocks(f) : /\ s.line - d \in 1 .. Size(f, d) /\ f[d].thread = k.thread
                            /\ Sites[f[d].unit][s.line - d] = k.site)
        <=> s.thread = k.thread /\ Sites[s.unit][s.site + 1] = k.site
  BY <1>2, <1>3, <1>4
<1> QED
  BY <1>5 DEF Counted

\* No other line counts.
LEMMA CountedNowhere ==
  ASSUME NEW f \in Seq(Lines), NEW s, PlaceInv(f, s), s.line \in DOMAIN f, NEW k,
         \/ f[s.line].kind # "counts"
         \/ s.state # "READING" /\ (s.started => s.site = Len(Sites[s.unit]))
  PROVE  Counted(f, s.line, k) = 0
<1>1. CASE f[s.line].kind # "counts"
  BY <1>1 DEF Counted
<1>2. CASE s.state # "READING" /\ (s.started => s.site = Len(Sites[s.unit]))
  <2>1. ASSUME NEW d \in Blocks(f), s.line - d \in 1 .. Size(f, d) PROVE FALSE
    <3>1. d \in Nat /\ Size(f, d) \in Nat /\ s.line \in Nat
      BY BlockTyped DEF PlaceInv
    <3>2. d < s.line
      BY <2>1, <3>1
    <3>3. d + Size(f, d) + 1 < s.line
      BY <1>2, <3>2, BlocksBehind
    <3> QED
      BY <2>1, <3>1, <3>3
  <2> QED
    BY <2>1 DEF Counted
<1> QED
  BY <1>1, <1>2

-----------------------------------------------------------------------------
(* The rows and values of the run whose number is r, on line s.line.       *)

ValuesOf(s, r) ==
  \A k \in DOMAIN s.values :
    /\ k \in Keys /\ k.run = r /\ k.thread = s.thread
    /\ \E m \in 1 .. s.site : k.site = Sites[s.unit][m]

RowsOf(rows, s, r) ==
  \A k \in DOMAIN rows : k.run = r =>
    \E u \in s.observed :
      /\ u # s.unit \/ s.shared
      /\ \E m \in DOMAIN Sites[u] : k.site = Sites[u][m]

\* Unless the last block has ended before its time, rows and values together are
\* what the lines have counted so far.
SumsOf(f, rows, s, r) ==
  s.state = "READING" \/ (s.started => s.site = Len(Sites[s.unit])) =>
    \A k \in Keys : k.run = r =>
      Count(rows, k) + Count(s.values, k) = CountedUpTo(f, k)[s.line - 1]

ReadingInv(f, rows, s, r) ==
  /\ PlaceInv(f, s)
  /\ s.observed \subseteq Units /\ (s.started => s.unit \in s.observed)
  /\ ValuesOf(s, r) /\ RowsOf(rows, s, r) /\ SumsOf(f, rows, s, r)

\* What ReadLine does, in terms of the steps above.
LEMMA LineReads ==
  ASSUME TypeInv, NEW c, NEW l, ReadLine(c, l)
  PROVE  /\ Reads(reader, reader', l)
         /\ Counting(reader, reader', l) =>
              reader'.values = Insert(reader.values, Values(c, l.counts))
         /\ work'.runs = work.runs
         /\ work'.rows = IF Heading(reader, reader', l) THEN Store(work.rows) ELSE work.rows
<1>1. /\ reader = [line |-> reader.line, state |-> reader.state, started |-> reader.started,
                   unit |-> reader.unit, thread |-> reader.thread, site |-> reader.site,
                   values |-> reader.values, observed |-> reader.observed,
                   shared |-> reader.shared]
      /\ work = [exists |-> work.exists, runs |-> work.runs, rows |-> work.rows]
  BY DEF TypeInv, IsReader, IsTables
<1>2. CASE IsHeader(l)
  <2>1. /\ reader.state = "REPORT" /\ l.kind = "samples"
        /\ reader.started => reader.site = Len(Sites[reader.unit])
    BY <1>2 DEF ReadLine, Accepts, IsHeader, IsCounts, AllRead
  <2>2. reader' = [line |-> reader.line + 1, state |-> "READING", started |-> TRUE,
                   unit |-> l.unit, thread |-> l.thread, site |-> 0, values |-> <<>>,
                   observed |-> reader.observed \cup {l.unit},
                   shared |-> l.unit \in reader.observed]
    BY <1>2, Zenon DEF ReadLine, StartBlock
  <2>3. Heading(reader, reader', l)
    BY <2>1, <2>2 DEF Heading
  <2>4. work' = [exists |-> work.exists, runs |-> work.runs, rows |-> Store(work.rows)]
    BY <1>1, <1>2 DEF ReadLine
  <2> QED
    BY <2>1, <2>3, <2>4 DEF Reads, Counting
<1>3. CASE IsCounts(l)
  <2>1. /\ reader.state = "READING" /\ l.kind = "counts"
        /\ reader.site < Len(Sites[reader.unit]) /\ Len(l.counts) = Fields[reader.unit]
    BY <1>3 DEF ReadLine, Accepts, IsHeader, IsCounts
  <2>2. ~IsHeader(l) /\ work' = work
    BY <2>1 DEF ReadLine, IsHeader
  <2>3. reader' = [line |-> reader.line + 1, state |-> reader.state,
                   started |-> reader.started, unit |-> reader.unit,
                   thread |-> reader.thread, site |-> reader.site + 1,
                   values |-> Insert(reader.values, Values(c, l.counts)),
                   observed |-> reader.observed, shared |-> reader.shared]
    <3>1. reader' = [reader EXCEPT !.line = @ + 1, !.site = @ + 1,
                       !.values = Insert(@, Values(c, l.counts))]
      BY <1>3, <2>2 DEF ReadLine
    <3> QED
      BY <1>1, <3>1
  <2>4. Counting(reader, reader', l)
    BY <2>1, <2>3 DEF Counting
  <2> QED
    BY <2>1, <2>2, <2>3, <2>4 DEF Reads, Heading
<1>4. CASE ~IsHeader(l) /\ ~IsCounts(l)
  <2>1. work' = work /\ Accepts(l)
    BY <1>4 DEF ReadLine
  <2>2. reader' = [line |-> reader.line + 1, state |-> Transition(l),
                   started |-> reader.started, unit |-> reader.unit,
                   thread |-> reader.thread, site |-> reader.site,
                   values |-> reader.values, observed |-> reader.observed,
                   shared |-> reader.shared]
    <3>1. reader' = [reader EXCEPT !.line = @ + 1, !.state = Transition(l)]
      BY <1>4 DEF ReadLine
    <3> QED
      BY <1>1, <3>1
  <2>3. Kept(reader, reader') /\ reader'.state = Transition(l)
    BY <2>2 DEF Kept
  <2>4. Outside(reader, reader', l) \/ Skipping(reader, reader', l)
          \/ Closing(reader, reader', l) \/ Ending(reader, reader', l)
    BY <1>4, <2>1, <2>3
    DEF Accepts, Transition, IsHeader, IsCounts, Outside, Skipping, Closing, Ending
  <2> QED
    BY <1>4, <2>1, <2>4 DEF Reads, Heading, Counting, IsHeader, IsCounts
<1> QED
  BY <1>2, <1>3, <1>4

LEMMA SiteOfUnit ==
  ASSUME NEW u \in Units, NEW v \in Units, NEW m \in DOMAIN Sites[u], NEW n \in DOMAIN Sites[v],
         Sites[u][m] = Sites[v][n]
  PROVE  u = v /\ m = n
  BY IngestionAssumption

\* A value is never stored beside the row of an unshared unit.
LEMMA StoreOf ==
  ASSUME TypeInv, NEW f \in Seq(Lines), NEW r, ReadingInv(f, work.rows, reader, r),
         NEW k \in Keys, k.run = r
  PROVE  Count(Store(work.rows), k) = Count(work.rows, k) + Count(reader.values, k)
<1>1. ASSUME k \in DOMAIN work.rows, k \in DOMAIN reader.values PROVE reader.shared
  <2>1. PICK u \in reader.observed :
          /\ u # reader.unit \/ reader.shared
          /\ \E m \in DOMAIN Sites[u] : k.site = Sites[u][m]
    BY <1>1 DEF ReadingInv, RowsOf
  <2>2. PICK m \in DOMAIN Sites[u] : k.site = Sites[u][m]
    BY <2>1
  <2>3. reader.started
    BY <1>1 DEF TypeInv, IsReader
  <2>4. PICK b \in Blocks(f) : IsCurrent(f, reader, b)
    BY <2>3 DEF ReadingInv, PlaceInv, BlocksRead
  <2>5. /\ reader.unit \in Units /\ reader.site \in 0 .. Len(Sites[reader.unit])
        /\ Sites[reader.unit] \in Seq(Nat)
    BY <2>4, BlockTyped, IngestionAssumption DEF IsCurrent
  <2>6. PICK n \in 1 .. reader.site : k.site = Sites[reader.unit][n]
    BY <1>1 DEF ReadingInv, ValuesOf
  <2>7. n \in DOMAIN Sites[reader.unit]
    BY <2>5, <2>6
  <2>8. u = reader.unit
    BY <2>2, <2>5, <2>6, <2>7, SiteOfUnit DEF ReadingInv
  <2> QED
    BY <2>1, <2>8
<1>2. k \in DOMAIN work.rows => work.rows[k] \in Nat
  BY DEF TypeInv, IsTables
<1>3. k \in DOMAIN reader.values => reader.values[k] \in Nat
  BY DEF TypeInv, IsReader
<1> QED
  BY <1>1, <1>2, <1>3, StoreAdds

\* The values of a line of counts are those of a site that had none.
LEMMA CountingValues ==
  ASSUME TypeInv, NEW c, NEW f \in Seq(Lines), NEW r \in Nat, RunOf(c) = r,
         ReadingInv(f, work.rows, reader, r), reader.line \in DOMAIN f,
         Counting(reader, reader', f[reader.line]),
         reader'.values = Insert(reader.values, Values(c, f[reader.line].counts))
  PROVE  /\ ValuesOf(reader', r)
         /\ \A k \in Keys : k.run = r =>
              Count(reader'.values, k) = Count(reader.values, k) + Counted(f, reader.line, k)
<1> DEFINE counts == f[reader.line].counts
           values == Values(c, counts)
<1>1. PlaceInv(f, reader) /\ ValuesOf(reader, r)
  BY DEF ReadingInv
<1>2. counts \in Seq(Nat) /\ reader.state = "READING"
  BY LineTyped DEF Counting
<1>3. PICK b \in Blocks(f) : IsCurrent(f, reader, b)
  BY <1>1, <1>2 DEF PlaceInv, BlocksRead
<1>4. /\ reader.thread \in Nat /\ reader.unit \in Units /\ Sites[reader.unit] \in Seq(Nat)
      /\ reader.site \in Nat /\ reader.site < Len(Sites[reader.unit])
      /\ reader'.site = reader.site + 1 /\ reader'.unit = reader.unit
      /\ reader'.thread = reader.thread
  BY <1>3, BlockTyped, IngestionAssumption DEF IsCurrent, Counting
<1>5. reader.site + 1 \in DOMAIN Sites[reader.unit] /\ SiteHere \in Nat
  <2>1. reader.site + 1 \in DOMAIN Sites[reader.unit]
    BY <1>4
  <2>2. reader.unit \in Units
    BY <1>4
  <2> QED
    BY <2>1, <2>2, SiteTyped DEF SiteHere
<1>6. /\ \A k \in DOMAIN values :
           /\ k \in Keys /\ k.run = r /\ k.site = SiteHere /\ k.thread = reader.thread
           /\ values[k] \in Nat
      /\ \A k \in Keys : k.run = r =>
           Count(values, k) =
             IF k.field \in DOMAIN counts /\ reader.thread = k.thread /\ SiteHere = k.site
             THEN counts[k.field] ELSE 0
  <2>1. /\ counts \in Seq(Nat) /\ reader.thread \in Nat
        /\ SiteHere \in Nat
    BY <1>2, <1>4, <1>5
  <2> HIDE DEF counts
  <2> QED
    BY <2>1, ValuesAre
<1> HIDE DEF values
<1>7. /\ DOMAIN reader'.values = DOMAIN reader.values \cup DOMAIN values
      /\ \A k \in DOMAIN reader'.values :
           reader'.values[k] = IF k \in DOMAIN reader.values THEN reader.values[k] ELSE values[k]
  BY DEF Insert, values
<1>8. ValuesOf(reader', r)
  <2>1. ASSUME NEW k \in DOMAIN reader.values
        PROVE  \E m \in 1 .. reader.site + 1 : k.site = Sites[reader.unit][m]
    <3>1. PICK m \in 1 .. reader.site : k.site = Sites[reader.unit][m]
      BY <1>1 DEF ValuesOf
    <3>2. m \in 1 .. reader.site + 1
      BY <1>4
    <3> QED
      BY <3>1, <3>2
  <2>2. reader.site + 1 \in 1 .. reader.site + 1
    BY <1>4
  <2>3. ASSUME NEW k \in DOMAIN reader'.values
        PROVE  /\ k \in Keys /\ k.run = r /\ k.thread = reader.thread
               /\ \E m \in 1 .. reader.site + 1 : k.site = Sites[reader.unit][m]
    <3>1. CASE k \in DOMAIN reader.values
      BY <1>1, <2>1, <3>1 DEF ValuesOf
    <3>2. CASE k \in DOMAIN values
      BY <1>6, <2>2, <3>2 DEF SiteHere
    <3> QED
      BY <1>7, <3>1, <3>2
  <2> QED
    BY <1>4, <2>3 DEF ValuesOf
<1>9. ASSUME NEW k \in Keys, k.run = r
      PROVE  Count(reader'.values, k) = Count(reader.values, k) + Counted(f, reader.line, k)
  <2>1. Count(values, k) = Counted(f, reader.line, k)
    <3>1. /\ f[reader.line].kind = "counts" /\ reader.site < Len(Sites[reader.unit])
      BY DEF Counting
    <3>2. Counted(f, reader.line, k) =
            IF k.field \in DOMAIN counts /\ reader.thread = k.thread /\ SiteHere = k.site
            THEN counts[k.field] ELSE 0
      BY <1>1, <1>2, <3>1, CountedHere DEF SiteHere
    <3> HIDE DEF counts
    <3> QED
      BY <1>6, <1>9, <3>2
  <2>2. ~(k \in DOMAIN reader.values /\ k \in DOMAIN values)
    <3>1. SUFFICES ASSUME k \in DOMAIN reader.values, k \in DOMAIN values PROVE FALSE
      OBVIOUS
    <3>2. PICK m \in 1 .. reader.site : k.site = Sites[reader.unit][m]
      BY <1>1, <3>1 DEF ValuesOf
    <3>3. m \in DOMAIN Sites[reader.unit] /\ m # reader.site + 1
      <4> DEFINE sites == Sites[reader.unit]
                 last == reader.site
      <4>1. /\ sites \in Seq(Nat) /\ last \in Nat /\ last < Len(sites)
            /\ m \in 1 .. last
        BY <1>4
      <4> HIDE DEF sites, last
      <4>2. m \in DOMAIN sites /\ m # last + 1
        BY <4>1
      <4> QED
        BY <4>2 DEF sites, last
    <3>4. k.site = Sites[reader.unit][reader.site + 1]
      BY <1>6, <3>1 DEF SiteHere
    <3>5. Sites[reader.unit][m] = Sites[reader.unit][reader.site + 1]
      BY <3>2, <3>4
    <3>6. m = reader.site + 1
      <4>1. /\ reader.unit \in Units
            /\ m \in DOMAIN Sites[reader.unit] /\ reader.site + 1 \in DOMAIN Sites[reader.unit]
        BY <1>4, <1>5, <3>3
      <4> QED
        BY <3>5, <4>1, SiteOfUnit
    <3> QED
      BY <3>3, <3>6
  <2>3. k \in DOMAIN reader.values => reader.values[k] \in Nat
    BY DEF TypeInv, IsReader
  <2>4. k \in DOMAIN values => values[k] \in Nat
    BY <1>6
  <2> QED
    BY <1>7, <2>1, <2>2, <2>3, <2>4 DEF Count
<1> QED
  BY <1>8, <1>9

\* Each line that is read keeps rows and values the sums that they are.
LEMMA SumsStep ==
  ASSUME TypeInv, NEW c, NEW f \in Seq(Lines), NEW r \in Nat, RunOf(c) = r,
         ReadingInv(f, work.rows, reader, r), reader.line \in DOMAIN f,
         ReadLine(c, f[reader.line])
  PROVE  SumsOf(f, work'.rows, reader', r)
<1> DEFINE n == reader.line
           l == f[n]
           Add(k) == Counted(f, n, k)
           Total(k) == Count(work.rows, k) + Count(reader.values, k)
           NewTotal(k) == Count(work'.rows, k) + Count(reader'.values, k)
<1>1. /\ Reads(reader, reader', l)
      /\ Counting(reader, reader', l) =>
           reader'.values = Insert(reader.values, Values(c, l.counts))
      /\ work'.rows = IF Heading(reader, reader', l) THEN Store(work.rows) ELSE work.rows
  BY LineReads
<1>2. /\ PlaceInv(f, reader) /\ n \in Nat /\ reader'.line = n + 1
      /\ SumsOf(f, work.rows, reader, r)
  BY <1>1 DEF ReadingInv, PlaceInv, Reads, Outside, Skipping, Closing, Heading, Ending,
              Counting, Kept
<1>3. \A k : /\ Count(work.rows, k) \in Nat /\ Count(reader.values, k) \in Nat
             /\ Add(k) \in Nat
  <2>1. \A k : Count(work.rows, k) \in Nat
    BY DEF TypeInv, IsTables, Count
  <2>2. \A k : Count(reader.values, k) \in Nat
    BY DEF TypeInv, IsReader, Count
  <2> QED
    BY <2>1, <2>2, CountedType
<1>4. \A k : CountedUpTo(f, k)[n] = CountedUpTo(f, k)[n - 1] + Add(k)
  BY CountedUpToStep
<1> DEFINE ToldBefore == reader.state = "READING"
                           \/ (reader.started => reader.site = Len(Sites[reader.unit]))
           ToldAfter == reader'.state = "READING"
                          \/ (reader'.started => reader'.site = Len(Sites[reader'.unit]))
<1>5. ToldAfter => ToldBefore
  BY <1>1 DEF Reads, Outside, Skipping, Closing, Heading, Ending, Counting, Kept
<1>6. ASSUME ToldAfter, NEW k \in Keys, k.run = r PROVE NewTotal(k) = Total(k) + Add(k)
  <2>1. CASE Counting(reader, reader', l)
    <3>1. Count(reader'.values, k) = Count(reader.values, k) + Add(k)
      BY <1>1, <1>6, <2>1, CountingValues
    <3>2. work'.rows = work.rows
      BY <1>1, <2>1 DEF Counting, Heading
    <3> QED
      BY <1>3, <3>1, <3>2
  <2>2. CASE ~Counting(reader, reader', l)
    <3>1. \/ l.kind # "counts"
          \/ reader.state # "READING"
               /\ (reader.started => reader.site = Len(Sites[reader.unit]))
      BY <1>1, <1>5, <1>6, <2>2 DEF Reads, Outside, Skipping, Closing, Heading, Ending
    <3>2. Add(k) = 0
      BY <1>2, <3>1, CountedNowhere
    <3>3. NewTotal(k) = Total(k)
      <4>1. CASE Heading(reader, reader', l)
        <5>1. Count(reader'.values, k) = 0
          BY <4>1 DEF Heading, Count
        <5>2. Count(work'.rows, k) = Total(k)
          BY <1>1, <1>6, <4>1, StoreOf
        <5> QED
          BY <1>3, <5>1, <5>2
      <4>2. CASE ~Heading(reader, reader', l)
        <5>1. work'.rows = work.rows /\ reader'.values = reader.values
          BY <1>1, <2>2, <4>2 DEF Reads, Outside, Skipping, Closing, Ending, Kept
        <5> QED
          BY <5>1
      <4> QED
        BY <4>1, <4>2
    <3> QED
      BY <1>3, <3>2, <3>3
  <2> QED
    BY <2>1, <2>2
<1>7. ASSUME ToldAfter, NEW k \in Keys, k.run = r
      PROVE  NewTotal(k) = CountedUpTo(f, k)[n]
  <2>1. Total(k) = CountedUpTo(f, k)[n - 1]
    BY <1>2, <1>5, <1>7 DEF SumsOf
  <2> HIDE DEF Total, NewTotal, ToldAfter
  <2> QED
    BY <1>4, <1>6, <1>7, <2>1
<1>8. n + 1 - 1 = n
  BY <1>2
<1> QED
  BY <1>2, <1>7, <1>8 DEF SumsOf

LEMMA ReadingStep ==
  ASSUME TypeInv, NEW c, NEW f \in Seq(Lines), NEW r \in Nat, RunOf(c) = r,
         ReadingInv(f, work.rows, reader, r), reader.line \in DOMAIN f,
         ReadLine(c, f[reader.line])
  PROVE  /\ ReadingInv(f, work'.rows, reader', r)
         /\ \A k : k \in DOMAIN work'.rows => k \in DOMAIN work.rows \/ (k \in Keys /\ k.run = r)
         /\ \A k : k.run # r => Count(work'.rows, k) = Count(work.rows, k)
<1> DEFINE l == f[reader.line]
<1>1. /\ Reads(reader, reader', l)
      /\ Counting(reader, reader', l) =>
           reader'.values = Insert(reader.values, Values(c, l.counts))
      /\ work'.rows = IF Heading(reader, reader', l) THEN Store(work.rows) ELSE work.rows
  BY LineReads
<1>2. /\ PlaceInv(f, reader) /\ reader.observed \subseteq Units
      /\ reader.started => reader.unit \in reader.observed
      /\ ValuesOf(reader, r) /\ RowsOf(work.rows, reader, r)
  BY DEF ReadingInv
<1>3. PlaceInv(f, reader')
  BY <1>1, <1>2, PlaceStep
<1>4. reader'.observed \subseteq Units /\ (reader'.started => reader'.unit \in reader'.observed)
  <2>1. CASE Heading(reader, reader', l)
    <3>1. l.unit \in Units
      BY <2>1, LineTyped DEF Heading
    <3> QED
      BY <1>2, <2>1, <3>1 DEF Heading
  <2>2. CASE ~Heading(reader, reader', l)
    BY <1>1, <1>2, <2>2 DEF Reads, Outside, Skipping, Closing, Ending, Counting, Kept
  <2> QED
    BY <2>1, <2>2
<1>5. ValuesOf(reader', r)
  <2>1. CASE Counting(reader, reader', l)
    BY <1>1, <2>1, CountingValues
  <2>2. CASE Heading(reader, reader', l)
    <3>1. reader'.values = <<>>
      BY <2>2 DEF Heading
    <3> QED
      BY <3>1 DEF ValuesOf
  <2>3. CASE Kept(reader, reader')
    BY <1>2, <2>3 DEF ValuesOf, Kept
  <2> QED
    BY <1>1, <2>1, <2>2, <2>3 DEF Reads, Outside, Skipping, Closing, Ending
<1>6. RowsOf(work'.rows, reader', r)
  <2>1. CASE Heading(reader, reader', l)
    <3>1. /\ DOMAIN work'.rows = DOMAIN work.rows \cup DOMAIN reader.values
          /\ reader'.observed = reader.observed \cup {l.unit} /\ reader'.unit = l.unit
          /\ reader'.shared = (l.unit \in reader.observed)
      BY <1>1, <2>1, StoreDomain DEF Heading
    <3>2. ASSUME NEW k \in DOMAIN work.rows, k.run = r
          PROVE  \E u \in reader.observed : \E m \in DOMAIN Sites[u] : k.site = Sites[u][m]
      BY <1>2, <3>2 DEF RowsOf
    <3>3. ASSUME NEW k \in DOMAIN reader.values
          PROVE  \E u \in reader.observed : \E m \in DOMAIN Sites[u] : k.site = Sites[u][m]
      <4>1. reader.started
        BY <3>3 DEF TypeInv, IsReader
      <4>2. PICK b \in Blocks(f) : IsCurrent(f, reader, b)
        BY <1>2, <4>1 DEF PlaceInv, BlocksRead
      <4>3. /\ reader.site \in 0 .. Len(Sites[reader.unit])
            /\ Sites[reader.unit] \in Seq(Nat)
        BY <4>2, BlockTyped, IngestionAssumption DEF IsCurrent
      <4>4. PICK m \in 1 .. reader.site : k.site = Sites[reader.unit][m]
        BY <1>2, <3>3 DEF ValuesOf
      <4>5. m \in DOMAIN Sites[reader.unit]
        BY <4>3
      <4> QED
        BY <1>2, <4>1, <4>4, <4>5
    <3>4. ASSUME NEW u \in reader.observed
          PROVE  u \in reader'.observed /\ (u # reader'.unit \/ reader'.shared)
      BY <3>1
    <3>5. ASSUME NEW k \in DOMAIN work'.rows, k.run = r
          PROVE  \E u \in reader.observed : \E m \in DOMAIN Sites[u] : k.site = Sites[u][m]
      BY <3>1, <3>2, <3>3, <3>5
    <3> QED
      BY <3>4, <3>5 DEF RowsOf
  <2>2. CASE ~Heading(reader, reader', l)
    <3>1. /\ work'.rows = work.rows /\ reader'.observed = reader.observed
          /\ reader'.unit = reader.unit /\ reader'.shared = reader.shared
      BY <1>1, <2>2 DEF Reads, Outside, Skipping, Closing, Ending, Counting, Kept
    <3> QED
      BY <1>2, <3>1 DEF RowsOf
  <2> QED
    BY <2>1, <2>2
<1>7. SumsOf(f, work'.rows, reader', r)
  BY SumsStep
<1>8. ASSUME NEW k, k \in DOMAIN work'.rows
      PROVE  k \in DOMAIN work.rows \/ (k \in Keys /\ k.run = r)
  BY <1>1, <1>2, <1>8, StoreDomain DEF ValuesOf
<1>9. ASSUME NEW k, k.run # r PROVE Count(work'.rows, k) = Count(work.rows, k)
  <2>1. k \notin DOMAIN reader.values
    BY <1>2, <1>9 DEF ValuesOf
  <2>2. Count(Store(work.rows), k) = Count(work.rows, k)
    BY <2>1, StoreElsewhere
  <2> QED
    BY <1>1, <2>2
<1> QED
  BY <1>3, <1>4, <1>5, <1>6, <1>7, <1>8, <1>9 DEF ReadingInv

-----------------------------------------------------------------------------
(* The invariant of the import.                                            *)

\* The rows of run i are the counts of its file.
Added(rows, i, f) ==
  Sound(f) /\ \A k \in Keys : k.run = i => Count(rows, k) = Reported(f, k)

Complete(t) ==
  /\ DOMAIN t.rows \subseteq Keys
  /\ \A i \in 1 .. Len(t.runs) : Added(t.rows, i, file[t.runs[i].case])

\* The files behind the loop have been added; only the one that is read may have
\* rows beside these.
RowsAdded ==
  /\ pc = "labels" => DOMAIN work.rows = {}
  /\ pc \in {"reports", "lines"} =>
       /\ DOMAIN work.rows \subseteq Keys
       /\ \A i \in 1 .. Len(work.runs) :
            work.runs[i].case \notin dirs => Added(work.rows, i, file[work.runs[i].case])
       /\ \A k \in DOMAIN work.rows :
            \/ work.runs[k.run].case \notin dirs
            \/ pc = "lines" /\ IsNext(work.runs[k.run].case)

FileRead ==
  pc = "lines" => \A c \in dirs : IsNext(c) => ReadingInv(file[c], work.rows, reader, RunOf(c))

CountsInv ==
  /\ RowsAdded /\ FileRead
  /\ pc \in {"makefile", "print"} \/ Published => Complete(database)

LEMMA RunOfIs ==
  ASSUME Inv, NEW c, HasRun(c)
  PROVE  /\ RunOf(c) \in Nat /\ RunOf(c) \in 1 .. Len(work.runs)
         /\ \A i \in 1 .. Len(work.runs) : work.runs[i].case = c <=> i = RunOf(c)
<1>1. RunOf(c) \in 1 .. Len(work.runs) /\ work.runs[RunOf(c)].case = c
  BY DEF HasRun, RunOf
<1>2. Len(work.runs) \in Nat /\ \A i \in 1 .. Len(work.runs) : work.runs[i].case \in Nat
  <2>1. work.runs \in RunRows
    BY DEF Inv, TypeInv, IsTables
  <2>2. ASSUME NEW i \in 1 .. Len(work.runs) PROVE work.runs[i].case \in Nat
    <3>1. work.runs[i] \in [case : Cases, outcome : Verdicts]
      BY <2>1, ElementOfSeq DEF RunRows
    <3> QED
      BY <3>1, IngestionAssumption
  <2> QED
    BY <2>1, <2>2 DEF RunRows
<1>3. ASSUME NEW i \in 1 .. Len(work.runs), work.runs[i].case = c PROVE i = RunOf(c)
  <2>1. \A j, m \in 1 .. Len(work.runs) : j < m => work.runs[j].case < work.runs[m].case
    BY DEF Inv, RunsInv, Numbered
  <2> DEFINE r == RunOf(c)
  <2>2. r \in 1 .. Len(work.runs) /\ work.runs[r].case = c
    BY <1>1
  <2> HIDE DEF r
  <2>3. ~(i < r) /\ ~(r < i)
    BY <1>2, <1>3, <2>1, <2>2
  <2> QED
    BY <1>2, <2>2, <2>3 DEF r
<1> QED
  BY <1>1, <1>2, <1>3

LEMMA NextIsOne ==
  ASSUME TypeInv, NEW c, NEW d, IsNext(c), IsNext(d) PROVE c = d /\ c \in dirs /\ c \in Cases
<1>1. c \in Nat /\ d \in Nat /\ c <= d /\ d <= c /\ c \in dirs /\ c \in Cases
  BY IngestionAssumption DEF TypeInv, TypeOK, IsNext
<1> QED
  BY <1>1

LEMMA InitCounts == Init => CountsInv
  BY DEF Init, CountsInv, RowsAdded, FileRead, Published, NoTables

\* Steps away from the rows.
LEMMA PlainCounts ==
  ASSUME Inv, CountsInv,
         \/ Begin \/ RemoveFile \/ WriteSites \/ WriteMakefile \/ UNCHANGED vars
         \/ (\E c \in Cases : MakeRun(c))
         \/ (\E place \in {"idle", "aborted"} : Leave(place))
  PROVE  CountsInv'
<1>1. CASE UNCHANGED vars \/ \E c \in Cases : MakeRun(c)
  <2>1. UNCHANGED <<file, pc, dirs, work, database, makefile, reader>>
    BY <1>1 DEF vars, MakeRun, Directory
  <2>2. RowsAdded'
    BY <2>1 DEF CountsInv, RowsAdded, IsNext
  <2>3. FileRead'
    <3>1. ASSUME NEW c \in dirs', pc' = "lines", IsNext(c)'
          PROVE  ReadingInv(file[c], work.rows, reader, RunOf(c))'
      <4>1. c \in dirs /\ pc = "lines" /\ IsNext(c)
        BY <2>1, <3>1 DEF IsNext
      <4>2. ReadingInv(file[c], work.rows, reader, RunOf(c))
        BY <4>1 DEF CountsInv, FileRead
      <4>3. RunOf(c)' = RunOf(c)
        BY <2>1 DEF RunOf
      <4> QED
        BY <2>1, <4>2, <4>3
    <3> QED
      BY <3>1 DEF FileRead
  <2>4. (pc \in {"makefile", "print"} \/ Published => Complete(database))'
    BY <2>1 DEF CountsInv, Published, Complete
  <2> QED
    BY <2>2, <2>3, <2>4 DEF CountsInv
<1>2. CASE Begin \/ \E place \in {"idle", "aborted"} : Leave(place)
  <2>1. UNCHANGED <<file, database, makefile>> /\ pc' \in {"clean", "idle", "aborted"}
    BY <1>2 DEF Begin, Leave, Runs, Directory
  <2>2. (Published => Complete(database))'
    BY <2>1 DEF CountsInv, Published, Complete
  <2> QED
    BY <2>1, <2>2 DEF CountsInv, RowsAdded, FileRead
<1>3. CASE RemoveFile
  <2>1. /\ file' = file /\ pc' = "clean"
        /\ database' = database \/ ~database'.exists
        /\ makefile' = makefile \/ makefile'.text = "absent"
    BY <1>3 DEF RemoveFile, Runs, NoTables, NoMakefile
  <2>2. (Published => Complete(database))'
    BY <2>1 DEF CountsInv, Published, Complete
  <2> QED
    BY <2>1, <2>2 DEF CountsInv, RowsAdded, FileRead
<1>4. CASE WriteSites
  <2>1. pc' = "labels" /\ work'.rows = <<>> /\ makefile'.text = "absent"
    BY <1>4 DEF WriteSites, NewTables, NoMakefile
  <2>2. RowsAdded' /\ FileRead'
    BY <2>1 DEF RowsAdded, FileRead
  <2> QED
    BY <2>1, <2>2 DEF CountsInv, Published
<1>5. CASE WriteMakefile
  <2>1. UNCHANGED <<file, database>> /\ pc \in {"makefile", "print"} /\ pc' \in {"print", "done"}
    BY <1>5 DEF WriteMakefile, Runs
  <2>2. Complete(database)'
    BY <2>1 DEF CountsInv, Complete
  <2> QED
    BY <2>1, <2>2 DEF CountsInv, RowsAdded, FileRead
<1> QED
  BY <1>1, <1>2, <1>3, <1>4, <1>5

\* The loops over the directories.
LEMMA LoopCounts ==
  ASSUME Inv, CountsInv, ~Leave("aborted"),
         \/ CommitRuns \/ CommitCounts
         \/ \E c \in Cases : ReadLabel(c) \/ OpenReport(c)
  PROVE  CountsInv'
<1>1. CASE CommitRuns
  <2>1. /\ pc = "labels" /\ pc' = "reports" /\ work' = work /\ dirs' = listed
        /\ makefile'.text = "absent"
    BY <1>1 DEF CommitRuns, Inv, RunsInv
  <2>2. DOMAIN work.rows = {}
    BY <2>1 DEF CountsInv, RowsAdded
  <2>3. \A i \in 1 .. Len(work.runs) : work.runs[i].case \in listed
    BY <2>1 DEF Inv, RunsInv, CasesOf
  <2>4. RowsAdded'
    BY <2>1, <2>2, <2>3 DEF RowsAdded
  <2> QED
    BY <2>1, <2>4 DEF CountsInv, FileRead, Published
<1>2. CASE CommitCounts
  <2>1. /\ pc = "reports" /\ pc' = "makefile" /\ database' = work /\ dirs = {} /\ file' = file
    BY <1>2 DEF CommitCounts, Runs
  <2>2. Complete(work)
    BY <2>1 DEF CountsInv, RowsAdded, Complete
  <2>3. Complete(database)'
    BY <2>1, <2>2 DEF Complete
  <2> QED
    BY <2>1, <2>3 DEF CountsInv, RowsAdded, FileRead
<1>3. ASSUME NEW c \in Cases, ReadLabel(c) PROVE CountsInv'
  <2>1. /\ pc = "labels" /\ pc' = "labels" /\ NumberRun(c)
        /\ UNCHANGED <<file, database, makefile>>
    BY <1>3 DEF ReadLabel, Runs, Directory
  <2>2. work'.rows = work.rows
    <3>1. work = [exists |-> work.exists, runs |-> work.runs, rows |-> work.rows]
      BY DEF Inv, TypeInv, IsTables
    <3> DEFINE row == [case |-> c, outcome |-> label[c]]
    <3>2. work' = work \/ work' = [work EXCEPT !.runs = Append(@, row)]
      BY <2>1 DEF NumberRun
    <3> HIDE DEF row
    <3> QED
      BY <3>1, <3>2
  <2>3. (pc \in {"makefile", "print"} \/ Published => Complete(database))'
    BY <2>1 DEF CountsInv, Published, Complete
  <2> QED
    BY <2>1, <2>2, <2>3 DEF CountsInv, RowsAdded, FileRead
<1>4. ASSUME NEW c \in Cases, OpenReport(c) PROVE CountsInv'
  <2>1. /\ pc = "reports" /\ IsNext(c)
        /\ UNCHANGED <<file, database, makefile, work>>
    BY <1>4 DEF OpenReport, Runs, Directory
  <2>2. pc' \in {"reports", "lines"}
    BY <1>4, <2>1 DEF OpenReport
  <2>3. (pc \in {"makefile", "print"} \/ Published => Complete(database))'
    BY <2>1, <2>2 DEF CountsInv, Published, Complete
  <2>4. /\ DOMAIN work.rows \subseteq Keys
        /\ \A i \in 1 .. Len(work.runs) :
             work.runs[i].case \notin dirs => Added(work.rows, i, file[work.runs[i].case])
        /\ \A k \in DOMAIN work.rows : work.runs[k.run].case \notin dirs
    BY <2>1 DEF CountsInv, RowsAdded
  <2>5. CASE HasRun(c)
    <3>1. /\ pc' = "lines" /\ dirs' = dirs
          /\ reader'.line = 1 /\ reader'.state = "INITIAL" /\ reader'.started = FALSE
          /\ reader'.values = <<>> /\ reader'.observed = {}
      BY <1>4, <2>5 DEF OpenReport, Closed
    <3>2. RowsAdded'
      BY <2>1, <2>4, <3>1 DEF RowsAdded
    <3>3. ReadingInv(file[c], work.rows, reader', RunOf(c))
      <4> DEFINE f == file[c]
      <4>1. f \in Seq(Lines)
        BY IngestionAssumption DEF Inv, TypeInv, TypeOK
      <4>2. PlaceInv(f, reader')
        <5> HIDE DEF f
        <5> QED
          BY <3>1, <4>1, PlaceInit
      <4>3. ASSUME NEW k \in DOMAIN work.rows PROVE k.run # RunOf(c)
        <5>1. k.run \in 1 .. Len(work.runs)
          BY DEF Inv, TypeInv, IsTables
        <5>2. work.runs[k.run].case # c
          BY <2>1, <2>4 DEF IsNext
        <5> QED
          BY <2>5, <5>1, <5>2, RunOfIs
      <4>4. ValuesOf(reader', RunOf(c)) /\ RowsOf(work.rows, reader', RunOf(c))
        BY <3>1, <4>3 DEF ValuesOf, RowsOf
      <4>5. SumsOf(f, work.rows, reader', RunOf(c))
        <5>1. ASSUME NEW k \in Keys, k.run = RunOf(c)
              PROVE  Count(work.rows, k) + Count(reader'.values, k) = CountedUpTo(f, k)[1 - 1]
          <6>1. Count(work.rows, k) = 0 /\ Count(reader'.values, k) = 0
            BY <3>1, <4>3, <5>1 DEF Count
          <6>2. CountedUpTo(f, k)[0] = 0
            BY <4>1, CountedUpToStep
          <6> QED
            BY <6>1, <6>2
        <5> QED
          BY <3>1, <5>1 DEF SumsOf
      <4> QED
        BY <3>1, <4>2, <4>4, <4>5 DEF ReadingInv
    <3>4. FileRead'
      <4>1. ASSUME NEW d \in dirs', IsNext(d)' PROVE d = c
        <5>1. IsNext(d)
          BY <3>1, <4>1 DEF IsNext
        <5> QED
          BY <2>1, <5>1, NextIsOne DEF Inv
      <4>2. RunOf(c)' = RunOf(c)
        BY <2>1 DEF RunOf
      <4>3. ReadingInv(file[c], work.rows, reader, RunOf(c))'
        BY <2>1, <3>3, <4>2
      <4> QED
        BY <4>1, <4>3 DEF FileRead
    <3> QED
      BY <2>3, <3>2, <3>4 DEF CountsInv
  <2>6. CASE ~HasRun(c)
    <3>1. pc' = "reports" /\ dirs' = dirs \ {c}
      BY <1>4, <2>1, <2>6 DEF OpenReport
    <3>2. \A i \in 1 .. Len(work.runs) : work.runs[i].case # c
      BY <2>6 DEF HasRun
    <3>3. RowsAdded'
      BY <2>1, <2>4, <3>1, <3>2 DEF RowsAdded
    <3> QED
      BY <2>3, <3>1, <3>3 DEF CountsInv, FileRead
  <2> QED
    BY <2>5, <2>6
<1> QED
  BY <1>1, <1>2, <1>3, <1>4

\* The reader in a file: its run, and what it knows.
LEMMA FileIsRead ==
  ASSUME Inv, CountsInv, NEW c \in Cases, pc = "lines", IsNext(c)
  PROVE  /\ HasRun(c) /\ file[c] \in Seq(Lines)
         /\ ReadingInv(file[c], work.rows, reader, RunOf(c))
<1>1. PICK d \in dirs : IsNext(d) /\ HasRun(d)
  BY DEF Inv, TypeInv
<1>2. d = c
  BY <1>1, NextIsOne DEF Inv
<1> QED
  BY <1>1, <1>2, IngestionAssumption DEF CountsInv, FileRead, Inv, TypeInv, TypeOK

LEMMA LineCounts ==
  ASSUME Inv, CountsInv, NEW c \in Cases, pc = "lines", IsNext(c),
         reader.line <= Len(file[c]), ReadLine(c, file[c][reader.line])
  PROVE  CountsInv'
<1>1. PICK f : f = file[c]
  OBVIOUS
<1>2. PICK r : r = RunOf(c)
  OBVIOUS
<1>3. /\ HasRun(c) /\ f \in Seq(Lines) /\ ReadingInv(f, work.rows, reader, r)
      /\ r \in Nat /\ r \in 1 .. Len(work.runs)
      /\ \A i \in 1 .. Len(work.runs) : work.runs[i].case = c <=> i = r
  BY <1>1, <1>2, FileIsRead, RunOfIs
<1>4. reader.line \in DOMAIN f /\ ReadLine(c, f[reader.line]) /\ RunOf(c) = r
  BY <1>1, <1>2, <1>3 DEF ReadingInv, PlaceInv
<1>5. /\ ReadingInv(f, work'.rows, reader', r)
      /\ \A k : k \in DOMAIN work'.rows => k \in DOMAIN work.rows \/ (k \in Keys /\ k.run = r)
      /\ \A k : k.run # r => Count(work'.rows, k) = Count(work.rows, k)
  BY <1>3, <1>4, ReadingStep DEF Inv
<1>6. /\ UNCHANGED <<file, pc, dirs, database, makefile>> /\ work'.runs = work.runs
  <2>1. TypeInv
    BY DEF Inv
  <2> QED
    BY <1>4, <2>1, LineReads DEF ReadLine, Runs, Directory
<1>7. RowsAdded'
  <2>1. /\ DOMAIN work.rows \subseteq Keys
        /\ \A i \in 1 .. Len(work.runs) :
             work.runs[i].case \notin dirs => Added(work.rows, i, file[work.runs[i].case])
        /\ \A k \in DOMAIN work.rows :
             work.runs[k.run].case \notin dirs \/ IsNext(work.runs[k.run].case)
    BY DEF CountsInv, RowsAdded
  <2>2. ASSUME NEW i \in 1 .. Len(work.runs), work.runs[i].case \notin dirs
        PROVE  Added(work'.rows, i, file[work.runs[i].case])
    <3>1. i # r
      BY <1>3, <2>2 DEF IsNext
    <3>2. Added(work.rows, i, file[work.runs[i].case])
      BY <2>1, <2>2
    <3> QED
      BY <1>5, <3>1, <3>2 DEF Added
  <2>3. ASSUME NEW k \in DOMAIN work'.rows
        PROVE  /\ k \in Keys
               /\ work.runs[k.run].case \notin dirs \/ IsNext(work.runs[k.run].case)
    BY <1>3, <1>5, <2>1, <2>3
  <2> QED
    BY <1>6, <2>2, <2>3 DEF RowsAdded, IsNext
<1>8. FileRead'
  <2>1. ASSUME NEW d \in dirs', IsNext(d)' PROVE d = c
    <3>1. IsNext(d)
      BY <1>6, <2>1 DEF IsNext
    <3> QED
      BY <3>1, NextIsOne DEF Inv
  <2>2. RunOf(c)' = r
    BY <1>2, <1>6 DEF RunOf
  <2>3. ReadingInv(file[c], work.rows, reader, RunOf(c))'
    BY <1>1, <1>5, <1>6, <2>2
  <2> QED
    BY <2>1, <2>3 DEF FileRead
<1>9. (pc \in {"makefile", "print"} \/ Published => Complete(database))'
  BY <1>6 DEF CountsInv, Published, Complete
<1> QED
  BY <1>7, <1>8, <1>9 DEF CountsInv

\* At the end of a file its counts have been added.
LEMMA EndCounts ==
  ASSUME Inv, CountsInv, NEW c \in Cases, pc = "lines", IsNext(c),
         ~(reader.line <= Len(file[c])), EndOfFile(c)
  PROVE  CountsInv'
<1>1. PICK f : f = file[c]
  OBVIOUS
<1>2. PICK r : r = RunOf(c)
  OBVIOUS
<1>3. /\ HasRun(c) /\ f \in Seq(Lines) /\ ReadingInv(f, work.rows, reader, r)
      /\ r \in Nat /\ r \in 1 .. Len(work.runs)
      /\ \A i \in 1 .. Len(work.runs) : work.runs[i].case = c <=> i = r
  BY <1>1, <1>2, FileIsRead, RunOfIs
<1>4. PlaceInv(f, reader) /\ reader.line = Len(f) + 1 /\ Ends(reader)
  <2>1. PlaceInv(f, reader) /\ Len(f) \in Nat /\ reader.line \in 1 .. Len(f) + 1
    BY <1>3 DEF ReadingInv, PlaceInv
  <2>2. reader.line = Len(f) + 1
    BY <1>1, <2>1
  <2> QED
    BY <2>1, <2>2 DEF EndOfFile, AcceptsEnd, AllRead, Ends
<1>5. Sound(f)
  BY <1>3, <1>4, EndIsSound
<1>6. /\ UNCHANGED <<file, database, makefile>> /\ work'.runs = work.runs
      /\ pc' = "reports" /\ dirs' = dirs \ {c}
      /\ work'.rows = IF DOMAIN reader.values # {} THEN Store(work.rows) ELSE work.rows
  <2>1. work = [exists |-> work.exists, runs |-> work.runs, rows |-> work.rows]
    BY DEF Inv, TypeInv, IsTables
  <2>2. CASE DOMAIN reader.values # {}
    <3>1. work' = [exists |-> work.exists, runs |-> work.runs, rows |-> Store(work.rows)]
      BY <2>1, <2>2 DEF EndOfFile
    <3> QED
      BY <2>2, <3>1 DEF EndOfFile, Runs, Directory
  <2>3. CASE DOMAIN reader.values = {}
    BY <2>3 DEF EndOfFile, Runs, Directory
  <2> QED
    BY <2>2, <2>3
<1>7. ASSUME NEW k \in Keys, k.run = r PROVE Count(work'.rows, k) = Reported(f, k)
  <2>1. Count(work.rows, k) + Count(reader.values, k) = Reported(f, k)
    <3>1. SumsOf(f, work.rows, reader, r) /\ reader.line - 1 = Len(f)
      BY <1>3, <1>4 DEF ReadingInv
    <3> QED
      BY <1>4, <1>7, <3>1 DEF SumsOf, Ends, Reported
  <2>2. CASE DOMAIN reader.values # {}
    BY <1>3, <1>6, <1>7, <2>1, <2>2, StoreOf DEF Inv
  <2>3. CASE DOMAIN reader.values = {}
    <3>1. Count(work.rows, k) \in Nat /\ Count(reader.values, k) = 0
      BY <2>3 DEF Inv, TypeInv, IsTables, Count
    <3> QED
      BY <1>6, <2>1, <2>3, <3>1
  <2> QED
    BY <2>2, <2>3
<1>8. ASSUME NEW k, k.run # r PROVE Count(work'.rows, k) = Count(work.rows, k)
  <2>1. k \notin DOMAIN reader.values
    BY <1>3, <1>8 DEF ReadingInv, ValuesOf
  <2> QED
    BY <1>6, <2>1, StoreElsewhere
<1>9. ASSUME NEW k \in DOMAIN work'.rows
      PROVE  k \in DOMAIN work.rows \/ (k \in Keys /\ k.run = r)
  BY <1>3, <1>6, <1>9, StoreDomain DEF ReadingInv, ValuesOf
<1>10. RowsAdded'
  <2>1. /\ DOMAIN work.rows \subseteq Keys
        /\ \A i \in 1 .. Len(work.runs) :
             work.runs[i].case \notin dirs => Added(work.rows, i, file[work.runs[i].case])
        /\ \A k \in DOMAIN work.rows :
             work.runs[k.run].case \notin dirs \/ IsNext(work.runs[k.run].case)
    BY DEF CountsInv, RowsAdded
  <2>2. ASSUME NEW i \in 1 .. Len(work.runs), work.runs[i].case \notin dirs'
        PROVE  Added(work'.rows, i, file[work.runs[i].case])
    <3>1. CASE i = r
      <4>1. file[work.runs[i].case] = f
        BY <1>1, <1>3, <3>1
      <4> QED
        BY <1>5, <1>7, <3>1, <4>1 DEF Added
    <3>2. CASE i # r
      <4>1. work.runs[i].case \notin dirs
        BY <1>3, <1>6, <2>2, <3>2
      <4>2. Added(work.rows, i, file[work.runs[i].case])
        BY <2>1, <4>1
      <4> QED
        BY <1>8, <3>2, <4>2 DEF Added
    <3> QED
      BY <3>1, <3>2
  <2>3. ASSUME NEW k \in DOMAIN work'.rows
        PROVE  k \in Keys /\ work.runs[k.run].case \notin dirs'
    <3>1. CASE k \in DOMAIN work.rows
      <4>1. IsNext(work.runs[k.run].case) => work.runs[k.run].case = c
        BY NextIsOne DEF Inv
      <4> QED
        BY <1>6, <2>1, <3>1, <4>1
    <3>2. CASE k \in Keys /\ k.run = r
      BY <1>3, <1>6, <3>2
    <3> QED
      BY <1>9, <2>3, <3>1, <3>2
  <2> QED
    BY <1>6, <2>2, <2>3 DEF RowsAdded
<1>11. (pc \in {"makefile", "print"} \/ Published => Complete(database))'
  BY <1>6 DEF CountsInv, Published, Complete
<1> QED
  BY <1>6, <1>10, <1>11 DEF CountsInv, FileRead

LEMMA NextCounts == Inv /\ CountsInv /\ [Next]_vars => CountsInv'
<1> SUFFICES ASSUME Inv, CountsInv, [Next]_vars PROVE CountsInv'
  OBVIOUS
<1>1. CASE \E place \in {"idle", "aborted"} : Leave(place)
  BY <1>1, PlainCounts
<1>2. CASE \/ Begin \/ RemoveFile \/ WriteSites \/ WriteMakefile \/ UNCHANGED vars
           \/ \E c \in Cases : MakeRun(c)
  BY <1>2, PlainCounts
<1>3. CASE \/ CommitRuns \/ CommitCounts
           \/ \E c \in Cases : ReadLabel(c) \/ OpenReport(c)
  BY <1>1, <1>3, LoopCounts
<1>4. ASSUME NEW c \in Cases, ReadReport(c) PROVE CountsInv'
  <2>1. CASE reader.line <= Len(file[c]) /\ ~Leave("aborted")
    BY <1>4, <2>1, LineCounts DEF ReadReport
  <2>2. CASE ~(reader.line <= Len(file[c])) /\ ~Leave("aborted")
    BY <1>4, <2>2, EndCounts DEF ReadReport
  <2> QED
    BY <1>1, <2>1, <2>2
<1>5. CASE Crash
  BY <1>1, <1>5 DEF Crash
<1> QED
  BY <1>2, <1>3, <1>4, <1>5 DEF Next

LEMMA CompleteCounts ==
  ASSUME Inv, CountsInv PROVE CountsAdded
<1> SUFFICES ASSUME Published PROVE CountsAdded
  BY DEF CountsAdded
<1>1. Complete(database)
  BY DEF CountsInv
<1>2. \A k \in DOMAIN database.rows : k.run \in 1 .. Len(database.runs)
  BY DEF Inv, TypeInv, IsTables
<1>3. ASSUME NEW k \in DOMAIN database.rows
      PROVE  database.rows[k] = Reported(file[database.runs[k.run].case], k)
  <2>1. k \in Keys /\ Added(database.rows, k.run, file[database.runs[k.run].case])
    BY <1>1, <1>2 DEF Complete
  <2> QED
    BY <2>1 DEF Added, Count
<1>4. ASSUME NEW i \in 1 .. Len(database.runs)
      PROVE  LET f == file[database.runs[i].case] IN
             /\ Sound(f)
             /\ \A b \in Blocks(f) : \A n \in 1 .. Size(f, b), field \in 1 .. Fields[f[b].unit] :
                  LET k == [run |-> i, site |-> Sites[f[b].unit][n], field |-> field,
                            thread |-> f[b].thread]
                  IN  Reported(f, k) # 0 => k \in DOMAIN database.rows
  <2> DEFINE f == file[database.runs[i].case]
  <2>1. f \in Seq(Lines) /\ Len(database.runs) \in Nat
    <3>1. database.runs \in RunRows
      BY DEF Inv, TypeInv, IsTables
    <3>2. database.runs[i] \in [case : Cases, outcome : Verdicts]
      BY <3>1, ElementOfSeq DEF RunRows
    <3>3. Len(database.runs) \in Nat
      BY <3>1 DEF RunRows
    <3> QED
      BY <3>2, <3>3, IngestionAssumption DEF Inv, TypeInv, TypeOK
  <2>2. Added(database.rows, i, f)
    BY <1>1 DEF Complete
  <2> HIDE DEF f
  <2>3. ASSUME NEW b \in Blocks(f), NEW n \in 1 .. Size(f, b),
               NEW field \in 1 .. Fields[f[b].unit],
               NEW k, k = [run |-> i, site |-> Sites[f[b].unit][n], field |-> field,
                           thread |-> f[b].thread],
               Reported(f, k) # 0
        PROVE  k \in DOMAIN database.rows
    <3>1. /\ Sites[f[b].unit][n] \in Nat /\ f[b].thread \in Nat /\ f[b].unit \in Units
      BY <2>1, BlockTyped
    <3>2. Fields[f[b].unit] \in Nat
      BY <3>1, IngestionAssumption
    <3>3. k \in Keys /\ k.run = i
      BY <2>1, <2>3, <3>1, <3>2 DEF Keys
    <3> QED
      BY <2>2, <2>3, <3>3 DEF Added, Count
  <2>4. Sound(f)
    BY <2>2 DEF Added
  <2> QED
    BY <2>3, <2>4 DEF f
<1> QED
  BY <1>2, <1>3, <1>4 DEF CountsAdded

\* Theorem: what is published is what the runs have reported.
THEOREM CountsAreAdded == Spec => []CountsAdded
<1>1. Init => Inv /\ CountsInv
  BY InitTypes, InitRuns, InitCounts DEF Inv
<1>2. Inv /\ CountsInv => CountsAdded
  BY CompleteCounts
<1> QED
  BY <1>1, <1>2, NextRuns, NextCounts, PTL DEF Spec

\* Theorem: when no file has a block of a unit that records values, an import
\* fails only over a label that is missing or a file that is not sound.
THEOREM AbortsAreDeserved ==
  ASSUME \A f \in Files : \A b \in Blocks(f) : f[b].unit \notin Bounds
  PROVE  Spec => AbortIsDeserved
<1>1. Init => Inv /\ CountsInv
  BY InitTypes, InitRuns, InitCounts DEF Inv
<1>2. ASSUME Inv, CountsInv, [Next]_vars, pc # "aborted", pc' = "aborted"
      PROVE  \E c \in listed : \/ label[c] \in {"absent", "empty"}
                               \/ label[c] \in Verdicts /\ ~Sound(file[c])
  <2>1. PICK c \in Cases : ReadLabel(c) \/ ReadReport(c)
    BY <1>2 DEF Next, vars, Begin, RemoveFile, WriteSites, CommitRuns, CommitCounts,
                WriteMakefile, Crash, Leave, MakeRun, OpenReport
  <2>2. IsNext(c) /\ c \in listed
    BY <1>2, <2>1 DEF ReadLabel, ReadReport, IsNext, Inv, TypeInv, TypeOK
  <2>3. CASE ReadLabel(c)
    <3>1. label[c] \in {"absent", "empty"}
      BY <1>2, <2>3 DEF ReadLabel
    <3> QED
      BY <2>2, <3>1
  <2>4. CASE ReadReport(c)
    <3>1. pc = "lines"
      BY <2>4 DEF ReadReport
    <3>2. /\ HasRun(c) /\ file[c] \in Seq(Lines)
          /\ ReadingInv(file[c], work.rows, reader, RunOf(c))
      BY <1>2, <2>2, <3>1, FileIsRead
    <3>3. label[c] \in Verdicts
      BY <1>2, <2>2, <3>1, <3>2 DEF Inv, RunsInv, CasesOf, HasRun, IsLabelled
    <3>4. PlaceInv(file[c], reader)
      BY <3>2 DEF ReadingInv
    <3>5. Storable
      <4>1. SUFFICES ASSUME reader.started PROVE reader.unit \notin Bounds
        BY DEF Storable
      <4>2. PICK b \in Blocks(file[c]) : IsCurrent(file[c], reader, b)
        BY <3>4, <4>1 DEF PlaceInv, BlocksRead
      <4>3. file[c] \in Files
        BY <1>2 DEF Inv, TypeInv, TypeOK
      <4> QED
        BY <4>2, <4>3 DEF IsCurrent
    <3>6. ~Sound(file[c])
      <4>1. SUFFICES ASSUME Sound(file[c]) PROVE FALSE
        OBVIOUS
      <4>2. CASE reader.line <= Len(file[c])
        <5>1. ~Accepts(file[c][reader.line])
          BY <1>2, <2>4, <3>1, <4>2 DEF ReadReport, ReadLine
        <5>2. reader.line \in DOMAIN file[c]
          BY <3>2, <3>4, <4>2 DEF PlaceInv
        <5>3. Acceptable(reader, file[c][reader.line])
          BY <3>2, <3>4, <4>1, <5>2, SoundIsAccepted
        <5> QED
          BY <3>5, <5>1, <5>3 DEF Acceptable, Accepts, IsHeader, IsCounts, AllRead
      <4>3. CASE ~(reader.line <= Len(file[c]))
        <5>1. ~AcceptsEnd
          BY <1>2, <2>4, <4>3 DEF ReadReport, EndOfFile
        <5>2. reader.line = Len(file[c]) + 1
          BY <3>2, <3>4, <4>3 DEF PlaceInv
        <5>3. Ends(reader)
          BY <3>2, <3>4, <4>1, <5>2, SoundIsAccepted
        <5> QED
          BY <3>5, <5>1, <5>3 DEF Ends, AcceptsEnd, AllRead
      <4> QED
        BY <4>2, <4>3
    <3> QED
      BY <2>2, <3>3, <3>6
  <2> QED
    BY <2>1, <2>3, <2>4
<1>3. Inv /\ CountsInv /\ [Next]_vars =>
        (pc # "aborted" /\ pc' = "aborted" =>
           \E c \in listed : \/ label[c] \in {"absent", "empty"}
                             \/ label[c] \in Verdicts /\ ~Sound(file[c]))
  BY <1>2
<1> QED
  BY <1>1, <1>3, NextRuns, NextCounts, PTL DEF Spec, AbortIsDeserved

================================================================================
