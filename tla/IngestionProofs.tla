----------------------------- MODULE IngestionProofs -----------------------------
(***************************************************************************)
(* Proofs about Ingestion, for any run directories, files of reports and   *)
(* number of imports, crashes between any two steps included.              *)
(***************************************************************************)
EXTENDS Ingestion, TLAPS, SequenceTheorems

RunRows == Seq([case : Cases, outcome : Verdicts])

IsTables(t) ==
  /\ t = [exists |-> t.exists, runs |-> t.runs, rows |-> t.rows]
  /\ t.exists \in BOOLEAN /\ t.runs \in RunRows
  /\ \A k \in DOMAIN t.rows : k.run \in 1 .. Len(t.runs) /\ t.rows[k] \in Nat \ {0}

\* The values of a block are about a run that has a number, and none is zero
\* unless its unit records values.
IsReader(n) ==
  /\ reader = [line |-> reader.line, state |-> reader.state, started |-> reader.started,
               unit |-> reader.unit, thread |-> reader.thread, site |-> reader.site,
               values |-> reader.values, observed |-> reader.observed,
               shared |-> reader.shared]
  /\ reader.started \in BOOLEAN
  /\ reader.state = "READING" => reader.started
  /\ ~reader.started => DOMAIN reader.values = {}
  /\ \A k \in DOMAIN reader.values :
       /\ k.run \in 1 .. n
       /\ reader.values[k] \in Nat
       /\ reader.unit \notin Bounds => reader.values[k] # 0

TypeInv ==
  /\ TypeOK
  /\ IsTables(work) /\ IsTables(database)
  /\ IsReader(Len(work.runs))
  /\ pc \notin {"labels", "reports", "lines"} => dirs = {}
  /\ pc # "lines" => reader = Closed
  /\ pc = "lines" => reader.line \in Nat \ {0} /\ \E c \in dirs : IsNext(c) /\ HasRun(c)

-----------------------------------------------------------------------------
(* Tables and values.                                                      *)

LEMMA TablesTypes ==
  /\ IsTables(NoTables) /\ IsTables(NewTables)
  /\ Closed.values = <<>> /\ DOMAIN Closed.values = {}
  BY DEF IsTables, NoTables, NewTables, Closed, RunRows

\* Storing the values of a block keeps the rows within the runs, and positive.
LEMMA StoreTypes ==
  ASSUME NEW n \in Nat, NEW rows,
         \A k \in DOMAIN rows : k.run \in 1 .. n /\ rows[k] \in Nat \ {0},
         \A k \in DOMAIN reader.values :
           k.run \in 1 .. n /\ reader.values[k] \in Nat \ {0}
  PROVE  \A k \in DOMAIN Store(rows) : k.run \in 1 .. n /\ Store(rows)[k] \in Nat \ {0}
<1> DEFINE updated == IF reader.shared THEN Update(rows, reader.values) ELSE rows
<1>1. \A k \in DOMAIN updated : k.run \in 1 .. n /\ updated[k] \in Nat \ {0}
  BY DEF Update
<1>2. Store(rows) = Insert(updated, reader.values)
  BY DEF Store
<1> HIDE DEF updated
<1> QED
  BY <1>1, <1>2 DEF Insert

LEMMA LineTypes ==
  ASSUME NEW c \in Cases, TypeOK, NEW n \in 1 .. Len(file[c]),
         file[c][n].kind = "counts"
  PROVE  file[c][n].counts \in Seq(Nat)
<1>1. file[c] \in Seq(Lines)
  BY IngestionAssumption DEF TypeOK
<1>2. file[c][n] \in Lines
  BY <1>1, ElementOfSeq
<1> QED
  BY <1>2 DEF Lines

\* The number of a run is one of the numbers given.
LEMMA RunOfType ==
  ASSUME NEW c, HasRun(c)
  PROVE  RunOf(c) \in 1 .. Len(work.runs)
  BY DEF HasRun, RunOf

LEMMA ValuesTypes ==
  ASSUME NEW c, HasRun(c), NEW counts \in Seq(Nat)
  PROVE  \A k \in DOMAIN Values(c, counts) :
           /\ k.run \in 1 .. Len(work.runs)
           /\ Values(c, counts)[k] \in Nat
           /\ reader.unit \notin Bounds => Values(c, counts)[k] # 0
<1> DEFINE key(i) == [run |-> RunOf(c), site |-> Sites[reader.unit][reader.site + 1],
                      field |-> i, thread |-> reader.thread]
           kept == {j \in DOMAIN counts : counts[j] # 0 \/ reader.unit \in Bounds}
<1>1. Values(c, counts) = [k \in {key(i) : i \in kept} |-> counts[k.field]]
  BY DEF Values
<1>2. \A i \in kept : counts[i] \in Nat /\ key(i).field = i /\ key(i).run = RunOf(c)
  OBVIOUS
<1> QED
  BY <1>1, <1>2, RunOfType

-----------------------------------------------------------------------------
(* The types.                                                              *)

LEMMA InitTypes == Init => TypeInv
<1> SUFFICES ASSUME Init PROVE TypeInv
  OBVIOUS
<1>1. TypeOK
  BY IngestionAssumption DEF Init, TypeOK, NoTables, NoMakefile
<1>2. IsReader(Len(work.runs))
  BY DEF Init, IsReader, Closed
<1> QED
  BY <1>1, <1>2, TablesTypes DEF Init, TypeInv

LEMMA ClosedReader ==
  ASSUME NEW n, reader = Closed PROVE IsReader(n)
  BY DEF IsReader, Closed

\* Whatever ends an import early leaves typed variables behind.
LEMMA LeaveTypes ==
  ASSUME TypeInv, NEW place \in {"idle", "aborted"}, Leave(place)
  PROVE  TypeInv'
<1>1. TypeOK'
  BY DEF Leave, TypeInv, TypeOK, Runs, Directory, NoTables
<1>2. IsTables(work)' /\ IsTables(database)' /\ IsReader(Len(work.runs))'
  BY TablesTypes, ClosedReader DEF Leave, TypeInv, Directory, IsTables, IsReader, Closed
<1> QED
  BY <1>1, <1>2 DEF Leave, TypeInv

LEMMA SimpleTypes ==
  ASSUME TypeInv,
         \/ \E c \in Cases : MakeRun(c)
         \/ Begin \/ RemoveFile \/ WriteMakefile \/ UNCHANGED vars
  PROVE  TypeInv'
<1> USE DEF TypeInv
<1>1. ASSUME UNCHANGED <<work, reader>> PROVE IsTables(work)' /\ IsReader(Len(work.runs))'
  BY <1>1 DEF IsTables, IsReader, Closed
<1>2. ASSUME UNCHANGED database PROVE IsTables(database)'
  BY <1>2 DEF IsTables
<1>3. CASE \E c \in Cases : MakeRun(c)
  <2>1. PICK c \in Cases : MakeRun(c)
    BY <1>3
  <2>2. label' \in [Cases -> {"none", "absent", "empty", "ignore"} \cup Verdicts]
    BY <2>1 DEF MakeRun, TypeOK
  <2>3. TypeOK'
    BY <2>1, <2>2 DEF MakeRun, TypeOK, Directory
  <2> QED
    BY <1>1, <1>2, <2>1, <2>3 DEF MakeRun, Directory, IsNext, HasRun
<1>4. CASE Begin
  <2>1. TypeOK' /\ pc' = "clean"
    BY <1>4, IngestionAssumption DEF Begin, Runs, Directory, TypeOK
  <2> QED
    BY <1>1, <1>2, <1>4, <2>1 DEF Begin, Runs, Directory
<1>5. CASE RemoveFile
  <2>1. IsTables(database)' /\ UNCHANGED <<pc, dirs, work, reader>>
    BY <1>2, <1>5, TablesTypes DEF RemoveFile
  <2>2. TypeOK'
    <3>1. makefile' \in [text : {"absent", "empty", "whole"}, end : Nat]
      BY <1>5 DEF RemoveFile, TypeOK, NoMakefile
    <3>2. UNCHANGED <<label, file, pc, imports, listed, dirs, work>>
      BY <1>5 DEF RemoveFile, Runs
    <3> QED
      BY <2>1, <3>1, <3>2 DEF TypeOK, IsTables, RunRows
  <2> QED
    BY <1>1, <1>5, <2>1, <2>2 DEF RemoveFile
<1>6. CASE WriteMakefile
  <2>1. Len(database.runs) \in Nat
    BY DEF IsTables, RunRows
  <2>2. TypeOK'
    BY <1>6, <2>1 DEF WriteMakefile, Runs, TypeOK
  <2> QED
    BY <1>1, <1>2, <1>6, <2>2 DEF WriteMakefile
<1>7. CASE UNCHANGED vars
  <2>1. TypeOK'
    BY <1>7 DEF vars, TypeOK
  <2>2. (pc = "lines" => reader.line \in Nat \ {0} /\ \E c \in dirs : IsNext(c) /\ HasRun(c))'
    BY <1>7 DEF vars, IsNext, HasRun
  <2>3. (pc # "lines" => reader = Closed)'
    BY <1>7 DEF vars, Closed
  <2>4. (pc \notin {"labels", "reports", "lines"} => dirs = {})'
    BY <1>7 DEF vars
  <2> QED
    BY <1>1, <1>2, <1>7, <2>1, <2>2, <2>3, <2>4 DEF vars
<1> QED
  BY <1>3, <1>4, <1>5, <1>6, <1>7

LEMMA LabelTypes ==
  ASSUME TypeInv, \/ WriteSites \/ CommitRuns \/ CommitCounts
                  \/ \E c \in Cases : ReadLabel(c)
  PROVE  TypeInv'
<1> USE DEF TypeInv
<1>1. CASE WriteSites
  <2>1. TypeOK'
    BY <1>1, TablesTypes DEF WriteSites, Runs, TypeOK, NewTables
  <2>2. work' = NewTables /\ database' = NewTables /\ reader' = Closed /\ pc' = "labels"
    BY <1>1 DEF WriteSites
  <2>3. IsTables(work)' /\ IsTables(database)' /\ IsReader(Len(work.runs))'
    BY <2>2, TablesTypes, ClosedReader DEF IsTables, IsReader, Closed
  <2> QED
    BY <2>1, <2>2, <2>3 DEF Closed
<1>2. CASE CommitRuns \/ CommitCounts
  <2>1. IsTables(work)' /\ IsReader(Len(work.runs))' /\ IsTables(database)'
    BY <1>2 DEF CommitRuns, CommitCounts, IsTables, IsReader
  <2> QED
    BY <1>2, <2>1 DEF CommitRuns, CommitCounts, Runs, TypeOK
<1>3. ASSUME NEW c \in Cases, ReadLabel(c) PROVE TypeInv'
  <2>1. CASE Leave("aborted")
    BY <2>1, LeaveTypes
  <2>2. CASE ~Leave("aborted")
    <3>1. /\ label[c] \in Verdicts \cup {"ignore"} /\ NumberRun(c)
          /\ dirs' = dirs \ {c} /\ UNCHANGED <<Runs, pc, imports, listed, Directory, reader>>
          /\ pc = "labels"
      BY <1>3, <2>2 DEF ReadLabel
    <3>2. reader = reader' /\ database' = database
      BY <3>1 DEF Directory
    <3>3. /\ work'.exists = work.exists /\ work'.rows = work.rows
          /\ work' = [exists |-> work'.exists, runs |-> work'.runs, rows |-> work'.rows]
          /\ work'.runs \in RunRows /\ Len(work'.runs) \in Nat
          /\ Len(work.runs) <= Len(work'.runs)
      <4>1. CASE label[c] = "ignore"
        BY <3>1, <4>1 DEF NumberRun, IsTables, RunRows
      <4>2. CASE label[c] # "ignore"
        <5>1. [case |-> c, outcome |-> label[c]] \in [case : Cases, outcome : Verdicts]
          BY <3>1, <4>2
        <5>2. work' = [work EXCEPT !.runs = Append(@, [case |-> c, outcome |-> label[c]])]
          BY <3>1, <4>2 DEF NumberRun
        <5>3. work' = [exists |-> work.exists, rows |-> work.rows,
                       runs |-> Append(work.runs, [case |-> c, outcome |-> label[c]])]
          BY <5>2 DEF IsTables
        <5> QED
          BY <5>1, <5>3, AppendProperties DEF IsTables, RunRows
      <4> QED
        BY <4>1, <4>2
    <3>4. IsTables(work)' /\ IsReader(Len(work.runs))'
      <4>1. 1 .. Len(work.runs) \subseteq 1 .. Len(work'.runs)
        BY <3>3 DEF IsTables, RunRows
      <4>2. reader' = Closed
        BY <3>1
      <4> QED
        BY <3>3, <4>1, <4>2, ClosedReader DEF IsTables, IsReader, Closed
    <3>5. IsTables(database)'
      BY <3>2 DEF IsTables
    <3>6. TypeOK'
      <4>1. UNCHANGED <<label, file, pc, imports, listed, database, makefile>>
        BY <3>1 DEF Runs, Directory
      <4>2. dirs' \subseteq listed
        BY <3>1 DEF TypeOK
      <4> QED
        BY <3>4, <4>1, <4>2 DEF TypeOK, IsTables, RunRows
    <3> QED
      BY <3>1, <3>2, <3>4, <3>5, <3>6 DEF Closed
  <2> QED
    BY <2>1, <2>2
<1> QED
  BY <1>1, <1>2, <1>3

LEMMA OpenTypes ==
  ASSUME TypeInv, NEW c \in Cases, OpenReport(c)
  PROVE  TypeInv'
<1> USE DEF TypeInv
<1>1. /\ work' = work /\ database' = database /\ pc = "reports" /\ c \in dirs
      /\ UNCHANGED <<label, file, imports, listed, makefile>>
  BY DEF OpenReport, Runs, Directory, IsNext
<1>2. IsTables(work)' /\ IsTables(database)' /\ IsReader(Len(work.runs))'
  <2>1. reader' = Closed \/ reader' = [Closed EXCEPT !.line = 1]
    BY DEF OpenReport
  <2> QED
    BY <1>1, <2>1 DEF IsTables, IsReader, Closed
<1>3. TypeOK'
  BY <1>1 DEF OpenReport, TypeOK
<1>4. CASE HasRun(c)
  <2>1. reader'.line = 1 /\ pc' = "lines" /\ dirs' = dirs /\ IsNext(c)' /\ HasRun(c)'
    BY <1>1, <1>4 DEF OpenReport, Closed, IsNext, HasRun
  <2> QED
    BY <1>1, <1>2, <1>3, <2>1
<1>5. CASE ~HasRun(c)
  <2>1. reader' = Closed /\ pc' = "reports"
    BY <1>1, <1>5 DEF OpenReport
  <2> QED
    BY <1>2, <1>3, <2>1 DEF Closed
<1> QED
  BY <1>4, <1>5

\* A line of the file of the run that is read.
LEMMA LineStepTypes ==
  ASSUME TypeInv, NEW c \in Cases, pc = "lines", IsNext(c),
         reader.line <= Len(file[c]),
         ReadLine(c, file[c][reader.line])
  PROVE  TypeInv'
<1> DEFINE l == file[c][reader.line]
<1> USE DEF TypeInv
<1>1. /\ Accepts(l) /\ pc' = "lines" /\ HasRun(c) /\ database' = database
      /\ UNCHANGED <<label, file, imports, listed, dirs, makefile>>
      /\ reader.line \in Nat \ {0}
  <2>1. PICK d \in dirs : IsNext(d) /\ HasRun(d)
    OBVIOUS
  <2>2. c = d
    <3>1. c \in Nat /\ d \in Nat /\ c <= d /\ d <= c
      BY <2>1, IngestionAssumption DEF IsNext, TypeOK
    <3> QED
      BY <3>1
  <2> QED
    BY <2>1, <2>2 DEF ReadLine, Runs, Directory
<1>2. ASSUME IsHeader(l)
      PROVE  /\ \A k \in DOMAIN reader.values :
                  k.run \in 1 .. Len(work.runs) /\ reader.values[k] \in Nat \ {0}
             /\ Len(work.runs) \in Nat
  <2>1. AllRead /\ Storable
    BY <1>1, <1>2 DEF Accepts, IsHeader, IsCounts
  <2> QED
    BY <2>1 DEF Storable, IsReader, IsTables, RunRows
<1>3. work'.runs = work.runs /\ work'.exists = work.exists /\ IsTables(work)'
  <2>1. CASE IsHeader(l)
    <3>1. work' = [exists |-> work.exists, runs |-> work.runs, rows |-> Store(work.rows)]
      BY <2>1 DEF ReadLine, IsTables
    <3>2. \A k \in DOMAIN Store(work.rows) :
            k.run \in 1 .. Len(work.runs) /\ Store(work.rows)[k] \in Nat \ {0}
      BY <1>2, <2>1, StoreTypes DEF IsTables
    <3> QED
      BY <3>1, <3>2 DEF IsTables
  <2>2. CASE ~IsHeader(l)
    BY <2>2 DEF ReadLine, IsTables
  <2> QED
    BY <2>1, <2>2
<1>4. TypeOK'
  BY <1>1, <1>3 DEF TypeOK, IsTables
<1>5. IsReader(Len(work.runs))' /\ reader'.line \in Nat \ {0}
  <2>1. CASE IsHeader(l)
    <3>1. reader' = StartBlock(l)
      <4>1. ~IsCounts(l)
        BY <2>1 DEF IsHeader, IsCounts
      <4> QED
        BY <2>1, <4>1 DEF ReadLine
    <3>2. reader' = [line |-> reader.line + 1, state |-> "READING", started |-> TRUE,
                     unit |-> l.unit, thread |-> l.thread, site |-> 0, values |-> <<>>,
                     observed |-> reader.observed \cup {l.unit},
                     shared |-> l.unit \in reader.observed]
      BY <3>1, Zenon DEF StartBlock
    <3> HIDE DEF l
    <3> QED
      BY <1>1, <3>2 DEF IsReader
  <2>2. CASE IsCounts(l)
    <3>1. l.counts \in Seq(Nat)
      BY <1>1, <2>2, LineTypes DEF IsCounts
    <3>2. reader' = [line |-> reader.line + 1, state |-> reader.state,
                     started |-> reader.started, unit |-> reader.unit,
                     thread |-> reader.thread, site |-> reader.site + 1,
                     values |-> Insert(reader.values, Values(c, l.counts)),
                     observed |-> reader.observed, shared |-> reader.shared]
      <4>1. ~IsHeader(l)
        BY <2>2 DEF IsCounts, IsHeader
      <4>2. reader' = [reader EXCEPT !.line = @ + 1, !.site = @ + 1,
                         !.values = Insert(@, Values(c, l.counts))]
        BY <2>2, <4>1 DEF ReadLine
      <4> QED
        BY <4>2 DEF IsReader
    <3>3. DOMAIN Insert(reader.values, Values(c, l.counts))
            = DOMAIN reader.values \cup DOMAIN Values(c, l.counts)
      BY DEF Insert
    <3>4. \A k \in DOMAIN Insert(reader.values, Values(c, l.counts)) :
            Insert(reader.values, Values(c, l.counts))[k] =
              IF k \in DOMAIN reader.values THEN reader.values[k] ELSE Values(c, l.counts)[k]
      BY DEF Insert
    <3>5. \A k \in DOMAIN reader'.values :
            /\ k.run \in 1 .. Len(work.runs)
            /\ reader'.values[k] \in Nat
            /\ reader.unit \notin Bounds => reader'.values[k] # 0
      BY <1>1, <3>1, <3>2, <3>3, <3>4, ValuesTypes DEF IsReader
    <3>6. reader.started
      BY <2>2 DEF IsCounts, IsReader
    <3> QED
      BY <1>1, <1>3, <3>2, <3>5, <3>6 DEF IsReader
  <2>3. CASE ~IsHeader(l) /\ ~IsCounts(l)
    <3>1. reader' = [reader EXCEPT !.line = @ + 1, !.state = Transition(l)]
      BY <2>3 DEF ReadLine
    <3>2. reader' = [line |-> reader.line + 1, state |-> Transition(l),
                     started |-> reader.started, unit |-> reader.unit,
                     thread |-> reader.thread, site |-> reader.site,
                     values |-> reader.values, observed |-> reader.observed,
                     shared |-> reader.shared]
      BY <3>1 DEF IsReader
    <3>3. Transition(l) # "READING"
      BY <1>1, <2>3 DEF Accepts, IsCounts, IsHeader, Transition
    <3> QED
      BY <1>1, <1>3, <3>2, <3>3 DEF IsReader
  <2> QED
    BY <2>1, <2>2, <2>3
<1>6. IsNext(c)' /\ HasRun(c)' /\ IsTables(database)'
  BY <1>1, <1>3 DEF IsNext, HasRun, IsTables
<1> QED
  BY <1>1, <1>3, <1>4, <1>5, <1>6 DEF IsNext

\* The end of the file of the run that is read.
LEMMA FileEndTypes ==
  ASSUME TypeInv, NEW c \in Cases, pc = "lines", IsNext(c), EndOfFile(c)
  PROVE  TypeInv'
<1> USE DEF TypeInv
<1>1. /\ pc' = "reports" /\ reader' = Closed /\ dirs' = dirs \ {c} /\ database' = database
      /\ UNCHANGED <<label, file, imports, listed, makefile>>
  BY DEF EndOfFile, Runs, Directory
<1>2. work'.runs = work.runs /\ IsTables(work)'
  <2>1. CASE DOMAIN reader.values # {}
    <3>1. /\ \A k \in DOMAIN reader.values :
               k.run \in 1 .. Len(work.runs) /\ reader.values[k] \in Nat \ {0}
          /\ Len(work.runs) \in Nat
      BY <2>1 DEF EndOfFile, AcceptsEnd, Storable, IsReader, IsTables, RunRows
    <3>2. work' = [exists |-> work.exists, runs |-> work.runs, rows |-> Store(work.rows)]
      BY <2>1 DEF EndOfFile, IsTables
    <3>3. \A k \in DOMAIN Store(work.rows) :
            k.run \in 1 .. Len(work.runs) /\ Store(work.rows)[k] \in Nat \ {0}
      BY <3>1, StoreTypes DEF IsTables
    <3> QED
      BY <3>2, <3>3 DEF IsTables
  <2>2. CASE DOMAIN reader.values = {}
    BY <2>2 DEF EndOfFile, IsTables
  <2> QED
    BY <2>1, <2>2
<1>3. IsReader(Len(work.runs))' /\ IsTables(database)'
  BY <1>1 DEF IsReader, Closed, IsTables
<1>4. TypeOK'
  BY <1>1, <1>2 DEF TypeOK, IsTables
<1> QED
  BY <1>1, <1>2, <1>3, <1>4 DEF Closed

LEMMA NextTypes == TypeInv /\ [Next]_vars => TypeInv'
<1> SUFFICES ASSUME TypeInv, [Next]_vars PROVE TypeInv'
  OBVIOUS
<1>1. CASE \/ \E c \in Cases : MakeRun(c)
          \/ Begin \/ RemoveFile \/ WriteMakefile \/ UNCHANGED vars
  BY <1>1, SimpleTypes
<1>2. CASE WriteSites \/ CommitRuns \/ CommitCounts \/ \E c \in Cases : ReadLabel(c)
  BY <1>2, LabelTypes
<1>3. CASE \E c \in Cases : OpenReport(c)
  BY <1>3, OpenTypes
<1>4. ASSUME NEW c \in Cases, ReadReport(c) PROVE TypeInv'
  <2>1. CASE Leave("aborted")
    BY <2>1, LeaveTypes
  <2>2. CASE reader.line <= Len(file[c]) /\ ~Leave("aborted")
    BY <1>4, <2>2, LineStepTypes DEF ReadReport
  <2>3. CASE ~(reader.line <= Len(file[c])) /\ ~Leave("aborted")
    BY <1>4, <2>3, FileEndTypes DEF ReadReport
  <2> QED
    BY <2>1, <2>2, <2>3
<1>5. CASE Crash
  BY <1>5, LeaveTypes DEF Crash
<1> QED
  BY <1>1, <1>2, <1>3, <1>4, <1>5 DEF Next

\* Theorem: the type invariant: rows are about runs that have a number, and are
\* positive, which the table demands.
THEOREM IngestionTypes == Spec => []TypeOK
<1>1. TypeInv => TypeOK
  BY DEF TypeInv
<1> QED
  BY InitTypes, NextTypes, <1>1, PTL DEF Spec

-----------------------------------------------------------------------------
(* The numbers of the runs.                                                *)

\* Numbers follow the order of the directories; outcomes are labels.
Numbered(rows) ==
  /\ \A i, j \in 1 .. Len(rows) : i < j => rows[i].case < rows[j].case
  /\ \A i \in 1 .. Len(rows) : rows[i].outcome = label[rows[i].case]

CasesOf(rows) == {rows[i].case : i \in 1 .. Len(rows)}

IsLabelled(c) == label[c] \in Verdicts \cup {"ignore"}

RunsInv ==
  /\ Numbered(work.runs) /\ Numbered(database.runs)
  /\ pc = "labels" =>
       /\ CasesOf(work.runs) = {c \in listed \ dirs : label[c] # "ignore"}
       /\ \A c \in listed \ dirs : IsLabelled(c) /\ \A d \in dirs : c < d
  /\ pc \in {"reports", "lines", "makefile", "print", "done"} =>
       /\ work.runs = database.runs
       /\ CasesOf(database.runs) = {c \in listed : label[c] # "ignore"}
       /\ \A c \in listed : IsLabelled(c)
  /\ pc \in {"labels", "reports", "lines", "makefile"} => makefile.text = "absent"
  /\ database.exists /\ makefile.text = "whole" => makefile.end = Len(database.runs)

Inv == TypeInv /\ RunsInv

LEMMA NoRuns ==
  /\ NoTables.runs = <<>> /\ NewTables.runs = <<>> /\ NoMakefile.text = "absent"
  /\ Numbered(<<>>) /\ CasesOf(<<>>) = {}
  BY DEF NoTables, NewTables, NoMakefile, Numbered, CasesOf

LEMMA InitRuns == Init => RunsInv
  BY NoRuns DEF Init, RunsInv

\* A label that is a verdict, or "ignore", stays.
LEMMA MakeRunRuns ==
  ASSUME Inv, NEW c \in Cases, MakeRun(c)
  PROVE  RunsInv'
<1> USE DEF Inv, TypeInv
<1>1. /\ UNCHANGED <<pc, listed, dirs, work, database, makefile>>
      /\ \A d \in Cases : IsLabelled(d) => label'[d] = label[d]
  BY DEF MakeRun, Directory, IsLabelled, Verdicts, TypeOK
<1>2. ASSUME NEW rows \in RunRows, Numbered(rows)
      PROVE  Numbered(rows)' /\ CasesOf(rows)' = CasesOf(rows)
  <2>1. ASSUME NEW i \in 1 .. Len(rows)
        PROVE  rows[i].case \in Cases /\ rows[i].outcome \in Verdicts
    <3>1. rows[i] \in [case : Cases, outcome : Verdicts]
      BY ElementOfSeq DEF RunRows
    <3> QED
      BY <3>1
  <2> QED
    BY <1>1, <1>2, <2>1 DEF Numbered, CasesOf, IsLabelled
<1>3. work.runs \in RunRows /\ database.runs \in RunRows /\ listed \subseteq Cases
  BY DEF IsTables, TypeOK
<1>4. Numbered(work.runs)' /\ Numbered(database.runs)'
  BY <1>1, <1>2, <1>3 DEF RunsInv, Numbered
<1>5. CasesOf(work.runs)' = CasesOf(work.runs) /\ CasesOf(database.runs)' = CasesOf(database.runs)
  BY <1>1 DEF CasesOf
<1>6. \A d \in Cases : IsLabelled(d) => IsLabelled(d)' /\ (label'[d] = "ignore" <=> label[d] = "ignore")
  BY <1>1 DEF IsLabelled
<1> QED
  BY <1>1, <1>3, <1>4, <1>5, <1>6 DEF RunsInv

\* Steps that number no run.
LEMMA PlainRuns ==
  ASSUME Inv, UNCHANGED label,
         \/ Begin \/ RemoveFile \/ WriteSites \/ CommitRuns \/ CommitCounts \/ WriteMakefile
         \/ (\E place \in {"idle", "aborted"} : Leave(place))
         \/ UNCHANGED vars
  PROVE  RunsInv'
<1> USE DEF Inv
<1>2. CASE Begin
  BY <1>2 DEF Begin, Directory, RunsInv, Numbered
<1>3. CASE RemoveFile
  BY <1>3, NoRuns DEF RemoveFile, RunsInv, Numbered, NoTables
<1>4. CASE WriteSites
  <2>1. work'.runs = <<>> /\ database'.runs = <<>> /\ pc' = "labels" /\ dirs' = listed
        /\ listed' = listed /\ makefile' = makefile /\ makefile.text = "absent"
    BY <1>4, NoRuns DEF WriteSites
  <2> QED
    BY <2>1 DEF RunsInv, Numbered, CasesOf
<1>5. CASE CommitRuns
  BY <1>5 DEF CommitRuns, RunsInv, Numbered, CasesOf, IsLabelled
<1>6. CASE CommitCounts
  BY <1>6 DEF CommitCounts, RunsInv, Numbered, CasesOf, IsLabelled
<1>7. CASE WriteMakefile
  BY <1>7 DEF WriteMakefile, RunsInv, Numbered, CasesOf, IsLabelled
<1>8. CASE \E place \in {"idle", "aborted"} : Leave(place)
  <2>1. work'.runs = <<>> /\ pc' \in {"idle", "aborted"} /\ UNCHANGED <<database, makefile>>
    BY <1>8, NoRuns DEF Leave, Directory
  <2> QED
    BY <2>1 DEF RunsInv, Numbered
<1>9. CASE UNCHANGED vars
  <2>1. UNCHANGED <<label, pc, listed, dirs, work, database, makefile>>
    BY <1>9 DEF vars
  <2> QED
    BY <2>1 DEF RunsInv, Numbered, CasesOf, IsLabelled
<1> QED
  BY <1>2, <1>3, <1>4, <1>5, <1>6, <1>7, <1>8, <1>9

\* Reports add rows, not runs.
LEMMA ReportRuns ==
  ASSUME Inv, NEW c \in Cases,
         OpenReport(c) \/ (ReadReport(c) /\ ~Leave("aborted"))
  PROVE  RunsInv'
<1>1. /\ UNCHANGED <<label, listed, database, makefile>>
      /\ work'.runs = work.runs
      /\ pc \in {"reports", "lines"} /\ pc' \in {"reports", "lines"}
  <2>1. CASE OpenReport(c)
    BY <2>1 DEF OpenReport, Runs, Directory
  <2>2. CASE ReadReport(c) /\ ~Leave("aborted")
    <3>1. pc = "lines"
      BY <2>2 DEF ReadReport
    <3>2. CASE ReadLine(c, file[c][reader.line])
      BY <3>1, <3>2 DEF ReadLine, Runs, Directory, Inv, TypeInv, IsTables
    <3>3. CASE EndOfFile(c)
      BY <3>1, <3>3 DEF EndOfFile, Runs, Directory, Inv, TypeInv, IsTables
    <3> QED
      BY <2>2, <3>2, <3>3 DEF ReadReport
  <2> QED
    BY <2>1, <2>2
<1> QED
  BY <1>1 DEF Inv, RunsInv, Numbered, CasesOf, IsLabelled

\* A label that is read gives the next number to its directory.
LEMMA ReadLabelRuns ==
  ASSUME Inv, NEW c \in Cases, ReadLabel(c), ~Leave("aborted")
  PROVE  RunsInv'
<1> USE DEF Inv, TypeInv
<1>1. /\ pc = "labels" /\ pc' = "labels" /\ IsNext(c) /\ IsLabelled(c)
      /\ NumberRun(c) /\ dirs' = dirs \ {c}
      /\ UNCHANGED <<label, listed, database, makefile>>
  BY DEF ReadLabel, IsLabelled, Runs, Directory
<1>2. work.runs \in RunRows /\ dirs \subseteq listed /\ listed \subseteq Cases /\ Cases \subseteq Nat
  BY IngestionAssumption DEF IsTables, TypeOK
<1>3. \A i \in 1 .. Len(work.runs) : work.runs[i].case \in listed \ dirs
  BY <1>1 DEF RunsInv, CasesOf
<1>4. \A i \in 1 .. Len(work.runs) : work.runs[i].case < c
  BY <1>1, <1>3 DEF RunsInv, IsNext
<1>5. \A d \in listed \ dirs' : IsLabelled(d) /\ \A e \in dirs' : d < e
  <2>1. \A e \in dirs' : c < e
    BY <1>1, <1>2 DEF IsNext
  <2> QED
    BY <1>1, <2>1 DEF RunsInv
<1>6. Numbered(work'.runs) /\ CasesOf(work'.runs) = {d \in listed \ dirs' : label[d] # "ignore"}
  <2>1. CASE label[c] = "ignore"
    <3>1. work' = work
      BY <1>1, <2>1 DEF NumberRun
    <3> QED
      BY <1>1, <2>1, <3>1 DEF RunsInv
  <2>2. CASE label[c] # "ignore"
    <3> DEFINE row == [case |-> c, outcome |-> label[c]]
               n == Len(work.runs)
    <3>1. work'.runs = Append(work.runs, row)
      <4>1. work' = [work EXCEPT !.runs = Append(@, row)]
        BY <1>1, <2>2 DEF NumberRun
      <4>2. work = [exists |-> work.exists, runs |-> work.runs, rows |-> work.rows]
        BY DEF IsTables
      <4> HIDE DEF row
      <4> QED
        BY <4>1, <4>2
    <3>2. /\ n \in Nat /\ Len(work'.runs) = n + 1
          /\ \A i \in 1 .. n : work'.runs[i] = work.runs[i]
          /\ work'.runs[n + 1] = row
      <4>1. row \in [case : Cases, outcome : Verdicts]
        BY <1>1, <2>2 DEF IsLabelled
      <4> HIDE DEF row
      <4> QED
        BY <1>2, <3>1, <4>1, AppendProperties DEF RunRows
    <3>3. row.case = c /\ row.outcome = label[c]
      OBVIOUS
    <3> HIDE DEF row, n
    <3>4. \A i \in 1 .. n : /\ work.runs[i].outcome = label[work.runs[i].case]
                            /\ \A j \in 1 .. n : i < j => work.runs[i].case < work.runs[j].case
      BY DEF RunsInv, Numbered, n
    <3>5. Numbered(work'.runs)
      <4>1. ASSUME NEW i \in 1 .. n + 1, NEW j \in 1 .. n + 1, i < j
            PROVE  work'.runs[i].case < work'.runs[j].case
        <5>1. i \in 1 .. n
          BY <3>2, <4>1
        <5>2. CASE j \in 1 .. n
          BY <3>2, <3>4, <4>1, <5>1, <5>2
        <5>3. CASE j = n + 1
          BY <1>4, <3>2, <3>3, <5>1, <5>3 DEF n
        <5> QED
          BY <3>2, <5>2, <5>3
      <4>2. ASSUME NEW i \in 1 .. n + 1
            PROVE  work'.runs[i].outcome = label[work'.runs[i].case]
        <5>1. CASE i \in 1 .. n
          <6>1. work'.runs[i] = work.runs[i]
            BY <3>2, <5>1
          <6> QED
            BY <3>4, <5>1, <6>1
        <5>2. CASE i = n + 1
          <6>1. work'.runs[i] = row
            BY <3>2, <5>2
          <6> QED
            BY <3>3, <6>1
        <5> QED
          BY <3>2, <5>1, <5>2
      <4> QED
        BY <3>2, <4>1, <4>2 DEF Numbered
    <3>6. CasesOf(work'.runs) = CasesOf(work.runs) \cup {c}
      <4>1. ASSUME NEW d \in CasesOf(work'.runs) PROVE d \in CasesOf(work.runs) \cup {c}
        <5>1. PICK i \in 1 .. n + 1 : d = work'.runs[i].case
          BY <3>2 DEF CasesOf
        <5>2. i \in 1 .. n \/ i = n + 1
          BY <3>2
        <5> QED
          BY <3>2, <3>3, <5>1, <5>2 DEF CasesOf, n
      <4>2. ASSUME NEW d \in CasesOf(work.runs) PROVE d \in CasesOf(work'.runs)
        <5>1. PICK i \in 1 .. n : d = work.runs[i].case
          BY DEF CasesOf, n
        <5>2. d = work'.runs[i].case /\ i \in 1 .. n + 1
          BY <3>2, <5>1
        <5> QED
          BY <3>2, <5>2 DEF CasesOf
      <4>3. c \in CasesOf(work'.runs)
        <5>1. n + 1 \in 1 .. n + 1
          BY <3>2
        <5> QED
          BY <3>2, <3>3, <5>1 DEF CasesOf
      <4> QED
        BY <4>1, <4>2, <4>3
    <3>7. {d \in listed \ dirs' : label[d] # "ignore"}
            = {d \in listed \ dirs : label[d] # "ignore"} \cup {c}
      BY <1>1, <1>2, <2>2 DEF IsNext
    <3> QED
      BY <1>1, <3>5, <3>6, <3>7 DEF RunsInv
  <2> QED
    BY <2>1, <2>2
<1>7. Numbered(work.runs)' /\ Numbered(database.runs)'
  BY <1>1, <1>6 DEF RunsInv, Numbered
<1>8. /\ CasesOf(work.runs)' = {d \in listed' \ dirs' : label'[d] # "ignore"}
      /\ \A d \in listed' \ dirs' : IsLabelled(d)' /\ \A e \in dirs' : d < e
  BY <1>1, <1>5, <1>6 DEF CasesOf, IsLabelled
<1> QED
  BY <1>1, <1>7, <1>8 DEF RunsInv

LEMMA NextRuns == Inv /\ [Next]_vars => Inv'
<1> SUFFICES ASSUME Inv, [Next]_vars PROVE Inv'
  OBVIOUS
<1>1. TypeInv'
  BY NextTypes DEF Inv
<1>2. RunsInv'
  <2>1. CASE \/ Begin \/ RemoveFile \/ WriteSites \/ CommitRuns \/ CommitCounts
             \/ WriteMakefile \/ UNCHANGED vars
    <3>1. UNCHANGED label
      BY <2>1 DEF Begin, RemoveFile, WriteSites, CommitRuns, CommitCounts, WriteMakefile,
                  Runs, vars
    <3> QED
      BY <2>1, <3>1, PlainRuns
  <2>2. CASE \E place \in {"idle", "aborted"} : Leave(place)
    <3>1. UNCHANGED label
      BY <2>2 DEF Leave, Runs
    <3> QED
      BY <2>2, <3>1, PlainRuns
  <2>3. CASE \E c \in Cases : MakeRun(c)
    BY <2>3, MakeRunRuns
  <2>4. CASE \E c \in Cases : ReadLabel(c)
    BY <2>2, <2>4, ReadLabelRuns
  <2>5. CASE \E c \in Cases : OpenReport(c) \/ ReadReport(c)
    BY <2>2, <2>5, ReportRuns
  <2>6. CASE Crash
    BY <2>2, <2>6 DEF Crash
  <2> QED
    BY <2>1, <2>3, <2>4, <2>5, <2>6 DEF Next
<1> QED
  BY <1>1, <1>2 DEF Inv

\* Theorem: the published database numbers the labelled runs of the import, in
\* order, with the outcomes of their label files, whatever imports and crashes
\* came before.
THEOREM IngestionRenumbered == Spec => []RunsRenumbered
<1>1. Inv => RunsRenumbered
  BY DEF Inv, RunsInv, RunsRenumbered, Published, Numbered, CasesOf, Imported
<1>2. Init => Inv
  BY InitTypes, InitRuns DEF Inv
<1> QED
  BY <1>1, <1>2, NextRuns, PTL DEF Spec

================================================================================
