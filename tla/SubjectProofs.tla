----------------------------- MODULE SubjectProofs -----------------------------
(***************************************************************************)
(* Theorems about the runs of bc, ccrypt, exif and moss (SubjectRun) and   *)
(* the watchdog they contain, for every bound on the output.               *)
(***************************************************************************)
EXTENDS SubjectRun, TLAPS, SequenceTheorems, WellFoundedInduction

-----------------------------------------------------------------------------
(* Numbers and sequences.                                                  *)

LEMMA LeastNumber ==
  ASSUME NEW N \in SUBSET Nat, N # {}
  PROVE  \E m \in N : \A k \in N : m <= k
<1>1. PICK m \in N : \A k \in N : <<k, m>> \notin OpToRel(<, Nat)
  BY NatLessThanWellFounded, WFMin, Zenon
<1>2. \A k \in N : ~(k < m)
  BY <1>1, Zenon DEF OpToRel
<1> QED BY <1>2

LEMMA FirstLineIsLine ==
  ASSUME buffer \in Seq(Tokens), Newlines # {}
  PROVE  FirstLine \in 1 .. Len(buffer) /\ buffer[FirstLine] = "eol"
<1>1. Newlines \in SUBSET Nat
  BY LenProperties DEF Newlines
<1>2. \E m \in Newlines : \A k \in Newlines : m <= k
  BY <1>1, LeastNumber
<1>3. FirstLine \in Newlines
  BY <1>2 DEF FirstLine
<1> QED BY <1>3, LenProperties DEF Newlines

LEMMA SubSeqOfTokens ==
  ASSUME NEW s \in Seq(Tokens), NEW m \in 1 .. Len(s) + 1, NEW n \in 0 .. Len(s)
  PROVE  /\ SubSeq(s, m, n) \in Seq(Tokens)
         /\ Len(SubSeq(s, m, n)) = IF m <= n THEN n - m + 1 ELSE 0
         /\ \A i \in 1 .. n - m + 1 : SubSeq(s, m, n)[i] = s[m + i - 1]
<1>1. Len(s) \in Nat
  BY LenProperties
<1>2. \A i \in m .. n : s[i] \in Tokens
  BY <1>1, ElementOfSeq
<1> QED BY <1>1, <1>2, SubSeqProperties, SMT

LEMMA ConcatTokens ==
  \A s, t, u \in Seq(Tokens) : (s \o t) \o u = s \o (t \o u)
BY ConcatAssociative

LEMMA ConcatAppend ==
  ASSUME NEW s \in Seq(Tokens), NEW t \in Seq(Tokens), NEW u \in Seq(Tokens), NEW e \in Tokens
  PROVE  s \o t \o Append(u, e) = Append(s \o t \o u, e)
<1>1. s \o t \in Seq(Tokens) /\ (s \o t) \o u \in Seq(Tokens)
  BY ConcatProperties
<1>2. Append(u, e) = u \o <<e>> /\ Append(s \o t \o u, e) = (s \o t \o u) \o <<e>>
  BY <1>1, AppendIsConcat
<1>3. <<e>> \in Seq(Tokens)
  OBVIOUS
<1> QED BY <1>1, <1>2, <1>3, ConcatAssociative

\* What ends with a whole line is visible.
LEMMA WholeIsVisible ==
  ASSUME NEW s \in Seq(Tokens), EndOfLine(s)
  PROVE  Visible(s) = s
BY DEF EndOfLine, Visible

LEMMA LineEnds ==
  ASSUME NEW s \in Seq(Tokens), NEW b \in Seq(Tokens), NEW n \in 1 .. Len(b), b[n] = "eol"
  PROVE  /\ EndOfLine(s \o SubSeq(b, 1, n))
         /\ (s \o SubSeq(b, 1, n)) \o SubSeq(b, n + 1, Len(b)) = s \o b
<1> DEFINE p == SubSeq(b, 1, n)
<1> DEFINE r == SubSeq(b, n + 1, Len(b))
<1>1. Len(s) \in Nat /\ Len(b) \in Nat
  BY LenProperties
<1>2. p \in Seq(Tokens) /\ Len(p) = n /\ p[n] = b[n] /\ r \in Seq(Tokens)
  <2>1. /\ p \in Seq(Tokens) /\ Len(p) = IF 1 <= n THEN n - 1 + 1 ELSE 0
        /\ \A i \in 1 .. n - 1 + 1 : p[i] = b[1 + i - 1]
    BY <1>1, SubSeqOfTokens
  <2>2. r \in Seq(Tokens)
    BY <1>1, SubSeqOfTokens
  <2> HIDE DEF p, r
  <2> QED BY <1>1, <2>1, <2>2
<1>3. p \o r = b
  BY <1>1, ConcatAdjacentSubSeq, SubSeqFull
<1> HIDE DEF p, r
<1>4. Len(s \o p) = Len(s) + n /\ (s \o p)[Len(s) + n] = "eol"
  <2>1. /\ Len(s \o p) = Len(s) + Len(p)
        /\ \A i \in 1 .. Len(s) + Len(p) :
             (s \o p)[i] = IF i <= Len(s) THEN s[i] ELSE p[i - Len(s)]
    BY <1>2, ConcatProperties
  <2>2. Len(s) + n \in 1 .. Len(s) + Len(p) /\ ~(Len(s) + n <= Len(s))
        /\ Len(s) + n - Len(s) = n
    BY <1>1, <1>2
  <2> QED BY <1>2, <2>1, <2>2
<1>5. EndOfLine(s \o p)
  BY <1>4 DEF EndOfLine
<1>6. (s \o p) \o r = s \o b
  <2>1. p \in Seq(Tokens) /\ r \in Seq(Tokens)
    BY <1>2
  <2>2. (s \o p) \o r = s \o (p \o r)
    BY <2>1, ConcatTokens, Zenon
  <2> QED BY <1>3, <2>2, Zenon
<1> QED BY <1>5, <1>6 DEF p, r

LEMMA FrontOfConcat ==
  ASSUME NEW s \in Seq(Tokens), NEW r \in Seq(Tokens), r # <<>>
  PROVE  /\ Front(s \o r) \in Seq(Tokens)
         /\ Len(Front(s \o r)) = Len(s) + Len(r) - 1
         /\ \A i \in 1 .. Len(s) + Len(r) - 1 : Front(s \o r)[i] = (s \o r)[i]
<1>1. Len(s) \in Nat /\ Len(r) \in Nat \ {0}
  BY LenProperties, EmptySeq
<1>2. s \o r \in Seq(Tokens) /\ Len(s \o r) = Len(s) + Len(r)
  BY ConcatProperties
<1> DEFINE c == s \o r
<1>3. /\ SubSeq(c, 1, Len(c) - 1) \in Seq(Tokens)
      /\ Len(SubSeq(c, 1, Len(c) - 1)) =
           IF 1 <= Len(c) - 1 THEN Len(c) - 1 - 1 + 1 ELSE 0
      /\ \A i \in 1 .. Len(c) - 1 - 1 + 1 : SubSeq(c, 1, Len(c) - 1)[i] = c[1 + i - 1]
  BY <1>1, <1>2, SubSeqOfTokens
<1>4. Front(c) = SubSeq(c, 1, Len(c) - 1)
  BY DEF Front
<1>5. Len(c) = Len(s) + Len(r)
  BY <1>2
<1> HIDE DEF c
<1>6. /\ Front(c) \in Seq(Tokens) /\ Len(Front(c)) = Len(s) + Len(r) - 1
      /\ \A i \in 1 .. Len(s) + Len(r) - 1 : Front(c)[i] = c[i]
  BY <1>1, <1>3, <1>4, <1>5
<1> QED BY <1>6 DEF c

LEMMA PrefixOfConcat ==
  ASSUME NEW s \in Seq(Tokens), NEW r \in Seq(Tokens)
  PROVE  IsPrefix(s, s \o r)
<1>1. /\ s \o r \in Seq(Tokens) /\ Len(s \o r) = Len(s) + Len(r)
      /\ \A i \in 1 .. Len(s) + Len(r) : (s \o r)[i] = IF i <= Len(s) THEN s[i] ELSE r[i - Len(s)]
  BY ConcatProperties
<1>2. Len(s) \in Nat /\ Len(r) \in Nat /\ Len(s) <= Len(s \o r)
  BY <1>1, LenProperties
<1>3. SubSeq(s, 1, Len(s)) = s
  BY SubSeqFull
<1>4. SubSeq(s \o r, 1, Len(s)) = s
  <2> DEFINE c == s \o r
  <2>1. /\ SubSeq(c, 1, Len(s)) \in Seq(Tokens)
        /\ Len(SubSeq(c, 1, Len(s))) = IF 1 <= Len(s) THEN Len(s) - 1 + 1 ELSE 0
        /\ \A i \in 1 .. Len(s) - 1 + 1 : SubSeq(c, 1, Len(s))[i] = c[1 + i - 1]
    BY <1>1, <1>2, SubSeqOfTokens
  <2>2. \A i \in 1 .. Len(s) : c[i] = s[i]
    BY <1>1, <1>2
  <2> HIDE DEF c
  <2>3. Len(SubSeq(c, 1, Len(s))) = Len(s)
        /\ \A i \in 1 .. Len(s) : SubSeq(c, 1, Len(s))[i] = s[i]
    BY <1>2, <2>1, <2>2
  <2>4. SubSeq(c, 1, Len(s)) = s
    BY <2>1, <2>3, SeqEqual
  <2> QED BY <2>4 DEF c
<1> QED BY <1>2, <1>3, <1>4 DEF IsPrefix

\* The digit 0 alone after the last whole line is what the log does not show.
LEMMA DigitIsInvisible ==
  ASSUME NEW s \in Seq(Tokens), EndOfLine(s)
  PROVE  Visible(s \o <<"0">>) = s
<1> DEFINE r == <<"0">>
<1>1. Len(s) \in Nat /\ r \in Seq(Tokens) /\ r # <<>> /\ Len(r) = 1 /\ r[1] = "0"
  BY LenProperties DEF Tokens
<1> HIDE DEF r
<1>2. /\ s \o r \in Seq(Tokens) /\ Len(s \o r) = Len(s) + 1
      /\ \A i \in 1 .. Len(s) + 1 : (s \o r)[i] = IF i <= Len(s) THEN s[i] ELSE r[i - Len(s)]
  <2>1. /\ s \o r \in Seq(Tokens) /\ Len(s \o r) = Len(s) + Len(r)
        /\ \A i \in 1 .. Len(s) + Len(r) : (s \o r)[i] = IF i <= Len(s) THEN s[i] ELSE r[i - Len(s)]
    BY <1>1, ConcatProperties, Zenon
  <2> QED BY <1>1, <2>1, Zenon
<1>3. /\ Front(s \o r) \in Seq(Tokens) /\ Len(Front(s \o r)) = Len(s)
      /\ \A i \in 1 .. Len(s) : Front(s \o r)[i] = (s \o r)[i]
  <2>1. /\ Front(s \o r) \in Seq(Tokens) /\ Len(Front(s \o r)) = Len(s) + Len(r) - 1
        /\ \A i \in 1 .. Len(s) + Len(r) - 1 : Front(s \o r)[i] = (s \o r)[i]
    BY <1>1, FrontOfConcat
  <2>2. Len(s) + Len(r) - 1 = Len(s)
    BY <1>1
  <2> QED BY <2>1, <2>2, Zenon
<1>4. \A i \in 1 .. Len(s) : Front(s \o r)[i] = s[i]
  BY <1>1, <1>2, <1>3
<1>5. Front(s \o r) = s
  BY <1>1, <1>3, <1>4, SeqEqual
<1>6. (s \o r)[Len(s \o r)] = "0" /\ s \o r # <<>>
  BY <1>1, <1>2, EmptySeq
<1>7. Visible(s \o r) = s
  BY <1>5, <1>6 DEF Visible
<1> QED BY <1>7 DEF r

LEMMA RestIsVisible ==
  ASSUME NEW s \in Seq(Tokens), EndOfLine(s), NEW r \in Seq(Tokens),
         r # <<>>, r # <<"0">>, \A i \in 1 .. Len(r) : r[i] # "eol"
  PROVE  Visible(s \o r) = s \o r
<1>1. Len(s) \in Nat /\ Len(r) \in Nat \ {0}
  BY LenProperties, EmptySeq
<1>2. /\ Len(s \o r) = Len(s) + Len(r)
      /\ \A i \in 1 .. Len(s) + Len(r) :
           (s \o r)[i] = IF i <= Len(s) THEN s[i] ELSE r[i - Len(s)]
  BY ConcatProperties
<1>3. /\ Front(s \o r) \in Seq(Tokens)
      /\ Len(Front(s \o r)) = Len(s) + Len(r) - 1
      /\ \A i \in 1 .. Len(s) + Len(r) - 1 : Front(s \o r)[i] = (s \o r)[i]
  BY FrontOfConcat
<1>4. CASE Len(r) = 1
  <2>1. r[1] # "0"
    <3>1. SUFFICES ASSUME r[1] = "0" PROVE r = <<"0">>
      OBVIOUS
    <3>2. <<"0">> \in Seq(Tokens) /\ Len(<<"0">>) = 1 /\ <<"0">>[1] = "0"
      BY DEF Tokens
    <3> QED BY <1>4, <3>1, <3>2, SeqEqual
  <2>2. (s \o r)[Len(s \o r)] # "0"
    BY <1>1, <1>2, <1>4, <2>1
  <2> QED BY <2>2 DEF Visible
<1>5. CASE Len(r) # 1
  <2>1. Len(r) >= 2
    <3>1. \A n \in Nat \ {0} : n # 1 => n >= 2
      OBVIOUS
    <3> QED BY <1>1, <1>5, <3>1, Zenon
  <2>2. Front(s \o r)[Len(Front(s \o r))] = r[Len(r) - 1]
    BY <1>1, <1>2, <1>3, <2>1
  <2>3. Front(s \o r)[Len(Front(s \o r))] # "eol"
    BY <1>1, <2>1, <2>2
  <2>4. Front(s \o r) # <<>>
    BY <1>1, <1>3, <2>1, EmptySeq
  <2> QED BY <2>3, <2>4 DEF Visible, EndOfLine
<1> QED BY <1>4, <1>5

-----------------------------------------------------------------------------
(* Types.                                                                  *)

LEMMA Endings ==
  /\ \A k, n : As(k, n).kind = k
  /\ \A e \in Ended : e.kind \in {"normal", "signal"}
BY DEF Ended, As

\* A watchdog at work has a program.
Typed == TypeOK /\ (place # "off" => program # As("unborn", 0))

LEMMA Starting == Init => Typed
<1> SUFFICES ASSUME Init PROVE Typed
  OBVIOUS
<1>1. <<>> \in Seq(Tokens) /\ Len(<<>>) <= MaxOutput
  <2>1. <<>> \in Seq(Tokens) /\ Len(<<>>) = 0
    BY EmptySeq
  <2> QED BY <2>1, WatchdogAssumption
<1>2. open \in BOOLEAN
  BY Zenon DEF Init, Fresh
<1>3. WatchdogTypeOK /\ place = "off"
  BY <1>1, <1>2 DEF Init, Fresh, WatchdogTypeOK
<1>4. good.exit = None
  BY DEF Init
<1> QED BY <1>3, <1>4 DEF Init, TypeOK, Typed

\* What the watchdog reads is still text.
LEMMA WatchdogTypes ==
  ASSUME WatchdogTypeOK, WatchdogStep, place # "off" => program # As("unborn", 0)
  PROVE  WatchdogTypeOK' /\ program' = program /\ place # "off"
<1>1. CASE ReadLine
  <2>1. FirstLine \in 1 .. Len(buffer) /\ Len(buffer) \in Nat
    BY <1>1, FirstLineIsLine, LenProperties DEF ReadLine, WatchdogTypeOK
  <2>2. SubSeq(buffer, 1, FirstLine) \in Seq(Tokens)
        /\ SubSeq(buffer, FirstLine + 1, Len(buffer)) \in Seq(Tokens)
    BY <2>1, SubSeqOfTokens DEF WatchdogTypeOK
  <2>3. log' \in Seq(Tokens) /\ buffer' \in Seq(Tokens)
    BY <1>1, <2>2, ConcatProperties DEF ReadLine, WatchdogTypeOK
  <2> QED BY <1>1, <2>3 DEF ReadLine, WatchdogTypeOK, programVars
<1>2. CASE Fill
  <2>1. buffer' \in Seq(Tokens) /\ pipe' \in Seq(Tokens)
    BY <1>2, ConcatProperties, EmptySeq DEF Fill, WatchdogTypeOK
  <2> QED BY <1>2, <2>1 DEF Fill, WatchdogTypeOK, programVars
<1>3. CASE ReadRest
  <2>1. <<>> \in Seq(Tokens) /\ log \o buffer \in Seq(Tokens)
    BY ConcatProperties, EmptySeq DEF WatchdogTypeOK
  <2>2. log' = log \/ log' = log \o buffer
    BY <1>3, Zenon DEF ReadRest
  <2>3. place' \in {"close", "select"} /\ buffer' = <<>> /\ UNCHANGED <<programVars, pipe, exit>>
    BY <1>3, Zenon DEF ReadRest
  <2> QED BY <1>3, <2>1, <2>2, <2>3 DEF ReadRest, AtEnd, WatchdogTypeOK, programVars
<1>4. CASE CanRead \/ Silence \/ Reap
  BY <1>4 DEF CanRead, Silence, Reap, WatchdogTypeOK, programVars
<1>5. CASE Close
  <2>1. program \in Ended
    BY <1>5, Endings DEF Close, WatchdogTypeOK, IsRunning
  <2> QED BY <1>5, <2>1 DEF Close, WatchdogTypeOK, programVars
<1>6. CASE Kill
  BY <1>6 DEF Kill, WatchdogTypeOK
<1> QED BY <1>1, <1>2, <1>3, <1>4, <1>5, <1>6 DEF WatchdogStep

LEMMA ProgramTypes ==
  ASSUME WatchdogTypeOK,
         (\E t \in Tokens : Write(t)) \/ CloseOutput \/ (\E e \in Ended : EndAs(e))
  PROVE  WatchdogTypeOK' /\ place' = place /\ program' # As("unborn", 0)
<1>0. As("unborn", 0) \notin Ended /\ (IsRunning => program # As("unborn", 0))
  BY Endings DEF IsRunning
<1>1. ASSUME NEW t \in Tokens, Write(t) PROVE WatchdogTypeOK' /\ place' = place /\ program' # As("unborn", 0)
  <2>1. /\ written' \in Seq(Tokens) /\ Len(written') = Len(written) + 1
        /\ pipe' \in Seq(Tokens) /\ Len(written) \in Nat
    BY <1>1, AppendProperties, LenProperties DEF Write, WatchdogTypeOK
  <2>2. Len(written') <= MaxOutput
    BY <1>1, <2>1, WatchdogAssumption DEF Write
  <2> QED BY <1>0, <1>1, <2>1, <2>2 DEF Write, WatchdogTypeOK
<1>2. CASE CloseOutput
  BY <1>0, <1>2 DEF CloseOutput, WatchdogTypeOK
<1>3. ASSUME NEW e \in Ended, EndAs(e) PROVE WatchdogTypeOK' /\ place' = place /\ program' # As("unborn", 0)
  BY <1>0, <1>3 DEF EndAs, WatchdogTypeOK
<1> QED BY <1>1, <1>2, <1>3

LEMMA LaunchTypes == Launch => WatchdogTypeOK' /\ program' # As("unborn", 0)
<1>1. <<>> \in Seq(Tokens) /\ Len(<<>>) <= MaxOutput
  <2>1. <<>> \in Seq(Tokens) /\ Len(<<>>) = 0
    BY EmptySeq
  <2> QED BY <2>1, WatchdogAssumption
<1>2. As("running", 0) # As("unborn", 0)
  BY Endings
<1> QED BY <1>1, <1>2 DEF Launch, WatchdogTypeOK

LEMMA Verdict ==
  /\ WaitStatus \in {"zero", "signal", "error"}
  /\ MossVerdict \in {"ignore", "success", "failure"}
  /\ CheckOutcome \in {"success", "failure"}
  /\ LabelOnce \in {"ignore", "success", "failure"}
<1>1. WaitStatus \in {"zero", "signal", "error"}
  BY Zenon DEF WaitStatus
<1>2. MossVerdict \in {"ignore", "success", "failure"}
  BY Zenon DEF MossVerdict
<1>3. CheckOutcome \in {"success", "failure"}
  BY Zenon DEF CheckOutcome
<1> QED BY <1>1, <1>2, <1>3, Zenon DEF LabelOnce

LEMMA NextTypes == Typed /\ [Next]_vars => Typed'
<1> SUFFICES ASSUME Typed, [Next]_vars PROVE Typed'
  OBVIOUS
<1> USE DEF Typed, TypeOK
<1>0. ASSUME UNCHANGED watchdogVars
      PROVE  WatchdogTypeOK' /\ (place' # "off" => program' # As("unborn", 0))
  BY <1>0 DEF watchdogVars, programVars, WatchdogTypeOK
<1>1. CASE Output \/ Detach
  BY <1>1, ProgramTypes DEF Output, Detach, runVars
<1>2. CASE ProgramEnds \/ SigkillEnds
  <2>1. reports' \in {"none", "part", "whole"}
    BY <1>2, Zenon DEF ProgramEnds, SigkillEnds
  <2>2. \E e \in Ended : EndAs(e)
    BY <1>2 DEF ProgramEnds, SigkillEnds, Ended
  <2> QED BY <1>2, <2>1, <2>2, ProgramTypes DEF ProgramEnds, SigkillEnds
<1>3. CASE Spawn
  <2>1. As("running", 0) # As("unborn", 0)
    BY Endings
  <2> QED BY <1>3, <2>1 DEF Spawn, WatchdogTypeOK
<1>4. CASE SpawnFails \/ Fatal \/ ToolFails \/ Compare
  BY <1>4, <1>0 DEF SpawnFails, Fatal, ToolFails, Compare, Difference
<1>5. CASE NoteOutcome \/ NoteExitStatus
  BY <1>5, <1>0, Verdict DEF NoteOutcome, NoteExitStatus
<1>6. ASSUME NEW v \in {"-", "good", "bad"}, RunMoss(v) PROVE Typed'
  <2>1. good'.exit \in Ended \cup {None, As("timeout", 0)}
    BY <1>6 DEF RunMoss, WatchdogTypeOK, None
  <2> QED BY <1>6, <2>1, LaunchTypes DEF RunMoss
<1>7. CASE Label
  BY <1>7, <1>0, Verdict DEF Label
<1>8. CASE WatchdogRuns
  BY <1>8, WatchdogTypes DEF WatchdogRuns, runVars
<1>9. CASE WatchdogDies
  BY <1>9 DEF WatchdogDies, Die, runVars, WatchdogTypeOK, programVars
<1>10. CASE UNCHANGED vars
  BY <1>10, <1>0 DEF vars
<1> QED BY <1>1, <1>2, <1>3, <1>4, <1>5, <1>6, <1>7, <1>8, <1>9, <1>10 DEF Next, Supervisor

\* Whatever the programs write and however they end, files and places stay
\* among those that the scripts know.
THEOREM SubjectTypes == Spec => []TypeOK
<1>1. Spec => []Typed
  BY Starting, NextTypes, PTL DEF Spec
<1>2. Typed => TypeOK
  BY DEF Typed
<1> QED BY <1>1, <1>2, PTL

-----------------------------------------------------------------------------
(* The watchdog and its log.                                               *)

TimedOut == exit.kind = "timeout"
Conserved == written = log \o buffer \o pipe

\* The rest of the output, which has no end of line, is in the log.
RestLogged == ~open /\ buffer = <<>> /\ pipe = <<>> /\ Visible(log) = log

\* Where no byte is on its way any more, the log tells what has been written;
\* where some are, the log and what follows it in the buffer and in the pipe do.
LogOK ==
  /\ place \in {"select", "read", "kill", "reap"} \/ TimedOut => Conserved
  /\ place \in {"select", "read"} => EndOfLine(log) \/ RestLogged
  /\ place = "kill" \/ TimedOut => EndOfLine(log)
  /\ place \in {"close", "over"} /\ ~TimedOut => log = Visible(written) /\ ~open

\* What the watchdog says of the end of the program.
ExitOK ==
  /\ place \in {"off", "select", "read", "close", "kill"} => exit = None
  /\ place = "reap" => TimedOut
  /\ place = "over" => ~IsRunning /\ (TimedOut \/ exit = program)
  /\ place # "off" => program # As("unborn", 0)
  /\ open => IsRunning

LEMMA NoneIsNoTimeout == None.kind = "none" /\ As("timeout", 0).kind = "timeout"
BY Endings DEF None

LEMMA ExitSteps ==
  ASSUME WatchdogTypeOK, ExitOK, WatchdogStep
  PROVE  ExitOK'
<1> USE DEF ExitOK, TimedOut, IsRunning, programVars
<1>1. CASE CanRead \/ Silence \/ ReadLine \/ Fill
  BY <1>1 DEF CanRead, Silence, ReadLine, Fill
<1>2. CASE ReadRest
  <2>1. place' \in {"close", "select"} /\ UNCHANGED <<programVars, exit>> /\ place = "read"
    BY <1>2, Zenon DEF ReadRest, AtEnd
  <2> QED BY <2>1
<1>3. CASE Close
  BY <1>3 DEF Close
<1>4. CASE Kill
  BY <1>4, NoneIsNoTimeout DEF Kill
<1>5. CASE Reap
  BY <1>5 DEF Reap
<1> QED BY <1>1, <1>2, <1>3, <1>4, <1>5 DEF WatchdogStep

\* A line moves from the buffer to the log.
LEMMA LineLogged ==
  ASSUME WatchdogTypeOK, ExitOK, LogOK, ReadLine
  PROVE  LogOK'
<1>1. FirstLine \in 1 .. Len(buffer) /\ buffer[FirstLine] = "eol"
  BY FirstLineIsLine DEF ReadLine, WatchdogTypeOK
<1>2. /\ EndOfLine(log \o SubSeq(buffer, 1, FirstLine))
      /\ (log \o SubSeq(buffer, 1, FirstLine)) \o SubSeq(buffer, FirstLine + 1, Len(buffer))
           = log \o buffer
  BY <1>1, LineEnds DEF WatchdogTypeOK
<1>3. EndOfLine(log') /\ log' \o buffer' = log \o buffer
  BY <1>2, Zenon DEF ReadLine
<1>4. place = "read" /\ place' = "select" /\ UNCHANGED <<written, pipe, open, exit>>
  BY DEF ReadLine, programVars
<1>5. Conserved'
  BY <1>3, <1>4, Zenon DEF LogOK, Conserved
<1>6. exit' = None
  BY <1>4 DEF ExitOK
<1> QED BY <1>3, <1>4, <1>5, <1>6, NoneIsNoTimeout DEF LogOK, TimedOut

\* The pipe is read ahead.
LEMMA PipeRead ==
  ASSUME WatchdogTypeOK, ExitOK, LogOK, Fill
  PROVE  LogOK'
<1>1. place = "read" /\ place' = "read" /\ UNCHANGED <<written, open, log, exit>>
      /\ buffer' = buffer \o pipe /\ pipe' = <<>> /\ pipe # <<>>
  BY DEF Fill, programVars
<1>2. log \o buffer \o pipe = log \o (buffer \o pipe) \o <<>>
  <2>1. log \in Seq(Tokens) /\ buffer \o pipe \in Seq(Tokens)
    BY ConcatProperties DEF WatchdogTypeOK
  <2>2. log \o (buffer \o pipe) \in Seq(Tokens)
    BY <2>1, ConcatProperties
  <2>3. log \o (buffer \o pipe) \o <<>> = log \o (buffer \o pipe)
    BY <2>2, ConcatEmptySeq
  <2>4. (log \o buffer) \o pipe = log \o (buffer \o pipe)
    BY ConcatTokens, Zenon DEF WatchdogTypeOK
  <2> QED BY <2>3, <2>4, Zenon
<1>3. Conserved'
  BY <1>1, <1>2, Zenon DEF LogOK, Conserved
<1>4. EndOfLine(log') /\ exit' = None
  BY <1>1 DEF LogOK, ExitOK, RestLogged
<1> QED BY <1>1, <1>3, <1>4, NoneIsNoTimeout DEF LogOK, TimedOut

\* The end of the file: a rest without its end is logged, unless it is the
\* digit 0, which Visible leaves out as well.
LEMMA RestRead ==
  ASSUME WatchdogTypeOK, ExitOK, LogOK, ReadRest
  PROVE  LogOK'
<1>1. /\ place = "read" /\ pipe = <<>> /\ ~open /\ UNCHANGED <<written, open, pipe, exit>>
      /\ buffer' = <<>> /\ Newlines = {}
  BY DEF ReadRest, AtEnd, programVars
<1>2. exit' = None /\ exit'.kind # "timeout"
  BY <1>1, NoneIsNoTimeout DEF ExitOK
<1>3. log \in Seq(Tokens) /\ buffer \in Seq(Tokens) /\ log \o buffer \in Seq(Tokens)
  BY ConcatProperties DEF WatchdogTypeOK
<1>4. written = log \o buffer
  BY <1>1, <1>3, ConcatEmptySeq DEF LogOK, Conserved
<1>5. log \o <<>> = log /\ (log \o buffer) \o <<>> = log \o buffer
      /\ ((log \o buffer) \o <<>>) \o <<>> = log \o buffer
  BY <1>3, ConcatEmptySeq
<1>6. CASE buffer = <<>>
  <2>1. place' = "close" /\ log' = log
    BY <1>6, Zenon DEF ReadRest
  <2>2. written = log
    BY <1>4, <1>5, <1>6
  <2>3. Visible(log) = log
    BY <1>1, <1>3, WholeIsVisible DEF LogOK, RestLogged
  <2> QED BY <1>1, <1>2, <2>1, <2>2, <2>3 DEF LogOK, TimedOut
<1>7. CASE buffer = <<"0">>
  <2>1. place' = "close" /\ log' = log
    BY <1>7, Zenon DEF ReadRest
  <2>2. EndOfLine(log)
    <3>1. <<"0">> # <<>>
      OBVIOUS
    <3> QED BY <1>1, <1>7, <3>1 DEF LogOK, RestLogged
  <2>3. Visible(written) = log
    BY <1>3, <1>4, <1>7, <2>2, DigitIsInvisible
  <2> QED BY <1>1, <1>2, <2>1, <2>3 DEF LogOK, TimedOut
<1>8. CASE buffer # <<>> /\ buffer # <<"0">>
  <2>1. place' = "select" /\ log' = log \o buffer
    BY <1>8, Zenon DEF ReadRest
  <2>2. EndOfLine(log)
    BY <1>1, <1>8 DEF LogOK, RestLogged
  <2>3. \A i \in 1 .. Len(buffer) : buffer[i] # "eol"
    BY <1>1, <1>3, LenProperties DEF Newlines
  <2>4. Visible(log') = log'
    BY <1>3, <1>8, <2>1, <2>2, <2>3, RestIsVisible
  <2>5. Conserved'
    BY <1>1, <1>4, <1>5, <2>1, Zenon DEF Conserved
  <2>6. RestLogged'
    BY <1>1, <2>4 DEF RestLogged
  <2> QED BY <1>2, <2>1, <2>5, <2>6 DEF LogOK, TimedOut
<1> QED BY <1>6, <1>7, <1>8

LEMMA LogSteps ==
  ASSUME WatchdogTypeOK, ExitOK, LogOK, WatchdogStep
  PROVE  LogOK'
<1>1. CASE CanRead
  BY <1>1 DEF CanRead, programVars, LogOK, TimedOut, Conserved, RestLogged
<1>2. CASE Silence
  <2>1. EndOfLine(log)
    BY <1>2 DEF Silence, Readable, LogOK, RestLogged
  <2> QED BY <1>2, <2>1 DEF Silence, programVars, LogOK, TimedOut, Conserved, RestLogged
<1>3. CASE Close
  <2>1. exit'.kind # "timeout"
    BY <1>3, Endings DEF Close, IsRunning, WatchdogTypeOK
  <2>2. exit = None
    BY <1>3 DEF Close, ExitOK
  <2> QED BY <1>3, <2>1, <2>2, NoneIsNoTimeout DEF Close, programVars, LogOK, TimedOut
<1>4. CASE Kill
  BY <1>4 DEF Kill, LogOK, TimedOut, Conserved
<1>5. CASE Reap
  BY <1>5 DEF Reap, programVars, ExitOK, LogOK, TimedOut, Conserved
<1> QED BY <1>1, <1>2, <1>3, <1>4, <1>5, LineLogged, PipeRead, RestRead DEF WatchdogStep

LEMMA ProgramSteps ==
  ASSUME WatchdogTypeOK, ExitOK, LogOK,
         (\E t \in Tokens : Write(t)) \/ CloseOutput \/ (\E e \in Ended : EndAs(e))
  PROVE  ExitOK' /\ LogOK'
<1>1. ASSUME NEW t \in Tokens, Write(t) PROVE ExitOK' /\ LogOK'
  <2>1. Conserved => Conserved'
    <3>1. log \o buffer \o Append(pipe, t) = Append(log \o buffer \o pipe, t)
      BY ConcatAppend DEF WatchdogTypeOK
    <3> QED BY <1>1, <3>1 DEF Write, Conserved
  <2>2. ExitOK'
    BY <1>1 DEF Write, ExitOK, TimedOut, IsRunning
  <2>3. LogOK'
    BY <1>1, <2>1 DEF Write, LogOK, TimedOut, RestLogged
  <2> QED BY <2>2, <2>3
<1>2. CASE CloseOutput
  <2>1. ExitOK'
    BY <1>2 DEF CloseOutput, ExitOK, TimedOut, IsRunning
  <2>2. LogOK'
    BY <1>2 DEF CloseOutput, LogOK, TimedOut, Conserved, RestLogged
  <2> QED BY <2>1, <2>2
<1>3. ASSUME NEW e \in Ended, EndAs(e) PROVE ExitOK' /\ LogOK'
  <2>1. e # As("unborn", 0)
    BY Endings
  <2>2. ExitOK'
    BY <1>3, <2>1 DEF EndAs, ExitOK, TimedOut, IsRunning
  <2>3. LogOK'
    BY <1>3 DEF EndAs, LogOK, TimedOut, Conserved, RestLogged
  <2> QED BY <2>2, <2>3
<1> QED BY <1>1, <1>2, <1>3

LEMMA LaunchSteps == Launch => ExitOK' /\ LogOK'
<1> SUFFICES ASSUME Launch PROVE ExitOK' /\ LogOK'
  OBVIOUS
<1>1. <<>> \in Seq(Tokens) /\ <<>> \o <<>> \o <<>> = <<>>
  <2>1. <<>> \in Seq(Tokens)
    BY EmptySeq
  <2> QED BY <2>1, ConcatEmptySeq
<1>2. As("running", 0) # As("unborn", 0) /\ As("running", 0).kind = "running"
  BY Endings
<1>3. exit' = None /\ exit'.kind # "timeout"
  BY NoneIsNoTimeout DEF Launch, None
<1>4. ExitOK'
  BY <1>2, <1>3 DEF Launch, ExitOK, IsRunning
<1>5. Conserved' /\ EndOfLine(log')
  BY <1>1 DEF Launch, Conserved, EndOfLine
<1> QED BY <1>3, <1>4, <1>5 DEF Launch, LogOK, TimedOut

LEMMA DieSteps ==
  ASSUME ExitOK, LogOK, Die
  PROVE  ExitOK' /\ LogOK'
BY DEF Die, programVars, ExitOK, LogOK, TimedOut, Conserved, RestLogged, IsRunning

-----------------------------------------------------------------------------
(* The scripts.                                                            *)

\* The stages of a run and its program.
StageOK ==
  /\ stage = "start" => program = As("unborn", 0) /\ place = "off"
  /\ stage = "run" => program # As("unborn", 0)
  /\ program = As("unborn", 0) => reports = "none"
  /\ subject # "moss" => place = "off"
  /\ subject = "moss" /\ stage \in {"done", "labelled"} => place = "over" /\ variant = "bad"

\* What run-once notes is what label-once finds.
NotesOK ==
  /\ subject \in {"bc", "exif"} /\ stage \in {"done", "labelled"} =>
       \/ program = As("unborn", 0) /\ outcome = "-1"
       \/ program \in Ended /\ outcome = WaitStatus
  /\ subject = "moss" /\ stage \in {"done", "labelled"} =>
       outcome = IF log # good.stdout \/ exit # good.exit THEN "nonzero" ELSE "zero"
  /\ stage # "labelled" => label = "none"
  /\ stage = "labelled" /\ subject # "ccrypt" => label = LabelOnce

\* The execution of the reference.
GoodOK ==
  variant = "bad" =>
    /\ good.exit \in Ended \cup {As("timeout", 0)}
    /\ good.exit.kind # "timeout" => good.stdout = Visible(good.written)

SubjectInv == Typed /\ ExitOK /\ LogOK /\ StageOK /\ NotesOK /\ GoodOK

\* What is stamped no longer changes.
LEMMA Stamped ==
  ASSUME SubjectInv, subject # "ccrypt", stage \in {"done", "labelled"}
  PROVE  ~IsRunning
<1>1. As("unborn", 0).kind # "running" /\ (\A e \in Ended : e.kind # "running")
  BY Endings
<1>2. subject \in {"bc", "exif", "moss"}
  BY SubjectAssumption DEF SubjectInv, Typed, TypeOK
<1>3. CASE subject = "moss"
  BY <1>3 DEF SubjectInv, StageOK, ExitOK
<1>4. CASE subject \in {"bc", "exif"}
  BY <1>1, <1>4 DEF SubjectInv, NotesOK, IsRunning
<1> QED BY <1>2, <1>3, <1>4

LEMMA SubjectInit == Init => SubjectInv
<1> SUFFICES ASSUME Init PROVE SubjectInv
  OBVIOUS
<1>1. Typed
  BY Starting
<1>2. place = "off" /\ exit = None /\ program = As("unborn", 0) /\ open = FALSE
  BY Zenon DEF Init, Fresh, None
<1>3. exit.kind # "timeout"
  BY <1>2, NoneIsNoTimeout
<1>4. ExitOK /\ LogOK
  BY <1>2, <1>3 DEF ExitOK, LogOK, TimedOut
<1>5. StageOK /\ NotesOK /\ GoodOK
  BY <1>2 DEF Init, StageOK, NotesOK, GoodOK
<1> QED BY <1>1, <1>4, <1>5 DEF SubjectInv

\* The program writes, closes its output, or ends.
LEMMA ProgramInv ==
  ASSUME SubjectInv, Output \/ Detach \/ ProgramEnds \/ SigkillEnds
  PROVE  ExitOK' /\ LogOK' /\ StageOK' /\ NotesOK' /\ GoodOK'
<1>1. (\E t \in Tokens : Write(t)) \/ CloseOutput \/ (\E e \in Ended : EndAs(e))
  BY DEF Output, Detach, ProgramEnds, SigkillEnds, Ended
<1>2. ExitOK' /\ LogOK'
  BY <1>1, ProgramSteps DEF SubjectInv, Typed, TypeOK
<1>3. IsRunning /\ UNCHANGED <<subject, variant, good, outcome, stage, label, place, log, exit>>
  BY DEF Output, Detach, ProgramEnds, SigkillEnds, Write, CloseOutput, EndAs, runVars
<1>4. program # As("unborn", 0) /\ program' # As("unborn", 0)
  BY <1>1, <1>3, Endings DEF Write, CloseOutput, EndAs, IsRunning
<1>5. StageOK'
  BY <1>3, <1>4 DEF SubjectInv, StageOK
<1>6. stage \in {"done", "labelled"} => subject = "ccrypt"
  BY <1>3, Stamped
<1>7. NotesOK'
  BY <1>3, <1>6 DEF SubjectInv, NotesOK
<1>8. GoodOK'
  BY <1>3 DEF SubjectInv, GoodOK
<1> QED BY <1>2, <1>5, <1>7, <1>8

\* A step of the watchdog, or its death.
LEMMA WatchdogInv ==
  ASSUME SubjectInv, WatchdogRuns \/ WatchdogDies
  PROVE  ExitOK' /\ LogOK' /\ StageOK' /\ NotesOK' /\ GoodOK'
<1>1. ExitOK' /\ LogOK'
  <2>1. CASE WatchdogRuns
    BY <2>1, ExitSteps, LogSteps DEF WatchdogRuns, SubjectInv, Typed, TypeOK
  <2>2. CASE WatchdogDies
    BY <2>2, DieSteps DEF WatchdogDies, SubjectInv
  <2> QED BY <2>1, <2>2
<1>2. stage = "run" /\ place # "off" /\ program' = program
      /\ UNCHANGED <<subject, variant, good, reports, outcome, stage, label>>
  <2>1. CASE WatchdogRuns
    BY <2>1, WatchdogTypes DEF WatchdogRuns, SubjectInv, Typed, TypeOK, runVars
  <2>2. CASE WatchdogDies
    BY <2>2 DEF WatchdogDies, Die, programVars, runVars
  <2> QED BY <2>1, <2>2
<1>3. StageOK' /\ NotesOK' /\ GoodOK'
  BY <1>2 DEF SubjectInv, StageOK, NotesOK, GoodOK
<1> QED BY <1>1, <1>3

\* The scripts that look at what has ended: nothing of the watchdog changes.
LEMMA StillInv ==
  ASSUME SubjectInv, UNCHANGED watchdogVars
  PROVE  ExitOK' /\ LogOK'
BY DEF watchdogVars, programVars, SubjectInv, ExitOK, LogOK, TimedOut, Conserved, RestLogged,
       IsRunning

LEMMA SpawnInv ==
  ASSUME SubjectInv, Spawn
  PROVE  ExitOK' /\ LogOK' /\ StageOK' /\ NotesOK' /\ GoodOK'
<1>1. place = "off" /\ exit = None
  BY DEF Spawn, SubjectInv, StageOK, ExitOK
<1>2. program' # As("unborn", 0) /\ program'.kind = "running"
  BY Endings DEF Spawn
<1>3. ExitOK' /\ LogOK'
  BY <1>1, <1>2, NoneIsNoTimeout DEF Spawn, ExitOK, LogOK, TimedOut, IsRunning
<1>4. StageOK' /\ NotesOK' /\ GoodOK'
  BY <1>2 DEF Spawn, SubjectInv, StageOK, NotesOK, GoodOK
<1> QED BY <1>3, <1>4

\* Before the faulty program is run, the watchdog has told how the reference
\* has ended.
LEMMA RunMossInv ==
  ASSUME SubjectInv, NEW v \in {"-", "good", "bad"}, RunMoss(v)
  PROVE  ExitOK' /\ LogOK' /\ StageOK' /\ NotesOK' /\ GoodOK'
<1>1. ExitOK' /\ LogOK' /\ program' # As("unborn", 0)
  BY LaunchSteps, LaunchTypes DEF RunMoss
<1>2. subject' = "moss" /\ stage' = "run" /\ stage \in {"start", "run"}
      /\ UNCHANGED <<reports, outcome, label>> /\ subject = "moss"
  BY DEF RunMoss
<1>3. StageOK' /\ NotesOK'
  BY <1>1, <1>2 DEF SubjectInv, StageOK, NotesOK
<1>4. GoodOK'
  <2>1. CASE v # "bad"
    BY <2>1 DEF RunMoss, GoodOK
  <2>2. CASE v = "bad"
    <3>1. place = "over" /\ good' = [stdout |-> log, written |-> written, exit |-> exit]
      BY <2>2 DEF RunMoss
    <3>2. exit \in Ended \cup {As("timeout", 0)}
      <4>1. CASE TimedOut
        BY <4>1, Endings, NoneIsNoTimeout
           DEF SubjectInv, Typed, TypeOK, WatchdogTypeOK, TimedOut, None
      <4>2. CASE ~TimedOut
        BY <3>1, <4>2 DEF SubjectInv, ExitOK, Typed, TypeOK, WatchdogTypeOK, IsRunning, Ended, As
      <4> QED BY <4>1, <4>2
    <3>3. exit.kind # "timeout" => log = Visible(written)
      BY <3>1 DEF SubjectInv, LogOK, TimedOut
    <3> QED BY <3>1, <3>2, <3>3 DEF GoodOK
  <2> QED BY <2>1, <2>2
<1> QED BY <1>1, <1>3, <1>4

\* What is noted, compared and labelled is what has ended.
LEMMA ScriptInv ==
  ASSUME SubjectInv, SpawnFails \/ NoteOutcome \/ NoteExitStatus \/ Compare \/ Fatal \/ ToolFails \/ Label
  PROVE  ExitOK' /\ LogOK' /\ StageOK' /\ NotesOK' /\ GoodOK'
<1>1. /\ UNCHANGED <<watchdogVars, subject, variant, good, reports>>
      /\ stage' # "start" /\ (stage' = "run" => stage = "run")
  BY DEF SpawnFails, NoteOutcome, NoteExitStatus, Compare, Fatal, ToolFails, Label
<1>2. UNCHANGED <<program, written, place, log, exit>>
  BY <1>1 DEF watchdogVars, programVars
<1>3. ExitOK' /\ LogOK' /\ GoodOK'
  BY <1>1, <1>2, StillInv DEF SubjectInv, GoodOK
<1>4. WaitStatus' = WaitStatus
  BY <1>2, Zenon DEF WaitStatus
<1>5. StageOK' /\ NotesOK'
  <2>1. CASE SpawnFails
    <3>1. subject \in {"bc", "exif"} /\ stage = "start" /\ stage' = "done" /\ outcome' = "-1"
          /\ label' = label
      BY <2>1 DEF SpawnFails
    <3> QED BY <1>1, <1>2, <3>1 DEF SubjectInv, StageOK, NotesOK
  <2>2. CASE NoteOutcome
    <3>1. subject \in {"bc", "exif"} /\ stage = "run" /\ stage' = "done"
          /\ outcome' = WaitStatus /\ ~IsRunning /\ label' = label
      BY <2>2 DEF NoteOutcome
    <3>2. program \in Ended
      BY <3>1, Endings DEF SubjectInv, StageOK, Typed, TypeOK, WatchdogTypeOK, IsRunning
    <3> QED BY <1>1, <1>2, <1>4, <3>1, <3>2 DEF SubjectInv, StageOK, NotesOK
  <2>3. CASE NoteExitStatus
    <3>1. subject = "ccrypt" /\ stage = "run" /\ stage' = "done" /\ label' = label
      BY <2>3 DEF NoteExitStatus
    <3> QED BY <1>1, <1>2, <3>1 DEF SubjectInv, StageOK, NotesOK
  <2>4. CASE Compare
    <3>1. /\ stage = "run" /\ variant = "bad" /\ place = "over" /\ stage' = "done"
          /\ outcome' = IF log # good.stdout \/ exit # good.exit THEN "nonzero" ELSE "zero"
          /\ label' = label
      BY <2>4 DEF Compare, Difference
    <3>2. subject = "moss"
      BY <3>1 DEF SubjectInv, StageOK
    <3> QED BY <1>1, <1>2, <3>1, <3>2 DEF SubjectInv, StageOK, NotesOK
  <2>5. CASE Fatal
    <3>1. stage = "run" /\ stage' = "died" /\ label' = label
      BY <2>5 DEF Fatal
    <3> QED BY <1>1, <1>2, <3>1 DEF SubjectInv, StageOK, NotesOK
  <2>6. CASE ToolFails
    <3>1. stage' = "died" /\ label' = label /\ stage \in {"start", "run"}
      BY <2>6 DEF ToolFails
    <3> QED BY <1>1, <1>2, <3>1 DEF SubjectInv, StageOK, NotesOK
  <2>7. CASE Label
    <3>1. stage = "done" /\ stage' = "labelled" /\ label' = LabelOnce /\ outcome' = outcome
      BY <2>7 DEF Label
    <3>2. CheckOutcome' = CheckOutcome /\ MossVerdict' = MossVerdict
      BY <1>1, <3>1, Zenon DEF MossVerdict, CheckOutcome
    <3>3. LabelOnce' = LabelOnce
      BY <1>1, <3>2 DEF LabelOnce
    <3> QED BY <1>1, <1>2, <1>4, <3>1, <3>3 DEF SubjectInv, StageOK, NotesOK
  <2> QED BY <2>1, <2>2, <2>3, <2>4, <2>5, <2>6, <2>7
<1> QED BY <1>3, <1>5

LEMMA SubjectNext == SubjectInv /\ [Next]_vars => SubjectInv'
<1> SUFFICES ASSUME SubjectInv, [Next]_vars PROVE SubjectInv'
  OBVIOUS
<1>1. Typed'
  BY NextTypes DEF SubjectInv
<1>2. CASE Output \/ Detach \/ ProgramEnds \/ SigkillEnds
  BY <1>1, <1>2, ProgramInv DEF SubjectInv
<1>3. CASE WatchdogRuns \/ WatchdogDies
  BY <1>1, <1>3, WatchdogInv DEF SubjectInv
<1>4. CASE Spawn
  BY <1>1, <1>4, SpawnInv DEF SubjectInv
<1>5. ASSUME NEW v \in {"-", "good", "bad"}, RunMoss(v) PROVE SubjectInv'
  BY <1>1, <1>5, RunMossInv DEF SubjectInv
<1>6. CASE SpawnFails \/ NoteOutcome \/ NoteExitStatus \/ Compare \/ Fatal \/ ToolFails \/ Label
  BY <1>1, <1>6, ScriptInv DEF SubjectInv
<1>7. CASE UNCHANGED vars
  <2>1. /\ UNCHANGED <<watchdogVars, subject, variant, good, reports, outcome, stage, label>>
        /\ UNCHANGED <<program, place, log, exit>>
    BY <1>7 DEF vars, watchdogVars, programVars
  <2>2. WaitStatus' = WaitStatus /\ CheckOutcome' = CheckOutcome /\ MossVerdict' = MossVerdict
    BY <2>1, Zenon DEF WaitStatus, MossVerdict, CheckOutcome
  <2>3. StageOK' /\ NotesOK' /\ GoodOK'
    BY <2>1, <2>2 DEF LabelOnce, SubjectInv, StageOK, NotesOK, GoodOK
  <2> QED BY <1>1, <2>1, <2>3, StillInv DEF SubjectInv
<1> QED BY <1>2, <1>3, <1>4, <1>5, <1>6, <1>7 DEF Next, Supervisor

LEMMA SubjectInvariant == Spec => []SubjectInv
BY SubjectInit, SubjectNext, PTL DEF Spec

-----------------------------------------------------------------------------
(* The properties.                                                         *)

\* The log of the watchdog and the output of the program differ in nothing but
\* what is still on its way, and a last digit 0 without its end of line.
THEOREM OutputIsLogged == Spec => []OutputLogged
<1>1. SubjectInv => OutputLogged
  <2> SUFFICES ASSUME SubjectInv PROVE OutputLogged
    OBVIOUS
  <2>1. place \in {"select", "read", "kill", "reap"} => written = log \o buffer \o pipe
    BY DEF SubjectInv, LogOK, Conserved
  <2>2. place \in {"close", "over"} /\ exit.kind # "timeout" => log = Visible(written)
    BY DEF SubjectInv, LogOK, TimedOut
  <2>3. place = "over" => ~IsRunning
    BY DEF SubjectInv, ExitOK
  <2>4. ASSUME exit.kind = "timeout" PROVE IsPrefix(log, written) /\ EndOfLine(log)
    <3>1. written = log \o buffer \o pipe /\ EndOfLine(log)
      BY <2>4 DEF SubjectInv, LogOK, TimedOut, Conserved
    <3>2. log \in Seq(Tokens) /\ buffer \o pipe \in Seq(Tokens)
      BY ConcatProperties DEF SubjectInv, Typed, TypeOK, WatchdogTypeOK
    <3>3. written = log \o (buffer \o pipe)
      <4>1. log \in Seq(Tokens) /\ buffer \in Seq(Tokens) /\ pipe \in Seq(Tokens)
        BY DEF SubjectInv, Typed, TypeOK, WatchdogTypeOK
      <4> QED BY <3>1, <4>1, ConcatTokens, Zenon
    <3>4. IsPrefix(log, log \o (buffer \o pipe))
      BY <3>2, PrefixOfConcat
    <3> QED BY <3>1, <3>3, <3>4
  <2> QED BY <2>1, <2>2, <2>3, <2>4 DEF OutputLogged
<1> QED BY <1>1, SubjectInvariant, PTL

\* When a run of bc, exif or moss is stamped, its programs have ended.
THEOREM StampedIsQuiet == Spec => []QuietWhenStamped
<1>1. SubjectInv => QuietWhenStamped
  BY Stamped DEF QuietWhenStamped
<1> QED BY <1>1, SubjectInvariant, PTL

\* A run of bc or exif is said to fail exactly if its program has crashed.
THEOREM CrashIsLabelled == Spec => []CrashLabelled
<1>1. SubjectInv => CrashLabelled
  <2> SUFFICES ASSUME SubjectInv, label \in {"success", "failure"},
                      subject = "bc" \/ (subject = "exif" /\ outcome # "-1")
               PROVE  label = "failure" <=> program.kind = "signal"
    BY DEF CrashLabelled
  <2>1. stage = "labelled" /\ label = LabelOnce
    BY DEF SubjectInv, NotesOK
  <2>2. label = CheckOutcome /\ (subject # "exif" => reports = "whole")
    BY <2>1, Zenon DEF LabelOnce
  <2>3. outcome = WaitStatus /\ program \in Ended
    BY <2>1, <2>2 DEF SubjectInv, NotesOK, StageOK
  <2>4. program.kind = "signal" => WaitStatus = "signal"
    <3>1. program.kind = "signal" => program # As("normal", 0)
      BY Endings
    <3> QED BY <3>1, Zenon DEF WaitStatus
  <2>5. program.kind # "signal" => WaitStatus \in {"zero", "error"}
    BY Zenon DEF WaitStatus
  <2>6. outcome = "signal" => CheckOutcome = "failure"
    BY Zenon DEF CheckOutcome
  <2>7. outcome \in {"zero", "error"} => CheckOutcome = "success"
    BY Zenon DEF CheckOutcome
  <2> QED BY <2>2, <2>3, <2>4, <2>5, <2>6, <2>7
<1> QED BY <1>1, SubjectInvariant, PTL

\* A verdict on a run of moss is about the two programs: it says whether they
\* have written the same and ended in the same way.
THEOREM VerdictIsTrue == Spec => []VerdictTrue
<1>1. SubjectInv => VerdictTrue
  <2> SUFFICES ASSUME SubjectInv, subject = "moss", label \in {"success", "failure"}
               PROVE  /\ good.exit.kind = "normal"
                      /\ label = "success" <=> SameExecution /\ exit.kind # "timeout"
    BY DEF VerdictTrue
  <2>1. stage = "labelled" /\ label = LabelOnce
    BY DEF SubjectInv, NotesOK
  <2>2. label = MossVerdict
    BY <2>1, Zenon DEF LabelOnce
  <2>3. place = "over" /\ variant = "bad"
    BY <2>1 DEF SubjectInv, StageOK
  <2>4. outcome = IF log # good.stdout \/ exit # good.exit THEN "nonzero" ELSE "zero"
    BY <2>1 DEF SubjectInv, NotesOK
  <2>5. good.exit.kind \notin {"signal", "timeout"}
    BY <2>2, Zenon DEF MossVerdict
  <2>6. good.exit.kind = "normal" /\ good.stdout = Visible(good.written)
    BY <2>3, <2>5, Endings DEF SubjectInv, GoodOK
  <2>7. label = "success" <=> outcome = "zero"
    BY <2>2, <2>5, Zenon DEF MossVerdict
  <2>8. CASE exit.kind = "timeout"
    <3>1. outcome = "nonzero"
      BY <2>4, <2>5, <2>8
    <3> QED BY <2>6, <2>7, <2>8, <3>1
  <2>9. CASE exit.kind # "timeout"
    <3>1. log = Visible(written) /\ exit = program
      BY <2>3, <2>9 DEF SubjectInv, LogOK, ExitOK, TimedOut
    <3>2. outcome = "zero" <=> SameExecution
      BY <2>4, <2>6, <3>1 DEF SameExecution
    <3> QED BY <2>6, <2>7, <2>9, <3>2
  <2> QED BY <2>8, <2>9
<1> QED BY <1>1, SubjectInvariant, PTL

================================================================================
