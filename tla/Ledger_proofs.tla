---------------------------- MODULE Ledger_proofs -----------------------------
(***************************************************************************)
(* Proofs about Ledger: type correctness, that lines on disk stay there,   *)
(* that a truth is counted once when the file system reports no failed     *)
(* fsync, and what the ledger owes its clients: its own writes and crashes *)
(* never make it refuse to open, what a client was told stays on disk, and *)
(* at most one truth per answer is ever confirmed.  Then, where the file   *)
(* system takes a line or refuses it and an fsync succeeds: the index is   *)
(* the file, no outcome outlives its answer, and the ledger implements the *)
(* outcome book.  The two faults left out there break all three, and their *)
(* runs show how.                                                          *)
(***************************************************************************)
EXTENDS LedgerBook, SequenceTheorems, TLAPS

\* Every whole line of new stands at the same place in old.
NoNewLine(new, old) ==
  \A k \in DOMAIN new :
    new[k].kind = "whole" => k \in DOMAIN old /\ new[k] = old[k]

\* TypeOK is not inductive by itself: the index is built from the ids of whole
\* lines and the lines from the requests being served, so both must carry real
\* ids, and an outcome a real truth.
LinesWellFormed ==
  \A f \in Files : \A k \in DOMAIN file[f] :
    file[f][k].kind = "whole" => file[f][k].id \in Ids

OpsWellFormed ==
  \A c \in Callers : op[c].step # "idle" =>
    /\ op[c].id \in Ids
    /\ op[c].file = "outcomes" => op[c].truth \in Truths

TypeInv == TypeOK /\ LinesWellFormed /\ OpsWellFormed

-----------------------------------------------------------------------------
(* Lines and files.                                                        *)

\* What a prefix of a file is.
LEMMA PrefixLines ==
  ASSUME NEW lines \in Seq(Line), NEW n \in 0 .. Len(lines)
  PROVE  /\ SubSeq(lines, 1, n) \in Seq(Line)
         /\ Len(SubSeq(lines, 1, n)) = n
         /\ NoNewLine(SubSeq(lines, 1, n), lines)
         /\ \A k \in 1 .. n : SubSeq(lines, 1, n)[k] = lines[k]
<1>1. n \in Int /\ 1 \in Int /\ Len(lines) \in Nat
  BY LenProperties
<1>2. \A i \in 1 .. n : lines[i] \in Line
  BY <1>1, ElementOfSeq
<1>3. /\ SubSeq(lines, 1, n) \in Seq(Line)
      /\ Len(SubSeq(lines, 1, n)) = IF 1 <= n THEN n - 1 + 1 ELSE 0
      /\ \A i \in 1 .. n - 1 + 1 : SubSeq(lines, 1, n)[i] = lines[1 + i - 1]
  BY <1>1, <1>2, SubSeqProperties
<1>4. Len(SubSeq(lines, 1, n)) = n
  BY <1>1, <1>3
<1>5. DOMAIN SubSeq(lines, 1, n) = 1 .. n /\ DOMAIN lines = 1 .. Len(lines)
  BY <1>3, <1>4, LenProperties
<1> QED
  BY <1>1, <1>3, <1>4, <1>5 DEF NoNewLine

\* Open's truncation of a torn tail (truncateTornTail) only shortens a file.
LEMMA TruncatedLines ==
  ASSUME NEW lines \in Seq(Line)
  PROVE  /\ Truncated(lines) \in Seq(Line)
         /\ Len(Truncated(lines)) <= Len(lines)
         /\ NoNewLine(Truncated(lines), lines)
<1>1. CASE EndsTorn(lines)
  <2>1. Len(lines) \in Nat /\ Len(lines) # 0
    BY <1>1, EmptySeq, LenProperties DEF EndsTorn
  <2>2. Len(lines) - 1 \in 0 .. Len(lines)
    BY <2>1
  <2> QED
    BY <1>1, <2>1, <2>2, PrefixLines DEF Truncated
<1>2. CASE ~EndsTorn(lines)
  BY <1>2, LenProperties DEF Truncated, NoNewLine
<1> QED
  BY <1>1, <1>2

\* A write adds at most one whole line, after all the others.
LEMMA AppendedLines ==
  ASSUME NEW lines \in Seq(Line), NEW line \in Line
  PROVE  /\ AppendBytes(lines, line) \in Seq(Line)
         /\ Len(AppendBytes(lines, line)) >= Len(lines)
         /\ \A k \in DOMAIN AppendBytes(lines, line) :
              AppendBytes(lines, line)[k].kind = "whole" =>
                \/ k \in DOMAIN lines /\ AppendBytes(lines, line)[k] = lines[k]
                \/ k = Len(lines) + 1 /\ AppendBytes(lines, line)[k] = line
<1>1. Len(lines) \in Nat /\ DOMAIN lines = 1 .. Len(lines)
  BY LenProperties
<1>2. CASE EndsTorn(lines)
  <2> DEFINE last == IF line.kind = "torn" THEN Torn ELSE Malformed
  <2>1. last \in Line /\ last.kind # "whole"
    BY DEF Line, Torn, Malformed
  <2>2. Len(lines) \in 1 .. Len(lines)
    BY <1>1, <1>2, EmptySeq DEF EndsTorn
  <2>3. AppendBytes(lines, line) = [lines EXCEPT ![Len(lines)] = last]
    BY <1>2 DEF AppendBytes
  <2> HIDE DEF last
  <2>4. /\ [lines EXCEPT ![Len(lines)] = last] \in Seq(Line)
        /\ Len([lines EXCEPT ![Len(lines)] = last]) = Len(lines)
        /\ \A j \in 1 .. Len(lines) :
             [lines EXCEPT ![Len(lines)] = last][j] = IF j = Len(lines) THEN last ELSE lines[j]
    BY <2>1, <2>2, ExceptSeq
  <2>5. DOMAIN [lines EXCEPT ![Len(lines)] = last] = 1 .. Len(lines)
    BY <2>4, LenProperties
  <2> QED
    BY <1>1, <2>1, <2>3, <2>4, <2>5
<1>3. CASE ~EndsTorn(lines)
  BY <1>1, <1>3 DEF AppendBytes
<1> QED
  BY <1>2, <1>3

\* A fragment adds no whole line.
LEMMA TornLines ==
  ASSUME NEW lines \in Seq(Line)
  PROVE  /\ AppendBytes(lines, Torn) \in Seq(Line)
         /\ Len(AppendBytes(lines, Torn)) >= Len(lines)
         /\ NoNewLine(AppendBytes(lines, Torn), lines)
<1>1. Torn \in Line /\ Torn.kind # "whole"
  BY DEF Torn, Line
<1> QED
  BY <1>1, AppendedLines DEF NoNewLine

\* A power loss leaves a prefix, the durable lines at least, and a fragment.
LEMMA RemainingLines ==
  ASSUME NEW f \in Files, file[f] \in Seq(Line), durable[f] \in Nat,
         NEW lines \in Remains(f)
  PROVE  lines \in Seq(Line) /\ NoNewLine(lines, file[f])
<1>1. Len(file[f]) \in Nat
  BY LenProperties
<1>2. PICK k \in durable[f] .. Len(file[f]) :
        lines = SubSeq(file[f], 1, k) \/ lines = Append(SubSeq(file[f], 1, k), Torn)
  BY DEF Remains
<1>3. k \in 0 .. Len(file[f])
  BY <1>1, <1>2
<1>4. /\ SubSeq(file[f], 1, k) \in Seq(Line)
      /\ NoNewLine(SubSeq(file[f], 1, k), file[f])
  BY <1>3, PrefixLines
<1>5. CASE lines = SubSeq(file[f], 1, k)
  BY <1>4, <1>5
<1>6. CASE lines = Append(SubSeq(file[f], 1, k), Torn)
  <2> DEFINE s == SubSeq(file[f], 1, k)
  <2> HIDE DEF s
  <2>1. s \in Seq(Line) /\ NoNewLine(s, file[f]) /\ lines = Append(s, Torn)
    BY <1>4, <1>6 DEF s
  <2>2. Torn \in Line /\ Torn.kind # "whole"
    BY DEF Torn, Line
  <2> QED
    BY <2>1, <2>2 DEF NoNewLine
<1> QED
  BY <1>2, <1>5, <1>6

-----------------------------------------------------------------------------
(* Type correctness.                                                       *)

\* An empty pair of files, no index and idle handlers are of their types.
LEMMA TypeInit == Init => TypeInv
BY LedgerAssumption, EmptySeq
   DEF Init, TypeInv, TypeOK, LinesWellFormed, OpsWellFormed, Files, Idle, Op

\* What a step may do to the files without disturbing their part of TypeInv:
\* one file is replaced by lines that are well formed.
LEMMA FilesStep ==
  ASSUME TypeInv, NEW f \in Files, NEW lines \in Seq(Line),
         file' = [file EXCEPT ![f] = lines],
         \A k \in DOMAIN lines : lines[k].kind = "whole" => lines[k].id \in Ids
  PROVE  file' \in [Files -> Seq(Line)] /\ LinesWellFormed'
BY DEF TypeInv, TypeOK, LinesWellFormed

\* The ids Open collects from well-typed lines are answer ids.
LEMMA WholeIdsType ==
  ASSUME TypeInv, NEW f \in Files
  PROVE  WholeIds(file[f]) \subseteq Ids
BY DEF TypeInv, LinesWellFormed, WholeIds

\* Cutting a torn tail (truncateTornTail) keeps the files and durable typed.
LEMMA TypeTruncate ==
  ASSUME TypeInv, NEW f \in Files, NEW from, NEW to,
         to \in {"opening", "parsing"}, Truncate(f, from, to)
  PROVE  TypeInv'
<1> DEFINE lines == Truncated(file[f])
<1>1. file[f] \in Seq(Line) /\ durable[f] \in Nat /\ durable[f] <= Len(file[f])
  BY DEF TypeInv, TypeOK
<1>2. lines \in Seq(Line) /\ Len(lines) <= Len(file[f]) /\ NoNewLine(lines, file[f])
  BY <1>1, TruncatedLines
<1>3. file' = [file EXCEPT ![f] = lines]
  BY DEF Truncate
<1> HIDE DEF lines
<1>4. \A k \in DOMAIN lines : lines[k].kind = "whole" => lines[k].id \in Ids
  BY <1>2 DEF NoNewLine, TypeInv, LinesWellFormed
<1>5. file' \in [Files -> Seq(Line)] /\ LinesWellFormed'
  BY <1>2, <1>3, <1>4, FilesStep
<1>6. file'[f] = lines /\ \A g \in Files \ {f} : file'[g] = file[g]
  BY <1>3 DEF TypeInv, TypeOK
<1>7. Len(lines) \in Nat
  BY <1>2, LenProperties
<1>8. /\ durable' \in [Files -> Nat]
      /\ \A g \in Files : durable'[g] <= Len(file'[g])
  <2>1. durable' = [durable EXCEPT ![f] =
                      IF durable[f] <= Len(lines) THEN durable[f] ELSE Len(lines)]
    BY <1>6 DEF Truncate, TypeInv, TypeOK
  <2> QED
    BY <1>1, <1>6, <1>7, <2>1 DEF TypeInv, TypeOK
<1>9. /\ proc' \in {"down", "opening", "parsing", "up", "refused"}
      /\ UNCHANGED <<memory, mu, op, drawn, told, crashes>>
  BY DEF Truncate
<1> QED
  BY <1>5, <1>8, <1>9
     DEF TypeInv, TypeOK, OpsWellFormed, memory, told

\* A write of one request: the lines grow by what that request carries.
LEMMA TypeWrite ==
  ASSUME TypeInv, NEW c \in Callers, MayWrite(c), NEW line \in {LineOf(c), Torn},
         file' = [file EXCEPT ![op[c].file] = AppendBytes(@, line)],
         UNCHANGED durable
  PROVE  /\ file' \in [Files -> Seq(Line)] /\ LinesWellFormed'
         /\ \A f \in Files : durable'[f] <= Len(file'[f])
<1> DEFINE f == op[c].file
           lines == AppendBytes(file[f], line)
<1>1. f \in Files /\ file[f] \in Seq(Line)
  BY DEF TypeInv, TypeOK, Op
<1>2. line \in Line /\ (line.kind = "whole" => line.id \in Ids)
  <2>1. op[c].id \in Ids /\ (op[c].file = "outcomes" => op[c].truth \in Truths)
    BY DEF MayWrite, TypeInv, OpsWellFormed
  <2>2. op[c].file \in {"answers", "outcomes"}
    BY <1>1 DEF Files
  <2> QED
    BY <2>1, <2>2 DEF LineOf, AnswerLine, OutcomeLine, Torn, Line
<1>3. /\ lines \in Seq(Line) /\ Len(lines) >= Len(file[f])
      /\ \A k \in DOMAIN lines : lines[k].kind = "whole" =>
           \/ k \in DOMAIN file[f] /\ lines[k] = file[f][k]
           \/ k = Len(file[f]) + 1 /\ lines[k] = line
  BY <1>1, <1>2, AppendedLines
<1>4. file' = [file EXCEPT ![f] = lines]
  BY <1>1 DEF TypeInv, TypeOK
<1> HIDE DEF lines, f
<1>5. \A k \in DOMAIN lines : lines[k].kind = "whole" => lines[k].id \in Ids
  BY <1>1, <1>2, <1>3 DEF TypeInv, LinesWellFormed
<1>6. file' \in [Files -> Seq(Line)] /\ LinesWellFormed'
  BY <1>1, <1>3, <1>4, <1>5, FilesStep
<1>7. \A g \in Files : durable'[g] <= Len(file'[g])
  <2> SUFFICES ASSUME NEW g \in Files PROVE durable[g] <= Len(file'[g])
    OBVIOUS
  <2>1. durable[g] \in Nat /\ durable[g] <= Len(file[g]) /\ Len(file[g]) \in Nat
    BY LenProperties DEF TypeInv, TypeOK
  <2>2. CASE g = f
    <3>1. file'[g] = lines /\ Len(lines) \in Nat
      BY <1>1, <1>3, <1>4, <2>2, LenProperties DEF TypeInv, TypeOK
    <3> QED
      BY <1>3, <2>1, <2>2, <3>1
  <2>3. CASE g # f
    BY <1>4, <2>1, <2>3 DEF TypeInv, TypeOK
  <2> QED
    BY <2>2, <2>3
<1> QED
  BY <1>6, <1>7

\* The request after a Put that returned an error.
LEMMA FailedType ==
  ASSUME TypeInv, NEW c \in Callers, op[c].step # "idle", Failed(c)
  PROVE  op' \in [Callers -> Op] /\ OpsWellFormed' /\ ledgerFailures' \in Nat
<1>1. op[c] \in Op /\ op[c].id \in Ids
      /\ (op[c].file = "outcomes" => op[c].truth \in Truths)
  BY DEF TypeInv, TypeOK, OpsWellFormed
<1>2. [op[c] EXCEPT !.step = "reply"] \in Op /\ Idle \in Op
  BY <1>1 DEF Op, Idle, Files
<1> QED
  BY <1>1, <1>2 DEF Failed, TypeInv, TypeOK, OpsWellFormed, Idle, Op

\* What a crash resets in memory is of its type.
LEMMA DieType ==
  ASSUME TypeInv, Die
  PROVE  /\ proc' = "down" /\ crashes' \in 0 .. MaxCrashes
         /\ index' \subseteq Ids /\ outcomeExists' \subseteq Ids /\ ledgerFailures' \in Nat
         /\ mu' \in Callers \cup {None}
         /\ op' \in [Callers -> Op] /\ OpsWellFormed'
         /\ UNCHANGED <<drawn, told>>
BY LedgerAssumption DEF Die, TypeInv, TypeOK, OpsWellFormed, Idle, Op, Files

\* A killed process, a fragment of a line left behind or not, keeps the types.
LEMMA TypeKill == ASSUME TypeInv, Kill PROVE TypeInv'
<1>1. Die /\ UNCHANGED durable
  BY DEF Kill
<1>2. /\ file' \in [Files -> Seq(Line)] /\ LinesWellFormed'
      /\ \A f \in Files : durable'[f] <= Len(file'[f])
  <2>1. CASE UNCHANGED file
    BY <1>1, <2>1 DEF TypeInv, TypeOK, LinesWellFormed
  <2>2. ASSUME NEW c \in Callers, MayWrite(c),
               file' = [file EXCEPT ![op[c].file] = AppendBytes(@, Torn)]
        PROVE  /\ file' \in [Files -> Seq(Line)] /\ LinesWellFormed'
               /\ \A f \in Files : durable'[f] <= Len(file'[f])
    BY <1>1, <2>2, TypeWrite
  <2> QED
    BY <2>1, <2>2 DEF Kill
<1> QED
  BY <1>1, <1>2, DieType DEF TypeInv, TypeOK, told

\* What a power loss leaves of the files, and durable after it, keep the types.
LEMMA TypePowerLoss == ASSUME TypeInv, PowerLoss PROVE TypeInv'
<1>1. PICK a \in Remains("answers"), o \in Remains("outcomes") :
        /\ file' = [f \in Files |-> IF f = "answers" THEN a ELSE o]
        /\ durable' = [f \in Files |-> IF f = "answers" THEN Len(a) ELSE Len(o)]
  BY DEF PowerLoss
<1>2. /\ a \in Seq(Line) /\ NoNewLine(a, file["answers"])
      /\ o \in Seq(Line) /\ NoNewLine(o, file["outcomes"])
  BY RemainingLines DEF Files, TypeInv, TypeOK
<1>3. file' \in [Files -> Seq(Line)]
  BY <1>1, <1>2
<1>4. LinesWellFormed'
  <2> SUFFICES ASSUME NEW f \in Files, NEW k \in DOMAIN file'[f],
                      file'[f][k].kind = "whole"
               PROVE  file'[f][k].id \in Ids
    BY DEF LinesWellFormed
  <2>1. CASE f = "answers"
    <3>1. k \in DOMAIN file["answers"] /\ file'[f][k] = file["answers"][k]
      BY <1>1, <1>2, <2>1 DEF NoNewLine
    <3> QED
      BY <2>1, <3>1 DEF TypeInv, LinesWellFormed
  <2>2. CASE f = "outcomes"
    <3>1. k \in DOMAIN file["outcomes"] /\ file'[f][k] = file["outcomes"][k]
      BY <1>1, <1>2, <2>2 DEF NoNewLine
    <3> QED
      BY <2>2, <3>1 DEF TypeInv, LinesWellFormed
  <2> QED
    BY <2>1, <2>2 DEF Files
<1>5. durable' \in [Files -> Nat] /\ \A f \in Files : durable'[f] <= Len(file'[f])
  <2>1. Len(a) \in Nat /\ Len(o) \in Nat
    BY <1>2, LenProperties
  <2> QED
    BY <1>1, <2>1
<1>6. Die
  BY DEF PowerLoss
<1> QED
  BY <1>3, <1>4, <1>5, <1>6, DieType DEF TypeInv, TypeOK, told

\* The steps of one request.
LEMMA TypeRequest ==
  ASSUME TypeInv, NEW c \in Callers,
         \/ \E i \in Ids : Answered(c, i)
         \/ \E i \in Ids, t \in Truths : OutcomeAsked(c, i, t)
         \/ Handler(c)
  PROVE  TypeInv'
<1> USE DEF disk, memory, told
<1>1. op[c] \in Op /\ (op[c].step # "idle" => op[c].id \in Ids
        /\ (op[c].file = "outcomes" => op[c].truth \in Truths))
  BY DEF TypeInv, TypeOK, OpsWellFormed
<1>2. ASSUME NEW i \in Ids, Answered(c, i) PROVE TypeInv'
  <2>1. [Idle EXCEPT !.step = "write", !.id = i] \in Op
    BY DEF Idle, Op, Files
  <2>2. op' \in [Callers -> Op] /\ OpsWellFormed'
    BY <1>2, <2>1 DEF Answered, Idle, TypeInv, TypeOK, OpsWellFormed
  <2> QED
    BY <1>2, <2>2 DEF Answered, TypeInv, TypeOK, LinesWellFormed
<1>3. ASSUME NEW i \in Ids, NEW t \in Truths, OutcomeAsked(c, i, t) PROVE TypeInv'
  <2>1. [Idle EXCEPT !.step = "write", !.file = "outcomes", !.id = i, !.truth = t] \in Op
    BY DEF Idle, Op, Files
  <2>2. op' \in [Callers -> Op] /\ OpsWellFormed'
    BY <1>3, <2>1 DEF OutcomeAsked, Idle, TypeInv, TypeOK, OpsWellFormed
  <2> QED
    BY <1>3, <2>2 DEF OutcomeAsked, TypeInv, TypeOK, LinesWellFormed
<1>4. CASE WriteLine(c)
  <2>1. /\ file' \in [Files -> Seq(Line)] /\ LinesWellFormed'
        /\ \A f \in Files : durable'[f] <= Len(file'[f])
    BY <1>4, TypeWrite DEF WriteLine
  <2>2. op' \in [Callers -> Op] /\ OpsWellFormed'
    BY <1>1, <1>4 DEF WriteLine, MayWrite, TypeInv, TypeOK, OpsWellFormed, Op
  <2> QED
    BY <1>4, <2>1, <2>2 DEF WriteLine, TypeInv, TypeOK
<1>5. CASE WriteError(c)
  <2>1. op' \in [Callers -> Op] /\ OpsWellFormed' /\ ledgerFailures' \in Nat
    BY <1>5, FailedType DEF WriteError, MayWrite
  <2> QED
    BY <1>5, <2>1 DEF WriteError, TypeInv, TypeOK, LinesWellFormed
<1>6. CASE ShortWrite(c)
  <2>1. op' \in [Callers -> Op] /\ OpsWellFormed' /\ ledgerFailures' \in Nat
    BY <1>6, FailedType DEF ShortWrite, MayWrite
  <2>2. /\ file' \in [Files -> Seq(Line)] /\ LinesWellFormed'
        /\ \A f \in Files : durable'[f] <= Len(file'[f])
    BY <1>6, TypeWrite DEF ShortWrite
  <2> QED
    BY <1>6, <2>1, <2>2 DEF ShortWrite, TypeInv, TypeOK
<1>7. CASE SyncLine(c)
  <2>1. op' \in [Callers -> Op] /\ OpsWellFormed'
    BY <1>1, <1>7 DEF SyncLine, Returned, TypeInv, TypeOK, OpsWellFormed, Op
  <2>2. index' \subseteq Ids /\ outcomeExists' \subseteq Ids
    BY <1>1, <1>7 DEF SyncLine, Indexed, TypeInv, TypeOK
  <2>3. durable' \in [Files -> Nat] /\ \A f \in Files : durable'[f] <= Len(file'[f])
    <3>1. \A f \in Files : Len(file[f]) \in Nat
      BY LenProperties DEF TypeInv, TypeOK
    <3>2. /\ durable' = [durable EXCEPT ![op[c].file] = Len(file[op[c].file])]
          /\ op[c].file \in Files /\ file' = file
      BY <1>1, <1>7 DEF SyncLine, Returned, Op
    <3> QED
      BY <3>1, <3>2 DEF TypeInv, TypeOK
  <2> QED
    BY <1>7, <2>1, <2>2, <2>3 DEF SyncLine, Returned, TypeInv, TypeOK, LinesWellFormed
<1>8. CASE SyncError(c)
  <2>1. op' \in [Callers -> Op] /\ OpsWellFormed' /\ ledgerFailures' \in Nat
    BY <1>8, FailedType DEF SyncError
  <2> QED
    BY <1>8, <2>1 DEF SyncError, TypeInv, TypeOK, LinesWellFormed
<1>9. CASE OutcomeExists(c)
  <2>1. Idle \in Op
    BY DEF Idle, Op, Files
  <2> QED
    BY <1>9, <2>1 DEF OutcomeExists, Idle, TypeInv, TypeOK, LinesWellFormed, OpsWellFormed
<1>10. CASE ServeAnswer(c)
  <2>1. Idle \in Op
    BY DEF Idle, Op, Files
  <2> QED
    BY <1>1, <1>10, <2>1 DEF ServeAnswer, Idle, TypeInv, TypeOK, LinesWellFormed, OpsWellFormed
<1>11. CASE ConfirmOutcome(c)
  <2>1. Idle \in Op
    BY DEF Idle, Op, Files
  <2> QED
    BY <1>1, <1>11, <2>1
       DEF ConfirmOutcome, Idle, TypeInv, TypeOK, LinesWellFormed, OpsWellFormed
<1> QED
  BY <1>2, <1>3, <1>4, <1>5, <1>6, <1>7, <1>8, <1>9, <1>10, <1>11 DEF Handler

\* Every step keeps the type invariant.
LEMMA TypeStep == TypeInv /\ [Next]_vars => TypeInv'
<1> SUFFICES ASSUME TypeInv, [Next]_vars PROVE TypeInv'
  OBVIOUS
<1>1. CASE TruncateAnswers
  BY <1>1, TypeTruncate DEF TruncateAnswers, Files
<1>2. CASE TruncateOutcomes
  BY <1>2, TypeTruncate DEF TruncateOutcomes, Files
<1>3. CASE LoadIndex
  BY <1>3, WholeIdsType
     DEF LoadIndex, TypeInv, TypeOK, LinesWellFormed, OpsWellFormed, Files, disk, told
<1>4. CASE RefuseToOpen
  BY <1>4 DEF RefuseToOpen, TypeInv, TypeOK, LinesWellFormed, OpsWellFormed,
              disk, memory, told
<1>5. ASSUME NEW c \in Callers,
             \/ \E i \in Ids : Answered(c, i)
             \/ \E i \in Ids, t \in Truths : OutcomeAsked(c, i, t)
             \/ Handler(c)
      PROVE  TypeInv'
  BY <1>5, TypeRequest
<1>6. CASE Kill
  BY <1>6, TypeKill
<1>7. CASE PowerLoss
  BY <1>7, TypePowerLoss
<1>8. CASE UNCHANGED vars
  BY <1>8 DEF vars, disk, memory, told, TypeInv, TypeOK, LinesWellFormed, OpsWellFormed
<1> QED
  BY <1>1, <1>2, <1>3, <1>4, <1>5, <1>6, <1>7, <1>8 DEF Next

\* Every variable of the ledger keeps its type, and every whole line on disk and
\* every request in progress carries a real id, whatever fails or crashes.
THEOREM TypeCorrect == Spec => []TypeInv
BY TypeInit, TypeStep, PTL DEF Spec

\* The type invariant the runs check holds of every behaviour of the ledger,
\* for any numbers of ids, truths, handlers, crashes and lines.
COROLLARY TypeOKHolds == Spec => []TypeOK
<1>1. TypeInv => TypeOK
  BY DEF TypeInv
<1> QED
  BY <1>1, TypeCorrect, PTL

-----------------------------------------------------------------------------
(* The lock.  A request is served by a running process only, and the one   *)
(* whose Sync has not returned holds the lock: what every invariant below  *)
(* rests on.                                                               *)

OnlyWhenUp == \A c \in Callers : op[c].step # "idle" => proc = "up"

SyncHoldsLock == \A c \in Callers : op[c].step = "sync" => mu = c

LockInv == OnlyWhenUp /\ SyncHoldsLock

\* A step of request c: the request stays out of the critical section and leaves
\* the lock alone, enters it with the lock free, or leaves it holding the lock.
LEMMA LockRequest ==
  ASSUME TypeInv, LockInv, NEW c \in Callers,
         \/ \E i \in Ids : Answered(c, i)
         \/ \E i \in Ids, t \in Truths : OutcomeAsked(c, i, t)
         \/ Handler(c)
  PROVE  LockInv'
<1> USE DEF memory
<1>1. op \in [Callers -> Op] /\ c # None /\ None \notin Callers
  BY LedgerAssumption DEF TypeInv, TypeOK
<1>2. /\ proc = "up" /\ proc' = "up"
      /\ \A d \in Callers \ {c} : op'[d] = op[d]
  BY <1>1 DEF Answered, OutcomeAsked, Handler, WriteLine, WriteError, ShortWrite, MayWrite,
              SyncLine, Returned, SyncError, Failed, OutcomeExists, ServeAnswer,
              ConfirmOutcome, LockInv, OnlyWhenUp
<1>3. \/ op'[c].step # "sync" /\ op[c].step # "sync" /\ mu' = mu
      \/ op'[c].step = "sync" /\ mu = None /\ mu' = c
      \/ op'[c].step # "sync" /\ op[c].step = "sync"
  <2>1. CASE WriteLine(c)
    BY <1>1, <2>1 DEF WriteLine, MayWrite, Op
  <2>2. CASE SyncLine(c)
    <3>1. op' = [op EXCEPT ![c] = [[op[c] EXCEPT !.step = "reply"] EXCEPT !.ok = TRUE]]
      BY <1>1, <2>2 DEF SyncLine, Returned
    <3> QED
      BY <1>1, <2>2, <3>1 DEF SyncLine, Op
  <2>3. ASSUME Failed(c) PROVE op'[c].step # "sync"
    BY <1>1, <2>3 DEF Failed, Idle, Op
  <2>4. CASE WriteError(c) \/ ShortWrite(c) \/ SyncError(c)
    BY <2>3, <2>4 DEF WriteError, ShortWrite, SyncError, MayWrite
  <2>5. CASE OutcomeExists(c) \/ ServeAnswer(c) \/ ConfirmOutcome(c)
    BY <1>1, <2>5 DEF OutcomeExists, ServeAnswer, ConfirmOutcome, Idle
  <2>6. CASE \/ \E i \in Ids : Answered(c, i)
             \/ \E i \in Ids, t \in Truths : OutcomeAsked(c, i, t)
    BY <1>1, <2>6 DEF Answered, OutcomeAsked, Idle
  <2> QED
    BY <2>1, <2>2, <2>4, <2>5, <2>6 DEF Handler
<1>4. \A d \in Callers \ {c} : op'[d].step = "sync" => mu = d
  BY <1>2 DEF LockInv, SyncHoldsLock
<1>5. op[c].step = "sync" => mu = c
  BY DEF LockInv, SyncHoldsLock
<1> QED
  BY <1>1, <1>2, <1>3, <1>4, <1>5 DEF LockInv, OnlyWhenUp, SyncHoldsLock

\* Every step keeps the lock's invariant, whatever fails or crashes.
LEMMA LockStep == TypeInv /\ LockInv /\ [Next]_vars => LockInv'
<1> SUFFICES ASSUME TypeInv, LockInv, [Next]_vars PROVE LockInv'
  OBVIOUS
<1> USE DEF LockInv, OnlyWhenUp, SyncHoldsLock
<1>1. CASE TruncateAnswers \/ TruncateOutcomes
  BY <1>1 DEF TruncateAnswers, TruncateOutcomes, Truncate
<1>2. CASE LoadIndex \/ RefuseToOpen
  BY <1>2 DEF LoadIndex, RefuseToOpen, memory
<1>3. ASSUME NEW c \in Callers,
             \/ \E i \in Ids : Answered(c, i)
             \/ \E i \in Ids, t \in Truths : OutcomeAsked(c, i, t)
             \/ Handler(c)
      PROVE  LockInv'
  BY <1>3, LockRequest
<1>4. CASE Kill \/ PowerLoss
  BY <1>4 DEF Kill, PowerLoss, Die, Idle
<1>5. CASE UNCHANGED vars
  BY <1>5 DEF vars
<1> QED
  BY <1>1, <1>2, <1>3, <1>4, <1>5 DEF Next

\* In every state the writer whose Sync is under way is the only one, and none
\* is left over from before a crash.
LEMMA LockCorrect == Spec => []LockInv
<1>1. Init => LockInv
  BY DEF Init, LockInv, OnlyWhenUp, SyncHoldsLock, Idle
<1> QED
  BY <1>1, LockStep, TypeCorrect, PTL DEF Spec

-----------------------------------------------------------------------------
(* A truth is counted once.  OutcomeCountedOnce says nothing of memory, and *)
(* it is memory that keeps it: what is on disk must be known to            *)
(* outcomeExists, except for the line whose Sync has not returned, and that *)
(* one is behind the lock its writer holds.                                *)

WholeOutcome(k) ==
  k \in DOMAIN file["outcomes"] /\ file["outcomes"][k].kind = "whole"

Syncing(c, i) == op[c].step = "sync" /\ op[c].file = "outcomes" /\ op[c].id = i

Known(k) ==
  \/ file["outcomes"][k].id \in outcomeExists
  \/ \E c \in Callers : Syncing(c, file["outcomes"][k].id)

OutcomesKnown == proc = "up" => \A k : WholeOutcome(k) => Known(k)

OnceInv == OutcomeCountedOnce /\ OutcomesKnown

\* Empty files have no outcome twice.
LEMMA OnceInit == Init => OnceInv
BY EmptySeq
   DEF Init, OnceInv, OutcomeCountedOnce, OutcomesKnown, WholeOutcome, Files

\* A step that adds no whole outcome line cannot count one twice.
LEMMA OnceShrinks ==
  ASSUME OutcomeCountedOnce, NoNewLine(file'["outcomes"], file["outcomes"])
  PROVE  OutcomeCountedOnce'
BY DEF OutcomeCountedOnce, NoNewLine

\* Nor can it write one that memory does not know.
LEMMA KnownShrinks ==
  ASSUME OutcomesKnown, NoNewLine(file'["outcomes"], file["outcomes"]),
         proc' = "up" => proc = "up",
         \A i : i \in outcomeExists => i \in outcomeExists',
         \A c \in Callers : \A i : Syncing(c, i) => Syncing(c, i)' \/ i \in outcomeExists'
  PROVE  OutcomesKnown'
<1> SUFFICES ASSUME proc' = "up", NEW k, WholeOutcome(k)'
             PROVE  Known(k)'
  BY DEF OutcomesKnown
<1>1. WholeOutcome(k) /\ file'["outcomes"][k] = file["outcomes"][k]
  BY DEF WholeOutcome, NoNewLine
<1> QED
  BY <1>1 DEF OutcomesKnown, Known, Syncing

\* A file that does not change gains no whole line.
LEMMA NoNewLineRefl ==
  ASSUME NEW lines PROVE NoNewLine(lines, lines)
BY DEF NoNewLine

\* Cutting a torn tail at Open keeps the invariant: no whole line is added.
LEMMA OnceTruncate ==
  ASSUME TypeInv, OnceInv, NEW f \in Files, NEW from, NEW to,
         to \in {"opening", "parsing"}, from \subseteq {"down", "refused", "opening"},
         Truncate(f, from, to)
  PROVE  OnceInv'
<1>1. /\ \A g \in Files : file[g] \in Seq(Line)
      /\ file' = [file EXCEPT ![f] = Truncated(file[f])]
  BY DEF TypeInv, TypeOK, Truncate
<1>2. NoNewLine(file'["outcomes"], file["outcomes"])
  BY <1>1, TruncatedLines, NoNewLineRefl DEF Files, TypeInv, TypeOK
<1>3. proc' # "up"
  BY DEF Truncate
<1> QED
  BY <1>2, <1>3, OnceShrinks DEF OnceInv, OutcomesKnown

\* A crash that adds no whole line to either file keeps the invariant: with the
\* process down, nothing is claimed of its memory.
LEMMA OnceDie ==
  ASSUME OnceInv, Die, NoNewLine(file'["outcomes"], file["outcomes"])
  PROVE  OnceInv'
BY OnceShrinks DEF OnceInv, OutcomesKnown, Die

\* A fragment, wherever it is written.
LEMMA TornIsNoNewLine ==
  ASSUME TypeInv, NEW f \in Files, file' = [file EXCEPT ![f] = AppendBytes(@, Torn)]
  PROVE  NoNewLine(file'["outcomes"], file["outcomes"])
<1>1. \A g \in Files : file[g] \in Seq(Line)
  BY DEF TypeInv, TypeOK
<1> QED
  BY <1>1, TornLines, NoNewLineRefl DEF Files, TypeInv, TypeOK

\* Neither crash adds a whole line to outcomes.ndjson.
LEMMA OnceCrash == ASSUME TypeInv, OnceInv, Kill \/ PowerLoss PROVE OnceInv'
<1>1. CASE Kill
  <2>1. CASE UNCHANGED file
    BY <1>1, <2>1, OnceDie, NoNewLineRefl DEF Kill
  <2>2. ASSUME NEW c \in Callers,
               file' = [file EXCEPT ![op[c].file] = AppendBytes(@, Torn)]
        PROVE  OnceInv'
    <3>1. op[c].file \in Files
      BY DEF TypeInv, TypeOK, Op
    <3> QED
      BY <1>1, <2>2, <3>1, TornIsNoNewLine, OnceDie DEF Kill
  <2> QED
    BY <1>1, <2>1, <2>2 DEF Kill
<1>2. CASE PowerLoss
  <2>1. PICK o \in Remains("outcomes") : file'["outcomes"] = o
    BY <1>2 DEF PowerLoss, Files
  <2>2. NoNewLine(o, file["outcomes"])
    BY RemainingLines DEF Files, TypeInv, TypeOK
  <2> QED
    BY <1>2, <2>1, <2>2, OnceDie DEF PowerLoss
<1> QED
  BY <1>1, <1>2

\* The step that could count a truth twice: a writer past the check.  The lock
\* is free, so no Sync is under way and outcomeExists knows every whole line.
LEMMA OnceWrite ==
  ASSUME TypeInv, LockInv, OnceInv, NEW c \in Callers, WriteLine(c)
  PROVE  OnceInv'
<1> DEFINE lines == file["outcomes"]
<1>1. /\ op[c] \in Op /\ op[c].step = "write" /\ mu = None /\ c # None
      /\ \A g \in Files : file[g] \in Seq(Line)
  BY LedgerAssumption DEF TypeInv, TypeOK, WriteLine, MayWrite
<1>2. proc = "up" /\ proc' = "up"
  BY <1>1 DEF WriteLine, LockInv, OnlyWhenUp
<1>3. \A d \in Callers : op[d].step # "sync"
  BY <1>1, LedgerAssumption DEF LockInv, SyncHoldsLock
<1>4. \A k : WholeOutcome(k) => lines[k].id \in outcomeExists
  BY <1>2, <1>3 DEF OnceInv, OutcomesKnown, Known, Syncing
<1>5. /\ op' = [op EXCEPT ![c].step = "sync"] /\ mu' = c
      /\ outcomeExists' = outcomeExists
      /\ file' = [file EXCEPT ![op[c].file] = AppendBytes(@, LineOf(c))]
  BY DEF WriteLine, memory
<1>6. op'[c] = [op[c] EXCEPT !.step = "sync"] /\ \A d \in Callers \ {c} : op'[d] = op[d]
  BY <1>5 DEF TypeInv, TypeOK
<1>7. CASE op[c].file = "answers"
  <2>1. file'["outcomes"] = lines
    BY <1>5, <1>7 DEF TypeInv, TypeOK, Files
  <2> QED
    BY <1>4, <1>5, <2>1
       DEF OnceInv, OutcomeCountedOnce, OutcomesKnown, Known, WholeOutcome
<1>8. CASE op[c].file = "outcomes"
  <2>1. op[c].id \notin outcomeExists /\ op[c].id \in Ids /\ op[c].truth \in Truths
    BY <1>1, <1>8 DEF WriteLine, MayWrite, TypeInv, OpsWellFormed
  <2>2. LineOf(c) \in Line /\ LineOf(c).id = op[c].id
    BY <1>8, <2>1 DEF LineOf, OutcomeLine, Line
  <2>3. lines \in Seq(Line) /\ Len(lines) \in Nat /\ DOMAIN lines = 1 .. Len(lines)
    BY <1>1, LenProperties DEF Files
  <2>4. file'["outcomes"] = AppendBytes(lines, LineOf(c))
    BY <1>5, <1>8 DEF TypeInv, TypeOK, Files
  <2>5. \A k : WholeOutcome(k)' =>
          \/ WholeOutcome(k) /\ file'["outcomes"][k] = lines[k]
          \/ k = Len(lines) + 1 /\ file'["outcomes"][k].id = op[c].id
    BY <2>2, <2>3, <2>4, AppendedLines DEF WholeOutcome
  <2>6. OutcomeCountedOnce'
    <3> SUFFICES ASSUME NEW j, NEW k, WholeOutcome(j)', WholeOutcome(k)',
                        file'["outcomes"][j].id = file'["outcomes"][k].id
                 PROVE  j = k
      BY DEF OutcomeCountedOnce, WholeOutcome
    <3>1. CASE WholeOutcome(j) /\ WholeOutcome(k)
               /\ file'["outcomes"][j] = lines[j] /\ file'["outcomes"][k] = lines[k]
      BY <3>1 DEF OnceInv, OutcomeCountedOnce, WholeOutcome
    <3> QED
      BY <1>4, <2>1, <2>5, <3>1
  <2>7. op'[c].step = "sync" /\ op'[c].file = "outcomes" /\ op'[c].id = op[c].id
    BY <1>1, <1>6, <1>8 DEF Op
  <2>8. OutcomesKnown'
    <3> SUFFICES ASSUME NEW k, WholeOutcome(k)'
                 PROVE  Known(k)'
      BY DEF OutcomesKnown
    <3>1. CASE WholeOutcome(k) /\ file'["outcomes"][k] = lines[k]
      BY <1>4, <1>5, <3>1 DEF Known
    <3>2. CASE file'["outcomes"][k].id = op[c].id
      BY <2>7, <3>2 DEF Known, Syncing
    <3> QED
      BY <2>5, <3>1, <3>2
  <2> QED
    BY <2>6, <2>8 DEF OnceInv
<1> QED
  BY <1>1, <1>7, <1>8 DEF Op, Files

\* Every other step of a request: no whole line, and a lock released only by
\* the Sync that puts the line in the index.
LEMMA OnceRequest ==
  ASSUME "sync_error" \notin Faults, TypeInv, LockInv, OnceInv, NEW c \in Callers,
         \/ \E i \in Ids : Answered(c, i)
         \/ \E i \in Ids, t \in Truths : OutcomeAsked(c, i, t)
         \/ Handler(c)
  PROVE  OnceInv'
<1> USE DEF disk, memory, told
<1>1. op[c] \in Op /\ op \in [Callers -> Op] /\ op[c].file \in Files
  BY DEF TypeInv, TypeOK, Op
<1>2. CASE WriteLine(c)
  BY <1>2, OnceWrite
<1>3. ASSUME \E next \in Op : op' = [op EXCEPT ![c] = next] /\ next.step # "sync",
             op[c].step # "sync", UNCHANGED <<proc, outcomeExists>>, proc = "up",
             NoNewLine(file'["outcomes"], file["outcomes"])
      PROVE  OnceInv'
  <2>1. PICK next \in Op : op' = [op EXCEPT ![c] = next] /\ next.step # "sync"
    BY <1>3
  <2>2. op'[c] = next /\ \A d \in Callers \ {c} : op'[d] = op[d]
    BY <1>1, <2>1
  <2>3. \A d \in Callers : \A i : Syncing(d, i) => Syncing(d, i)'
    BY <1>3, <2>2 DEF Syncing
  <2> QED
    BY <1>3, <2>3, OnceShrinks, KnownShrinks DEF OnceInv
<1>4. Idle \in Op /\ Idle.step # "sync"
  BY DEF Idle, Op, Files
<1>5. op[c].step # "idle" => proc = "up"
  BY DEF LockInv, OnlyWhenUp
<1>6. NoNewLine(file["outcomes"], file["outcomes"])
  BY NoNewLineRefl
<1>7. ASSUME NEW i \in Ids, Answered(c, i) PROVE OnceInv'
  <2>1. [Idle EXCEPT !.step = "write", !.id = i] \in Op
    BY DEF Idle, Op, Files
  <2>2. [Idle EXCEPT !.step = "write", !.id = i].step # "sync"
    BY DEF Idle
  <2> QED
    BY <1>3, <1>6, <1>7, <2>1, <2>2 DEF Answered
<1>8. ASSUME NEW i \in Ids, NEW t \in Truths, OutcomeAsked(c, i, t) PROVE OnceInv'
  <2>1. [Idle EXCEPT !.step = "write", !.file = "outcomes", !.id = i, !.truth = t] \in Op
    BY DEF Idle, Op, Files
  <2>2. [Idle EXCEPT !.step = "write", !.file = "outcomes", !.id = i, !.truth = t].step # "sync"
    BY DEF Idle
  <2> QED
    BY <1>3, <1>6, <1>8, <2>1, <2>2 DEF OutcomeAsked
<1>9. ASSUME Failed(c) PROVE \E next \in Op : op' = [op EXCEPT ![c] = next] /\ next.step # "sync"
  <2>1. [op[c] EXCEPT !.step = "reply"] \in Op /\ [op[c] EXCEPT !.step = "reply"].step # "sync"
    BY <1>1 DEF Op
  <2> DEFINE next == IF op[c].file = "answers" THEN [op[c] EXCEPT !.step = "reply"] ELSE Idle
  <2>2. op' = [op EXCEPT ![c] = next]
    BY <1>9 DEF Failed
  <2>3. next \in Op /\ next.step # "sync"
    BY <1>4, <2>1
  <2> HIDE DEF next
  <2> QED
    BY <2>2, <2>3
<1>10. CASE WriteError(c)
  BY <1>3, <1>5, <1>6, <1>9, <1>10 DEF WriteError, MayWrite
<1>11. CASE ShortWrite(c)
  <2>1. NoNewLine(file'["outcomes"], file["outcomes"])
    BY <1>1, <1>11, TornIsNoNewLine DEF ShortWrite
  <2> QED
    BY <1>3, <1>5, <1>9, <1>11, <2>1 DEF ShortWrite, MayWrite
<1>12. CASE SyncLine(c)
  <2>1. /\ file' = file /\ proc' = proc /\ mu' = None
        /\ op' = [op EXCEPT ![c].step = "reply", ![c].ok = TRUE]
        /\ outcomeExists' = IF op[c].file = "outcomes" THEN outcomeExists \cup {op[c].id}
                            ELSE outcomeExists
    BY <1>12 DEF SyncLine, Returned, Indexed
  <2>2. op[c].step = "sync" /\ mu = c /\ proc = "up"
    BY <1>12 DEF SyncLine, LockInv, SyncHoldsLock, OnlyWhenUp
  <2>3. op'[c].step = "reply" /\ \A d \in Callers \ {c} : op'[d] = op[d]
    BY <1>1, <2>1 DEF Op
  <2>4. \A d \in Callers \ {c} : op[d].step # "sync"
    BY <2>2 DEF LockInv, SyncHoldsLock
  <2>5. \A d \in Callers : \A i : Syncing(d, i) => Syncing(d, i)' \/ i \in outcomeExists'
    BY <2>1, <2>4 DEF Syncing
  <2> QED
    BY <1>6, <2>1, <2>5, OnceShrinks, KnownShrinks DEF OnceInv
<1>13. CASE SyncError(c)
  BY <1>13 DEF SyncError
<1>14. CASE OutcomeExists(c)
  BY <1>3, <1>4, <1>5, <1>6, <1>14 DEF OutcomeExists
<1>15. CASE ServeAnswer(c)
  BY <1>3, <1>4, <1>5, <1>6, <1>15 DEF ServeAnswer
<1>16. CASE ConfirmOutcome(c)
  BY <1>3, <1>4, <1>5, <1>6, <1>16 DEF ConfirmOutcome
<1> QED
  BY <1>2, <1>7, <1>8, <1>10, <1>11, <1>12, <1>13, <1>14, <1>15, <1>16 DEF Handler

\* Every step keeps the invariant, when fsync does not fail.
LEMMA OnceStep ==
  ASSUME "sync_error" \notin Faults
  PROVE  TypeInv /\ LockInv /\ OnceInv /\ [Next]_vars => OnceInv'
<1> SUFFICES ASSUME TypeInv, LockInv, OnceInv, [Next]_vars PROVE OnceInv'
  OBVIOUS
<1>1. CASE TruncateAnswers
  BY <1>1, OnceTruncate DEF TruncateAnswers, Files
<1>2. CASE TruncateOutcomes
  BY <1>2, OnceTruncate DEF TruncateOutcomes, Files
<1>3. CASE LoadIndex
  <2>1. /\ file' = file /\ op' = op /\ mu' = mu /\ proc' = "up"
        /\ outcomeExists' = WholeIds(file["outcomes"])
    BY <1>3 DEF LoadIndex, disk
  <2> QED
    BY <2>1 DEF OnceInv, OutcomeCountedOnce, OutcomesKnown, Known, WholeOutcome, WholeIds
<1>4. CASE RefuseToOpen
  BY <1>4 DEF RefuseToOpen, OnceInv, OutcomeCountedOnce, OutcomesKnown, disk, memory
<1>5. ASSUME NEW c \in Callers,
             \/ \E i \in Ids : Answered(c, i)
             \/ \E i \in Ids, t \in Truths : OutcomeAsked(c, i, t)
             \/ Handler(c)
      PROVE  OnceInv'
  BY <1>5, OnceRequest
<1>6. CASE Kill \/ PowerLoss
  BY <1>6, OnceCrash
<1>7. CASE UNCHANGED vars
  BY <1>7 DEF vars, disk, memory, told, OnceInv, OutcomeCountedOnce, OutcomesKnown, Known,
              WholeOutcome, Syncing
<1> QED
  BY <1>1, <1>2, <1>3, <1>4, <1>5, <1>6, <1>7 DEF Next

\* In every state each outcome on disk is known to the memory that guards it.
LEMMA OnceCorrect ==
  ASSUME "sync_error" \notin Faults
  PROVE  Spec => []OnceInv
<1>1. TypeInv /\ LockInv /\ OnceInv /\ [Next]_vars => OnceInv'
  BY OnceStep
<1> QED
  BY <1>1, OnceInit, TypeCorrect, LockCorrect, PTL DEF Spec

\* "A truth is counted once, even across a restart" (ErrOutcomeExists): for any
\* number of handlers, answers, kills, power losses, failed and short writes,
\* no answer id is on two whole lines of outcomes.ndjson, provided no fsync
\* reports an error.
THEOREM CountedOnce ==
  ASSUME "sync_error" \notin Faults
  PROVE  Spec => []OutcomeCountedOnce
<1>1. OnceInv => OutcomeCountedOnce
  BY DEF OnceInv
<1> QED
  BY <1>1, OnceCorrect, PTL

-----------------------------------------------------------------------------
(* No step touches a terminated line that reached the disk, not even a     *)
(* malformed one.                                                          *)

\* The terminated lines among the first n of old are in new, at the same place.
Stay(old, new, n) ==
  \A k \in 1 .. n : old[k].kind # "torn" => k \in DOMAIN new /\ new[k] = old[k]

LinesStay == \A f \in Files : Stay(file[f], file'[f], durable[f])

\* Open's truncation removes only the torn line, so whole lines stay in place.
LEMMA StayTruncated ==
  ASSUME NEW lines \in Seq(Line), NEW n \in 0 .. Len(lines)
  PROVE  Stay(lines, Truncated(lines), n)
<1>1. Len(lines) \in Nat /\ DOMAIN lines = 1 .. Len(lines)
  BY LenProperties
<1>2. CASE EndsTorn(lines)
  <2>1. Len(lines) - 1 \in 0 .. Len(lines) /\ lines[Len(lines)].kind = "torn"
    BY <1>1, <1>2, EmptySeq DEF EndsTorn
  <2> DEFINE s == SubSeq(lines, 1, Len(lines) - 1)
  <2>2. /\ Truncated(lines) = s /\ s \in Seq(Line) /\ Len(s) = Len(lines) - 1
        /\ \A k \in 1 .. Len(lines) - 1 : s[k] = lines[k]
    BY <1>2, <2>1, PrefixLines DEF Truncated
  <2> HIDE DEF s
  <2>3. DOMAIN s = 1 .. Len(lines) - 1
    BY <2>2, LenProperties
  <2>4. ASSUME NEW k \in 1 .. n, lines[k].kind # "torn"
        PROVE  k \in 1 .. Len(lines) - 1
    BY <1>1, <2>1, <2>4
  <2> QED
    BY <2>2, <2>3, <2>4 DEF Stay
<1>3. CASE ~EndsTorn(lines)
  BY <1>1, <1>3 DEF Truncated, Stay
<1> QED
  BY <1>2, <1>3

\* An append leaves every whole line of the file where it was.
LEMMA StayAppended ==
  ASSUME NEW lines \in Seq(Line), NEW line \in Line, NEW n \in 0 .. Len(lines)
  PROVE  Stay(lines, AppendBytes(lines, line), n)
<1>1. Len(lines) \in Nat /\ DOMAIN lines = 1 .. Len(lines)
  BY LenProperties
<1>2. CASE EndsTorn(lines)
  <2> DEFINE last == IF line.kind = "torn" THEN Torn ELSE Malformed
  <2>1. AppendBytes(lines, line) = [lines EXCEPT ![Len(lines)] = last]
    BY <1>2 DEF AppendBytes
  <2> HIDE DEF last
  <2>2. lines[Len(lines)].kind = "torn"
    BY <1>2 DEF EndsTorn
  <2>3. ASSUME NEW k \in 1 .. n, lines[k].kind # "torn"
        PROVE  k \in 1 .. Len(lines) /\ k # Len(lines)
    <3>1. k \in 1 .. Len(lines)
      BY <1>1
    <3> QED
      BY <2>2, <2>3, <3>1
  <2> QED
    BY <1>1, <2>1, <2>3 DEF Stay
<1>3. CASE ~EndsTorn(lines)
  BY <1>1, <1>3 DEF AppendBytes, Stay
<1> QED
  BY <1>2, <1>3

\* Whatever a power loss leaves of a file, its durable lines are part of it.
LEMMA StayRemaining ==
  ASSUME NEW f \in Files, file[f] \in Seq(Line), durable[f] \in Nat,
         durable[f] <= Len(file[f]), NEW lines \in Remains(f)
  PROVE  Stay(file[f], lines, durable[f])
<1>1. Len(file[f]) \in Nat
  BY LenProperties
<1>2. PICK k \in durable[f] .. Len(file[f]) :
        lines = SubSeq(file[f], 1, k) \/ lines = Append(SubSeq(file[f], 1, k), Torn)
  BY DEF Remains
<1>3. k \in 0 .. Len(file[f]) /\ durable[f] <= k
  BY <1>1, <1>2
<1> DEFINE s == SubSeq(file[f], 1, k)
<1>4. s \in Seq(Line) /\ Len(s) = k /\ \A j \in 1 .. k : s[j] = file[f][j]
  BY <1>3, PrefixLines
<1> HIDE DEF s
<1>5. DOMAIN s = 1 .. k
  BY <1>4, LenProperties
<1>6. CASE lines = s
  BY <1>1, <1>3, <1>4, <1>5, <1>6 DEF Stay
<1>7. CASE lines = Append(s, Torn)
  <2>1. \A j \in 1 .. k : j \in DOMAIN lines /\ lines[j] = s[j]
    BY <1>3, <1>4, <1>5, <1>7
  <2> QED
    BY <1>1, <1>3, <1>4, <2>1 DEF Stay
<1> QED
  BY <1>2, <1>6, <1>7 DEF s

\* No step touches a durable line.
LEMMA StayStep == TypeInv /\ [Next]_vars => LinesStay
<1> SUFFICES ASSUME TypeInv, [Next]_vars PROVE LinesStay
  OBVIOUS
<1>1. \A f \in Files : /\ file[f] \in Seq(Line) /\ durable[f] \in 0 .. Len(file[f])
                       /\ DOMAIN file[f] = 1 .. Len(file[f]) /\ Len(file[f]) \in Nat
  BY LenProperties DEF TypeInv, TypeOK
<1>2. CASE UNCHANGED file
  BY <1>1, <1>2 DEF LinesStay, Stay
<1>3. ASSUME NEW f \in Files, file' = [file EXCEPT ![f] = Truncated(@)]
      PROVE  LinesStay
  <2>1. Stay(file[f], file'[f], durable[f])
    BY <1>1, <1>3, StayTruncated DEF TypeInv, TypeOK
  <2>2. \A g \in Files \ {f} : file'[g] = file[g]
    BY <1>3 DEF TypeInv, TypeOK
  <2> QED
    BY <1>1, <2>1, <2>2 DEF LinesStay, Stay
<1>4. ASSUME NEW c \in Callers, MayWrite(c), NEW line \in {LineOf(c), Torn},
             file' = [file EXCEPT ![op[c].file] = AppendBytes(@, line)]
      PROVE  LinesStay
  <2>1. op[c].file \in Files /\ line \in Line
    <3>1. op[c] \in Op /\ op[c].id \in Ids /\ (op[c].file = "outcomes" => op[c].truth \in Truths)
      BY <1>4 DEF MayWrite, TypeInv, TypeOK, OpsWellFormed
    <3>2. op[c].file \in {"answers", "outcomes"}
      BY <3>1 DEF Op, Files
    <3> QED
      BY <3>1, <3>2 DEF LineOf, AnswerLine, OutcomeLine, Torn, Line, Files
  <2> DEFINE f == op[c].file
  <2>2. Stay(file[f], file'[f], durable[f])
    BY <1>1, <1>4, <2>1, StayAppended DEF TypeInv, TypeOK
  <2>3. \A g \in Files \ {f} : file'[g] = file[g]
    BY <1>4, <2>1 DEF TypeInv, TypeOK
  <2> QED
    BY <1>1, <2>1, <2>2, <2>3 DEF LinesStay, Stay
<1>5. CASE PowerLoss
  <2>1. PICK a \in Remains("answers"), o \in Remains("outcomes") :
          file' = [f \in Files |-> IF f = "answers" THEN a ELSE o]
    BY <1>5 DEF PowerLoss
  <2>2. /\ Stay(file["answers"], a, durable["answers"])
        /\ Stay(file["outcomes"], o, durable["outcomes"])
    BY <1>1, StayRemaining DEF Files
  <2> QED
    BY <2>1, <2>2 DEF LinesStay, Files
<1>6. ASSUME NEW c \in Callers, Handler(c) PROVE LinesStay
  <2>1. CASE WriteLine(c)
    BY <1>4, <2>1 DEF WriteLine
  <2>2. CASE ShortWrite(c)
    BY <1>4, <2>2 DEF ShortWrite
  <2>3. CASE WriteError(c) \/ SyncLine(c) \/ SyncError(c) \/ OutcomeExists(c)
             \/ ServeAnswer(c) \/ ConfirmOutcome(c)
    BY <1>2, <2>3 DEF WriteError, SyncLine, Returned, SyncError, OutcomeExists,
                      ServeAnswer, ConfirmOutcome, disk
  <2> QED
    BY <1>6, <2>1, <2>2, <2>3 DEF Handler
<1>7. CASE Kill
  BY <1>2, <1>4, <1>7 DEF Kill
<1>8. CASE TruncateAnswers \/ TruncateOutcomes
  BY <1>3, <1>8 DEF TruncateAnswers, TruncateOutcomes, Truncate, Files
<1>9. CASE LoadIndex \/ RefuseToOpen \/ UNCHANGED vars
  BY <1>2, <1>9 DEF LoadIndex, RefuseToOpen, vars, disk
<1>10. ASSUME NEW c \in Callers,
              \/ \E i \in Ids : Answered(c, i)
              \/ \E i \in Ids, t \in Truths : OutcomeAsked(c, i, t)
       PROVE  LinesStay
  BY <1>2, <1>10 DEF Answered, OutcomeAsked, disk
<1> QED
  BY <1>5, <1>6, <1>7, <1>8, <1>9, <1>10 DEF Next

\* Under every I/O error and every crash, no step, Open's truncation included,
\* loses or changes a whole line that an fsync has put on disk.
THEOREM DurableLinesKept == Spec => DurableLinesStay
<1>1. TypeInv /\ [Next]_vars =>
        [\A f \in Files : \A k \in 1 .. durable[f] :
           file[f][k].kind = "whole" =>
             k \in DOMAIN file'[f] /\ file'[f][k] = file[f][k]]_vars
  BY StayStep DEF LinesStay, Stay
<1> QED
  BY <1>1, TypeCorrect, PTL DEF Spec, DurableLinesStay

-----------------------------------------------------------------------------
(* A restart is accepted.  RestartAccepted is about proc alone; what keeps *)
(* it is that only the last line of a file is ever a fragment, that Open   *)
(* removes it before it parses, and that only a running process writes.    *)

AllWhole(lines) == \A k \in DOMAIN lines : lines[k].kind = "whole"

\* Whole lines, and perhaps a fragment after them.
WholeButTail(lines) ==
  \A k \in DOMAIN lines :
    lines[k].kind = "whole" \/ (lines[k].kind = "torn" /\ k = Len(lines))

CleanInv ==
  /\ \A f \in Files : WholeButTail(file[f])
  /\ proc = "opening" => AllWhole(file["answers"])
  /\ proc \in {"parsing", "up"} => \A f \in Files : AllWhole(file[f])
  /\ proc # "refused"

\* Whole lines are a special case.
LEMMA WholeIsClean ==
  ASSUME NEW lines, AllWhole(lines) PROVE WholeButTail(lines)
BY DEF AllWhole, WholeButTail

\* truncateTornTail leaves whole lines only.
LEMMA CleanTruncated ==
  ASSUME NEW lines \in Seq(Line), WholeButTail(lines)
  PROVE  AllWhole(Truncated(lines))
<1>1. Len(lines) \in Nat /\ DOMAIN lines = 1 .. Len(lines)
  BY LenProperties
<1>2. CASE EndsTorn(lines)
  <2>1. Len(lines) - 1 \in 0 .. Len(lines)
    BY <1>1, <1>2, EmptySeq DEF EndsTorn
  <2> DEFINE s == SubSeq(lines, 1, Len(lines) - 1)
  <2>2. /\ Truncated(lines) = s /\ s \in Seq(Line) /\ Len(s) = Len(lines) - 1
        /\ \A k \in 1 .. Len(lines) - 1 : s[k] = lines[k]
    BY <1>2, <2>1, PrefixLines DEF Truncated
  <2> HIDE DEF s
  <2>3. DOMAIN s = 1 .. Len(lines) - 1
    BY <2>2, LenProperties
  <2> QED
    BY <1>1, <2>2, <2>3 DEF AllWhole, WholeButTail
<1>3. CASE ~EndsTorn(lines)
  <2>1. ASSUME NEW k \in DOMAIN lines, lines[k].kind # "whole" PROVE FALSE
    <3>1. k = Len(lines) /\ lines[k].kind = "torn" /\ lines # <<>>
      BY <1>1, <2>1, EmptySeq DEF WholeButTail
    <3> QED
      BY <1>3, <3>1 DEF EndsTorn
  <2> QED
    BY <1>3, <2>1 DEF Truncated, AllWhole
<1> QED
  BY <1>2, <1>3

\* Appending to whole lines: the new line is the last, and no other changes.
LEMMA CleanAppended ==
  ASSUME NEW lines \in Seq(Line), NEW line \in Line, AllWhole(lines)
  PROVE  /\ AppendBytes(lines, line) = Append(lines, line)
         /\ line.kind = "whole" => AllWhole(AppendBytes(lines, line))
         /\ line.kind = "torn" => WholeButTail(AppendBytes(lines, line))
<1>1. Len(lines) \in Nat /\ DOMAIN lines = 1 .. Len(lines)
  BY LenProperties
<1>2. ~EndsTorn(lines)
  <2>1. lines # <<>> => Len(lines) \in DOMAIN lines
    BY <1>1, EmptySeq
  <2> QED
    BY <2>1 DEF EndsTorn, AllWhole
<1>3. AppendBytes(lines, line) = Append(lines, line)
  BY <1>2 DEF AppendBytes
<1> QED
  BY <1>1, <1>3 DEF AllWhole, WholeButTail

\* A power loss leaves whole lines and perhaps a fragment.
LEMMA CleanRemaining ==
  ASSUME NEW f \in Files, file[f] \in Seq(Line), durable[f] \in Nat,
         WholeButTail(file[f]), NEW lines \in Remains(f)
  PROVE  WholeButTail(lines)
<1>1. Len(file[f]) \in Nat /\ DOMAIN file[f] = 1 .. Len(file[f])
  BY LenProperties
<1>2. PICK k \in durable[f] .. Len(file[f]) :
        \/ lines = SubSeq(file[f], 1, k)
        \/ lines = Append(SubSeq(file[f], 1, k), Torn) /\ k # Len(file[f])
  BY DEF Remains
<1>3. k \in 0 .. Len(file[f])
  BY <1>1, <1>2
<1> DEFINE s == SubSeq(file[f], 1, k)
<1>4. s \in Seq(Line) /\ Len(s) = k /\ \A j \in 1 .. k : s[j] = file[f][j]
  BY <1>3, PrefixLines
<1> HIDE DEF s
<1>5. DOMAIN s = 1 .. k
  BY <1>4, LenProperties
<1>6. WholeButTail(s)
  BY <1>1, <1>3, <1>4, <1>5 DEF WholeButTail
<1>7. CASE lines = Append(s, Torn) /\ k # Len(file[f])
  <2>1. AllWhole(s)
    BY <1>1, <1>3, <1>4, <1>5, <1>7 DEF WholeButTail, AllWhole
  <2>2. Torn \in Line /\ Torn.kind = "torn"
    BY DEF Torn, Line
  <2> QED
    BY <1>4, <1>7, <2>1, <2>2, CleanAppended
<1> QED
  BY <1>2, <1>6, <1>7 DEF s

\* The line a request carries is whole and well typed.
LEMMA LineOfType ==
  ASSUME TypeInv, NEW c \in Callers, op[c].step # "idle"
  PROVE  /\ LineOf(c) \in Line /\ LineOf(c).kind = "whole" /\ LineOf(c).id = op[c].id
         /\ op[c].id \in Ids /\ op[c].file \in Files
<1>1. /\ op[c] \in Op /\ op[c].id \in Ids
      /\ op[c].file = "outcomes" => op[c].truth \in Truths
  BY DEF TypeInv, TypeOK, OpsWellFormed
<1>2. op[c].file \in {"answers", "outcomes"}
  BY <1>1 DEF Op, Files
<1> QED
  BY <1>1, <1>2 DEF LineOf, AnswerLine, OutcomeLine, Line, Files

\* Steps of a running process append whole lines to whole lines.
LEMMA CleanRequest ==
  ASSUME "short_write" \notin Faults, TypeInv, LockInv, CleanInv, NEW c \in Callers,
         \/ \E i \in Ids : Answered(c, i)
         \/ \E i \in Ids, t \in Truths : OutcomeAsked(c, i, t)
         \/ Handler(c)
  PROVE  CleanInv'
<1>1. CASE WriteLine(c)
  <2>1. op[c].step = "write" /\ proc = "up" /\ proc' = "up"
    BY <1>1 DEF WriteLine, MayWrite, LockInv, OnlyWhenUp
  <2>2. /\ LineOf(c) \in Line /\ LineOf(c).kind = "whole" /\ op[c].file \in Files
        /\ \A f \in Files : file[f] \in Seq(Line) /\ AllWhole(file[f])
    BY <2>1, LineOfType DEF CleanInv, TypeInv, TypeOK
  <2>3. /\ file'[op[c].file] = AppendBytes(file[op[c].file], LineOf(c))
        /\ \A f \in Files \ {op[c].file} : file'[f] = file[f]
    BY <1>1, <2>2 DEF WriteLine, TypeInv, TypeOK
  <2>4. \A f \in Files : AllWhole(file'[f])
    BY <2>2, <2>3, CleanAppended
  <2> QED
    BY <2>1, <2>4, WholeIsClean DEF CleanInv
<1>2. CASE ShortWrite(c)
  BY <1>2 DEF ShortWrite
<1>3. CASE UNCHANGED <<file, proc>>
  BY <1>3 DEF CleanInv
<1> QED
  BY <1>1, <1>2, <1>3 DEF Handler, Answered, OutcomeAsked, WriteError, SyncLine, Returned,
     SyncError, OutcomeExists, ServeAnswer, ConfirmOutcome, disk

\* Every step, crashes included, leaves files the next Open accepts.
LEMMA CleanStep ==
  ASSUME "short_write" \notin Faults
  PROVE  TypeInv /\ LockInv /\ CleanInv /\ [Next]_vars => CleanInv'
<1> SUFFICES ASSUME TypeInv, LockInv, CleanInv, [Next]_vars PROVE CleanInv'
  OBVIOUS
<1>1. \A f \in Files : /\ file[f] \in Seq(Line) /\ durable[f] \in Nat
                       /\ WholeButTail(file[f])
  BY DEF TypeInv, TypeOK, CleanInv
<1>2. CASE TruncateAnswers
  <2>1. /\ file'["answers"] = Truncated(file["answers"]) /\ proc' = "opening"
        /\ file'["outcomes"] = file["outcomes"]
    BY <1>2 DEF TruncateAnswers, Truncate, TypeInv, TypeOK, Files
  <2> QED
    BY <1>1, <2>1, CleanTruncated, WholeIsClean DEF CleanInv, Files
<1>3. CASE TruncateOutcomes
  <2>1. /\ file'["outcomes"] = Truncated(file["outcomes"]) /\ proc' = "parsing"
        /\ file'["answers"] = file["answers"] /\ proc = "opening"
    BY <1>3 DEF TruncateOutcomes, Truncate, TypeInv, TypeOK, Files
  <2> QED
    BY <1>1, <2>1, CleanTruncated, WholeIsClean DEF CleanInv, Files
<1>4. CASE LoadIndex
  BY <1>4 DEF LoadIndex, CleanInv, disk
<1>5. CASE RefuseToOpen
  BY <1>5 DEF RefuseToOpen, Malforms, CleanInv, AllWhole
<1>6. ASSUME NEW c \in Callers,
             \/ \E i \in Ids : Answered(c, i)
             \/ \E i \in Ids, t \in Truths : OutcomeAsked(c, i, t)
             \/ Handler(c)
      PROVE  CleanInv'
  BY <1>6, CleanRequest
<1>7. CASE Kill
  <2>1. proc' = "down"
    BY <1>7 DEF Kill, Die
  <2>2. CASE UNCHANGED file
    BY <2>1, <2>2 DEF CleanInv
  <2>3. ASSUME NEW c \in Callers, MayWrite(c),
               file' = [file EXCEPT ![op[c].file] = AppendBytes(@, Torn)]
        PROVE  CleanInv'
    <3>1. op[c].file \in Files /\ \A f \in Files : AllWhole(file[f])
      BY <2>3, LineOfType DEF MayWrite, LockInv, OnlyWhenUp, CleanInv
    <3>2. /\ file'[op[c].file] = AppendBytes(file[op[c].file], Torn)
          /\ \A f \in Files \ {op[c].file} : file'[f] = file[f]
      BY <2>3, <3>1 DEF TypeInv, TypeOK
    <3>3. Torn \in Line /\ Torn.kind = "torn"
      BY DEF Torn, Line
    <3> QED
      BY <1>1, <2>1, <3>1, <3>2, <3>3, CleanAppended DEF CleanInv
  <2> QED
    BY <1>7, <2>2, <2>3 DEF Kill
<1>8. CASE PowerLoss
  <2>1. proc' = "down"
    BY <1>8 DEF PowerLoss, Die
  <2>2. PICK a \in Remains("answers"), o \in Remains("outcomes") :
          file' = [f \in Files |-> IF f = "answers" THEN a ELSE o]
    BY <1>8 DEF PowerLoss
  <2>3. WholeButTail(a) /\ WholeButTail(o)
    BY <1>1, CleanRemaining DEF Files
  <2> QED
    BY <2>1, <2>2, <2>3 DEF CleanInv
<1>9. CASE UNCHANGED vars
  BY <1>9 DEF vars, disk, CleanInv
<1> QED
  BY <1>2, <1>3, <1>4, <1>5, <1>6, <1>7, <1>8, <1>9 DEF Next

\* In every state the files are such that Open, begun again, accepts them.
LEMMA CleanCorrect ==
  ASSUME "short_write" \notin Faults
  PROVE  Spec => []CleanInv
<1>1. Init => CleanInv
  BY EmptySeq DEF Init, CleanInv, WholeButTail, Files
<1>2. TypeInv /\ LockInv /\ CleanInv /\ [Next]_vars => CleanInv'
  BY CleanStep
<1> QED
  BY <1>1, <1>2, TypeCorrect, LockCorrect, PTL DEF Spec

\* A crash at any point of Open or of a write, and any number of failed writes
\* and fsyncs, never leave a file the next Open calls corrupt, provided the
\* file system takes a line whole or not at all.
THEOREM RestartsAccepted ==
  ASSUME "short_write" \notin Faults
  PROVE  Spec => []RestartAccepted
<1>1. CleanInv => RestartAccepted
  BY DEF CleanInv, RestartAccepted
<1> QED
  BY <1>1, CleanCorrect, PTL

-----------------------------------------------------------------------------
(* What a client was told is on disk, under every fault.  A short write    *)
(* lets the next line run into the fragment before it; the line is then    *)
(* part of a malformed one, which reaches the disk in its place and keeps  *)
(* every later Open from accepting the file.                               *)

OnDisk(f, line) ==
  \E k \in 1 .. durable[f] : file[f][k] = line \/ file[f][k].kind = "malformed"

Written(c) ==
  \E k \in DOMAIN file[op[c].file] :
    file[op[c].file][k] = LineOf(c) \/ file[op[c].file][k].kind = "malformed"

\* Where a request stands: its line is in the file before the fsync, on disk
\* before it is answered for, and only a request about to reply is a success.
OpTold(c) ==
  /\ op[c].step = "sync" => Written(c)
  /\ op[c].step = "reply" /\ op[c].ok => OnDisk(op[c].file, LineOf(c))
  /\ op[c].step = "reply" /\ op[c].file = "outcomes" => op[c].ok
  /\ op[c].ok => op[c].step = "reply"

KeptOnDisk      == \A i \in kept : OnDisk("answers", AnswerLine(i))
ConfirmedOnDisk == \A p \in confirmed : OnDisk("outcomes", OutcomeLine(p[1], p[2]))

ToldInv == KeptOnDisk /\ ConfirmedOnDisk /\ \A c \in Callers : OpTold(c)

\* A line that survives a step is still among those that survive a power loss:
\* durable is lowered only to the end of a file that was cut.
LEMMA DurableStep ==
  ASSUME TypeInv, [Next]_vars, NEW f \in Files, NEW k \in 1 .. durable[f],
         file[f][k].kind # "torn"
  PROVE  k \in 1 .. durable'[f] /\ file'[f][k] = file[f][k]
<1>1. k \in DOMAIN file'[f] /\ file'[f][k] = file[f][k]
  BY StayStep DEF LinesStay, Stay
<1>2. /\ durable \in [Files -> Nat] /\ durable[f] <= Len(file[f])
      /\ file'[f] \in Seq(Line) /\ k \in Nat /\ Len(file[f]) \in Nat
  BY TypeStep, LenProperties DEF TypeInv, TypeOK
<1>3. k \in 1 .. Len(file'[f]) /\ Len(file'[f]) \in Nat
  BY <1>1, <1>2, LenProperties
<1>4. \/ durable'[f] = durable[f]
      \/ durable'[f] = Len(file'[f])
      \/ durable'[f] = Len(file[f])
  <2>1. ASSUME NEW c \in Callers, Handler(c)
        PROVE  durable'[f] \in {durable[f], Len(file[f])}
    <3>1. CASE SyncLine(c)
      BY <1>2, <3>1 DEF SyncLine
    <3> QED
      BY <2>1, <3>1 DEF Handler, WriteLine, WriteError, ShortWrite, SyncError,
                        OutcomeExists, ServeAnswer, ConfirmOutcome, disk
  <2>2. CASE TruncateAnswers \/ TruncateOutcomes
    BY <1>2, <2>2 DEF TruncateAnswers, TruncateOutcomes, Truncate
  <2>3. CASE PowerLoss
    BY <2>3 DEF PowerLoss, Files
  <2>4. CASE \/ Kill \/ LoadIndex \/ RefuseToOpen \/ UNCHANGED vars
             \/ \E c \in Callers, i \in Ids : Answered(c, i)
             \/ \E c \in Callers, i \in Ids, t \in Truths : OutcomeAsked(c, i, t)
    BY <2>4 DEF Kill, LoadIndex, RefuseToOpen, vars, disk, Answered, OutcomeAsked
  <2> QED
    BY <2>1, <2>2, <2>3, <2>4 DEF Next
<1> QED
  BY <1>1, <1>2, <1>3, <1>4

\* No step takes a whole line off the disk.
LEMMA OnDiskStays ==
  ASSUME TypeInv, [Next]_vars, NEW f \in Files, NEW line, line.kind = "whole",
         OnDisk(f, line)
  PROVE  OnDisk(f, line)'
<1>1. PICK k \in 1 .. durable[f] : file[f][k] = line \/ file[f][k].kind = "malformed"
  BY DEF OnDisk
<1>2. k \in 1 .. durable'[f] /\ file'[f][k] = file[f][k]
  BY <1>1, DurableStep
<1> QED
  BY <1>1, <1>2 DEF OnDisk

\* What was told before the step is on disk after it.
LEMMA ToldStays ==
  ASSUME TypeInv, ToldInv, [Next]_vars
  PROVE  /\ \A i \in kept : OnDisk("answers", AnswerLine(i))'
         /\ \A p \in confirmed : OnDisk("outcomes", OutcomeLine(p[1], p[2]))'
<1>1. /\ \A i : AnswerLine(i).kind = "whole"
      /\ \A i, t : OutcomeLine(i, t).kind = "whole"
  BY DEF AnswerLine, OutcomeLine
<1>2. "answers" \in Files /\ "outcomes" \in Files
  BY DEF Files
<1>3. ASSUME NEW i \in kept PROVE OnDisk("answers", AnswerLine(i))'
  <2>1. OnDisk("answers", AnswerLine(i))
    BY DEF ToldInv, KeptOnDisk
  <2> QED
    BY <1>1, <1>2, <2>1, OnDiskStays
<1>4. ASSUME NEW p \in confirmed PROVE OnDisk("outcomes", OutcomeLine(p[1], p[2]))'
  <2>1. OnDisk("outcomes", OutcomeLine(p[1], p[2]))
    BY DEF ToldInv, ConfirmedOnDisk
  <2> QED
    BY <1>1, <1>2, <2>1, OnDiskStays
<1> QED
  BY <1>3, <1>4

\* The last line after a write is the one written, or is malformed.
LEMMA AppendedLast ==
  ASSUME NEW lines \in Seq(Line), NEW line \in Line, line.kind = "whole"
  PROVE  \E k \in DOMAIN AppendBytes(lines, line) :
           \/ AppendBytes(lines, line)[k] = line
           \/ AppendBytes(lines, line)[k].kind = "malformed"
<1>1. Len(lines) \in Nat /\ DOMAIN lines = 1 .. Len(lines)
  BY LenProperties
<1>2. CASE EndsTorn(lines)
  <2>1. Len(lines) \in DOMAIN lines
    BY <1>1, <1>2, EmptySeq DEF EndsTorn
  <2>2. AppendBytes(lines, line) = [lines EXCEPT ![Len(lines)] = Malformed]
    BY <1>2 DEF AppendBytes
  <2> QED
    BY <2>1, <2>2 DEF Malformed
<1>3. CASE ~EndsTorn(lines)
  <2>1. AppendBytes(lines, line) = Append(lines, line)
    BY <1>3 DEF AppendBytes
  <2>2. Append(lines, line)[Len(lines) + 1] = line
        /\ Len(lines) + 1 \in DOMAIN Append(lines, line)
    BY <1>1
  <2> QED
    BY <2>1, <2>2
<1> QED
  BY <1>2, <1>3

\* A step that leaves request d alone, and the files if d is in the critical
\* section, leaves its standing.
LEMMA OpToldStays ==
  ASSUME TypeInv, [Next]_vars, NEW d \in Callers, OpTold(d), op'[d] = op[d],
         op[d].step = "sync" => UNCHANGED file
  PROVE  OpTold(d)'
<1>1. LineOf(d)' = LineOf(d)
  BY DEF LineOf
<1>2. ASSUME op[d].step = "reply", op[d].ok
      PROVE  OnDisk(op[d].file, LineOf(d))'
  <2>1. OnDisk(op[d].file, LineOf(d)) /\ op[d].file \in Files /\ LineOf(d).kind = "whole"
    BY <1>2, LineOfType DEF OpTold
  <2>2. \A k \in 1 .. durable[op[d].file] : file[op[d].file][k].kind # "torn" =>
          /\ k \in 1 .. durable'[op[d].file]
          /\ file'[op[d].file][k] = file[op[d].file][k]
    BY <2>1, DurableStep
  <2> QED
    BY <1>1, <2>1, <2>2 DEF OnDisk
<1>3. ASSUME op[d].step = "sync" PROVE Written(d)'
  BY <1>1, <1>3 DEF OpTold, Written
<1> QED
  BY <1>1, <1>2, <1>3 DEF OpTold

\* A request that is not past the lock has nothing on disk to answer for.
LEMMA OpToldFresh ==
  ASSUME TypeInv, NEW c \in Callers, op'[c].step \in {"idle", "write"}, op'[c].ok = FALSE
  PROVE  OpTold(c)'
BY DEF OpTold

\* What a Put that returned an error leaves of its request.
LEMMA OpToldFailed ==
  ASSUME TypeInv, NEW c \in Callers, OpTold(c), op[c].step \in {"write", "sync"}, Failed(c)
  PROVE  OpTold(c)'
<1>1. op \in [Callers -> Op] /\ op[c] \in Op /\ ~op[c].ok
  BY DEF TypeInv, TypeOK, OpTold
<1>2. CASE op[c].file = "answers"
  <2>1. op'[c] = [op[c] EXCEPT !.step = "reply"]
    BY <1>1, <1>2 DEF Failed
  <2>2. op'[c].step = "reply" /\ op'[c].ok = op[c].ok /\ op'[c].file = "answers"
    BY <1>1, <1>2, <2>1 DEF Op
  <2> QED
    BY <1>1, <2>2 DEF OpTold
<1>3. CASE op[c].file # "answers"
  <2>1. op'[c].step = "idle" /\ op'[c].ok = FALSE
    BY <1>1, <1>3 DEF Failed, Idle
  <2> QED
    BY <2>1, OpToldFresh
<1> QED
  BY <1>2, <1>3

\* The steps of one request: the line is in the file when Sync is called, on
\* disk when it returned, and the client is told after that.
LEMMA ToldRequest ==
  ASSUME TypeInv, LockInv, ToldInv, NEW c \in Callers,
         \/ \E i \in Ids : Answered(c, i)
         \/ \E i \in Ids, t \in Truths : OutcomeAsked(c, i, t)
         \/ Handler(c)
  PROVE  ToldInv'
<1> USE DEF disk, memory, told
<1>1. [Next]_vars
  BY DEF Next
<1>2. /\ op \in [Callers -> Op] /\ op[c] \in Op /\ OpTold(c)
      /\ c # None /\ None \notin Callers
  BY LedgerAssumption DEF TypeInv, TypeOK, ToldInv
<1>3. /\ \A i \in kept : OnDisk("answers", AnswerLine(i))'
      /\ \A p \in confirmed : OnDisk("outcomes", OutcomeLine(p[1], p[2]))'
  BY <1>1, ToldStays
<1>4. \A d \in Callers \ {c} : op'[d] = op[d]
  BY <1>2 DEF Answered, OutcomeAsked, Handler, WriteLine, WriteError, ShortWrite,
              SyncLine, Returned, SyncError, Failed, OutcomeExists, ServeAnswer, ConfirmOutcome
<1>5. mu # None => UNCHANGED file
  BY DEF Answered, OutcomeAsked, Handler, WriteLine, WriteError, ShortWrite, MayWrite,
         SyncLine, Returned, SyncError, OutcomeExists, ServeAnswer, ConfirmOutcome
<1>6. ASSUME NEW d \in Callers \ {c} PROVE OpTold(d)'
  <2>1. OpTold(d) /\ op'[d] = op[d] /\ d # None
    BY <1>2, <1>4 DEF ToldInv
  <2>2. op[d].step = "sync" => UNCHANGED file
    BY <1>5, <2>1 DEF LockInv, SyncHoldsLock
  <2> QED
    BY <1>1, <2>1, <2>2, OpToldStays
<1>7. ASSUME OpTold(c)', UNCHANGED <<kept, confirmed>> PROVE ToldInv'
  BY <1>3, <1>6, <1>7 DEF ToldInv, KeptOnDisk, ConfirmedOnDisk
<1>8. CASE \/ \E i \in Ids : Answered(c, i)
           \/ \E i \in Ids, t \in Truths : OutcomeAsked(c, i, t)
  <2>1. op'[c].step = "write" /\ op'[c].ok = FALSE
    <3>1. ASSUME NEW i \in Ids, Answered(c, i)
          PROVE  op'[c].step = "write" /\ op'[c].ok = FALSE
      <4>1. op'[c] = [Idle EXCEPT !.step = "write", !.id = i]
        BY <1>2, <3>1 DEF Answered
      <4> QED
        BY <4>1 DEF Idle
    <3>2. ASSUME NEW i \in Ids, NEW t \in Truths, OutcomeAsked(c, i, t)
          PROVE  op'[c].step = "write" /\ op'[c].ok = FALSE
      <4>1. op'[c] = [Idle EXCEPT !.step = "write", !.file = "outcomes",
                                  !.id = i, !.truth = t]
        BY <1>2, <3>2 DEF OutcomeAsked
      <4> QED
        BY <4>1 DEF Idle
    <3> QED
      BY <1>8, <3>1, <3>2
  <2>2. UNCHANGED <<kept, confirmed>>
    BY <1>8 DEF Answered, OutcomeAsked
  <2> QED
    BY <1>7, <2>1, <2>2, OpToldFresh
<1>9. CASE WriteLine(c)
  <2>1. /\ op'[c] = [op[c] EXCEPT !.step = "sync"] /\ op[c].step = "write"
        /\ file' = [file EXCEPT ![op[c].file] = AppendBytes(@, LineOf(c))]
        /\ UNCHANGED told
    BY <1>2, <1>9 DEF WriteLine, MayWrite
  <2>2. /\ op'[c].step = "sync" /\ op'[c].file = op[c].file /\ op'[c].id = op[c].id
        /\ op'[c].truth = op[c].truth /\ op'[c].ok = op[c].ok
    BY <1>2, <2>1 DEF Op
  <2>3. /\ LineOf(c) \in Line /\ LineOf(c).kind = "whole" /\ op[c].file \in Files
        /\ file[op[c].file] \in Seq(Line)
    BY <2>1, LineOfType DEF TypeInv, TypeOK
  <2>4. file'[op[c].file] = AppendBytes(file[op[c].file], LineOf(c)) /\ LineOf(c)' = LineOf(c)
    BY <2>1, <2>2, <2>3 DEF LineOf, TypeInv, TypeOK
  <2>5. Written(c)'
    BY <2>2, <2>3, <2>4, AppendedLast DEF Written
  <2> QED
    BY <1>2, <1>7, <2>1, <2>2, <2>5 DEF OpTold
<1>10. CASE WriteError(c) \/ ShortWrite(c) \/ SyncError(c)
  BY <1>2, <1>7, <1>10, OpToldFailed DEF WriteError, ShortWrite, SyncError, MayWrite
<1>11. CASE SyncLine(c)
  <2>1. /\ op' = [op EXCEPT ![c] = [[op[c] EXCEPT !.step = "reply"] EXCEPT !.ok = TRUE]]
        /\ durable' = [durable EXCEPT ![op[c].file] = Len(file[op[c].file])]
        /\ UNCHANGED <<file, told>> /\ op[c].step = "sync"
    BY <1>11 DEF SyncLine, Returned
  <2>2. /\ op'[c].step = "reply" /\ op'[c].file = op[c].file /\ op'[c].id = op[c].id
        /\ op'[c].truth = op[c].truth /\ op'[c].ok = TRUE
    BY <1>2, <2>1 DEF Op
  <2>3. /\ op[c].file \in Files /\ durable'[op[c].file] = Len(file[op[c].file])
        /\ DOMAIN file[op[c].file] = 1 .. Len(file[op[c].file])
    BY <1>2, <2>1, LenProperties DEF Op, TypeInv, TypeOK
  <2>4. LineOf(c)' = LineOf(c)
    BY <2>2 DEF LineOf
  <2>5. Written(c)
    BY <1>2, <2>1 DEF OpTold
  <2>6. OnDisk(op[c].file, LineOf(c))'
    BY <2>1, <2>2, <2>3, <2>4, <2>5 DEF Written, OnDisk
  <2> QED
    BY <1>7, <2>1, <2>2, <2>6 DEF OpTold
<1>12. CASE OutcomeExists(c)
  <2>1. op'[c].step = "idle" /\ op'[c].ok = FALSE /\ UNCHANGED <<kept, confirmed>>
    BY <1>2, <1>12 DEF OutcomeExists, Idle
  <2> QED
    BY <1>7, <2>1, OpToldFresh
<1>13. CASE ServeAnswer(c) \/ ConfirmOutcome(c)
  <2>1. /\ op'[c].step = "idle" /\ op'[c].ok = FALSE /\ op[c].step = "reply"
        /\ UNCHANGED <<file, durable>>
    BY <1>2, <1>13 DEF ServeAnswer, ConfirmOutcome, Idle
  <2>2. OpTold(c)'
    BY <2>1, OpToldFresh
  <2>3. PICK i, t : i = op[c].id /\ t = op[c].truth
    OBVIOUS
  <2>4. CASE ServeAnswer(c)
    <3>1. confirmed' = confirmed /\ op[c].file = "answers"
      BY <2>4 DEF ServeAnswer
    <3>2. CASE op[c].ok = TRUE
      <4>1. kept' = kept \cup {i}
        BY <2>3, <2>4, <3>2 DEF ServeAnswer
      <4>2. OnDisk("answers", AnswerLine(i))
        BY <1>2, <2>1, <2>3, <3>1, <3>2 DEF OpTold, LineOf
      <4>3. OnDisk("answers", AnswerLine(i))'
        BY <2>1, <4>2 DEF OnDisk
      <4>4. \A j \in kept' : OnDisk("answers", AnswerLine(j))'
        BY <1>3, <4>1, <4>3
      <4> QED
        BY <1>3, <1>6, <2>2, <3>1, <4>4 DEF ToldInv, KeptOnDisk, ConfirmedOnDisk
    <3>3. CASE op[c].ok = FALSE
      <4>1. kept' = kept
        BY <2>4, <3>3 DEF ServeAnswer
      <4> QED
        BY <1>7, <2>2, <3>1, <4>1
    <3> QED
      BY <1>2, <3>2, <3>3 DEF Op
  <2>5. CASE ConfirmOutcome(c)
    <3>1. kept' = kept /\ op[c].file = "outcomes" /\ confirmed' = confirmed \cup {<<i, t>>}
      BY <2>3, <2>5 DEF ConfirmOutcome
    <3>2. OnDisk("outcomes", OutcomeLine(i, t))
      BY <1>2, <2>1, <2>3, <3>1 DEF OpTold, LineOf
    <3>3. OnDisk("outcomes", OutcomeLine(i, t))'
      BY <2>1, <3>2 DEF OnDisk
    <3>4. \A p \in confirmed' : OnDisk("outcomes", OutcomeLine(p[1], p[2]))'
      BY <1>3, <3>1, <3>3
    <3> QED
      BY <1>3, <1>6, <2>2, <3>1, <3>4 DEF ToldInv, KeptOnDisk, ConfirmedOnDisk
  <2> QED
    BY <1>13, <2>4, <2>5
<1> QED
  BY <1>8, <1>9, <1>10, <1>11, <1>12, <1>13 DEF Handler

\* Every step keeps what was told, on disk.
LEMMA ToldStep == TypeInv /\ LockInv /\ ToldInv /\ [Next]_vars => ToldInv'
<1> SUFFICES ASSUME TypeInv, LockInv, ToldInv, [Next]_vars PROVE ToldInv'
  OBVIOUS
<1>1. /\ \A i \in kept : OnDisk("answers", AnswerLine(i))'
      /\ \A p \in confirmed : OnDisk("outcomes", OutcomeLine(p[1], p[2]))'
  BY ToldStays
<1>2. ASSUME UNCHANGED <<kept, confirmed>>, \A c \in Callers : OpTold(c)'
      PROVE  ToldInv'
  BY <1>1, <1>2 DEF ToldInv, KeptOnDisk, ConfirmedOnDisk
<1>3. CASE TruncateAnswers \/ TruncateOutcomes \/ LoadIndex \/ RefuseToOpen
  <2>1. proc # "up" /\ UNCHANGED <<op, kept, confirmed>>
    BY <1>3 DEF TruncateAnswers, TruncateOutcomes, Truncate, LoadIndex, RefuseToOpen, told
  <2>2. ASSUME NEW c \in Callers PROVE OpTold(c)'
    <3>1. op[c].step = "idle" /\ op'[c] = op[c] /\ OpTold(c)
      BY <2>1 DEF LockInv, OnlyWhenUp, ToldInv
    <3> QED
      BY <3>1, OpToldStays
  <2> QED
    BY <1>2, <2>1, <2>2
<1>4. CASE Kill \/ PowerLoss
  <2>1. UNCHANGED <<kept, confirmed>> /\ \A c \in Callers : op'[c] = Idle
    BY <1>4 DEF Kill, PowerLoss, Die, told
  <2>2. \A c \in Callers : op'[c].step = "idle" /\ op'[c].ok = FALSE
    BY <2>1 DEF Idle
  <2> QED
    BY <1>2, <2>1, <2>2, OpToldFresh
<1>5. ASSUME NEW c \in Callers,
             \/ \E i \in Ids : Answered(c, i)
             \/ \E i \in Ids, t \in Truths : OutcomeAsked(c, i, t)
             \/ Handler(c)
      PROVE  ToldInv'
  BY <1>5, ToldRequest
<1>6. CASE UNCHANGED vars
  <2>1. UNCHANGED <<file, op, kept, confirmed>>
    BY <1>6 DEF vars, disk, told
  <2>2. \A c \in Callers : OpTold(c) /\ op'[c] = op[c]
    BY <2>1 DEF ToldInv
  <2> QED
    BY <1>2, <2>1, <2>2, OpToldStays
<1> QED
  BY <1>3, <1>4, <1>5, <1>6 DEF Next

\* In every state what clients were told is on disk, or the file is one that no
\* Open accepts.
LEMMA ToldCorrect == Spec => []ToldInv
<1>1. Init => ToldInv
  BY DEF Init, ToldInv, KeptOnDisk, ConfirmedOnDisk, OpTold, Idle
<1> QED
  BY <1>1, ToldStep, TypeCorrect, LockCorrect, PTL DEF Spec

\* No malformed line, and what is on disk is in the file.
LEMMA OnDiskInFile ==
  ASSUME TypeInv, CleanInv, NEW f \in Files, NEW line, OnDisk(f, line)
  PROVE  \E k \in DOMAIN file[f] : file[f][k] = line
<1>1. /\ DOMAIN file[f] = 1 .. Len(file[f]) /\ Len(file[f]) \in Nat
      /\ durable[f] \in Nat /\ durable[f] <= Len(file[f])
  BY LenProperties DEF TypeInv, TypeOK
<1>2. PICK k \in 1 .. durable[f] : file[f][k] = line \/ file[f][k].kind = "malformed"
  BY DEF OnDisk
<1>3. k \in DOMAIN file[f]
  BY <1>1
<1> QED
  BY <1>2, <1>3 DEF CleanInv, WholeButTail

\* An answer PutAnswer accepted is on disk ever after: no crash, restart, failed
\* write, failed fsync or later line loses it.
THEOREM KeptAnswersStay ==
  ASSUME "short_write" \notin Faults
  PROVE  Spec => []KeptAnswersOnDisk
<1>1. ASSUME TypeInv, CleanInv, ToldInv PROVE KeptAnswersOnDisk
  <2> SUFFICES ASSUME NEW i \in kept PROVE i \in WholeIds(file["answers"])
    BY DEF KeptAnswersOnDisk
  <2>1. PICK k \in DOMAIN file["answers"] : file["answers"][k] = AnswerLine(i)
    BY <1>1, OnDiskInFile DEF ToldInv, KeptOnDisk, Files
  <2> QED
    BY <2>1 DEF WholeIds, AnswerLine
<1> QED
  BY <1>1, TypeCorrect, CleanCorrect, ToldCorrect, PTL

\* A truth a client was told 200 for is on disk ever after, with the value the
\* client sent.
THEOREM ConfirmedTruthsStay ==
  ASSUME "short_write" \notin Faults
  PROVE  Spec => []ConfirmedTruthOnDisk
<1>1. TypeInv /\ CleanInv /\ ToldInv => ConfirmedTruthOnDisk
  BY OnDiskInFile DEF ToldInv, ConfirmedOnDisk, ConfirmedTruthOnDisk, Files
<1> QED
  BY <1>1, TypeCorrect, CleanCorrect, ToldCorrect, PTL

-----------------------------------------------------------------------------
(* A truth is confirmed once, even where a failed fsync lets it be written *)
(* twice.  A client is told of an outcome only after its id went into      *)
(* outcomeExists, and an id that is told of is found there by every later  *)
(* writer: its line is on disk, so a restart finds it too, or the file is  *)
(* malformed and there is no restart.                                      *)

Answering(c, i) == op[c].step = "reply" /\ op[c].file = "outcomes" /\ op[c].id = i

ToldOf(i) == \E p \in confirmed : p[1] = i

ToldIsKnown ==
  proc = "up" => \A i \in Ids :
    ToldOf(i) \/ (\E c \in Callers : Answering(c, i)) => i \in outcomeExists

SyncIsNew ==
  \A c \in Callers :
    op[c].step = "sync" /\ op[c].file = "outcomes" => op[c].id \notin outcomeExists

AnsweredApart ==
  \A c \in Callers, i \in Ids : Answering(c, i) =>
    /\ ~ToldOf(i)
    /\ \A d \in Callers : Answering(d, i) => c = d

OnceEverInv == ConfirmedOnceEver /\ ToldIsKnown /\ SyncIsNew /\ AnsweredApart

\* A step that answers for no outcome, and enters the critical section with new
\* outcomes only, cannot confirm one twice.
LEMMA OnceEverFrame ==
  ASSUME TypeInv, OnceEverInv, NEW c \in Callers,
         UNCHANGED <<proc, outcomeExists, confirmed>>,
         \A d \in Callers \ {c} : op'[d] = op[d],
         op'[c].step # "reply" \/ op'[c].file # "outcomes",
         op'[c].step = "sync" /\ op'[c].file = "outcomes" => op'[c].id \notin outcomeExists
  PROVE  OnceEverInv'
<1>1. \A i : ToldOf(i)' <=> ToldOf(i)
  BY DEF ToldOf
<1>2. \A d \in Callers, i \in Ids : Answering(d, i)' => Answering(d, i)
  BY DEF Answering
<1>3. ConfirmedOnceEver' /\ ToldIsKnown'
  BY <1>1, <1>2 DEF OnceEverInv, ConfirmedOnceEver, ToldIsKnown
<1>4. SyncIsNew'
  BY DEF OnceEverInv, SyncIsNew
<1>5. AnsweredApart'
  BY <1>1, <1>2 DEF OnceEverInv, AnsweredApart
<1> QED
  BY <1>3, <1>4, <1>5 DEF OnceEverInv

\* With no request under way and no process up, only what clients were told
\* counts, and it does not change.
LEMMA OnceEverIdle ==
  ASSUME OnceEverInv, proc' # "up", confirmed' = confirmed,
         \A c \in Callers : op'[c].step = "idle"
  PROVE  OnceEverInv'
BY DEF OnceEverInv, ConfirmedOnceEver, ToldIsKnown, SyncIsNew, AnsweredApart, Answering

\* The steps of one request.
LEMMA OnceEverRequest ==
  ASSUME TypeInv, LockInv, OnceEverInv, NEW c \in Callers,
         \/ \E i \in Ids : Answered(c, i)
         \/ \E i \in Ids, t \in Truths : OutcomeAsked(c, i, t)
         \/ Handler(c)
  PROVE  OnceEverInv'
<1> USE DEF disk, memory, told
<1>1. op \in [Callers -> Op] /\ op[c] \in Op
  BY DEF TypeInv, TypeOK
<1>2. \A d \in Callers \ {c} : op'[d] = op[d]
  BY <1>1 DEF Answered, OutcomeAsked, Handler, WriteLine, WriteError, ShortWrite,
              SyncLine, Returned, SyncError, Failed, OutcomeExists, ServeAnswer, ConfirmOutcome
<1>3. CASE \/ \E i \in Ids : Answered(c, i)
           \/ \E i \in Ids, t \in Truths : OutcomeAsked(c, i, t)
           \/ OutcomeExists(c) \/ ServeAnswer(c)
  <2>1. UNCHANGED <<proc, outcomeExists, confirmed>>
    BY <1>3 DEF Answered, OutcomeAsked, OutcomeExists, ServeAnswer
  <2>2. CASE OutcomeExists(c) \/ ServeAnswer(c)
    <3>1. op'[c].step = "idle"
      BY <1>1, <2>2 DEF OutcomeExists, ServeAnswer, Idle
    <3> QED
      BY <1>2, <2>1, <3>1, OnceEverFrame
  <2>3. CASE \/ \E i \in Ids : Answered(c, i)
             \/ \E i \in Ids, t \in Truths : OutcomeAsked(c, i, t)
    <3>1. op'[c].step = "write"
      BY <1>1, <2>3 DEF Answered, OutcomeAsked, Idle
    <3> QED
      BY <1>2, <2>1, <3>1, OnceEverFrame
  <2> QED
    BY <1>3, <2>2, <2>3
<1>4. CASE WriteLine(c)
  <2>1. op'[c] = [op[c] EXCEPT !.step = "sync"] /\ UNCHANGED <<proc, outcomeExists, confirmed>>
    BY <1>1, <1>4 DEF WriteLine
  <2>2. op'[c].step = "sync" /\ op'[c].file = op[c].file /\ op'[c].id = op[c].id
    BY <1>1, <2>1 DEF Op
  <2>3. op[c].file = "outcomes" => op[c].id \notin outcomeExists
    BY <1>4 DEF WriteLine, MayWrite
  <2> QED
    BY <1>2, <2>1, <2>2, <2>3, OnceEverFrame
<1>5. CASE WriteError(c) \/ ShortWrite(c) \/ SyncError(c)
  <2>1. Failed(c) /\ UNCHANGED <<proc, outcomeExists, confirmed>>
    BY <1>5 DEF WriteError, ShortWrite, SyncError
  <2>2. \/ op'[c].step = "reply" /\ op'[c].file = "answers"
        \/ op'[c].step = "idle"
    BY <1>1, <2>1 DEF Failed, Idle, Op
  <2> QED
    BY <1>2, <2>1, <2>2, OnceEverFrame
<1>6. CASE SyncLine(c)
  <2>1. /\ op' = [op EXCEPT ![c] = [[op[c] EXCEPT !.step = "reply"] EXCEPT !.ok = TRUE]]
        /\ op[c].step = "sync" /\ UNCHANGED <<proc, confirmed>>
    BY <1>6 DEF SyncLine, Returned
  <2>2. op'[c].step = "reply" /\ op'[c].file = op[c].file /\ op'[c].id = op[c].id
    BY <1>1, <2>1 DEF Op
  <2>3. CASE op[c].file = "answers"
    <3>1. outcomeExists' = outcomeExists
      BY <1>6, <2>3 DEF SyncLine, Indexed
    <3> QED
      BY <1>2, <2>1, <2>2, <2>3, <3>1, OnceEverFrame
  <2>4. CASE op[c].file = "outcomes"
    <3>1. outcomeExists' = outcomeExists \cup {op[c].id} /\ op[c].id \notin outcomeExists
      BY <1>6, <2>1, <2>4 DEF SyncLine, Indexed, OnceEverInv, SyncIsNew
    <3>2. op[c].id \in Ids /\ proc = "up" /\ \A d \in Callers \ {c} : op[d].step # "sync"
      BY <2>1 DEF TypeInv, OpsWellFormed, LockInv, OnlyWhenUp, SyncHoldsLock
    <3>3. ~ToldOf(op[c].id) /\ \A d \in Callers : ~Answering(d, op[c].id)
      BY <3>1, <3>2 DEF OnceEverInv, ToldIsKnown
    <3>4. \A i : ToldOf(i)' <=> ToldOf(i)
      BY <2>1 DEF ToldOf
    <3>5. \A d \in Callers, i \in Ids :
            Answering(d, i)' <=> Answering(d, i) \/ (d = c /\ i = op[c].id)
      BY <1>2, <2>1, <2>2, <2>4 DEF Answering
    <3>6. ToldIsKnown'
      BY <2>1, <3>1, <3>4, <3>5 DEF OnceEverInv, ToldIsKnown
    <3>7. SyncIsNew'
      BY <1>2, <2>2, <3>2 DEF SyncIsNew
    <3>8. AnsweredApart'
      BY <3>3, <3>4, <3>5 DEF OnceEverInv, AnsweredApart
    <3> QED
      BY <2>1, <3>6, <3>7, <3>8 DEF OnceEverInv, ConfirmedOnceEver
  <2> QED
    BY <1>1, <2>3, <2>4 DEF Op, Files
<1>7. CASE ConfirmOutcome(c)
  <2>1. /\ op'[c].step = "idle" /\ UNCHANGED <<proc, outcomeExists>>
        /\ confirmed' = confirmed \cup {<<op[c].id, op[c].truth>>}
        /\ Answering(c, op[c].id) /\ op[c].id \in Ids /\ op[c].step # "idle"
    BY <1>1, <1>7 DEF ConfirmOutcome, Idle, Answering, TypeInv, OpsWellFormed
  <2>2. ~ToldOf(op[c].id) /\ \A d \in Callers : Answering(d, op[c].id) => d = c
    BY <2>1 DEF OnceEverInv, AnsweredApart
  <2>3. \A i : ToldOf(i)' <=> ToldOf(i) \/ i = op[c].id
    <3> DEFINE pair == <<op[c].id, op[c].truth>>
    <3>1. confirmed' = confirmed \cup {pair} /\ pair[1] = op[c].id
      BY <2>1
    <3> HIDE DEF pair
    <3> QED
      BY <3>1 DEF ToldOf
  <2>4. \A d \in Callers, i \in Ids : Answering(d, i)' <=> Answering(d, i) /\ d # c
    BY <1>2, <2>1 DEF Answering
  <2>5. ConfirmedOnceEver'
    BY <2>1, <2>2 DEF OnceEverInv, ConfirmedOnceEver, ToldOf
  <2>6. ToldIsKnown'
    BY <2>1, <2>3, <2>4 DEF OnceEverInv, ToldIsKnown
  <2>7. SyncIsNew'
    BY <1>2, <2>1 DEF OnceEverInv, SyncIsNew
  <2>8. AnsweredApart'
    BY <2>2, <2>3, <2>4 DEF OnceEverInv, AnsweredApart
  <2> QED
    BY <2>5, <2>6, <2>7, <2>8 DEF OnceEverInv
<1> QED
  BY <1>3, <1>4, <1>5, <1>6, <1>7 DEF Handler

\* Open reads back every outcome a client was told of.
LEMMA OnceEverLoad ==
  ASSUME TypeInv, LockInv, ToldInv, OnceEverInv, LoadIndex
  PROVE  OnceEverInv'
<1>1. /\ \A c \in Callers : op[c].step = "idle"
      /\ UNCHANGED <<op, confirmed>>
      /\ outcomeExists' = WholeIds(file["outcomes"])
      /\ \A k \in DOMAIN file["outcomes"] : file["outcomes"][k].kind = "whole"
  BY DEF LoadIndex, LockInv, OnlyWhenUp, Malforms, told, Files
<1>2. ASSUME NEW p \in confirmed PROVE p[1] \in outcomeExists'
  <2>1. PICK k \in 1 .. durable["outcomes"] :
          \/ file["outcomes"][k] = OutcomeLine(p[1], p[2])
          \/ file["outcomes"][k].kind = "malformed"
    BY DEF ToldInv, ConfirmedOnDisk, OnDisk
  <2>2. k \in DOMAIN file["outcomes"]
    <3>1. /\ durable["outcomes"] \in Nat /\ Len(file["outcomes"]) \in Nat
          /\ durable["outcomes"] <= Len(file["outcomes"])
          /\ DOMAIN file["outcomes"] = 1 .. Len(file["outcomes"])
      BY LenProperties DEF TypeInv, TypeOK, Files
    <3> QED
      BY <3>1
  <2> QED
    BY <1>1, <2>1, <2>2 DEF WholeIds, OutcomeLine
<1> QED
  BY <1>1, <1>2 DEF OnceEverInv, ConfirmedOnceEver, ToldIsKnown, SyncIsNew, AnsweredApart,
                    Answering, ToldOf

\* Every step, under every fault.
LEMMA OnceEverStep ==
  TypeInv /\ LockInv /\ ToldInv /\ OnceEverInv /\ [Next]_vars => OnceEverInv'
<1> SUFFICES ASSUME TypeInv, LockInv, ToldInv, OnceEverInv, [Next]_vars PROVE OnceEverInv'
  OBVIOUS
<1>1. CASE TruncateAnswers \/ TruncateOutcomes \/ RefuseToOpen
  <2>1. proc # "up" /\ proc' # "up" /\ UNCHANGED <<op, confirmed>>
    BY <1>1 DEF TruncateAnswers, TruncateOutcomes, Truncate, RefuseToOpen, told
  <2> QED
    BY <2>1, OnceEverIdle DEF LockInv, OnlyWhenUp
<1>2. CASE LoadIndex
  BY <1>2, OnceEverLoad
<1>3. ASSUME NEW c \in Callers,
             \/ \E i \in Ids : Answered(c, i)
             \/ \E i \in Ids, t \in Truths : OutcomeAsked(c, i, t)
             \/ Handler(c)
      PROVE  OnceEverInv'
  BY <1>3, OnceEverRequest
<1>4. CASE Kill \/ PowerLoss
  BY <1>4, OnceEverIdle DEF Kill, PowerLoss, Die, Idle, told
<1>5. CASE UNCHANGED vars
  BY <1>5 DEF vars, disk, memory, told, OnceEverInv, ConfirmedOnceEver, ToldIsKnown, SyncIsNew,
              AnsweredApart, Answering, ToldOf
<1> QED
  BY <1>1, <1>2, <1>3, <1>4, <1>5 DEF Next

\* However many handlers, crashes, restarts, failed writes, short writes and
\* failed fsyncs, no two clients are told 200 for different truths of one
\* answer, even where the file holds both.
THEOREM ConfirmedOnce == Spec => []ConfirmedOnceEver
<1>1. Init => OnceEverInv
  BY DEF Init, OnceEverInv, ConfirmedOnceEver, ToldIsKnown, SyncIsNew, AnsweredApart,
         Answering, ToldOf, Idle
<1>2. OnceEverInv => ConfirmedOnceEver
  BY DEF OnceEverInv
<1> QED
  BY <1>1, <1>2, OnceEverStep, TypeCorrect, LockCorrect, ToldCorrect, PTL DEF Spec

-----------------------------------------------------------------------------
(* The faults under which the file is what the ledger takes it to be.      *)

PlainFaults == Faults \subseteq {"write_error"}

-----------------------------------------------------------------------------
(* The index is the file, except for the line whose Sync has not returned. *)

IndexOf(f) == IF f = "answers" THEN index ELSE outcomeExists

InSync(c, f, i) == op[c].step = "sync" /\ op[c].file = f /\ op[c].id = i

IndexInv ==
  proc = "up" => \A f \in Files :
    /\ IndexOf(f) \subseteq WholeIds(file[f])
    /\ \A i \in WholeIds(file[f]) :
         i \in IndexOf(f) \/ \E c \in Callers : InSync(c, f, i)

\* The ids of a file after one more whole line.
LEMMA WholeIdsAppend ==
  ASSUME NEW lines \in Seq(Line), NEW line \in Line, line.kind = "whole"
  PROVE  WholeIds(Append(lines, line)) = WholeIds(lines) \cup {line.id}
<1>1. Len(lines) \in Nat /\ DOMAIN lines = 1 .. Len(lines)
  BY LenProperties
<1>2. /\ DOMAIN Append(lines, line) = 1 .. Len(lines) + 1
      /\ \A k \in 1 .. Len(lines) : Append(lines, line)[k] = lines[k]
      /\ Append(lines, line)[Len(lines) + 1] = line
  BY <1>1
<1>3. ASSUME NEW i \in WholeIds(Append(lines, line)) PROVE i \in WholeIds(lines) \cup {line.id}
  BY <1>1, <1>2, <1>3 DEF WholeIds
<1>4. ASSUME NEW i \in WholeIds(lines) PROVE i \in WholeIds(Append(lines, line))
  BY <1>1, <1>2, <1>4 DEF WholeIds
<1>5. line.id \in WholeIds(Append(lines, line))
  BY <1>1, <1>2 DEF WholeIds
<1> QED
  BY <1>3, <1>4, <1>5

\* In a running process a write adds exactly its own id to its file.
LEMMA WholeIdsWrite ==
  ASSUME TypeInv, LockInv, CleanInv, NEW c \in Callers, WriteLine(c)
  PROVE  /\ op[c].file \in Files
         /\ WholeIds(file'[op[c].file]) = WholeIds(file[op[c].file]) \cup {op[c].id}
         /\ \A f \in Files \ {op[c].file} : file'[f] = file[f]
<1>1. op[c].step = "write" /\ proc = "up"
  BY DEF WriteLine, MayWrite, LockInv, OnlyWhenUp
<1>2. /\ LineOf(c) \in Line /\ LineOf(c).kind = "whole" /\ LineOf(c).id = op[c].id
      /\ op[c].file \in Files
  BY <1>1, LineOfType
<1>3. file[op[c].file] \in Seq(Line) /\ AllWhole(file[op[c].file])
  BY <1>1, <1>2 DEF CleanInv, TypeInv, TypeOK
<1>4. AppendBytes(file[op[c].file], LineOf(c)) = Append(file[op[c].file], LineOf(c))
  BY <1>2, <1>3, CleanAppended
<1>5. /\ file'[op[c].file] = AppendBytes(file[op[c].file], LineOf(c))
      /\ \A f \in Files \ {op[c].file} : file'[f] = file[f]
  BY <1>2 DEF WriteLine, TypeInv, TypeOK
<1> QED
  BY <1>2, <1>3, <1>4, <1>5, WholeIdsAppend

\* The steps of one request: a write makes its id a pending one, its Sync puts
\* it in the index.
LEMMA IndexRequest ==
  ASSUME PlainFaults, TypeInv, LockInv, CleanInv, ToldInv, IndexInv, NEW c \in Callers,
         \/ \E i \in Ids : Answered(c, i)
         \/ \E i \in Ids, t \in Truths : OutcomeAsked(c, i, t)
         \/ Handler(c)
  PROVE  IndexInv'
<1> USE DEF disk, memory, told
<1>1. op \in [Callers -> Op] /\ op[c] \in Op /\ c # None /\ None \notin Callers
  BY LedgerAssumption DEF TypeInv, TypeOK
<1>2. /\ proc = "up" /\ proc' = "up"
      /\ \A d \in Callers \ {c} : op'[d] = op[d]
  BY <1>1 DEF Answered, OutcomeAsked, Handler, WriteLine, WriteError, ShortWrite, MayWrite,
              SyncLine, Returned, SyncError, Failed, OutcomeExists, ServeAnswer,
              ConfirmOutcome, LockInv, OnlyWhenUp
<1>3. CASE WriteLine(c)
  <2>1. op'[c] = [op[c] EXCEPT !.step = "sync"] /\ UNCHANGED <<index, outcomeExists>>
        /\ op[c].step = "write"
    BY <1>1, <1>3 DEF WriteLine, MayWrite
  <2>2. op'[c].step = "sync" /\ op'[c].file = op[c].file /\ op'[c].id = op[c].id
    BY <1>1, <2>1 DEF Op
  <2>3. \A f \in Files : IndexOf(f)' = IndexOf(f)
    BY <2>1 DEF IndexOf
  <2>4. \A d \in Callers, f \in Files : \A i : InSync(d, f, i) => InSync(d, f, i)'
    BY <1>2, <2>1 DEF InSync
  <2>6. /\ op[c].file \in Files
        /\ WholeIds(file'[op[c].file]) = WholeIds(file[op[c].file]) \cup {op[c].id}
        /\ \A f \in Files \ {op[c].file} : file'[f] = file[f]
    BY <1>3, WholeIdsWrite
  <2>7. ASSUME NEW f \in Files
        PROVE  /\ IndexOf(f)' \subseteq WholeIds(file'[f])
               /\ \A i \in WholeIds(file'[f]) :
                    i \in IndexOf(f)' \/ \E d \in Callers : InSync(d, f, i)'
    <3>1. CASE f # op[c].file
      BY <1>2, <2>3, <2>4, <2>6, <3>1 DEF IndexInv
    <3>2. CASE f = op[c].file
      <4>1. \A i : i = op[c].id => InSync(c, f, i)'
        BY <2>2, <3>2 DEF InSync
      <4> QED
        BY <1>2, <2>3, <2>4, <2>6, <3>2, <4>1 DEF IndexInv
    <3> QED
      BY <3>1, <3>2
  <2> QED
    BY <2>7 DEF IndexInv
<1>4. CASE SyncLine(c)
  <2>1. op[c].step = "sync" /\ file' = file /\ op[c].file \in Files
        /\ \A f \in Files : IndexOf(f)' = IF f = op[c].file THEN IndexOf(f) \cup {op[c].id}
                                          ELSE IndexOf(f)
    BY <1>1, <1>4 DEF SyncLine, Returned, Indexed, IndexOf, Op, Files
  <2>2. \A d \in Callers : \A f, i : InSync(d, f, i) =>
          f = op[c].file /\ i = op[c].id
    BY <2>1 DEF LockInv, SyncHoldsLock, InSync
  <2>3. op[c].id \in WholeIds(file[op[c].file])
    <3>1. PICK k \in DOMAIN file[op[c].file] :
            file[op[c].file][k] = LineOf(c) \/ file[op[c].file][k].kind = "malformed"
      BY <2>1 DEF ToldInv, OpTold, Written
    <3>2. file[op[c].file][k].kind = "whole"
      BY <1>2, <2>1, <3>1 DEF CleanInv, AllWhole
    <3>3. LineOf(c).id = op[c].id
      BY <2>1, LineOfType
    <3> QED
      BY <3>1, <3>2, <3>3 DEF WholeIds
  <2>4. ASSUME NEW f \in Files
        PROVE  /\ IndexOf(f)' \subseteq WholeIds(file'[f])
               /\ WholeIds(file'[f]) \subseteq IndexOf(f)'
    BY <1>2, <2>1, <2>2, <2>3 DEF IndexInv
  <2> QED
    BY <2>4 DEF IndexInv
<1>5. ASSUME UNCHANGED <<file, index, outcomeExists>>, op[c].step # "sync"
      PROVE  IndexInv'
  <2>1. \A f \in Files : IndexOf(f)' = IndexOf(f)
    BY <1>5 DEF IndexOf
  <2>2. \A d \in Callers, f \in Files : \A i : InSync(d, f, i) => InSync(d, f, i)'
    BY <1>2, <1>5 DEF InSync
  <2> QED
    BY <1>2, <1>5, <2>1, <2>2 DEF IndexInv
<1>6. CASE WriteError(c) \/ OutcomeExists(c) \/ ServeAnswer(c) \/ ConfirmOutcome(c)
           \/ (\E i \in Ids : Answered(c, i))
           \/ (\E i \in Ids, t \in Truths : OutcomeAsked(c, i, t))
  BY <1>5, <1>6 DEF WriteError, MayWrite, OutcomeExists, ServeAnswer, ConfirmOutcome,
                    Answered, OutcomeAsked
<1>7. CASE ShortWrite(c) \/ SyncError(c)
  BY <1>7 DEF ShortWrite, SyncError, PlainFaults
<1> QED
  BY <1>3, <1>4, <1>6, <1>7 DEF Handler

\* Every step keeps the index and the file together.
LEMMA IndexStep ==
  ASSUME PlainFaults
  PROVE  TypeInv /\ LockInv /\ CleanInv /\ ToldInv /\ IndexInv /\ [Next]_vars => IndexInv'
<1> SUFFICES ASSUME TypeInv, LockInv, CleanInv, ToldInv, IndexInv, [Next]_vars PROVE IndexInv'
  OBVIOUS
<1>1. CASE TruncateAnswers \/ TruncateOutcomes \/ RefuseToOpen \/ Kill \/ PowerLoss
  <2>1. proc' # "up"
    BY <1>1 DEF TruncateAnswers, TruncateOutcomes, Truncate, RefuseToOpen, Kill, PowerLoss, Die
  <2> QED
    BY <2>1 DEF IndexInv
<1>2. CASE LoadIndex
  BY <1>2 DEF LoadIndex, IndexInv, IndexOf, disk, Files
<1>3. ASSUME NEW c \in Callers,
             \/ \E i \in Ids : Answered(c, i)
             \/ \E i \in Ids, t \in Truths : OutcomeAsked(c, i, t)
             \/ Handler(c)
      PROVE  IndexInv'
  BY <1>3, IndexRequest
<1>4. CASE UNCHANGED vars
  BY <1>4 DEF vars, disk, memory, IndexInv, IndexOf, InSync
<1> QED
  BY <1>1, <1>2, <1>3, <1>4 DEF Next

\* In every state the index is the file up to the line being synced.
LEMMA IndexCorrect == ASSUME PlainFaults PROVE Spec => []IndexInv
<1>1. Init => IndexInv
  BY DEF Init, IndexInv
<1>2. TypeInv /\ LockInv /\ CleanInv /\ ToldInv /\ IndexInv /\ [Next]_vars => IndexInv'
  BY IndexStep
<1>3. "short_write" \notin Faults
  BY DEF PlainFaults
<1>4. Spec => []CleanInv
  BY <1>3, CleanCorrect
<1> QED
  BY <1>1, <1>2, <1>4, TypeCorrect, LockCorrect, ToldCorrect, PTL DEF Spec

\* With no failed fsync and no short write, whoever takes the lock finds in
\* memory exactly what a restart would load from the files, after any number of
\* failed writes, crashes and restarts.
THEOREM IndexMatchesFile == ASSUME PlainFaults PROVE Spec => []IndexIsTheFile
<1>1. LockInv /\ IndexInv => IndexIsTheFile
  <2> SUFFICES ASSUME LockInv, IndexInv, proc = "up", mu = None
               PROVE  /\ index = WholeIds(file["answers"])
                      /\ outcomeExists = WholeIds(file["outcomes"])
    BY DEF IndexIsTheFile
  <2>1. \A c \in Callers : op[c].step # "sync"
    BY LedgerAssumption DEF LockInv, SyncHoldsLock
  <2>2. \A f \in Files : IndexOf(f) = WholeIds(file[f])
    BY <2>1 DEF IndexInv, InSync
  <2> QED
    BY <2>2 DEF IndexOf, Files
<1> QED
  BY <1>1, LockCorrect, IndexCorrect, PTL

-----------------------------------------------------------------------------
(* No outcome outlives its answer.  An outcome is taken for a served and   *)
(* indexed answer only.  A served answer is on disk or its line is not in  *)
(* the file at all, never in between, where a power loss could still take  *)
(* it; and being indexed it is in the file.                                *)

AnswerOnDisk(i) == \E k \in 1 .. durable["answers"] : file["answers"][k] = AnswerLine(i)

Decided(i) == AnswerOnDisk(i) \/ i \notin WholeIds(file["answers"])

Drafted(c, i) == op[c].step # "idle" /\ op[c].file = "answers" /\ op[c].id = i

\* An answer id is written by one request, once, before it is served.
DraftsApart ==
  /\ WholeIds(file["answers"]) \subseteq drawn
  /\ served \subseteq drawn
  /\ \A c \in Callers, i \in Ids : Drafted(c, i) =>
       /\ i \in drawn /\ i \notin served
       /\ op[c].step = "write" => i \notin WholeIds(file["answers"])
       /\ \A d \in Callers : Drafted(d, i) => c = d

ServedDecided ==
  /\ \A i \in served : Decided(i)
  /\ \A c \in Callers, i \in Ids : Drafted(c, i) /\ op[c].step = "reply" => Decided(i)

OutcomesAnswered ==
  /\ \A c \in Callers : op[c].step # "idle" /\ op[c].file = "outcomes" => AnswerOnDisk(op[c].id)
  /\ \A i \in WholeIds(file["outcomes"]) : AnswerOnDisk(i)

AnswersInv == DraftsApart /\ ServedDecided /\ OutcomesAnswered

\* No answer leaves the disk.
LEMMA AnswerOnDiskStays ==
  ASSUME TypeInv, [Next]_vars, NEW i, AnswerOnDisk(i)
  PROVE  AnswerOnDisk(i)'
<1>1. PICK k \in 1 .. durable["answers"] : file["answers"][k] = AnswerLine(i)
  BY DEF AnswerOnDisk
<1>2. k \in 1 .. durable'["answers"] /\ file'["answers"][k] = file["answers"][k]
  BY <1>1, DurableStep DEF AnswerLine, Files
<1> QED
  BY <1>1, <1>2 DEF AnswerOnDisk

\* A step that adds no whole line to either file and moves no request adds no
\* id and decides nothing anew.
LEMMA AnswersShrink ==
  ASSUME TypeInv, [Next]_vars, AnswersInv, UNCHANGED <<drawn, served>>,
         \A f \in Files : WholeIds(file'[f]) \subseteq WholeIds(file[f]),
         \A c \in Callers : op'[c].step = "idle"
  PROVE  AnswersInv'
<1>1. \A i : AnswerOnDisk(i) => AnswerOnDisk(i)'
  BY AnswerOnDiskStays
<1>2. \A i : Decided(i) => Decided(i)'
  BY <1>1 DEF Decided, Files
<1> QED
  BY <1>1, <1>2 DEF AnswersInv, DraftsApart, ServedDecided, OutcomesAnswered, Drafted, Files

\* The ids of a file that gained no whole line.
LEMMA NoNewIds ==
  ASSUME NEW new, NEW old, NoNewLine(new, old)
  PROVE  WholeIds(new) \subseteq WholeIds(old)
BY DEF NoNewLine, WholeIds

\* Open and the crashes add no whole line.
LEMMA AnswersRestart ==
  ASSUME TypeInv, LockInv, AnswersInv,
         \/ TruncateAnswers \/ TruncateOutcomes \/ LoadIndex \/ RefuseToOpen
         \/ Kill \/ PowerLoss
  PROVE  AnswersInv'
<1>1. [Next]_vars
  BY DEF Next
<1>2. \A f \in Files : file[f] \in Seq(Line) /\ durable[f] \in Nat
  BY DEF TypeInv, TypeOK
<1>3. UNCHANGED <<drawn, served>>
  BY DEF TruncateAnswers, TruncateOutcomes, Truncate, LoadIndex, RefuseToOpen, Kill, PowerLoss,
         Die, told
<1>4. \A c \in Callers : op'[c].step = "idle"
  BY DEF TruncateAnswers, TruncateOutcomes, Truncate, LoadIndex, RefuseToOpen, Kill, PowerLoss,
         Die, Idle, LockInv, OnlyWhenUp
<1>5. ASSUME NEW f \in Files PROVE NoNewLine(file'[f], file[f])
  <2>1. CASE UNCHANGED file
    BY <2>1, NoNewLineRefl
  <2>2. CASE TruncateAnswers \/ TruncateOutcomes
    <3>1. file'[f] = file[f] \/ file'[f] = Truncated(file[f])
      BY <1>2, <2>2 DEF TruncateAnswers, TruncateOutcomes, Truncate, TypeInv, TypeOK
    <3> QED
      BY <1>2, <3>1, TruncatedLines, NoNewLineRefl
  <2>3. ASSUME NEW c \in Callers,
               file' = [file EXCEPT ![op[c].file] = AppendBytes(@, Torn)]
        PROVE  NoNewLine(file'[f], file[f])
    <3>1. file'[f] = file[f] \/ file'[f] = AppendBytes(file[f], Torn)
      BY <1>2, <2>3 DEF TypeInv, TypeOK
    <3> QED
      BY <1>2, <3>1, TornLines, NoNewLineRefl
  <2>4. CASE PowerLoss
    <3>1. file'[f] \in Remains(f)
      BY <2>4 DEF PowerLoss, Files
    <3> QED
      BY <1>2, <3>1, RemainingLines
  <2> QED
    BY <2>1, <2>2, <2>3, <2>4 DEF LoadIndex, RefuseToOpen, disk, Kill
<1>6. \A f \in Files : WholeIds(file'[f]) \subseteq WholeIds(file[f])
  BY <1>5, NoNewIds
<1> QED
  BY <1>1, <1>3, <1>4, <1>6, AnswersShrink

\* A step of request c that writes no answer line: c drafts nothing new, is
\* about to reply for a decided answer only, has an outcome only of an answer
\* on disk, and serves what it drafted.
LEMMA AnswersFrame ==
  ASSUME TypeInv, [Next]_vars, AnswersInv, NEW c \in Callers,
         \A d \in Callers \ {c} : op'[d] = op[d],
         drawn' = drawn,
         WholeIds(file'["answers"]) = WholeIds(file["answers"]),
         \A i \in served' :
           i \in served \/ (i \in Ids /\ Drafted(c, i) /\ Decided(i) /\ op'[c].step = "idle"),
         \A i \in WholeIds(file'["outcomes"]) :
           i \in WholeIds(file["outcomes"]) \/ AnswerOnDisk(i)',
         \A i \in Ids : Drafted(c, i)' =>
           /\ Drafted(c, i)
           /\ op'[c].step = "write" => op[c].step = "write"
           /\ op'[c].step = "reply" => Decided(i)',
         op'[c].step # "idle" /\ op'[c].file = "outcomes" =>
           \E i : i = op'[c].id /\ AnswerOnDisk(i)'
  PROVE  AnswersInv'
<1>1. \A i : AnswerOnDisk(i) => AnswerOnDisk(i)'
  BY AnswerOnDiskStays
<1>2. \A i : Decided(i) => Decided(i)'
  BY <1>1 DEF Decided
<1>3. \A d \in Callers \ {c} : \A i : Drafted(d, i)' <=> Drafted(d, i)
  BY DEF Drafted
<1>4. DraftsApart'
  <2>1. served' \subseteq drawn'
    BY DEF AnswersInv, DraftsApart
  <2>2. ASSUME NEW d \in Callers, NEW i \in Ids, Drafted(d, i)'
        PROVE  /\ i \in drawn' /\ i \notin served'
               /\ op'[d].step = "write" => i \notin WholeIds(file'["answers"])
               /\ \A e \in Callers : Drafted(e, i)' => d = e
    <3>1. Drafted(d, i) /\ \A e \in Callers : Drafted(e, i)' => Drafted(e, i)
      BY <1>3, <2>2
    <3>2. i \in drawn /\ i \notin served /\ \A e \in Callers : Drafted(e, i) => d = e
      BY <3>1 DEF AnswersInv, DraftsApart
    <3>3. i \notin served'
      <4>1. CASE d = c
        BY <2>2, <3>2, <4>1 DEF Drafted
      <4>2. CASE d # c
        BY <3>2, <4>2
      <4> QED
        BY <4>1, <4>2
    <3>4. op'[d].step = "write" => op[d].step = "write"
      BY <2>2
    <3> QED
      BY <3>1, <3>2, <3>3, <3>4 DEF AnswersInv, DraftsApart
  <2> QED
    BY <2>1, <2>2 DEF AnswersInv, DraftsApart
<1>5. ServedDecided'
  <2>1. \A i \in served' : Decided(i)'
    BY <1>2 DEF AnswersInv, ServedDecided
  <2>2. ASSUME NEW d \in Callers, NEW i \in Ids, Drafted(d, i)', op'[d].step = "reply"
        PROVE  Decided(i)'
    <3>1. CASE d = c
      BY <2>2, <3>1
    <3>2. CASE d # c
      BY <1>2, <1>3, <2>2, <3>2 DEF AnswersInv, ServedDecided
    <3> QED
      BY <3>1, <3>2
  <2> QED
    BY <2>1, <2>2 DEF ServedDecided
<1>6. OutcomesAnswered'
  <2>1. \A i \in WholeIds(file'["outcomes"]) : AnswerOnDisk(i)'
    BY <1>1 DEF AnswersInv, OutcomesAnswered
  <2>2. ASSUME NEW d \in Callers, op'[d].step # "idle", op'[d].file = "outcomes"
        PROVE  \E i : i = op'[d].id /\ AnswerOnDisk(i)'
    <3>1. CASE d = c
      BY <2>2, <3>1
    <3>2. CASE d # c
      <4>1. op'[d] = op[d]
        BY <3>2
      <4>2. AnswerOnDisk(op[d].id)
        BY <2>2, <4>1 DEF AnswersInv, OutcomesAnswered
      <4> QED
        BY <1>1, <4>1, <4>2
    <3> QED
      BY <3>1, <3>2
  <2> QED
    BY <2>1, <2>2 DEF OutcomesAnswered, AnswerOnDisk
<1> QED
  BY <1>4, <1>5, <1>6 DEF AnswersInv

\* The steps of one request.
LEMMA AnswersRequest ==
  ASSUME PlainFaults, TypeInv, LockInv, CleanInv, ToldInv, IndexInv, AnswersInv,
         NEW c \in Callers,
         \/ \E i \in Ids : Answered(c, i)
         \/ \E i \in Ids, t \in Truths : OutcomeAsked(c, i, t)
         \/ Handler(c)
  PROVE  AnswersInv'
<1> USE DEF disk, memory, told
<1>1. [Next]_vars
  BY DEF Next
<1>2. op \in [Callers -> Op] /\ op[c] \in Op /\ (op[c].step # "idle" => op[c].id \in Ids)
  BY DEF TypeInv, TypeOK, OpsWellFormed
<1>3. \A d \in Callers \ {c} : op'[d] = op[d]
  BY <1>2 DEF Answered, OutcomeAsked, Handler, WriteLine, WriteError, ShortWrite,
              SyncLine, Returned, SyncError, Failed, OutcomeExists, ServeAnswer, ConfirmOutcome
<1>4. \A i : AnswerOnDisk(i) => AnswerOnDisk(i)'
  BY <1>1, AnswerOnDiskStays
<1>5. ASSUME NEW i \in Ids, Answered(c, i) PROVE AnswersInv'
  <2>1. /\ op'[c].step = "write" /\ op'[c].file = "answers" /\ op'[c].id = i
        /\ i \notin drawn /\ drawn' = drawn \cup {i} /\ UNCHANGED <<file, durable, served>>
    BY <1>2, <1>5 DEF Answered, Idle
  <2>2. \A d \in Callers : \A j : Drafted(d, j)' <=> IF d = c THEN j = i ELSE Drafted(d, j)
    BY <1>3, <2>1 DEF Drafted
  <2>3. DraftsApart'
    <3>1. WholeIds(file'["answers"]) \subseteq drawn /\ served \subseteq drawn
      BY <2>1 DEF AnswersInv, DraftsApart
    <3>2. ASSUME NEW d \in Callers, NEW j \in Ids, Drafted(d, j)'
          PROVE  /\ j \in drawn' /\ j \notin served'
                 /\ op'[d].step = "write" => j \notin WholeIds(file'["answers"])
                 /\ \A e \in Callers : Drafted(e, j)' => d = e
      <4>1. CASE d = c
        <5>1. j = i /\ \A e \in Callers : Drafted(e, i) => i \in drawn
          BY <2>2, <3>2, <4>1 DEF AnswersInv, DraftsApart
        <5> QED
          BY <2>1, <2>2, <3>1, <4>1, <5>1
      <4>2. CASE d # c
        <5>1. Drafted(d, j) /\ op'[d] = op[d] /\ j \in drawn /\ j # i
          BY <1>3, <2>1, <2>2, <3>2, <4>2 DEF AnswersInv, DraftsApart
        <5> QED
          BY <2>1, <2>2, <5>1 DEF AnswersInv, DraftsApart
      <4> QED
        BY <4>1, <4>2
    <3> QED
      BY <2>1, <3>1, <3>2 DEF DraftsApart
  <2>4. \A j : (AnswerOnDisk(j)' <=> AnswerOnDisk(j)) /\ (Decided(j)' <=> Decided(j))
    BY <2>1 DEF AnswerOnDisk, Decided
  <2>5. ServedDecided'
    <3>1. \A j \in served' : Decided(j)'
      BY <2>1, <2>4 DEF AnswersInv, ServedDecided
    <3>2. ASSUME NEW d \in Callers, NEW j \in Ids, Drafted(d, j)', op'[d].step = "reply"
          PROVE  Decided(j)'
      <4>1. Drafted(d, j) /\ op[d].step = "reply"
        BY <1>3, <2>1, <2>2, <3>2
      <4> QED
        BY <2>4, <4>1 DEF AnswersInv, ServedDecided
    <3> QED
      BY <3>1, <3>2 DEF ServedDecided
  <2>6. OutcomesAnswered'
    <3>1. \A j \in WholeIds(file'["outcomes"]) : AnswerOnDisk(j)'
      BY <2>1, <2>4 DEF AnswersInv, OutcomesAnswered
    <3>2. ASSUME NEW d \in Callers, op'[d].step # "idle", op'[d].file = "outcomes"
          PROVE  \E j : j = op'[d].id /\ AnswerOnDisk(j)'
      <4>1. op'[d] = op[d]
        BY <1>3, <2>1, <3>2
      <4>2. \E j : j = op[d].id /\ AnswerOnDisk(j)
        BY <3>2, <4>1 DEF AnswersInv, OutcomesAnswered
      <4> QED
        BY <2>4, <4>1, <4>2
    <3> QED
      BY <3>1, <3>2 DEF OutcomesAnswered, AnswerOnDisk
  <2> QED
    BY <2>3, <2>5, <2>6 DEF AnswersInv
<1>6. ASSUME NEW i \in Ids, NEW t \in Truths, OutcomeAsked(c, i, t) PROVE AnswersInv'
  <2>1. /\ op'[c].step = "write" /\ op'[c].file = "outcomes" /\ op'[c].id = i
        /\ proc = "up" /\ mu = None /\ i \in index /\ i \in served
        /\ UNCHANGED <<file, durable, served, drawn>>
    BY <1>2, <1>6 DEF OutcomeAsked, Idle
  <2>2. i \in WholeIds(file["answers"])
    BY <2>1 DEF IndexInv, IndexOf, Files
  <2>3. AnswerOnDisk(i)
    BY <2>1, <2>2 DEF AnswersInv, ServedDecided, Decided
  <2> QED
    BY <1>1, <1>3, <1>4, <2>1, <2>3, AnswersFrame DEF Drafted
<1>7. CASE WriteLine(c) /\ op[c].file = "outcomes"
  <2>1. op'[c] = [op[c] EXCEPT !.step = "sync"] /\ UNCHANGED <<served, drawn>>
        /\ op[c].step = "write"
    BY <1>2, <1>7 DEF WriteLine, MayWrite
  <2>2. op'[c].step = "sync" /\ op'[c].file = "outcomes" /\ op'[c].id = op[c].id
    BY <1>2, <1>7, <2>1 DEF Op
  <2>3. /\ WholeIds(file'["outcomes"]) = WholeIds(file["outcomes"]) \cup {op[c].id}
        /\ file'["answers"] = file["answers"]
    BY <1>7, WholeIdsWrite DEF Files
  <2>4. \E i : i = op[c].id /\ AnswerOnDisk(i)
    BY <1>7, <2>1 DEF AnswersInv, OutcomesAnswered
  <2> QED
    BY <1>1, <1>3, <1>4, <2>1, <2>2, <2>3, <2>4, AnswersFrame DEF Drafted
<1>8. CASE WriteLine(c) /\ op[c].file = "answers"
  <2>1. op'[c] = [op[c] EXCEPT !.step = "sync"] /\ UNCHANGED <<served, drawn>>
        /\ op[c].step = "write" /\ op[c].id \in Ids
    BY <1>2, <1>8 DEF WriteLine, MayWrite
  <2>2. op'[c].step = "sync" /\ op'[c].file = "answers" /\ op'[c].id = op[c].id
    BY <1>2, <1>8, <2>1 DEF Op
  <2>3. /\ WholeIds(file'["answers"]) = WholeIds(file["answers"]) \cup {op[c].id}
        /\ file'["outcomes"] = file["outcomes"]
    BY <1>8, WholeIdsWrite DEF Files
  <2>4. \A d \in Callers : \A i : Drafted(d, i)' <=> Drafted(d, i)
    <3>1. \A i : Drafted(c, i)' <=> Drafted(c, i)
      BY <1>8, <2>1, <2>2 DEF Drafted
    <3>2. ASSUME NEW d \in Callers, d # c PROVE \A i : Drafted(d, i)' <=> Drafted(d, i)
      <4>1. op'[d] = op[d]
        BY <1>3, <3>2
      <4> QED
        BY <4>1 DEF Drafted
    <3> QED
      BY <3>1, <3>2
  <2>5. Drafted(c, op[c].id)
    BY <1>8, <2>1 DEF Drafted
  <2>6. /\ op[c].id \in drawn /\ op[c].id \notin served
        /\ \A d \in Callers : Drafted(d, op[c].id) => c = d
    BY <2>1, <2>5 DEF AnswersInv, DraftsApart
  <2>7. \A i : Decided(i) /\ i # op[c].id => Decided(i)'
    BY <1>4, <2>3 DEF Decided
  <2>8. DraftsApart'
    <3>1. \A d \in Callers : op'[d].step = "write" => d # c /\ op[d].step = "write"
      BY <1>3, <2>2
    <3> QED
      BY <2>1, <2>3, <2>4, <2>6, <3>1 DEF AnswersInv, DraftsApart
  <2>9. ServedDecided'
    <3>1. \A d \in Callers : op'[d].step = "reply" => d # c /\ op[d].step = "reply"
      BY <1>3, <2>2
    <3> QED
      BY <2>1, <2>4, <2>6, <2>7, <3>1 DEF AnswersInv, ServedDecided
  <2>10. OutcomesAnswered'
    <3>1. \A i \in WholeIds(file'["outcomes"]) : AnswerOnDisk(i)'
      BY <1>4, <2>3 DEF AnswersInv, OutcomesAnswered
    <3>2. ASSUME NEW d \in Callers, op'[d].step # "idle", op'[d].file = "outcomes"
          PROVE  \E i : i = op'[d].id /\ AnswerOnDisk(i)'
      <4>1. op'[d] = op[d]
        BY <1>3, <2>2, <3>2
      <4>2. \E i : i = op[d].id /\ AnswerOnDisk(i)
        BY <3>2, <4>1 DEF AnswersInv, OutcomesAnswered
      <4> QED
        BY <1>4, <4>1, <4>2
    <3> QED
      BY <3>1, <3>2 DEF OutcomesAnswered, AnswerOnDisk
  <2> QED
    BY <2>8, <2>9, <2>10 DEF AnswersInv
<1>9. CASE WriteError(c)
  <2>1. Failed(c) /\ op[c].step = "write" /\ UNCHANGED <<file, durable, served, drawn>>
    BY <1>9 DEF WriteError, MayWrite
  <2>2. \/ op'[c].step = "reply" /\ op'[c].file = "answers" /\ op'[c].id = op[c].id
           /\ op[c].file = "answers"
        \/ op'[c].step = "idle"
    BY <1>2, <2>1 DEF Failed, Idle, Op
  <2>3. \A i \in Ids : Drafted(c, i)' => Drafted(c, i) /\ op'[c].step = "reply"
    BY <2>1, <2>2 DEF Drafted
  <2>4. \A i \in Ids : Drafted(c, i) => Decided(i)'
    BY <2>1 DEF AnswersInv, DraftsApart, Decided
  <2> QED
    BY <1>1, <1>3, <2>1, <2>2, <2>3, <2>4, AnswersFrame
<1>10. CASE SyncLine(c)
  <2>1. /\ op' = [op EXCEPT ![c] = [[op[c] EXCEPT !.step = "reply"] EXCEPT !.ok = TRUE]]
        /\ op[c].step = "sync" /\ UNCHANGED <<file, served, drawn>>
        /\ durable' = [durable EXCEPT ![op[c].file] = Len(file[op[c].file])]
    BY <1>10 DEF SyncLine, Returned
  <2>2. op'[c].step = "reply" /\ op'[c].file = op[c].file /\ op'[c].id = op[c].id
    BY <1>2, <2>1 DEF Op
  <2>3. ASSUME op[c].file = "answers", NEW i, i = op[c].id PROVE AnswerOnDisk(i)'
    <3>1. PICK k \in DOMAIN file["answers"] :
            file["answers"][k] = LineOf(c) \/ file["answers"][k].kind = "malformed"
      BY <2>1, <2>3 DEF ToldInv, OpTold, Written
    <3>2. file["answers"][k] = AnswerLine(i)
      BY <2>3, <3>1 DEF CleanInv, WholeButTail, LineOf, Files
    <3>3. k \in 1 .. durable'["answers"] /\ file'["answers"] = file["answers"]
      BY <2>1, <2>3, <3>1, LenProperties DEF TypeInv, TypeOK, Files
    <3> QED
      BY <3>2, <3>3 DEF AnswerOnDisk
  <2>4. op[c].file = "outcomes" => \E i : i = op[c].id /\ AnswerOnDisk(i)
    BY <2>1 DEF AnswersInv, OutcomesAnswered
  <2>5. \A i \in Ids : Drafted(c, i)' => Drafted(c, i) /\ Decided(i)'
    BY <2>1, <2>2, <2>3 DEF Drafted, Decided
  <2> QED
    BY <1>1, <1>3, <1>4, <2>1, <2>2, <2>4, <2>5, AnswersFrame
<1>11. CASE OutcomeExists(c) \/ ConfirmOutcome(c)
  <2>1. op'[c].step = "idle" /\ UNCHANGED <<file, durable, served, drawn>>
    BY <1>2, <1>11 DEF OutcomeExists, ConfirmOutcome, Idle
  <2> QED
    BY <1>1, <1>3, <2>1, AnswersFrame DEF Drafted
<1>12. CASE ServeAnswer(c)
  <2>1. /\ op'[c].step = "idle" /\ UNCHANGED <<file, durable, drawn>>
        /\ served' = served \cup {op[c].id}
        /\ op[c].step = "reply" /\ op[c].file = "answers" /\ op[c].id \in Ids
    BY <1>2, <1>12 DEF ServeAnswer, Idle
  <2>2. Drafted(c, op[c].id) /\ Decided(op[c].id)
    BY <2>1 DEF Drafted, AnswersInv, ServedDecided
  <2> QED
    BY <1>1, <1>3, <2>1, <2>2, AnswersFrame DEF Drafted
<1>13. CASE ShortWrite(c) \/ SyncError(c)
  BY <1>13 DEF ShortWrite, SyncError, PlainFaults
<1> QED
  BY <1>2, <1>5, <1>6, <1>7, <1>8, <1>9, <1>10, <1>11, <1>12, <1>13 DEF Handler, Op, Files

\* Every step keeps an outcome's answer on disk.
LEMMA AnswersStep ==
  ASSUME PlainFaults
  PROVE  TypeInv /\ LockInv /\ CleanInv /\ ToldInv /\ IndexInv /\ AnswersInv /\ [Next]_vars
           => AnswersInv'
<1> SUFFICES ASSUME TypeInv, LockInv, CleanInv, ToldInv, IndexInv, AnswersInv, [Next]_vars
             PROVE  AnswersInv'
  OBVIOUS
<1>1. CASE \/ TruncateAnswers \/ TruncateOutcomes \/ LoadIndex \/ RefuseToOpen
           \/ Kill \/ PowerLoss
  BY <1>1, AnswersRestart
<1>2. ASSUME NEW c \in Callers,
             \/ \E i \in Ids : Answered(c, i)
             \/ \E i \in Ids, t \in Truths : OutcomeAsked(c, i, t)
             \/ Handler(c)
      PROVE  AnswersInv'
  BY <1>2, AnswersRequest
<1>3. CASE UNCHANGED vars
  BY <1>3 DEF vars, disk, told, AnswersInv, DraftsApart, ServedDecided, OutcomesAnswered,
              Drafted, Decided, AnswerOnDisk
<1> QED
  BY <1>1, <1>2, <1>3 DEF Next

\* In every state the answer of every outcome is on disk.
LEMMA AnswersCorrect == ASSUME PlainFaults PROVE Spec => []AnswersInv
<1>1. Init => AnswersInv
  BY EmptySeq DEF Init, AnswersInv, DraftsApart, ServedDecided, OutcomesAnswered, Drafted,
                  WholeIds, Idle, Files
<1>2. TypeInv /\ LockInv /\ CleanInv /\ ToldInv /\ IndexInv /\ AnswersInv /\ [Next]_vars
        => AnswersInv'
  BY AnswersStep
<1>3. "short_write" \notin Faults
  BY DEF PlainFaults
<1>4. Spec => []CleanInv
  BY <1>3, CleanCorrect
<1> QED
  BY <1>1, <1>2, <1>4, TypeCorrect, LockCorrect, ToldCorrect, IndexCorrect, PTL DEF Spec

\* An outcome is never on disk without its answer, though the two are in
\* different files, each with an fsync of its own, and either may lose its tail
\* to a power loss.
THEOREM OutcomesHaveAnswers == ASSUME PlainFaults PROVE Spec => []OutcomeHasAnswer
<1>1. ASSUME TypeInv, AnswersInv PROVE OutcomeHasAnswer
  <2> SUFFICES ASSUME NEW i \in WholeIds(file["outcomes"])
               PROVE  i \in WholeIds(file["answers"])
    BY DEF OutcomeHasAnswer
  <2>1. PICK k \in 1 .. durable["answers"] : file["answers"][k] = AnswerLine(i)
    BY <1>1 DEF AnswersInv, OutcomesAnswered, AnswerOnDisk
  <2>2. k \in DOMAIN file["answers"]
    <3>1. /\ durable["answers"] \in Nat /\ Len(file["answers"]) \in Nat
          /\ durable["answers"] <= Len(file["answers"])
          /\ DOMAIN file["answers"] = 1 .. Len(file["answers"])
      BY <1>1, LenProperties DEF TypeInv, TypeOK, Files
    <3> QED
      BY <3>1
  <2> QED
    BY <2>1, <2>2 DEF WholeIds, AnswerLine
<1> QED
  BY <1>1, TypeCorrect, AnswersCorrect, PTL

-----------------------------------------------------------------------------
(* The ledger implements the outcome book.                                 *)

\* The truth of answer i among lines: TruthFor, of any sequence of lines.
TruthAmong(lines, i) ==
  LET at == {k \in DOMAIN lines : lines[k].kind = "whole" /\ lines[k].id = i}
  IN IF at = {} THEN None ELSE lines[CHOOSE k \in at : TRUE].truth

\* With one line per answer, TruthAmong is the truth on that line.
LEMMA TruthOnLine ==
  ASSUME NEW lines, NEW k \in DOMAIN lines, lines[k].kind = "whole",
         \A j \in DOMAIN lines :
           lines[j].kind = "whole" /\ lines[j].id = lines[k].id => j = k
  PROVE  TruthAmong(lines, lines[k].id) = lines[k].truth
<1> DEFINE at == {j \in DOMAIN lines : lines[j].kind = "whole" /\ lines[j].id = lines[k].id}
<1>1. at = {k}
  OBVIOUS
<1>2. (CHOOSE j \in at : TRUE) = k
  BY <1>1
<1> QED
  BY <1>1, <1>2 DEF TruthAmong

\* A truth among lines is on one of them.
LEMMA TruthHasLine ==
  ASSUME NEW lines, NEW i, TruthAmong(lines, i) # None
  PROVE  \E k \in DOMAIN lines :
           lines[k].kind = "whole" /\ lines[k].id = i /\ lines[k].truth = TruthAmong(lines, i)
<1> DEFINE at == {j \in DOMAIN lines : lines[j].kind = "whole" /\ lines[j].id = i}
<1>1. at # {} /\ TruthAmong(lines, i) = lines[CHOOSE k \in at : TRUE].truth
  BY DEF TruthAmong
<1>2. (CHOOSE k \in at : TRUE) \in at
  BY <1>1
<1> HIDE DEF at
<1>3. PICK k \in at : TruthAmong(lines, i) = lines[k].truth
  BY <1>1, <1>2
<1> QED
  BY <1>3 DEF at

\* The durable lines of a file, and the files' lines they are.
LEMMA SettledLines ==
  ASSUME NEW lines \in Seq(Line), NEW n \in Nat, n <= Len(lines)
  PROVE  /\ DOMAIN SubSeq(lines, 1, n) = 1 .. n
         /\ SubSeq(lines, 1, n) \in Seq(Line)
         /\ \A k \in 1 .. n : SubSeq(lines, 1, n)[k] = lines[k] /\ k \in DOMAIN lines
<1>1. n \in 0 .. Len(lines) /\ DOMAIN lines = 1 .. Len(lines) /\ Len(lines) \in Nat
  BY LenProperties
<1>2. /\ SubSeq(lines, 1, n) \in Seq(Line) /\ Len(SubSeq(lines, 1, n)) = n
      /\ \A k \in 1 .. n : SubSeq(lines, 1, n)[k] = lines[k]
  BY <1>1, PrefixLines
<1>3. DOMAIN SubSeq(lines, 1, n) = 1 .. n
  BY <1>2, LenProperties
<1> QED
  BY <1>1, <1>2, <1>3

\* What the book's truths are: each is on a durable line, and the truth on a
\* durable line is the book's.
TruthsAreLines ==
  \A i \in Ids :
    /\ TruthFor(i) \in Truths \cup {None}
    /\ TruthFor(i) # None =>
         \E k \in 1 .. durable["outcomes"] :
           /\ file["outcomes"][k].kind = "whole" /\ file["outcomes"][k].id = i
           /\ file["outcomes"][k].truth = TruthFor(i)
    /\ \A k \in 1 .. durable["outcomes"] :
         file["outcomes"][k].kind = "whole" /\ file["outcomes"][k].id = i
           => TruthFor(i) = file["outcomes"][k].truth

\* With one whole line per id, the book's truths are the durable lines.
LEMMA TruthForLines == TypeInv /\ OutcomeCountedOnce => TruthsAreLines
<1> SUFFICES ASSUME TypeInv, OutcomeCountedOnce, NEW i \in Ids
             PROVE  /\ TruthFor(i) \in Truths \cup {None}
                    /\ TruthFor(i) # None =>
                         \E k \in 1 .. durable["outcomes"] :
                           /\ file["outcomes"][k].kind = "whole"
                           /\ file["outcomes"][k].id = i
                           /\ file["outcomes"][k].truth = TruthFor(i)
                    /\ \A k \in 1 .. durable["outcomes"] :
                         file["outcomes"][k].kind = "whole" /\ file["outcomes"][k].id = i
                           => TruthFor(i) = file["outcomes"][k].truth
  BY DEF TruthsAreLines
<1> DEFINE lines == Settled("outcomes")
<1>1. /\ DOMAIN lines = 1 .. durable["outcomes"] /\ lines \in Seq(Line)
      /\ \A k \in 1 .. durable["outcomes"] :
           lines[k] = file["outcomes"][k] /\ k \in DOMAIN file["outcomes"]
  BY SettledLines DEF TypeInv, TypeOK, Files, Settled
<1>2. TruthFor(i) = TruthAmong(lines, i)
  BY DEF TruthFor, TruthAmong
<1>3. \A k \in DOMAIN lines : lines[k].truth \in Truths \cup {None}
  <2>1. \A k \in DOMAIN lines : lines[k] \in Line
    BY <1>1, ElementOfSeq, LenProperties
  <2> QED
    BY <2>1 DEF Line
<1> HIDE DEF lines
<1>4. TruthFor(i) # None =>
        \E k \in DOMAIN lines : /\ lines[k].kind = "whole" /\ lines[k].id = i
                                /\ lines[k].truth = TruthFor(i)
  BY <1>2, TruthHasLine
<1>5. ASSUME NEW k \in DOMAIN lines, lines[k].kind = "whole", lines[k].id = i
      PROVE  TruthFor(i) = lines[k].truth
  <2>1. \A j \in DOMAIN lines : lines[j].kind = "whole" /\ lines[j].id = lines[k].id => j = k
    BY <1>1, <1>5 DEF OutcomeCountedOnce
  <2> QED
    BY <1>2, <1>5, <2>1, TruthOnLine
<1> QED
  BY <1>1, <1>3, <1>4, <1>5

\* The book starts empty.
LEMMA BookStart == Init => Book!BookInit
<1> SUFFICES ASSUME Init PROVE Book!BookInit
  OBVIOUS
<1>1. \A f \in Files : Settled(f) = <<>>
  BY DEF Init, Settled
<1>2. WholeIds(<<>>) = {}
  BY DEF WholeIds
<1>3. \A i : TruthFor(i) = None
  BY <1>1 DEF TruthFor, Files
<1> QED
  BY <1>1, <1>2, <1>3 DEF Init, Book!BookInit, Files

\* The same of the state after a step.
LEMMA TruthForLinesNext == TypeInv' /\ OutcomeCountedOnce' => TruthsAreLines'
BY TruthForLines, PTL

\* The book's answers are answer ids, those on disk among them.
AnswersAreRecorded ==
  /\ WholeIds(Settled("answers")) \subseteq Ids
  /\ \A i : AnswerOnDisk(i) => i \in WholeIds(Settled("answers"))

\* An answer on disk is in the book, which holds answer ids only.
LEMMA RecordedAnswers == TypeInv => AnswersAreRecorded
<1> SUFFICES ASSUME TypeInv PROVE AnswersAreRecorded
  OBVIOUS
<1>1. /\ DOMAIN Settled("answers") = 1 .. durable["answers"]
      /\ \A k \in 1 .. durable["answers"] :
           Settled("answers")[k] = file["answers"][k] /\ k \in DOMAIN file["answers"]
  BY SettledLines DEF TypeInv, TypeOK, Files, Settled
<1>2. WholeIds(Settled("answers")) \subseteq Ids
  BY <1>1 DEF WholeIds, TypeInv, LinesWellFormed, Files
<1>3. ASSUME NEW i, AnswerOnDisk(i) PROVE i \in WholeIds(Settled("answers"))
  <2> DEFINE lines == Settled("answers")
  <2>1. PICK k \in 1 .. durable["answers"] : file["answers"][k] = AnswerLine(i)
    BY <1>3 DEF AnswerOnDisk
  <2>2. k \in DOMAIN lines /\ lines[k] = AnswerLine(i)
    BY <1>1, <2>1
  <2> HIDE DEF lines
  <2>3. lines[k].kind = "whole" /\ lines[k].id = i
    BY <2>2 DEF AnswerLine
  <2>4. i \in WholeIds(lines)
    BY <2>2, <2>3 DEF WholeIds
  <2> QED
    BY <2>4 DEF lines
<1> QED
  BY <1>2, <1>3 DEF AnswersAreRecorded

\* The same of the state after a step.
LEMMA RecordedAnswersNext == TypeInv' => AnswersAreRecorded'
BY RecordedAnswers, PTL

\* The durable lines of a step's first state are durable in the second: the book
\* loses no answer and changes no truth.
LEMMA BookGrows ==
  ASSUME TypeInv, OnceInv, [Next]_vars, TypeInv', OnceInv', AnswersInv'
  PROVE  /\ WholeIds(Settled("answers")) \subseteq WholeIds(Settled("answers"))'
         /\ \A i \in Ids :
              /\ TruthFor(i) # None => TruthFor(i)' = TruthFor(i)
              /\ TruthFor(i)' # None => i \in WholeIds(Settled("answers"))'
<1>1. ASSUME NEW i \in WholeIds(Settled("answers")) PROVE i \in WholeIds(Settled("answers"))'
  <2> DEFINE old == Settled("answers")
             new == SubSeq(file'["answers"], 1, durable'["answers"])
  <2>1. /\ DOMAIN old = 1 .. durable["answers"]
        /\ \A k \in 1 .. durable["answers"] : old[k] = file["answers"][k]
    BY SettledLines DEF TypeInv, TypeOK, Files, Settled
  <2>2. /\ DOMAIN new = 1 .. durable'["answers"]
        /\ \A k \in 1 .. durable'["answers"] : new[k] = file'["answers"][k]
    BY SettledLines DEF TypeInv, TypeOK, Files
  <2> HIDE DEF old
  <2>3. PICK k \in DOMAIN old : old[k].kind = "whole" /\ old[k].id = i
    BY DEF WholeIds, old
  <2>4. k \in 1 .. durable'["answers"] /\ file'["answers"][k] = file["answers"][k]
    BY <2>1, <2>3, DurableStep DEF Files
  <2> HIDE DEF new
  <2>5. k \in DOMAIN new /\ new[k].kind = "whole" /\ new[k].id = i
    BY <2>1, <2>2, <2>3, <2>4
  <2>6. i \in WholeIds(new)
    BY <2>5 DEF WholeIds
  <2> QED
    BY <2>6 DEF new, Settled
<1>2. TruthsAreLines /\ TruthsAreLines'
  BY TruthForLines, TruthForLinesNext DEF OnceInv
<1>3. ASSUME NEW i \in Ids, TruthFor(i) # None PROVE TruthFor(i)' = TruthFor(i)
  <2>1. PICK k \in 1 .. durable["outcomes"] :
          /\ file["outcomes"][k].kind = "whole" /\ file["outcomes"][k].id = i
          /\ file["outcomes"][k].truth = TruthFor(i)
    BY <1>2, <1>3 DEF TruthsAreLines
  <2>2. k \in 1 .. durable'["outcomes"] /\ file'["outcomes"][k] = file["outcomes"][k]
    BY <2>1, DurableStep DEF Files
  <2> QED
    BY <1>2, <2>1, <2>2 DEF TruthsAreLines
<1>4. ASSUME NEW i \in Ids, TruthFor(i)' # None PROVE i \in WholeIds(Settled("answers"))'
  <2>1. PICK k \in 1 .. durable'["outcomes"] :
          file'["outcomes"][k].kind = "whole" /\ file'["outcomes"][k].id = i
    BY <1>2, <1>4 DEF TruthsAreLines
  <2>2. k \in DOMAIN file'["outcomes"]
    BY SettledLines DEF TypeInv, TypeOK, Files
  <2>3. i \in WholeIds(file'["outcomes"])
    BY <2>1, <2>2 DEF WholeIds
  <2> QED
    BY <2>3, RecordedAnswersNext DEF AnswersInv, OutcomesAnswered, AnswersAreRecorded
<1> QED
  BY <1>1, <1>3, <1>4

\* Every step of the ledger is one of the book: a reply tells a client of an
\* entry that is there, and every other step settles entries, or none.
LEMMA BookStep ==
  ASSUME TypeInv, CleanInv, ToldInv, OnceInv, AnswersInv, [Next]_vars,
         TypeInv', OnceInv', AnswersInv'
  PROVE  [Book!BookNext]_Book!bookVars
<1> DEFINE R == WholeIds(Settled("answers"))
           T == [i \in Ids |-> TruthFor(i)]
<1>1. ASSUME UNCHANGED <<kept, confirmed>> PROVE Book!Settle
  <2>1. \E more \in SUBSET Ids : R' = R \cup more
    <3>1. R \subseteq R' /\ R' \subseteq Ids
      BY BookGrows, RecordedAnswersNext DEF AnswersAreRecorded
    <3>2. R' = R \cup R' /\ R' \in SUBSET Ids
      BY <3>1
    <3> HIDE DEF R
    <3> QED
      BY <3>2
  <2>2. /\ T' \in [Ids -> Truths \cup {None}]
        /\ \A i \in Ids : T[i] # None => T'[i] = T[i]
        /\ \A i \in Ids : T'[i] # None => i \in R'
    <3>1. \A i \in Ids : TruthFor(i)' \in Truths \cup {None}
      BY TruthForLinesNext DEF OnceInv, TruthsAreLines
    <3> HIDE DEF R
    <3> QED
      BY <3>1, BookGrows DEF R
  <2>3. \E t \in [Ids -> Truths \cup {None}] :
          /\ \A i \in Ids : T[i] # None => t[i] = T[i]
          /\ \A i \in Ids : t[i] # None => i \in R'
          /\ T' = t
    <3> HIDE DEF R, T
    <3> QED
      BY <2>2
  <2> QED
    BY <1>1, <2>1, <2>3 DEF Book!Settle
<1>2. ASSUME UNCHANGED <<file, durable>> PROVE R' = R /\ T' = T
  BY <1>2 DEF Settled, TruthFor
<1>3. ASSUME NEW c \in Callers, ServeAnswer(c)
      PROVE  (\E i \in Ids : Book!Keep(i)) \/ UNCHANGED <<R, T, kept, confirmed>>
  <2>1. /\ UNCHANGED <<file, durable, confirmed>> /\ op[c] \in Op /\ op[c].id \in Ids
        /\ op[c].step = "reply" /\ op[c].file = "answers"
    BY <1>3 DEF ServeAnswer, disk, TypeInv, TypeOK, OpsWellFormed
  <2>2. CASE op[c].ok = TRUE
    <3>1. PICK k \in 1 .. durable["answers"] :
            file["answers"][k] = AnswerLine(op[c].id) \/ file["answers"][k].kind = "malformed"
      BY <2>1, <2>2 DEF ToldInv, OpTold, OnDisk, LineOf
    <3>2. k \in DOMAIN file["answers"]
      BY SettledLines DEF TypeInv, TypeOK, Files
    <3>3. AnswerOnDisk(op[c].id)
      BY <3>1, <3>2 DEF CleanInv, WholeButTail, AnswerOnDisk, Files
    <3>4. op[c].id \in R /\ kept' = kept \cup {op[c].id}
      BY <1>3, <2>2, <3>3, RecordedAnswers DEF AnswersAreRecorded, ServeAnswer
    <3>5. Book!Keep(op[c].id)
      BY <1>2, <2>1, <3>4 DEF Book!Keep
    <3> QED
      BY <2>1, <3>5
  <2>3. CASE op[c].ok = FALSE
    BY <1>2, <1>3, <2>1, <2>3 DEF ServeAnswer
  <2> QED
    BY <2>1, <2>2, <2>3 DEF Op
<1>4. ASSUME NEW c \in Callers, ConfirmOutcome(c)
      PROVE  \E i \in Ids : Book!Confirm(i)
  <2>1. /\ UNCHANGED <<file, durable, kept>> /\ op[c] \in Op /\ op[c].id \in Ids
        /\ op[c].step = "reply" /\ op[c].file = "outcomes" /\ op[c].truth \in Truths
        /\ confirmed' = confirmed \cup {<<op[c].id, op[c].truth>>}
    BY <1>4 DEF ConfirmOutcome, disk, TypeInv, TypeOK, OpsWellFormed
  <2>2. PICK k \in 1 .. durable["outcomes"] :
          \/ file["outcomes"][k] = OutcomeLine(op[c].id, op[c].truth)
          \/ file["outcomes"][k].kind = "malformed"
    BY <2>1 DEF ToldInv, OpTold, OnDisk, LineOf
  <2>3. k \in DOMAIN file["outcomes"]
    BY SettledLines DEF TypeInv, TypeOK, Files
  <2>4. file["outcomes"][k] = OutcomeLine(op[c].id, op[c].truth)
    BY <2>2, <2>3 DEF CleanInv, WholeButTail, Files
  <2>5. TruthFor(op[c].id) = op[c].truth
    BY <2>1, <2>4, TruthForLines DEF OnceInv, TruthsAreLines, OutcomeLine
  <2>6. T[op[c].id] = op[c].truth /\ op[c].truth # None
    BY <2>1, <2>5, LedgerAssumption
  <2>7. Book!Confirm(op[c].id)
    BY <1>2, <2>1, <2>6 DEF Book!Confirm
  <2> QED
    BY <2>1, <2>7
<1>5. \/ UNCHANGED <<kept, confirmed>>
      \/ \E c \in Callers : ServeAnswer(c) \/ ConfirmOutcome(c)
  BY DEF Next, TruncateAnswers, TruncateOutcomes, Truncate, LoadIndex, RefuseToOpen, Answered,
         OutcomeAsked, Handler, WriteLine, WriteError, ShortWrite, SyncLine, Returned, SyncError,
         OutcomeExists, Kill, PowerLoss, Die, told, vars
<1> QED
  BY <1>1, <1>3, <1>4, <1>5 DEF Book!BookNext, Book!bookVars

\* With no failed fsync and no short write, every behaviour of the two files, the
\* index, the lock and the crashes is one of a book whose entries are made before
\* anyone is told of them and are never lost or replaced.
THEOREM LedgerImplementsBook == ASSUME PlainFaults PROVE Spec => ImplementsBook
<1>1. Spec => []CleanInv
  <2>1. "short_write" \notin Faults
    BY DEF PlainFaults
  <2> QED
    BY <2>1, CleanCorrect
<1>2. Spec => []OnceInv
  <2>1. "sync_error" \notin Faults
    BY DEF PlainFaults
  <2> QED
    BY <2>1, OnceCorrect
<1>3. TypeInv /\ CleanInv /\ ToldInv /\ OnceInv /\ AnswersInv /\ [Next]_vars
        /\ TypeInv' /\ OnceInv' /\ AnswersInv' => [Book!BookNext]_Book!bookVars
  BY BookStep
<1> QED
  BY <1>1, <1>2, <1>3, BookStart, TypeCorrect, ToldCorrect, AnswersCorrect, PTL
     DEF Spec, ImplementsBook, Book!BookSpec
=============================================================================
