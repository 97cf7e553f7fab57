------------------------------- MODULE Ledger -------------------------------
(***************************************************************************)
(* internal/ledger: the two append-only NDJSON files an answer and its     *)
(* later outcome are kept in, the in-memory index built from them at Open, *)
(* and the two callers that write them (Service.ask through PutAnswer,     *)
(* Service.Outcome through GetAnswer and PutOutcome).                      *)
(*                                                                         *)
(* A file is the sequence of its lines.  A line is whole (well formed and  *)
(* newline-terminated), torn (a fragment with no newline, always last) or  *)
(* malformed (newline-terminated, not one JSON value).  durable[f] counts  *)
(* the lines of f known to have reached the disk: a killed process leaves  *)
(* every byte it wrote, a power loss only the durable lines and whatever   *)
(* prefix of the rest happened to be written back.                         *)
(***************************************************************************)
EXTENDS Naturals, Sequences

CONSTANTS Ids,         \* the answer ids newAnswerID can draw
          Truths,      \* the truths a caller may report
          Callers,     \* request handlers running at the same time
          Faults,      \* which I/O errors the file system may return
          Crashes,     \* which crashes may happen
          MaxCrashes,  \* bound on the number of crashes
          MaxLines,    \* bound on outcomes.ndjson: a failed fsync lets a client
                       \* append the same outcome again and again
          None         \* absence of an id, a truth, a lock holder

ASSUME LedgerAssumption ==
  /\ None \notin Ids \cup Truths \cup Callers
  /\ Faults \subseteq {"write_error", "short_write", "sync_error"}
  /\ Crashes \subseteq {"kill", "power"}
  /\ MaxCrashes \in Nat /\ MaxLines \in Nat

VARIABLES
  file,           \* file[f]: the lines of f as the operating system shows them
  durable,        \* durable[f]: how many of them survive a power loss
  proc,           \* where the process is: down, opening, up, or refused to open
  index,          \* Ledger.index: answer ids
  outcomeExists,  \* Ledger.outcomeExists
  mu,             \* holder of Ledger.mu
  op,             \* op[c]: the request handler c is serving
  drawn,          \* answer ids drawn so far (they never repeat)
  served,         \* answer ids a client was given
  kept,           \* of those, the ones PutAnswer returned nil for
  confirmed,      \* <<id, truth>> pairs a client was told 200 for
  ledgerFailures, \* Service.ledgerFailures
  crashes         \* crashes so far, bounded by MaxCrashes

disk   == <<file, durable>>
memory == <<index, outcomeExists, ledgerFailures>>
told   == <<served, kept, confirmed>>
vars   == <<disk, proc, memory, mu, op, drawn, told, crashes>>

Files == {"answers", "outcomes"}

Line == [kind : {"whole", "torn", "malformed"},
         id : Ids \cup {None}, truth : Truths \cup {None}]

AnswerLine(i)     == [kind |-> "whole", id |-> i, truth |-> None]
OutcomeLine(i, t) == [kind |-> "whole", id |-> i, truth |-> t]
Torn              == [kind |-> "torn", id |-> None, truth |-> None]
Malformed         == [kind |-> "malformed", id |-> None, truth |-> None]

Idle == [step |-> "idle", file |-> "answers", id |-> None, truth |-> None,
         ok |-> FALSE]

Op == [step : {"idle", "write", "sync", "reply"}, file : Files,
       id : Ids \cup {None}, truth : Truths \cup {None}, ok : BOOLEAN]

EndsTorn(lines) == lines # <<>> /\ lines[Len(lines)].kind = "torn"

\* The ids of the whole lines: what parseAnswerLines and
\* parseOutcomeAnswerIDs collect.
WholeIds(lines) ==
  {lines[k].id : k \in {j \in DOMAIN lines : lines[j].kind = "whole"}}

\* O_APPEND after a fragment: the new bytes run on from it, and the result is
\* one line, which is not JSON.
AppendBytes(lines, line) ==
  IF EndsTorn(lines)
  THEN [lines EXCEPT ![Len(lines)] =
          IF line.kind = "torn" THEN Torn ELSE Malformed]
  ELSE Append(lines, line)

-----------------------------------------------------------------------------
Init ==
  /\ file = [f \in Files |-> <<>>]
  /\ durable = [f \in Files |-> 0]
  /\ proc = "down"
  /\ index = {} /\ outcomeExists = {} /\ ledgerFailures = 0
  /\ mu = None
  /\ op = [c \in Callers |-> Idle]
  /\ drawn = {}
  /\ served = {} /\ kept = {} /\ confirmed = {}
  /\ crashes = 0

(* Open: truncate each file's torn tail, then parse both. *)

\* Mutant: the cut is made one newline too early.
Truncated_oneMore(lines) ==
  IF EndsTorn(lines) THEN SubSeq(lines, 1, Len(lines) - 2) ELSE lines

\* Mutant: the fragment is left in place.
Truncated_never(lines) == lines

Truncated(lines) ==
  IF EndsTorn(lines) THEN SubSeq(lines, 1, Len(lines) - 1) ELSE lines

Truncate(f, from, to) ==
  /\ proc \in from
  /\ proc' = to
  /\ file' = [file EXCEPT ![f] = Truncated(@)]
  /\ durable' = [durable EXCEPT ![f] = IF @ <= Len(file'[f]) THEN @ ELSE Len(file'[f])]
  /\ UNCHANGED <<memory, mu, op, drawn, told, crashes>>

TruncateAnswers  == Truncate("answers", {"down", "refused"}, "opening")
TruncateOutcomes == Truncate("outcomes", {"opening"}, "parsing")

Malforms(lines) == \E k \in DOMAIN lines : lines[k].kind # "whole"

\* Mutant: Open forgets the outcomes already recorded.
LoadIndex_noOutcomes ==
  /\ proc = "parsing"
  /\ ~ \E f \in Files : Malforms(file[f])
  /\ proc' = "up"
  /\ index' = WholeIds(file["answers"])
  /\ outcomeExists' = {}
  /\ UNCHANGED <<disk, ledgerFailures, mu, op, drawn, told, crashes>>

LoadIndex ==
  /\ proc = "parsing"
  /\ ~ \E f \in Files : Malforms(file[f])
  /\ proc' = "up"
  /\ index' = WholeIds(file["answers"])
  /\ outcomeExists' = WholeIds(file["outcomes"])
  /\ UNCHANGED <<disk, ledgerFailures, mu, op, drawn, told, crashes>>

RefuseToOpen ==
  /\ proc = "parsing"
  /\ \E f \in Files : Malforms(file[f])
  /\ proc' = "refused"
  /\ UNCHANGED <<disk, memory, mu, op, drawn, told, crashes>>

-----------------------------------------------------------------------------
(* Ask: the backend answered; the answer gets an id and goes to PutAnswer. *)
Answered(c, i) ==
  /\ proc = "up" /\ op[c].step = "idle"
  /\ i \notin drawn
  /\ drawn' = drawn \cup {i}
  /\ op' = [op EXCEPT ![c] = [Idle EXCEPT !.step = "write", !.id = i]]
  /\ UNCHANGED <<disk, proc, memory, mu, told, crashes>>

(* Outcome: GetAnswer under the lock, validateTruth, then PutOutcome.  An  *)
(* id that is not indexed is refused (unknown_answer) and changes nothing. *)
(* An id is random and told with its answer: no outcome comes for another, *)
(* not even if Open indexes one from the line of an ask a kill cut short.  *)
OutcomeAsked(c, i, t) ==
  /\ proc = "up" /\ op[c].step = "idle"
  /\ i \in served
  /\ mu = None
  /\ i \in index
  /\ i \in outcomeExists \/ Len(file["outcomes"]) < MaxLines
  /\ op' = [op EXCEPT ![c] = [Idle EXCEPT !.step = "write", !.file = "outcomes",
                                          !.id = i, !.truth = t]]
  /\ UNCHANGED <<disk, proc, memory, mu, drawn, told, crashes>>

LineOf(c) == IF op[c].file = "answers" THEN AnswerLine(op[c].id)
             ELSE OutcomeLine(op[c].id, op[c].truth)

\* Mutant: PutOutcome writes without looking at outcomeExists.
MayWrite_unchecked(c) == op[c].step = "write" /\ mu = None

\* c is past the lock and, for an outcome, past the outcomeExists check.
MayWrite(c) ==
  /\ op[c].step = "write" /\ mu = None
  /\ op[c].file = "outcomes" => op[c].id \notin outcomeExists

\* What the caller sees of a Put that returned an error: a failed PutAnswer
\* is counted and the answer served all the same; a failed PutOutcome is the
\* 500 that ends the request.
Failed(c) ==
  /\ op' = [op EXCEPT ![c] = IF @.file = "answers" THEN [@ EXCEPT !.step = "reply"]
                             ELSE Idle]
  /\ ledgerFailures' = ledgerFailures + (IF op[c].file = "answers" THEN 1 ELSE 0)

WriteLine(c) ==
  /\ MayWrite(c)
  /\ mu' = c
  /\ file' = [file EXCEPT ![op[c].file] = AppendBytes(@, LineOf(c))]
  /\ op' = [op EXCEPT ![c].step = "sync"]
  /\ UNCHANGED <<durable, proc, memory, drawn, told, crashes>>

\* Mutant: the error return does not unlock.
WriteError_locked(c) ==
  /\ "write_error" \in Faults
  /\ MayWrite(c)
  /\ Failed(c)
  /\ mu' = c
  /\ UNCHANGED <<disk, proc, index, outcomeExists, drawn, told, crashes>>

WriteError(c) ==
  /\ "write_error" \in Faults
  /\ MayWrite(c)
  /\ Failed(c)
  /\ UNCHANGED <<disk, proc, index, outcomeExists, mu, drawn, told, crashes>>

\* The file system took part of the line and then failed (a full disk).
ShortWrite(c) ==
  /\ "short_write" \in Faults
  /\ MayWrite(c)
  /\ file' = [file EXCEPT ![op[c].file] = AppendBytes(@, Torn)]
  /\ Failed(c)
  /\ UNCHANGED <<durable, proc, index, outcomeExists, mu, drawn, told, crashes>>

Returned(c) ==
  /\ mu' = None
  /\ op' = [op EXCEPT ![c].step = "reply", ![c].ok = TRUE]
  /\ UNCHANGED <<file, proc, ledgerFailures, drawn, told, crashes>>

\* Mutants: an outcome is not indexed; it is indexed under the wrong field.
Indexed_answersOnly(c) ==
  /\ index' = IF op[c].file = "answers" THEN index \cup {op[c].id} ELSE index
  /\ UNCHANGED outcomeExists

Indexed_wrongKey(c) ==
  /\ index' = IF op[c].file = "answers" THEN index \cup {op[c].id} ELSE index
  /\ outcomeExists' = outcomeExists \cup {op[c].truth}

Indexed(c) ==
  /\ index' = IF op[c].file = "answers" THEN index \cup {op[c].id} ELSE index
  /\ outcomeExists' = IF op[c].file = "outcomes" THEN outcomeExists \cup {op[c].id}
                      ELSE outcomeExists

\* Mutant: the line is indexed and reported without an fsync.
SyncLine_noFsync(c) ==
  /\ op[c].step = "sync"
  /\ Indexed(c) /\ Returned(c)
  /\ UNCHANGED durable

\* Sync returned: the line is indexed and the lock released.  With it, what was in
\* the file before is durable too, a line whose own fsync failed included.
SyncLine(c) ==
  /\ op[c].step = "sync"
  /\ durable' = [durable EXCEPT ![op[c].file] = Len(file[op[c].file])]
  /\ Indexed(c) /\ Returned(c)

SyncError(c) ==
  /\ "sync_error" \in Faults
  /\ op[c].step = "sync"
  /\ mu' = None
  /\ Failed(c)
  /\ UNCHANGED <<disk, proc, index, outcomeExists, drawn, told, crashes>>

OutcomeExists(c) ==
  /\ op[c].step = "write" /\ op[c].file = "outcomes" /\ mu = None
  /\ op[c].id \in outcomeExists
  /\ op' = [op EXCEPT ![c] = Idle]
  /\ UNCHANGED <<disk, proc, memory, mu, drawn, told, crashes>>

ServeAnswer(c) ==
  /\ op[c].step = "reply" /\ op[c].file = "answers"
  /\ served' = served \cup {op[c].id}
  /\ kept' = IF op[c].ok THEN kept \cup {op[c].id} ELSE kept
  /\ op' = [op EXCEPT ![c] = Idle]
  /\ UNCHANGED <<disk, proc, memory, mu, drawn, confirmed, crashes>>

ConfirmOutcome(c) ==
  /\ op[c].step = "reply" /\ op[c].file = "outcomes"
  /\ confirmed' = confirmed \cup {<<op[c].id, op[c].truth>>}
  /\ op' = [op EXCEPT ![c] = Idle]
  /\ UNCHANGED <<disk, proc, memory, mu, drawn, served, kept, crashes>>

-----------------------------------------------------------------------------
(* Crashes, at any point of Open or of a request. *)
Die ==
  /\ crashes < MaxCrashes
  /\ crashes' = crashes + 1
  /\ proc' = "down"
  /\ index' = {} /\ outcomeExists' = {} /\ ledgerFailures' = 0
  /\ mu' = None
  /\ op' = [c \in Callers |-> Idle]
  /\ UNCHANGED <<drawn, told>>

\* The process is killed: the bytes it wrote stay, a write under way may
\* have left a fragment.
Kill ==
  /\ "kill" \in Crashes
  /\ proc \in {"opening", "parsing", "up"}
  /\ Die
  /\ \/ UNCHANGED file
     \/ \E c \in Callers :
          /\ MayWrite(c)
          /\ file' = [file EXCEPT ![op[c].file] = AppendBytes(@, Torn)]
  /\ UNCHANGED durable

\* What a power loss may leave of a file.
Remains(f) ==
  LET cut == durable[f] .. Len(file[f]) IN
  {SubSeq(file[f], 1, k) : k \in cut}
    \cup {Append(SubSeq(file[f], 1, k), Torn) : k \in cut \ {Len(file[f])}}

PowerLoss ==
  /\ "power" \in Crashes
  /\ Die
  /\ \E a \in Remains("answers"), o \in Remains("outcomes") :
       /\ file' = [f \in Files |-> IF f = "answers" THEN a ELSE o]
       /\ durable' = [f \in Files |-> IF f = "answers" THEN Len(a) ELSE Len(o)]

-----------------------------------------------------------------------------
Handler(c) ==
  \/ WriteLine(c) \/ WriteError(c) \/ ShortWrite(c)
  \/ SyncLine(c) \/ SyncError(c)
  \/ OutcomeExists(c) \/ ServeAnswer(c) \/ ConfirmOutcome(c)

Next ==
  \/ TruncateAnswers \/ TruncateOutcomes \/ LoadIndex \/ RefuseToOpen
  \/ \E c \in Callers :
       \/ \E i \in Ids : Answered(c, i)
       \/ \E i \in Ids, t \in Truths : OutcomeAsked(c, i, t)
       \/ Handler(c)
  \/ Kill \/ PowerLoss

Spec == Init /\ [][Next]_vars

\* A goroutine that can run does run; clients and crashes owe nothing.
FairSpec == Spec /\ \A c \in Callers : WF_vars(Handler(c))

-----------------------------------------------------------------------------
\* The types of the state; durable lines are lines of the file, and what the
\* memory indexes are answer ids.
TypeOK ==
  /\ file \in [Files -> Seq(Line)]
  /\ durable \in [Files -> Nat]
  /\ \A f \in Files : durable[f] <= Len(file[f])
  /\ proc \in {"down", "opening", "parsing", "up", "refused"}
  /\ index \subseteq Ids /\ outcomeExists \subseteq Ids
  /\ ledgerFailures \in Nat
  /\ mu \in Callers \cup {None}
  /\ op \in [Callers -> Op]
  /\ drawn \subseteq Ids /\ served \subseteq Ids /\ kept \subseteq Ids
  /\ confirmed \subseteq Ids \X Truths
  /\ crashes \in 0 .. MaxCrashes

\* "A truth is counted once, even across a restart" (ErrOutcomeExists): no
\* answer id is on two whole lines of outcomes.ndjson, whatever handlers,
\* crashes and restarts interleave.
OutcomeCountedOnce ==
  LET lines == file["outcomes"] IN
  \A j, k \in DOMAIN lines :
    /\ lines[j].kind = "whole" /\ lines[k].kind = "whole"
    /\ lines[j].id = lines[k].id
    => j = k

\* An answer PutAnswer accepted stays on disk: a crash, a restart or a later
\* write neither loses its line nor runs another line into it.
KeptAnswersOnDisk == kept \subseteq WholeIds(file["answers"])

\* A truth the caller was told 200 for is still on disk, as it was given.
ConfirmedTruthOnDisk ==
  \A p \in confirmed :
    \E k \in DOMAIN file["outcomes"] : file["outcomes"][k] = OutcomeLine(p[1], p[2])

\* No outcome outlives its answer: calibration would count it as an orphan.
OutcomeHasAnswer == WholeIds(file["outcomes"]) \subseteq WholeIds(file["answers"])

\* What this program writes, a crash included, never makes its own next Open
\* refuse: a malformed line is real corruption, not a crash artifact.
RestartAccepted == proc # "refused"

\* Between two critical sections the memory of a running process is exactly
\* what a restart would load.
IndexIsTheFile ==
  proc = "up" /\ mu = None =>
    /\ index = WholeIds(file["answers"])
    /\ outcomeExists = WholeIds(file["outcomes"])

\* At most one truth per answer is ever confirmed to a client, under every
\* I/O error and every crash.
ConfirmedOnceEver == \A p, q \in confirmed : p[1] = q[1] => p = q

\* No step, Open's truncation included, touches a line that reached the disk.
DurableLinesStay ==
  [][\A f \in Files : \A k \in 1 .. durable[f] :
       file[f][k].kind = "whole" =>
         k \in DOMAIN file'[f] /\ file'[f][k] = file[f][k]]_vars

\* Every handler that entered a Put leaves it: the lock is never left held.
PutReturns == \A c \in Callers : op[c].step # "idle" ~> op[c].step = "idle"
=============================================================================
