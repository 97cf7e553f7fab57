----------------------------- MODULE Proxy_proofs -----------------------------
(***************************************************************************)
(* Proofs about the reverse proxy, for any handlers, requests, classes and *)
(* bounds.  Each invariant below was checked by TLC on the proxy instance  *)
(* before it was proved.                                                   *)
(***************************************************************************)
EXTENDS Proxy, Sums

-----------------------------------------------------------------------------
(* Types, with what a handler's request may be where it is.                *)

Held == [step : Steps, then : {"idle", "forwarding"}, came : Nat, signals : Nat,
         now : Nat, class : Classes \cup {"none"}, held : Nat]

\* The clock was read before; an ask is under way only for a request with room
\* for its signal; a class is held exactly by who has a line to write.
Fits(q) ==
  /\ q.now <= clock
  /\ q.step = "asking" => q.came = q.signals /\ q.signals < MaxSignals
  /\ q.step = "writing" <=> q.class # "none"
  /\ q.signals # q.came => q.signals = q.came + 1 /\ q.signals <= MaxSignals

HeldInv == h \in [Handlers -> Held] /\ \A a \in Handlers : Fits(h[a])

LogInv ==
  /\ asked \in Nat /\ signalled \in Nat /\ noSignal \in [Classes -> Nat]
  /\ logged \subseteq AskClasses \cup UpstreamClasses
  /\ skip \in [logged : BOOLEAN, last : 0 .. clock, held : Nat]
  /\ lines \in Seq(Line) /\ recovery \in Recovery
  /\ clock \in 0 .. MaxClock /\ received \in 0 .. MaxRequests

TypeInv == HeldInv /\ LogInv

\* The proxy starts well typed.
LEMMA TypeInit == Init => TypeInv
BY ProxyAssumption
DEF Init, TypeInv, HeldInv, LogInv, NoRequest, Held, Fits, Steps, Classes, Recovery

\* One handler's request replaced by one that fits keeps every handler's.
LEMMA HeldKept ==
  ASSUME HeldInv, NEW a \in Handlers, NEW q \in Held, Fits(q),
         h' = [h EXCEPT ![a] = q], clock' = clock
  PROVE  HeldInv'
BY DEF HeldInv, Fits

\* What a request is sent on as, forgetting the line it had to write.
Sent(q, step) == [q EXCEPT !.step = step, !.then = "idle", !.now = 0,
                           !.class = "none", !.held = 0]

\* A handler that goes on, or is done, is well typed.
LEMMA OnwardKept ==
  ASSUME TypeInv, NEW a \in Handlers, NEW step \in {"idle", "forwarding"},
         h' = Onward(a, step), clock' = clock
  PROVE  HeldInv'
<1>1. h[a] \in Held /\ Fits(h[a]) /\ 0 <= clock /\ h \in [Handlers -> Held]
  BY DEF TypeInv, HeldInv, LogInv
<1>2. NoRequest \in Held /\ Fits(NoRequest)
  BY <1>1 DEF NoRequest, Held, Fits, Steps
<1>3. ASSUME step = "forwarding"
      PROVE  Sent(h[a], step) \in Held /\ Fits(Sent(h[a], step))
  BY <1>1, <1>3 DEF Sent, Held, Fits, Steps
<1>4. CASE step = "idle"
  BY <1>2, <1>4, HeldKept DEF Onward, TypeInv
<1>5. CASE step = "forwarding"
  <2>1. h' = [h EXCEPT ![a] = Sent(h[a], step)]
    BY <1>1, <1>5 DEF Onward, Sent
  <2> QED
    BY <1>3, <1>5, <2>1, HeldKept DEF TypeInv
<1> QED
  BY <1>4, <1>5

\* A handler with a line to write, which was not asking or asked, is well typed.
LEMMA ToWriteKept ==
  ASSUME TypeInv, NEW a \in Handlers, NEW class \in Classes, NEW held \in Nat,
         NEW then \in {"idle", "forwarding"},
         h' = ToWrite(a, class, held, then), clock' = clock
  PROVE  HeldInv'
<1> DEFINE q == [h[a] EXCEPT !.step = "writing", !.then = then,
                             !.class = class, !.held = held]
<1>1. h[a] \in Held /\ Fits(h[a]) /\ h \in [Handlers -> Held]
  BY DEF TypeInv, HeldInv
<1>2. class # "none"
  BY ProxyAssumption DEF Classes, UpstreamClasses, Truncated
<1>3. q \in Held /\ Fits(q)
  BY <1>1, <1>2 DEF Held, Fits, Steps
<1>4. h' = [h EXCEPT ![a] = q]
  BY <1>1 DEF ToWrite
<1> HIDE DEF q
<1> QED
  BY <1>3, <1>4, HeldKept DEF TypeInv

\* Counting a class, and logging it if it was not logged yet, keeps the types.
LEMMA NoteKept ==
  ASSUME TypeInv, NEW a \in Handlers, NEW class \in AskClasses \cup UpstreamClasses,
         NEW then \in {"idle", "forwarding"}, Note(a, class, then),
         UNCHANGED <<counts, skip, lines, recovery, clock, received>>
  PROVE  TypeInv'
<1>1. class \in Classes /\ 0 \in Nat
  BY DEF Classes
<1>2. HeldInv'
  BY <1>1, OnwardKept, ToWriteKept DEF Note
<1>3. noSignal' \in [Classes -> Nat]
  BY <1>1 DEF TypeInv, LogInv, Note
<1>4. LogInv'
  BY <1>3 DEF TypeInv, LogInv, Note, counts
<1> QED
  BY <1>2, <1>4 DEF TypeInv

\* A request is received well typed.
LEMMA ReceiveTypes ==
  ASSUME TypeInv, NEW a \in Handlers, NEW r \in Requests, Receive(a, r) PROVE TypeInv'
<1> DEFINE step == CASE Rejected(r)                  -> "idle"
                     [] ~Rejected(r) /\ Skipped(r)   -> "skipping"
                     [] ~Rejected(r) /\ Eligible(r)  -> "asking"
                     [] OTHER                        -> "forwarding"
           now  == IF Skipped(r) THEN clock ELSE 0
           q    == IF step = "idle" THEN NoRequest
                   ELSE [NoRequest EXCEPT !.step = step, !.came = r.signals,
                                          !.signals = r.signals, !.now = now]
<1>1. r \in Request /\ r.signals \in Nat
  BY ProxyAssumption DEF Request
<1>2. clock \in Nat /\ now \in Nat /\ now <= clock
  BY ProxyAssumption DEF TypeInv, LogInv
<1>3. step \in {"idle", "skipping", "asking", "forwarding"}
  OBVIOUS
<1>4. step = "asking" => r.signals < MaxSignals
  BY DEF Eligible
<1>5. h' = [h EXCEPT ![a] = q] /\ asked' = asked + (IF step = "asking" THEN 1 ELSE 0)
  BY DEF Receive
<1> HIDE DEF step, now
<1>6. q \in Held /\ Fits(q)
  <2>1. NoRequest \in Held /\ Fits(NoRequest)
    BY <1>2 DEF NoRequest, Held, Fits, Steps
  <2>2. CASE step = "idle"
    BY <2>1, <2>2
  <2>3. CASE step # "idle"
    <3> DEFINE sent == [step |-> step, then |-> "idle", came |-> r.signals,
                        signals |-> r.signals, now |-> now, class |-> "none", held |-> 0]
    <3>1. sent \in Held /\ Fits(sent)
      BY <1>1, <1>2, <1>3, <1>4, <2>3 DEF Held, Fits, Steps
    <3>2. q = sent
      BY <2>3 DEF NoRequest
    <3> QED
      BY <3>1, <3>2
  <2> QED
    BY <2>2, <2>3
<1> HIDE DEF q
<1>7. clock' = clock /\ UNCHANGED <<signalled, noSignal, log, recovery>>
  BY DEF Receive
<1>8. HeldInv'
  BY <1>5, <1>6, <1>7, HeldKept DEF TypeInv
<1>9. asked' \in Nat
  BY <1>5 DEF TypeInv, LogInv
<1>10. received' \in 0 .. MaxRequests
  BY ProxyAssumption DEF Receive, TypeInv, LogInv
<1>11. LogInv'
  BY <1>7, <1>9, <1>10 DEF TypeInv, LogInv, log
<1> QED
  BY <1>8, <1>11 DEF TypeInv

\* Every step of the proxy keeps the types.
LEMMA TypeStep == TypeInv /\ [Next]_vars => TypeInv'
<1> SUFFICES ASSUME TypeInv, [Next]_vars PROVE TypeInv'
  OBVIOUS
<1> USE DEF TypeInv
<1>1. ASSUME NEW a \in Handlers, SkipTruncated(a) PROVE TypeInv'
  <2>1. h[a] \in Held /\ Fits(h[a]) /\ skip.held \in Nat /\ Truncated \in Classes
    BY DEF HeldInv, LogInv, Classes
  <2>2. h[a].now \in 0 .. clock
    BY <2>1, ProxyAssumption DEF Held, Fits, LogInv
  <2>3. HeldInv'
    BY <1>1, <2>1, OnwardKept, ToWriteKept DEF SkipTruncated
  <2>4. noSignal' \in [Classes -> Nat]
    BY <1>1, <2>1 DEF SkipTruncated, LogInv
  <2>5. skip' \in [logged : BOOLEAN, last : 0 .. clock, held : Nat]
    <3>1. Reported(h[a].now) \in [logged : BOOLEAN, last : 0 .. clock, held : Nat]
      BY <2>2 DEF Reported
    <3>2. skip \in [logged : BOOLEAN, last : 0 .. clock, held : Nat] /\ skip.held + 1 \in Nat
      BY <2>1 DEF LogInv
    <3>3. [skip EXCEPT !.held = @ + 1] \in [logged : BOOLEAN, last : 0 .. clock, held : Nat]
      BY <3>2
    <3> QED
      BY <1>1, <3>1, <3>3 DEF SkipTruncated
  <2> QED
    BY <1>1, <2>3, <2>4, <2>5 DEF SkipTruncated, LogInv, counts
<1>2. ASSUME NEW a \in Handlers, NEW class \in AskClasses, AskFails(a, class) PROVE TypeInv'
  BY <1>2, NoteKept DEF AskFails
<1>3. ASSUME NEW a \in Handlers, AskAnswers(a) PROVE TypeInv'
  <2> DEFINE q == [h[a] EXCEPT !.step = "signed", !.signals = @ + 1]
  <2>1. h[a] \in Held /\ Fits(h[a]) /\ h \in [Handlers -> Held] /\ h[a].step = "asking"
    BY <1>3 DEF HeldInv, AskAnswers
  <2>2. /\ h[a].came = h[a].signals /\ h[a].signals < MaxSignals
        /\ h[a].signals \in Nat /\ h[a].now <= clock /\ h[a].class = "none"
    BY <2>1 DEF Fits, Held
  <2>3. h[a].signals + 1 \in Nat /\ "signed" \in Steps
    BY <2>2 DEF Steps
  <2>4. q \in Held
    BY <2>1, <2>3 DEF Held
  <2>5. /\ q.step = "signed" /\ q.now = h[a].now /\ q.class = h[a].class
        /\ q.came = h[a].came /\ q.signals = h[a].signals + 1
    BY <2>1 DEF Held
  <2>6. h' = [h EXCEPT ![a] = q] /\ clock' = clock
    BY <1>3, <2>1 DEF AskAnswers
  <2> HIDE DEF q
  <2>7. Fits(q)
    BY <2>2, <2>5, ProxyAssumption DEF Fits
  <2>8. HeldInv'
    BY <2>4, <2>6, <2>7, HeldKept
  <2> QED
    BY <1>3, <2>8 DEF AskAnswers, LogInv, log
<1>4. ASSUME NEW a \in Handlers, Recovered(a) PROVE TypeInv'
  <2> DEFINE q == [h[a] EXCEPT !.step = "forwarding"]
  <2>1. h[a] \in Held /\ Fits(h[a]) /\ h \in [Handlers -> Held] /\ h[a].step = "signed"
    BY <1>4 DEF HeldInv, Recovered
  <2>2. q \in Held /\ Fits(q)
    BY <2>1 DEF Held, Fits, Steps
  <2>3. h' = [h EXCEPT ![a] = q] /\ clock' = clock
    BY <1>4, <2>1 DEF Recovered
  <2> HIDE DEF q
  <2>4. HeldInv'
    BY <2>2, <2>3, HeldKept
  <2>5. recovery' \in Recovery
    <3>1. Len(lines) \in Nat /\ noSignal \in [Classes -> Nat]
      BY DEF LogInv
    <3> QED
      BY <1>4, <3>1 DEF Recovered, Recovery
  <2> QED
    BY <1>4, <2>4, <2>5 DEF Recovered, LogInv, counts
<1>5. ASSUME NEW a \in Handlers, WriteLine(a) PROVE TypeInv'
  <2>1. h[a] \in Held /\ Fits(h[a]) /\ h[a].step = "writing"
    BY <1>5 DEF HeldInv, WriteLine
  <2>2. HeldInv'
    BY <1>5, <2>1, OnwardKept DEF WriteLine, Held
  <2>3. [class |-> h[a].class, stamp |-> h[a].now, held |-> h[a].held] \in Line
    BY <2>1, ProxyAssumption DEF Held, Fits, Line, LogInv
  <2>4. lines' \in Seq(Line)
    BY <1>5, <2>3 DEF WriteLine, LogInv
  <2> QED
    BY <1>5, <2>2, <2>4 DEF WriteLine, LogInv, counts
<1>6. ASSUME NEW a \in Handlers, UpstreamAnswers(a) PROVE TypeInv'
  BY <1>6, OnwardKept DEF UpstreamAnswers, LogInv, counts, log
<1>7. ASSUME NEW a \in Handlers, NEW class \in UpstreamClasses, UpstreamFails(a, class)
      PROVE  TypeInv'
  BY <1>7, NoteKept DEF UpstreamFails
<1>8. CASE Tick
  <2>1. clock \in Nat /\ MaxClock \in Nat /\ clock' = clock + 1 /\ clock' \in 0 .. MaxClock
    BY <1>8, ProxyAssumption DEF Tick, LogInv
  <2>2. HeldInv'
    BY <1>8, <2>1 DEF Tick, HeldInv, Fits, Held
  <2>3. skip' \in [logged : BOOLEAN, last : 0 .. clock', held : Nat]
    BY <1>8, <2>1 DEF Tick, LogInv, log
  <2> QED
    BY <1>8, <2>1, <2>2, <2>3 DEF Tick, LogInv, counts, log
<1>9. CASE UNCHANGED vars
  BY <1>9 DEF vars, counts, log, HeldInv, LogInv, Fits
<1> QED
  BY <1>1, <1>2, <1>3, <1>4, <1>5, <1>6, <1>7, <1>8, <1>9, ReceiveTypes DEF Next

\* The inductive invariant of the types holds in every behaviour.
LEMMA Typed == Spec => []TypeInv
BY TypeInit, TypeStep, PTL DEF Spec

\* Counters, logs and requests stay well typed, no stamp is ahead of the clock,
\* and no request is forwarded with more signals than wardryx takes because of
\* the proxy, whatever the handlers' interleaving.
THEOREM ProxyTypes == Spec => []TypeOK
<1>1. TypeInv => TypeOK
  <2> SUFFICES ASSUME TypeInv PROVE TypeOK
    OBVIOUS
  <2>1. ASSUME NEW a \in Handlers PROVE h[a] \in Held /\ Fits(h[a])
    BY DEF TypeInv, HeldInv
  <2> QED
    BY <2>1 DEF TypeInv, LogInv, TypeOK, Held, Fits
<1> QED
  BY <1>1, Typed, PTL

-----------------------------------------------------------------------------
(* How a step moves a handler among those that write a class and those     *)
(* that were answered and have not cleared the log yet.                    *)

\* Every handler but a is left as it was.
Only(a) == \A b \in Handlers \ {a} : h'[b] = h[b]

\* Handler a serves a request with the given step and class.
Is(a, step, class) == h[a].step = step /\ h[a].class = class

\* A handler that goes on has left the steps it is counted by.
LEMMA OnwardMoves ==
  ASSUME TypeInv, NEW a \in Handlers, NEW step \in {"idle", "forwarding"}, h' = Onward(a, step)
  PROVE  Only(a) /\ Is(a, step, "none")'
<1>1. h \in [Handlers -> Held] /\ h[a] \in Held
  BY DEF TypeInv, HeldInv
<1> QED
  BY <1>1 DEF Onward, Only, Is, Held, NoRequest

\* A handler with a line to write has that line's class.
LEMMA ToWriteMoves ==
  ASSUME TypeInv, NEW a \in Handlers, NEW class, NEW held, NEW then,
         h' = ToWrite(a, class, held, then)
  PROVE  Only(a) /\ Is(a, "writing", class)'
<1>1. h \in [Handlers -> Held] /\ h[a] \in Held
  BY DEF TypeInv, HeldInv
<1> QED
  BY <1>1 DEF ToWrite, Only, Is, Held

\* A request received is not counted by its class or as answered.
LEMMA ReceiveMoves ==
  ASSUME TypeInv, NEW a \in Handlers, NEW r \in Requests, Receive(a, r)
  PROVE  /\ Only(a) /\ h[a].step = "idle"
         /\ h'[a].step \in {"idle", "skipping", "asking", "forwarding"}
<1>1. h \in [Handlers -> Held]
  BY DEF TypeInv, HeldInv
<1> QED
  BY <1>1 DEF Receive, Only, NoRequest

\* The writers of a class and the answered handlers are finite sets, and so are
\* the lines of a class.
LEMMA SetsFinite ==
  ASSUME TypeInv, NEW c
  PROVE  /\ IsFiniteSet(Writing(c)) /\ IsFiniteSet(At("signed")) /\ IsFiniteSet(LinesOf(c))
         /\ Cardinality(Writing(c)) \in Nat /\ Cardinality(At("signed")) \in Nat
         /\ Cardinality(LinesOf(c)) \in Nat
<1>1. IsFiniteSet(Writing(c)) /\ IsFiniteSet(At("signed"))
  BY ProxyAssumption, FS_Subset DEF Writing, At
<1>2. Len(lines) \in Nat /\ DOMAIN lines = 1 .. Len(lines)
  BY DEF TypeInv, LogInv
<1>3. IsFiniteSet(1 .. Len(lines))
  BY <1>2, FS_Interval
<1>4. IsFiniteSet(LinesOf(c))
  BY <1>2, <1>3, FS_Subset DEF LinesOf
<1> QED
  BY <1>1, <1>4, FS_CardinalityType

\* A handler that neither writes nor is answered, before or after, changes neither set.
LEMMA SameSets ==
  ASSUME NEW a \in Handlers, Only(a), NEW c,
         h[a].step = "writing" => h[a].class # c, h'[a].step = "writing" => h'[a].class # c
  PROVE  Writing(c)' = Writing(c)
BY DEF Only, Writing, At

\* Nor does one that is answered neither before nor after.
LEMMA SameSigned ==
  ASSUME NEW a \in Handlers, Only(a), h[a].step # "signed", h'[a].step # "signed"
  PROVE  At("signed")' = At("signed")
BY DEF Only, At

\* One that starts to write a class is one writer more.
LEMMA OneWriter ==
  ASSUME TypeInv, NEW a \in Handlers, Only(a), NEW c,
         h[a].step # "writing", Is(a, "writing", c)'
  PROVE  /\ Writing(c)' = Writing(c) \cup {a}
         /\ Cardinality(Writing(c)') = Cardinality(Writing(c)) + 1
<1>1. Writing(c)' = Writing(c) \cup {a} /\ a \notin Writing(c)
  BY DEF Only, Writing, At, Is
<1> QED
  BY <1>1, SetsFinite, FS_AddElement

\* A line written is one line more of its class and one writer less; no other
\* class is touched.
LEMMA LineWritten ==
  ASSUME TypeInv, NEW a \in Handlers, WriteLine(a), NEW c
  PROVE  /\ Only(a) /\ Is(a, "writing", h[a].class) /\ h'[a].step \in {"idle", "forwarding"}
         /\ h[a].class # c => LinesOf(c)' = LinesOf(c) /\ Writing(c)' = Writing(c)
         /\ h[a].class = c =>
              /\ LinesOf(c)' = LinesOf(c) \cup {Len(lines) + 1} /\ Len(lines) + 1 \notin LinesOf(c)
              /\ Writing(c)' = Writing(c) \ {a} /\ a \in Writing(c)
<1> DEFINE line == [class |-> h[a].class, stamp |-> h[a].now, held |-> h[a].held]
<1>1. h[a] \in Held /\ h[a].step = "writing" /\ lines \in Seq(Line)
  BY DEF TypeInv, HeldInv, LogInv, WriteLine
<1>2. h[a].then \in {"idle", "forwarding"}
  BY <1>1 DEF Held
<1>3. Only(a) /\ h'[a].step = h[a].then
  BY <1>2, OnwardMoves DEF WriteLine, Is
<1>4. h[a].now \in 0 .. MaxClock
  BY <1>1, ProxyAssumption DEF TypeInv, HeldInv, LogInv, Fits, Held
<1>5. h[a].class # "none"
  BY <1>1 DEF TypeInv, HeldInv, Fits
<1>6. line \in Line
  BY <1>1, <1>4, <1>5 DEF Held, Line
<1>7. lines' = Append(lines, line)
  BY DEF WriteLine
<1> HIDE DEF line
<1>8. /\ Len(lines') = Len(lines) + 1 /\ lines'[Len(lines) + 1] = line
      /\ \A k \in 1 .. Len(lines) : lines'[k] = lines[k]
      /\ DOMAIN lines = 1 .. Len(lines) /\ DOMAIN lines' = 1 .. Len(lines')
      /\ Len(lines) \in Nat
  BY <1>1, <1>6, <1>7
<1>9. line.class = h[a].class
  BY DEF line
<1>10. DOMAIN lines' = DOMAIN lines \cup {Len(lines) + 1} /\ Len(lines) + 1 \notin DOMAIN lines
  BY <1>8
<1>11. CASE h[a].class # c
  <2>1. LinesOf(c)' = LinesOf(c)
    BY <1>8, <1>9, <1>10, <1>11 DEF LinesOf
  <2>2. Writing(c)' = Writing(c)
    BY <1>2, <1>3, <1>11, SameSets
  <2> QED
    BY <1>1, <1>2, <1>3, <1>11, <2>1, <2>2 DEF Is
<1>12. CASE h[a].class = c
  <2>1. LinesOf(c)' = LinesOf(c) \cup {Len(lines) + 1} /\ Len(lines) + 1 \notin LinesOf(c)
    BY <1>8, <1>9, <1>10, <1>12 DEF LinesOf
  <2>2. Writing(c)' = Writing(c) \ {a} /\ a \in Writing(c)
    BY <1>1, <1>2, <1>3, <1>12 DEF Writing, At, Only
  <2> QED
    BY <1>1, <1>2, <1>3, <1>12, <2>1, <2>2 DEF Is
<1> QED
  BY <1>11, <1>12

-----------------------------------------------------------------------------
(* No class is counted without a line: one it is logged by, or one that is *)
(* about to be written.                                                    *)

Told(c) == LinesOf(c) \cup Writing(c) # {}

ToldInv ==
  /\ \A c \in Classes : noSignal[c] > 0 \/ c \in logged => Told(c)
  /\ skip.logged => Told(Truncated)

\* A step of a handler that has no line to write takes no line and no writer away.
LEMMA ToldMoves ==
  ASSUME TypeInv, NEW a \in Handlers, Only(a), h[a].step # "writing", lines' = lines,
         NEW c, Told(c)
  PROVE  Told(c)'
<1>1. LinesOf(c)' = LinesOf(c)
  BY DEF LinesOf
<1>2. Writing(c) \subseteq Writing(c)'
  BY DEF Only, Writing, At
<1> QED
  BY <1>1, <1>2 DEF Told

\* Whatever a step does, a class with a line keeps one: a writer turns into a line.
LEMMA ToldKept ==
  ASSUME TypeInv, [Next]_vars, NEW c, Told(c) PROVE Told(c)'
<1>1. ASSUME NEW a \in Handlers, NEW r \in Requests, Receive(a, r) PROVE Told(c)'
  BY <1>1, ReceiveMoves, ToldMoves DEF Receive, log
<1>2. ASSUME NEW a \in Handlers, SkipTruncated(a) PROVE Told(c)'
  BY <1>2, OnwardMoves, ToWriteMoves, ToldMoves DEF SkipTruncated
<1>3. ASSUME NEW a \in Handlers, NEW class \in AskClasses, AskFails(a, class) PROVE Told(c)'
  BY <1>3, OnwardMoves, ToWriteMoves, ToldMoves DEF AskFails, Note
<1>4. ASSUME NEW a \in Handlers, AskAnswers(a) \/ Recovered(a) PROVE Told(c)'
  <2>1. h \in [Handlers -> Held]
    BY DEF TypeInv, HeldInv
  <2>2. Only(a) /\ h[a].step # "writing" /\ lines' = lines
    BY <1>4, <2>1 DEF Only, AskAnswers, Recovered, log
  <2> QED
    BY <2>2, ToldMoves
<1>5. ASSUME NEW a \in Handlers, WriteLine(a) PROVE Told(c)'
  <2>1. CASE h[a].class # c
    BY <1>5, <2>1, LineWritten DEF Told
  <2>2. CASE h[a].class = c
    <3>1. Len(lines) + 1 \in LinesOf(c)'
      BY <1>5, <2>2, LineWritten
    <3> QED
      BY <3>1 DEF Told
  <2> QED
    BY <2>1, <2>2
<1>6. ASSUME NEW a \in Handlers, UpstreamAnswers(a) PROVE Told(c)'
  BY <1>6, OnwardMoves, ToldMoves DEF UpstreamAnswers, log
<1>7. ASSUME NEW a \in Handlers, NEW class \in UpstreamClasses, UpstreamFails(a, class)
      PROVE  Told(c)'
  BY <1>7, OnwardMoves, ToWriteMoves, ToldMoves DEF UpstreamFails, Note
<1>8. CASE Tick \/ UNCHANGED vars
  BY <1>8 DEF Tick, vars, log, Told, LinesOf, Writing, At
<1> QED
  BY <1>1, <1>2, <1>3, <1>4, <1>5, <1>6, <1>7, <1>8 DEF Next

\* A class that is noted has a line: it was logged, or its line is to be written.
LEMMA NoteTold ==
  ASSUME TypeInv, ToldInv, [Next]_vars, NEW a \in Handlers,
         NEW class \in AskClasses \cup UpstreamClasses, NEW then \in {"idle", "forwarding"},
         Note(a, class, then), skip' = skip
  PROVE  ToldInv'
<1>1. class \in Classes
  BY DEF Classes
<1>2. Told(class)'
  <2>1. CASE class \in logged
    BY <1>1, <2>1, ToldKept DEF ToldInv
  <2>2. CASE class \notin logged
    <3>1. Is(a, "writing", class)'
      BY <2>2, ToWriteMoves DEF Note
    <3> QED
      BY <3>1 DEF Told, Writing, At, Is
  <2> QED
    BY <2>1, <2>2
<1>3. ASSUME NEW c \in Classes, noSignal'[c] > 0 \/ c \in logged', c # class PROVE Told(c)'
  <2>1. noSignal[c] > 0 \/ c \in logged
    BY <1>3 DEF Note, TypeInv, LogInv
  <2> QED
    BY <2>1, ToldKept DEF ToldInv
<1>4. skip'.logged => Told(Truncated)'
  BY ToldKept DEF ToldInv
<1> QED
  BY <1>2, <1>3, <1>4 DEF ToldInv

\* Steps that count nothing and log nothing leave every class told.
LEMMA QuietTold ==
  ASSUME TypeInv, ToldInv, [Next]_vars, noSignal' = noSignal, logged' \subseteq logged,
         skip' = skip
  PROVE  ToldInv'
BY ToldKept DEF ToldInv

\* Every step keeps the counts told.
LEMMA ToldStep == TypeInv /\ ToldInv /\ [Next]_vars => ToldInv'
<1> SUFFICES ASSUME TypeInv, ToldInv, [Next]_vars PROVE ToldInv'
  OBVIOUS
<1>1. ASSUME NEW a \in Handlers, SkipTruncated(a) PROVE ToldInv'
  <2>1. Told(Truncated)'
    <3>1. CASE Recent(h[a].now)
      BY <3>1, ToldKept DEF ToldInv, Recent
    <3>2. CASE ~Recent(h[a].now)
      <4>1. Is(a, "writing", Truncated)'
        BY <1>1, <3>2, ToWriteMoves DEF SkipTruncated
      <4> QED
        BY <4>1 DEF Told, Writing, At, Is
    <3> QED
      BY <3>1, <3>2
  <2>2. ASSUME NEW c \in Classes, noSignal'[c] > 0 \/ c \in logged', c # Truncated
        PROVE  Told(c)'
    <3>1. noSignal[c] > 0 \/ c \in logged
      BY <1>1, <2>2 DEF SkipTruncated, TypeInv, LogInv
    <3> QED
      BY <3>1, ToldKept DEF ToldInv
  <2> QED
    BY <2>1, <2>2 DEF ToldInv
<1>2. ASSUME NEW a \in Handlers, NEW r \in Requests, Receive(a, r) PROVE ToldInv'
  BY <1>2, QuietTold DEF Receive, log
<1>3. ASSUME NEW a \in Handlers, NEW class \in AskClasses, AskFails(a, class) PROVE ToldInv'
  BY <1>3, NoteTold DEF AskFails
<1>4. ASSUME NEW a \in Handlers, NEW class \in UpstreamClasses, UpstreamFails(a, class)
      PROVE  ToldInv'
  BY <1>4, NoteTold DEF UpstreamFails
<1>5. ASSUME NEW a \in Handlers,
             AskAnswers(a) \/ Recovered(a) \/ WriteLine(a) \/ UpstreamAnswers(a)
      PROVE  ToldInv'
  BY <1>5, QuietTold DEF AskAnswers, Recovered, WriteLine, UpstreamAnswers, log
<1>6. CASE Tick \/ UNCHANGED vars
  BY <1>6, QuietTold DEF Tick, vars, log
<1> QED
  BY <1>1, <1>2, <1>3, <1>4, <1>5, <1>6 DEF Next

-----------------------------------------------------------------------------
(* Nor is one counted, after an answer cleared the log, without a line that *)
(* it has since then.                                                      *)

Ask == AskClasses \cup UpstreamClasses

Since(c) == LinesSince(c) \cup Writing(c) # {}

SinceInv ==
  /\ recovery.lines <= Len(lines)
  /\ \A c \in Ask : noSignal[c] > recovery.counted[c] \/ c \in logged => Since(c)

\* A step other than a recovery takes no line and no writer away.
LEMMA SinceMoves ==
  ASSUME NEW a \in Handlers, Only(a), h[a].step # "writing", UNCHANGED <<lines, recovery>>
  PROVE  \A c : Since(c) => Since(c)'
<1> SUFFICES ASSUME NEW c, Since(c) PROVE Since(c)'
  OBVIOUS
<1>1. LinesSince(c)' = LinesSince(c)
  BY DEF LinesSince, LinesOf
<1>2. Writing(c) \subseteq Writing(c)'
  BY DEF Only, Writing, At
<1> QED
  BY <1>1, <1>2 DEF Since

\* The line a writer turns into comes after all there were.
LEMMA SinceWritten ==
  ASSUME TypeInv, SinceInv, NEW a \in Handlers, WriteLine(a)
  PROVE  SinceInv'
<1>1. /\ recovery' = recovery /\ noSignal' = noSignal /\ logged' = logged
      /\ recovery.lines \in Nat /\ Len(lines) \in Nat
  BY DEF WriteLine, TypeInv, LogInv, Recovery
<1>2. Len(lines') = Len(lines) + 1
  BY DEF WriteLine, TypeInv, LogInv
<1>3. ASSUME NEW c, Since(c) PROVE Since(c)'
  <2>1. CASE h[a].class # c
    <3>1. LinesOf(c)' = LinesOf(c) /\ Writing(c)' = Writing(c)
      BY <2>1, LineWritten
    <3>2. LinesSince(c)' = LinesSince(c)
      BY <1>1, <3>1 DEF LinesSince
    <3> QED
      BY <1>3, <3>1, <3>2 DEF Since
  <2>2. CASE h[a].class = c
    <3>1. Len(lines) + 1 \in LinesOf(c)'
      BY <2>2, LineWritten
    <3>2. Len(lines) + 1 > recovery.lines
      BY <1>1 DEF SinceInv
    <3>3. Len(lines) + 1 \in LinesSince(c)'
      BY <1>1, <3>1, <3>2 DEF LinesSince
    <3> QED
      BY <3>3 DEF Since
  <2> QED
    BY <2>1, <2>2
<1> QED
  BY <1>1, <1>2, <1>3 DEF SinceInv

\* A class that is noted has a line since the log was cleared: it is still logged,
\* or its line is to be written.
LEMMA NoteSince ==
  ASSUME TypeInv, SinceInv, NEW a \in Handlers, NEW class \in Ask,
         NEW then \in {"idle", "forwarding"}, Note(a, class, then), h[a].step # "writing",
         UNCHANGED <<lines, recovery>>
  PROVE  SinceInv'
<1>1. Only(a)
  BY OnwardMoves, ToWriteMoves DEF Note
<1>2. \A c : Since(c) => Since(c)'
  BY <1>1, SinceMoves
<1>3. Since(class)'
  <2>1. CASE class \in logged
    BY <1>2, <2>1 DEF SinceInv
  <2>2. CASE class \notin logged
    <3>1. Is(a, "writing", class)'
      BY <2>2, ToWriteMoves DEF Note
    <3> QED
      BY <3>1 DEF Since, Writing, At, Is
  <2> QED
    BY <2>1, <2>2
<1>4. ASSUME NEW c \in Ask, noSignal'[c] > recovery'.counted[c] \/ c \in logged', c # class
      PROVE  Since(c)'
  <2>1. noSignal'[c] = noSignal[c] /\ (c \in logged' => c \in logged)
    BY <1>4 DEF Note, TypeInv, LogInv, Ask, Classes
  <2> QED
    BY <1>2, <1>4, <2>1 DEF SinceInv
<1> QED
  BY <1>3, <1>4 DEF SinceInv

\* Every step keeps it, and a recovery begins anew.
LEMMA SinceStep == TypeInv /\ SinceInv /\ [Next]_vars => SinceInv'
<1> SUFFICES ASSUME TypeInv, SinceInv, [Next]_vars PROVE SinceInv'
  OBVIOUS
<1>1. ASSUME NEW a \in Handlers, NEW class \in AskClasses, AskFails(a, class) PROVE SinceInv'
  BY <1>1, NoteSince DEF AskFails, Ask
<1>2. ASSUME NEW a \in Handlers, NEW class \in UpstreamClasses, UpstreamFails(a, class)
      PROVE  SinceInv'
  BY <1>2, NoteSince DEF UpstreamFails, Ask
<1>3. ASSUME NEW a \in Handlers, Recovered(a) PROVE SinceInv'
  <2>1. logged' = {} /\ recovery'.lines = Len(lines) /\ recovery'.counted = noSignal
        /\ UNCHANGED <<lines, noSignal>> /\ Len(lines) \in Nat /\ noSignal \in [Classes -> Nat]
    BY <1>3 DEF Recovered, TypeInv, LogInv
  <2>2. \A c \in Ask : noSignal[c] \in Nat
    BY <2>1 DEF Ask, Classes
  <2> QED
    BY <2>1, <2>2 DEF SinceInv
<1>4. ASSUME NEW a \in Handlers, Only(a), h[a].step # "writing",
             UNCHANGED <<lines, recovery, logged>>, \A c \in Ask : noSignal'[c] = noSignal[c]
      PROVE  SinceInv'
  BY <1>4, SinceMoves DEF SinceInv
<1>5. ASSUME NEW a \in Handlers, NEW r \in Requests, Receive(a, r) PROVE SinceInv'
  BY <1>4, <1>5, ReceiveMoves DEF Receive, log
<1>6. ASSUME NEW a \in Handlers, SkipTruncated(a) PROVE SinceInv'
  <2>1. Only(a) /\ h[a].step = "skipping" /\ UNCHANGED <<lines, recovery, logged>>
    BY <1>6, OnwardMoves, ToWriteMoves DEF SkipTruncated
  <2>2. \A c \in Ask : noSignal'[c] = noSignal[c]
    BY <1>6, ProxyAssumption
    DEF SkipTruncated, TypeInv, LogInv, Ask, Classes, UpstreamClasses, Truncated
  <2> QED
    BY <1>4, <2>1, <2>2
<1>7. ASSUME NEW a \in Handlers, AskAnswers(a) \/ UpstreamAnswers(a) PROVE SinceInv'
  <2>1. h \in [Handlers -> Held]
    BY DEF TypeInv, HeldInv
  <2>2. Only(a)
    BY <1>7, <2>1, OnwardMoves DEF Only, AskAnswers, UpstreamAnswers
  <2> QED
    BY <1>4, <1>7, <2>2 DEF AskAnswers, UpstreamAnswers, log
<1>8. CASE Tick \/ UNCHANGED vars
  <2>1. UNCHANGED <<h, lines, recovery, logged, noSignal>>
    BY <1>8 DEF Tick, vars, log
  <2>2. \A c : Since(c)' = Since(c)
    BY <2>1 DEF Since, LinesSince, LinesOf, Writing, At
  <2> QED
    BY <2>1, <2>2 DEF SinceInv
<1> QED
  BY <1>1, <1>2, <1>3, <1>5, <1>6, <1>7, <1>8, SinceWritten DEF Next

-----------------------------------------------------------------------------
(* How many lines a class can have.  Between an answer and the clearing of *)
(* the log that follows it (another lock), other handlers note classes:    *)
(* each answer allows one line more, whether its clearing is done or due.  *)

\* A class that is not logged may be logged once more.
Unlogged(c) == IF c \in logged THEN 0 ELSE 1

\* The lines of class c written, being written, and still allowed.
Allowed(c) ==
  Cardinality(LinesOf(c)) + Cardinality(Writing(c)) + Cardinality(At("signed")) + Unlogged(c)

OnceInv == \A c \in Ask : Allowed(c) <= 1 + signalled

\* What is counted for a class is a number.
LEMMA AllowedType ==
  ASSUME TypeInv, NEW c
  PROVE  /\ Cardinality(LinesOf(c)) \in Nat /\ Cardinality(Writing(c)) \in Nat
         /\ Cardinality(At("signed")) \in Nat /\ Unlogged(c) \in 0 .. 1 /\ signalled \in Nat
BY SetsFinite DEF Unlogged, TypeInv, LogInv

\* A step that leaves what is counted as it was.
LEMMA SameAllowed ==
  ASSUME lines' = lines, logged' = logged, signalled' = signalled, At("signed")' = At("signed"),
         NEW c, Writing(c)' = Writing(c)
  PROVE  Allowed(c)' = Allowed(c) /\ signalled' = signalled
<1>1. LinesOf(c)' = LinesOf(c) /\ Unlogged(c)' = Unlogged(c)
  BY DEF LinesOf, Unlogged
<1> QED
  BY <1>1 DEF Allowed

\* A handler that goes on from a step nothing is counted by changes no count.
LEMMA QuietAllowed ==
  ASSUME NEW a \in Handlers, Only(a), h[a].step \notin {"writing", "signed"},
         h'[a].step # "signed", lines' = lines, logged' = logged, signalled' = signalled,
         NEW c, h'[a].step = "writing" => h'[a].class # c
  PROVE  Allowed(c)' = Allowed(c) /\ signalled' = signalled
BY SameSets, SameSigned, SameAllowed

\* A class noted for the first time is a writer more and a line less allowed;
\* one noted again, and any other class, changes nothing.
LEMMA NoteOnce ==
  ASSUME TypeInv, OnceInv, NEW a \in Handlers, NEW class \in Ask,
         NEW then \in {"idle", "forwarding"}, Note(a, class, then),
         h[a].step \notin {"writing", "signed"}, lines' = lines, signalled' = signalled
  PROVE  OnceInv'
<1> SUFFICES ASSUME NEW c \in Ask PROVE (Allowed(c) <= 1 + signalled)'
  BY DEF OnceInv
<1>1. Allowed(c) <= 1 + signalled
  BY DEF OnceInv
<1>2. CASE class \in logged
  <2>1. Only(a) /\ Is(a, then, "none")' /\ logged' = logged
    BY <1>2, OnwardMoves DEF Note
  <2> QED
    BY <1>1, <2>1, QuietAllowed DEF Is
<1>3. CASE class \notin logged
  <2>1. Only(a) /\ Is(a, "writing", class)' /\ logged' = logged \cup {class}
    BY <1>3, ToWriteMoves DEF Note
  <2>2. LinesOf(c)' = LinesOf(c) /\ At("signed")' = At("signed")
    BY <2>1, SameSigned DEF LinesOf, Is
  <2>3. CASE c # class
    <3>1. Writing(c)' = Writing(c) /\ Unlogged(c)' = Unlogged(c)
      BY <2>1, <2>3, SameSets DEF Is, Unlogged
    <3> QED
      BY <1>1, <2>2, <3>1 DEF Allowed
  <2>4. CASE c = class
    <3>1. Cardinality(Writing(c)') = Cardinality(Writing(c)) + 1
      BY <2>1, <2>4, OneWriter
    <3>2. Unlogged(c)' = 0 /\ Unlogged(c) = 1
      BY <1>3, <2>1, <2>4 DEF Unlogged
    <3> QED
      BY <1>1, <2>2, <3>1, <3>2, AllowedType DEF Allowed
  <2> QED
    BY <2>3, <2>4
<1> QED
  BY <1>2, <1>3

\* An answer allows every class one line more.
LEMMA AnswerOnce ==
  ASSUME TypeInv, OnceInv, NEW a \in Handlers, AskAnswers(a) PROVE OnceInv'
<1> SUFFICES ASSUME NEW c \in Ask PROVE (Allowed(c) <= 1 + signalled)'
  BY DEF OnceInv
<1>1. Allowed(c) <= 1 + signalled
  BY DEF OnceInv
<1>2. h \in [Handlers -> Held] /\ h[a] \in Held
  BY DEF TypeInv, HeldInv
<1>3. /\ Only(a) /\ h[a].step = "asking" /\ h'[a].step = "signed"
      /\ signalled' = signalled + 1 /\ UNCHANGED <<lines, logged>>
  BY <1>2 DEF AskAnswers, Only, log, Held
<1>4. At("signed")' = At("signed") \cup {a} /\ a \notin At("signed")
  BY <1>3 DEF At, Only
<1>5. Cardinality(At("signed")') = Cardinality(At("signed")) + 1
  BY <1>4, SetsFinite, FS_AddElement
<1>6. Writing(c)' = Writing(c) /\ LinesOf(c)' = LinesOf(c) /\ Unlogged(c)' = Unlogged(c)
  BY <1>3, SameSets DEF LinesOf, Unlogged
<1> QED
  BY <1>1, <1>3, <1>5, <1>6, AllowedType DEF Allowed

\* Clearing the log uses up the line an answer allowed.
LEMMA RecoveredOnce ==
  ASSUME TypeInv, OnceInv, NEW a \in Handlers, Recovered(a) PROVE OnceInv'
<1> SUFFICES ASSUME NEW c \in Ask PROVE (Allowed(c) <= 1 + signalled)'
  BY DEF OnceInv
<1>1. Allowed(c) <= 1 + signalled
  BY DEF OnceInv
<1>2. h \in [Handlers -> Held] /\ h[a] \in Held
  BY DEF TypeInv, HeldInv
<1>3. /\ Only(a) /\ h[a].step = "signed" /\ h'[a].step = "forwarding"
      /\ logged' = {} /\ UNCHANGED <<lines, signalled>>
  BY <1>2 DEF Recovered, Only, counts, Held
<1>4. At("signed")' = At("signed") \ {a} /\ a \in At("signed")
  BY <1>3 DEF At, Only
<1>5. Cardinality(At("signed")') = Cardinality(At("signed")) - 1
  BY <1>4, SetsFinite, FS_RemoveElement
<1>6. Writing(c)' = Writing(c) /\ LinesOf(c)' = LinesOf(c) /\ Unlogged(c)' = 1
  BY <1>3, SameSets DEF LinesOf, Unlogged
<1> QED
  BY <1>1, <1>3, <1>5, <1>6, AllowedType DEF Allowed

\* A line written is one writer less.
LEMMA WriteOnce ==
  ASSUME TypeInv, OnceInv, NEW a \in Handlers, WriteLine(a) PROVE OnceInv'
<1> SUFFICES ASSUME NEW c \in Ask PROVE (Allowed(c) <= 1 + signalled)'
  BY DEF OnceInv
<1>1. Allowed(c) <= 1 + signalled
  BY DEF OnceInv
<1>2. UNCHANGED <<logged, signalled>>
  BY DEF WriteLine, counts
<1>3. At("signed")' = At("signed") /\ Unlogged(c)' = Unlogged(c)
  BY <1>2, LineWritten, SameSigned DEF Is, Unlogged
<1>4. CASE h[a].class # c
  BY <1>1, <1>2, <1>3, <1>4, LineWritten DEF Allowed
<1>5. CASE h[a].class = c
  <2>1. /\ LinesOf(c)' = LinesOf(c) \cup {Len(lines) + 1} /\ Len(lines) + 1 \notin LinesOf(c)
        /\ Writing(c)' = Writing(c) \ {a} /\ a \in Writing(c)
    BY <1>5, LineWritten
  <2>2. Cardinality(LinesOf(c)') = Cardinality(LinesOf(c)) + 1
    BY <2>1, SetsFinite, FS_AddElement
  <2>3. Cardinality(Writing(c)') = Cardinality(Writing(c)) - 1
    BY <2>1, SetsFinite, FS_RemoveElement
  <2> QED
    BY <1>1, <1>2, <1>3, <2>2, <2>3, AllowedType DEF Allowed
<1> QED
  BY <1>4, <1>5

\* No step takes a class past the lines its answers allow.
LEMMA OnceStep == TypeInv /\ OnceInv /\ [Next]_vars => OnceInv'
<1> SUFFICES ASSUME TypeInv, OnceInv, [Next]_vars PROVE OnceInv'
  OBVIOUS
<1> DEFINE Same == \A c \in Ask : Allowed(c)' = Allowed(c) /\ signalled' = signalled
<1>1. ASSUME Same PROVE OnceInv'
  BY <1>1 DEF OnceInv
<1> HIDE DEF Same
<1>2. ASSUME NEW a \in Handlers, NEW r \in Requests, Receive(a, r) PROVE OnceInv'
  <2>1. UNCHANGED <<lines, logged, signalled>>
    BY <1>2 DEF Receive, log
  <2> QED
    BY <1>1, <1>2, <2>1, ReceiveMoves, QuietAllowed DEF Same
<1>3. ASSUME NEW a \in Handlers, SkipTruncated(a) PROVE OnceInv'
  <2>1. /\ h[a].step = "skipping" /\ UNCHANGED <<lines, logged, signalled>>
        /\ Only(a) /\ (Is(a, "forwarding", "none")' \/ Is(a, "writing", Truncated)')
    BY <1>3, OnwardMoves, ToWriteMoves DEF SkipTruncated, counts
  <2>2. Truncated \notin Ask
    BY ProxyAssumption DEF Ask, UpstreamClasses, Truncated
  <2> QED
    BY <1>1, <2>1, <2>2, QuietAllowed DEF Same, Is
<1>4. ASSUME NEW a \in Handlers, NEW class \in AskClasses, AskFails(a, class) PROVE OnceInv'
  BY <1>4, NoteOnce DEF AskFails, Ask, counts
<1>5. ASSUME NEW a \in Handlers, NEW class \in UpstreamClasses, UpstreamFails(a, class)
      PROVE  OnceInv'
  BY <1>5, NoteOnce DEF UpstreamFails, Ask, counts
<1>6. ASSUME NEW a \in Handlers, UpstreamAnswers(a) PROVE OnceInv'
  <2>1. /\ h[a].step = "forwarding" /\ UNCHANGED <<lines, logged, signalled>>
        /\ Only(a) /\ Is(a, "idle", "none")'
    BY <1>6, OnwardMoves DEF UpstreamAnswers, counts, log
  <2> QED
    BY <1>1, <2>1, QuietAllowed DEF Same, Is
<1>7. CASE Tick \/ UNCHANGED vars
  <2>1. UNCHANGED <<h, lines, logged, signalled>>
    BY <1>7 DEF Tick, vars, counts, log
  <2>2. ASSUME NEW c PROVE Writing(c)' = Writing(c) /\ At("signed")' = At("signed")
    BY <2>1 DEF Writing, At
  <2> QED
    BY <1>1, <2>1, <2>2, SameAllowed DEF Same
<1> QED
  BY <1>2, <1>3, <1>4, <1>5, <1>6, <1>7, AnswerOnce, RecoveredOnce, WriteOnce DEF Next

\* Nothing is counted, logged or written before the first request.
LEMMA LinesInit == Init => ToldInv /\ SinceInv /\ OnceInv
<1> SUFFICES ASSUME Init PROVE ToldInv /\ SinceInv /\ OnceInv
  OBVIOUS
<1>1. ToldInv
  BY DEF Init, ToldInv
<1>2. ASSUME NEW c PROVE LinesOf(c) = {} /\ Writing(c) = {} /\ At("signed") = {}
  BY DEF Init, LinesOf, Writing, At, NoRequest
<1>3. ASSUME NEW c \in Ask PROVE Allowed(c) <= 1 + signalled
  <2>1. /\ Cardinality(LinesOf(c)) = 0 /\ Cardinality(Writing(c)) = 0
        /\ Cardinality(At("signed")) = 0
    BY <1>2, FS_EmptySet
  <2>2. Unlogged(c) = 1 /\ signalled = 0
    BY DEF Unlogged, Init
  <2> QED
    BY <2>1, <2>2 DEF Allowed
<1>4. SinceInv
  BY DEF Init, SinceInv, Ask, Classes
<1> QED
  BY <1>1, <1>3, <1>4 DEF OnceInv

\* However many handlers fail, recover and write at once, every class that is
\* counted has a line, written or about to be, one counted after an answer cleared
\* the log has a line since then, and a class has at most one line more than there
\* were answers.
THEOREM EveryReasonIsLogged == Spec => []LoggedUntilRecovery
<1>1. TypeInv /\ ToldInv /\ SinceInv /\ OnceInv => LoggedUntilRecovery
  <2> SUFFICES ASSUME TypeInv, ToldInv, SinceInv, OnceInv PROVE LoggedUntilRecovery
    OBVIOUS
  <2>1. ASSUME NEW c \in Classes, noSignal[c] > 0 PROVE LinesOf(c) \cup Writing(c) # {}
    BY <2>1 DEF ToldInv, Told
  <2>2. ASSUME NEW c \in AskClasses \cup UpstreamClasses
        PROVE  Cardinality(LinesOf(c)) + Cardinality(Writing(c)) <= 1 + signalled
    BY AllowedType DEF OnceInv, Ask, Allowed
  <2>3. ASSUME NEW c \in AskClasses \cup UpstreamClasses, noSignal[c] > recovery.counted[c]
        PROVE  LinesSince(c) \cup Writing(c) # {}
    BY <2>3 DEF SinceInv, Ask, Since
  <2> QED
    BY <2>1, <2>2, <2>3 DEF LoggedUntilRecovery
<1> QED
  BY <1>1, LinesInit, Typed, ToldStep, SinceStep, OnceStep, PTL DEF Spec

-----------------------------------------------------------------------------
(* What is counted.  AllAccountedFor adds up over the classes, over the    *)
(* lines of truncated calls and over those about to write one: what a step *)
(* does to each sum comes from Sums.                                       *)

AskInv == asked = signalled + SumOf(noSignal, AskClasses) + Cardinality(At("asking"))

\* How many truncated calls a line accounts for, and the line of a handler.
Covers   == [k \in DOMAIN lines |-> 1 + lines[k].held]
Covering == [a \in Handlers |-> 1 + h[a].held]

SkipInv ==
  noSignal[Truncated] =
    skip.held + SumOf(Covers, LinesOf(Truncated)) + SumOf(Covering, Writing(Truncated))

SumsInv ==
  /\ \A c \in AskClasses : noSignal[c] \in Int
  /\ \A k \in DOMAIN lines : Covers[k] = 1 + lines[k].held /\ Covers[k] \in Int
  /\ \A a \in Handlers : Covering[a] = 1 + h[a].held /\ Covering[a] \in Int
  /\ SumOf(noSignal, AskClasses) \in Int
  /\ SumOf(Covers, LinesOf(Truncated)) \in Int
  /\ SumOf(Covering, Writing(Truncated)) \in Int
  /\ Cardinality(At("asking")) \in Nat /\ IsFiniteSet(At("asking"))

\* The counters, what each line covers and each writer's will, and their sums
\* are numbers.
LEMMA SumsTyped == TypeInv => SumsInv
<1> SUFFICES ASSUME TypeInv PROVE SumsInv
  OBVIOUS
<1>1. \A c \in AskClasses : noSignal[c] \in Int
  BY DEF TypeInv, LogInv, Classes
<1>2. \A k \in DOMAIN lines : Covers[k] = 1 + lines[k].held /\ Covers[k] \in Int
  <2> SUFFICES ASSUME NEW k \in DOMAIN lines PROVE 1 + lines[k].held \in Int
    BY DEF Covers
  <2>1. lines[k] \in Line
    BY DEF TypeInv, LogInv
  <2> QED
    BY <2>1 DEF Line
<1>3. \A a \in Handlers : Covering[a] = 1 + h[a].held /\ Covering[a] \in Int
  <2> SUFFICES ASSUME NEW a \in Handlers PROVE 1 + h[a].held \in Int
    BY DEF Covering
  <2>1. h[a] \in Held
    BY DEF TypeInv, HeldInv
  <2> QED
    BY <2>1 DEF Held
<1>4. SumOf(noSignal, AskClasses) \in Int
  BY <1>1, ProxyAssumption, SumInt
<1>5. SumOf(Covers, LinesOf(Truncated)) \in Int
  <2>1. LinesOf(Truncated) \subseteq DOMAIN lines
    BY DEF LinesOf
  <2> QED
    BY <1>2, <2>1, SetsFinite, SumInt
<1>6. SumOf(Covering, Writing(Truncated)) \in Int
  <2>1. Writing(Truncated) \subseteq Handlers
    BY DEF Writing, At
  <2> QED
    BY <1>3, <2>1, SetsFinite, SumInt
<1>7. IsFiniteSet(At("asking")) /\ Cardinality(At("asking")) \in Nat
  BY ProxyAssumption, FS_Subset, FS_CardinalityType DEF At
<1> QED
  BY <1>1, <1>2, <1>3, <1>4, <1>5, <1>6, <1>7 DEF SumsInv

\* And so they are after a step that keeps the types.
LEMMA SumsTypedNext == TypeInv' => SumsInv'
BY SumsTyped, PTL

\* AllAccountedFor's sum over the lines is that of Covers.
LEMMA LinesSum ==
  ASSUME TypeInv
  PROVE  MapThenSumSet(LAMBDA k : 1 + lines[k].held, LinesOf(Truncated))
           = SumOf(Covers, LinesOf(Truncated))
<1> DEFINE X == LinesOf(Truncated)
           Def(it) == it = [s \in SUBSET X |-> IF s = {} THEN 0
                              ELSE (1 + lines[Pick(s)].held) + it[s \ {Pick(s)}]]
           sums == CHOOSE it : Def(it)
<1>1. MapThenSumSet(LAMBDA k : 1 + lines[k].held, X) = sums[X]
  BY DEF MapThenSumSet, MapThenFoldSet, Pick
<1>2. X \subseteq DOMAIN lines /\ IsFiniteSet(X)
  BY SetsFinite DEF LinesOf
<1> HIDE DEF X
<1>3. \A s \in SUBSET X : s # {} => Covers[Pick(s)] = 1 + lines[Pick(s)].held
  BY <1>2, PickIs, SumsTyped DEF SumsInv
<1>4. \A it : Sums(it, Covers, X) <=> Def(it)
  BY <1>3 DEF Sums
<1>5. Sums(sums, Covers, X)
  <2>1. \E it : Def(it)
    BY <1>2, <1>4, SumsExist
  <2> QED
    BY <1>4, <2>1
<1> HIDE DEF sums
<1>6. sums[X] = SumOf(Covers, X)
  BY <1>2, <1>5, SumIs
<1> QED
  BY <1>1, <1>6 DEF X

\* And its sum over the handlers that write is that of Covering.
LEMMA WritersSum ==
  ASSUME TypeInv
  PROVE  MapThenSumSet(LAMBDA a : 1 + h[a].held, Writing(Truncated))
           = SumOf(Covering, Writing(Truncated))
<1> DEFINE X == Writing(Truncated)
           Def(it) == it = [s \in SUBSET X |-> IF s = {} THEN 0
                              ELSE (1 + h[Pick(s)].held) + it[s \ {Pick(s)}]]
           sums == CHOOSE it : Def(it)
<1>1. MapThenSumSet(LAMBDA a : 1 + h[a].held, X) = sums[X]
  BY DEF MapThenSumSet, MapThenFoldSet, Pick
<1>2. X \subseteq Handlers /\ IsFiniteSet(X)
  BY SetsFinite DEF Writing, At
<1> HIDE DEF X
<1>3. \A s \in SUBSET X : s # {} => Covering[Pick(s)] = 1 + h[Pick(s)].held
  BY <1>2, PickIs, SumsTyped DEF SumsInv
<1>4. \A it : Sums(it, Covering, X) <=> Def(it)
  BY <1>3 DEF Sums
<1>5. Sums(sums, Covering, X)
  <2>1. \E it : Def(it)
    BY <1>2, <1>4, SumsExist
  <2> QED
    BY <1>4, <2>1
<1> HIDE DEF sums
<1>6. sums[X] = SumOf(Covering, X)
  BY <1>2, <1>5, SumIs
<1> QED
  BY <1>1, <1>6 DEF X

\* A class of the asks that is counted once more raises their sum by one.
LEMMA AskSum ==
  ASSUME TypeInv, NEW class \in AskClasses, noSignal' = [noSignal EXCEPT ![class] = @ + 1]
  PROVE  SumOf(noSignal', AskClasses) = SumOf(noSignal, AskClasses) + 1
<1>1. noSignal \in [Classes -> Nat] /\ AskClasses \subseteq Classes /\ IsFiniteSet(AskClasses)
  BY ProxyAssumption DEF TypeInv, LogInv, Classes
<1>2. noSignal'[class] = noSignal[class] + 1 /\ noSignal[class] \in Int
  BY <1>1
<1>3. \A c \in AskClasses \ {class} : noSignal'[c] = noSignal[c]
  BY <1>1
<1>4. \A c \in AskClasses : noSignal'[c] \in Int /\ noSignal[c] \in Int
  BY <1>1
<1>5. SumOf(noSignal', AskClasses) - SumOf(noSignal, AskClasses) = noSignal'[class] - noSignal[class]
  <2>1. PICK now, next : now = noSignal /\ next = noSignal'
    OBVIOUS
  <2>2. /\ \A c \in AskClasses : next[c] \in Int /\ now[c] \in Int
        /\ \A c \in AskClasses \ {class} : next[c] = now[c]
    BY <1>3, <1>4, <2>1, Zenon
  <2>3. SumOf(next, AskClasses) - SumOf(now, AskClasses) = next[class] - now[class]
    BY <1>1, <2>2, SumChange
  <2> QED
    BY <2>1, <2>3
<1>6. SumOf(noSignal', AskClasses) \in Int /\ SumOf(noSignal, AskClasses) \in Int
  BY ProxyAssumption, <1>4, SumInt
<1> QED
  BY <1>2, <1>5, <1>6

\* A class that is not of the asks leaves it.
LEMMA OtherSum ==
  ASSUME TypeInv, NEW class \in Classes \ AskClasses,
         noSignal' = [noSignal EXCEPT ![class] = @ + 1]
  PROVE  SumOf(noSignal', AskClasses) = SumOf(noSignal, AskClasses)
<1>1. noSignal \in [Classes -> Nat] /\ AskClasses \subseteq Classes
  BY DEF TypeInv, LogInv, Classes
<1>2. \A c \in AskClasses : noSignal'[c] = noSignal[c]
  BY <1>1
<1>3. IsFiniteSet(AskClasses)
  BY ProxyAssumption
<1> QED
  BY <1>2, <1>3, SumSame

\* A handler that was not asking and does not ask leaves the askers as they were.
LEMMA SameAsking ==
  ASSUME NEW a \in Handlers, Only(a), h[a].step # "asking", h'[a].step # "asking"
  PROVE  At("asking")' = At("asking")
BY DEF Only, At

\* One that has its answer or its failure is an asker less.
LEMMA AskingLess ==
  ASSUME TypeInv, NEW a \in Handlers, Only(a), h[a].step = "asking", h'[a].step # "asking"
  PROVE  Cardinality(At("asking")') = Cardinality(At("asking")) - 1
<1>1. At("asking")' = At("asking") \ {a} /\ a \in At("asking")
  BY DEF Only, At
<1> QED
  BY <1>1, SumsTyped, FS_RemoveElement DEF SumsInv

\* What is noted sends its handler on, or has it write a line.
LEMMA NoteMoves ==
  ASSUME TypeInv, NEW a \in Handlers, NEW class, NEW then \in {"idle", "forwarding"},
         Note(a, class, then)
  PROVE  Only(a) /\ (Is(a, then, "none")' \/ Is(a, "writing", class)')
BY OnwardMoves, ToWriteMoves DEF Note

\* Each ask made is under way, signalled or counted once.
LEMMA AskStep == TypeInv /\ AskInv /\ [Next]_vars => AskInv'
<1> SUFFICES ASSUME TypeInv, AskInv, [Next]_vars PROVE AskInv'
  OBVIOUS
<1>1. /\ asked = signalled + SumOf(noSignal, AskClasses) + Cardinality(At("asking"))
      /\ signalled \in Nat /\ SumOf(noSignal, AskClasses) \in Int
      /\ Cardinality(At("asking")) \in Nat /\ IsFiniteSet(At("asking"))
  BY SumsTyped DEF SumsInv, AskInv, TypeInv, LogInv
<1>2. ASSUME NEW a \in Handlers, NEW r \in Requests, Receive(a, r) PROVE AskInv'
  <2>1. h \in [Handlers -> Held] /\ Only(a) /\ h[a].step = "idle"
    BY <1>2, ReceiveMoves DEF TypeInv, HeldInv
  <2>2. noSignal' = noSignal /\ signalled' = signalled
    BY <1>2 DEF Receive
  <2>3. \/ h'[a].step = "asking" /\ asked' = asked + 1
        \/ h'[a].step # "asking" /\ asked' = asked
    BY <1>2, <2>1, <1>1 DEF Receive, NoRequest, TypeInv, LogInv
  <2>4. CASE h'[a].step = "asking" /\ asked' = asked + 1
    <3>1. At("asking")' = At("asking") \cup {a} /\ a \notin At("asking")
      BY <2>1, <2>4 DEF Only, At
    <3>2. Cardinality(At("asking")') = Cardinality(At("asking")) + 1
      BY <1>1, <3>1, FS_AddElement
    <3> QED
      BY <1>1, <2>2, <2>4, <3>2 DEF AskInv
  <2>5. CASE h'[a].step # "asking" /\ asked' = asked
    <3>1. At("asking")' = At("asking")
      BY <2>1, <2>5, SameAsking
    <3> QED
      BY <1>1, <2>2, <2>5, <3>1 DEF AskInv
  <2> QED
    BY <2>3, <2>4, <2>5
<1>3. ASSUME NEW a \in Handlers, SkipTruncated(a) PROVE AskInv'
  <2>1. Only(a) /\ h[a].step = "skipping" /\ h'[a].step # "asking"
    BY <1>3, OnwardMoves, ToWriteMoves DEF SkipTruncated, Is
  <2>2. Truncated \in Classes /\ Truncated \notin AskClasses
    BY ProxyAssumption DEF Classes
  <2>3. SumOf(noSignal', AskClasses) = SumOf(noSignal, AskClasses)
    <3>1. noSignal' = [noSignal EXCEPT ![Truncated] = @ + 1]
      BY <1>3 DEF SkipTruncated
    <3> QED
      BY <2>2, <3>1, OtherSum
  <2>4. At("asking")' = At("asking")
    BY <2>1, SameAsking
  <2> QED
    BY <1>1, <1>3, <2>3, <2>4 DEF AskInv, SkipTruncated, counts
<1>4. ASSUME NEW a \in Handlers, NEW class \in AskClasses, AskFails(a, class) PROVE AskInv'
  <2>1. Only(a) /\ h[a].step = "asking" /\ h'[a].step # "asking"
    BY <1>4, NoteMoves DEF AskFails, Is
  <2>2. SumOf(noSignal', AskClasses) = SumOf(noSignal, AskClasses) + 1
    BY <1>4, AskSum DEF AskFails, Note, Classes
  <2>3. Cardinality(At("asking")') = Cardinality(At("asking")) - 1
    BY <2>1, AskingLess
  <2> QED
    BY <1>1, <1>4, <2>2, <2>3 DEF AskInv, AskFails, counts
<1>5. ASSUME NEW a \in Handlers, AskAnswers(a) PROVE AskInv'
  <2>1. h \in [Handlers -> Held] /\ h[a] \in Held
    BY DEF TypeInv, HeldInv
  <2>2. Only(a) /\ h[a].step = "asking" /\ h'[a].step # "asking"
    BY <1>5, <2>1 DEF AskAnswers, Only, Held
  <2>3. Cardinality(At("asking")') = Cardinality(At("asking")) - 1
    BY <2>2, AskingLess
  <2> QED
    BY <1>1, <1>5, <2>3 DEF AskInv, AskAnswers
<1>6. ASSUME NEW a \in Handlers, Recovered(a) \/ WriteLine(a) \/ UpstreamAnswers(a) PROVE AskInv'
  <2>1. h \in [Handlers -> Held] /\ h[a] \in Held
    BY DEF TypeInv, HeldInv
  <2>2. Only(a) /\ h[a].step # "asking" /\ h'[a].step # "asking"
    <3>1. CASE Recovered(a)
      BY <2>1, <3>1 DEF Recovered, Only, Held
    <3>2. CASE WriteLine(a)
      BY <3>2, LineWritten DEF Is
    <3>3. CASE UpstreamAnswers(a)
      BY <3>3, OnwardMoves DEF UpstreamAnswers, Is
    <3> QED
      BY <1>6, <3>1, <3>2, <3>3
  <2>3. At("asking")' = At("asking")
    BY <2>2, SameAsking
  <2> QED
    BY <1>1, <1>6, <2>3 DEF AskInv, Recovered, WriteLine, UpstreamAnswers, counts
<1>7. ASSUME NEW a \in Handlers, NEW class \in UpstreamClasses, UpstreamFails(a, class)
      PROVE  AskInv'
  <2>1. Only(a) /\ h[a].step = "forwarding" /\ h'[a].step # "asking"
    BY <1>7, NoteMoves DEF UpstreamFails, Is
  <2>2. class \in Classes /\ class \notin AskClasses
    BY ProxyAssumption DEF Classes
  <2>3. SumOf(noSignal', AskClasses) = SumOf(noSignal, AskClasses)
    <3>1. noSignal' = [noSignal EXCEPT ![class] = @ + 1]
      BY <1>7 DEF UpstreamFails, Note
    <3> QED
      BY <2>2, <3>1, OtherSum
  <2>4. At("asking")' = At("asking")
    BY <2>1, SameAsking
  <2> QED
    BY <1>1, <1>7, <2>3, <2>4 DEF AskInv, UpstreamFails, counts
<1>8. CASE Tick \/ UNCHANGED vars
  BY <1>8 DEF Tick, vars, counts, AskInv, At
<1> QED
  BY <1>2, <1>3, <1>4, <1>5, <1>6, <1>7, <1>8 DEF Next

-----------------------------------------------------------------------------
(* The truncated calls.                                                    *)

\* A handler that writes no line of a truncated call, before or after, changes
\* nothing of what the writers' lines cover.
LEMMA SameCovering ==
  ASSUME TypeInv, TypeInv', NEW a \in Handlers, Only(a),
         ~Is(a, "writing", Truncated), ~Is(a, "writing", Truncated)'
  PROVE  SumOf(Covering', Writing(Truncated)') = SumOf(Covering, Writing(Truncated))
<1>1. Writing(Truncated)' = Writing(Truncated)
  BY DEF Only, Writing, At, Is
<1>2. ASSUME NEW b \in Writing(Truncated) PROVE Covering'[b] = Covering[b]
  <2>1. b \in Handlers /\ b # a
    BY <1>2 DEF Writing, At, Is
  <2> QED
    BY <2>1 DEF Covering, Only
<1>3. SumOf(Covering', Writing(Truncated)) = SumOf(Covering, Writing(Truncated))
  BY <1>2, SetsFinite, SumSame
<1> QED
  BY <1>1, <1>3

\* A line to be written, for the skips held back and the one that ends them.
LEMMA MoreCovering ==
  ASSUME TypeInv, TypeInv', NEW a \in Handlers, Only(a),
         h[a].step # "writing", Is(a, "writing", Truncated)'
  PROVE  SumOf(Covering', Writing(Truncated)')
           = SumOf(Covering, Writing(Truncated)) + 1 + h'[a].held
<1> DEFINE W == Writing(Truncated)
<1>1. W' = W \cup {a} /\ a \notin W /\ IsFiniteSet(W) /\ W \subseteq Handlers
  BY OneWriter, SetsFinite DEF Writing, At
<1>2. ASSUME NEW b \in W PROVE Covering'[b] = Covering[b]
  BY <1>1, <1>2 DEF Covering, Only
<1>3. \A b \in W \cup {a} : Covering'[b] \in Int
  BY <1>1, SumsTyped, SumsTypedNext DEF SumsInv
<1>4. Covering'[a] = 1 + h'[a].held
  BY SumsTyped, SumsTypedNext DEF SumsInv
<1> HIDE DEF W
<1>5. SumOf(Covering', W \cup {a}) = SumOf(Covering', W) + Covering'[a]
  BY <1>1, <1>3, SumAdd
<1>6. SumOf(Covering', W) = SumOf(Covering, W) /\ SumOf(Covering', W) \in Int
  BY <1>1, <1>2, <1>3, SumSame, SumInt
<1>7. SumOf(Covering', W') = SumOf(Covering, W) + Covering'[a]
  BY <1>1, <1>5, <1>6
<1>8. h'[a].held \in Nat
  BY DEF TypeInv, HeldInv, Held
<1>9. SumOf(Covering', W') = SumOf(Covering, W) + 1 + h'[a].held
  BY <1>4, <1>6, <1>7, <1>8
<1> QED
  BY <1>9 DEF W

\* A line of a truncated call written covers what its writer's did.
LEMMA CoveringWritten ==
  ASSUME TypeInv, TypeInv', NEW a \in Handlers, WriteLine(a), h[a].class = Truncated
  PROVE  SumOf(Covers', LinesOf(Truncated)') + SumOf(Covering', Writing(Truncated)')
           = SumOf(Covers, LinesOf(Truncated)) + SumOf(Covering, Writing(Truncated))
<1> DEFINE W == Writing(Truncated)
           L == LinesOf(Truncated)
           n == Len(lines) + 1
<1>1. /\ Only(a) /\ L' = L \cup {n} /\ n \notin L /\ W' = W \ {a} /\ a \in W
  BY LineWritten
<1>2. /\ IsFiniteSet(W) /\ W \subseteq Handlers /\ IsFiniteSet(L)
      /\ L \subseteq DOMAIN lines /\ L' \subseteq DOMAIN lines'
  BY SetsFinite DEF Writing, At, LinesOf
<1>3. /\ lines \in Seq(Line) /\ DOMAIN lines = 1 .. Len(lines) /\ Len(lines) \in Nat
      /\ h[a] \in Held
  BY DEF TypeInv, HeldInv, LogInv
<1>4. lines' = Append(lines, [class |-> h[a].class, stamp |-> h[a].now, held |-> h[a].held])
  BY DEF WriteLine
<1>5. /\ \A k \in DOMAIN lines : lines'[k] = lines[k] /\ k \in DOMAIN lines'
      /\ n \in DOMAIN lines' /\ lines'[n].held = h[a].held
  BY <1>3, <1>4
<1> HIDE DEF n
<1>6. \A k \in L : Covers'[k] = Covers[k]
  BY <1>2, <1>5 DEF Covers
<1>7. /\ Covers'[n] = 1 + h[a].held /\ Covering[a] = 1 + h[a].held
  BY <1>5, SumsTyped, SumsTypedNext DEF SumsInv
<1>8. /\ \A k \in L \cup {n} : Covers'[k] \in Int
      /\ \A b \in W : Covering[b] \in Int
  BY <1>1, <1>2, SumsTyped, SumsTypedNext DEF SumsInv
<1>9. \A b \in W \ {a} : Covering'[b] = Covering[b]
  BY <1>1, <1>2 DEF Covering, Only
<1> HIDE DEF W, L
<1>10. SumOf(Covers', L \cup {n}) = SumOf(Covers', L) + Covers'[n]
  BY <1>1, <1>2, <1>8, SumAdd
<1>11. SumOf(Covers', L) = SumOf(Covers, L) /\ SumOf(Covers', L) \in Int
  BY <1>2, <1>6, <1>8, SumSame, SumInt
<1>12. SumOf(Covering, W) = Covering[a] + SumOf(Covering, W \ {a})
  BY <1>1, <1>2, <1>8, SumRemove
<1>13. /\ SumOf(Covering', W \ {a}) = SumOf(Covering, W \ {a})
       /\ SumOf(Covering, W \ {a}) \in Int
  <2>1. IsFiniteSet(W \ {a})
    BY <1>2, FS_RemoveElement
  <2> QED
    BY <1>2, <1>8, <1>9, <2>1, SumSame, SumInt
<1>14. h[a].held \in Nat
  BY <1>3 DEF Held
<1>15. SumOf(Covers', L') + SumOf(Covering', W') = SumOf(Covers, L) + SumOf(Covering, W)
  <2>1. SumOf(Covers', L') = SumOf(Covers, L) + 1 + h[a].held
    BY <1>1, <1>7, <1>10, <1>11, <1>14
  <2>2. SumOf(Covering, W) = 1 + h[a].held + SumOf(Covering', W')
    BY <1>1, <1>7, <1>12, <1>13, <1>14
  <2>3. SumOf(Covering', W') \in Int
    BY <1>1, <1>13
  <2> QED
    BY <1>11, <1>14, <2>1, <2>2, <2>3
<1> QED
  BY <1>15 DEF W, L

\* A step that writes no line, has none to write of a truncated call and does not
\* count one leaves each accounted for as it was.
LEMMA QuietSkip ==
  ASSUME TypeInv, TypeInv', SkipInv, NEW a \in Handlers, Only(a),
         ~Is(a, "writing", Truncated), ~Is(a, "writing", Truncated)',
         lines' = lines, skip' = skip, noSignal'[Truncated] = noSignal[Truncated]
  PROVE  SkipInv'
<1>1. SumOf(Covering', Writing(Truncated)') = SumOf(Covering, Writing(Truncated))
  BY SameCovering
<1>2. Covers' = Covers /\ LinesOf(Truncated)' = LinesOf(Truncated)
  BY DEF Covers, LinesOf
<1> QED
  BY <1>1, <1>2 DEF SkipInv

\* Each truncated call is covered by a line, by one about to be written, or held.
LEMMA SkipStep == TypeInv /\ TypeInv' /\ SkipInv /\ [Next]_vars => SkipInv'
<1> SUFFICES ASSUME TypeInv, TypeInv', SkipInv, [Next]_vars PROVE SkipInv'
  OBVIOUS
<1>1. Truncated \in Classes /\ Truncated \notin Ask /\ noSignal \in [Classes -> Nat]
  BY ProxyAssumption DEF Classes, Ask, UpstreamClasses, Truncated, TypeInv, LogInv
<1>2. ASSUME NEW a \in Handlers, NEW r \in Requests, Receive(a, r) PROVE SkipInv'
  <2>1. lines' = lines /\ skip' = skip /\ noSignal' = noSignal
    BY <1>2 DEF Receive, log
  <2> QED
    BY <1>2, <2>1, ReceiveMoves, QuietSkip DEF Is
<1>3. ASSUME NEW a \in Handlers, SkipTruncated(a) PROVE SkipInv'
  <2>1. /\ h[a].step = "skipping" /\ lines' = lines
        /\ noSignal' = [noSignal EXCEPT ![Truncated] = @ + 1]
    BY <1>3 DEF SkipTruncated
  <2>2. noSignal'[Truncated] = noSignal[Truncated] + 1
    BY <1>1, <2>1
  <2>3. Covers' = Covers /\ LinesOf(Truncated)' = LinesOf(Truncated)
    BY <2>1 DEF Covers, LinesOf
  <2>4. /\ SumOf(Covers, LinesOf(Truncated)) \in Int
        /\ SumOf(Covering, Writing(Truncated)) \in Int
        /\ skip \in [logged : BOOLEAN, last : 0 .. clock, held : Nat]
    BY SumsTyped DEF SumsInv, TypeInv, LogInv
  <2>5. CASE Recent(h[a].now)
    <3>1. Only(a) /\ Is(a, "forwarding", "none")'
      BY <1>3, <2>5, OnwardMoves DEF SkipTruncated
    <3>2. SumOf(Covering', Writing(Truncated)') = SumOf(Covering, Writing(Truncated))
      BY <2>1, <3>1, SameCovering DEF Is
    <3>3. skip'.held = skip.held + 1
      BY <1>3, <2>4, <2>5 DEF SkipTruncated
    <3> QED
      BY <2>2, <2>3, <2>4, <3>2, <3>3 DEF SkipInv
  <2>6. CASE ~Recent(h[a].now)
    <3>1. h' = ToWrite(a, Truncated, skip.held, "forwarding") /\ skip' = Reported(h[a].now)
      BY <1>3, <2>6 DEF SkipTruncated
    <3>2. Only(a) /\ Is(a, "writing", Truncated)'
      BY <3>1, ToWriteMoves
    <3>3. h'[a].held = skip.held /\ skip'.held = 0
      BY <3>1 DEF ToWrite, Reported, TypeInv, HeldInv, Held
    <3>4. SumOf(Covering', Writing(Truncated)')
            = SumOf(Covering, Writing(Truncated)) + 1 + skip.held
      BY <2>1, <3>2, <3>3, MoreCovering
    <3> QED
      BY <2>2, <2>3, <2>4, <3>3, <3>4 DEF SkipInv
  <2> QED
    BY <2>5, <2>6
<1>4. ASSUME NEW a \in Handlers, NEW class \in Ask, NEW then \in {"idle", "forwarding"},
             Note(a, class, then), h[a].step # "writing", lines' = lines, skip' = skip
      PROVE  SkipInv'
  <2>1. Only(a) /\ ~Is(a, "writing", Truncated)'
    BY <1>1, <1>4, NoteMoves DEF Is
  <2>2. noSignal'[Truncated] = noSignal[Truncated]
    BY <1>1, <1>4 DEF Note
  <2> QED
    BY <1>4, <2>1, <2>2, QuietSkip DEF Is
<1>5. ASSUME NEW a \in Handlers, NEW class \in AskClasses, AskFails(a, class) PROVE SkipInv'
  BY <1>4, <1>5 DEF AskFails, Ask
<1>6. ASSUME NEW a \in Handlers, NEW class \in UpstreamClasses, UpstreamFails(a, class)
      PROVE  SkipInv'
  BY <1>4, <1>6 DEF UpstreamFails, Ask
<1>7. ASSUME NEW a \in Handlers, AskAnswers(a) \/ Recovered(a) \/ UpstreamAnswers(a)
      PROVE  SkipInv'
  <2>1. h \in [Handlers -> Held] /\ h[a] \in Held
    BY DEF TypeInv, HeldInv
  <2>2. /\ Only(a) /\ h[a].step # "writing" /\ h'[a].step # "writing"
        /\ lines' = lines /\ skip' = skip /\ noSignal' = noSignal
    <3>1. CASE AskAnswers(a) \/ Recovered(a)
      BY <2>1, <3>1 DEF AskAnswers, Recovered, Only, Held, log
    <3>2. CASE UpstreamAnswers(a)
      BY <3>2, OnwardMoves DEF UpstreamAnswers, Is, log
    <3> QED
      BY <1>7, <3>1, <3>2
  <2> QED
    BY <2>2, QuietSkip DEF Is
<1>8. ASSUME NEW a \in Handlers, WriteLine(a) PROVE SkipInv'
  <2>1. noSignal' = noSignal /\ skip' = skip
    BY <1>8 DEF WriteLine
  <2>2. /\ SumOf(Covers, LinesOf(Truncated)) \in Int /\ SumOf(Covers', LinesOf(Truncated)') \in Int
        /\ SumOf(Covering, Writing(Truncated)) \in Int
        /\ SumOf(Covering', Writing(Truncated)') \in Int
    BY SumsTyped, SumsTypedNext DEF SumsInv
  <2>3. skip.held \in Nat
    BY DEF TypeInv, LogInv
  <2>4. CASE h[a].class = Truncated
    BY <1>8, <2>1, <2>2, <2>3, <2>4, CoveringWritten DEF SkipInv
  <2>5. CASE h[a].class # Truncated
    <3>1. /\ Only(a) /\ h'[a].step # "writing" /\ LinesOf(Truncated)' = LinesOf(Truncated)
      BY <1>8, <2>5, LineWritten
    <3>2. SumOf(Covering', Writing(Truncated)') = SumOf(Covering, Writing(Truncated))
      BY <2>5, <3>1, SameCovering DEF Is
    <3>3. \A k \in LinesOf(Truncated) : Covers'[k] = Covers[k]
      <4>1. lines \in Seq(Line)
        BY DEF TypeInv, LogInv
      <4>2. \A k \in DOMAIN lines : lines'[k] = lines[k] /\ k \in DOMAIN lines'
        BY <1>8, <4>1 DEF WriteLine
      <4> QED
        BY <4>2 DEF Covers, LinesOf
    <3>4. SumOf(Covers', LinesOf(Truncated)) = SumOf(Covers, LinesOf(Truncated))
      BY <3>3, SetsFinite, SumSame
    <3> QED
      BY <2>1, <3>1, <3>2, <3>4 DEF SkipInv
  <2> QED
    BY <2>4, <2>5
<1>9. CASE Tick \/ UNCHANGED vars
  <2>1. UNCHANGED <<h, lines, skip, noSignal>>
    BY <1>9 DEF Tick, vars, log
  <2> QED
    BY <2>1 DEF SkipInv, Covers, Covering, LinesOf, Writing, At
<1> QED
  BY <1>2, <1>3, <1>5, <1>6, <1>7, <1>8, <1>9 DEF Next

\* Nothing is counted before the first request.
LEMMA CountInit == Init => AskInv /\ SkipInv
<1> SUFFICES ASSUME Init PROVE AskInv /\ SkipInv
  OBVIOUS
<1>1. /\ LinesOf(Truncated) = {} /\ Writing(Truncated) = {} /\ At("asking") = {}
  BY DEF Init, LinesOf, Writing, At, NoRequest
<1>2. SumOf(Covers, {}) = 0 /\ SumOf(Covering, {}) = 0 /\ Cardinality({}) = 0
  BY SumEmpty, FS_EmptySet
<1>3. SkipInv
  <2>1. noSignal[Truncated] = 0 /\ skip.held = 0
    BY DEF Init, Classes
  <2> QED
    BY <1>1, <1>2, <2>1 DEF SkipInv
<1>4. SumOf(noSignal, AskClasses) = 0
  <2> DEFINE zero == [c \in AskClasses |-> 0]
             T == {s \in SUBSET AskClasses : SumOf(noSignal, s) = 0}
  <2>1. ASSUME NEW s \in SUBSET AskClasses, \A c \in s : s \ {c} \in T PROVE s \in T
    <3>1. CASE s = {}
      BY <3>1, SumEmpty
    <3>2. CASE s # {}
      <4>1. IsFiniteSet(s)
        BY ProxyAssumption, FS_Subset
      <4>2. Pick(s) \in s /\ SumOf(noSignal, s) = noSignal[Pick(s)] + SumOf(noSignal, s \ {Pick(s)})
        BY <3>2, <4>1, SumPick
      <4>3. noSignal[Pick(s)] = 0
        BY <4>2 DEF Init, Classes
      <4> QED
        BY <2>1, <4>2, <4>3
    <3> QED
      BY <3>1, <3>2
  <2> HIDE DEF T
  <2>2. AskClasses \in T
    BY <2>1, ProxyAssumption, SetInduct
  <2> QED
    BY <2>2 DEF T
<1>5. AskInv
  <2>1. Cardinality(At("asking")) = 0 /\ asked = 0 /\ signalled = 0
    BY <1>1, <1>2 DEF Init
  <2> QED
    BY <1>4, <2>1 DEF AskInv
<1> QED
  BY <1>3, <1>5

\* Whatever the requests, the failures and the handlers' interleaving, at every
\* moment each ask made is under way, signalled or counted by its reason exactly
\* once, and each truncated call is reported by exactly one line or waits to be.
THEOREM EveryAskIsCounted == Spec => []AllAccountedFor
<1>1. TypeInv /\ AskInv /\ SkipInv => AllAccountedFor
  <2> SUFFICES ASSUME TypeInv, AskInv, SkipInv PROVE AllAccountedFor
    OBVIOUS
  <2>1. MapThenSumSet(LAMBDA c : noSignal[c], AskClasses) = SumOf(noSignal, AskClasses)
    BY DEF SumOf
  <2> QED
    BY <2>1, LinesSum, WritersSum DEF AllAccountedFor, AskInv, SkipInv
<1>2. TypeInv /\ TypeInv' /\ AskInv /\ SkipInv /\ [Next]_vars => AskInv' /\ SkipInv'
  BY AskStep, SkipStep
<1> QED
  BY <1>1, <1>2, CountInit, Typed, PTL DEF Spec
=============================================================================
