-------------------------------- MODULE Proxy --------------------------------
(***************************************************************************)
(* internal/wardryxproxy: the reverse proxy between a caller and wardryx.  *)
(* Each request is a handler of its own; they share the counters asked and *)
(* signalled (atomics) and, under mu, noSignal, logged and the skip log.   *)
(* A step is what a handler does between two of those, a log line being    *)
(* written after mu is released.  The ask is Service's: here it returns an *)
(* answer or the class of its failure.  wardryx is external.               *)
(***************************************************************************)
EXTENDS Integers, Sequences, FiniteSets, FiniteSetsExt

CONSTANTS Handlers,         \* requests in progress at the same time, at most
          Requests,         \* the requests callers send, a subset of Request
          AskClasses,       \* why an ask gives no signal: reason classes
          MaxSignals,       \* the most signals wardryx takes
          SkipLogInterval,  \* in ticks
          MaxClock,         \* bound on the clock
          MaxRequests       \* bound on the requests received

UpstreamClasses == {"upstream_unreachable", "upstream_timeout"}
Truncated       == "skipped:arguments_truncated"
Classes         == AskClasses \cup UpstreamClasses \cup {Truncated}

\* A request as sign and withSignal tell requests apart.
Request == [allowed : BOOLEAN,   \* Keys.Allow, or no key configured
            decide : BOOLEAN,    \* POST /v1/decide
            body : {"unreadable", "empty", "too big", "no call", "truncated", "call"},
            signals : Nat]       \* how many it already carries

ASSUME ProxyAssumption ==
  /\ IsFiniteSet(Handlers) /\ IsFiniteSet(AskClasses)
  /\ Requests \subseteq Request
  /\ AskClasses \cap (UpstreamClasses \cup {Truncated, "none"}) = {}
  /\ MaxSignals \in Nat /\ SkipLogInterval \in Nat /\ MaxClock \in Nat
  /\ MaxRequests \in Nat

VARIABLES
  h,          \* h[a]: the request handler a is serving
  asked,      \* Proxy.asked
  signalled,  \* Proxy.signalled
  noSignal,   \* Proxy.noSignal
  logged,     \* Proxy.logged: the classes not to be logged again
  skip,       \* Proxy.skipLogged, skipLastLog, skipHeld
  lines,      \* the log lines written
  recovery,   \* history: the lines there were, and noSignal, when logged was last cleared
  clock,      \* the monotonic clock behind Config.Now
  received    \* requests received, bounded by MaxRequests

counts == <<asked, signalled>>
log    == <<logged, skip, lines>>
vars   == <<h, counts, noSignal, log, recovery, clock, received>>

Steps == {"idle", "skipping", "asking", "signed", "forwarding", "writing"}

\* What a handler still needs of a request: came and signals are the signals
\* the request had and has, class and held are for the line it is to write.
NoRequest == [step |-> "idle", then |-> "idle", came |-> 0, signals |-> 0,
              now |-> 0, class |-> "none", held |-> 0]

Init ==
  /\ h = [a \in Handlers |-> NoRequest]
  /\ asked = 0 /\ signalled = 0
  /\ noSignal = [c \in Classes |-> 0]
  /\ logged = {}
  /\ skip = [logged |-> FALSE, last |-> 0, held |-> 0]
  /\ lines = <<>>
  /\ recovery = [lines |-> 0, counted |-> noSignal]
  /\ clock = 0 /\ received = 0

-----------------------------------------------------------------------------
(* ServeHTTP and sign, up to the first step that another handler can see.  *)

\* 401 for a credential that is not accepted, 400 for a body cut short.
Rejected(r) == ~r.allowed \/ (r.decide /\ r.body = "unreadable")

\* Mutant: one signal more than wardryx takes.
Eligible_oneMore(r) == r.decide /\ r.body = "call" /\ r.signals <= MaxSignals

\* A tool call with a name and all its arguments, and room for a signal.
Eligible(r) == r.decide /\ r.body = "call" /\ r.signals < MaxSignals

Skipped(r) == r.decide /\ r.body = "truncated"

Receive(a, r) ==
  /\ h[a].step = "idle" /\ received < MaxRequests
  /\ received' = received + 1
  /\ LET step == CASE Rejected(r)                  -> "idle"
                   [] ~Rejected(r) /\ Skipped(r)   -> "skipping"
                   [] ~Rejected(r) /\ Eligible(r)  -> "asking"
                   [] OTHER                        -> "forwarding"
     IN /\ h' = [h EXCEPT ![a] = IF step = "idle" THEN NoRequest
                 ELSE [NoRequest EXCEPT !.step = step, !.came = r.signals,
                         !.signals = r.signals, !.now = IF Skipped(r) THEN clock ELSE 0]]
        /\ asked' = asked + IF step = "asking" THEN 1 ELSE 0
  /\ UNCHANGED <<signalled, noSignal, log, recovery, clock>>

-----------------------------------------------------------------------------
(* noSignal and the log: skipTruncated, noSignalFor, noteUpstreamFailure.   *)

\* What handler a still needs once it goes on to step, or is done.
Onward(a, step) ==
  IF step = "idle" THEN [h EXCEPT ![a] = NoRequest]
  ELSE [h EXCEPT ![a].step = step, ![a].then = "idle", ![a].now = 0,
                 ![a].class = "none", ![a].held = 0]

\* Handler a has a line to write, with mu released, before it goes on.
ToWrite(a, class, held, then) ==
  [h EXCEPT ![a].step = "writing", ![a].then = then, ![a].class = class, ![a].held = held]

Recent(now) ==
  skip.logged /\ now - skip.last >= 0 /\ now - skip.last < SkipLogInterval

\* The skip log once a line at now has been decided on.
Reported(now) == [logged |-> TRUE, last |-> now, held |-> 0]

\* skipTruncated: the clock was read (at Receive) before mu was taken.
SkipTruncated(a) ==
  /\ h[a].step = "skipping"
  /\ noSignal' = [noSignal EXCEPT ![Truncated] = @ + 1]
  /\ IF Recent(h[a].now)
     THEN /\ skip' = [skip EXCEPT !.held = @ + 1]
          /\ h' = Onward(a, "forwarding")
     ELSE /\ skip' = Reported(h[a].now)
          /\ h' = ToWrite(a, Truncated, skip.held, "forwarding")
  /\ UNCHANGED <<counts, logged, lines, recovery, clock, received>>

-----------------------------------------------------------------------------
(* The ask and what the proxy makes of it.                                 *)

\* Mutant: a class already logged is not counted either.
Note_onlyFirst(a, class, then) ==
  /\ noSignal' = [noSignal EXCEPT ![class] = @ + IF class \in logged THEN 0 ELSE 1]
  /\ logged' = logged \cup {class}
  /\ h' = IF class \in logged THEN Onward(a, then) ELSE ToWrite(a, class, 0, then)

\* noSignalFor and noteUpstreamFailure: count, and log a class once.
Note(a, class, then) ==
  /\ noSignal' = [noSignal EXCEPT ![class] = @ + 1]
  /\ logged' = logged \cup {class}
  /\ h' = IF class \in logged THEN Onward(a, then) ELSE ToWrite(a, class, 0, then)

AskFails(a, class) ==
  /\ h[a].step = "asking"
  /\ Note(a, class, "forwarding")
  /\ UNCHANGED <<counts, skip, lines, recovery, clock, received>>

AskAnswers(a) ==
  /\ h[a].step = "asking"
  /\ signalled' = signalled + 1
  /\ h' = [h EXCEPT ![a].step = "signed", ![a].signals = @ + 1]
  /\ UNCHANGED <<asked, noSignal, log, recovery, clock, received>>

\* Mutant: an answer does not clear the log, so that no class is logged again.
Recovered_keepsLog(a) ==
  /\ h[a].step = "signed"
  /\ recovery' = [lines |-> Len(lines), counted |-> noSignal]
  /\ h' = [h EXCEPT ![a].step = "forwarding"]
  /\ UNCHANGED <<counts, noSignal, log, clock, received>>

Recovered(a) ==
  /\ h[a].step = "signed"
  /\ logged' = {}
  /\ recovery' = [lines |-> Len(lines), counted |-> noSignal]
  /\ h' = [h EXCEPT ![a].step = "forwarding"]
  /\ UNCHANGED <<counts, noSignal, skip, lines, clock, received>>

WriteLine(a) ==
  /\ h[a].step = "writing"
  /\ lines' = Append(lines, [class |-> h[a].class, stamp |-> h[a].now, held |-> h[a].held])
  /\ h' = Onward(a, h[a].then)
  /\ UNCHANGED <<counts, noSignal, logged, skip, recovery, clock, received>>

-----------------------------------------------------------------------------
(* The reverse proxy.  A caller that hung up is answered 502 and not noted. *)

UpstreamAnswers(a) ==
  /\ h[a].step = "forwarding"
  /\ h' = Onward(a, "idle")
  /\ UNCHANGED <<counts, noSignal, log, recovery, clock, received>>

UpstreamFails(a, class) ==
  /\ h[a].step = "forwarding"
  /\ Note(a, class, "idle")
  /\ UNCHANGED <<counts, skip, lines, recovery, clock, received>>

Tick ==
  /\ clock < MaxClock
  /\ clock' = clock + 1
  /\ UNCHANGED <<h, counts, noSignal, log, recovery, received>>

Next ==
  \/ \E a \in Handlers :
       \/ \E r \in Requests : Receive(a, r)
       \/ SkipTruncated(a)
       \/ \E class \in AskClasses : AskFails(a, class)
       \/ AskAnswers(a) \/ Recovered(a) \/ WriteLine(a) \/ UpstreamAnswers(a)
       \/ \E class \in UpstreamClasses : UpstreamFails(a, class)
  \/ Tick

Spec == Init /\ [][Next]_vars

-----------------------------------------------------------------------------
Line == [class : Classes, stamp : 0 .. MaxClock, held : Nat]
Recovery == [lines : Nat, counted : [Classes -> Nat]]

\* The types of the counters and logs; no stamp is ahead of the clock, and a
\* request past the ask carries the signals it came with, or one more within
\* wardryx's cap: "a request already at it is forwarded as it is".
TypeOK ==
  /\ \A a \in Handlers :
       /\ h[a].step \in Steps /\ h[a].then \in {"idle", "forwarding"}
       /\ h[a].class \in Classes \cup {"none"}
       /\ h[a].now <= clock /\ h[a].held \in Nat
       /\ h[a].signals # h[a].came => h[a].signals = h[a].came + 1 /\ h[a].signals <= MaxSignals
  /\ asked \in Nat /\ signalled \in Nat /\ noSignal \in [Classes -> Nat]
  /\ logged \subseteq AskClasses \cup UpstreamClasses
  /\ skip.logged \in BOOLEAN /\ skip.last \in 0 .. clock /\ skip.held \in Nat
  /\ lines \in Seq(Line) /\ recovery \in Recovery
  /\ clock \in 0 .. MaxClock /\ received \in 0 .. MaxRequests

At(step)     == {a \in Handlers : h[a].step = step}
Writing(c)   == {a \in At("writing") : h[a].class = c}
LinesOf(c)   == {k \in DOMAIN lines : lines[k].class = c}

\* "An ask that gave no signal is counted by reason, never passed on silently",
\* "each saying how many skips it held back": at every moment each ask made is
\* under way, signalled or counted once, and each truncated call is a line of its
\* own, is reported by exactly one line, or waits to be.
AllAccountedFor ==
  /\ asked = signalled + MapThenSumSet(LAMBDA c : noSignal[c], AskClasses)
               + Cardinality(At("asking"))
  /\ noSignal[Truncated] =
       skip.held
         + MapThenSumSet(LAMBDA k : 1 + lines[k].held, LinesOf(Truncated))
         + MapThenSumSet(LAMBDA a : 1 + h[a].held, Writing(Truncated))

\* What class c has since the log was last cleared.
LinesSince(c) == {k \in LinesOf(c) : k > recovery.lines}

\* "Counted, not logged again until one answers": no class is ever counted without
\* a line for it, written or about to be; one that is counted after an answer
\* cleared the log has such a line since then, so that the operator of a proxy
\* that adds no signals hears of it again; and a class has at most one line more
\* than there were answers, whatever handlers race the recovery.
LoggedUntilRecovery ==
  /\ \A c \in Classes : noSignal[c] > 0 => LinesOf(c) \cup Writing(c) # {}
  /\ \A c \in AskClasses \cup UpstreamClasses :
       /\ noSignal[c] > recovery.counted[c] => LinesSince(c) \cup Writing(c) # {}
       /\ Cardinality(LinesOf(c)) + Cardinality(Writing(c)) <= 1 + signalled
=============================================================================
