------------------------------ MODULE Lifetime ------------------------------
(***************************************************************************)
(* The process around Service's handlers: cmd/typryx's serveRuntime, which *)
(* waits for a signal or a listener failure, gives the handlers            *)
(* defaultShutdownTimeout to finish after the one and nothing after the    *)
(* other, and closes the ledger, the journal and the training log, the     *)
(* deferred Closes in their reverse order, under whatever still runs; and  *)
(* a kill at any point, and the next start.                                *)
(***************************************************************************)
EXTENDS Service

VARIABLES
  main,     \* where serveRuntime is
  open,     \* the files not yet closed
  stopped   \* why serveRuntime left its select, or Shutdown returned

process == <<main, open, stopped>>
lvars   == <<vars, process>>

CloseOrder == <<"ledger", "journal", "training">>
Files      == {CloseOrder[n] : n \in DOMAIN CloseOrder}

LifeInit == Init /\ main = "serving" /\ open = Files /\ stopped = "no"

Busy == {a \in Handlers : h[a].step # "idle"}

-----------------------------------------------------------------------------
(* Handlers.  A connection that was accepted may still bring a request     *)
(* while Shutdown polls, or after it gave up; a Shutdown that returned nil *)
(* left none.                                                              *)

Accepts(a) ==
  /\ main # "exited" /\ stopped # "drained"
  /\ \E r \in Requests : Receive(a, r)
  /\ UNCHANGED process

\* A write to a file that was closed fails.
ClosedFail(a) ==
  /\ "ledger" \notin open /\ h[a].step = "ledger" => h'[a].ledger = "lost"
  /\ "training" \notin open /\ h[a].step = "training" => h'[a].training = "lost"
  /\ "journal" \notin open /\ Len(h'[a].events) > Len(h[a].events) =>
       h'[a].events[Len(h'[a].events)].fate # "written"

Runs(a) == Handler(a) /\ ClosedFail(a) /\ UNCHANGED process

\* Callers and clocks, as long as there is a process they matter to.
Environment ==
  /\ main # "exited"
  /\ (\E a \in Handlers : CallerLeaves(a) \/ DeadlineFires(a)) \/ HourPasses \/ DayChanges
  /\ UNCHANGED process

-----------------------------------------------------------------------------
(* serveRuntime *)

\* Mutant: the ledger is closed on the signal.
Signal_closesLedger ==
  /\ main = "serving"
  /\ main' = "draining" /\ open' = open \ {"ledger"}
  /\ UNCHANGED <<vars, stopped>>

\* One signal is enough; nothing reads the channel after it.
Signal ==
  /\ main = "serving"
  /\ main' = "draining"
  /\ UNCHANGED <<vars, open, stopped>>

\* ListenAndServe returned: no Shutdown, the deferred Closes at once.
ListenerFails ==
  /\ main = "serving"
  /\ main' = "closing" /\ stopped' = "listener"
  /\ UNCHANGED <<vars, open>>

ShutdownDrained ==
  /\ main = "draining" /\ Busy = {}
  /\ main' = "closing" /\ stopped' = "drained"
  /\ UNCHANGED <<vars, open>>

ShutdownGivesUp ==
  /\ main = "draining"
  /\ main' = "closing" /\ stopped' = "timeout"
  /\ UNCHANGED <<vars, open>>

CloseNext ==
  /\ main = "closing"
  /\ \E n \in DOMAIN CloseOrder :
       /\ CloseOrder[n] \in open
       /\ \A m \in 1 .. n - 1 : CloseOrder[m] \notin open
       /\ open' = open \ {CloseOrder[n]}
  /\ UNCHANGED <<vars, main, stopped>>

\* The process is gone: its handlers, its counters and its caps with it.
Gone ==
  /\ h' = [a \in Handlers |-> NoAsk]
  /\ used' = 0 /\ windowOver' = FALSE /\ windowCalls' = 0
  /\ spent' = 0 /\ dayChanged' = FALSE
  /\ counters' = [k \in Kinds |-> 0] /\ missing' = [k \in Kinds |-> 0]
  /\ main' = "exited"

Exit == main = "closing" /\ open = {} /\ Gone /\ UNCHANGED <<open, stopped>>

Kill == main # "exited" /\ Gone /\ open' = {} /\ stopped' = "killed"

Restart ==
  /\ main = "exited"
  /\ main' = "serving" /\ open' = Files /\ stopped' = "no"
  /\ UNCHANGED vars

-----------------------------------------------------------------------------
Stops == ShutdownDrained \/ ShutdownGivesUp \/ CloseNext \/ Exit

LifeNext ==
  \/ \E a \in Handlers : Accepts(a) \/ Runs(a)
  \/ Environment \/ Signal \/ ListenerFails \/ Stops \/ Kill \/ Restart

LifeSpec == LifeInit /\ [][LifeNext]_lvars

-----------------------------------------------------------------------------
\* A file is closed under a handler only where Shutdown's ten seconds were not
\* enough or the listener failed; a Shutdown that returned nil closes under
\* nobody, so every ask it waited for has its lines.
ClosedUnderNobody ==
  Busy # {} /\ open # Files => stopped \in {"timeout", "listener"}

\* Wherever a kill stops an ask, its lines are there in the order a reader
\* relies on: no training line, and no journalled answer, of an answer whose
\* ledger line was not tried first, and no journalled answer of a templated ask
\* before its training line was.
RecordsFollowTheLedger ==
  \A a \in Handlers :
    /\ h[a].training # "no" => h[a].ledger # "no"
    /\ \A n \in DOMAIN h[a].events : h[a].events[n].type = "answer" =>
         h[a].ledger # "no" /\ (h[a].trainable => h[a].training # "no")
=============================================================================
