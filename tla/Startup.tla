------------------------------ MODULE Startup ------------------------------
(***************************************************************************)
(* cmd/typryx, from the environment to a listening socket: loadConfigAt    *)
(* and loadProxyConfig, the template directory, the key table of the door, *)
(* and buildService, which opens the journal, the ledger and the training  *)
(* log in that order and closes what it opened when a later one fails.     *)
(* `typryx serve` and `typryx wardryx-proxy` start alike.                  *)
(***************************************************************************)
EXTENDS Naturals, Sequences, FiniteSets

CONSTANTS Envs,         \* the environments a process may be started in
          Identities    \* the well-formed agent:// identities

\* A directory is listed in order, and a name of a template is never what stands
\* for one that a request leaves out or gives as a number.
ASSUME StartupAssumption ==
  \A e \in Envs :
    /\ DOMAIN e.dir \subseteq Nat
    /\ \A i \in DOMAIN e.dir : e.dir[i].id \notin {"absent", "number"}

VARIABLES
  env,       \* the environment and files this process was given
  phase,     \* where main is
  open,      \* the sinks that are open
  touched,   \* the sinks that were opened at any time: created, or truncated
  code       \* the exit code, once exited

startup == <<env, phase, open, touched, code>>

Sinks  == {"journal", "ledger", "training"}
Phases == {"config", "journal", "ledger", "training", "listen", "listening", "exited"}
Types  == {"choice", "score", "noul"}

StartInit ==
  /\ env \in Envs
  /\ phase = "config" /\ open = {} /\ touched = {} /\ code = 0

-----------------------------------------------------------------------------
(* internal/template.LoadDir.  A directory is its entries in the order     *)
(* ReadDir gives them.                                                     *)

JsonFiles(e) == {i \in DOMAIN e.dir : e.dir[i].json}

Parsed(e) == {i \in JsonFiles(e) : e.dir[i].loads = "valid"}

Duplicates(e) == {i \in Parsed(e) : \E j \in Parsed(e) : j < i /\ e.dir[j].id = e.dir[i].id}

\* Mutant: a second template of one id goes unreported.
LoadErrors_noDuplicates(e) == JsonFiles(e) \ Parsed(e)

LoadErrors(e) == (JsonFiles(e) \ Parsed(e)) \cup Duplicates(e)

\* The first file with an id is the one kept.
Registered(e) == Parsed(e) \ Duplicates(e)

Known(e, id) == \E i \in Registered(e) : e.dir[i].id = id

Template(e, id) == e.dir[CHOOSE i \in Registered(e) : e.dir[i].id = id]

-----------------------------------------------------------------------------
(* internal/door: the key table TYPRYX_KEYS is parsed into.                *)

Entries(e) == {i \in DOMAIN e.keys : e.keys[i].key # ""}

Accepted(e) == {e.keys[i].key : i \in Entries(e)}

Configured(e) == Accepted(e) # {}

\* The entries that bind an identity to k; the last of them counts.
Bindings(e, k) == {i \in Entries(e) : e.keys[i].key = k /\ e.keys[i].id # ""}

Bound(e, k) ==
  IF Bindings(e, k) = {} THEN ""
  ELSE e.keys[CHOOSE i \in Bindings(e, k) : \A j \in Bindings(e, k) : j <= i].id

Allow(e, k) == ~Configured(e) \/ k \in Accepted(e)

Identity(e, k) == IF Allow(e, k) THEN Bound(e, k) ELSE ""

-----------------------------------------------------------------------------
(* What refuses a configuration. *)

Unpriced(e) == e.backend = "stub" \/ e.price \in {"unset", "zero"}

BackendRefused(e) ==
  \/ e.backend \notin {"stub", "openai-logprobs", "jev"}
  \/ e.backend # "stub" /\ (~e.settings \/ e.price \in {"malformed", "negative"})

TemplatesRefused(e) == ~e.readable \/ LoadErrors(e) # {}

LimitsRefused(e) ==
  \/ e.hourly \in {"malformed", "negative"}
  \/ e.timeout \in {"malformed", "negative", "zero"}
  \/ e.usd \in {"malformed", "negative"}
  \/ e.usd = "positive" /\ Unpriced(e)

\* Mutant: only the first entry's identity is looked at.
IdentitiesRefused_first(e) ==
  Len(e.keys) > 0 /\ Bound(e, e.keys[1].key) \notin Identities \cup {""}

IdentitiesRefused(e) == \E k \in Accepted(e) : Bound(e, k) \notin Identities \cup {""}

ConfigRefused(e) ==
  BackendRefused(e) \/ TemplatesRefused(e) \/ LimitsRefused(e) \/ IdentitiesRefused(e)

OpenBindRefused(e) == e.wide /\ ~Configured(e) /\ ~e.openBind

\* What only the proxy asks for, after all of the above.
ProxyRefused(e) ==
  /\ e.command = "wardryx-proxy"
  /\ ~ /\ e.upstream /\ e.askTimeout \in {"unset", "positive"} /\ Known(e, e.template)
       /\ Template(e, e.template).type = "choice"
       /\ Template(e, e.template).fields \subseteq {"tool", "arguments", "target"}

-----------------------------------------------------------------------------
Exit(n) == phase' = "exited" /\ code' = n

\* Mutant: the bind is judged once everything is open.
LoadConfig_bindLater ==
  /\ phase = "config"
  /\ \/ ConfigRefused(env) /\ Exit(2)
     \/ ~ConfigRefused(env) /\ ProxyRefused(env) /\ Exit(2)
     \/ ~ConfigRefused(env) /\ ~ProxyRefused(env) /\ phase' = "journal" /\ UNCHANGED code
  /\ UNCHANGED <<env, open, touched>>

LoadConfig ==
  /\ phase = "config"
  /\ \/ ConfigRefused(env) /\ Exit(2)
     \/ ~ConfigRefused(env) /\ OpenBindRefused(env) /\ Exit(1)
     \/ ~ConfigRefused(env) /\ ~OpenBindRefused(env) /\ ProxyRefused(env) /\ Exit(2)
     \/ /\ ~(ConfigRefused(env) \/ OpenBindRefused(env) \/ ProxyRefused(env))
        /\ phase' = "journal" /\ UNCHANGED code
  /\ UNCHANGED <<env, open, touched>>

\* One sink of buildService; a failure closes the ones opened before it.
OpenSink(sink, earlier, next) ==
  /\ phase = sink
  /\ \/ /\ env.sinks[sink] = "off"
        /\ phase' = next /\ UNCHANGED <<open, touched, code>>
     \/ /\ env.sinks[sink] = "opens"
        /\ phase' = next /\ open' = open \cup {sink} /\ touched' = touched \cup {sink}
        /\ UNCHANGED code
     \/ /\ env.sinks[sink] = "fails"
        /\ Exit(1) /\ open' = open \ earlier /\ touched' = touched \cup {sink}
  /\ UNCHANGED env

OpenJournal  == OpenSink("journal", {}, "ledger")
OpenLedger   == OpenSink("ledger", {"journal"}, "training")

OpenTraining == OpenSink("training", {"journal", "ledger"}, "listen")

\* serveRuntime up to its select; a listener that fails returns at once and
\* the deferred Closes run.
Listen ==
  /\ phase = "listen"
  /\ \/ phase' = "listening" /\ UNCHANGED <<open, code>>
     \/ Exit(1) /\ open' = {}
  /\ UNCHANGED <<env, touched>>

Start == LoadConfig \/ OpenJournal \/ OpenLedger \/ OpenTraining \/ Listen

-----------------------------------------------------------------------------
\* Opening the ledger truncates it: a start that is refused for its
\* configuration, or for a wide bind without a credential, has not opened a
\* file, and one that fails later, however far it came, leaves none open.
RefusedStartTouchesNothing ==
  /\ code = 2 => touched = {}
  /\ env.wide /\ ~env.openBind /\ (\A i \in DOMAIN env.keys : env.keys[i].key = "") => touched = {}
  /\ phase = "exited" => open = {}
=============================================================================
