----------------------------- MODULE Door_proofs -----------------------------
(***************************************************************************)
(* Proofs about Startup and Door: what a process has checked before it     *)
(* opens a file, and what a request has shown before the service is called *)
(* for it, for any environments, identities and requests.                  *)
(***************************************************************************)
EXTENDS Door, TLAPS

-----------------------------------------------------------------------------
(* Startup.  What is open depends on how far buildService has come, and    *)
(* nothing was opened by a process that goes on to refuse its              *)
(* configuration.                                                          *)

Ready == ~ConfigRefused(env) /\ ~OpenBindRefused(env)

\* The sinks that may be open where main is.
Before ==
  [p \in Phases |-> CASE p \in {"config", "journal", "exited"} -> {}
                      [] p = "ledger" -> {"journal"}
                      [] p = "training" -> {"journal", "ledger"}
                      [] OTHER -> Sinks]

StartInv ==
  /\ env \in Envs /\ phase \in Phases /\ code \in 0 .. 2
  /\ touched \subseteq Sinks /\ open \subseteq Before[phase]
  /\ phase = "config" => touched = {}
  /\ phase \notin {"config", "exited"} => Ready
  /\ touched # {} => Ready /\ code # 2
  /\ code # 0 => phase = "exited"

\* Nothing is open or read when a process starts.
LEMMA StartInvInit == StartInit => StartInv
BY DEF StartInit, StartInv, Phases, Before

\* One sink of buildService, opened, off, or failing after those before it.
LEMMA SinkStep ==
  ASSUME StartInv, NEW sink \in Sinks, NEW next \in {"ledger", "training", "listen"},
         OpenSink(sink, Before[sink], next), Before[next] = Before[sink] \cup {sink}
  PROVE  StartInv'
<1>1. phase = sink /\ phase \notin {"config", "exited"} /\ Ready /\ env' = env
  BY DEF OpenSink, StartInv, Sinks
<1>2. Ready' /\ env' \in Envs
  BY <1>1 DEF StartInv, Ready, ConfigRefused, OpenBindRefused
<1>3. next \in Phases /\ "exited" \in Phases /\ Before["exited"] = {}
  BY DEF Phases, Before
<1>4. open \subseteq Before[sink] /\ touched \subseteq Sinks /\ code = 0
  BY <1>1 DEF StartInv
<1>5. CASE env.sinks[sink] = "off" /\ phase' = next /\ UNCHANGED <<open, touched, code>>
  BY <1>1, <1>2, <1>3, <1>4, <1>5 DEF StartInv
<1>6. CASE /\ phase' = next /\ open' = open \cup {sink} /\ touched' = touched \cup {sink}
           /\ UNCHANGED code
  BY <1>1, <1>2, <1>3, <1>4, <1>6 DEF StartInv
<1>7. CASE Exit(1) /\ open' = open \ Before[sink] /\ touched' = touched \cup {sink}
  BY <1>1, <1>2, <1>3, <1>4, <1>7 DEF StartInv, Exit
<1> QED
  BY <1>5, <1>6, <1>7 DEF OpenSink

\* Every step of a start keeps what it knows.
LEMMA StartStep == StartInv /\ Start => StartInv'
<1> SUFFICES ASSUME StartInv, Start PROVE StartInv'
  OBVIOUS
<1>1. CASE LoadConfig
  <2>1. phase = "config" /\ touched = {} /\ open = {} /\ code = 0
    BY <1>1 DEF LoadConfig, StartInv, Before, Phases
  <2>2. env' = env /\ open' = {} /\ touched' = {}
    BY <1>1, <2>1 DEF LoadConfig
  <2>3. CASE Exit(1) \/ Exit(2)
    BY <2>2, <2>3 DEF StartInv, Exit, Phases
  <2>4. CASE /\ ~(ConfigRefused(env) \/ OpenBindRefused(env) \/ ProxyRefused(env))
             /\ phase' = "journal" /\ UNCHANGED code
    <3>1. Ready'
      BY <2>2, <2>4 DEF Ready, ConfigRefused, OpenBindRefused
    <3> QED
      BY <2>1, <2>2, <2>4, <3>1 DEF StartInv, Phases
  <2> QED
    BY <1>1, <2>3, <2>4 DEF LoadConfig
<1>2. CASE OpenJournal
  <2>1. Before["journal"] = {} /\ Before["ledger"] = Before["journal"] \cup {"journal"}
    BY DEF Before, Phases
  <2> QED
    BY <1>2, <2>1, SinkStep DEF OpenJournal, Sinks
<1>3. CASE OpenLedger
  <2>1. /\ Before["ledger"] = {"journal"}
        /\ Before["training"] = Before["ledger"] \cup {"ledger"}
    BY DEF Before, Phases
  <2> QED
    BY <1>3, <2>1, SinkStep DEF OpenLedger, Sinks
<1>4. CASE OpenTraining
  <2>1. /\ Before["training"] = {"journal", "ledger"}
        /\ Before["listen"] = Before["training"] \cup {"training"}
    BY DEF Before, Phases, Sinks
  <2> QED
    BY <1>4, <2>1, SinkStep DEF OpenTraining, Sinks
<1>5. CASE Listen
  <2>1. phase = "listen" /\ Ready /\ env' = env /\ touched' = touched
    BY <1>5 DEF Listen, StartInv
  <2>2. Ready'
    BY <2>1 DEF Ready, ConfigRefused, OpenBindRefused
  <2>3. Before["listening"] = Sinks /\ Before["listen"] = Sinks /\ Before["exited"] = {}
    BY DEF Before, Phases
  <2>4. CASE phase' = "listening" /\ UNCHANGED <<open, code>>
    BY <2>1, <2>2, <2>3, <2>4 DEF StartInv, Phases
  <2>5. CASE Exit(1) /\ open' = {}
    BY <2>1, <2>2, <2>3, <2>5 DEF StartInv, Exit, Phases
  <2> QED
    BY <1>5, <2>4, <2>5 DEF Listen
<1> QED
  BY <1>1, <1>2, <1>3, <1>4, <1>5 DEF Start

\* A request changes nothing of the process.
LEMMA StartKept == StartInv /\ UNCHANGED startup => StartInv'
BY DEF StartInv, startup, Ready, ConfigRefused, OpenBindRefused

\* Every step of the process is a step of its start or of a request.
LEMMA StartNext == StartInv /\ [Next]_vars => StartInv'
<1> SUFFICES ASSUME StartInv, [Next]_vars PROVE StartInv'
  OBVIOUS
<1>1. CASE Start /\ UNCHANGED request
  BY <1>1, StartStep
<1>2. ASSUME NEW r \in Requests, Receive(r) PROVE UNCHANGED startup
  BY <1>2 DEF Receive
<1>3. CASE RouteV1 \/ RouteOpen \/ RouteMCP
  BY <1>3, StartKept DEF RouteV1, RouteOpen, RouteMCP, Knock, Answer, HandOn
<1>4. CASE ServeV1 \/ ServeMCP \/ Finish
  BY <1>4, StartKept
  DEF ServeV1, ServeMCP, Finish, ToolCall, Dispatch, Answer, Call
<1>5. CASE UNCHANGED vars
  BY <1>5, StartKept DEF vars
<1> QED
  BY <1>1, <1>2, <1>3, <1>4, <1>5, StartKept DEF Next

\* A start that is refused for its configuration or its bind has opened no file,
\* and one that fails later leaves none open, in every environment.
THEOREM RefusedTouchesNothing == Spec => []RefusedStartTouchesNothing
<1>1. StartInv => RefusedStartTouchesNothing
  <2> SUFFICES ASSUME StartInv PROVE RefusedStartTouchesNothing
    OBVIOUS
  <2>1. code = 2 => touched = {}
    BY DEF StartInv
  <2>2. ASSUME env.wide, ~env.openBind, \A i \in DOMAIN env.keys : env.keys[i].key = ""
        PROVE  touched = {}
    <3>1. ~Configured(env)
      BY <2>2 DEF Configured, Accepted, Entries
    <3> QED
      BY <2>2, <3>1 DEF StartInv, Ready, OpenBindRefused
  <2>3. phase = "exited" => open = {}
    BY DEF StartInv, Before, Phases
  <2> QED
    BY <2>1, <2>2, <2>3 DEF RefusedStartTouchesNothing
<1>2. Init => StartInv
  BY StartInvInit DEF Init
<1> QED
  BY <1>1, <1>2, StartNext, PTL DEF Spec

-----------------------------------------------------------------------------
(* The door.  From the bytes on the wire to the call the service is given: *)
(* what the message became on the way, and which credential let it in.     *)

Credentialed(key) == Allow(env, key) /\ agent = Identity(env, key)

V1Routes  == {"/v1/ask", "/v1/outcome", "/v1/templates"}
Rewritten == wire.route = "/mcp" /\ env.metaKeys /\ wire.method = "POST"

\* What withDoor and handleMCPRoute hand on.
HandedOn ==
  \/ /\ wire.route \in V1Routes \cup {"/mcp"} /\ ~Rewritten
     /\ body = wire.msg /\ Credentialed(wire.header)
  \/ /\ Rewritten /\ body = Forwarded(wire.msg)
     /\ Credentialed(Key) \/ (NeedsNoCredential(body) /\ agent = "")

\* A message that reaches the tools.
ToolsCall == Preamble(body) = "pass" /\ body.method = "tools/call" /\ body.params = "object"

TurnedAway(m) == m.tool \notin Tools \/ ~Validated(m) \/ Str(m.args.run) = "bad"

\* The reply to an ask over MCP.
AskReplied ==
  wire.route = "/mcp" /\ ToolsCall /\ body.tool \in {"ask", "ask_freeform"} =>
    IF TurnedAway(body) THEN reply # "asked" ELSE reply = Judge(McpCall(body.args))

\* What a call that was made says of its request.
CallMade ==
  /\ called # NoCall => called.op \in {"ask", "outcome"} /\ called.agent = agent
  /\ called.op = "ask" => reply = Judge(called)
  /\ wire.route = "/mcp" /\ Served => ToolsCall

DoorInv ==
  /\ agent \in Identities \cup {""}
  /\ at \in {"idle", "route", "serve", "done"}
  /\ at # "idle" => phase = "listening" /\ wire \in Wire
  /\ at # "done" => called = NoCall /\ reply = "none"
  /\ at \in {"idle", "route"} => agent = "" /\ body = NoMessage
  /\ at = "serve" => HandedOn
  /\ at = "done" => ((body = NoMessage /\ ~Served) \/ HandedOn) /\ CallMade /\ AskReplied

\* A key that is not accepted binds nothing, and one that is binds an identity
\* that startup checked.
LEMMA IdentityChecked ==
  ASSUME Ready, NEW key
  PROVE  /\ Identity(env, key) \in Identities \cup {""}
         /\ key \notin Accepted(env) => Bound(env, key) = ""
<1>1. key \notin Accepted(env) => Bindings(env, key) = {}
  BY DEF Accepted, Bindings, Entries
<1>2. key \notin Accepted(env) => Bound(env, key) = ""
  BY <1>1 DEF Bound
<1>3. key \in Accepted(env) => Bound(env, key) \in Identities \cup {""}
  BY DEF Ready, ConfigRefused, IdentitiesRefused
<1> QED
  BY <1>2, <1>3 DEF Identity

\* What is handed on stays so while the process, the request and the agent do.
LEMMA HandedOnStays ==
  HandedOn /\ UNCHANGED <<env, wire, body, agent>> => HandedOn'
BY DEF HandedOn, Rewritten, Credentialed, Key

\* The door lets a request through with the identity of its credential.
LEMMA KnockKeeps ==
  ASSUME StartInv, DoorInv, at = "route", NEW key, NEW msg, Knock(key, msg),
         Allow(env, key) /\ body' = msg /\ agent' = Identity(env, key)
           /\ UNCHANGED <<env, wire>> => HandedOn'
  PROVE  DoorInv'
<1>1. /\ phase = "listening" /\ wire \in Wire /\ called = NoCall /\ reply = "none"
      /\ agent = "" /\ body = NoMessage
  BY DEF DoorInv
<1>2. Ready
  BY <1>1 DEF StartInv
<1>3. CASE Answer("unauthorized")
  <2>1. at' = "done" /\ reply' = "unauthorized" /\ UNCHANGED <<phase, env, wire, body, agent, called>>
    BY <1>3 DEF Answer, startup
  <2>2. called' = NoCall /\ ~Served'
    BY <1>1, <2>1 DEF Served
  <2>3. CallMade' /\ AskReplied'
    <3>1. NoCall.op = "none"
      BY DEF NoCall
    <3>2. body' = NoMessage /\ Preamble(body)' # "pass"
      BY <1>1, <2>1 DEF Preamble, Decodes, NoMessage
    <3>3. ~ToolsCall'
      BY <3>2 DEF ToolsCall
    <3> QED
      BY <2>2, <3>1, <3>3 DEF CallMade, AskReplied
  <2> QED
    BY <1>1, <2>1, <2>2, <2>3 DEF DoorInv
<1>4. CASE Allow(env, key) /\ HandOn(msg, Identity(env, key))
  <2>1. /\ at' = "serve" /\ body' = msg /\ agent' = Identity(env, key)
        /\ UNCHANGED <<env, phase, wire, called, reply>>
    BY <1>4 DEF HandOn, startup
  <2>2. HandedOn'
    BY <1>4, <2>1
  <2>3. agent' \in Identities \cup {""}
    BY <1>2, <2>1, IdentityChecked
  <2> QED
    BY <1>1, <2>1, <2>2, <2>3 DEF DoorInv
<1> QED
  BY <1>3, <1>4 DEF Knock

\* What the MCP server makes of a message depends on nothing that serving it
\* changes.
LEMMA JudgedAlike ==
  ASSUME UNCHANGED <<env, wire, body, agent>>
  PROVE  /\ ToolsCall' <=> ToolsCall
         /\ TurnedAway(body)' <=> TurnedAway(body)
         /\ Judge(McpCall(body.args))' = Judge(McpCall(body.args))
<1>1. ToolsCall' <=> ToolsCall
  <2>1. Preamble(body)' = Preamble(body)
    BY DEF Preamble, Decodes
  <2> QED
    BY <2>1 DEF ToolsCall
<1>2. TurnedAway(body)' <=> TurnedAway(body)
  <2>1. Tools' = Tools
    BY DEF Tools
  <2>2. Validated(body)' <=> Validated(body)
    BY DEF Validated
  <2> QED
    BY <2>1, <2>2 DEF TurnedAway, Str
<1>3. Judge(McpCall(body.args))' = Judge(McpCall(body.args))
  <2>1. McpCall(body.args)' = McpCall(body.args)
    BY DEF McpCall, Str
  <2> DEFINE c == McpCall(body.args)
  <2>2. ASSUME NEW d PROVE Judge(d)' = Judge(d)
    BY DEF Judge, ValidQuestion, StateReason
  <2> QED
    BY <2>1, <2>2 DEF Judge, ValidQuestion, StateReason
<1> QED
  BY <1>1, <1>2, <1>3

\* A request is over, with a reply and perhaps a call, and all that led to it
\* is as it was.
LEMMA ServedKeeps ==
  ASSUME DoorInv, at = "serve", at' = "done",
         UNCHANGED <<startup, wire, body, agent>>, CallMade', AskReplied'
  PROVE  DoorInv'
<1>1. HandedOn /\ UNCHANGED <<env, phase>>
  BY DEF DoorInv, startup
<1>2. HandedOn'
  BY <1>1, HandedOnStays
<1> QED
  BY <1>1, <1>2 DEF DoorInv

\* An answer without a call.
LEMMA AnswerKeeps ==
  ASSUME DoorInv, at = "serve", NEW what, Answer(what), AskReplied',
         what = "questions" /\ wire.route = "/mcp" => ToolsCall
  PROVE  DoorInv'
<1>1. called = NoCall /\ UNCHANGED <<env, wire, body, agent, called>>
  BY DEF DoorInv, Answer, startup
<1>2. called' = NoCall /\ called'.op = "none"
  BY <1>1 DEF NoCall
<1>3. wire'.route = "/mcp" /\ Served' => ToolsCall'
  BY <1>1, <1>2, JudgedAlike DEF Served, Answer
<1>4. CallMade'
  BY <1>2, <1>3 DEF CallMade
<1> QED
  BY <1>4, ServedKeeps DEF Answer

\* A call of the service.
LEMMA CallKeeps ==
  ASSUME DoorInv, at = "serve", NEW c, NEW told, Call(c, told), AskReplied',
         c.op \in {"ask", "outcome"}, c.agent = agent, c.op = "ask" => told = Judge(c),
         wire.route = "/mcp" => ToolsCall
  PROVE  DoorInv'
<1>1. called' = c /\ reply' = told /\ UNCHANGED <<env, wire, body, agent>>
  BY DEF Call, startup
<1>2. called'.op = "ask" => reply' = Judge(called)'
  BY <1>1 DEF Judge, ValidQuestion, StateReason
<1>3. CallMade'
  BY <1>1, <1>2, JudgedAlike DEF CallMade
<1> QED
  BY <1>3, ServedKeeps DEF Call

\* The /v1 handlers.
LEMMA V1Keeps ==
  ASSUME DoorInv, ServeV1
  PROVE  DoorInv'
<1>1. at = "serve" /\ wire.route # "/mcp" /\ agent' = agent /\ wire' = wire
  BY DEF ServeV1, Answer, Call
<1>2. AskReplied'
  BY <1>1 DEF AskReplied
<1>3. ASSUME NEW what, Answer(what) PROVE DoorInv'
  BY <1>1, <1>2, <1>3, AnswerKeeps
<1>4. CASE Call([op |-> "outcome", agent |-> agent], "outcome")
  <2> DEFINE c == [op |-> "outcome", agent |-> agent]
  <2>1. c.op = "outcome" /\ c.agent = agent
    OBVIOUS
  <2> HIDE DEF c
  <2>2. Call(c, "outcome")
    BY <1>4 DEF c
  <2> QED
    BY <1>1, <1>2, <2>1, <2>2, CallKeeps
<1>5. CASE Call(HttpCall(body.args), Judge(HttpCall(body.args)))
  <2>1. HttpCall(body.args).op = "ask" /\ HttpCall(body.args).agent = agent
    BY DEF HttpCall
  <2> QED
    BY <1>1, <1>2, <1>5, <2>1, CallKeeps
<1> QED
  BY <1>3, <1>4, <1>5 DEF ServeV1

\* The MCP server.
LEMMA MCPKeeps ==
  ASSUME DoorInv, ServeMCP
  PROVE  DoorInv'
<1>1. at = "serve" /\ UNCHANGED <<env, wire, body, agent>>
  BY DEF ServeMCP, ToolCall, Dispatch, Answer, Call, startup
<1>2. ASSUME NEW what, Answer(what), ~ToolsCall, what # "questions" PROVE DoorInv'
  BY <1>1, <1>2, JudgedAlike, AnswerKeeps DEF AskReplied
<1>3. ASSUME NEW what, Answer(what), TurnedAway(body), what \notin {"asked", "questions"}
      PROVE  DoorInv'
  <2>1. AskReplied'
    BY <1>1, <1>3, JudgedAlike DEF AskReplied, Answer
  <2> QED
    BY <1>1, <1>3, <2>1, AnswerKeeps
<1>4. CASE Preamble(body) # "pass" /\ Answer(Preamble(body))
  <2>1. Preamble(body) # "questions"
    BY DEF Preamble
  <2> QED
    BY <1>2, <1>4, <2>1 DEF ToolsCall
<1>5. CASE body.method # "tools/call" /\ \E what : Answer(what) /\ what # "questions"
  BY <1>2, <1>5 DEF ToolsCall
<1>6. CASE /\ Preamble(body) = "pass" /\ body.method = "tools/call" /\ ToolCall(body)
  <2>1. CASE body.params # "object" /\ Answer("invalid_params")
    BY <1>2, <2>1 DEF ToolsCall
  <2>2. CASE body.tool \notin Tools /\ Answer("method_not_found")
    BY <1>3, <2>2 DEF TurnedAway
  <2>3. CASE ~Validated(body) /\ Answer("invalid_params")
    BY <1>3, <2>3 DEF TurnedAway
  <2>4. CASE /\ body.params = "object" /\ body.tool \in Tools /\ Validated(body)
             /\ Dispatch(body)
    <3>1. ToolsCall
      BY <1>6, <2>4 DEF ToolsCall
    <3>2. CASE body.tool = "list_questions" /\ Answer("questions")
      BY <1>1, <3>1, <3>2, AnswerKeeps DEF AskReplied
    <3>3. CASE Str(body.args.run) = "bad" /\ Answer("bad_run_id")
      BY <1>3, <3>3 DEF TurnedAway
    <3>4. CASE /\ Str(body.args.run) # "bad"
               /\ Call(McpCall(body.args), Judge(McpCall(body.args)))
      <4>1. ~TurnedAway(body)
        BY <2>4, <3>4 DEF TurnedAway
      <4>2. reply' = Judge(McpCall(body.args))
        BY <3>4 DEF Call
      <4>3. AskReplied'
        BY <1>1, <4>1, <4>2, JudgedAlike DEF AskReplied
      <4>4. McpCall(body.args).op = "ask" /\ McpCall(body.args).agent = agent
        BY DEF McpCall
      <4> QED
        BY <1>1, <3>1, <3>4, <4>3, <4>4, CallKeeps
    <3> QED
      BY <2>4, <3>2, <3>3, <3>4 DEF Dispatch
  <2> QED
    BY <1>6, <2>1, <2>2, <2>3, <2>4 DEF ToolCall
<1> QED
  <2>1. CASE /\ Preamble(body) = "pass"
             /\ \/ body.method \in {"initialize", "tools/list"} /\ Answer(body.method)
                \/ body.method = "notifications/initialized" /\ Answer("accepted")
                \/ body.method = "other" /\ Answer("method_not_found")
    BY <1>5, <2>1
  <2> QED
    BY <1>4, <1>6, <2>1 DEF ServeMCP

\* The routes that need no credential.
LEMMA OpenKeeps ==
  ASSUME DoorInv, RouteOpen
  PROVE  DoorInv'
<1>1. /\ at = "route" /\ phase = "listening" /\ wire \in Wire /\ called = NoCall
      /\ agent = "" /\ body = NoMessage /\ wire.route # "/mcp"
  BY DEF RouteOpen, DoorInv
<1>2. PICK what \in {"health", "not_found"} : Answer(what)
  BY DEF RouteOpen
<1>3. /\ at' = "done" /\ reply' = what
      /\ UNCHANGED <<phase, env, wire, body, agent, called>>
  BY <1>2 DEF Answer, startup
<1>4. ~Served' /\ called' = NoCall /\ called'.op = "none"
  BY <1>1, <1>3 DEF Served, NoCall
<1>5. CallMade' /\ AskReplied'
  BY <1>1, <1>3, <1>4 DEF CallMade, AskReplied
<1> QED
  BY <1>1, <1>3, <1>4, <1>5 DEF DoorInv

\* /mcp, with the credential taken from wherever the client put it.
LEMMA RouteMCPKeeps ==
  ASSUME StartInv, DoorInv, RouteMCP
  PROVE  DoorInv'
<1>1. /\ at = "route" /\ wire.route = "/mcp" /\ phase = "listening" /\ wire \in Wire
      /\ called = NoCall /\ reply = "none" /\ agent = "" /\ body = NoMessage
  BY DEF RouteMCP, DoorInv
<1>2. CASE ~(env.metaKeys /\ wire.method = "POST") /\ Knock(wire.header, wire.msg)
  <2>1. ASSUME Allow(env, wire.header), body' = wire.msg,
               agent' = Identity(env, wire.header), UNCHANGED <<env, wire>>
        PROVE  HandedOn'
    BY <1>1, <1>2, <2>1 DEF HandedOn, Rewritten, Credentialed
  <2> QED
    BY <1>1, <1>2, <2>1, KnockKeeps
<1>3. CASE env.metaKeys /\ wire.method = "POST" /\ Answer("bad_request")
  <2>1. /\ at' = "done" /\ reply' = "bad_request"
        /\ UNCHANGED <<phase, env, wire, body, agent, called>>
    BY <1>3 DEF Answer, startup
  <2>2. ~Served' /\ called' = NoCall /\ called'.op = "none"
    BY <1>1, <2>1 DEF Served, NoCall
  <2>3. ~ToolsCall'
    <3>1. body' = NoMessage
      BY <1>1, <2>1
    <3>2. Preamble(body)' # "pass"
      BY <3>1 DEF Preamble, Decodes, NoMessage
    <3> QED
      BY <3>2 DEF ToolsCall
  <2>4. CallMade' /\ AskReplied'
    BY <2>2, <2>3 DEF CallMade, AskReplied
  <2> QED
    BY <1>1, <2>1, <2>2, <2>4 DEF DoorInv
<1>4. CASE /\ env.metaKeys /\ wire.method = "POST"
           /\ NeedsNoCredential(Judged) /\ HandOn(Forwarded(wire.msg), "")
  <2>1. /\ at' = "serve" /\ body' = Forwarded(wire.msg) /\ agent' = ""
        /\ UNCHANGED <<phase, env, wire, called, reply>>
    BY <1>4 DEF HandOn, startup
  <2>2. Forwarded(wire.msg)' = Forwarded(wire.msg)
    BY <2>1 DEF Forwarded
  <2>3. HandedOn'
    BY <1>1, <1>4, <2>1, <2>2 DEF HandedOn, Rewritten, Judged
  <2> QED
    BY <1>1, <2>1, <2>3 DEF DoorInv
<1>5. CASE env.metaKeys /\ wire.method = "POST" /\ Knock(Key, Forwarded(wire.msg))
  <2>1. ASSUME Allow(env, Key), body' = Forwarded(wire.msg),
               agent' = Identity(env, Key), UNCHANGED <<env, wire>>
        PROVE  HandedOn'
    <3>1. Forwarded(wire.msg)' = Forwarded(wire.msg) /\ Key' = Key
      BY <2>1 DEF Forwarded, Key
    <3> QED
      BY <1>1, <1>5, <2>1, <3>1 DEF HandedOn, Rewritten, Credentialed
  <2> QED
    BY <1>1, <1>5, <2>1, KnockKeeps
<1> QED
  BY <1>2, <1>3, <1>4, <1>5 DEF RouteMCP

\* Every step of the process or of a request keeps what the door knows.
LEMMA DoorStep == StartInv /\ DoorInv /\ [Next]_vars => DoorInv'
<1> SUFFICES ASSUME StartInv, DoorInv, [Next]_vars PROVE DoorInv'
  OBVIOUS
<1>1. CASE Start /\ UNCHANGED request
  <2>1. phase # "listening"
    BY <1>1 DEF Start, LoadConfig, OpenJournal, OpenLedger, OpenTraining, OpenSink, Listen
  <2>2. at = "idle" /\ UNCHANGED <<wire, at, body, agent, called, reply>>
    BY <1>1, <2>1 DEF request, DoorInv
  <2> QED
    BY <2>2 DEF DoorInv
<1>2. ASSUME NEW r \in Requests, Receive(r) PROVE DoorInv'
  BY <1>2, DoorAssumption DEF Receive, DoorInv, startup
<1>3. CASE RouteV1
  <2>1. ASSUME Allow(env, wire.header), body' = wire.msg,
               agent' = Identity(env, wire.header), UNCHANGED <<env, wire>>
        PROVE  HandedOn'
    BY <1>3, <2>1 DEF RouteV1, HandedOn, V1Routes, Rewritten, Credentialed
  <2> QED
    BY <1>3, <2>1, KnockKeeps DEF RouteV1
<1>4. CASE RouteOpen
  BY <1>4, OpenKeeps
<1>5. CASE RouteMCP
  BY <1>5, RouteMCPKeeps
<1>6. CASE ServeV1
  BY <1>6, V1Keeps
<1>7. CASE ServeMCP
  BY <1>7, MCPKeeps
<1>8. CASE Finish
  BY <1>8 DEF Finish, DoorInv, startup
<1>9. CASE UNCHANGED vars
  <2>1. UNCHANGED <<env, phase, wire, at, body, agent, called, reply>>
    BY <1>9 DEF vars, startup, request
  <2>2. HandedOn => HandedOn'
    BY <2>1, HandedOnStays
  <2>3. AskReplied => AskReplied'
    BY <2>1, JudgedAlike DEF AskReplied
  <2>4. CallMade => CallMade'
    <3>1. Judge(called)' = Judge(called)
      BY <2>1 DEF Judge, ValidQuestion, StateReason
    <3>2. Served' <=> Served
      BY <2>1 DEF Served
    <3> QED
      BY <2>1, <3>1, <3>2, JudgedAlike DEF CallMade
  <2>5. Served' <=> Served
    BY <2>1 DEF Served
  <2> QED
    BY <2>1, <2>2, <2>3, <2>4, <2>5 DEF DoorInv
<1> QED
  BY <1>1, <1>2, <1>3, <1>4, <1>5, <1>6, <1>7, <1>8, <1>9 DEF Next

\* What the door knows, at every moment and for every process and request.
LEMMA DoorCorrect == Spec => [](StartInv /\ DoorInv)
<1>1. Init => StartInv /\ DoorInv
  BY StartInvInit DEF Init, DoorInit, DoorInv
<1> QED
  BY <1>1, StartNext, DoorStep, PTL DEF Spec

\* Every agent the door resolves is a well-formed identity or none, whatever
\* key table the process was given.
THEOREM DoorTypes == Spec => []TypeOK
<1>1. StartInv /\ DoorInv => TypeOK
  <2> SUFFICES ASSUME StartInv, DoorInv PROVE TypeOK
    OBVIOUS
  <2>1. open \subseteq Sinks
    BY DEF StartInv, Before, Phases, Sinks
  <2>2. called.op \in {"none", "ask", "outcome"}
    <3>1. NoCall.op = "none"
      BY DEF NoCall
    <3> QED
      BY <3>1 DEF DoorInv, CallMade
  <2> QED
    BY <2>1, <2>2 DEF StartInv, DoorInv, TypeOK
<1> QED
  BY <1>1, DoorCorrect, PTL

\* Who is served presented a credential, unless the message needed none, and
\* then it was not served.
LEMMA ServedCredential ==
  ASSUME StartInv, DoorInv, Served
  PROVE  /\ Ready
         /\ called # NoCall => called.agent = agent
         /\ \/ ~Rewritten /\ body = wire.msg /\ Credentialed(wire.header)
            \/ Rewritten /\ body = Forwarded(wire.msg) /\ Credentialed(Key)
         /\ wire.route = "/mcp" => wire.method = "POST" /\ ToolsCall /\ Decodes(body)
<1>1. at = "done" /\ HandedOn /\ CallMade /\ phase = "listening"
  BY DEF DoorInv, Served
<1>2. Ready
  BY <1>1 DEF StartInv
<1>3. wire.route = "/mcp" =>
        wire.method = "POST" /\ ToolsCall /\ Decodes(body) /\ ~NeedsNoCredential(body)
  BY <1>1 DEF CallMade, ToolsCall, Preamble, NeedsNoCredential
<1> QED
  BY <1>1, <1>2, <1>3 DEF HandedOn, CallMade, Rewritten

\* The service is called in the name the operator bound to the credential the
\* client presented, and for nobody without one where one is configured,
\* whatever is sent and however a message was rewritten on the way.
THEOREM AgentOfTheCredential == Spec => []AgentIsTheCredentials
<1>1. StartInv /\ DoorInv => AgentIsTheCredentials
  <2> SUFFICES ASSUME StartInv, DoorInv, Served
               PROVE  /\ Presented \notin Accepted(env) => ~env.wide \/ env.openBind
                      /\ Configured(env) => Presented \in Accepted(env)
                      /\ agent = (IF Presented \in Accepted(env) THEN Bound(env, Presented) ELSE "")
                      /\ agent \in Identities \cup {""}
                      /\ called # NoCall => called.agent = agent
    BY DEF AgentIsTheCredentials
  <2>1. Ready /\ (called # NoCall => called.agent = agent)
    BY ServedCredential
  <2>2. "" \notin Accepted(env)
    BY DEF Accepted, Entries
  <2>3. PICK key : /\ Credentialed(key)
                   /\ key = Presented \/ (key = "" /\ Presented \notin {""})
    <3>1. CASE ~Rewritten /\ Credentialed(wire.header)
      <4>1. wire.route = "/mcp" => ~env.metaKeys
        BY <3>1, ServedCredential DEF Rewritten
      <4>2. Presented = wire.header
        BY <4>1 DEF Presented
      <4> QED
        BY <3>1, <4>2
    <3>2. CASE Rewritten /\ Credentialed(Key)
      <4>1. CASE wire.header # ""
        BY <3>2, <4>1 DEF Key, Presented
      <4>2. CASE wire.header = "" /\ CarriesKey(wire.msg)
        BY <3>2, <4>2 DEF Key, Presented, CarriesKey, Rewritten
      <4>3. CASE wire.header = "" /\ ~CarriesKey(wire.msg)
        BY <3>2, <4>3 DEF Key
      <4> QED
        BY <4>1, <4>2, <4>3
    <3> QED
      BY <3>1, <3>2, ServedCredential
  <2>4. Allow(env, key) /\ agent = Bound(env, key)
    BY <2>3 DEF Credentialed, Identity
  <2>5. CASE key = Presented
    <3>1. Presented \notin Accepted(env) => ~Configured(env)
      BY <2>4, <2>5 DEF Allow
    <3>2. Presented \notin Accepted(env) => ~env.wide \/ env.openBind
      BY <2>1, <3>1 DEF Ready, OpenBindRefused
    <3> QED
      BY <2>1, <2>4, <2>5, <3>1, <3>2, IdentityChecked DEF DoorInv
  <2>6. CASE key = ""
    <3>1. ~Configured(env) /\ Accepted(env) = {}
      BY <2>2, <2>4, <2>6 DEF Allow, Configured
    <3>2. ~env.wide \/ env.openBind
      BY <2>1, <3>1 DEF Ready, OpenBindRefused
    <3> QED
      BY <2>1, <2>4, <3>1, <3>2, IdentityChecked DEF DoorInv
  <2> QED
    BY <2>3, <2>5, <2>6
<1> QED
  BY <1>1, DoorCorrect, PTL

\* What is handed on has the arguments that were sent.
LEMMA BodyArgs ==
  ASSUME HandedOn, wire \in Wire
  PROVE  body.args \in Args
<1>1. wire.msg \in Message /\ wire.msg.args \in Args
  BY DEF Wire, Message
<1>2. Stripped(wire.msg).args = wire.msg.args
  BY <1>1 DEF Stripped, Message
<1>3. body = wire.msg \/ body = Stripped(wire.msg)
  BY DEF HandedOn, Forwarded
<1> QED
  BY <1>1, <1>2, <1>3

\* What the MCP server executes carries no credential, or was let through
\* without it, with bytes after it that no parser of one value takes.
THEOREM CredentialNotForwarded == Spec => []CredentialStripped
<1>1. StartInv /\ DoorInv => CredentialStripped
  <2> SUFFICES ASSUME StartInv, DoorInv, at = "done", Served, wire.route = "/mcp",
                      env.metaKeys, body.meta \notin {"none", "number"}
               PROVE  body.shape = "trailing" /\ Allow(env, wire.header)
    BY DEF CredentialStripped
  <2>1. /\ body = Forwarded(wire.msg) /\ Credentialed(Key) /\ ToolsCall /\ Decodes(body)
        /\ wire \in Wire
    BY ServedCredential DEF Rewritten, DoorInv
  <2>2. ~CarriesKey(wire.msg)
    BY <2>1 DEF Forwarded, Stripped, Wire, Message
  <2>3. body = wire.msg /\ Key = wire.header
    BY <2>1, <2>2 DEF Forwarded, Key
  <2>4. body.shape # "value"
    BY <2>1, <2>2, <2>3 DEF CarriesKey, ToolsCall
  <2> QED
    BY <2>1, <2>3, <2>4 DEF Decodes, Credentialed
<1> QED
  BY <1>1, DoorCorrect, PTL

\* A process that started has one file for each template id, and keeps it.
LEMMA OneFile ==
  ASSUME StartInv, Ready, NEW i \in JsonFiles(env)
  PROVE  /\ i \in Registered(env)
         /\ \A j \in Registered(env) : env.dir[j].id = env.dir[i].id => j = i
         /\ Template(env, env.dir[i].id) = env.dir[i]
<1>1. JsonFiles(env) = Parsed(env) /\ Duplicates(env) = {}
  BY DEF Ready, ConfigRefused, TemplatesRefused, LoadErrors, Parsed
<1>2. JsonFiles(env) \subseteq Nat
  BY StartupAssumption DEF StartInv, JsonFiles
<1>3. i \in Registered(env)
  BY <1>1 DEF Registered
<1>4. \A j \in Registered(env) : env.dir[j].id = env.dir[i].id => j = i
  <2> SUFFICES ASSUME NEW j \in Registered(env), env.dir[j].id = env.dir[i].id, j # i
               PROVE  FALSE
    OBVIOUS
  <2>1. j < i \/ i < j
    BY <1>1, <1>2 DEF Registered
  <2> QED
    BY <1>1, <2>1 DEF Registered, Duplicates
<1> DEFINE k == CHOOSE j \in Registered(env) : env.dir[j].id = env.dir[i].id
<1>5. k \in Registered(env) /\ env.dir[k].id = env.dir[i].id
  BY <1>3
<1>6. k = i
  BY <1>4, <1>5
<1> QED
  BY <1>3, <1>4, <1>6 DEF Template

\* No more leaves for a templated ask than every file that names its template
\* allows, whatever directory the process was given.
THEOREM FieldsLeaveByName == Spec => []OnlyNamedFieldsLeave
<1>1. StartInv /\ DoorInv => OnlyNamedFieldsLeave
  <2> SUFFICES ASSUME StartInv, DoorInv, called.op = "ask", ~called.freeform,
                      NEW i \in JsonFiles(env), env.dir[i].id = called.template
               PROVE  Egress(called) \subseteq env.dir[i].fields
    BY DEF OnlyNamedFieldsLeave
  <2>1. at = "done" /\ phase = "listening"
    <3>1. called # NoCall
      BY DEF NoCall
    <3> QED
      BY <3>1 DEF DoorInv
  <2>2. Template(env, called.template) = env.dir[i]
    BY <2>1, OneFile DEF StartInv
  <2> QED
    BY <2>2 DEF Egress
<1> QED
  BY <1>1, DoorCorrect, PTL

\* One ask is judged alike whichever front end decoded it.
LEMMA SameJudgement ==
  ASSUME NEW a \in Args, HttpDecodes(a), a.state.sentLarge = a.state.againLarge
  PROVE  Judge(McpCall(a)) = Judge(HttpCall(a))
<1> DEFINE m == McpCall(a)
           c == HttpCall(a)
<1>1. /\ m.template = c.template /\ (m.freeform <=> c.freeform)
      /\ m.state.kind = c.state.kind /\ m.state.large = c.state.large
  BY DEF McpCall, HttpCall, Str, HttpDecodes
<1>2. ValidQuestion(m.question) <=> ValidQuestion(c.question)
  <2>1. a.question \in Question /\ c.question = a.question
    BY DEF Args, HttpCall
  <2>2. /\ m.question.type = a.question.type
        /\ m.question.instructions = a.question.instructions
        /\ m.question.criteria = IF a.question # NoQuestion /\ a.question.criteria = "absent"
                                 THEN "null" ELSE a.question.criteria
    BY <2>1 DEF McpCall, Question
  <2> QED
    BY <2>1, <2>2 DEF ValidQuestion
<1>3. StateReason(m.state) = StateReason(c.state)
  BY <1>1 DEF StateReason
<1> HIDE DEF m, c
<1>4. Judge(m) = Judge(c)
  BY <1>1, <1>2, <1>3 DEF Judge
<1> QED
  BY <1>4 DEF m, c

\* What the MCP server turns away, /v1/ask would not have asked.
LEMMA TurnedAwayEverywhere ==
  ASSUME StartInv, TurnedAway(body), body.args \in Args, HttpDecodes(body.args),
         body.tool \in {"ask", "ask_freeform"},
         body.tool = "ask" <=> body.args.question = NoQuestion,
         body.tool = "ask_freeform" => body.args.template = "absent"
  PROVE  OverHttp # "asked"
<1> DEFINE a == body.args
           c == HttpCall(a)
<1>1. /\ c.template = a.template /\ (c.freeform <=> a.question # NoQuestion)
      /\ c.question = a.question /\ c.state.kind = a.state.kind
  BY DEF HttpCall
<1>2. CASE a.run = "bad"
  BY <1>2 DEF OverHttp
<1> SUFFICES ASSUME a.run # "bad" PROVE Judge(c) # "asked"
  BY <1>2 DEF OverHttp
<1>3. c.state.kind # "object" => StateReason(c.state) # "asked"
  BY DEF StateReason
<1>4. Str(a.run) # "bad"
  BY DEF Str
<1> HIDE DEF c
<1>5. CASE body.tool = "ask"
  <2>1. ~Validated(body)
    BY <1>4, <1>5 DEF TurnedAway, Tools
  <2>2. a.template = "absent" \/ a.state.kind = "absent"
    BY <1>5, <2>1 DEF Validated
  <2>3. ~Known(env, "absent")
    BY StartupAssumption DEF StartInv, Known, Registered, Parsed, JsonFiles
  <2>4. ~c.freeform
    BY <1>1, <1>5
  <2> QED
    BY <1>1, <1>3, <2>2, <2>3, <2>4 DEF Judge
<1>6. CASE body.tool = "ask_freeform"
  <2>1. c.freeform
    BY <1>1, <1>6
  <2>2. CASE ~env.freeform
    BY <2>1, <2>2 DEF Judge
  <2>3. CASE env.freeform
    <3>1. ~Validated(body)
      BY <1>4, <1>6, <2>3 DEF TurnedAway, Tools
    <3>2. \/ a.state.kind = "absent" \/ a.question.type \notin Types
          \/ a.question.instructions = "absent"
      BY <1>6, <3>1 DEF Validated
    <3>3. c.state.kind = "absent" \/ ~ValidQuestion(c.question)
      BY <1>1, <3>2 DEF ValidQuestion
    <3> QED
      BY <1>3, <2>1, <2>3, <3>3 DEF Judge
  <2> QED
    BY <2>2, <2>3
<1> QED
  BY <1>5, <1>6

\* An ask means the same through either front end, for every message.
THEOREM BothDoorsAgree == Spec => []DoorsAgree
<1>1. StartInv /\ DoorInv => DoorsAgree
  <2> SUFFICES ASSUME StartInv, DoorInv, at = "done", wire.route = "/mcp",
                      ToolsCall, body.tool \in {"ask", "ask_freeform"},
                      body.tool = "ask" <=> body.args.question = NoQuestion,
                      body.tool = "ask_freeform" => body.args.template = "absent",
                      HttpDecodes(body.args),
                      body.args.state.sentLarge = body.args.state.againLarge
               PROVE  (reply = "asked") = (OverHttp = "asked")
    BY DEF DoorsAgree, ToolsCall
  <2>1. body.args \in Args
    <3>1. body # NoMessage
      BY DEF ToolsCall, Preamble, Decodes, NoMessage
    <3>2. HandedOn /\ wire \in Wire
      BY <3>1 DEF DoorInv
    <3> QED
      BY <3>2, BodyArgs
  <2>2. CASE TurnedAway(body)
    <3>1. reply # "asked"
      BY <2>2 DEF DoorInv, AskReplied
    <3>2. OverHttp # "asked"
      BY <2>1, <2>2, TurnedAwayEverywhere
    <3> QED
      BY <3>1, <3>2
  <2>3. CASE ~TurnedAway(body)
    <3>1. reply = Judge(McpCall(body.args))
      BY <2>3 DEF DoorInv, AskReplied
    <3>2. body.args.run # "bad"
      BY <2>3 DEF TurnedAway, Str
    <3>3. OverHttp = Judge(HttpCall(body.args))
      BY <3>2 DEF OverHttp
    <3> QED
      BY <2>1, <3>1, <3>3, SameJudgement
  <2> QED
    BY <2>2, <2>3
<1> QED
  BY <1>1, DoorCorrect, PTL
=============================================================================
