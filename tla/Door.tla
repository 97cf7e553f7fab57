-------------------------------- MODULE Door --------------------------------
(***************************************************************************)
(* One request of a process that Startup brought up: internal/api's routes *)
(* and door, internal/mcp's rewriting of a message that carries its        *)
(* credential in _meta, the JSON-RPC dispatch, and the call the service is *)
(* given in the end.  The same bytes are parsed up to three times, by code *)
(* that reads them differently: ExtractMetaKey and NeedsNoCredential take  *)
(* one JSON value, ServeMCP and the /v1 handlers the first value there is. *)
(***************************************************************************)
EXTENDS Startup

CONSTANTS Requests    \* what clients send, a subset of Wire

Question == [type : STRING, instructions : STRING, criteria : STRING]
State    == [kind : STRING, fields : SUBSET STRING, exact : BOOLEAN,
             sentLarge : BOOLEAN, againLarge : BOOLEAN]
Args     == [template : STRING, state : State, run : STRING, question : Question]
Message  == [shape : STRING, version : BOOLEAN, id : STRING, method : STRING,
             params : STRING, meta : STRING, tool : STRING, args : Args]
Wire     == [route : STRING, method : STRING, header : STRING, msg : Message]

ASSUME DoorAssumption == Requests \subseteq Wire

VARIABLES
  wire,     \* the request as it was sent
  at,       \* which part of the front end has it
  body,     \* the message handed on to that part
  agent,    \* the agent the door resolved
  called,   \* the call the service was given
  reply     \* what the client was told

request == <<wire, at, body, agent, called, reply>>
vars    == <<startup, request>>

NoQuestion == [type |-> "absent", instructions |-> "absent", criteria |-> "absent"]
NoState    == [kind |-> "absent", fields |-> {}, exact |-> TRUE,
               sentLarge |-> FALSE, againLarge |-> FALSE]
NoArgs     == [template |-> "absent", state |-> NoState, run |-> "absent",
               question |-> NoQuestion]
NoMessage  == [shape |-> "garbage", version |-> FALSE, id |-> "absent", method |-> "other",
               params |-> "absent", meta |-> "none", tool |-> "other", args |-> NoArgs]
NoWire     == [route |-> "none", method |-> "GET", header |-> "", msg |-> NoMessage]
NoCall     == [op |-> "none"]

DoorInit ==
  /\ wire = NoWire /\ at = "idle" /\ body = NoMessage
  /\ agent = "" /\ called = NoCall /\ reply = "none"

Receive(r) ==
  /\ phase = "listening" /\ env.command = "serve" /\ at = "idle"
  /\ wire' = r /\ at' = "route"
  /\ UNCHANGED <<startup, body, agent, called, reply>>

Answer(what) ==
  /\ at' = "done" /\ reply' = what
  /\ UNCHANGED <<startup, wire, body, agent, called>>

HandOn(msg, who) ==
  /\ at' = "serve" /\ body' = msg /\ agent' = who
  /\ UNCHANGED <<startup, wire, called, reply>>

-----------------------------------------------------------------------------
(* withDoor and handleMCPRoute *)

Knock(key, msg) ==
  \/ ~Allow(env, key) /\ Answer("unauthorized")
  \/ Allow(env, key) /\ HandOn(msg, Identity(env, key))

RouteV1 ==
  /\ at = "route" /\ wire.route \in {"/v1/ask", "/v1/outcome", "/v1/templates"}
  /\ Knock(wire.header, wire.msg)

RouteOpen ==
  /\ at = "route"
  /\ \/ wire.route = "/healthz" /\ Answer("health")
     \/ wire.route = "other" /\ Answer("not_found")

\* ExtractMetaKey succeeds: the message is one JSON value, a tools/call, and
\* the entry in params._meta is a string.
CarriesKey(m) ==
  /\ m.shape = "value" /\ m.method = "tools/call" /\ m.params = "object"
  /\ m.meta \notin {"none", "number"}

\* The envelope is marshalled again, its four fields in full: an id that was
\* absent is null now.
Stripped(m) ==
  [m EXCEPT !.meta = "none", !.id = IF @ = "absent" THEN "null" ELSE @]

\* Mutant: the entry is taken out only when it is going to be used.
Forwarded_ifUsed(m) == IF CarriesKey(m) /\ wire.header = "" THEN Stripped(m) ELSE m

Forwarded(m) == IF CarriesKey(m) THEN Stripped(m) ELSE m

NeedsNoCredential(m) ==
  /\ m.shape = "value"
  /\ m.id = "absent" \/ m.method \in {"initialize", "tools/list"}

\* Mutant: decide first, strip second.
Judged_asSent == wire.msg

Judged == Forwarded(wire.msg)

Key == IF wire.header = "" /\ CarriesKey(wire.msg) THEN wire.msg.meta ELSE wire.header

RouteMCP ==
  /\ at = "route" /\ wire.route = "/mcp"
  /\ \/ ~(env.metaKeys /\ wire.method = "POST") /\ Knock(wire.header, wire.msg)
     \/ /\ env.metaKeys /\ wire.method = "POST"
        /\ \/ wire.msg.shape = "large" /\ Answer("bad_request")
           \/ wire.msg.shape # "large" /\ NeedsNoCredential(Judged)
                /\ HandOn(Forwarded(wire.msg), "")
           \/ wire.msg.shape # "large" /\ ~NeedsNoCredential(Judged)
                /\ Knock(Key, Forwarded(wire.msg))

-----------------------------------------------------------------------------
(* The call a front end makes of a request's arguments.                    *)

Decodes(m) == m.shape \in {"value", "trailing"}

\* A JSON body decoded into typed fields, the state kept as its bytes.
HttpCall(a) ==
  [op |-> "ask", agent |-> agent, template |-> a.template, run |-> a.run,
   state |-> [kind |-> a.state.kind, fields |-> a.state.fields, intact |-> TRUE,
              large |-> a.state.sentLarge],
   freeform |-> a.question # NoQuestion, question |-> a.question]

HttpDecodes(a) == a.template # "number" /\ a.run # "number"

\* str(): what is not a string is the empty one.
Str(x) == IF x = "number" THEN "absent" ELSE x

\* Arguments decoded into any and marshalled again: a number goes through a
\* float64, the size is that of the new bytes, and criteria not given are null.
McpCall(a) ==
  [op |-> "ask", agent |-> agent, template |-> Str(a.template), run |-> Str(a.run),
   state |-> [kind |-> a.state.kind, fields |-> a.state.fields, intact |-> a.state.exact,
              large |-> a.state.againLarge],
   freeform |-> a.question # NoQuestion,
   question |-> [a.question EXCEPT !.criteria =
                   IF a.question # NoQuestion /\ @ = "absent" THEN "null" ELSE @]]

-----------------------------------------------------------------------------
(* What the service makes of a call before its caps. *)

\* Mutant: a noul question's criteria may be left out but not null.
ValidQuestion_notNull(q) ==
  /\ q.type \in Types
  /\ q.instructions = "given"
  /\ q.criteria = "fits" \/ (q.type = "noul" /\ q.criteria = "absent")

\* Template.Validate of a free-form question.
ValidQuestion(q) ==
  /\ q.type \in Types
  /\ q.instructions = "given"
  /\ q.criteria = "fits" \/ (q.type = "noul" /\ q.criteria \in {"absent", "null"})

StateReason(s) ==
  IF s.large THEN "state_too_large" ELSE IF s.kind # "object" THEN "bad_state" ELSE "asked"

Judge(c) ==
  CASE c.freeform /\ ~env.freeform                                -> "freeform_disabled"
    [] c.freeform /\ env.freeform /\ ~ValidQuestion(c.question)   -> "bad_question"
    [] ~c.freeform /\ ~Known(env, c.template)                     -> "unknown_template"
    [] OTHER                                                      -> StateReason(c.state)

\* template.Filter, or NewFreeformEgress.
Egress(c) ==
  IF c.freeform THEN c.state.fields
  ELSE c.state.fields \cap Template(env, c.template).fields

Call(c, told) ==
  /\ at' = "done" /\ called' = c /\ reply' = told
  /\ UNCHANGED <<startup, wire, body, agent>>

-----------------------------------------------------------------------------
(* handleAsk, handleOutcome, handleTemplates *)

Method(m) == IF wire.route = "/v1/templates" THEN m = "GET" ELSE m = "POST"

ServeV1 ==
  /\ at = "serve" /\ wire.route \in {"/v1/ask", "/v1/outcome", "/v1/templates"}
  /\ \/ ~Method(wire.method) /\ Answer("method_not_allowed")
     \/ Method(wire.method) /\ wire.route = "/v1/templates" /\ Answer("questions")
     \/ /\ Method(wire.method) /\ wire.route = "/v1/outcome"
        /\ IF Decodes(body) THEN Call([op |-> "outcome", agent |-> agent], "outcome")
                            ELSE Answer("bad_request")
     \/ /\ Method(wire.method) /\ wire.route = "/v1/ask"
        /\ \/ ~(Decodes(body) /\ HttpDecodes(body.args)) /\ Answer("bad_request")
           \/ /\ Decodes(body) /\ HttpDecodes(body.args)
              /\ IF body.args.run = "bad" THEN Answer("bad_run_id")
                 ELSE Call(HttpCall(body.args), Judge(HttpCall(body.args)))

-----------------------------------------------------------------------------
(* ServeMCP, call, validate, dispatch *)

Tools == {"ask", "list_questions"} \cup IF env.freeform THEN {"ask_freeform"} ELSE {}

\* The arguments are an object with no property the tool does not name and
\* every required one.
Validated(m) ==
  LET a == m.args IN
  CASE m.tool = "ask" ->
         a.template # "absent" /\ a.state.kind # "absent" /\ a.question = NoQuestion
    [] m.tool = "ask_freeform" ->
         /\ a.template = "absent" /\ a.state.kind # "absent"
         /\ a.question.type \in Types /\ a.question.instructions # "absent"
    [] OTHER -> a = NoArgs

Dispatch(m) ==
  \/ m.tool = "list_questions" /\ Answer("questions")
  \/ /\ m.tool # "list_questions"
     /\ IF Str(m.args.run) = "bad" THEN Answer("bad_run_id")
        ELSE Call(McpCall(m.args), Judge(McpCall(m.args)))

ToolCall(m) ==
  \/ m.params # "object" /\ Answer("invalid_params")
  \/ m.params = "object" /\ m.tool \notin Tools /\ Answer("method_not_found")
  \/ m.params = "object" /\ m.tool \in Tools /\ ~Validated(m) /\ Answer("invalid_params")
  \/ m.params = "object" /\ m.tool \in Tools /\ Validated(m) /\ Dispatch(m)

\* What is answered without looking at the method: "pass" for none of it.
Preamble(m) ==
  CASE wire.method # "POST"                            -> "method_not_allowed"
    [] wire.method = "POST" /\ ~Decodes(m)             -> "parse_error"
    [] wire.method = "POST" /\ Decodes(m) /\ ~m.version -> "invalid_request"
    [] OTHER -> IF m.id = "absent" THEN "accepted" ELSE "pass"

ServeMCP ==
  /\ at = "serve" /\ wire.route = "/mcp"
  /\ \/ Preamble(body) # "pass" /\ Answer(Preamble(body))
     \/ /\ Preamble(body) = "pass"
        /\ \/ body.method \in {"initialize", "tools/list"} /\ Answer(body.method)
           \/ body.method = "notifications/initialized" /\ Answer("accepted")
           \/ body.method = "other" /\ Answer("method_not_found")
           \/ body.method = "tools/call" /\ ToolCall(body)

Finish ==
  /\ at = "done"
  /\ wire' = NoWire /\ at' = "idle" /\ body' = NoMessage
  /\ agent' = "" /\ called' = NoCall /\ reply' = "none"
  /\ UNCHANGED startup

-----------------------------------------------------------------------------
Init == StartInit /\ DoorInit

Next ==
  \/ Start /\ UNCHANGED request
  \/ \E r \in Requests : Receive(r)
  \/ RouteV1 \/ RouteOpen \/ RouteMCP \/ ServeV1 \/ ServeMCP \/ Finish

Spec == Init /\ [][Next]_vars

-----------------------------------------------------------------------------
\* Whatever TYPRYX_KEYS says, an agent is a well-formed identity or none.
TypeOK ==
  /\ phase \in Phases
  /\ open \in SUBSET Sinks /\ touched \in SUBSET Sinks /\ code \in 0 .. 2
  /\ at \in {"idle", "route", "serve", "done"}
  /\ agent \in Identities \cup {""}
  /\ called.op \in {"none", "ask", "outcome"}

Served == called # NoCall \/ reply = "questions"

\* The credential a client presented, read off the wire by nobody's parser.
Presented ==
  IF wire.header # "" THEN wire.header
  ELSE IF wire.route = "/mcp" /\ env.metaKeys /\ wire.msg.meta \notin {"none", "number"}
       THEN wire.msg.meta ELSE ""

\* "Identity comes only from the credential": whatever was rewritten on the
\* way, the service is called, and questions are listed, only for a client that
\* presented an accepted credential where one is configured, and in the name
\* the operator bound to that one, which is a well-formed identity or none.  A
\* service that asks for none is on loopback or open by the operator's word: the
\* refusal at startup and the door add up.
AgentIsTheCredentials ==
  Served =>
    /\ Presented \notin Accepted(env) => ~env.wide \/ env.openBind
    /\ Configured(env) => Presented \in Accepted(env)
    /\ agent = (IF Presented \in Accepted(env) THEN Bound(env, Presented) ELSE "")
    /\ agent \in Identities \cup {""}
    /\ called # NoCall => called.agent = agent

\* "The _meta entry is stripped from the body unconditionally": what the MCP
\* server executes carries no credential, unless more bytes follow the message
\* (then only ServeMCP can read it, and it was let through without that key).
CredentialStripped ==
  at = "done" /\ Served /\ wire.route = "/mcp" /\ env.metaKeys /\ body.meta \notin {"none", "number"}
    => body.shape = "trailing" /\ Allow(env, wire.header)

\* "Every other byte of the message is left exactly as it was", and a message
\* without an id is a notification, "answered 202", never executed.
NotificationNotExecuted ==
  wire.route = "/mcp" /\ wire.msg.id = "absent" => called = NoCall

\* The same question over /v1/ask: its arguments decoded there.
OverHttp == IF HttpDecodes(body.args) /\ body.args.run # "bad"
            THEN Judge(HttpCall(body.args)) ELSE "refused"

\* An ask means the same through either front end: one that the MCP server
\* turns away itself /v1/ask would have refused, and one it hands to the service
\* is judged there as /v1/ask's would be.  The exceptions are those of decoding
\* into any: a run_id or template that is no string, and a state whose size
\* changes when it is marshalled again; and a template beside a free-form
\* question, which /v1/ask ignores and ask_freeform has no property for.
DoorsAgree ==
  at = "done" /\ wire.route = "/mcp" /\ Preamble(body) = "pass"
    /\ body.method = "tools/call" /\ body.params = "object"
    /\ body.tool \in {"ask", "ask_freeform"} /\ (body.tool = "ask" <=> body.args.question = NoQuestion)
    /\ (body.tool = "ask_freeform" => body.args.template = "absent")
    /\ HttpDecodes(body.args) /\ body.args.state.sentLarge = body.args.state.againLarge
    => (reply = "asked") = (OverHttp = "asked")

\* "Only a template's fields reach a backend": by no file of the directory that
\* names the template asked for may more leave, so the filter and the refusal
\* of a second template of one id have to hold together.
OnlyNamedFieldsLeave ==
  called.op = "ask" /\ reply = "asked" /\ ~called.freeform =>
    \A i \in JsonFiles(env) :
      env.dir[i].id = called.template => Egress(called) \subseteq env.dir[i].fields
=============================================================================
