------------------------------- MODULE MCDoor -------------------------------
EXTENDS Door

File(id, fields) ==
  [json |-> TRUE, loads |-> "valid", id |-> id, type |-> "choice", fields |-> fields]

Base ==
  [command |-> "serve", backend |-> "jev", settings |-> TRUE, price |-> "positive",
   readable |-> TRUE, dir |-> <<File("T", {"tool"}), File("U", {"prompt"})>>,
   hourly |-> "unset", timeout |-> "unset", usd |-> "unset",
   keys |-> <<[key |-> "k1", id |-> "agent://a/1"], [key |-> "k2", id |-> ""]>>,
   wide |-> FALSE, openBind |-> FALSE, freeform |-> TRUE, metaKeys |-> TRUE,
   sinks |-> [k \in Sinks |-> "opens"], upstream |-> TRUE,
   askTimeout |-> "unset", template |-> "T"]

\* The proxy refuses what serve refuses, and takes no request of the door.
Proxied == [Base EXCEPT !.command = "wardryx-proxy"]

Key1(id) == [key |-> "k1", id |-> id]

KeyTables ==
  {<<>>, Base.keys, <<[key |-> "", id |-> "agent://a/1"]>>,
   <<Key1("agent://a/1"), Key1("agent://a/2")>>, <<Key1("agent://a/1"), Key1("")>>,
   <<Key1("support-bot"), Key1("agent://a/2")>>,
   <<[key |-> "k2", id |-> ""], Key1("support-bot")>>}

Numbers == {"unset", "malformed", "negative", "zero", "positive", "nan"}

Directories ==
  {<<>>, <<File("T", {"tool"}), File("T", {"tool", "prompt"})>>,
   <<File("T", {"tool", "prompt"}), File("T", {"tool"})>>,
   <<[File("T", {}) EXCEPT !.json = FALSE], File("T", {"tool"})>>,
   <<File("T", {"tool"}), [File("U", {}) EXCEPT !.loads = "invalid"]>>,
   <<[File("T", {"tool"}) EXCEPT !.type = "score"]>>, <<File("T", {"tool", "prompt"})>>}

\* Every combination of what the door looks at, one change at a time of what
\* only the start does, and each way the sinks may open.
Environments ==
  {[Base EXCEPT !.keys = t, !.wide = w, !.openBind = o, !.freeform = f, !.metaKeys = m] :
     t \in KeyTables, w \in BOOLEAN, o \in BOOLEAN, f \in BOOLEAN, m \in BOOLEAN}
  \cup {[Base EXCEPT !.command = c, !.dir = d] :
          c \in {"serve", "wardryx-proxy"}, d \in Directories}
  \cup {[Proxied EXCEPT !.backend = b, !.price = n, !.usd = u] :
          b \in {"unset", "stub", "openai-logprobs", "jev", "other"}, n \in Numbers, u \in Numbers}
  \cup {[Proxied EXCEPT !.hourly = n] : n \in Numbers}
  \cup {[Proxied EXCEPT !.timeout = n] : n \in Numbers}
  \cup {[Proxied EXCEPT !.upstream = u, !.template = t] :
          u \in BOOLEAN, t \in {"T", "V"}}
  \cup {[Proxied EXCEPT !.askTimeout = n] : n \in (Numbers \ {"nan"}) \cup {"too large"}}
  \cup {[Base EXCEPT !.settings = FALSE], [Base EXCEPT !.readable = FALSE]}
  \cup {[Proxied EXCEPT !.sinks = k, !.wide = w, !.keys = <<>>] :
          k \in [Sinks -> {"off", "opens", "fails"}], w \in BOOLEAN}

Object == [NoState EXCEPT !.kind = "object", !.fields = {"tool", "prompt"}]

States == {NoState, Object, [Object EXCEPT !.exact = FALSE], [NoState EXCEPT !.kind = "null"],
           [Object EXCEPT !.sentLarge = TRUE], [Object EXCEPT !.againLarge = TRUE]}

Templated(t, s, r) == [NoArgs EXCEPT !.template = t, !.state = s, !.run = r]

Freeform(t, i, c) ==
  [NoArgs EXCEPT !.state = Object, !.question = [type |-> t, instructions |-> i, criteria |-> c]]

Arguments ==
  {Templated(t, s, "absent") : t \in {"absent", "number", "T", "V"}, s \in States}
  \cup {Templated("T", Object, r) : r \in {"good", "bad", "number"}}
  \cup {Freeform(t, i, c) : t \in {"choice", "noul", "other"},
          i \in {"given", "blank", "absent"}, c \in {"absent", "null", "fits", "unfit"}}
  \cup {NoArgs, [Freeform("noul", "given", "absent") EXCEPT !.template = "T"]}

AskT == Templated("T", Object, "absent")

Rpc == [shape |-> "value", version |-> TRUE, id |-> "given", method |-> "tools/call",
        params |-> "object", meta |-> "none", tool |-> "ask", args |-> AskT]

Messages ==
  {[Rpc EXCEPT !.shape = s, !.id = i, !.method = m, !.meta = k] :
     s \in {"value", "trailing", "garbage", "large"}, i \in {"absent", "null", "given"},
     m \in {"initialize", "tools/list", "tools/call", "notifications/initialized", "other"},
     k \in {"none", "number", "k1", "stranger"}}
  \cup {[Rpc EXCEPT !.version = FALSE], [Rpc EXCEPT !.params = "absent"],
        [Rpc EXCEPT !.params = "bad", !.meta = "k1"]}
  \cup {[Rpc EXCEPT !.tool = t, !.args = a, !.meta = "k1"] :
          t \in {"ask", "ask_freeform", "list_questions", "other"}, a \in Arguments}

WireOf(route, method, header, msg) ==
  [route |-> route, method |-> method, header |-> header, msg |-> msg]

Headers == {"", "k1", "k2", "stranger"}

Wires ==
  {WireOf("/mcp", "POST", k, m) : k \in {"", "k2"}, m \in Messages}
  \cup {WireOf("/mcp", m, k, Rpc) : m \in {"GET", "POST"}, k \in Headers}
  \cup {WireOf("/v1/ask", "POST", "k1", [Rpc EXCEPT !.args = a]) : a \in Arguments}
  \cup {WireOf(r, m, k, Rpc) : m \in {"GET", "POST"}, k \in Headers,
          r \in {"/v1/ask", "/v1/outcome", "/v1/templates", "/healthz", "other"}}
  \cup {WireOf(r, "POST", "k1", [Rpc EXCEPT !.shape = "garbage"]) : r \in {"/v1/ask", "/v1/outcome"}}
=============================================================================
