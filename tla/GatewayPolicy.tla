---------------------------- MODULE GatewayPolicy ----------------------------
(***************************************************************************)
(* What a gateway does with a request before it is routed: the shape the   *)
(* protocol asks for (bladb-core protocol.rs, validate), the policy that   *)
(* allows it (bladb-gateway lib.rs, authorize) and the prepared body, in   *)
(* which the values bound to the caller are filled in (prepare).           *)
(*                                                                         *)
(* A body is a function from the fields it has.  The fields of Copied are  *)
(* taken over as they are; a statement is the sequence of its words, in    *)
(* lower case and without punctuation.  Any other field, and the request's *)
(* parameters, is a function from the paths of the JSON value, which are   *)
(* sequences of keys, to its leaves; the places of an array are keys that  *)
(* no object has.  A leaf is a record:                                     *)
(*   lit       a scalar                                                    *)
(*   list      an array or object where a scalar is wanted                 *)
(*   arg       the string "{args.x}", which only a template looks into     *)
(*   ctx       a binding to the caller: uid, tenantId, roles, ...          *)
(*   template  a key template: the values between its fixed parts          *)
(*   text      what a template is rendered to, taken not to read {args.x}  *)
(*   missing   a value the caller's identity does not have                 *)
(***************************************************************************)
EXTENDS Manifests, SequencesExt

Leaf(kind, value) == [kind |-> kind, value |-> value]
Failed == [kind |-> "failed"]
Missing == [kind |-> "missing"]

Copied == {"statement", "collection", "queue", "delayMs", "amount"}

\* RequestBody: the fields of a body, null where they are not given
BodyFields ==
  Copied \cup {"values", "query", "document", "options", "name", "channel", "value",
              "payload", "topic", "message"}

\* validate: the operations of the protocol and the fields each must have
Operations ==
  {<<"query", "sql", "select", {"statement"}>>,
   <<"query", "mongo", "find", {"collection", "query"}>>,
   <<"query", "mongo", "findOne", {"collection", "query"}>>,
   <<"query", "redis", "get", {"name"}>>,
   <<"command", "mongo", "insertOne", {"collection", "document"}>>,
   <<"command", "mongo", "updateOne", {"collection", "query", "document"}>>,
   <<"command", "mongo", "deleteOne", {"collection", "query"}>>,
   <<"command", "redis", "set", {"name", "value"}>>,
   <<"stream", "redis", "publish", {"channel", "payload"}>>,
   <<"stream", "mqtt", "publish", {"topic", "payload"}>>,
   <<"stream", "kafka", "produce", {"topic", "payload"}>>,
   <<"queue", "mq", "publish", {"queue", "message"}>>,
   <<"queue", "mq", "publishDelayed", {"queue", "message", "delayMs"}>>}
  \cup {<<"command", "sql", op, {"statement"}>> : op \in {"insert", "update", "delete"}}
  \cup {<<"command", "redis", op, {"name", "amount"}>> : op \in {"incrby", "decrby"}}

Valid(r) ==
  \E o \in Operations :
    /\ <<o[1], o[2], o[3]>> = <<r.kind, r.engine, r.action>>
    /\ o[4] \subseteq DOMAIN r.body

\* sql_operation: what does not write reads.
Operation(words) ==
  IF words # <<>> /\ words[1] \in {"insert", "update", "delete"}
    THEN words[1] ELSE "select"

\* The word that follows the first occurrence of w, if one does
After(words, w) ==
  LET places == {i \in 1 .. Len(words) - 1 : words[i] = w} IN
  {words[i + 1] : i \in {p \in places : \A q \in places : p <= q}}

\* sql_tables: the one table looked at, of a statement of a known kind
Tables(words) ==
  CASE words = <<>>                          -> {}
    [] words[1] \in {"select", "delete"}     -> After(words, "from")
    [] words[1] = "insert"                   -> After(words, "into")
    [] words[1] = "update"                   -> {words[i] : i \in DOMAIN words \cap {2}}
    [] OTHER                                 -> {}

Field(r, f) == IF f \in DOMAIN r.body THEN r.body[f] ELSE Absent

\* policy_matches_request
PolicyMatches(p, r) ==
  /\ p.engine = r.engine
  /\ CASE r.engine = "sql"   -> /\ "statement" \in DOMAIN r.body
                                /\ p.operation = Operation(r.body["statement"])
                                /\ p.tables \subseteq Tables(r.body["statement"])
       [] r.engine = "mongo" -> /\ p.collection = Field(r, "collection")
                                /\ p.action = r.action
       [] r.engine = "redis" -> p.command = r.action
       [] OTHER              -> p.action = r.action

\* authorize: the policy a request names, or else the first it matches
Authorized(policies, r) ==
  LET hits == {i \in DOMAIN policies :
                 /\ r.policy \in {Absent, policies[i].name}
                 /\ PolicyMatches(policies[i], r)}
  IN {policies[i] : i \in {p \in hits : \A q \in hits : p <= q}}
----------------------------------------------------------------------------
\* resolve_context_binding
CallerValue(c, auth) ==
  IF c \in DOMAIN auth /\ auth[c] # Missing THEN auth[c] ELSE Failed

\* render_scalar: a parameter may name another, and so on to a scalar.  The
\* parameters of a request are taken not to name themselves in a circle.
Followed(leaf, params) ==
  LET Step(v, n) ==
        IF v.kind # "arg" THEN v
        ELSE IF <<v.value>> \in DOMAIN params THEN params[<<v.value>>] ELSE Failed
  IN FoldLeft(Step, leaf, [n \in 1 .. Cardinality(DOMAIN params) + 1 |-> n])

Rendered(leaf, params) ==
  LET v == Followed(leaf, params) IN
  IF v.kind \in {"lit", "text"} THEN v ELSE Failed

Bound(leaf, auth) == IF leaf.kind = "ctx" THEN CallerValue(leaf.value, auth) ELSE leaf

\* resolve_value, in a template: one among its values is rendered to the text
\* of its own.  serde_json reads 128 levels of JSON, of which each takes two.
TemplateDepth == 64
Values(leaf) ==
  LET Step(vs, n) ==
        IF \A i \in DOMAIN vs : vs[i].kind # "template" THEN vs
        ELSE FlattenSeq([i \in DOMAIN vs |->
                           IF vs[i].kind = "template" THEN vs[i].parts ELSE <<vs[i]>>])
  IN FoldLeft(Step, leaf.parts, [n \in 1 .. TemplateDepth |-> n])

\* resolve_template_binding
FilledTemplate(leaf, auth, params) ==
  LET values == Values(leaf)
      parts  == [i \in DOMAIN values |-> Rendered(Bound(values[i], auth), params)]
  IN
  IF Failed \in Members(parts) THEN Failed ELSE [kind |-> "text", parts |-> parts]

\* resolve_value, at the leaves
Resolved(leaf, auth, params) ==
  IF leaf.kind = "template" THEN FilledTemplate(leaf, auth, params) ELSE Bound(leaf, auth)

\* prepare
PreparedBody(r, auth) ==
  [f \in DOMAIN r.body |->
     IF f \in Copied THEN r.body[f]
     ELSE [path \in DOMAIN r.body[f] |-> Resolved(r.body[f][path], auth, r.params)]]

Prepares(body) ==
  \A f \in DOMAIN body \ Copied : \A path \in DOMAIN body[f] : body[f][path] # Failed
=============================================================================
