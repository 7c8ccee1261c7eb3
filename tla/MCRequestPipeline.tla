-------------------------- MODULE MCRequestPipeline --------------------------
(***************************************************************************)
(* Instance of RequestPipeline for TLC: gateways of two apps that both     *)
(* have a policy for the same query, two accepted configurations and seven *)
(* refused ones, sessions of both apps and of an app without a gateway.    *)
(***************************************************************************)
EXTENDS RequestPipeline

Policy(name, engine) ==
  [name |-> name, engine |-> engine, operation |-> Absent, tables |-> {},
   collection |-> Absent, action |-> Absent, command |-> Absent]

Cluster(name, family, runtime, policies) ==
  [name |-> name, family |-> family, runtime |-> runtime, policies |-> policies,
   strategy |-> "single", virtualShards |-> 0, routeBy |-> <<>>,
   protocol |-> "natsService", subject |-> "rpc", stream |-> Absent,
   replicas |-> 1, autoscale |-> {}]

Who(uid, tenant) ==
  [uid |-> Leaf("lit", uid), tenantId |-> Leaf("lit", tenant),
   roles |-> Leaf("list", "roles"), permissionVersion |-> Missing]

Posts(shards) ==
  [Cluster("blog.posts-mongo", "blog", "mongo", <<"find", "create">>) EXCEPT
     !.strategy = "hash", !.virtualShards = shards,
     !.routeBy = <<<<"actor", "tenantId">>, <<"request", "meta", "policy">>,
                   <<"prepared", "body", "options">>>>]

Events ==
  [Cluster("blog.events", "blog", "kafka", <<"produce">>) EXCEPT
     !.strategy = "hash", !.virtualShards = 2,
     !.routeBy = <<<<"event", "device", "id">>, <<"request", "meta", "params", "x">>,
                   <<"actor", "permissionVersion">>>>]

Blog(shards) ==
  [name |-> "blog", auth |-> Who("default", "home"),
   policies |-> <<[Policy("find", "mongo") EXCEPT !.collection = "posts", !.action = "find"],
                  [Policy("create", "mongo") EXCEPT !.collection = "posts",
                                                    !.action = "insertOne"],
                  [Policy("produce", "kafka") EXCEPT !.action = "produce"],
                  [Policy("unmapped", "mq") EXCEPT !.action = "publish"]>>,
   clusters |-> <<Posts(shards), Events>>]

Shop ==
  [name |-> "shop", auth |-> Who("default", "store"),
   policies |-> <<[Policy("browse", "mongo") EXCEPT !.collection = "posts", !.action = "find"],
                  [Policy("orders", "sql") EXCEPT !.operation = "select",
                                                  !.tables = {"orders"}],
                  [Policy("decr", "redis") EXCEPT !.command = "decrby"],
                  [Policy("cart", "redis") EXCEPT !.command = "get"]>>,
   clusters |-> <<Cluster("flashsale.items", "flashsale", "mongo", <<"browse">>),
                  Cluster("flashsale.orders", "orders", "sql", <<"orders">>),
                  [Cluster("flashsale.stock", "flashsale", "redis", <<"decr">>) EXCEPT
                     !.strategy = "hash", !.virtualShards = 2,
                     !.routeBy = <<<<"request", "amount">>, <<"event">>>>],
                  [Cluster("flashsale.carts", "flashsale", "redis", <<"cart">>) EXCEPT
                     !.strategy = "hash", !.virtualShards = 2,
                     !.routeBy = <<<<"actor", "roles">>>>]>>]

NoUsers ==
  [enabled |-> FALSE, transport |-> Absent, launcherUrl |-> Absent, jwt |-> Absent,
   secret |-> Absent, publicKeyFile |-> Absent, privateKeyFile |-> Absent,
   password |-> Absent, engine |-> Absent, dsn |-> Absent, uri |-> Absent,
   database |-> Absent, provider |-> Absent, from |-> Absent, host |-> Absent,
   port |-> Absent, verifyEmail |-> FALSE, resetPassword |-> FALSE]

Users ==
  [NoUsers EXCEPT !.enabled = TRUE, !.transport = "launcher-http", !.launcherUrl = "url",
     !.jwt = "RS256", !.publicKeyFile = "pub", !.privateKeyFile = "key",
     !.password = "argon2id", !.engine = "mysql", !.dsn = "dsn"]

Good ==
  [mode |-> "standalone", gateway |-> TRUE, users |-> NoUsers,
   runtimes |-> <<Blog(2), Shop>>, modules |-> {"blog", "flashsale"}]

MCFiles ==
  [good     |-> Good,
   users    |-> [Good EXCEPT !.users = Users, !.runtimes = <<Shop, Blog(3)>>],
   cluster  |-> [Good EXCEPT !.mode = "cluster"],
   noshards |-> [Good EXCEPT !.runtimes = <<Blog(0)>>],
   twice    |-> [Good EXCEPT !.runtimes[1].clusters[2].policies = <<"find">>],
   names    |-> [Good EXCEPT !.runtimes[1].policies[2].name = "find"],
   empty    |-> [Good EXCEPT !.modules = {}],
   secret   |-> [Good EXCEPT !.users = [Users EXCEPT !.secret = "secret"]],
   mail     |-> [Good EXCEPT !.users = [Users EXCEPT !.verifyEmail = TRUE]]]

Launch(args, env, found) == [args |-> args, env |-> env, found |-> found]

MCLaunches ==
  {Launch(<<"serve", path>>, "cluster", "mail") : path \in DOMAIN MCFiles} \cup
  {Launch(<<"serve">>, "users", "cluster"), Launch(<<"serve">>, Absent, "good"),
   Launch(<<"serve">>, Absent, Absent), Launch(<<>>, "good", "good")}

Session(app, uid, tenant) == [app |-> app, auth |-> Who(uid, tenant)]

MCCallers == {Session("blog", "a", "home"), Session("blog", "b", "home"),
              Session("shop", "c", "store"), Session("demo", "d", "local")}

Request(kind, engine, action, body) ==
  [kind |-> kind, engine |-> engine, action |-> action, policy |-> Absent,
   resource |-> Absent, traceId |-> Absent, body |-> body, params |-> <<>>]

Ctx(c) == Leaf("ctx", c)
Arg(x) == Leaf("arg", x)
Template(parts) == [kind |-> "template", parts |-> parts]
FindBody == [collection |-> "posts", query |-> <<"tenantId">> :> Ctx("tenantId")]

Create ==
  [Request("command", "mongo", "insertOne",
           [collection |-> "posts",
            document |-> <<"authorUid">> :> Ctx("uid") @@
                         <<"slug">> :> Template(<<Ctx("uid"), Template(<<Arg("x")>>)>>)])
   EXCEPT !.params = <<"x">> :> Arg("y") @@ <<"y">> :> Leaf("lit", "v")]

MCRequests ==
  {Request("query", "mongo", "find", FindBody),
   [Request("query", "mongo", "find", FindBody) EXCEPT !.policy = "create"],
   [Request("query", "mongo", "find", FindBody) EXCEPT !.policy = "find", !.traceId = "t"],
   Request("query", "mongo", "find",
           [collection |-> "posts", query |-> <<"meta", "author">> :> Ctx("uid")]),
   Request("query", "mongo", "find",
           [collection |-> "posts", query |-> <<"tenantId">> :> Ctx("tenantId"),
            options |-> <<"limit">> :> Leaf("lit", 1)]),
   Create,
   [Create EXCEPT !.params = <<"x">> :> Arg("z")],
   [Create EXCEPT !.body.document = <<"authorUid">> :> Ctx("permissionVersion")],
   Request("query", "mongo", "update", FindBody),
   Request("query", "sql", "select",
           [statement |-> <<"select", "*", "from", "orders", "where", "uid">>,
            values |-> <<"[0]">> :> Ctx("uid")]),
   Request("command", "redis", "decrby",
           [name |-> <<>> :> Leaf("lit", "stock"), amount |-> 1]),
   Request("query", "redis", "get", [name |-> <<>> :> Leaf("lit", "cart")]),
   Request("stream", "kafka", "produce",
           [topic |-> <<>> :> Leaf("lit", "t"), payload |-> <<"device">> :> Leaf("lit", "e")]),
   [Request("stream", "kafka", "produce",
            [topic |-> <<>> :> Leaf("lit", "t"),
             payload |-> <<"device", "id">> :> Leaf("lit", "e")])
    EXCEPT !.params = <<"x">> :> Leaf("lit", "v")],
   Request("queue", "mq", "publish",
           [queue |-> "q", message |-> <<>> :> Leaf("lit", "m")])}
=============================================================================
