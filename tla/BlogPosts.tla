------------------------------ MODULE BlogPosts ------------------------------
(***************************************************************************)
(* The blog module (local/blog.rs): the posts in the order they were       *)
(* inserted, newest first, behind one mutex; the article routes of its app *)
(* (handle) and the operations the gateway sends it (execute).  Every call *)
(* is one hold of the mutex, so every action here is a whole call; answer  *)
(* is the status of the latest one, the rows being those of FilteredPosts  *)
(* or the post it names.                                                   *)
(*                                                                         *)
(* An id is the number in it, and a configured id that is not post_ and a  *)
(* number from one up is a number below one.  The field title stands for   *)
(* the four texts of a post, title, slug, summary and body, which are set  *)
(* and patched alike; the slug is the one looked up.  createdAt is the     *)
(* place of the label in the order of strings: a label of the clock is its *)
(* seconds, ten digits that may be set back, a configured one is any       *)
(* string, such as a date: "2026-" is above every "17...".                 *)
(***************************************************************************)
EXTENDS Integers, Sequences, SequencesExt, Queries

CONSTANTS
  Uids,            \* authors with a session
  TenantOf,        \* the tenant of each one's session
  Titles,
  ConfiguredPosts,      \* posts of the configuration, in order
  AllowAnonymous,  \* allow_anonymous_app_access
  FeedLimit,       \* posts of the public list (20)
  AuthorLimit,     \* posts of an author's own list (50)
  MaxLabel,        \* bound: labels of the clock
  MaxId            \* bound: ids given

HomeTenant == "tenant_blog"
Tenants == {TenantOf[u] : u \in Uids} \cup {HomeTenant}
Configuration == Range(ConfiguredPosts)
ConfiguredIds == {p.id : p \in Configuration}

Post ==
  [id        : Int,
   tenantId  : Tenants \cup {p.tenantId : p \in Configuration},
   authorUid : Uids \cup {p.authorUid : p \in Configuration},
   title     : Titles \cup {p.title : p \in Configuration},
   published : BOOLEAN,
   createdAt : Nat]

ASSUME BlogAssumption ==
  /\ FeedLimit \in Nat /\ AuthorLimit \in Nat /\ MaxId \in Nat /\ MaxLabel \in Nat
  /\ DOMAIN TenantOf = Uids
  /\ ConfiguredPosts \in Seq(Post)

VARIABLES
  posts,        \* BlogState.posts
  nextPostId,   \* BlogState.next_post_id
  answer,       \* what the latest call returned
  accepted      \* history: the post each id names, as its callers were told

state == <<posts, nextPostId>>
blogVars == <<posts, nextPostId, answer, accepted>>

\* Vec::sort_by is stable: what is equal keeps its place.
BeforeReversed(s, i, j) == \/ s[i].createdAt > s[j].createdAt
                           \/ s[i].createdAt = s[j].createdAt /\ i > j
Before(s, i, j) == \/ s[i].createdAt > s[j].createdAt
                   \/ s[i].createdAt = s[j].createdAt /\ i < j

Sorts(order, s) ==
  /\ Range(order) = DOMAIN s
  /\ \A i, j \in DOMAIN s : i < j => Before(s, order[i], order[j])

NewestFirst(s) ==
  LET order == CHOOSE o \in [DOMAIN s -> DOMAIN s] : Sorts(o, s)
  IN [i \in DOMAIN s |-> s[order[i]]]

FilteredPosts(query, offset, limit) ==
  Page(NewestFirst(Selected(posts, query)), offset, limit)

\* find: the first in the order of insertion, a draft too
FirstIndex(query) ==
  LET hits == {i \in DOMAIN posts : Satisfies(posts[i], query)} IN
  {i \in hits : \A j \in hits : i <= j}

BlogInit ==
  /\ posts = ConfiguredPosts
  /\ nextPostId = Len(ConfiguredPosts) + 1
  /\ answer = 200
  /\ accepted = [id \in ConfiguredIds |-> CHOOSE p \in Configuration : p.id = id]

Deleted == [deleted |-> TRUE]

Refuse(code) == answer' = code /\ UNCHANGED <<posts, nextPostId, accepted>>
Show(ps) == answer' = 200 /\ UNCHANGED <<posts, nextPostId, accepted>>
----------------------------------------------------------------------------
FindPosts(query, offset, limit) == Show(FilteredPosts(query, offset, limit))

FindOnePost(query) ==
  \/ FirstIndex(query) = {} /\ Refuse(404)
  \/ \E i \in FirstIndex(query) : Show(<<posts[i]>>)

\* A record whose fields are those of the patch, where it has them.
With(record, patch) ==
  [f \in DOMAIN record \cup DOMAIN patch |->
     IF f \in DOMAIN patch THEN patch[f] ELSE record[f]]

NextByCount == Len(posts) + 1
NextId == nextPostId

\* insert_post: the new post goes to the front, with the label of its second.
InsertPost(document) == \E label \in 0 .. MaxLabel :
  LET post == With([id |-> NextId, createdAt |-> label], document) IN
  /\ nextPostId <= MaxId
  /\ posts' = <<post>> \o posts
  /\ nextPostId' = nextPostId + 1
  /\ answer' = 200
  /\ accepted' = [i \in DOMAIN accepted \cup {post.id} |->
                    IF i = post.id THEN post ELSE accepted[i]]

\* What a field of a patch or document that is left out stands for
PatchedAsNew(post, patch) ==
  With(With(post, [published |-> TRUE]), patch)

Patched(post, patch) == With(post, patch)

\* update_post: the first post with the id, and only for its author
UpdatePost(id, author, patch) ==
  \/ FirstIndex([id |-> id]) = {} /\ Refuse(404)
  \/ \E i \in FirstIndex([id |-> id]) :
       \/ posts[i].authorUid # author /\ Refuse(403)
       \/ /\ posts[i].authorUid = author
          /\ posts' = [posts EXCEPT ![i] = Patched(posts[i], patch)]
          /\ answer' = 200
          /\ accepted' = [accepted EXCEPT ![id] =
               [f \in DOMAIN @ |-> IF f \in DOMAIN patch THEN patch[f] ELSE @[f]]]
          /\ UNCHANGED nextPostId

\* delete_post: the same two checks, then the post leaves the list.
DeletePost(id, author) ==
  \/ FirstIndex([id |-> id]) = {} /\ Refuse(404)
  \/ \E i \in FirstIndex([id |-> id]) :
       \/ posts[i].authorUid # author /\ Refuse(403)
       \/ /\ posts[i].authorUid = author
          /\ posts' = RemoveAt(posts, i)
          /\ accepted' = [accepted EXCEPT ![id] = Deleted]
          /\ answer' = 200
          /\ UNCHANGED nextPostId
----------------------------------------------------------------------------
\* The app's routes.  A visitor without a session reads the home tenant.
Visitor == "visitor"
ReadTenant(caller) ==
  IF caller = Visitor THEN HomeTenant ELSE TenantOf[caller]

Listing(caller, tenant, Route) ==
  \/ caller = Visitor /\ ~AllowAnonymous /\ Refuse(401)
  \/ (caller # Visitor \/ AllowAnonymous) /\ tenant = ReadTenant(caller) /\ Route

\* GET /apps/blog/posts
PublishedPosts(caller, tenant) ==
  Listing(caller, tenant,
          FindPosts([tenantId |-> tenant, published |-> TRUE], 0, FeedLimit))

\* GET /apps/blog/posts/<slug>
PostBySlug(caller, tenant, slug) ==
  Listing(caller, tenant, FindOnePost([tenantId |-> tenant, title |-> slug]))

\* GET /apps/blog/me/posts
PostsForAuthor(u) ==
  FindPosts([tenantId |-> TenantOf[u], authorUid |-> u], 0, AuthorLimit)

\* POST /apps/blog/me/posts: the tenant and author are the session's.
CreatePostForAuthor(u, title, published) ==
  InsertPost([tenantId |-> TenantOf[u], authorUid |-> u, title |-> title,
              published |-> published])

\* the me routes without a session, and a body that lacks a field
RefuseRoute == Refuse(401) \/ Refuse(400)

\* PATCH and DELETE /apps/blog/me/posts/<id>
UpdatePostForAuthor(u, id, patch) == UpdatePost(id, u, patch)
DeletePostForAuthor(u, id) == DeletePost(id, u)

\* execute: the same operations on the prepared body, which names the tenant
\* and the author itself; the one collection is posts.
ExecuteFind(query, offset, limit) == FindPosts(query, offset, limit)
ExecuteFindOne(query) == FindOnePost(query)
ExecuteInsertOne(document) == InsertPost(document)
ExecuteUpdateOne(query, patch) == UpdatePost(query.id, query.authorUid, patch)
ExecuteDeleteOne(query) == DeletePost(query.id, query.authorUid)
RefuseExecute == Refuse(400) \/ Refuse(500)

Ids == 1 .. MaxId \cup ConfiguredIds
Patches == [title : Titles] \cup [published : BOOLEAN] \cup [title : Titles, published : BOOLEAN]
Documents == [tenantId : Tenants, authorUid : Uids, title : Titles, published : BOOLEAN]

AppCall ==
  \/ \E c \in Uids \cup {Visitor}, t \in Tenants :
       \/ PublishedPosts(c, t)
       \/ \E s \in Titles : PostBySlug(c, t, s)
  \/ \E u \in Uids :
       \/ PostsForAuthor(u)
       \/ \E s \in Titles, p \in BOOLEAN : CreatePostForAuthor(u, s, p)
       \/ \E i \in Ids : DeletePostForAuthor(u, i)
       \/ \E i \in Ids, p \in Patches : UpdatePostForAuthor(u, i, p)
  \/ RefuseRoute

ExecuteCall ==
  \/ \E t \in Tenants, n \in 0 .. 1, k \in 0 .. 2 :
       ExecuteFind([tenantId |-> t], n, k)
  \/ \E s \in Titles : ExecuteFindOne([title |-> s])
  \/ \E d \in Documents : ExecuteInsertOne(d)
  \/ \E i \in Ids, u \in Uids :
       \/ ExecuteDeleteOne([id |-> i, authorUid |-> u])
       \/ \E p \in Patches : ExecuteUpdateOne([id |-> i, authorUid |-> u], p)
  \/ RefuseExecute

BlogNext == AppCall \/ ExecuteCall

BlogSpec == BlogInit /\ [][BlogNext]_blogVars
----------------------------------------------------------------------------
Stored == Range(posts)

BlogTypeOK ==
  /\ posts \in Seq(Post)
  /\ nextPostId \in Nat
  /\ answer \in {200, 400, 401, 403, 404, 500}
  /\ \A i \in DOMAIN accepted : accepted[i] \in Post \cup {Deleted}

\* from_config takes the configured ids as they are and numbers the posts of
\* run time from the number of configured ones on.  An id is a post's own
\* unless two configured posts have it, or one has it and it is yet to come.
Unclashed(id) ==
  \A i \in DOMAIN ConfiguredPosts : ConfiguredPosts[i].id = id =>
    /\ id <= Len(ConfiguredPosts)
    /\ \A j \in DOMAIN ConfiguredPosts : ConfiguredPosts[j].id = id => i = j

(* A post that is in the blog is what its callers were told it is: an id   *)
(* that the configuration does not make clash names one post, whose fields *)
(* are those of the call that created it with every accepted patch         *)
(* applied, and no patch sets a field it does not name (from_config,       *)
(* insert_post, update_post, delete_post).                                 *)
AcceptedKept ==
  \A i \in DOMAIN posts :
    /\ posts[i].id \in DOMAIN accepted
    /\ Unclashed(posts[i].id) =>
         /\ posts[i] = accepted[posts[i].id]
         /\ \A j \in DOMAIN posts : posts[j].id = posts[i].id => j = i

(* An id that was given away, and does not clash with a configured one, is *)
(* not given again: a post that was deleted does not come back under its   *)
(* id, and a link to it does not lead to another author's post             *)
(* (insert_post, next_post_id).                                            *)
IdsNotReused ==
  [][\A p \in Range(posts') :
       p.id \in DOMAIN accepted /\ Unclashed(p.id) => p.id \in {q.id : q \in Stored}]_blogVars

\* The posts of run time that are still there, by id in the order in which
\* they were made, and whether the clock never went back between two of them
Made == {p \in Stored : p.id \notin ConfiguredIds}
ClockForward == \A p, q \in Made : p.id < q.id => p.createdAt <= q.createdAt

ShowsLatest(query, limit) ==
  LET list == FilteredPosts(query, 0, limit) IN
  /\ \A i, j \in DOMAIN list :
       i < j /\ {list[i], list[j]} \subseteq Made => list[j].id < list[i].id
  /\ \A p \in Made \ Range(list) : Satisfies(p, query) =>
       /\ Len(list) = limit
       /\ \A q \in Range(list) \cap Made : p.id < q.id

(* While the clock has not been set back between two posts, a reader's     *)
(* list and an author's own have the posts of run time in the reverse of   *)
(* the order in which they were made, also those of one second, and the    *)
(* limit cuts off none that was made later than one they show; where       *)
(* configured posts come among them their labels alone decide              *)
(* (filtered_posts, insert_post).                                          *)
FeedNewestFirst == ClockForward =>
  /\ \A t \in Tenants : ShowsLatest([tenantId |-> t, published |-> TRUE], FeedLimit)
  /\ \A u \in Uids : ShowsLatest([tenantId |-> TenantOf[u], authorUid |-> u], AuthorLimit)

(* What the walkthrough of the example says, and its smoke test asserts: a *)
(* post that was just published is in the public list of its tenant and in *)
(* the list of its author (src/apps/examples/blog/README.md:18-19).        *)
PublishedPostsAppear ==
  posts # <<>> =>
    LET p == Head(posts) IN
    p.id = nextPostId - 1 /\ p \in Made /\ p.published =>
      /\ p \in Range(FilteredPosts([tenantId |-> p.tenantId, published |-> TRUE],
                                   0, FeedLimit))
      /\ p \in Range(FilteredPosts([tenantId |-> p.tenantId, authorUid |-> p.authorUid],
                                   0, AuthorLimit))
=============================================================================
