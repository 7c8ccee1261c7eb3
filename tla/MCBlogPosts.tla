----------------------------- MODULE MCBlogPosts -----------------------------
(***************************************************************************)
(* Instance of BlogPosts for TLC: an author in the home tenant and one in  *)
(* another tenant.  One configured post, whose label is a date above every *)
(* label of the clock; in MCBlogPosts.cfg it has the id of the first post  *)
(* made at run time, in MCBlogPublish.cfg its own.                         *)
(***************************************************************************)
EXTENDS BlogPosts

MCTenantOf == [u \in Uids |-> IF u = "a" THEN HomeTenant ELSE "other"]

Seeded(id) ==
  <<[id |-> id, tenantId |-> HomeTenant, authorUid |-> "a", title |-> "x",
     published |-> TRUE, createdAt |-> MaxLabel + 1]>>

MCClashing == Seeded(2)
MCSeeded == Seeded(1)
=============================================================================
