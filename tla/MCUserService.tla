---------------------------- MODULE MCUserService ----------------------------
(***************************************************************************)
(* Instance of UserService for TLC: two concurrent connections, one app    *)
(* with a seeded user and a second app, and requests that meet in the same *)
(* sessions: registrations under one key, two logouts, a cookie.           *)
(***************************************************************************)
EXTENDS UserService

CONSTANTS t1, t2

MCKeys == Apps \X Emails

\* As in format!("{app}:{email}"), two pairs have the same key.
MCUserKey == [x \in MCKeys |-> IF x = <<"a", "b:new">> THEN <<"a:b", "new">> ELSE x]

MCSeedUsers ==
  [k \in {<<"a", "seed">>} |-> [app |-> "a", uid |-> 1, password |-> "p"]]

Tokens == [kind : {"session", "anon"}, app : {"a"}, number : {1, 2}]
          \ {[kind |-> "anon", app |-> "a", number |-> 2]}

NoToken == [kind |-> "session", app |-> "a", number |-> 0]

\* What a request does not carry is given a fixed value.
MCRequests ==
  [op : {"login", "register"}, app : {"a"}, email : {"b:new"},
   password : {"p"}, token : {NoToken}]
  \cup [op : {"login", "register"}, app : {"a:b"}, email : {"new"},
        password : {"q"}, token : {NoToken}]
  \cup [op : {"login"}, app : {"a:b"}, email : {"new"},
        password : {"p"}, token : {NoToken}]
  \cup [op : {"me", "logout", "anonymous"}, app : {"a"}, email : {"new"},
        password : {"p"}, token : Tokens \cup {NoToken}]
  \cup [op : {"me", "anonymous"}, app : {"a:b"}, email : {"new"},
        password : {"p"}, token : {[NoToken EXCEPT !.number = 1]}]
=============================================================================
