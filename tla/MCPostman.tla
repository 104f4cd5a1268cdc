----------------------------- MODULE MCPostman -----------------------------
(***************************************************************************)
(* Collections of Postman for TLC, of the shape of the fixture              *)
(* compat/postman-import/basic-v2.1.json: a collection with authentication, *)
(* and a folder with an item that inherits it and one that has its own, but *)
(* without the scripts, since an item with scripts is reviewed anyway.      *)
(* Every kind of authentication with plain credentials is tried at both.    *)
(***************************************************************************)
EXTENDS PostmanFormat, TLC

AuthDocuments ==
  {[type |-> "basic", entries |-> [username |-> "u", password |-> "p"]],
   [type |-> "digest", entries |-> [username |-> "u", password |-> "p"]],
   [type |-> "bearer", entries |-> [token |-> "t"]],
   [type |-> "apikey", entries |-> [key |-> "k", value |-> "v", in |-> "header"]]}
Request ==
  [url |-> [path |-> <<PlainSegment("users")>>, text_query |-> <<>>, query |-> <<>>,
            variables |-> <<>>],
   headers |-> <<>>, cookies |-> <<>>, body |-> [mode |-> "none"], transport |-> {},
   unsupported |-> FALSE]
UsersItem(request) ==
  [folder |-> <<"Users">>, request |-> request, scripts |-> <<>>, examples |-> <<>>]
Documents ==
  {[items |-> <<UsersItem(Request), UsersItem(Request @@ [auth |-> own])>>,
    auth |-> <<all>>, scripts |-> <<>>, variables |-> <<>>,
    folders |-> <<"Users">> :> [auth |-> <<>>, scripts |-> <<>>]] :
     own \in AuthDocuments, all \in AuthDocuments}
=============================================================================
