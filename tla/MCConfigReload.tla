--------------------------- MODULE MCConfigReload ---------------------------
(* A small instance of ConfigReload: a user's file and a packaged one, each *)
(* in a directory that lasts, and a file to include in one that may go.     *)
EXTENDS ConfigReload

InLine ==
  [f \in {"user", "packaged", "extra"} |->
     IF f = "user" THEN <<"home">> ELSE IF f = "packaged" THEN <<"usr">> ELSE <<"themes", "usr">>]

Wishes == <<"user", "packaged">>

Simple  == [state |-> "good", includes |-> {}, optional |-> {}, drm |-> FALSE]
Wants   == [Simple EXCEPT !.includes = {"extra"}]
Policy  == [Simple EXCEPT !.optional = {"extra"}, !.drm = TRUE]
Broken  == [Simple EXCEPT !.state = "broken"]
Invalid == [Simple EXCEPT !.state = "invalid"]
Defers  == [Simple EXCEPT !.optional = {"user"}]  \* a packaged file that takes in the user's

Written == {Simple, Wants, Policy, Broken, Invalid, Defers}

Beginnings ==
  {[f \in {"user", "packaged", "extra"} |-> None]} \cup
  {[user |-> u, packaged |-> Simple, extra |-> None] : u \in {Wants, Policy, Invalid}} \cup
  {[user |-> None, packaged |-> Defers, extra |-> None]}
=============================================================================
