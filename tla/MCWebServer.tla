----------------------------- MODULE MCWebServer -----------------------------
(* WebServer with the constants TLC is given: one browser that reads the   *)
(* page, one that asks for a reboot, one that posts without a password,     *)
(* one whose body is too large; each may stop sending at any point.         *)
EXTENDS WebServer

CONSTANTS reader, booter, stranger, bloat

AsksFor ==
  [b \in {reader, booter, stranger, bloat} |->
     CASE b = reader   -> [line |-> "page", headers |-> <<"auth">>, length |-> 1, body |-> 0]
       [] b = booter   -> [line |-> "reboot", headers |-> <<"auth", "length">>, length |-> 1, body |-> 1]
       [] b = stranger -> [line |-> "json", headers |-> <<"length">>, length |-> 2, body |-> 2]
       [] b = bloat    -> [line |-> "404", headers |-> <<"length">>, length |-> 3, body |-> 0]]

Some == [b \in Browsers |-> AsksFor[b]]
==============================================================================
