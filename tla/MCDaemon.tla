------------------------------ MODULE MCDaemon ------------------------------
(* Instances of Daemon small enough for TLC.                               *)
EXTENDS Daemon

Req(method, path, number) == [method |-> method, path |-> path, number |-> number]

\* Every route, an index inside the configuration and one past its end.
MCRequests ==
  {Req("GET", "plugins", 0), Req("GET", "config", 0), Req("PUT", "config", 0),
   Req("PUT", "config", 2), Req("GET", "item", 0), Req("GET", "item", 1),
   Req("PUT", "item", 0), Req("POST", "reload", 0), Req("GET", "globalsettings", 0),
   Req("PUT", "globalsettings", 0), Req("OPTIONS", "config", 0), Req("DELETE", "root", 0)}

\* Four ports in the place of 2^16, and one number that does not fit.
MCPortNumber == {2, 5}
=============================================================================
