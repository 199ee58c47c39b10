---------------------------- MODULE MCAppServerCache ----------------------------
(* Two WebSphere servers of one profile and a WebLogic server.             *)
EXTENDS AppServerCache

WebSphere == {"w1", "w2"}
WebLogic == {"l1"}
MCServers == WebSphere \cup WebLogic
MCPathOf == [s \in MCServers |-> IF s \in WebSphere THEN "profile" ELSE "domain"]
=============================================================================
