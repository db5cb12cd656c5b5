------------------------------ MODULE MCStartup ------------------------------
(***************************************************************************)
(* Model-checking instance of Startup: a worker and the gateway, a local   *)
(* and a gateway backend, three migrations of which the second cannot be   *)
(* repeated (0001 to 0003, 0004 and 0005 of the repository).               *)
(***************************************************************************)
EXTENDS Startup

MCClassOf == [script |-> "local_script", model |-> "api_model_gateway"]

Local == [backend_ids |-> {"script"}, backend_classes |-> {"local_script"}]
Hosted == [backend_ids |-> {"model"}, backend_classes |-> {"api_model_gateway"}]
Bare == [backend_ids |-> {}, backend_classes |-> {"local_tool"}]

MCManifests == {Local, Hosted, Bare}

MCConfig == [w \in Workers |-> IF w = Gateway THEN Hosted ELSE Local]

MCScripts == << <<FALSE>>, <<TRUE, TRUE, FALSE>>, <<FALSE>> >>

=============================================================================
