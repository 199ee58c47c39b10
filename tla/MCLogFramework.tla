----------------------------- MODULE MCLogFramework -----------------------------
(* Two handles, one of them of the root module, and three configuration files: *)
(* two backends, one of which is at eHysterical for the module of the first    *)
(* handle, so that its refresh may stop before the other; a second backend     *)
(* that is not initialised; a block without an end.                            *)
EXTENDS LogFramework

CONSTANTS c1, c2

Module == <<"scx", "disk">>

MCModuleOf == c1 :> Module @@ c2 :> Root

Block(end, severities) == [end |-> end, severities |-> severities]

MCConfigs == {
              <<Block("initialized", <<"scx">> :> eHysterical @@ Root :> eWarning),
                Block("initialized", Module :> eHysterical)>>,
              <<Block("initialized", Module :> eTrace), Block("uninitialized", Root :> eError)>>,
              <<Block("missing", Root :> eTrace)>>}
=============================================================================
