---------------------------- MODULE MonitoredServers ----------------------------
(***************************************************************************)
(* What the application server provider promises about the settings that   *)
(* SetDeepMonitoring makes: a setting is kept until it is changed, a clean *)
(* stop saves all of them, and a start finds either everything that was    *)
(* saved last or, after a crash or an error in the middle of saving,       *)
(* nothing - never a part.                                                 *)
(***************************************************************************)
CONSTANTS Paths,     \* where application servers are installed
          Settings,  \* how a server can be monitored
          Off,       \* the setting of a server that was just discovered
          Unknown    \* for a path at which no server is known

VARIABLES setting,     \* setting[p]: what is in force now
          durable,     \* durable[p]: what a start would find
          saving,      \* the settings are being saved
          gone,        \* paths at which nothing is installed now
          ambiguous    \* paths for which an update may take the wrong entry

vars == <<setting, durable, saving, gone, ambiguous>>

Nothing == [p \in Paths |-> Unknown]

Init == /\ setting = Nothing /\ durable = Nothing /\ saving = FALSE
        /\ gone \in SUBSET Paths /\ ambiguous \in SUBSET Paths

Set(p, v) == /\ setting[p] # Unknown
             /\ setting' = [setting EXCEPT ![p] = v]
             /\ UNCHANGED <<durable, saving>>

\* Servers are discovered, and those that are gone are forgotten.
May(p) == {setting[p]} \cup (IF setting[p] = Unknown THEN {Off} ELSE {})
                       \cup (IF p \in gone THEN {Unknown, Off} ELSE {})
                       \cup (IF p \in ambiguous THEN {Off} ELSE {})

Update == /\ setting' \in [Paths -> Settings \cup {Unknown}]
          /\ \A p \in Paths : setting'[p] \in May(p)
          /\ UNCHANGED <<durable, saving>>

BeginSave == /\ ~saving /\ saving' = TRUE
             /\ durable' = Nothing
             /\ UNCHANGED setting

Save == /\ saving /\ durable' = setting
        /\ UNCHANGED <<setting, saving>>

EndSave == /\ saving /\ saving' = FALSE
           /\ UNCHANGED <<setting, durable>>

\* The process ends without saving, or in the middle of it.
Crash == /\ saving' = FALSE
         /\ durable' \in {durable} \cup (IF saving THEN {Nothing} ELSE {})
         /\ setting' = durable'

Environment == UNCHANGED <<setting, durable, saving>>

Next == \/ \E p \in Paths, v \in Settings : Set(p, v)
        \/ Update \/ BeginSave \/ Save \/ EndSave \/ Crash \/ Environment

Spec == Init /\ [][Next]_vars
=============================================================================
