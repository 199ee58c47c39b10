------------------------------- MODULE ChildCall -------------------------------
(***************************************************************************)
(* What SCXProcess::Run promises to its caller: a child is given input,    *)
(* writes output and ends, and the call returns once, with how the child   *)
(* ended and with all that it wrote, or it fails.  There are no pipes, no  *)
(* polling, no waiting and no second thread.                               *)
(***************************************************************************)
EXTENDS Integers

CONSTANTS Outputs,  \* the streams a child writes to
          Chunks    \* how much input there may be

VARIABLES unread,   \* chunks of input the child has not read
          wrote,    \* wrote[s]: chunks the child has written
          ended,    \* how the child ended, or "none"
          answer,   \* how the caller was told that it ended, "error", or "none"
          output    \* output[s]: chunks the caller was given

cvars == <<unread, wrote, ended, answer, output>>

Init == /\ unread \in 0 .. Chunks
        /\ wrote = [s \in Outputs |-> 0]
        /\ ended = "none" /\ answer = "none"
        /\ output = wrote

Read == /\ ended = "none" /\ unread > 0
        /\ unread' = unread - 1
        /\ UNCHANGED <<wrote, ended, answer, output>>

Write(s) == /\ ended = "none"
            /\ wrote' = [wrote EXCEPT ![s] = @ + 1]
            /\ UNCHANGED <<unread, ended, answer, output>>

End(how) == /\ ended = "none" /\ ended' = how
            /\ UNCHANGED <<unread, wrote, answer, output>>

Return == /\ answer = "none" /\ ended # "none"
          /\ answer' = ended /\ output' = wrote
          /\ UNCHANGED <<unread, wrote, ended>>

\* The child is left to itself.
Fail == /\ answer = "none" /\ answer' = "error"
        /\ UNCHANGED <<unread, wrote, ended, output>>

Next == \/ Read \/ (\E s \in Outputs : Write(s))
        \/ (\E how \in {"exit", "signal"} : End(how))
        \/ Return \/ Fail

Spec == Init /\ [][Next]_cvars
=============================================================================
