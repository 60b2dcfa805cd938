-------------------------------- MODULE Calls --------------------------------
(* One call of a pure function at a time: `task` is the call, `result` what it*)
(* returns.                                                                  *)
CONSTANT Idle    \* no call

VARIABLES task, result

vars == <<task, result>>

Init == task = Idle /\ result = Idle

Call(call, value) == task' = call /\ result' = value

Return == task # Idle /\ task' = Idle /\ result' = Idle

Calling(kind) == task # Idle /\ task.kind = kind
=============================================================================
