---------------------------- MODULE EventStream ----------------------------
(***************************************************************************)
(* What a subscription promises its consumer: callbacks for frames in the  *)
(* order they arrived and never twice, then exactly one final error, then  *)
(* the stop channel closes; nothing comes after the final error but that.  *)
(***************************************************************************)
EXTENDS Naturals

VARIABLES
  last,      \* number of the last frame reported
  ended,     \* the final error was reported
  stopped    \* the stop channel is closed

Init == last = 0 /\ ended = FALSE /\ stopped = FALSE

Report == ~ended /\ last' > last /\ UNCHANGED <<ended, stopped>>
End    == ~ended /\ ended' = TRUE /\ UNCHANGED <<last, stopped>>
Stop   == ended /\ ~stopped /\ stopped' = TRUE /\ UNCHANGED <<last, ended>>

Next == Report \/ End \/ Stop

Spec == Init /\ [][Next]_<<last, ended, stopped>>
=============================================================================
