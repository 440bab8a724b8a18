---------------------------- MODULE RequestReply ----------------------------
(***************************************************************************)
(* What a trading connection promises each call, abstracting from req_ids, *)
(* channels, goroutines and the network: a call ends at most once, either  *)
(* with the outcome the gateway gave to that very call or with a failure   *)
(* that says nothing about it, and the gateway acts on a call at most      *)
(* once, possibly after the call failed.                                   *)
(***************************************************************************)
CONSTANTS Calls, Outcomes, Failures

VARIABLES
  effect,   \* what the gateway did for each call
  result    \* what each call returned

NotYet == "none"

Init ==
  /\ effect = [c \in Calls |-> NotYet]
  /\ result = [c \in Calls |-> NotYet]

Act(c) ==
  /\ effect[c] = NotYet
  /\ \E o \in Outcomes : effect' = [effect EXCEPT ![c] = o]
  /\ UNCHANGED result

Answer(c) ==
  /\ result[c] = NotYet /\ effect[c] # NotYet
  /\ result' = [result EXCEPT ![c] = effect[c]]
  /\ UNCHANGED effect

Fail(c) ==
  /\ result[c] = NotYet
  /\ \E f \in Failures : result' = [result EXCEPT ![c] = f]
  /\ UNCHANGED effect

Next == \E c \in Calls : Act(c) \/ Answer(c) \/ Fail(c)

Spec == Init /\ [][Next]_<<effect, result>>
=============================================================================
