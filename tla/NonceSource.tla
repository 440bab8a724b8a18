---------------------------- MODULE NonceSource ----------------------------
(***************************************************************************)
(* What a nonce generator promises: drawing is atomic, and each value is   *)
(* greater than every one the same generator handed out before.  A restart *)
(* of the process replaces all generators by new ones.                     *)
(***************************************************************************)
EXTENDS Naturals

CONSTANTS Requests, Clients

VARIABLES
  last,    \* the greatest value each client's generator handed out
  nonce    \* the value each request drew, 0 before

Init ==
  /\ last = [c \in Clients |-> 0]
  /\ nonce = [r \in Requests |-> 0]

Draw(r, c) ==
  /\ nonce[r] = 0
  /\ last'[c] > last[c]
  /\ last' = [last EXCEPT ![c] = last'[c]]
  /\ nonce' = [nonce EXCEPT ![r] = last'[c]]

Restart == last' = [c \in Clients |-> 0] /\ UNCHANGED nonce

Next == (\E r \in Requests, c \in Clients : Draw(r, c)) \/ Restart

Spec == Init /\ [][Next]_<<last, nonce>>
=============================================================================
