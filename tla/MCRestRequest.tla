--------------------------- MODULE MCRestRequest ---------------------------
\* RestRequest on a small instance, for TLC: the kinds of request the services and the kraw
\* command make, and one whose path lacks the slash.
EXTENDS RestRequest

Kind(m, s, slash) == [method |-> m, style |-> s, rooted |-> slash]

SDK == INSTANCE Endpoints

MCKinds ==
  {Kind(e.method, e.style, TRUE) : e \in SDK!RestEndpoints} \cup {Kind("POST", "envelope", FALSE)}
=============================================================================
