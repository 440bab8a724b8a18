------------------------------ MODULE ClOrdID ------------------------------
(***************************************************************************)
(* Client order ids (clordid.go): the check a program may make before it   *)
(* sends one, and the forms its documentation names.  Characters count by  *)
(* the classes these tell apart.                                           *)
(***************************************************************************)
EXTENDS Naturals, Sequences

\* A digit, lower-case letters to and after f, upper-case ones, a hyphen, anything else.
Chars == {"digit", "a-f", "g-z", "A-F", "G-Z", "hyphen", "other"}

MaxClOrdIDLen == 18

All(s, class) == \A i \in DOMAIN s : s[i] \in class

HexDigits == {"digit", "a-f", "A-F"}

\* isHexString, isLowerAlphanumeric.
IsHexString(s) == s # <<>> /\ All(s, HexDigits)
IsLowerAlphanumeric(s) == s # <<>> /\ All(s, {"digit", "a-f", "g-z"})

\* Mutation: the positions count from one.
IsClOrdUUID_fromOne(s) ==
  /\ Len(s) = 36
  /\ \A i \in 1 .. 36 : IF i \in {8, 13, 18, 23} THEN s[i] = "hyphen" ELSE s[i] \in HexDigits

IsClOrdUUID(s) ==
  /\ Len(s) = 36
  /\ \A i \in 1 .. 36 : IF i - 1 \in {8, 13, 18, 23} THEN s[i] = "hyphen" ELSE s[i] \in HexDigits

ValidateClOrdID(s) ==
  \/ s = <<>>
  \/ IsClOrdUUID(s)
  \/ Len(s) = 32 /\ IsHexString(s)
  \/ Len(s) <= MaxClOrdIDLen /\ IsLowerAlphanumeric(s)

---------------------------------------------------------------------------
\* The documented forms (clordid.go, lines 8-14, 25-26).

\* "8-4-4-4-12 hexadecimal, any case": four hyphens, between which, before and after which there
\* are so many hexadecimal digits.
GroupLengths == <<8, 4, 4, 4, 12>>

StandardUUID(s) ==
  \E hyphen \in [1 .. 4 -> {i \in DOMAIN s : s[i] = "hyphen"}] :
    LET at == [g \in 0 .. 5 |-> IF g = 0 THEN 0 ELSE IF g = 5 THEN Len(s) + 1 ELSE hyphen[g]]
    IN  \A g \in 1 .. 5 :
          /\ at[g] - at[g - 1] - 1 = GroupLengths[g]
          /\ \A i \in at[g - 1] + 1 .. at[g] - 1 : s[i] \in HexDigits

DocumentedForm(s) ==
  \/ s = <<>>
  \/ Len(s) \in 1 .. 18 /\ All(s, {"digit", "a-f", "g-z"})
  \/ StandardUUID(s)
  \/ Len(s) = 32 /\ All(s, HexDigits)
=============================================================================
