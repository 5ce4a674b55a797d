----------------------------- MODULE SessionChain -----------------------------
(***************************************************************************)
(* What refresh tokens promise the holder of an account: each login starts *)
(* a chain that has one usable token, or is between two, until it ends, and *)
(* a chain that has ended never starts again.                              *)
(***************************************************************************)

CONSTANT Logins

VARIABLE chain

Init == chain = [l \in Logins |-> "none"]

Move(l, from, to) ==
  /\ chain[l] = from
  /\ chain' = [chain EXCEPT ![l] = to]

\* A logout or a password reset ends the live chains all at once; one that is
\* between two tokens may outlive it, or end when its refresh stops.
End(S) ==
  /\ \A l \in S : chain[l] \in {"live", "rotating"}
  /\ chain' = [l \in Logins |-> IF l \in S THEN "ended" ELSE chain[l]]

Next ==
  \/ \E l \in Logins :
       \/ Move(l, "none", "live")
       \/ Move(l, "live", "rotating")
       \/ Move(l, "rotating", "live")
  \/ \E S \in SUBSET Logins : End(S)

Spec == Init /\ [][Next]_chain
=============================================================================
