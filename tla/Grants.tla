------------------------------- MODULE Grants -------------------------------
(***************************************************************************)
(* What a login promises, whatever sessions and refresh tokens it goes     *)
(* through: it is granted once, and once it is over it stays over.         *)
(***************************************************************************)
CONSTANT Logins

VARIABLE grant

Init == grant = [l \in Logins |-> "none"]

Open(l) == /\ grant[l] = "none"
           /\ grant' = [grant EXCEPT ![l] = "open"]

\* Several at once: a user's logins end together.
Close == /\ DOMAIN grant' = Logins
         /\ \A l \in Logins : \/ grant'[l] = grant[l]
                              \/ grant[l] = "open" /\ grant'[l] = "closed"

Next == Close \/ \E l \in Logins : Open(l)

Spec == Init /\ [][Next]_grant
=============================================================================
