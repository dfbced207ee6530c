-------------------------------- MODULE Token --------------------------------
(***************************************************************************)
(* What the Manager promises about a reservation token, with no tuners,    *)
(* timers or maps: the life of the token and the client that owns it.      *)
(* Module Manager implements this one.                                     *)
(***************************************************************************)
CONSTANTS Tokens, Clients, NoClient

VARIABLES
    life,   \* "free", "granted", "running", or "orphan" on a tuner for good
    owner   \* the client it is released with

lifeVars == <<life, owner>>

Init ==
    /\ life = [k \in Tokens |-> "free"]
    /\ owner = [k \in Tokens |-> NoClient]

Owned(k) == life[k] \in {"granted", "running"}

Becomes(k, how, whose) ==
    /\ life' = [life EXCEPT ![k] = how]
    /\ owner' = [owner EXCEPT ![k] = whose]

\* A token is given to a client, anew or again.
Give(k, c) == (life[k] = "free" \/ Owned(k)) /\ Becomes(k, "granted", c)

\* The tuner refuses a reservation: the token is free again, or the tuner has
\* kept the reservation and nothing will ever remove it.
Refuse(k) ==
    /\ life[k] = "free" \/ Owned(k)
    /\ \E how \in {"free", "orphan"} : Becomes(k, how, NoClient)

Run(k) == life[k] = "granted" /\ Becomes(k, "running", owner[k])

\* Released, or expired.
End(k) == Owned(k) /\ Becomes(k, "free", NoClient)

\* A client leaves, and all it owns is freed with it.
Leave(c) ==
    /\ life' = [k \in Tokens |-> IF owner[k] = c THEN "free" ELSE life[k]]
    /\ owner' = [k \in Tokens |-> IF owner[k] = c THEN NoClient ELSE owner[k]]

Next ==
    \/ \E k \in Tokens : (\E c \in Clients : Give(k, c)) \/ Refuse(k) \/ Run(k) \/ End(k)
    \/ \E c \in Clients : Leave(c)

Spec == Init /\ [][Next]_lifeVars
=============================================================================
