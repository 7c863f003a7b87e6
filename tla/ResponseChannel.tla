-------------------------- MODULE ResponseChannel --------------------------
(***************************************************************************)
(* What the encapsulated-command channel promises its host, without lists,  *)
(* locks, queues or threads: responses are kept in the order in which they  *)
(* were accepted until the host fetches them, and the host is told once of  *)
(* each, never of one that is not there.                                    *)
(***************************************************************************)
EXTENDS Naturals, Sequences

CONSTANT Response  \* the responses the function can give

VARIABLES pending,  \* accepted and not yet fetched
          owed,     \* accepted and not yet announced
          got       \* fetched by the host

vars == <<pending, owed, got>>

Init ==
    /\ pending = <<>>
    /\ owed = 0
    /\ got = <<>>

\* A response comes with its announcement.
Accept(r) ==
    /\ pending' = Append(pending, r)
    /\ owed' = owed + 1
    /\ UNCHANGED got

Announce ==
    /\ owed > 0
    /\ owed' = owed - 1
    /\ UNCHANGED <<pending, got>>

\* The host need not have been told.
Fetch ==
    /\ pending # <<>>
    /\ got' = Append(got, Head(pending))
    /\ pending' = Tail(pending)
    /\ UNCHANGED owed

Next ==
    \/ \E r \in Response : Accept(r)
    \/ Announce
    \/ Fetch

Spec == Init /\ [][Next]_vars
=============================================================================
