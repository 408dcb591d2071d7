------------------------------- MODULE Payout -------------------------------
(***************************************************************************)
(* What the redeem side promises.  A call is paid out only when a quorum   *)
(* of relayers backs it, each because it was routed a deposit the call     *)
(* pays; backing is never withdrawn, and payouts happen one at a time and  *)
(* are final.  A relayer reports deposits as ended one by one, each on a   *)
(* payout of its own; a restart is all that makes it forget its reports.   *)
(***************************************************************************)
EXTENDS Integers, FiniteSets

CONSTANTS Relayers, Calls, Deposits,
          PaidBy,   \* the call that pays a deposit
          Quorums,  \* the sets of relayers that can have a call paid
          Ids       \* what tells two payouts of one call apart

VARIABLES backers,  \* backers[c]: relayers that were told to pay c
          payouts,  \* payouts[c]: the payouts of c
          ended     \* ended[r]: the deposits r reports as ended

Init ==
    /\ backers = [c \in Calls |-> {}]
    /\ payouts = [c \in Calls |-> {}]
    /\ ended = [r \in Relayers |-> {}]

Back(r, d) ==
    /\ backers' = [backers EXCEPT ![PaidBy[d]] = @ \cup {r}]
    /\ UNCHANGED <<payouts, ended>>

Pay(c) ==
    /\ \E Q \in Quorums : Q \subseteq backers[c]
    /\ \E id \in Ids \ payouts[c] :
          payouts' = [payouts EXCEPT ![c] = @ \cup {id}]
    /\ UNCHANGED <<backers, ended>>

EndedBy(r, c) == {d \in ended[r] : PaidBy[d] = c}

End(r, d) ==
    /\ d \notin ended[r] /\ r \in backers[PaidBy[d]]
    /\ Cardinality(EndedBy(r, PaidBy[d])) < Cardinality(payouts[PaidBy[d]])
    /\ ended' = [ended EXCEPT ![r] = @ \cup {d}]
    /\ UNCHANGED <<backers, payouts>>

Forget(r) ==
    /\ ended' = [ended EXCEPT ![r] = {}]
    /\ UNCHANGED <<backers, payouts>>

Next ==
    \/ \E c \in Calls : Pay(c)
    \/ \E r \in Relayers :
          \/ Forget(r)
          \/ \E d \in Deposits : Back(r, d) \/ End(r, d)

Spec == Init /\ [][Next]_<<backers, payouts, ended>>
=============================================================================
