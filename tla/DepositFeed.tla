----------------------------- MODULE DepositFeed -----------------------------
(***************************************************************************)
(* What a listener promises to the router: it routes deposits that can no  *)
(* longer change, none before an earlier one, and so leaves none out.  It  *)
(* may route one again.                                                    *)
(***************************************************************************)
EXTENDS Naturals

VARIABLES settled,  \* the deposits that are final
          routed    \* those routed so far

(* The chain's order of deposits. *)
Before(d, e) == \/ d.block < e.block
                \/ d.block = e.block /\ d.index < e.index

Init == settled = {} /\ routed = {}

(* Later deposits become final; those that were stay so. *)
Settle ==
    /\ settled \subseteq settled'
    /\ \A d \in settled, e \in settled' \ settled : Before(d, e)
    /\ UNCHANGED routed

Route ==
    /\ \E d \in settled :
          /\ \A e \in settled : Before(e, d) => e \in routed
          /\ routed' = routed \cup {d}
    /\ UNCHANGED settled

Next == Settle \/ Route
Spec == Init /\ [][Next]_<<settled, routed>>
=============================================================================
