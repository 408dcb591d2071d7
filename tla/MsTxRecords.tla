---------------------------- MODULE MsTxRecords ----------------------------
(***************************************************************************)
(* The map msTxAsMulti a relayer keeps of the multisig operations it has   *)
(* seen, and the operators of chains/substrate/listener.go and writer.go   *)
(* that update and read it.  The key is the timepoint of the operation's   *)
(* first extrinsic.  `Others`, a list of lists of the other signatories,   *)
(* is kept as the set of signatories that such lists leave out: those who  *)
(* voted.                                                                  *)
(***************************************************************************)
EXTENDS Integers

NoRecords == [tx \in {} |-> {}]

IsOpen(rec, call)  == ~rec.executed /\ rec.call = call

(* Mutant: executed records are passed over. *)
MatchingOpen(recs, call) == {tx \in DOMAIN recs : IsOpen(recs[tx], call)}
Matching(recs, call) == {tx \in DOMAIN recs : recs[tx].call = call}

(* Mutant: the opener's own vote is not marked. *)
MarkNewUnvoted(recs, tx, call, who) ==
    [k \in DOMAIN recs \cup {tx} |->
        IF k = tx THEN [call |-> call, executed |-> FALSE, voters |-> {}]
                  ELSE recs[k]]
MarkNew(recs, tx, call, who) ==
    [k \in DOMAIN recs \cup {tx} |->
        IF k = tx THEN [call |-> call, executed |-> FALSE, voters |-> {who}]
                  ELSE recs[k]]

MarkVote(recs, call, who) ==
    [k \in DOMAIN recs |->
        IF IsOpen(recs[k], call) THEN [recs[k] EXCEPT !.voters = @ \cup {who}]
                                 ELSE recs[k]]

(* Mutants: a copy is marked and not stored; the call is not compared. *)
MarkExecutionCopy(recs, call) == recs
MarkExecutionAny(recs, call) ==
    [k \in DOMAIN recs |-> [recs[k] EXCEPT !.executed = TRUE]]
MarkExecution(recs, call) ==
    [k \in DOMAIN recs |->
        IF IsOpen(recs[k], call) THEN [recs[k] EXCEPT !.executed = TRUE]
                                 ELSE recs[k]]

(* The switch over an extrinsic's type in processBlock. *)
ProcessExtrinsic(recs, tx, e) ==
    CASE e.kind = "New"      -> MarkNew(recs, tx, e.call, e.who)
      [] e.kind = "Approve"  -> MarkVote(recs, e.call, e.who)
      [] e.kind = "Executed" -> MarkExecution(MarkVote(recs, e.call, e.who), e.call)

Without(recs, tx) == [k \in DOMAIN recs \ {tx} |-> recs[k]]

(* Mutant: YesVoted is not told from an execution. *)
IsExecutedOrVoted(rec) == rec.executed \/ rec.voters # {}
(* isFinish: TRUE with the record's transaction, or TRUE with YesVoted. *)
IsExecuted(rec)  == rec.executed
IsVoted(rec, r)  == ~rec.executed /\ r \in rec.voters
=============================================================================
