--------------------------- MODULE MultisigPallet ---------------------------
(***************************************************************************)
(* The Substrate side of a redeem as chains/substrate/writer.go uses it:   *)
(* the transaction pool and the multisig pallet's as_multi.  None of this  *)
(* is code of the repository; it is modelled from the calls the writer     *)
(* makes and from the three kinds of extrinsic the listener tells apart.   *)
(*                                                                         *)
(* log is the chain's history of successful as_multi extrinsics; the       *)
(* position of an entry stands for its timepoint (block, index), so a New  *)
(* entry's position is what an approval has to quote, and 0 stands for     *)
(* "no timepoint".  A failed extrinsic leaves no entry.                    *)
(***************************************************************************)
EXTENDS Integers, Sequences, FiniteSets

CONSTANTS Relayers,   \* the signatories of the multisig account
          Threshold,  \* approvals that execute a call
          Calls,      \* transfer_keep_alive calls: a recipient and an amount
          MaxLog      \* bound on the length of log

ASSUME ThresholdAssumption == Threshold \in Nat /\ Threshold >= 2
ASSUME RelayersAssumption  == IsFiniteSet(Relayers)
ASSUME MaxLogAssumption    == MaxLog \in Nat

VARIABLES log,   \* successful extrinsics, oldest first
          op,    \* op[c]: the open multisig operation of call c, or NoOp
          pool   \* pool[r]: the extrinsic of r that waits for a block, if any

chainVars == <<log, op, pool>>

Event     == [kind : {"New", "Approve", "Executed"}, who : Relayers, call : Calls]
Operation == [tx : Nat, approvals : SUBSET Relayers]
Extrinsic == [call : Calls, tp : Nat]

NoOp == [tx |-> 0, approvals |-> {}]

ChainTypeOK ==
    /\ log \in Seq(Event) /\ Len(log) <= MaxLog
    /\ op \in [Calls -> Operation]
    /\ pool \in [Relayers -> SUBSET Extrinsic]

ChainInit ==
    /\ log = << >>
    /\ op = [c \in Calls |-> NoOp]
    /\ pool = [r \in Relayers |-> {}]

(***************************************************************************)
(* SubmitAndWatchExtrinsic.  The account nonce comes from the latest       *)
(* state, so while an extrinsic of r is pending the next one has the same  *)
(* nonce and the same tip, and the pool refuses it.                        *)
(***************************************************************************)
Submitted(r, x) == pool' = [pool EXCEPT ![r] = IF @ = {} THEN {x} ELSE @]

(***************************************************************************)
(* as_multi wants no timepoint for a new operation, the timepoint of the   *)
(* open one for an approval, and at most one approval per signatory.       *)
(***************************************************************************)
Accepts(r, x) ==
    /\ x.tp = op[x.call].tx
    /\ r \notin op[x.call].approvals

Emit(kind, r, c) ==
    /\ Len(log) < MaxLog
    /\ log' = Append(log, [kind |-> kind, who |-> r, call |-> c])

Taken(r) == pool' = [pool EXCEPT ![r] = {}]

IncludeNew(r, x) ==
    /\ Accepts(r, x) /\ x.tp = 0
    /\ Emit("New", r, x.call)
    /\ op' = [op EXCEPT ![x.call] = [tx |-> Len(log) + 1, approvals |-> {r}]]
    /\ Taken(r)

IncludeApprove(r, x) ==
    /\ Accepts(r, x) /\ x.tp # 0
    /\ Cardinality(op[x.call].approvals \cup {r}) < Threshold
    /\ Emit("Approve", r, x.call)
    /\ op' = [op EXCEPT ![x.call].approvals = @ \cup {r}]
    /\ Taken(r)

IncludeExecuted(r, x) ==
    /\ Accepts(r, x) /\ x.tp # 0
    /\ Cardinality(op[x.call].approvals \cup {r}) >= Threshold
    /\ Emit("Executed", r, x.call)
    /\ op' = [op EXCEPT ![x.call] = NoOp]
    /\ Taken(r)

IncludeFailed(r, x) ==
    /\ ~Accepts(r, x)
    /\ Taken(r)
    /\ UNCHANGED <<log, op>>

(* A block takes r's pending extrinsic. *)
Include(r) ==
    \E x \in pool[r] :
        \/ IncludeNew(r, x)
        \/ IncludeApprove(r, x)
        \/ IncludeExecuted(r, x)
        \/ IncludeFailed(r, x)

(* The pool may also lose it: nobody watches the submission. *)
Drop(r) ==
    /\ pool[r] # {}
    /\ Taken(r)
    /\ UNCHANGED <<log, op>>

Positions(kind, c) == {i \in 1..Len(log) : log[i].kind = kind /\ log[i].call = c}

(* How often c was paid out. *)
Paid(c) == Cardinality(Positions("Executed", c))
=============================================================================
