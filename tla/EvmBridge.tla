------------------------------ MODULE EvmBridge ------------------------------
(***************************************************************************)
(* The EVM side as chains/platdot/writer_methods.go uses it: the Bridge    *)
(* contract's proposals, the event log, the head of the chain and the      *)
(* pending transactions of every relayer.  The contract and the node are   *)
(* not code of the repository (bindings/ is generated from their ABI).     *)
(***************************************************************************)
EXTENDS Integers, Sequences, FiniteSets

CONSTANTS Relayers,   \* registered relayers
          Threshold,  \* votes that pass a proposal
          Msgs        \* messages; each is a proposal, told apart by its data hash

ASSUME EvmAssumption == Threshold \in Nat \ {0} /\ IsFiniteSet(Relayers)

VARIABLES status,  \* status[m]: state of the proposal of m
          votes,   \* votes[m]: relayers whose vote for m counted
          events,  \* ProposalEvent logs, with the block they are in
          height,  \* number of the latest block
          pool,    \* pool[r]: pending transactions of r, in nonce order
          sent     \* sent[r]: transactions r has sent: its next nonce

bridgeVars == <<status, votes, events, height, pool, sent>>

Status == {"Inactive", "Active", "Passed", "Transferred", "Cancelled"}
Job    == {"vote", "execute"}
Tx     == [job : Job, msg : Msgs]

BridgeTypeOK ==
    /\ status \in [Msgs -> Status]
    /\ votes \in [Msgs -> SUBSET Relayers]
    /\ events \subseteq [block : Nat, msg : Msgs, status : Status]
    /\ height \in Nat
    /\ pool \in [Relayers -> Seq(Tx)]
    /\ sent \in [Relayers -> Nat]

BridgeInit ==
    /\ status = [m \in Msgs |-> "Inactive"]
    /\ votes = [m \in Msgs |-> {}]
    /\ events = {}
    /\ height = 1
    /\ pool = [r \in Relayers |-> << >>]
    /\ sent = [r \in Relayers |-> 0]

(* The node takes a transaction if its nonce is the account's next one. *)
Accepted(r, nonce, tx) ==
    /\ nonce = sent[r]
    /\ pool' = [pool EXCEPT ![r] = Append(@, tx)]
    /\ sent' = [sent EXCEPT ![r] = @ + 1]

(* The proposal of m changes its state, with an event in the new block. *)
Moves(m, to) ==
    /\ status' = [status EXCEPT ![m] = to]
    /\ events' = events \cup {[block |-> height + 1, msg |-> m, status |-> to]}

CountsVote(r, m) ==
    /\ status[m] \in {"Inactive", "Active"}
    /\ r \notin votes[m]
    /\ votes' = [votes EXCEPT ![m] = @ \cup {r}]
    /\ \/ Cardinality(votes[m] \cup {r}) >= Threshold /\ Moves(m, "Passed")
       \/ /\ Cardinality(votes[m] \cup {r}) < Threshold
          /\ IF status[m] = "Inactive" THEN Moves(m, "Active")
                                       ELSE UNCHANGED <<status, events>>

Transfers(m) ==
    /\ status[m] = "Passed"
    /\ Moves(m, "Transferred")
    /\ UNCHANGED votes

(* A transaction whose requirements do not hold reverts. *)
Reverts(r, tx) ==
    /\ \/ tx.job = "vote" /\ (status[tx.msg] \notin {"Inactive", "Active"}
                                \/ r \in votes[tx.msg])
       \/ tx.job = "execute" /\ status[tx.msg] # "Passed"
    /\ UNCHANGED <<status, votes, events>>

(* The next block holds r's first pending transaction. *)
Mine(r) ==
    /\ pool[r] # << >>
    /\ LET tx == Head(pool[r]) IN
          \/ tx.job = "vote" /\ CountsVote(r, tx.msg)
          \/ tx.job = "execute" /\ Transfers(tx.msg)
          \/ Reverts(r, tx)
    /\ pool' = [pool EXCEPT ![r] = Tail(@)]
    /\ height' = height + 1
    /\ UNCHANGED sent

EmptyBlock ==
    /\ height' = height + 1
    /\ UNCHANGED <<status, votes, events, pool, sent>>

(* A proposal that expired may be cancelled by anyone who may vote. *)
Cancel(m) ==
    /\ status[m] \in {"Active", "Passed"}
    /\ Moves(m, "Cancelled")
    /\ height' = height + 1
    /\ UNCHANGED <<votes, pool, sent>>
=============================================================================
