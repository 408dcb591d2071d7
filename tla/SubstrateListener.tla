-------------------------- MODULE SubstrateListener --------------------------
(***************************************************************************)
(* Listening to the Substrate chain: the listener of chains/substrate      *)
(* polls one finalized block after the other, routes a message for every   *)
(* batch that deposits to the multisig account, and marks every as_multi   *)
(* extrinsic in msTxAsMulti.  Every call of the chain is a step of its own *)
(* and may fail, some of them with a panic that ends the relayer.  The     *)
(* chain may replace blocks that are not finalized yet.                    *)
(*                                                                         *)
(* What marking does to msTxAsMulti is the subject of MsTxRecords and      *)
(* MultiSigRedeem; here marks is the order in which it is done.            *)
(***************************************************************************)
EXTENDS Fees, Sequences

CONSTANTS Extrinsics,  \* extrinsics of a block
          KindOf,      \* KindOf[x]: what processBlock makes of x, see Kinds
          AmountOf,    \* AmountOf[x]: e.Amount of a batch
          Blocks,      \* the contents a block may have: sequences of extrinsics
          Radix,       \* of the digits that a nonce is written in (10)
          StartBlock,  \* startBlock
          RetryLimit,  \* BlockRetryLimit
          MaxHeight,   \* bound on the length of the chain
          MaxReorgs,   \* bound on the number of reorganisations
          MaxErrors,   \* bound on the number of failed calls
          MaxCrashes   \* bound on the number of restarts

(***************************************************************************)
(* A UtilityBatch to the multisig account ("deposit"), to another one      *)
(* ("batch"), or without an amount that SetString can parse ("unparsed");  *)
(* one of the three types of as_multi ("multisig"); or any other extrinsic.*)
(***************************************************************************)
Kinds == {"deposit", "batch", "unparsed", "multisig", "other"}

ASSUME ListenerAssumption ==
    /\ KindOf \in [Extrinsics -> Kinds] /\ AmountOf \in [Extrinsics -> Nat]
    /\ Blocks \subseteq Seq(Extrinsics)
    /\ Radix \in Nat /\ Radix > 1
    /\ StartBlock \in Nat /\ RetryLimit \in Nat \ {0}
    /\ MaxHeight \in Nat /\ MaxReorgs \in Nat /\ MaxErrors \in Nat /\ MaxCrashes \in Nat

VARIABLES
    chain,   \* the node's chain: the contents of its blocks, from block 1 on
    final,   \* the number of its last finalized block
    latest,  \* the latestBlock flag of the configuration
    pc,      \* the call to make next, see Control
    first,   \* the block this life of the relayer started with
    known,   \* finalizedHeader.Number
    current, \* currentBlock
    retry,   \* retry
    block,   \* resp.Extrinsic
    index,   \* which of them is handled next
    up,      \* the relayer runs
    marks,   \* the as_multi extrinsics marked since it started, in order
    routed,  \* the messages sent to the router (history)
    fresh,   \* those sent since the relayer started (history)
    again,   \* a message was sent twice since then (history)
    row,     \* tries of the current block that failed (history)
    errors, reorgs, crashes

node == <<chain, final>>
task == <<first, known, current, retry, block, index>>
history == <<routed, fresh, again, row>>
counters == <<errors, reorgs, crashes>>
vars == <<node, latest, pc, task, up, marks, history, counters>>

Control == {"start", "head", "header", "hash", "block", "number", "extrinsic"}

Place == [block : Nat, index : Nat]

(* A message: the deposit it is about. *)
Message(b, i, x) == [block |-> b, index |-> i, payload |-> x]
Messages == [block : Nat, index : Nat, payload : Extrinsics]

(***************************************************************************)
(* A message's DepositNonce is the number whose digits are those of the    *)
(* block's number followed by those of the extrinsic's index, which counts *)
(* from 0.  Shift[n] is the power of Radix with one digit more than n.     *)
(***************************************************************************)
Shift[n \in Nat] == IF n < Radix THEN Radix ELSE Radix * Shift[n \div Radix]

DepositNonceFixed(m) == m.block * Radix + (m.index - 1)  \* mutant: one digit only
DepositNonce(m) == m.block * Shift[m.index - 1] + (m.index - 1)

TypeOK ==
    /\ chain \in Seq(Blocks) /\ final \in 0..Len(chain)
    /\ latest \in BOOLEAN
    /\ pc \in Control
    /\ first \in Nat /\ known \in Nat /\ current \in Nat
    /\ retry \in 0..RetryLimit
    /\ block \in Seq(Extrinsics)
    /\ index \in Nat \ {0}
    /\ up \in BOOLEAN
    /\ marks \in Seq(Place)
    /\ routed \subseteq Messages /\ fresh \subseteq Messages
    /\ again \in BOOLEAN
    /\ row \in Nat
    /\ errors \in 0..MaxErrors /\ reorgs \in 0..MaxReorgs /\ crashes \in 0..MaxCrashes

Init ==
    /\ chain = << >> /\ final = 0
    /\ latest \in BOOLEAN
    /\ pc = "start" /\ first = 0 /\ known = 0 /\ current = 0
    /\ retry = RetryLimit /\ block = << >> /\ index = 1
    /\ up = TRUE /\ marks = << >>
    /\ routed = {} /\ fresh = {} /\ again = FALSE /\ row = 0
    /\ errors = 0 /\ reorgs = 0 /\ crashes = 0

(***************************************************************************)
(* The chain.  Block 0 holds no extrinsics.                                *)
(***************************************************************************)
Content(b) == IF b \in DOMAIN chain THEN chain[b] ELSE << >>

Mine ==
    /\ Len(chain) < MaxHeight
    /\ \E content \in Blocks : chain' = Append(chain, content)
    /\ UNCHANGED <<final, latest, pc, task, up, marks, history, counters>>

(* A branch of the same length takes the place of the last n blocks. *)
Reorg ==
    /\ reorgs < MaxReorgs
    /\ reorgs' = reorgs + 1
    /\ \E n \in 1..(Len(chain) - final) : \E branch \in [1..n -> Blocks] :
          chain' = SubSeq(chain, 1, Len(chain) - n) \o branch
    /\ UNCHANGED <<final, latest, pc, task, up, marks, history, errors, crashes>>

Finalize ==
    /\ final < Len(chain)
    /\ final' = final + 1
    /\ UNCHANGED <<chain, latest, pc, task, up, marks, history, counters>>

(***************************************************************************)
(* InitializeChain and start: the configured block, or the latest one.     *)
(***************************************************************************)
Works == UNCHANGED errors
Fails == errors < MaxErrors /\ errors' = errors + 1

FirstBlock == IF latest THEN Len(chain) ELSE StartBlock

Start ==
    /\ up /\ pc = "start" /\ Works
    /\ Len(chain) >= FirstBlock
    /\ pc' = "head"
    /\ first' = FirstBlock /\ current' = FirstBlock
    /\ UNCHANGED <<node, latest, known, retry, block, index, up, marks, history,
                   reorgs, crashes>>

(* No header, or one before startBlock: the relayer exits. *)
StartFails ==
    /\ up /\ pc = "start"
    /\ Fails \/ (Works /\ Len(chain) < FirstBlock)
    /\ up' = FALSE
    /\ UNCHANGED <<node, latest, pc, task, marks, history, reorgs, crashes>>

(***************************************************************************)
(* pollBlocks.                                                             *)
(***************************************************************************)
FinalizedHeadBest ==  \* mutant: the best head
    /\ up /\ pc = "head" /\ retry > 0 /\ Works
    /\ known' = Len(chain)
    /\ pc' = "header"
    /\ UNCHANGED <<node, latest, first, current, retry, block, index, up, marks, history,
                   reorgs, crashes>>

(* GetFinalizedHead: the hash names the block whose header comes next. *)
FinalizedHead ==
    /\ up /\ pc = "head" /\ retry > 0 /\ Works
    /\ known' = final
    /\ pc' = "header"
    /\ UNCHANGED <<node, latest, first, current, retry, block, index, up, marks, history,
                   reorgs, crashes>>

(* GetHeader; while the block is not finalized the listener only sleeps. *)
Header ==
    /\ up /\ pc = "header" /\ Works
    /\ pc' = IF current > known THEN "head" ELSE "hash"
    /\ known' = 0  \* not used again
    /\ UNCHANGED <<node, latest, first, current, retry, block, index, up, marks, history,
                   reorgs, crashes>>

BlockHash ==
    /\ up /\ pc = "hash" /\ Works
    /\ pc' = "block"
    /\ UNCHANGED <<node, latest, task, up, marks, history, reorgs, crashes>>

(* ErrBlockNotReady costs no retry. *)
NotReady ==
    /\ up /\ pc = "hash" /\ Fails
    /\ pc' = "head"
    /\ UNCHANGED <<node, latest, task, up, marks, history, reorgs, crashes>>

CallFailsSkipping ==  \* mutant: go on with the next block
    /\ up /\ Fails
    /\ pc \in {"header", "hash"} \/ (pc = "head" /\ retry > 0)
    /\ pc' = "head" /\ retry' = retry - 1 /\ row' = row + 1
    /\ current' = current + 1
    /\ UNCHANGED <<node, latest, first, known, block, index, up, marks,
                   routed, fresh, again, reorgs, crashes>>

(* Any of the three calls fails: start over. *)
CallFails ==
    /\ up /\ Fails
    /\ pc \in {"header", "hash"} \/ (pc = "head" /\ retry > 0)
    /\ pc' = "head" /\ retry' = retry - 1 /\ row' = row + 1
    /\ UNCHANGED <<node, latest, first, known, current, block, index, up, marks,
                   routed, fresh, again, reorgs, crashes>>

(* No more retries: the error ends the relayer. *)
GiveUp ==
    /\ up /\ pc = "head" /\ retry = 0
    /\ up' = FALSE
    /\ UNCHANGED <<node, latest, pc, task, marks, history, counters>>

(***************************************************************************)
(* processBlock.                                                           *)
(***************************************************************************)
GetBlock ==
    /\ up /\ pc = "block" /\ Works
    /\ pc' = "number"
    /\ UNCHANGED <<node, latest, task, up, marks, history, reorgs, crashes>>

GetBlockByNumber ==
    /\ up /\ pc = "number" /\ Works
    /\ block' = Content(current) /\ index' = 1
    /\ pc' = "extrinsic"
    /\ UNCHANGED <<node, latest, first, known, current, retry, up, marks, history,
                   reorgs, crashes>>

(* A failure of either panics. *)
FetchPanics ==
    /\ up /\ pc \in {"block", "number"} /\ Fails
    /\ up' = FALSE
    /\ UNCHANGED <<node, latest, pc, task, marks, history, reorgs, crashes>>

Handles(kind) ==
    /\ up /\ pc = "extrinsic" /\ index <= Len(block)
    /\ KindOf[block[index]] = kind

NextExtrinsic ==
    /\ index' = index + 1
    /\ UNCHANGED <<node, latest, pc, first, known, current, retry, block, up, row, counters>>

(* The destination is the chain that the configuration names. *)
Deposit ==
    /\ Handles("deposit")
    /\ LET m == Message(current, index, block[index]) IN
          /\ routed' = routed \cup {m} /\ fresh' = fresh \cup {m}
          /\ again' = (again \/ m \in fresh)
    /\ UNCHANGED marks
    /\ NextExtrinsic

(* markNew, markVote, markExecution. *)
Mark ==
    /\ Handles("multisig")
    /\ marks' = Append(marks, [block |-> current, index |-> index])
    /\ UNCHANGED <<routed, fresh, again>>
    /\ NextExtrinsic

PassOver ==
    /\ Handles("batch") \/ Handles("other")
    /\ UNCHANGED <<marks, routed, fresh, again>>
    /\ NextExtrinsic

(* The fee of a nil amount panics. *)
Unparsed ==
    /\ Handles("unparsed")
    /\ up' = FALSE
    /\ UNCHANGED <<node, latest, pc, task, marks, history, counters>>

(* mutants: the block is looked at again; the retries are not given back,  *)
(* or given on top                                                         *)
NextBlockSame ==
    /\ current' = IF block = << >> THEN current + 1 ELSE current
    /\ retry' = RetryLimit /\ row' = 0
NextBlockTired == current' = current + 1 /\ retry' = retry /\ row' = 0
NextBlockFresh == current' = current + 1 /\ retry' = retry + RetryLimit /\ row' = 0

NextBlock == current' = current + 1 /\ retry' = RetryLimit /\ row' = 0

(* The block is stored, but nothing loads it. *)
Handled ==
    /\ up /\ pc = "extrinsic" /\ index > Len(block)
    /\ NextBlock
    /\ pc' = "head" /\ block' = << >> /\ index' = 1
    /\ UNCHANGED <<node, latest, first, known, up, marks, routed, fresh, again, counters>>

(* mutant: msTxAsMulti outlives the process *)
RestartKeepingMarks ==
    /\ crashes < MaxCrashes
    /\ crashes' = crashes + 1
    /\ pc' = "start" /\ first' = 0 /\ known' = 0 /\ current' = 0
    /\ retry' = RetryLimit /\ block' = << >> /\ index' = 1
    /\ up' = TRUE
    /\ fresh' = {} /\ again' = FALSE /\ row' = 0
    /\ UNCHANGED <<node, latest, marks, routed, errors, reorgs>>

(* The relayer stops at any time, or after an exit or a panic, and starts again. *)
Restart ==
    /\ crashes < MaxCrashes
    /\ crashes' = crashes + 1
    /\ pc' = "start" /\ first' = 0 /\ known' = 0 /\ current' = 0
    /\ retry' = RetryLimit /\ block' = << >> /\ index' = 1
    /\ up' = TRUE /\ marks' = << >>
    /\ fresh' = {} /\ again' = FALSE /\ row' = 0
    /\ UNCHANGED <<node, latest, routed, errors, reorgs>>

Listening ==
    \/ Start \/ StartFails
    \/ FinalizedHead \/ Header \/ BlockHash \/ NotReady \/ CallFails \/ GiveUp
    \/ GetBlock \/ GetBlockByNumber \/ FetchPanics
    \/ Deposit \/ Mark \/ PassOver \/ Unparsed \/ Handled

Next == Mine \/ Reorg \/ Finalize \/ Listening \/ Restart

Spec == Init /\ [][Next]_vars

(* The listener's loop goes on as long as the relayer runs. *)
FairSpec == Spec /\ WF_vars(Listening)

-----------------------------------------------------------------------------
(* The listener is done with the i-th extrinsic of block b. *)
Behind(b, i) == b < current \/ (b = current /\ pc = "extrinsic" /\ i < index)

(* The places of extrinsics of a kind in finalized blocks from block b on. *)
Finalized(kind, b) ==
    {p \in UNION {{[block |-> c, index |-> i] : i \in DOMAIN chain[c]} : c \in 1..final} :
        p.block >= b /\ KindOf[chain[p.block][p.index]] = kind}

DepositAt(p) == Message(p.block, p.index, chain[p.block][p.index])

(***************************************************************************)
(* What was routed stays on the chain, as it was routed: no other branch   *)
(* of the chain takes a deposit back that the EVM chain pays for.  About   *)
(* pollBlocks taking a block only when it is finalized.                    *)
(***************************************************************************)
RoutedStaysOnChain ==
    \A m \in routed :
        /\ m.block \in 1..final
        /\ m.index \in DOMAIN chain[m.block]
        /\ chain[m.block][m.index] = m.payload

(***************************************************************************)
(* In one life the relayer routes a deposit at most once, whatever fails:  *)
(* pollBlocks tries a block again only for calls that come before its      *)
(* first deposit, and the calls of processBlock panic.                     *)
(***************************************************************************)
RoutesOnce == ~again

(***************************************************************************)
(* In one life the relayer has routed the deposits of exactly the blocks   *)
(* and extrinsics it has been through, from the block it started with on.  *)
(***************************************************************************)
LifeWithoutGap ==
    fresh = {DepositAt(p) : p \in {q \in Finalized("deposit", first) : Behind(q.block, q.index)}}

(***************************************************************************)
(* msTxAsMulti is made from the chain's as_multi extrinsics in their       *)
(* order, each of them once, those the listener has been through and no    *)
(* other one.  It is what the writer relies on when it reads the map.      *)
(***************************************************************************)
MarksFollowChain ==
    /\ \A j, k \in DOMAIN marks :
          j < k => \/ marks[j].block < marks[k].block
                   \/ marks[j].block = marks[k].block /\ marks[j].index < marks[k].index
    /\ {marks[j] : j \in DOMAIN marks} =
          {p \in Finalized("multisig", first) : Behind(p.block, p.index)}

(***************************************************************************)
(* The relayer exits for its retries only after RetryLimit tries of one    *)
(* block failed: a block that is done gives all of them back.              *)
(***************************************************************************)
GivesUpInTime == up /\ pc = "head" /\ retry = 0 => row = RetryLimit

(***************************************************************************)
(* A deposit asks for more on the EVM chain than was paid just if it does  *)
(* not cover half of its fee: a negative amount loses its sign in the      *)
(* message.  Sent back, no credit is worth more than was paid, that one    *)
(* neither: it pays the fee again.  About the fees of processBlock and     *)
(* redeemTx, and the message between them.                                 *)
(***************************************************************************)
CreditsMoreBelowHalfFee ==
    \A m \in routed :
        LET a == AmountOf[m.payload] IN
            /\ Credit(a) > a * OneToken <=> Fee(a) > 2 * a
            /\ Payable(Credit(a)) <= a

(***************************************************************************)
(* Deposits in blocks whose numbers have equally many digits have          *)
(* different nonces.  About the nonce made of block number and extrinsic   *)
(* index, written one after the other.                                     *)
(***************************************************************************)
NoncesTellApart ==
    \A m, n \in routed :
        (Shift[m.block] = Shift[n.block] /\ DepositNonce(m) = DepositNonce(n))
            => m.block = n.block /\ m.index = n.index

(***************************************************************************)
(* The listener implements DepositFeed: in order, none left out, whatever  *)
(* fails and whenever it restarts.  With latestBlock it promises nothing   *)
(* across a restart.                                                       *)
(***************************************************************************)
Settled == {DepositAt(p) : p \in Finalized("deposit", StartBlock)}
Feed == INSTANCE DepositFeed
    WITH settled <- IF latest THEN {} ELSE Settled,
         routed  <- IF latest THEN {} ELSE routed
ImplementsFeed == Feed!Spec

(***************************************************************************)
(* Every deposit of a block that is finalized is routed, unless the        *)
(* relayer ends or starts behind it.                                       *)
(***************************************************************************)
Due(n) == {m \in Settled : m.block = n}
EventuallyRouted ==
    \A n \in 1..MaxHeight :
        (Due(n) # {}) ~> (~up \/ first > n \/ Due(n) \subseteq routed)

(***************************************************************************)
(* The inductive invariant.  A block that is looked at is finalized, and   *)
(* its extrinsics are those of the chain; without the flag, what lies      *)
(* behind the listener's position was routed in this life.                 *)
(***************************************************************************)
LooksAtFinal ==
    /\ known <= final
    /\ pc \in {"hash", "block", "number", "extrinsic"} => current <= final
    /\ first <= current /\ (current <= first \/ current - 1 <= final)

ExtrinsicsOfBlock ==
    pc = "extrinsic" => block = Content(current) /\ index <= Len(block) + 1

StartsWhereItShould ==
    /\ pc = "start" => first = 0 /\ current = 0
    /\ pc # "start" /\ ~latest => first = StartBlock

RetriesCounted ==
    /\ row + retry = RetryLimit
    /\ pc \in {"header", "hash", "block", "number", "extrinsic"} => retry > 0

IInv ==
    /\ TypeOK
    /\ RoutedStaysOnChain /\ LooksAtFinal /\ ExtrinsicsOfBlock /\ StartsWhereItShould
    /\ LifeWithoutGap /\ fresh \subseteq routed /\ RoutesOnce
    /\ MarksFollowChain /\ RetriesCounted
=============================================================================
