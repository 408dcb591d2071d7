# Platdot: a verification project

Platdot is a two-way bridge between a Substrate chain (Polkadot, Kusama) and an EVM chain
(Alaya, PlatON). A group of relayers runs one process each. A process listens to both chains, and
for every deposit it sees on one chain it helps to pay on the other one, where a quorum of the
relayers has to agree: on the EVM chain by voting on a proposal of the `Bridge` contract, on the
Substrate chain by approving an operation of the multisig pallet. The relayers do not talk to each
other. All they share is the state of the two chains, which each of them sees at its own pace,
through calls that fail, and forgets when it restarts.

This directory holds TLA+ specifications of that program, translated from the Go source, TLC
configurations that check them, and proofs checked by TLAPS.

| | |
|---|---|
| `MultisigPallet`, `MsTxRecords`, `MultiSigRedeem` | redeeming on the Substrate chain: writer and multisig records of every relayer |
| `EvmBridge`, `EvmWriter` | voting and executing on the EVM chain, with the transaction lock |
| `EvmListener` | listening to the EVM chain |
| `SubstrateListener`, `Fees` | listening to the Substrate chain; the fees of both directions |
| `Payout`, `DepositFeed` | the abstract specifications: what the redeeming side, and a listener, promise |
| `MultiSigRedeem_proofs`, `SerialRedeem_proofs`, `RoundsRedeem_proofs`, `EvmWriter_proofs`, `EvmListener_proofs`, `SubstrateListener_proofs`, `DepositNonce_proofs`, `Fees_proofs` | theorems |
| `MCRedeem`, `MCEvmWriter`, `MCEvmListener`, `MCSubstrateListener`, `*.cfg` | instances for TLC |
| `PROJECT.json` | components, runs, mutants, hazards, theorems, and the source lines of every definition |

To check: `tlc -config redeem_safe.cfg MCRedeem.tla` (a configuration's module is named in
`PROJECT.json`), and `tlapm MultiSigRedeem_proofs.tla`.


## 1. Inventory

### The parts of the system

**EVM listener** (`chains/platdot/listener.go`, `events.go`). State: the block to look at next and
the retries left, both local to `pollBlocks`. It waits until a block is `blockConfirmations` deep,
fetches its `Deposit` logs, asks the bridge which handler each deposit's resource has, fetches the
deposit's record from that handler and sends a message to the router. Any failed call makes it
look at the block from its start again; `BlockRetryLimit` failures in a row end the process. Hard:
several calls per block with the chain moving in between, repetition after partial success,
reorganisations. Right if it routes what stays on the chain, in order and without a gap, and
repeats only for a reason.

**Substrate listener** (`chains/substrate/listener.go`). State: the block to look at next, the
retries, and `msTxAsMulti`, the record of the multisig operations seen so far. In every finalized
block it looks for `as_multi` extrinsics, which it records (`markNew`, `markVote`,
`markExecution`), and for batches that deposit, which it routes with a fee taken off and a nonce
made from block and index. Hard: five calls per block of which some are retried and some panic;
`msTxAsMulti` is read and trimmed by the writer's goroutines without a lock, lost on restart and
then made again; a sign that is lost, digits that run together. Right if it routes what is final,
in order, once, without a gap, for no more than was paid and with a nonce of its own, and marks
operations in the chain's order.

**Substrate writer** (`chains/substrate/writer.go`). State: the `messages` being processed, and one
goroutine per message. A goroutine waits until no other deposit of the same recipient and amount
is processed (`checkRepeat`), waits for the relayer's round, looks the call up in the listener's
records, and opens the multisig operation, approves it, waits, or ends because it was executed.
Hard: decisions on records that lag behind the chain, Go's random map order, mutexes that exclude
nobody, extrinsics whose fate nobody watches, deposits that look the same. Right if nothing is
paid without a quorum that was told to pay, every deposit is paid, no payout happens twice, and a
goroutine ends only after the payout.

**EVM writer** (`chains/platdot/writer.go`, `writer_methods.go`, `proposal_data.go`). State: one
goroutine per message, and one per vote that watches for the proposal to pass and then executes
it. Hard: two goroutines and several relayers act on one proposal; every query may fail, and some
failures read as "no"; sends fail because another relayer was faster; the watcher must not miss
the one event. Right if votes and executions stop when they are not needed, every proposal is
executed, once, and only after it passed.

**EVM connection** (`connections/platdot/connection.go`). State: `opts` with the nonce of the next
transaction, and `optsLock`. All goroutines send through it. Right if nonces never clash and the
lock is always given back.

**The rest**: assembly and configuration of the two chains (`chain.go`, `config.go`, `relayer.go`,
and the Substrate `connection.go`), the application (`cmd/`, `config/`), helpers for deployment and
tests (`shared/`), and bindings generated from the contracts (`bindings/`). Router, message type,
core and block store are in the library `platdot-utils`, outside this repository.

### How they interact

The core starts both listeners, each in a goroutine. A listener calls `router.Send`, and the router
starts the destination's `ResolveMessage` in a goroutine of its own. The Substrate writer reads its
listener's `msTxAsMulti` directly; the goroutines of the EVM writer share `opts` under `optsLock`.
An error sent to `sysErr` makes the core stop all chains: the process ends, and so do all
goroutines. Nothing is persisted that is read again (section 6), so every restart begins at
`startBlock` with empty maps, and every deposit is routed again.

    EVM chain --(EvmListener)--> router --(MultiSigRedeem)--> Substrate chain
    Substrate chain --(Substrate listener)--> router --(EvmWriter)--> EVM chain

The hazards, each at its line with the properties that watch it, are in `PROJECT.json`.


## 2. Plan

1. *Done.* The Substrate writer with the multisig half of its listener, composed with the pallet:
   the part with the least protection from its own data races. `Payout` as its abstract
   specification; safety in all interleavings, a refinement, liveness, proofs.
2. *Done.* The EVM writer with the connection's lock, composed with the contract.
3. *Done.* The EVM listener with reorganisations, failures and restarts, against `DepositFeed`.
4. *Done.* The Substrate listener with its panics, fees and nonces, against `DepositFeed`; the
   `latestBlock` option of both listeners.
5. *Done.* Proofs beyond the first invariants: `OneAtATime`, `PayoutPerDeposit` and the refinement of
   `Payout` under the serial timing, `NoSecondPayout` under that of the rounds, `OpensOnlyUnpaid`
   under none, `QuietOnDuplicate`, `AbandonedByGasOnly`, the refinement of `SubstrateListener`,
   `NoncesTellApart`; what the statements of `redeem_stop` and `listen_skip` are true of.
6. *Partly.* Messages that share a nonce: on the EVM side the theorems hold with them; on the
   Substrate side `redeem_stop` has a deposit that is routed twice. Left: the composition of
   `EvmListener` with `MultiSigRedeem`, from `DepositFeed` to `Payout`, which says when that happens.
7. *Left.* The pallet with a failing inner transfer.


## 3. The modules and the code

### MultiSigRedeem, with MsTxRecords and MultisigPallet

`MultisigPallet` is external: the pool and `as_multi`, modelled from the calls `submitTx` makes and
the three kinds of extrinsic `processBlock` tells apart. `log` is the chain's history of successful
`as_multi` extrinsics; a position in it stands for a timepoint. An approval must quote the
timepoint of the open operation and come from a signatory that has not approved yet; an extrinsic
that does not fit fails and leaves nothing. The pool may lose an extrinsic, and refuses a second
one of the same account nonce.

`MsTxRecords` is `msTxAsMulti` and the operators on it: `MarkNew`, `MarkVote`, `MarkExecution`,
`isFinish`. `Others`, a list of lists of the *other* signatories, is kept as the set of those such
a list leaves out, the voters.

`MultiSigRedeem` has one action per step of a goroutine between two points where others may act:

| action | code |
|---|---|
| `ResolveMessage`, `CheckRepeat`, `MarkProcessing` | `ResolveMessage` up to the goroutine's loop; check and mark are two steps because the mutex around each is a local variable |
| `GetRound` | the wait for the relayer's round |
| `RedeemExecuted`, `RedeemVoted`, `RedeemApprove`, `RedeemNew` | the scan of the records, by what the first matching one says; the first one is any one |
| `SubmitTx` | `submitTx`, whose result nobody uses |
| `Finish` | the deletion of record and message |
| `ProcessBlock` | one extrinsic of `processBlock` |
| `Restart` | a crash, an exit or a fatal concurrent map access, and the new start: at the start block, or with `latestBlock` at the newest block, finalized or not |

A restarted relayer forgets both maps and is routed every deposit again. `first[r]` is what lies
before the listener's first block; with `latestBlock` (`chain.go:93-100`) that is whatever the chain
holds by then, and an operation that is open at that time stays unknown to the relayer for ever. The
invariants therefore speak of what lies behind `first[r]` (`OpenOperationKnown`, `OpenNotForgotten`).

`log` holds the extrinsics of the relayers' multisig account only. The listener does not look at
the account: it records every `as_multi` on the chain (`listener.go:206-231`), so that one of
another account for the same recipient and amount would be a further record. What is said of
records, `OneOpenRecord` for one, is said of a chain where nobody else pays a bridge user such an
amount by `as_multi`.

Amounts are abstract: `Convert` maps a recipient and amount to the call that pays it, and may map
two amounts to one call, as the division in `redeemTx` does.

### EvmWriter, with EvmBridge

`EvmBridge` is external: proposals, their events, blocks and the transactions waiting for one.
Messages may share a nonce, as two of the Substrate listener can, and then meet one proposal;
`Unique(m)` says that `m` does not. `EvmWriter` has two goroutines per message, `Resolve(m)` and
`Watch(m)`, and one action per call of the chain. `Answer` is a query that may fail, and a failed one reads as "no", as in
`proposalIsComplete` and `hasVoted`. `LockOpts`, `UpdateOpts`, `GasFails`, `NonceFails` are
`LockAndUpdateOpts`, with the lock held after `GasFails` as in the code (connection.go:163-166).
`Send`, `Recheck` and `GiveUp` are the loops of `voteProposal` and `executeProposal`;
`WaitForBlock`, `WaitFails`, `FilterLogs`, `FilterFails` are `watchThenExecute`. `Exits` is the
end of the process through `sysErr`. Two history variables serve the properties: `late` is every
message that a relayer took up when it was already transferred, whether the relayer had voted on it
or not, and `noPrice` says that the gas price query failed since the relayer started. The three `create...Proposal` functions differ in the
encoding of the data only and are one set of actions.

### EvmListener

`chain` is the node's chain, a sequence of block contents; a content is a sequence of payloads,
and `KindOf` says what becomes of a deposit of that payload: `routable`, to a destination the
router does not know, at a handler whose contract is not set, or at an unrecognised handler.
`Mine` and `Reorg` are the chain. `Poll`, `FilterLogs`, `Handler` and `Record` are the four calls,
`CallFails` a failure of any of them. `Handled` and `HandlerUnknown` end a block, `HandlerUnset` is
the panic on a nil contract (`setContracts` sets only two of the four), `GiveUp` is
`ErrFatalPolling`. The record is read from the chain's *current* state, not from that of the logs;
that both agree is an invariant and not an assumption. `Start` is the part of `InitializeChain`
that picks the first block: the configured one, or with `latestBlock` the node's last one, which is
not confirmed yet. Any call of the start-up may fail and ends the process (`StartFails`). `latest`
is chosen in `Init` and never changes, so one run has both.

### SubstrateListener, with Fees

The shape of `EvmListener`, with the differences of the code. `final` divides `chain` into what
stays and what `Reorg` may still replace. A look at a block takes five calls, `FinalizedHead`,
`Header`, `BlockHash`, `GetBlock` and `GetBlockByNumber`; a failure of the first two, or of the
third in any way but "not ready", costs a retry (`CallFails`), "not ready" costs none (`NotReady`),
and a failure of the last two panics (`FetchPanics`). So a block is tried again only before its
first deposit is routed. `Deposit`, `Mark`, `PassOver` and `Unparsed` are `processBlock`'s loop
over extrinsics, one at a time, and `Unparsed` panics on the fee of a nil amount even if the batch
is none of the bridge's. `marks` is the order in which `markNew`, `markVote` and `markExecution` are
called; it is the order in which `MultiSigRedeem`'s `ProcessBlock` takes the chain's log, which
is how the two modules fit together. The destination is one constant of the configuration, so the
router's answer, which `submitMessage` loses, is the same for every deposit and not modelled.

`DepositNonce` writes block number and extrinsic index one after the other, in digits of `Radix`.
`Fees` is the arithmetic of `processBlock` and of `redeemTx`, with the sign that is lost when an
amount travels as bytes (`Magnitude`).

### Abstract specifications

`Payout`: a call is paid only when a quorum of relayers backs it, each of them because it was routed
a deposit the call pays; backing is never withdrawn, payouts happen one at a time and are final; and
a relayer reports deposits as ended one by one, each on a payout of its own, a restart being all
that makes it forget its reports. `MultiSigRedeem` implements it, with the positions of executions
as payouts, in the serial timing (`SerialSpec`): when two goroutines pass `checkRepeat` at once, two
deposits do end on one payout, which is `redeem_repeat`.

`DepositFeed`: a listener routes deposits that are final, none before an earlier one. As the
deposits become final in the chain's order, that means none is left out (`FeedWithoutGap`, proved
of both listeners). `EvmListener` implements
it with, as the deposits owed for a block, the routable ones before an unrecognised handler:
what lies behind one is dropped by the code (section 6). `SubstrateListener` implements it with all
deposits of the finalized blocks. With `latestBlock` neither does, since a restart leaves out what
came in between; the refinement maps that case to nothing, and what is left, no gap within one
life, is `LifeWithoutGap` and, for the EVM listener, `BehindIsRouted` in its `IInv`.


## 4. What is checked

Every run explores its whole state space; bounds are constants of the configurations.

| run | asks | bounds |
|---|---|---|
| `redeem_safe` | `RecordsMirrorChain`, `OneOpenRecord`, `OpenOperationKnown`, `FinishedAfterPayout`, `IInv` in every interleaving | 1 deposit, 2 relayers of which one has `latestBlock`, threshold 2, 1 restart, 6 log entries |
| `redeem_rounds` | `NoSecondPayout`, `RoundsInv` in the timing of the rounds | 1 deposit, 3 relayers, threshold 2, no restart, 5 entries |
| `redeem_serial` | `OneAtATime`, `PayoutPerDeposit`, `OpensOnlyUnpaid`, `ImplementsPayout` when check and mark are not interleaved | 2 deposits of one recipient and amount, 2 relayers, threshold 2, no restart, 4 entries |
| `redeem_live` | `EventuallyPaid`, `EventuallyDone` | 1 deposit, 2 relayers, fair |
| `redeem_stop` | a statement of a comment that fails, section 6 | 1 deposit routed twice, 2 relayers, threshold 2, 4 entries, no restart, the timing of the rounds |
| `redeem_repeat` | a statement of a comment that fails, section 6 | 2 deposits of one recipient and amount |
| `evm_safe` | `NonceFits`, `IInv`, `QuietOnDuplicate`, `AbandonedByGasOnly` with any of six kinds of call failing | 1 message, 2 relayers, threshold 1, 1 failure, 1 restart, expiry |
| `evm_live` | `ExecutesAfterPass`, `EventuallyTransferred`, `VoteEnds` | 1 message, 2 relayers, threshold 2, 1 failed send or wait, 1 restart, 4 blocks watched, fair |
| `evm_gas` | a statement of a comment that fails, section 6 | |
| `evm_listen` | `RoutedStaysOnChain`, `RepeatsAfterFailure`, `GivesUpInTime`, `IInv`, `ImplementsFeed`, `EventuallyRouted` | 3 blocks of 5 kinds, depth 1, 1 reorganisation, 2 failures, 1 restart, 2 retries, `latestBlock` or not, fair |
| `listen_skip` | a statement of a comment that fails, section 6 | |
| `sub_listen` | `RoutedStaysOnChain`, `RoutesOnce`, `LifeWithoutGap`, `MarksFollowChain`, `GivesUpInTime`, `CreditsMoreBelowHalfFee`, `NoncesTellApart`, `IInv`, `ImplementsFeed`, `EventuallyRouted` | 3 blocks of 3 kinds, 1 reorganisation, 2 failures, 1 restart, 2 retries, `latestBlock` or not, fair |

Why the bounds are enough. One deposit at two or three relayers shows every race about *one*
multisig operation; a log of six entries has room for three operations of the call one after
another, so that stale records of a first meet a second. Races between deposits need two, and two
are enough, since `checkRepeat` compares pairs. On the EVM side threshold 1 lets one relayer find
a proposal passed by another, which gives `QuietOnDuplicate` its case with one restart; threshold
2 makes both votes count. Two failures against two retries make the listener give up; a failure in
each of the calls comes from `CallFails`. A chain of three blocks with depth 1 has a block that is
final, one that may go, and one to come; one block holds two routable deposits, so that the second
can fail after the first was routed. On the Substrate side the three kinds of block have a deposit
before an `as_multi`, two deposits too small for their fee, one before and one behind a batch of
somebody else, and an `as_multi` before a batch that panics. A fixed fee of 3, a rate of 4 and a
unit of 2 make the fee round, and the amounts 9, 2 and 1 lie on all sides of it: 9 covers its fee,
2 covers half of it, 1 not even that. A radix of 2 makes the numbers of three blocks differ in
their digits, so that nonces do run together where `NoncesTellApart` lets them. The counters of
failures, restarts, reorganisations and entries are bounded in the guards by the `Max...` constants;
that relayers stop at these bounds is why deadlock is not checked where they do.

**Timing assumptions.** `redeem_rounds` and `redeem_stop` assume that the finalized height goes on
only after the goroutines whose round it was have acted, what they submitted is in a block or lost,
and every listener is done with the last finalized block; and that nobody restarts (`RoundsSpec`).
*When* the blocks that took the extrinsics are finalized is left open: a relayer acts without seeing
what is included but not final, which the rounds are there to make harmless. Listeners keep up like
that as long as their requests succeed, since `BlockRetryInterval` is 5 s and `RoundInterval` 6 s. That
a turn and its submission do not outlast the round is what the rounds are built on, and nothing in
the code enforces it. Outside this timing a second operation, and so a second payout, is
possible: with a listener that lags further; after a restart, when old deposits are routed while the
records are still being made; or with two messages of one call. What holds in every timing and
across restarts is `OpensOnlyUnpaid`, which speaks of what the relayer's own listener has passed.

`redeem_serial` assumes that check and mark do not interleave (`SerialSpec`), which is what the
code's mutexes intend. `evm_live` assumes that a vote is mined before `WatchLimit` blocks without
transactions go by (`PromptSpec`); a real limit of 100 blocks against votes that take a few. What is
proved needs none of the three, but for `SerialRedeem_proofs` and `RoundsRedeem_proofs`, whose
theorems are about `SerialSpec` and `RoundsSpec`.

**Failures.** `evm_safe` lets each of six kinds of call fail. `evm_live` has failed sends and waits
only, because `EventuallyTransferred` is false with the others: a failed query or nonce, or a failed
log query, can end the last goroutine that would have voted or executed, and the transfer then waits
for a restart; the gas price is `evm_gas`.

**Fairness.** Weak fairness of a relayer's goroutines, of listeners and of block production: the Go
scheduler and the chains go on. Strong fairness in `MultiSigRedeem` where the code asks again and
again and the answer alternates: the relayer's round comes up whenever it is asked for often
enough, an unlocked `checkRepeat` succeeds at some time, a record that is there at every scan is
the first one of a random order at some time, and an extrinsic that is submitted again and again is
included at some time. Failures and restarts are never fair and are bounded, so that liveness says
that the system recovers from them, not that it outlives endless ones. `EventuallyRouted` lets a
relayer off that has exited or, with `latestBlock`, started behind the deposit. The two listeners
need weak fairness of their one goroutine only.

**Mutants.** The definitions marked "mutant" are plausible bugs in the code that the definition
after them models: a lock left out, a guard dropped, a counter not reset. `PROJECT.json` names for
every property of a passing run a mutant under which it fails, so that no property holds for want
of trying. Nothing refers to them otherwise.


## 5. What is proved

The theorems hold for all relayers, messages, thresholds, limits and bounds that satisfy the named
assumptions of the modules. Each module's theorems rest on an inductive invariant `IInv`, checked
by TLC as well (that of `MultiSigRedeem` in `redeem_safe`). Every safety invariant, every action
property and every refinement of the passing runs is stated by a theorem.

`MultiSigRedeem_proofs`. `RecordsMirrorChain` and the others are not inductive, since they say
nothing of a listener that lags. `IInv` therefore relates everything to the log: a record is what
the listener's *prefix* of the log says of its operation (`RecordsReadOff`), one behind the
listener's first block is missing only if its operation was executed (`OpenNotForgotten`), which
holds through `Finish` because a goroutine in `finish` holds a record that is executed
(`FinishChosen`), and every record that is missing has taken an ended message with it
(`GoneIsDone`); the pallet's open operation is the log's last `New` of its call (`OpenIsLast`), every
other one is executed (`ClosedIsExecuted`, `ExecutedBetween`); and whoever acts for a call was routed
a deposit of it (`Authority`). Proved from it, for relayers with `latestBlock` and without, in every
interleaving and across restarts: `TypeOK`, `FinishedAfterPayout`, `OneOpenRecord`,
`RecordsMirrorChain`, `OpenOperationKnown`, `OpensOnlyUnpaid`, and `PayoutAuthorised`, a part of
`IInv` that has no run of its own. So the races on the two maps do not cost authorisation or end a
goroutine early, whatever the timing; what they can cost is a second payout (section 6).

`SerialRedeem_proofs`. Three theorems about `SerialSpec`, with their conditions as named hypotheses.
If no two messages have recipient, amount and nonce in common (`Distinct`), `OneAtATime` holds: an
invariant `Serial` says that the goroutines past the check are marked, that a check once passed
still holds at the mark, and that one goroutine at most is between the two. If moreover the
conversion rounds no two amounts to one call (`OneCallEach`), `PayoutPerDeposit` holds, by counting
(`Budget`): the deposits of a call that a relayer has ended and the executed records it has left
are together no more than the executions its listener has seen. A payout adds to the right before
it can add to the left, and `Finish` trades a record for a deposit, since the record it deletes is
still there (`Holds`), which is where `OneAtATime` is needed. `Refinement` says the same of the whole
system: relayers, listeners and chain implement `Payout`. Each hypothesis is
needed, as TLC shows: without the timing there is `redeem_repeat`; without `Distinct` the first
of two goroutines of one deposit to end takes the common mark with it, and another deposit of the
recipient and amount starts beside the second; without `OneCallEach` two deposits end on one payout.

`RoundsRedeem_proofs`. Three theorems about `RoundsSpec`, for any number of relayers and any
threshold, if no two messages ask for one call (`OneDepositPerCall`). `IInv` alone cannot bound
the payouts, since it says nothing of what a goroutine is about to do. `RoundsInv` adds that for a
message only the relayer acts whose round it is, of which there is exactly one (`ActsInItsRound`,
with the arithmetic of `(r + nonce) % Total` in `RoundsDiffer` and `SomebodysRound`); that a relayer
approves only what it has passed (`ApprovesWhatItPassed`) and does not put an opening behind an
approval (`OpensBeforeApproving`); and, as the core, that once anybody has approved the
operation of a call nobody is about to open another, because whoever's round it is has passed the
first (`ApprovedIsPassed`). An opening that is not final yet does not harm: another relayer
opens as well, blindly, and the pallet refuses the second, since an operation of the call is open. It
would harm only after an execution, and an execution takes an approval of a *passed* operation, hence
a later round. From it follow `PaidOnce`, which is `NoSecondPayout`, and `StopsOnceExecuted`: in this
timing what the comment at `writer.go:223` promises is true of calls that one message asks for. TLC
shows the hypotheses to be needed: with a deposit routed twice in one life `StopOnceExecuted` fails
(`redeem_stop`), and with a lagging listener or a restart a call is paid twice.

`EvmWriter_proofs`. `IInv` says what `optsLock` protects: a goroutine that updates or sends holds
the lock (`Holding`), so that no other one moves the account's nonce between its update and its
send. It bounds every retry counter by the place a goroutine is at (`Counting`, `WatchingOnce`),
and carries the reason for an execution from the event or query that started it to the
transaction (`PassedByVotes`, `Routed`). Proved: `TypeOK`, `NonceFits`, `ExecutesAfterPass`, none of
which needs nonces to be different; `ExecutesAfterPass` speaks of the messages whose nonce is their
own. `AbandonedByGasOnly` says, whatever fails, that the gas price query is the one way to leave the
lock held. `QuietOnDuplicate` follows from an invariant that traces the two queries of `shouldVote`
through a goroutine and says which of them has failed: a relayer that had voted stays quiet with one
failed query, one that had not needs all queries to succeed, since a failed `GetProposal` alone makes
it vote on a proposal that is executed (`writer_methods.go:36-38`, `:76-82`).

`EvmListener_proofs`. `IInv` says that a block is final from the moment it is looked at, that the
logs in hand are those of the chain (`LogsOfBlock`), and that the listener's position divides what
is owed in this life: all before it was routed (`BehindIsRouted`), and without a failure nothing
beyond it was (`FreshIsBehind`). Proved: `TypeOK`, `RoutedStaysOnChain`, `RepeatsAfterFailure`,
`GivesUpInTime`, `ImplementsFeed` and from it `FeedWithoutGap`; and `SkipsOnlyUnrecognised`, which
says of `NothingSkipped`, false in general (section 6), that it holds where the bridge knows every
deposit's handler: the early return is the only way past a deposit. `Reorg` replaces at most
`Confirmations` blocks; that is what choosing `blockConfirmations` means, and the one assumption
about the chain.

`SubstrateListener_proofs`. Here `LifeWithoutGap` and `MarksFollowChain` are equations: what was
routed, and what was marked, in this life is *exactly* what lies between its first block and its
position. With the block in hand being that of the chain (`ExtrinsicsOfBlock`) they are inductive,
and `RoutesOnce` and `ImplementsFeed` follow from them. Proved besides: `TypeOK`,
`RoutedStaysOnChain`, `GivesUpInTime`, and `CreditsMoreBelowHalfFee` for every fee, rate and unit.

`Fees_proofs`. `CreditIsExact`: what a deposit that covers its fee credits is divided back without a
loss. `CreditAgainstFee`, on which `CreditsMoreBelowHalfFee` rests: because the sign is lost, a
deposit is credited more than was paid if and only if it does not cover half of its fee.
`RoundTripWithinDeposit`: even then, the credit sent back pays no more than was deposited.

`DepositNonce_proofs`. `NoncesTellApart` in every radix, about block numbers and indices of any
size. The nonce depends on `Shift`, a recursive function over the digits, and the library's induction
rules take an operator as parameter, which the provers cannot instantiate. Instead the library's
theorem on well-founded relations gives every nonempty set of numbers a least element
(`LeastElement`), and each fact about all numbers is shown by looking at the least number it fails
for: that the recursive function exists and satisfies its equation (`ShiftEquation`), that a number
is smaller than its shift (`ShiftExceeds`), that the shift is at most one digit longer
(`ShiftBounded`), and that different shifts are at least one digit apart (`ShiftApart`). So of two
equally long block numbers with indices of different length, the longer index makes the larger
nonce, and with indices of equal length a nonce is a division with remainder. `NoncesClash` shows that
the equal length is needed in every radix.

Only model-checked: the liveness properties `EventuallyPaid`, `EventuallyDone`,
`EventuallyTransferred`, `VoteEnds` and the two `EventuallyRouted`, since TLAPS has no proof rules
here for fairness with `ENABLED`.


## 6. Where code and comments disagree

* `redeem_stop`. "Once MultiSign Extrinsic is executed, stop sending Extrinsic to Polkadot"
  (`chains/substrate/writer.go:223`). With records of an executed and of a later open operation of
  one call, the scan may meet the open one first, and the relayer approves it. With enough such
  relayers the call is paid again. The run keeps to the timing of the rounds: it takes one deposit
  that the EVM listener routes again in one life, after a call failed behind it. Of a call that one
  message asks for the comment is true in that timing (`StopsOnceExecuted`).
* `redeem_repeat`. "Lock" and "Check Repeat" (`writer.go:141`, `:151`). The mutex is a local
  variable and the mark follows outside it; two deposits of one recipient and amount can both pass
  and be processed at once, and then end on one payout.
* `evm_gas`. "a vote proposal will try to be submitted up to the TxRetryLimit times"
  (`chains/platdot/writer_methods.go:253`). After a failed gas price query `LockAndUpdateOpts`
  returns with `optsLock` held, and the next try blocks for ever, as does every other goroutine of
  the relayer that sends.
* `listen_skip`. "handle their deposit event if handler is recognized"
  (`chains/platdot/listener.go:168`). An unrecognised handler ends the loop over the block's logs;
  later deposits of the block are not routed, and the block counts as done. Without unrecognised
  handlers nothing is skipped (`SkipsOnlyUnrecognised`).

Noted while modelling and not made into runs: `chains/platdot/listener.go:90` says that a block
is skipped after `BlockRetryLimit` failures, the code exits; `chains/platdot/chain.go:67-68` and
`chains/substrate/chain.go:51` say that polling resumes at the stored block, the first does not
load it and the second is never called; `writer_methods.go:199` speaks of retries where one failed
`FilterLogs` ends the watcher; `chains/substrate/writer.go:276` says that `submitTx` stops submitting
when it has no more retries, the code prints a line and goes on for ever;
`chains/substrate/listener.go:107` speaks of retries for a block whose fetch panics instead.


## 7. What is not modelled, and why

* Encodings, weights and metadata, and the amounts inside the writer's state machine: the
  properties tell calls apart, not their bytes. The fees are in `Fees`.
* An executed multisig whose inner transfer fails: `processBlock` does not look at the result, and
  the writer counts it as paid. It needs a pallet whose executions have results.
* Deposits that do not cover their fee on the way to the Substrate chain: `redeemTx` takes the fee off
  (`writer.go:178-196`) and builds a call of a negative amount, or panics when the library refuses
  one. `Convert` is total, so the runs, `EventuallyPaid` and `EventuallyDone` among them, are about
  deposits that can be paid.
* `as_multi` extrinsics of accounts other than the relayers', which the listener records as well
  (section 3).
* The router, core and block store, in another repository. That a deposit can be routed twice in
  one life is in `MCRedeem` as two messages of one nonce; why it happens is in `EvmListener`
  (`RepeatsAfterFailure`); the two are not composed.
* `msTxAsMulti` as Go memory: a fatal concurrent map access is a `Restart` that may happen at any
  time, and a torn read is none of the outcomes of the runtime's maps.
* `SubmitTx` with its nonce lock in the Substrate `connection.go`, `checkBlockstore` and
  `watchSubmission` have no caller.
* Start-up, key handling, flags, metrics and logging: sequential code without state that the rest
  depends on. `shared/` serves deployment and tests; the relayer takes names and types from it.
* `bindings/` is generated from the contracts, one wrapper per method, and holds 24,470 of the
  repository's 29,816 lines of implementation. What stands behind the wrappers that the relayer
  calls is in `EvmBridge`; the wrappers have no logic of their own. The model's share of the source
  is therefore to be read against the other 5,300 lines, of which `cmd/`, `shared/` and the
  configuration are a good part again.
