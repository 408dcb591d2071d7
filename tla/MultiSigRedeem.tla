--------------------------- MODULE MultiSigRedeem ---------------------------
(***************************************************************************)
(* Redeeming deposits on the Substrate chain: the writer and the multisig  *)
(* half of the listener of every relayer (chains/substrate), composed with *)
(* the chain they act on (MultisigPallet).                                 *)
(*                                                                         *)
(* The router calls ResolveMessage in a goroutine of its own for every     *)
(* deposit.  That goroutine waits until no other deposit of the same       *)
(* amount and recipient is being processed, and then repeats redeemTx      *)
(* until the deposit's multisig call is executed: it waits for the         *)
(* relayer's round, looks the call up in the listener's msTxAsMulti, and   *)
(* submits an as_multi extrinsic.  Meanwhile the listener updates          *)
(* msTxAsMulti from the chain.  No lock protects either map.               *)
(***************************************************************************)
EXTENDS MultisigPallet, MsTxRecords

CONSTANTS Total,      \* totalRelayers
          Msgs,       \* routed messages; two of them may carry one deposit
          NonceOf,    \* DepositNonce of a message
          Raws,       \* pairs of a recipient and an amount in AKSM units
          RawOf,      \* Payload[0] and Payload[1] of a message
          Convert,    \* the transfer call redeemTx builds from such a pair
          LatestBlock,\* relayers that are configured with latestBlock
          MaxCrashes  \* bound on the number of restarts

ASSUME TotalAssumption == Total \in Nat \ {0} /\ Relayers = 1..Total
ASSUME MessageAssumption ==
    /\ NonceOf \in [Msgs -> Nat]
    /\ RawOf \in [Msgs -> Raws]
    /\ Convert \in [Raws -> Calls]
ASSUME LatestBlockAssumption == LatestBlock \subseteq Relayers
ASSUME MaxCrashesAssumption == MaxCrashes \in Nat

CallOf(m) == Convert[RawOf[m]]

VARIABLES
    final,     \* how much of log lies in finalized blocks
    round,     \* height of the last finalized block modulo Total
    pos,       \* pos[r]: the log entries r's listener has passed
    first,     \* first[r]: those that lie before its start block (history)
    msTx,      \* msTx[r]: msTxAsMulti of r's listener
    messages,  \* messages[r]: the writer's messages map, keyed by Dest
    pc,        \* pc[r][m]: where ResolveMessage of m is at r
    plan,      \* plan[r][m]: what redeemTx chose: a timepoint (0: none) or a record
    seen,      \* seen[r]: messages ever routed to r (history)
    crashes    \* restarts so far

relayerVars == <<pos, first, msTx, messages, pc, plan, seen>>
vars == <<log, op, pool, final, round, pos, first, msTx, messages, pc, plan, seen,
          crashes>>

Dest    == [nonce : Nat, raw : Raws]
DestOf(m) == [nonce |-> NonceOf[m], raw |-> RawOf[m]]
Record  == [call : Calls, executed : BOOLEAN, voters : SUBSET Relayers]
Control == {"idle", "checkRepeat", "mark", "redeem", "scan", "submit", "finish", "done"}

TypeOK ==
    /\ ChainTypeOK
    /\ final \in 0..Len(log)
    /\ round \in 0..(Total - 1)
    /\ pos \in [Relayers -> Nat] /\ first \in [Relayers -> Nat]
    /\ \A r \in Relayers :
          /\ first[r] <= pos[r] /\ pos[r] <= Len(log)
          /\ pos[r] > first[r] => pos[r] <= final
          /\ DOMAIN msTx[r] \subseteq (first[r] + 1)..pos[r]
          /\ msTx[r] \in [DOMAIN msTx[r] -> Record]
    /\ DOMAIN msTx = Relayers
    /\ messages \in [Relayers -> SUBSET Dest]
    /\ pc \in [Relayers -> [Msgs -> Control]]
    /\ plan \in [Relayers -> [Msgs -> Nat]]
    /\ seen \in [Relayers -> SUBSET Msgs]
    /\ crashes \in 0..MaxCrashes

Init ==
    /\ ChainInit
    /\ final = 0 /\ round = 0
    /\ pos = [r \in Relayers |-> 0]
    /\ first = [r \in Relayers |-> 0]
    /\ msTx = [r \in Relayers |-> NoRecords]
    /\ messages = [r \in Relayers |-> {}]
    /\ pc = [r \in Relayers |-> [m \in Msgs |-> "idle"]]
    /\ plan = [r \in Relayers |-> [m \in Msgs |-> 0]]
    /\ seen = [r \in Relayers |-> {}]
    /\ crashes = 0

(***************************************************************************)
(* The writer.                                                             *)
(***************************************************************************)
Goto(r, m, from, to) ==
    /\ pc[r][m] = from
    /\ pc' = [pc EXCEPT ![r][m] = to]

(* The router starts `go ResolveMessage(m)`. *)
ResolveMessage(r, m) ==
    /\ Goto(r, m, "idle", "checkRepeat")
    /\ seen' = [seen EXCEPT ![r] = @ \cup {m}]
    /\ UNCHANGED <<log, op, pool, final, round, pos, first, msTx, messages, plan, crashes>>

(* The mutex of checkRepeat is a local variable and excludes nobody. *)
IsRepeatInverted(r, m) ==  \* mutant: the nonces are compared the wrong way
    \E d \in messages[r] : d.nonce = NonceOf[m] /\ d.raw = RawOf[m]
IsRepeat(r, m) ==
    \E d \in messages[r] : d.nonce # NonceOf[m] /\ d.raw = RawOf[m]

(* checkRepeat returns; until then it sleeps and looks again. *)
CheckRepeat(r, m) ==
    /\ ~IsRepeat(r, m)
    /\ Goto(r, m, "checkRepeat", "mark")
    /\ UNCHANGED <<log, op, pool, final, round, pos, first, msTx, messages, plan, seen, crashes>>

MarkProcessing(r, m) ==
    /\ Goto(r, m, "mark", "redeem")
    /\ messages' = [messages EXCEPT ![r] = @ \cup {DestOf(m)}]
    /\ UNCHANGED <<log, op, pool, final, round, pos, first, msTx, plan, seen, crashes>>

ProcessRound(r, m) == (r + NonceOf[m]) % Total

(* The records redeemTx compares equal with the message's call. *)
Candidates(r, m) == Matching(msTx[r], CallOf(m))

GetRoundAny(r, m) ==  \* mutant: every round is the relayer's
    /\ Goto(r, m, "redeem", "scan")
    /\ UNCHANGED <<log, op, pool, final, round, pos, first, msTx, messages, plan, seen, crashes>>

(* redeemTx waits for the relayer's round before it scans msTxAsMulti. *)
GetRound(r, m) ==
    /\ round = ProcessRound(r, m)
    /\ Goto(r, m, "redeem", "scan")
    /\ UNCHANGED <<log, op, pool, final, round, pos, first, msTx, messages, plan, seen, crashes>>

(***************************************************************************)
(* The scan.  Go iterates over a map in an arbitrary order and the loop    *)
(* stops at the first record of the call, so any of them may decide.       *)
(***************************************************************************)
Choose(r, m, to, tx) ==
    /\ Goto(r, m, "scan", to)
    /\ plan' = [plan EXCEPT ![r][m] = tx]
    /\ UNCHANGED <<log, op, pool, final, round, pos, first, msTx, messages, seen, crashes>>

RedeemExecuted(r, m) ==
    \E tx \in Candidates(r, m) :
        /\ IsExecuted(msTx[r][tx])
        /\ Choose(r, m, "finish", tx)

(* The relayer's own vote is on an open record: start over. *)
RedeemVoted(r, m) ==
    \E tx \in Candidates(r, m) :
        /\ IsVoted(msTx[r][tx], r)
        /\ Choose(r, m, "redeem", 0)

RedeemApprove(r, m) ==
    \E tx \in Candidates(r, m) :
        /\ ~IsExecuted(msTx[r][tx])
        /\ ~IsVoted(msTx[r][tx], r)
        /\ Choose(r, m, "submit", tx)

RedeemNew(r, m) ==
    /\ Candidates(r, m) = {}
    /\ Choose(r, m, "submit", 0)

(* Mutant: no timepoint. *)
SubmitTxUntimed(r, m) ==
    /\ Goto(r, m, "submit", "redeem")
    /\ Submitted(r, [call |-> CallOf(m), tp |-> 0])
    /\ plan' = [plan EXCEPT ![r][m] = 0]
    /\ UNCHANGED <<log, op, final, round, pos, first, msTx, messages, seen, crashes>>
SubmitTx(r, m) ==
    /\ Goto(r, m, "submit", "redeem")
    /\ Submitted(r, [call |-> CallOf(m), tp |-> plan[r][m]])
    /\ plan' = [plan EXCEPT ![r][m] = 0]
    /\ UNCHANGED <<log, op, final, round, pos, first, msTx, messages, seen, crashes>>

(* Mutant: the record stays. *)
FinishKeepingRecord(r, m) ==
    /\ Goto(r, m, "finish", "done")
    /\ messages' = [messages EXCEPT ![r] = @ \ {DestOf(m)}]
    /\ plan' = [plan EXCEPT ![r][m] = 0]
    /\ UNCHANGED <<log, op, pool, final, round, pos, first, msTx, seen, crashes>>

(* Mutant: every record of the call is deleted. *)
FinishDeletingAll(r, m) ==
    /\ Goto(r, m, "finish", "done")
    /\ msTx' = [msTx EXCEPT ![r] =
                    [k \in DOMAIN @ \ Matching(@, CallOf(m)) |-> @[k]]]
    /\ messages' = [messages EXCEPT ![r] = @ \ {DestOf(m)}]
    /\ plan' = [plan EXCEPT ![r][m] = 0]
    /\ UNCHANGED <<log, op, pool, final, round, pos, first, seen, crashes>>

(* Both deletions of ResolveMessage once the call is executed. *)
Finish(r, m) ==
    /\ Goto(r, m, "finish", "done")
    /\ msTx' = [msTx EXCEPT ![r] = Without(@, plan[r][m])]
    /\ messages' = [messages EXCEPT ![r] = @ \ {DestOf(m)}]
    /\ plan' = [plan EXCEPT ![r][m] = 0]
    /\ UNCHANGED <<log, op, pool, final, round, pos, first, seen, crashes>>

ProcessBlockUnfinalized(r) ==  \* mutant: the best head, not the finalized one
    /\ pos[r] < Len(log)
    /\ pos' = [pos EXCEPT ![r] = @ + 1]
    /\ msTx' = [msTx EXCEPT ![r] =
                    ProcessExtrinsic(@, pos[r] + 1, log[pos[r] + 1])]
    /\ UNCHANGED <<log, op, pool, final, round, first, messages, pc, plan, seen, crashes>>

(***************************************************************************)
(* The listener: processBlock on the next finalized as_multi extrinsic.    *)
(***************************************************************************)
ProcessBlock(r) ==
    /\ pos[r] < final
    /\ pos' = [pos EXCEPT ![r] = @ + 1]
    /\ msTx' = [msTx EXCEPT ![r] =
                    ProcessExtrinsic(@, pos[r] + 1, log[pos[r] + 1])]
    /\ UNCHANGED <<log, op, pool, final, round, first, messages, pc, plan, seen, crashes>>

(***************************************************************************)
(* A relayer stops (an operator, a panic on an RPC error, or the Go        *)
(* runtime on concurrent map access) and starts again: both maps live in   *)
(* memory, and every deposit is routed anew.  The listener polls from the  *)
(* configured start block again; with latestBlock it starts at the newest  *)
(* block, finalized or not, and knows of nothing before it.                *)
(***************************************************************************)
StartPositions(r) == IF r \in LatestBlock THEN 0..Len(log) ELSE {0}

Restart(r) ==
    /\ crashes < MaxCrashes
    /\ crashes' = crashes + 1
    /\ \E p \in StartPositions(r) :
          /\ pos' = [pos EXCEPT ![r] = p]
          /\ first' = [first EXCEPT ![r] = p]
    /\ msTx' = [msTx EXCEPT ![r] = NoRecords]
    /\ messages' = [messages EXCEPT ![r] = {}]
    /\ pc' = [pc EXCEPT ![r] = [m \in Msgs |-> "idle"]]
    /\ plan' = [plan EXCEPT ![r] = [m \in Msgs |-> 0]]
    /\ UNCHANGED <<log, op, pool, final, round, seen>>

(***************************************************************************)
(* The environment.  The next block is finalized, with or without further  *)
(* entries of log; blocks are included in the order they are finalized in. *)
(***************************************************************************)
NewBlock ==
    /\ round' = (round + 1) % Total
    /\ final' \in final..Len(log)
    /\ UNCHANGED <<log, op, pool, relayerVars, crashes>>

BlockTakes(r) == Include(r) /\ UNCHANGED <<final, round, relayerVars, crashes>>
PoolLoses(r)  == Drop(r) /\ UNCHANGED <<final, round, relayerVars, crashes>>

(* Steps of one goroutine; Work ones wait for nobody. *)
Work(r, m) ==
    \/ ResolveMessage(r, m)
    \/ MarkProcessing(r, m)
    \/ RedeemExecuted(r, m)
    \/ RedeemVoted(r, m)
    \/ RedeemApprove(r, m)
    \/ RedeemNew(r, m)
    \/ SubmitTx(r, m)
    \/ Finish(r, m)

Redeem(r, m) == Work(r, m) \/ CheckRepeat(r, m) \/ GetRound(r, m)

Next ==
    \/ NewBlock
    \/ \E r \in Relayers :
          \/ ProcessBlock(r)
          \/ BlockTakes(r)
          \/ PoolLoses(r)
          \/ Restart(r)
          \/ \E m \in Msgs : Redeem(r, m)

Spec == Init /\ [][Next]_vars

(***************************************************************************)
(* Fairness.  Goroutines run, blocks are produced, messages are routed.    *)
(* Strong fairness where a step competes with others that disable it: a    *)
(* goroutine that asks again and again meets its round (RoundInterval is   *)
(* one block time); Go's map order is random, so a record that is there    *)
(* whenever redeemTx scans is chosen at some time; and an extrinsic that   *)
(* is submitted again and again is included at some time.                  *)
(***************************************************************************)
WriterFairness(r, m) ==
    /\ WF_vars(Work(r, m))
    /\ SF_vars(CheckRepeat(r, m))
    /\ SF_vars(GetRound(r, m))
    /\ SF_vars(RedeemExecuted(r, m))
    /\ SF_vars(RedeemApprove(r, m))

Fairness ==
    /\ WF_vars(NewBlock /\ final' = Len(log))
    /\ \A r \in Relayers :
          /\ WF_vars(ProcessBlock(r))
          /\ SF_vars(BlockTakes(r))
          /\ \A m \in Msgs : WriterFairness(r, m)

FairSpec == Spec /\ Fairness

(***************************************************************************)
(* The timing the rounds are designed for.  Before the next block is       *)
(* finalized, the goroutines whose round it was have submitted, a block    *)
(* has taken or the pool has lost what they submitted, and every listener  *)
(* is done with the last finalized block; nothing is said of when the      *)
(* blocks that took it are finalized.  No relayer restarts.                *)
(***************************************************************************)
Settled ==
    /\ \A r \in Relayers : pool[r] = {}
    /\ \A r \in Relayers : \A m \in Msgs : pc[r][m] \notin {"scan", "submit", "finish"}

CaughtUp == \A r \in Relayers : pos[r] = final

RoundsNext ==
    \/ NewBlock /\ Settled /\ CaughtUp
    \/ \E r \in Relayers :
          \/ ProcessBlock(r)
          \/ BlockTakes(r)
          \/ PoolLoses(r)
          \/ \E m \in Msgs : Redeem(r, m)
RoundsSpec == Init /\ [][RoundsNext]_vars

(***************************************************************************)
(* No goroutine is between the check and the mark of checkRepeat when      *)
(* another one leaves the check: deposits are routed some time apart, or   *)
(* the mutex is one the goroutines share and hold until the mark.          *)
(***************************************************************************)
SerialNext ==
    /\ Next
    /\ \A r \in Relayers : \A m, n \in Msgs :
          pc[r][m] = "checkRepeat" /\ pc'[r][m] = "mark" => pc[r][n] # "mark"
SerialSpec == Init /\ [][SerialNext]_vars

-----------------------------------------------------------------------------
(* The relayers that were routed a message that pays c. *)
Instructed(c) == {r \in Relayers : \E m \in seen[r] : CallOf(m) = c}

(***************************************************************************)
(* Every payout was wanted by Threshold relayers: each of them was routed  *)
(* a deposit of that recipient and amount.  About redeemTx building the    *)
(* call, choosing a timepoint and the pallet counting approvals.           *)
(***************************************************************************)
PayoutAuthorised ==
    \A i \in 1..Len(log) :
        log[i].kind = "Executed" =>
            Cardinality(Instructed(log[i].call)) >= Threshold

(***************************************************************************)
(* A goroutine that ends with "MultiSig extrinsic executed!" ends after    *)
(* the chain has paid the recipient that amount.  About markExecution      *)
(* comparing recipient and amount only, and isFinish.                      *)
(***************************************************************************)
FinishedAfterPayout ==
    \A r \in Relayers : \A m \in Msgs :
        pc[r][m] \in {"finish", "done"} => Positions("Executed", CallOf(m)) # {}

(***************************************************************************)
(* A listener never holds two open records of one call, so redeemTx cannot *)
(* split the relayers between two timepoints of which one is dead.  About  *)
(* markNew, markExecution and the deletion by the writer.                  *)
(***************************************************************************)
OneOpenRecord ==
    \A r \in Relayers : \A j, k \in DOMAIN msTx[r] :
        (/\ ~msTx[r][j].executed /\ ~msTx[r][k].executed
         /\ msTx[r][j].call = msTx[r][k].call) => j = k

(***************************************************************************)
(* What an open record says is what the chain has once the listener has    *)
(* caught up: it is the open operation and its voters are the approvals.   *)
(***************************************************************************)
RecordsMirrorChain ==
    \A r \in Relayers : pos[r] = Len(log) =>
        \A k \in DOMAIN msTx[r] : ~msTx[r][k].executed =>
            op[msTx[r][k].call] = [tx |-> k, approvals |-> msTx[r][k].voters]

(***************************************************************************)
(* The other direction: a listener that has caught up has a record of the  *)
(* open operation, unless that was opened before the listener's first      *)
(* block; the writer's deletions never hide it, or redeemTx would try to   *)
(* open a second one for ever.                                             *)
(***************************************************************************)
OpenOperationKnown ==
    \A r \in Relayers : pos[r] = Len(log) =>
        \A c \in Calls : op[c].tx > first[r] =>
            op[c].tx \in DOMAIN msTx[r] /\ ~msTx[r][op[c].tx].executed

(***************************************************************************)
(* The inductive invariant.  It ties the state of the pallet and of every  *)
(* listener to the log they were computed from.                            *)
(***************************************************************************)
IsNew(i)            == log[i].kind = "New"
ExecutedIn(c, i, j) == \E k \in i..j : log[k].kind = "Executed" /\ log[k].call = c
VotersIn(c, i, j)   == {log[k].who : k \in {l \in i..j : log[l].call = c}}

(* Whoever acts for a call was routed a deposit that pays it. *)
Authority ==
    /\ \A r \in Relayers : \A m \in Msgs : pc[r][m] # "idle" => m \in seen[r]
    /\ \A r \in Relayers : \A x \in pool[r] : r \in Instructed(x.call)
    /\ \A c \in Calls : op[c].approvals \subseteq Instructed(c)

(* The open operation of a call is its last New, and it is not executed. *)
OpenIsLast ==
    \A c \in Calls : op[c] # NoOp =>
        /\ op[c].tx \in 1..Len(log)
        /\ log[op[c].tx].call = c /\ IsNew(op[c].tx)
        /\ ~ExecutedIn(c, op[c].tx, Len(log))
        /\ op[c].approvals = VotersIn(c, op[c].tx, Len(log))

ClosedIsExecuted ==
    \A i \in 1..Len(log) :
        IsNew(i) /\ op[log[i].call].tx # i => ExecutedIn(log[i].call, i, Len(log))

ExecutedBetween ==
    \A i, k \in 1..Len(log) :
        (i < k /\ IsNew(i) /\ IsNew(k) /\ log[i].call = log[k].call)
            => ExecutedIn(log[i].call, i, k)

(* A record is what the listener's prefix of the log says of it. *)
RecordsReadOff ==
    \A r \in Relayers : \A k \in DOMAIN msTx[r] :
        LET rec == msTx[r][k] IN
            /\ IsNew(k) /\ rec.call = log[k].call
            /\ rec.executed <=> ExecutedIn(rec.call, k, pos[r])
            /\ ~rec.executed => rec.voters = VotersIn(rec.call, k, pos[r])

(* A record is missing only if its operation was executed. *)
OpenNotForgotten ==
    \A r \in Relayers : \A k \in (first[r] + 1)..pos[r] :
        (IsNew(k) /\ ~ExecutedIn(log[k].call, k, pos[r])) => k \in DOMAIN msTx[r]

FinishChosen ==
    \A r \in Relayers : \A m \in Msgs :
        pc[r][m] = "finish" =>
            /\ plan[r][m] \in 1..pos[r]
            /\ log[plan[r][m]].call = CallOf(m)
            /\ ExecutedIn(CallOf(m), plan[r][m], pos[r])

(* The operations of c that r's listener has passed in this life. *)
Passed(r, c) == {k \in (first[r] + 1)..pos[r] : IsNew(k) /\ log[k].call = c}

(* The messages of c that r has ended in this life. *)
DoneMessages(r, c) == {m \in Msgs : CallOf(m) = c /\ pc[r][m] = "done"}

(* A record is deleted for a message that has ended, each for its own. *)
GoneIsDone ==
    \A r \in Relayers : \A c \in Calls :
        /\ IsFiniteSet(DoneMessages(r, c))
        /\ Cardinality(Passed(r, c) \ DOMAIN msTx[r]) <= Cardinality(DoneMessages(r, c))

IInv ==
    /\ TypeOK
    /\ Authority /\ PayoutAuthorised
    /\ OpenIsLast /\ ClosedIsExecuted /\ ExecutedBetween
    /\ RecordsReadOff /\ OpenNotForgotten
    /\ FinishChosen /\ FinishedAfterPayout
    /\ GoneIsDone

(***************************************************************************)
(* A relayer tries to open an operation for a deposit only when it has     *)
(* ended, in this life, one message for each operation of the call its     *)
(* listener has passed: the payout that opened for another deposit is not  *)
(* taken for this one's, and this one's is not opened again.  About the    *)
(* scan over executed records too, and Finish deleting one record, while   *)
(* the listener marks and adds others.                                     *)
(***************************************************************************)
OpensOnlyUnpaid ==
    [][\A r \in Relayers : \A m \in Msgs :
          (pc[r][m] = "scan" /\ pc'[r][m] = "submit" /\ plan'[r][m] = 0) =>
              Cardinality(Passed(r, CallOf(m)))
                  <= Cardinality(DoneMessages(r, CallOf(m)))]_vars

(***************************************************************************)
(* Under the timing of the rounds a call that one deposit asks for is paid *)
(* at most once, however late the blocks that took the extrinsics are      *)
(* finalized: nobody opens an operation for a call that is already paid.   *)
(***************************************************************************)
NoSecondPayout == \A c \in Calls : Paid(c) <= 1

(***************************************************************************)
(* The inductive invariant of that timing.  Only the relayer whose round   *)
(* it is acts for a message.  Once anybody has approved the operation of a *)
(* call, nobody is about to open another one: whoever's round it is has    *)
(* passed the first.                                                       *)
(***************************************************************************)
News(c)        == {k \in 1..Len(log) : IsNew(k) /\ log[k].call = c}
Approved(c)    == \E k \in 1..Len(log) : log[k].call = c /\ ~IsNew(k)
ItsRound(r, m) == round = ProcessRound(r, m)
Pending(r, m, tp) == [call |-> CallOf(m), tp |-> tp] \in pool[r]
Opening(r, m)  == Pending(r, m, 0) \/ (pc[r][m] = "submit" /\ plan[r][m] = 0)
Approving(r, m) ==
    \/ \E x \in pool[r] : x.call = CallOf(m) /\ x.tp # 0
    \/ pc[r][m] = "submit" /\ plan[r][m] # 0

ActsInItsRound ==
    \A r \in Relayers : \A m \in Msgs :
        /\ pc[r][m] \in {"scan", "submit", "finish"} => ItsRound(r, m)
        /\ (\E x \in pool[r] : x.call = CallOf(m)) => ItsRound(r, m)

ApprovesWhatItPassed ==
    \A r \in Relayers : \A m \in Msgs :
        Approving(r, m) => Passed(r, CallOf(m)) # {}

(* It does not put an opening after an approval. *)
OpensBeforeApproving ==
    \A r \in Relayers : \A m \in Msgs :
        (\E x \in pool[r] : x.call = CallOf(m) /\ x.tp # 0)
            => ~(pc[r][m] = "submit" /\ plan[r][m] = 0)

ApprovedIsPassed ==
    \A m \in Msgs : Approved(CallOf(m)) =>
        \A r \in Relayers :
            /\ ~Opening(r, m)
            /\ ItsRound(r, m) => Passed(r, CallOf(m)) # {}

OpenedOnce ==
    \A c \in Calls :
        /\ Cardinality(News(c)) <= 1
        /\ Cardinality(News(c)) = Paid(c) + (IF op[c] = NoOp THEN 0 ELSE 1)

RoundsInv ==
    /\ IInv
    /\ \A r \in Relayers : first[r] = 0
    /\ ActsInItsRound /\ ApprovesWhatItPassed /\ OpensBeforeApproving
    /\ ApprovedIsPassed /\ OpenedOnce

(***************************************************************************)
(* "Once MultiSign Extrinsic is executed, stop sending Extrinsic to        *)
(* Polkadot" (writer.go:223): a relayer whose listener knows of an         *)
(* execution of the call prepares no further extrinsic for it.             *)
(***************************************************************************)
KnowsExecuted(r, m) == \E tx \in Candidates(r, m) : IsExecuted(msTx[r][tx])
StopOnceExecuted ==
    [][\A r \in Relayers : \A m \in Msgs :
          KnowsExecuted(r, m) =>
              ~(pc[r][m] = "scan" /\ pc'[r][m] = "submit")]_vars

(***************************************************************************)
(* checkRepeat is there so that a relayer processes one deposit of a given *)
(* recipient and amount at a time.                                         *)
(***************************************************************************)
Processing(r, m) == pc[r][m] \in {"redeem", "scan", "submit", "finish"}
OneAtATime ==
    \A r \in Relayers : \A m, n \in Msgs :
        (/\ Processing(r, m) /\ Processing(r, n)
         /\ RawOf[m] = RawOf[n]) => NonceOf[m] = NonceOf[n]

(***************************************************************************)
(* Two deposits of one recipient and amount never end on one payout: a     *)
(* relayer ends no more deposits of a call than the chain has paid.  About *)
(* checkRepeat, and ResolveMessage deleting the record it ended with.      *)
(***************************************************************************)
PayoutPerDeposit ==
    \A r \in Relayers : \A c \in Calls : Cardinality(DoneMessages(r, c)) <= Paid(c)

(***************************************************************************)
(* The relayers and the chain implement Payout.                            *)
(***************************************************************************)
Backers == [c \in Calls |-> Instructed(c)]
Payouts == [c \in Calls |-> Positions("Executed", c)]
Ended   == [r \in Relayers |-> {m \in Msgs : pc[r][m] = "done"}]
Slots   == 1..MaxLog
Quorums == {Q \in SUBSET Relayers : Cardinality(Q) >= Threshold}
CallsOf == [m \in Msgs |-> CallOf(m)]

Abstract == INSTANCE Payout
    WITH Quorums <- Quorums, Ids <- Slots, Deposits <- Msgs, PaidBy <- CallsOf,
         backers <- Backers, payouts <- Payouts, ended <- Ended

ImplementsPayout == Abstract!Spec

(***************************************************************************)
(* Every deposit is paid and every goroutine ends.                         *)
(***************************************************************************)
EventuallyPaid == \A m \in Msgs : <>(Positions("Executed", CallOf(m)) # {})
EventuallyDone == \A r \in Relayers : \A m \in Msgs : <>[](pc[r][m] = "done")
=============================================================================
