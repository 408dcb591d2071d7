------------------------------ MODULE EvmWriter ------------------------------
(***************************************************************************)
(* Transferring deposits to the EVM chain: the writer of chains/platdot    *)
(* and the transaction lock of connections/platdot, at every relayer.      *)
(*                                                                         *)
(* The router calls ResolveMessage in a goroutine of its own.  It checks   *)
(* the proposal, starts a second goroutine that watches for the proposal   *)
(* to pass (watchThenExecute), and votes.  All goroutines of a relayer     *)
(* send transactions through the connection's opts, which hold the nonce   *)
(* and are protected by optsLock.  Every query of the chain is a step of   *)
(* its own and may fail.                                                   *)
(***************************************************************************)
EXTENDS EvmBridge

CONSTANTS NonceOf,        \* DepositNonce of a message (all of one source)
          TxRetryLimit, BlockRetryLimit,
          WatchLimit,     \* ExecuteBlockWatchLimit
          Failures,       \* the RPC calls that may fail, see Fails
          MaxErrors,      \* bound on the number of failures
          MayCancel,      \* whether proposals expire
          MaxCrashes      \* bound on the number of restarts

Calls == {"query", "gas", "nonce", "send", "wait", "filter"}

ASSUME LimitsAssumption ==
    TxRetryLimit \in Nat \ {0} /\ BlockRetryLimit \in Nat \ {0} /\ WatchLimit \in Nat \ {0}
ASSUME FailuresAssumption ==
    Failures \subseteq Calls /\ MaxErrors \in Nat /\ MaxCrashes \in Nat
        /\ MayCancel \in BOOLEAN

Resolve(m) == <<m, "resolve">>
Watch(m)   == <<m, "watch">>
Threads    == Msgs \X {"resolve", "watch"}
MsgOf(t)   == t[1]

Free == <<>>  \* optsLock is not held

VARIABLES
    pc,      \* pc[r][t]: where goroutine t of r is
    job,     \* job[r][t]: the transaction it sends, once it sends one
    tries,   \* tries[r][t]: its retries of the loop it is in
    lock,    \* lock[r]: the goroutine that holds optsLock, or Free
    opts,    \* opts[r]: opts.Nonce
    block,   \* block[r][m]: the block watchThenExecute looks at next
    watched, \* watched[r][m]: how many it has looked at
    up,      \* up[r]: the relayer runs
    seen,    \* seen[r]: messages ever routed to r (history)
    late,    \* late[r]: those it took up when they were already transferred (history)
    noPrice, \* noPrice[r]: a gas price query failed since it started (history)
    errors, crashes

control == <<pc, job, tries>>
writerVars == <<control, lock, opts, block, watched, up, seen, late, noPrice, errors, crashes>>
vars == <<bridgeVars, writerVars>>

Control == {"idle", "isComplete", "hasVoted", "isPassed", "latestBlock",
            "lock", "update", "send", "recheck", "wait", "filter", "done"}

TypeOK ==
    /\ BridgeTypeOK
    /\ pc \in [Relayers -> [Threads -> Control]]
    /\ job \in [Relayers -> [Threads -> Job]]
    /\ tries \in [Relayers -> [Threads -> 0..(TxRetryLimit + BlockRetryLimit)]]
    /\ lock \in [Relayers -> Threads \cup {Free}]
    /\ opts \in [Relayers -> Nat]
    /\ block \in [Relayers -> [Msgs -> Nat]]
    /\ watched \in [Relayers -> [Msgs -> 0..WatchLimit]]
    /\ up \in [Relayers -> BOOLEAN]
    /\ seen \in [Relayers -> SUBSET Msgs]
    /\ late \in [Relayers -> SUBSET Msgs]
    /\ noPrice \in [Relayers -> BOOLEAN]
    /\ errors \in 0..MaxErrors
    /\ crashes \in 0..MaxCrashes

Init ==
    /\ BridgeInit
    /\ pc = [r \in Relayers |-> [t \in Threads |-> "idle"]]
    /\ job = [r \in Relayers |-> [t \in Threads |-> "vote"]]
    /\ tries = [r \in Relayers |-> [t \in Threads |-> 0]]
    /\ lock = [r \in Relayers |-> Free]
    /\ opts = [r \in Relayers |-> 0]
    /\ block = [r \in Relayers |-> [m \in Msgs |-> 0]]
    /\ watched = [r \in Relayers |-> [m \in Msgs |-> 0]]
    /\ up = [r \in Relayers |-> TRUE]
    /\ seen = [r \in Relayers |-> {}]
    /\ late = [r \in Relayers |-> {}]
    /\ noPrice = [r \in Relayers |-> FALSE]
    /\ errors = 0 /\ crashes = 0

(***************************************************************************)
(* Calls of the chain.  A failed query of a proposal reads as FALSE.       *)
(***************************************************************************)
Works       == UNCHANGED errors
Fails(call) == call \in Failures /\ errors < MaxErrors /\ errors' = errors + 1
Answer(ans, truth) == \/ Works /\ ans = truth
                      \/ Fails("query") /\ ans = FALSE

proposalIsCompleteOpen(m) == status[m] \in {"Passed", "Cancelled"}  \* mutant: not Transferred
proposalIsComplete(m)  == status[m] \in {"Passed", "Transferred", "Cancelled"}
proposalIsFinalized(m) == status[m] \in {"Transferred", "Cancelled"}
proposalIsPassed(m)    == status[m] = "Passed"

Goto(r, t, from, to) ==
    /\ pc[r][t] = from
    /\ pc' = [pc EXCEPT ![r][t] = to]

Enter(r, t, from, to, j) ==
    /\ Goto(r, t, from, to)
    /\ job' = [job EXCEPT ![r][t] = j]
    /\ tries' = [tries EXCEPT ![r][t] = 0]

Retry(r, t, from, to) ==
    /\ Goto(r, t, from, to)
    /\ tries' = [tries EXCEPT ![r][t] = @ + 1]
    /\ UNCHANGED job

(* An error is sent to sysErr: the core stops every chain and exits. *)
Exits(r) ==
    /\ up' = [up EXCEPT ![r] = FALSE]
    /\ pc' = [pc EXCEPT ![r] = [t \in Threads |-> "idle"]]
    /\ lock' = [lock EXCEPT ![r] = Free]
    /\ UNCHANGED <<bridgeVars, job, tries, opts, block, watched, seen, late, noPrice, crashes>>

noLock  == <<lock, opts>>
noWatch == <<block, watched>>
noLife  == <<up, seen, late, noPrice, crashes>>

(***************************************************************************)
(* ResolveMessage and create...Proposal, the same for every type of        *)
(* message: shouldVote, then execute, give up, or watch and vote.          *)
(***************************************************************************)
ResolveMessage(r, m) ==
    /\ up[r]
    /\ Goto(r, Resolve(m), "idle", "isComplete")
    /\ seen' = [seen EXCEPT ![r] = @ \cup {m}]
    /\ late' = IF status[m] = "Transferred"
                 THEN [late EXCEPT ![r] = @ \cup {m}] ELSE late
    /\ UNCHANGED <<bridgeVars, job, tries, noLock, noWatch, up, noPrice, errors, crashes>>

CheckComplete(r, m) ==
    /\ \E ans \in BOOLEAN :
          /\ Answer(ans, proposalIsComplete(m))
          /\ Goto(r, Resolve(m), "isComplete", IF ans THEN "isPassed" ELSE "hasVoted")
    /\ UNCHANGED <<bridgeVars, job, tries, noLock, noWatch, noLife>>

CheckVoted(r, m) ==
    /\ \E ans \in BOOLEAN :
          /\ Answer(ans, r \in votes[m])
          /\ Goto(r, Resolve(m), "hasVoted", IF ans THEN "isPassed" ELSE "latestBlock")
    /\ UNCHANGED <<bridgeVars, job, tries, noLock, noWatch, noLife>>

CheckPassed(r, m) ==
    /\ \E ans \in BOOLEAN :
          /\ Answer(ans, proposalIsPassed(m))
          /\ Enter(r, Resolve(m), "isPassed", IF ans THEN "lock" ELSE "done", "execute")
    /\ UNCHANGED <<bridgeVars, noLock, noWatch, noLife>>

LatestBlock(r, m) ==
    /\ pc[r][Resolve(m)] = "latestBlock"
    /\ \/ /\ Works
          /\ pc' = [pc EXCEPT ![r][Resolve(m)] = "lock", ![r][Watch(m)] = "wait"]
          /\ block' = [block EXCEPT ![r][m] = height]
       \/ /\ Fails("query")
          /\ Goto(r, Resolve(m), "latestBlock", "done")
          /\ UNCHANGED block
    /\ job' = [job EXCEPT ![r][Resolve(m)] = "vote"]
    /\ tries' = [tries EXCEPT ![r][Resolve(m)] = 0]
    /\ UNCHANGED <<bridgeVars, noLock, watched, noLife>>

(***************************************************************************)
(* voteProposal and executeProposal: both loops lock and update opts, send *)
(* the transaction, unlock, and on an error look whether the proposal      *)
(* still needs it.                                                         *)
(***************************************************************************)
(* mutant: update opts without the lock *)
LockOptsShared(r, t) ==
    /\ tries[r][t] < TxRetryLimit
    /\ Goto(r, t, "lock", "update")
    /\ lock' = [lock EXCEPT ![r] = t]
    /\ UNCHANGED <<bridgeVars, job, tries, opts, noWatch, noLife, errors>>

LockOpts(r, t) ==
    /\ tries[r][t] < TxRetryLimit
    /\ lock[r] = Free
    /\ Goto(r, t, "lock", "update")
    /\ lock' = [lock EXCEPT ![r] = t]
    /\ UNCHANGED <<bridgeVars, job, tries, opts, noWatch, noLife, errors>>

UpdateOpts(r, t) ==
    /\ Works
    /\ Goto(r, t, "update", "send")
    /\ opts' = [opts EXCEPT ![r] = sent[r]]
    /\ UNCHANGED <<bridgeVars, job, tries, lock, noWatch, noLife>>

(* After a failed update voteProposal tries again, executeProposal returns. *)
UpdateFailed(r, t) ==
    /\ IF job[r][t] = "vote" THEN Retry(r, t, "update", "lock")
                             ELSE Enter(r, t, "update", "done", "execute")
    /\ UNCHANGED <<bridgeVars, opts, noWatch, up, seen, late, crashes>>

(* LockAndUpdateOpts returns the error of SafeEstimateGas without unlocking. *)
GasFails(r, t) ==
    /\ Fails("gas")
    /\ UpdateFailed(r, t)
    /\ noPrice' = [noPrice EXCEPT ![r] = TRUE]
    /\ UNCHANGED lock

NonceFailsLeaking(r, t) ==  \* mutant: neither does it after an error of the nonce
    /\ Fails("nonce")
    /\ UpdateFailed(r, t)
    /\ UNCHANGED <<lock, noPrice>>

NonceFails(r, t) ==
    /\ Fails("nonce")
    /\ UpdateFailed(r, t)
    /\ lock' = [lock EXCEPT ![r] = Free]
    /\ UNCHANGED noPrice

(* mutant: return from a failed send without unlocking *)
SendFailsLeaking(r, t) ==
    /\ \/ /\ Works
          /\ Goto(r, t, "send", "done")
          /\ Accepted(r, opts[r], [job |-> job[r][t], msg |-> MsgOf(t)])
          /\ lock' = [lock EXCEPT ![r] = Free]
       \/ /\ Fails("send")
          /\ Goto(r, t, "send", "recheck")
          /\ UNCHANGED <<pool, sent, lock>>
    /\ UNCHANGED <<status, votes, events, height, job, tries, opts, noWatch, noLife>>

Send(r, t) ==
    /\ \/ /\ Works
          /\ Goto(r, t, "send", "done")
          /\ Accepted(r, opts[r], [job |-> job[r][t], msg |-> MsgOf(t)])
       \/ /\ (opts[r] # sent[r] /\ Works) \/ Fails("send")
          /\ Goto(r, t, "send", "recheck")
          /\ UNCHANGED <<pool, sent>>
    /\ lock' = [lock EXCEPT ![r] = Free]
    /\ UNCHANGED <<status, votes, events, height, job, tries, opts, noWatch, noLife>>

Recheck(r, t) ==
    /\ \E ans \in BOOLEAN :
          /\ Answer(ans, IF job[r][t] = "vote" THEN proposalIsComplete(MsgOf(t))
                                               ELSE proposalIsFinalized(MsgOf(t)))
          /\ IF ans THEN Enter(r, t, "recheck", "done", job[r][t])
                    ELSE Retry(r, t, "recheck", "lock")
    /\ UNCHANGED <<bridgeVars, noLock, noWatch, noLife>>

(* ErrFatalTx *)
GiveUp(r, t) ==
    /\ pc[r][t] = "lock" /\ tries[r][t] = TxRetryLimit
    /\ Works
    /\ Exits(r)

(***************************************************************************)
(* watchThenExecute.                                                       *)
(***************************************************************************)
WaitForBlock(r, m) ==
    /\ Works
    /\ height - 1 >= block[r][m]
    /\ Enter(r, Watch(m), "wait", "filter", "execute")
    /\ UNCHANGED <<bridgeVars, noLock, noWatch, noLife>>

WaitFails(r, m) ==
    /\ Fails("wait")
    /\ IF tries[r][Watch(m)] + 1 = BlockRetryLimit
         THEN pc[r][Watch(m)] = "wait" /\ Exits(r)  \* ErrFatalQuery
         ELSE /\ Retry(r, Watch(m), "wait", "wait")
              /\ UNCHANGED <<bridgeVars, noLock, noWatch, noLife>>

FoundAny(r, m) ==  \* mutant: the status of the event is not looked at
    \E e \in events : e.block = block[r][m] /\ NonceOf[e.msg] = NonceOf[m]

(* The event names source and nonce; its data hash is not compared. *)
FoundFinalized(r, m) ==
    \E e \in events : /\ e.block = block[r][m]
                      /\ NonceOf[e.msg] = NonceOf[m]
                      /\ e.status = "Passed"

(* mutants: one block too many; go on at the latest block *)
FilterLogsLonger(r, m) ==
    /\ Works /\ ~FoundFinalized(r, m)
    /\ block' = [block EXCEPT ![r][m] = @ + 1]
    /\ watched' = [watched EXCEPT ![r][m] = @ + 1]
    /\ Goto(r, Watch(m), "filter",
            IF watched[r][m] = WatchLimit THEN "done" ELSE "wait")
    /\ UNCHANGED <<bridgeVars, job, tries, noLock, noLife>>

FilterLogsSkipping(r, m) ==
    /\ Works
    /\ Goto(r, Watch(m), "filter",
            IF FoundFinalized(r, m) THEN "lock"
            ELSE IF watched[r][m] + 1 = WatchLimit THEN "done" ELSE "wait")
    /\ block' = [block EXCEPT ![r][m] = height]
    /\ watched' = [watched EXCEPT ![r][m] = IF FoundFinalized(r, m) THEN @ ELSE @ + 1]
    /\ UNCHANGED <<bridgeVars, job, tries, noLock, noLife>>

FilterLogs(r, m) ==
    /\ Works
    /\ \/ /\ FoundFinalized(r, m)
          /\ Goto(r, Watch(m), "filter", "lock")
          /\ UNCHANGED <<block, watched>>
       \/ /\ ~FoundFinalized(r, m)
          /\ block' = [block EXCEPT ![r][m] = @ + 1]
          /\ watched' = [watched EXCEPT ![r][m] = @ + 1]
          /\ Goto(r, Watch(m), "filter",
                  IF watched[r][m] + 1 = WatchLimit THEN "done" ELSE "wait")
    /\ UNCHANGED <<bridgeVars, job, tries, noLock, noLife>>

FilterFails(r, m) ==
    /\ Fails("filter")
    /\ Goto(r, Watch(m), "filter", "done")
    /\ UNCHANGED <<bridgeVars, job, tries, noLock, noWatch, noLife>>

(***************************************************************************)
(* The relayer stops at any time, or after an exit, and starts again: the  *)
(* Substrate listener polls from its start block and routes every deposit  *)
(* again.                                                                  *)
(***************************************************************************)
Restart(r) ==
    /\ crashes < MaxCrashes
    /\ crashes' = crashes + 1
    /\ up' = [up EXCEPT ![r] = TRUE]
    /\ pc' = [pc EXCEPT ![r] = [t \in Threads |-> "idle"]]
    /\ job' = [job EXCEPT ![r] = [t \in Threads |-> "vote"]]
    /\ tries' = [tries EXCEPT ![r] = [t \in Threads |-> 0]]
    /\ lock' = [lock EXCEPT ![r] = Free]
    /\ block' = [block EXCEPT ![r] = [m \in Msgs |-> 0]]
    /\ watched' = [watched EXCEPT ![r] = [m \in Msgs |-> 0]]
    /\ noPrice' = [noPrice EXCEPT ![r] = FALSE]
    /\ UNCHANGED <<bridgeVars, opts, seen, late, errors>>

(***************************************************************************)
(* The chain.  Blocks that nobody waits for change nothing and are left    *)
(* out; a goroutine that waits for a block gets one.                       *)
(***************************************************************************)
Awaited == \E r \in Relayers : \E m \in Msgs :
              pc[r][Watch(m)] = "wait" /\ block[r][m] >= height

BlockWithTx(r)  == Mine(r) /\ UNCHANGED writerVars
BlockWithout    == Awaited /\ EmptyBlock /\ UNCHANGED writerVars
BlockWithCancel == MayCancel /\ (\E m \in Msgs : Cancel(m)) /\ UNCHANGED writerVars

Resolving(r, m) ==
    \/ ResolveMessage(r, m) \/ CheckComplete(r, m) \/ CheckVoted(r, m)
    \/ CheckPassed(r, m) \/ LatestBlock(r, m)
Sending(r, t) ==
    \/ UpdateOpts(r, t) \/ GasFails(r, t) \/ NonceFails(r, t) \/ Send(r, t)
    \/ Recheck(r, t) \/ GiveUp(r, t)
Watching(r, m) ==
    \/ WaitForBlock(r, m) \/ WaitFails(r, m) \/ FilterLogs(r, m) \/ FilterFails(r, m)

Running(r) ==
    \/ \E m \in Msgs : Resolving(r, m) \/ Watching(r, m)
    \/ \E t \in Threads : LockOpts(r, t) \/ Sending(r, t)

Next ==
    \/ BlockWithout \/ BlockWithCancel
    \/ \E r \in Relayers : BlockWithTx(r) \/ Restart(r) \/ Running(r)

Spec == Init /\ [][Next]_vars

(***************************************************************************)
(* Fairness: a relayer's goroutines run as long as one of them can (each   *)
(* has only so many steps to take), blocks follow one another and take the *)
(* transactions there are.                                                 *)
(***************************************************************************)
Fairness ==
    /\ WF_vars(BlockWithout)
    /\ \A r \in Relayers : WF_vars(BlockWithTx(r)) /\ WF_vars(Running(r))

FairSpec == Spec /\ Fairness

(* A vote takes far less time than WatchLimit blocks: it is mined, from the *)
(* watcher's first block on, before blocks without transactions go by.      *)
Voting(r) ==
    \/ pool[r] # << >>
    \/ \E m \in Msgs : pc[r][Resolve(m)] \in {"lock", "update", "send", "recheck"}

PromptBlock == (\A r \in Relayers : ~Voting(r)) /\ BlockWithout

PromptNext ==
    \/ PromptBlock \/ BlockWithCancel
    \/ \E r \in Relayers : BlockWithTx(r) \/ Restart(r) \/ Running(r)

PromptSpec ==
    /\ Init /\ [][PromptNext]_vars
    /\ WF_vars(PromptBlock)
    /\ \A r \in Relayers : WF_vars(BlockWithTx(r)) /\ WF_vars(Running(r))

-----------------------------------------------------------------------------
(***************************************************************************)
(* optsLock does its work: whoever sends holds the lock, and the nonce in  *)
(* opts is the account's next one, so that no two transactions of a        *)
(* relayer clash.  About LockAndUpdateOpts, UnlockOpts and their callers.  *)
(***************************************************************************)
NonceFits ==
    \A r \in Relayers : \A t \in Threads :
        pc[r][t] = "send" => lock[r] = t /\ opts[r] = sent[r]

(***************************************************************************)
(* A relayer executes a proposal only after it passed, with Threshold      *)
(* votes of relayers that were routed the message, unless another message  *)
(* has the same nonce: of that one's event watchThenExecute cannot tell    *)
(* that it is not its own.  About shouldVote, watchThenExecute and         *)
(* IsFinalized.                                                            *)
(***************************************************************************)
Unique(m) == \A n \in Msgs : NonceOf[n] = NonceOf[m] => n = m

ExecutesAfterPass ==
    \A r \in Relayers : \A i \in 1..Len(pool[r]) :
        LET tx == pool[r][i] IN
            tx.job = "execute" /\ Unique(tx.msg) =>
                /\ status[tx.msg] \notin {"Inactive", "Active"}
                /\ Cardinality({q \in Relayers : tx.msg \in seen[q]}) >= Threshold

(***************************************************************************)
(* A message that is routed again after it was transferred makes no        *)
(* transaction (TestDuplicateMessage, writer_test.go:217).  For a relayer  *)
(* that had voted this holds even if one query fails: either check of      *)
(* shouldVote stops it.  A failed query reads as FALSE, so that one is     *)
(* enough for a relayer that had not voted to do so now, in vain.          *)
(***************************************************************************)
QuietOnDuplicate ==
    \A r \in Relayers : \A m \in late[r] :
        errors = 0 \/ (errors = 1 /\ r \in votes[m])
            => pc[r][Resolve(m)] \notin {"latestBlock", "lock", "update", "send", "recheck"}

(***************************************************************************)
(* optsLock is held only by a goroutine that will give it back, whatever   *)
(* fails and whoever exits, unless the relayer's SafeEstimateGas failed:   *)
(* of LockAndUpdateOpts' two errors that is the one that comes with the    *)
(* lock held; what follows from it is VoteEnds' subject.  About            *)
(* LockAndUpdateOpts, UnlockOpts and the returns of their callers.         *)
(***************************************************************************)
Abandoned(r) == lock[r] # Free /\ pc[r][lock[r]] \notin {"update", "send"}
AbandonedByGasOnly == \A r \in Relayers : Abandoned(r) => noPrice[r]

(***************************************************************************)
(* Every message is transferred: the watcher of the vote that passes the   *)
(* proposal sees it pass, or the relayer that restarts finds it passed.    *)
(* About watching before voting, and executing what others passed.         *)
(***************************************************************************)
EventuallyTransferred == \A m \in Msgs : <>(status[m] = "Transferred")

(***************************************************************************)
(* Every vote loop ends, sent, not needed any more or given up after       *)
(* TxRetryLimit times (writer_methods.go:253).  About voteProposal.        *)
(***************************************************************************)
VoteEnds ==
    \A r \in Relayers : \A t \in Threads :
        (pc[r][t] = "lock" /\ job[r][t] = "vote") ~> (pc[r][t] = "done" \/ ~up[r])

(***************************************************************************)
(* The inductive invariant: what the lock protects, what the counters are  *)
(* at each place, and why a transaction may be on its way.                 *)
(***************************************************************************)
Passing(m)  == status[m] \notin {"Inactive", "Active"} /\ Cardinality(votes[m]) >= Threshold
Sends(r, t) == pc[r][t] \in {"lock", "update", "send", "recheck"}

Holding ==
    \A r \in Relayers : \A t \in Threads :
        pc[r][t] \in {"update", "send"} => lock[r] = t

Counting ==
    \A r \in Relayers : \A t \in Threads :
        /\ pc[r][t] = "lock" => tries[r][t] <= TxRetryLimit
        /\ pc[r][t] \in {"update", "send", "recheck"} => tries[r][t] < TxRetryLimit
        /\ pc[r][t] = "wait" => tries[r][t] < BlockRetryLimit
        /\ pc[r][t] = "filter" => tries[r][t] = 0

(* A watcher starts when its message is voted on, and from the beginning. *)
WatchingOnce ==
    \A r \in Relayers : \A m \in Msgs :
        /\ up[r] /\ pc[r][Watch(m)] = "idle"
              => watched[r][m] = 0 /\ tries[r][Watch(m)] = 0
        /\ pc[r][Watch(m)] \in {"wait", "filter"} => watched[r][m] < WatchLimit
        /\ pc[r][Resolve(m)] \in {"idle", "isComplete", "hasVoted", "latestBlock"}
              => pc[r][Watch(m)] = "idle"

StoppedIsIdle ==
    \A r \in Relayers : ~up[r] => \A t \in Threads : pc[r][t] = "idle"

Routed ==
    /\ \A r \in Relayers : \A t \in Threads : pc[r][t] # "idle" => MsgOf(t) \in seen[r]
    /\ \A r \in Relayers : \A i \in 1..Len(pool[r]) : pool[r][i].msg \in seen[r]
    /\ \A m \in Msgs : \A r \in votes[m] : m \in seen[r]

PassedByVotes ==
    /\ \A m \in Msgs : status[m] \in {"Passed", "Transferred"} => Passing(m)
    /\ \A e \in events : e.status = "Passed" => Passing(e.msg)
    /\ \A r \in Relayers : \A t \in Threads :
          Sends(r, t) /\ job[r][t] = "execute" /\ Unique(MsgOf(t)) => Passing(MsgOf(t))
    /\ \A r \in Relayers : \A i \in 1..Len(pool[r]) :
          pool[r][i].job = "execute" /\ Unique(pool[r][i].msg) => Passing(pool[r][i].msg)

IInv ==
    /\ TypeOK
    /\ Holding /\ NonceFits
    /\ Counting /\ WatchingOnce /\ StoppedIsIdle
    /\ Routed /\ PassedByVotes
=============================================================================
