-------------------------- MODULE EvmWriter_proofs --------------------------
(* Proofs about EvmWriter, for any relayers, messages, limits and failures. *)
EXTENDS EvmWriter, TLAPS, FiniteSetTheorems

(* What the goroutines of a message are. *)
LEMMA ThreadFacts ==
    /\ \A m \in Msgs : /\ Resolve(m) \in Threads /\ MsgOf(Resolve(m)) = m
                       /\ Watch(m) \in Threads /\ MsgOf(Watch(m)) = m
    /\ \A t \in Threads : MsgOf(t) \in Msgs /\ t # Free
                          /\ (t = Resolve(MsgOf(t)) \/ t = Watch(MsgOf(t)))
    /\ \A m, n \in Msgs : Resolve(m) # Watch(n)
    /\ \A m, n \in Msgs : Resolve(m) = Resolve(n) \/ Watch(m) = Watch(n) => m = n
  BY DEF Resolve, Watch, Threads, MsgOf, Free

(* Where goroutines are after one of them moved. *)
LEMMA GotoFacts ==
    ASSUME TypeOK, NEW r \in Relayers, NEW t \in Threads,
           NEW from, NEW to \in Control, Goto(r, t, from, to)
    PROVE  /\ pc' \in [Relayers -> [Threads -> Control]]
           /\ pc[r][t] = from /\ pc'[r][t] = to
           /\ \A q \in Relayers : \A s \in Threads :
                 ~(q = r /\ s = t) => pc'[q][s] = pc[q][s]
  BY DEF TypeOK, Goto

LEMMA EnterType ==
    ASSUME TypeOK, NEW r \in Relayers, NEW t \in Threads,
           NEW from, NEW to \in Control, NEW j \in Job, Enter(r, t, from, to, j)
    PROVE  /\ pc' \in [Relayers -> [Threads -> Control]]
           /\ job' \in [Relayers -> [Threads -> Job]]
           /\ tries' \in [Relayers -> [Threads -> 0..(TxRetryLimit + BlockRetryLimit)]]
<1>1. Goto(r, t, from, to) /\ 0 \in 0..(TxRetryLimit + BlockRetryLimit)
  BY LimitsAssumption DEF Enter
<1> QED
  BY <1>1, GotoFacts DEF TypeOK, Enter

LEMMA EnterHere ==
    ASSUME TypeOK, NEW r \in Relayers, NEW t \in Threads,
           NEW from, NEW to \in Control, NEW j \in Job, Enter(r, t, from, to, j)
    PROVE  /\ pc[r][t] = from /\ pc'[r][t] = to
           /\ job'[r][t] = j /\ tries'[r][t] = 0
  BY DEF TypeOK, Enter, Goto

LEMMA EnterElse ==
    ASSUME TypeOK, NEW r \in Relayers, NEW t \in Threads,
           NEW from, NEW to \in Control, NEW j \in Job, Enter(r, t, from, to, j)
    PROVE  \A q \in Relayers : \A s \in Threads : ~(q = r /\ s = t) =>
              pc'[q][s] = pc[q][s] /\ job'[q][s] = job[q][s] /\ tries'[q][s] = tries[q][s]
<1>1. Goto(r, t, from, to)
  BY DEF Enter
<1>2. \A q \in Relayers : \A s \in Threads : ~(q = r /\ s = t) =>
         job'[q][s] = job[q][s] /\ tries'[q][s] = tries[q][s]
  BY DEF TypeOK, Enter
<1> QED
  BY <1>1, <1>2, GotoFacts

LEMMA RetryType ==
    ASSUME TypeOK, NEW r \in Relayers, NEW t \in Threads,
           NEW from, NEW to \in Control, Retry(r, t, from, to),
           tries[r][t] < TxRetryLimit \/ tries[r][t] < BlockRetryLimit
    PROVE  /\ pc' \in [Relayers -> [Threads -> Control]] /\ job' = job
           /\ tries' \in [Relayers -> [Threads -> 0..(TxRetryLimit + BlockRetryLimit)]]
<1>1. Goto(r, t, from, to) /\ job' = job
  BY DEF Retry
<1>2. tries[r][t] + 1 \in 0..(TxRetryLimit + BlockRetryLimit)
  BY LimitsAssumption DEF TypeOK
<1> QED
  BY <1>1, <1>2, GotoFacts DEF TypeOK, Retry

LEMMA RetryHere ==
    ASSUME TypeOK, NEW r \in Relayers, NEW t \in Threads,
           NEW from, NEW to \in Control, Retry(r, t, from, to)
    PROVE  /\ pc[r][t] = from /\ pc'[r][t] = to
           /\ job' = job /\ tries'[r][t] = tries[r][t] + 1
  BY DEF TypeOK, Retry, Goto

LEMMA RetryElse ==
    ASSUME TypeOK, NEW r \in Relayers, NEW t \in Threads,
           NEW from, NEW to \in Control, Retry(r, t, from, to)
    PROVE  \A q \in Relayers : \A s \in Threads : ~(q = r /\ s = t) =>
              pc'[q][s] = pc[q][s] /\ tries'[q][s] = tries[q][s]
<1>1. Goto(r, t, from, to)
  BY DEF Retry
<1>2. \A q \in Relayers : \A s \in Threads : ~(q = r /\ s = t) =>
         tries'[q][s] = tries[q][s]
  BY DEF TypeOK, Retry
<1> QED
  BY <1>1, <1>2, GotoFacts

(* Starting the watcher: two goroutines move. *)
LEMMA LatestBlockType ==
    ASSUME TypeOK, NEW r \in Relayers, NEW m \in Msgs,
           pc' = [pc EXCEPT ![r][Resolve(m)] = "lock", ![r][Watch(m)] = "wait"]
    PROVE  pc' \in [Relayers -> [Threads -> Control]]
  BY ThreadFacts DEF TypeOK, Control

LEMMA LatestBlockHere ==
    ASSUME TypeOK, NEW r \in Relayers, NEW m \in Msgs,
           pc' = [pc EXCEPT ![r][Resolve(m)] = "lock", ![r][Watch(m)] = "wait"]
    PROVE  pc'[r][Resolve(m)] = "lock" /\ pc'[r][Watch(m)] = "wait"
  BY ThreadFacts DEF TypeOK, Control

LEMMA LatestBlockElse ==
    ASSUME TypeOK, NEW r \in Relayers, NEW m \in Msgs,
           pc' = [pc EXCEPT ![r][Resolve(m)] = "lock", ![r][Watch(m)] = "wait"]
    PROVE  \A q \in Relayers : \A s \in Threads :
              ~(q = r /\ s \in {Resolve(m), Watch(m)}) => pc'[q][s] = pc[q][s]
  BY ThreadFacts DEF TypeOK, Control

-----------------------------------------------------------------------------
(* Type correctness. *)

LEMMA InitType == Init => TypeOK
  BY LimitsAssumption, FailuresAssumption
     DEF Init, BridgeInit, TypeOK, BridgeTypeOK, Control, Status, Job, Tx, Free

(* What a failure does to the count of failures. *)
LEMMA ErrorsType ==
    ASSUME TypeOK, NEW call, Works \/ Fails(call)
    PROVE  errors' \in 0..MaxErrors
  BY FailuresAssumption DEF TypeOK, Works, Fails

LEMMA ResolvingType ==
    ASSUME IInv, NEW r \in Relayers, NEW m \in Msgs, Resolving(r, m)
    PROVE  TypeOK'
<1> USE ThreadFacts
<1> TypeOK
  BY DEF IInv
<1>1. CASE ResolveMessage(r, m)
  <2>1. pc' \in [Relayers -> [Threads -> Control]]
    BY <1>1, GotoFacts DEF ResolveMessage, Control
  <2>2. seen' \in [Relayers -> SUBSET Msgs] /\ late' \in [Relayers -> SUBSET Msgs]
    BY <1>1 DEF ResolveMessage, TypeOK
  <2> QED
    BY <1>1, <2>1, <2>2 DEF ResolveMessage, TypeOK, BridgeTypeOK, bridgeVars, noLock, noWatch
<1>2. CASE CheckComplete(r, m)
  <2>1. pc' \in [Relayers -> [Threads -> Control]]
    BY <1>2, GotoFacts DEF CheckComplete, Control
  <2>2. errors' \in 0..MaxErrors
    BY <1>2, ErrorsType DEF CheckComplete, Answer
  <2> QED
    BY <1>2, <2>1, <2>2
       DEF CheckComplete, TypeOK, BridgeTypeOK, bridgeVars, noLock, noWatch, noLife
<1>3. CASE CheckVoted(r, m)
  <2>1. pc' \in [Relayers -> [Threads -> Control]]
    BY <1>3, GotoFacts DEF CheckVoted, Control
  <2>2. errors' \in 0..MaxErrors
    BY <1>3, ErrorsType DEF CheckVoted, Answer
  <2> QED
    BY <1>3, <2>1, <2>2
       DEF CheckVoted, TypeOK, BridgeTypeOK, bridgeVars, noLock, noWatch, noLife
<1>4. CASE CheckPassed(r, m)
  <2>1. PICK to \in {"lock", "done"} : Enter(r, Resolve(m), "isPassed", to, "execute")
    BY <1>4 DEF CheckPassed
  <2>2. to \in Control /\ "execute" \in Job
    BY DEF Control, Job
  <2>3. /\ pc' \in [Relayers -> [Threads -> Control]]
        /\ job' \in [Relayers -> [Threads -> Job]]
        /\ tries' \in [Relayers -> [Threads -> 0..(TxRetryLimit + BlockRetryLimit)]]
    BY <2>1, <2>2, EnterType
  <2>4. errors' \in 0..MaxErrors
    BY <1>4, ErrorsType DEF CheckPassed, Answer
  <2> QED
    BY <1>4, <2>3, <2>4
       DEF CheckPassed, TypeOK, BridgeTypeOK, bridgeVars, noLock, noWatch, noLife
<1>5. CASE LatestBlock(r, m)
  <2>0. {"lock", "wait", "done", "latestBlock"} \subseteq Control
    BY DEF Control
  <2>1. pc' \in [Relayers -> [Threads -> Control]] /\ block' \in [Relayers -> [Msgs -> Nat]]
    <3>1. CASE Fails("query") /\ Goto(r, Resolve(m), "latestBlock", "done") /\ UNCHANGED block
      BY <2>0, <3>1, GotoFacts DEF TypeOK
    <3>2. CASE /\ pc' = [pc EXCEPT ![r][Resolve(m)] = "lock", ![r][Watch(m)] = "wait"]
               /\ block' = [block EXCEPT ![r][m] = height]
      BY <3>2, LatestBlockType DEF TypeOK, BridgeTypeOK
    <3> QED
      BY <1>5, <3>1, <3>2 DEF LatestBlock
  <2>2. errors' \in 0..MaxErrors
    BY <1>5, ErrorsType DEF LatestBlock
  <2>3. /\ job' \in [Relayers -> [Threads -> Job]]
        /\ tries' \in [Relayers -> [Threads -> 0..(TxRetryLimit + BlockRetryLimit)]]
    BY <1>5, LimitsAssumption DEF LatestBlock, TypeOK, Job
  <2> QED
    BY <1>5, <2>1, <2>2, <2>3
       DEF LatestBlock, TypeOK, BridgeTypeOK, bridgeVars, noLock, noLife
<1> QED
  BY <1>1, <1>2, <1>3, <1>4, <1>5 DEF Resolving

LEMMA ExitsType ==
    ASSUME TypeOK, NEW r \in Relayers, Exits(r), errors' \in 0..MaxErrors
    PROVE  TypeOK'
  BY DEF Exits, TypeOK, BridgeTypeOK, bridgeVars, Control

LEMMA UpdateFailedType ==
    ASSUME IInv, NEW r \in Relayers, NEW t \in Threads, UpdateFailed(r, t),
           errors' \in 0..MaxErrors, lock' \in [Relayers -> Threads \cup {Free}],
           noPrice' \in [Relayers -> BOOLEAN]
    PROVE  TypeOK'
<1> TypeOK
  BY DEF IInv
<1>1. {"update", "lock", "done"} \subseteq Control /\ "execute" \in Job
  BY DEF Control, Job
<1>2. /\ pc' \in [Relayers -> [Threads -> Control]]
      /\ job' \in [Relayers -> [Threads -> Job]]
      /\ tries' \in [Relayers -> [Threads -> 0..(TxRetryLimit + BlockRetryLimit)]]
  <2>1. CASE job[r][t] = "vote"
    <3>1. Retry(r, t, "update", "lock") /\ tries[r][t] < TxRetryLimit
      BY <2>1 DEF UpdateFailed, Retry, Goto, IInv, Counting
    <3> QED
      BY <1>1, <3>1, RetryType DEF TypeOK
  <2>2. CASE job[r][t] # "vote"
    <3>1. Enter(r, t, "update", "done", "execute")
      BY <2>2 DEF UpdateFailed
    <3> QED
      BY <1>1, <3>1, EnterType
  <2> QED
    BY <2>1, <2>2
<1> QED
  BY <1>2 DEF UpdateFailed, TypeOK, BridgeTypeOK, bridgeVars, noWatch, noLife

LEMMA SendType ==
    ASSUME IInv, NEW r \in Relayers, NEW t \in Threads, Send(r, t)
    PROVE  TypeOK'
<1> TypeOK
  BY DEF IInv
<1>1. pc' \in [Relayers -> [Threads -> Control]]
  BY GotoFacts DEF Send, Control
<1>2. [job |-> job[r][t], msg |-> MsgOf(t)] \in Tx
  BY ThreadFacts DEF TypeOK, Tx
<1>3. pool' \in [Relayers -> Seq(Tx)] /\ sent' \in [Relayers -> Nat]
  <2> DEFINE tx == [job |-> job[r][t], msg |-> MsgOf(t)]
  <2>1. pool[r] \in Seq(Tx) /\ sent[r] \in Nat
    BY DEF TypeOK, BridgeTypeOK
  <2>2. Append(pool[r], tx) \in Seq(Tx) /\ sent[r] + 1 \in Nat
    BY <1>2, <2>1
  <2>3. \/ pool' = [pool EXCEPT ![r] = Append(@, tx)] /\ sent' = [sent EXCEPT ![r] = @ + 1]
        \/ pool' = pool /\ sent' = sent
    BY DEF Send, Accepted
  <2> DEFINE S == Seq(Tx)
  <2>4. pool \in [Relayers -> S] /\ sent \in [Relayers -> Nat]
    BY DEF TypeOK, BridgeTypeOK
  <2> HIDE DEF tx, S
  <2>5. pool' \in [Relayers -> S] /\ sent' \in [Relayers -> Nat]
    BY <2>2, <2>3, <2>4 DEF S
  <2> QED
    BY <2>5 DEF S
<1>4. errors' \in 0..MaxErrors
  BY ErrorsType DEF Send
<1> QED
  BY <1>1, <1>3, <1>4 DEF Send, TypeOK, BridgeTypeOK, noWatch, noLife

LEMMA SendingType ==
    ASSUME IInv, NEW r \in Relayers, NEW t \in Threads, LockOpts(r, t) \/ Sending(r, t)
    PROVE  TypeOK'
<1> TypeOK
  BY DEF IInv
<1>1. CASE LockOpts(r, t)
  <2>1. pc' \in [Relayers -> [Threads -> Control]]
    BY <1>1, GotoFacts DEF LockOpts, Control
  <2> QED
    BY <1>1, <2>1 DEF LockOpts, TypeOK, BridgeTypeOK, bridgeVars, noWatch, noLife
<1>2. CASE UpdateOpts(r, t)
  <2>1. pc' \in [Relayers -> [Threads -> Control]]
    BY <1>2, GotoFacts DEF UpdateOpts, Control
  <2> QED
    BY <1>2, <2>1 DEF UpdateOpts, Works, TypeOK, BridgeTypeOK, bridgeVars, noWatch, noLife
<1>3. CASE GasFails(r, t)
  BY <1>3, ErrorsType, UpdateFailedType DEF GasFails, TypeOK
<1>4. CASE NonceFails(r, t)
  BY <1>4, ErrorsType, UpdateFailedType DEF NonceFails, TypeOK
<1>5. CASE Send(r, t)
  BY <1>5, SendType
<1>6. CASE Recheck(r, t)
  <2>1. {"recheck", "lock", "done"} \subseteq Control /\ job[r][t] \in Job
    BY DEF Control, TypeOK
  <2>2. /\ pc' \in [Relayers -> [Threads -> Control]]
        /\ job' \in [Relayers -> [Threads -> Job]]
        /\ tries' \in [Relayers -> [Threads -> 0..(TxRetryLimit + BlockRetryLimit)]]
    <3>1. \/ Enter(r, t, "recheck", "done", job[r][t])
          \/ Retry(r, t, "recheck", "lock")
      BY <1>6 DEF Recheck
    <3>2. CASE Enter(r, t, "recheck", "done", job[r][t])
      BY <2>1, <3>2, EnterType
    <3>3. CASE Retry(r, t, "recheck", "lock")
      <4>1. tries[r][t] < TxRetryLimit
        BY <3>3 DEF Retry, Goto, IInv, Counting
      <4> QED
        BY <2>1, <3>3, <4>1, RetryType DEF TypeOK
    <3> QED
      BY <3>1, <3>2, <3>3
  <2>3. errors' \in 0..MaxErrors
    BY <1>6, ErrorsType DEF Recheck, Answer
  <2> QED
    BY <1>6, <2>2, <2>3
       DEF Recheck, TypeOK, BridgeTypeOK, bridgeVars, noLock, noWatch, noLife
<1>7. CASE GiveUp(r, t)
  BY <1>7, ExitsType DEF GiveUp, Works, TypeOK
<1> QED
  BY <1>1, <1>2, <1>3, <1>4, <1>5, <1>6, <1>7 DEF Sending

LEMMA WatchingType ==
    ASSUME IInv, NEW r \in Relayers, NEW m \in Msgs, Watching(r, m)
    PROVE  TypeOK'
<1> DEFINE t == Watch(m)
<1> TypeOK /\ t \in Threads
  BY ThreadFacts DEF IInv
<1>0. {"wait", "filter", "lock", "done"} \subseteq Control /\ "execute" \in Job
  BY DEF Control, Job
<1>1. CASE WaitForBlock(r, m)
  <2>1. Enter(r, t, "wait", "filter", "execute")
    BY <1>1 DEF WaitForBlock
  <2>2. /\ pc' \in [Relayers -> [Threads -> Control]]
        /\ job' \in [Relayers -> [Threads -> Job]]
        /\ tries' \in [Relayers -> [Threads -> 0..(TxRetryLimit + BlockRetryLimit)]]
    BY <1>0, <2>1, EnterType
  <2> QED
    BY <1>1, <2>2
       DEF WaitForBlock, Works, TypeOK, BridgeTypeOK, bridgeVars, noLock, noWatch, noLife
<1>2. CASE WaitFails(r, m)
  <2>1. errors' \in 0..MaxErrors
    BY <1>2, ErrorsType DEF WaitFails
  <2>2. CASE tries[r][t] + 1 = BlockRetryLimit
    BY <1>2, <2>1, <2>2, ExitsType DEF WaitFails
  <2>3. CASE tries[r][t] + 1 # BlockRetryLimit
    <3>1. Retry(r, t, "wait", "wait") /\ tries[r][t] < BlockRetryLimit
      BY <1>2, <2>3 DEF WaitFails, Retry, Goto, IInv, Counting
    <3>2. /\ pc' \in [Relayers -> [Threads -> Control]] /\ job' = job
          /\ tries' \in [Relayers -> [Threads -> 0..(TxRetryLimit + BlockRetryLimit)]]
      BY <1>0, <3>1, RetryType
    <3> QED
      BY <1>2, <2>1, <2>3, <3>2
         DEF WaitFails, TypeOK, BridgeTypeOK, bridgeVars, noLock, noWatch, noLife
  <2> QED
    BY <2>2, <2>3
<1>3. CASE FilterLogs(r, m)
  <2>1. pc' \in [Relayers -> [Threads -> Control]] /\ pc[r][t] = "filter"
    BY <1>0, <1>3, GotoFacts DEF FilterLogs
  <2>2. block' \in [Relayers -> [Msgs -> Nat]] /\ watched' \in [Relayers -> [Msgs -> 0..WatchLimit]]
    <3>1. block[r][m] + 1 \in Nat /\ watched[r][m] + 1 \in 0..WatchLimit
      BY <2>1, LimitsAssumption DEF TypeOK, IInv, WatchingOnce
    <3>2. \/ UNCHANGED <<block, watched>>
          \/ /\ block' = [block EXCEPT ![r][m] = @ + 1]
             /\ watched' = [watched EXCEPT ![r][m] = @ + 1]
      BY <1>3 DEF FilterLogs
    <3>3. CASE /\ block' = [block EXCEPT ![r][m] = @ + 1]
               /\ watched' = [watched EXCEPT ![r][m] = @ + 1]
      <4>1. block' \in [Relayers -> [Msgs -> Nat]]
        BY <3>1, <3>3 DEF TypeOK
      <4>2. watched' \in [Relayers -> [Msgs -> 0..WatchLimit]]
        BY <3>1, <3>3 DEF TypeOK
      <4> QED
        BY <4>1, <4>2
    <3> QED
      BY <3>2, <3>3 DEF TypeOK
  <2> QED
    BY <1>3, <2>1, <2>2
       DEF FilterLogs, Works, TypeOK, BridgeTypeOK, bridgeVars, noLock, noLife
<1>4. CASE FilterFails(r, m)
  <2>1. pc' \in [Relayers -> [Threads -> Control]]
    BY <1>0, <1>4, GotoFacts DEF FilterFails
  <2>2. errors' \in 0..MaxErrors
    BY <1>4, ErrorsType DEF FilterFails
  <2> QED
    BY <1>4, <2>1, <2>2
       DEF FilterFails, TypeOK, BridgeTypeOK, bridgeVars, noLock, noWatch, noLife
<1> QED
  BY <1>1, <1>2, <1>3, <1>4 DEF Watching

LEMMA RestartType ==
    ASSUME TypeOK, NEW r \in Relayers, Restart(r)
    PROVE  TypeOK'
<1>1. "idle" \in Control /\ "vote" \in Job /\ 0 \in 0..(TxRetryLimit + BlockRetryLimit)
      /\ 0 \in Nat /\ 0 \in 0..WatchLimit
  BY LimitsAssumption DEF Control, Job
<1>2. pc' \in [Relayers -> [Threads -> Control]] /\ job' \in [Relayers -> [Threads -> Job]]
      /\ tries' \in [Relayers -> [Threads -> 0..(TxRetryLimit + BlockRetryLimit)]]
  BY <1>1 DEF Restart, TypeOK
<1>3. block' \in [Relayers -> [Msgs -> Nat]] /\ watched' \in [Relayers -> [Msgs -> 0..WatchLimit]]
  BY <1>1 DEF Restart, TypeOK
<1>4. crashes' \in 0..MaxCrashes
  BY FailuresAssumption DEF Restart, TypeOK
<1> QED
  BY <1>2, <1>3, <1>4 DEF Restart, TypeOK, BridgeTypeOK, bridgeVars

(* Moving a proposal. *)
LEMMA MovesType ==
    ASSUME BridgeTypeOK, NEW m \in Msgs, NEW to \in Status, Moves(m, to)
    PROVE  /\ status' \in [Msgs -> Status]
           /\ events' \subseteq [block : Nat, msg : Msgs, status : Status]
<1>1. [block |-> height + 1, msg |-> m, status |-> to]
         \in [block : Nat, msg : Msgs, status : Status]
  BY DEF BridgeTypeOK
<1> QED
  BY <1>1 DEF BridgeTypeOK, Moves

(* The first pending transaction, and what is left without it. *)
LEMMA PoolFacts ==
    ASSUME BridgeTypeOK, NEW r \in Relayers, pool[r] # << >>
    PROVE  /\ Head(pool[r]) = pool[r][1] /\ 1 \in 1..Len(pool[r])
           /\ Head(pool[r]) \in Tx
           /\ Tail(pool[r]) \in Seq(Tx)
           /\ \A i \in 1..Len(Tail(pool[r])) :
                 i + 1 \in 1..Len(pool[r]) /\ Tail(pool[r])[i] = pool[r][i + 1]
<1>1. pool[r] \in Seq(Tx)
  BY DEF BridgeTypeOK
<1> QED
  BY <1>1

LEMMA MineType ==
    ASSUME BridgeTypeOK, NEW r \in Relayers, Mine(r)
    PROVE  BridgeTypeOK'
<1> DEFINE tx == Head(pool[r])
<1>1. pool[r] # << >>
  BY DEF Mine
<1>2. tx.msg \in Msgs /\ Tail(pool[r]) \in Seq(Tx)
  BY <1>1, PoolFacts DEF Tx
<1>3. {"Active", "Passed", "Transferred"} \subseteq Status
  BY DEF Status
<1>4. /\ status' \in [Msgs -> Status]
      /\ events' \subseteq [block : Nat, msg : Msgs, status : Status]
      /\ votes' \in [Msgs -> SUBSET Relayers]
  <2> HIDE DEF tx
  <2>1. CASE CountsVote(r, tx.msg)
    <3>1. votes' \in [Msgs -> SUBSET Relayers]
      BY <1>2, <2>1 DEF CountsVote, BridgeTypeOK
    <3>2. \/ Moves(tx.msg, "Passed") \/ Moves(tx.msg, "Active")
          \/ UNCHANGED <<status, events>>
      BY <2>1 DEF CountsVote
    <3> QED
      BY <1>2, <1>3, <3>1, <3>2, MovesType DEF BridgeTypeOK
  <2>2. CASE Transfers(tx.msg)
    BY <1>2, <1>3, <2>2, MovesType DEF Transfers, BridgeTypeOK
  <2>3. CASE Reverts(r, tx)
    BY <2>3 DEF Reverts, BridgeTypeOK
  <2> QED
    BY <2>1, <2>2, <2>3 DEF Mine, tx
<1>5. pool' \in [Relayers -> Seq(Tx)]
  <2> DEFINE S == Seq(Tx)
  <2>1. pool \in [Relayers -> S] /\ Tail(pool[r]) \in S /\ pool' = [pool EXCEPT ![r] = Tail(@)]
    BY <1>2 DEF Mine, BridgeTypeOK
  <2> HIDE DEF S
  <2>2. pool' \in [Relayers -> S]
    BY <2>1
  <2> QED
    BY <2>2 DEF S
<1>6. height' \in Nat /\ sent' = sent
  BY DEF Mine, BridgeTypeOK
<1> QED
  BY <1>4, <1>5, <1>6 DEF BridgeTypeOK

(* The chain touches none of the writer's variables, and the writer keeps its types. *)
LEMMA ChainType ==
    ASSUME TypeOK, \/ BlockWithout \/ BlockWithCancel
                   \/ \E r \in Relayers : BlockWithTx(r)
    PROVE  TypeOK' /\ UNCHANGED writerVars
<1>1. UNCHANGED writerVars
  BY DEF BlockWithout, BlockWithCancel, BlockWithTx
<1>2. BridgeTypeOK'
  <2>1. CASE BlockWithout
    BY <2>1 DEF BlockWithout, EmptyBlock, TypeOK, BridgeTypeOK
  <2>2. CASE BlockWithCancel
    <3>1. PICK m \in Msgs : Cancel(m)
      BY <2>2 DEF BlockWithCancel
    <3>2. "Cancelled" \in Status
      BY DEF Status
    <3> QED
      BY <3>1, <3>2, MovesType DEF Cancel, TypeOK, BridgeTypeOK
  <2>3. CASE \E r \in Relayers : BlockWithTx(r)
    BY <2>3, MineType DEF BlockWithTx, TypeOK
  <2> QED
    BY <2>1, <2>2, <2>3
<1> QED
  BY <1>1, <1>2 DEF writerVars, control, TypeOK

LEMMA StepType == IInv /\ [Next]_vars => TypeOK'
<1> SUFFICES ASSUME IInv, [Next]_vars PROVE TypeOK'
  OBVIOUS
<1>0. TypeOK
  BY DEF IInv
<1>1. ASSUME NEW r \in Relayers, Restart(r) PROVE TypeOK'
  BY <1>0, <1>1, RestartType
<1>2. ASSUME NEW r \in Relayers, Running(r) PROVE TypeOK'
  BY <1>2, ResolvingType, WatchingType, SendingType DEF Running
<1>3. CASE BlockWithout \/ BlockWithCancel \/ \E r \in Relayers : BlockWithTx(r)
  BY <1>0, <1>3, ChainType
<1>4. CASE UNCHANGED vars
  BY <1>0, <1>4 DEF vars, writerVars, bridgeVars, control, TypeOK, BridgeTypeOK
<1> QED
  BY <1>1, <1>2, <1>3, <1>4 DEF Next

-----------------------------------------------------------------------------
(***************************************************************************)
(* The invariant, said of one goroutine, one watcher, and the chain: a     *)
(* step of a goroutine disturbs only what is said of it.                   *)
(***************************************************************************)
Here(r, t) ==
    /\ pc[r][t] \in {"update", "send"} => lock[r] = t
    /\ pc[r][t] = "send" => opts[r] = sent[r]
    /\ pc[r][t] = "lock" => tries[r][t] <= TxRetryLimit
    /\ pc[r][t] \in {"update", "send", "recheck"} => tries[r][t] < TxRetryLimit
    /\ pc[r][t] = "wait" => tries[r][t] < BlockRetryLimit
    /\ pc[r][t] = "filter" => tries[r][t] = 0
    /\ pc[r][t] # "idle" => up[r] /\ MsgOf(t) \in seen[r]
    /\ Sends(r, t) /\ job[r][t] = "execute" /\ Unique(MsgOf(t)) => Passing(MsgOf(t))

Watcher(r, m) ==
    /\ up[r] /\ pc[r][Watch(m)] = "idle" => watched[r][m] = 0 /\ tries[r][Watch(m)] = 0
    /\ pc[r][Watch(m)] \in {"wait", "filter"} => watched[r][m] < WatchLimit
    /\ pc[r][Resolve(m)] \in {"idle", "isComplete", "hasVoted", "latestBlock"}
          => pc[r][Watch(m)] = "idle"

Pooled(r) ==
    \A i \in 1..Len(pool[r]) :
        /\ pool[r][i].msg \in seen[r]
        /\ pool[r][i].job = "execute" /\ Unique(pool[r][i].msg) => Passing(pool[r][i].msg)

Proposed ==
    /\ \A m \in Msgs : \A r \in votes[m] : m \in seen[r]
    /\ \A m \in Msgs : status[m] \in {"Passed", "Transferred"} => Passing(m)
    /\ \A e \in events : e.status = "Passed" => Passing(e.msg)

Parts ==
    /\ \A r \in Relayers : \A t \in Threads : Here(r, t)
    /\ \A r \in Relayers : \A m \in Msgs : Watcher(r, m)
    /\ \A r \in Relayers : Pooled(r)
    /\ Proposed

LEMMA ToParts == IInv => Parts
<1> SUFFICES ASSUME IInv PROVE Parts
  OBVIOUS
<1>1. ASSUME NEW r \in Relayers, NEW t \in Threads PROVE Here(r, t)
  <2>1. /\ pc[r][t] \in {"update", "send"} => lock[r] = t
        /\ pc[r][t] = "send" => opts[r] = sent[r]
    BY DEF IInv, Holding, NonceFits
  <2>2. /\ pc[r][t] = "lock" => tries[r][t] <= TxRetryLimit
        /\ pc[r][t] \in {"update", "send", "recheck"} => tries[r][t] < TxRetryLimit
        /\ pc[r][t] = "wait" => tries[r][t] < BlockRetryLimit
        /\ pc[r][t] = "filter" => tries[r][t] = 0
    BY DEF IInv, Counting
  <2>3. pc[r][t] # "idle" => up[r] /\ MsgOf(t) \in seen[r]
    BY DEF IInv, StoppedIsIdle, Routed
  <2>4. Sends(r, t) /\ job[r][t] = "execute" /\ Unique(MsgOf(t)) => Passing(MsgOf(t))
    BY DEF IInv, PassedByVotes
  <2> QED
    BY <2>1, <2>2, <2>3, <2>4 DEF Here
<1>2. ASSUME NEW r \in Relayers, NEW m \in Msgs PROVE Watcher(r, m)
  BY DEF IInv, WatchingOnce, Watcher
<1>3. ASSUME NEW r \in Relayers PROVE Pooled(r)
  BY DEF IInv, Routed, PassedByVotes, Pooled
<1>4. Proposed
  BY DEF IInv, Routed, PassedByVotes, Proposed
<1> QED
  BY <1>1, <1>2, <1>3, <1>4 DEF Parts

LEMMA FromParts == TypeOK /\ Parts => IInv
<1> SUFFICES ASSUME TypeOK, Parts PROVE IInv
  OBVIOUS
<1>1. Holding /\ NonceFits
  BY DEF Parts, Here, Holding, NonceFits
<1>2. Counting
  BY DEF Parts, Here, Counting
<1>3. WatchingOnce
  BY DEF Parts, Watcher, WatchingOnce
<1>4. StoppedIsIdle
  BY DEF Parts, Here, StoppedIsIdle
<1>5. Routed
  BY DEF Parts, Here, Pooled, Proposed, Routed
<1>6. PassedByVotes
  BY DEF Parts, Here, Pooled, Proposed, PassedByVotes
<1> QED
  BY <1>1, <1>2, <1>3, <1>4, <1>5, <1>6 DEF IInv

LEMMA InitParts == Init => Parts
<1> SUFFICES ASSUME Init PROVE Parts
  OBVIOUS
<1>1. /\ \A r \in Relayers : \A t \in Threads : pc[r][t] = "idle" /\ tries[r][t] = 0
      /\ \A r \in Relayers : \A m \in Msgs : watched[r][m] = 0
      /\ \A r \in Relayers : pool[r] = << >>
      /\ \A m \in Msgs : votes[m] = {} /\ status[m] = "Inactive"
      /\ events = {}
  BY DEF Init, BridgeInit
<1>2. ASSUME NEW r \in Relayers, NEW t \in Threads PROVE Here(r, t)
  BY <1>1 DEF Here, Sends
<1>3. ASSUME NEW r \in Relayers, NEW m \in Msgs PROVE Watcher(r, m)
  BY <1>1, ThreadFacts DEF Watcher
<1>4. ASSUME NEW r \in Relayers PROVE Pooled(r)
  BY <1>1 DEF Pooled
<1>5. Proposed
  BY <1>1 DEF Proposed
<1> QED
  BY <1>2, <1>3, <1>4, <1>5 DEF Parts

(***************************************************************************)
(* A step of goroutine t of r: what is said of t, of its message's watcher *)
(* and of what it sends is all there is to show.                           *)
(***************************************************************************)
LEMMA GoroutineStep ==
    ASSUME IInv, NEW r \in Relayers, NEW t \in Threads,
           \A q \in Relayers : \A s \in Threads : ~(q = r /\ s = t) =>
               pc'[q][s] = pc[q][s] /\ job'[q][s] = job[q][s] /\ tries'[q][s] = tries[q][s],
           \A q \in Relayers : q # r \/ lock[r] \notin {t, Free}
               => lock'[q] = lock[q] /\ opts'[q] = opts[q] /\ sent'[q] = sent[q],
           \A q \in Relayers : pool'[q] = pool[q] \/ Pooled(q)',
           \A q \in Relayers : seen[q] \subseteq seen'[q],
           \A q \in Relayers : \A m \in Msgs :
               ~(q = r /\ t = Watch(m)) => watched'[q][m] = watched[q][m],
           UNCHANGED <<status, votes, events, up>>,
           Here(r, t)', Watcher(r, MsgOf(t))'
    PROVE  Parts'
<1>0. Parts
  BY ToParts
<1>1. ASSUME NEW m \in Msgs PROVE Passing(m)' = Passing(m)
  BY DEF Passing
<1>2. ASSUME NEW q \in Relayers, NEW s \in Threads PROVE Here(q, s)'
  <2>1. CASE q = r /\ s = t
    BY <2>1
  <2>2. CASE ~(q = r /\ s = t)
    <3>1. Here(q, s) /\ Passing(MsgOf(s))' = Passing(MsgOf(s))
      BY <1>0, <1>1, ThreadFacts DEF Parts
    <3>2. pc'[q][s] = pc[q][s] /\ job'[q][s] = job[q][s] /\ tries'[q][s] = tries[q][s]
      BY <2>2
    <3>3. pc[q][s] \in {"update", "send"} =>
             lock'[q] = lock[q] /\ opts'[q] = opts[q] /\ sent'[q] = sent[q]
      <4>1. pc[q][s] \in {"update", "send"} => lock[q] = s
        BY <3>1 DEF Here
      <4> QED
        BY <2>2, <4>1, ThreadFacts
    <3>4. up' = up /\ seen[q] \subseteq seen'[q]
      OBVIOUS
    <3> QED
      BY <3>1, <3>2, <3>3, <3>4 DEF Here, Sends
  <2> QED
    BY <2>1, <2>2
<1>3. ASSUME NEW q \in Relayers, NEW m \in Msgs PROVE Watcher(q, m)'
  <2>1. CASE q = r /\ m = MsgOf(t)
    BY <2>1
  <2>2. CASE ~(q = r /\ m = MsgOf(t))
    <3>1. /\ ~(q = r /\ Watch(m) = t) /\ ~(q = r /\ Resolve(m) = t)
          /\ Watch(m) \in Threads /\ Resolve(m) \in Threads
      BY <2>2, ThreadFacts
    <3>2. Watcher(q, m)
      BY <1>0 DEF Parts
    <3> QED
      BY <3>1, <3>2 DEF Watcher
  <2> QED
    BY <2>1, <2>2
<1>4. ASSUME NEW q \in Relayers PROVE Pooled(q)'
  <2>1. Pooled(q) /\ pool[q] \in Seq(Tx)
    BY <1>0 DEF Parts, IInv, TypeOK, BridgeTypeOK
  <2> QED
    BY <2>1 DEF Pooled, Passing
<1>5. Proposed'
  <2>1. votes \in [Msgs -> SUBSET Relayers]
    BY DEF IInv, TypeOK, BridgeTypeOK
  <2> QED
    BY <1>0, <2>1 DEF Parts, Proposed, Passing
<1> QED
  BY <1>2, <1>3, <1>4, <1>5 DEF Parts

LEMMA ResolvingParts ==
    ASSUME IInv, TypeOK', NEW r \in Relayers, NEW m \in Msgs,
           Resolving(r, m), ~LatestBlock(r, m)
    PROVE  Parts'
<1> DEFINE t == Resolve(m)
<1>0. /\ TypeOK /\ t \in Threads /\ MsgOf(t) = m /\ \A n \in Msgs : t # Watch(n)
      /\ {"idle", "isComplete", "hasVoted", "isPassed", "latestBlock", "lock", "done"}
            \subseteq Control
      /\ "execute" \in Job
  BY ThreadFacts DEF IInv, Control, Job
<1>1. Here(r, t) /\ Watcher(r, m)
  BY <1>0, ToParts DEF Parts
<1>2. CASE ResolveMessage(r, m)
  <2>1. /\ Goto(r, t, "idle", "isComplete")
        /\ seen'[r] = seen[r] \cup {m} /\ \A q \in Relayers : seen[q] \subseteq seen'[q]
        /\ UNCHANGED <<bridgeVars, job, tries, lock, opts, watched, up>> /\ up[r]
    BY <1>2 DEF ResolveMessage, noLock, noWatch, TypeOK, IInv
  <2>2. /\ pc[r][t] = "idle" /\ pc'[r][t] = "isComplete"
        /\ \A q \in Relayers : \A s \in Threads :
              ~(q = r /\ s = t) => pc'[q][s] = pc[q][s]
    BY <1>0, <2>1, GotoFacts
  <2>3. Here(r, t)' /\ Watcher(r, m)'
    BY <1>0, <1>1, <2>1, <2>2, ThreadFacts DEF Here, Watcher, Sends
  <2> QED
    BY <1>0, <2>1, <2>2, <2>3, GoroutineStep DEF bridgeVars
<1>3. CASE CheckComplete(r, m) \/ CheckVoted(r, m)
  <2>1. PICK from \in {"isComplete", "hasVoted"},
             to \in {"isPassed", "hasVoted", "latestBlock"} : Goto(r, t, from, to)
    BY <1>3 DEF CheckComplete, CheckVoted
  <2>2. /\ pc[r][t] = from /\ pc'[r][t] = to
        /\ \A q \in Relayers : \A s \in Threads :
              ~(q = r /\ s = t) => pc'[q][s] = pc[q][s]
    BY <1>0, <2>1, GotoFacts
  <2>3. UNCHANGED <<bridgeVars, job, tries, lock, opts, watched, up, seen>>
    BY <1>3 DEF CheckComplete, CheckVoted, noLock, noWatch, noLife
  <2>4. Here(r, t)' /\ Watcher(r, m)'
    BY <1>0, <1>1, <2>2, <2>3, ThreadFacts DEF Here, Watcher, Sends
  <2> QED
    BY <1>0, <2>2, <2>3, <2>4, GoroutineStep DEF bridgeVars
<1>4. CASE CheckPassed(r, m)
  <2>1. PICK ans \in BOOLEAN :
           /\ Answer(ans, proposalIsPassed(m))
           /\ Enter(r, t, "isPassed", IF ans THEN "lock" ELSE "done", "execute")
    BY <1>4 DEF CheckPassed
  <2>2. /\ pc[r][t] = "isPassed" /\ pc'[r][t] = IF ans THEN "lock" ELSE "done"
        /\ job'[r][t] = "execute" /\ tries'[r][t] = 0
        /\ \A q \in Relayers : \A s \in Threads : ~(q = r /\ s = t) =>
              /\ pc'[q][s] = pc[q][s]
              /\ job'[q][s] = job[q][s] /\ tries'[q][s] = tries[q][s]
    <3> DEFINE to == IF ans THEN "lock" ELSE "done"
    <3>1. to \in Control /\ Enter(r, t, "isPassed", to, "execute")
      BY <1>0, <2>1
    <3> HIDE DEF to
    <3>2. /\ pc[r][t] = "isPassed" /\ pc'[r][t] = to
          /\ job'[r][t] = "execute" /\ tries'[r][t] = 0
      BY <1>0, <3>1, EnterHere
    <3>3. \A q \in Relayers : \A s \in Threads : ~(q = r /\ s = t) =>
             pc'[q][s] = pc[q][s] /\ job'[q][s] = job[q][s] /\ tries'[q][s] = tries[q][s]
      BY <1>0, <3>1, EnterElse
    <3> QED
      BY <3>2, <3>3 DEF to
  <2>3. UNCHANGED <<bridgeVars, lock, opts, watched, up, seen>>
    BY <1>4 DEF CheckPassed, noLock, noWatch, noLife
  <2>4. ans => Passing(m) /\ Passing(m)'
    <3>1. ans => status[m] = "Passed"
      BY <2>1 DEF Answer, proposalIsPassed
    <3> QED
      BY <2>3, <3>1, ToParts DEF Parts, Proposed, Passing, bridgeVars
  <2>5. Here(r, t)' /\ Watcher(r, m)'
    BY <1>0, <1>1, <2>2, <2>3, <2>4, ThreadFacts, LimitsAssumption DEF Here, Watcher, Sends
  <2> QED
    BY <1>0, <2>2, <2>3, <2>5, GoroutineStep DEF bridgeVars
<1> QED
  BY <1>2, <1>3, <1>4 DEF Resolving

(* Starting the watcher. *)
LEMMA LatestBlockParts ==
    ASSUME IInv, TypeOK', NEW r \in Relayers, NEW m \in Msgs, LatestBlock(r, m)
    PROVE  Parts'
<1> DEFINE t == Resolve(m)
<1>0. /\ TypeOK /\ Parts /\ t \in Threads /\ Watch(m) \in Threads /\ t # Watch(m)
      /\ MsgOf(t) = m /\ MsgOf(Watch(m)) = m
  BY ThreadFacts, ToParts DEF IInv
<1>1. /\ pc[r][t] = "latestBlock"
      /\ UNCHANGED <<bridgeVars, lock, opts, watched, up, seen>>
      /\ job'[r][t] = "vote" /\ tries'[r][t] = 0
      /\ \A q \in Relayers : \A s \in Threads : ~(q = r /\ s = t) =>
            job'[q][s] = job[q][s] /\ tries'[q][s] = tries[q][s]
  BY <1>0 DEF LatestBlock, TypeOK, noLock, noLife
<1>2. Here(r, t) /\ Here(r, Watch(m)) /\ Watcher(r, m)
  BY <1>0 DEF Parts
<1>3. /\ \/ pc'[r][t] = "lock" /\ pc'[r][Watch(m)] = "wait"
         \/ pc'[r][t] = "done" /\ pc'[r][Watch(m)] = "idle"
      /\ \A q \in Relayers : \A s \in Threads :
            ~(q = r /\ s \in {t, Watch(m)}) => pc'[q][s] = pc[q][s]
  <2>1. {"latestBlock", "done"} \subseteq Control
    BY DEF Control
  <2>2. CASE Goto(r, t, "latestBlock", "done")
    BY <1>0, <1>1, <1>2, <2>1, <2>2, GotoFacts DEF Watcher
  <2>3. CASE pc' = [pc EXCEPT ![r][Resolve(m)] = "lock", ![r][Watch(m)] = "wait"]
    <3>1. pc'[r][Resolve(m)] = "lock" /\ pc'[r][Watch(m)] = "wait"
      BY <1>0, <2>3, LatestBlockHere
    <3>2. \A q \in Relayers : \A s \in Threads :
             ~(q = r /\ s \in {Resolve(m), Watch(m)}) => pc'[q][s] = pc[q][s]
      BY <1>0, <2>3, LatestBlockElse
    <3> QED
      BY <3>1, <3>2
  <2> QED
    BY <2>2, <2>3 DEF LatestBlock
<1>4. pc[r][Watch(m)] = "idle" /\ watched[r][m] = 0 /\ tries[r][Watch(m)] = 0 /\ up[r]
      /\ m \in seen[r]
  BY <1>0, <1>1, <1>2 DEF Watcher, Here
<1>5. ASSUME NEW q \in Relayers, NEW s \in Threads PROVE Here(q, s)'
  <2>1. Here(q, s)
    BY <1>0 DEF Parts
  <2>2. CASE q = r /\ s = t
    BY <1>0, <1>1, <1>3, <1>4, <2>2, LimitsAssumption DEF Here, Sends
  <2>3. CASE q = r /\ s = Watch(m)
    BY <1>0, <1>1, <1>3, <1>4, <2>3, LimitsAssumption DEF Here, Sends
  <2>4. CASE ~(q = r /\ s \in {t, Watch(m)})
    BY <1>0, <1>1, <1>3, <2>1, <2>4 DEF Here, Sends, Passing, bridgeVars
  <2> QED
    BY <2>2, <2>3, <2>4
<1>6. ASSUME NEW q \in Relayers, NEW n \in Msgs PROVE Watcher(q, n)'
  <2>1. Watcher(q, n) /\ Watch(n) \in Threads /\ Resolve(n) \in Threads
    BY <1>0, ThreadFacts DEF Parts
  <2>2. CASE q = r /\ n = m
    BY <1>0, <1>1, <1>3, <1>4, <2>2, LimitsAssumption DEF Watcher
  <2>3. CASE ~(q = r /\ n = m)
    <3>1. ~(q = r /\ Watch(n) \in {t, Watch(m)}) /\ ~(q = r /\ Resolve(n) \in {t, Watch(m)})
      BY <2>3, ThreadFacts
    <3> QED
      BY <1>1, <1>3, <2>1, <3>1 DEF Watcher
  <2> QED
    BY <2>2, <2>3
<1>7. ASSUME NEW q \in Relayers PROVE Pooled(q)'
  BY <1>0, <1>1 DEF Parts, Pooled, Passing, bridgeVars
<1>8. Proposed'
  BY <1>0, <1>1 DEF Parts, Proposed, Passing, bridgeVars
<1> QED
  BY <1>5, <1>6, <1>7, <1>8 DEF Parts

LEMMA ExitsParts ==
    ASSUME IInv, TypeOK', NEW r \in Relayers, Exits(r)
    PROVE  Parts'
<1>0. TypeOK /\ Parts
  BY ToParts DEF IInv
<1>1. /\ ~up'[r] /\ \A t \in Threads : pc'[r][t] = "idle"
      /\ \A q \in Relayers : q # r => pc'[q] = pc[q] /\ lock'[q] = lock[q] /\ up'[q] = up[q]
      /\ UNCHANGED <<bridgeVars, job, tries, opts, watched, seen>>
  BY <1>0 DEF Exits, TypeOK
<1>2. ASSUME NEW q \in Relayers, NEW s \in Threads PROVE Here(q, s)'
  BY <1>0, <1>1 DEF Parts, Here, Sends, Passing, bridgeVars
<1>3. ASSUME NEW q \in Relayers, NEW m \in Msgs PROVE Watcher(q, m)'
  BY <1>0, <1>1, ThreadFacts DEF Parts, Watcher
<1>4. ASSUME NEW q \in Relayers PROVE Pooled(q)'
  BY <1>0, <1>1 DEF Parts, Pooled, Passing, bridgeVars
<1>5. Proposed'
  BY <1>0, <1>1 DEF Parts, Proposed, Passing, bridgeVars
<1> QED
  BY <1>2, <1>3, <1>4, <1>5 DEF Parts

LEMMA RestartParts ==
    ASSUME IInv, TypeOK', NEW r \in Relayers, Restart(r)
    PROVE  Parts'
<1>0. TypeOK /\ Parts
  BY ToParts DEF IInv
<1>1. \A t \in Threads : pc'[r][t] = "idle" /\ tries'[r][t] = 0
  BY <1>0 DEF Restart, TypeOK
<1>2. \A m \in Msgs : watched'[r][m] = 0
  BY <1>0 DEF Restart, TypeOK
<1>3. /\ \A q \in Relayers : q # r => /\ pc'[q] = pc[q] /\ lock'[q] = lock[q]
                                      /\ up'[q] = up[q] /\ job'[q] = job[q]
                                      /\ tries'[q] = tries[q] /\ watched'[q] = watched[q]
      /\ UNCHANGED <<bridgeVars, opts, seen>>
  BY <1>0 DEF Restart, TypeOK
<1>4. ASSUME NEW q \in Relayers, NEW s \in Threads PROVE Here(q, s)'
  BY <1>0, <1>1, <1>3 DEF Parts, Here, Sends, Passing, bridgeVars
<1>5. ASSUME NEW q \in Relayers, NEW m \in Msgs PROVE Watcher(q, m)'
  BY <1>0, <1>1, <1>2, <1>3, ThreadFacts DEF Parts, Watcher
<1>6. ASSUME NEW q \in Relayers PROVE Pooled(q)'
  BY <1>0, <1>3 DEF Parts, Pooled, Passing, bridgeVars
<1>7. Proposed'
  BY <1>0, <1>3 DEF Parts, Proposed, Passing, bridgeVars
<1> QED
  BY <1>4, <1>5, <1>6, <1>7 DEF Parts

LEMMA UpdateFailedParts ==
    ASSUME IInv, TypeOK', NEW r \in Relayers, NEW t \in Threads, UpdateFailed(r, t),
           \A q \in Relayers : q # r => lock'[q] = lock[q]
    PROVE  Parts'
<1>0. /\ TypeOK /\ Here(r, t) /\ Watcher(r, MsgOf(t)) /\ MsgOf(t) \in Msgs
      /\ {"update", "lock", "done"} \subseteq Control /\ "execute" \in Job
  BY ToParts, ThreadFacts DEF IInv, Parts, Control, Job
<1>1. UNCHANGED <<bridgeVars, opts, watched, up, seen>>
  BY DEF UpdateFailed, noWatch, noLife
<1>2. CASE Retry(r, t, "update", "lock") /\ job[r][t] = "vote"
  <2>1. /\ pc[r][t] = "update" /\ pc'[r][t] = "lock"
        /\ job' = job /\ tries'[r][t] = tries[r][t] + 1
    BY <1>0, <1>2, RetryHere
  <2>2. \A q \in Relayers : \A s \in Threads : ~(q = r /\ s = t) =>
           pc'[q][s] = pc[q][s] /\ tries'[q][s] = tries[q][s]
    BY <1>0, <1>2, RetryElse
  <2>3. Here(r, t)'
    <3>1. tries[r][t] \in Nat
      BY <1>0, LimitsAssumption DEF TypeOK
    <3> QED
      BY <1>0, <1>1, <1>2, <2>1, <3>1, LimitsAssumption DEF Here, Sends
  <2>4. Watcher(r, MsgOf(t))'
    BY <1>0, <1>1, <2>1, <2>2, ThreadFacts DEF Watcher
  <2>5. lock[r] = t
    BY <1>0, <2>1 DEF Here
  <2> QED
    BY <1>1, <2>1, <2>2, <2>3, <2>4, <2>5, GoroutineStep DEF bridgeVars
<1>3. CASE Enter(r, t, "update", "done", "execute")
  <2>1. /\ pc[r][t] = "update" /\ pc'[r][t] = "done"
        /\ job'[r][t] = "execute" /\ tries'[r][t] = 0
    BY <1>0, <1>3, EnterHere
  <2>2. \A q \in Relayers : \A s \in Threads : ~(q = r /\ s = t) =>
           pc'[q][s] = pc[q][s] /\ job'[q][s] = job[q][s] /\ tries'[q][s] = tries[q][s]
    BY <1>0, <1>3, EnterElse
  <2>3. Here(r, t)'
    BY <1>0, <1>1, <2>1 DEF Here, Sends
  <2>4. Watcher(r, MsgOf(t))'
    BY <1>0, <1>1, <2>1, <2>2, ThreadFacts DEF Watcher
  <2>5. lock[r] = t
    BY <1>0, <2>1 DEF Here
  <2> QED
    BY <1>1, <2>1, <2>2, <2>3, <2>4, <2>5, GoroutineStep DEF bridgeVars
<1> QED
  BY <1>2, <1>3 DEF UpdateFailed

LEMMA SendParts ==
    ASSUME IInv, TypeOK', NEW r \in Relayers, NEW t \in Threads, Send(r, t)
    PROVE  Parts'
<1> DEFINE tx == [job |-> job[r][t], msg |-> MsgOf(t)]
<1>0. /\ TypeOK /\ Here(r, t) /\ Watcher(r, MsgOf(t)) /\ Pooled(r) /\ MsgOf(t) \in Msgs
      /\ {"send", "recheck", "done"} \subseteq Control
  BY ToParts, ThreadFacts DEF IInv, Parts, Control
<1>1. /\ UNCHANGED <<status, votes, events, job, tries, opts, watched, up, seen>>
      /\ lock' = [lock EXCEPT ![r] = Free]
  BY DEF Send, noWatch, noLife
<1>2. PICK to \in {"done", "recheck"} : Goto(r, t, "send", to)
  BY DEF Send
<1>3. /\ pc[r][t] = "send" /\ pc'[r][t] = to
      /\ \A q \in Relayers : \A s \in Threads :
            ~(q = r /\ s = t) => pc'[q][s] = pc[q][s]
  BY <1>0, <1>2, GotoFacts
<1>4. Here(r, t)'
  BY <1>0, <1>1, <1>3 DEF Here, Sends, Passing
<1>5. Watcher(r, MsgOf(t))'
  BY <1>0, <1>1, <1>3, ThreadFacts DEF Watcher
<1>6. \A q \in Relayers : q # r => lock'[q] = lock[q] /\ sent'[q] = sent[q] /\ pool'[q] = pool[q]
  BY <1>0, <1>1 DEF Send, Accepted, TypeOK, BridgeTypeOK
<1>7. pool'[r] = pool[r] \/ Pooled(r)'
  <2>1. pool[r] \in Seq(Tx)
    BY <1>0 DEF TypeOK, BridgeTypeOK
  <2>2. pool'[r] = pool[r] \/ pool'[r] = Append(pool[r], tx)
    BY <1>0 DEF Send, Accepted, TypeOK, BridgeTypeOK
  <2>3. tx.msg \in seen[r] /\ (tx.job = "execute" /\ Unique(tx.msg) => Passing(tx.msg))
    BY <1>0, <1>3 DEF Here, Sends
  <2> HIDE DEF tx
  <2>4. CASE pool'[r] = Append(pool[r], tx)
    <3>1. ASSUME NEW i \in 1..Len(pool'[r])
          PROVE  pool'[r][i] = tx \/ (i \in 1..Len(pool[r]) /\ pool'[r][i] = pool[r][i])
      BY <2>1, <2>4
    <3> QED
      BY <1>0, <1>1, <2>3, <3>1 DEF Pooled, Passing
  <2> QED
    BY <2>2, <2>4
<1>8. lock[r] = t
  BY <1>0, <1>3 DEF Here
<1> QED
  BY <1>1, <1>3, <1>4, <1>5, <1>6, <1>7, <1>8, GoroutineStep

LEMMA SendingParts ==
    ASSUME IInv, TypeOK', NEW r \in Relayers, NEW t \in Threads, LockOpts(r, t) \/ Sending(r, t)
    PROVE  Parts'
<1>0. /\ TypeOK /\ Here(r, t) /\ Watcher(r, MsgOf(t)) /\ MsgOf(t) \in Msgs
      /\ {"update", "send", "lock", "done", "recheck"} \subseteq Control
      /\ job[r][t] \in Job /\ tries[r][t] \in Nat
  BY ToParts, ThreadFacts, LimitsAssumption DEF IInv, Parts, Control, TypeOK
<1>1. CASE LockOpts(r, t)
  <2>1. /\ tries[r][t] < TxRetryLimit /\ lock[r] = Free /\ Goto(r, t, "lock", "update")
        /\ lock'[r] = t /\ \A q \in Relayers : q # r => lock'[q] = lock[q]
        /\ UNCHANGED <<bridgeVars, job, tries, opts, watched, up, seen>>
    BY <1>0, <1>1 DEF LockOpts, TypeOK, noWatch, noLife
  <2>2. /\ pc[r][t] = "lock" /\ pc'[r][t] = "update"
        /\ \A q \in Relayers : \A s \in Threads :
              ~(q = r /\ s = t) => pc'[q][s] = pc[q][s]
    BY <1>0, <2>1, GotoFacts
  <2>3. Here(r, t)'
    BY <1>0, <2>1, <2>2 DEF Here, Sends, Passing, bridgeVars
  <2>4. Watcher(r, MsgOf(t))'
    BY <1>0, <2>1, <2>2, ThreadFacts DEF Watcher
  <2> QED
    BY <2>1, <2>2, <2>3, <2>4, GoroutineStep DEF bridgeVars
<1>2. CASE UpdateOpts(r, t)
  <2>1. /\ Goto(r, t, "update", "send")
        /\ opts'[r] = sent[r] /\ \A q \in Relayers : q # r => opts'[q] = opts[q]
        /\ UNCHANGED <<bridgeVars, job, tries, lock, watched, up, seen>>
    BY <1>0, <1>2 DEF UpdateOpts, TypeOK, noWatch, noLife
  <2>2. /\ pc[r][t] = "update" /\ pc'[r][t] = "send"
        /\ \A q \in Relayers : \A s \in Threads :
              ~(q = r /\ s = t) => pc'[q][s] = pc[q][s]
    BY <1>0, <2>1, GotoFacts
  <2>3. Here(r, t)'
    BY <1>0, <2>1, <2>2 DEF Here, Sends, Passing, bridgeVars
  <2>4. Watcher(r, MsgOf(t))'
    BY <1>0, <2>1, <2>2, ThreadFacts DEF Watcher
  <2>5. lock[r] = t
    BY <1>0, <2>2 DEF Here
  <2> QED
    BY <2>1, <2>2, <2>3, <2>4, <2>5, GoroutineStep DEF bridgeVars
<1>3. CASE GasFails(r, t)
  BY <1>3, UpdateFailedParts DEF GasFails
<1>4. CASE NonceFails(r, t)
  <2>1. \A q \in Relayers : q # r => lock'[q] = lock[q]
    BY <1>0, <1>4 DEF NonceFails, TypeOK
  <2> QED
    BY <1>4, <2>1, UpdateFailedParts DEF NonceFails
<1>5. CASE Send(r, t)
  BY <1>5, SendParts
<1>6. CASE Recheck(r, t)
  <2>1. UNCHANGED <<bridgeVars, lock, opts, watched, up, seen>>
    BY <1>6 DEF Recheck, noLock, noWatch, noLife
  <2>2. CASE Enter(r, t, "recheck", "done", job[r][t])
    <3>1. /\ pc[r][t] = "recheck" /\ pc'[r][t] = "done"
          /\ job'[r][t] = job[r][t] /\ tries'[r][t] = 0
      BY <1>0, <2>2, EnterHere
    <3>2. \A q \in Relayers : \A s \in Threads : ~(q = r /\ s = t) =>
             pc'[q][s] = pc[q][s] /\ job'[q][s] = job[q][s] /\ tries'[q][s] = tries[q][s]
      BY <1>0, <2>2, EnterElse
    <3>3. Here(r, t)'
      BY <1>0, <2>1, <3>1 DEF Here, Sends
    <3>4. Watcher(r, MsgOf(t))'
      BY <1>0, <2>1, <3>1, <3>2, ThreadFacts DEF Watcher
    <3> QED
      BY <2>1, <3>1, <3>2, <3>3, <3>4, GoroutineStep DEF bridgeVars
  <2>3. CASE Retry(r, t, "recheck", "lock")
    <3>1. /\ pc[r][t] = "recheck" /\ pc'[r][t] = "lock"
          /\ job' = job /\ tries'[r][t] = tries[r][t] + 1
      BY <1>0, <2>3, RetryHere
    <3>2. \A q \in Relayers : \A s \in Threads : ~(q = r /\ s = t) =>
             pc'[q][s] = pc[q][s] /\ tries'[q][s] = tries[q][s]
      BY <1>0, <2>3, RetryElse
    <3>3. Here(r, t)'
      BY <1>0, <2>1, <3>1, LimitsAssumption DEF Here, Sends, Passing, bridgeVars
    <3>4. Watcher(r, MsgOf(t))'
      BY <1>0, <2>1, <3>1, <3>2, ThreadFacts DEF Watcher
    <3> QED
      BY <2>1, <3>1, <3>2, <3>3, <3>4, GoroutineStep DEF bridgeVars
  <2> QED
    BY <1>6, <2>2, <2>3 DEF Recheck
<1>7. CASE GiveUp(r, t)
  BY <1>7, ExitsParts DEF GiveUp
<1> QED
  BY <1>1, <1>2, <1>3, <1>4, <1>5, <1>6, <1>7 DEF Sending

LEMMA WatchingParts ==
    ASSUME IInv, TypeOK', NEW r \in Relayers, NEW m \in Msgs, Watching(r, m)
    PROVE  Parts'
<1> DEFINE t == Watch(m)
<1>0. /\ TypeOK /\ Here(r, t) /\ Watcher(r, m) /\ t \in Threads /\ MsgOf(t) = m
      /\ Resolve(m) \in Threads /\ Resolve(m) # t
      /\ {"wait", "filter", "lock", "done"} \subseteq Control
      /\ "execute" \in Job /\ tries[r][t] \in Nat /\ watched[r][m] \in Nat
  BY ToParts, ThreadFacts, LimitsAssumption DEF IInv, Parts, Control, TypeOK, Job
<1>1. CASE WaitForBlock(r, m)
  <2>1. /\ Enter(r, t, "wait", "filter", "execute")
        /\ UNCHANGED <<bridgeVars, lock, opts, watched, up, seen>>
    BY <1>1 DEF WaitForBlock, noLock, noWatch, noLife
  <2>2. /\ pc[r][t] = "wait" /\ pc'[r][t] = "filter"
        /\ job'[r][t] = "execute" /\ tries'[r][t] = 0
    BY <1>0, <2>1, EnterHere
  <2>3. \A q \in Relayers : \A s \in Threads : ~(q = r /\ s = t) =>
           pc'[q][s] = pc[q][s] /\ job'[q][s] = job[q][s] /\ tries'[q][s] = tries[q][s]
    BY <1>0, <2>1, EnterElse
  <2>4. Here(r, t)'
    BY <1>0, <2>1, <2>2 DEF Here, Sends
  <2>5. Watcher(r, m)'
    BY <1>0, <2>1, <2>2, <2>3 DEF Watcher
  <2> QED
    BY <1>0, <2>1, <2>3, <2>4, <2>5, GoroutineStep DEF bridgeVars
<1>2. CASE WaitFails(r, m)
  <2>1. CASE tries[r][t] + 1 = BlockRetryLimit
    BY <1>2, <2>1, ExitsParts DEF WaitFails
  <2>2. CASE tries[r][t] + 1 # BlockRetryLimit
    <3>1. /\ Retry(r, t, "wait", "wait")
          /\ UNCHANGED <<bridgeVars, lock, opts, watched, up, seen>>
      BY <1>2, <2>2 DEF WaitFails, noLock, noWatch, noLife
    <3>2. /\ pc[r][t] = "wait" /\ pc'[r][t] = "wait"
          /\ job' = job /\ tries'[r][t] = tries[r][t] + 1
      BY <1>0, <3>1, RetryHere
    <3>3. \A q \in Relayers : \A s \in Threads : ~(q = r /\ s = t) =>
             pc'[q][s] = pc[q][s] /\ tries'[q][s] = tries[q][s]
      BY <1>0, <3>1, RetryElse
    <3>4. Here(r, t)'
      BY <1>0, <2>2, <3>1, <3>2, LimitsAssumption DEF Here, Sends
    <3>5. Watcher(r, m)'
      BY <1>0, <3>1, <3>2, <3>3 DEF Watcher
    <3> QED
      BY <1>0, <3>1, <3>2, <3>3, <3>4, <3>5, GoroutineStep DEF bridgeVars
  <2> QED
    BY <2>1, <2>2
<1>3. CASE FilterLogs(r, m)
  <2>1. /\ UNCHANGED <<bridgeVars, job, tries, lock, opts, up, seen>>
        /\ \A q \in Relayers : \A n \in Msgs :
              ~(q = r /\ n = m) => watched'[q][n] = watched[q][n]
    BY <1>0, <1>3 DEF FilterLogs, TypeOK, noLock, noLife
  <2>2. PICK to \in {"lock", "done", "wait"} :
           /\ Goto(r, t, "filter", to)
           /\ \/ to = "lock" /\ FoundFinalized(r, m) /\ watched' = watched
              \/ to = "done"
              \/ to = "wait" /\ watched'[r][m] = watched[r][m] + 1
                             /\ watched[r][m] + 1 # WatchLimit
    BY <1>0, <1>3 DEF FilterLogs, TypeOK
  <2>3. /\ pc[r][t] = "filter" /\ pc'[r][t] = to
        /\ \A q \in Relayers : \A s \in Threads :
              ~(q = r /\ s = t) => pc'[q][s] = pc[q][s]
    BY <1>0, <2>2, GotoFacts
  <2>4. to = "lock" /\ Unique(m) => Passing(m)'
    <3>1. SUFFICES ASSUME FoundFinalized(r, m), Unique(m) PROVE Passing(m)'
      BY <2>2
    <3>2. PICK e \in events : NonceOf[e.msg] = NonceOf[m] /\ e.status = "Passed"
      BY <3>1 DEF FoundFinalized
    <3>3. e.msg = m
      BY <1>0, <3>1, <3>2 DEF TypeOK, BridgeTypeOK, Unique
    <3>4. Passing(m)
      BY <3>2, <3>3, ToParts DEF Parts, Proposed
    <3> QED
      BY <2>1, <3>4 DEF Passing, bridgeVars
  <2>5. Here(r, t)'
    BY <1>0, <2>1, <2>3, <2>4, LimitsAssumption DEF Here, Sends
  <2>6. Watcher(r, m)'
    BY <1>0, <2>1, <2>2, <2>3, LimitsAssumption DEF Watcher
  <2>7. \A q \in Relayers : \A n \in Msgs : ~(q = r /\ t = Watch(n)) => watched'[q][n] = watched[q][n]
    BY <2>1
  <2> QED
    BY <1>0, <2>1, <2>3, <2>5, <2>6, <2>7, GoroutineStep DEF bridgeVars
<1>4. CASE FilterFails(r, m)
  <2>1. /\ Goto(r, t, "filter", "done")
        /\ UNCHANGED <<bridgeVars, job, tries, lock, opts, watched, up, seen>>
    BY <1>4 DEF FilterFails, noLock, noWatch, noLife
  <2>2. /\ pc[r][t] = "filter" /\ pc'[r][t] = "done"
        /\ \A q \in Relayers : \A s \in Threads :
              ~(q = r /\ s = t) => pc'[q][s] = pc[q][s]
    BY <1>0, <2>1, GotoFacts
  <2>3. Here(r, t)' /\ Watcher(r, m)'
    BY <1>0, <2>1, <2>2 DEF Here, Watcher, Sends
  <2> QED
    BY <1>0, <2>1, <2>2, <2>3, GoroutineStep DEF bridgeVars
<1> QED
  BY <1>1, <1>2, <1>3, <1>4 DEF Watching

-----------------------------------------------------------------------------
(* The steps of the chain. *)

LEMMA MovesStatus ==
    ASSUME BridgeTypeOK, NEW m \in Msgs, NEW to, Moves(m, to)
    PROVE  /\ status'[m] = to /\ \A n \in Msgs : n # m => status'[n] = status[n]
           /\ \A e \in events' : e \in events \/ (e.msg = m /\ e.status = to)
  BY DEF Moves, BridgeTypeOK

(***************************************************************************)
(* Counting a vote: the relayer was routed the message, and a proposal     *)
(* passes with the vote that makes Threshold of them.                      *)
(***************************************************************************)
LEMMA CountsVoteStep ==
    ASSUME TypeOK, TypeOK', Proposed, NEW r \in Relayers, NEW m \in Msgs, m \in seen[r],
           CountsVote(r, m), UNCHANGED seen
    PROVE  Proposed' /\ \A n \in Msgs : Passing(n) => Passing(n)'
<1>0. BridgeTypeOK
  BY DEF TypeOK
<1>1. /\ votes'[m] = votes[m] \cup {r}
      /\ \A n \in Msgs : n # m => votes'[n] = votes[n]
      /\ status[m] \in {"Inactive", "Active"}
  BY <1>0 DEF CountsVote, BridgeTypeOK
<1>2. \A n \in Msgs : \A q \in votes'[n] : n \in seen'[q]
  BY <1>0, <1>1 DEF Proposed
<1>3. PICK to \in {"Passed", "Active", "same"} :
         /\ to = "Passed" => Moves(m, to) /\ Cardinality(votes'[m]) >= Threshold
         /\ to = "Active" => Moves(m, to)
         /\ to = "same" => UNCHANGED <<status, events>>
  BY <1>1 DEF CountsVote
<1>4. CASE to = "same"
  <2>1. \A n \in Msgs : Passing(n) => Passing(n)'
    BY <1>1, <1>3, <1>4 DEF Passing
  <2> QED
    BY <1>0, <1>2, <1>3, <1>4, <2>1 DEF Proposed, BridgeTypeOK
<1>5. CASE to # "same"
  <2>1. /\ status'[m] = to /\ \A n \in Msgs : n # m => status'[n] = status[n]
        /\ \A e \in events' : e \in events \/ (e.msg = m /\ e.status = to)
    BY <1>0, <1>3, <1>5, MovesStatus
  <2>2. \A n \in Msgs : Passing(n) => n # m
    BY <1>1 DEF Passing
  <2>3. \A n \in Msgs : Passing(n) => Passing(n)'
    BY <1>1, <2>1, <2>2 DEF Passing
  <2>4. to = "Passed" => Passing(m)'
    BY <1>3, <2>1 DEF Passing
  <2>5. \A n \in Msgs : status'[n] \in {"Passed", "Transferred"} => Passing(n)'
    BY <1>3, <1>5, <2>1, <2>3, <2>4 DEF Proposed
  <2>6. \A e \in events' : e.status = "Passed" => Passing(e.msg)'
    BY <1>0, <2>1, <2>3, <2>4 DEF Proposed, BridgeTypeOK
  <2> QED
    BY <1>2, <2>3, <2>5, <2>6 DEF Proposed
<1> QED
  BY <1>4, <1>5

(* A proposal that leaves the passed state was passed before. *)
LEMMA LeavesStep ==
    ASSUME TypeOK, Proposed, NEW m \in Msgs, NEW to \in {"Transferred", "Cancelled"},
           Moves(m, to), to = "Transferred" => status[m] = "Passed",
           UNCHANGED <<votes, seen>>
    PROVE  Proposed' /\ \A n \in Msgs : Passing(n) => Passing(n)'
<1>0. BridgeTypeOK
  BY DEF TypeOK
<1>1. /\ status'[m] = to /\ \A n \in Msgs : n # m => status'[n] = status[n]
      /\ \A e \in events' : e \in events \/ (e.msg = m /\ e.status = to)
  BY <1>0, MovesStatus
<1>2. \A n \in Msgs : Passing(n) => Passing(n)'
  BY <1>1 DEF Passing
<1>3. \A n \in Msgs : \A q \in votes'[n] : n \in seen'[q]
  BY DEF Proposed
<1>4. \A n \in Msgs : status'[n] \in {"Passed", "Transferred"} => Passing(n)'
  BY <1>1, <1>2 DEF Proposed
<1>5. \A e \in events' : e.status = "Passed" => Passing(e.msg)'
  BY <1>0, <1>1, <1>2 DEF Proposed, BridgeTypeOK
<1> QED
  BY <1>2, <1>3, <1>4, <1>5 DEF Proposed

(* If proposals only move on, what goroutines rely on stays so. *)
LEMMA ChainKeeps ==
    ASSUME IInv, UNCHANGED <<writerVars, sent>>, Proposed',
           \A n \in Msgs : Passing(n) => Passing(n)',
           \A q \in Relayers : pool'[q] = pool[q] \/ Pooled(q)'
    PROVE  Parts'
<1>0. Parts /\ TypeOK
  BY ToParts DEF IInv
<1>1. UNCHANGED <<pc, job, tries, lock, opts, watched, up, seen, sent>>
  BY DEF writerVars, control
<1>2. ASSUME NEW q \in Relayers, NEW s \in Threads PROVE Here(q, s)'
  <2>1. Here(q, s) /\ MsgOf(s) \in Msgs
    BY <1>0, ThreadFacts DEF Parts
  <2> QED
    BY <1>1, <2>1 DEF Here, Sends
<1>3. ASSUME NEW q \in Relayers, NEW m \in Msgs PROVE Watcher(q, m)'
  BY <1>0, <1>1 DEF Parts, Watcher
<1>4. ASSUME NEW q \in Relayers PROVE Pooled(q)'
  <2>1. pool[q] \in Seq(Tx) /\ Pooled(q)
    BY <1>0 DEF Parts, TypeOK, BridgeTypeOK
  <2>2. \A i \in 1..Len(pool[q]) : pool[q][i] \in Tx
    BY <2>1
  <2>3. \A i \in 1..Len(pool[q]) : pool[q][i].msg \in Msgs
    BY <2>2 DEF Tx
  <2>4. CASE pool'[q] = pool[q]
    BY <1>1, <2>1, <2>3, <2>4 DEF Pooled, Passing
  <2> QED
    BY <2>4
<1> QED
  BY <1>2, <1>3, <1>4 DEF Parts

LEMMA MineStep ==
    ASSUME IInv, TypeOK', NEW r \in Relayers, BlockWithTx(r)
    PROVE  Parts'
<1> DEFINE tx == Head(pool[r])
<1>0. Parts /\ TypeOK /\ BridgeTypeOK /\ UNCHANGED <<writerVars, seen>> /\ Mine(r)
  BY ToParts DEF IInv, TypeOK, BlockWithTx, writerVars
<1>1. /\ pool[r] # << >> /\ sent' = sent /\ pool'[r] = Tail(pool[r])
      /\ \A q \in Relayers : q # r => pool'[q] = pool[q]
  BY <1>0 DEF Mine, BridgeTypeOK
<1>2. /\ tx = pool[r][1] /\ 1 \in 1..Len(pool[r]) /\ tx \in Tx /\ Tail(pool[r]) \in Seq(Tx)
      /\ \A i \in 1..Len(Tail(pool[r])) :
            i + 1 \in 1..Len(pool[r]) /\ Tail(pool[r])[i] = pool[r][i + 1]
  BY <1>0, <1>1, PoolFacts
<1>3. tx.msg \in seen[r] /\ tx.msg \in Msgs
  BY <1>0, <1>2 DEF Parts, Pooled, Tx
<1>4. Proposed' /\ \A n \in Msgs : Passing(n) => Passing(n)'
  <2> HIDE DEF tx
  <2>1. CASE CountsVote(r, tx.msg)
    BY <1>0, <1>3, <2>1, CountsVoteStep DEF Parts
  <2>2. CASE Transfers(tx.msg)
    BY <1>0, <1>3, <2>2, LeavesStep DEF Parts, Transfers
  <2>3. CASE Reverts(r, tx)
    BY <1>0, <2>3 DEF Parts, Reverts, Proposed, Passing
  <2> QED
    BY <1>0, <2>1, <2>2, <2>3 DEF Mine, tx
<1>5. Pooled(r)'
  <2> DEFINE rest == Tail(pool[r])
  <2>1. ASSUME NEW i \in 1..Len(rest)
        PROVE  /\ rest[i].msg \in seen[r]
               /\ rest[i].job = "execute" /\ Unique(rest[i].msg)
                        => \A n \in Msgs : n = rest[i].msg => Passing(n)'
    <3>1. rest[i] = pool[r][i + 1] /\ i + 1 \in 1..Len(pool[r]) /\ rest[i] \in Tx
      BY <1>2
    <3>2. rest[i].msg \in seen[r] /\ (rest[i].job = "execute" /\ Unique(rest[i].msg) => Passing(rest[i].msg))
      BY <1>0, <3>1 DEF Parts, Pooled
    <3> QED
      BY <1>4, <3>1, <3>2 DEF Tx
  <2>2. pool'[r] = rest /\ seen' = seen /\ \A i \in 1..Len(rest) : rest[i].msg \in Msgs
    <3>1. \A i \in 1..Len(rest) : rest[i] \in Tx
      BY <1>2
    <3> QED
      BY <1>0, <1>1, <3>1 DEF Tx
  <2> HIDE DEF rest
  <2> QED
    BY <2>1, <2>2 DEF Pooled, Passing
<1> QED
  BY <1>0, <1>1, <1>4, <1>5, ChainKeeps

LEMMA ChainParts ==
    ASSUME IInv, TypeOK', \/ BlockWithout \/ BlockWithCancel
                          \/ \E r \in Relayers : BlockWithTx(r)
    PROVE  Parts'
<1>0. Parts /\ TypeOK
  BY ToParts DEF IInv
<1>1. CASE BlockWithout
  <2>1. UNCHANGED <<writerVars, status, votes, events, pool, sent, seen>>
    BY <1>1 DEF BlockWithout, EmptyBlock, writerVars
  <2>2. Proposed' /\ \A n \in Msgs : Passing(n) => Passing(n)'
    BY <1>0, <2>1 DEF Parts, Proposed, Passing
  <2> QED
    BY <2>1, <2>2, ChainKeeps
<1>2. CASE BlockWithCancel
  <2>1. PICK m \in Msgs : Cancel(m)
    BY <1>2 DEF BlockWithCancel
  <2>2. UNCHANGED <<writerVars, votes, pool, sent, seen>> /\ Moves(m, "Cancelled")
    BY <1>2, <2>1 DEF BlockWithCancel, Cancel, writerVars
  <2>3. Proposed' /\ \A n \in Msgs : Passing(n) => Passing(n)'
    BY <1>0, <2>2, LeavesStep DEF Parts
  <2> QED
    BY <2>2, <2>3, ChainKeeps
<1> QED
  BY <1>1, <1>2, MineStep

-----------------------------------------------------------------------------
(* Theorems. *)

LEMMA StutterParts == IInv /\ UNCHANGED vars => Parts'
<1> SUFFICES ASSUME IInv, UNCHANGED vars PROVE Parts'
  OBVIOUS
<1>1. Parts
  BY ToParts
<1>2. UNCHANGED <<status, votes, events, pool, sent, pc, job, tries, lock, opts, watched, up, seen>>
  BY DEF vars, writerVars, bridgeVars, control
<1>3. \A r \in Relayers : \A t \in Threads : Here(r, t)'
  BY <1>1, <1>2 DEF Parts, Here, Sends, Passing
<1>4. \A r \in Relayers : \A m \in Msgs : Watcher(r, m)'
  BY <1>1, <1>2 DEF Parts, Watcher
<1>5. (\A r \in Relayers : Pooled(r)') /\ Proposed'
  BY <1>1, <1>2 DEF Parts, Pooled, Proposed, Passing
<1> QED
  BY <1>3, <1>4, <1>5 DEF Parts

LEMMA StepInv == IInv /\ [Next]_vars => IInv'
<1> SUFFICES ASSUME IInv, [Next]_vars PROVE IInv'
  OBVIOUS
<1>0. TypeOK'
  BY StepType
<1>1. Parts'
  <2>1. ASSUME NEW r \in Relayers, Restart(r) PROVE Parts'
    BY <1>0, <2>1, RestartParts
  <2>2. ASSUME NEW r \in Relayers, Running(r) PROVE Parts'
    BY <1>0, <2>2, ResolvingParts, LatestBlockParts, WatchingParts, SendingParts DEF Running
  <2>3. CASE BlockWithout \/ BlockWithCancel \/ \E r \in Relayers : BlockWithTx(r)
    BY <1>0, <2>3, ChainParts
  <2>4. CASE UNCHANGED vars
    BY <2>4, StutterParts
  <2> QED
    BY <2>1, <2>2, <2>3, <2>4 DEF Next
<1> QED
  BY <1>0, <1>1, FromParts, PTL

(* Every variable keeps its type, for any relayers, messages, limits and failures. *)
THEOREM TypeCorrect == Spec => []TypeOK
<1>1. Init => IInv
  BY InitType, InitParts, FromParts
<1>2. IInv => TypeOK
  BY DEF IInv
<1> QED
  BY <1>1, <1>2, StepInv, PTL DEF Spec

(* The inductive invariant holds, whatever fails and whoever restarts or is faster. *)
THEOREM Invariance == Spec => []IInv
<1>1. Init => IInv
  BY InitType, InitParts, FromParts
<1> QED
  BY <1>1, StepInv, PTL DEF Spec

(***************************************************************************)
(* Whoever sends holds optsLock and has the account's next nonce, whatever *)
(* calls fail and whenever the relayer restarts.                           *)
(***************************************************************************)
THEOREM NoncesFit == Spec => []NonceFits
<1>1. IInv => NonceFits
  BY DEF IInv
<1> QED
  BY <1>1, Invariance, PTL

LEMMA InvExecutesAfterPass == IInv => ExecutesAfterPass
<1> SUFFICES ASSUME IInv, NEW r \in Relayers, NEW i \in 1..Len(pool[r]),
                    pool[r][i].job = "execute", Unique(pool[r][i].msg)
             PROVE  LET tx == pool[r][i] IN
                       /\ status[tx.msg] \notin {"Inactive", "Active"}
                       /\ Cardinality({q \in Relayers : tx.msg \in seen[q]}) >= Threshold
  BY DEF ExecutesAfterPass
<1> DEFINE m == pool[r][i].msg
           routed == {q \in Relayers : m \in seen[q]}
<1>1. pool[r][i] \in Tx
  BY DEF IInv, TypeOK, BridgeTypeOK
<1>2. m \in Msgs /\ votes[m] \in SUBSET Relayers
  BY <1>1 DEF Tx, IInv, TypeOK, BridgeTypeOK
<1>3. Passing(m)
  BY ToParts DEF Parts, Pooled
<1>4. votes[m] \subseteq routed
  BY <1>2, ToParts DEF Parts, Proposed
<1>5. IsFiniteSet(routed)
  BY EvmAssumption, FS_Subset
<1>6. /\ IsFiniteSet(votes[m]) /\ Cardinality(votes[m]) <= Cardinality(routed)
      /\ Cardinality(votes[m]) \in Nat /\ Cardinality(routed) \in Nat
  BY <1>4, <1>5, FS_Subset, FS_CardinalityType
<1> HIDE DEF routed
<1>7. Cardinality(routed) >= Threshold
  BY <1>3, <1>6, EvmAssumption DEF Passing
<1> QED
  BY <1>3, <1>7 DEF Passing, routed

(***************************************************************************)
(* An execution is sent only for a proposal that passed, with the votes of *)
(* Threshold relayers that were routed the message, if its nonce is its    *)
(* own.                                                                    *)
(***************************************************************************)
THEOREM ExecutedAfterPass == Spec => []ExecutesAfterPass
  BY Invariance, InvExecutesAfterPass, PTL

-----------------------------------------------------------------------------
(***************************************************************************)
(* The lock is given back, as long as the gas price query does not fail.   *)
(***************************************************************************)
NoneAbandons == \A r \in Relayers : Abandoned(r)' => Abandoned(r)

(* A step of one goroutine, by what becomes of the lock. *)
LEMMA HeldStep ==
    ASSUME lock \in [Relayers -> Threads \cup {Free}],
           NEW r \in Relayers, NEW t \in Threads,
           \A q \in Relayers : q # r => lock'[q] = lock[q],
           \A q \in Relayers : \A s \in Threads :
               ~(q = r /\ s = t) => pc'[q][s] = pc[q][s],
           \/ lock'[r] = Free
           \/ lock'[r] = t /\ pc'[r][t] \in {"update", "send"}
           \/ lock'[r] = lock[r] /\ pc[r][t] \notin {"update", "send"}
    PROVE  NoneAbandons
<1>1. ASSUME NEW q \in Relayers, ~Abandoned(q) PROVE ~Abandoned(q)'
  <2>1. lock[q] # Free => lock[q] \in Threads
    OBVIOUS
  <2> QED
    BY <1>1, <2>1 DEF Abandoned
<1> QED
  BY <1>1 DEF NoneAbandons

LEMMA HeldResolving ==
    ASSUME IInv, NEW r \in Relayers, NEW m \in Msgs, Resolving(r, m)
    PROVE  NoneAbandons
<1> DEFINE t == Resolve(m)
<1>0. /\ TypeOK /\ t \in Threads /\ lock \in [Relayers -> Threads \cup {Free}]
      /\ {"isComplete", "hasVoted", "isPassed", "latestBlock", "lock", "done"} \subseteq Control
      /\ "execute" \in Job
  BY ThreadFacts DEF IInv, TypeOK, Control, Job
<1>1. lock' = lock
  BY DEF Resolving, ResolveMessage, CheckComplete, CheckVoted, CheckPassed, LatestBlock, noLock
<1>2. CASE \E from, to \in Control : Goto(r, t, from, to) /\ from \notin {"update", "send"}
  BY <1>0, <1>1, <1>2, GotoFacts, HeldStep
<1>3. CASE ResolveMessage(r, m) \/ CheckComplete(r, m) \/ CheckVoted(r, m) \/ CheckPassed(r, m)
  <2>1. \E from \in {"idle", "isComplete", "hasVoted", "isPassed"} :
        \E to \in {"isComplete", "hasVoted", "isPassed", "latestBlock", "lock", "done"} :
           Goto(r, t, from, to)
    BY <1>3 DEF ResolveMessage, CheckComplete, CheckVoted, CheckPassed, Enter
  <2>2. {"idle", "isComplete", "hasVoted", "isPassed"} \subseteq Control
    BY DEF Control
  <2> QED
    BY <1>0, <1>2, <2>1, <2>2
<1>4. CASE LatestBlock(r, m)
  <2>1. CASE Goto(r, t, "latestBlock", "done")
    BY <1>0, <1>2, <2>1
  <2>2. CASE pc' = [pc EXCEPT ![r][Resolve(m)] = "lock", ![r][Watch(m)] = "wait"]
    <3>1. pc[r][t] = "latestBlock" /\ pc[r][Watch(m)] = "idle"
      BY <1>4 DEF LatestBlock, IInv, WatchingOnce
    <3>2. \A q \in Relayers : \A s \in Threads :
             ~(q = r /\ s \in {t, Watch(m)}) => pc'[q][s] = pc[q][s]
      BY <1>0, <2>2, LatestBlockElse
    <3>3. ASSUME NEW q \in Relayers, ~Abandoned(q) PROVE ~Abandoned(q)'
      <4>1. lock[q] # Free => lock[q] \in Threads
        BY <1>0
      <4> QED
        BY <1>1, <3>1, <3>2, <3>3, <4>1 DEF Abandoned
    <3> QED
      BY <3>3 DEF NoneAbandons
  <2> QED
    BY <1>4, <2>1, <2>2 DEF LatestBlock
<1> QED
  BY <1>3, <1>4 DEF Resolving

LEMMA HeldExits ==
    ASSUME TypeOK, NEW r \in Relayers, NEW idle,
           lock' = [lock EXCEPT ![r] = Free], pc' = [pc EXCEPT ![r] = idle]
    PROVE  NoneAbandons
<1>1. ASSUME NEW q \in Relayers, ~Abandoned(q) PROVE ~Abandoned(q)'
  <2>1. q = r => lock'[q] = Free
    BY DEF TypeOK
  <2>2. q # r => lock'[q] = lock[q] /\ pc'[q] = pc[q]
    BY DEF TypeOK
  <2> QED
    BY <1>1, <2>1, <2>2 DEF Abandoned
<1> QED
  BY <1>1 DEF NoneAbandons

LEMMA HeldWatching ==
    ASSUME IInv, NEW r \in Relayers, NEW m \in Msgs, Watching(r, m)
    PROVE  NoneAbandons
<1> DEFINE t == Watch(m)
<1>0. /\ TypeOK /\ t \in Threads /\ lock \in [Relayers -> Threads \cup {Free}]
      /\ {"wait", "filter", "lock", "done"} \subseteq Control
  BY ThreadFacts DEF IInv, TypeOK, Control
<1>1. CASE Exits(r)
  BY <1>0, <1>1, HeldExits DEF Exits
<1>2. CASE ~Exits(r)
  <2>1. lock' = lock
    BY <1>2 DEF Watching, WaitForBlock, WaitFails, FilterLogs, FilterFails, noLock
  <2>2. \E from \in {"wait", "filter"}, to \in {"wait", "filter", "lock", "done"} :
           Goto(r, t, from, to)
    BY <1>2 DEF Watching, WaitForBlock, WaitFails, FilterLogs, FilterFails, Enter, Retry
  <2> QED
    BY <1>0, <2>1, <2>2, GotoFacts, HeldStep
<1> QED
  BY <1>1, <1>2

LEMMA HeldSending ==
    ASSUME IInv, NEW r \in Relayers, NEW t \in Threads, LockOpts(r, t) \/ Sending(r, t),
           ~GasFails(r, t)
    PROVE  NoneAbandons
<1>0. /\ TypeOK /\ lock \in [Relayers -> Threads \cup {Free}]
      /\ {"lock", "update", "send", "recheck", "done"} \subseteq Control
      /\ Holding
  BY DEF IInv, TypeOK, Control
<1> DEFINE Freed == lock' = [lock EXCEPT ![r] = Free]
           Taken == lock' = [lock EXCEPT ![r] = t]
<1>1. CASE LockOpts(r, t)
  <2>1. Goto(r, t, "lock", "update") /\ Taken
    BY <1>1 DEF LockOpts
  <2> QED
    BY <1>0, <2>1, GotoFacts, HeldStep
<1>2. CASE UpdateOpts(r, t)
  <2>1. Goto(r, t, "update", "send") /\ lock' = lock
    BY <1>2 DEF UpdateOpts
  <2>2. lock[r] = t
    BY <1>0, <2>1 DEF Goto, Holding
  <2> QED
    BY <1>0, <2>1, <2>2, GotoFacts, HeldStep
<1>3. CASE NonceFails(r, t) \/ Send(r, t)
  <2>1. /\ Freed
        /\ \E from \in {"update", "send"}, to \in {"lock", "recheck", "done"} :
              Goto(r, t, from, to)
    BY <1>3 DEF NonceFails, UpdateFailed, Send, Enter, Retry
  <2> QED
    BY <1>0, <2>1, GotoFacts, HeldStep
<1>4. CASE Recheck(r, t)
  <2>1. lock' = lock /\ \E to \in {"lock", "done"} : Goto(r, t, "recheck", to)
    BY <1>4 DEF Recheck, Enter, Retry, noLock
  <2> QED
    BY <1>0, <2>1, GotoFacts, HeldStep
<1>5. CASE GiveUp(r, t)
  BY <1>0, <1>5, HeldExits DEF GiveUp, Exits
<1> QED
  BY <1>1, <1>2, <1>3, <1>4, <1>5 DEF Sending

(***************************************************************************)
(* A goroutine leaves with optsLock held only after its relayer's query    *)
(* for the gas price failed, whatever else fails and however often.        *)
(***************************************************************************)
THEOREM LockIsGivenBack == Spec => []AbandonedByGasOnly
<1>1. Init => AbandonedByGasOnly
  BY DEF Init, AbandonedByGasOnly, Abandoned
<1>2. IInv /\ AbandonedByGasOnly /\ [Next]_vars => AbandonedByGasOnly'
  <2> SUFFICES ASSUME IInv, AbandonedByGasOnly, [Next]_vars PROVE AbandonedByGasOnly'
    OBVIOUS
  <2>0. NoneAbandons /\ UNCHANGED noPrice => AbandonedByGasOnly'
    BY DEF NoneAbandons, AbandonedByGasOnly
  <2>1. ASSUME NEW r \in Relayers, NEW m \in Msgs, Resolving(r, m) \/ Watching(r, m)
        PROVE  AbandonedByGasOnly'
    <3>1. UNCHANGED noPrice
      BY <2>1 DEF Resolving, ResolveMessage, CheckComplete, CheckVoted, CheckPassed,
                  LatestBlock, Watching, WaitForBlock, WaitFails, FilterLogs, FilterFails,
                  Exits, noLife
    <3> QED
      BY <2>0, <2>1, <3>1, HeldResolving, HeldWatching
  <2>2. ASSUME NEW r \in Relayers, NEW t \in Threads, LockOpts(r, t) \/ Sending(r, t)
        PROVE  AbandonedByGasOnly'
    <3>1. CASE ~GasFails(r, t)
      <4>1. UNCHANGED noPrice
        BY <2>2, <3>1 DEF Sending, LockOpts, UpdateOpts, NonceFails, Send, Recheck, GiveUp,
                          Exits, noLife
      <4> QED
        BY <2>0, <2>2, <3>1, <4>1, HeldSending
    <3>2. CASE GasFails(r, t)
      <4>1. \A q \in Relayers : q # r => pc'[q] = pc[q] /\ noPrice'[q] = noPrice[q]
        BY <3>2 DEF GasFails, UpdateFailed, Enter, Retry, Goto, IInv, TypeOK
      <4>2. lock' = lock /\ noPrice'[r]
        BY <3>2 DEF GasFails, IInv, TypeOK
      <4> QED
        BY <4>1, <4>2 DEF AbandonedByGasOnly, Abandoned
    <3> QED
      BY <3>1, <3>2
  <2>3. ASSUME NEW r \in Relayers, Restart(r) PROVE AbandonedByGasOnly'
    <3>1. lock'[r] = Free /\ \A q \in Relayers : q # r => noPrice'[q] = noPrice[q]
      BY <2>3 DEF Restart, IInv, TypeOK
    <3>2. NoneAbandons
      BY <2>3, HeldExits DEF Restart, IInv
    <3> QED
      BY <3>1, <3>2 DEF NoneAbandons, AbandonedByGasOnly, Abandoned
  <2>4. CASE UNCHANGED <<lock, pc, noPrice>>
    BY <2>4 DEF AbandonedByGasOnly, Abandoned
  <2>5. CASE BlockWithout \/ BlockWithCancel \/ \E r \in Relayers : BlockWithTx(r)
    BY <2>4, <2>5 DEF BlockWithout, BlockWithCancel, BlockWithTx, writerVars, control
  <2>6. CASE UNCHANGED vars
    BY <2>4, <2>6 DEF vars, writerVars, control
  <2> QED
    BY <2>1, <2>2, <2>3, <2>5, <2>6 DEF Next, Running
<1> QED
  BY <1>1, <1>2, Invariance, PTL DEF Spec
-----------------------------------------------------------------------------
(***************************************************************************)
(* Duplicates.  A message that was transferred when it was taken up stays  *)
(* so.  To get past the first check costs a failed query, and to get past  *)
(* the second one another, if the relayer had voted.                       *)
(***************************************************************************)
Stopped(r, m) ==
    /\ status[m] = "Transferred"
    /\ \/ errors >= 2
       \/ errors >= 1 /\ r \notin votes[m]
       \/ errors >= 1 /\ pc[r][Resolve(m)] = "hasVoted"
       \/ pc[r][Resolve(m)] \in {"idle", "isComplete", "isPassed", "done"}
Quiet == \A r \in Relayers : \A m \in late[r] : Stopped(r, m)

LEMMA QuietImplies == TypeOK /\ Quiet => QuietOnDuplicate
<1> SUFFICES ASSUME TypeOK, Quiet, NEW r \in Relayers, NEW m \in late[r],
                    errors = 0 \/ (errors = 1 /\ r \in votes[m])
             PROVE  pc[r][Resolve(m)] \notin {"latestBlock", "lock", "update", "send", "recheck"}
  BY DEF QuietOnDuplicate
<1>1. Stopped(r, m) /\ ~(errors >= 2) /\ (errors >= 1 => r \in votes[m])
  BY FailuresAssumption DEF Quiet, TypeOK
<1> QED
  BY <1>1 DEF Stopped

(* A step that leaves the proposals alone and resolves nothing late. *)
LEMMA QuietKept ==
    ASSUME TypeOK, Quiet, UNCHANGED <<status, votes, late>>, errors' >= errors,
           errors' \in Nat,
           \A r \in Relayers : \A m \in late[r] :
              \/ pc'[r][Resolve(m)] = pc[r][Resolve(m)]
              \/ pc'[r][Resolve(m)] = "idle"
              \/ pc[r][Resolve(m)] \in {"lock", "update", "send", "recheck"}
    PROVE  Quiet'
<1>1. ASSUME NEW r \in Relayers, NEW m \in late[r] PROVE Stopped(r, m)'
  <2>1. Stopped(r, m) /\ errors \in Nat
    BY FailuresAssumption DEF Quiet, TypeOK
  <2>2. errors >= 2 => errors' >= 2
    BY <2>1
  <2>3. errors >= 1 => errors' >= 1
    BY <2>1
  <2> QED
    BY <2>1, <2>2, <2>3 DEF Stopped
<1> QED
  BY <1>1 DEF Quiet

LEMMA ErrorsGrow ==
    ASSUME TypeOK, NEW call, Works \/ Fails(call)
    PROVE  errors' >= errors /\ errors' \in Nat /\ (Fails(call) => errors' = errors + 1)
  BY FailuresAssumption DEF TypeOK, Works, Fails

LEMMA QuietResolving ==
    ASSUME IInv, Quiet, NEW r \in Relayers, NEW m \in Msgs, Resolving(r, m)
    PROVE  Quiet'
<1> DEFINE t == Resolve(m)
<1>0. /\ TypeOK /\ t \in Threads /\ errors \in Nat
      /\ {"isComplete", "hasVoted", "isPassed", "latestBlock", "lock", "done"} \subseteq Control
      /\ \A n \in Msgs : Resolve(n) \in Threads /\ (Resolve(n) = t => n = m)
  BY ThreadFacts, FailuresAssumption DEF IInv, TypeOK, Control
<1>1. \A q \in Relayers : late[q] \subseteq Msgs
  BY <1>0 DEF TypeOK
<1>2. UNCHANGED <<status, votes>>
  BY DEF Resolving, ResolveMessage, CheckComplete, CheckVoted, CheckPassed, LatestBlock,
         bridgeVars
<1>3. \A q \in Relayers : \A n \in Msgs :
         ~(q = r /\ n = m) => pc'[q][Resolve(n)] = pc[q][Resolve(n)]
  <2>1. CASE \E from, to \in Control : Goto(r, t, from, to)
    BY <1>0, <2>1, GotoFacts
  <2>2. CASE pc' = [pc EXCEPT ![r][Resolve(m)] = "lock", ![r][Watch(m)] = "wait"]
    <3>1. \A q \in Relayers : \A s \in Threads :
             ~(q = r /\ s \in {Resolve(m), Watch(m)}) => pc'[q][s] = pc[q][s]
      BY <1>0, <2>2, LatestBlockElse
    <3>2. \A n \in Msgs : Resolve(n) \in Threads /\ Resolve(n) # Watch(m)
      BY ThreadFacts
    <3> QED
      BY <1>0, <3>1, <3>2
  <2>3. \/ \E from \in {"idle", "isComplete", "hasVoted", "isPassed", "latestBlock"} :
           \E to \in {"isComplete", "hasVoted", "isPassed", "latestBlock", "lock", "done"} :
              Goto(r, t, from, to)
        \/ pc' = [pc EXCEPT ![r][Resolve(m)] = "lock", ![r][Watch(m)] = "wait"]
    BY DEF Resolving, ResolveMessage, CheckComplete, CheckVoted, CheckPassed, LatestBlock, Enter
  <2>4. {"idle", "isComplete", "hasVoted", "isPassed", "latestBlock"} \subseteq Control
    BY DEF Control
  <2> QED
    BY <1>0, <2>1, <2>2, <2>3, <2>4
<1>4. errors' >= errors /\ errors' \in Nat
  BY <1>0, ErrorsGrow DEF Resolving, ResolveMessage, CheckComplete, CheckVoted, CheckPassed,
                          LatestBlock, Answer
<1>5. ASSUME NEW q \in Relayers, NEW n \in Msgs, n \in late[q], ~(q = r /\ n = m)
      PROVE  Stopped(q, n)'
  <2>1. Stopped(q, n)
    BY <1>5 DEF Quiet
  <2>2. (errors >= 2 => errors' >= 2) /\ (errors >= 1 => errors' >= 1)
    BY <1>0, <1>4
  <2> QED
    BY <1>2, <1>3, <1>5, <2>1, <2>2 DEF Stopped
<1>6. CASE ResolveMessage(r, m)
  <2>1. pc'[r][t] = "isComplete" /\ late' = IF status[m] = "Transferred"
                 THEN [late EXCEPT ![r] = @ \cup {m}] ELSE late
    BY <1>0, <1>6, GotoFacts DEF ResolveMessage
  <2>2. ASSUME NEW q \in Relayers, NEW n \in late'[q] PROVE Stopped(q, n)'
    <3>1. (n \in late[q] \/ (q = r /\ n = m /\ status[m] = "Transferred"))
      BY <1>0, <2>1 DEF TypeOK
    <3>2. CASE q = r /\ n = m
      <4>1. status[m] = "Transferred"
        BY <3>1, <3>2 DEF Quiet, Stopped
      <4> QED
        BY <1>2, <2>1, <3>2, <4>1 DEF Stopped
    <3> QED
      BY <1>1, <1>5, <3>1, <3>2
  <2> QED
    BY <2>2 DEF Quiet
<1>7. CASE ~ResolveMessage(r, m)
  <2>1. late' = late
    BY <1>7 DEF Resolving, CheckComplete, CheckVoted, CheckPassed, LatestBlock, noLife
  <2>2. ASSUME m \in late[r] PROVE Stopped(r, m)'
    <3>1. Stopped(r, m)
      BY <2>2 DEF Quiet
    <3>2. (errors >= 2 => errors' >= 2) /\ (errors >= 1 => errors' >= 1)
      BY <1>0, <1>4
    <3>3. CASE CheckComplete(r, m)
      <4>1. PICK ans \in BOOLEAN :
               /\ Answer(ans, proposalIsComplete(m))
               /\ Goto(r, t, "isComplete", IF ans THEN "isPassed" ELSE "hasVoted")
        BY <3>3 DEF CheckComplete
      <4>2. pc'[r][t] = IF ans THEN "isPassed" ELSE "hasVoted"
        BY <1>0, <4>1, GotoFacts
      <4>3. ~ans => Fails("query")
        BY <3>1, <4>1 DEF Answer, proposalIsComplete, Stopped
      <4>4. ~ans => errors' >= 1
        BY <1>0, <4>3, ErrorsGrow
      <4> QED
        BY <1>2, <3>1, <4>2, <4>4 DEF Stopped
    <3>4. CASE CheckVoted(r, m)
      <4>1. PICK ans \in BOOLEAN :
               /\ Answer(ans, r \in votes[m])
               /\ Goto(r, t, "hasVoted", IF ans THEN "isPassed" ELSE "latestBlock")
        BY <3>4 DEF CheckVoted
      <4>2. pc[r][t] = "hasVoted" /\ pc'[r][t] = IF ans THEN "isPassed" ELSE "latestBlock"
        BY <1>0, <4>1, GotoFacts
      <4>3. ~ans /\ r \in votes[m] => Fails("query")
        BY <4>1 DEF Answer
      <4>4. errors >= 1
        BY <1>0, <3>1, <4>2 DEF Stopped
      <4>5. ~ans => errors' >= 2 \/ (errors' >= 1 /\ r \notin votes[m])
        BY <1>0, <3>2, <4>3, <4>4, ErrorsGrow
      <4> QED
        BY <1>2, <3>1, <4>2, <4>5 DEF Stopped
    <3>5. CASE CheckPassed(r, m)
      <4>1. PICK ans \in BOOLEAN :
               /\ Answer(ans, proposalIsPassed(m))
               /\ Goto(r, t, "isPassed", IF ans THEN "lock" ELSE "done")
        BY <3>5 DEF CheckPassed, Enter
      <4>2. ~ans
        BY <3>1, <4>1 DEF Answer, proposalIsPassed, Stopped
      <4>3. pc'[r][t] = "done"
        BY <1>0, <4>1, <4>2, GotoFacts
      <4> QED
        BY <1>2, <3>1, <4>3 DEF Stopped
    <3>6. CASE LatestBlock(r, m)
      <4>1. pc[r][t] = "latestBlock"
        BY <3>6 DEF LatestBlock
      <4>2. errors >= 2 \/ (errors >= 1 /\ r \notin votes[m])
        BY <3>1, <4>1 DEF Stopped
      <4> QED
        BY <1>2, <3>1, <3>2, <4>2 DEF Stopped
    <3> QED
      BY <1>7, <3>3, <3>4, <3>5, <3>6 DEF Resolving
  <2> QED
    BY <1>1, <1>5, <2>1, <2>2 DEF Quiet
<1> QED
  BY <1>6, <1>7

(* What the other steps of a relayer leave of a message's first goroutine. *)
LEMMA QuietRunning ==
    ASSUME IInv, Quiet, NEW r \in Relayers,
           \/ \E m \in Msgs : Watching(r, m)
           \/ \E t \in Threads : LockOpts(r, t) \/ Sending(r, t)
    PROVE  Quiet'
<1>0. TypeOK /\ \A q \in Relayers : late[q] \subseteq Msgs
  BY DEF IInv, TypeOK
<1>1. CASE Exits(r) /\ errors' >= errors /\ errors' \in Nat
  <2>1. /\ \A q \in Relayers : q # r => pc'[q] = pc[q]
        /\ \A s \in Threads : pc'[r][s] = "idle"
    BY <1>0, <1>1 DEF Exits, TypeOK
  <2>2. UNCHANGED <<status, votes, late>>
    BY <1>1 DEF Exits, bridgeVars
  <2> QED
    BY <1>0, <1>1, <2>1, <2>2, ThreadFacts, QuietKept
<1>2. ASSUME NEW m \in Msgs, Watching(r, m), ~Exits(r) PROVE Quiet'
  <2> DEFINE t == Watch(m)
  <2>1. UNCHANGED <<status, votes, late>> /\ errors' >= errors /\ errors' \in Nat
    BY <1>0, <1>2, ErrorsGrow DEF Watching, WaitForBlock, WaitFails, FilterLogs, FilterFails,
                                  bridgeVars, noLife
  <2>2. \E from \in {"wait", "filter"}, to \in {"wait", "filter", "lock", "done"} :
           Goto(r, t, from, to)
    BY <1>2 DEF Watching, WaitForBlock, WaitFails, FilterLogs, FilterFails, Enter, Retry
  <2>3. {"wait", "filter", "lock", "done"} \subseteq Control /\ t \in Threads
    BY ThreadFacts DEF Control
  <2>4. \A q \in Relayers : \A n \in Msgs : pc'[q][Resolve(n)] = pc[q][Resolve(n)]
    <3>1. \A q \in Relayers : \A s \in Threads :
             ~(q = r /\ s = t) => pc'[q][s] = pc[q][s]
      BY <1>0, <2>2, <2>3, GotoFacts
    <3>2. \A n \in Msgs : Resolve(n) \in Threads /\ Resolve(n) # t
      BY ThreadFacts
    <3> HIDE DEF t
    <3> QED
      BY <3>1, <3>2
  <2> QED
    BY <1>0, <2>1, <2>4, QuietKept
<1>3. ASSUME NEW t \in Threads, LockOpts(r, t) \/ Sending(r, t), ~GiveUp(r, t) PROVE Quiet'
  <2>1. UNCHANGED <<status, votes, late>> /\ errors' >= errors /\ errors' \in Nat
    <3>1. UNCHANGED <<status, votes, late>>
      BY <1>3 DEF Sending, LockOpts, UpdateOpts, GasFails, NonceFails,
                  UpdateFailed, Send, Recheck, bridgeVars, noLife
    <3>2. Works \/ \E call \in Calls : Fails(call)
      BY <1>3 DEF Sending, LockOpts, UpdateOpts, GasFails, NonceFails, Send, Recheck,
                  Answer, Works, Calls
    <3> QED
      BY <1>0, <3>1, <3>2, ErrorsGrow
  <2>2. \E from \in {"lock", "update", "send", "recheck"},
           to \in {"lock", "update", "send", "recheck", "done"} : Goto(r, t, from, to)
    BY <1>3 DEF Sending, LockOpts, UpdateOpts, GasFails, NonceFails, UpdateFailed, Send,
                Recheck, Enter, Retry
  <2>3. {"lock", "update", "send", "recheck", "done"} \subseteq Control
    BY DEF Control
  <2>4. \A q \in Relayers : \A s \in Threads :
           \/ pc'[q][s] = pc[q][s]
           \/ pc[q][s] \in {"lock", "update", "send", "recheck"}
    BY <1>0, <2>2, <2>3, GotoFacts
  <2> QED
    BY <1>0, <2>1, <2>4, ThreadFacts, QuietKept
<1>4. ASSUME NEW m \in Msgs, Watching(r, m) PROVE errors' >= errors /\ errors' \in Nat
  BY <1>0, <1>4, ErrorsGrow DEF Watching, WaitForBlock, WaitFails, FilterLogs, FilterFails
<1>5. ASSUME NEW t \in Threads, GiveUp(r, t)
      PROVE  Exits(r) /\ errors' >= errors /\ errors' \in Nat
  BY <1>0, <1>5, ErrorsGrow DEF GiveUp
<1> QED
  BY <1>1, <1>2, <1>3, <1>4, <1>5

LEMMA QuietChain ==
    ASSUME IInv, Quiet, UNCHANGED writerVars,
           EmptyBlock \/ (\E m \in Msgs : Cancel(m)) \/ (\E r \in Relayers : Mine(r))
    PROVE  Quiet'
<1>0. TypeOK /\ BridgeTypeOK /\ UNCHANGED <<pc, late, errors>>
  BY DEF IInv, TypeOK, writerVars, control
<1>1. \A n \in Msgs : status[n] = "Transferred" =>
                      status'[n] = "Transferred" /\ votes'[n] = votes[n]
  <2>1. CASE EmptyBlock
    BY <2>1 DEF EmptyBlock
  <2>2. ASSUME NEW m \in Msgs, Cancel(m)
        PROVE  \A n \in Msgs : status[n] = "Transferred" =>
                               status'[n] = "Transferred" /\ votes'[n] = votes[n]
    BY <1>0, <2>2, MovesStatus DEF Cancel
  <2>3. ASSUME NEW r \in Relayers, Mine(r)
        PROVE  \A n \in Msgs : status[n] = "Transferred" =>
                               status'[n] = "Transferred" /\ votes'[n] = votes[n]
    <3> DEFINE tx == Head(pool[r])
    <3>1. tx.msg \in Msgs
      BY <1>0, <2>3, PoolFacts DEF Mine, Tx
    <3> HIDE DEF tx
    <3>2. CASE CountsVote(r, tx.msg)
      <4>1. status[tx.msg] \in {"Inactive", "Active"}
        BY <3>2 DEF CountsVote
      <4>2. \/ Moves(tx.msg, "Passed") \/ Moves(tx.msg, "Active") \/ UNCHANGED status
        BY <3>2 DEF CountsVote
      <4>3. \A n \in Msgs : n # tx.msg => votes'[n] = votes[n]
        BY <1>0, <3>1, <3>2 DEF CountsVote, BridgeTypeOK
      <4>4. \A n \in Msgs : status[n] = "Transferred" => status'[n] = "Transferred"
        BY <1>0, <3>1, <4>1, <4>2 DEF Moves, BridgeTypeOK
      <4> QED
        BY <4>1, <4>3, <4>4
    <3>3. CASE Transfers(tx.msg)
      BY <1>0, <3>1, <3>3, MovesStatus DEF Transfers
    <3>4. CASE Reverts(r, tx)
      BY <3>4 DEF Reverts
    <3> QED
      BY <2>3, <3>2, <3>3, <3>4 DEF Mine, tx
  <2> QED
    BY <2>1, <2>2, <2>3
<1>2. ASSUME NEW r \in Relayers, NEW m \in late[r] PROVE Stopped(r, m)'
  <2>1. Stopped(r, m) /\ m \in Msgs
    BY <1>0 DEF Quiet, TypeOK
  <2> QED
    BY <1>0, <1>1, <2>1 DEF Stopped
<1> QED
  BY <1>0, <1>2 DEF Quiet

(***************************************************************************)
(* A message that is taken up again after it was transferred makes no      *)
(* transaction, unless a query fails, and two if the relayer had voted.    *)
(***************************************************************************)
THEOREM DuplicatesAreQuiet == Spec => []QuietOnDuplicate
<1>1. Init => Quiet
  BY DEF Init, Quiet
<1>2. IInv /\ Quiet /\ [Next]_vars => Quiet'
  <2> SUFFICES ASSUME IInv, Quiet, [Next]_vars PROVE Quiet'
    OBVIOUS
  <2>0. TypeOK
    BY DEF IInv
  <2>1. ASSUME NEW r \in Relayers, Running(r) PROVE Quiet'
    BY <2>1, QuietResolving, QuietRunning DEF Running
  <2>2. ASSUME NEW r \in Relayers, Restart(r) PROVE Quiet'
    <3>1. /\ \A q \in Relayers : q # r => pc'[q] = pc[q]
          /\ \A s \in Threads : pc'[r][s] = "idle"
      BY <2>0, <2>2 DEF Restart, TypeOK
    <3>2. UNCHANGED <<status, votes, late, errors>> /\ errors \in Nat
      BY <2>0, <2>2, FailuresAssumption DEF Restart, bridgeVars, TypeOK
    <3>3. \A q \in Relayers : late[q] \subseteq Msgs
      BY <2>0 DEF TypeOK
    <3> QED
      BY <2>0, <3>1, <3>2, <3>3, ThreadFacts, QuietKept
  <2>3. CASE BlockWithout \/ BlockWithCancel \/ \E r \in Relayers : BlockWithTx(r)
    BY <2>3, QuietChain DEF BlockWithout, BlockWithCancel, BlockWithTx
  <2>4. CASE UNCHANGED vars
    BY <2>4 DEF vars, bridgeVars, writerVars, control, Quiet, Stopped
  <2> QED
    BY <2>1, <2>2, <2>3, <2>4 DEF Next
<1>3. IInv => TypeOK
  BY DEF IInv
<1> QED
  BY <1>1, <1>2, <1>3, QuietImplies, Invariance, PTL DEF Spec
=============================================================================
