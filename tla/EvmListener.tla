---------------------------- MODULE EvmListener ----------------------------
(***************************************************************************)
(* Listening to the EVM chain: the listener of chains/platdot polls one    *)
(* block after the other, each once it is blockConfirmations deep, and     *)
(* routes a message for every Deposit log.  Every call of the chain is a   *)
(* step of its own and may fail; a failed call makes it look at the whole  *)
(* block again.  The chain may replace blocks that are not that deep yet.  *)
(***************************************************************************)
EXTENDS Integers, Sequences

CONSTANTS Payloads,       \* what the handlers record of deposits
          KindOf,         \* KindOf[p]: what becomes of a deposit of payload p, see Kinds
          Blocks,         \* the contents a block may have: sequences of payloads
          Confirmations,  \* blockConfirmations
          StartBlock,     \* startBlock
          RetryLimit,     \* BlockRetryLimit
          MaxHeight,      \* bound on the length of the chain
          MaxReorgs,      \* bound on the number of reorganisations
          MaxErrors,      \* bound on the number of failed calls
          MaxCrashes      \* bound on the number of restarts

(***************************************************************************)
(* The handler of a deposit's resource is the ERC20 handler and the router *)
(* knows the destination ("routable") or not ("unroutable"); it is the     *)
(* configured ERC721 or generic handler, whose contract setContracts       *)
(* leaves nil ("unset"); or it is none of the three ("unknown").           *)
(***************************************************************************)
Kinds == {"routable", "unroutable", "unset", "unknown"}

ASSUME ListenerAssumption ==
    /\ KindOf \in [Payloads -> Kinds]
    /\ Blocks \subseteq Seq(Payloads)
    /\ Confirmations \in Nat /\ StartBlock \in Nat \ {0} /\ RetryLimit \in Nat \ {0}
    /\ MaxHeight \in Nat /\ MaxReorgs \in Nat /\ MaxErrors \in Nat /\ MaxCrashes \in Nat

VARIABLES
    chain,    \* the node's chain: the contents of its blocks, from block 1 on
    latest,   \* the latestBlock flag of the configuration
    pc,       \* "start", "poll", "filter", "handler" or "record": the call to make next
    first,    \* the block this life of the relayer started with
    current,  \* currentBlock
    retry,    \* retry
    logs,     \* the logs of the block being looked at
    index,    \* which of them is handled
    up,       \* the relayer runs
    routed,   \* the messages sent to the router (history)
    fresh,    \* those sent since the relayer started (history)
    again,    \* a message was sent twice since then (history)
    row,      \* tries of the current block that failed (history)
    errors, reorgs, crashes

tasks == <<first, current, retry, logs, index>>
history == <<routed, fresh, again, row>>
counters == <<errors, reorgs, crashes>>
vars == <<chain, latest, pc, tasks, up, history, counters>>

(* A message: the deposit it is about and the record it was made from. *)
Message(b, i, p) == [block |-> b, index |-> i, payload |-> p]
Messages == [block : Nat, index : Nat, payload : Payloads]

TypeOK ==
    /\ chain \in Seq(Blocks)
    /\ latest \in BOOLEAN
    /\ pc \in {"start", "poll", "filter", "handler", "record"}
    /\ first \in Nat /\ current \in Nat
    /\ retry \in 0..RetryLimit
    /\ logs \in Seq(Payloads)
    /\ index \in Nat \ {0}
    /\ up \in BOOLEAN
    /\ routed \subseteq Messages /\ fresh \subseteq Messages
    /\ again \in BOOLEAN
    /\ row \in Nat
    /\ errors \in 0..MaxErrors /\ reorgs \in 0..MaxReorgs /\ crashes \in 0..MaxCrashes

Init ==
    /\ chain = << >>
    /\ latest \in BOOLEAN
    /\ pc = "start" /\ first = 0 /\ current = 0 /\ retry = RetryLimit
    /\ logs = << >> /\ index = 1
    /\ up = TRUE
    /\ routed = {} /\ fresh = {} /\ again = FALSE /\ row = 0
    /\ errors = 0 /\ reorgs = 0 /\ crashes = 0

(***************************************************************************)
(* The chain.                                                              *)
(***************************************************************************)
Mine ==
    /\ Len(chain) < MaxHeight
    /\ \E content \in Blocks : chain' = Append(chain, content)
    /\ UNCHANGED <<latest, pc, tasks, up, history, counters>>

(* A branch of the same length takes the place of the last n blocks. *)
Reorg ==
    /\ reorgs < MaxReorgs
    /\ reorgs' = reorgs + 1
    /\ \E n \in 1..Confirmations :
          /\ n <= Len(chain)
          /\ \E branch \in [1..n -> Blocks] :
                chain' = SubSeq(chain, 1, Len(chain) - n) \o branch
    /\ UNCHANGED <<latest, pc, tasks, up, history, errors, crashes>>

(***************************************************************************)
(* InitializeChain: the configured block, or the node's last one.          *)
(***************************************************************************)
Works == UNCHANGED errors
Fails == errors < MaxErrors /\ errors' = errors + 1

FirstBlock == IF latest THEN Len(chain) ELSE StartBlock

(* A chain has a block by the time a relayer of it is started. *)
Start ==
    /\ up /\ pc = "start" /\ Works
    /\ FirstBlock > 0
    /\ pc' = "poll"
    /\ first' = FirstBlock /\ current' = FirstBlock
    /\ UNCHANGED <<chain, latest, retry, logs, index, up, history, reorgs, crashes>>

(* Any call of the start-up fails: the relayer exits. *)
StartFails ==
    /\ up /\ pc = "start" /\ Fails
    /\ up' = FALSE
    /\ UNCHANGED <<chain, latest, pc, tasks, history, reorgs, crashes>>

(***************************************************************************)
(* pollBlocks.                                                             *)
(***************************************************************************)

DeepEnoughShort == Len(chain) - current >= Confirmations - 1  \* mutant: off by one
DeepEnough == Len(chain) - current >= Confirmations

(* LatestBlock; while the block is not ready the listener only sleeps. *)
Poll ==
    /\ up /\ pc = "poll" /\ retry > 0
    /\ Works
    /\ DeepEnough
    /\ pc' = "filter"
    /\ UNCHANGED <<chain, latest, tasks, up, history, reorgs, crashes>>

(* ErrFatalPolling *)
GiveUp ==
    /\ up /\ pc = "poll" /\ retry = 0
    /\ up' = FALSE
    /\ UNCHANGED <<chain, latest, pc, tasks, history, counters>>

(* mutants: go on with the next block; keep the retries used *)
CallFailsSkipping ==
    /\ up /\ Fails
    /\ \/ pc = "poll" /\ retry > 0
       \/ pc \in {"filter", "handler", "record"}
    /\ pc' = "poll" /\ retry' = retry - 1 /\ row' = row + 1
    /\ current' = current + 1
    /\ UNCHANGED <<chain, latest, first, logs, index, up, routed, fresh, again, reorgs, crashes>>

(* Any call of the chain fails: the block is looked at from its start again. *)
CallFails ==
    /\ up /\ Fails
    /\ \/ pc = "poll" /\ retry > 0
       \/ pc \in {"filter", "handler", "record"}
    /\ pc' = "poll" /\ retry' = retry - 1 /\ row' = row + 1
    /\ UNCHANGED <<chain, latest, first, current, logs, index, up, routed, fresh, again,
                   reorgs, crashes>>

(***************************************************************************)
(* getDepositEventsForBlock: the logs, then for one after the other its    *)
(* handler and its record.  The record is read from the chain's last state.*)
(***************************************************************************)
FilterLogs ==
    /\ up /\ pc = "filter"
    /\ Works
    /\ logs' = chain[current] /\ index' = 1
    /\ pc' = "handler"
    /\ UNCHANGED <<chain, latest, first, current, retry, up, history, reorgs, crashes>>

Kind == KindOf[logs[index]]

(* The type of handler is known: fetch the deposit's record from it. *)
Handler ==
    /\ up /\ pc = "handler" /\ index <= Len(logs) /\ Works
    /\ Kind \in {"routable", "unroutable"}
    /\ pc' = "record"
    /\ UNCHANGED <<chain, latest, tasks, up, history, reorgs, crashes>>

(* GetDepositRecord of a nil contract panics: the process ends. *)
HandlerUnset ==
    /\ up /\ pc = "handler" /\ index <= Len(logs) /\ Works
    /\ Kind = "unset"
    /\ up' = FALSE
    /\ UNCHANGED <<chain, latest, pc, tasks, history, reorgs, crashes>>

(* The router only refuses messages for chains it has no writer of. *)
Record ==
    /\ up /\ pc = "record" /\ Works
    /\ index \in DOMAIN chain[current]
    /\ LET m == Message(current, index, chain[current][index]) IN
          IF Kind = "routable"
            THEN /\ routed' = routed \cup {m} /\ fresh' = fresh \cup {m}
                 /\ again' = (again \/ m \in fresh)
            ELSE UNCHANGED <<routed, fresh, again>>
    /\ index' = index + 1
    /\ pc' = "handler"
    /\ UNCHANGED <<chain, latest, first, current, retry, logs, up, row, reorgs, crashes>>

(* mutants: the block is looked at again; the retries are not given back,  *)
(* or given on top                                                         *)
NextBlockSame ==
    /\ current' = IF logs = << >> THEN current + 1 ELSE current
    /\ retry' = RetryLimit /\ row' = 0
    /\ pc' = "poll"
NextBlockTired ==
    /\ current' = current + 1
    /\ retry' = retry /\ row' = 0
    /\ pc' = "poll"
NextBlockFresh ==
    /\ current' = current + 1
    /\ retry' = retry + RetryLimit /\ row' = 0
    /\ pc' = "poll"

NextBlock ==
    /\ current' = current + 1
    /\ retry' = RetryLimit /\ row' = 0
    /\ pc' = "poll"

(* All logs are handled.  The block is stored, but nothing loads it. *)
Handled ==
    /\ up /\ pc = "handler" /\ index > Len(logs)
    /\ NextBlock
    /\ UNCHANGED <<chain, latest, first, logs, index, up, routed, fresh, again, counters>>

(* An unrecognised handler ends the loop over the block's logs. *)
HandlerUnknown ==
    /\ up /\ pc = "handler" /\ index <= Len(logs) /\ Works
    /\ Kind = "unknown"
    /\ NextBlock
    /\ UNCHANGED <<chain, latest, first, logs, index, up, routed, fresh, again, reorgs, crashes>>

(***************************************************************************)
(* The relayer stops at any time, or after an exit, and starts again.      *)
(***************************************************************************)
Restart ==
    /\ crashes < MaxCrashes
    /\ crashes' = crashes + 1
    /\ pc' = "start" /\ first' = 0 /\ current' = 0 /\ retry' = RetryLimit
    /\ logs' = << >> /\ index' = 1
    /\ up' = TRUE
    /\ fresh' = {} /\ again' = FALSE /\ row' = 0
    /\ UNCHANGED <<chain, latest, routed, errors, reorgs>>

Listening ==
    \/ Start \/ StartFails
    \/ Poll \/ GiveUp \/ CallFails \/ FilterLogs \/ Handler \/ HandlerUnset
    \/ Record \/ Handled \/ HandlerUnknown

Next == Mine \/ Reorg \/ Listening \/ Restart

Spec == Init /\ [][Next]_vars

(* The listener's loop goes on as long as the relayer runs. *)
FairSpec == Spec /\ WF_vars(Listening)

-----------------------------------------------------------------------------
Final(b) == b \in 1..(Len(chain) - Confirmations)

(***************************************************************************)
(* What was routed stays on the chain, as it was routed: no reorganisation *)
(* takes a deposit back that the other chain pays for.  About the depth at *)
(* which pollBlocks looks at a block.                                      *)
(***************************************************************************)
RoutedStaysOnChain ==
    \A m \in routed :
        /\ Final(m.block)
        /\ m.index \in DOMAIN chain[m.block]
        /\ chain[m.block][m.index] = m.payload

(***************************************************************************)
(* A message is sent twice in one life of the relayer only because a call  *)
(* failed in between and the block was looked at again.                    *)
(***************************************************************************)
RepeatsAfterFailure == again => errors > 0

(***************************************************************************)
(* The relayer exits for its retries only after RetryLimit tries of one    *)
(* block failed in a row: a block that is done gives all of them back.     *)
(***************************************************************************)
GivesUpInTime == up /\ pc = "poll" /\ retry = 0 => row = RetryLimit

(***************************************************************************)
(* Every deposit whose handler is recognised is handled before the         *)
(* listener goes on (listener.go:168).                                     *)
(***************************************************************************)
NothingSkipped ==
    \A b \in first..(current - 1) : \A i \in DOMAIN chain[b] :
        KindOf[chain[b][i]] = "routable" => Message(b, i, chain[b][i]) \in routed

(* What is owed for block b: its routable deposits before an unrecognised handler. *)
Seen(b) == {i \in DOMAIN chain[b] : \A j \in 1..i : KindOf[chain[b][j]] # "unknown"}
Owed(b) ==
    {Message(b, i, chain[b][i]) : i \in {j \in Seen(b) : KindOf[chain[b][j]] = "routable"}}
SettledFrom(a) == UNION {Owed(b) : b \in {c \in DOMAIN chain : c >= a /\ Final(c)}}

(***************************************************************************)
(* The listener implements DepositFeed: in order, none left out, whatever  *)
(* fails and whenever it restarts.  With latestBlock it promises nothing   *)
(* across a restart, only what BehindIsRouted says of one life.            *)
(***************************************************************************)
Promised == IF latest THEN {} ELSE SettledFrom(StartBlock)
Feed == INSTANCE DepositFeed
    WITH settled <- Promised,
         routed  <- IF latest THEN {} ELSE routed
ImplementsFeed == Feed!Spec

(***************************************************************************)
(* Every deposit that is deep enough is routed, unless the relayer exits   *)
(* or starts behind it.                                                    *)
(***************************************************************************)
EventuallyRouted ==
    \A b \in 1..MaxHeight : \A i \in 1..2 :
        (b \in StartBlock..Len(chain) /\ Final(b) /\ i \in Seen(b)
           /\ KindOf[chain[b][i]] = "routable")
        ~> (~up \/ first > b \/ \E m \in routed : m.block = b /\ m.index = i)

(***************************************************************************)
(* The inductive invariant.  A block that is looked at is final, and so    *)
(* are those before it: the logs, and the records that are read after      *)
(* them, are of one chain.  From the first block of a life on, what lies   *)
(* behind the listener's position was routed in that life, and nothing     *)
(* beyond it was, unless a call failed.                                    *)
(***************************************************************************)
Behind(b, i) == b < current \/ (b = current /\ pc \in {"handler", "record"} /\ i < index)

LooksAtFinal ==
    /\ pc \notin {"start", "poll"} => Final(current)
    /\ current = first \/ Final(current - 1)

StartsWhereItShould ==
    /\ pc = "start" => first = 0 /\ current = 0
    /\ pc # "start" => 0 < first /\ first <= current /\ (latest \/ first = StartBlock)

LogsOfBlock ==
    pc \in {"handler", "record"} =>
        /\ logs = chain[current]
        /\ index <= Len(logs) + 1
        /\ \A i \in 1..(index - 1) : KindOf[logs[i]] # "unknown"
        /\ pc = "record" => /\ index <= Len(logs)
                            /\ Kind \in {"routable", "unroutable"}

BehindIsRouted == \A m \in SettledFrom(first) : Behind(m.block, m.index) => m \in fresh
FreshIsBehind  == errors = 0 => \A m \in fresh : Behind(m.block, m.index)
RetriesCounted == row + retry = RetryLimit /\ (pc # "poll" => retry > 0)

IInv ==
    /\ TypeOK
    /\ RoutedStaysOnChain /\ LooksAtFinal /\ StartsWhereItShould /\ LogsOfBlock
    /\ fresh \subseteq routed
    /\ BehindIsRouted /\ FreshIsBehind /\ RepeatsAfterFailure /\ RetriesCounted
=============================================================================
