------------------------ MODULE MultiSigRedeem_proofs ------------------------
(* Proofs about MultiSigRedeem, for any relayers, messages and bounds. *)
EXTENDS MultiSigRedeem, TLAPS, FiniteSetTheorems

(* The call of a message is a call. *)
LEMMA CallOfType == \A m \in Msgs : CallOf(m) \in Calls
  BY MessageAssumption DEF CallOf

(* Appending an event keeps the log a log and its entries where they are. *)
LEMMA EmitFacts ==
    ASSUME TypeOK, NEW r \in Relayers, NEW c \in Calls,
           NEW kind \in {"New", "Approve", "Executed"}, Emit(kind, r, c)
    PROVE  /\ log' \in Seq(Event) /\ Len(log') = Len(log) + 1 /\ Len(log') <= MaxLog
           /\ log'[Len(log) + 1] = [kind |-> kind, who |-> r, call |-> c]
           /\ \A i \in 1..Len(log) : log'[i] = log[i]
<1> DEFINE e == [kind |-> kind, who |-> r, call |-> c]
<1>1. e \in Event
  BY DEF Event
<1>2. log \in Seq(Event) /\ Len(log) \in Nat /\ MaxLog \in Nat
  BY MaxLogAssumption DEF TypeOK, ChainTypeOK
<1>3. log' = Append(log, e) /\ Len(log) < MaxLog
  BY DEF Emit
<1> HIDE DEF e
<1>4. /\ log' \in Seq(Event) /\ Len(log') = Len(log) + 1 /\ log'[Len(log) + 1] = e
      /\ \A i \in 1..Len(log) : log'[i] = log[i]
  BY <1>1, <1>2, <1>3
<1> QED
  BY <1>2, <1>3, <1>4 DEF e

(* An entry of the log is an event. *)
LEMMA LogEntry ==
    ASSUME TypeOK, NEW i \in 1..Len(log)
    PROVE  /\ log[i] \in Event
           /\ log[i].kind \in {"New", "Approve", "Executed"}
           /\ log[i].who \in Relayers /\ log[i].call \in Calls
<1>1. log[i] \in Event
  BY DEF TypeOK, ChainTypeOK
<1> QED
  BY <1>1 DEF Event

(* The chain's variables keep their types when a block takes an extrinsic. *)
LEMMA IncludeType ==
    ASSUME TypeOK, NEW r \in Relayers, Include(r)
    PROVE  ChainTypeOK' /\ Len(log) <= Len(log')
<1>1. PICK x \in pool[r] : \/ IncludeNew(r, x) \/ IncludeApprove(r, x)
                           \/ IncludeExecuted(r, x) \/ IncludeFailed(r, x)
  BY DEF Include
<1>2. x \in Extrinsic /\ x.call \in Calls /\ x.tp \in Nat
  BY DEF TypeOK, ChainTypeOK, Extrinsic
<1>3. pool' \in [Relayers -> SUBSET Extrinsic]
  BY <1>1 DEF TypeOK, ChainTypeOK, Taken, IncludeNew, IncludeApprove,
              IncludeExecuted, IncludeFailed
<1>4. op[x.call] \in Operation
  BY <1>2 DEF TypeOK, ChainTypeOK
<1>5. CASE IncludeNew(r, x)
  <2>1. Len(log) + 1 \in Nat
    BY DEF TypeOK, ChainTypeOK
  <2>2. op' \in [Calls -> Operation]
    BY <1>2, <1>5, <2>1 DEF TypeOK, ChainTypeOK, IncludeNew, Operation
  <2>3. Emit("New", r, x.call)
    BY <1>5 DEF IncludeNew
  <2>4. log' \in Seq(Event) /\ Len(log') = Len(log) + 1 /\ Len(log') <= MaxLog
    BY <1>2, <2>3, EmitFacts
  <2>5. Len(log) \in Nat
    BY DEF TypeOK, ChainTypeOK
  <2> QED
    BY <1>3, <2>2, <2>4, <2>5 DEF ChainTypeOK
<1>6. CASE IncludeApprove(r, x)
  <2>2. op' \in [Calls -> Operation]
    BY <1>2, <1>4, <1>6 DEF TypeOK, ChainTypeOK, IncludeApprove, Operation
  <2>3. Emit("Approve", r, x.call)
    BY <1>6 DEF IncludeApprove
  <2>4. log' \in Seq(Event) /\ Len(log') = Len(log) + 1 /\ Len(log') <= MaxLog
    BY <1>2, <2>3, EmitFacts
  <2>5. Len(log) \in Nat
    BY DEF TypeOK, ChainTypeOK
  <2> QED
    BY <1>3, <2>2, <2>4, <2>5 DEF ChainTypeOK
<1>7. CASE IncludeExecuted(r, x)
  <2>2. op' \in [Calls -> Operation]
    BY <1>2, <1>7 DEF TypeOK, ChainTypeOK, IncludeExecuted, Operation, NoOp
  <2>3. Emit("Executed", r, x.call)
    BY <1>7 DEF IncludeExecuted
  <2>4. log' \in Seq(Event) /\ Len(log') = Len(log) + 1 /\ Len(log') <= MaxLog
    BY <1>2, <2>3, EmitFacts
  <2>5. Len(log) \in Nat
    BY DEF TypeOK, ChainTypeOK
  <2> QED
    BY <1>3, <2>2, <2>4, <2>5 DEF ChainTypeOK
<1>8. CASE IncludeFailed(r, x)
  BY <1>3, <1>8 DEF IncludeFailed, ChainTypeOK, TypeOK
<1> QED
  BY <1>1, <1>5, <1>6, <1>7, <1>8

(* What the listener makes of the next event has the type of a record map. *)
LEMMA ProcessType ==
    ASSUME NEW recs, NEW p \in Nat, NEW f \in Nat, f <= p,
           DOMAIN recs \subseteq (f + 1)..p,
           recs \in [DOMAIN recs -> Record], NEW e \in Event
    PROVE  LET new == ProcessExtrinsic(recs, p + 1, e) IN
               /\ DOMAIN new \subseteq (f + 1)..(p + 1)
               /\ new \in [DOMAIN new -> Record]
<1> e.kind \in {"New", "Approve", "Executed"} /\ e.who \in Relayers /\ e.call \in Calls
  BY DEF Event
<1>1. CASE e.kind = "New"
  BY <1>1 DEF ProcessExtrinsic, MarkNew, Record
<1>2. ASSUME NEW rs, rs \in [DOMAIN recs -> Record]
      PROVE  /\ MarkVote(rs, e.call, e.who) \in [DOMAIN recs -> Record]
             /\ MarkExecution(rs, e.call) \in [DOMAIN recs -> Record]
  BY <1>2 DEF MarkVote, MarkExecution, Record
<1>3. CASE e.kind = "Approve"
  BY <1>2, <1>3 DEF ProcessExtrinsic, MarkVote
<1>4. CASE e.kind = "Executed"
  <2>1. MarkVote(recs, e.call, e.who) \in [DOMAIN recs -> Record]
    BY <1>2
  <2>2. ProcessExtrinsic(recs, p + 1, e) \in [DOMAIN recs -> Record]
    BY <1>2, <1>4, <2>1 DEF ProcessExtrinsic
  <2> QED
    BY <2>2
<1> QED
  BY <1>1, <1>3, <1>4

-----------------------------------------------------------------------------
(* Type correctness. *)

LEMMA InitType == Init => TypeOK
<1> SUFFICES ASSUME Init PROVE TypeOK
  OBVIOUS
<1>1. ChainTypeOK
  BY MaxLogAssumption DEF Init, ChainInit, ChainTypeOK, NoOp, Operation
<1>2. round \in 0..(Total - 1) /\ final \in 0..Len(log) /\ crashes \in 0..MaxCrashes
  BY TotalAssumption, MaxCrashesAssumption DEF Init, ChainInit
<1>3. \A r \in Relayers : /\ pos[r] = 0 /\ first[r] = 0 /\ DOMAIN msTx[r] = {}
                          /\ msTx[r] \in [DOMAIN msTx[r] -> Record]
  BY DEF Init, NoRecords
<1> QED
  BY <1>1, <1>2, <1>3 DEF Init, TypeOK, Control

(* A step of the writer. *)
LEMMA RedeemType ==
    ASSUME TypeOK, NEW r \in Relayers, NEW m \in Msgs, Redeem(r, m)
    PROVE  TypeOK'
<1> USE DEF TypeOK
<1>1. CASE ResolveMessage(r, m)
  BY <1>1 DEF ResolveMessage, Goto, Control, ChainTypeOK
<1>2. CASE CheckRepeat(r, m)
  BY <1>2 DEF CheckRepeat, Goto, Control, ChainTypeOK
<1>3. CASE MarkProcessing(r, m)
  <2>1. DestOf(m) \in Dest
    BY MessageAssumption DEF DestOf, Dest
  <2> QED
    BY <1>3, <2>1 DEF MarkProcessing, Goto, Control, ChainTypeOK
<1>4. ASSUME NEW to \in {"redeem", "finish", "submit"}, NEW tx \in Nat, Choose(r, m, to, tx)
      PROVE  TypeOK'
  BY <1>4 DEF Choose, Goto, Control, ChainTypeOK
<1>5. \A tx \in Candidates(r, m) : tx \in Nat
  BY DEF Candidates, Matching
<1>6. CASE RedeemExecuted(r, m)
  BY <1>4, <1>5, <1>6 DEF RedeemExecuted
<1>7. CASE RedeemApprove(r, m)
  BY <1>4, <1>5, <1>7 DEF RedeemApprove
<1>8. CASE RedeemNew(r, m)
  BY <1>4, <1>8 DEF RedeemNew
<1>9. CASE RedeemVoted(r, m)
  BY <1>4, <1>9 DEF RedeemVoted
<1>10. CASE GetRound(r, m)
  BY <1>10 DEF GetRound, Goto, Control, ChainTypeOK
<1>11. CASE SubmitTx(r, m)
  <2>1. [call |-> CallOf(m), tp |-> plan[r][m]] \in Extrinsic
    BY CallOfType DEF Extrinsic
  <2>2. pool' \in [Relayers -> SUBSET Extrinsic]
    BY <1>11, <2>1 DEF SubmitTx, Submitted, ChainTypeOK
  <2> QED
    BY <1>11, <2>2 DEF SubmitTx, Goto, Control, ChainTypeOK
<1>12. CASE Finish(r, m)
  <2>1. DEFINE new == Without(msTx[r], plan[r][m])
  <2>2. DOMAIN new \subseteq DOMAIN msTx[r] /\ new \in [DOMAIN new -> Record]
    BY DEF Without
  <2>3. msTx' = [msTx EXCEPT ![r] = new]
    BY <1>12 DEF Finish
  <2> HIDE DEF new
  <2> QED
    BY <1>12, <2>2, <2>3 DEF Finish, Goto, Control, ChainTypeOK
<1> QED
  BY <1>1, <1>2, <1>3, <1>6, <1>7, <1>8, <1>9, <1>10, <1>11, <1>12 DEF Redeem, Work

LEMMA ListenerType ==
    ASSUME TypeOK, NEW r \in Relayers, ProcessBlock(r)
    PROVE  TypeOK'
<1> DEFINE e == log[pos[r] + 1]
           new == ProcessExtrinsic(msTx[r], pos[r] + 1, e)
<1>1. /\ pos[r] \in Nat /\ pos[r] + 1 \in 1..Len(log) /\ pos[r] + 1 <= final
      /\ first[r] \in Nat /\ first[r] <= pos[r]
  BY DEF TypeOK, ChainTypeOK, ProcessBlock
<1>2. e \in Event
  BY <1>1, LogEntry
<1>3. DOMAIN new \subseteq (first[r] + 1)..(pos[r] + 1) /\ new \in [DOMAIN new -> Record]
  BY <1>1, <1>2, ProcessType DEF TypeOK
<1>4. /\ msTx' = [msTx EXCEPT ![r] = new]
      /\ pos' = [pos EXCEPT ![r] = pos[r] + 1]
      /\ UNCHANGED <<log, op, pool, final, round, first, messages, pc, plan, seen, crashes>>
  BY DEF ProcessBlock
<1> HIDE DEF new
<1> QED
  BY <1>1, <1>3, <1>4 DEF TypeOK, ChainTypeOK

(* A listener starts at a position of the log. *)
LEMMA StartsInLog ==
    ASSUME TypeOK, NEW r
    PROVE  StartPositions(r) \subseteq 0..Len(log)
  BY DEF StartPositions, TypeOK, ChainTypeOK

LEMMA RestartType ==
    ASSUME TypeOK, NEW r \in Relayers, Restart(r)
    PROVE  TypeOK'
<1>1. crashes + 1 \in 0..MaxCrashes
  BY MaxCrashesAssumption DEF TypeOK, Restart
<1>2. DOMAIN NoRecords = {} /\ NoRecords \in [{} -> Record]
  BY DEF NoRecords
<1>3. PICK p \in 0..Len(log) : /\ pos' = [pos EXCEPT ![r] = p]
                              /\ first' = [first EXCEPT ![r] = p]
  BY StartsInLog DEF Restart
<1>4. \A q \in Relayers :
          /\ first'[q] <= pos'[q] /\ pos'[q] <= Len(log')
          /\ pos'[q] > first'[q] => pos'[q] <= final'
          /\ DOMAIN msTx'[q] \subseteq (first'[q] + 1)..pos'[q]
          /\ msTx'[q] \in [DOMAIN msTx'[q] -> Record]
  BY <1>2, <1>3 DEF TypeOK, Restart
<1>5. pos' \in [Relayers -> Nat] /\ first' \in [Relayers -> Nat]
  BY <1>3 DEF TypeOK
<1> QED
  BY <1>1, <1>4, <1>5 DEF TypeOK, Restart, ChainTypeOK, Control

LEMMA EnvironmentType ==
    ASSUME TypeOK,
           NewBlock \/ \E r \in Relayers : BlockTakes(r) \/ PoolLoses(r)
    PROVE  TypeOK'
<1>1. CASE NewBlock
  <2>1. round' \in 0..(Total - 1)
    BY <1>1, TotalAssumption DEF TypeOK, NewBlock
  <2> QED
    BY <1>1, <2>1 DEF TypeOK, NewBlock, relayerVars, ChainTypeOK
<1>2. ASSUME NEW r \in Relayers, BlockTakes(r) PROVE TypeOK'
  <2>1. ChainTypeOK' /\ Len(log) <= Len(log')
    BY <1>2, IncludeType DEF BlockTakes
  <2> QED
    BY <1>2, <2>1 DEF TypeOK, BlockTakes, relayerVars, ChainTypeOK
<1>3. ASSUME NEW r \in Relayers, PoolLoses(r) PROVE TypeOK'
  BY <1>3 DEF TypeOK, PoolLoses, Drop, Taken, relayerVars, ChainTypeOK
<1> QED
  BY <1>1, <1>2, <1>3

LEMMA StutterType == TypeOK /\ UNCHANGED vars => TypeOK'
  BY DEF TypeOK, ChainTypeOK, vars

LEMMA NextType == TypeOK /\ [Next]_vars => TypeOK'
  BY RedeemType, ListenerType, RestartType, EnvironmentType, StutterType DEF Next

(***************************************************************************)
(* Every variable keeps its type: the listener's records always have keys  *)
(* of the log it has processed, and the log never exceeds its bound.       *)
(***************************************************************************)
THEOREM TypeCorrect == Spec => []TypeOK
<1>1. Init => TypeOK
  BY InitType
<1>2. TypeOK /\ [Next]_vars => TypeOK'
  BY NextType
<1> QED
  BY <1>1, <1>2, PTL DEF Spec

-----------------------------------------------------------------------------
(* Which steps touch what. *)

(* Where the goroutines are after one of them moved. *)
LEMMA MoveFacts ==
    ASSUME TypeOK, NEW r \in Relayers, NEW m \in Msgs, NEW from, NEW to, Goto(r, m, from, to)
    PROVE  /\ pc[r][m] = from /\ pc'[r][m] = to
           /\ \A q \in Relayers : \A n \in Msgs :
                 ~(q = r /\ n = m) => pc'[q][n] = pc[q][n]
  BY DEF TypeOK, Goto

(* A successful extrinsic of r is included, and nothing else happens. *)
Success(r, x) ==
    /\ x \in pool[r]
    /\ IncludeNew(r, x) \/ IncludeApprove(r, x) \/ IncludeExecuted(r, x)
    /\ UNCHANGED <<final, round, relayerVars, crashes>>

LEMMA LogStep ==
    ASSUME [Next]_vars
    PROVE  \/ UNCHANGED <<log, op>>
           \/ \E r \in Relayers : \E x \in pool[r] : Success(r, x)
<1>1. CASE UNCHANGED vars
  BY <1>1 DEF vars
<1>2. CASE NewBlock
  BY <1>2 DEF NewBlock
<1>3. ASSUME NEW r \in Relayers, ProcessBlock(r) \/ PoolLoses(r) \/ Restart(r)
      PROVE  UNCHANGED <<log, op>>
  BY <1>3 DEF ProcessBlock, PoolLoses, Drop, Restart
<1>4. ASSUME NEW r \in Relayers, NEW m \in Msgs, Redeem(r, m)
      PROVE  UNCHANGED <<log, op>>
  BY <1>4 DEF Redeem, Work, ResolveMessage, CheckRepeat, MarkProcessing, GetRound,
              RedeemVoted, RedeemExecuted, RedeemApprove, RedeemNew, Choose, SubmitTx, Finish
<1>5. ASSUME NEW r \in Relayers, BlockTakes(r)
      PROVE  UNCHANGED <<log, op>> \/ \E x \in pool[r] : Success(r, x)
  BY <1>5 DEF BlockTakes, Include, IncludeFailed, Success
<1> QED
  BY <1>1, <1>2, <1>3, <1>4, <1>5 DEF Next

(* Types of a successful extrinsic. *)
LEMMA SuccessType ==
    ASSUME TypeOK, NEW r \in Relayers, NEW x \in pool[r]
    PROVE  x \in Extrinsic /\ x.call \in Calls /\ x.tp \in Nat /\ op[x.call] \in Operation
  BY DEF TypeOK, ChainTypeOK, Extrinsic

(* History only grows. *)
LEMMA SeenGrows ==
    ASSUME TypeOK, [Next]_vars, NEW r \in Relayers
    PROVE  seen[r] \subseteq seen'[r]
<1>1. CASE UNCHANGED seen
  BY <1>1
<1>2. ASSUME NEW q \in Relayers, NEW m \in Msgs, Redeem(q, m)
      PROVE  UNCHANGED seen \/ seen' = [seen EXCEPT ![q] = @ \cup {m}]
  BY <1>2 DEF Redeem, Work, ResolveMessage, CheckRepeat, MarkProcessing, GetRound,
              RedeemVoted, RedeemExecuted, RedeemApprove, RedeemNew, Choose, SubmitTx, Finish
<1>3. ASSUME NEW q \in Relayers,
             ProcessBlock(q) \/ PoolLoses(q) \/ Restart(q) \/ BlockTakes(q)
      PROVE  UNCHANGED seen
  BY <1>3 DEF ProcessBlock, PoolLoses, BlockTakes, Restart, relayerVars
<1>4. NewBlock => UNCHANGED seen
  BY DEF NewBlock, relayerVars
<1>5. ASSUME NEW q \in Relayers, NEW m \in Msgs, Redeem(q, m)
      PROVE  seen[r] \subseteq seen'[r]
  <2>1. seen \in [Relayers -> SUBSET Msgs]
    BY DEF TypeOK
  <2>2. UNCHANGED seen \/ seen' = [seen EXCEPT ![q] = seen[q] \cup {m}]
    BY <1>2, <1>5
  <2> QED
    BY <2>1, <2>2
<1> QED
  BY <1>1, <1>3, <1>4, <1>5 DEF Next, vars

LEMMA InstructedGrows ==
    ASSUME TypeOK, [Next]_vars, NEW c
    PROVE  Instructed(c) \subseteq Instructed(c)'
  BY SeenGrows DEF Instructed

LEMMA InstructedFinite == \A c : IsFiniteSet(Instructed(c))
  BY RelayersAssumption, FS_Subset DEF Instructed
LEMMA InstructedFiniteNext == \A c : IsFiniteSet(Instructed(c)')
  BY RelayersAssumption, FS_Subset DEF Instructed

-----------------------------------------------------------------------------
(* Authority: nobody acts for a call without a deposit that pays it. *)

(* A goroutine that runs was started for a message. *)
LEMMA ActiveIsSeen ==
    ASSUME TypeOK, [Next]_vars, Authority,
           NEW r \in Relayers, NEW m \in Msgs, pc'[r][m] # "idle"
    PROVE  m \in seen'[r]
<1>0. pc[r][m] # "idle" => m \in seen'[r]
  BY SeenGrows DEF Authority
<1>1. CASE UNCHANGED pc
  BY <1>0, <1>1
<1>2. ASSUME NEW q \in Relayers, NEW n \in Msgs, Redeem(q, n), pc[r][m] = "idle"
      PROVE  m \in seen'[r]
  <2>1. CASE ResolveMessage(q, n)
    BY <1>2, <2>1 DEF TypeOK, ResolveMessage, Goto
  <2>2. CASE ~ResolveMessage(q, n)
    <3>1. pc[q][n] # "idle" /\ \E to \in Control : pc' = [pc EXCEPT ![q][n] = to]
      BY <1>2, <2>2 DEF Redeem, Work, CheckRepeat, MarkProcessing, GetRound,
              RedeemVoted, RedeemExecuted, RedeemApprove, RedeemNew, Choose, SubmitTx, Finish, Goto, Control
    <3>2. pc'[r][m] = "idle"
      BY <1>2, <3>1 DEF TypeOK
    <3> QED
      BY <3>2
  <2> QED
    BY <2>1, <2>2
<1>3. ASSUME NEW q \in Relayers, Restart(q)
      PROVE  m \in seen'[r]
  BY <1>0, <1>3 DEF TypeOK, Restart
<1>4. ASSUME NEW q \in Relayers,
             ProcessBlock(q) \/ PoolLoses(q) \/ BlockTakes(q)
      PROVE  UNCHANGED pc
  BY <1>4 DEF ProcessBlock, PoolLoses, BlockTakes, relayerVars
<1>5. NewBlock => UNCHANGED pc
  BY DEF NewBlock, relayerVars
<1> QED
  BY <1>0, <1>1, <1>2, <1>3, <1>4, <1>5 DEF Next, vars

(* A pending extrinsic was submitted for a message. *)
LEMMA PendingIsInstructed ==
    ASSUME TypeOK, [Next]_vars, Authority,
           NEW r \in Relayers, NEW x \in pool'[r]
    PROVE  r \in Instructed(x.call)'
<1>1. x \in pool[r] => r \in Instructed(x.call)'
  BY InstructedGrows DEF Authority
<1>2. CASE UNCHANGED pool
  BY <1>1, <1>2
<1>3. ASSUME NEW q \in Relayers, Taken(q)
      PROVE  x \in pool[r]
  BY <1>3 DEF Taken, TypeOK, ChainTypeOK
<1>4. ASSUME NEW q \in Relayers, NEW m \in Msgs, SubmitTx(q, m)
      PROVE  r \in Instructed(x.call)'
  <2>1. CASE x \in pool[r]
    BY <1>1, <2>1
  <2>2. CASE x \notin pool[r]
    <3>1. q = r /\ x.call = CallOf(m)
      BY <1>4, <2>2 DEF SubmitTx, Submitted, TypeOK, ChainTypeOK
    <3>2. m \in seen[r] /\ seen' = seen
      BY <1>4, <3>1 DEF SubmitTx, Goto, Authority
    <3> QED
      BY <3>1, <3>2 DEF Instructed
  <2> QED
    BY <2>1, <2>2
<1>5. ASSUME NEW q \in Relayers, NEW m \in Msgs, Redeem(q, m), ~SubmitTx(q, m)
      PROVE  UNCHANGED pool
  BY <1>5 DEF Redeem, Work, ResolveMessage, CheckRepeat, MarkProcessing, GetRound,
              RedeemVoted, RedeemExecuted, RedeemApprove, RedeemNew, Choose, Finish
<1>6. ASSUME NEW q \in Relayers, PoolLoses(q) \/ BlockTakes(q)
      PROVE  Taken(q)
  BY <1>6 DEF PoolLoses, BlockTakes, Drop, Include, IncludeNew, IncludeApprove,
              IncludeExecuted, IncludeFailed
<1>7. ASSUME NEW q \in Relayers, ProcessBlock(q) \/ Restart(q)
      PROVE  UNCHANGED pool
  BY <1>7 DEF ProcessBlock, Restart
<1>8. NewBlock => UNCHANGED pool
  BY DEF NewBlock
<1>9. UNCHANGED vars => UNCHANGED pool
  BY DEF vars
<1>10. ASSUME NEW q \in Relayers, NEW m \in Msgs, Redeem(q, m)
       PROVE  r \in Instructed(x.call)'
  BY <1>2, <1>4, <1>5, <1>10
<1>11. ASSUME NEW q \in Relayers, PoolLoses(q) \/ BlockTakes(q)
       PROVE  r \in Instructed(x.call)'
  BY <1>1, <1>3, <1>6, <1>11
<1> QED
  BY <1>2, <1>7, <1>8, <1>9, <1>10, <1>11 DEF Next

LEMMA AuthorityStep ==
    ASSUME TypeOK, [Next]_vars, Authority
    PROVE  Authority'
<1>1. ASSUME NEW c \in Calls PROVE op'[c].approvals \subseteq Instructed(c)'
  <2>1. CASE UNCHANGED <<log, op>>
    BY <2>1, InstructedGrows DEF Authority
  <2>2. ASSUME NEW r \in Relayers, NEW x \in pool[r], Success(r, x)
        PROVE  op'[c].approvals \subseteq op[c].approvals \cup {q \in {r} : x.call = c}
    <3>1. x.call \in Calls /\ op[x.call] \in Operation
      BY SuccessType
    <3>2. CASE IncludeNew(r, x)
      BY <3>1, <3>2 DEF IncludeNew, TypeOK, ChainTypeOK, Operation
    <3>3. CASE IncludeApprove(r, x)
      BY <3>1, <3>3 DEF IncludeApprove, TypeOK, ChainTypeOK, Operation
    <3>4. CASE IncludeExecuted(r, x)
      BY <3>1, <3>4 DEF IncludeExecuted, TypeOK, ChainTypeOK, Operation, NoOp
    <3> QED
      BY <2>2, <3>2, <3>3, <3>4 DEF Success
  <2>3. ASSUME NEW r \in Relayers, NEW x \in pool[r], Success(r, x)
        PROVE  op'[c].approvals \subseteq Instructed(c)
    BY <2>2, <2>3 DEF Authority
  <2> QED
    BY <2>1, <2>3, LogStep, InstructedGrows
<1> QED
  BY <1>1, ActiveIsSeen, PendingIsInstructed DEF Authority

LEMMA PayoutStep ==
    ASSUME TypeOK, [Next]_vars, Authority, PayoutAuthorised
    PROVE  PayoutAuthorised'
<1>1. ASSUME NEW c, Cardinality(Instructed(c)) >= Threshold
      PROVE  Cardinality(Instructed(c)') >= Threshold
  <2>1. Cardinality(Instructed(c)) <= Cardinality(Instructed(c)')
    BY InstructedGrows, InstructedFiniteNext, FS_Subset
  <2>2. Cardinality(Instructed(c)) \in Nat /\ Cardinality(Instructed(c)') \in Nat
    BY InstructedFinite, InstructedFiniteNext, FS_CardinalityType
  <2> QED
    BY <1>1, <2>1, <2>2, ThresholdAssumption
<1>2. CASE UNCHANGED <<log, op>>
  BY <1>1, <1>2 DEF PayoutAuthorised
<1>3. ASSUME NEW r \in Relayers, NEW x \in pool[r], Success(r, x)
      PROVE  PayoutAuthorised'
  <2>1. x.call \in Calls /\ op[x.call] \in Operation
    BY SuccessType
  <2>2. PICK kind \in {"New", "Approve", "Executed"} :
            Emit(kind, r, x.call) /\ (kind = "Executed" => IncludeExecuted(r, x))
    BY <1>3 DEF Success, IncludeNew, IncludeApprove, IncludeExecuted
  <2>3. /\ Len(log') = Len(log) + 1 /\ Len(log) \in Nat
        /\ log'[Len(log) + 1] = [kind |-> kind, who |-> r, call |-> x.call]
        /\ \A i \in 1..Len(log) : log'[i] = log[i]
    <3>1. Len(log) \in Nat
      BY DEF TypeOK, ChainTypeOK
    <3> QED
      BY <2>1, <2>2, <3>1, EmitFacts
  <2>4. kind = "Executed" => Cardinality(Instructed(x.call)) >= Threshold
    <3> SUFFICES ASSUME kind = "Executed"
                 PROVE  Cardinality(Instructed(x.call)) >= Threshold
      OBVIOUS
    <3> DEFINE votes == op[x.call].approvals \cup {r}
    <3>1. Cardinality(votes) >= Threshold
      BY <2>2 DEF IncludeExecuted
    <3>2. votes \subseteq Instructed(x.call)
      BY <2>1 DEF Authority
    <3>3. /\ Cardinality(votes) <= Cardinality(Instructed(x.call))
          /\ Cardinality(votes) \in Nat /\ Cardinality(Instructed(x.call)) \in Nat
      BY <3>2, InstructedFinite, FS_Subset, FS_CardinalityType
    <3> QED
      BY <3>1, <3>3, ThresholdAssumption
  <2>5. ASSUME NEW i \in 1..Len(log'), log'[i].kind = "Executed", NEW c, c = log'[i].call
        PROVE  Cardinality(Instructed(c)') >= Threshold
    <3>1. CASE i \in 1..Len(log)
      BY <1>1, <2>3, <2>5, <3>1 DEF PayoutAuthorised
    <3>2. CASE i = Len(log) + 1
      BY <1>1, <2>3, <2>4, <2>5, <3>2
    <3> QED
      BY <2>3, <3>1, <3>2
  <2>6. ASSUME NEW i \in 1..Len(log'), log'[i].kind = "Executed"
        PROVE  Cardinality(Instructed(log[i].call))' >= Threshold
    BY <2>5, <2>6 DEF Instructed
  <2> QED
    BY <2>6 DEF PayoutAuthorised
<1> QED
  BY <1>2, <1>3, LogStep

(***************************************************************************)
(* No deposit, no payout: an executed call was backed by Threshold         *)
(* relayers, each of which was routed a deposit that pays it.              *)
(***************************************************************************)
THEOREM PayoutIsAuthorised == Spec => []PayoutAuthorised
<1>1. Init => TypeOK /\ Authority /\ PayoutAuthorised
  <2>1. Init => Authority
    BY DEF Init, ChainInit, Authority, NoOp
  <2>2. Init => PayoutAuthorised
    BY DEF Init, ChainInit, PayoutAuthorised
  <2> QED
    BY <2>1, <2>2, InitType
<1>2. TypeOK /\ Authority /\ PayoutAuthorised /\ [Next]_vars
        => (TypeOK /\ Authority /\ PayoutAuthorised)'
  BY NextType, AuthorityStep, PayoutStep
<1> QED
  BY <1>1, <1>2, PTL DEF Spec

-----------------------------------------------------------------------------
(* The pallet's state is what the log says. *)

ChainInv == OpenIsLast /\ ClosedIsExecuted /\ ExecutedBetween

(* The entry a successful extrinsic leaves. *)
LEMMA SuccessEntry ==
    ASSUME TypeOK, NEW r \in Relayers, NEW x \in pool[r],
           NEW kind \in {"New", "Approve", "Executed"}, Emit(kind, r, x.call)
    PROVE  /\ Len(log) \in Nat /\ Len(log') = Len(log) + 1
           /\ log'[Len(log) + 1].kind = kind /\ log'[Len(log) + 1].who = r
           /\ log'[Len(log) + 1].call = x.call
           /\ \A i \in 1..Len(log) : log'[i] = log[i]
<1>1. Len(log) \in Nat
  BY DEF TypeOK, ChainTypeOK
<1>2. x.call \in Calls
  BY SuccessType
<1>3. /\ Len(log') = Len(log) + 1
      /\ log'[Len(log) + 1] = [kind |-> kind, who |-> r, call |-> x.call]
      /\ \A i \in 1..Len(log) : log'[i] = log[i]
  BY <1>2, EmitFacts
<1> QED
  BY <1>1, <1>3

(* No step rewrites the log. *)
LEMMA LogGrows ==
    ASSUME TypeOK, [Next]_vars
    PROVE  /\ Len(log) \in Nat /\ Len(log') \in Nat /\ Len(log) <= Len(log')
           /\ \A i \in 1..Len(log) : log'[i] = log[i]
<1>1. Len(log) \in Nat
  BY DEF TypeOK, ChainTypeOK
<1>2. CASE UNCHANGED <<log, op>>
  BY <1>1, <1>2
<1>3. ASSUME NEW r \in Relayers, NEW x \in pool[r], Success(r, x)
      PROVE  Len(log') = Len(log) + 1 /\ \A i \in 1..Len(log) : log'[i] = log[i]
  <2>1. PICK kind \in {"New", "Approve", "Executed"} : Emit(kind, r, x.call)
    BY <1>3 DEF Success, IncludeNew, IncludeApprove, IncludeExecuted
  <2> QED
    BY <2>1, SuccessEntry
<1> QED
  BY <1>1, <1>2, <1>3, LogStep

(* So what a prefix of the log says stays said. *)
LEMMA PrefixStable ==
    ASSUME NEW n \in Nat, \A i \in 1..n : log'[i] = log[i],
           NEW c, NEW i \in Nat \ {0}, NEW j \in Nat, j <= n
    PROVE  /\ (ExecutedIn(c, i, j)' <=> ExecutedIn(c, i, j))
           /\ VotersIn(c, i, j)' = VotersIn(c, i, j)
<1>1. \A k \in i..j : log'[k] = log[k]
  OBVIOUS
<1>2. ExecutedIn(c, i, j)' <=> ExecutedIn(c, i, j)
  BY <1>1 DEF ExecutedIn
<1>3. {l \in i..j : log'[l].call = c} = {l \in i..j : log[l].call = c}
  BY <1>1
<1>4. VotersIn(c, i, j)' = VotersIn(c, i, j)
  BY <1>1, <1>3 DEF VotersIn
<1> QED
  BY <1>2, <1>4

(* One more entry, at n + 1. *)
LEMMA OneMore ==
    ASSUME NEW n \in Nat, NEW c, NEW i \in 1..(n + 1)
    PROVE  /\ (ExecutedIn(c, i, n + 1) <=>
                  \/ ExecutedIn(c, i, n)
                  \/ log[n + 1].kind = "Executed" /\ log[n + 1].call = c)
           /\ VotersIn(c, i, n + 1) =
                  IF log[n + 1].call = c THEN VotersIn(c, i, n) \cup {log[n + 1].who}
                                         ELSE VotersIn(c, i, n)
<1>1. i..(n + 1) = (i..n) \cup {n + 1}
  OBVIOUS
<1>2. ExecutedIn(c, i, n + 1) <=>
                  \/ ExecutedIn(c, i, n)
                  \/ log[n + 1].kind = "Executed" /\ log[n + 1].call = c
  BY <1>1 DEF ExecutedIn
<1>3. CASE log[n + 1].call = c
  <2>1. {l \in i..(n + 1) : log[l].call = c} = {l \in i..n : log[l].call = c} \cup {n + 1}
    BY <1>1, <1>3
  <2> QED
    BY <1>2, <1>3, <2>1 DEF VotersIn
<1>4. CASE log[n + 1].call # c
  <2>1. {l \in i..(n + 1) : log[l].call = c} = {l \in i..n : log[l].call = c}
    BY <1>1, <1>4
  <2> QED
    BY <1>2, <1>4, <2>1 DEF VotersIn
<1> QED
  BY <1>3, <1>4

(* A longer range holds no fewer executions. *)
LEMMA Widen ==
    ASSUME NEW c, NEW i \in Nat, NEW j \in Nat, NEW a \in Nat, NEW b \in Nat,
           a <= i, j <= b, ExecutedIn(c, i, j)
    PROVE  ExecutedIn(c, a, b)
  BY DEF ExecutedIn

(* One more entry, appended by this step. *)
LEMMA OneAppended ==
    ASSUME NEW n \in Nat, \A i \in 1..n : log'[i] = log[i],
           NEW c, NEW i \in 1..(n + 1)
    PROVE  /\ (ExecutedIn(c, i, n + 1)' <=>
                  \/ ExecutedIn(c, i, n)
                  \/ log'[n + 1].kind = "Executed" /\ log'[n + 1].call = c)
           /\ VotersIn(c, i, n + 1)' =
                  IF log'[n + 1].call = c THEN VotersIn(c, i, n) \cup {log'[n + 1].who}
                                          ELSE VotersIn(c, i, n)
<1>0. \A l \in i..n : log'[l] = log[l]
  OBVIOUS
<1>1. i..(n + 1) = (i..n) \cup {n + 1}
  OBVIOUS
<1>2. ExecutedIn(c, i, n + 1)' <=>
                  \/ ExecutedIn(c, i, n)
                  \/ log'[n + 1].kind = "Executed" /\ log'[n + 1].call = c
  BY <1>0, <1>1 DEF ExecutedIn
<1>3. CASE log'[n + 1].call = c
  <2>1. {l \in i..(n + 1) : log'[l].call = c} = {l \in i..n : log[l].call = c} \cup {n + 1}
    BY <1>0, <1>1, <1>3
  <2> QED
    BY <1>0, <1>2, <1>3, <2>1 DEF VotersIn
<1>4. CASE log'[n + 1].call # c
  <2>1. {l \in i..(n + 1) : log'[l].call = c} = {l \in i..n : log[l].call = c}
    BY <1>0, <1>1, <1>4
  <2> QED
    BY <1>0, <1>2, <1>4, <2>1 DEF VotersIn
<1> QED
  BY <1>3, <1>4

(* How the three kinds of success change the chain. *)
LEMMA ChainStep ==
    ASSUME TypeOK, ChainInv, NEW r \in Relayers, NEW x \in pool[r], Success(r, x)
    PROVE  ChainInv'
<1> DEFINE c == x.call
<1>1. PICK kind \in {"New", "Approve", "Executed"} :
          /\ Emit(kind, r, c)
          /\ kind = "New" => IncludeNew(r, x)
          /\ kind = "Approve" => IncludeApprove(r, x)
          /\ kind = "Executed" => IncludeExecuted(r, x)
  BY DEF Success, IncludeNew, IncludeApprove, IncludeExecuted
<1>2. PICK n \in Nat : n = Len(log)
  <2>1. log \in Seq(Event)
    BY DEF TypeOK, ChainTypeOK
  <2> QED
    BY <2>1
<1>3. /\ Len(log') = n + 1
      /\ log'[n + 1].kind = kind /\ log'[n + 1].who = r /\ log'[n + 1].call = c
      /\ \A i \in 1..n : log'[i] = log[i]
  BY <1>1, <1>2, SuccessEntry
<1>4. c \in Calls /\ op \in [Calls -> Operation] /\ x.tp \in Nat
  BY SuccessType DEF TypeOK, ChainTypeOK
<1>5. \A d \in Calls : op[d].tx \in Nat /\ op[d].approvals \in SUBSET Relayers
  BY <1>4 DEF Operation
<1>6. ASSUME NEW d, NEW i \in 1..(n + 1)
      PROVE  /\ (ExecutedIn(d, i, n + 1)' <=>
                    ExecutedIn(d, i, n) \/ (kind = "Executed" /\ d = c))
             /\ d = c => VotersIn(d, i, n + 1)' = VotersIn(d, i, n) \cup {r}
             /\ d # c => VotersIn(d, i, n + 1)' = VotersIn(d, i, n)
  BY <1>3, OneAppended
<1>7. ASSUME NEW d, NEW i \in 1..n, NEW k \in 1..n
      PROVE  ExecutedIn(d, i, k)' <=> ExecutedIn(d, i, k)
  <2>1. i \in Nat \ {0} /\ k \in Nat /\ k <= n
    OBVIOUS
  <2> QED
    BY <1>3, <2>1, PrefixStable
<1>8. \A i \in 1..n : log[i].call \in Calls
  BY <1>2, LogEntry
<1> HIDE DEF c
<1>9. CASE kind = "New"
  <2>1. op[c].tx = 0 /\ op' = [op EXCEPT ![c] = [tx |-> n + 1, approvals |-> {r}]]
    BY <1>1, <1>2, <1>9 DEF IncludeNew, Accepts, c
  <2>2. op[c] = NoOp
    BY <1>2, <1>4, <2>1 DEF ChainInv, OpenIsLast
  <2>3. \A d : VotersIn(d, n + 1, n) = {} /\ ~ExecutedIn(d, n + 1, n)
    BY DEF VotersIn, ExecutedIn
  <2>4. OpenIsLast'
    <3>1. ASSUME NEW d \in Calls, op'[d] # NoOp, NEW t, t = op'[d].tx
          PROVE  /\ t \in 1..(n + 1)
                 /\ log'[t].call = d /\ log'[t].kind = "New"
                 /\ ~ExecutedIn(d, t, n + 1)'
                 /\ op'[d].approvals = VotersIn(d, t, n + 1)'
      <4>1. CASE d = c
        <5>1. t = n + 1 /\ op'[d].approvals = {r}
          BY <1>4, <2>1, <3>1, <4>1
        <5>2. n + 1 \in 1..(n + 1)
          OBVIOUS
        <5>3. ~ExecutedIn(d, n + 1, n + 1)'
          BY <1>6, <1>9, <2>3, <5>2
        <5>4. VotersIn(d, n + 1, n + 1)' = {r}
          BY <1>6, <2>3, <4>1, <5>2
        <5> QED
          BY <1>3, <1>9, <4>1, <5>1, <5>2, <5>3, <5>4
      <4>2. CASE d # c
        <5>1. op'[d] = op[d]
          BY <1>4, <2>1, <4>2
        <5>2. /\ t \in 1..n /\ log[t].call = d /\ log[t].kind = "New"
              /\ ~ExecutedIn(d, t, n) /\ op[d].approvals = VotersIn(d, t, n)
          BY <1>2, <3>1, <5>1 DEF ChainInv, OpenIsLast, IsNew
        <5>3. t \in 1..(n + 1) /\ log'[t] = log[t]
          BY <1>3, <5>2
        <5>4. ~ExecutedIn(d, t, n + 1)' /\ VotersIn(d, t, n + 1)' = VotersIn(d, t, n)
          BY <1>6, <1>9, <4>2, <5>2, <5>3
        <5> QED
          BY <5>1, <5>2, <5>3, <5>4
      <4> QED
        BY <4>1, <4>2
    <3> QED
      BY <1>3, <3>1 DEF OpenIsLast, IsNew, ExecutedIn, VotersIn
  <2>5. ClosedIsExecuted'
    <3>1. ASSUME NEW i \in 1..(n + 1), log'[i].kind = "New", NEW d, d = log'[i].call,
                 op'[d].tx # i
          PROVE  ExecutedIn(d, i, n + 1)'
      <4>1. CASE i = n + 1
        BY <1>3, <1>4, <2>1, <3>1, <4>1
      <4>2. CASE i \in 1..n
        <5>1. log[i].kind = "New" /\ d = log[i].call /\ d \in Calls
          BY <1>3, <1>8, <3>1, <4>2
        <5>2. op[d].tx # i
          BY <1>4, <2>1, <3>1, <4>2, <5>1
        <5>3. ExecutedIn(d, i, n)
          BY <1>2, <4>2, <5>1, <5>2 DEF ChainInv, ClosedIsExecuted, IsNew
        <5> QED
          BY <1>6, <5>3
      <4> QED
        BY <4>1, <4>2
    <3> QED
      BY <1>3, <3>1 DEF ClosedIsExecuted, IsNew, ExecutedIn
  <2>6. ExecutedBetween'
    <3>1. ASSUME NEW i \in 1..(n + 1), NEW k \in 1..(n + 1), i < k,
                 log'[i].kind = "New", log'[k].kind = "New",
                 NEW d, d = log'[i].call, d = log'[k].call
          PROVE  ExecutedIn(d, i, k)'
      <4>0. i \in 1..n /\ log[i].kind = "New" /\ d = log[i].call /\ d \in Calls
        <5>1. i \in 1..n
          BY <3>1
        <5>2. log'[i] = log[i] /\ log[i].call \in Calls
          BY <1>3, <1>8, <5>1
        <5> QED
          BY <3>1, <5>1, <5>2
      <4>1. CASE k = n + 1
        <5>1. d = c /\ op[d].tx # i
          <6>1. d = c
            BY <1>3, <3>1, <4>1
          <6> QED
            BY <2>1, <4>0, <6>1
        <5>2. ExecutedIn(d, i, n)
          BY <1>2, <4>0, <5>1 DEF ChainInv, ClosedIsExecuted, IsNew
        <5> QED
          BY <1>6, <4>1, <5>2
      <4>2. CASE k \in 1..n
        <5>1. log[k].kind = "New" /\ d = log[k].call
          BY <1>3, <3>1, <4>2
        <5>2. ExecutedIn(d, i, k)
          BY <1>2, <3>1, <4>0, <4>2, <5>1 DEF ChainInv, ExecutedBetween, IsNew
        <5> QED
          BY <1>7, <4>0, <4>2, <5>2
      <4> QED
        BY <4>1, <4>2
    <3> QED
      BY <1>3, <3>1 DEF ExecutedBetween, IsNew, ExecutedIn
  <2> QED
    BY <2>4, <2>5, <2>6 DEF ChainInv
<1>10. ASSUME kind # "New"
       PROVE  /\ ExecutedBetween'
              /\ \A i \in 1..(n + 1) : log'[i].kind = "New" =>
                    i \in 1..n /\ log'[i] = log[i] /\ log[i].kind = "New"
  <2>1. ASSUME NEW i \in 1..(n + 1), log'[i].kind = "New"
        PROVE  i \in 1..n /\ log'[i] = log[i] /\ log[i].kind = "New"
    <3>1. i # n + 1
      BY <1>3, <1>10, <2>1
    <3>2. i \in 1..n
      BY <3>1
    <3> QED
      BY <1>3, <2>1, <3>2
  <2>2. ASSUME NEW i \in 1..(n + 1), NEW k \in 1..(n + 1), i < k,
               log'[i].kind = "New", log'[k].kind = "New",
               NEW d, d = log'[i].call, d = log'[k].call
        PROVE  ExecutedIn(d, i, k)'
    <3>1. /\ i \in 1..n /\ log[i].kind = "New" /\ d = log[i].call
          /\ k \in 1..n /\ log[k].kind = "New" /\ d = log[k].call
      BY <2>1, <2>2
    <3>2. ExecutedIn(d, i, k)
      BY <1>2, <2>2, <3>1 DEF ChainInv, ExecutedBetween, IsNew
    <3> QED
      BY <1>7, <3>1, <3>2
  <2> QED
    BY <1>3, <2>1, <2>2 DEF ExecutedBetween, IsNew, ExecutedIn
<1>11. CASE kind = "Approve"
  <2>1. /\ op[c].tx # 0 /\ op[c] # NoOp
        /\ op' = [op EXCEPT ![c].approvals = @ \cup {r}]
    BY <1>1, <1>11 DEF IncludeApprove, Accepts, NoOp, c
  <2>2. /\ op'[c].tx = op[c].tx /\ op'[c].approvals = op[c].approvals \cup {r}
        /\ \A d \in Calls \ {c} : op'[d] = op[d]
    BY <1>4, <1>5, <2>1 DEF Operation
  <2>3. \A d \in Calls : op'[d].tx = op[d].tx /\ (op'[d] # NoOp => op[d] # NoOp)
    BY <2>1, <2>2
  <2>4. OpenIsLast'
    <3>1. ASSUME NEW d \in Calls, op'[d] # NoOp, NEW t, t = op'[d].tx
          PROVE  /\ t \in 1..(n + 1)
                 /\ log'[t].call = d /\ log'[t].kind = "New"
                 /\ ~ExecutedIn(d, t, n + 1)'
                 /\ op'[d].approvals = VotersIn(d, t, n + 1)'
      <4>1. op[d] # NoOp /\ op[d].tx = t
        BY <2>3, <3>1
      <4>2. /\ t \in 1..n /\ log[t].call = d /\ log[t].kind = "New"
            /\ ~ExecutedIn(d, t, n) /\ op[d].approvals = VotersIn(d, t, n)
        BY <1>2, <4>1 DEF ChainInv, OpenIsLast, IsNew
      <4>3. t \in 1..(n + 1) /\ log'[t] = log[t]
        BY <1>3, <4>2
      <4>4. ~ExecutedIn(d, t, n + 1)'
        BY <1>6, <1>11, <4>2, <4>3
      <4>5. op'[d].approvals = VotersIn(d, t, n + 1)'
        <5>1. CASE d = c
          <6>1. VotersIn(d, t, n + 1)' = VotersIn(d, t, n) \cup {r}
            BY <1>6, <4>3, <5>1
          <6>2. op'[d].approvals = op[d].approvals \cup {r}
            BY <2>2, <5>1
          <6> QED
            BY <4>2, <6>1, <6>2
        <5>2. CASE d # c
          BY <1>6, <2>2, <4>2, <4>3, <5>2
        <5> QED
          BY <5>1, <5>2
      <4> QED
        BY <4>2, <4>3, <4>4, <4>5
    <3> QED
      BY <1>3, <3>1 DEF OpenIsLast, IsNew, ExecutedIn, VotersIn
  <2>5. ClosedIsExecuted'
    <3>1. ASSUME NEW i \in 1..(n + 1), log'[i].kind = "New", NEW d, d = log'[i].call,
                 op'[d].tx # i
          PROVE  ExecutedIn(d, i, n + 1)'
      <4>1. i \in 1..n /\ log[i].kind = "New" /\ d = log[i].call /\ d \in Calls
        BY <1>8, <1>10, <1>11, <3>1
      <4>2. op[d].tx # i
        BY <2>3, <3>1, <4>1
      <4>3. ExecutedIn(d, i, n)
        BY <1>2, <4>1, <4>2 DEF ChainInv, ClosedIsExecuted, IsNew
      <4> QED
        BY <1>6, <4>3
    <3> QED
      BY <1>3, <3>1 DEF ClosedIsExecuted, IsNew, ExecutedIn
  <2> QED
    BY <1>10, <1>11, <2>4, <2>5 DEF ChainInv
<1>12. CASE kind = "Executed"
  <2>1. op' = [op EXCEPT ![c] = NoOp]
    BY <1>1, <1>12 DEF IncludeExecuted, c
  <2>2. op'[c] = NoOp /\ \A d \in Calls \ {c} : op'[d] = op[d]
    BY <1>4, <2>1
  <2>4. OpenIsLast'
    <3>1. ASSUME NEW d \in Calls, op'[d] # NoOp, NEW t, t = op'[d].tx
          PROVE  /\ t \in 1..(n + 1)
                 /\ log'[t].call = d /\ log'[t].kind = "New"
                 /\ ~ExecutedIn(d, t, n + 1)'
                 /\ op'[d].approvals = VotersIn(d, t, n + 1)'
      <4>1. d # c /\ op'[d] = op[d]
        BY <2>2, <3>1
      <4>2. /\ t \in 1..n /\ log[t].call = d /\ log[t].kind = "New"
            /\ ~ExecutedIn(d, t, n) /\ op[d].approvals = VotersIn(d, t, n)
        BY <1>2, <3>1, <4>1 DEF ChainInv, OpenIsLast, IsNew
      <4>3. t \in 1..(n + 1) /\ log'[t] = log[t]
        BY <1>3, <4>2
      <4>4. ~ExecutedIn(d, t, n + 1)' /\ VotersIn(d, t, n + 1)' = VotersIn(d, t, n)
        BY <1>6, <4>1, <4>2, <4>3
      <4> QED
        BY <4>1, <4>2, <4>3, <4>4
    <3> QED
      BY <1>3, <3>1 DEF OpenIsLast, IsNew, ExecutedIn, VotersIn
  <2>5. ClosedIsExecuted'
    <3>1. ASSUME NEW i \in 1..(n + 1), log'[i].kind = "New", NEW d, d = log'[i].call,
                 op'[d].tx # i
          PROVE  ExecutedIn(d, i, n + 1)'
      <4>1. i \in 1..n /\ log[i].kind = "New" /\ d = log[i].call /\ d \in Calls
        BY <1>8, <1>10, <1>12, <3>1
      <4>2. CASE d = c
        BY <1>6, <1>12, <4>2
      <4>3. CASE d # c
        <5>1. op[d].tx # i
          BY <2>2, <3>1, <4>1, <4>3
        <5>2. ExecutedIn(d, i, n)
          BY <1>2, <4>1, <5>1 DEF ChainInv, ClosedIsExecuted, IsNew
        <5> QED
          BY <1>6, <5>2
      <4> QED
        BY <4>2, <4>3
    <3> QED
      BY <1>3, <3>1 DEF ClosedIsExecuted, IsNew, ExecutedIn
  <2> QED
    BY <1>10, <1>12, <2>4, <2>5 DEF ChainInv
<1> QED
  BY <1>9, <1>11, <1>12

LEMMA ChainInvStep == TypeOK /\ ChainInv /\ [Next]_vars => ChainInv'
<1> SUFFICES ASSUME TypeOK, ChainInv, [Next]_vars PROVE ChainInv'
  OBVIOUS
<1>1. CASE UNCHANGED <<log, op>>
  BY <1>1 DEF ChainInv, OpenIsLast, ClosedIsExecuted, ExecutedBetween, IsNew,
              ExecutedIn, VotersIn
<1> QED
  BY <1>1, LogStep, ChainStep

-----------------------------------------------------------------------------
(* What processBlock does to the records. *)

(* A New adds its record and keeps the others. *)
AddsRecord(recs, tx, e, new) ==
    /\ DOMAIN new = DOMAIN recs \cup {tx}
    /\ new[tx].call = e.call /\ ~new[tx].executed /\ new[tx].voters = {e.who}
    /\ \A k \in DOMAIN recs : new[k] = recs[k]

(* An Approve adds a vote to the open records of its call. *)
AddsVote(recs, e, new) ==
    /\ DOMAIN new = DOMAIN recs
    /\ \A k \in DOMAIN recs :
          /\ new[k].call = recs[k].call
          /\ new[k].executed <=> recs[k].executed
          /\ ~recs[k].executed /\ e.call = recs[k].call =>
                 new[k].voters = recs[k].voters \cup {e.who}
          /\ ~recs[k].executed /\ e.call # recs[k].call =>
                 new[k].voters = recs[k].voters

(* An Executed closes the open records of its call. *)
ClosesRecords(recs, e, new) ==
    /\ DOMAIN new = DOMAIN recs
    /\ \A k \in DOMAIN recs :
          /\ new[k].call = recs[k].call
          /\ e.call = recs[k].call => new[k].executed
          /\ e.call # recs[k].call => new[k] = recs[k]

LEMMA NewAddsRecord ==
    ASSUME NEW recs, NEW tx, tx \notin DOMAIN recs, NEW e, e.kind = "New"
    PROVE  AddsRecord(recs, tx, e, ProcessExtrinsic(recs, tx, e))
  BY DEF AddsRecord, ProcessExtrinsic, MarkNew

LEMMA ApproveAddsVote ==
    ASSUME NEW recs, recs \in [DOMAIN recs -> Record], NEW tx,
           NEW e \in Event, e.kind = "Approve"
    PROVE  AddsVote(recs, e, ProcessExtrinsic(recs, tx, e))
<1>1. \A k \in DOMAIN recs : recs[k] \in Record
  OBVIOUS
<1>2. ProcessExtrinsic(recs, tx, e) = MarkVote(recs, e.call, e.who)
  BY DEF ProcessExtrinsic
<1> QED
  BY <1>1, <1>2 DEF AddsVote, MarkVote, IsOpen, Record

LEMMA ExecutedClosesRecords ==
    ASSUME NEW recs, recs \in [DOMAIN recs -> Record], NEW tx,
           NEW e \in Event, e.kind = "Executed"
    PROVE  ClosesRecords(recs, e, ProcessExtrinsic(recs, tx, e))
<1> DEFINE voted == MarkVote(recs, e.call, e.who)
<1>1. /\ DOMAIN voted = DOMAIN recs
      /\ \A k \in DOMAIN recs :
            /\ voted[k] \in Record /\ voted[k].call = recs[k].call
            /\ voted[k].executed = recs[k].executed
            /\ e.call # recs[k].call => voted[k] = recs[k]
  BY DEF MarkVote, IsOpen, Record, Event
<1>2. ProcessExtrinsic(recs, tx, e) = MarkExecution(voted, e.call)
  BY DEF ProcessExtrinsic
<1> HIDE DEF voted
<1>3. ClosesRecords(recs, e, MarkExecution(voted, e.call))
  BY <1>1 DEF ClosesRecords, MarkExecution, IsOpen, Record
<1> QED
  BY <1>2, <1>3

(* What processBlock makes of the next entry, by its kind. *)
LEMMA ListenerReads ==
    ASSUME TypeOK, NEW r \in Relayers, ProcessBlock(r),
           NEW e, e = log[pos[r] + 1], NEW new, new = msTx'[r]
    PROVE  /\ e.kind \in {"New", "Approve", "Executed"}
           /\ e.kind = "New" => AddsRecord(msTx[r], pos[r] + 1, e, new)
           /\ e.kind = "Approve" => AddsVote(msTx[r], e, new)
           /\ e.kind = "Executed" => ClosesRecords(msTx[r], e, new)
<1>1. pos[r] \in Nat /\ pos[r] + 1 \in 1..Len(log)
  BY DEF ProcessBlock, TypeOK, ChainTypeOK
<1>2. e \in Event /\ e.kind \in {"New", "Approve", "Executed"}
  BY <1>1, LogEntry
<1>3. new = ProcessExtrinsic(msTx[r], pos[r] + 1, e)
  BY DEF ProcessBlock, TypeOK
<1>4. /\ DOMAIN msTx[r] \subseteq 1..pos[r] /\ msTx[r] \in [DOMAIN msTx[r] -> Record]
      /\ pos[r] + 1 \notin DOMAIN msTx[r]
  BY <1>1 DEF TypeOK
<1> QED
  BY <1>2, <1>3, <1>4, NewAddsRecord, ApproveAddsVote, ExecutedClosesRecords

(* Only three steps touch a relayer's listener and its ended goroutines. *)
LEMMA OtherSteps ==
    ASSUME TypeOK, [Next]_vars, NEW r \in Relayers,
           ~ProcessBlock(r), ~Restart(r), \A m \in Msgs : ~Finish(r, m)
    PROVE  /\ pos'[r] = pos[r] /\ first'[r] = first[r] /\ msTx'[r] = msTx[r]
           /\ \A m \in Msgs : pc'[r][m] = "done" <=> pc[r][m] = "done"
<1>1. UNCHANGED vars \/ NewBlock => UNCHANGED <<msTx, pos, first, pc>>
  BY DEF vars, NewBlock, relayerVars
<1>2. ASSUME NEW q \in Relayers, BlockTakes(q) \/ PoolLoses(q)
      PROVE  UNCHANGED <<msTx, pos, first, pc>>
  BY <1>2 DEF BlockTakes, PoolLoses, relayerVars
<1>3. ASSUME NEW q \in Relayers, ProcessBlock(q) \/ Restart(q)
      PROVE  /\ msTx'[r] = msTx[r] /\ pos'[r] = pos[r] /\ first'[r] = first[r]
             /\ \A m \in Msgs : pc'[r][m] = pc[r][m]
  BY <1>3 DEF ProcessBlock, Restart, TypeOK
<1>4. ASSUME NEW q \in Relayers, NEW n \in Msgs, Redeem(q, n), ~Finish(q, n)
      PROVE  /\ UNCHANGED <<msTx, pos, first>>
             /\ \A m \in Msgs : pc'[r][m] = "done" <=> pc[r][m] = "done"
  <2>1. UNCHANGED <<msTx, pos, first>>
    BY <1>4 DEF Redeem, Work, ResolveMessage, CheckRepeat, MarkProcessing, GetRound,
              RedeemVoted, RedeemExecuted, RedeemApprove, RedeemNew, Choose, SubmitTx
  <2>2. \E from, to \in Control \ {"done"} : Goto(q, n, from, to)
    BY <1>4 DEF Redeem, Work, ResolveMessage, CheckRepeat, MarkProcessing, GetRound,
              RedeemVoted, RedeemExecuted, RedeemApprove, RedeemNew, Choose, SubmitTx, Control
  <2> QED
    BY <2>1, <2>2, MoveFacts
<1>5. ASSUME NEW q \in Relayers, NEW n \in Msgs, Finish(q, n)
      PROVE  /\ msTx'[r] = msTx[r] /\ pos'[r] = pos[r] /\ first'[r] = first[r]
             /\ \A m \in Msgs : pc'[r][m] = pc[r][m]
  <2>1. q # r
    BY <1>5
  <2> QED
    BY <1>5, <2>1 DEF Finish, Goto, TypeOK
<1> QED
  BY <1>1, <1>2, <1>3, <1>4, <1>5 DEF Next

RecordInv == RecordsReadOff /\ OpenNotForgotten

(* The two parts of RecordInv at one relayer. *)
ReadOff(r) ==
    \A k \in DOMAIN msTx[r] :
        /\ IsNew(k) /\ msTx[r][k].call = log[k].call
        /\ msTx[r][k].executed <=> ExecutedIn(log[k].call, k, pos[r])
        /\ ~msTx[r][k].executed => msTx[r][k].voters = VotersIn(log[k].call, k, pos[r])
NotForgotten(r) ==
    \A k \in (first[r] + 1)..pos[r] :
        (IsNew(k) /\ ~ExecutedIn(log[k].call, k, pos[r])) => k \in DOMAIN msTx[r]

LEMMA RecordInvParts ==
    /\ RecordInv <=> \A r \in Relayers : ReadOff(r) /\ NotForgotten(r)
    /\ RecordInv' <=> \A r \in Relayers : ReadOff(r)' /\ NotForgotten(r)'
<1>1. RecordsReadOff <=> \A r \in Relayers : ReadOff(r)
  BY DEF RecordsReadOff, ReadOff
<1>2. RecordsReadOff' <=> \A r \in Relayers : ReadOff(r)'
  BY DEF RecordsReadOff, ReadOff, ExecutedIn, VotersIn, IsNew
<1>3. OpenNotForgotten <=> \A r \in Relayers : NotForgotten(r)
  BY DEF OpenNotForgotten, NotForgotten
<1>4. OpenNotForgotten' <=> \A r \in Relayers : NotForgotten(r)'
  BY DEF OpenNotForgotten, NotForgotten
<1> QED
  BY <1>1, <1>2, <1>3, <1>4 DEF RecordInv

(* Steps that leave the listener of r alone. *)
LEMMA ListenerKept ==
    ASSUME TypeOK, [Next]_vars, NEW r \in Relayers, ReadOff(r), NotForgotten(r),
           msTx'[r] = msTx[r], pos'[r] = pos[r], first'[r] = first[r]
    PROVE  ReadOff(r)' /\ NotForgotten(r)'
<1>1. PICK n \in Nat : n = Len(log)
  BY DEF TypeOK, ChainTypeOK
<1>2. PICK p \in Nat : p = pos[r] /\ p <= n
  BY <1>1 DEF TypeOK, ChainTypeOK
<1>3. \A i \in 1..n : log'[i] = log[i]
  BY <1>1, LogGrows
<1>4. \A c : \A i \in 1..p : /\ ExecutedIn(c, i, p)' <=> ExecutedIn(c, i, p)
                            /\ VotersIn(c, i, p)' = VotersIn(c, i, p)
  BY <1>2, <1>3, PrefixStable
<1>5. \A k \in 1..p : log'[k] = log[k]
  BY <1>2, <1>3
<1>6. DOMAIN msTx[r] \subseteq 1..p
  BY <1>2 DEF TypeOK
<1>7. ReadOff(r)'
  <2>1. ASSUME NEW k \in DOMAIN msTx[r], NEW c, c = log'[k].call
        PROVE  /\ log'[k].kind = "New" /\ msTx[r][k].call = c
               /\ msTx[r][k].executed <=> ExecutedIn(c, k, p)'
               /\ ~msTx[r][k].executed => msTx[r][k].voters = VotersIn(c, k, p)'
    <3>1. k \in 1..p /\ log'[k] = log[k]
      BY <1>5, <1>6
    <3>2. /\ ExecutedIn(c, k, p)' <=> ExecutedIn(c, k, p)
          /\ VotersIn(c, k, p)' = VotersIn(c, k, p)
      BY <1>4, <3>1
    <3> QED
      BY <1>2, <2>1, <3>1, <3>2 DEF ReadOff, IsNew
  <2> QED
    BY <1>2, <2>1 DEF ReadOff, IsNew, ExecutedIn, VotersIn
<1>8. NotForgotten(r)'
  <2>1. ASSUME NEW k \in (first[r] + 1)..p, log'[k].kind = "New",
               NEW c, c = log'[k].call, ~ExecutedIn(c, k, p)'
        PROVE  k \in DOMAIN msTx[r]
    <3>0. k \in 1..p
      BY <1>6 DEF TypeOK
    <3>1. log'[k] = log[k] /\ ~ExecutedIn(c, k, p)
      BY <1>4, <1>5, <2>1, <3>0
    <3> QED
      BY <1>2, <2>1, <3>1 DEF NotForgotten, IsNew
  <2> QED
    BY <1>2, <2>1 DEF NotForgotten, IsNew, ExecutedIn
<1> QED
  BY <1>7, <1>8

(* The listener takes the next entry. *)
LEMMA ListenerStep ==
    ASSUME TypeOK, ChainInv, NEW r \in Relayers, ProcessBlock(r),
           ReadOff(r), NotForgotten(r)
    PROVE  ReadOff(r)' /\ NotForgotten(r)'
<1>1. PICK p \in Nat : p = pos[r]
  BY DEF TypeOK
<1>2. PICK recs : recs = msTx[r]
  OBVIOUS
<1>3. p + 1 \in 1..Len(log) /\ pos'[r] = p + 1 /\ log' = log
  BY <1>1 DEF ProcessBlock, TypeOK, ChainTypeOK
<1>4. PICK e \in Event : e = log[p + 1]
  BY <1>3, LogEntry
<1>5. PICK new : new = ProcessExtrinsic(recs, p + 1, e) /\ new = msTx'[r]
  BY <1>1, <1>2, <1>4 DEF ProcessBlock, TypeOK
<1>6. DOMAIN recs \subseteq 1..p /\ recs \in [DOMAIN recs -> Record] /\ p + 1 \notin DOMAIN recs
  BY <1>1, <1>2 DEF TypeOK
<1>7. /\ e.kind = "New" => AddsRecord(recs, p + 1, e, new)
      /\ e.kind = "Approve" => AddsVote(recs, e, new)
      /\ e.kind = "Executed" => ClosesRecords(recs, e, new)
  BY <1>5, <1>6, NewAddsRecord, ApproveAddsVote, ExecutedClosesRecords
<1>8. ASSUME NEW c, NEW k \in 1..(p + 1)
      PROVE  /\ ExecutedIn(c, k, p + 1) <=>
                    ExecutedIn(c, k, p) \/ (e.kind = "Executed" /\ e.call = c)
             /\ e.call = c => VotersIn(c, k, p + 1) = VotersIn(c, k, p) \cup {e.who}
             /\ e.call # c => VotersIn(c, k, p + 1) = VotersIn(c, k, p)
  BY <1>4, OneMore
<1>9. e.kind \in {"New", "Approve", "Executed"}
  BY DEF Event
<1>10. ASSUME NEW k \in DOMAIN recs, NEW c, c = log[k].call
       PROVE  /\ k \in DOMAIN new
              /\ log[k].kind = "New" /\ new[k].call = c
              /\ new[k].executed <=> ExecutedIn(c, k, p + 1)
              /\ ~new[k].executed => new[k].voters = VotersIn(c, k, p + 1)
  <2>1. k \in 1..p /\ k \in 1..(p + 1)
    BY <1>6
  <2>2. /\ log[k].kind = "New" /\ recs[k].call = c
        /\ recs[k].executed <=> ExecutedIn(c, k, p)
        /\ ~recs[k].executed => recs[k].voters = VotersIn(c, k, p)
    BY <1>1, <1>2, <1>10 DEF ReadOff, IsNew
  <2>3. CASE e.kind = "New"
    <3>1. k \in DOMAIN new /\ new[k] = recs[k]
      BY <1>7, <2>3 DEF AddsRecord
    <3>2. ExecutedIn(c, k, p + 1) <=> ExecutedIn(c, k, p)
      BY <1>8, <2>1, <2>3
    <3>3. e.call = c => ExecutedIn(c, k, p + 1)
      BY <1>3, <1>4, <1>10, <2>1, <2>2, <2>3 DEF ChainInv, ExecutedBetween, IsNew
    <3>4. e.call # c => VotersIn(c, k, p + 1) = VotersIn(c, k, p)
      BY <1>8, <2>1
    <3> QED
      BY <2>2, <3>1, <3>2, <3>3, <3>4
  <2>4. CASE e.kind = "Approve"
    <3>1. /\ k \in DOMAIN new /\ new[k].call = recs[k].call
          /\ new[k].executed <=> recs[k].executed
          /\ ~recs[k].executed /\ e.call = c => new[k].voters = recs[k].voters \cup {e.who}
          /\ ~recs[k].executed /\ e.call # c => new[k].voters = recs[k].voters
      BY <1>7, <2>2, <2>4 DEF AddsVote
    <3>2. ExecutedIn(c, k, p + 1) <=> ExecutedIn(c, k, p)
      BY <1>8, <2>1, <2>4
    <3>3. /\ e.call = c => VotersIn(c, k, p + 1) = VotersIn(c, k, p) \cup {e.who}
          /\ e.call # c => VotersIn(c, k, p + 1) = VotersIn(c, k, p)
      BY <1>8, <2>1
    <3> QED
      BY <2>2, <3>1, <3>2, <3>3
  <2>5. CASE e.kind = "Executed"
    <3>1. /\ k \in DOMAIN new /\ new[k].call = recs[k].call
          /\ e.call = c => new[k].executed
          /\ e.call # c => new[k] = recs[k]
      BY <1>7, <2>2, <2>5 DEF ClosesRecords
    <3>2. ExecutedIn(c, k, p + 1) <=> ExecutedIn(c, k, p) \/ e.call = c
      BY <1>8, <2>1, <2>5
    <3>3. e.call # c => VotersIn(c, k, p + 1) = VotersIn(c, k, p)
      BY <1>8, <2>1
    <3> QED
      BY <2>2, <3>1, <3>2, <3>3
  <2> QED
    BY <1>9, <2>3, <2>4, <2>5
<1>11. ASSUME p + 1 \in DOMAIN new, NEW c, c = log[p + 1].call
       PROVE  /\ log[p + 1].kind = "New" /\ new[p + 1].call = c
              /\ new[p + 1].executed <=> ExecutedIn(c, p + 1, p + 1)
              /\ ~new[p + 1].executed => new[p + 1].voters = VotersIn(c, p + 1, p + 1)
  <2>0. e.kind = "New"
    BY <1>6, <1>7, <1>9, <1>11 DEF AddsVote, ClosesRecords
  <2>1. /\ e.call = c
        /\ new[p + 1].call = c /\ ~new[p + 1].executed /\ new[p + 1].voters = {e.who}
    BY <1>4, <1>7, <1>11, <2>0 DEF AddsRecord
  <2>2. ~ExecutedIn(c, p + 1, p) /\ VotersIn(c, p + 1, p) = {}
    BY DEF ExecutedIn, VotersIn
  <2>3. p + 1 \in 1..(p + 1)
    OBVIOUS
  <2>4. ~ExecutedIn(c, p + 1, p + 1)
    BY <1>8, <2>0, <2>2, <2>3
  <2>5. VotersIn(c, p + 1, p + 1) = {e.who}
    BY <1>8, <2>1, <2>2, <2>3
  <2> QED
    BY <1>4, <2>0, <2>1, <2>4, <2>5
<1>12. ReadOff(r)'
  <2>1. ASSUME NEW k \in DOMAIN new, NEW c, c = log[k].call
        PROVE  /\ log[k].kind = "New" /\ new[k].call = c
               /\ new[k].executed <=> ExecutedIn(c, k, p + 1)
               /\ ~new[k].executed => new[k].voters = VotersIn(c, k, p + 1)
    <3>1. k \in DOMAIN recs \/ k = p + 1
      BY <1>7, <1>9 DEF AddsRecord, AddsVote, ClosesRecords
    <3> QED
      BY <1>10, <1>11, <2>1, <3>1
  <2>2. new = msTx'[r] /\ pos'[r] = p + 1 /\ log' = log
    BY <1>3, <1>5
  <2> QED
    BY <2>1, <2>2 DEF ReadOff, IsNew, ExecutedIn, VotersIn
<1>13. NotForgotten(r)'
  <2>0. PICK f \in Nat : f = first[r] /\ f = first'[r]
    BY DEF TypeOK, ProcessBlock
  <2>1. ASSUME NEW k \in (f + 1)..(p + 1), log[k].kind = "New",
               ~ExecutedIn(log[k].call, k, p + 1)
        PROVE  k \in DOMAIN new
    <3>1. CASE k = p + 1
      BY <1>4, <1>7, <2>1, <3>1 DEF AddsRecord
    <3>2. CASE k \in (f + 1)..p
      <4>1. ~ExecutedIn(log[k].call, k, p)
        BY <1>8, <2>1
      <4>2. k \in DOMAIN recs
        BY <1>1, <1>2, <2>0, <2>1, <3>2, <4>1 DEF NotForgotten, IsNew
      <4> QED
        BY <1>10, <4>2
    <3> QED
      BY <3>1, <3>2
  <2>2. new = msTx'[r] /\ pos'[r] = p + 1 /\ log' = log
    BY <1>3, <1>5
  <2> QED
    BY <2>0, <2>1, <2>2 DEF NotForgotten, IsNew, ExecutedIn
<1> QED
  BY <1>12, <1>13

(* The writer deletes the record of an executed operation. *)
LEMMA FinishStep ==
    ASSUME TypeOK, FinishChosen, NEW r \in Relayers, NEW m \in Msgs, Finish(r, m),
           ReadOff(r), NotForgotten(r)
    PROVE  ReadOff(r)' /\ NotForgotten(r)'
<1>1. PICK tx : tx = plan[r][m]
  OBVIOUS
<1>2. /\ log' = log /\ pos' = pos /\ first' = first
      /\ msTx'[r] = [k \in DOMAIN msTx[r] \ {tx} |-> msTx[r][k]]
  BY <1>1 DEF Finish, TypeOK, Without
<1>3. log[tx].call = CallOf(m) /\ ExecutedIn(CallOf(m), tx, pos[r])
  BY <1>1 DEF Finish, Goto, FinishChosen
<1>4. ReadOff(r)'
  BY <1>2 DEF ReadOff, IsNew, ExecutedIn, VotersIn
<1>5. NotForgotten(r)'
  <2>1. ASSUME NEW k \in (first[r] + 1)..pos[r], IsNew(k), ~ExecutedIn(log[k].call, k, pos[r])
        PROVE  k \in DOMAIN msTx'[r]
    <3>1. k \in DOMAIN msTx[r]
      BY <2>1 DEF NotForgotten
    <3>2. k # tx
      BY <1>3, <2>1
    <3> QED
      BY <1>2, <3>1, <3>2
  <2> QED
    BY <1>2, <2>1 DEF NotForgotten, IsNew, ExecutedIn
<1> QED
  BY <1>4, <1>5

LEMMA RestartStep ==
    ASSUME TypeOK, NEW r \in Relayers, Restart(r)
    PROVE  ReadOff(r)' /\ NotForgotten(r)'
<1>1. PICK p \in Nat : p = pos'[r] /\ p = first'[r] /\ DOMAIN msTx'[r] = {}
  BY StartsInLog DEF Restart, TypeOK, NoRecords
<1>2. ReadOff(r)'
  BY <1>1 DEF ReadOff
<1>3. NotForgotten(r)'
  BY <1>1 DEF NotForgotten
<1> QED
  BY <1>2, <1>3

LEMMA RecordInvStep ==
    ASSUME TypeOK, ChainInv, FinishChosen, RecordInv, [Next]_vars
    PROVE  RecordInv'
<1> SUFFICES ASSUME NEW r \in Relayers PROVE ReadOff(r)' /\ NotForgotten(r)'
  BY RecordInvParts
<1>0. ReadOff(r) /\ NotForgotten(r)
  BY RecordInvParts
<1>1. CASE msTx'[r] = msTx[r] /\ pos'[r] = pos[r] /\ first'[r] = first[r]
  BY <1>0, <1>1, ListenerKept
<1>2. UNCHANGED vars \/ NewBlock => UNCHANGED <<msTx, pos, first>>
  BY DEF vars, NewBlock, relayerVars
<1>3. ASSUME NEW q \in Relayers, BlockTakes(q) \/ PoolLoses(q)
      PROVE  UNCHANGED <<msTx, pos, first>>
  BY <1>3 DEF BlockTakes, PoolLoses, relayerVars
<1>4. ASSUME NEW q \in Relayers, ProcessBlock(q) \/ Restart(q), q # r
      PROVE  msTx'[r] = msTx[r] /\ pos'[r] = pos[r] /\ first'[r] = first[r]
  BY <1>4 DEF ProcessBlock, Restart, TypeOK
<1>5. ASSUME NEW q \in Relayers, NEW m \in Msgs, Redeem(q, m), ~Finish(q, m)
      PROVE  UNCHANGED <<msTx, pos, first>>
  BY <1>5 DEF Redeem, Work, ResolveMessage, CheckRepeat, MarkProcessing, GetRound,
              RedeemVoted, RedeemExecuted, RedeemApprove, RedeemNew, Choose, SubmitTx
<1>6. ASSUME NEW q \in Relayers, NEW m \in Msgs, Finish(q, m), q # r
      PROVE  msTx'[r] = msTx[r] /\ pos'[r] = pos[r] /\ first'[r] = first[r]
  BY <1>6 DEF Finish, TypeOK
<1>7. CASE ProcessBlock(r)
  BY <1>0, <1>7, ListenerStep
<1>8. CASE Restart(r)
  BY <1>8, RestartStep
<1>9. ASSUME NEW m \in Msgs, Finish(r, m) PROVE ReadOff(r)' /\ NotForgotten(r)'
  BY <1>0, <1>9, FinishStep
<1>10. ASSUME NEW q \in Relayers, NEW m \in Msgs, Redeem(q, m)
       PROVE  ReadOff(r)' /\ NotForgotten(r)'
  BY <1>1, <1>5, <1>6, <1>9, <1>10
<1>11. ASSUME NEW q \in Relayers, ProcessBlock(q) \/ Restart(q)
       PROVE  ReadOff(r)' /\ NotForgotten(r)'
  BY <1>1, <1>4, <1>7, <1>8, <1>11
<1> QED
  BY <1>1, <1>2, <1>3, <1>10, <1>11 DEF Next

-----------------------------------------------------------------------------
(* Goroutines that finish. *)

LEMMA FinishingStep ==
    ASSUME TypeOK, [Next]_vars, NEW r \in Relayers, NEW m \in Msgs,
           pc'[r][m] \in {"finish", "done"}
    PROVE  \/ pc'[r][m] = pc[r][m] /\ plan'[r][m] = plan[r][m]
           \/ RedeemExecuted(r, m)
           \/ Finish(r, m)
<1>1. UNCHANGED vars \/ NewBlock => UNCHANGED <<pc, plan>>
  BY DEF vars, NewBlock, relayerVars
<1>2. ASSUME NEW q \in Relayers, BlockTakes(q) \/ PoolLoses(q) \/ ProcessBlock(q)
      PROVE  UNCHANGED <<pc, plan>>
  BY <1>2 DEF BlockTakes, PoolLoses, ProcessBlock, relayerVars
<1>3. ASSUME NEW q \in Relayers, Restart(q)
      PROVE  pc'[r][m] = pc[r][m] /\ plan'[r][m] = plan[r][m]
  BY <1>3 DEF Restart, TypeOK
<1>4. ASSUME NEW q \in Relayers, NEW n \in Msgs, Redeem(q, n)
      PROVE  \/ pc'[r][m] = pc[r][m] /\ plan'[r][m] = plan[r][m]
             \/ RedeemExecuted(r, m)
             \/ Finish(r, m)
  <2>1. CASE RedeemExecuted(q, n) \/ Finish(q, n)
    <3>1. CASE q = r /\ n = m
      BY <2>1, <3>1
    <3>2. CASE ~(q = r /\ n = m)
      BY <2>1, <3>2 DEF TypeOK, RedeemExecuted, Choose, Finish, Goto
    <3> QED
      BY <3>1, <3>2
  <2>2. CASE ~(RedeemExecuted(q, n) \/ Finish(q, n))
    <3>1. /\ \E to \in {"checkRepeat", "mark", "redeem", "scan", "submit"} :
                pc' = [pc EXCEPT ![q][n] = to]
          /\ plan' = plan \/ \E tx : plan' = [plan EXCEPT ![q][n] = tx]
      BY <1>4, <2>2 DEF Redeem, Work, ResolveMessage, CheckRepeat, MarkProcessing,
                  GetRound, RedeemVoted, RedeemApprove, RedeemNew, Choose, SubmitTx, Goto
    <3>2. ~(q = r /\ n = m)
      BY <3>1 DEF TypeOK
    <3> QED
      BY <3>1, <3>2 DEF TypeOK
  <2> QED
    BY <2>1, <2>2
<1> QED
  BY <1>1, <1>2, <1>3, <1>4 DEF Next

(* A listener's position moves by one or back to the start. *)
LEMMA PosStep ==
    ASSUME TypeOK, [Next]_vars, NEW r \in Relayers
    PROVE  \/ pos'[r] = pos[r] \/ pos'[r] = pos[r] + 1
           \/ \A m \in Msgs : pc'[r][m] = "idle"
<1>1. UNCHANGED vars \/ NewBlock => UNCHANGED pos
  BY DEF vars, NewBlock, relayerVars
<1>2. ASSUME NEW q \in Relayers, BlockTakes(q) \/ PoolLoses(q)
      PROVE  UNCHANGED pos
  BY <1>2 DEF BlockTakes, PoolLoses, relayerVars
<1>3. ASSUME NEW q \in Relayers, NEW n \in Msgs, Redeem(q, n)
      PROVE  UNCHANGED pos
  BY <1>3 DEF Redeem, Work, ResolveMessage, CheckRepeat, MarkProcessing, GetRound,
              RedeemVoted, RedeemExecuted, RedeemApprove, RedeemNew, Choose, SubmitTx, Finish
<1>4. ASSUME NEW q \in Relayers, ProcessBlock(q)
      PROVE  pos'[r] = pos[r] \/ pos'[r] = pos[r] + 1
  BY <1>4 DEF ProcessBlock, TypeOK
<1>5. ASSUME NEW q \in Relayers, Restart(q)
      PROVE  pos'[r] = pos[r] \/ \A m \in Msgs : pc'[r][m] = "idle"
  BY <1>5 DEF Restart, TypeOK
<1> QED
  BY <1>1, <1>2, <1>3, <1>4, <1>5 DEF Next

LEMMA FinishChosenStep ==
    ASSUME TypeOK, RecordInv, FinishChosen, [Next]_vars
    PROVE  FinishChosen'
<1> SUFFICES ASSUME NEW r \in Relayers, NEW m \in Msgs, pc'[r][m] = "finish"
             PROVE  /\ plan'[r][m] \in 1..pos'[r]
                    /\ log'[plan'[r][m]].call = CallOf(m)
                    /\ \E k \in plan'[r][m]..pos'[r] :
                          log'[k].kind = "Executed" /\ log'[k].call = CallOf(m)
  BY DEF FinishChosen, ExecutedIn, CallOf
<1>1. PICK tx \in 1..pos[r] :
          /\ plan'[r][m] = tx
          /\ log[tx].call = CallOf(m) /\ ExecutedIn(CallOf(m), tx, pos[r])
  <2>1. CASE RedeemExecuted(r, m)
    <3>1. PICK tx \in Candidates(r, m) : msTx[r][tx].executed /\ plan'[r][m] = tx
      BY <2>1 DEF RedeemExecuted, Choose, IsExecuted, TypeOK
    <3>2. /\ tx \in DOMAIN msTx[r] /\ tx \in 1..pos[r]
          /\ msTx[r][tx].call = CallOf(m)
      BY DEF Candidates, Matching, TypeOK
    <3>3. ReadOff(r)
      BY RecordInvParts
    <3>4. log[tx].call = CallOf(m) /\ ExecutedIn(CallOf(m), tx, pos[r])
      BY <3>1, <3>2, <3>3 DEF ReadOff
    <3> QED
      BY <3>1, <3>2, <3>4
  <2>2. CASE Finish(r, m)
    <3>1. pc'[r][m] = "done"
      BY <2>2 DEF Finish, Goto, TypeOK
    <3> QED
      BY <3>1
  <2>3. CASE pc'[r][m] = pc[r][m] /\ plan'[r][m] = plan[r][m]
    BY <2>3 DEF FinishChosen
  <2> QED
    BY <2>1, <2>2, <2>3, FinishingStep
<1>2. pos[r] \in Nat /\ pos[r] <= Len(log) /\ (pos'[r] = pos[r] \/ pos'[r] = pos[r] + 1)
  BY PosStep DEF TypeOK, ChainTypeOK
<1>3. \A i \in 1..pos[r] : log'[i] = log[i]
  BY <1>2, LogGrows
<1>4. PICK k \in tx..pos[r] : log[k].kind = "Executed" /\ log[k].call = CallOf(m)
  BY <1>1 DEF ExecutedIn
<1>5. k \in 1..pos[r] /\ k \in tx..pos'[r] /\ tx \in 1..pos'[r]
  BY <1>2
<1> QED
  BY <1>1, <1>3, <1>4, <1>5

LEMMA FinishedStep ==
    ASSUME TypeOK, FinishChosen', FinishChosen, FinishedAfterPayout, [Next]_vars, TypeOK'
    PROVE  FinishedAfterPayout'
<1> SUFFICES ASSUME NEW r \in Relayers, NEW m \in Msgs, pc'[r][m] \in {"finish", "done"}
             PROVE  \E i \in 1..Len(log') :
                        log'[i].kind = "Executed" /\ log'[i].call = CallOf(m)
  BY DEF FinishedAfterPayout, Positions, CallOf
<1>1. CASE pc[r][m] \in {"finish", "done"}
  <2>1. PICK i \in 1..Len(log) : log[i].kind = "Executed" /\ log[i].call = CallOf(m)
    BY <1>1 DEF FinishedAfterPayout, Positions
  <2> QED
    BY <2>1, LogGrows
<1>2. CASE pc[r][m] \notin {"finish", "done"}
  <2>1. RedeemExecuted(r, m)
    BY <1>2, FinishingStep DEF Finish, Goto
  <2>2. pc'[r][m] = "finish"
    BY <2>1 DEF RedeemExecuted, Choose, Goto, TypeOK
  <2>3. /\ plan'[r][m] \in 1..pos'[r] /\ pos'[r] \in Nat /\ pos'[r] <= Len(log')
        /\ \E k \in plan'[r][m]..pos'[r] :
                log'[k].kind = "Executed" /\ log'[k].call = CallOf(m)
    <3>1. pos'[r] \in Nat /\ pos'[r] <= Len(log')
      BY DEF TypeOK, ChainTypeOK
    <3> QED
      BY <2>2, <3>1 DEF FinishChosen, ExecutedIn, CallOf
  <2> QED
    BY <2>3
<1> QED
  BY <1>1, <1>2

-----------------------------------------------------------------------------
(* Records are deleted one for each message that ends. *)

Gone(r, c) == Passed(r, c) \ DOMAIN msTx[r]

LEMMA PassedFinite ==
    ASSUME TypeOK, NEW r \in Relayers, NEW c
    PROVE  /\ IsFiniteSet(Passed(r, c)) /\ Cardinality(Passed(r, c)) \in Nat
           /\ IsFiniteSet(Gone(r, c)) /\ Cardinality(Gone(r, c)) \in Nat
<1>1. IsFiniteSet((first[r] + 1)..pos[r])
  BY FS_Interval DEF TypeOK
<1>2. Passed(r, c) \subseteq (first[r] + 1)..pos[r] /\ Gone(r, c) \subseteq Passed(r, c)
  BY DEF Passed, Gone
<1> QED
  BY <1>1, <1>2, FS_Subset, FS_CardinalityType

LEMMA GoneListens ==
    ASSUME TypeOK, NEW r \in Relayers, NEW c, ProcessBlock(r)
    PROVE  Gone(r, c)' = Gone(r, c)
<1>1. PICK p \in Nat : p = pos[r] /\ pos'[r] = p + 1
  BY DEF ProcessBlock, TypeOK
<1>2. PICK f \in Nat : f = first[r] /\ f = first'[r] /\ f <= p
  BY <1>1 DEF ProcessBlock, TypeOK
<1>3. PICK e : e = log[p + 1]
  OBVIOUS
<1>4. /\ e.kind \in {"New", "Approve", "Executed"}
      /\ e.kind = "New" => AddsRecord(msTx[r], p + 1, e, msTx'[r])
      /\ e.kind = "Approve" => AddsVote(msTx[r], e, msTx'[r])
      /\ e.kind = "Executed" => ClosesRecords(msTx[r], e, msTx'[r])
  BY <1>1, <1>3, ListenerReads
<1>5. DOMAIN msTx'[r] = IF e.kind = "New" THEN DOMAIN msTx[r] \cup {p + 1} ELSE DOMAIN msTx[r]
  BY <1>4 DEF AddsRecord, AddsVote, ClosesRecords
<1>6. log' = log /\ (f + 1)..(p + 1) = ((f + 1)..p) \cup {p + 1} /\ p + 1 \notin (f + 1)..p
  BY <1>2 DEF ProcessBlock
<1>7. Gone(r, c)' = {k \in (f + 1)..(p + 1) :
                        IsNew(k) /\ log[k].call = c /\ k \notin DOMAIN msTx'[r]}
  BY <1>1, <1>2, <1>6 DEF Gone, Passed, IsNew
<1>8. Gone(r, c) = {k \in (f + 1)..p :
                        IsNew(k) /\ log[k].call = c /\ k \notin DOMAIN msTx[r]}
  BY <1>1, <1>2 DEF Gone, Passed
<1>9. \A k \in (f + 1)..(p + 1) :
          IsNew(k) => (k \in DOMAIN msTx'[r] <=> k \in DOMAIN msTx[r] \/ k = p + 1)
  BY <1>3, <1>5, <1>6 DEF IsNew
<1> QED
  BY <1>6, <1>7, <1>8, <1>9

LEMMA GoneKept ==
    ASSUME TypeOK, [Next]_vars, NEW r \in Relayers, NEW c,
           pos'[r] = pos[r], first'[r] = first[r], msTx'[r] = msTx[r]
    PROVE  Gone(r, c)' = Gone(r, c)
<1>1. pos[r] \in Nat /\ first[r] \in Nat /\ pos[r] <= Len(log)
  BY DEF TypeOK
<1>2. \A k \in (first[r] + 1)..pos[r] : log'[k] = log[k]
  BY <1>1, LogGrows
<1> QED
  BY <1>2 DEF Gone, Passed, IsNew

LEMMA DoneKept ==
    ASSUME NEW r \in Relayers, NEW c, \A m \in Msgs : pc'[r][m] = "done" <=> pc[r][m] = "done"
    PROVE  DoneMessages(r, c)' = DoneMessages(r, c)
  BY DEF DoneMessages, CallOf

(* What the end of a goroutine does to the messages that have ended. *)
LEMMA DoneFinishes ==
    ASSUME TypeOK, NEW r \in Relayers, NEW m \in Msgs, Finish(r, m), NEW c
    PROVE  /\ m \notin DoneMessages(r, c)
           /\ DoneMessages(r, c)' = IF c = CallOf(m) THEN DoneMessages(r, c) \cup {m}
                                                   ELSE DoneMessages(r, c)
<1>1. /\ pc[r][m] = "finish" /\ pc'[r][m] = "done"
      /\ \A n \in Msgs : n # m => pc'[r][n] = pc[r][n]
  BY MoveFacts DEF Finish
<1>2. DoneMessages(r, c)' = {n \in Msgs : CallOf(n) = c /\ pc'[r][n] = "done"}
  BY DEF DoneMessages, CallOf
<1> QED
  BY <1>1, <1>2 DEF DoneMessages

(* A goroutine ends: one record goes, and one more message has ended. *)
LEMMA GoneFinishes ==
    ASSUME TypeOK, FinishChosen, GoneIsDone,
           NEW r \in Relayers, NEW m \in Msgs, Finish(r, m), NEW c \in Calls
    PROVE  /\ IsFiniteSet(DoneMessages(r, c)')
           /\ Cardinality(Gone(r, c)') <= Cardinality(DoneMessages(r, c)')
<1> DEFINE tx == plan[r][m]
<1>1. /\ log' = log /\ pos' = pos /\ first' = first
      /\ DOMAIN msTx'[r] = DOMAIN msTx[r] \ {tx}
  BY DEF Finish, TypeOK, Without
<1>2. log[tx].call = CallOf(m)
  BY DEF FinishChosen, Finish, Goto
<1>3. Gone(r, c)' = Gone(r, c) \cup (Passed(r, c) \cap {tx})
  BY <1>1 DEF Gone, Passed, IsNew
<1> DEFINE G == Gone(r, c)
           D == DoneMessages(r, c)
           Gnext == Gone(r, c)'
<1>4. /\ IsFiniteSet(G) /\ Cardinality(G) \in Nat
      /\ IsFiniteSet(D) /\ Cardinality(D) \in Nat /\ Cardinality(G) <= Cardinality(D)
  BY PassedFinite, FS_CardinalityType DEF GoneIsDone, Gone
<1>5. CASE c # CallOf(m)
  <2>1. Gnext = G
    BY <1>2, <1>3, <1>5 DEF Passed
  <2> QED
    BY <1>4, <1>5, <2>1, DoneFinishes
<1>6. CASE c = CallOf(m)
  <2>1. DoneMessages(r, c)' = D \cup {m} /\ m \notin D
    BY <1>6, DoneFinishes
  <2>2. Gnext \subseteq G \cup {tx}
    BY <1>3
  <2> HIDE DEF G, D, Gnext, tx
  <2>3. /\ IsFiniteSet(G \cup {tx}) /\ Cardinality(G \cup {tx}) \in Nat
        /\ Cardinality(G \cup {tx}) <= Cardinality(G) + 1
    <3>1. IsFiniteSet(G \cup {tx})
      BY <1>4, FS_AddElement
    <3>2. Cardinality(G \cup {tx}) =
              IF tx \in G THEN Cardinality(G) ELSE Cardinality(G) + 1
      BY <1>4, FS_AddElement
    <3> QED
      BY <1>4, <3>1, <3>2, FS_CardinalityType
  <2>4. Cardinality(Gnext) \in Nat /\ Cardinality(Gnext) <= Cardinality(G \cup {tx})
    BY <2>2, <2>3, FS_Subset, FS_CardinalityType
  <2>5. IsFiniteSet(D \cup {m}) /\ Cardinality(D \cup {m}) = Cardinality(D) + 1
    BY <1>4, <2>1, FS_AddElement
  <2>6. Cardinality(Gnext) <= Cardinality(D \cup {m})
    BY <1>4, <2>3, <2>4, <2>5
  <2> QED
    BY <2>1, <2>5, <2>6 DEF Gnext
<1> QED
  BY <1>5, <1>6

LEMMA GoneStep ==
    ASSUME TypeOK, FinishChosen, GoneIsDone, [Next]_vars
    PROVE  GoneIsDone'
<1> SUFFICES ASSUME NEW r \in Relayers, NEW c \in Calls
             PROVE  /\ IsFiniteSet(DoneMessages(r, c)')
                    /\ Cardinality(Gone(r, c)') <= Cardinality(DoneMessages(r, c)')
  BY DEF GoneIsDone, Gone
<1>0. /\ IsFiniteSet(DoneMessages(r, c))
      /\ Cardinality(Gone(r, c)) <= Cardinality(DoneMessages(r, c))
  BY DEF GoneIsDone, Gone
<1>1. CASE ProcessBlock(r)
  <2>1. DoneMessages(r, c)' = DoneMessages(r, c)
    BY <1>1, DoneKept DEF ProcessBlock
  <2> QED
    BY <1>0, <1>1, <2>1, GoneListens
<1>2. CASE Restart(r)
  <2>1. /\ pos'[r] = first'[r] /\ pos'[r] \in Nat
        /\ \A m \in Msgs : pc'[r][m] = "idle"
    BY <1>2, StartsInLog DEF Restart, TypeOK
  <2>2. Gone(r, c)' = {} /\ DoneMessages(r, c)' = {}
    BY <2>1 DEF Gone, Passed, DoneMessages
  <2> QED
    BY <2>2, FS_EmptySet
<1>3. ASSUME NEW m \in Msgs, Finish(r, m)
      PROVE  /\ IsFiniteSet(DoneMessages(r, c)')
             /\ Cardinality(Gone(r, c)') <= Cardinality(DoneMessages(r, c)')
  BY <1>3, GoneFinishes
<1>4. CASE ~ProcessBlock(r) /\ ~Restart(r) /\ \A m \in Msgs : ~Finish(r, m)
  <2>1. /\ pos'[r] = pos[r] /\ first'[r] = first[r] /\ msTx'[r] = msTx[r]
        /\ \A m \in Msgs : pc'[r][m] = "done" <=> pc[r][m] = "done"
    BY <1>4, OtherSteps
  <2>2. Gone(r, c)' = Gone(r, c) /\ DoneMessages(r, c)' = DoneMessages(r, c)
    BY <2>1, GoneKept, DoneKept
  <2> QED
    BY <1>0, <2>2
<1> QED
  BY <1>1, <1>2, <1>3, <1>4

-----------------------------------------------------------------------------
(* The inductive invariant and what follows from it. *)

LEMMA InitInv == Init => IInv
<1> SUFFICES ASSUME Init PROVE IInv
  OBVIOUS
<1>1. TypeOK
  BY InitType
<1>2. Authority /\ PayoutAuthorised /\ FinishChosen /\ FinishedAfterPayout
  BY DEF Init, ChainInit, Authority, NoOp, PayoutAuthorised, FinishChosen,
         FinishedAfterPayout
<1>3. OpenIsLast /\ ClosedIsExecuted /\ ExecutedBetween
  BY DEF Init, ChainInit, OpenIsLast, ClosedIsExecuted, ExecutedBetween
<1>4. RecordsReadOff /\ OpenNotForgotten
  BY DEF Init, RecordsReadOff, OpenNotForgotten, NoRecords
<1>5. ASSUME NEW r \in Relayers, NEW c
      PROVE  Passed(r, c) = {} /\ DoneMessages(r, c) = {}
  BY DEF Init, Passed, DoneMessages
<1>6. GoneIsDone
  BY <1>5, FS_EmptySet DEF GoneIsDone
<1> QED
  BY <1>1, <1>2, <1>3, <1>4, <1>6 DEF IInv

LEMMA NextInv == IInv /\ [Next]_vars => IInv'
<1> SUFFICES ASSUME IInv, [Next]_vars PROVE IInv'
  OBVIOUS
<1> USE DEF IInv
<1>1. TypeOK'
  BY NextType
<1>2. Authority' /\ PayoutAuthorised'
  BY AuthorityStep, PayoutStep
<1>3. (OpenIsLast /\ ClosedIsExecuted /\ ExecutedBetween)'
  BY ChainInvStep DEF ChainInv
<1>4. (RecordsReadOff /\ OpenNotForgotten)'
  BY RecordInvStep DEF ChainInv, RecordInv
<1>5. FinishChosen'
  BY FinishChosenStep DEF RecordInv
<1>6. FinishedAfterPayout'
  BY <1>1, <1>5, FinishedStep
<1>7. GoneIsDone'
  BY GoneStep
<1> QED
  BY <1>1, <1>2, <1>3, <1>4, <1>5, <1>6, <1>7

(***************************************************************************)
(* The pallet, every listener's records and every goroutine agree with the *)
(* log, in every reachable state and with any number of restarts.          *)
(***************************************************************************)
THEOREM Invariance == Spec => []IInv
  BY InitInv, NextInv, PTL DEF Spec

(***************************************************************************)
(* A goroutine that gives a deposit up as executed does so after a payout  *)
(* of that recipient and amount.                                           *)
(***************************************************************************)
THEOREM FinishesAfterPayout == Spec => []FinishedAfterPayout
<1>1. IInv => FinishedAfterPayout
  BY DEF IInv
<1> QED
  BY <1>1, Invariance, PTL

(* Two New entries of one call have the first one's execution in between,  *)
(* and a listener that has seen the second has recorded it.                *)
LEMMA InvOneOpenRecord == IInv => OneOpenRecord
<1> SUFFICES ASSUME IInv, NEW r \in Relayers,
                    NEW j \in DOMAIN msTx[r], NEW k \in DOMAIN msTx[r],
                    ~msTx[r][j].executed, ~msTx[r][k].executed,
                    msTx[r][j].call = msTx[r][k].call
             PROVE  j = k
  BY DEF OneOpenRecord
<1>1. /\ DOMAIN msTx[r] \subseteq 1..pos[r] /\ pos[r] \in Nat
      /\ pos[r] <= Len(log) /\ Len(log) \in Nat
  BY DEF IInv, TypeOK, ChainTypeOK
<1>2. ASSUME NEW a \in DOMAIN msTx[r], NEW b \in DOMAIN msTx[r], a < b,
             ~msTx[r][a].executed, msTx[r][a].call = msTx[r][b].call
      PROVE  FALSE
  <2>1. /\ IsNew(a) /\ IsNew(b) /\ log[a].call = log[b].call
        /\ ~ExecutedIn(log[a].call, a, pos[r])
    BY <1>2 DEF IInv, RecordsReadOff
  <2>2. a \in 1..Len(log) /\ b \in 1..Len(log) /\ b <= pos[r]
    BY <1>1
  <2>3. ExecutedIn(log[a].call, a, b)
    BY <1>2, <2>1, <2>2 DEF IInv, ExecutedBetween
  <2>4. ExecutedIn(log[a].call, a, pos[r])
    BY <1>1, <2>2, <2>3, Widen
  <2> QED
    BY <2>1, <2>4
<1>3. j \in Nat /\ k \in Nat
  BY <1>1
<1> QED
  BY <1>2, <1>3

(***************************************************************************)
(* No listener ever holds two open records of one call.                    *)
(***************************************************************************)
THEOREM SingleOpenRecord == Spec => []OneOpenRecord
  BY Invariance, InvOneOpenRecord, PTL

LEMMA InvRecordsMirrorChain == IInv => RecordsMirrorChain
<1> SUFFICES ASSUME IInv, NEW r \in Relayers, pos[r] = Len(log),
                    NEW k \in DOMAIN msTx[r], ~msTx[r][k].executed
             PROVE  op[msTx[r][k].call] = [tx |-> k, approvals |-> msTx[r][k].voters]
  BY DEF RecordsMirrorChain
<1>1. k \in 1..Len(log) /\ msTx[r][k].call \in Calls
  BY DEF IInv, TypeOK, Record
<1>2. PICK c \in Calls : c = msTx[r][k].call
  BY <1>1
<1>3. /\ IsNew(k) /\ log[k].call = c /\ ~ExecutedIn(c, k, Len(log))
      /\ msTx[r][k].voters = VotersIn(c, k, Len(log))
  BY <1>2 DEF IInv, RecordsReadOff
<1>4. op[c].tx = k
  BY <1>1, <1>3 DEF IInv, ClosedIsExecuted
<1>5. op[c] # NoOp
  BY <1>1, <1>4 DEF NoOp
<1>6. op[c].approvals = msTx[r][k].voters
  BY <1>3, <1>4, <1>5 DEF IInv, OpenIsLast
<1>7. op[c] \in [tx : Nat, approvals : SUBSET Relayers]
  BY DEF IInv, TypeOK, ChainTypeOK, Operation
<1> QED
  BY <1>2, <1>4, <1>6, <1>7

(***************************************************************************)
(* A listener that has caught up knows the open operation and its votes.   *)
(***************************************************************************)
THEOREM OpenRecordsMirrorChain == Spec => []RecordsMirrorChain
  BY Invariance, InvRecordsMirrorChain, PTL

LEMMA InvOpenOperationKnown == IInv => OpenOperationKnown
<1> SUFFICES ASSUME IInv, NEW r \in Relayers, pos[r] = Len(log),
                    NEW c \in Calls, op[c].tx > first[r]
             PROVE  op[c].tx \in DOMAIN msTx[r] /\ ~msTx[r][op[c].tx].executed
  BY DEF OpenOperationKnown
<1>1. PICK k : k = op[c].tx
  OBVIOUS
<1>2. op[c] # NoOp /\ first[r] \in Nat /\ pos[r] \in Nat
  BY DEF IInv, TypeOK, NoOp
<1>3. /\ k \in 1..Len(log) /\ log[k].call = c /\ IsNew(k)
      /\ ~ExecutedIn(c, k, Len(log))
  BY <1>1, <1>2 DEF IInv, OpenIsLast
<1>4. k \in DOMAIN msTx[r]
  <2>1. k \in (first[r] + 1)..pos[r]
    BY <1>1, <1>2, <1>3
  <2> QED
    BY <1>3, <2>1 DEF IInv, OpenNotForgotten
<1>5. ~msTx[r][k].executed
  BY <1>3, <1>4 DEF IInv, RecordsReadOff
<1> QED
  BY <1>1, <1>4, <1>5

(***************************************************************************)
(* The writer's deletions never hide an open operation from a listener     *)
(* that has passed it; one that starts at the latest block is excepted     *)
(* only for what was opened before that block.                             *)
(***************************************************************************)
THEOREM OpenOperationsKnown == Spec => []OpenOperationKnown
  BY Invariance, InvOpenOperationKnown, PTL

-----------------------------------------------------------------------------
(* A goroutine prepares an extrinsic only by one of two scans. *)
LEMMA SubmitStep ==
    ASSUME TypeOK, [Next]_vars, NEW r \in Relayers, NEW m \in Msgs, pc'[r][m] = "submit"
    PROVE  \/ pc[r][m] = "submit" /\ plan'[r][m] = plan[r][m]
           \/ RedeemApprove(r, m)
           \/ RedeemNew(r, m)
<1>1. UNCHANGED vars \/ NewBlock => UNCHANGED <<pc, plan>>
  BY DEF vars, NewBlock, relayerVars
<1>2. ASSUME NEW q \in Relayers, BlockTakes(q) \/ PoolLoses(q) \/ ProcessBlock(q)
      PROVE  UNCHANGED <<pc, plan>>
  BY <1>2 DEF BlockTakes, PoolLoses, ProcessBlock, relayerVars
<1>3. ASSUME NEW q \in Relayers, Restart(q)
      PROVE  pc'[r][m] = pc[r][m] /\ plan'[r][m] = plan[r][m]
  BY <1>3 DEF Restart, TypeOK
<1>4. ASSUME NEW q \in Relayers, NEW n \in Msgs, Redeem(q, n)
      PROVE  \/ pc'[r][m] = pc[r][m] /\ plan'[r][m] = plan[r][m]
             \/ RedeemApprove(r, m)
             \/ RedeemNew(r, m)
  <2>1. CASE RedeemApprove(q, n) \/ RedeemNew(q, n)
    <3>1. CASE q = r /\ n = m
      BY <2>1, <3>1
    <3>2. CASE ~(q = r /\ n = m)
      BY <2>1, <3>2 DEF TypeOK, RedeemApprove, RedeemNew, Choose, Goto
    <3> QED
      BY <3>1, <3>2
  <2>2. CASE ~(RedeemApprove(q, n) \/ RedeemNew(q, n))
    <3>1. /\ \E to \in {"checkRepeat", "mark", "redeem", "scan", "finish", "done"} :
                pc' = [pc EXCEPT ![q][n] = to]
          /\ plan' = plan \/ \E tx : plan' = [plan EXCEPT ![q][n] = tx]
      BY <1>4, <2>2 DEF Redeem, Work, ResolveMessage, CheckRepeat, MarkProcessing,
                  GetRound, RedeemVoted, RedeemExecuted, Choose, SubmitTx, Finish, Goto
    <3>2. ~(q = r /\ n = m)
      BY <3>1 DEF TypeOK
    <3> QED
      BY <3>1, <3>2 DEF TypeOK
  <2> QED
    BY <2>1, <2>2
<1> QED
  BY <1>1, <1>2, <1>3, <1>4 DEF Next

LEMMA OpensOnlyUnpaidStep ==
    ASSUME IInv, [Next]_vars, NEW r \in Relayers, NEW m \in Msgs,
           pc[r][m] = "scan", pc'[r][m] = "submit", plan'[r][m] = 0
    PROVE  Cardinality(Passed(r, CallOf(m))) <= Cardinality(DoneMessages(r, CallOf(m)))
<1> USE DEF IInv
<1>1. PICK c \in Calls : c = CallOf(m)
  BY CallOfType
<1>2. RedeemNew(r, m)
  <2>1. ASSUME RedeemApprove(r, m) PROVE FALSE
    <3>1. PICK tx \in Candidates(r, m) : plan'[r][m] = tx
      BY <2>1 DEF RedeemApprove, Choose, TypeOK
    <3>2. tx # 0
      BY DEF Candidates, Matching, TypeOK
    <3> QED
      BY <3>1, <3>2
  <2> QED
    BY <2>1, SubmitStep
<1>3. ASSUME NEW k \in Passed(r, c) PROVE k \notin DOMAIN msTx[r]
  <2>1. log[k].call = c
    BY DEF Passed
  <2>2. k \in DOMAIN msTx[r] => msTx[r][k].call = c
    BY <2>1 DEF RecordsReadOff
  <2> QED
    BY <1>1, <1>2, <2>2 DEF RedeemNew, Candidates, Matching
<1>4. Passed(r, c) \ DOMAIN msTx[r] = Passed(r, c)
  BY <1>3
<1> QED
  BY <1>1, <1>4 DEF GoneIsDone

(***************************************************************************)
(* A relayer opens an operation for a deposit only if those its listener   *)
(* has passed in this life are no more than the messages of the call it    *)
(* has ended: whatever restarts, and however late a listener is.           *)
(***************************************************************************)
THEOREM OpenedOnlyUnpaid == Spec => OpensOnlyUnpaid
<1>1. IInv /\ [Next]_vars =>
          [\A r \in Relayers : \A m \in Msgs :
              (pc[r][m] = "scan" /\ pc'[r][m] = "submit" /\ plan'[r][m] = 0) =>
                  Cardinality(Passed(r, CallOf(m)))
                      <= Cardinality(DoneMessages(r, CallOf(m)))]_vars
  BY OpensOnlyUnpaidStep
<1> QED
  BY <1>1, Invariance, PTL DEF Spec, OpensOnlyUnpaid
=============================================================================
