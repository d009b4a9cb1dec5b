------------------------- MODULE RoundProtocolProofs -------------------------
(***************************************************************************)
(* Proofs about RoundProtocol: the exchange of SET_COINBASE and            *)
(* COINBASE_SET never ends, for any bounds and however the wallet's        *)
(* packets share receive buffers.                                          *)
(***************************************************************************)
EXTENDS RoundProtocol, TLAPS

\* A reply to SET_COINBASE is in transit.
Answered == \E i \in 1..Len(replies) : replies[i].kind \in {"COINBASE_SET", "COINBASE_FAIL"}

\* A SET_COINBASE is in transit.
Asked == requests["fresh"] + requests["stale"] > 0

\* The inductive invariant: CoinbaseUnderWay without the operators on sets of positions.
UnderWay == later /\ ~pending /\ ~lost /\ Running => Asked \/ Answered

IInv == TypeOK /\ UnderWay

-----------------------------------------------------------------------------
(* The queue of replies *)

\* The wallet's answer is appended.
LEMMA AnswerAppends ==
    ASSUME TypeOK, NEW r \in Requests, NEW k \in DataPackets \cup Responses, Answer(r, k)
    PROVE  /\ replies' \in Seq(Packets)
           /\ Len(replies') = Len(replies) + 1
           /\ \A i \in 1..Len(replies) : replies'[i] = replies[i]
           /\ replies'[Len(replies) + 1].kind = k
           /\ requests' \in [Requests -> Nat]
           /\ \A q \in Requests \ {r} : requests'[q] = requests[q]
<1>1. Packet(k) \in Packets /\ Packet(k).kind = k
    BY BoundsAssumption DEF TypeOK, Packet, Packets, Heights
<1>2. requests' \in [Requests -> Nat] /\ \A q \in Requests \ {r} : requests'[q] = requests[q]
    BY DEF Answer, TypeOK
<1> QED BY <1>1, <1>2 DEF Answer, TypeOK

\* A receive buffer takes the first n packets from the queue.
LEMMA BufferDrops ==
    ASSUME TypeOK, NEW n, Buffer(n)
    PROVE  /\ n \in 1..Len(replies)
           /\ replies' \in Seq(Packets)
           /\ Len(replies') = Len(replies) - n
           /\ \A i \in 1..Len(replies') : replies'[i] = replies[n + i]
           /\ Head(replies) = replies[1] /\ Head(replies) \in Packets
BY DEF Buffer, TypeOK

\* When an answer to SET_COINBASE was in transit and has not been taken from the queue by
\* itself, it is in transit still or lost.
LEMMA LostOrAnswered ==
    ASSUME TypeOK, Answered, NEW n, Buffer(n),
           Head(replies).kind \notin {"COINBASE_SET", "COINBASE_FAIL"}
    PROVE  Answered' \/ Settles(2..n)
<1>1. PICK i \in 1..Len(replies) : replies[i].kind \in {"COINBASE_SET", "COINBASE_FAIL"}
    BY DEF Answered
<1>2. i # 1
    BY <1>1, BufferDrops
<1>3. CASE i <= n
  <2>1. i \in 2..n
    BY <1>2, <1>3, BufferDrops
  <2>2. replies[i].kind \in Kinds(2..n)
    BY <2>1 DEF Kinds
  <2> QED BY <2>2, <1>1 DEF Settles
<1>4. CASE i > n
  <2>1. n \in Nat /\ i \in Nat /\ Len(replies) \in Nat
    BY BufferDrops DEF TypeOK
  <2>2. i - n \in 1..Len(replies') /\ replies'[i - n] = replies[n + (i - n)] /\ n + (i - n) = i
    BY <1>4, <2>1, BufferDrops
  <2> QED BY <1>1, <2>2 DEF Answered
<1> QED BY <1>3, <1>4, BufferDrops

\* The same when the first packet is lost with the rest of its buffer.
LEMMA HeadSettles ==
    ASSUME TypeOK, NEW n, Buffer(n)
    PROVE  /\ Head(replies).kind \in {"COINBASE_SET", "COINBASE_FAIL"} => Settles(1..n)
           /\ Settles(2..n) => Settles(1..n)
<1>1. 1 \in 1..n /\ Head(replies) = replies[1] /\ \A i \in 2..n : i \in 1..n
    BY BufferDrops DEF TypeOK
<1>2. Head(replies).kind \in Kinds(1..n) /\ Kinds(2..n) \subseteq Kinds(1..n)
    BY <1>1 DEF Kinds
<1> QED BY <1>2 DEF Settles

\* The wallet's answer leaves the other answers and the other requests alone.
LEMMA AnswerKeeps ==
    ASSUME TypeOK, NEW r \in Requests, NEW k \in DataPackets \cup Responses, Answer(r, k)
    PROVE  /\ replies' \in Seq(Packets) /\ requests' \in [Requests -> Nat]
           /\ Answered \/ k \in {"COINBASE_SET", "COINBASE_FAIL"} => Answered'
           /\ r \notin Coinbases /\ Asked => Asked'
<1>1. Answered => Answered'
    BY AnswerAppends DEF Answered, TypeOK
<1>2. k \in {"COINBASE_SET", "COINBASE_FAIL"} => Answered'
    BY AnswerAppends DEF Answered, TypeOK
<1>3. r \notin Coinbases /\ Asked => Asked'
    BY AnswerAppends DEF Asked, Requests, Coinbases
<1> QED BY <1>1, <1>2, <1>3, AnswerAppends

\* new_round sends a SET_COINBASE from the second round on.
LEMMA NewRoundAsks ==
    ASSUME TypeOK, NEW next \in BOOLEAN, NEW flag \in BOOLEAN, NewRound(next, flag)
    PROVE  /\ requests' \in [Requests -> Nat]
           /\ pending' \in BOOLEAN /\ template' \in Coinbases \cup {"none"}
           /\ next => Asked'
<1>1. requests' \in [Requests -> Nat]
    BY DEF NewRound, TypeOK, Requests, Coinbases
<1>2. next => Asked'
    BY DEF NewRound, Asked, TypeOK, Requests, Coinbases
<1> QED BY <1>1, <1>2 DEF NewRound

\* The block on its way stays a block when packets are lost.
LEMMA UnbookedType == ASSUME TypeOK, NEW positions PROVE Unbooked(positions) \in Blocks
<1>1. NoBlock \in Blocks
    BY BoundsAssumption DEF NoBlock, Blocks, Coinbases, Heights
<1> QED BY <1>1 DEF Unbooked, TypeOK

\* A rebuild relabels the copies of the coinbase and sends the new one.
LEMMA RebuildTypes ==
    ASSUME TypeOK, NEW differs \in BOOLEAN, NEW b \in Blocks, Rebuild(differs, b)
    PROVE  /\ requests' \in [Requests -> Nat]
           /\ agreed' \in Coinbases /\ template' \in Coinbases \cup {"none"}
           /\ block' \in Blocks
<1>1. requests' \in [Requests -> Nat]
    BY DEF Rebuild, TypeOK, Requests, Coinbases
<1>2. agreed' \in Coinbases /\ template' \in Coinbases \cup {"none"}
    BY DEF Rebuild, TypeOK, Coinbases
<1>3. block' \in Blocks
    BY DEF Rebuild, Blocks, Coinbases
<1> QED BY <1>1, <1>2, <1>3

-----------------------------------------------------------------------------
(* Type correctness, group by group *)

\* The timers of the daemon connection keep the types.
LEMMA TimerTypes == ASSUME TypeOK, HeightTimer \/ BlockTimer \/ SubmitBlock PROVE TypeOK'
<1>1. CASE HeightTimer
  <2>1. requests' \in [Requests -> Nat]
    BY <1>1 DEF HeightTimer, TypeOK, Requests, Coinbases
  <2> QED BY <1>1, <2>1 DEF HeightTimer, TypeOK, daemonVars, minerVars, walletVars, historyVars
<1>2. CASE BlockTimer
    BY <1>2 DEF BlockTimer, TypeOK, daemonVars, walletVars, historyVars
<1>3. CASE SubmitBlock
  <2>1. Transmit("submit") \/ UNCHANGED requests
    BY <1>3 DEF SubmitBlock
  <2>2. requests' \in [Requests -> Nat]
    <3>1. "submit" \in Requests /\ requests \in [Requests -> Nat]
      BY DEF TypeOK, Requests
    <3> QED BY <2>1, <3>1 DEF Transmit
  <2>3. block' \in {block, NoBlock, [block EXCEPT !.at = "sent"]}
    BY <1>3 DEF SubmitBlock
  <2>4. NoBlock \in Blocks
    BY BoundsAssumption DEF NoBlock, Blocks, Coinbases, Heights
  <2>5. [block EXCEPT !.at = "sent"] \in Blocks
    BY DEF TypeOK, Blocks
  <2>6. block' \in Blocks
    BY <2>3, <2>4, <2>5 DEF TypeOK
  <2>7. alive' \in BOOLEAN
    BY <1>3 DEF SubmitBlock, TypeOK
  <2> QED BY <1>3, <2>2, <2>6, <2>7 DEF SubmitBlock, TypeOK, daemonVars, walletVars, historyVars
<1> QED BY <1>1, <1>2, <1>3

\* So do the miners,
LEMMA MinerTypes == ASSUME TypeOK, GetTemplate \/ FindBlock PROVE TypeOK'
<1>1. CASE GetTemplate
    BY <1>1 DEF GetTemplate, TypeOK, daemonVars, walletVars, historyVars
<1>2. CASE FindBlock
  <2>1. block' \in Blocks
    BY <1>2 DEF FindBlock, TypeOK, Blocks
  <2> QED BY <1>2, <2>1 DEF FindBlock, TypeOK, daemonVars, walletVars, historyVars
<1> QED BY <1>1, <1>2

\* An action that answers a request.
WalletAnswers ==
    \/ AnswerHeight \/ AnswerRound \/ AnswerReward
    \/ \E c \in Coinbases : AcceptCoinbase(c) \/ RefuseCoinbase(c)
    \/ AcceptBlock \/ RejectBlock

\* the wallet's answers to requests,
LEMMA AnswerTypes == ASSUME TypeOK, WalletAnswers PROVE TypeOK'
<1>1. replies' \in Seq(Packets) /\ requests' \in [Requests -> Nat]
    BY AnswerKeeps DEF WalletAnswers, AnswerHeight, AnswerRound, AnswerReward, AcceptCoinbase,
       RefuseCoinbase, AcceptBlock, RejectBlock, Requests, Coinbases, DataPackets, Responses
<1>2. block' \in Blocks
  <2>1. NoBlock \in Blocks
    BY BoundsAssumption DEF NoBlock, Blocks, Coinbases, Heights
  <2> QED BY <2>1 DEF WalletAnswers, AnswerHeight, AnswerRound, AnswerReward, AcceptCoinbase,
       RefuseCoinbase, AcceptBlock, RejectBlock, minerVars, TypeOK, Blocks
<1>3. chain' \in 1..MaxHeight /\ agreed' \in Coinbases /\ orphans' \in 0..MaxOrphans
    BY BoundsAssumption DEF WalletAnswers, AnswerHeight, AnswerRound, AnswerReward,
       AcceptCoinbase, RefuseCoinbase, AcceptBlock, RejectBlock, walletVars, TypeOK
<1>4. news' \in BOOLEAN
    BY DEF WalletAnswers, AnswerHeight, AnswerRound, AnswerReward, AcceptCoinbase,
       RefuseCoinbase, AcceptBlock, RejectBlock, walletVars, TypeOK
<1>5. UNCHANGED <<alive, link, pending, best, later, tick, template, lost, mispaid>>
    BY DEF WalletAnswers, AnswerHeight, AnswerRound, AnswerReward, AcceptCoinbase,
       RefuseCoinbase, AcceptBlock, RejectBlock, daemonVars, minerVars, historyVars
<1> QED BY <1>1, <1>2, <1>3, <1>4, <1>5 DEF TypeOK

\* what the wallet does on its own,
LEMMA WalletTypes == ASSUME TypeOK, ChainGrows \/ ReportOrphan \/ CloseLink PROVE TypeOK'
<1>1. CASE ChainGrows
    BY <1>1, BoundsAssumption DEF ChainGrows, TypeOK, daemonVars, minerVars, historyVars
<1>2. CASE ReportOrphan
  <2>1. Packet("ORPHAN_BLOCK") \in Packets
    BY BoundsAssumption DEF Packet, Packets, DataPackets, Heights
  <2>2. replies' \in Seq(Packets) /\ orphans' \in 0..MaxOrphans
    BY <1>2, <2>1, BoundsAssumption DEF ReportOrphan, TypeOK
  <2> QED BY <1>2, <2>2 DEF ReportOrphan, TypeOK, daemonVars, minerVars, historyVars
<1>3. CASE CloseLink
  <2>1. requests' \in [Requests -> Nat] /\ replies' \in Seq(Packets)
    BY <1>3 DEF CloseLink, NoRequests
  <2> QED BY <1>3, <2>1 DEF CloseLink, TypeOK, daemonVars, minerVars, walletVars, historyVars
<1> QED BY <1>1, <1>2, <1>3

\* the one-byte packets of the wallet in process_data,
LEMMA ResponseTypes ==
    ASSUME TypeOK, CoinbasePending \/ CoinbaseSet \/ Good \/ Ignore PROVE TypeOK'
<1>1. replies' \in Seq(Packets)
    BY BufferDrops DEF CoinbasePending, CoinbaseSet, Good, Ignore, Receive
<1>2. CASE CoinbasePending
    BY <1>1, <1>2 DEF CoinbasePending, TypeOK, minerVars, walletVars, historyVars
<1>3. CASE CoinbaseSet
  <2>1. NewRound(later, FALSE) /\ later \in BOOLEAN
    BY <1>3 DEF CoinbaseSet, TypeOK
  <2>2. /\ requests' \in [Requests -> Nat]
        /\ pending' \in BOOLEAN /\ template' \in Coinbases \cup {"none"}
    BY <2>1, NewRoundAsks
  <2> QED BY <1>1, <1>3, <2>2 DEF CoinbaseSet, TypeOK, walletVars, historyVars
<1>4. CASE Good
  <2>1. NewRound(TRUE, pending) /\ pending \in BOOLEAN
    BY <1>4 DEF Good, TypeOK
  <2>2. /\ requests' \in [Requests -> Nat]
        /\ pending' \in BOOLEAN /\ template' \in Coinbases \cup {"none"}
    BY <2>1, NewRoundAsks
  <2>3. block' \in Blocks
    BY <1>4, BoundsAssumption DEF Good, NoBlock, Blocks, Coinbases, Heights
  <2>4. mispaid' \in BOOLEAN /\ later' \in BOOLEAN
    BY <1>4 DEF Good, TypeOK
  <2> QED BY <1>1, <1>4, <2>2, <2>3, <2>4 DEF Good, TypeOK, walletVars
<1>5. CASE Ignore
    BY <1>1, <1>5 DEF Ignore, TypeOK, daemonVars, minerVars, walletVars, historyVars
<1> QED BY <1>2, <1>3, <1>4, <1>5

\* and its packets with data.
LEMMA DataTypes ==
    ASSUME TypeOK, NEW n \in 1..MaxReplies,
           BlockHeight(n) \/ BlockReward(n) \/ OrphanBlock(n) \/ Garbled(n)
    PROVE  TypeOK'
<1>1. replies' \in Seq(Packets) /\ Head(replies) \in Packets
    BY BufferDrops DEF BlockHeight, BlockReward, OrphanBlock, Garbled, Receive
<1>2. ASSUME NEW positions, Lose(positions) PROVE lost' \in BOOLEAN /\ block' \in Blocks
    BY <1>2, UnbookedType DEF Lose, TypeOK
<1>3. CASE BlockHeight(n)
  <2>1. best' \in Heights
    BY <1>1, <1>3 DEF BlockHeight, TypeOK, Packets
  <2>2. pending' \in BOOLEAN /\ lost' \in BOOLEAN /\ block' \in Blocks
    BY <1>2, <1>3 DEF BlockHeight, TypeOK
  <2> QED BY <1>1, <1>3, <2>1, <2>2 DEF BlockHeight, TypeOK, walletVars
<1>4. CASE BlockReward(n)
  <2>1. CASE later /\ pending
    <3>1. PICK differs \in BOOLEAN : Rebuild(differs, Unbooked(2..n))
      BY <1>4, <2>1 DEF BlockReward
    <3>2. /\ requests' \in [Requests -> Nat]
          /\ agreed' \in Coinbases /\ template' \in Coinbases \cup {"none"}
          /\ block' \in Blocks
      BY <3>1, RebuildTypes, UnbookedType
    <3>3. lost' \in BOOLEAN /\ pending' = pending
      BY <1>4, <2>1 DEF BlockReward, Settles
    <3> QED BY <1>1, <1>4, <3>2, <3>3 DEF BlockReward, TypeOK
  <2>2. CASE ~(later /\ pending)
    <3>1. NewRound(later, FALSE) /\ Lose(2..n) /\ agreed' = agreed /\ later \in BOOLEAN
      BY <1>4, <2>2 DEF BlockReward, TypeOK
    <3>2. /\ requests' \in [Requests -> Nat]
          /\ pending' \in BOOLEAN /\ template' \in Coinbases \cup {"none"}
      BY <3>1, NewRoundAsks
    <3>3. lost' \in BOOLEAN /\ block' \in Blocks
      BY <1>2, <3>1
    <3> QED BY <1>1, <1>4, <3>1, <3>2, <3>3 DEF BlockReward, TypeOK
  <2> QED BY <2>1, <2>2
<1>5. CASE OrphanBlock(n)
  <2>1. lost' \in BOOLEAN /\ block' \in Blocks
    BY <1>2, <1>5 DEF OrphanBlock
  <2> QED BY <1>1, <1>5, <2>1 DEF OrphanBlock, TypeOK, walletVars
<1>6. CASE Garbled(n)
  <2>1. lost' \in BOOLEAN /\ block' \in Blocks /\ alive' \in BOOLEAN
    BY <1>2, <1>6 DEF Garbled
  <2> QED BY <1>1, <1>6, <2>1 DEF Garbled, TypeOK, daemonVars, walletVars
<1> QED BY <1>3, <1>4, <1>5, <1>6

\* Every step keeps the types.
LEMMA TypeStep == ASSUME TypeOK, [Next]_vars PROVE TypeOK'
<1>1. CASE UNCHANGED vars
    BY <1>1 DEF vars, daemonVars, minerVars, walletVars, historyVars, TypeOK
<1>2. CASE Next
    BY <1>2, TimerTypes, MinerTypes, AnswerTypes, WalletTypes, ResponseTypes, DataTypes
    DEF Next, WalletAnswers
<1> QED BY <1>1, <1>2

-----------------------------------------------------------------------------
(* The coinbase stays under way *)

\* Steps that leave the flags and the packets of the exchange alone, or stop the daemon.
LEMMA Undisturbed ==
    ASSUME UnderWay, UNCHANGED <<later, pending, lost>>,
           Running' => Running /\ (Asked => Asked') /\ (Answered => Answered')
    PROVE  UnderWay'
BY DEF UnderWay

\* Every step keeps an exchange of SET_COINBASE and its answer under way.
LEMMA UnderWayStep == ASSUME TypeOK, UnderWay, [Next]_vars PROVE UnderWay'
<1>1. CASE HeightTimer
  <2>1. requests'["fresh"] = requests["fresh"] /\ requests'["stale"] = requests["stale"]
    BY <1>1 DEF HeightTimer, TypeOK, Requests, Coinbases
  <2> QED BY <1>1, <2>1, Undisturbed
          DEF HeightTimer, Running, Asked, Answered, daemonVars, historyVars
<1>2. CASE BlockTimer \/ GetTemplate \/ FindBlock \/ ChainGrows
    BY <1>2, Undisturbed DEF BlockTimer, GetTemplate, FindBlock, ChainGrows, Running, Asked,
       Answered, daemonVars, historyVars
<1>3. CASE SubmitBlock
  <2>1. Transmit("submit") \/ UNCHANGED requests
    BY <1>3 DEF SubmitBlock
  <2>2. requests'["fresh"] = requests["fresh"] /\ requests'["stale"] = requests["stale"]
    BY <2>1 DEF Transmit, TypeOK, Requests, Coinbases
  <2>3. Running' => Running
    BY <1>3 DEF SubmitBlock, Running
  <2> QED BY <1>3, <2>2, <2>3, Undisturbed
          DEF SubmitBlock, Asked, Answered, daemonVars, historyVars
<1>4. CASE AnswerHeight \/ AnswerRound \/ AnswerReward \/ AcceptBlock \/ RejectBlock
  <2>1. (Asked => Asked') /\ (Answered => Answered')
    BY <1>4, AnswerKeeps DEF AnswerHeight, AnswerRound, AnswerReward, AcceptBlock, RejectBlock,
       Requests, Coinbases, DataPackets, Responses
  <2> QED BY <1>4, <2>1, Undisturbed DEF AnswerHeight, AnswerRound, AnswerReward, AcceptBlock,
          RejectBlock, Running, daemonVars, historyVars
<1>5. CASE \E c \in Coinbases : AcceptCoinbase(c) \/ RefuseCoinbase(c)
  <2>1. Answered'
    BY <1>5, AnswerKeeps DEF AcceptCoinbase, RefuseCoinbase, Requests, Coinbases, Responses
  <2> QED BY <2>1 DEF UnderWay
<1>6. CASE ReportOrphan
  <2>1. Answered => Answered'
    BY <1>6 DEF ReportOrphan, Answered, TypeOK
  <2> QED BY <1>6, <2>1, Undisturbed DEF ReportOrphan, Running, Asked, daemonVars, historyVars
<1>7. CASE CloseLink
    BY <1>7 DEF CloseLink, UnderWay, Running
<1>8. CASE CoinbasePending
    BY <1>8 DEF CoinbasePending, UnderWay
<1>9. CASE CoinbaseSet
  <2>1. later => Asked'
    BY <1>9, NewRoundAsks DEF CoinbaseSet, TypeOK
  <2> QED BY <1>9, <2>1 DEF CoinbaseSet, UnderWay
<1>10. CASE Good
  <2>1. Asked'
    BY <1>10, NewRoundAsks DEF Good, TypeOK
  <2> QED BY <2>1 DEF UnderWay
<1>11. CASE Ignore
  <2>1. Buffer(1) /\ Head(replies).kind \notin {"COINBASE_SET", "COINBASE_FAIL"}
    BY <1>11 DEF Ignore, Receive
  <2>2. ~Settles(2..1)
    BY DEF Settles, Kinds
  <2>3. Answered => Answered'
    BY <2>1, <2>2, LostOrAnswered
  <2> QED BY <1>11, <2>3, Undisturbed DEF Ignore, Running, Asked, daemonVars, historyVars
<1>12. ASSUME NEW n \in 1..MaxReplies, BlockHeight(n) \/ OrphanBlock(n) PROVE UnderWay'
  <2>1. Buffer(n) /\ Head(replies).kind \notin {"COINBASE_SET", "COINBASE_FAIL"}
    BY <1>12 DEF BlockHeight, OrphanBlock, Receive
  <2>2. Answered => Answered' \/ Settles(2..n)
    BY <2>1, LostOrAnswered
  <2>3. lost' = (lost \/ Settles(2..n)) /\ (pending => pending')
    BY <1>12 DEF BlockHeight, OrphanBlock, Lose
  <2>4. UNCHANGED <<alive, link, later, requests>>
    BY <1>12 DEF BlockHeight, OrphanBlock
  <2> QED BY <2>2, <2>3, <2>4 DEF UnderWay, Running, Asked
<1>13. ASSUME NEW n \in 1..MaxReplies, BlockReward(n) PROVE UnderWay'
  <2>1. CASE later /\ pending
    BY <1>13, <2>1 DEF BlockReward, UnderWay
  <2>2. CASE ~(later /\ pending)
    <3>1. later => Asked'
      BY <1>13, <2>2, NewRoundAsks DEF BlockReward, TypeOK
    <3> QED BY <1>13, <3>1 DEF BlockReward, UnderWay
  <2> QED BY <2>1, <2>2
<1>14. ASSUME NEW n \in 1..MaxReplies, Garbled(n) PROVE UnderWay'
  <2>1. Buffer(n) /\ lost' = (lost \/ Settles(1..n))
    BY <1>14 DEF Garbled, Lose
  <2>2. Answered => Answered' \/ Settles(1..n)
    BY <2>1, LostOrAnswered, HeadSettles
  <2>3. UNCHANGED <<pending, later, requests>> /\ (Running' => Running)
    BY <1>14 DEF Garbled, Buffer, Running, daemonVars
  <2> QED BY <2>1, <2>2, <2>3 DEF UnderWay, Asked
<1>15. CASE UNCHANGED vars
    BY <1>15, Undisturbed DEF vars, Running, Asked, Answered, daemonVars, historyVars
<1> QED BY <1>1, <1>2, <1>3, <1>4, <1>5, <1>6, <1>7, <1>8, <1>9, <1>10, <1>11, <1>12, <1>13,
           <1>14, <1>15 DEF Next

-----------------------------------------------------------------------------

\* The inductive invariant holds in every state.
LEMMA Invariance == Spec => []IInv
<1>1. Init => IInv
  <2> SUFFICES ASSUME Init PROVE IInv
    OBVIOUS
  <2>1. NoRequests \in [Requests -> Nat] /\ <<>> \in Seq(Packets)
    BY DEF NoRequests
  <2>2. NoBlock \in Blocks
    BY BoundsAssumption DEF NoBlock, Blocks, Coinbases, Heights
  <2>3. TypeOK
    <3>1. 0 \in Heights /\ 1 \in 1..MaxHeight /\ 0 \in 0..MaxOrphans
      BY BoundsAssumption DEF Heights
    <3> QED BY <2>1, <2>2, <3>1 DEF Init, TypeOK, Coinbases
  <2>4. UnderWay
    BY DEF Init, UnderWay
  <2> QED BY <2>3, <2>4 DEF IInv
<1>2. IInv /\ [Next]_vars => IInv'
    BY TypeStep, UnderWayStep DEF IInv
<1> QED BY <1>1, <1>2, PTL DEF Spec

\* The dialogue with the wallet stays well typed; in particular no request is answered that
\* was not made, whatever is lost.
THEOREM TypeCorrect == Spec => []TypeOK
<1>1. IInv => TypeOK BY DEF IInv
<1> QED BY Invariance, <1>1, PTL

\* From the second round on there is always a SET_COINBASE, or an answer to one, in transit
\* while the daemon is not waiting for a reward, unless one was lost.
THEOREM NeverSettled == Spec => []CoinbaseUnderWay
<1>1. ASSUME Answered PROVE Kinds(1..Len(replies)) \cap {"COINBASE_SET", "COINBASE_FAIL"} # {}
    BY <1>1 DEF Answered, Kinds
<1>2. IInv => CoinbaseUnderWay
    BY <1>1 DEF IInv, UnderWay, Asked, CoinbaseUnderWay
<1> QED BY Invariance, <1>2, PTL
=============================================================================
