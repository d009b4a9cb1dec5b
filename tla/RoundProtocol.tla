---------------------------- MODULE RoundProtocol ----------------------------
(***************************************************************************)
(* The dialogue of Daemon_connection with the wallet that begins and ends  *)
(* rounds: the height timer, the coinbase transaction the two have to      *)
(* agree on, the submission of a block, and process_data.                  *)
(*                                                                         *)
(* What the pool deducts from the balances of its miners when a block is   *)
(* accepted is its own coinbase transaction; what the block paid is the    *)
(* one the wallet had when it made the template.  A coinbase is therefore  *)
(* "fresh" (the one the pool has now) or "stale" (an earlier one), and a   *)
(* rebuild makes every copy of the former a copy of the latter.  Which     *)
(* outputs it has is the subject of PayoutManager.                         *)
(*                                                                         *)
(* transmit posts to the system executor, whose threads may run two posts  *)
(* in either order: the requests in transit are a bag.  The wallet's       *)
(* replies are a queue, but receive() hands over all bytes that have       *)
(* arrived and process_data looks at the first packet only.                *)
(*                                                                         *)
(* Templates reach the miners in one step here (BlockRequests has the      *)
(* steps), and one block at a time is on its way to the wallet             *)
(* (PayoutManager has the case of several).                                *)
(***************************************************************************)
EXTENDS Naturals, Sequences

CONSTANTS
    MaxHeight,   \* bound on the block chain's height
    MaxReplies,  \* bound on the replies in transit
    MaxTokens,   \* bound on the SET_COINBASE requests and answers in transit
    MaxOrphans,  \* bound on the ORPHAN_BLOCK packets
    Framed       \* TRUE: every packet of the wallet arrives in a receive buffer of its own

ASSUME BoundsAssumption ==
    {MaxHeight, MaxReplies, MaxTokens, MaxOrphans} \subseteq Nat /\ MaxHeight > 0
ASSUME FramedAssumption == Framed \in BOOLEAN

VARIABLES
  (* Daemon_connection and Data_registry *)
    alive,      \* the process is running
    link,       \* m_connection is not null
    pending,    \* m_coinbase_pending
    best,       \* m_best_height
    later,      \* m_current_round > 1
    tick,       \* the block timer's handler has seen m_coinbase_pending = false
    template,   \* coinbase of the template the miners work on
    block,      \* the block a miner has found and where it is
  (* the connection to the wallet *)
    requests,   \* how many requests of each kind are in transit
    replies,    \* the packets on their way from the wallet
  (* the wallet (external) *)
    chain,      \* height of its block chain
    news,       \* the chain has grown since the last GET_ROUND
    agreed,     \* the coinbase it puts into templates
    orphans,    \* ORPHAN_BLOCK packets it has sent
  (* history *)
    lost,       \* a reward or an answer to SET_COINBASE was lost since the last rebuild
    mispaid     \* a block was booked with another coinbase than it paid

daemonVars == <<pending, best, later>>
minerVars == <<tick, template, block>>
walletVars == <<chain, news, agreed, orphans>>
historyVars == <<lost, mispaid>>
vars == <<alive, link, daemonVars, minerVars, requests, replies, walletVars, historyVars>>

Coinbases == {"fresh", "stale"}
Requests == {"height", "round", "reward", "submit"} \cup Coinbases
Heights == 0..MaxHeight

\* Packets with a length and data (header below 128), and those of one byte.
DataPackets == {"BLOCK_HEIGHT", "BLOCK_REWARD", "ORPHAN_BLOCK"}
Responses == {"GOOD", "FAIL", "COINBASE_SET", "COINBASE_FAIL", "NEW_ROUND", "OLD_ROUND"}
Packets == [kind : DataPackets \cup Responses, height : Heights]

NoBlock == [at |-> "nowhere", coinbase |-> "fresh", height |-> 0]
Blocks == [at : {"nowhere", "slot", "sent", "accepted"}, coinbase : Coinbases,
           height : Heights]

TypeOK ==
    /\ alive \in BOOLEAN /\ link \in BOOLEAN /\ pending \in BOOLEAN /\ later \in BOOLEAN
    /\ tick \in BOOLEAN /\ news \in BOOLEAN /\ lost \in BOOLEAN /\ mispaid \in BOOLEAN
    /\ best \in Heights
    /\ template \in Coinbases \cup {"none"}
    /\ block \in Blocks
    /\ requests \in [Requests -> Nat]
    /\ replies \in Seq(Packets)
    /\ chain \in 1..MaxHeight
    /\ agreed \in Coinbases
    /\ orphans \in 0..MaxOrphans

NoRequests == [r \in Requests |-> 0]

\* Both sides start without a coinbase transaction.
Init ==
    /\ alive = TRUE
    /\ link = TRUE
    /\ pending = FALSE
    /\ best = 0
    /\ later = FALSE
    /\ tick = FALSE
    /\ template = "none"
    /\ block = NoBlock
    /\ requests = NoRequests
    /\ replies = <<>>
    /\ chain = 1
    /\ news = TRUE
    /\ agreed = "fresh"
    /\ orphans = 0
    /\ lost = FALSE
    /\ mispaid = FALSE

\* m_connection->transmit of a request, in a handler that makes no other one.
Transmit(r) == requests' = [requests EXCEPT ![r] = @ + 1]

-----------------------------------------------------------------------------
(* Timers *)

\* GET_HEIGHT, GET_ROUND and, while a coinbase is pending, GET_REWARD every two seconds.
\* With m_connection null the process dies.  Bounds: the last requests of the timer have
\* been answered, and no reward is asked for while MaxTokens coinbases are in transit.
HeightTimer ==
    /\ alive
    /\ \A r \in {"height", "round", "reward"} : requests[r] = 0
    /\ pending => requests["fresh"] + requests["stale"] + Len(replies) < MaxTokens
    /\ alive' = link
    /\ requests' = [requests EXCEPT !["height"] = 1, !["round"] = 1,
                                    !["reward"] = IF pending THEN 1 ELSE 0]
    /\ UNCHANGED <<link, daemonVars, minerVars, replies, walletVars, historyVars>>

\* The block timer reads m_coinbase_pending before it takes the mutex.
BlockTimer ==
    /\ alive
    /\ ~tick
    /\ ~pending
    /\ tick' = TRUE
    /\ UNCHANGED <<alive, link, daemonVars, template, block, requests, replies, walletVars,
                   historyVars>>

\* The waiting block is sent if it has the best height, and given up in both cases.
SubmitBlock ==
    /\ alive
    /\ tick
    /\ tick' = FALSE
    /\ \/ /\ block.at = "slot" /\ block.height = best
          /\ block' = [block EXCEPT !.at = "sent"]
          /\ Transmit("submit")
          /\ alive' = link
       \/ /\ block.at = "slot" /\ block.height # best
          /\ block' = NoBlock
          /\ UNCHANGED <<alive, requests>>
       \/ /\ block.at # "slot"
          /\ UNCHANGED <<alive, block, requests>>
    /\ UNCHANGED <<link, daemonVars, template, replies, walletVars, historyVars>>

-----------------------------------------------------------------------------
(* Miners *)

\* GET_BLOCK to the wallet while no coinbase is pending, and BLOCK_DATA of the best
\* height back: the template carries the coinbase the wallet has.
GetTemplate ==
    /\ alive /\ link
    /\ ~pending
    /\ chain = best
    /\ template' = agreed
    /\ UNCHANGED <<alive, link, daemonVars, tick, block, requests, replies, walletVars,
                   historyVars>>

\* A share for the template is a block (and passes the height check); it is left with the
\* daemon connection.
FindBlock ==
    /\ alive
    /\ template # "none"
    /\ block.at = "nowhere"
    /\ block' = [at |-> "slot", coinbase |-> template, height |-> best]
    /\ UNCHANGED <<alive, link, daemonVars, tick, template, requests, replies, walletVars,
                   historyVars>>

-----------------------------------------------------------------------------
(* The wallet *)

\* A packet of the wallet; the reward and the hash of an orphan are left out.
Packet(packet) == [kind |-> packet, height |-> IF packet = "BLOCK_HEIGHT" THEN chain ELSE 0]

\* The wallet takes a request of this kind and answers with this packet.
Answer(r, packet) ==
    /\ alive /\ link
    /\ requests[r] > 0
    /\ Len(replies) < MaxReplies
    /\ requests' = [requests EXCEPT ![r] = @ - 1]
    /\ replies' = Append(replies, Packet(packet))

AnswerHeight ==
    /\ Answer("height", "BLOCK_HEIGHT")
    /\ UNCHANGED <<alive, link, daemonVars, minerVars, walletVars, historyVars>>

AnswerRound ==
    /\ Answer("round", IF news THEN "NEW_ROUND" ELSE "OLD_ROUND")
    /\ news' = FALSE
    /\ UNCHANGED <<alive, link, daemonVars, minerVars, chain, agreed, orphans, historyVars>>

AnswerReward ==
    /\ Answer("reward", "BLOCK_REWARD")
    /\ UNCHANGED <<alive, link, daemonVars, minerVars, walletVars, historyVars>>

\* SET_COINBASE: the wallet takes the coinbase over ...
AcceptCoinbase(c) ==
    /\ Answer(c, "COINBASE_SET")
    /\ agreed' = c
    /\ UNCHANGED <<alive, link, daemonVars, minerVars, chain, news, orphans, historyVars>>

\* ... or refuses it.
RefuseCoinbase(c) ==
    /\ Answer(c, "COINBASE_FAIL")
    /\ UNCHANGED <<alive, link, daemonVars, minerVars, walletVars, historyVars>>

\* SUBMIT_BLOCK: a block on top of the chain may be accepted ...
AcceptBlock ==
    /\ Answer("submit", "GOOD")
    /\ block.height = chain /\ chain < MaxHeight
    /\ chain' = chain + 1
    /\ news' = TRUE
    /\ block' = [block EXCEPT !.at = "accepted"]
    /\ UNCHANGED <<alive, link, daemonVars, tick, template, agreed, orphans, historyVars>>

\* ... and any block may be rejected.
RejectBlock ==
    /\ Answer("submit", "FAIL")
    /\ block' = NoBlock
    /\ UNCHANGED <<alive, link, daemonVars, tick, template, walletVars, historyVars>>

\* A block of another miner.
ChainGrows ==
    /\ chain < MaxHeight
    /\ chain' = chain + 1
    /\ news' = TRUE
    /\ UNCHANGED <<alive, link, daemonVars, minerVars, requests, replies, agreed, orphans,
                   historyVars>>

\* The answer to the CHECK_BLOCK of the orphan timer for a block of an earlier round.
ReportOrphan ==
    /\ alive /\ link
    /\ later
    /\ orphans < MaxOrphans
    /\ Len(replies) < MaxReplies
    /\ orphans' = orphans + 1
    /\ replies' = Append(replies, Packet("ORPHAN_BLOCK"))
    /\ UNCHANGED <<alive, link, daemonVars, minerVars, requests, chain, news, agreed,
                   historyVars>>

\* connection_closed: m_connection becomes null and what was in transit is gone.  "retry
\* connect" is a comment.
CloseLink ==
    /\ alive /\ link
    /\ link' = FALSE
    /\ requests' = NoRequests
    /\ replies' = <<>>
    /\ UNCHANGED <<alive, daemonVars, minerVars, walletVars, historyVars>>

-----------------------------------------------------------------------------
(* The daemon's receive handler *)

\* The kinds of the packets with these positions.
Kinds(positions) == {replies[i].kind : i \in positions}

\* An accepted block whose GOOD is among these packets, which are lost, is never booked.
Unbooked(positions) == IF "GOOD" \in Kinds(positions) THEN NoBlock ELSE block

\* One of these packets would have settled a coinbase.
Settles(positions) ==
    Kinds(positions) \cap {"BLOCK_REWARD", "COINBASE_SET", "COINBASE_FAIL"} # {}

\* The packets with these positions are lost.
Lose(positions) ==
    /\ lost' = (lost \/ Settles(positions))
    /\ block' = Unbooked(positions)

\* The first n packets arrive in one receive buffer.
Buffer(n) ==
    /\ alive /\ link
    /\ n \in 1..Len(replies) /\ (Framed => n = 1)
    /\ replies' = SubSeq(replies, n + 1, Len(replies))

\* process_data handles the first packet of the buffer, which is of this kind.  A data
\* packet takes all that follows for its data; a one-byte packet has to be alone.
Receive(kind, n) ==
    /\ Buffer(n)
    /\ Head(replies).kind = kind
    /\ kind \in DataPackets \/ n = 1

\* A one-byte packet with others behind it: the bytes that follow are taken for its
\* length and the packet is invalid.  With fewer than five bytes the constructor of
\* Daemon_packet makes a vector of negative length and the process dies.
Garbled(n) ==
    /\ Buffer(n)
    /\ n > 1
    /\ Head(replies).kind \in Responses
    /\ alive' = (n > 4 \/ Kinds(1..n) \cap DataPackets # {})
    /\ Lose(1..n)
    /\ UNCHANGED <<link, daemonVars, tick, template, requests, walletVars, mispaid>>

\* Mutant: the height of the next block is taken for the best height.
BlockHeightNext(n) ==
    /\ Receive("BLOCK_HEIGHT", n)
    /\ Lose(2..n)
    /\ best' = IF Head(replies).height > best THEN Head(replies).height + 1 ELSE best
    /\ pending' = (pending \/ Head(replies).height > best)
    /\ UNCHANGED <<alive, link, later, tick, template, requests, walletVars, mispaid>>

\* BLOCK_HEIGHT
BlockHeight(n) ==
    /\ Receive("BLOCK_HEIGHT", n)
    /\ Lose(2..n)
    /\ best' = IF Head(replies).height > best THEN Head(replies).height ELSE best
    /\ pending' = (pending \/ Head(replies).height > best)
    /\ UNCHANGED <<alive, link, later, tick, template, requests, walletVars, mispaid>>

\* NEW_ROUND, COINBASE_FAIL: the coinbase has to be rebuilt.
CoinbasePending ==
    /\ Receive("NEW_ROUND", 1) \/ Receive("COINBASE_FAIL", 1)
    /\ pending' = TRUE
    /\ UNCHANGED <<alive, link, best, later, minerVars, requests, walletVars, historyVars>>

\* OLD_ROUND and FAIL have no effect here.
Ignore ==
    /\ Receive("OLD_ROUND", 1) \/ Receive("FAIL", 1)
    /\ UNCHANGED <<alive, link, daemonVars, minerVars, requests, walletVars, historyVars>>

\* Mutant: the last lines send the coinbase once more only while it is pending.
NewRoundOnce(next, flag) ==
    /\ template' = "none"
    /\ pending' = (next /\ flag)
    /\ requests' = [requests EXCEPT !["fresh"] = @ + IF next /\ flag THEN 1 ELSE 0]

\* Mutant: the last lines send the coinbase of the round before.
NewRoundOld(next, flag) ==
    /\ template' = "none"
    /\ pending' = (next /\ flag)
    /\ requests' = [requests EXCEPT !["stale"] = @ + IF next THEN 1 ELSE 0]

\* new_round takes the templates from the miners, and the last lines of process_data,
\* reached with m_new_block set, send the coinbase once more from the second round on.
NewRound(next, flag) ==
    /\ template' = "none"
    /\ pending' = (next /\ flag)
    /\ requests' = [requests EXCEPT !["fresh"] = @ + IF next THEN 1 ELSE 0]

\* Mutant: the flag is not cleared.
CoinbaseSetPending ==
    /\ Receive("COINBASE_SET", 1)
    /\ NewRound(later, pending)
    /\ UNCHANGED <<alive, link, best, later, tick, block, walletVars, historyVars>>

\* COINBASE_SET.  It does not say which SET_COINBASE it answers.
CoinbaseSet ==
    /\ Receive("COINBASE_SET", 1)
    /\ NewRound(later, FALSE)
    /\ UNCHANGED <<alive, link, best, later, tick, block, walletVars, historyVars>>

\* The coinbase is rebuilt, and differs from the last one or not; b is the block on its way.
Rebuild(differs, b) ==
    LET Older(c) == IF differs /\ c = "fresh" THEN "stale" ELSE c IN
    /\ requests' = IF differs
                   THEN [requests EXCEPT !["stale"] = @ + requests["fresh"], !["fresh"] = 1]
                   ELSE [requests EXCEPT !["fresh"] = @ + 1]
    /\ agreed' = Older(agreed)
    /\ template' = Older(template)
    /\ block' = IF b = NoBlock THEN b ELSE [b EXCEPT !.coinbase = Older(@)]

\* BLOCK_REWARD: from the second round on, the coinbase that is pending is rebuilt and
\* sent; otherwise a new round begins at once.
BlockReward(n) ==
    /\ Receive("BLOCK_REWARD", n)
    /\ \/ /\ later /\ pending
          /\ \E differs \in BOOLEAN : Rebuild(differs, Unbooked(2..n))
          /\ lost' = Settles(2..n)
          /\ UNCHANGED pending
       \/ /\ ~(later /\ pending)
          /\ NewRound(later, FALSE)
          /\ Lose(2..n)
          /\ UNCHANGED agreed
    /\ UNCHANGED <<alive, link, best, later, tick, chain, news, orphans, mispaid>>

\* ORPHAN_BLOCK: the refund (PayoutManager), and the coinbase has to be rebuilt.
OrphanBlock(n) ==
    /\ Receive("ORPHAN_BLOCK", n)
    /\ Lose(2..n)
    /\ pending' = TRUE
    /\ UNCHANGED <<alive, link, best, later, tick, template, requests, walletVars, mispaid>>

\* GOOD: the block is booked with the coinbase the pool has now, and a new round begins.
Good ==
    /\ Receive("GOOD", 1)
    /\ mispaid' = (mispaid \/ block.coinbase = "stale")
    /\ block' = NoBlock
    /\ later' = TRUE
    /\ NewRound(TRUE, pending)
    /\ UNCHANGED <<alive, link, best, tick, walletVars, lost>>

-----------------------------------------------------------------------------

Next ==
    \/ HeightTimer \/ BlockTimer \/ SubmitBlock
    \/ GetTemplate \/ FindBlock
    \/ AnswerHeight \/ AnswerRound \/ AnswerReward
    \/ \E c \in Coinbases : AcceptCoinbase(c) \/ RefuseCoinbase(c)
    \/ AcceptBlock \/ RejectBlock \/ ChainGrows \/ ReportOrphan \/ CloseLink
    \/ CoinbasePending \/ CoinbaseSet \/ Good \/ Ignore
    \/ \E n \in 1..MaxReplies :
        BlockHeight(n) \/ BlockReward(n) \/ OrphanBlock(n) \/ Garbled(n)

\* The height timer restarts itself, the wallet answers every request and does not refuse
\* every coinbase, what has arrived is received.
Fairness ==
    /\ WF_vars(HeightTimer)
    /\ WF_vars(AnswerHeight) /\ WF_vars(AnswerRound) /\ WF_vars(AnswerReward)
    /\ WF_vars(AcceptBlock \/ RejectBlock)
    /\ \A c \in Coinbases : WF_vars(AcceptCoinbase(c) \/ RefuseCoinbase(c))
    /\ SF_vars(\E c \in Coinbases : AcceptCoinbase(c))
    /\ WF_vars(CoinbasePending \/ CoinbaseSet \/ Good \/ Ignore
               \/ BlockHeight(1) \/ BlockReward(1) \/ OrphanBlock(1))

Spec == Init /\ [][Next]_vars /\ Fairness
-----------------------------------------------------------------------------
(* Properties *)

\* The link is up and the process runs.
Running == alive /\ link

\* A coinbase that is pending is settled: whatever the wallet reports meanwhile, in
\* whatever order requests reach it, block requests and submissions go on, unless the
\* reply that would have settled it shares a receive buffer with another packet, or the
\* wallet is gone.
PendingClears == pending ~> (~pending \/ lost \/ ~Running)

\* The exchange of SET_COINBASE and COINBASE_SET never ends: each answer begins a new round
\* and each new round sends the coinbase again.  From the second round on, and while no
\* coinbase is pending, there is a request or an answer of it in transit, unless one was
\* lost.  (Nothing else would correct a wallet that has a stale coinbase.)
CoinbaseUnderWay ==
    later /\ ~pending /\ ~lost /\ Running =>
        \/ requests["fresh"] + requests["stale"] > 0
        \/ Kinds(1..Len(replies)) \cap {"COINBASE_SET", "COINBASE_FAIL"} # {}

\* COINBASE_SET clears the flag also when it answers an earlier SET_COINBASE, so that
\* miners may work on templates with a stale coinbase.  This does not last: the wallet
\* gets the current one, because every COINBASE_SET makes the pool send it once more.
AgreementRestored ==
    (later /\ agreed = "stale") ~> (agreed = "fresh" \/ pending \/ lost \/ ~Running)

\* "Update the Account Balance After Payout was Successful": the payouts deducted from
\* the balances when a block is accepted are the ones in the coinbase of that block.
PaidAsBooked == ~mispaid
=============================================================================
