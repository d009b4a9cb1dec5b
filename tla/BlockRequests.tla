---------------------------- MODULE BlockRequests ----------------------------
(***************************************************************************)
(* Block templates on their way to the miners: GET_BLOCK of a miner, the   *)
(* three counters it passes through, the block timer that forwards it to   *)
(* the wallet, and BLOCK_DATA on the way back.                             *)
(*                                                                         *)
(* A request is counted three times.  m_num_blocks_requested belongs to    *)
(* the Pool_connection; m_blocks_requested and m_blocks_waiting belong to  *)
(* its entry in m_pool_connections and are guarded by the mutex of that    *)
(* vector.  Nothing in a template says whose request it answers: it goes   *)
(* to the first entry that waits for one.  request_block assigns its       *)
(* argument, new_round resets the first counter only, and a template that  *)
(* is obsolete, or that shares a receive buffer with another packet, is    *)
(* dropped without a decrement.  The module asks what is left of the       *)
(* promise that a request is answered.                                     *)
(*                                                                         *)
(* When rounds begin is the subject of RoundProtocol: here new_round may   *)
(* come at any time.  It is one step, because what it resets for one       *)
(* connection is touched by no other connection's handler; its two locks   *)
(* and its race with the growing vector are in ShareValidation.            *)
(***************************************************************************)
EXTENDS Integers, Sequences, FiniteSets, Tally

CONSTANTS
    Conns,      \* Pool_connection objects; each connects at most once
    Addresses,  \* remote ip addresses: several miners may have the same
    Word,       \* size of uint16_t, scaled down
    MaxHeight,  \* bound on the block chain's height
    MaxAsks,    \* bound on the GET_BLOCK packets of all miners
    Framed      \* TRUE: every packet of the wallet arrives in a receive buffer of its own

ASSUME ConnsAssumption == IsFiniteSet(Conns)
ASSUME WordAssumption == Word \in Nat /\ Word > MaxAsks
ASSUME BoundsAssumption == MaxHeight \in Nat /\ MaxAsks \in Nat
ASSUME FramedAssumption == Framed \in BOOLEAN

VARIABLES
  (* Pool_connection *)
    conn,       \* "none", "open", "closed" (m_connection = nullptr) or "gone" (destroyed)
    address,    \* m_remote_address: the ip only, set when it connects
    num,        \* m_num_blocks_requested
    asking,     \* the argument of request_block while the handler waits for the mutex
  (* Daemon_connection and Data_registry *)
    alive,      \* the process is running
    before,     \* the entries of m_pool_connections ahead of each entry
    requested,  \* Pool_connection_data::m_blocks_requested
    waiting,    \* Pool_connection_data::m_blocks_waiting
    pending,    \* m_coinbase_pending
    tick,       \* the block timer's handler has seen m_coinbase_pending = false
    best,       \* m_best_height
  (* the wallet (external) *)
    chain,      \* height of its block chain
    gets,       \* GET_BLOCK packets it has not answered
    inbox,      \* packets on their way from the wallet
  (* history *)
    asks,       \* GET_BLOCK packets the miners have sent
    want        \* those it still needs an answer to: not delivered, no new round since

connVars == <<conn, address, num, asking>>
entryVars == <<before, requested, waiting>>
walletVars == <<chain, gets, inbox>>
historyVars == <<asks, want>>
vars == <<connVars, alive, entryVars, pending, tick, best, walletVars, historyVars>>

Counter == 0..Word - 1
Heights == 0..MaxHeight
NoAddress == "none"     \* before it connects
Packets == [kind : {"height", "data"}, height : Heights]

TypeOK ==
    /\ conn \in [Conns -> {"none", "open", "closed", "gone"}]
    /\ address \in [Conns -> Addresses \cup {NoAddress}]
    /\ num \in [Conns -> Counter]
    /\ asking \in [Conns -> SUBSET Counter]
    /\ alive \in BOOLEAN
    /\ before \in [Conns -> SUBSET Conns]
    /\ requested \in [Conns -> Counter]
    /\ waiting \in [Conns -> Counter]
    /\ pending \in BOOLEAN
    /\ tick \in BOOLEAN
    /\ best \in Heights
    /\ chain \in Heights
    /\ gets \in Nat
    /\ inbox \in Seq(Packets)
    /\ asks \in 0..MaxAsks
    /\ want \in [Conns -> 0..MaxAsks]

Zero == [c \in Conns |-> 0]

Init ==
    /\ conn = [c \in Conns |-> "none"]
    /\ address = [c \in Conns |-> NoAddress]
    /\ num = Zero
    /\ asking = [c \in Conns |-> {}]
    /\ alive = TRUE
    /\ before = [c \in Conns |-> {}]
    /\ requested = Zero
    /\ waiting = Zero
    /\ pending = FALSE
    /\ tick = FALSE
    /\ best = 0
    /\ chain \in Heights
    /\ gets = 0
    /\ inbox = <<>>
    /\ asks = 0
    /\ want = Zero

\* The entries whose weak_ptr can be locked.  An entry is never erased: the timer that
\* would call cleanup_expired_pool_connections is not started.
Lockable == {c \in Conns : conn[c] \in {"open", "closed"}}

-----------------------------------------------------------------------------
(* Pool_connection *)

\* connection_ok: add_pool_connection appends an entry with both counters 0.
Connect(c, ip) ==
    /\ alive
    /\ conn[c] = "none"
    /\ conn' = [conn EXCEPT ![c] = "open"]
    /\ address' = [address EXCEPT ![c] = ip]
    /\ before' = [before EXCEPT ![c] = {d \in Conns : conn[d] # "none"}]
    /\ UNCHANGED <<num, asking, alive, requested, waiting, pending, tick, best, walletVars,
                   historyVars>>

\* The miner closes the connection; the entry and its counters stay.
Close(c) ==
    /\ alive
    /\ conn[c] = "open"
    /\ asking[c] = {}
    /\ conn' = [conn EXCEPT ![c] = "closed"]
    /\ want' = [want EXCEPT ![c] = 0]
    /\ UNCHANGED <<address, num, asking, alive, entryVars, pending, tick, best, walletVars, asks>>

\* The server's maintenance timer drops the closed connections: their entries expire.
CleanUp ==
    /\ alive
    /\ \E c \in Conns : conn[c] = "closed"
    /\ conn' = [c \in Conns |-> IF conn[c] = "closed" THEN "gone" ELSE conn[c]]
    /\ UNCHANGED <<address, num, asking, alive, entryVars, pending, tick, best, walletVars,
                   historyVars>>

\* GET_BLOCK of a miner: ++m_num_blocks_requested, before the mutex is taken.
GetBlock(c) ==
    /\ alive
    /\ conn[c] = "open"
    /\ asking[c] = {}
    /\ asks < MaxAsks
    /\ num' = [num EXCEPT ![c] = (@ + 1) % Word]
    /\ asking' = [asking EXCEPT ![c] = {num'[c]}]
    /\ asks' = asks + 1
    /\ want' = [want EXCEPT ![c] = @ + 1]
    /\ UNCHANGED <<conn, address, alive, entryVars, pending, tick, best, walletVars>>

\* Mutant: the argument is added to the counter.
RequestMore(c) ==
    /\ alive
    /\ \E n \in asking[c] : requested' = [requested EXCEPT ![c] = (@ + n) % Word]
    /\ asking' = [asking EXCEPT ![c] = {}]
    /\ UNCHANGED <<conn, address, num, alive, before, waiting, pending, tick, best, walletVars,
                   historyVars>>

\* find_pool_connection(ip): e is the first live entry with that address.
FirstWithAddress(e, ip) ==
    /\ e \in Lockable
    /\ address[e] = ip
    /\ \A d \in before[e] \cap Lockable : address[d] # ip

\* request_block: the counter of the entry takes the value the handler has read.
RequestBlock(c) ==
    /\ alive
    /\ \E e \in Conns, n \in asking[c] :
          /\ FirstWithAddress(e, address[c])
          /\ requested' = [requested EXCEPT ![e] = n]
    /\ asking' = [asking EXCEPT ![c] = {}]
    /\ UNCHANGED <<conn, address, num, alive, before, waiting, pending, tick, best, walletVars,
                   historyVars>>

-----------------------------------------------------------------------------
(* The block timer *)

\* Every 50 ms: nothing is requested while a coinbase is pending.  The flag is read
\* before the mutex is taken.
BlockTimer ==
    /\ alive
    /\ ~tick
    /\ ~pending
    /\ tick' = TRUE
    /\ UNCHANGED <<connVars, alive, entryVars, pending, best, walletVars, historyVars>>

\* Mutant: the loop starts behind the first entry.
RequestBlocksOfOthers ==
    LET others == {c \in Conns : before[c] # {}} IN
    /\ alive
    /\ tick
    /\ tick' = FALSE
    /\ requested' = [c \in Conns |-> IF c \in others THEN 0 ELSE requested[c]]
    /\ waiting' = [c \in Conns |-> IF c \in others THEN (waiting[c] + requested[c]) % Word
                                                  ELSE waiting[c]]
    /\ gets' = gets + SumOf(requested, others)
    /\ UNCHANGED <<connVars, alive, before, pending, best, chain, inbox, historyVars>>

\* Under the mutex, for every entry, an expired one too: each request becomes a GET_BLOCK
\* to the wallet and a template the entry waits for.
RequestBlocks ==
    /\ alive
    /\ tick
    /\ tick' = FALSE
    /\ requested' = Zero
    /\ waiting' = [c \in Conns |-> (waiting[c] + requested[c]) % Word]
    /\ gets' = gets + SumOf(requested, Conns)
    /\ UNCHANGED <<connVars, alive, before, pending, best, chain, inbox, historyVars>>

-----------------------------------------------------------------------------
(* The wallet *)

ChainGrows ==
    /\ chain < MaxHeight
    /\ chain' = chain + 1
    /\ UNCHANGED <<connVars, alive, entryVars, pending, tick, best, gets, inbox, historyVars>>

\* The answer to the GET_HEIGHT of the height timer.  A second report of a height would
\* change nothing.
ReportHeight ==
    LET report == [kind |-> "height", height |-> chain] IN
    /\ alive
    /\ chain > best
    /\ \A i \in 1..Len(inbox) : inbox[i] # report
    /\ inbox' = Append(inbox, report)
    /\ UNCHANGED <<connVars, alive, entryVars, pending, tick, best, chain, gets, historyVars>>

\* The answer to GET_BLOCK: a template for the current height.
SendBlock ==
    /\ alive
    /\ gets > 0
    /\ gets' = gets - 1
    /\ inbox' = Append(inbox, [kind |-> "data", height |-> chain])
    /\ UNCHANGED <<connVars, alive, entryVars, pending, tick, best, chain, historyVars>>

-----------------------------------------------------------------------------
(* The daemon's receive handler *)

\* BLOCK_HEIGHT
BlockHeight ==
    /\ alive
    /\ inbox # <<>> /\ Head(inbox).kind = "height"
    /\ inbox' = Tail(inbox)
    /\ \/ /\ Head(inbox).height > best
          /\ best' = Head(inbox).height
          /\ pending' = TRUE
       \/ /\ Head(inbox).height <= best
          /\ UNCHANGED <<best, pending>>
    /\ UNCHANGED <<connVars, alive, entryVars, tick, chain, gets, historyVars>>

\* The first live entry that waits for a template.
FirstWaiting(c) ==
    /\ c \in Lockable /\ waiting[c] > 0
    /\ \A d \in before[c] \cap Lockable : waiting[d] = 0

\* Mutant: the counter is decremented as a signed number.
AddBlockSigned(c) ==
    IF conn[c] = "open"
    THEN /\ num' = [num EXCEPT ![c] = @ - 1]
         /\ want' = [want EXCEPT ![c] = IF @ = 0 THEN 0 ELSE @ - 1]
    ELSE UNCHANGED <<num, want>>

\* add_block: a closed connection returns at once.
AddBlock(c) ==
    IF conn[c] = "open"
    THEN /\ num' = [num EXCEPT ![c] = (@ + Word - 1) % Word]
         /\ want' = [want EXCEPT ![c] = IF @ = 0 THEN 0 ELSE @ - 1]
    ELSE UNCHANGED <<num, want>>

\* BLOCK_DATA: a template of the best height goes to the first entry that waits.
BlockData(c) ==
    /\ alive
    /\ inbox # <<>> /\ Head(inbox) = [kind |-> "data", height |-> best]
    /\ inbox' = Tail(inbox)
    /\ FirstWaiting(c)
    /\ waiting' = [waiting EXCEPT ![c] = @ - 1]
    /\ AddBlock(c)
    /\ UNCHANGED <<conn, address, asking, alive, before, requested, pending, tick, best, chain, gets,
                   asks>>

\* A template of another height, or one that no entry waits for, is dropped.
DropBlock ==
    /\ alive
    /\ inbox # <<>> /\ Head(inbox).kind = "data"
    /\ Head(inbox).height # best \/ \A c \in Conns : ~FirstWaiting(c)
    /\ inbox' = Tail(inbox)
    /\ UNCHANGED <<connVars, alive, entryVars, pending, tick, best, chain, gets, historyVars>>

\* receive() hands over all bytes that have arrived, process_data looks at the first
\* packet only: a packet that shares the buffer of an earlier one is lost.
LosePacket ==
    /\ alive
    /\ ~Framed
    /\ inbox # <<>>
    /\ inbox' = Tail(inbox)
    /\ UNCHANGED <<connVars, alive, entryVars, pending, tick, best, chain, gets, historyVars>>

\* NEW_ROUND, COINBASE_FAIL and ORPHAN_BLOCK.
CoinbasePending ==
    /\ alive
    /\ pending' = TRUE
    /\ UNCHANGED <<connVars, alive, entryVars, tick, best, walletVars, historyVars>>

\* new_round, reached from COINBASE_SET and BLOCK_REWARD (which clear the flag) and from
\* GOOD (which does not).  The miner is told that the block it works on is over, so it
\* needs no answer to its earlier requests; the entry's counters stay as they are.  A
\* connection that is closed and not yet cleaned up makes the process die.
NewRound(clears) ==
    /\ alive
    /\ pending' = (pending /\ ~clears)
    /\ alive' = (\A c \in Lockable : conn[c] = "open")
    /\ num' = [c \in Conns |-> IF c \in Lockable THEN 0 ELSE num[c]]
    /\ want' = Zero
    /\ UNCHANGED <<conn, address, asking, entryVars, tick, best, walletVars, asks>>

-----------------------------------------------------------------------------

Next ==
    \/ \E c \in Conns :
        \/ \E ip \in Addresses : Connect(c, ip)
        \/ Close(c) \/ GetBlock(c) \/ RequestBlock(c) \/ BlockData(c)
    \/ CleanUp
    \/ BlockTimer \/ RequestBlocks
    \/ ChainGrows \/ ReportHeight \/ SendBlock
    \/ BlockHeight \/ DropBlock \/ LosePacket \/ CoinbasePending
    \/ \E clears \in BOOLEAN : NewRound(clears)

\* The io threads run every handler that is ready, the timers are restarted by their own
\* handlers, the wallet answers.  A pending coinbase is settled, which ends in new_round:
\* that is the subject of RoundProtocol.
Fairness ==
    /\ \A c \in Conns : WF_vars(RequestBlock(c))
    /\ WF_vars(BlockTimer)
    /\ WF_vars(RequestBlocks)
    /\ WF_vars(SendBlock)
    /\ WF_vars(ReportHeight)
    /\ WF_vars(BlockHeight \/ DropBlock \/ \E c \in Conns : BlockData(c))
    /\ WF_vars(pending /\ NewRound(TRUE))

Spec == Init /\ [][Next]_vars /\ Fairness
-----------------------------------------------------------------------------
(* Properties *)

\* Templates that are still to come: requests the wallet has not answered and answers
\* that have not been processed.
InFlight == gets + Cardinality({i \in DOMAIN inbox : inbox[i].kind = "data"})

\* The three counters agree: what a miner needs and its connection counts as requested is
\* being filed, filed or sent, and for every template an entry waits for there is one to
\* come.
InStep ==
    /\ \A c \in Conns : conn[c] = "open" =>
           /\ num[c] = want[c]
           /\ want[c] = Cardinality(asking[c]) + requested[c] + waiting[c]
    /\ SumOf(waiting, Lockable) <= InFlight

\* A request is filed with a value other than the next one: an earlier request of the
\* miner was sent or answered between its ++m_num_blocks_requested and the mutex, or is
\* still unanswered.
Overlap(c) == asking[c] # {} /\ asking'[c] = {} /\ requested[c] + 1 \notin asking[c]

\* new_round resets the count of a connection while requests of it are outstanding.
Overtaken(c) == num[c] # 0 /\ num'[c] = 0 /\ asking'[c] = asking[c]
                /\ requested'[c] = requested[c] /\ waiting'[c] = waiting[c]

\* A request is filed while an older connection from the miner's ip is alive: the lookup
\* by ip leads to the entry of that one.
Misfiled(c) == asking[c] # {} /\ asking'[c] = {}
               /\ \E d \in before[c] \cap Lockable : address[d] = address[c]

\* A template is dropped.
Dropped == inbox # <<>> /\ inbox' = Tail(inbox) /\ Head(inbox).kind = "data"
           /\ waiting' = waiting

\* The counters of GET_BLOCK fall out of step in four ways only: requests of one miner
\* that overlap, a request filed under an older connection from the same ip, a new round
\* that overtakes a request, and a template that is dropped as obsolete or lost with its
\* buffer.  Closing, destroying and adding connections, expired entries and rounds between
\* requests do not disturb them.
StepLossHasCause ==
    [][InStep /\ ~InStep' =>
          Dropped \/ \E c \in Conns : Overlap(c) \/ Misfiled(c) \/ Overtaken(c)]_vars

\* While the counters are in step, a miner that asked for a block gets one, or is told of
\* a new round, or leaves.  (The process may die when a closed connection is notified.)
ServedInStep ==
    \A c \in Conns : (InStep /\ want[c] > 0) ~> (want[c] = 0 \/ ~InStep \/ ~alive)

\* "Get Blocks if Requested From Pool Connection": a miner that asked for a block gets
\* one, or is told of a new round, or leaves.
Served == \A c \in Conns : want[c] > 0 ~> (want[c] = 0 \/ ~alive)
=============================================================================
