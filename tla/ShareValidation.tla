--------------------------- MODULE ShareValidation ---------------------------
(***************************************************************************)
(* Pool_connection: what a share submitted by a miner goes through, from    *)
(* the SUBMIT_SHARE packet to the credit of the account and, when the share *)
(* is a block, to the submission slot of the daemon connection.             *)
(*                                                                          *)
(* The io_context is run by several threads without strands.  The receive   *)
(* handler of one connection is serialised with itself only, so while it    *)
(* validates a share the daemon's receive handler may run new_round, which  *)
(* empties m_primes and m_blocks_requested under two different locks, or    *)
(* raise m_best_height.  Every region between two lock acquisitions (or two *)
(* reads of an atomic) is therefore a step of its own here.                 *)
(*                                                                          *)
(* Covered: accept / close / clean-up of a pool connection, login,          *)
(* SUBMIT_SHARE, Pool_connection::new_round and add_block,                  *)
(* Daemon_connection::new_round and its BLOCK_HEIGHT and BLOCK_DATA         *)
(* handlers, find_pool_connection, submit_block, the submission half of the *)
(* block timer, the death of the process on a null m_connection and its     *)
(* restart.  The request counters of GET_BLOCK are the subject of           *)
(* BlockRequests; weights and balances are the subject of PayoutManager.    *)
(***************************************************************************)
EXTENDS Naturals, FiniteSets

CONSTANTS
    Conns,      \* slots for Pool_connection objects; a slot is reused after clean-up
    Hashes,     \* hashes of the block templates the wallet hands out
    Nonces,     \* nonces a miner may submit
    Accounts,   \* valid Nexus addresses
    Banned,     \* the addresses in m_banned_users (empty in the pool as built: load fills a copy)
    MaxHeight,  \* bound on the block chain's height
    Addresses,  \* remote ip addresses: miners behind one host or on the pool's own share one
    Verdict     \* what gmp_verification and the two difficulty limits make of a share

NoAccount == "none"     \* m_nxsaddress before the first LOGIN
NoAddress == "none"     \* a slot without a connection
NoConn == "none"        \* the daemon handler is not working on a connection
Heights == 0..MaxHeight
Shares == Hashes \X Nonces
NoShare == <<>>         \* no packet is being processed

ASSUME MaxHeightAssumption == MaxHeight \in Nat \ {0}
ASSUME BannedAssumption == Banned \subseteq Accounts /\ NoAccount \notin Accounts
ASSUME ConnsAssumption == NoConn \notin Conns /\ NoAddress \notin Addresses
ASSUME VerdictAssumption == Verdict \in [Shares -> {"below", "share", "block"}]

VARIABLES
  (* Data_registry and the process *)
    alive,      \* the process is running
    best,       \* Data_registry::m_best_height
  (* Pool_connection, one value per slot *)
    conn,       \* "none", "open", or "closed" (m_connection = nullptr, not yet cleaned up)
    address,    \* m_remote_address: the ip only, so that connections may share it
    account,    \* m_nxsaddress
    loggedIn,   \* m_logged_in
    blocks,     \* m_blocks_requested: hash -> {} (no entry) or the singleton of its height
    primes,     \* m_primes
    pc,         \* where the receive handler stands in SUBMIT_SHARE
    share,      \* the share it works on
    height,     \* nHeight of its local copy of the block
  (* Daemon_connection *)
    before,     \* the entries of m_pool_connections ahead of each entry
    slot,       \* Pool_connection_data::m_submit_block: {} when null
    dpc,        \* where the daemon's receive handler stands
    dcur,       \* the connection it has locked
    todo,       \* the connections the loop of new_round has still to visit
  (* external and history *)
    issued,     \* height of each template the wallet has sent, 0 when not sent yet
    owner,      \* the slot a template was delivered to
    credits     \* how often each share was added to an account's nRoundShares

registryVars == <<alive, best>>
connVars == <<conn, address, account, loggedIn>>
mapVars == <<blocks, primes>>
taskVars == <<pc, share, height>>
daemonVars == <<dpc, dcur, todo>>
historyVars == <<issued, owner, credits>>
vars == <<registryVars, connVars, mapVars, taskVars, daemonVars, historyVars, before, slot>>

\* A block kept by the daemon connection for submission.  The account that found it, its
\* connection and its address are history: the code keeps the block only.
Submission == [share : Shares, height : Heights, by : Accounts, from : Conns, ip : Addresses]

TaskPCs == {"copy", "height", "dup", "insert", "credit", "submit"}
DaemonPCs == {"round", "blocks", "notify", "deliver"}

TypeOK ==
    /\ alive \in BOOLEAN
    /\ best \in Heights
    /\ conn \in [Conns -> {"none", "open", "closed"}]
    /\ address \in [Conns -> Addresses \cup {NoAddress}]
    /\ account \in [Conns -> Accounts \cup {NoAccount}]
    /\ loggedIn \in [Conns -> BOOLEAN]
    /\ blocks \in [Conns -> [Hashes -> SUBSET Heights]]
    /\ primes \in [Conns -> SUBSET Shares]
    /\ pc \in [Conns -> TaskPCs \cup {"idle"}]
    /\ share \in [Conns -> Shares \cup {NoShare}]
    /\ height \in [Conns -> Heights]
    /\ before \in [Conns -> SUBSET Conns]
    /\ slot \in [Conns -> SUBSET Submission]
    /\ dpc \in DaemonPCs \cup {"idle"}
    /\ dcur \in Conns \cup {NoConn}
    /\ todo \in SUBSET Conns
    /\ issued \in [Hashes -> Heights]
    /\ owner \in [Hashes -> Conns \cup {NoConn}]
    /\ credits \in [Shares -> Nat]

NoBlocks == [h \in Hashes |-> {}]

Init ==
    /\ alive = TRUE
    /\ best = 0
    /\ conn = [c \in Conns |-> "none"]
    /\ address = [c \in Conns |-> NoAddress]
    /\ account = [c \in Conns |-> NoAccount]
    /\ loggedIn = [c \in Conns |-> FALSE]
    /\ blocks = [c \in Conns |-> NoBlocks]
    /\ primes = [c \in Conns |-> {}]
    /\ pc = [c \in Conns |-> "idle"]
    /\ share = [c \in Conns |-> NoShare]
    /\ height = [c \in Conns |-> 0]
    /\ before = [c \in Conns |-> {}]
    /\ slot = [c \in Conns |-> {}]
    /\ dpc = "idle"
    /\ dcur = NoConn
    /\ todo = {}
    /\ issued = [h \in Hashes |-> 0]
    /\ owner = [h \in Hashes |-> NoConn]
    /\ credits = [s \in Shares |-> 0]

\* The entries of m_pool_connections whose weak_ptr can be locked.
Registered == {c \in Conns : conn[c] # "none"}

-----------------------------------------------------------------------------
(* Life of a pool connection *)

\* A miner's connection is accepted: the connection_ok branch of the handler stores
\* the address and appends the object to m_pool_connections.  The append takes the
\* mutex, new_round iterates over the vector without it: when the vector grows under
\* the loop the iterator dangles and the process may die.
Connect(c, ip) ==
    /\ alive
    /\ conn[c] = "none"
    /\ conn' = [conn EXCEPT ![c] = "open"]
    /\ address' = [address EXCEPT ![c] = ip]
    /\ before' = [before EXCEPT ![c] = Registered]
    /\ \/ alive' = TRUE
       \/ dpc \in {"round", "blocks", "notify"} /\ alive' = FALSE
    /\ UNCHANGED <<best, account, loggedIn, mapVars, taskVars, daemonVars, historyVars, slot>>

\* connection_closed, _aborted, _declined or _error.  The handler runs on the receive
\* chain of the connection, so no packet of it is being processed.
Close(c) ==
    /\ alive
    /\ conn[c] = "open"
    /\ pc[c] = "idle"
    /\ conn' = [conn EXCEPT ![c] = "closed"]
    /\ UNCHANGED <<registryVars, address, account, loggedIn, mapVars, taskVars, daemonVars,
                   historyVars, before, slot>>

\* Mutant: the maintenance timer does not ask whether the connection is closed.
CleanUpOpen(c) ==
    /\ alive
    /\ conn[c] # "none"
    /\ dcur # c
    /\ conn' = [conn EXCEPT ![c] = "none"]
    /\ before' = [d \in Conns |-> IF d = c THEN {} ELSE before[d] \ {c}]
    /\ todo' = todo \ {c}
    /\ UNCHANGED <<registryVars, address, account, loggedIn, mapVars, taskVars, dpc, dcur, slot,
                   historyVars>>

\* The server's maintenance timer erases the closed connections; the object dies unless
\* the daemon's handler holds it locked, and its weak_ptr expires.
CleanUp(c) ==
    /\ alive
    /\ conn[c] = "closed"
    /\ dcur # c
    /\ conn' = [conn EXCEPT ![c] = "none"]
    /\ address' = [address EXCEPT ![c] = NoAddress]
    /\ account' = [account EXCEPT ![c] = NoAccount]
    /\ loggedIn' = [loggedIn EXCEPT ![c] = FALSE]
    /\ blocks' = [blocks EXCEPT ![c] = NoBlocks]
    /\ primes' = [primes EXCEPT ![c] = {}]
    /\ before' = [d \in Conns |-> IF d = c THEN {} ELSE before[d] \ {c}]
    /\ slot' = [slot EXCEPT ![c] = {}]
    /\ todo' = todo \ {c}
    /\ dpc' = IF dpc = "round" /\ todo' = {} THEN "idle" ELSE dpc
    /\ UNCHANGED <<registryVars, taskVars, dcur, historyVars>>

\* Mutant: a second LOGIN is not refused.
LoginAgain(c, a) ==
    /\ alive
    /\ conn[c] = "open"
    /\ pc[c] = "idle"
    /\ account' = [account EXCEPT ![c] = a]
    /\ loggedIn' = [loggedIn EXCEPT ![c] = a \notin Banned]
    /\ UNCHANGED <<registryVars, conn, address, mapVars, taskVars, daemonVars, historyVars, before, slot>>

\* LOGIN with a valid address.  m_nxsaddress is overwritten before the ban check, and
\* a connection that is logged in ignores a further LOGIN.
Login(c, a) ==
    /\ alive
    /\ conn[c] = "open"
    /\ pc[c] = "idle"
    /\ ~loggedIn[c]
    /\ account' = [account EXCEPT ![c] = a]
    /\ loggedIn' = [loggedIn EXCEPT ![c] = a \notin Banned]
    /\ UNCHANGED <<registryVars, conn, address, mapVars, taskVars, daemonVars, historyVars, before, slot>>

-----------------------------------------------------------------------------
(* SUBMIT_SHARE *)

Finish(c) ==
    /\ pc' = [pc EXCEPT ![c] = "idle"]
    /\ share' = [share EXCEPT ![c] = NoShare]
    /\ height' = [height EXCEPT ![c] = 0]

Goto(c, l) ==
    /\ pc' = [pc EXCEPT ![c] = l]
    /\ UNCHANGED <<share, height>>

\* find_hash_in_blocks_requested; a share without a block is answered with REJECT and
\* leaves no trace.
Find(c, s) ==
    /\ alive
    /\ conn[c] = "open"
    /\ loggedIn[c]
    /\ pc[c] = "idle"
    /\ blocks[c][s[1]] # {}
    /\ pc' = [pc EXCEPT ![c] = "copy"]
    /\ share' = [share EXCEPT ![c] = s]
    /\ UNCHANGED <<registryVars, connVars, mapVars, height, daemonVars, historyVars, before, slot>>

\* block = m_blocks_requested[hash] under a second acquisition of the lock: operator[]
\* creates a default block, of height 0, when the entry has gone in the meantime.
CopyBlock(c) ==
    LET h == share[c][1]
        entry == IF blocks[c][h] = {} THEN {0} ELSE blocks[c][h]
    IN  /\ alive
        /\ pc[c] = "copy"
        /\ blocks' = [blocks EXCEPT ![c][h] = entry]
        /\ \E n \in entry : height' = [height EXCEPT ![c] = n]
        /\ pc' = [pc EXCEPT ![c] = "height"]
        /\ UNCHANGED <<registryVars, connVars, primes, share, daemonVars, historyVars, before, slot>>

\* Mutant: only a block above the best height is stale.
CheckHeightLenient(c) ==
    /\ alive
    /\ pc[c] = "height"
    /\ \/ height[c] > best /\ Finish(c)
       \/ height[c] <= best /\ Goto(c, "dup")
    /\ UNCHANGED <<registryVars, connVars, mapVars, daemonVars, historyVars, before, slot>>

\* STALE unless the block has the best height.
CheckHeight(c) ==
    /\ alive
    /\ pc[c] = "height"
    /\ \/ height[c] # best /\ Finish(c)
       \/ height[c] = best /\ Goto(c, "dup")
    /\ UNCHANGED <<registryVars, connVars, mapVars, daemonVars, historyVars, before, slot>>

\* REJECT when the prime is in m_primes.
CheckDuplicate(c) ==
    /\ alive
    /\ pc[c] = "dup"
    /\ \/ share[c] \in primes[c] /\ Finish(c)
       \/ share[c] \notin primes[c] /\ Goto(c, "insert")
    /\ UNCHANGED <<registryVars, connVars, mapVars, daemonVars, historyVars, before, slot>>

\* Mutant: the prime is not remembered.
VerifyOnly(c) ==
    /\ alive
    /\ pc[c] = "insert"
    /\ \/ Verdict[share[c]] = "below" /\ Finish(c)
       \/ Verdict[share[c]] # "below" /\ Goto(c, "credit")
    /\ UNCHANGED <<registryVars, connVars, mapVars, daemonVars, historyVars, before, slot>>

\* gmp_verification, a pure function of the share: REJECT below the minimum share,
\* otherwise the prime is remembered under a second acquisition of the lock.
VerifyAndInsert(c) ==
    /\ alive
    /\ pc[c] = "insert"
    /\ \/ /\ Verdict[share[c]] = "below"
          /\ Finish(c)
          /\ UNCHANGED primes
       \/ /\ Verdict[share[c]] # "below"
          /\ primes' = [primes EXCEPT ![c] = @ \cup {share[c]}]
          /\ Goto(c, "credit")
    /\ UNCHANGED <<registryVars, connVars, blocks, daemonVars, historyVars, before, slot>>

\* Mutant: every share above the minimum is submitted as a block.
CreditAndSubmit(c) ==
    /\ alive
    /\ pc[c] = "credit"
    /\ credits' = [credits EXCEPT ![share[c]] = @ + 1]
    /\ Goto(c, "submit")
    /\ UNCHANGED <<registryVars, connVars, mapVars, daemonVars, issued, owner, before, slot>>

\* The weight is added to nRoundShares; ACCEPT, or on to the submission of a block.
Credit(c) ==
    /\ alive
    /\ pc[c] = "credit"
    /\ credits' = [credits EXCEPT ![share[c]] = @ + 1]
    /\ \/ Verdict[share[c]] = "block" /\ Goto(c, "submit")
       \/ Verdict[share[c]] # "block" /\ Finish(c)
    /\ UNCHANGED <<registryVars, connVars, mapVars, daemonVars, issued, owner, before, slot>>

\* find_pool_connection(ip): e is the first live entry with that address.
FirstWithAddress(e, ip) ==
    /\ e \in Registered
    /\ address[e] = ip
    /\ \A d \in before[e] : address[d] # ip

\* submit_block: the slot of the first entry with the miner's address takes the block
\* if it is free; otherwise the block is dropped and the miner gets no answer at all.
SubmitBlock(c) ==
    /\ alive
    /\ pc[c] = "submit"
    /\ \E e \in Conns :
          /\ FirstWithAddress(e, address[c])
          /\ slot' = [slot EXCEPT ![e] =
                IF @ # {} THEN @
                ELSE {[share |-> share[c], height |-> height[c],
                       by |-> account[c], from |-> c, ip |-> address[c]]}]
    /\ Finish(c)
    /\ UNCHANGED <<registryVars, connVars, mapVars, daemonVars, historyVars, before>>

-----------------------------------------------------------------------------
(* The daemon's receive handler, as far as pool connections can notice it *)

\* Mutant: the height of the next block is taken for the best height.
HeightUpdateNext ==
    /\ alive
    /\ dpc = "idle"
    /\ \E n \in Heights : n > best /\ best' = n + 1
    /\ UNCHANGED <<alive, connVars, mapVars, taskVars, daemonVars, historyVars, before, slot>>

\* BLOCK_HEIGHT
HeightUpdate ==
    /\ alive
    /\ dpc = "idle"
    /\ \E n \in Heights : n > best /\ best' = n
    /\ UNCHANGED <<alive, connVars, mapVars, taskVars, daemonVars, historyVars, before, slot>>

\* new_round is reached from GOOD, COINBASE_SET and the else-branch of BLOCK_REWARD.
StartRound ==
    /\ alive
    /\ dpc = "idle"
    /\ Registered # {}
    /\ dpc' = "round"
    /\ todo' = Registered
    /\ UNCHANGED <<registryVars, connVars, mapVars, taskVars, dcur, historyVars, before, slot>>

\* The loop takes the next live entry and Pool_connection::new_round empties m_primes ...
ClearPrimes(c) ==
    /\ alive
    /\ dpc = "round"
    /\ c \in todo
    /\ before[c] \cap todo = {}
    /\ primes' = [primes EXCEPT ![c] = {}]
    /\ dpc' = "blocks"
    /\ dcur' = c
    /\ todo' = todo \ {c}
    /\ UNCHANGED <<registryVars, connVars, blocks, taskVars, historyVars, before, slot>>

\* Mutant: m_blocks_requested is not emptied.
KeepBlocks ==
    /\ alive
    /\ dpc = "blocks"
    /\ dpc' = "notify"
    /\ UNCHANGED <<registryVars, connVars, mapVars, taskVars, dcur, todo, historyVars, before, slot>>

\* ... then, under the other lock, m_blocks_requested ...
ClearBlocks ==
    /\ alive
    /\ dpc = "blocks"
    /\ blocks' = [blocks EXCEPT ![dcur] = NoBlocks]
    /\ dpc' = "notify"
    /\ UNCHANGED <<registryVars, connVars, primes, taskVars, dcur, todo, historyVars, before, slot>>

\* m_connection->transmit from the daemon's thread: m_connection is a null pointer once
\* the connection has been closed, and the process dies.
Transmit == alive' = (conn[dcur] = "open")

\* ... and sends the new height to the miner.
Notify ==
    /\ alive
    /\ dpc = "notify"
    /\ Transmit
    /\ dcur' = NoConn
    /\ dpc' = IF todo = {} THEN "idle" ELSE "round"
    /\ UNCHANGED <<best, connVars, mapVars, taskVars, todo, historyVars, before, slot>>

\* BLOCK_DATA: a template of the best height (another one is dropped) goes to an entry
\* that waits for one; which entries wait is the subject of BlockRequests, here it may
\* be any.  add_block returns at once when its connection is closed.
BlockData(c, h) ==
    /\ alive
    /\ dpc = "idle"
    /\ best > 0
    /\ issued[h] = 0
    /\ conn[c] = "open"
    /\ issued' = [issued EXCEPT ![h] = best]
    /\ owner' = [owner EXCEPT ![h] = c]
    /\ blocks' = [blocks EXCEPT ![c][h] = {best}]
    /\ dpc' = "deliver"
    /\ dcur' = c
    /\ UNCHANGED <<registryVars, connVars, primes, taskVars, todo, credits, before, slot>>

\* add_block sends BLOCK_DATA to the miner after it has released the lock.
Deliver ==
    /\ alive
    /\ dpc = "deliver"
    /\ Transmit
    /\ dcur' = NoConn
    /\ dpc' = "idle"
    /\ UNCHANGED <<best, connVars, mapVars, taskVars, todo, historyVars, before, slot>>

\* The block timer takes the block of the first entry that has one, sends it to the
\* wallet if it still has the best height, and clears the slot in both cases.
TakeSubmission(c) ==
    /\ alive
    /\ slot[c] # {}
    /\ \A d \in before[c] : slot[d] = {}
    /\ slot' = [slot EXCEPT ![c] = {}]
    /\ UNCHANGED <<registryVars, connVars, mapVars, taskVars, daemonVars, historyVars, before>>

\* The operator starts the pool again: nothing of the above survives in memory.  The
\* wallet makes new templates, which may take the names of the old ones: those are in no
\* map any more and are not sent again.
Restart ==
    /\ ~alive
    /\ alive' = TRUE
    /\ best' = 0
    /\ conn' = [c \in Conns |-> "none"]
    /\ address' = [c \in Conns |-> NoAddress]
    /\ account' = [c \in Conns |-> NoAccount]
    /\ loggedIn' = [c \in Conns |-> FALSE]
    /\ blocks' = [c \in Conns |-> NoBlocks]
    /\ primes' = [c \in Conns |-> {}]
    /\ pc' = [c \in Conns |-> "idle"]
    /\ share' = [c \in Conns |-> NoShare]
    /\ height' = [c \in Conns |-> 0]
    /\ before' = [c \in Conns |-> {}]
    /\ slot' = [c \in Conns |-> {}]
    /\ dpc' = "idle"
    /\ dcur' = NoConn
    /\ todo' = {}
    /\ issued' = [h \in Hashes |-> 0]
    /\ owner' = [h \in Hashes |-> NoConn]
    /\ credits' = [s \in Shares |-> 0]

Next ==
    \/ \E c \in Conns :
        \/ \E ip \in Addresses : Connect(c, ip)
        \/ Close(c) \/ CleanUp(c)
        \/ \E a \in Accounts : Login(c, a)
        \/ \E s \in Shares : Find(c, s)
        \/ CopyBlock(c) \/ CheckHeight(c) \/ CheckDuplicate(c)
        \/ VerifyAndInsert(c) \/ Credit(c) \/ SubmitBlock(c)
        \/ ClearPrimes(c) \/ TakeSubmission(c)
        \/ \E h \in Hashes : BlockData(c, h)
    \/ HeightUpdate \/ StartRound \/ ClearBlocks \/ Notify \/ Deliver
    \/ Restart

Spec == Init /\ [][Next]_vars
-----------------------------------------------------------------------------
(* Properties *)

\* The block of c for hash h is still workable: its entry is there with the height it
\* was issued with (not the default block operator[] leaves behind).
Workable(c, h) == issued[h] > 0 /\ issued[h] \in blocks[c][h]

\* The daemon is between the two clears of Pool_connection::new_round for c.
HalfCleared(c) == dpc = "blocks" /\ dcur = c

\* A share whose handler has passed the height check belongs to a template the wallet
\* issued to this very connection, at that height: the default block that operator[]
\* creates when new_round empties the map between the lookup and the copy never passes.
\* The miner is logged in with an account that is not banned.
OnlyIssuedBlocksPass ==
    \A c \in Conns : pc[c] \in {"dup", "insert", "credit", "submit"} =>
        /\ account[c] \in Accounts \ Banned
        /\ height[c] > 0
        /\ issued[share[c][1]] = height[c]
        /\ owner[share[c][1]] = c

\* As long as a miner can still submit a share for a block, an earlier credit of the
\* same share is in m_primes, except between the two clears of new_round.
RememberedWhileWorkable ==
    \A c \in Conns, s \in Shares :
        Workable(c, s[1]) /\ credits[s] > 0 /\ ~HalfCleared(c) => s \in primes[c]

\* However the two clears of new_round interleave with the lookup, the duplicate check
\* and the insertion of a share, no share is credited more than three times.
CountedAtMostThrice == \A s \in Shares : credits[s] <= 3

\* A block that waits for submission is a share that was verified to be a block, was
\* credited, and carries the height of the template it was found for.
SubmissionIsGenuine ==
    \A c \in Conns : \A b \in slot[c] :
        /\ Verdict[b.share] = "block"
        /\ credits[b.share] > 0
        /\ issued[b.share[1]] = b.height

\* find_pool_connection always finds an entry ("this shouldn't happen" does not).
LookupSucceeds ==
    \A c \in Conns : pc[c] = "submit" => \E e \in Conns : FirstWithAddress(e, address[c])

\* The block timer names the account of the entry that holds a block its finder.  That is
\* the account that found it, whatever logins follow, unless the lookup by ip led to
\* another connection: an older one that was accepted from the finder's own ip.
FinderKeepsBonus ==
    \A c \in Conns : \A b \in slot[c] :
        \/ b.from = c /\ b.by = account[c]
        \/ /\ b.from # c
           /\ b.ip = address[c]
           /\ conn[b.from] # "none" => c \in before[b.from]
=============================================================================
