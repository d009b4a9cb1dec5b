# NexusPool: a TLA+ verification project

NexusPool is a mining pool server for the Nexus prime channel. Miners connect to
it over TCP, log in with a Nexus address, fetch block templates and submit
shares; the pool keeps an account for every miner, submits the shares that are
blocks to a wallet, and distributes the rewards through the coinbase transaction
of the next block. This directory models the pool's own code (`src/src`, without
the vendored libraries) in TLA+, checks it with TLC and proves part of it with
TLAPS.

## 1. Inventory

| component | state | operations | interacts with |
|---|---|---|---|
| `Pool_connection`, one per miner | `m_connection`, `m_nxsaddress`, `m_logged_in`, `m_primes`, `m_blocks_requested`, `m_num_blocks_requested` | LOGIN, GET_BLOCK, GET_BALANCE, GET_PAYOUT, PING, SUBMIT_PPS, SUBMIT_SHARE; `new_round`, `add_block` called by the daemon connection; close | `Daemon_connection::request_block`, `submit_block`; account database |
| `Daemon_connection`, one | `m_pool_connections` (weak pointer, request counters, submission slot), `m_coinbase_pending`, `m_new_block`, `m_round_reward`, `m_last_blockfinder`, `m_hash_submit_block` | the wallet's packets BLOCK_HEIGHT, NEW_ROUND, COINBASE_SET, COINBASE_FAIL, BLOCK_REWARD, ORPHAN_BLOCK, GOOD_BLOCK, GOOD, FAIL, BLOCK_DATA; height timer (2 s), block timer (50 ms), orphan timer (20 s) | wallet (TCP), every `Pool_connection`, `Payout_manager`, `Coinbase` |
| `Payout_manager` | none of its own | `update_balances`, `clear_shares`, `refund_payouts` | account and block databases, coinbase |
| `Coinbase`, `Credits` | outputs, current, maximal value and fee; credits per account | `AddTransaction`, `Reset`, `AddCredit`, (de)serialisation | block record, wallet |
| `LLD::Database` (accounts, blocks) | a map and a file | `GetRecord`, `UpdateRecord`, `GetKeys`, `WriteToDisk`, `ReadIntoMemory` | everyone |
| `Data_registry` | `m_best_height`, `m_current_round`, the databases, the coinbase | persistence timer | everyone |
| `Server` | list of pool connections, thread pool | accept, maintenance timer | `Pool_connection` |
| network, timers, packets | sockets | receive, transmit, framing | asio |
| DDOS filter, banned users, prime verification, hashing, base58, configuration, statistics, sqlite | see section 6 | | |

The `io_context` is run by `connection_threads + 1` threads without strands. The
receive handler of one connection is serialised with itself, and so is every
timer; everything else interleaves. Shared data is protected by many small
locks (`m_primes_mutex`, `m_blocks_requested_mutex`, `m_pool_connections_mutex`,
the database mutex) and by atomics, so the hard behaviours are read-modify-write
sequences that span several lock acquisitions, packets of the wallet that are
handled while miners are served, connections that are closed by one thread and
used by another, and the wallet's answers, which do not say what they answer.

What makes the parts correct:

* shares: only shares for a template the wallet issued to this connection, of the
  best height, by an account that is not banned are credited, and not repeatedly;
* blocks: what is submitted is a verified share, attributed to its finder as far as the
  lookup by address can tell;
* ledger: no account is shortchanged, credits stay within the reward, a coinbase
  is complete when it is sent, an orphaned block is refunded once, and the block
  a round is booked under is the accepted one;
* rounds: a pending coinbase is settled, and the wallet gets the pool's current one;
* requests: a miner that asks for a template gets one;
* persistence: what has been booked survives a restart, and the two databases agree.

## 2. Modules

| module | models | proved in |
|---|---|---|
| `ShareValidation` | `Pool_connection` (accept, close, LOGIN, SUBMIT_SHARE, `new_round`, `add_block`), `find_pool_connection`, `submit_block`, BLOCK_HEIGHT, BLOCK_DATA, `Daemon_connection::new_round`, the submitting half of the block timer, the maintenance timer | `ShareValidationProofs` |
| `PayoutManager` | account and block records, coinbase, BLOCK_REWARD, GOOD, FAIL, ORPHAN_BLOCK, GOOD_BLOCK, the orphan timer, `update_balances`, `clear_shares`, `refund_payouts`, and the share handlers that write the same records; implements `PayoutRounds` | `PayoutManagerProofs`, `PayoutLedgerProofs` |
| `PayoutRounds` | abstract: the ledger that `Payout_manager` promises the miners | |
| `BlockRequests` | GET_BLOCK, `request_block`, the requesting half of the block timer, BLOCK_DATA, `add_block`, and what `new_round`, close and clean-up do to the request counters | `BlockRequestsProofs` |
| `RoundProtocol` | the dialogue with the wallet: height timer, `m_coinbase_pending`, `m_new_block`, SET_COINBASE and its answers, `process_data` and its receive buffer, GOOD, FAIL, loss of the connection | `RoundProtocolProofs` |
| `DurableStore` | abstract: what `LLD::Database` promises | |
| `Persistence` | `WriteToDisk`, `ReadIntoMemory`, the persistence timer, the writes of `update_balances`, `refund_payouts` and COINBASE_SET, the end of the process and the next start; implements `DurableStore` twice | `PersistenceProofs` |
| `RecordCodec` | `utils.hpp`, `Serialize` and `Deserialize` of `Account`, `Block`, `Coinbase`, `Credits`, and the loops of `WriteToDisk` and `ReadIntoMemory`, byte by byte | `RecordCodecProofs` |
| `Tally` | sums over a set of owners, as numbers of things counted | `TallyProofs` |
| `MC*` | the instances TLC checks | |

The modules divide the system by question rather than by file, and meet at the
following places. A submission slot filled by `ShareValidation` is the block that
`RoundProtocol` sends; what happens to the ledger at GOOD and ORPHAN_BLOCK is in
`PayoutManager`, when they come is in `RoundProtocol`, and which of their writes reach
the disk is in `Persistence`, and what their bytes are read as in `RecordCodec`;
`BlockRequests` lets a new round come at any time,
`RoundProtocol` says when it does.

### ShareValidation

One action per region between two lock acquisitions. A SUBMIT_SHARE handler goes
through `Find` (`find_hash_in_blocks_requested`), `CopyBlock` (`operator[]`, which
creates a default block of height 0 when the entry has gone), `CheckHeight`,
`CheckDuplicate`, `VerifyAndInsert`, `Credit` and `SubmitBlock`; `pc`, `share` and
`height` are its program counter and locals. The daemon's handler (`dpc`, `dcur`,
`todo`) runs `StartRound`, then for every registered connection `ClearPrimes`,
`ClearBlocks`, `Notify`; or `BlockData` and `Deliver`. `Connect`, `Close` and
`CleanUp` are the life of a connection: after `Close` the object is still in
`m_pool_connections` with a null `m_connection` until `CleanUp`. A transmission on
a null `m_connection`, and a vector that grows under the loop of `new_round`, end
the process (`alive`); `Restart` begins again with empty memory
and new templates, so the history variables begin again too.

`before[c]` is the set of entries ahead of `c` in `m_pool_connections`: all that
matters of the vector's order. `address[c]` is the ip a connection came from, without the
port (`pool_connection.cpp:56`), and any connection may come from any: the server listens on
the loopback address (`server.cpp:82`), so miners behind a local proxy all share one. A
lookup by ip leads to the oldest live entry with that ip, which may be another miner's; `b.ip`
and `b.from` keep where a block really came from. A share is a pair of template and nonce, and
`gmp_verification` with the two difficulty limits is the constant `Verdict`, a pure
function of the share. `issued`, `owner`, `credits` and the field `by` are history.

`Banned` is empty in the pool as built: `Banned_persister_file::load` takes the list
it fills by value (`banned_users.hpp:35`). The runs use the empty set; the theorems
hold for any set.

### PayoutManager

The database locks `GetRecord` and `UpdateRecord`, not the pair, so a load and the
store that follows are two steps: `held[c]` is the account and the record that the share
handler of connection `c` has copied, `rec` the record the daemon's handler has. Several
connections may be logged in with one account (`pool_connection.cpp:116`), and their handlers
overwrite each other's stores: shares are lost, and `nRoundShares` may fall. They are never
more than were found (`granted`, history). With `Quiet = TRUE` no share is being credited
while the daemon's handler runs; with `Quiet = FALSE` they interleave freely. `dpc` is the place of the daemon's handler: building a
coinbase (`BlockReward`, `AddPayout`, `FinishCoinbase`), booking an accepted block
(`Good`, `BonusStore`, `Weigh`, `Deduct`, `Credit`, `SkipRest`, `RestStore`,
`Commit`, `ClearStore`) and refunding an orphan (`Orphan`, `TakeStore`, `EndTake`,
`GiveStore`, `EndRefund`). The block timer runs on another thread, in three steps:
`BlockTimer` reads `m_coinbase_pending` before it takes the mutex, `SubmitBlock` sets
`m_hash_submit_block` and transmits, `NameFinder` assigns `m_last_blockfinder`. The steps may
come at any time, also in the middle of the booking, and the answer GOOD may come between
the last two: the bonus then goes to the finder of the block before. (Before the first block is
named there is no finder; `Good` waits for one, since the account of an empty name is not modelled.)

Numbers that wrap in the code wrap at `Word` (uint64), `RoundWord` and `CreditWord` (uint32),
all scaled down. A credit, `((double) shares / weight) * reward` (`payout_manager.cpp:106`), is
computed in floating point: each conversion and operation rounds up or down by at most 2^-53
of its value, and there are at most five. `Quotients` allows every integer part of a value
within 1/`Precision` of the exact one; 2^50 is a `Precision` of the code. Only the
account that has all the weight is exact, as the quotient is then 1. `CreditOf` converts to `uint32_t`: what does
not fit, or is infinite because there is no weight, is undefined and becomes any member of
the constant `Overflows`. The run takes the one that a conversion through 64 bits gives (it
wraps); the theorems hold for any set. Balances are natural numbers: a sum of
balances near 2^64 does not occur.

External and assumed: the wallet answers a submission with GOOD or FAIL, accepts at
most one of the blocks it holds at a time (they have the same height), and answers
a check with GOOD_BLOCK or ORPHAN_BLOCK, repeatedly and in any order. A block is
handed to the block timer once (a share that counts twice, section 3, is the exception).
The first reward is known before the first block can be submitted: each new height
sets `m_coinbase_pending`, and in round 1 only BLOCK_REWARD clears it.

`PayoutRounds` is the ledger without loads and stores: five stages (open, paying, closing,
taking, returning), and in each a change of one account at a time, which a stage makes
at most once. In the open stage a share is found (`Find`) and the shares of an account
become some number of those found (`Count`): handlers of one account may lose each other's, and
never invent any. The refinement mapping reads the stage (`Stage`) and the accounts dealt with
(`Done`) off `dpc`, `todo` and `cur`. A load is a step that changes nothing; a store of
a whole record must be the change of one account, which it is only if nobody stored
another version in between.

`granted`, `earned`, `paid`, `refunds`, `undo`, `seen`, `accepted`, `finders`, `used`,
`clean` are history.

### BlockRequests

A request is counted in `num` (`m_num_blocks_requested` of the connection), then in
`requested` and `waiting` (`m_blocks_requested`, `m_blocks_waiting` of the entry in
`m_pool_connections`). `GetBlock` increments the first counter and keeps the value it
read in `asking` until `RequestBlock` gets the mutex; `BlockTimer` reads
`m_coinbase_pending` and `RequestBlocks` takes the mutex later; `BlockData`,
`DropBlock` and `LosePacket` are the three fates of a template. The counters are
`uint16_t` scaled down to `Word`. As in `ShareValidation`, connections may share an
ip, and then the entry that `request_block` finds is the oldest live one. `Framed = FALSE` lets packets share a receive buffer,
in which case those behind the first are lost. `want` is history: the requests a miner
still needs an answer to.

### RoundProtocol

A coinbase transaction is `"fresh"`, the one the pool has now, or `"stale"`, an earlier
one; `Rebuild` turns every fresh copy in the wallet, in a template, in transit and in
a block into a stale one. That is all the properties tell apart; the outputs are in
`PayoutManager`. Requests to the wallet are a bag, because `transmit` posts to the
system executor, whose threads may run two posts in either order. Replies are a queue,
of which `Buffer(n)` delivers the first `n` in one call of `process_data`: that handles
the first packet only, and a one-byte packet with bytes behind it is garbled
(`Garbled`), with fewer than five bytes fatally. One action per packet of the wallet
follows, each with the tail of `process_data` (`NewRound`) where `m_new_block` is set.
After `CloseLink` the next timer tick dereferences a null `m_connection`.

External: the wallet answers every request, accepts or refuses a coinbase, and accepts
a block only on top of its chain. `lost` (a packet that would have settled a coinbase
was lost) and `mispaid` are history.

### DurableStore and Persistence

`DurableStore` is the promise: a map that is frozen while it is written, a completed
write makes the file equal to the map, a restart begins with the file. `Persistence`
has two databases with a mutex each and two threads that write them: the daemon's
receive handler (`dpc`) and the persistence timer (`tpc`). `Begin*`/`End*` are the two
ends of `WriteToDisk`, so that a crash or the other thread may come in between; a crash
during a write leaves any part of the records, or a file on which `ReadIntoMemory` does
not return (`hung`). Its refinement mapping takes a file whose write has begun for
written (the map cannot change any more).

A balance counts the credits of each block, which tells apart everything the
properties are about; amounts are in `PayoutManager`. Two limits of this abstraction: a
block has a coinbase value here (the block of the first round, whose record is written
without one, is in `PayoutManager`), and a record is read back as it was written, which
the code does only within the limits that `RecordCodec` is about. `unsaved`, `exposed` and `damaged` are history: a block is exposed
when the process ends after an operation on it began and before `acct.dat` was written
again.

### RecordCodec

Pure operators, one for each conversion, with the code's byte positions; a byte has
`Byte` values instead of 256, so that 2^32, 2^64, the one-byte counters and the one-byte
length of an address can be exceeded. A hash is the byte string that `GetBytes` makes of it. `bytes2uint64`
(`utils.hpp:51`) shifts a 32-bit value by 32, which is undefined: `build` chooses
between the two outcomes. Its bitwise or is the constant `BitOr`, the machine's in the run;
the proofs know of it only that it is at most the sum, stays in the word, and leaves a
number alone when the other one is 0. The loops over entries and records are recursive
functions of the round, so that they can be reasoned about: what has been written after each
round (`Joins`), and the position and the map after each round (`ReadEntry`, `LoadRecord`).
Around the operators, `UpdateRecord`, `Flag`, `WriteToDisk`
and `ReadIntoMemory` form the life of a database over restarts.

An address is a byte string of any length: LOGIN keeps the bytes it was sent
(`pool_connection.cpp:116`), and the base58 decoder that judges them skips white space
(`base58.h:104`, `base58.h:135`), so that a valid address may be padded beyond 255 bytes. An
account survives this, as its address is the rest of the record. In the payouts or credits of a block the
length wraps (`coinbase.hpp:86`), and from this entry on `Deserialize` takes
bytes of addresses and amounts for lengths. It reads the map from wrong positions, may read an
address twice (`current` then counts both amounts), and may run past the end of its vector. What
it finds there is any member of `Heaps`, one memory for the coinbases and one for the credits
of a start. A process that dies of such a read leaves the file as it is, so the next start is one of
those modelled. `saved`, `fresh` and `misread` (blocks whose payouts were read
from wrong positions) are history.

## 3. Runs

| run | instance | result |
|---|---|---|
| `share_validation` | 2 connections from 2 ips or from one, 1 template, 3 nonces (a block, a share and one below the minimum), 2 accounts, heights up to 3; 1.4 million states | `TypeOK`, `OnlyIssuedBlocksPass`, `RememberedWhileWorkable`, `CountedAtMostThrice`, `SubmissionIsGenuine`, `LookupSucceeds`, `FinderKeepsBonus` hold |
| `payout_manager` | 2 accounts, 2 connections, 2 blocks, reward 50, two shares per account and round, `uint32_t` of 48 values, `Precision` 64, `Quiet`; 2.4 million states | `TypeOK`, `NeverShortchanged`, `ExactLedger`, `CreditsWithinReward`, `CoinbaseComplete`, `RefundedOnce` and the refinement `AtomicRounds` hold |
| `block_requests` | 2 connections from 2 ips or from one, 2 requests, counters modulo 4, one new height, shared receive buffers; 0.55 million states | `TypeOK`, `StepLossHasCause`, `ServedInStep` hold |
| `round_protocol` | 2 heights, 2 replies and 2 coinbases in transit, one orphan, shared receive buffers; 0.29 million states | `TypeOK`, `CoinbaseUnderWay`, `PendingClears`, `AgreementRestored` hold |
| `persistence` | 2 accounts, 2 blocks, one crash; 0.34 million states | `TypeOK`, `BookingDurable`, `DatabasesAgree`, `SharesPaidOnce`, `RefundReachesDisk` and the refinements `AcctDurable`, `BlkDurable` hold |
| `record_codec` | accounts in pairs, blocks with up to 5 payouts and credits, a byte of 4 values, addresses of up to 5 bytes (87 strings), amounts around 2^32, 2 writes; 18,004 states | `TypeOK`, `RestartKeepsAmounts`, `RestartNeverGains`, `RestartFindsRecords`, `RestartIsStable`, `StillComplete` hold |
| `threadsafe` | `payout_manager` with `Quiet = FALSE`, one share per account and round | `NeverShortchanged` is violated |
| `refund` | `payout_manager` with one share per account and round | `RefundUndoes` is violated |
| `orphan_check` | `refund`'s, with the code's depth of 5 | `UnrefundedIsChecked` is violated |
| `booked_block` | as `refund` | `BookedIsAccepted` is violated |
| `requested_block` | `block_requests` with `Framed = TRUE` | `Served` is violated |
| `payout_made` | `RoundProtocol`, 3 heights, 3 replies, no orphan, `Framed = TRUE` | `PaidAsBooked` is violated |

What the passing runs show.

* Shares and blocks. A default block left behind by `operator[]` never passes the
  height check, because `m_best_height` is positive as soon as a template has been
  issued. Between a credit and the next `new_round` the share is remembered; the gap
  is exactly the window between the two clears, and it lets a share count at most
  three times (once before, once by a handler that is past the duplicate check when
  the set is emptied, once between the clears). So a share may count more than once in a
  round, although `m_primes` "stores the found shares per round"
  (`pool_connection.hpp:65`). A block in a slot is genuine. It is attributed to its
  finder, or to an older live connection from the finder's own ip, never to anybody else.
* Ledger. Whatever blocks are found and orphaned, payouts and balance cover the
  earnings; when nothing is orphaned and no coinbase is paid out twice the books of
  everybody but the block finders are exact; credits never exceed a reward below
  `Precision` (2^50 in the code, where a reward is about 2^26), although each of them
  may be rounded up or wrapped; the coinbase that is sent pays out its maximum; a block is refunded once. Loading and
  storing whole records, also by several connections of one account, implements the ledger of atomic changes (with `Quiet = FALSE` it
  does not: the load of one thread and the store of another is what `threadsafe` shows).
* Requests. The three counters are either in step, and then a miner that asked is
  served, or they left it through one of four causes: overlapping requests of one
  miner, a request filed under an older connection from the same ip, a new round that
  overtakes a request, a dropped template. Closed, destroyed and
  expired entries are no cause. (Once out of step, a template that comes late may wrap `num`
  to the top of `uint16_t`, so that the next request is filed as 0: `requested_block` shows a
  miner that is never served.)
* Rounds. A pending coinbase is settled unless the settling reply is lost in a shared
  buffer. The endless exchange of SET_COINBASE and COINBASE_SET is what makes the
  wallet end up with the current coinbase: there is always one under way, and a
  stale one does not last. For the moment it lasts, a block may be found that pays
  the old one, which is run `payout_made`.
* Persistence. A block is durable when `update_balances` returns, although its first
  file is written before its second; the databases agree between packets, over restarts,
  except about blocks that were exposed; shares are paid for once under the same
  condition; a refund, which writes one file only, reaches the other through the timer.

* Records. Within the limits of the format (amounts below 2^32, fewer than 256 payouts and
  credits, addresses of fewer than 256 bytes) a restart changes no amount under either
  build. Amounts and counts beyond them lose: a balance of 4295 NXS, a round's weight with
  one share of difficulty 10, the credits beyond the counter's byte. They never gain. An address
  beyond its limit may make anything of the one map it is in (payouts or credits of one block), also entries that
  never were, and spares the accounts, the other map, the other fields and the other records,
  which are all found again. What is done to a record is done once. Both values that `IsComplete` compares are
  rebuilt from others, and agree, unless the payouts were misread.

What the violations show is described in `PROJECT.json` under `findings`.
Observations from the modelling that no run is spent on:

* `new_round` transmits on a connection that is closed and not yet cleaned up, whose
  `m_connection` is null (`ShareValidation!Notify`, `BlockRequests!NewRound`: the
  process ends);
* miners behind one address share the entry of the oldest connection: requests, templates,
  submissions and the "block finder bonus" (`pool_connection.cpp:365`) go to it. Since the
  server listens on the loopback address, all miners of the pool as built are in this case.
  `FinderKeepsBonus` and `StepLossHasCause` say just this much;
* `Coinbase` compares unsigned differences, so that an output above the remaining value
  wraps (`PayoutManager`, `Word`);
* the fee is `reward * pool_fee` (`daemon_connection.cpp:386`, `payout_manager.cpp:55`)
  while `README.md:31` calls `pool_fee` a percentage;
* `InitializePrimes` (`prime.hpp`) is never called, so `gmp_verification` has no list of
  small primes to work with.

Bounds. Two connections are enough for one miner to disturb another through the
daemon's loop, the address lookup and the vector's order, and two ips let them share one or
not; a third adds no new
relation between two entries. One template and three heights give a
current, a stale and a default block; the template's name is free again after a restart,
and the theorems hold for any number of templates. Two blocks give the first round without coinbase, a payout, a
coinbase paid out twice, a stale submission and an orphan before and after the next
block. Two connections may be of two accounts or of one, and with two shares a late store takes
one back. A reward of 50 makes the 2% bonus 1 and leaves 49, which one account may get
whole and two share evenly or one to two; 49 does not fit a `uint32_t` of 48 values, and with a
`Precision` of 64 two thirds of it are rounded down or up. Two requests overlap in one
miner or compete between two, and one new height makes a template obsolete; `Word` need only exceed the requests. Two coinbases
in transit allow a stale one to overtake a fresh one, two replies a shared buffer. In
`payout_made` a third reply and height let a block be accepted while a rebuild is
answered. One crash suffices for what a crash leaves behind, since a restart begins
from the files alone; the theorems have no bound. With four values to a byte, five
addresses exceed a counter by one, and the amounts lie below, at and above the half word,
with halves that share bits and halves that do not. Padded addresses of 4 and 5 bytes have
lengths that are written as 0 and 1. With so few entries TLC's loops do not get past the end of a
vector, so one memory is enough; the theorems cover the reads beyond it. Symmetry:
connections and accounts in ShareValidation, connections, accounts and hashes in PayoutManager; none where a run checks
liveness.

Deadlock is checked except in `BlockRequests`, `RoundProtocol` and `Persistence`, where the
process may be dead for good (a null dereference, a damaged file).

Fairness. The io threads run every handler that is ready, and each timer is restarted
by its own handler: weak fairness of the timers, of the handlers that have begun and of
the receive handler. The wallet is external; it is assumed to answer every request
(weak fairness of each answer) and not to refuse every coinbase (strong fairness of
acceptance, needed because each refusal leads to a rebuild). A mutex that becomes free
again and again is obtained by a thread that waits for it (strong fairness of
`TimerBlkBegin`, `TimerAcctBegin` and of the daemon's handler). Nothing is assumed of
miners, of the chain, of crashes or of which packets share a buffer. In
`BlockRequests` a pending coinbase is settled by assumption; `RoundProtocol`'s
`PendingClears` is where that is checked, and says when it fails.

## 4. Proofs

The proof modules establish their theorems for every value of the constants, under
the assumptions named in the modules. Finite sets are assumed only of the connections in
`BlockRequests`, whose counters are summed.

`ShareValidationProofs` has one inductive invariant for all its theorems. It says
of every handler what has been established at its place (what `CopyBlock` read is an
issued height or 0; past the height check it is the issued one), of the two maps of
a connection that an entry is the issued template of this connection or a default
block, and counts the credits of a share against the handlers that are still going
to credit it and against the clears that can still happen; the last part is what
makes "at most three" inductive. Theorems: `TypeCorrect`, `AtMostThrice`,
`Remembered`, `OnlyIssued`, `Genuine`, and `FinderKept` (`FinderKeepsBonus`), which assumes
nothing of the addresses: a slot other than the finder's is filled only through the lookup, so
by a block from the same ip whose connection came later. `LookupFinds` (`LookupSucceeds`) adds `OrderInv`:
`before` is a strict order on the entries, of which there are finitely many because they
come one at a time, so that the entries with the submitter's address, which include its
own, have a first one.

`PayoutManagerProofs`: `TypeCorrect` needs `LocalInv`, what the handler has at hand
at each place (an account is loaded, a finder is known, the credits do not exceed
the reward before the remainder is stored). `OneRefund` needs `RefundInv`: a block is
booked only once, since the hash of an outstanding submission has no record, and a
refunded block stays on record with value 0. `Covered` (`NeverShortchanged`, assuming
`Quiet = TRUE`) needs `FreshInv`: the record a handler has loaded is the one in the
database. Run `threadsafe` shows that the assumption cannot be dropped.

`PayoutLedgerProofs` continues with what is computed.

* `CoinbaseFilled` (`CoinbaseComplete`), for any interleaving. `CoinbaseInv`: the current
  value never exceeds the maximal one while the coinbase is built, so that the remainder
  that `FinishCoinbase` adds is a true difference, and no sum wraps past the maximum.
* `BooksBalance` (`ExactLedger`, `Quiet = TRUE`). `PayableInv`: as long as nothing was
  orphaned or paid twice, every payout that is still to be charged is covered by its
  balance, so that no deduction stops at zero; block finders, who also get the rest of the
  coinbase, are the exception. `PlaceInv` says at which places a payout is still due.
* `RewardSuffices` (`CreditsWithinReward`, `Quiet = TRUE`). `WeightInv`: `weight` is the sum
  of the shares of the accounts visited, and `total * weight * Precision <= left *
  (Precision + 1) * (sum of the shares of the accounts credited)`, where `CreditBound` bounds each
  credit, rounded up or overflowed; the last account then gives `total <= left + left /
  Precision`, and for a reward below `Precision` the excess is less than 1, so `total <= left`. A sum is the
  number of elements of a set of pairs (`Tally`), so its laws (`TallyProofs`) follow from
  those of cardinality and need no induction. The sets are finite because the loop has
  added their elements.
* `RoundsRefined` (`AtomicRounds`, `Quiet = TRUE`): every step maps to a step of `PayoutRounds`
  or to none. It needs `FreshInv`, again, and `LoopInv`: the account at hand is not among
  those still to come, and the loops of a refund run over the accounts of the record; and
  `GrantInv`: no account has, and no handler is about to store, more shares than were found,
  however many connections count for one account.

`BlockRequestsProofs`: `TypeCorrect` needs `CountInv`, which bounds the requests of a miner by
the number made. `StepLoss` (`StepLossHasCause`) assumes nothing of the addresses: a request
that is not filed under the entry of the connection that asks is `Misfiled`. The
argument is about one step: if the counters were in step, and the step has none of the four
causes, then for each kind of step the counters of the connections concerned move together, and the
sum of `waiting` over the entries (`Tally` again) stays covered by the requests and
templates under way. The counters are wide enough for the requests of a behaviour (`Word >
MaxAsks`), as 16 bits are for requests that come one at a time.

`RoundProtocolProofs`: `TypeCorrect`, and `NeverSettled` (`CoinbaseUnderWay`). The
property is inductive once the types are known; `UnderWay` restates it with an index
into the queue of replies instead of a set of kinds, which is what the lemmas about
appending to the queue and taking a buffer from it speak of. The argument is that
each packet that consumes an answer sets the flag, loses the answer or sends the
coinbase again.

`PersistenceProofs`: one inductive invariant in parts. `DownInv` and `HashInv` tie the
locks, program counters and the block at hand together; `FreshInv` says that a block
the wallet has not accepted has left no trace; `BookInv` and `RefundInv` describe the
accounts in the middle of a booking and of a refund (the accounts in `todo` are one
step behind the others); `BlkFileInv` and `AcctFileInv` say which blocks may differ between
a file and its map (the handler's own block until it writes, and the blocks in
`unsaved`); `AgreeInv`, `DurableInv` and `SharesInv` are the properties in
inductive form. Theorems: `TypeCorrect`, `Durable` (`BookingDurable`), `Agree`
(`DatabasesAgree`), `PaidOnce` (`SharesPaidOnce`), and the refinements `AcctRefines`
and `BlkRefines`: every step of `Persistence` is a step of `DurableStore` or leaves
the mapped state alone.

`RecordCodecProofs` says what the two files are after any number of restarts, for any size of
a byte, any addresses, hashes and records, and in either build. It has four layers.

* Numbers and positions: `NumberKept` and `AmountRead` say what is read where a number
  stands in any bytes, and the lemmas about positions (`At`) carry this through
  concatenations and slices. `Low(b, u)` is what `bytes2uint64` makes of the amount `u`: at
  most `u`, `u` itself below 2^32, and not changed a second time (`LowKept`).
* Loops: a recursive function is known by its equations only once a function
  with these equations is shown to exist (`JoinsLoop`, `ReadLoop`, `LoadLoop`, `TotalLoop`).
  What it computes is an induction over the rounds. The library's induction theorems cannot
  be used; `Induction` states the principle for sets of numbers instead of predicates and
  follows from the least element of a set (`WFMin`). The invariant of the reading loops is
  that after as many rounds as there are keys among the first `i` of the order, the
  position is the end of the first `i` pieces and the map holds just these keys
  (`EntriesRead`, `FileRead`).
* Records: `Restored(b, heap, k, r)` is what is left of a record. `RestoredMap` keeps the first
  entries of an aligned map, as many as its one byte counts. Of a map that is not aligned the
  proof knows `AnyRead`: whatever the bytes, fewer than 256 rounds read a map whose addresses,
  amounts and number of entries are within the limits. `RecordRead`: reading what was
  written gives `Restored`, which has the same key, is a record again and is within the
  limits (`Came`), so that a second restart keeps its amounts whatever the memory; a coinbase
  with the values that a restart computes (`Settled`) is read as it is. `FileRead`: so it is for every record of a file, whichever
  surround it.
* The databases: the inductive invariant `IInv` says that the file is that of the saved
  records (`Written`), that records read from a file are what a restart makes of the saved
  ones with some memory (`Restart`), and that a block that is neither refunded nor misread is
  `Balanced` (its coinbase is complete just when fee and payouts make up the value of the
  block, modulo 2^64). None of the properties mentions the file's contents, so none is
  inductive without the first; the third is needed for `Complete`, since `nMaxValue` and
  `nCurrentValue` are not written and a restart computes both anew.

Theorems: `TypeCorrect` (`TypeOK`), `KeepsAmounts` (`RestartKeepsAmounts`), `NeverGains`
(`RestartNeverGains`), `FindsRecords` (`RestartFindsRecords`), `Stable` (`RestartIsStable`),
`Complete` (`StillComplete`). The assumptions, which TLC evaluates on every run of the
module: addresses are distinct and of any length, every string of fewer than 256 bytes among them;
hashes are distinct and of one length; a record takes fewer than 2^32 bytes, an account by
`SizeAssumption`, a block by `IsBlock` (one that was read has at most 255 payouts
and credits of at most 264 bytes, which fits); and records are booked as `update_balances` does
(`payout_manager.cpp:50`): the value of a block is that of its coinbase and the fee, and the
current value of the coinbase is the sum of its payouts.

Checked by TLC only: the liveness properties `ServedInStep`, `PendingClears`,
`AgreementRestored`, `RefundReachesDisk`; fairness is out of the prover's reach. Every
invariant, action property and refinement that a run checks is proved.

## 5. Plan

Done: the core (`ShareValidation`, `PayoutManager`), the request counters, the round
protocol, persistence with its abstract store, the record format, the abstract ledger, and
the proofs of section 4. Left: the layout of packets, and packets split over two buffers, in
the style of `RecordCodec`.

## 6. Not modelled

* Layout of packets. Packets are model values; of framing, what matters to
  the protocol is modelled (several packets in one buffer, `RoundProtocol`,
  `BlockRequests`), a packet split over two buffers is not.
* The DDOS score: it is counted and never acted on.
* Configuration and loading of the banned list: read once at start, not shared.
* Statistics and the sqlite database: their calls are commented out.
* Hashing, prime verification and base58: out of TLC's reach; `Verdict` stands for
  them. That the base58 decoder skips white space is in `RecordCodec`, as addresses of any
  length.
* Vendored libraries (asio, spdlog, json, sqlite, mpir): more than nine tenths of the
  repository's lines and none of its own logic. Posting, timers and sockets of asio are
  modelled by how the pool uses them.
