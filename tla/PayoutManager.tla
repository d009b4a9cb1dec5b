---------------------------- MODULE PayoutManager ----------------------------
(***************************************************************************)
(* The ledger of the pool: account records, the coinbase transaction built *)
(* from them, the distribution of a block's reward (update_balances,       *)
(* clear_shares) and its reversal when the block is orphaned               *)
(* (refund_payouts).                                                       *)
(*                                                                         *)
(* The database locks each GetRecord and each UpdateRecord, not the pair:  *)
(* a record is copied, changed and written back whole.  Loading and        *)
(* storing are therefore separate steps, both in the daemon's receive      *)
(* handler (variable dpc) and in the SUBMIT_SHARE handlers of the miners,  *)
(* one per connection (variable held); several connections may be logged   *)
(* in with one account.  The block timer's handler is a third one          *)
(* (variable timer).                                                       *)
(*                                                                         *)
(* The protocol with the wallet that decides when these operations run is  *)
(* the subject of RoundProtocol; here the wallet's packets may come at any *)
(* time.  Writing to disk and restarts are not modelled here.              *)
(***************************************************************************)
EXTENDS Integers

CONSTANTS
    Accounts,    \* keys of the account database
    Conns,       \* connections that may submit a share at the same time
    Hashes,      \* hashes of the blocks the miners find, each submitted once
    Rewards,     \* rewards the wallet may report
    MaxShares,   \* bound on the shares found for an account in a round
    PoolFee,     \* Config::get_pool_fee
    Word,        \* size of uint64_t, scaled down
    CreditWord,  \* size of uint32_t, the type of a credit, scaled down
    Overflows,   \* what the build may make of a credit that does not fit
    RoundWord,   \* size of uint32_t, the type of a round, scaled down
    Precision,   \* the relative error of a credit's double is less than 1 / Precision
    CheckDepth,  \* how many rounds back the orphan check looks: 5 in the code
    Quiet        \* TRUE: no share is being credited while the daemon's handler runs

NoOne == "none"     \* m_last_blockfinder = "", and no account loaded
NoHash == "none"    \* m_hash_submit_block before the first submission

ASSUME AccountsAssumption == NoOne \notin Accounts
ASSUME HashesAssumption == NoHash \notin Hashes
ASSUME RewardsAssumption == Rewards \subseteq Nat
ASSUME WordAssumption == {Word, RoundWord, CreditWord, Precision} \subseteq Nat \ {0}
ASSUME OverflowAssumption == Overflows # {} /\ Overflows \subseteq 0..CreditWord - 1
ASSUME FeeAssumption == PoolFee \in Nat /\ CheckDepth \in Nat /\ MaxShares \in Nat
ASSUME QuietAssumption == Quiet \in BOOLEAN

VARIABLES
  (* Account_db and the SUBMIT_SHARE handlers *)
    balance,    \* nAccountBalance
    shares,     \* nRoundShares
    held,       \* the record a share handler has loaded: {} or a singleton
    granted,    \* history: shares found for each account in the round
  (* Block_db, Coinbase and Data_registry *)
    db,         \* hash -> LLD::Block (the default record when there is none)
    out,        \* Coinbase::mapOutputs (0: no output)
    coinbase,   \* the other fields of Coinbase
    round,      \* m_current_round
    reward,     \* Daemon_connection::m_round_reward
    finder,     \* Daemon_connection::m_last_blockfinder
    submit,     \* Daemon_connection::m_hash_submit_block
    pending,    \* Daemon_connection::m_coinbase_pending
    asked,      \* blocks whose orphan check is with the wallet (external)
    flight,     \* blocks the wallet has been sent and not answered (external)
    timer,      \* where the block timer's handler stands; the account it is about to name
  (* the daemon's receive handler and its local variables *)
    dpc,        \* where it stands
    todo,       \* accounts its loop has still to visit
    cur,        \* account it has loaded
    rec,        \* the loaded Account record
    hash,       \* the block it handles
    blk,        \* cBlock
    left,       \* reward, after fee and bonus
    weight,     \* nTotalWeight
    total,      \* nTotalReward
  (* history *)
    earned,     \* credits of each account, those of refunded blocks taken back
    paid,       \* payouts of each account in accepted blocks, likewise
    refunds,    \* how often each block has been refunded
    undo,       \* the balances before the last accepted block, if nothing came after it
    seen,       \* blocks the block timer has taken
    accepted,   \* blocks the wallet has answered with GOOD
    finders,    \* accounts that have been block finder
    used,       \* the current coinbase has been paid out by an accepted block
    clean       \* no orphan so far, and no coinbase paid out twice

acctVars == <<balance, shares, held, granted>>
blockVars == <<finder, submit, flight, timer>>
dataVars == <<db, out, coinbase, round, reward, pending, asked, blockVars>>
localVars == <<todo, cur, rec, hash, blk, left, weight, total>>
historyVars == <<earned, paid, refunds, undo, seen, accepted, finders, used, clean>>
vars == <<acctVars, dataVars, dpc, localVars, historyVars>>

Zero == [a \in Accounts |-> 0]
NoBlock == [value |-> 0, round |-> 0, outputs |-> Zero, credits |-> Zero]
NoRecord == [balance |-> 0, shares |-> 0]

\* Mutant: the subtraction does not stop at zero.
PlainMinus(x, y) == x - y

\* uint64_t subtraction, and the subtraction that stops at zero.
Minus(x, y) == (x - y) % Word
Monus(x, y) == IF y > x THEN 0 ELSE x - y

\* The account record as GetRecord returns it.
GetRecord(a) == [balance |-> balance[a], shares |-> shares[a]]

UpdateRecord(a, r) ==
    /\ balance' = [balance EXCEPT ![a] = r.balance]
    /\ shares' = [shares EXCEPT ![a] = r.shares]

AccountRecord == [balance : Nat, shares : Nat]
Holding == [account : Accounts, record : AccountRecord]
BlockRecord == [value : Nat, round : Nat,
                outputs : [Accounts -> Nat], credits : [Accounts -> Nat]]
DaemonPCs == {"idle", "build", "bonus", "bonusStore", "weigh", "account", "deduct", "credit",
              "rest", "restStore", "commit", "clear", "clearStore",
              "take", "takeStore", "give", "giveStore"}

AccountTypes ==
    /\ balance \in [Accounts -> Nat]
    /\ shares \in [Accounts -> Nat]
    /\ held \in [Conns -> SUBSET Holding]
    /\ granted \in [Accounts -> Nat]

DataTypes ==
    /\ db \in [Hashes -> BlockRecord]
    /\ out \in [Accounts -> Nat]
    /\ coinbase \in [max : Nat, fee : Nat, current : Nat]
    /\ round \in Nat
    /\ reward \in Nat
    /\ finder \in Accounts \cup {NoOne}
    /\ submit \in Hashes \cup {NoHash}
    /\ pending \in BOOLEAN
    /\ asked \subseteq Hashes
    /\ flight \subseteq Hashes
    /\ timer \in Accounts \cup {"off", "on"}

LocalTypes ==
    /\ dpc \in DaemonPCs
    /\ todo \subseteq Accounts
    /\ cur \in Accounts \cup {NoOne}
    /\ rec \in AccountRecord
    /\ hash \in Hashes \cup {NoHash}
    /\ blk \in BlockRecord
    /\ left \in Nat /\ weight \in Nat /\ total \in Nat

HistoryTypes ==
    /\ earned \in [Accounts -> Int]
    /\ paid \in [Accounts -> Int]
    /\ refunds \in [Hashes -> Nat]

TypeOK == AccountTypes /\ DataTypes /\ LocalTypes /\ HistoryTypes

\* The reward is known from the start: the first submission waits for a BLOCK_REWARD,
\* which clears the pending flag that every new height raises.
Init ==
    /\ balance = Zero /\ shares = Zero /\ held = [c \in Conns |-> {}] /\ granted = Zero
    /\ db = [h \in Hashes |-> NoBlock]
    /\ out = Zero /\ coinbase = [max |-> 0, fee |-> 0, current |-> 0]
    /\ round = 1 /\ reward \in Rewards /\ finder = NoOne /\ submit = NoHash
    /\ pending = FALSE /\ asked = {} /\ flight = {} /\ timer = "off"
    /\ dpc = "idle" /\ todo = {} /\ cur = NoOne /\ rec = NoRecord
    /\ hash = NoHash /\ blk = NoBlock /\ left = 0 /\ weight = 0 /\ total = 0
    /\ earned = Zero /\ paid = Zero /\ refunds = [h \in Hashes |-> 0]
    /\ undo = {} /\ seen = {} /\ accepted = {} /\ finders = {} /\ used = TRUE /\ clean = TRUE

-----------------------------------------------------------------------------
(* SUBMIT_SHARE: cAccount = GetRecord; nRoundShares += weight; UpdateRecord *)

ShareLoad(c, a) ==
    /\ Quiet => dpc = "idle"
    /\ held[c] = {}
    /\ granted[a] < MaxShares
    /\ held' = [held EXCEPT ![c] = {[account |-> a, record |-> GetRecord(a)]}]
    /\ granted' = [granted EXCEPT ![a] = @ + 1]
    /\ UNCHANGED <<balance, shares, dataVars, dpc, localVars, historyVars>>

ShareStore(c) ==
    /\ \E t \in held[c] : UpdateRecord(t.account, [t.record EXCEPT !.shares = @ + 1])
    /\ held' = [held EXCEPT ![c] = {}]
    /\ UNCHANGED <<granted, dataVars, dpc, localVars, historyVars>>

\* The daemon's handler is free to take the next packet.
DaemonIdle ==
    /\ dpc = "idle"
    /\ Quiet => \A c \in Conns : held[c] = {}

-----------------------------------------------------------------------------
(* BLOCK_REWARD: the coinbase transaction of the next block *)

\* BLOCK_HEIGHT with a new height, NEW_ROUND, COINBASE_FAIL
NewBlock ==
    /\ DaemonIdle
    /\ ~pending
    /\ pending' = TRUE
    /\ UNCHANGED <<acctVars, db, out, coinbase, round, reward, asked, blockVars, dpc,
                   localVars, historyVars>>

BlockReward(r) ==
    /\ DaemonIdle
    /\ reward' = r
    /\ \/ /\ round > 1 /\ pending
          /\ coinbase' = [max |-> Minus(r, (r * PoolFee) % Word),
                          fee |-> (r * PoolFee) % Word, current |-> 0]
          /\ out' = Zero
          /\ todo' = Accounts
          /\ dpc' = "build"
          /\ used' = FALSE
          /\ UNCHANGED pending
       \/ /\ ~(round > 1 /\ pending)
          /\ pending' = FALSE
          /\ UNCHANGED <<coinbase, out, todo, dpc, used>>
    /\ UNCHANGED <<acctVars, db, round, asked, blockVars, cur, rec, hash, blk, left, weight,
                   total, earned, paid, refunds, undo, seen, accepted, finders, clean>>

\* Mutant: a value that fits exactly is refused.
AddTransactionStrict(a, v) ==
    IF (v + coinbase.current) % Word >= coinbase.max
    THEN UNCHANGED <<out, coinbase>>
    ELSE /\ out' = [out EXCEPT ![a] = @ + v]
         /\ coinbase' = [coinbase EXCEPT !.current = (@ + v) % Word]

\* AddTransaction: nothing is added when the value does not fit.
AddTransaction(a, v) ==
    IF (v + coinbase.current) % Word > coinbase.max
    THEN UNCHANGED <<out, coinbase>>
    ELSE /\ out' = [out EXCEPT ![a] = @ + v]
         /\ coinbase' = [coinbase EXCEPT !.current = (@ + v) % Word]

\* The loop over get_sorted_accounts, highest balance first.  add_transaction returns
\* an unsigned number, so the branch for a negative one is never taken.
AddPayout(a) ==
    /\ dpc = "build"
    /\ a \in todo
    /\ \A b \in todo : balance[b] <= balance[a]
    /\ IF balance[a] > 0 THEN AddTransaction(a, balance[a]) ELSE UNCHANGED <<out, coinbase>>
    /\ todo' = todo \ {a}
    /\ UNCHANGED <<acctVars, db, round, reward, pending, asked, blockVars, dpc, cur, rec,
                   hash, blk, left, weight, total, historyVars>>

\* The rest goes to the last block finder, and SET_COINBASE to the wallet.
FinishCoinbase ==
    /\ dpc = "build"
    /\ todo = {}
    /\ IF coinbase.current # coinbase.max
       THEN AddTransaction(finder, Minus(coinbase.max, coinbase.current))
       ELSE UNCHANGED <<out, coinbase>>
    /\ dpc' = "idle"
    /\ UNCHANGED <<acctVars, db, round, reward, pending, asked, blockVars, localVars,
                   historyVars>>

\* COINBASE_SET (and the accounts are written to disk)
CoinbaseSet ==
    /\ DaemonIdle
    /\ round > 1 /\ pending
    /\ pending' = FALSE
    /\ UNCHANGED <<acctVars, db, out, coinbase, round, reward, asked, blockVars, dpc,
                   localVars, historyVars>>

-----------------------------------------------------------------------------
(* GOOD: update_balances, clear_shares, the next round *)

\* The daemon's handler copies a record; the step named by `at` stores it.
Load(from, at, a) ==
    /\ dpc = from
    /\ dpc' = at
    /\ cur' = a
    /\ rec' = GetRecord(a)
    /\ UNCHANGED <<acctVars, dataVars, hash, blk, left, weight, total, historyVars>>

LoadNext(from, at) == \E a \in todo : Load(from, at, a) /\ todo' = todo \ {a}

\* The block timer does nothing while a coinbase is pending.  The flag is read before the
\* mutex is taken.  (A tick that will not find a block changes nothing.)
BlockTimer ==
    /\ timer = "off"
    /\ ~pending
    /\ seen # Hashes
    /\ timer' = "on"
    /\ UNCHANGED <<acctVars, db, out, coinbase, round, reward, finder, submit, flight, pending,
                   asked, dpc, localVars, historyVars>>

\* Its submitting half takes the block a miner of account f has found, if there is one.
\* m_hash_submit_block is set before the height is compared, so a stale block that is
\* not sent to the wallet leaves its hash there too.
SubmitBlock(h, f) ==
    /\ timer = "on"
    /\ h \notin seen
    /\ submit' = h
    /\ seen' = seen \cup {h}
    /\ \/ flight' = flight \cup {h} /\ timer' = f
       \/ flight' = flight /\ timer' = "off"
    /\ UNCHANGED <<acctVars, db, out, coinbase, round, reward, finder, pending, asked, dpc,
                   localVars, earned, paid, refunds, undo, accepted, finders, used, clean>>

\* m_last_blockfinder is named after the block has been transmitted, under its own mutex.
NameFinder ==
    /\ timer \in Accounts
    /\ finder' = timer
    /\ finders' = finders \cup {timer}
    /\ timer' = "off"
    /\ UNCHANGED <<acctVars, db, out, coinbase, round, reward, submit, flight, pending, asked,
                   dpc, localVars, earned, paid, refunds, undo, seen, accepted, used, clean>>

\* FAIL only logs.
Fail(h) ==
    /\ DaemonIdle
    /\ h \in flight
    /\ flight' = flight \ {h}
    /\ UNCHANGED <<acctVars, db, out, coinbase, round, reward, finder, submit, timer, pending,
                   asked, dpc, localVars, historyVars>>

\* GOOD does not say which block has been accepted: the code takes the last one the
\* block timer saw.  The wallet extends its chain by one of the blocks it was sent and
\* fails the others, which are of the same height.  Its answer may overtake the naming of
\* the finder: the bonus then goes to the one before.  (Not for the first block of all: an
\* answer to that one is taken to come after its finder has been named.)
Good(h) ==
    /\ DaemonIdle
    /\ h \in flight
    /\ finder # NoOne
    /\ flight' = {}
    /\ hash' = submit
    /\ blk' = [value |-> (coinbase.max + coinbase.fee) % Word, round |-> round,
               outputs |-> out, credits |-> Zero]
    /\ left' = Minus(reward, (reward * PoolFee) % Word)
    /\ weight' = 0 /\ total' = 0
    /\ dpc' = "bonus"
    /\ undo' = {balance}
    /\ accepted' = accepted \cup {h}
    /\ clean' = (clean /\ (used => out = Zero))
    /\ used' = TRUE
    /\ UNCHANGED <<acctVars, db, out, coinbase, round, reward, finder, submit, timer, pending,
                   asked, todo, cur, rec, earned, paid, refunds, seen, finders>>

Bonus == (left * 2) \div 100

\* The credit c of account a, which the block record books under account b.
Credited(b, a, c) ==
    /\ blk' = [blk EXCEPT !.credits[b] = @ + c]
    /\ earned' = [earned EXCEPT ![a] = @ + c]

\* The finder is handed over by reference: another one may have been named since its
\* record was loaded, and the block record then says that one has the bonus.
BonusStore ==
    /\ dpc = "bonusStore"
    /\ UpdateRecord(cur, [rec EXCEPT !.balance = @ + Bonus])
    /\ Credited(finder, cur, Bonus)
    /\ left' = left - Bonus
    /\ todo' = Accounts
    /\ dpc' = "weigh"
    /\ UNCHANGED <<held, granted, dataVars, cur, rec, hash, weight, total,
                   paid, refunds, undo, seen, accepted, finders, used, clean>>

\* total_weight, one GetRecord per account
Weigh(a) ==
    /\ dpc = "weigh"
    /\ a \in todo
    /\ weight' = weight + shares[a]
    /\ todo' = IF todo = {a} THEN Accounts ELSE todo \ {a}
    /\ dpc' = IF todo = {a} THEN "account" ELSE "weigh"
    /\ UNCHANGED <<acctVars, dataVars, cur, rec, hash, blk, left, total, historyVars>>

\* After the last account comes the remainder of the reward.
NextAccount == IF todo = {} THEN "rest" ELSE "account"

\* Mutant: the record is only stored with the credit, so not for an account without
\* shares.
DeductUnstored ==
    /\ dpc = "deduct"
    /\ rec' = [rec EXCEPT !.balance = Monus(@, out[cur])]
    /\ paid' = [paid EXCEPT ![cur] = @ + out[cur]]
    /\ dpc' = IF rec.shares = 0 THEN NextAccount ELSE "credit"
    /\ UNCHANGED <<acctVars, dataVars, todo, cur, hash, blk, left, weight, total,
                   earned, refunds, undo, seen, accepted, finders, used, clean>>

\* The payout was in the coinbase of the accepted block: off the balance it goes.
Deduct ==
    /\ dpc = "deduct"
    /\ LET r == [rec EXCEPT !.balance = Monus(@, out[cur])]
       IN  /\ rec' = r
           /\ IF out[cur] > 0 THEN UpdateRecord(cur, r) ELSE UNCHANGED <<balance, shares>>
    /\ paid' = [paid EXCEPT ![cur] = @ + out[cur]]
    /\ dpc' = IF rec.shares = 0 THEN NextAccount ELSE "credit"
    /\ UNCHANGED <<held, granted, dataVars, todo, cur, hash, blk, left, weight, total,
                   earned, refunds, undo, seen, accepted, finders, used, clean>>

\* Mutant: the credit is rounded up.
CreditRoundedUp(s, w, r) == IF w = 0 THEN {0} ELSE {(s * r + w - 1) \div w}

\* The integers (double) s / w * r may be cut off to: its roundings may carry it down or
\* up across an integer, unless all shares belong to the account.
Quotients(s, w, r) ==
    IF s = w /\ r < Precision THEN {r}
    ELSE (s * r * (Precision - 1)) \div (w * Precision) ..
         (s * r * (Precision + 1)) \div (w * Precision)

\* (uint32_t)((double) s / w * r).  The conversion of a value beyond uint32_t, and of the
\* infinite one when there is no weight, is undefined.
CreditOf(s, w, r) ==
    IF w = 0 THEN Overflows
    ELSE UNION {IF q < CreditWord THEN {q} ELSE Overflows : q \in Quotients(s, w, r)}

Credit ==
    /\ dpc = "credit"
    /\ \E c \in CreditOf(rec.shares, weight, left) :
          /\ UpdateRecord(cur, [rec EXCEPT !.balance = @ + c])
          /\ Credited(cur, cur, c)
          /\ total' = total + c
    /\ dpc' = NextAccount
    /\ UNCHANGED <<held, granted, dataVars, todo, cur, rec, hash, left, weight,
                   paid, refunds, undo, seen, accepted, finders, used, clean>>

\* Any remainder is the block finder's.
SkipRest ==
    /\ dpc = "rest"
    /\ left <= total
    /\ dpc' = "commit"
    /\ UNCHANGED <<acctVars, dataVars, localVars, historyVars>>

RestStore ==
    /\ dpc = "restStore"
    /\ UpdateRecord(cur, [rec EXCEPT !.balance = @ + (left - total)])
    /\ earned' = [earned EXCEPT ![cur] = @ + (left - total)]
    /\ dpc' = "commit"
    /\ UNCHANGED <<held, granted, dataVars, localVars, paid, refunds, undo, seen, accepted, finders,
                   used, clean>>

\* The block record (and both databases are written to disk)
Commit ==
    /\ dpc = "commit"
    /\ db' = [db EXCEPT ![hash] = blk]
    /\ todo' = Accounts
    /\ dpc' = "clear"
    /\ UNCHANGED <<acctVars, out, coinbase, round, reward, pending, asked, blockVars, cur,
                   rec, hash, blk, left, weight, total, historyVars>>

\* The handler's local variables end with it.
Leave ==
    /\ dpc' = "idle"
    /\ todo' = {} /\ cur' = NoOne /\ rec' = NoRecord /\ hash' = NoHash /\ blk' = NoBlock
    /\ left' = 0 /\ weight' = 0 /\ total' = 0

\* Mutant: the loop ends at an account without shares.
ClearStoreBreak ==
    /\ dpc = "clearStore"
    /\ UpdateRecord(cur, [rec EXCEPT !.shares = 0])
    /\ granted' = [granted EXCEPT ![cur] = 0]
    /\ \/ todo # {} /\ rec.shares # 0 /\ dpc' = "clear" /\ UNCHANGED <<localVars, round>>
       \/ (todo = {} \/ rec.shares = 0) /\ round' = round + 1 /\ Leave
    /\ UNCHANGED <<held, db, out, coinbase, reward, pending, asked, blockVars, historyVars>>

\* clear_shares; after the last account m_current_round++
ClearStore ==
    /\ dpc = "clearStore"
    /\ UpdateRecord(cur, [rec EXCEPT !.shares = 0])
    /\ granted' = [granted EXCEPT ![cur] = 0]
    /\ \/ todo # {} /\ dpc' = "clear" /\ UNCHANGED <<localVars, round>>
       \/ todo = {} /\ round' = round + 1 /\ Leave
    /\ UNCHANGED <<held, db, out, coinbase, reward, pending, asked, blockVars, historyVars>>

-----------------------------------------------------------------------------
(* The orphan check and ORPHAN_BLOCK: refund_payouts *)

\* nRound >= m_current_round - 5 && nCoinbaseValue > 0, in unsigned arithmetic
Checked(h) ==
    /\ db[h].round >= (round - CheckDepth) % RoundWord
    /\ db[h].value > 0

OrphanTimer ==
    /\ \E h \in Hashes : Checked(h) /\ h \notin asked
    /\ asked' = asked \cup {h \in Hashes : Checked(h)}
    /\ UNCHANGED <<acctVars, db, out, coinbase, round, reward, pending, blockVars, dpc,
                   localVars, historyVars>>

\* The wallet answers a check; it may have been asked again in the meantime.
Answer(h) ==
    /\ DaemonIdle
    /\ h \in asked
    /\ asked' \in {asked, asked \ {h}}

\* GOOD_BLOCK only logs.
GoodBlock(h) ==
    /\ Answer(h)
    /\ asked' = asked \ {h}
    /\ UNCHANGED <<acctVars, db, out, coinbase, round, reward, pending, blockVars, dpc,
                   localVars, historyVars>>

Orphan(h) ==
    /\ Answer(h)
    /\ \/ /\ db[h].value = 0        \* already processed
          /\ pending' = TRUE
          /\ UNCHANGED <<dpc, hash, blk, todo, refunds>>
       \/ /\ db[h].value > 0
          /\ hash' = h
          /\ blk' = [db[h] EXCEPT !.value = 0]
          /\ todo' = {a \in Accounts : db[h].credits[a] > 0}
          /\ dpc' = "take"
          /\ refunds' = [refunds EXCEPT ![h] = @ + 1]
          /\ UNCHANGED pending
    /\ clean' = FALSE
    /\ UNCHANGED <<acctVars, db, out, coinbase, round, reward, blockVars, cur, rec, left,
                   weight, total, earned, paid, undo, seen, accepted, finders, used>>

\* The credits of the round are taken back ...
TakeStore ==
    /\ dpc = "takeStore"
    /\ UpdateRecord(cur, [rec EXCEPT !.balance = Monus(@, blk.credits[cur])])
    /\ earned' = [earned EXCEPT ![cur] = @ - blk.credits[cur]]
    /\ dpc' = "take"
    /\ UNCHANGED <<held, granted, dataVars, localVars, paid, refunds, undo, seen, accepted, finders,
                   used, clean>>

EndTake ==
    /\ dpc = "take"
    /\ todo = {}
    /\ todo' = {a \in Accounts : blk.outputs[a] > 0}
    /\ dpc' = "give"
    /\ UNCHANGED <<acctVars, dataVars, cur, rec, hash, blk, left, weight, total, historyVars>>

\* Mutant: the payout replaces the balance.
GiveStoreAssign ==
    /\ dpc = "giveStore"
    /\ UpdateRecord(cur, [rec EXCEPT !.balance = blk.outputs[cur]])
    /\ paid' = [paid EXCEPT ![cur] = @ - blk.outputs[cur]]
    /\ dpc' = "give"
    /\ UNCHANGED <<held, granted, dataVars, localVars, earned, refunds, undo, seen, accepted, finders,
                   used, clean>>

\* ... and the payouts given back.
GiveStore ==
    /\ dpc = "giveStore"
    /\ UpdateRecord(cur, [rec EXCEPT !.balance = @ + blk.outputs[cur]])
    /\ paid' = [paid EXCEPT ![cur] = @ - blk.outputs[cur]]
    /\ dpc' = "give"
    /\ UNCHANGED <<held, granted, dataVars, localVars, earned, refunds, undo, seen, accepted, finders,
                   used, clean>>

\* Mutant: the flagged record is not written back.
EndRefundForget ==
    /\ dpc = "give"
    /\ todo = {}
    /\ pending' = TRUE
    /\ undo' = {}
    /\ Leave
    /\ UNCHANGED <<acctVars, db, out, coinbase, round, reward, asked, blockVars, earned, paid,
                   refunds, seen, accepted, finders, used, clean>>

\* The record keeps the flag (and the block database is written to disk); the packet's
\* handler ends with m_coinbase_pending = true.
EndRefund ==
    /\ dpc = "give"
    /\ todo = {}
    /\ db' = [db EXCEPT ![hash] = blk]
    /\ pending' = TRUE
    /\ undo' = {}
    /\ Leave
    /\ UNCHANGED <<acctVars, out, coinbase, round, reward, asked, blockVars, earned, paid,
                   refunds, seen, accepted, finders, used, clean>>

-----------------------------------------------------------------------------
Loads ==
    \/ Load("bonus", "bonusStore", finder) /\ UNCHANGED todo
    \/ LoadNext("account", "deduct")
    \/ left > total /\ Load("rest", "restStore", finder) /\ UNCHANGED todo
    \/ LoadNext("clear", "clearStore")
    \/ LoadNext("take", "takeStore")
    \/ LoadNext("give", "giveStore")

Next ==
    \/ \E c \in Conns : ShareStore(c) \/ \E a \in Accounts : ShareLoad(c, a)
    \/ \E a \in Accounts : AddPayout(a) \/ Weigh(a)
    \/ \E r \in Rewards : BlockReward(r)
    \/ NewBlock \/ FinishCoinbase \/ CoinbaseSet
    \/ BlockTimer \/ NameFinder
    \/ \E h \in Hashes, f \in Accounts : SubmitBlock(h, f)
    \/ \E h \in Hashes : Good(h) \/ Fail(h)
    \/ Loads \/ BonusStore \/ Deduct \/ Credit \/ SkipRest \/ RestStore \/ Commit \/ ClearStore
    \/ OrphanTimer
    \/ \E h \in Hashes : GoodBlock(h) \/ Orphan(h)
    \/ TakeStore \/ EndTake \/ GiveStore \/ EndRefund

Spec == Init /\ [][Next]_vars

-----------------------------------------------------------------------------
(* Properties *)

\* Whatever blocks are found and orphaned, in whatever order, and even when a coinbase
\* is paid out twice: what an account has been paid and what it is owed is never less
\* than what it has earned.  Saturating subtractions only ever favour the miner.
NeverShortchanged == \A a \in Accounts : balance[a] + paid[a] >= earned[a]

\* Without orphans, and when no coinbase is paid out twice, the books of every account
\* that has not been a block finder balance exactly.
ExactLedger ==
    clean => \A a \in Accounts \ finders : balance[a] + paid[a] = earned[a]

\* The credits of a round, each computed in floating point and cut off on its own, never
\* exceed the reward, as long as the reward is one that the floating point resolves.
CreditsWithinReward ==
    dpc \in {"account", "deduct", "credit", "rest"} /\ left < Precision => total <= left

\* A coinbase sent to the wallet pays out exactly its maximum.
CoinbaseComplete ==
    dpc # "build" => coinbase.current = coinbase.max

\* However often the wallet reports a block as orphaned, it is refunded once.
RefundedOnce == \A h \in Hashes : refunds[h] <= 1

\* ("Clear out the Credits for the Round", "Refund the Payouts for the Round") The
\* refund of the last accepted block brings back the balances from before it.
RefundUndoes ==
    [][ dpc = "give" /\ dpc' = "idle" /\ undo # {} /\ blk.round = round - 1
        => balance \in undo ]_vars

\* ("Hash of the Block being Submitted") The block a round is booked under, and whose
\* orphan check decides about the refund, is one the wallet has accepted.
BookedIsAccepted == \A h \in Hashes : db[h].round > 0 => h \in accepted

\* ("Check last 5 blocks every 20 seconds") A block of the last rounds that has not been
\* refunded is one the orphan timer asks for.
UnrefundedIsChecked ==
    \A h \in Hashes :
        db[h].round > 0 /\ refunds[h] = 0 /\ db[h].round >= round - CheckDepth => Checked(h)

-----------------------------------------------------------------------------
(* The abstract ledger *)

Stage ==
    CASE dpc \in {"idle", "build"} -> "open"
      [] dpc \in {"clear", "clearStore"} -> "closing"
      [] dpc \in {"take", "takeStore"} -> "taking"
      [] dpc \in {"give", "giveStore"} -> "returning"
      [] OTHER -> "paying"

\* The accounts of S that a loop has dealt with; the step named by `at` deals with the
\* account at hand.
Visited(S, at) == S \ (todo \cup (IF dpc = at THEN {cur} ELSE {}))

Credits == {a \in Accounts : blk.credits[a] > 0}
Payouts == {a \in Accounts : blk.outputs[a] > 0}

Done ==
    CASE dpc \in {"idle", "build", "bonus", "bonusStore", "weigh"} -> {}
      [] Stage = "closing" -> Visited(Accounts, "clearStore")
      [] Stage = "taking" -> Visited(Credits, "takeStore")
      [] Stage = "returning" -> Visited(Payouts, "giveStore")
      [] OTHER -> Visited(Accounts, "deduct")

Rounds == INSTANCE PayoutRounds WITH stage <- Stage, done <- Done

\* As long as no share is credited while the daemon's handler runs, loading and storing
\* whole records looks like atomic changes of single accounts: each account is charged
\* once for an accepted block, its shares are forgotten before the next round opens, and
\* an orphaned block is undone for each account at most once.  Connections of the same
\* account may lose each other's shares, and never count more than were found.
AtomicRounds == Rounds!Spec
=============================================================================
