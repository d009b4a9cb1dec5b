------------------------- MODULE PayoutManagerProofs -------------------------
(***************************************************************************)
(* Proofs about PayoutManager, for any set of accounts, any rewards, any   *)
(* fee and any order of blocks, payouts and orphans.                       *)
(***************************************************************************)
EXTENDS PayoutManager, TLAPS

-----------------------------------------------------------------------------
(* The inductive invariant *)

StorePCs == {"bonusStore", "deduct", "credit", "restStore", "clearStore", "takeStore", "giveStore"}
GoodPCs == {"bonus", "bonusStore", "weigh", "account", "deduct", "credit", "rest", "restStore", "commit"}
RefundPCs == {"take", "takeStore", "give", "giveStore"}

\* What the daemon's handler has at hand where it stands.
LocalInv ==
    /\ flight # {} => submit \in Hashes
    /\ dpc \in StorePCs => cur \in Accounts
    /\ dpc \in GoodPCs \cup {"clear", "clearStore"} => finder \in Accounts
    /\ dpc \in GoodPCs \cup RefundPCs \cup {"clear", "clearStore"} => hash \in Hashes
    /\ dpc = "restStore" => total <= left
    /\ round > 0

\* Nobody changes a record between its load and its store while miners are quiet; other
\* connections of the account may change its shares, not its balance.
FreshInv ==
    /\ dpc # "idle" => \A c \in Conns : held[c] = {}
    /\ dpc \in StorePCs => rec = GetRecord(cur)
    /\ \A c \in Conns : \A t \in held[c] : t.record.balance = balance[t.account]

\* A block is booked once, and once refunded it stays recorded with value 0.
RefundInv ==
    /\ flight # {} => submit \in seen /\ db[submit].round = 0
    /\ flight # {} /\ dpc \in GoodPCs => hash # submit
    /\ \A h \in Hashes \ seen : db[h].round = 0
    /\ \A h \in Hashes : db[h].value > 0 => db[h].round > 0
    /\ \A h \in Hashes : refunds[h] > 0 =>
        /\ refunds[h] = 1
        /\ db[h].round > 0
        /\ db[h].value = 0 \/ (dpc \in RefundPCs /\ hash = h)
    /\ dpc \in GoodPCs => hash \in seen /\ blk.round > 0 /\ db[hash].round = 0
    /\ dpc \in RefundPCs => db[hash].round > 0 /\ blk.round > 0 /\ blk.value = 0
    /\ flight \subseteq seen

-----------------------------------------------------------------------------
(* Lemmas about the arithmetic *)

\* Unsigned subtraction and remainders are natural numbers.
LEMMA WordNat == \A x, y \in Int : Minus(x, y) \in Nat /\ (x % Word) \in Nat
BY WordAssumption DEF Minus

\* The bonus is a part of the reward.
LEMMA BonusNat == ASSUME left \in Nat PROVE Bonus \in Nat /\ left - Bonus \in Nat
BY DEF Bonus

\* A quotient of natural numbers is one.
LEMMA DivNat == \A p \in Nat, w \in Nat \ {0} : p \div w \in Nat
OBVIOUS

\* A remainder of one natural number by another is one, and not larger.
LEMMA ModNat == \A p \in Nat, w \in Nat \ {0} : p % w \in Nat /\ p % w <= p
OBVIOUS

\* What the floating point computation is cut off to: a natural number, and not more than
\* the exact quotient by more than the relative error.
LEMMA QuotientNat ==
    ASSUME NEW s \in Nat, NEW w \in Nat \ {0}, NEW r \in Nat, NEW q \in Quotients(s, w, r)
    PROVE  q \in Nat
<1> DEFINE p == s * r * (Precision - 1)
           d == w * Precision
<1>1. Precision \in Nat \ {0}
  BY WordAssumption
<1>2. p \in Nat /\ d \in Nat \ {0}
  <2>1. s * r \in Nat /\ Precision - 1 \in Nat
    BY <1>1
  <2> QED
    BY <1>1, <2>1
<1>3. p \div d \in Nat
  BY <1>2, DivNat
<1>4. q = r \/ q \in p \div d .. (s * r * (Precision + 1)) \div (w * Precision)
  BY DEF Quotients
<1> QED
  BY <1>3, <1>4

\* A credit is a natural number.
LEMMA CreditNat ==
    ASSUME NEW s \in Nat, NEW w \in Nat, NEW r \in Nat, NEW c \in CreditOf(s, w, r)
    PROVE  c \in Nat
<1>1. Overflows \subseteq Nat
  BY WordAssumption, OverflowAssumption
<1>2. CASE w = 0
  BY <1>1, <1>2 DEF CreditOf
<1>3. CASE w # 0
  <2>1. PICK q \in Quotients(s, w, r) : c = q \/ c \in Overflows
    BY <1>3 DEF CreditOf
  <2>2. q \in Nat
    BY <1>3, QuotientNat
  <2> QED
    BY <1>1, <2>1, <2>2
<1> QED
  BY <1>2, <1>3

-----------------------------------------------------------------------------
(* Type correctness *)

\* A record stays one when its balance or its shares change.
LEMMA RecordUpdate ==
    ASSUME NEW r \in AccountRecord, NEW n \in Nat
    PROVE  /\ [r EXCEPT !.balance = n] \in AccountRecord
           /\ [r EXCEPT !.balance = @ + n] \in AccountRecord
           /\ [r EXCEPT !.shares = n] \in AccountRecord
           /\ r.balance \in Nat /\ r.shares \in Nat
BY DEF AccountRecord

\* UpdateRecord keeps the types of the account database.
LEMMA UpdateRecordTypes ==
    ASSUME AccountTypes, NEW a, NEW r \in AccountRecord, UpdateRecord(a, r)
    PROVE  balance' \in [Accounts -> Nat] /\ shares' \in [Accounts -> Nat]
BY DEF AccountTypes, UpdateRecord, AccountRecord

\* So does a step that leaves the accounts alone.
LEMMA SameAccounts == ASSUME AccountTypes, UNCHANGED acctVars PROVE AccountTypes'
BY DEF AccountTypes, acctVars

\* A record that GetRecord returns.
LEMMA GetRecordType == ASSUME AccountTypes, NEW a \in Accounts PROVE GetRecord(a) \in AccountRecord
BY DEF AccountTypes, GetRecord, AccountRecord

\* The subtraction that stops at zero.
LEMMA MonusNat == ASSUME NEW x \in Nat, NEW y \in Nat PROVE Monus(x, y) \in Nat
BY DEF Monus

\* Facts a store needs.
LEMMA StoreFacts ==
    ASSUME TypeOK, LocalInv, dpc \in StorePCs
    PROVE  /\ cur \in Accounts /\ rec \in AccountRecord
           /\ rec.balance \in Nat /\ rec.shares \in Nat
           /\ out[cur] \in Nat /\ blk.credits[cur] \in Nat /\ blk.outputs[cur] \in Nat
           /\ left \in Nat /\ weight \in Nat /\ total \in Nat
<1>1. cur \in Accounts /\ rec \in AccountRecord /\ blk \in BlockRecord
  BY DEF TypeOK, LocalTypes, LocalInv
<1>2. out \in [Accounts -> Nat]
  BY DEF TypeOK, DataTypes
<1>3. left \in Nat /\ weight \in Nat /\ total \in Nat
  BY DEF TypeOK, LocalTypes
<1> QED
  BY <1>1, <1>2, <1>3 DEF AccountRecord, BlockRecord

\* Every step keeps the types of the account database.
LEMMA AccountTypeStep ==
    ASSUME TypeOK, LocalInv, [Next]_vars
    PROVE  AccountTypes'
<1>0. AccountTypes /\ held \in [Conns -> SUBSET Holding]
  BY DEF TypeOK, AccountTypes
<1> DEFINE Stored == \E a \in Accounts : \E r \in AccountRecord : UpdateRecord(a, r)
<1>a. ASSUME Stored, UNCHANGED <<held, granted>> PROVE AccountTypes'
  BY <1>a, <1>0, UpdateRecordTypes DEF AccountTypes
<1>1. ASSUME NEW c \in Conns, NEW a \in Accounts, ShareLoad(c, a) PROVE AccountTypes'
  <2>1. [account |-> a, record |-> GetRecord(a)] \in Holding
    BY <1>0, GetRecordType DEF Holding
  <2>2. held' \in [Conns -> SUBSET Holding]
    BY <1>0, <1>1, <2>1 DEF ShareLoad
  <2>3. granted' \in [Accounts -> Nat]
    BY <1>0, <1>1 DEF ShareLoad, AccountTypes
  <2> QED
    BY <1>0, <1>1, <2>2, <2>3 DEF ShareLoad, AccountTypes
<1>2. ASSUME NEW c \in Conns, ShareStore(c) PROVE AccountTypes'
  <2>1. PICK t \in held[c] : UpdateRecord(t.account, [t.record EXCEPT !.shares = @ + 1])
    BY <1>2 DEF ShareStore
  <2>2. t.record \in AccountRecord
    BY <1>0 DEF Holding
  <2>3. [t.record EXCEPT !.shares = @ + 1] \in AccountRecord
    BY <2>2 DEF AccountRecord
  <2>4. balance' \in [Accounts -> Nat] /\ shares' \in [Accounts -> Nat]
    BY <2>1, <2>3, <1>0, UpdateRecordTypes
  <2> QED
    BY <2>4, <1>0, <1>2 DEF ShareStore, AccountTypes
<1>3. CASE BonusStore
  <2>1. cur \in Accounts /\ [rec EXCEPT !.balance = @ + Bonus] \in AccountRecord
    BY <1>3, StoreFacts, BonusNat, RecordUpdate DEF BonusStore, StorePCs
  <2> QED
    BY <2>1, <1>3, <1>a DEF BonusStore
<1>4. CASE Deduct
  <2>1. cur \in Accounts /\ [rec EXCEPT !.balance = Monus(@, out[cur])] \in AccountRecord
    BY <1>4, StoreFacts, MonusNat, RecordUpdate DEF Deduct, StorePCs
  <2>2. CASE out[cur] > 0
    BY <2>1, <2>2, <1>4, <1>a DEF Deduct
  <2>3. CASE ~(out[cur] > 0)
    BY <2>3, <1>4, <1>0, SameAccounts DEF Deduct, acctVars
  <2> QED
    BY <2>2, <2>3
<1>5. CASE Credit
  <2>1. PICK c \in CreditOf(rec.shares, weight, left) : UpdateRecord(cur, [rec EXCEPT !.balance = @ + c])
    BY <1>5 DEF Credit
  <2>2. cur \in Accounts /\ rec \in AccountRecord /\ rec.balance \in Nat /\ c \in Nat
    BY <1>5, <2>1, StoreFacts, CreditNat DEF Credit, StorePCs
  <2>3. [rec EXCEPT !.balance = @ + c] \in AccountRecord
    BY <2>2, RecordUpdate
  <2> QED
    BY <2>1, <2>2, <2>3, <1>5, <1>a DEF Credit
<1>6. CASE RestStore
  <2>1. total <= left
    BY <1>6 DEF RestStore, LocalInv
  <2>2. cur \in Accounts /\ rec \in AccountRecord /\ left - total \in Nat
    BY <1>6, <2>1, StoreFacts DEF RestStore, StorePCs
  <2>3. [rec EXCEPT !.balance = @ + (left - total)] \in AccountRecord
    BY <2>2, RecordUpdate
  <2> QED
    BY <2>2, <2>3, <1>6, <1>a DEF RestStore
<1>7. CASE ClearStore
  <2>1. cur \in Accounts /\ [rec EXCEPT !.shares = 0] \in AccountRecord
    BY <1>7, StoreFacts, RecordUpdate DEF ClearStore, StorePCs
  <2>2. balance' \in [Accounts -> Nat] /\ shares' \in [Accounts -> Nat]
    BY <1>0, <1>7, <2>1, UpdateRecordTypes DEF ClearStore
  <2>3. granted' \in [Accounts -> Nat] /\ UNCHANGED held
    BY <1>0, <1>7 DEF ClearStore, AccountTypes
  <2> QED
    BY <1>0, <2>2, <2>3 DEF AccountTypes
<1>8. CASE TakeStore
  <2>1. cur \in Accounts /\ [rec EXCEPT !.balance = Monus(@, blk.credits[cur])] \in AccountRecord
    BY <1>8, StoreFacts, MonusNat, RecordUpdate DEF TakeStore, StorePCs
  <2> QED
    BY <2>1, <1>8, <1>a DEF TakeStore
<1>9. CASE GiveStore
  <2>1. cur \in Accounts /\ [rec EXCEPT !.balance = @ + blk.outputs[cur]] \in AccountRecord
    BY <1>9, StoreFacts, RecordUpdate DEF GiveStore, StorePCs
  <2> QED
    BY <2>1, <1>9, <1>a DEF GiveStore
<1>10. CASE UNCHANGED acctVars
  BY <1>10, <1>0, SameAccounts
<1>11. CASE Loads
  BY <1>11, <1>10 DEF Loads, LoadNext, Load
<1>12. CASE NewBlock \/ FinishCoinbase \/ CoinbaseSet \/ SkipRest \/ Commit
  BY <1>12, <1>10 DEF NewBlock, FinishCoinbase, CoinbaseSet, SkipRest, Commit
<1>13. CASE OrphanTimer \/ EndTake \/ EndRefund
  BY <1>13, <1>10 DEF OrphanTimer, EndTake, EndRefund
<1>14. ASSUME NEW a \in Accounts, AddPayout(a) \/ Weigh(a) PROVE AccountTypes'
  BY <1>14, <1>10 DEF AddPayout, Weigh
<1>15. ASSUME NEW r \in Rewards, BlockReward(r) PROVE AccountTypes'
  BY <1>15, <1>10 DEF BlockReward
<1>16. ASSUME NEW h \in Hashes, NEW f \in Accounts, SubmitBlock(h, f) PROVE AccountTypes'
  BY <1>16, <1>10 DEF SubmitBlock
<1>t. CASE BlockTimer \/ NameFinder
  BY <1>t, <1>10 DEF BlockTimer, NameFinder, historyVars, localVars
<1>17. ASSUME NEW h \in Hashes, Good(h) \/ Fail(h) \/ GoodBlock(h) \/ Orphan(h) PROVE AccountTypes'
  BY <1>17, <1>10 DEF Good, Fail, GoodBlock, Orphan
<1>18. CASE UNCHANGED vars
  BY <1>18, <1>10 DEF vars
<1> QED
  BY <1>1, <1>2, <1>3, <1>4, <1>5, <1>6, <1>7, <1>8, <1>9, <1>11, <1>12, <1>13, <1>14, <1>15,
     <1>16, <1>17, <1>18,
     <1>t DEF Next

\* So does AddTransaction for the coinbase.
LEMMA AddTransactionTypes ==
    ASSUME out \in [Accounts -> Nat], coinbase \in [max : Nat, fee : Nat, current : Nat],
           NEW a, NEW v \in Nat, AddTransaction(a, v)
    PROVE  out' \in [Accounts -> Nat] /\ coinbase' \in [max : Nat, fee : Nat, current : Nat]
<1>1. CASE (v + coinbase.current) % Word > coinbase.max
  BY <1>1 DEF AddTransaction
<1>2. CASE ~((v + coinbase.current) % Word > coinbase.max)
  <2>1. coinbase.current + v \in Int
    OBVIOUS
  <2>2. (coinbase.current + v) % Word \in Nat
    BY <2>1, WordNat
  <2> QED
    BY <1>2, <2>2 DEF AddTransaction
<1> QED
  BY <1>1, <1>2

\* Every step keeps the types of the shared data.
LEMMA DataTypeStep ==
    ASSUME TypeOK, LocalInv, [Next]_vars
    PROVE  DataTypes'
<1>0. DataTypes
  BY DEF TypeOK
<1>1. CASE UNCHANGED dataVars
  BY <1>0, <1>1 DEF DataTypes, dataVars, blockVars
<1>2. CASE NewBlock \/ CoinbaseSet
  BY <1>0, <1>2 DEF DataTypes, blockVars, NewBlock, CoinbaseSet
<1>3. ASSUME NEW r \in Rewards, BlockReward(r) PROVE DataTypes'
  <2>1. r \in Nat /\ r * PoolFee \in Int
    BY RewardsAssumption, FeeAssumption
  <2>2. (r * PoolFee) % Word \in Nat /\ Minus(r, (r * PoolFee) % Word) \in Nat
    BY <2>1, WordNat
  <2>3. Zero \in [Accounts -> Nat]
    BY DEF Zero
  <2>4. /\ reward' \in Nat
        /\ pending' \in BOOLEAN
        /\ out' \in [Accounts -> Nat]
    BY <1>0, <1>3, <2>1, <2>3 DEF DataTypes, BlockReward
  <2>5. coinbase' \in [max : Nat, fee : Nat, current : Nat]
    BY <1>0, <1>3, <2>2 DEF DataTypes, BlockReward
  <2> QED
    BY <1>0, <1>3, <2>4, <2>5 DEF DataTypes, BlockReward, blockVars
<1>4. ASSUME NEW a \in Accounts, AddPayout(a) PROVE DataTypes'
  <2>1. balance[a] \in Nat
    BY DEF TypeOK, AccountTypes
  <2>2. out' \in [Accounts -> Nat] /\ coinbase' \in [max : Nat, fee : Nat, current : Nat]
    BY <1>0, <1>4, <2>1, AddTransactionTypes DEF AddPayout, DataTypes
  <2> QED
    BY <1>0, <1>4, <2>2 DEF DataTypes, AddPayout, blockVars
<1>5. CASE FinishCoinbase
  <2>1. Minus(coinbase.max, coinbase.current) \in Nat
    BY <1>0, WordNat DEF DataTypes
  <2>2. out' \in [Accounts -> Nat] /\ coinbase' \in [max : Nat, fee : Nat, current : Nat]
    BY <1>0, <1>5, <2>1, AddTransactionTypes DEF FinishCoinbase, DataTypes
  <2> QED
    BY <1>0, <1>5, <2>2 DEF DataTypes, FinishCoinbase, blockVars
<1>6. ASSUME NEW h \in Hashes, NEW f \in Accounts, SubmitBlock(h, f) PROVE DataTypes'
  BY <1>0, <1>6 DEF DataTypes, SubmitBlock
<1>t. CASE BlockTimer \/ NameFinder
  BY <1>0, <1>t DEF DataTypes, BlockTimer, NameFinder, historyVars, localVars
<1>7. ASSUME NEW h \in Hashes, Good(h) \/ Fail(h) PROVE DataTypes'
  BY <1>0, <1>7 DEF DataTypes, Good, Fail
<1>8. CASE Commit
  <2>1. blk \in BlockRecord
    BY DEF TypeOK, LocalTypes
  <2> QED
    BY <1>0, <1>8, <2>1 DEF DataTypes, Commit, blockVars
<1>9. CASE ClearStore
  BY <1>0, <1>9 DEF DataTypes, ClearStore, blockVars, localVars
<1>10. CASE OrphanTimer
  BY <1>0, <1>10 DEF DataTypes, OrphanTimer, blockVars
<1>11. ASSUME NEW h \in Hashes, GoodBlock(h) \/ Orphan(h) PROVE DataTypes'
  <2>1. asked' \subseteq Hashes /\ pending' \in BOOLEAN
    BY <1>0, <1>11 DEF DataTypes, GoodBlock, Orphan, Answer
  <2> QED
    BY <1>0, <1>11, <2>1 DEF DataTypes, GoodBlock, Orphan, blockVars
<1>12. CASE EndRefund
  <2>1. blk \in BlockRecord
    BY DEF TypeOK, LocalTypes
  <2> QED
    BY <1>0, <1>12, <2>1 DEF DataTypes, EndRefund, blockVars
<1>13. ASSUME NEW a \in Accounts, Weigh(a) PROVE DataTypes'
  BY <1>13, <1>1 DEF Weigh
<1>s. CASE \E c \in Conns : ShareStore(c) \/ \E a \in Accounts : ShareLoad(c, a)
  BY <1>s, <1>1 DEF ShareLoad, ShareStore
<1>14. CASE Loads
  BY <1>14, <1>1 DEF Loads, LoadNext, Load
<1>15. CASE BonusStore \/ Deduct \/ Credit \/ SkipRest \/ RestStore
  BY <1>15, <1>1 DEF BonusStore, Deduct, Credit, SkipRest, RestStore
<1>16. CASE TakeStore \/ EndTake \/ GiveStore
  BY <1>16, <1>1 DEF TakeStore, EndTake, GiveStore
<1>17. CASE UNCHANGED vars
  BY <1>17, <1>1 DEF vars
<1> QED
  BY <1>2, <1>3, <1>4, <1>5, <1>6, <1>7, <1>8, <1>9, <1>10, <1>11, <1>12, <1>13, <1>14, <1>15,
     <1>16, <1>17,
     <1>s, <1>t DEF Next

\* An entry of a ledger may grow and shrink.
LEMMA LedgerUpdate ==
    ASSUME NEW f \in [Accounts -> Int], NEW a \in Accounts, NEW d \in Int
    PROVE  /\ [f EXCEPT ![a] = @ + d] \in [Accounts -> Int]
           /\ [f EXCEPT ![a] = @ - d] \in [Accounts -> Int]
<1>1. f[a] + d \in Int /\ f[a] - d \in Int
  OBVIOUS
<1> QED
  BY <1>1

\* Crediting an account keeps the block record and the history well formed.
LEMMA CreditedTypes ==
    ASSUME blk \in BlockRecord, earned \in [Accounts -> Int], NEW b, NEW a \in Accounts,
           NEW c \in Nat, Credited(b, a, c)
    PROVE  blk' \in BlockRecord /\ earned' \in [Accounts -> Int]
<1>1. blk' \in BlockRecord
  BY DEF Credited, BlockRecord
<1>2. earned' \in [Accounts -> Int]
  BY LedgerUpdate DEF Credited
<1> QED
  BY <1>1, <1>2

\* Every step keeps the types of the history.
LEMMA HistoryTypeStep ==
    ASSUME TypeOK, LocalInv, [Next]_vars
    PROVE  HistoryTypes'
<1>0. HistoryTypes /\ blk \in BlockRecord /\ left \in Nat
  BY DEF TypeOK, LocalTypes
<1>1. CASE UNCHANGED <<earned, paid, refunds>>
  BY <1>0, <1>1 DEF HistoryTypes
<1>2. CASE BonusStore
  <2>1. cur \in Accounts
    BY <1>2, StoreFacts DEF BonusStore, StorePCs
  <2> QED
    BY <1>0, <1>2, <2>1, BonusNat, CreditedTypes DEF HistoryTypes, BonusStore
<1>3. CASE Deduct
  <2>1. cur \in Accounts /\ out[cur] \in Nat
    BY <1>3, StoreFacts DEF Deduct, StorePCs
  <2> QED
    BY <1>0, <1>3, <2>1, LedgerUpdate DEF HistoryTypes, Deduct
<1>4. CASE Credit
  <2>1. PICK c \in CreditOf(rec.shares, weight, left) : Credited(cur, cur, c)
    BY <1>4 DEF Credit
  <2>2. c \in Nat /\ cur \in Accounts
    BY <1>4, <2>1, StoreFacts, CreditNat DEF Credit, StorePCs
  <2> QED
    BY <1>0, <1>4, <2>1, <2>2, CreditedTypes DEF HistoryTypes, Credit
<1>5. CASE RestStore
  <2>1. cur \in Accounts /\ left - total \in Int
    BY <1>5, StoreFacts DEF RestStore, StorePCs
  <2> QED
    BY <1>0, <1>5, <2>1, LedgerUpdate DEF HistoryTypes, RestStore
<1>6. CASE TakeStore
  <2>1. cur \in Accounts /\ blk.credits[cur] \in Nat
    BY <1>6, StoreFacts DEF TakeStore, StorePCs
  <2> QED
    BY <1>0, <1>6, <2>1, LedgerUpdate DEF HistoryTypes, TakeStore
<1>7. CASE GiveStore
  <2>1. cur \in Accounts /\ blk.outputs[cur] \in Nat
    BY <1>7, StoreFacts DEF GiveStore, StorePCs
  <2> QED
    BY <1>0, <1>7, <2>1, LedgerUpdate DEF HistoryTypes, GiveStore
<1>8. ASSUME NEW h \in Hashes, Orphan(h) PROVE HistoryTypes'
  BY <1>0, <1>8 DEF HistoryTypes, Orphan
<1>9. ASSUME NEW a \in Accounts, AddPayout(a) \/ Weigh(a)
      PROVE HistoryTypes'
  BY <1>9, <1>1 DEF AddPayout, Weigh, historyVars
<1>s. CASE \E c \in Conns : ShareStore(c) \/ \E a \in Accounts : ShareLoad(c, a)
  BY <1>s, <1>1 DEF ShareLoad, ShareStore, historyVars
<1>10. CASE NewBlock \/ FinishCoinbase \/ CoinbaseSet \/ Loads \/ SkipRest \/ Commit \/ ClearStore
  BY <1>10, <1>1 DEF NewBlock, FinishCoinbase, CoinbaseSet, Loads, LoadNext, Load, SkipRest,
     Commit, ClearStore, historyVars
<1>11. CASE OrphanTimer \/ EndTake \/ EndRefund
  BY <1>11, <1>1 DEF OrphanTimer, EndTake, EndRefund, historyVars
<1>12. ASSUME NEW r \in Rewards, BlockReward(r) PROVE HistoryTypes'
  BY <1>12, <1>1 DEF BlockReward
<1>13. ASSUME NEW h \in Hashes, NEW f \in Accounts, SubmitBlock(h, f) PROVE HistoryTypes'
  BY <1>13, <1>1 DEF SubmitBlock
<1>t. CASE BlockTimer \/ NameFinder
  BY <1>t, <1>1 DEF BlockTimer, NameFinder, historyVars, localVars
<1>14. ASSUME NEW h \in Hashes, Good(h) \/ Fail(h) \/ GoodBlock(h) PROVE HistoryTypes'
  BY <1>14, <1>1 DEF Good, Fail, GoodBlock, historyVars
<1>15. CASE UNCHANGED vars
  BY <1>15, <1>1 DEF vars, historyVars
<1> QED
  BY <1>2, <1>3, <1>4, <1>5, <1>6, <1>7, <1>8, <1>9, <1>10, <1>11, <1>12, <1>13, <1>14, <1>15,
     <1>s, <1>t DEF Next

\* Every step keeps the types of the handler's variables.
LEMMA LocalTypeStep ==
    ASSUME TypeOK, LocalInv, [Next]_vars
    PROVE  LocalTypes'
<1>0. LocalTypes
  BY DEF TypeOK
<1>1. CASE UNCHANGED <<dpc, localVars>>
  BY <1>0, <1>1 DEF LocalTypes, localVars
<1>2. ASSUME NEW r \in Rewards, BlockReward(r) PROVE LocalTypes'
  <2>1. dpc' \in DaemonPCs /\ todo' \subseteq Accounts
    BY <1>0, <1>2 DEF LocalTypes, DaemonPCs, BlockReward
  <2> QED
    BY <1>0, <1>2, <2>1 DEF LocalTypes, BlockReward
<1>3. ASSUME NEW a \in Accounts, AddPayout(a) PROVE LocalTypes'
  BY <1>0, <1>3 DEF LocalTypes, AddPayout
<1>4. CASE FinishCoinbase \/ SkipRest
  BY <1>0, <1>4 DEF LocalTypes, DaemonPCs, FinishCoinbase, SkipRest, localVars
<1>5. ASSUME NEW h \in Hashes, Good(h) PROVE LocalTypes'
  <2>1. submit \in Hashes
    BY <1>5 DEF Good, LocalInv
  <2>2. reward * PoolFee \in Int /\ coinbase.max + coinbase.fee \in Int
    BY FeeAssumption DEF TypeOK, DataTypes
  <2>3. reward \in Nat /\ round \in Nat /\ out \in [Accounts -> Nat] /\ Zero \in [Accounts -> Nat]
    BY DEF TypeOK, DataTypes, Zero
  <2>4. left' \in Nat
    <3>1. (reward * PoolFee) % Word \in Nat
      BY <2>2, WordNat
    <3>2. Minus(reward, (reward * PoolFee) % Word) \in Nat
      BY <2>3, <3>1, WordNat
    <3> QED
      BY <1>5, <3>2 DEF Good
  <2>5. blk' \in BlockRecord
    BY <1>5, <2>2, <2>3, WordNat DEF Good, BlockRecord
  <2> QED
    BY <1>0, <1>5, <2>1, <2>4, <2>5 DEF LocalTypes, DaemonPCs, Good
<1>6. ASSUME NEW from, NEW at \in DaemonPCs, NEW a \in Accounts, Load(from, at, a),
             todo' \subseteq Accounts
      PROVE  LocalTypes'
  <2>1. GetRecord(a) \in AccountRecord
    BY GetRecordType DEF TypeOK
  <2> QED
    BY <1>0, <1>6, <2>1 DEF LocalTypes, Load
<1>7. CASE Loads
  <2>1. todo \subseteq Accounts
    BY <1>0 DEF LocalTypes
  <2>2. ASSUME NEW from, NEW at \in DaemonPCs, LoadNext(from, at) PROVE LocalTypes'
    BY <2>1, <2>2, <1>6 DEF LoadNext
  <2>3. ASSUME dpc \in GoodPCs PROVE finder \in Accounts
    BY <2>3 DEF LocalInv
  <2>4. CASE Load("bonus", "bonusStore", finder) /\ UNCHANGED todo
    BY <2>1, <2>3, <2>4, <1>6 DEF Load, GoodPCs, DaemonPCs
  <2>5. CASE Load("rest", "restStore", finder) /\ UNCHANGED todo
    BY <2>1, <2>3, <2>5, <1>6 DEF Load, GoodPCs, DaemonPCs
  <2> QED
    BY <1>7, <2>2, <2>4, <2>5 DEF Loads, DaemonPCs
<1>8. CASE BonusStore
  <2>1. cur \in Accounts /\ blk \in BlockRecord /\ left \in Nat
    BY <1>0, <1>8, StoreFacts DEF BonusStore, StorePCs, LocalTypes
  <2>2. blk' \in BlockRecord
    BY <1>8, <2>1, BonusNat, CreditedTypes DEF BonusStore, TypeOK, HistoryTypes
  <2>3. left' \in Nat
    BY <1>8, <2>1, BonusNat DEF BonusStore
  <2> QED
    BY <1>0, <1>8, <2>2, <2>3 DEF LocalTypes, DaemonPCs, BonusStore
<1>9. ASSUME NEW a \in Accounts, Weigh(a) PROVE LocalTypes'
  <2>1. weight + shares[a] \in Nat
    BY <1>0 DEF LocalTypes, TypeOK, AccountTypes
  <2>2. dpc' \in DaemonPCs /\ todo' \subseteq Accounts
    BY <1>0, <1>9 DEF LocalTypes, DaemonPCs, Weigh
  <2> QED
    BY <1>0, <1>9, <2>1, <2>2 DEF LocalTypes, Weigh
<1>10. NextAccount \in DaemonPCs
  BY DEF NextAccount, DaemonPCs
<1>11. CASE Deduct
  <2>1. rec' \in AccountRecord
    BY <1>11, StoreFacts, MonusNat, RecordUpdate DEF Deduct, StorePCs
  <2>2. dpc' \in DaemonPCs
    BY <1>10, <1>11 DEF Deduct, DaemonPCs
  <2> QED
    BY <1>0, <1>11, <2>1, <2>2 DEF LocalTypes, Deduct
<1>12. CASE Credit
  <2>1. PICK c \in CreditOf(rec.shares, weight, left) : Credited(cur, cur, c) /\ total' = total + c
    BY <1>12 DEF Credit
  <2>2. c \in Nat /\ cur \in Accounts /\ total \in Nat
    BY <1>12, <2>1, StoreFacts, CreditNat DEF Credit, StorePCs
  <2>3. blk' \in BlockRecord
    BY <1>0, <2>1, <2>2, CreditedTypes DEF LocalTypes, TypeOK, HistoryTypes
  <2>4. total' \in Nat
    BY <2>1, <2>2
  <2> QED
    BY <1>0, <1>10, <1>12, <2>3, <2>4 DEF LocalTypes, Credit
<1>13. CASE RestStore \/ TakeStore \/ GiveStore
  BY <1>0, <1>13 DEF LocalTypes, DaemonPCs, RestStore, TakeStore, GiveStore, localVars
<1>14. CASE Commit \/ EndTake
  BY <1>0, <1>14 DEF LocalTypes, DaemonPCs, Commit, EndTake
<1>15. ASSUME Leave PROVE LocalTypes'
  <2>1. NoBlock \in BlockRecord /\ NoRecord \in AccountRecord
    BY DEF NoBlock, NoRecord, BlockRecord, AccountRecord, Zero
  <2> QED
    BY <1>15, <2>1 DEF LocalTypes, DaemonPCs, Leave
<1>16. CASE ClearStore
  <2>1. CASE dpc' = "clear" /\ UNCHANGED localVars
    BY <1>0, <2>1 DEF LocalTypes, DaemonPCs, localVars
  <2> QED
    BY <1>15, <1>16, <2>1 DEF ClearStore
<1>17. CASE EndRefund
  BY <1>15, <1>17 DEF EndRefund
<1>18. ASSUME NEW h \in Hashes, Orphan(h) PROVE LocalTypes'
  <2>1. db[h] \in BlockRecord
    BY DEF TypeOK, DataTypes
  <2>2. [db[h] EXCEPT !.value = 0] \in BlockRecord
    BY <2>1 DEF BlockRecord
  <2>3. /\ dpc' \in DaemonPCs /\ todo' \subseteq Accounts
        /\ hash' \in Hashes \cup {NoHash} /\ blk' \in BlockRecord
    BY <1>0, <1>18, <2>2 DEF LocalTypes, DaemonPCs, Orphan
  <2> QED
    BY <1>0, <1>18, <2>3 DEF LocalTypes, Orphan
<1>s. CASE \E c \in Conns : ShareStore(c) \/ \E a \in Accounts : ShareLoad(c, a)
  BY <1>1, <1>s DEF ShareLoad, ShareStore
<1>20. CASE NewBlock \/ CoinbaseSet \/ OrphanTimer \/ UNCHANGED vars
  BY <1>1, <1>20 DEF NewBlock, CoinbaseSet, OrphanTimer, vars
<1>21. ASSUME NEW h \in Hashes, NEW f \in Accounts, SubmitBlock(h, f) PROVE LocalTypes'
  BY <1>1, <1>21 DEF SubmitBlock
<1>t. CASE BlockTimer \/ NameFinder
  BY <1>1, <1>t DEF BlockTimer, NameFinder, historyVars, localVars
<1>22. ASSUME NEW h \in Hashes, Fail(h) \/ GoodBlock(h) PROVE LocalTypes'
  BY <1>1, <1>22 DEF Fail, GoodBlock
<1> QED
  BY <1>2, <1>3, <1>4, <1>5, <1>7, <1>8, <1>9, <1>11, <1>12, <1>13, <1>14, <1>16, <1>17, <1>18,
     <1>20, <1>21, <1>22, <1>s, <1>t DEF Next

\* Every step keeps LocalInv.
LEMMA LocalStep ==
    ASSUME TypeOK, LocalInv, [Next]_vars
    PROVE  LocalInv'
<1>0. /\ dpc \in DaemonPCs /\ round \in Nat /\ left \in Nat /\ total \in Nat
      /\ todo \subseteq Accounts /\ asked \subseteq Hashes /\ flight \subseteq Hashes
  BY DEF TypeOK, LocalTypes, DataTypes
<1> USE DEF LocalInv, StorePCs, GoodPCs, RefundPCs, dataVars, localVars, blockVars
<1>1. ASSUME NEW a \in Accounts, AddPayout(a) PROVE LocalInv'
  BY <1>0, <1>1 DEF AddPayout
<1>s. CASE \E c \in Conns : ShareStore(c) \/ \E a \in Accounts : ShareLoad(c, a)
  BY <1>0, <1>s DEF ShareLoad, ShareStore
<1>2. ASSUME NEW a \in Accounts, Weigh(a) PROVE LocalInv'
  BY <1>0, <1>2 DEF Weigh
<1>3. ASSUME NEW r \in Rewards, BlockReward(r) PROVE LocalInv'
  BY <1>0, <1>3 DEF BlockReward, DaemonIdle
<1>4. CASE NewBlock \/ CoinbaseSet \/ FinishCoinbase \/ OrphanTimer
  BY <1>0, <1>4 DEF NewBlock, CoinbaseSet, FinishCoinbase, OrphanTimer
<1>5. ASSUME NEW h \in Hashes, NEW f \in Accounts, SubmitBlock(h, f) PROVE LocalInv'
  BY <1>0, <1>5 DEF SubmitBlock
<1>t. CASE BlockTimer \/ NameFinder
  BY <1>0, <1>t DEF BlockTimer, NameFinder, historyVars, localVars
<1>6. ASSUME NEW h \in Hashes, Good(h) \/ Fail(h) PROVE LocalInv'
  <2>1. CASE Good(h)
    <3>1. finder' \in Accounts
      BY <2>1 DEF Good, TypeOK, DataTypes
    <3> QED
      BY <1>0, <2>1, <3>1 DEF Good
  <2>2. CASE Fail(h)
    BY <1>0, <2>2 DEF Fail
  <2> QED
    BY <1>6, <2>1, <2>2
<1>7. CASE Loads
  BY <1>0, <1>7 DEF Loads, LoadNext, Load
<1>8. CASE BonusStore \/ RestStore \/ SkipRest \/ Commit
  BY <1>0, <1>8 DEF BonusStore, RestStore, SkipRest, Commit
<1>9. CASE Deduct \/ Credit
  BY <1>0, <1>9 DEF Deduct, Credit, NextAccount
<1>10. CASE ClearStore
  BY <1>0, <1>10 DEF ClearStore, Leave
<1>11. ASSUME NEW h \in Hashes, GoodBlock(h) \/ Orphan(h) PROVE LocalInv'
  BY <1>0, <1>11 DEF GoodBlock, Orphan, Answer, DaemonIdle
<1>12. CASE TakeStore \/ EndTake \/ GiveStore
  BY <1>0, <1>12 DEF TakeStore, EndTake, GiveStore
<1>13. CASE EndRefund
  BY <1>0, <1>13 DEF EndRefund, Leave
<1>14. CASE UNCHANGED vars
  BY <1>0, <1>14 DEF vars
<1> QED
  BY <1>1, <1>2, <1>3, <1>4, <1>5, <1>6, <1>7, <1>8, <1>9, <1>10, <1>11, <1>12, <1>13, <1>14,
     <1>s, <1>t DEF Next

\* The pool starts well typed.
LEMMA TypeInit == Init => TypeOK /\ LocalInv
<1> SUFFICES ASSUME Init PROVE TypeOK /\ LocalInv
  OBVIOUS
<1>1. AccountTypes
  BY DEF Init, AccountTypes, Zero
<1>2. NoBlock \in BlockRecord /\ NoRecord \in AccountRecord
  BY DEF NoBlock, NoRecord, BlockRecord, AccountRecord, Zero
<1>3. DataTypes
  BY <1>2, RewardsAssumption DEF Init, DataTypes, Zero
<1>4. LocalTypes
  BY <1>2 DEF Init, LocalTypes, DaemonPCs
<1>5. HistoryTypes
  BY DEF Init, HistoryTypes, Zero
<1>6. LocalInv
  BY DEF Init, LocalInv, StorePCs, GoodPCs, RefundPCs
<1> QED
  BY <1>1, <1>3, <1>4, <1>5, <1>6 DEF TypeOK

\* The ledger is well typed in every reachable state: no balance, payout or credit is
\* ever negative, whatever blocks are found, booked and orphaned.
THEOREM TypeCorrect == Spec => [](TypeOK /\ LocalInv)
<1>1. TypeOK /\ LocalInv /\ [Next]_vars => (TypeOK /\ LocalInv)'
  <2> SUFFICES ASSUME TypeOK, LocalInv, [Next]_vars PROVE (TypeOK /\ LocalInv)'
    OBVIOUS
  <2>1. TypeOK'
    BY AccountTypeStep, DataTypeStep, LocalTypeStep, HistoryTypeStep DEF TypeOK
  <2> QED
    BY <2>1, LocalStep
<1> QED
  BY TypeInit, <1>1, PTL DEF Spec

-----------------------------------------------------------------------------
(* A block is refunded once *)

\* Every step keeps RefundInv.
LEMMA RefundStep ==
    ASSUME TypeOK, LocalInv, RefundInv, [Next]_vars
    PROVE  RefundInv'
<1>0. /\ dpc \in DaemonPCs /\ round \in Nat \ {0} /\ flight \subseteq Hashes
      /\ db \in [Hashes -> BlockRecord] /\ refunds \in [Hashes -> Nat]
      /\ flight # {} => submit \in Hashes
      /\ dpc \in GoodPCs \cup RefundPCs => hash \in Hashes
  BY DEF TypeOK, LocalTypes, DataTypes, HistoryTypes, LocalInv
<1>1. CASE UNCHANGED <<db, refunds, seen, submit, flight, hash, blk, dpc>>
  BY <1>1 DEF RefundInv
<1> DEFINE Same == UNCHANGED <<db, refunds, seen, submit, flight, hash>>
<1>2. ASSUME Same, dpc \in GoodPCs => dpc' \notin RefundPCs,
             dpc \in RefundPCs => dpc' \in RefundPCs,
             dpc' \in RefundPCs => dpc \in RefundPCs,
             dpc' \in GoodPCs => dpc \in GoodPCs,
             blk'.round = blk.round, blk'.value = blk.value
      PROVE  RefundInv'
  BY <1>2 DEF RefundInv
<1>3. ASSUME NEW a \in Accounts, AddPayout(a) PROVE RefundInv'
  BY <1>1, <1>3 DEF AddPayout, dataVars, blockVars, localVars, historyVars
<1>s. CASE \E c \in Conns : ShareStore(c) \/ \E a \in Accounts : ShareLoad(c, a)
  BY <1>1, <1>s DEF ShareLoad, ShareStore, dataVars, blockVars, localVars, historyVars
<1>4. CASE NewBlock \/ CoinbaseSet \/ OrphanTimer \/ UNCHANGED vars
  BY <1>1, <1>4 DEF NewBlock, CoinbaseSet, OrphanTimer, vars, dataVars, blockVars, localVars,
     historyVars
<1>5. ASSUME NEW h \in Hashes, GoodBlock(h) PROVE RefundInv'
  BY <1>1, <1>5 DEF GoodBlock, blockVars, localVars, historyVars
<1>6. ASSUME NEW r \in Rewards, BlockReward(r) PROVE RefundInv'
  BY <1>2, <1>6 DEF BlockReward, DaemonIdle, blockVars, GoodPCs, RefundPCs
<1>7. CASE FinishCoinbase
  BY <1>2, <1>7 DEF FinishCoinbase, blockVars, localVars, historyVars, GoodPCs, RefundPCs
<1>8. ASSUME NEW h \in Hashes, NEW f \in Accounts, SubmitBlock(h, f) PROVE RefundInv'
  BY <1>0, <1>8 DEF SubmitBlock, RefundInv, localVars
<1>t. CASE BlockTimer \/ NameFinder
  BY <1>0, <1>t DEF BlockTimer, NameFinder, RefundInv, localVars, historyVars
<1>9. ASSUME NEW h \in Hashes, Fail(h) PROVE RefundInv'
  BY <1>0, <1>9 DEF Fail, RefundInv, localVars, historyVars
<1>10. ASSUME NEW h \in Hashes, Good(h) PROVE RefundInv'
  BY <1>0, <1>10 DEF Good, RefundInv, GoodPCs, RefundPCs, DaemonIdle
<1>11. CASE Loads
  BY <1>2, <1>11 DEF Loads, LoadNext, Load, dataVars, blockVars, historyVars, GoodPCs, RefundPCs
<1>12. ASSUME NEW a \in Accounts, Weigh(a) PROVE RefundInv'
  BY <1>2, <1>12 DEF Weigh, dataVars, blockVars, historyVars, GoodPCs, RefundPCs
<1>13. ASSUME NEW b, NEW a, NEW c, Credited(b, a, c) PROVE blk'.round = blk.round /\ blk'.value = blk.value
  BY <1>13 DEF Credited, TypeOK, LocalTypes, BlockRecord
<1>14. CASE BonusStore
  BY <1>2, <1>13, <1>14 DEF BonusStore, dataVars, blockVars, GoodPCs, RefundPCs
<1>15. CASE Credit
  BY <1>2, <1>13, <1>15 DEF Credit, NextAccount, dataVars, blockVars, GoodPCs, RefundPCs
<1>16. CASE Deduct
  BY <1>2, <1>16 DEF Deduct, NextAccount, dataVars, blockVars, GoodPCs, RefundPCs
<1>17. CASE SkipRest \/ RestStore
  BY <1>2, <1>17 DEF SkipRest, RestStore, dataVars, blockVars, localVars, historyVars, GoodPCs,
     RefundPCs
<1>18. CASE TakeStore \/ GiveStore \/ EndTake
  BY <1>2, <1>18 DEF TakeStore, GiveStore, EndTake, dataVars, blockVars, localVars, historyVars,
     GoodPCs, RefundPCs
<1>19. CASE Commit
  BY <1>0, <1>19 DEF Commit, RefundInv, blockVars, historyVars, GoodPCs, RefundPCs
<1>20. CASE ClearStore
  BY <1>0, <1>20 DEF ClearStore, Leave, RefundInv, blockVars, localVars, historyVars, GoodPCs,
     RefundPCs
<1>21. ASSUME NEW h \in Hashes, Orphan(h) PROVE RefundInv'
  <2>1. CASE db[h].value = 0
    BY <1>0, <1>1, <1>21, <2>1 DEF Orphan, blockVars
  <2>2. CASE db[h].value > 0
    <3>1. /\ dpc = "idle" /\ dpc' = "take" /\ hash' = h
          /\ refunds' = [refunds EXCEPT ![h] = @ + 1]
          /\ blk' = [db[h] EXCEPT !.value = 0]
          /\ UNCHANGED <<db, seen, submit, flight>>
      BY <1>21, <2>2 DEF Orphan, Answer, DaemonIdle, blockVars
    <3>2. refunds[h] = 0 /\ db[h].round > 0
      BY <1>0, <2>2, <3>1 DEF RefundInv, RefundPCs
    <3>3. blk'.value = 0 /\ blk'.round = db[h].round
      BY <1>0, <3>1 DEF BlockRecord
    <3>4. \A g \in Hashes : refunds'[g] = IF g = h THEN 1 ELSE refunds[g]
      BY <1>0, <3>1, <3>2
    <3> QED
      BY <1>0, <3>1, <3>2, <3>3, <3>4 DEF RefundInv, GoodPCs, RefundPCs
  <2> QED
    BY <1>0, <1>21, <2>1, <2>2 DEF Orphan
<1>22. CASE EndRefund
  <2>1. /\ dpc = "give" /\ dpc' = "idle"
        /\ UNCHANGED <<refunds, seen, submit, flight>>
    BY <1>22 DEF EndRefund, Leave, blockVars
  <2>2. hash \in Hashes /\ db[hash].round > 0 /\ blk.round > 0 /\ blk.value = 0
    BY <1>0, <2>1 DEF RefundInv, RefundPCs
  <2>3. \A g \in Hashes : db'[g] = IF g = hash THEN blk ELSE db[g]
    BY <1>0, <1>22, <2>2 DEF EndRefund
  <2>4. flight # {} => submit \in Hashes /\ submit # hash
    BY <1>0, <2>2 DEF RefundInv
  <2> QED
    BY <1>0, <2>1, <2>2, <2>3, <2>4 DEF RefundInv, GoodPCs, RefundPCs
<1> QED
  BY <1>3, <1>4, <1>5, <1>6, <1>7, <1>8, <1>9, <1>10, <1>11, <1>12, <1>14, <1>15, <1>16, <1>17,
     <1>18, <1>19, <1>20, <1>21, <1>22, <1>s, <1>t DEF Next

\* However often the wallet reports a block as orphaned, and in whatever order reports,
\* submissions and answers come, refund_payouts takes back its credits and gives back
\* its payouts at most once.
THEOREM OneRefund == Spec => []RefundedOnce
<1>1. Init => RefundInv
  BY DEF Init, RefundInv, NoBlock, GoodPCs, RefundPCs
<1>2. TypeOK /\ LocalInv /\ RefundInv /\ [Next]_vars => RefundInv'
  BY RefundStep
<1>3. TypeOK /\ RefundInv => RefundedOnce
  BY DEF TypeOK, HistoryTypes, RefundInv, RefundedOnce
<1> QED
  BY TypeCorrect, <1>1, <1>2, <1>3, PTL DEF Spec

-----------------------------------------------------------------------------
(* Nobody is shortchanged while the miners are quiet *)

\* What UpdateRecord leaves behind.
LEMMA UpdateRecordReads ==
    ASSUME AccountTypes, NEW a \in Accounts, NEW r \in AccountRecord, UpdateRecord(a, r)
    PROVE  /\ GetRecord(a)' = r
           /\ \A b \in Accounts \ {a} : GetRecord(b)' = GetRecord(b)
           /\ balance'[a] = r.balance
           /\ \A b \in Accounts \ {a} : balance'[b] = balance[b]
BY DEF AccountTypes, UpdateRecord, GetRecord, AccountRecord

\* A step of the daemon's handler that is not a load leaves nothing loaded behind,
\* except for Deduct, which has stored what it keeps.
LEMMA FreshStep ==
    ASSUME Quiet, TypeOK, LocalInv, FreshInv, [Next]_vars
    PROVE  FreshInv'
<1>0. AccountTypes /\ held \in [Conns -> SUBSET Holding] /\ todo \subseteq Accounts
  BY DEF TypeOK, AccountTypes, LocalTypes
<1>1. CASE UNCHANGED <<balance, shares, held, dpc, cur, rec>>
  BY <1>1 DEF FreshInv, GetRecord
<1> DEFINE NoneHeld == \A c \in Conns : held[c] = {}
<1>2. ASSUME NoneHeld, UNCHANGED held, dpc' \notin StorePCs PROVE FreshInv'
  BY <1>2 DEF FreshInv
<1>3. ASSUME dpc # "idle", UNCHANGED held, dpc' \notin StorePCs PROVE FreshInv'
  BY <1>2, <1>3 DEF FreshInv
<1>4. ASSUME NEW c \in Conns, NEW a \in Accounts, ShareLoad(c, a) PROVE FreshInv'
  <2>1. dpc = "idle" /\ dpc' = "idle" /\ UNCHANGED <<balance, shares>>
    BY <1>4 DEF ShareLoad
  <2>2. [account |-> a, record |-> GetRecord(a)].record.balance = balance[a]
    BY DEF GetRecord
  <2>3. \A b \in Conns : held'[b] = IF b = c THEN {[account |-> a, record |-> GetRecord(a)]}
                                   ELSE held[b]
    BY <1>0, <1>4 DEF ShareLoad
  <2> QED
    BY <2>1, <2>2, <2>3 DEF FreshInv, StorePCs
<1>5. ASSUME NEW c \in Conns, ShareStore(c) PROVE FreshInv'
  <2>1. PICK t \in held[c] : UpdateRecord(t.account, [t.record EXCEPT !.shares = @ + 1])
    BY <1>5 DEF ShareStore
  <2>2. t \in Holding /\ t.record \in AccountRecord /\ t.account \in Accounts
    BY <1>0 DEF Holding
  <2>3. dpc = "idle" /\ dpc' = "idle"
    BY <1>5, <2>1 DEF FreshInv, ShareStore
  <2>4. \A b \in Conns : held'[b] = IF b = c THEN {} ELSE held[b]
    BY <1>0, <1>5 DEF ShareStore
  <2>5. [t.record EXCEPT !.shares = @ + 1].balance = balance[t.account]
    BY <2>2 DEF FreshInv, AccountRecord
  <2>6. balance' = balance
    BY <1>0, <2>1, <2>2, <2>5 DEF UpdateRecord, AccountTypes
  <2> QED
    BY <2>3, <2>4, <2>6 DEF FreshInv, StorePCs
<1>6. ASSUME NEW a \in Accounts, AddPayout(a) \/ Weigh(a) PROVE FreshInv'
  BY <1>3, <1>6 DEF AddPayout, Weigh, acctVars, StorePCs
<1>7. ASSUME NEW r \in Rewards, BlockReward(r) PROVE FreshInv'
  BY <1>2, <1>7 DEF BlockReward, DaemonIdle, acctVars, StorePCs
<1>8. CASE NewBlock \/ CoinbaseSet \/ OrphanTimer \/ UNCHANGED vars
  BY <1>1, <1>8 DEF NewBlock, CoinbaseSet, OrphanTimer, vars, acctVars, localVars
<1>9. CASE FinishCoinbase \/ SkipRest \/ Commit \/ EndTake \/ EndRefund
  BY <1>3, <1>9 DEF FinishCoinbase, SkipRest, Commit, EndTake, EndRefund, Leave, acctVars, StorePCs
<1>10. ASSUME NEW h \in Hashes, NEW f \in Accounts, SubmitBlock(h, f) PROVE FreshInv'
  BY <1>1, <1>10 DEF SubmitBlock, acctVars, localVars
<1>t. CASE BlockTimer \/ NameFinder
  BY <1>1, <1>t DEF BlockTimer, NameFinder, acctVars, localVars, historyVars
<1>11. ASSUME NEW h \in Hashes, Fail(h) \/ GoodBlock(h) PROVE FreshInv'
  BY <1>1, <1>11 DEF Fail, GoodBlock, acctVars, localVars
<1>12. ASSUME NEW h \in Hashes, Good(h) \/ Orphan(h) PROVE FreshInv'
  BY <1>2, <1>12 DEF Good, Orphan, Answer, DaemonIdle, acctVars, StorePCs
<1>13. ASSUME NEW from, NEW at, NEW a, Load(from, at, a), from # "idle" PROVE FreshInv'
  BY <1>13 DEF Load, FreshInv, GetRecord, acctVars
<1>14. CASE Loads
  BY <1>13, <1>14 DEF Loads, LoadNext
<1>15. CASE BonusStore \/ Credit \/ RestStore
  BY <1>3, <1>15 DEF BonusStore, Credit, RestStore, NextAccount, StorePCs
<1>16. CASE ClearStore \/ TakeStore \/ GiveStore
  BY <1>3, <1>16 DEF ClearStore, TakeStore, GiveStore, Leave, StorePCs
<1>17. CASE Deduct
  <2> DEFINE r == [rec EXCEPT !.balance = Monus(@, out[cur])]
  <2>1. /\ cur \in Accounts /\ rec \in AccountRecord /\ r \in AccountRecord
        /\ rec.balance \in Nat /\ out[cur] \in Nat
    BY <1>17, StoreFacts, MonusNat, RecordUpdate DEF Deduct, StorePCs
  <2>2. rec = GetRecord(cur) /\ rec' = r /\ cur' = cur /\ NoneHeld /\ UNCHANGED held
    BY <1>17 DEF Deduct, FreshInv, StorePCs
  <2>3. GetRecord(cur)' = r
    <3>1. CASE out[cur] > 0
      BY <1>0, <1>17, <2>1, <2>2, <3>1, UpdateRecordReads DEF Deduct
    <3>2. CASE ~(out[cur] > 0)
      <4>1. r = rec
        BY <2>1, <3>2 DEF Monus, AccountRecord
      <4>2. UNCHANGED <<balance, shares>>
        BY <1>17, <3>2 DEF Deduct
      <4> QED
        BY <2>2, <4>1, <4>2 DEF GetRecord
    <3> QED
      BY <3>1, <3>2
  <2> QED
    BY <2>2, <2>3 DEF FreshInv
<1> QED
  BY <1>4, <1>5, <1>6, <1>7, <1>8, <1>9, <1>10, <1>11, <1>12, <1>14, <1>15, <1>16, <1>17,
     <1>t DEF Next

\* The arithmetic of one account: x is its balance, p what it was paid, e what it earned.
LEMMA Owed ==
    ASSUME NEW x \in Nat, NEW p \in Int, NEW e \in Int, NEW d \in Nat, x + p >= e
    PROVE  /\ (x + d) + p >= e + d
           /\ Monus(x, d) + (p + d) >= e
           /\ Monus(x, d) + p >= e - d
           /\ (x + d) + (p - d) >= e
BY DEF Monus

\* Every step of the ledger keeps the debt covered.
LEMMA ShortStep ==
    ASSUME Quiet, TypeOK, LocalInv, FreshInv, NeverShortchanged, [Next]_vars
    PROVE  NeverShortchanged'
<1>0. /\ AccountTypes /\ held \in [Conns -> SUBSET Holding]
      /\ balance \in [Accounts -> Nat]
      /\ earned \in [Accounts -> Int] /\ paid \in [Accounts -> Int]
  BY DEF TypeOK, AccountTypes, HistoryTypes
<1>1. CASE UNCHANGED <<balance, paid, earned>>
  BY <1>1 DEF NeverShortchanged
<1>2. ASSUME NEW a \in Accounts, NEW r \in AccountRecord, UpdateRecord(a, r),
             paid' \in [Accounts -> Int], earned' \in [Accounts -> Int],
             \A b \in Accounts \ {a} : paid'[b] = paid[b] /\ earned'[b] = earned[b],
             r.balance + paid'[a] >= earned'[a]
      PROVE  NeverShortchanged'
  <2>1. balance'[a] = r.balance /\ \A b \in Accounts \ {a} : balance'[b] = balance[b]
    BY <1>0, <1>2, UpdateRecordReads
  <2> QED
    BY <1>2, <2>1 DEF NeverShortchanged
<1>3. ASSUME dpc \in StorePCs
      PROVE  /\ cur \in Accounts /\ rec \in AccountRecord /\ rec.balance \in Nat
             /\ rec.balance + paid[cur] >= earned[cur]
             /\ paid[cur] \in Int /\ earned[cur] \in Int
  <2>1. cur \in Accounts /\ rec = GetRecord(cur) /\ rec \in AccountRecord /\ rec.balance \in Nat
    BY <1>3, StoreFacts DEF FreshInv
  <2>2. rec.balance = balance[cur]
    BY <2>1 DEF GetRecord
  <2> QED
    BY <1>0, <2>1, <2>2 DEF NeverShortchanged
<1>4. ASSUME NEW c \in Conns, ShareStore(c) PROVE NeverShortchanged'
  <2>1. PICK t \in held[c] : UpdateRecord(t.account, [t.record EXCEPT !.shares = @ + 1])
    BY <1>4 DEF ShareStore
  <2>2. t \in Holding /\ t.record \in AccountRecord /\ t.account \in Accounts
    BY <1>0 DEF Holding
  <2>3. /\ [t.record EXCEPT !.shares = @ + 1] \in AccountRecord
        /\ [t.record EXCEPT !.shares = @ + 1].balance = t.record.balance
    BY <2>2 DEF AccountRecord
  <2>4. t.record.balance = balance[t.account]
    BY <2>1 DEF FreshInv
  <2>5. UNCHANGED <<paid, earned>>
    BY <1>4 DEF ShareStore, historyVars
  <2> QED
    BY <1>0, <1>2, <2>1, <2>2, <2>3, <2>4, <2>5 DEF NeverShortchanged
<1>5. ASSUME NEW d \in Nat, dpc \in StorePCs, UpdateRecord(cur, [rec EXCEPT !.balance = @ + d]),
             earned' = [earned EXCEPT ![cur] = @ + d], UNCHANGED paid
      PROVE  NeverShortchanged'
  <2> DEFINE r == [rec EXCEPT !.balance = @ + d]
  <2>1. r \in AccountRecord /\ r.balance = rec.balance + d
    BY <1>3, <1>5, RecordUpdate DEF AccountRecord
  <2>2. /\ earned'[cur] = earned[cur] + d /\ paid'[cur] = paid[cur]
        /\ earned' \in [Accounts -> Int] /\ paid' \in [Accounts -> Int]
        /\ \A b \in Accounts \ {cur} : paid'[b] = paid[b] /\ earned'[b] = earned[b]
    BY <1>0, <1>3, <1>5, LedgerUpdate
  <2>3. r.balance + paid'[cur] >= earned'[cur]
    BY <1>3, <1>5, <2>1, <2>2
  <2> QED
    BY <1>2, <1>3, <1>5, <2>1, <2>2, <2>3
<1>6. CASE BonusStore
  <2>1. Bonus \in Nat
    BY BonusNat DEF TypeOK, LocalTypes
  <2> QED
    BY <1>5, <1>6, <2>1 DEF BonusStore, Credited, StorePCs
<1>7. CASE Credit
  <2>1. PICK c \in CreditOf(rec.shares, weight, left) :
            UpdateRecord(cur, [rec EXCEPT !.balance = @ + c]) /\ Credited(cur, cur, c)
    BY <1>7 DEF Credit
  <2>2. c \in Nat
    BY <1>7, <2>1, StoreFacts, CreditNat DEF Credit, StorePCs
  <2> QED
    BY <1>5, <1>7, <2>1, <2>2 DEF Credit, Credited, StorePCs
<1>8. CASE RestStore
  <2>1. left - total \in Nat
    BY <1>8, StoreFacts DEF RestStore, StorePCs, LocalInv
  <2> QED
    BY <1>5, <1>8, <2>1 DEF RestStore, StorePCs
<1>9. CASE Deduct
  <2> DEFINE r == [rec EXCEPT !.balance = Monus(@, out[cur])]
  <2>1. dpc \in StorePCs /\ out[cur] \in Nat
    BY <1>9, StoreFacts DEF Deduct, StorePCs
  <2>2. /\ r \in AccountRecord /\ r.balance = Monus(rec.balance, out[cur])
    BY <1>3, <2>1, MonusNat, RecordUpdate DEF AccountRecord
  <2>3. /\ paid'[cur] = paid[cur] + out[cur] /\ earned' = earned
        /\ paid' \in [Accounts -> Int]
        /\ \A b \in Accounts \ {cur} : paid'[b] = paid[b]
    BY <1>0, <1>3, <1>9, <2>1, LedgerUpdate DEF Deduct
  <2>4. r.balance + paid'[cur] >= earned'[cur]
    BY <1>3, <2>1, <2>2, <2>3, Owed
  <2>5. CASE out[cur] > 0
    BY <1>0, <1>2, <1>3, <1>9, <2>1, <2>2, <2>3, <2>4, <2>5 DEF Deduct
  <2>6. CASE ~(out[cur] > 0)
    <3>1. out[cur] = 0 /\ UNCHANGED balance
      BY <1>9, <2>1, <2>6 DEF Deduct
    <3>2. \A b \in Accounts : paid'[b] = paid[b]
      BY <1>0, <1>3, <2>1, <2>3, <3>1
    <3> QED
      BY <2>3, <3>1, <3>2 DEF NeverShortchanged
  <2> QED
    BY <2>5, <2>6
<1>10. CASE ClearStore
  <2>1. [rec EXCEPT !.shares = 0] \in AccountRecord /\ [rec EXCEPT !.shares = 0].balance = rec.balance
    BY <1>3, <1>10 DEF ClearStore, StorePCs, AccountRecord
  <2> QED
    BY <1>0, <1>2, <1>3, <1>10, <2>1 DEF ClearStore, StorePCs, historyVars
<1>11. CASE TakeStore
  <2> DEFINE r == [rec EXCEPT !.balance = Monus(@, blk.credits[cur])]
  <2>1. dpc \in StorePCs /\ blk.credits[cur] \in Nat
    BY <1>11, StoreFacts DEF TakeStore, StorePCs
  <2>2. r \in AccountRecord /\ r.balance = Monus(rec.balance, blk.credits[cur])
    BY <1>3, <2>1, MonusNat, RecordUpdate DEF AccountRecord
  <2>3. /\ earned'[cur] = earned[cur] - blk.credits[cur] /\ paid' = paid
        /\ earned' \in [Accounts -> Int]
        /\ \A b \in Accounts \ {cur} : earned'[b] = earned[b]
    BY <1>0, <1>3, <1>11, <2>1, LedgerUpdate DEF TakeStore
  <2>4. r.balance + paid'[cur] >= earned'[cur]
    BY <1>3, <2>1, <2>2, <2>3, Owed
  <2> QED
    BY <1>0, <1>2, <1>3, <1>11, <2>1, <2>2, <2>3, <2>4 DEF TakeStore
<1>12. CASE GiveStore
  <2> DEFINE r == [rec EXCEPT !.balance = @ + blk.outputs[cur]]
  <2>1. dpc \in StorePCs /\ blk.outputs[cur] \in Nat
    BY <1>12, StoreFacts DEF GiveStore, StorePCs
  <2>2. r \in AccountRecord /\ r.balance = rec.balance + blk.outputs[cur]
    BY <1>3, <2>1, RecordUpdate DEF AccountRecord
  <2>3. /\ paid'[cur] = paid[cur] - blk.outputs[cur] /\ earned' = earned
        /\ paid' \in [Accounts -> Int]
        /\ \A b \in Accounts \ {cur} : paid'[b] = paid[b]
    BY <1>0, <1>3, <1>12, <2>1, LedgerUpdate DEF GiveStore
  <2>4. r.balance + paid'[cur] >= earned'[cur]
    BY <1>3, <2>1, <2>2, <2>3, Owed
  <2> QED
    BY <1>0, <1>2, <1>3, <1>12, <2>1, <2>2, <2>3, <2>4 DEF GiveStore
<1>13. ASSUME NEW a \in Accounts, AddPayout(a) \/ Weigh(a) PROVE NeverShortchanged'
  BY <1>1, <1>13 DEF AddPayout, Weigh, acctVars, historyVars
<1>s. ASSUME NEW c \in Conns, NEW a \in Accounts, ShareLoad(c, a) PROVE NeverShortchanged'
  BY <1>1, <1>s DEF ShareLoad, historyVars
<1>14. ASSUME NEW r \in Rewards, BlockReward(r) PROVE NeverShortchanged'
  BY <1>1, <1>14 DEF BlockReward, acctVars
<1>15. CASE NewBlock \/ FinishCoinbase \/ CoinbaseSet \/ Loads \/ SkipRest \/ Commit
  BY <1>1, <1>15 DEF NewBlock, FinishCoinbase, CoinbaseSet, Loads, LoadNext, Load, SkipRest, Commit,
     acctVars, historyVars
<1>16. CASE OrphanTimer \/ EndTake \/ EndRefund \/ UNCHANGED vars
  BY <1>1, <1>16 DEF OrphanTimer, EndTake, EndRefund, vars, acctVars, historyVars
<1>17. ASSUME NEW h \in Hashes, NEW f \in Accounts, SubmitBlock(h, f) PROVE NeverShortchanged'
  BY <1>1, <1>17 DEF SubmitBlock, acctVars
<1>t. CASE BlockTimer \/ NameFinder
  BY <1>1, <1>t DEF BlockTimer, NameFinder, acctVars, historyVars, localVars
<1>18. ASSUME NEW h \in Hashes, Good(h) \/ Fail(h) \/ GoodBlock(h) \/ Orphan(h)
       PROVE NeverShortchanged'
  BY <1>1, <1>18 DEF Good, Fail, GoodBlock, Orphan, acctVars, historyVars
<1> QED
  BY <1>4, <1>6, <1>7, <1>8, <1>9, <1>10, <1>11, <1>12, <1>13, <1>14, <1>15, <1>16, <1>17, <1>18,
     <1>s, <1>t DEF Next

\* As long as no share is credited while the daemon's handler runs, what an account has
\* been paid and is owed covers what it has earned, through every sequence of blocks,
\* payouts (also of one coinbase twice) and orphans: the saturating subtractions of
\* update_balances and refund_payouts only ever favour the miner.
THEOREM Covered == ASSUME Quiet = TRUE PROVE Spec => []NeverShortchanged
<1>1. Init => FreshInv /\ NeverShortchanged
  BY DEF Init, FreshInv, NeverShortchanged, StorePCs, Zero
<1>2. TypeOK /\ LocalInv /\ FreshInv /\ [Next]_vars => FreshInv'
  BY FreshStep
<1>3. TypeOK /\ LocalInv /\ FreshInv /\ NeverShortchanged /\ [Next]_vars => NeverShortchanged'
  BY ShortStep
<1> QED
  BY TypeCorrect, <1>1, <1>2, <1>3, PTL DEF Spec
=============================================================================
