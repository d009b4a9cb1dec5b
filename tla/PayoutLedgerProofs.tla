------------------------- MODULE PayoutLedgerProofs --------------------------
(***************************************************************************)
(* What the ledger of PayoutManager adds up to: the coinbase is complete,  *)
(* the books balance exactly as long as nothing goes wrong, and the        *)
(* credits of a round never exceed its reward.  For any accounts, rewards, *)
(* fee and size of a machine word.                                         *)
(***************************************************************************)
EXTENDS PayoutManagerProofs, TallyProofs

-----------------------------------------------------------------------------
(* The coinbase *)

\* While it is built the coinbase never holds more than its maximum, which fits a word.
CoinbaseInv ==
    /\ coinbase.max < Word
    /\ coinbase.current <= coinbase.max
    /\ dpc # "build" => coinbase.current = coinbase.max

\* A remainder is smaller than the word.
LEMMA BelowWord == \A x \in Int : x % Word \in Nat /\ x % Word < Word
BY WordAssumption

\* A number that fits a word is its own remainder.
LEMMA FitsWord == \A x \in Nat : x < Word => x % Word = x
BY WordAssumption

\* AddTransaction adds a value to the coinbase only if the sum, as the machine computes
\* it, stays within the maximum.
LEMMA AddTransactionBound ==
    ASSUME coinbase \in [max : Nat, fee : Nat, current : Nat],
           coinbase.current <= coinbase.max, NEW a, NEW v \in Nat, AddTransaction(a, v)
    PROVE  coinbase'.max = coinbase.max /\ coinbase'.current <= coinbase.max
<1>1. CASE (v + coinbase.current) % Word > coinbase.max
  BY <1>1 DEF AddTransaction
<1>2. CASE ~((v + coinbase.current) % Word > coinbase.max)
  <2>1. v + coinbase.current = coinbase.current + v /\ v + coinbase.current \in Int
    OBVIOUS
  <2>2. (coinbase.current + v) % Word \in Nat
    BY <2>1, BelowWord
  <2>3. (coinbase.current + v) % Word <= coinbase.max
    BY <1>2, <2>1, <2>2
  <2>4. coinbase' = [coinbase EXCEPT !.current = (coinbase.current + v) % Word]
    BY <1>2 DEF AddTransaction
  <2> QED
    BY <2>3, <2>4
<1> QED
  BY <1>1, <1>2

\* Every step keeps CoinbaseInv.
LEMMA CoinbaseStep ==
    ASSUME TypeOK, LocalInv, CoinbaseInv, [Next]_vars
    PROVE  CoinbaseInv'
<1>0. coinbase \in [max : Nat, fee : Nat, current : Nat] /\ Word \in Nat
  BY WordAssumption DEF TypeOK, DataTypes
<1>1. CASE UNCHANGED coinbase /\ (dpc = "build" => dpc' = "build")
  BY <1>1 DEF CoinbaseInv
<1>2. ASSUME NEW r \in Rewards, BlockReward(r) PROVE CoinbaseInv'
  <2>1. CASE round > 1 /\ pending
    <3> DEFINE f == (r * PoolFee) % Word
               m == Minus(r, f)
    <3>1. r \in Nat /\ r * PoolFee \in Int
      BY RewardsAssumption, FeeAssumption
    <3>2. f \in Nat
      BY <3>1, BelowWord
    <3>3. coinbase' = [max |-> m, fee |-> f, current |-> 0] /\ dpc' = "build"
      BY <1>2, <2>1, Zenon DEF BlockReward
    <3> HIDE DEF f
    <3>4. m \in Nat /\ m < Word
      BY <3>1, <3>2, BelowWord DEF Minus
    <3> HIDE DEF m
    <3> QED
      BY <3>3, <3>4 DEF CoinbaseInv
  <2>2. CASE ~(round > 1 /\ pending)
    BY <1>1, <1>2, <2>2 DEF BlockReward
  <2> QED
    BY <2>1, <2>2
<1>3. ASSUME NEW a \in Accounts, AddPayout(a) PROVE CoinbaseInv'
  <2>1. dpc' = "build" /\ balance[a] \in Nat
    BY <1>3 DEF AddPayout, TypeOK, AccountTypes
  <2>2. coinbase'.max = coinbase.max /\ coinbase'.current <= coinbase.max
    BY <1>0, <1>3, <2>1, AddTransactionBound DEF AddPayout, CoinbaseInv
  <2> QED
    BY <2>1, <2>2 DEF CoinbaseInv
<1>4. CASE FinishCoinbase
  <2>1. CASE coinbase.current = coinbase.max
    BY <1>4, <2>1 DEF FinishCoinbase, CoinbaseInv
  <2>2. CASE coinbase.current # coinbase.max
    <3> DEFINE v == coinbase.max - coinbase.current
    <3>1. v \in Nat /\ v < Word /\ v + coinbase.current = coinbase.max
          /\ coinbase.current + v = coinbase.max /\ coinbase.max < Word /\ coinbase.max \in Nat
      BY <1>0 DEF CoinbaseInv
    <3>2. Minus(coinbase.max, coinbase.current) = v
      BY <3>1, FitsWord DEF Minus
    <3>3. (v + coinbase.current) % Word = coinbase.max /\ (coinbase.current + v) % Word = coinbase.max
      BY <3>1, FitsWord
    <3> HIDE DEF v
    <3>4. AddTransaction(finder, v)
      BY <1>4, <2>2, <3>2 DEF FinishCoinbase
    <3>5. ~((v + coinbase.current) % Word > coinbase.max)
      BY <3>1, <3>3
    <3>6. coinbase' = [coinbase EXCEPT !.current = coinbase.max]
      BY <3>3, <3>4, <3>5 DEF AddTransaction
    <3> QED
      BY <1>0, <3>1, <3>6 DEF CoinbaseInv
  <2> QED
    BY <2>1, <2>2
<1>5. ASSUME NEW a \in Accounts, Weigh(a) PROVE CoinbaseInv'
  BY <1>1, <1>5 DEF Weigh, dataVars
<1>s. CASE \E c \in Conns : ShareStore(c) \/ \E a \in Accounts : ShareLoad(c, a)
  BY <1>1, <1>s DEF ShareLoad, ShareStore, dataVars
<1>6. CASE NewBlock \/ CoinbaseSet \/ OrphanTimer \/ UNCHANGED vars
  BY <1>1, <1>6 DEF NewBlock, CoinbaseSet, OrphanTimer, vars, dataVars
<1>7. ASSUME NEW h \in Hashes, NEW f \in Accounts, SubmitBlock(h, f) PROVE CoinbaseInv'
  BY <1>1, <1>7 DEF SubmitBlock
<1>t. CASE BlockTimer \/ NameFinder
  BY <1>1, <1>t DEF BlockTimer, NameFinder, historyVars, localVars
<1>8. ASSUME NEW h \in Hashes, Good(h) \/ Fail(h) \/ GoodBlock(h) \/ Orphan(h) PROVE CoinbaseInv'
  BY <1>1, <1>8 DEF Good, Fail, GoodBlock, Orphan, Answer, DaemonIdle
<1>9. CASE Loads
  BY <1>1, <1>9 DEF Loads, LoadNext, Load, dataVars
<1>10. CASE BonusStore \/ Deduct \/ Credit \/ SkipRest \/ RestStore \/ Commit \/ ClearStore
  BY <1>1, <1>10 DEF BonusStore, Deduct, Credit, SkipRest, RestStore, Commit, ClearStore, dataVars
<1>11. CASE TakeStore \/ EndTake \/ GiveStore \/ EndRefund
  BY <1>1, <1>11 DEF TakeStore, EndTake, GiveStore, EndRefund, dataVars
<1> QED
  BY <1>2, <1>3, <1>4, <1>5, <1>6, <1>7, <1>8, <1>9, <1>10, <1>11, <1>s, <1>t DEF Next

\* Whatever the balances, also when their sum exceeds a machine word, and whoever the
\* last block finder is: the coinbase that BLOCK_REWARD builds and sends to the wallet
\* pays out exactly its maximum.
THEOREM CoinbaseFilled == Spec => []CoinbaseComplete
<1>1. Init => CoinbaseInv
  BY WordAssumption DEF Init, CoinbaseInv
<1>2. TypeOK /\ LocalInv /\ CoinbaseInv /\ [Next]_vars => CoinbaseInv'
  BY CoinbaseStep
<1>3. CoinbaseInv => CoinbaseComplete
  BY DEF CoinbaseInv, CoinbaseComplete
<1> QED
  BY TypeCorrect, <1>1, <1>2, <1>3, PTL DEF Spec

-----------------------------------------------------------------------------
(* What a store does while the miners are quiet *)

\* The record in hand is that of the database, so storing it with another balance changes
\* this balance only.
LEMMA StoreBalance ==
    ASSUME TypeOK, LocalInv, FreshInv, dpc \in StorePCs, NEW n \in Nat,
           UpdateRecord(cur, [rec EXCEPT !.balance = n])
    PROVE  balance' = [balance EXCEPT ![cur] = n] /\ shares' = shares
<1>1. cur \in Accounts /\ rec = GetRecord(cur) /\ rec \in AccountRecord
  BY StoreFacts DEF FreshInv
<1>2. shares \in [Accounts -> Nat]
  BY DEF TypeOK, AccountTypes
<1>3. [rec EXCEPT !.balance = n].balance = n /\ [rec EXCEPT !.balance = n].shares = shares[cur]
  BY <1>1 DEF GetRecord, AccountRecord
<1> QED
  BY <1>1, <1>2, <1>3 DEF UpdateRecord

\* Adding to the balance in hand adds to the balance in the database.
LEMMA StoreSum ==
    ASSUME TypeOK, LocalInv, FreshInv, dpc \in StorePCs, NEW d \in Nat,
           UpdateRecord(cur, [rec EXCEPT !.balance = @ + d])
    PROVE  balance' = [balance EXCEPT ![cur] = @ + d] /\ shares' = shares
<1>1. cur \in Accounts /\ rec = GetRecord(cur) /\ rec.balance \in Nat
  BY StoreFacts DEF FreshInv
<1>2. rec.balance = balance[cur]
  BY <1>1 DEF GetRecord
<1>3. rec.balance + d \in Nat
  BY <1>1
<1>4. UpdateRecord(cur, [rec EXCEPT !.balance = rec.balance + d])
  OBVIOUS
<1>5. balance' = [balance EXCEPT ![cur] = rec.balance + d] /\ shares' = shares
  BY <1>3, <1>4, StoreBalance
<1> QED
  BY <1>2, <1>5

\* Storing the record in hand with other shares leaves the balances alone.
LEMMA StoreShares ==
    ASSUME TypeOK, LocalInv, FreshInv, dpc \in StorePCs, NEW n \in Nat,
           UpdateRecord(cur, [rec EXCEPT !.shares = n])
    PROVE  balance' = balance
<1>1. cur \in Accounts /\ rec = GetRecord(cur) /\ rec \in AccountRecord
  BY StoreFacts DEF FreshInv
<1>2. [rec EXCEPT !.shares = n].balance = balance[cur]
  BY <1>1 DEF GetRecord, AccountRecord
<1>3. balance \in [Accounts -> Nat]
  BY DEF TypeOK, AccountTypes
<1> QED
  BY <1>1, <1>2, <1>3 DEF UpdateRecord

\* So does a share handler, which runs when the daemon's does not.
LEMMA ShareStoreBalance ==
    ASSUME TypeOK, FreshInv, NEW c \in Conns, ShareStore(c)
    PROVE  balance' = balance /\ dpc = "idle"
<1>1. PICK t \in held[c] : UpdateRecord(t.account, [t.record EXCEPT !.shares = @ + 1])
  BY DEF ShareStore
<1>2. /\ t \in Holding /\ t.record \in AccountRecord /\ t.account \in Accounts
      /\ t.record.balance = balance[t.account] /\ balance \in [Accounts -> Nat]
  BY <1>1 DEF FreshInv, TypeOK, AccountTypes, Holding
<1>3. [t.record EXCEPT !.shares = @ + 1].balance = balance[t.account]
  BY <1>2 DEF AccountRecord
<1> QED
  BY <1>1, <1>2, <1>3 DEF UpdateRecord, FreshInv

\* What the three steps of update_balances that add to a balance have in common.
LEMMA Added ==
    ASSUME TypeOK, LocalInv, FreshInv, BonusStore \/ Credit \/ RestStore
    PROVE  \E d \in Nat : /\ balance' = [balance EXCEPT ![cur] = @ + d]
                          /\ earned' = [earned EXCEPT ![cur] = @ + d]
                          /\ shares' = shares
<1>1. CASE BonusStore
  <2>1. Bonus \in Nat
    BY BonusNat DEF TypeOK, LocalTypes
  <2> QED
    BY <1>1, <2>1, StoreSum DEF BonusStore, Credited, StorePCs
<1>2. CASE Credit
  <2>1. PICK c \in CreditOf(rec.shares, weight, left) :
            UpdateRecord(cur, [rec EXCEPT !.balance = @ + c]) /\ Credited(cur, cur, c)
    BY <1>2 DEF Credit
  <2>2. c \in Nat
    BY <1>2, <2>1, StoreFacts, CreditNat DEF Credit, StorePCs
  <2> QED
    BY <1>2, <2>1, <2>2, StoreSum DEF Credit, Credited, StorePCs
<1>3. CASE RestStore
  <2>1. left - total \in Nat
    BY <1>3, StoreFacts DEF RestStore, StorePCs, LocalInv
  <2> QED
    BY <1>3, <2>1, StoreSum DEF RestStore, StorePCs
<1> QED
  BY <1>1, <1>2, <1>3

-----------------------------------------------------------------------------
(* The books balance *)

\* The payout of account a in the current coinbase has not been deducted yet.
Unpaid(a) ==
    \/ ~used
    \/ dpc \in {"bonus", "bonusStore", "weigh"}
    \/ dpc \in {"account", "deduct", "credit"} /\ a \in todo
    \/ dpc = "deduct" /\ a = cur

\* Where the handler stands, and what that says about the coinbase.
PlaceInv ==
    /\ finder # NoOne => finder \in finders
    /\ dpc \in GoodPCs \cup {"clear", "clearStore"} => used
    /\ dpc = "build" => ~used /\ \A a \in todo : out[a] = 0
    /\ dpc \in RefundPCs => ~clean
    /\ dpc \in {"deduct", "credit"} => cur \notin todo

\* As long as nothing has gone wrong, a balance covers the payout it will be charged,
\* except that of a block finder, who also gets what the coinbase has left.
PayableInv == clean => \A a \in Accounts \ finders : Unpaid(a) => out[a] <= balance[a]

\* AddTransaction adds to the output of one account.
LEMMA AddTransactionOutput ==
    ASSUME out \in [Accounts -> Nat], NEW a, NEW v \in Nat, AddTransaction(a, v)
    PROVE  \A b \in Accounts : out'[b] = out[b] \/ (b = a /\ out'[b] = out[b] + v)
BY DEF AddTransaction

\* Every step keeps PlaceInv.
LEMMA PlaceStep ==
    ASSUME TypeOK, LocalInv, PlaceInv, [Next]_vars
    PROVE  PlaceInv'
<1>0. out \in [Accounts -> Nat] /\ todo \subseteq Accounts /\ dpc \in DaemonPCs
  BY DEF TypeOK, DataTypes, LocalTypes
<1> USE DEF GoodPCs, RefundPCs
<1>1. CASE UNCHANGED <<finder, finders, dpc, used, todo, out, clean, cur>>
  BY <1>1 DEF PlaceInv
<1>2. ASSUME NEW r \in Rewards, BlockReward(r) PROVE PlaceInv'
  BY <1>2 DEF BlockReward, DaemonIdle, PlaceInv, blockVars, Zero
<1>3. ASSUME NEW a \in Accounts, AddPayout(a) PROVE PlaceInv'
  <2>1. \A b \in todo \ {a} : out'[b] = out[b]
    <3>1. CASE balance[a] > 0
      <4>1. balance[a] \in Nat /\ AddTransaction(a, balance[a])
        BY <1>3, <3>1 DEF AddPayout, TypeOK, AccountTypes
      <4> QED
        BY <1>0, <4>1, AddTransactionOutput
    <3>2. CASE ~(balance[a] > 0)
      BY <1>3, <3>2 DEF AddPayout
    <3> QED
      BY <3>1, <3>2
  <2> QED
    BY <1>3, <2>1 DEF AddPayout, PlaceInv, blockVars, historyVars
<1>4. CASE FinishCoinbase
  BY <1>4 DEF FinishCoinbase, PlaceInv, blockVars, historyVars
<1>5. ASSUME NEW h \in Hashes, NEW f \in Accounts, SubmitBlock(h, f) PROVE PlaceInv'
  BY <1>5 DEF SubmitBlock, PlaceInv, localVars
<1>t. CASE BlockTimer \/ NameFinder
  BY <1>t DEF BlockTimer, NameFinder, PlaceInv, localVars, historyVars
<1>6. ASSUME NEW h \in Hashes, Good(h) PROVE PlaceInv'
  BY <1>6 DEF Good, DaemonIdle, PlaceInv
<1>7. ASSUME NEW h \in Hashes, Fail(h) \/ GoodBlock(h) PROVE PlaceInv'
  BY <1>1, <1>7 DEF Fail, GoodBlock, blockVars, localVars, historyVars
<1>8. ASSUME NEW h \in Hashes, Orphan(h) PROVE PlaceInv'
  BY <1>8 DEF Orphan, Answer, DaemonIdle, PlaceInv, blockVars
<1>9. CASE Loads
  BY <1>0, <1>9 DEF Loads, LoadNext, Load, PlaceInv, dataVars, blockVars, historyVars
<1>10. CASE \E c \in Conns : ShareStore(c) \/ \E a \in Accounts : ShareLoad(c, a)
  BY <1>1, <1>10 DEF ShareLoad, ShareStore, dataVars, blockVars, localVars, historyVars
<1>11. ASSUME NEW a \in Accounts, Weigh(a) PROVE PlaceInv'
  BY <1>11 DEF Weigh, PlaceInv, dataVars, blockVars, historyVars
<1>12. CASE NewBlock \/ CoinbaseSet \/ OrphanTimer \/ UNCHANGED vars
  BY <1>1, <1>12 DEF NewBlock, CoinbaseSet, OrphanTimer, vars, dataVars, blockVars, localVars,
     historyVars
<1>13. CASE BonusStore \/ SkipRest \/ RestStore \/ Commit
  BY <1>13 DEF BonusStore, SkipRest, RestStore, Commit, PlaceInv, dataVars, blockVars, localVars,
     historyVars
<1>14. CASE Deduct \/ Credit
  BY <1>14 DEF Deduct, Credit, NextAccount, PlaceInv, dataVars, blockVars
<1>15. CASE ClearStore
  BY <1>15 DEF ClearStore, Leave, PlaceInv, blockVars, localVars, historyVars
<1>16. CASE TakeStore \/ EndTake \/ GiveStore
  BY <1>16 DEF TakeStore, EndTake, GiveStore, PlaceInv, dataVars, blockVars, localVars, historyVars
<1>17. CASE EndRefund
  BY <1>17 DEF EndRefund, Leave, PlaceInv, blockVars
<1> QED
  BY <1>2, <1>3, <1>4, <1>5, <1>6, <1>7, <1>8, <1>9, <1>10, <1>11, <1>12, <1>13, <1>14, <1>15,
     <1>16, <1>17, <1>t DEF Next

\* Every step keeps PayableInv.
LEMMA PayableStep ==
    ASSUME Quiet, TypeOK, LocalInv, FreshInv, PlaceInv, PayableInv, [Next]_vars
    PROVE  PayableInv'
<1>0. /\ out \in [Accounts -> Nat] /\ balance \in [Accounts -> Nat]
      /\ todo \subseteq Accounts /\ dpc \in DaemonPCs
  BY DEF TypeOK, DataTypes, LocalTypes, AccountTypes
<1> DEFINE Kept == finders \subseteq finders' /\ (clean' => clean) /\ UNCHANGED out
           NoneNew == \A a \in Accounts : Unpaid(a)' => Unpaid(a)
<1>1. ASSUME Kept, NoneNew, \A a \in Accounts : balance'[a] \in Nat /\ balance'[a] >= balance[a]
      PROVE  PayableInv'
  BY <1>0, <1>1 DEF PayableInv
<1>2. ASSUME Kept, NoneNew, UNCHANGED balance PROVE PayableInv'
  BY <1>0, <1>1, <1>2
<1>3. ASSUME ~clean' PROVE PayableInv'
  BY <1>3 DEF PayableInv
<1>4. ASSUME NEW r \in Rewards, BlockReward(r) PROVE PayableInv'
  <2>1. CASE round > 1 /\ pending
    <3>1. out' = Zero /\ UNCHANGED balance
      BY <1>4, <2>1 DEF BlockReward, acctVars
    <3> QED
      BY <1>0, <3>1 DEF PayableInv, Zero
  <2>2. CASE ~(round > 1 /\ pending)
    BY <1>2, <1>4, <2>2 DEF BlockReward, acctVars, Unpaid
  <2> QED
    BY <2>1, <2>2
<1>5. ASSUME NEW a \in Accounts, AddPayout(a) PROVE PayableInv'
  <2>1. \A b \in Accounts : out'[b] = out[b] \/ (b = a /\ out'[b] = out[b] + balance[a])
    <3>1. CASE balance[a] > 0
      BY <1>0, <1>5, <3>1, AddTransactionOutput DEF AddPayout
    <3>2. CASE ~(balance[a] > 0)
      BY <1>5, <3>2 DEF AddPayout
    <3> QED
      BY <3>1, <3>2
  <2>2. out[a] = 0 /\ ~used
    BY <1>5 DEF AddPayout, PlaceInv
  <2>3. UNCHANGED <<balance, finders, clean>>
    BY <1>5 DEF AddPayout, acctVars, historyVars
  <2> QED
    BY <1>0, <2>1, <2>2, <2>3 DEF PayableInv, Unpaid
<1>6. CASE FinishCoinbase
  <2>1. dpc = "build" /\ ~used /\ UNCHANGED <<balance, finders, clean>>
    BY <1>6 DEF FinishCoinbase, acctVars, historyVars, PlaceInv
  <2>2. \A b \in Accounts \ finders : out'[b] = out[b]
    <3>1. CASE coinbase.current # coinbase.max
      <4>1. Minus(coinbase.max, coinbase.current) \in Nat
        BY WordNat DEF TypeOK, DataTypes
      <4>2. AddTransaction(finder, Minus(coinbase.max, coinbase.current))
        BY <1>6, <3>1 DEF FinishCoinbase
      <4>3. \A b \in Accounts : out'[b] = out[b] \/ b = finder
        BY <1>0, <4>1, <4>2, AddTransactionOutput
      <4> QED
        BY <4>3, AccountsAssumption DEF PlaceInv
    <3>2. CASE coinbase.current = coinbase.max
      BY <1>6, <3>2 DEF FinishCoinbase
    <3> QED
      BY <3>1, <3>2
  <2> QED
    BY <2>1, <2>2 DEF PayableInv, Unpaid
<1>7. ASSUME NEW h \in Hashes, NEW f \in Accounts, SubmitBlock(h, f) PROVE PayableInv'
  BY <1>2, <1>7 DEF SubmitBlock, acctVars, localVars, Unpaid
<1>t. CASE BlockTimer \/ NameFinder
  BY <1>2, <1>t DEF BlockTimer, NameFinder, acctVars, localVars, Unpaid, historyVars
<1>8. ASSUME NEW h \in Hashes, Good(h) PROVE PayableInv'
  <2>1. UNCHANGED <<out, balance, finders>> /\ clean' = (clean /\ (used => out = Zero))
    BY <1>8 DEF Good, acctVars
  <2>2. CASE out = Zero
    BY <1>0, <2>1, <2>2 DEF PayableInv, Zero
  <2>3. CASE ~used
    BY <2>1, <2>3 DEF PayableInv, Unpaid
  <2>4. CASE used /\ out # Zero
    BY <1>3, <2>1, <2>4
  <2> QED
    BY <2>2, <2>3, <2>4
<1>9. ASSUME NEW h \in Hashes, Fail(h) \/ GoodBlock(h) PROVE PayableInv'
  BY <1>2, <1>9 DEF Fail, GoodBlock, acctVars, blockVars, localVars, historyVars, Unpaid
<1>10. ASSUME NEW h \in Hashes, Orphan(h) PROVE PayableInv'
  BY <1>3, <1>10 DEF Orphan
<1>11. CASE Loads
  <2>1. NoneNew
    BY <1>11 DEF Loads, LoadNext, Load, Unpaid, historyVars
  <2> QED
    BY <1>2, <1>11, <2>1 DEF Loads, LoadNext, Load, acctVars, dataVars, historyVars
<1>12. ASSUME NEW c \in Conns, NEW a \in Accounts, ShareLoad(c, a) PROVE PayableInv'
  BY <1>2, <1>12 DEF ShareLoad, dataVars, localVars, historyVars, Unpaid
<1>13. ASSUME NEW c \in Conns, ShareStore(c) PROVE PayableInv'
  BY <1>2, <1>13, ShareStoreBalance DEF ShareStore, dataVars, localVars, historyVars, Unpaid
<1>14. ASSUME NEW a \in Accounts, Weigh(a) PROVE PayableInv'
  <2>1. NoneNew
    BY <1>14 DEF Weigh, historyVars, Unpaid
  <2> QED
    BY <1>2, <1>14, <2>1 DEF Weigh, acctVars, dataVars, historyVars
<1>15. CASE BonusStore \/ Credit \/ RestStore
  <2>1. PICK d \in Nat : balance' = [balance EXCEPT ![cur] = @ + d]
    BY <1>15, Added
  <2>2. \A a \in Accounts : balance'[a] \in Nat /\ balance'[a] >= balance[a]
    BY <1>0, <2>1
  <2>3. Kept
    BY <1>15 DEF BonusStore, Credit, RestStore, dataVars
  <2>4. NoneNew
    BY <1>15 DEF BonusStore, Credit, RestStore, NextAccount, localVars, Unpaid
  <2> QED
    BY <1>1, <2>2, <2>3, <2>4
<1>16. CASE Deduct
  <2>1. dpc \in StorePCs /\ cur \in Accounts /\ cur \notin todo
        /\ rec.balance \in Nat /\ out[cur] \in Nat
    BY <1>16, StoreFacts DEF Deduct, StorePCs, PlaceInv
  <2>2. \A a \in Accounts \ {cur} : balance'[a] = balance[a]
    <3>1. CASE out[cur] > 0
      <4>1. Monus(rec.balance, out[cur]) \in Nat
        BY <2>1, MonusNat
      <4>2. UpdateRecord(cur, [rec EXCEPT !.balance = Monus(rec.balance, out[cur])])
        BY <1>16, <3>1 DEF Deduct
      <4> QED
        BY <1>0, <2>1, <4>1, <4>2, StoreBalance
    <3>2. CASE ~(out[cur] > 0)
      BY <1>16, <3>2 DEF Deduct
    <3> QED
      BY <3>1, <3>2
  <2>3. \A a \in Accounts : Unpaid(a)' => Unpaid(a) /\ a # cur
    BY <1>16, <2>1 DEF Deduct, NextAccount, Unpaid, PlaceInv, GoodPCs
  <2>4. Kept
    BY <1>16 DEF Deduct, dataVars
  <2> QED
    BY <1>0, <2>2, <2>3, <2>4 DEF PayableInv
<1>17. CASE NewBlock \/ CoinbaseSet \/ OrphanTimer \/ UNCHANGED vars
  BY <1>2, <1>17 DEF NewBlock, CoinbaseSet, OrphanTimer, vars, acctVars, dataVars, localVars,
     historyVars, Unpaid
<1>18. CASE SkipRest \/ Commit
  <2>1. NoneNew
    BY <1>18 DEF SkipRest, Commit, localVars, historyVars, Unpaid
  <2> QED
    BY <1>2, <1>18, <2>1 DEF SkipRest, Commit, acctVars, dataVars, historyVars
<1>19. CASE ClearStore
  <2>1. UNCHANGED balance
    BY <1>19, StoreShares DEF ClearStore, StorePCs
  <2>2. NoneNew
    BY <1>19 DEF ClearStore, Leave, historyVars, Unpaid
  <2> QED
    BY <1>2, <1>19, <2>1, <2>2 DEF ClearStore, historyVars
<1>20. CASE TakeStore \/ EndTake \/ GiveStore \/ EndRefund
  BY <1>3, <1>20 DEF TakeStore, EndTake, GiveStore, EndRefund, historyVars, PlaceInv, RefundPCs
<1> QED
  BY <1>4, <1>5, <1>6, <1>7, <1>8, <1>9, <1>10, <1>11, <1>12, <1>13, <1>14, <1>15, <1>16, <1>17,
     <1>18, <1>19, <1>20, <1>t DEF Next

\* Every step keeps the books balanced.
LEMMA ExactStep ==
    ASSUME Quiet, TypeOK, LocalInv, FreshInv, PlaceInv, PayableInv, ExactLedger, [Next]_vars
    PROVE  ExactLedger'
<1>0. /\ balance \in [Accounts -> Nat] /\ out \in [Accounts -> Nat]
      /\ earned \in [Accounts -> Int] /\ paid \in [Accounts -> Int]
  BY DEF TypeOK, DataTypes, AccountTypes, HistoryTypes
<1> DEFINE Kept == finders \subseteq finders' /\ (clean' => clean)
<1>1. ASSUME Kept, UNCHANGED <<balance, paid, earned>> PROVE ExactLedger'
  BY <1>1 DEF ExactLedger
<1>2. ASSUME ~clean' PROVE ExactLedger'
  BY <1>2 DEF ExactLedger
<1>3. CASE BonusStore \/ Credit \/ RestStore
  <2>1. PICK d \in Nat : /\ balance' = [balance EXCEPT ![cur] = @ + d]
                         /\ earned' = [earned EXCEPT ![cur] = @ + d]
    BY <1>3, Added
  <2>2. UNCHANGED <<paid, finders, clean>>
    BY <1>3 DEF BonusStore, Credit, RestStore
  <2> QED
    BY <1>0, <2>1, <2>2 DEF ExactLedger
<1>4. CASE Deduct
  <2>1. dpc \in StorePCs /\ cur \in Accounts /\ rec.balance \in Nat /\ out[cur] \in Nat
    BY <1>4, StoreFacts DEF Deduct, StorePCs
  <2>2. /\ paid' = [paid EXCEPT ![cur] = @ + out[cur]]
        /\ UNCHANGED <<earned, finders, clean>>
    BY <1>4 DEF Deduct
  <2>3. rec.balance = balance[cur]
    BY <2>1 DEF FreshInv, GetRecord
  <2>4. clean /\ cur \notin finders => out[cur] <= balance[cur]
    BY <1>4, <2>1 DEF PayableInv, Unpaid, Deduct
  <2>5. CASE out[cur] > 0
    <3>1. Monus(rec.balance, out[cur]) \in Nat
      BY <2>1, MonusNat
    <3>2. UpdateRecord(cur, [rec EXCEPT !.balance = Monus(rec.balance, out[cur])])
      BY <1>4, <2>5 DEF Deduct
    <3>3. balance' = [balance EXCEPT ![cur] = Monus(rec.balance, out[cur])]
      BY <2>1, <3>1, <3>2, StoreBalance
    <3>4. clean /\ cur \notin finders => Monus(rec.balance, out[cur]) = balance[cur] - out[cur]
      BY <1>0, <2>1, <2>3, <2>4 DEF Monus
    <3> QED
      BY <1>0, <2>1, <2>2, <3>3, <3>4 DEF ExactLedger
  <2>6. CASE ~(out[cur] > 0)
    <3>1. out[cur] = 0 /\ UNCHANGED balance
      BY <1>4, <2>1, <2>6 DEF Deduct
    <3> QED
      BY <1>0, <2>1, <2>2, <3>1 DEF ExactLedger
  <2> QED
    BY <2>5, <2>6
<1>5. CASE ClearStore
  <2>1. UNCHANGED balance
    BY <1>5, StoreShares DEF ClearStore, StorePCs
  <2> QED
    BY <1>1, <1>5, <2>1 DEF ClearStore, historyVars
<1>6. ASSUME NEW c \in Conns, ShareStore(c) PROVE ExactLedger'
  BY <1>1, <1>6, ShareStoreBalance DEF ShareStore, historyVars
<1>7. CASE TakeStore \/ EndTake \/ GiveStore \/ EndRefund
  BY <1>2, <1>7 DEF TakeStore, EndTake, GiveStore, EndRefund, historyVars, PlaceInv, RefundPCs
<1>8. ASSUME NEW h \in Hashes, Orphan(h) PROVE ExactLedger'
  BY <1>2, <1>8 DEF Orphan
<1>9. ASSUME NEW a \in Accounts, AddPayout(a) \/ Weigh(a) PROVE ExactLedger'
  BY <1>1, <1>9 DEF AddPayout, Weigh, acctVars, historyVars
<1>s. ASSUME NEW c \in Conns, NEW a \in Accounts, ShareLoad(c, a) PROVE ExactLedger'
  BY <1>1, <1>s DEF ShareLoad, historyVars
<1>10. ASSUME NEW r \in Rewards, BlockReward(r) PROVE ExactLedger'
  BY <1>1, <1>10 DEF BlockReward, acctVars
<1>11. ASSUME NEW h \in Hashes, NEW f \in Accounts, SubmitBlock(h, f) PROVE ExactLedger'
  BY <1>1, <1>11 DEF SubmitBlock, acctVars
<1>t. CASE BlockTimer \/ NameFinder
  BY <1>1, <1>t DEF BlockTimer, NameFinder, acctVars, historyVars, localVars
<1>12. ASSUME NEW h \in Hashes, Good(h) \/ Fail(h) \/ GoodBlock(h) PROVE ExactLedger'
  BY <1>1, <1>12 DEF Good, Fail, GoodBlock, acctVars, historyVars
<1>13. CASE NewBlock \/ FinishCoinbase \/ CoinbaseSet \/ OrphanTimer \/ UNCHANGED vars
  BY <1>1, <1>13 DEF NewBlock, FinishCoinbase, CoinbaseSet, OrphanTimer, vars, acctVars, historyVars
<1>14. CASE Loads \/ SkipRest \/ Commit
  BY <1>1, <1>14 DEF Loads, LoadNext, Load, SkipRest, Commit, acctVars, historyVars
<1> QED
  BY <1>3, <1>4, <1>5, <1>6, <1>7, <1>8, <1>9, <1>10, <1>11, <1>12, <1>13, <1>14, <1>s, <1>t DEF Next

\* The handler's records are those of the database, in every state.
LEMMA AlwaysFresh == ASSUME Quiet = TRUE PROVE Spec => []FreshInv
<1>1. Init => FreshInv
  BY DEF Init, FreshInv, StorePCs
<1>2. TypeOK /\ LocalInv /\ FreshInv /\ [Next]_vars => FreshInv'
  BY FreshStep
<1> QED
  BY TypeCorrect, <1>1, <1>2, PTL DEF Spec

\* As long as no block has been orphaned, no coinbase has been paid out by two blocks, and
\* no share is credited while the daemon's handler runs, the balance of every account that
\* has never found a block is what it has earned less what it has been paid, to the unit:
\* update_balances never charges it for a payout its balance does not cover.
THEOREM BooksBalance == ASSUME Quiet = TRUE PROVE Spec => []ExactLedger
<1>1. Init => PlaceInv /\ PayableInv /\ ExactLedger
  BY DEF Init, PlaceInv, PayableInv, ExactLedger, GoodPCs, RefundPCs, Zero
<1>2. TypeOK /\ LocalInv /\ PlaceInv /\ [Next]_vars => PlaceInv'
  BY PlaceStep
<1>3. TypeOK /\ LocalInv /\ FreshInv /\ PlaceInv /\ PayableInv /\ [Next]_vars => PayableInv'
  BY PayableStep
<1>4. TypeOK /\ LocalInv /\ FreshInv /\ PlaceInv /\ PayableInv /\ ExactLedger /\ [Next]_vars
      => ExactLedger'
  BY ExactStep
<1> QED
  BY TypeCorrect, AlwaysFresh, <1>1, <1>2, <1>3, <1>4, PTL DEF Spec
-----------------------------------------------------------------------------
(* The credits of a round *)

CreditPCs == {"account", "deduct", "credit", "rest"}

\* The accounts whose credit of the round is in nTotalReward.
Handled == Accounts \ (todo \cup (IF dpc \in {"deduct", "credit"} THEN {cur} ELSE {}))

\* Both sides of the bound on the credits, scaled with the precision of the quotient.
Scaled == weight * Precision
Most == left * (Precision + 1)

\* They are natural numbers.
LEMMA ScaledNat ==
    ASSUME TypeOK
    PROVE  Scaled \in Nat /\ Most \in Nat /\ Precision \in Nat \ {0}
BY WordAssumption DEF TypeOK, LocalTypes, Scaled, Most

\* nTotalWeight is the number of shares of the accounts visited so far, in the end of all
\* accounts, and the credits given are at most their part of the reward.
WeightInv ==
    /\ dpc \in {"bonus", "bonusStore"} => weight = 0 /\ total = 0
    /\ dpc = "weigh" => /\ IsFiniteSet(Units(shares, Accounts \ todo))
                        /\ weight = SumOf(shares, Accounts \ todo)
                        /\ total = 0
    /\ dpc \in CreditPCs => /\ IsFiniteSet(Units(shares, Accounts))
                            /\ weight = SumOf(shares, Accounts)
                            /\ total * Scaled <= Most * SumOf(shares, Handled)
                            /\ weight = 0 => total = 0
    /\ dpc = "credit" => rec.shares # 0

\* A quotient is rounded down.
LEMMA DivBound == \A p \in Nat, w \in Nat \ {0} : (p \div w) * w <= p
OBVIOUS

\* Arithmetic without division.
LEMMA LessTimes == \A x, y, w \in Nat : x <= y => x * w <= y * w /\ w * x <= w * y
OBVIOUS

\* The quotient exceeds the account's part of the reward by the relative error at most.
LEMMA QuotientBound ==
    ASSUME NEW s \in Nat, NEW w \in Nat \ {0}, NEW r \in Nat, NEW q \in Quotients(s, w, r)
    PROVE  q * (w * Precision) <= (r * (Precision + 1)) * s
<1> DEFINE d == w * Precision
           p == s * r * (Precision + 1)
<1>1. Precision \in Nat \ {0}
  BY WordAssumption
<1>2. d \in Nat \ {0} /\ p \in Nat /\ p = (r * (Precision + 1)) * s
  BY <1>1
<1>3. q \in Nat
  BY QuotientNat
<1>4. CASE s = w /\ r < Precision
  <2>1. q = r
    BY <1>4 DEF Quotients
  <2>2. (r * (Precision + 1)) * w = r * (w * Precision) + r * w
    BY <1>1
  <2>3. r * w \in Nat /\ r * (w * Precision) \in Nat
    BY <1>1
  <2> QED
    BY <1>4, <2>1, <2>2, <2>3
<1>5. CASE ~(s = w /\ r < Precision)
  <2>1. q \in (s * r * (Precision - 1)) \div (w * Precision) .. p \div d
    BY <1>5 DEF Quotients
  <2> HIDE DEF p, d
  <2>2. p \div d \in Nat /\ (p \div d) * d <= p
    BY <1>2, DivNat, DivBound
  <2>3. q <= p \div d
    BY <2>1
  <2>4. q * d <= (p \div d) * d /\ q * d \in Nat /\ (p \div d) * d \in Nat
    BY <1>2, <1>3, <2>2, <2>3, LessTimes
  <2>5. q * d <= p
    BY <1>2, <2>2, <2>4
  <2> QED
    BY <1>2, <2>5 DEF d
<1> QED
  BY <1>4, <1>5

\* So does the credit, which the conversion to uint32_t makes smaller if anything.
LEMMA CreditBound ==
    ASSUME NEW s \in Nat, NEW w \in Nat \ {0}, NEW r \in Nat, NEW c \in CreditOf(s, w, r)
    PROVE  c * (w * Precision) <= (r * (Precision + 1)) * s
<1> DEFINE d == w * Precision
           p == (r * (Precision + 1)) * s
<1>1. Precision \in Nat \ {0} /\ CreditWord \in Nat \ {0}
  BY WordAssumption
<1>2. d \in Nat \ {0} /\ p \in Nat
  BY <1>1
<1>3. PICK q \in Quotients(s, w, r) :
          c \in IF q < CreditWord THEN {q} ELSE Overflows
  BY DEF CreditOf
<1>4. q \in Nat /\ q * d <= p
  BY QuotientNat, QuotientBound
<1>5. c \in Nat /\ c <= q
  BY <1>1, <1>3, <1>4, OverflowAssumption
<1> HIDE DEF p, d
<1>6. c * d <= q * d /\ c * d \in Nat /\ q * d \in Nat
  BY <1>2, <1>4, <1>5, LessTimes
<1>7. c * d <= p
  BY <1>2, <1>4, <1>6
<1> QED
  BY <1>7 DEF d, p

\* One more credit.
LEMMA CreditMore ==
    ASSUME NEW t \in Nat, NEW c \in Nat, NEW w \in Nat, NEW r \in Nat, NEW p \in Nat, NEW s \in Nat,
           t * w <= r * p, c * w <= r * s
    PROVE  (t + c) * w <= r * (p + s)
<1>1. (t + c) * w = t * w + c * w /\ r * (p + s) = r * p + r * s
  OBVIOUS
<1>2. t * w \in Nat /\ c * w \in Nat /\ r * p \in Nat /\ r * s \in Nat
  OBVIOUS
<1> QED
  BY <1>1, <1>2

\* Credits within their part of the reward, up to the relative error, are within a reward
\* that the precision resolves.
LEMMA WithinPart ==
    ASSUME NEW t \in Nat, NEW w \in Nat \ {0}, NEW r \in Nat, NEW p \in Nat, NEW e \in Nat \ {0},
           r < e, p <= w, t * (w * e) <= (r * (e + 1)) * p
    PROVE  t <= r
<1> DEFINE d == w * e
           m == r * (e + 1)
<1>1. d \in Nat /\ m \in Nat /\ t * d \in Nat /\ m * p \in Nat /\ m * w \in Nat
  OBVIOUS
<1>2. m * w = r * d + r * w /\ r * d \in Nat /\ r * w \in Nat
  OBVIOUS
<1>3. d = w * e /\ r * w < d
  <2>1. (r + 1) * w <= e * w /\ (r + 1) * w = r * w + w /\ e * w = d
    BY LessTimes
  <2> QED
    BY <1>1, <1>2, <2>1
<1>4. t * d <= m * p
  OBVIOUS
<1> HIDE DEF d, m
<1>5. m * p <= m * w
  BY <1>1, LessTimes
<1>6. ASSUME t >= r + 1 PROVE FALSE
  <2>1. (r + 1) * d <= t * d
    BY <1>1, <1>6, LessTimes
  <2>2. (r + 1) * d = r * d + d
    BY <1>1
  <2> QED
    BY <1>1, <1>2, <1>3, <1>4, <1>5, <2>1, <2>2
<1> QED
  BY <1>6

\* While the miners are quiet no step of the handler before clear_shares changes the shares.
LEMMA SameShares ==
    ASSUME Quiet, TypeOK, LocalInv, FreshInv, [Next]_vars,
           dpc \in CreditPCs \cup {"bonus", "bonusStore", "weigh"}
    PROVE  shares' = shares
<1> USE DEF CreditPCs
<1>1. CASE BonusStore \/ Credit \/ RestStore
  BY <1>1, Added
<1>2. CASE Deduct
  <2>1. dpc \in StorePCs /\ rec.balance \in Nat /\ out[cur] \in Nat
    BY <1>2, StoreFacts DEF Deduct, StorePCs
  <2>2. CASE out[cur] > 0
    <3>1. Monus(rec.balance, out[cur]) \in Nat
      BY <2>1, MonusNat
    <3>2. UpdateRecord(cur, [rec EXCEPT !.balance = Monus(rec.balance, out[cur])])
      BY <1>2, <2>2 DEF Deduct
    <3> QED
      BY <2>1, <3>1, <3>2, StoreBalance
  <2> QED
    BY <1>2, <2>2 DEF Deduct
<1>3. ASSUME NEW c \in Conns, ShareStore(c) PROVE shares' = shares
  BY <1>3, ShareStoreBalance
<1>4. ASSUME NEW a \in Accounts, AddPayout(a) \/ Weigh(a) PROVE shares' = shares
  BY <1>4 DEF AddPayout, Weigh, acctVars
<1>s. ASSUME NEW c \in Conns, NEW a \in Accounts, ShareLoad(c, a) PROVE shares' = shares
  BY <1>s DEF ShareLoad
<1>5. ASSUME NEW r \in Rewards, BlockReward(r) PROVE shares' = shares
  BY <1>5 DEF BlockReward, acctVars
<1>6. ASSUME NEW h \in Hashes, NEW f \in Accounts, SubmitBlock(h, f) PROVE shares' = shares
  BY <1>6 DEF SubmitBlock, acctVars
<1>t. CASE BlockTimer \/ NameFinder
  BY <1>t DEF BlockTimer, NameFinder, acctVars, historyVars, localVars
<1>7. ASSUME NEW h \in Hashes, Good(h) \/ Fail(h) \/ GoodBlock(h) \/ Orphan(h) PROVE shares' = shares
  BY <1>7 DEF Good, Fail, GoodBlock, Orphan, acctVars
<1>8. CASE NewBlock \/ FinishCoinbase \/ CoinbaseSet \/ OrphanTimer \/ UNCHANGED vars
  BY <1>8 DEF NewBlock, FinishCoinbase, CoinbaseSet, OrphanTimer, vars, acctVars
<1>9. CASE Loads \/ SkipRest \/ Commit \/ EndTake \/ EndRefund
  BY <1>9 DEF Loads, LoadNext, Load, SkipRest, Commit, EndTake, EndRefund, acctVars
<1>10. CASE ClearStore \/ TakeStore \/ GiveStore
  BY <1>10 DEF ClearStore, TakeStore, GiveStore
<1> QED
  BY <1>1, <1>2, <1>3, <1>4, <1>5, <1>6, <1>7, <1>8, <1>9, <1>10, <1>s, <1>t DEF Next

\* The part of the accounts handled so far is a part of the weight.
LEMMA HandledPart ==
    ASSUME TypeOK, WeightInv, dpc \in CreditPCs, NEW S \in SUBSET Accounts
    PROVE  IsFiniteSet(Units(shares, S)) /\ SumOf(shares, S) \in Nat /\ SumOf(shares, S) <= weight
<1>1. IsFiniteSet(Units(shares, Accounts)) /\ weight = SumOf(shares, Accounts)
  BY DEF WeightInv
<1>2. IsFiniteSet(Units(shares, S)) /\ SumOf(shares, S) <= SumOf(shares, Accounts)
  BY <1>1, SumSubset
<1> QED
  BY <1>1, <1>2, SumNat

\* Weighing one more account.
LEMMA WeighStep ==
    ASSUME TypeOK, WeightInv, NEW a \in Accounts, Weigh(a)
    PROVE  WeightInv'
<1>1. /\ a \in todo /\ weight' = weight + shares[a] /\ UNCHANGED <<shares, total, left, rec>>
      /\ dpc = "weigh"
  BY DEF Weigh, acctVars
<1>2. /\ IsFiniteSet(Units(shares, Accounts \ todo)) /\ weight = SumOf(shares, Accounts \ todo)
      /\ total = 0
  BY <1>1 DEF WeightInv
<1>3. a \notin Accounts \ todo /\ shares[a] \in Nat
  BY <1>1 DEF TypeOK, AccountTypes
<1> DEFINE S == (Accounts \ todo) \cup {a}
<1>4. IsFiniteSet(Units(shares, S)) /\ SumOf(shares, S) = weight'
  BY <1>1, <1>2, <1>3, SumAdd
<1>5. CASE todo = {a}
  <2>1. S = Accounts /\ dpc' = "account" /\ todo' = Accounts
    BY <1>5 DEF Weigh
  <2>2. Handled' = {}
    BY <2>1 DEF Handled
  <2>3. SumOf(shares, {}) = 0 /\ total = 0 /\ left \in Nat /\ weight' \in Nat
    BY <1>2, <1>3, <1>4, SumEmpty, SumNat DEF TypeOK, LocalTypes
  <2>4. total' * Scaled' <= Most' * SumOf(shares', Handled')
    <3>1. Scaled' \in Nat /\ Most' \in Nat
      BY <1>1, <2>3, WordAssumption DEF Scaled, Most
    <3> QED
      BY <1>1, <2>2, <2>3, <3>1
  <2> QED
    BY <1>1, <1>4, <2>1, <2>3, <2>4 DEF WeightInv, CreditPCs
<1>6. CASE todo # {a}
  <2>1. S = Accounts \ todo' /\ dpc' = "weigh"
    BY <1>1, <1>6 DEF Weigh
  <2> QED
    BY <1>1, <1>2, <1>4, <2>1 DEF WeightInv, CreditPCs
<1> QED
  BY <1>5, <1>6

\* The deduction: an account without shares has no credit to wait for.
LEMMA DeductWeight ==
    ASSUME Quiet, TypeOK, LocalInv, FreshInv, WeightInv, Deduct
    PROVE  WeightInv'
<1>1. dpc = "deduct" /\ UNCHANGED <<todo, cur, left, weight, total>>
  BY DEF Deduct
<1>2. shares' = shares
  BY <1>1, SameShares DEF CreditPCs, Next
<1>3. dpc' \in {"credit", "account", "rest"} /\ (dpc' = "credit" => rec.shares # 0)
  BY DEF Deduct, NextAccount
<1>4. rec' = [rec EXCEPT !.balance = Monus(@, out[cur])] /\ rec \in AccountRecord
  BY DEF Deduct, TypeOK, LocalTypes
<1>5. rec'.shares = rec.shares
  BY <1>4 DEF AccountRecord
<1>6. Handled \in SUBSET Handled' /\ Handled' \in SUBSET Accounts /\ Handled \in SUBSET Accounts
  BY <1>1 DEF Handled
<1>7. /\ IsFiniteSet(Units(shares, Accounts)) /\ weight = SumOf(shares, Accounts)
      /\ total * Scaled <= Most * SumOf(shares, Handled) /\ (weight = 0 => total = 0)
  BY <1>1 DEF WeightInv, CreditPCs
<1>8. /\ SumOf(shares, Handled) \in Nat /\ SumOf(shares, Handled') \in Nat
      /\ SumOf(shares, Handled) <= SumOf(shares, Handled')
  BY <1>1, <1>6, HandledPart, SumSubset DEF CreditPCs
<1>9. Most \in Nat /\ total \in Nat /\ Scaled \in Nat /\ Most' = Most /\ Scaled' = Scaled
  BY <1>1, ScaledNat DEF TypeOK, LocalTypes, Most, Scaled
<1>10. Most * SumOf(shares, Handled) <= Most * SumOf(shares, Handled')
  BY <1>8, <1>9, LessTimes
<1>11. total * Scaled \in Nat /\ Most * SumOf(shares, Handled) \in Nat
       /\ Most * SumOf(shares, Handled') \in Nat
  BY <1>8, <1>9
<1>12. total * Scaled <= Most * SumOf(shares, Handled')
  BY <1>7, <1>10, <1>11
<1> QED
  BY <1>1, <1>2, <1>3, <1>5, <1>7, <1>9, <1>12 DEF WeightInv, CreditPCs

\* The credit: at most the account's part of the reward.
LEMMA CreditWeight ==
    ASSUME Quiet, TypeOK, LocalInv, FreshInv, PlaceInv, WeightInv, Credit
    PROVE  WeightInv'
<1>1. PICK c \in CreditOf(rec.shares, weight, left) : total' = total + c
  BY DEF Credit
<1>2. dpc = "credit" /\ UNCHANGED <<todo, cur, left, weight>> /\ dpc' \in {"account", "rest"}
  BY DEF Credit, NextAccount
<1>3. shares' = shares
  BY <1>2, SameShares DEF CreditPCs, Next
<1>4. cur \in Accounts /\ rec.shares \in Nat /\ left \in Nat /\ weight \in Nat /\ total \in Nat
  BY <1>2, StoreFacts DEF StorePCs
<1>5. rec.shares = shares[cur] /\ rec.shares # 0 /\ cur \notin todo
  BY <1>2 DEF FreshInv, GetRecord, StorePCs, WeightInv, PlaceInv
<1>6. /\ IsFiniteSet(Units(shares, Accounts)) /\ weight = SumOf(shares, Accounts)
      /\ total * Scaled <= Most * SumOf(shares, Handled)
  BY <1>2 DEF WeightInv, CreditPCs
<1>7. cur \notin Handled /\ Handled' = Handled \cup {cur} /\ Handled \in SUBSET Accounts
  BY <1>2, <1>4, <1>5 DEF Handled
<1>8. IsFiniteSet(Units(shares, Handled)) /\ SumOf(shares, Handled) \in Nat
  BY <1>2, <1>7, HandledPart DEF CreditPCs
<1>9. SumOf(shares, Handled') = SumOf(shares, Handled) + rec.shares
  BY <1>4, <1>5, <1>7, <1>8, SumAdd
<1>10. SumOf(shares, {cur}) = rec.shares /\ SumOf(shares, {cur}) <= weight
  BY <1>2, <1>4, <1>5, SumSingle, HandledPart DEF CreditPCs
<1>11. weight # 0
  BY <1>4, <1>5, <1>10
<1>12. c \in Nat /\ c * Scaled <= Most * rec.shares
  BY <1>1, <1>4, <1>11, CreditNat, CreditBound DEF Scaled, Most
<1>s. Scaled \in Nat /\ Most \in Nat /\ Scaled' = Scaled /\ Most' = Most
  BY <1>2, ScaledNat DEF Scaled, Most
<1>13. (total + c) * Scaled <= Most * (SumOf(shares, Handled) + rec.shares)
  BY <1>4, <1>6, <1>8, <1>12, <1>s, CreditMore
<1>14. total' * Scaled' <= Most' * SumOf(shares', Handled')
  BY <1>1, <1>3, <1>9, <1>13, <1>s
<1> QED
  BY <1>2, <1>3, <1>6, <1>11, <1>14 DEF WeightInv, CreditPCs

\* Every step keeps WeightInv.
LEMMA WeightStep ==
    ASSUME Quiet, TypeOK, LocalInv, FreshInv, PlaceInv, WeightInv, [Next]_vars
    PROVE  WeightInv'
<1> USE DEF CreditPCs
<1> DEFINE Busy == CreditPCs \cup {"bonus", "bonusStore", "weigh"}
<1>1. ASSUME dpc' \notin Busy PROVE WeightInv'
  BY <1>1 DEF WeightInv
<1>2. CASE UNCHANGED <<dpc, todo, cur, rec, left, weight, total>>
  <2>1. CASE dpc \in Busy
    <3>1. shares' = shares
      BY <2>1, SameShares
    <3> QED
      BY <1>2, <3>1 DEF WeightInv, Handled, Scaled, Most
  <2> QED
    BY <1>1, <1>2, <2>1
<1>3. CASE Loads
  <2>1. CASE Load("bonus", "bonusStore", finder) /\ UNCHANGED todo
    BY <2>1 DEF Load, WeightInv
  <2>2. CASE LoadNext("account", "deduct")
    <3>1. PICK a \in todo : Load("account", "deduct", a) /\ todo' = todo \ {a}
      BY <2>2 DEF LoadNext
    <3>2. Handled' = Handled
      BY <3>1 DEF Handled, Load
    <3>3. UNCHANGED <<shares, left, weight, total>> /\ dpc = "account" /\ dpc' = "deduct"
      BY <3>1 DEF Load, acctVars
    <3> QED
      BY <3>2, <3>3 DEF WeightInv, Scaled, Most
  <2> QED
    BY <1>1, <1>3, <2>1, <2>2 DEF Loads, LoadNext, Load
<1>4. CASE BonusStore
  <2>1. weight = 0 /\ total = 0 /\ UNCHANGED <<weight, total>> /\ dpc' = "weigh" /\ todo' = Accounts
    BY <1>4 DEF BonusStore, WeightInv
  <2>2. Accounts \ todo' = {}
    BY <2>1
  <2> QED
    BY <2>1, <2>2, SumEmpty DEF WeightInv
<1>5. CASE Deduct
  BY <1>5, DeductWeight
<1>6. CASE Credit
  BY <1>6, CreditWeight
<1>7. ASSUME NEW a \in Accounts, Weigh(a) PROVE WeightInv'
  BY <1>7, WeighStep
<1>8. ASSUME NEW h \in Hashes, Good(h) PROVE WeightInv'
  BY <1>8 DEF Good, WeightInv
<1>9. CASE \E c \in Conns : ShareStore(c) \/ \E a \in Accounts : ShareLoad(c, a)
  BY <1>2, <1>9 DEF ShareLoad, ShareStore, localVars
<1>10. ASSUME NEW h \in Hashes, NEW f \in Accounts, SubmitBlock(h, f) PROVE WeightInv'
  BY <1>2, <1>10 DEF SubmitBlock, localVars
<1>t. CASE BlockTimer \/ NameFinder
  BY <1>2, <1>t DEF BlockTimer, NameFinder, localVars, historyVars
<1>11. CASE OrphanTimer \/ NewBlock \/ CoinbaseSet \/ UNCHANGED vars
  BY <1>2, <1>11 DEF OrphanTimer, NewBlock, CoinbaseSet, vars, localVars
<1>12. ASSUME NEW h \in Hashes, Fail(h) \/ GoodBlock(h) \/ Orphan(h) PROVE WeightInv'
  BY <1>1, <1>12 DEF Fail, GoodBlock, Orphan, Answer, DaemonIdle, localVars
<1>13. ASSUME NEW r \in Rewards, BlockReward(r) PROVE WeightInv'
  BY <1>1, <1>13 DEF BlockReward, DaemonIdle
<1>14. ASSUME NEW a \in Accounts, AddPayout(a) PROVE WeightInv'
  BY <1>1, <1>14 DEF AddPayout
<1>15. CASE FinishCoinbase \/ SkipRest \/ RestStore \/ Commit \/ ClearStore
  BY <1>1, <1>15 DEF FinishCoinbase, SkipRest, RestStore, Commit, ClearStore, Leave
<1>16. CASE TakeStore \/ EndTake \/ GiveStore \/ EndRefund
  BY <1>1, <1>16 DEF TakeStore, EndTake, GiveStore, EndRefund, Leave
<1> QED
  BY <1>3, <1>4, <1>5, <1>6, <1>7, <1>8, <1>9, <1>10, <1>11, <1>12, <1>13, <1>14, <1>15, <1>16, <1>t DEF Next

\* For any number of accounts and any shares, and although every credit is a product of
\* doubles that may be rounded down or up across an integer, cut off on its own, and
\* converted to uint32_t: as long as the reward is smaller than the precision of the
\* product (2^50 and more in the code, where a reward is about 2^26) and no share is
\* credited during the handler, update_balances never gives more than the reward away.
THEOREM RewardSuffices == ASSUME Quiet = TRUE PROVE Spec => []CreditsWithinReward
<1>1. Init => PlaceInv /\ WeightInv
  BY DEF Init, PlaceInv, WeightInv, GoodPCs, RefundPCs, CreditPCs, Zero
<1>2. TypeOK /\ LocalInv /\ PlaceInv /\ [Next]_vars => PlaceInv'
  BY PlaceStep
<1>3. TypeOK /\ LocalInv /\ FreshInv /\ PlaceInv /\ WeightInv /\ [Next]_vars => WeightInv'
  BY WeightStep
<1>4. TypeOK /\ WeightInv => CreditsWithinReward
  <2> SUFFICES ASSUME TypeOK, WeightInv, dpc \in CreditPCs, left < Precision PROVE total <= left
    BY DEF CreditsWithinReward, CreditPCs
  <2>1. /\ total * Scaled <= Most * SumOf(shares, Handled) /\ (weight = 0 => total = 0)
        /\ total \in Nat /\ left \in Nat /\ weight \in Nat /\ Precision \in Nat \ {0}
    BY ScaledNat DEF WeightInv, TypeOK, LocalTypes
  <2>2. SumOf(shares, Handled) \in Nat /\ SumOf(shares, Handled) <= weight
    BY HandledPart DEF Handled
  <2> QED
    BY <2>1, <2>2, WithinPart DEF Scaled, Most
<1> QED
  BY TypeCorrect, AlwaysFresh, <1>1, <1>2, <1>3, <1>4, PTL DEF Spec

-----------------------------------------------------------------------------
(* The ledger implements PayoutRounds *)

\* How far the loops are: the account at hand is not in the rest of the loop, the loop of
\* update_balances is over when the remainder is paid, and the loops of refund_payouts
\* visit the accounts of the record.
LoopInv ==
    /\ dpc \in {"clearStore", "takeStore", "giveStore"} => cur \notin todo
    /\ dpc \in {"rest", "restStore", "commit"} => todo = {}
    /\ dpc \in {"take", "takeStore"} => todo \subseteq Credits
    /\ dpc = "takeStore" => cur \in Credits
    /\ dpc \in {"give", "giveStore"} => todo \subseteq Payouts
    /\ dpc = "giveStore" => cur \in Payouts

\* No account has, or is about to get, more shares than were found for it in the round.
GrantInv ==
    /\ \A a \in Accounts : shares[a] <= granted[a]
    /\ \A c \in Conns : \A t \in held[c] : t.record.shares < granted[t.account]

\* Every step keeps LoopInv.
LEMMA LoopStep ==
    ASSUME TypeOK, LoopInv, [Next]_vars
    PROVE  LoopInv'
<1>0. todo \subseteq Accounts /\ dpc \in DaemonPCs
  BY DEF TypeOK, LocalTypes
<1>1. CASE UNCHANGED <<dpc, todo, cur, blk>>
  BY <1>1 DEF LoopInv, Credits, Payouts
<1> DEFINE LoopPCs == {"rest", "restStore", "commit", "clearStore", "take", "takeStore", "give",
                       "giveStore"}
<1>2. ASSUME dpc' \notin LoopPCs PROVE LoopInv'
  BY <1>2 DEF LoopInv
<1>3. CASE Loads
  <2>1. Credits' = Credits /\ Payouts' = Payouts
    BY <1>3 DEF Loads, LoadNext, Load, Credits, Payouts
  <2> QED
    BY <1>0, <1>3, <2>1 DEF Loads, LoadNext, Load, LoopInv
<1>4. CASE Deduct \/ Credit
  BY <1>4 DEF Deduct, Credit, NextAccount, LoopInv
<1>5. CASE SkipRest \/ RestStore
  BY <1>5 DEF SkipRest, RestStore, LoopInv, localVars
<1>6. CASE TakeStore \/ GiveStore
  BY <1>6 DEF TakeStore, GiveStore, LoopInv, localVars, Credits, Payouts
<1>7. CASE EndTake
  BY <1>7 DEF EndTake, LoopInv, Payouts
<1>8. ASSUME NEW h \in Hashes, Orphan(h) PROVE LoopInv'
  <2>1. CASE db[h].value = 0
    BY <1>2, <1>8, <2>1 DEF Orphan, Answer, DaemonIdle
  <2>2. CASE db[h].value > 0
    <3>1. dpc' = "take" /\ blk' = [db[h] EXCEPT !.value = 0] /\ db[h] \in BlockRecord
          /\ todo' = {a \in Accounts : db[h].credits[a] > 0}
      BY <1>8, <2>2 DEF Orphan, TypeOK, DataTypes
    <3>2. blk'.credits = db[h].credits
      BY <3>1 DEF BlockRecord
    <3> QED
      BY <3>1, <3>2 DEF LoopInv, Credits
  <2>3. db[h].value \in Nat
    BY DEF TypeOK, DataTypes, BlockRecord
  <2> QED
    BY <2>1, <2>2, <2>3
<1>9. CASE \E c \in Conns : ShareStore(c) \/ \E a \in Accounts : ShareLoad(c, a)
  BY <1>1, <1>9 DEF ShareLoad, ShareStore, localVars
<1>10. ASSUME NEW a \in Accounts, AddPayout(a) \/ Weigh(a) PROVE LoopInv'
  BY <1>2, <1>10 DEF AddPayout, Weigh
<1>11. ASSUME NEW r \in Rewards, BlockReward(r) PROVE LoopInv'
  BY <1>2, <1>11 DEF BlockReward, DaemonIdle
<1>12. ASSUME NEW h \in Hashes, NEW f \in Accounts, SubmitBlock(h, f) PROVE LoopInv'
  BY <1>1, <1>12 DEF SubmitBlock, localVars
<1>t. CASE BlockTimer \/ NameFinder
  BY <1>1, <1>t DEF BlockTimer, NameFinder, localVars, historyVars
<1>13. ASSUME NEW h \in Hashes, Good(h) \/ Fail(h) \/ GoodBlock(h) PROVE LoopInv'
  BY <1>2, <1>13 DEF Good, Fail, GoodBlock, Answer, DaemonIdle
<1>14. CASE NewBlock \/ CoinbaseSet \/ OrphanTimer \/ UNCHANGED vars
  BY <1>1, <1>14 DEF NewBlock, CoinbaseSet, OrphanTimer, vars, localVars
<1>15. CASE FinishCoinbase \/ BonusStore \/ Commit \/ ClearStore \/ EndRefund
  BY <1>2, <1>15 DEF FinishCoinbase, BonusStore, Commit, ClearStore, EndRefund, Leave
<1> QED
  BY <1>3, <1>4, <1>5, <1>6, <1>7, <1>8, <1>9, <1>10, <1>11, <1>12, <1>13, <1>14, <1>15, <1>t DEF Next

\* Stage and Done at each place of the handler.
LEMMA Mapping ==
    /\ dpc \in {"idle", "build"} => Stage = "open" /\ Done = {}
    /\ dpc \in {"bonus", "bonusStore", "weigh"} => Stage = "paying" /\ Done = {}
    /\ dpc \in {"account", "credit", "rest", "restStore", "commit"} =>
           Stage = "paying" /\ Done = Accounts \ todo
    /\ dpc = "deduct" => Stage = "paying" /\ Done = Accounts \ (todo \cup {cur})
    /\ dpc = "clear" => Stage = "closing" /\ Done = Accounts \ todo
    /\ dpc = "clearStore" => Stage = "closing" /\ Done = Accounts \ (todo \cup {cur})
    /\ dpc = "take" => Stage = "taking" /\ Done = Credits \ todo
    /\ dpc = "takeStore" => Stage = "taking" /\ Done = Credits \ (todo \cup {cur})
    /\ dpc = "give" => Stage = "returning" /\ Done = Payouts \ todo
    /\ dpc = "giveStore" => Stage = "returning" /\ Done = Payouts \ (todo \cup {cur})
BY DEF Stage, Done, Visited

\* The same after a step.
LEMMA MappingNext ==
    /\ dpc' \in {"idle", "build"} => Stage' = "open" /\ Done' = {}
    /\ dpc' \in {"bonus", "bonusStore", "weigh"} => Stage' = "paying" /\ Done' = {}
    /\ dpc' \in {"account", "credit", "rest", "restStore", "commit"} =>
           Stage' = "paying" /\ Done' = Accounts \ todo'
    /\ dpc' = "deduct" => Stage' = "paying" /\ Done' = Accounts \ (todo' \cup {cur'})
    /\ dpc' = "clear" => Stage' = "closing" /\ Done' = Accounts \ todo'
    /\ dpc' = "clearStore" => Stage' = "closing" /\ Done' = Accounts \ (todo' \cup {cur'})
    /\ dpc' = "take" => Stage' = "taking" /\ Done' = Credits' \ todo'
    /\ dpc' = "takeStore" => Stage' = "taking" /\ Done' = Credits' \ (todo' \cup {cur'})
    /\ dpc' = "give" => Stage' = "returning" /\ Done' = Payouts' \ todo'
    /\ dpc' = "giveStore" => Stage' = "returning" /\ Done' = Payouts' \ (todo' \cup {cur'})
BY DEF Stage, Done, Visited

\* A step that leaves accounts, stage and visited accounts alone.
LEMMA Stutter ==
    ASSUME UNCHANGED <<balance, shares, granted, earned, paid, Stage, Done>>
    PROVE  UNCHANGED Rounds!vars
BY DEF Rounds!vars, Rounds!books, Rounds!counts

\* A stage begins.
LEMMA TurnStep ==
    ASSUME NEW from, NEW to, Stage = from, Stage' = to, Done' = {},
           UNCHANGED <<balance, shares, granted, earned, paid>>
    PROVE  Rounds!Turn(from, to)
BY DEF Rounds!Turn, Rounds!books, Rounds!counts

\* Loading the record for a share is the abstract finding of it.
LEMMA FindRefines ==
    ASSUME Quiet, NEW c \in Conns, NEW a \in Accounts, ShareLoad(c, a)
    PROVE  Rounds!Find(a)
<1>1. /\ dpc = "idle" /\ dpc' = "idle" /\ UNCHANGED <<balance, shares, earned, paid>>
      /\ granted' = [granted EXCEPT ![a] = @ + 1]
  BY DEF ShareLoad, historyVars
<1>2. Stage = "open" /\ Done = {} /\ Stage' = "open" /\ Done' = {}
  BY <1>1, Mapping, MappingNext
<1> QED
  BY <1>1, <1>2 DEF Rounds!Find, Rounds!books

\* Storing it is the counting: at least the share itself, and not more than were found.
LEMMA CountRefines ==
    ASSUME TypeOK, FreshInv, GrantInv, NEW c \in Conns, ShareStore(c)
    PROVE  \E a \in Accounts : Rounds!Count(a)
<1>1. PICK t \in held[c] : UpdateRecord(t.account, [t.record EXCEPT !.shares = @ + 1])
  BY DEF ShareStore
<1>2. t \in Holding /\ t.account \in Accounts /\ t.record \in AccountRecord
  BY DEF TypeOK, AccountTypes, Holding
<1> DEFINE a == t.account
           n == t.record.shares + 1
<1>3. t.record.shares \in Nat /\ granted[a] \in Nat /\ t.record.shares < granted[a]
  BY <1>1, <1>2 DEF GrantInv, TypeOK, AccountTypes, AccountRecord
<1>4. n \in 1 .. granted[a]
  BY <1>3
<1>5. [t.record EXCEPT !.shares = @ + 1].shares = n
  BY <1>2 DEF AccountRecord
<1>6. shares' = [shares EXCEPT ![a] = n]
  BY <1>1, <1>5 DEF UpdateRecord
<1>7. balance' = balance /\ dpc = "idle"
  BY ShareStoreBalance
<1>8. UNCHANGED <<granted, earned, paid, dpc>>
  BY DEF ShareStore, historyVars
<1>9. Stage = "open" /\ Done = {} /\ Stage' = "open" /\ Done' = {}
  BY <1>7, <1>8, Mapping, MappingNext
<1> HIDE DEF n, a
<1>10. Rounds!Count(a)
  BY <1>4, <1>6, <1>7, <1>8, <1>9 DEF Rounds!Count, Rounds!books
<1> QED
  BY <1>2, <1>10 DEF a

\* So is a credit of update_balances.
LEMMA CreditRefines ==
    ASSUME TypeOK, LocalInv, FreshInv, LoopInv, BonusStore \/ Credit \/ RestStore
    PROVE  Rounds!Credit(cur)
<1>1. PICK d \in Nat : /\ balance' = [balance EXCEPT ![cur] = @ + d]
                       /\ earned' = [earned EXCEPT ![cur] = @ + d]
                       /\ shares' = shares
  BY Added
<1>2. cur \in Accounts /\ earned \in [Accounts -> Int] /\ earned[cur] \in Int
  BY DEF BonusStore, Credit, RestStore, LocalInv, StorePCs, TypeOK, HistoryTypes
<1>3. earned'[cur] - earned[cur] = d
  BY <1>1, <1>2
<1>4. UNCHANGED <<paid, granted>>
  BY DEF BonusStore, Credit, RestStore
<1>5. Stage = "paying" /\ Stage' = "paying" /\ Done' = Done
  <2>1. CASE BonusStore
    <3>1. dpc = "bonusStore" /\ dpc' = "weigh"
      BY <2>1 DEF BonusStore
    <3> QED
      BY <3>1, Mapping, MappingNext
  <2>2. CASE Credit
    <3>1. dpc = "credit" /\ dpc' \in {"account", "rest"} /\ todo' = todo
      BY <2>2 DEF Credit, NextAccount
    <3> QED
      BY <3>1, Mapping, MappingNext
  <2>3. CASE RestStore
    <3>1. dpc = "restStore" /\ dpc' = "commit" /\ todo' = todo
      BY <2>3 DEF RestStore, localVars
    <3> QED
      BY <3>1, Mapping, MappingNext
  <2> QED
    BY <2>1, <2>2, <2>3
<1>6. earned' = Rounds!Plus(earned, cur, d) /\ balance' = Rounds!Plus(balance, cur, d) /\ d >= 0
  BY <1>1 DEF Rounds!Plus
<1> DEFINE n == earned'[cur] - earned[cur]
<1>7. n >= 0 /\ earned' = Rounds!Plus(earned, cur, n) /\ balance' = Rounds!Plus(balance, cur, n)
  BY <1>3, <1>6
<1> QED
  BY <1>1, <1>4, <1>5, <1>7, Zenon DEF Rounds!Credit, Rounds!counts

\* The subtraction that stops at zero, of the balance in the database.
LEMMA LessMonus ==
    ASSUME FreshInv, dpc \in StorePCs, NEW n \in Nat,
           balance' = [balance EXCEPT ![cur] = Monus(rec.balance, n)]
    PROVE  balance' = Rounds!Less(cur, n)
<1>1. rec.balance = balance[cur]
  BY DEF FreshInv, GetRecord
<1> QED
  BY <1>1 DEF Monus, Rounds!Less

\* A payout is charged once, in one step.
LEMMA ChargeRefines ==
    ASSUME TypeOK, LocalInv, FreshInv, PlaceInv, Deduct
    PROVE  Rounds!Charge(cur)
<1>1. dpc = "deduct" /\ dpc \in StorePCs /\ UNCHANGED <<todo, cur, earned, granted>>
      /\ dpc' \in {"account", "rest", "credit"} /\ paid' = [paid EXCEPT ![cur] = @ + out[cur]]
  BY DEF Deduct, NextAccount, StorePCs
<1>2. /\ cur \in Accounts /\ out[cur] \in Nat /\ rec.balance \in Nat /\ cur \notin todo
      /\ paid \in [Accounts -> Int] /\ balance \in [Accounts -> Nat]
  BY <1>1, StoreFacts DEF PlaceInv, TypeOK, HistoryTypes, AccountTypes
<1>3. balance' = Rounds!Less(cur, out[cur]) /\ shares' = shares
  <2>1. CASE out[cur] > 0
    <3>1. Monus(rec.balance, out[cur]) \in Nat
      BY <1>2, MonusNat
    <3>2. UpdateRecord(cur, [rec EXCEPT !.balance = Monus(rec.balance, out[cur])])
      BY <2>1 DEF Deduct
    <3>3. balance' = [balance EXCEPT ![cur] = Monus(rec.balance, out[cur])] /\ shares' = shares
      BY <1>1, <3>1, <3>2, StoreBalance
    <3> QED
      BY <1>1, <1>2, <3>3, LessMonus
  <2>2. CASE ~(out[cur] > 0)
    <3>1. UNCHANGED <<balance, shares>> /\ out[cur] = 0
      BY <1>2, <2>2 DEF Deduct
    <3> QED
      BY <1>2, <3>1 DEF Rounds!Less
  <2> QED
    BY <2>1, <2>2
<1>4. paid'[cur] - paid[cur] = out[cur]
  BY <1>1, <1>2
<1>5. /\ Stage = "paying" /\ Stage' = "paying"
      /\ Done = Accounts \ (todo \cup {cur}) /\ Done' = Accounts \ todo
  BY <1>1, Mapping, MappingNext
<1>6. cur \notin Done /\ Done' = Done \cup {cur}
  BY <1>2, <1>5
<1>7. paid' = Rounds!Plus(paid, cur, out[cur])
  BY <1>1 DEF Rounds!Plus
<1> DEFINE n == paid'[cur] - paid[cur]
<1>8. n >= 0 /\ paid' = Rounds!Plus(paid, cur, n) /\ balance' = Rounds!Less(cur, n)
  BY <1>2, <1>3, <1>4, <1>7
<1>9. Rounds!DealWith("paying", cur)
  BY <1>1, <1>3, <1>5, <1>6 DEF Rounds!DealWith, Rounds!counts
<1> QED
  BY <1>1, <1>8, <1>9, Zenon DEF Rounds!Charge

\* The shares of an account are forgotten in one step; the last one opens the next round.
LEMMA ForgetRefines ==
    ASSUME TypeOK, LocalInv, FreshInv, LoopInv, ClearStore
    PROVE  Rounds!Forget(cur)
<1>1. dpc = "clearStore" /\ dpc \in StorePCs /\ UNCHANGED <<earned, paid>>
      /\ UpdateRecord(cur, [rec EXCEPT !.shares = 0]) /\ granted' = [granted EXCEPT ![cur] = 0]
  BY DEF ClearStore, StorePCs, historyVars
<1>2. cur \in Accounts /\ rec \in AccountRecord /\ cur \notin todo /\ todo \subseteq Accounts
  BY <1>1, StoreFacts DEF LoopInv, TypeOK, LocalTypes
<1>3. balance' = balance
  BY <1>1, StoreShares
<1>4. shares' = [shares EXCEPT ![cur] = 0]
  BY <1>1, <1>2 DEF UpdateRecord, AccountRecord
<1>5. Stage = "closing" /\ Done = Accounts \ (todo \cup {cur})
  BY <1>1, Mapping
<1>6. cur \notin Done /\ Done \cup {cur} = Accounts \ todo
  BY <1>2, <1>5
<1>7. CASE todo # {} /\ dpc' = "clear" /\ UNCHANGED todo
  <2>1. Stage' = "closing" /\ Done' = Done \cup {cur} /\ Done \cup {cur} # Accounts
    BY <1>2, <1>6, <1>7, MappingNext
  <2> QED
    BY <1>1, <1>3, <1>4, <1>5, <1>6, <2>1 DEF Rounds!Forget, Rounds!books
<1>8. CASE todo = {} /\ dpc' = "idle"
  <2>1. Stage' = "open" /\ Done' = {} /\ Done \cup {cur} = Accounts
    BY <1>6, <1>8, MappingNext
  <2> QED
    BY <1>1, <1>3, <1>4, <1>5, <1>6, <2>1 DEF Rounds!Forget, Rounds!books
<1> QED
  BY <1>7, <1>8 DEF ClearStore, Leave, localVars

\* A credit is taken back once.
LEMMA TakeRefines ==
    ASSUME TypeOK, LocalInv, FreshInv, LoopInv, TakeStore
    PROVE  Rounds!TakeBack(cur)
<1> DEFINE n == blk.credits[cur]
<1>1. /\ dpc = "takeStore" /\ dpc \in StorePCs /\ dpc' = "take" /\ UNCHANGED <<todo, blk, paid, granted>>
      /\ UpdateRecord(cur, [rec EXCEPT !.balance = Monus(rec.balance, n)])
      /\ earned' = [earned EXCEPT ![cur] = @ - n]
  BY DEF TakeStore, StorePCs, localVars
<1>2. /\ cur \in Accounts /\ n \in Nat /\ rec.balance \in Nat /\ cur \notin todo /\ cur \in Credits
      /\ earned \in [Accounts -> Int] /\ earned[cur] \in Int
  BY <1>1, StoreFacts DEF LoopInv, TypeOK, HistoryTypes
<1> HIDE DEF n
<1>3. Monus(rec.balance, n) \in Nat
  BY <1>2, MonusNat
<1>4. balance' = [balance EXCEPT ![cur] = Monus(rec.balance, n)] /\ shares' = shares
  BY <1>1, <1>3, StoreBalance
<1>5. balance' = Rounds!Less(cur, n)
  BY <1>1, <1>2, <1>4, LessMonus
<1>6. earned[cur] - earned'[cur] = n /\ earned[cur] - n = earned[cur] + (-n)
  BY <1>1, <1>2
<1>7. earned' = Rounds!Plus(earned, cur, -n)
  BY <1>1, <1>6 DEF Rounds!Plus
<1>8. /\ Stage = "taking" /\ Stage' = "taking" /\ Credits' = Credits
      /\ Done = Credits \ (todo \cup {cur}) /\ Done' = Credits \ todo
  BY <1>1, Mapping, MappingNext DEF Credits
<1>9. cur \notin Done /\ Done' = Done \cup {cur}
  BY <1>2, <1>8
<1> DEFINE m == earned[cur] - earned'[cur]
<1>10. m >= 0 /\ earned' = Rounds!Plus(earned, cur, -m) /\ balance' = Rounds!Less(cur, m)
  BY <1>2, <1>5, <1>6, <1>7
<1>11. Rounds!DealWith("taking", cur)
  BY <1>1, <1>4, <1>8, <1>9 DEF Rounds!DealWith, Rounds!counts
<1> QED
  BY <1>1, <1>10, <1>11, Zenon DEF Rounds!TakeBack

\* A payout is returned once.
LEMMA ReturnRefines ==
    ASSUME TypeOK, LocalInv, FreshInv, LoopInv, GiveStore
    PROVE  Rounds!Return(cur)
<1> DEFINE n == blk.outputs[cur]
<1>1. /\ dpc = "giveStore" /\ dpc \in StorePCs /\ dpc' = "give" /\ UNCHANGED <<todo, blk, earned, granted>>
      /\ UpdateRecord(cur, [rec EXCEPT !.balance = @ + n])
      /\ paid' = [paid EXCEPT ![cur] = @ - n]
  BY DEF GiveStore, StorePCs, localVars
<1>2. /\ cur \in Accounts /\ n \in Nat /\ cur \notin todo /\ cur \in Payouts
      /\ paid \in [Accounts -> Int] /\ paid[cur] \in Int
  BY <1>1, StoreFacts DEF LoopInv, TypeOK, HistoryTypes
<1> HIDE DEF n
<1>3. balance' = [balance EXCEPT ![cur] = @ + n] /\ shares' = shares
  BY <1>1, <1>2, StoreSum
<1>4. paid[cur] - paid'[cur] = n /\ paid[cur] - n = paid[cur] + (-n)
  BY <1>1, <1>2
<1>5. paid' = Rounds!Plus(paid, cur, -n) /\ balance' = Rounds!Plus(balance, cur, n)
  BY <1>1, <1>3, <1>4 DEF Rounds!Plus
<1>6. /\ Stage = "returning" /\ Stage' = "returning" /\ Payouts' = Payouts
      /\ Done = Payouts \ (todo \cup {cur}) /\ Done' = Payouts \ todo
  BY <1>1, Mapping, MappingNext DEF Payouts
<1>7. cur \notin Done /\ Done' = Done \cup {cur}
  BY <1>2, <1>6
<1> DEFINE m == paid[cur] - paid'[cur]
<1>8. m >= 0 /\ paid' = Rounds!Plus(paid, cur, -m) /\ balance' = Rounds!Plus(balance, cur, m)
  BY <1>2, <1>4, <1>5
<1>9. Rounds!DealWith("returning", cur)
  BY <1>1, <1>3, <1>6, <1>7 DEF Rounds!DealWith, Rounds!counts
<1> QED
  BY <1>1, <1>8, <1>9, Zenon DEF Rounds!Return

\* A copy of a record is no step of the abstract ledger.
LEMMA LoadRefines ==
    ASSUME TypeOK, Loads
    PROVE  UNCHANGED Rounds!vars
<1>1. /\ UNCHANGED <<balance, shares, granted, earned, paid, blk>> /\ todo \subseteq Accounts
      /\ Credits' = Credits /\ Payouts' = Payouts
  BY DEF Loads, LoadNext, Load, acctVars, historyVars, Credits, Payouts, TypeOK, LocalTypes
<1>2. Stage' = Stage /\ Done' = Done
  <2>1. CASE LoadNext("account", "deduct") \/ LoadNext("clear", "clearStore")
             \/ LoadNext("take", "takeStore") \/ LoadNext("give", "giveStore")
    <3>1. /\ \/ dpc = "account" /\ dpc' = "deduct"
             \/ dpc = "clear" /\ dpc' = "clearStore"
             \/ dpc = "take" /\ dpc' = "takeStore"
             \/ dpc = "give" /\ dpc' = "giveStore"
          /\ todo' \cup {cur'} = todo
      BY <2>1 DEF LoadNext, Load
    <3> QED
      BY <1>1, <3>1, Mapping, MappingNext
  <2>2. CASE Load("bonus", "bonusStore", finder) /\ UNCHANGED todo
    <3>1. dpc = "bonus" /\ dpc' = "bonusStore"
      BY <2>2 DEF Load
    <3> QED
      BY <3>1, Mapping, MappingNext
  <2>3. CASE Load("rest", "restStore", finder) /\ UNCHANGED todo
    <3>1. dpc = "rest" /\ dpc' = "restStore" /\ todo' = todo
      BY <2>3 DEF Load
    <3> QED
      BY <3>1, Mapping, MappingNext
  <2> QED
    BY <2>1, <2>2, <2>3 DEF Loads
<1> QED
  BY <1>1, <1>2, Stutter

\* Every step keeps GrantInv.
LEMMA GrantStep ==
    ASSUME Quiet, TypeOK, LocalInv, FreshInv, PlaceInv, LoopInv, GrantInv, [Next]_vars
    PROVE  GrantInv'
<1>0. /\ held \in [Conns -> SUBSET Holding] /\ shares \in [Accounts -> Nat]
      /\ granted \in [Accounts -> Nat]
  BY DEF TypeOK, AccountTypes
<1>1. CASE UNCHANGED <<shares, held, granted>>
  BY <1>1 DEF GrantInv
<1>2. ASSUME NEW c \in Conns, NEW a \in Accounts, ShareLoad(c, a) PROVE GrantInv'
  <2> DEFINE t == [account |-> a, record |-> GetRecord(a)]
  <2>1. t.account = a /\ t.record.shares = shares[a]
    BY DEF GetRecord
  <2>2. /\ \A d \in Conns : held'[d] = IF d = c THEN {t} ELSE held[d]
        /\ \A b \in Accounts : granted'[b] = IF b = a THEN granted[b] + 1 ELSE granted[b]
        /\ UNCHANGED shares
    BY <1>0, <1>2 DEF ShareLoad
  <2> HIDE DEF t
  <2>3. \A b \in Accounts : shares[b] <= granted[b] /\ granted[b] <= granted'[b]
                           /\ granted[b] \in Nat /\ granted'[b] \in Nat /\ shares[b] \in Nat
    BY <1>0, <2>2 DEF GrantInv
  <2>4. t.record.shares < granted'[t.account]
    BY <2>1, <2>2, <2>3
  <2>5. ASSUME NEW d \in Conns, NEW u \in held'[d] PROVE u.record.shares < granted'[u.account]
    <3>1. CASE d = c
      BY <2>2, <2>4, <2>5, <3>1
    <3>2. CASE d # c
      <4>1. u \in held[d] /\ u \in Holding
        BY <1>0, <2>2, <2>5, <3>2
      <4>2. u.account \in Accounts /\ u.record.shares \in Nat
        BY <4>1 DEF Holding, AccountRecord
      <4>3. u.record.shares < granted[u.account]
        BY <4>1 DEF GrantInv
      <4> QED
        BY <2>3, <4>2, <4>3
    <3> QED
      BY <3>1, <3>2
  <2>6. \A b \in Accounts : shares'[b] <= granted'[b]
    BY <2>2, <2>3
  <2> QED
    BY <2>5, <2>6 DEF GrantInv
<1>3. ASSUME NEW c \in Conns, ShareStore(c) PROVE GrantInv'
  <2>1. PICK a \in Accounts : Rounds!Count(a)
    BY <1>3, CountRefines
  <2>2. PICK n \in 1 .. granted[a] : shares' = [shares EXCEPT ![a] = n]
    BY <2>1 DEF Rounds!Count
  <2>3. UNCHANGED granted /\ \A d \in Conns : held'[d] \subseteq held[d]
    BY <1>0, <1>3 DEF ShareStore
  <2>4. \A b \in Accounts : shares'[b] <= granted[b]
    BY <1>0, <2>2 DEF GrantInv
  <2> QED
    BY <2>3, <2>4 DEF GrantInv
<1>4. CASE ClearStore
  <2>1. Rounds!Forget(cur) /\ UNCHANGED held /\ dpc = "clearStore"
    BY <1>4, ForgetRefines DEF ClearStore
  <2>2. shares' = [shares EXCEPT ![cur] = 0] /\ granted' = [granted EXCEPT ![cur] = 0]
    BY <2>1 DEF Rounds!Forget
  <2>3. \A c \in Conns : held'[c] = {}
    BY <2>1 DEF FreshInv
  <2>4. \A b \in Accounts : shares'[b] <= granted'[b]
    BY <1>0, <2>2 DEF GrantInv
  <2> QED
    BY <2>3, <2>4 DEF GrantInv
<1>5. CASE BonusStore \/ Credit \/ RestStore
  <2>1. UNCHANGED shares
    BY <1>5, Added
  <2> QED
    BY <1>1, <1>5, <2>1 DEF BonusStore, Credit, RestStore
<1>6. CASE Deduct
  <2>1. UNCHANGED shares
    BY <1>6, ChargeRefines DEF Rounds!Charge, Rounds!DealWith, Rounds!counts
  <2> QED
    BY <1>1, <1>6, <2>1 DEF Deduct
<1>7. CASE TakeStore
  <2>1. UNCHANGED shares
    BY <1>7, TakeRefines DEF Rounds!TakeBack, Rounds!DealWith, Rounds!counts
  <2> QED
    BY <1>1, <1>7, <2>1 DEF TakeStore
<1>8. CASE GiveStore
  <2>1. UNCHANGED shares
    BY <1>8, ReturnRefines DEF Rounds!Return, Rounds!DealWith, Rounds!counts
  <2> QED
    BY <1>1, <1>8, <2>1 DEF GiveStore
<1>9. CASE UNCHANGED acctVars
  BY <1>1, <1>9 DEF acctVars
<1>10. ASSUME NEW a \in Accounts, AddPayout(a) \/ Weigh(a) PROVE GrantInv'
  BY <1>9, <1>10 DEF AddPayout, Weigh
<1>11. ASSUME NEW r \in Rewards, BlockReward(r) PROVE GrantInv'
  BY <1>9, <1>11 DEF BlockReward
<1>12. ASSUME NEW h \in Hashes, NEW f \in Accounts, SubmitBlock(h, f) PROVE GrantInv'
  BY <1>9, <1>12 DEF SubmitBlock
<1>13. ASSUME NEW h \in Hashes, Good(h) \/ Fail(h) \/ GoodBlock(h) \/ Orphan(h) PROVE GrantInv'
  BY <1>9, <1>13 DEF Good, Fail, GoodBlock, Orphan
<1>14. CASE NewBlock \/ FinishCoinbase \/ CoinbaseSet \/ BlockTimer \/ NameFinder \/ OrphanTimer
  BY <1>9, <1>14 DEF NewBlock, FinishCoinbase, CoinbaseSet, BlockTimer, NameFinder, OrphanTimer
<1>15. CASE Loads \/ SkipRest \/ Commit \/ EndTake \/ EndRefund \/ UNCHANGED vars
  BY <1>9, <1>15 DEF Loads, LoadNext, Load, SkipRest, Commit, EndTake, EndRefund, vars
<1> QED
  BY <1>2, <1>3, <1>4, <1>5, <1>6, <1>7, <1>8, <1>10, <1>11, <1>12, <1>13, <1>14, <1>15 DEF Next

\* Every step of the manager is a step of the abstract ledger, or none.
LEMMA RoundsStep ==
    ASSUME Quiet, TypeOK, LocalInv, FreshInv, PlaceInv, LoopInv, GrantInv, [Next]_vars
    PROVE  [Rounds!Next]_(Rounds!vars)
<1>0. dpc \in DaemonPCs /\ todo \subseteq Accounts
  BY DEF TypeOK, LocalTypes
<1> USE DEF Rounds!Next
<1>1. CASE UNCHANGED <<balance, shares, granted, earned, paid>> /\ {dpc, dpc'} \subseteq {"idle", "build"}
  BY <1>1, Stutter, Mapping, MappingNext
<1>2. CASE UNCHANGED <<balance, shares, granted, earned, paid, dpc, todo, cur, blk>>
  BY <1>2, Stutter DEF Stage, Done, Visited, Credits, Payouts
<1>3. ASSUME NEW c \in Conns, ShareStore(c) PROVE Rounds!Next
  BY <1>3, CountRefines
<1>4. CASE BonusStore \/ Credit \/ RestStore
  <2>1. cur \in Accounts
    BY <1>4 DEF BonusStore, Credit, RestStore, LocalInv, StorePCs
  <2> QED
    BY <1>4, <2>1, CreditRefines
<1>5. CASE Deduct
  <2>1. cur \in Accounts
    BY <1>5 DEF Deduct, LocalInv, StorePCs
  <2> QED
    BY <1>5, <2>1, ChargeRefines
<1>6. CASE ClearStore
  <2>1. cur \in Accounts
    BY <1>6 DEF ClearStore, LocalInv, StorePCs
  <2> QED
    BY <1>6, <2>1, ForgetRefines
<1>7. CASE TakeStore
  <2>1. cur \in Accounts
    BY <1>7 DEF TakeStore, LocalInv, StorePCs
  <2> QED
    BY <1>7, <2>1, TakeRefines
<1>8. CASE GiveStore
  <2>1. cur \in Accounts
    BY <1>8 DEF GiveStore, LocalInv, StorePCs
  <2> QED
    BY <1>8, <2>1, ReturnRefines
<1>9. CASE Loads
  BY <1>9, LoadRefines
<1>10. ASSUME NEW h \in Hashes, Good(h) PROVE Rounds!Next
  <2>1. dpc = "idle" /\ dpc' = "bonus" /\ UNCHANGED <<balance, shares, granted, earned, paid>>
    BY <1>10 DEF Good, DaemonIdle, acctVars
  <2> QED
    BY <2>1, Mapping, MappingNext, TurnStep
<1>11. CASE Commit
  <2>1. dpc = "commit" /\ dpc' = "clear" /\ todo = {} /\ todo' = Accounts
        /\ UNCHANGED <<balance, shares, granted, earned, paid>>
    BY <1>11 DEF Commit, LoopInv, acctVars, historyVars
  <2>2. Done = Accounts /\ Stage = "paying" /\ Stage' = "closing" /\ Done' = {}
    BY <2>1, Mapping, MappingNext
  <2>3. Rounds!Settle
    BY <2>1, <2>2, TurnStep DEF Rounds!Settle
  <2> QED
    BY <2>3
<1>12. ASSUME NEW h \in Hashes, Orphan(h) PROVE [Rounds!Next]_(Rounds!vars)
  <2>1. dpc = "idle" /\ UNCHANGED <<balance, shares, granted, earned, paid>>
    BY <1>12 DEF Orphan, Answer, DaemonIdle, acctVars
  <2>2. CASE dpc' = "idle"
    BY <1>1, <2>1, <2>2
  <2>3. CASE dpc' # "idle"
    <3>1. dpc' = "take" /\ blk' = [db[h] EXCEPT !.value = 0] /\ db[h] \in BlockRecord
          /\ todo' = {a \in Accounts : db[h].credits[a] > 0}
      BY <1>12, <2>1, <2>3 DEF Orphan, TypeOK, DataTypes
    <3>2. Credits' = todo'
      BY <3>1 DEF BlockRecord, Credits
    <3>3. Stage = "open" /\ Stage' = "taking" /\ Done' = {}
      BY <2>1, <3>1, <3>2, Mapping, MappingNext
    <3> QED
      BY <2>1, <3>3, TurnStep
  <2> QED
    BY <2>2, <2>3
<1>13. CASE EndTake
  <2>1. dpc = "take" /\ dpc' = "give" /\ UNCHANGED <<balance, shares, granted, earned, paid>>
        /\ todo' = Payouts /\ Payouts' = Payouts
    BY <1>13 DEF EndTake, Payouts, acctVars, historyVars
  <2>2. Stage = "taking" /\ Stage' = "returning" /\ Done' = {}
    BY <2>1, Mapping, MappingNext
  <2> QED
    BY <2>1, <2>2, TurnStep
<1>14. CASE EndRefund
  <2>1. dpc = "give" /\ dpc' = "idle" /\ UNCHANGED <<balance, shares, granted, earned, paid>>
    BY <1>14 DEF EndRefund, Leave, acctVars
  <2> QED
    BY <2>1, Mapping, MappingNext, TurnStep
<1>15. ASSUME NEW a \in Accounts, Weigh(a) PROVE UNCHANGED Rounds!vars
  <2>1. UNCHANGED <<balance, shares, granted, earned, paid>> /\ dpc = "weigh"
        /\ (dpc' = "weigh" \/ (dpc' = "account" /\ todo' = Accounts))
    BY <1>15 DEF Weigh, acctVars, historyVars
  <2> QED
    BY <2>1, Mapping, MappingNext, Stutter
<1>16. CASE SkipRest
  <2>1. UNCHANGED <<balance, shares, granted, earned, paid, todo>> /\ dpc = "rest" /\ dpc' = "commit"
    BY <1>16 DEF SkipRest, acctVars, localVars, historyVars
  <2> QED
    BY <2>1, Mapping, MappingNext, Stutter
<1>17. ASSUME NEW r \in Rewards, BlockReward(r) PROVE UNCHANGED Rounds!vars
  BY <1>17, Stutter, Mapping, MappingNext DEF BlockReward, DaemonIdle, acctVars
<1>18. ASSUME NEW a \in Accounts, AddPayout(a) PROVE [Rounds!Next]_(Rounds!vars)
  BY <1>1, <1>18 DEF AddPayout, acctVars, historyVars
<1>19. CASE FinishCoinbase
  BY <1>1, <1>19 DEF FinishCoinbase, acctVars, historyVars
<1>20. ASSUME NEW c \in Conns, NEW a \in Accounts, ShareLoad(c, a) PROVE Rounds!Next
  BY <1>20, FindRefines
<1>21. ASSUME NEW h \in Hashes, NEW f \in Accounts, SubmitBlock(h, f)
       PROVE  [Rounds!Next]_(Rounds!vars)
  BY <1>2, <1>21 DEF SubmitBlock, acctVars, localVars
<1>t. CASE BlockTimer \/ NameFinder
  BY <1>2, <1>t DEF BlockTimer, NameFinder, acctVars, localVars, historyVars
<1>22. ASSUME NEW h \in Hashes, Fail(h) \/ GoodBlock(h) PROVE [Rounds!Next]_(Rounds!vars)
  BY <1>2, <1>22 DEF Fail, GoodBlock, acctVars, localVars, historyVars
<1>23. CASE NewBlock \/ CoinbaseSet \/ OrphanTimer \/ UNCHANGED vars
  BY <1>2, <1>23 DEF NewBlock, CoinbaseSet, OrphanTimer, vars, acctVars, localVars, historyVars
<1> HIDE DEF Rounds!Next
<1> QED
  BY <1>3, <1>4, <1>5, <1>6, <1>7, <1>8, <1>9, <1>10, <1>11, <1>12, <1>13, <1>14, <1>15, <1>16,
     <1>17, <1>18, <1>19, <1>20, <1>21, <1>22, <1>23, <1>t DEF Next

\* PayoutManager implements PayoutRounds as long as no share is credited while the
\* daemon's handler runs: although records are copied, changed and written back whole,
\* also by several connections of one account at a time, every account is charged once for
\* a block, loses its shares before the next round, is refunded once for an orphan, and
\* never has more shares than were found for it in the round.
THEOREM RoundsRefined == ASSUME Quiet = TRUE PROVE Spec => AtomicRounds
<1>1. Init => PlaceInv /\ LoopInv /\ GrantInv /\ Rounds!Init
  <2> SUFFICES ASSUME Init PROVE PlaceInv /\ LoopInv /\ GrantInv /\ Rounds!Init
    OBVIOUS
  <2>1. PlaceInv /\ LoopInv
    BY DEF Init, PlaceInv, LoopInv, GoodPCs, RefundPCs
  <2>3. GrantInv
    BY DEF Init, GrantInv, Zero
  <2>2. Stage = "open" /\ Done = {}
    BY Mapping DEF Init
  <2> QED
    BY <2>1, <2>2, <2>3 DEF Init, Rounds!Init, Zero, Rounds!Zero
<1>2. TypeOK /\ LocalInv /\ PlaceInv /\ [Next]_vars => PlaceInv'
  BY PlaceStep
<1>3. TypeOK /\ LoopInv /\ [Next]_vars => LoopInv'
  BY LoopStep
<1>4. TypeOK /\ LocalInv /\ FreshInv /\ PlaceInv /\ LoopInv /\ GrantInv /\ [Next]_vars
      => GrantInv'
  BY GrantStep
<1>5. TypeOK /\ LocalInv /\ FreshInv /\ PlaceInv /\ LoopInv /\ GrantInv /\ [Next]_vars
      => [Rounds!Next]_(Rounds!vars)
  BY RoundsStep
<1> QED
  BY TypeCorrect, AlwaysFresh, <1>1, <1>2, <1>3, <1>4, <1>5, PTL DEF Spec, AtomicRounds, Rounds!Spec
=============================================================================
