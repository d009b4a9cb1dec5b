-------------------------- MODULE PersistenceProofs --------------------------
(***************************************************************************)
(* Proofs about Persistence: the two databases are durable stores, and the *)
(* three invariants that relate memory, files and history hold for any     *)
(* accounts, any blocks and any number of crashes.                         *)
(***************************************************************************)
EXTENDS Persistence, TLAPS

\* A process that is down holds no lock and runs no handler.
DownInv == ~up => /\ acctLock = "free" /\ blkLock = "free"
                  /\ dpc = "idle" /\ tpc = "idle"
                  /\ unsaved = {}

\* The daemon's handler has a block exactly while it books or refunds one, and that block
\* is at risk.
HashInv ==
    /\ hash = NoHash <=> dpc \in {"idle", "coinbase"}
    /\ hash # NoHash => hash \in unsaved /\ hash \in accepted
    /\ booked \subseteq accepted

\* A block that has not been accepted has left no trace, in memory or on disk.
FreshInv ==
    \A b \in Blocks \ accepted :
        /\ record[b] = "none" /\ recordFile[b] = "none"
        /\ \A a \in Accounts : balance[a][b] = 0 /\ balanceFile[a][b] = 0

\* All accounts hold n credits of the block the handler is at.
Credited(n) == \A a \in Accounts : balance[a][hash] = n

\* How far update_balances and clear_shares have come.
BookInv ==
    /\ dpc = "credit" =>
        /\ hash \notin booked /\ record[hash] = "none" /\ recordFile[hash] = "none"
        /\ \A a \in Accounts : balance[a][hash] = IF a \in todo THEN 0 ELSE 1
    /\ dpc = "record" =>
        /\ hash \notin booked /\ record[hash] = "none" /\ recordFile[hash] = "none"
        /\ Credited(1)
    /\ dpc = "bookBlk" => hash \notin booked /\ record[hash] = "booked" /\ Credited(1)
    /\ dpc \in {"bookAcct", "clear"} =>
        record[hash] = "booked" /\ recordFile[hash] = "booked" /\ Credited(1)

\* How far refund_payouts has come.
RefundInv ==
    /\ dpc \in {"takeBack", "flag", "orphanBlk"} => hash \in orphaned
    /\ dpc \in {"takeBack", "flag"} => record[hash] = "booked"
    /\ dpc = "orphanBlk" => record[hash] = "orphan"
    /\ ~damaged /\ hash \notin exposed =>
        /\ dpc = "takeBack" =>
            \A a \in Accounts : balance[a][hash] = IF a \in todo THEN 1 ELSE 0
        /\ dpc \in {"flag", "orphanBlk"} => Credited(0)

\* Only the handler's own block differs from blk.dat, and only until the handler writes.
BlkFileInv ==
    up => \A b \in Blocks :
        \/ record[b] = recordFile[b]
        \/ b = hash /\ dpc \in {"bookBlk", "orphanBlk"}

\* Only the blocks at risk differ from acct.dat.
AcctFileInv ==
    up => \A b \in Blocks \ unsaved : \A a \in Accounts : balance[a][b] = balanceFile[a][b]

\* The two databases agree in memory about the blocks the handler is not at, and on disk
\* while the process is down.
AgreeInv ==
    /\ up /\ ~damaged => \A b \in Blocks \ exposed : b # hash => Balanced(b)
    /\ ~up /\ ~damaged => \A b \in Blocks \ exposed :
            \A a \in Accounts : balanceFile[a][b] = IF recordFile[b] = "booked" THEN 1 ELSE 0

\* A booked block is in both files and, while the process runs, in memory.
DurableInv ==
    ~damaged => \A b \in booked \ orphaned :
        /\ recordFile[b] = "booked"
        /\ \A a \in Accounts : balanceFile[a][b] = 1
        /\ up => record[b] = "booked" /\ \A a \in Accounts : balance[a][b] = 1

\* Paid shares are in a record only between the credit and clear_shares, and in acct.dat
\* only while a block is at risk.
SharesInv ==
    ~damaged /\ exposed = {} =>
        /\ dpc = "credit" => \A a \in todo : paid[a] = {}
        /\ dpc = "clear" => \A a \in Accounts \ todo : paid[a] = {}
        /\ dpc \in {"idle", "coinbase", "takeBack", "flag", "orphanBlk"} =>
            \A a \in Accounts : paid[a] = {}
        /\ unsaved = {} => \A a \in Accounts : paidFile[a] = {}

\* The inductive invariant.
IInv ==
    /\ TypeOK /\ DownInv /\ HashInv /\ FreshInv /\ BookInv /\ RefundInv
    /\ BlkFileInv /\ AcctFileInv /\ AgreeInv /\ DurableInv /\ SharesInv

-----------------------------------------------------------------------------
(* Every action preserves the inductive invariant.  The first step of a proof is about *)
(* the parts that are preserved on their own, the others about those that need more.   *)

\* GOOD starts update_balances on a block that nothing knows of yet.
LEMMA GoodStep == ASSUME IInv, NEW b \in Blocks, Good(b) PROVE IInv'
<1>1. /\ TypeOK' /\ DownInv' /\ HashInv' /\ FreshInv'
      /\ RefundInv' /\ BlkFileInv' /\ AcctFileInv' /\ DurableInv'
      /\ SharesInv'
    BY BlocksAssumption DEF IInv, TypeOK, Balances, Owners, Records, DaemonPCs, DownInv,
           HashInv, FreshInv, RefundInv, Credited, BlkFileInv, AcctFileInv, DurableInv,
           SharesInv, Good, acctVars, blkVars, handlerVars, historyVars
<1>2. BookInv'
    BY BlocksAssumption DEF IInv, TypeOK, Balances, Owners, Records, DaemonPCs, HashInv,
           FreshInv, BookInv, Credited, Good, acctVars, blkVars, handlerVars, historyVars
<1>3. AgreeInv'
    BY BlocksAssumption DEF IInv, HashInv, AgreeInv, Balanced, Good, acctVars, blkVars,
           handlerVars, historyVars
<1> QED BY <1>1, <1>2, <1>3 DEF IInv

\* ORPHAN_BLOCK starts refund_payouts on a block with a record.
LEMMA OrphanStep == ASSUME IInv, NEW b \in Blocks, Orphan(b) PROVE IInv'
<1>1. /\ TypeOK' /\ DownInv' /\ FreshInv' /\ BookInv'
      /\ BlkFileInv' /\ AcctFileInv' /\ DurableInv' /\ SharesInv'
    BY DEF IInv, TypeOK, Balances, Owners, Records, DaemonPCs, DownInv, FreshInv, BookInv,
           Credited, BlkFileInv, AcctFileInv, DurableInv, SharesInv, Orphan, acctVars,
           blkVars, handlerVars, historyVars
<1>2. HashInv'
    BY BlocksAssumption DEF IInv, TypeOK, Balances, Owners, Records, DaemonPCs, HashInv,
           FreshInv, Orphan, acctVars, blkVars, handlerVars, historyVars
<1>3. RefundInv'
    BY BlocksAssumption DEF IInv, HashInv, RefundInv, Credited, AgreeInv, Balanced,
           Orphan, acctVars, blkVars, handlerVars, historyVars
<1>4. AgreeInv'
    BY BlocksAssumption DEF IInv, HashInv, AgreeInv, Balanced, Orphan, acctVars, blkVars,
           handlerVars, historyVars
<1> QED BY <1>1, <1>2, <1>3, <1>4 DEF IInv

\* One account is credited; only the handler's own block changes.
LEMMA CreditStep == ASSUME IInv, NEW a \in Accounts, Credit(a) PROVE IInv'
<1>1. /\ DownInv' /\ HashInv' /\ RefundInv' /\ BlkFileInv'
      /\ AgreeInv' /\ SharesInv'
    BY DEF IInv, DownInv, HashInv, RefundInv, Credited, BlkFileInv, AgreeInv, Balanced,
           SharesInv, Credit, acctVars, blkVars, handlerVars, historyVars
<1>2. TypeOK'
    BY BlocksAssumption DEF IInv, TypeOK, Balances, Owners, Records, DaemonPCs, HashInv,
           Credit, acctVars, blkVars, handlerVars, historyVars
<1>3. FreshInv'
    BY BlocksAssumption DEF IInv, HashInv, FreshInv, Credit, acctVars, blkVars,
           handlerVars, historyVars
<1>4. BookInv'
    BY BlocksAssumption DEF IInv, TypeOK, Balances, Owners, Records, DaemonPCs, HashInv,
           BookInv, Credited, Credit, acctVars, blkVars, handlerVars, historyVars
<1>5. AcctFileInv'
    BY BlocksAssumption DEF IInv, HashInv, AcctFileInv, Credit, acctVars, blkVars,
           handlerVars, historyVars
<1>6. DurableInv'
    BY BlocksAssumption DEF IInv, TypeOK, Balances, Owners, Records, DaemonPCs, HashInv,
           BookInv, Credited, DurableInv, Credit, acctVars, blkVars, handlerVars,
           historyVars
<1> QED BY <1>1, <1>2, <1>3, <1>4, <1>5, <1>6 DEF IInv

\* clear_shares; with the last account the handler leaves the block, which is booked by then.
LEMMA ClearSharesStep == ASSUME IInv, NEW a \in Accounts, ClearShares(a) PROVE IInv'
<1>1. /\ TypeOK' /\ DownInv' /\ HashInv' /\ FreshInv'
      /\ BookInv' /\ RefundInv' /\ BlkFileInv' /\ AcctFileInv'
      /\ DurableInv'
    BY DEF IInv, TypeOK, Balances, Owners, Records, DaemonPCs, DownInv, HashInv, FreshInv,
           BookInv, Credited, RefundInv, BlkFileInv, AcctFileInv, DurableInv, ClearShares,
           NextAccount, acctVars, blkVars, handlerVars, historyVars
<1>2. AgreeInv'
    BY BlocksAssumption DEF IInv, TypeOK, Balances, Owners, Records, DaemonPCs, HashInv,
           BookInv, Credited, AgreeInv, Balanced, ClearShares, NextAccount, acctVars,
           blkVars, handlerVars, historyVars
<1>3. SharesInv'
    BY DEF IInv, TypeOK, Balances, Owners, Records, DaemonPCs, SharesInv, ClearShares,
           NextAccount, acctVars, blkVars, handlerVars, historyVars
<1> QED BY <1>1, <1>2, <1>3 DEF IInv

\* The record of the block is put into the block database.
LEMMA BookRecordStep == ASSUME IInv, BookRecord PROVE IInv'
<1>1. /\ TypeOK' /\ DownInv' /\ HashInv' /\ RefundInv'
      /\ BlkFileInv' /\ AcctFileInv' /\ AgreeInv' /\ DurableInv'
      /\ SharesInv'
    BY DEF IInv, TypeOK, Balances, Owners, Records, DaemonPCs, DownInv, HashInv,
           RefundInv, Credited, BlkFileInv, AcctFileInv, AgreeInv, Balanced, DurableInv,
           SharesInv, BookRecord, acctVars, blkVars, handlerVars, historyVars
<1>2. FreshInv'
    BY BlocksAssumption DEF IInv, HashInv, FreshInv, BookRecord, acctVars, blkVars,
           handlerVars, historyVars
<1>3. BookInv'
    BY BlocksAssumption DEF IInv, TypeOK, Balances, Owners, Records, DaemonPCs, HashInv,
           BookInv, Credited, BookRecord, acctVars, blkVars, handlerVars, historyVars
<1> QED BY <1>1, <1>2, <1>3 DEF IInv

\* The write of blk.dat from update_balances.
LEMMA BookBlkBeginStep == ASSUME IInv, BookBlkBegin PROVE IInv'
BY DEF IInv, TypeOK, Balances, Owners, Records, DaemonPCs, DownInv, HashInv, FreshInv,
       BookInv, Credited, RefundInv, BlkFileInv, AcctFileInv, AgreeInv, Balanced,
       DurableInv, SharesInv, BookBlkBegin, BeginBlk, acctVars, blkVars, handlerVars,
       historyVars

\* update_balances: the block database has been written.
LEMMA BookBlkEndStep == ASSUME IInv, BookBlkEnd PROVE IInv'
BY DEF IInv, TypeOK, Balances, Owners, Records, DaemonPCs, DownInv, HashInv, FreshInv,
       BookInv, Credited, RefundInv, BlkFileInv, AcctFileInv, AgreeInv, Balanced,
       DurableInv, SharesInv, BookBlkEnd, EndBlk, acctVars, blkVars, handlerVars,
       historyVars

\* The write of acct.dat from update_balances makes the booking durable.
LEMMA BookAcctBeginStep == ASSUME IInv, BookAcctBegin PROVE IInv'
BY DEF IInv, TypeOK, Balances, Owners, Records, DaemonPCs, DownInv, HashInv, FreshInv,
       BookInv, Credited, RefundInv, BlkFileInv, AcctFileInv, AgreeInv, Balanced,
       DurableInv, SharesInv, BookAcctBegin, BeginAcct, acctVars, blkVars, handlerVars,
       historyVars

\* update_balances: the account database has been written.
LEMMA BookAcctEndStep == ASSUME IInv, BookAcctEnd PROVE IInv'
<1>1. /\ DownInv' /\ HashInv' /\ FreshInv' /\ BookInv'
      /\ RefundInv' /\ BlkFileInv' /\ AcctFileInv' /\ AgreeInv'
    BY DEF IInv, DownInv, HashInv, FreshInv, BookInv, Credited, RefundInv, BlkFileInv,
           AcctFileInv, AgreeInv, Balanced, BookAcctEnd, EndAcct, acctVars, blkVars,
           handlerVars, historyVars
<1>2. TypeOK'
    BY BlocksAssumption DEF IInv, TypeOK, Balances, Owners, Records, DaemonPCs, HashInv,
           BookAcctEnd, EndAcct, acctVars, blkVars, handlerVars, historyVars
<1>3. DurableInv'
    BY BlocksAssumption DEF IInv, TypeOK, Balances, Owners, Records, DaemonPCs, HashInv,
           BookInv, Credited, DurableInv, BookAcctEnd, EndAcct, acctVars, blkVars,
           handlerVars, historyVars
<1>4. SharesInv'
    BY BlocksAssumption DEF IInv, HashInv, SharesInv, BookAcctEnd, EndAcct, acctVars,
           blkVars, handlerVars, historyVars
<1> QED BY <1>1, <1>2, <1>3, <1>4 DEF IInv

\* One account gives its credit back.
LEMMA TakeBackStep == ASSUME IInv, NEW a \in Accounts, TakeBack(a) PROVE IInv'
<1>1. /\ DownInv' /\ HashInv' /\ BookInv' /\ BlkFileInv'
      /\ AgreeInv' /\ SharesInv'
    BY DEF IInv, DownInv, HashInv, BookInv, Credited, BlkFileInv, AgreeInv, Balanced,
           SharesInv, TakeBack, acctVars, blkVars, handlerVars, historyVars
<1>2. TypeOK'
    BY BlocksAssumption DEF IInv, TypeOK, Balances, Owners, Records, DaemonPCs, HashInv,
           TakeBack, acctVars, blkVars, handlerVars, historyVars
<1>3. FreshInv'
    BY BlocksAssumption DEF IInv, HashInv, FreshInv, TakeBack, acctVars, blkVars,
           handlerVars, historyVars
<1>4. RefundInv'
    BY DEF IInv, TypeOK, Balances, Owners, Records, DaemonPCs, RefundInv, Credited,
           TakeBack, acctVars, blkVars, handlerVars, historyVars
<1>5. AcctFileInv'
    BY BlocksAssumption DEF IInv, HashInv, AcctFileInv, TakeBack, acctVars, blkVars,
           handlerVars, historyVars
<1>6. DurableInv'
    BY BlocksAssumption DEF IInv, TypeOK, Balances, Owners, Records, DaemonPCs, HashInv,
           RefundInv, Credited, DurableInv, TakeBack, acctVars, blkVars, handlerVars,
           historyVars
<1> QED BY <1>1, <1>2, <1>3, <1>4, <1>5, <1>6 DEF IInv

\* The record is flagged.
LEMMA FlagStep == ASSUME IInv, Flag PROVE IInv'
<1>1. /\ TypeOK' /\ DownInv' /\ HashInv' /\ BookInv'
      /\ BlkFileInv' /\ AcctFileInv' /\ AgreeInv' /\ SharesInv'
    BY DEF IInv, TypeOK, Balances, Owners, Records, DaemonPCs, DownInv, HashInv, BookInv,
           Credited, BlkFileInv, AcctFileInv, AgreeInv, Balanced, SharesInv, Flag,
           acctVars, blkVars, handlerVars, historyVars
<1>2. FreshInv'
    BY BlocksAssumption DEF IInv, HashInv, FreshInv, Flag, acctVars, blkVars, handlerVars,
           historyVars
<1>3. RefundInv'
    BY DEF IInv, TypeOK, Balances, Owners, Records, DaemonPCs, RefundInv, Credited, Flag,
           acctVars, blkVars, handlerVars, historyVars
<1>4. DurableInv'
    BY BlocksAssumption DEF IInv, TypeOK, Balances, Owners, Records, DaemonPCs, HashInv,
           RefundInv, Credited, DurableInv, Flag, acctVars, blkVars, handlerVars,
           historyVars
<1> QED BY <1>1, <1>2, <1>3, <1>4 DEF IInv

\* The write of blk.dat from refund_payouts, with which the handler leaves the block.
LEMMA OrphanBlkBeginStep == ASSUME IInv, OrphanBlkBegin PROVE IInv'
BY DEF IInv, TypeOK, Balances, Owners, Records, DaemonPCs, DownInv, HashInv, FreshInv,
       BookInv, Credited, RefundInv, BlkFileInv, AcctFileInv, AgreeInv, Balanced,
       DurableInv, SharesInv, OrphanBlkBegin, BeginBlk, acctVars, blkVars, handlerVars,
       historyVars

\* refund_payouts: the block database has been written.
LEMMA OrphanBlkEndStep == ASSUME IInv, OrphanBlkEnd PROVE IInv'
<1>1. /\ TypeOK' /\ DownInv' /\ HashInv' /\ FreshInv'
      /\ BookInv' /\ RefundInv' /\ BlkFileInv' /\ AcctFileInv'
      /\ DurableInv' /\ SharesInv'
    BY DEF IInv, TypeOK, Balances, Owners, Records, DaemonPCs, DownInv, HashInv, FreshInv,
           BookInv, Credited, RefundInv, BlkFileInv, AcctFileInv, DurableInv, SharesInv,
           OrphanBlkEnd, EndBlk, acctVars, blkVars, handlerVars, historyVars
<1>2. AgreeInv'
    BY BlocksAssumption DEF IInv, TypeOK, Balances, Owners, Records, DaemonPCs, HashInv,
           RefundInv, Credited, AgreeInv, Balanced, OrphanBlkEnd, EndBlk, acctVars,
           blkVars, handlerVars, historyVars
<1> QED BY <1>1, <1>2 DEF IInv

\* COINBASE_SET writes acct.dat between two blocks.
LEMMA CoinbaseSetStep == ASSUME IInv, CoinbaseSet PROVE IInv'
BY DEF IInv, TypeOK, Balances, Owners, Records, DaemonPCs, DownInv, HashInv, FreshInv,
       BookInv, Credited, RefundInv, BlkFileInv, AcctFileInv, AgreeInv, Balanced,
       DurableInv, SharesInv, CoinbaseSet, acctVars, blkVars, handlerVars, historyVars

\* COINBASE_SET begins to write the account database,
LEMMA CoinbaseBeginStep == ASSUME IInv, CoinbaseBegin PROVE IInv'
BY DEF IInv, TypeOK, Balances, Owners, Records, DaemonPCs, DownInv, HashInv, FreshInv,
       BookInv, Credited, RefundInv, BlkFileInv, AcctFileInv, AgreeInv, Balanced,
       DurableInv, SharesInv, CoinbaseBegin, BeginAcct, acctVars, blkVars, handlerVars,
       historyVars

\* and has written it.
LEMMA CoinbaseEndStep == ASSUME IInv, CoinbaseEnd PROVE IInv'
BY DEF IInv, TypeOK, Balances, Owners, Records, DaemonPCs, DownInv, HashInv, FreshInv,
       BookInv, Credited, RefundInv, BlkFileInv, AcctFileInv, AgreeInv, Balanced,
       DurableInv, SharesInv, CoinbaseEnd, EndAcct, acctVars, blkVars, handlerVars,
       historyVars

\* The persistence timer writes both files at any time.
LEMMA TimerStep == ASSUME IInv, Timer PROVE IInv'
BY DEF IInv, TypeOK, Balances, Owners, Records, DaemonPCs, DownInv, HashInv, FreshInv,
       BookInv, Credited, RefundInv, BlkFileInv, AcctFileInv, AgreeInv, Balanced,
       DurableInv, SharesInv, Timer, acctVars, blkVars, handlerVars, historyVars

\* The persistence timer begins to write the block database,
LEMMA TimerBlkBeginStep == ASSUME IInv, TimerBlkBegin PROVE IInv'
BY DEF IInv, TypeOK, Balances, Owners, Records, DaemonPCs, DownInv, HashInv, FreshInv,
       BookInv, Credited, RefundInv, BlkFileInv, AcctFileInv, AgreeInv, Balanced,
       DurableInv, SharesInv, TimerBlkBegin, BeginBlk, acctVars, blkVars, handlerVars,
       historyVars

\* has written it,
LEMMA TimerBlkEndStep == ASSUME IInv, TimerBlkEnd PROVE IInv'
BY DEF IInv, TypeOK, Balances, Owners, Records, DaemonPCs, DownInv, HashInv, FreshInv,
       BookInv, Credited, RefundInv, BlkFileInv, AcctFileInv, AgreeInv, Balanced,
       DurableInv, SharesInv, TimerBlkEnd, EndBlk, acctVars, blkVars, handlerVars,
       historyVars

\* begins to write the account database,
LEMMA TimerAcctBeginStep == ASSUME IInv, TimerAcctBegin PROVE IInv'
BY DEF IInv, TypeOK, Balances, Owners, Records, DaemonPCs, DownInv, HashInv, FreshInv,
       BookInv, Credited, RefundInv, BlkFileInv, AcctFileInv, AgreeInv, Balanced,
       DurableInv, SharesInv, TimerAcctBegin, BeginAcct, acctVars, blkVars, handlerVars,
       historyVars

\* and has written it.
LEMMA TimerAcctEndStep == ASSUME IInv, TimerAcctEnd PROVE IInv'
<1>1. /\ TypeOK' /\ DownInv' /\ HashInv' /\ FreshInv'
      /\ BookInv' /\ RefundInv' /\ BlkFileInv' /\ AcctFileInv'
      /\ AgreeInv' /\ DurableInv'
    BY DEF IInv, TypeOK, Balances, Owners, Records, DaemonPCs, DownInv, HashInv, FreshInv,
           BookInv, Credited, RefundInv, BlkFileInv, AcctFileInv, AgreeInv, Balanced,
           DurableInv, TimerAcctEnd, EndAcct, acctVars, blkVars, handlerVars, historyVars
<1>2. SharesInv'
    BY BlocksAssumption DEF IInv, HashInv, SharesInv, TimerAcctEnd, EndAcct, acctVars,
           blkVars, handlerVars, historyVars
<1> QED BY <1>1, <1>2 DEF IInv

\* The process ends: memory is gone, and a file that was not being written stays.
LEMMA CrashStep == ASSUME IInv, Crash PROVE IInv'
<1>1. /\ DownInv' /\ HashInv' /\ FreshInv' /\ BookInv'
      /\ RefundInv' /\ BlkFileInv' /\ AcctFileInv' /\ DurableInv' /\ SharesInv'
    BY DEF IInv, DownInv, HashInv, FreshInv, BookInv, Credited, RefundInv, BlkFileInv,
           AcctFileInv, DurableInv, SharesInv, Crash, TornRecords, NoBalance, NoShares, NoRecords
<1>2. recordFile' \in Records
    BY DEF IInv, TypeOK, Records, Crash, TornRecords
<1>3. balanceFile' \in Balances /\ paidFile' \in [Accounts -> SUBSET Blocks]
  <2>1. CASE acctLock = "free"
    BY <2>1 DEF IInv, TypeOK, Crash
  <2>2. CASE acctLock # "free"
    <3>1. PICK kept \in SUBSET Accounts :
            /\ balanceFile' = [a \in Accounts |-> IF a \in kept THEN balance[a]
                                                              ELSE NoBalance[a]]
            /\ paidFile' = [a \in Accounts |-> IF a \in kept THEN paid[a] ELSE {}]
      BY <2>2 DEF Crash
    <3>2. balance \in Balances /\ paid \in [Accounts -> SUBSET Blocks]
      BY DEF IInv, TypeOK
    <3>3. \A a \in Accounts : NoBalance[a] \in [Blocks -> Int]
      BY DEF NoBalance
    <3> QED BY <3>1, <3>2, <3>3 DEF Balances
  <2> QED BY <2>1, <2>2
<1>4. balance' \in Balances /\ paid' \in [Accounts -> SUBSET Blocks] /\ record' \in Records
    BY DEF Crash, Balances, Records, NoBalance, NoShares, NoRecords
<1>5. TypeOK'
  <2>1. hung' \in BOOLEAN /\ damaged' \in BOOLEAN /\ up' \in BOOLEAN
    BY DEF IInv, TypeOK, Crash
  <2>2. /\ acctLock' \in Owners /\ blkLock' \in Owners
        /\ dpc' \in DaemonPCs /\ hash' \in Blocks \cup {NoHash} /\ todo' \subseteq Accounts
        /\ tpc' \in {"idle", "blk", "acct"}
    BY DEF Owners, DaemonPCs, Crash
  <2>3. /\ accepted' \subseteq Blocks /\ booked' \subseteq Blocks /\ orphaned' \subseteq Blocks
        /\ unsaved' \subseteq Blocks /\ exposed' \subseteq Blocks
        /\ crashes' \in Nat
    BY DEF IInv, TypeOK, Crash
  <2> QED BY <1>2, <1>3, <1>4, <2>1, <2>2, <2>3 DEF TypeOK
<1>6. AgreeInv'
  <2> SUFFICES ASSUME ~damaged', NEW b \in Blocks \ exposed', NEW a \in Accounts
               PROVE  balanceFile'[a][b] = IF recordFile'[b] = "booked" THEN 1 ELSE 0
    BY DEF AgreeInv, Crash
  <2>1. /\ ~damaged /\ up
        /\ recordFile' = recordFile /\ balanceFile' = balanceFile
        /\ b \notin exposed /\ b \notin unsaved
    BY DEF IInv, TypeOK, Crash
  <2>2. b # hash
    BY <2>1, BlocksAssumption DEF IInv, HashInv
  <2>3. balance[a][b] = IF record[b] = "booked" THEN 1 ELSE 0
    BY <2>1, <2>2 DEF IInv, AgreeInv, Balanced
  <2>4. record[b] = recordFile[b] /\ balance[a][b] = balanceFile[a][b]
    BY <2>1, <2>2 DEF IInv, BlkFileInv, AcctFileInv
  <2> QED BY <2>1, <2>3, <2>4
<1> QED BY <1>1, <1>5, <1>6 DEF IInv

\* The databases are read again: what was true of the files is true of the maps.
LEMMA RestartStep == ASSUME IInv, Restart PROVE IInv'
<1>1. /\ TypeOK' /\ DownInv' /\ HashInv' /\ FreshInv'
      /\ BlkFileInv' /\ AcctFileInv' /\ AgreeInv' /\ DurableInv'
    BY DEF IInv, TypeOK, Balances, Owners, Records, DaemonPCs, DownInv, HashInv, FreshInv,
           BlkFileInv, AcctFileInv, AgreeInv, Balanced, DurableInv, Restart, acctVars,
           blkVars, handlerVars, historyVars
<1>2. BookInv'
    BY DEF IInv, TypeOK, Balances, Owners, Records, DaemonPCs, DownInv, BookInv, Credited,
           Restart, acctVars, blkVars, handlerVars, historyVars
<1>3. RefundInv'
    BY DEF IInv, TypeOK, Balances, Owners, Records, DaemonPCs, DownInv, RefundInv,
           Credited, Restart, acctVars, blkVars, handlerVars, historyVars
<1>4. SharesInv'
    BY DEF IInv, TypeOK, Balances, Owners, Records, DaemonPCs, DownInv, SharesInv,
           Restart, acctVars, blkVars, handlerVars, historyVars
<1> QED BY <1>1, <1>2, <1>3, <1>4 DEF IInv

-----------------------------------------------------------------------------

\* The invariant holds initially,
LEMMA Initial == Init => IInv
<1> SUFFICES ASSUME Init PROVE IInv
    OBVIOUS
<1>1. TypeOK
  <2>1. NoBalance \in Balances /\ NoRecords \in Records /\ NoShares \in [Accounts -> SUBSET Blocks]
    BY DEF NoBalance, Balances, NoRecords, Records, NoShares
  <2> QED BY <2>1 DEF Init, TypeOK, Owners, DaemonPCs
<1>2. DownInv /\ HashInv /\ BookInv /\ RefundInv /\ DurableInv
    BY DEF Init, DownInv, HashInv, BookInv, RefundInv, DurableInv
<1>3. FreshInv /\ BlkFileInv /\ AcctFileInv /\ AgreeInv /\ SharesInv
    BY DEF Init, FreshInv, BlkFileInv, AcctFileInv, AgreeInv, Balanced, SharesInv, NoBalance,
           NoShares, NoRecords
<1> QED BY <1>1, <1>2, <1>3 DEF IInv

\* over steps that change nothing,
LEMMA Stutter == ASSUME IInv, UNCHANGED vars PROVE IInv'
BY DEF IInv, TypeOK, Balances, Owners, Records, DaemonPCs, DownInv, HashInv, FreshInv,
       BookInv, Credited, RefundInv, BlkFileInv, AcctFileInv, AgreeInv, Balanced, DurableInv,
       SharesInv, vars, acctVars, blkVars, handlerVars, historyVars

\* over every step,
LEMMA Inductive == ASSUME IInv, [Next]_vars PROVE IInv'
<1>1. CASE \E b \in Blocks : Good(b) \/ Orphan(b)
    BY <1>1, GoodStep, OrphanStep
<1>2. CASE Book
    BY <1>2, CreditStep, ClearSharesStep, BookRecordStep, BookBlkBeginStep, BookBlkEndStep,
       BookAcctBeginStep, BookAcctEndStep DEF Book
<1>3. CASE Refund
    BY <1>3, TakeBackStep, FlagStep, OrphanBlkBeginStep, OrphanBlkEndStep DEF Refund
<1>4. CASE CoinbaseSet \/ Commit
    BY <1>4, CoinbaseSetStep, CoinbaseBeginStep, CoinbaseEndStep DEF Commit
<1>5. CASE Save
    BY <1>5, TimerStep, TimerBlkBeginStep, TimerBlkEndStep, TimerAcctBeginStep,
       TimerAcctEndStep DEF Save
<1>6. CASE Crash \/ Restart
    BY <1>6, CrashStep, RestartStep
<1>7. CASE UNCHANGED vars
    BY <1>7, Stutter
<1> QED BY <1>1, <1>2, <1>3, <1>4, <1>5, <1>6, <1>7 DEF Next

\* and so in every state.
LEMMA Invariance == Spec => []IInv
BY Initial, Inductive, PTL DEF Spec

\* The balances, records and files stay well formed, over any number of crashes and torn
\* files.
THEOREM TypeCorrect == Spec => []TypeOK
<1>1. IInv => TypeOK BY DEF IInv
<1> QED BY Invariance, <1>1, PTL

\* What update_balances has returned from is on disk in both files.
THEOREM Durable == Spec => []BookingDurable
<1>1. IInv => BookingDurable BY DEF IInv, DurableInv, BookingDurable
<1> QED BY Invariance, <1>1, PTL

\* Between two packets block database and account database tell the same story about every
\* block that was not caught between its last change and the next write of acct.dat.
THEOREM Agree == Spec => []DatabasesAgree
<1>1. IInv => DatabasesAgree
    BY BlocksAssumption DEF IInv, AgreeInv, HashInv, DatabasesAgree
<1> QED BY Invariance, <1>1, PTL

\* The shares of a round are paid for once.
THEOREM PaidOnce == Spec => []SharesPaidOnce
<1>1. IInv => SharesPaidOnce BY DEF IInv, SharesInv, SharesPaidOnce
<1> QED BY Invariance, <1>1, PTL

-----------------------------------------------------------------------------
(* Refinement: both databases implement DurableStore *)

\* The account database begins as DurableStore does.
LEMMA AcctInitial == Init => AcctStore!Init
BY DEF Init, AcctStore!Init, acctMem

\* Steps that write, load or blank the account database are steps of the store; the changes
\* the daemon's handler makes happen while nobody writes.
LEMMA AcctStep == ASSUME IInv, [Next]_vars PROVE [AcctStore!Next]_(AcctStore!vars)
<1> USE DEF AcctStore!Next, AcctStore!vars, AcctStore!Update, AcctStore!BeginSave,
            AcctStore!EndSave, AcctStore!Crash, AcctStore!Load, acctMem, acctVars
<1>1. CASE \E b \in Blocks : Good(b) \/ Orphan(b)
    BY <1>1 DEF Good, Orphan
<1>2. CASE Book
    BY <1>2 DEF Book, Credit, ClearShares, BookRecord, BookBlkBegin, BookBlkEnd, BeginBlk,
            EndBlk, BookAcctBegin, BookAcctEnd, BeginAcct, EndAcct
<1>3. CASE Refund
    BY <1>3 DEF Refund, TakeBack, Flag, OrphanBlkBegin, OrphanBlkEnd, BeginBlk, EndBlk
<1>4. CASE CoinbaseSet \/ Commit
    BY <1>4 DEF Commit, CoinbaseSet, CoinbaseBegin, CoinbaseEnd, BeginAcct, EndAcct
<1>5. CASE Save
    BY <1>5 DEF Save, Timer, TimerBlkBegin, TimerBlkEnd, TimerAcctBegin, TimerAcctEnd,
            BeginBlk, EndBlk, BeginAcct, EndAcct
<1>6. CASE Crash
    BY <1>6 DEF Crash
<1>7. CASE Restart
    BY <1>7 DEF Restart, IInv, DownInv
<1>8. CASE UNCHANGED vars
    BY <1>8 DEF vars
<1> QED BY <1>1, <1>2, <1>3, <1>4, <1>5, <1>6, <1>7, <1>8 DEF Next

\* The account database is a durable store: frozen while it is written, and read back as the
\* last complete write left it.
THEOREM AcctRefines == Spec => AcctDurable
BY AcctInitial, AcctStep, Invariance, PTL DEF Spec, AcctDurable, AcctStore!Spec

\* The block database begins as DurableStore does.
LEMMA BlkInitial == Init => BlkStore!Init
BY DEF Init, BlkStore!Init

\* Every step is one of DurableStore for the block database, or leaves it alone.
LEMMA BlkStep == ASSUME IInv, [Next]_vars PROVE [BlkStore!Next]_(BlkStore!vars)
<1> USE DEF BlkStore!Next, BlkStore!vars, BlkStore!Update, BlkStore!BeginSave,
            BlkStore!EndSave, BlkStore!Crash, BlkStore!Load, blkVars
<1>1. CASE \E b \in Blocks : Good(b) \/ Orphan(b)
    BY <1>1 DEF Good, Orphan
<1>2. CASE Book
    BY <1>2 DEF Book, Credit, ClearShares, BookRecord, BookBlkBegin, BookBlkEnd, BeginBlk,
            EndBlk, BookAcctBegin, BookAcctEnd, BeginAcct, EndAcct
<1>3. CASE Refund
    BY <1>3 DEF Refund, TakeBack, Flag, OrphanBlkBegin, OrphanBlkEnd, BeginBlk, EndBlk
<1>4. CASE CoinbaseSet \/ Commit
    BY <1>4 DEF Commit, CoinbaseSet, CoinbaseBegin, CoinbaseEnd, BeginAcct, EndAcct
<1>5. CASE Save
    BY <1>5 DEF Save, Timer, TimerBlkBegin, TimerBlkEnd, TimerAcctBegin, TimerAcctEnd,
            BeginBlk, EndBlk, BeginAcct, EndAcct
<1>6. CASE Crash
    BY <1>6 DEF Crash
<1>7. CASE Restart
    BY <1>7 DEF Restart, IInv, DownInv
<1>8. CASE UNCHANGED vars
    BY <1>8 DEF vars
<1> QED BY <1>1, <1>2, <1>3, <1>4, <1>5, <1>6, <1>7, <1>8 DEF Next

\* The block database is a durable store.
THEOREM BlkRefines == Spec => BlkDurable
BY BlkInitial, BlkStep, Invariance, PTL DEF Spec, BlkDurable, BlkStore!Spec
=============================================================================
