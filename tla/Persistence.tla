----------------------------- MODULE Persistence -----------------------------
(***************************************************************************)
(* What survives the end of the process.  Block_db (blk.dat) and           *)
(* Account_db (acct.dat) are maps in memory, each with its own mutex,      *)
(* rewritten whole by WriteToDisk: from update_balances (block database    *)
(* first), from refund_payouts (block database only), on COINBASE_SET      *)
(* (account database only) and, on another thread, by the persistence      *)
(* timer (both).  Nothing makes a change of the two databases atomic.      *)
(*                                                                         *)
(* Amounts are left out: `balance` counts, in units of what a block        *)
(* credits to an account, how often it has been credited less how often it *)
(* has been taken back.  The arithmetic, and the races of the records with *)
(* the share handlers, are the subject of PayoutManager; the bytes of a    *)
(* record are that of RecordCodec, and here it is read as it was written.  *)
(* The accounts are those with shares in every round, the blocks those     *)
(* booked with a coinbase value (the first one has none).                  *)
(*                                                                         *)
(* The process ends at any point: by a signal (the destructor of Server    *)
(* joins threads that the signal handler has joined, which terminates it), *)
(* or by one of the failures of the other modules.                         *)
(***************************************************************************)
EXTENDS Integers

CONSTANTS
    Accounts,    \* keys of the account database
    Blocks,      \* hashes of the blocks the miners find, each accepted once
    MaxCrashes   \* bound on how often the process ends

NoHash == "none"    \* the handler works on no block

ASSUME BlocksAssumption == NoHash \notin Blocks
ASSUME BoundAssumption == MaxCrashes \in Nat

VARIABLES
  (* Account_db *)
    balance,      \* nAccountBalance, as the credits of each block that it contains
    paid,         \* nRoundShares, as the blocks that these shares have been paid for
    balanceFile,  \* the two in acct.dat
    paidFile,
    acctLock,     \* who is in WriteToDisk
  (* Block_db *)
    record,       \* the LLD::Block of each hash: none, booked, or flagged as orphan
    recordFile,   \* the same in blk.dat
    blkLock,      \* who is in WriteToDisk
  (* threads *)
    up,           \* the process is running
    dpc,          \* where the daemon's receive handler stands
    hash,         \* the block it handles
    todo,         \* accounts its loop has still to visit
    tpc,          \* where the persistence timer's handler stands
    hung,         \* a file ends within a record: ReadIntoMemory does not return
  (* history *)
    accepted,     \* blocks the wallet has answered with GOOD
    booked,       \* blocks for which update_balances has returned
    orphaned,     \* blocks for which refund_payouts has begun
    unsaved,      \* blocks whose last change has not been followed by a write of acct.dat
    exposed,      \* blocks that were in `unsaved` when the process ended
    damaged,      \* the process has ended during a write
    crashes       \* how often it has ended

acctMem == <<balance, paid>>
acctVars == <<balance, paid, balanceFile, paidFile, acctLock>>
blkVars == <<record, recordFile, blkLock>>
handlerVars == <<dpc, hash, todo>>
historyVars == <<accepted, booked, orphaned, unsaved, exposed, damaged, crashes>>
vars == <<acctVars, blkVars, up, handlerVars, tpc, hung, historyVars>>

Balances == [Accounts -> [Blocks -> Int]]
Owners == {"free", "daemon", "timer"}
Records == [Blocks -> {"none", "booked", "orphan"}]
DaemonPCs == {"idle", "credit", "record", "bookBlk", "bookAcct", "clear",
              "takeBack", "flag", "orphanBlk", "coinbase"}

TypeOK ==
    /\ balance \in Balances /\ balanceFile \in Balances
    /\ paid \in [Accounts -> SUBSET Blocks] /\ paidFile \in [Accounts -> SUBSET Blocks]
    /\ record \in Records /\ recordFile \in Records
    /\ acctLock \in Owners /\ blkLock \in Owners
    /\ up \in BOOLEAN /\ hung \in BOOLEAN /\ damaged \in BOOLEAN
    /\ dpc \in DaemonPCs
    /\ hash \in Blocks \cup {NoHash}
    /\ todo \subseteq Accounts
    /\ tpc \in {"idle", "blk", "acct"}
    /\ accepted \subseteq Blocks /\ booked \subseteq Blocks /\ orphaned \subseteq Blocks
    /\ unsaved \subseteq Blocks /\ exposed \subseteq Blocks
    /\ crashes \in Nat

NoBalance == [a \in Accounts |-> [b \in Blocks |-> 0]]
NoShares == [a \in Accounts |-> {}]
NoRecords == [b \in Blocks |-> "none"]

Init ==
    /\ balance = NoBalance /\ balanceFile = NoBalance
    /\ paid = NoShares /\ paidFile = NoShares
    /\ record = NoRecords /\ recordFile = NoRecords
    /\ acctLock = "free" /\ blkLock = "free"
    /\ up = TRUE
    /\ dpc = "idle" /\ hash = NoHash /\ todo = {}
    /\ tpc = "idle"
    /\ hung = FALSE
    /\ accepted = {} /\ booked = {} /\ orphaned = {} /\ unsaved = {} /\ exposed = {}
    /\ damaged = FALSE
    /\ crashes = 0

-----------------------------------------------------------------------------
(* WriteToDisk.  The mutex is held from the truncation of the file to its close. *)

BeginBlk(who) ==
    /\ up
    /\ blkLock = "free"
    /\ blkLock' = who
    /\ UNCHANGED <<acctVars, record, recordFile, up, handlerVars, tpc, hung, historyVars>>

EndBlk(who) ==
    /\ up
    /\ blkLock = who
    /\ blkLock' = "free"
    /\ recordFile' = record

BeginAcct(who) ==
    /\ up
    /\ acctLock = "free"
    /\ acctLock' = who
    /\ UNCHANGED <<balance, paid, balanceFile, paidFile, blkVars, up, handlerVars, tpc, hung,
                   historyVars>>

\* Every change is on disk now, except that of the block the daemon's handler is at.
EndAcct(who) ==
    /\ up
    /\ acctLock = who
    /\ acctLock' = "free"
    /\ balanceFile' = balance
    /\ paidFile' = paid
    /\ unsaved' = unsaved \cap {hash}

-----------------------------------------------------------------------------
(* update_balances and clear_shares, on GOOD *)

Good(b) ==
    /\ up
    /\ dpc = "idle"
    /\ b \notin accepted
    /\ dpc' = "credit"
    /\ hash' = b
    /\ todo' = Accounts
    /\ accepted' = accepted \cup {b}
    /\ unsaved' = unsaved \cup {b}
    /\ UNCHANGED <<acctVars, blkVars, up, tpc, hung, booked, orphaned, exposed, damaged, crashes>>

\* Mutant: UpdateRecord does not take the mutex.
CreditUnlocked(a) ==
    /\ up
    /\ dpc = "credit"
    /\ a \in todo
    /\ balance' = [balance EXCEPT ![a][hash] = @ + 1]
    /\ paid' = [paid EXCEPT ![a] = @ \cup {hash}]
    /\ todo' = todo \ {a}
    /\ dpc' = IF todo' = {} THEN "record" ELSE "credit"
    /\ UNCHANGED <<balanceFile, paidFile, acctLock, blkVars, up, hash, tpc, hung, historyVars>>

\* The account is credited for its shares of the round, which stay in its record.
Credit(a) ==
    /\ up
    /\ dpc = "credit"
    /\ a \in todo
    /\ acctLock = "free"
    /\ balance' = [balance EXCEPT ![a][hash] = @ + 1]
    /\ paid' = [paid EXCEPT ![a] = @ \cup {hash}]
    /\ todo' = todo \ {a}
    /\ dpc' = IF todo' = {} THEN "record" ELSE "credit"
    /\ UNCHANGED <<balanceFile, paidFile, acctLock, blkVars, up, hash, tpc, hung, historyVars>>

BookRecord ==
    /\ up
    /\ dpc = "record"
    /\ blkLock = "free"
    /\ record' = [record EXCEPT ![hash] = "booked"]
    /\ dpc' = "bookBlk"
    /\ UNCHANGED <<acctVars, recordFile, blkLock, up, hash, todo, tpc, hung, historyVars>>

\* m_block_db->WriteToDisk()
BookBlkBegin == dpc = "bookBlk" /\ BeginBlk("daemon")

BookBlkEnd ==
    /\ dpc = "bookBlk"
    /\ EndBlk("daemon")
    /\ dpc' = "bookAcct"
    /\ UNCHANGED <<acctVars, record, up, hash, todo, tpc, hung, historyVars>>

\* m_account_db->WriteToDisk()
BookAcctBegin == dpc = "bookAcct" /\ BeginAcct("daemon")

\* Mutant: the account database is not written.
BookAcctSkipped ==
    /\ dpc = "bookAcct"
    /\ acctLock = "daemon"
    /\ up
    /\ acctLock' = "free"
    /\ dpc' = "clear"
    /\ todo' = Accounts
    /\ booked' = booked \cup {hash}
    /\ UNCHANGED <<balance, paid, balanceFile, paidFile, blkVars, up, hash, tpc, hung,
                   accepted, orphaned, unsaved, exposed, damaged, crashes>>

\* update_balances returns, clear_shares begins.
BookAcctEnd ==
    /\ dpc = "bookAcct"
    /\ EndAcct("daemon")
    /\ dpc' = "clear"
    /\ todo' = Accounts
    /\ booked' = booked \cup {hash}
    /\ UNCHANGED <<balance, paid, blkVars, up, hash, tpc, hung, accepted, orphaned, exposed,
                   damaged, crashes>>

\* The handler returns, or goes on with the next account.
NextAccount(a, pc) ==
    /\ todo' = todo \ {a}
    /\ dpc' = IF todo' = {} THEN "idle" ELSE pc
    /\ hash' = IF todo' = {} THEN NoHash ELSE hash

\* Mutant: the shares are kept.
KeepShares(a) ==
    /\ up
    /\ dpc = "clear"
    /\ a \in todo
    /\ acctLock = "free"
    /\ NextAccount(a, "clear")
    /\ UNCHANGED <<acctVars, blkVars, up, tpc, hung, historyVars>>

\* clear_shares; nothing is written.
ClearShares(a) ==
    /\ up
    /\ dpc = "clear"
    /\ a \in todo
    /\ acctLock = "free"
    /\ paid' = [paid EXCEPT ![a] = {}]
    /\ NextAccount(a, "clear")
    /\ UNCHANGED <<balance, balanceFile, paidFile, acctLock, blkVars, up, tpc, hung,
                   historyVars>>

-----------------------------------------------------------------------------
(* refund_payouts, on ORPHAN_BLOCK *)

\* Mutant: the block is not looked up first.
OrphanAnyway(b) ==
    /\ up
    /\ dpc = "idle"
    /\ b \in accepted
    /\ dpc' = "takeBack"
    /\ hash' = b
    /\ todo' = Accounts
    /\ orphaned' = orphaned \cup {b}
    /\ unsaved' = unsaved \cup {b}
    /\ UNCHANGED <<acctVars, blkVars, up, tpc, hung, accepted, booked, exposed, damaged, crashes>>

\* A block without a record, or one that is flagged, is left alone.
Orphan(b) ==
    /\ up
    /\ dpc = "idle"
    /\ blkLock = "free"
    /\ record[b] = "booked"
    /\ dpc' = "takeBack"
    /\ hash' = b
    /\ todo' = Accounts
    /\ orphaned' = orphaned \cup {b}
    /\ unsaved' = unsaved \cup {b}
    /\ UNCHANGED <<acctVars, blkVars, up, tpc, hung, accepted, booked, exposed, damaged, crashes>>

TakeBack(a) ==
    /\ up
    /\ dpc = "takeBack"
    /\ a \in todo
    /\ acctLock = "free"
    /\ balance' = [balance EXCEPT ![a][hash] = @ - 1]
    /\ todo' = todo \ {a}
    /\ dpc' = IF todo' = {} THEN "flag" ELSE "takeBack"
    /\ UNCHANGED <<paid, balanceFile, paidFile, acctLock, blkVars, up, hash, tpc, hung,
                   historyVars>>

\* Mutant: the record is erased.
EraseRecord ==
    /\ up
    /\ dpc = "flag"
    /\ blkLock = "free"
    /\ record' = [b \in Blocks \ {hash} |-> record[b]]
    /\ dpc' = "orphanBlk"
    /\ UNCHANGED <<acctVars, recordFile, blkLock, up, hash, todo, tpc, hung, historyVars>>

\* Mutant: UpdateRecord does not take the mutex.
FlagUnlocked ==
    /\ up
    /\ dpc = "flag"
    /\ record' = [record EXCEPT ![hash] = "orphan"]
    /\ dpc' = "orphanBlk"
    /\ UNCHANGED <<acctVars, recordFile, blkLock, up, hash, todo, tpc, hung, historyVars>>

Flag ==
    /\ up
    /\ dpc = "flag"
    /\ blkLock = "free"
    /\ record' = [record EXCEPT ![hash] = "orphan"]
    /\ dpc' = "orphanBlk"
    /\ UNCHANGED <<acctVars, recordFile, blkLock, up, hash, todo, tpc, hung, historyVars>>

\* m_block_db->WriteToDisk(), and refund_payouts returns: acct.dat is not written.
OrphanBlkBegin == dpc = "orphanBlk" /\ BeginBlk("daemon")

OrphanBlkEnd ==
    /\ dpc = "orphanBlk"
    /\ EndBlk("daemon")
    /\ dpc' = "idle"
    /\ hash' = NoHash
    /\ UNCHANGED <<acctVars, record, up, todo, tpc, hung, historyVars>>

-----------------------------------------------------------------------------
(* COINBASE_SET and the persistence timer *)

CoinbaseSet ==
    /\ up
    /\ dpc = "idle"
    /\ dpc' = "coinbase"
    /\ UNCHANGED <<acctVars, blkVars, up, hash, todo, tpc, hung, historyVars>>

CoinbaseBegin == dpc = "coinbase" /\ BeginAcct("daemon")

CoinbaseEnd ==
    /\ dpc = "coinbase"
    /\ EndAcct("daemon")
    /\ dpc' = "idle"
    /\ UNCHANGED <<balance, paid, blkVars, up, hash, todo, tpc, hung, accepted, booked, orphaned,
                   exposed, damaged, crashes>>

Timer ==
    /\ up
    /\ tpc = "idle"
    /\ tpc' = "blk"
    /\ UNCHANGED <<acctVars, blkVars, up, handlerVars, hung, historyVars>>

TimerBlkBegin == tpc = "blk" /\ BeginBlk("timer")

\* Mutant: the timer saves the block database only.
TimerBlkEndOnly ==
    /\ tpc = "blk"
    /\ EndBlk("timer")
    /\ tpc' = "idle"
    /\ UNCHANGED <<acctVars, record, up, handlerVars, hung, historyVars>>

TimerBlkEnd ==
    /\ tpc = "blk"
    /\ EndBlk("timer")
    /\ tpc' = "acct"
    /\ UNCHANGED <<acctVars, record, up, handlerVars, hung, historyVars>>

TimerAcctBegin == tpc = "acct" /\ BeginAcct("timer")

TimerAcctEnd ==
    /\ tpc = "acct"
    /\ EndAcct("timer")
    /\ tpc' = "idle"
    /\ UNCHANGED <<balance, paid, blkVars, up, handlerVars, hung, accepted, booked, orphaned,
                   exposed, damaged, crashes>>

-----------------------------------------------------------------------------
(* The end of the process, and the next start *)

\* A file that is being written holds the records of some keys afterwards.
TornRecords == {[b \in Blocks |-> IF b \in kept THEN record[b] ELSE "none"] : kept \in SUBSET Blocks}

Crash ==
    /\ up
    /\ crashes < MaxCrashes
    /\ up' = FALSE
    /\ crashes' = crashes + 1
    /\ balance' = NoBalance /\ paid' = NoShares /\ record' = NoRecords
    /\ dpc' = "idle" /\ hash' = NoHash /\ todo' = {} /\ tpc' = "idle"
    /\ acctLock' = "free" /\ blkLock' = "free"
    /\ IF blkLock = "free" THEN UNCHANGED recordFile ELSE recordFile' \in TornRecords
    /\ IF acctLock = "free"
       THEN UNCHANGED <<balanceFile, paidFile>>
       ELSE \E kept \in SUBSET Accounts :
               /\ balanceFile' = [a \in Accounts |-> IF a \in kept THEN balance[a]
                                                                  ELSE NoBalance[a]]
               /\ paidFile' = [a \in Accounts |-> IF a \in kept THEN paid[a] ELSE {}]
    /\ IF blkLock = "free" /\ acctLock = "free"
       THEN UNCHANGED <<damaged, hung>>
       ELSE damaged' = TRUE /\ hung' \in BOOLEAN
    /\ exposed' = exposed \cup unsaved
    /\ unsaved' = {}
    /\ UNCHANGED <<accepted, booked, orphaned>>

\* The constructors of the databases read the files.
Restart ==
    /\ ~up
    /\ ~hung
    /\ up' = TRUE
    /\ balance' = balanceFile
    /\ paid' = paidFile
    /\ record' = recordFile
    /\ UNCHANGED <<balanceFile, paidFile, acctLock, recordFile, blkLock, handlerVars, tpc, hung,
                   historyVars>>

-----------------------------------------------------------------------------

Book ==
    \/ \E a \in Accounts : Credit(a) \/ ClearShares(a)
    \/ BookRecord \/ BookBlkBegin \/ BookBlkEnd \/ BookAcctBegin \/ BookAcctEnd

Refund ==
    \/ \E a \in Accounts : TakeBack(a)
    \/ Flag \/ OrphanBlkBegin \/ OrphanBlkEnd

Commit == CoinbaseBegin \/ CoinbaseEnd

Save == Timer \/ TimerBlkBegin \/ TimerBlkEnd \/ TimerAcctBegin \/ TimerAcctEnd

Next ==
    \/ \E b \in Blocks : Good(b) \/ Orphan(b)
    \/ Book \/ Refund \/ CoinbaseSet \/ Commit \/ Save
    \/ Crash \/ Restart

\* A handler that has begun goes on; the timer starts itself again; a mutex that is free
\* again and again is obtained.
Fairness ==
    /\ SF_vars(Book \/ Refund \/ Commit)
    /\ WF_vars(Timer) /\ WF_vars(TimerBlkEnd) /\ WF_vars(TimerAcctEnd)
    /\ SF_vars(TimerBlkBegin) /\ SF_vars(TimerAcctBegin)

Spec == Init /\ [][Next]_vars /\ Fairness
-----------------------------------------------------------------------------
(* Properties *)

\* A block for which update_balances has returned is booked on disk, in both files and
\* for every account, however often the process ends and whatever the timer writes in
\* between, unless it ends during a write.
BookingDurable ==
    \A b \in booked \ orphaned : ~damaged =>
        /\ recordFile[b] = "booked"
        /\ \A a \in Accounts : balanceFile[a][b] = 1

\* The accounts agree with the record of the block.
Balanced(b) == \A a \in Accounts : balance[a][b] = IF record[b] = "booked" THEN 1 ELSE 0

\* Between two packets the databases agree about every block: its credits are in all
\* accounts exactly if it is booked and not refunded, and a refund is applied once.  This
\* holds over restarts, unless the process has ended during a write or between the start
\* of the operation on the block and the next write of acct.dat.
DatabasesAgree ==
    up /\ dpc = "idle" /\ ~damaged => \A b \in Blocks \ exposed : Balanced(b)

\* Shares are paid for once: when an account is credited, the shares in its record have
\* not been paid for before.  clear_shares writes nothing, so this too is at risk until
\* acct.dat is written again.
SharesPaidOnce ==
    dpc = "credit" /\ ~damaged /\ exposed = {} => \A a \in todo : paid[a] = {}

\* A refund does not stay in memory: the accounts reach the disk, or the process ends.
RefundReachesDisk == \A b \in Blocks : b \in unsaved ~> b \notin unsaved

\* The account database is a durable store: in particular it is frozen while it is
\* written, and a restart finds what the last complete write left.
AcctStore == INSTANCE DurableStore WITH
    Blank <- <<NoBalance, NoShares>>,
    mem <- acctMem,
    saved <- IF acctLock = "free" THEN <<balanceFile, paidFile>> ELSE acctMem,
    mode <- IF ~up THEN "down" ELSE IF acctLock = "free" THEN "up" ELSE "saving"
AcctDurable == AcctStore!Spec

\* The block database is a durable store.
BlkStore == INSTANCE DurableStore WITH
    Blank <- NoRecords,
    mem <- record,
    saved <- IF blkLock = "free" THEN recordFile ELSE record,
    mode <- IF ~up THEN "down" ELSE IF blkLock = "free" THEN "up" ELSE "saving"
BlkDurable == BlkStore!Spec
=============================================================================
