---------------------------- MODULE PayoutRounds -----------------------------
(***************************************************************************)
(* What the Payout_manager promises the miners, without records that are   *)
(* loaded and stored: every change of an account is atomic and of one      *)
(* account.  Shares are found and counted while a round is open; when two  *)
(* connections of one account find theirs together some may be lost, but   *)
(* one at least is counted and never more than were found.  An accepted    *)
(* block closes the round: every account is charged its payout once and    *)
(* credited its part, then the shares of every account are forgotten once, *)
(* and only then the next round opens.  An orphaned block takes the        *)
(* credits back and returns the payouts, from and to each account at most  *)
(* once.                                                                   *)
(***************************************************************************)
EXTENDS Integers

CONSTANT Accounts

VARIABLES
    balance,  \* nAccountBalance
    shares,   \* nRoundShares
    granted,  \* shares found for each account in the round
    earned,   \* credits of each account, those of orphaned blocks taken back
    paid,     \* payouts of each account, likewise
    stage,    \* "open", "paying", "closing", "taking" or "returning"
    done      \* the accounts the stage has dealt with

books == <<balance, earned, paid>>
counts == <<shares, granted>>
vars == <<books, counts, stage, done>>

Zero == [a \in Accounts |-> 0]

Init ==
    /\ balance = Zero /\ shares = Zero /\ granted = Zero
    /\ earned = Zero /\ paid = Zero
    /\ stage = "open" /\ done = {}

\* A miner's share is found to be good ...
Find(a) ==
    /\ stage = "open"
    /\ granted' = [granted EXCEPT ![a] = @ + 1]
    /\ UNCHANGED <<books, shares, stage, done>>

\* ... and counted: the count may fall when another one overtook it.
Count(a) ==
    /\ stage = "open"
    /\ \E n \in 1 .. granted[a] : shares' = [shares EXCEPT ![a] = n]
    /\ UNCHANGED <<books, granted, stage, done>>

\* One stage follows another.
Turn(from, to) ==
    /\ stage = from
    /\ stage' = to
    /\ done' = {}
    /\ UNCHANGED <<books, counts>>

\* A stage deals with an account it has not dealt with.
DealWith(at, a) ==
    /\ stage = at /\ a \notin done
    /\ done' = done \cup {a}
    /\ UNCHANGED <<counts, stage>>

\* Adds n to one account of f.
Plus(f, a, n) == [f EXCEPT ![a] = @ + n]

\* Subtracts n from the balance of an account, which does not become negative.
Less(a, n) == [balance EXCEPT ![a] = IF n > @ THEN 0 ELSE @ - n]

\* Bonus, credit and remainder of update_balances.
Credit(a) ==
    LET n == earned'[a] - earned[a]
    IN  /\ stage = "paying"
        /\ n >= 0
        /\ earned' = Plus(earned, a, n)
        /\ balance' = Plus(balance, a, n)
        /\ UNCHANGED <<paid, counts, stage, done>>

\* The payout that was in the coinbase of the block.
Charge(a) ==
    LET n == paid'[a] - paid[a]
    IN  /\ DealWith("paying", a)
        /\ n >= 0
        /\ paid' = Plus(paid, a, n)
        /\ balance' = Less(a, n)
        /\ UNCHANGED earned

\* The balances are settled when every account has been charged.
Settle == done = Accounts /\ Turn("paying", "closing")

\* clear_shares; the next round opens with the last account.
Forget(a) ==
    /\ stage = "closing" /\ a \notin done
    /\ shares' = [shares EXCEPT ![a] = 0]
    /\ granted' = [granted EXCEPT ![a] = 0]
    /\ \/ done \cup {a} # Accounts /\ stage' = "closing" /\ done' = done \cup {a}
       \/ done \cup {a} = Accounts /\ stage' = "open" /\ done' = {}
    /\ UNCHANGED books

\* refund_payouts
TakeBack(a) ==
    LET n == earned[a] - earned'[a]
    IN  /\ DealWith("taking", a)
        /\ n >= 0
        /\ earned' = Plus(earned, a, -n)
        /\ balance' = Less(a, n)
        /\ UNCHANGED paid

Return(a) ==
    LET n == paid[a] - paid'[a]
    IN  /\ DealWith("returning", a)
        /\ n >= 0
        /\ paid' = Plus(paid, a, -n)
        /\ balance' = Plus(balance, a, n)
        /\ UNCHANGED earned

Next ==
    \/ \E a \in Accounts :
        \/ Find(a) \/ Count(a)
        \/ Credit(a) \/ Charge(a) \/ Forget(a) \/ TakeBack(a) \/ Return(a)
    \/ Turn("open", "paying") \/ Settle
    \/ Turn("open", "taking") \/ Turn("taking", "returning") \/ Turn("returning", "open")

Spec == Init /\ [][Next]_vars
=============================================================================
