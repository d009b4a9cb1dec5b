------------------------ MODULE ShareValidationProofs ------------------------
(***************************************************************************)
(* Proofs about ShareValidation, for any number of connections, templates, *)
(* nonces and heights, any addresses and any verdicts.       *)
(***************************************************************************)
EXTENDS ShareValidation, FiniteSetTheorems, TLAPS

-----------------------------------------------------------------------------
(* The inductive invariant *)

\* Who has an address, who is logged in, and who holds a block for submission.
LoginInv ==
    \A c \in Conns :
        /\ conn[c] # "none" => address[c] \in Addresses
        /\ loggedIn[c] => conn[c] # "none" /\ account[c] \in Accounts \ Banned
        /\ slot[c] # {} => conn[c] # "none"

\* The daemon's handler has locked a live connection exactly in the steps that use it.
DaemonInv ==
    /\ dpc \in {"blocks", "notify", "deliver"} => dcur \in Conns /\ conn[dcur] # "none"
    /\ dpc \in {"idle", "round"} => dcur = NoConn
    /\ \A c \in todo : conn[c] # "none"

\* An entry of m_blocks_requested is the template issued to that connection, or the
\* default block in its place.
EntryInv ==
    \A c \in Conns, h \in Hashes :
        \A n \in blocks[c][h] :
            /\ n \in {0, issued[h]}
            /\ owner[h] = c /\ issued[h] > 0 /\ best > 0

\* What the receive handler knows about its share at each point.
TaskInv ==
    \A c \in Conns :
        /\ pc[c] # "idle" =>
            /\ share[c] \in Shares
            /\ conn[c] = "open" /\ loggedIn[c]
            /\ owner[share[c][1]] = c /\ issued[share[c][1]] > 0 /\ best > 0
        /\ pc[c] = "height" => height[c] \in {0, issued[share[c][1]]}
        /\ pc[c] \in {"dup", "insert", "credit", "submit"} =>
            height[c] = issued[share[c][1]]
        /\ pc[c] \in {"credit", "submit"} => Verdict[share[c]] # "below"
        /\ pc[c] = "submit" => Verdict[share[c]] = "block" /\ credits[share[c]] > 0

\* Only verified shares of issued templates are credited.
CreditInv ==
    \A s \in Shares : credits[s] > 0 =>
        issued[s[1]] > 0 /\ owner[s[1]] \in Conns

\* The handler of c is in `at` with share s.
At(c, s, at) == share[c] = s /\ pc[c] \in at

\* Credits of s, one that is certain to follow or may follow (past the duplicate check)
\* included.
Total(c, s) == credits[s] + (IF At(c, s, {"insert", "credit"}) THEN 1 ELSE 0)

\* The count of a share in the three stages of its block's entry: in the map; in the map
\* after m_primes has been emptied; gone.
WholeInv(c, s) ==
    Workable(c, s[1]) /\ ~HalfCleared(c) =>
        /\ Total(c, s) <= 1
        /\ credits[s] > 0 \/ At(c, s, {"credit"}) => s \in primes[c]

HalfInv(c, s) ==
    Workable(c, s[1]) /\ HalfCleared(c) =>
        /\ Total(c, s) <= 2
        /\ s \in primes[c] \/ At(c, s, {"insert"}) \/ Total(c, s) <= 1

GoneInv(c, s) ==
    ~Workable(c, s[1]) =>
        /\ Total(c, s) <= 3
        /\ At(c, s, {"height", "dup"}) /\ height[c] > 0 => Total(c, s) <= 2

CountInv ==
    \A c \in Conns, s \in Shares :
        owner[s[1]] = c => WholeInv(c, s) /\ HalfInv(c, s) /\ GoneInv(c, s)

IInv ==
    /\ TypeOK
    /\ LoginInv
    /\ DaemonInv
    /\ EntryInv
    /\ TaskInv
    /\ CreditInv
    /\ CountInv
    /\ SubmissionIsGenuine


-----------------------------------------------------------------------------
(* Lemmas about the helpers *)

\* Height 0, that of the default block, is a height.
LEMMA ZeroHeight == 0 \in Heights
BY MaxHeightAssumption DEF Heights

\* The parts of a share, and that every share has a verdict.
LEMMA ShareType == \A s \in Shares : s[1] \in Hashes /\ Verdict[s] \in {"below", "share", "block"}
BY VerdictAssumption DEF Shares

\* The types of the variables of the receive handler.
TaskType ==
    /\ pc \in [Conns -> TaskPCs \cup {"idle"}]
    /\ share \in [Conns -> Shares \cup {NoShare}]
    /\ height \in [Conns -> Heights]

\* The end of the handler and a step within it keep these types.
LEMMA FinishType == ASSUME TaskType, NEW c \in Conns, Finish(c) PROVE TaskType'
BY ZeroHeight DEF TaskType, Finish

\* The same for a step from one point of the handler to the next.
LEMMA GotoType ==
    ASSUME TaskType, NEW c \in Conns, NEW l \in TaskPCs, Goto(c, l)
    PROVE  TaskType'
BY DEF TaskType, Goto

\* Remembering a share keeps the type of m_primes.
LEMMA InsertType ==
    ASSUME NEW P \in [Conns -> SUBSET Shares], NEW c \in Conns, NEW s \in Shares
    PROVE  [P EXCEPT ![c] = P[c] \cup {s}] \in [Conns -> SUBSET Shares]
OBVIOUS

-----------------------------------------------------------------------------
(* The steps *)

\* Every step keeps the types.
LEMMA TypeStep ==
    ASSUME IInv, [Next]_vars
    PROVE  TypeOK'
<1> USE DEF registryVars, connVars, mapVars, taskVars, daemonVars, historyVars
<1> USE ZeroHeight DEF IInv, TypeOK, LoginInv, TaskInv, Submission, TaskPCs, DaemonPCs,
       Registered
<1>1. ASSUME NEW c \in Conns, NEW ip \in Addresses, Connect(c, ip) PROVE TypeOK'
  BY <1>1 DEF Connect
<1>2. ASSUME NEW c \in Conns, Close(c) PROVE TypeOK'
  BY <1>2 DEF Close
<1>3. ASSUME NEW c \in Conns, CleanUp(c) PROVE TypeOK'
  BY <1>3 DEF CleanUp, NoBlocks
<1>4. ASSUME NEW c \in Conns, NEW a \in Accounts, Login(c, a) PROVE TypeOK'
  BY <1>4 DEF Login
<1>5. ASSUME NEW c \in Conns, NEW s \in Shares, Find(c, s) PROVE TypeOK'
  BY <1>5 DEF Find
<1>6. ASSUME NEW c \in Conns, CopyBlock(c) PROVE TypeOK'
  <2>1. share[c] \in Shares /\ share[c][1] \in Hashes
    BY <1>6, ShareType DEF IInv, TaskInv, CopyBlock
  <2>2. blocks' \in [Conns -> [Hashes -> SUBSET Heights]]
    BY <1>6, <2>1, ZeroHeight DEF IInv, TypeOK, CopyBlock
  <2>3. height' \in [Conns -> Heights]
    BY <1>6, <2>1, ZeroHeight DEF IInv, TypeOK, CopyBlock
  <2> QED
    BY <1>6, <2>2, <2>3 DEF IInv, TypeOK, TaskPCs, CopyBlock
<1>7. ASSUME NEW c \in Conns, CheckHeight(c) PROVE TypeOK'
  <2>1. TaskType'
    BY <1>7, FinishType, GotoType DEF IInv, TypeOK, TaskType, TaskPCs, CheckHeight
  <2> QED
    BY <1>7, <2>1 DEF IInv, TypeOK, TaskType, TaskInv, CheckHeight
<1>8. ASSUME NEW c \in Conns, CheckDuplicate(c) PROVE TypeOK'
  <2>1. TaskType'
    BY <1>8, FinishType, GotoType DEF IInv, TypeOK, TaskType, TaskPCs, CheckDuplicate
  <2> QED
    BY <1>8, <2>1 DEF IInv, TypeOK, TaskType, TaskInv, CheckDuplicate
<1>9. ASSUME NEW c \in Conns, VerifyAndInsert(c) PROVE TypeOK'
  <2>1. TaskType'
    BY <1>9, FinishType, GotoType DEF TaskType, VerifyAndInsert
  <2>2. share[c] \in Shares /\ primes \in [Conns -> SUBSET Shares]
    BY <1>9 DEF VerifyAndInsert
  <2>3. primes' \in [Conns -> SUBSET Shares]
    <3> HIDE DEF IInv
    <3> QED
      BY <1>9, <2>2, InsertType DEF VerifyAndInsert
  <2> QED
    BY <1>9, <2>1, <2>3 DEF TaskType, VerifyAndInsert
<1>10. ASSUME NEW c \in Conns, Credit(c) PROVE TypeOK'
  <2>1. TaskType'
    BY <1>10, FinishType, GotoType DEF IInv, TypeOK, TaskType, TaskPCs, Credit
  <2> QED
    BY <1>10, <2>1 DEF IInv, TypeOK, TaskType, TaskInv, Credit
<1>11. ASSUME NEW c \in Conns, SubmitBlock(c) PROVE TypeOK'
  BY <1>11 DEF SubmitBlock, Finish
<1>12. ASSUME NEW c \in Conns, ClearPrimes(c) PROVE TypeOK'
  BY <1>12 DEF ClearPrimes
<1>13. ASSUME NEW c \in Conns, TakeSubmission(c) PROVE TypeOK'
  BY <1>13 DEF TakeSubmission
<1>14. ASSUME NEW c \in Conns, NEW h \in Hashes, BlockData(c, h) PROVE TypeOK'
  BY <1>14 DEF BlockData
<1>15. CASE HeightUpdate
  BY <1>15 DEF HeightUpdate
<1>16. CASE StartRound
  BY <1>16 DEF StartRound
<1>17. CASE ClearBlocks
  BY <1>17 DEF ClearBlocks, NoBlocks
<1>18. CASE Notify
  BY <1>18 DEF Notify, Transmit
<1>19. CASE Deliver
  BY <1>19 DEF Deliver, Transmit
<1>20. CASE Restart
  BY <1>20 DEF Restart, NoBlocks
<1>21. CASE UNCHANGED vars
  BY <1>21 DEF vars
<1> QED
  BY <1>1, <1>2, <1>3, <1>4, <1>5, <1>6, <1>7, <1>8, <1>9, <1>10, <1>11, <1>12, <1>13,
     <1>14, <1>15, <1>16, <1>17, <1>18, <1>19, <1>20, <1>21 DEF Next

\* Every step keeps LoginInv.
LEMMA LoginStep ==
    ASSUME IInv, [Next]_vars
    PROVE  LoginInv'
<1> USE DEF registryVars, connVars, mapVars, taskVars, daemonVars, historyVars
<1> USE DEF IInv, TypeOK, LoginInv, TaskInv, Registered, FirstWithAddress
<1>1. ASSUME NEW c \in Conns, NEW ip \in Addresses, Connect(c, ip) PROVE LoginInv'
  BY <1>1 DEF Connect
<1>2. ASSUME NEW c \in Conns, Close(c) PROVE LoginInv'
  BY <1>2 DEF Close
<1>3. ASSUME NEW c \in Conns, CleanUp(c) PROVE LoginInv'
  BY <1>3 DEF CleanUp, NoBlocks
<1>4. ASSUME NEW c \in Conns, NEW a \in Accounts, Login(c, a) PROVE LoginInv'
  BY <1>4 DEF Login
<1>5. ASSUME NEW c \in Conns, NEW s \in Shares, Find(c, s) PROVE LoginInv'
  BY <1>5 DEF Find
<1>6. ASSUME NEW c \in Conns, CopyBlock(c) PROVE LoginInv'
  BY <1>6 DEF CopyBlock
<1>7. ASSUME NEW c \in Conns, CheckHeight(c) PROVE LoginInv'
  BY <1>7 DEF CheckHeight, Finish, Goto
<1>8. ASSUME NEW c \in Conns, CheckDuplicate(c) PROVE LoginInv'
  BY <1>8 DEF CheckDuplicate, Finish, Goto
<1>9. ASSUME NEW c \in Conns, VerifyAndInsert(c) PROVE LoginInv'
  BY <1>9 DEF VerifyAndInsert, Finish, Goto
<1>10. ASSUME NEW c \in Conns, Credit(c) PROVE LoginInv'
  BY <1>10 DEF Credit, Finish, Goto
<1>11. ASSUME NEW c \in Conns, SubmitBlock(c) PROVE LoginInv'
  BY <1>11 DEF SubmitBlock, Finish
<1>12. ASSUME NEW c \in Conns, ClearPrimes(c) PROVE LoginInv'
  BY <1>12 DEF ClearPrimes
<1>13. ASSUME NEW c \in Conns, TakeSubmission(c) PROVE LoginInv'
  BY <1>13 DEF TakeSubmission
<1>14. ASSUME NEW c \in Conns, NEW h \in Hashes, BlockData(c, h) PROVE LoginInv'
  BY <1>14 DEF BlockData
<1>15. CASE HeightUpdate
  BY <1>15 DEF HeightUpdate
<1>16. CASE StartRound
  BY <1>16 DEF StartRound
<1>17. CASE ClearBlocks
  BY <1>17 DEF ClearBlocks, NoBlocks
<1>18. CASE Notify
  BY <1>18 DEF Notify, Transmit
<1>19. CASE Deliver
  BY <1>19 DEF Deliver, Transmit
<1>20. CASE Restart
  BY <1>20 DEF Restart, NoBlocks
<1>21. CASE UNCHANGED vars
  BY <1>21 DEF vars
<1> QED
  BY <1>1, <1>2, <1>3, <1>4, <1>5, <1>6, <1>7, <1>8, <1>9, <1>10, <1>11, <1>12, <1>13,
     <1>14, <1>15, <1>16, <1>17, <1>18, <1>19, <1>20, <1>21 DEF Next

\* Every step keeps DaemonInv.
LEMMA DaemonStep ==
    ASSUME IInv, [Next]_vars
    PROVE  DaemonInv'
<1> USE DEF registryVars, connVars, mapVars, taskVars, daemonVars, historyVars
<1> USE ConnsAssumption DEF IInv, TypeOK, DaemonInv, Registered
<1>1. ASSUME NEW c \in Conns, NEW ip \in Addresses, Connect(c, ip) PROVE DaemonInv'
  BY <1>1 DEF Connect
<1>2. ASSUME NEW c \in Conns, Close(c) PROVE DaemonInv'
  BY <1>2 DEF Close
<1>3. ASSUME NEW c \in Conns, CleanUp(c) PROVE DaemonInv'
  BY <1>3 DEF CleanUp, NoBlocks
<1>4. ASSUME NEW c \in Conns, NEW a \in Accounts, Login(c, a) PROVE DaemonInv'
  BY <1>4 DEF Login
<1>5. ASSUME NEW c \in Conns, NEW s \in Shares, Find(c, s) PROVE DaemonInv'
  BY <1>5 DEF Find
<1>6. ASSUME NEW c \in Conns, CopyBlock(c) PROVE DaemonInv'
  BY <1>6 DEF CopyBlock
<1>7. ASSUME NEW c \in Conns, CheckHeight(c) PROVE DaemonInv'
  BY <1>7 DEF CheckHeight, Finish, Goto
<1>8. ASSUME NEW c \in Conns, CheckDuplicate(c) PROVE DaemonInv'
  BY <1>8 DEF CheckDuplicate, Finish, Goto
<1>9. ASSUME NEW c \in Conns, VerifyAndInsert(c) PROVE DaemonInv'
  BY <1>9 DEF VerifyAndInsert, Finish, Goto
<1>10. ASSUME NEW c \in Conns, Credit(c) PROVE DaemonInv'
  BY <1>10 DEF Credit, Finish, Goto
<1>11. ASSUME NEW c \in Conns, SubmitBlock(c) PROVE DaemonInv'
  BY <1>11 DEF SubmitBlock, Finish
<1>12. ASSUME NEW c \in Conns, ClearPrimes(c) PROVE DaemonInv'
  BY <1>12 DEF ClearPrimes
<1>13. ASSUME NEW c \in Conns, TakeSubmission(c) PROVE DaemonInv'
  BY <1>13 DEF TakeSubmission
<1>14. ASSUME NEW c \in Conns, NEW h \in Hashes, BlockData(c, h) PROVE DaemonInv'
  BY <1>14 DEF BlockData
<1>15. CASE HeightUpdate
  BY <1>15 DEF HeightUpdate
<1>16. CASE StartRound
  BY <1>16 DEF StartRound
<1>17. CASE ClearBlocks
  BY <1>17 DEF ClearBlocks, NoBlocks
<1>18. CASE Notify
  BY <1>18 DEF Notify, Transmit
<1>19. CASE Deliver
  BY <1>19 DEF Deliver, Transmit
<1>20. CASE Restart
  BY <1>20 DEF Restart, NoBlocks
<1>21. CASE UNCHANGED vars
  BY <1>21 DEF vars
<1> QED
  BY <1>1, <1>2, <1>3, <1>4, <1>5, <1>6, <1>7, <1>8, <1>9, <1>10, <1>11, <1>12, <1>13,
     <1>14, <1>15, <1>16, <1>17, <1>18, <1>19, <1>20, <1>21 DEF Next

\* Every step keeps EntryInv.
LEMMA EntryStep ==
    ASSUME IInv, [Next]_vars
    PROVE  EntryInv'
<1> USE DEF registryVars, connVars, mapVars, taskVars, daemonVars, historyVars
<1> USE ShareType, MaxHeightAssumption DEF IInv, TypeOK, EntryInv, TaskInv, DaemonInv,
       Heights
<1>1. ASSUME NEW c \in Conns, NEW ip \in Addresses, Connect(c, ip) PROVE EntryInv'
  BY <1>1 DEF Connect
<1>2. ASSUME NEW c \in Conns, Close(c) PROVE EntryInv'
  BY <1>2 DEF Close
<1>3. ASSUME NEW c \in Conns, CleanUp(c) PROVE EntryInv'
  BY <1>3 DEF CleanUp, NoBlocks
<1>4. ASSUME NEW c \in Conns, NEW a \in Accounts, Login(c, a) PROVE EntryInv'
  BY <1>4 DEF Login
<1>5. ASSUME NEW c \in Conns, NEW s \in Shares, Find(c, s) PROVE EntryInv'
  BY <1>5 DEF Find
<1>6. ASSUME NEW c \in Conns, CopyBlock(c) PROVE EntryInv'
  BY <1>6 DEF CopyBlock
<1>7. ASSUME NEW c \in Conns, CheckHeight(c) PROVE EntryInv'
  BY <1>7 DEF CheckHeight, Finish, Goto
<1>8. ASSUME NEW c \in Conns, CheckDuplicate(c) PROVE EntryInv'
  BY <1>8 DEF CheckDuplicate, Finish, Goto
<1>9. ASSUME NEW c \in Conns, VerifyAndInsert(c) PROVE EntryInv'
  BY <1>9 DEF VerifyAndInsert, Finish, Goto
<1>10. ASSUME NEW c \in Conns, Credit(c) PROVE EntryInv'
  BY <1>10 DEF Credit, Finish, Goto
<1>11. ASSUME NEW c \in Conns, SubmitBlock(c) PROVE EntryInv'
  BY <1>11 DEF SubmitBlock, Finish
<1>12. ASSUME NEW c \in Conns, ClearPrimes(c) PROVE EntryInv'
  BY <1>12 DEF ClearPrimes
<1>13. ASSUME NEW c \in Conns, TakeSubmission(c) PROVE EntryInv'
  BY <1>13 DEF TakeSubmission
<1>14. ASSUME NEW c \in Conns, NEW h \in Hashes, BlockData(c, h) PROVE EntryInv'
  BY <1>14 DEF BlockData
<1>15. CASE HeightUpdate
  BY <1>15 DEF HeightUpdate
<1>16. CASE StartRound
  BY <1>16 DEF StartRound
<1>17. CASE ClearBlocks
  BY <1>17 DEF ClearBlocks, NoBlocks
<1>18. CASE Notify
  BY <1>18 DEF Notify, Transmit
<1>19. CASE Deliver
  BY <1>19 DEF Deliver, Transmit
<1>20. CASE Restart
  BY <1>20 DEF Restart, NoBlocks
<1>21. CASE UNCHANGED vars
  BY <1>21 DEF vars
<1> QED
  BY <1>1, <1>2, <1>3, <1>4, <1>5, <1>6, <1>7, <1>8, <1>9, <1>10, <1>11, <1>12, <1>13,
     <1>14, <1>15, <1>16, <1>17, <1>18, <1>19, <1>20, <1>21 DEF Next

\* Every step keeps TaskInv.
LEMMA TaskStep ==
    ASSUME IInv, [Next]_vars
    PROVE  TaskInv'
<1> USE DEF registryVars, connVars, mapVars, taskVars, daemonVars, historyVars
<1> USE ShareType, MaxHeightAssumption DEF IInv, TypeOK, EntryInv, TaskInv, DaemonInv,
       Heights
<1>1. ASSUME NEW c \in Conns, NEW ip \in Addresses, Connect(c, ip) PROVE TaskInv'
  BY <1>1 DEF Connect
<1>2. ASSUME NEW c \in Conns, Close(c) PROVE TaskInv'
  BY <1>2 DEF Close
<1>3. ASSUME NEW c \in Conns, CleanUp(c) PROVE TaskInv'
  BY <1>3 DEF CleanUp, NoBlocks
<1>4. ASSUME NEW c \in Conns, NEW a \in Accounts, Login(c, a) PROVE TaskInv'
  BY <1>4 DEF Login
<1>5. ASSUME NEW c \in Conns, NEW s \in Shares, Find(c, s) PROVE TaskInv'
  BY <1>5 DEF Find
<1>6. ASSUME NEW c \in Conns, CopyBlock(c) PROVE TaskInv'
  <2> DEFINE h == share[c][1]
             entry == IF blocks[c][h] = {} THEN {0} ELSE blocks[c][h]
  <2>1. h \in Hashes
    BY <1>6, ShareType DEF IInv, TaskInv, CopyBlock
  <2>2. PICK n \in entry : height' = [height EXCEPT ![c] = n]
    BY <1>6 DEF CopyBlock
  <2>3. n \in {0, issued[h]}
    BY <2>1, <2>2 DEF IInv, EntryInv
  <2> QED
    BY <1>6, <2>2, <2>3 DEF IInv, TypeOK, TaskInv, CopyBlock
<1>7. ASSUME NEW c \in Conns, CheckHeight(c) PROVE TaskInv'
  BY <1>7 DEF CheckHeight, Finish, Goto
<1>8. ASSUME NEW c \in Conns, CheckDuplicate(c) PROVE TaskInv'
  BY <1>8 DEF CheckDuplicate, Finish, Goto
<1>9. ASSUME NEW c \in Conns, VerifyAndInsert(c) PROVE TaskInv'
  BY <1>9 DEF VerifyAndInsert, Finish, Goto
<1>10. ASSUME NEW c \in Conns, Credit(c) PROVE TaskInv'
  <2>1. /\ share[c] \in Shares
        /\ credits' = [credits EXCEPT ![share[c]] = credits[share[c]] + 1]
    BY <1>10 DEF Credit
  <2>2. \A s \in Shares : (credits[s] > 0 \/ s = share[c]) => credits'[s] > 0
    BY <2>1 DEF IInv, TypeOK
  <2>3. CASE Verdict[share[c]] = "block" /\ Goto(c, "submit")
    BY <1>10, <2>1, <2>2, <2>3 DEF Credit, Goto
  <2>4. CASE Finish(c)
    BY <1>10, <2>2, <2>4 DEF Credit, Finish
  <2> QED
    BY <1>10, <2>3, <2>4 DEF Credit
<1>11. ASSUME NEW c \in Conns, SubmitBlock(c) PROVE TaskInv'
  BY <1>11 DEF SubmitBlock, Finish
<1>12. ASSUME NEW c \in Conns, ClearPrimes(c) PROVE TaskInv'
  BY <1>12 DEF ClearPrimes
<1>13. ASSUME NEW c \in Conns, TakeSubmission(c) PROVE TaskInv'
  BY <1>13 DEF TakeSubmission
<1>14. ASSUME NEW c \in Conns, NEW h \in Hashes, BlockData(c, h) PROVE TaskInv'
  BY <1>14 DEF BlockData
<1>15. CASE HeightUpdate
  BY <1>15 DEF HeightUpdate
<1>16. CASE StartRound
  BY <1>16 DEF StartRound
<1>17. CASE ClearBlocks
  BY <1>17 DEF ClearBlocks, NoBlocks
<1>18. CASE Notify
  BY <1>18 DEF Notify, Transmit
<1>19. CASE Deliver
  BY <1>19 DEF Deliver, Transmit
<1>20. CASE Restart
  BY <1>20 DEF Restart, NoBlocks
<1>21. CASE UNCHANGED vars
  BY <1>21 DEF vars
<1> QED
  BY <1>1, <1>2, <1>3, <1>4, <1>5, <1>6, <1>7, <1>8, <1>9, <1>10, <1>11, <1>12, <1>13,
     <1>14, <1>15, <1>16, <1>17, <1>18, <1>19, <1>20, <1>21 DEF Next

\* Every step keeps CreditInv.
LEMMA CreditStep ==
    ASSUME IInv, [Next]_vars
    PROVE  CreditInv'
<1> USE DEF registryVars, connVars, mapVars, taskVars, daemonVars, historyVars
<1> USE ShareType DEF IInv, TypeOK, CreditInv, TaskInv
<1>1. ASSUME NEW c \in Conns, NEW ip \in Addresses, Connect(c, ip) PROVE CreditInv'
  BY <1>1 DEF Connect
<1>2. ASSUME NEW c \in Conns, Close(c) PROVE CreditInv'
  BY <1>2 DEF Close
<1>3. ASSUME NEW c \in Conns, CleanUp(c) PROVE CreditInv'
  BY <1>3 DEF CleanUp, NoBlocks
<1>4. ASSUME NEW c \in Conns, NEW a \in Accounts, Login(c, a) PROVE CreditInv'
  BY <1>4 DEF Login
<1>5. ASSUME NEW c \in Conns, NEW s \in Shares, Find(c, s) PROVE CreditInv'
  BY <1>5 DEF Find
<1>6. ASSUME NEW c \in Conns, CopyBlock(c) PROVE CreditInv'
  BY <1>6 DEF CopyBlock
<1>7. ASSUME NEW c \in Conns, CheckHeight(c) PROVE CreditInv'
  BY <1>7 DEF CheckHeight, Finish, Goto
<1>8. ASSUME NEW c \in Conns, CheckDuplicate(c) PROVE CreditInv'
  BY <1>8 DEF CheckDuplicate, Finish, Goto
<1>9. ASSUME NEW c \in Conns, VerifyAndInsert(c) PROVE CreditInv'
  BY <1>9 DEF VerifyAndInsert, Finish, Goto
<1>10. ASSUME NEW c \in Conns, Credit(c) PROVE CreditInv'
  <2> SUFFICES ASSUME NEW s \in Shares, credits'[s] > 0
               PROVE  issued'[s[1]] > 0 /\ owner'[s[1]] \in Conns
    BY DEF CreditInv
  <2>1. CASE s = share[c]
    BY <1>10, <2>1 DEF IInv, TaskInv, Credit
  <2>2. CASE s # share[c]
    BY <1>10, <2>2 DEF IInv, TypeOK, CreditInv, Credit
  <2> QED
    BY <2>1, <2>2
<1>11. ASSUME NEW c \in Conns, SubmitBlock(c) PROVE CreditInv'
  BY <1>11 DEF SubmitBlock, Finish
<1>12. ASSUME NEW c \in Conns, ClearPrimes(c) PROVE CreditInv'
  BY <1>12 DEF ClearPrimes
<1>13. ASSUME NEW c \in Conns, TakeSubmission(c) PROVE CreditInv'
  BY <1>13 DEF TakeSubmission
<1>14. ASSUME NEW c \in Conns, NEW h \in Hashes, BlockData(c, h) PROVE CreditInv'
  BY <1>14 DEF BlockData
<1>15. CASE HeightUpdate
  BY <1>15 DEF HeightUpdate
<1>16. CASE StartRound
  BY <1>16 DEF StartRound
<1>17. CASE ClearBlocks
  BY <1>17 DEF ClearBlocks, NoBlocks
<1>18. CASE Notify
  BY <1>18 DEF Notify, Transmit
<1>19. CASE Deliver
  BY <1>19 DEF Deliver, Transmit
<1>20. CASE Restart
  BY <1>20 DEF Restart, NoBlocks
<1>21. CASE UNCHANGED vars
  BY <1>21 DEF vars
<1> QED
  BY <1>1, <1>2, <1>3, <1>4, <1>5, <1>6, <1>7, <1>8, <1>9, <1>10, <1>11, <1>12, <1>13,
     <1>14, <1>15, <1>16, <1>17, <1>18, <1>19, <1>20, <1>21 DEF Next

\* Every step keeps what is known about the blocks that wait for submission.
LEMMA GenuineStep ==
    ASSUME IInv, [Next]_vars
    PROVE  SubmissionIsGenuine'
<1> USE DEF registryVars, connVars, mapVars, taskVars, daemonVars, historyVars
<1> USE ShareType DEF IInv, TypeOK, CreditInv, TaskInv, SubmissionIsGenuine, Submission
<1>1. ASSUME NEW c \in Conns, NEW ip \in Addresses, Connect(c, ip) PROVE SubmissionIsGenuine'
  BY <1>1 DEF Connect
<1>2. ASSUME NEW c \in Conns, Close(c) PROVE SubmissionIsGenuine'
  BY <1>2 DEF Close
<1>3. ASSUME NEW c \in Conns, CleanUp(c) PROVE SubmissionIsGenuine'
  BY <1>3 DEF CleanUp, NoBlocks
<1>4. ASSUME NEW c \in Conns, NEW a \in Accounts, Login(c, a) PROVE SubmissionIsGenuine'
  BY <1>4 DEF Login
<1>5. ASSUME NEW c \in Conns, NEW s \in Shares, Find(c, s) PROVE SubmissionIsGenuine'
  BY <1>5 DEF Find
<1>6. ASSUME NEW c \in Conns, CopyBlock(c) PROVE SubmissionIsGenuine'
  BY <1>6 DEF CopyBlock
<1>7. ASSUME NEW c \in Conns, CheckHeight(c) PROVE SubmissionIsGenuine'
  BY <1>7 DEF CheckHeight, Finish, Goto
<1>8. ASSUME NEW c \in Conns, CheckDuplicate(c) PROVE SubmissionIsGenuine'
  BY <1>8 DEF CheckDuplicate, Finish, Goto
<1>9. ASSUME NEW c \in Conns, VerifyAndInsert(c) PROVE SubmissionIsGenuine'
  BY <1>9 DEF VerifyAndInsert, Finish, Goto
<1>10. ASSUME NEW c \in Conns, Credit(c) PROVE SubmissionIsGenuine'
  BY <1>10 DEF Credit, Finish, Goto
<1>11. ASSUME NEW c \in Conns, SubmitBlock(c) PROVE SubmissionIsGenuine'
  BY <1>11 DEF SubmitBlock, Finish
<1>12. ASSUME NEW c \in Conns, ClearPrimes(c) PROVE SubmissionIsGenuine'
  BY <1>12 DEF ClearPrimes
<1>13. ASSUME NEW c \in Conns, TakeSubmission(c) PROVE SubmissionIsGenuine'
  BY <1>13 DEF TakeSubmission
<1>14. ASSUME NEW c \in Conns, NEW h \in Hashes, BlockData(c, h) PROVE SubmissionIsGenuine'
  BY <1>14 DEF BlockData
<1>15. CASE HeightUpdate
  BY <1>15 DEF HeightUpdate
<1>16. CASE StartRound
  BY <1>16 DEF StartRound
<1>17. CASE ClearBlocks
  BY <1>17 DEF ClearBlocks, NoBlocks
<1>18. CASE Notify
  BY <1>18 DEF Notify, Transmit
<1>19. CASE Deliver
  BY <1>19 DEF Deliver, Transmit
<1>20. CASE Restart
  BY <1>20 DEF Restart, NoBlocks
<1>21. CASE UNCHANGED vars
  BY <1>21 DEF vars
<1> QED
  BY <1>1, <1>2, <1>3, <1>4, <1>5, <1>6, <1>7, <1>8, <1>9, <1>10, <1>11, <1>12, <1>13,
     <1>14, <1>15, <1>16, <1>17, <1>18, <1>19, <1>20, <1>21 DEF Next

\* The counts of the three stages are at most three.
LEMMA ThriceLemma == IInv => CountedAtMostThrice
<1> SUFFICES ASSUME IInv, NEW s \in Shares PROVE credits[s] <= 3
  BY DEF CountedAtMostThrice
<1>1. credits[s] \in Nat
  BY DEF IInv, TypeOK
<1>2. CASE credits[s] > 0
  BY <1>1, <1>2 DEF IInv, CreditInv, CountInv, WholeInv, HalfInv, GoneInv, Total
<1> QED
  BY <1>1, <1>2

\* Every step keeps the count of share t, whose block went to connection d.
LEMMA CountStep ==
    ASSUME IInv, NEW d \in Conns, NEW t \in Shares, owner'[t[1]] = d, [Next]_vars
    PROVE  WholeInv(d, t)' /\ HalfInv(d, t)' /\ GoneInv(d, t)'
<1> USE DEF registryVars, connVars, mapVars, taskVars, daemonVars, historyVars
<1> USE ShareType, ConnsAssumption DEF IInv, TypeOK, EntryInv, TaskInv, CreditInv,
       DaemonInv, CountInv, WholeInv, HalfInv, GoneInv, Total, At, Workable, HalfCleared
<1>1. ASSUME NEW c \in Conns, NEW ip \in Addresses, Connect(c, ip)
      PROVE  WholeInv(d, t)' /\ HalfInv(d, t)' /\ GoneInv(d, t)'
  BY <1>1 DEF Connect
<1>2. ASSUME NEW c \in Conns, Close(c)
      PROVE  WholeInv(d, t)' /\ HalfInv(d, t)' /\ GoneInv(d, t)'
  BY <1>2 DEF Close
<1>3. ASSUME NEW c \in Conns, CleanUp(c)
      PROVE  WholeInv(d, t)' /\ HalfInv(d, t)' /\ GoneInv(d, t)'
  BY <1>3 DEF CleanUp, NoBlocks
<1>4. ASSUME NEW c \in Conns, NEW a \in Accounts, Login(c, a)
      PROVE  WholeInv(d, t)' /\ HalfInv(d, t)' /\ GoneInv(d, t)'
  BY <1>4 DEF Login
<1>5. ASSUME NEW c \in Conns, NEW s \in Shares, Find(c, s)
      PROVE  WholeInv(d, t)' /\ HalfInv(d, t)' /\ GoneInv(d, t)'
  BY <1>5 DEF Find
<1>6. ASSUME NEW c \in Conns, CopyBlock(c)
      PROVE  WholeInv(d, t)' /\ HalfInv(d, t)' /\ GoneInv(d, t)'
  <2>1. share[c] \in Shares /\ share[c][1] \in Hashes
    BY <1>6 DEF CopyBlock
  <2>2. blocks[c][share[c][1]] \subseteq Heights
    BY <2>1
  <2>3. PICK n \in Heights : height' = [height EXCEPT ![c] = n]
    <3> HIDE DEF IInv
    <3> QED
      BY <1>6, <2>2, ZeroHeight DEF CopyBlock
  <2>4. CASE share[c] # t \/ d # c
    BY <1>6, <2>3, <2>1, <2>4 DEF CopyBlock
  <2>5. CASE share[c] = t /\ d = c
    BY <1>6, <2>3, <2>1, <2>5 DEF CopyBlock
  <2> QED
    BY <2>4, <2>5
<1>7. ASSUME NEW c \in Conns, CheckHeight(c)
      PROVE  WholeInv(d, t)' /\ HalfInv(d, t)' /\ GoneInv(d, t)'
  BY <1>7 DEF CheckHeight, Finish, Goto
<1>8. ASSUME NEW c \in Conns, CheckDuplicate(c)
      PROVE  WholeInv(d, t)' /\ HalfInv(d, t)' /\ GoneInv(d, t)'
  BY <1>8 DEF CheckDuplicate, Finish, Goto
<1>9. ASSUME NEW c \in Conns, VerifyAndInsert(c)
      PROVE  WholeInv(d, t)' /\ HalfInv(d, t)' /\ GoneInv(d, t)'
  BY <1>9 DEF VerifyAndInsert, Finish, Goto
<1>10. ASSUME NEW c \in Conns, Credit(c)
      PROVE  WholeInv(d, t)' /\ HalfInv(d, t)' /\ GoneInv(d, t)'
  BY <1>10 DEF Credit, Finish, Goto
<1>11. ASSUME NEW c \in Conns, SubmitBlock(c)
      PROVE  WholeInv(d, t)' /\ HalfInv(d, t)' /\ GoneInv(d, t)'
  BY <1>11 DEF SubmitBlock, Finish
<1>12. ASSUME NEW c \in Conns, ClearPrimes(c)
      PROVE  WholeInv(d, t)' /\ HalfInv(d, t)' /\ GoneInv(d, t)'
  BY <1>12 DEF ClearPrimes
<1>13. ASSUME NEW c \in Conns, TakeSubmission(c)
      PROVE  WholeInv(d, t)' /\ HalfInv(d, t)' /\ GoneInv(d, t)'
  BY <1>13 DEF TakeSubmission
<1>14. ASSUME NEW c \in Conns, NEW h \in Hashes, BlockData(c, h)
      PROVE  WholeInv(d, t)' /\ HalfInv(d, t)' /\ GoneInv(d, t)'
  BY <1>14 DEF BlockData
<1>15. CASE HeightUpdate
  BY <1>15 DEF HeightUpdate
<1>16. CASE StartRound
  BY <1>16 DEF StartRound
<1>17. CASE ClearBlocks
  BY <1>17 DEF ClearBlocks, NoBlocks
<1>18. CASE Notify
  BY <1>18 DEF Notify, Transmit
<1>19. CASE Deliver
  BY <1>19 DEF Deliver, Transmit
<1>20. CASE Restart
  <2>1. blocks'[d][t[1]] = {} /\ pc'[d] = "idle"
    BY <1>20 DEF Restart, NoBlocks
  <2>2. credits[t] <= 3
    BY ThriceLemma DEF CountedAtMostThrice
  <2> QED
    BY <1>20, <2>1, <2>2 DEF Restart
<1>21. CASE UNCHANGED vars
  BY <1>21 DEF vars
<1> QED
  BY <1>1, <1>2, <1>3, <1>4, <1>5, <1>6, <1>7, <1>8, <1>9, <1>10, <1>11, <1>12, <1>13,
     <1>14, <1>15, <1>16, <1>17, <1>18, <1>19, <1>20, <1>21 DEF Next

-----------------------------------------------------------------------------
(* The theorems *)

\* The invariant holds when the pool starts.
LEMMA InitInv == Init => IInv
<1> SUFFICES ASSUME Init PROVE IInv
  OBVIOUS
<1>1. TypeOK
  BY ZeroHeight DEF Init, TypeOK, NoBlocks
<1>2. LoginInv /\ DaemonInv /\ EntryInv /\ TaskInv /\ CreditInv /\ SubmissionIsGenuine
  BY ShareType DEF Init, LoginInv, DaemonInv, EntryInv, TaskInv, CreditInv,
                   SubmissionIsGenuine, NoBlocks
<1>3. CountInv
  BY ShareType, ConnsAssumption DEF Init, CountInv
<1> QED
  BY <1>1, <1>2, <1>3 DEF IInv

\* The conjunction above is inductive.
THEOREM Inductive == Spec => []IInv
<1>1. IInv /\ [Next]_vars => IInv'
  <2> SUFFICES ASSUME IInv, [Next]_vars PROVE IInv'
    OBVIOUS
  <2>1. CountInv'
    BY CountStep DEF CountInv
  <2> QED
    BY <2>1, TypeStep, LoginStep, DaemonStep, EntryStep, TaskStep, CreditStep,
       GenuineStep DEF IInv
<1> QED
  BY <1>1, InitInv, PTL DEF Spec

\* Every variable keeps its type.
THEOREM TypeCorrect == Spec => []TypeOK
BY Inductive, PTL DEF IInv

\* No share is credited more than three times, however new_round interleaves with the
\* validation of shares, whatever the number of connections, templates and heights.
THEOREM AtMostThrice == Spec => []CountedAtMostThrice
BY ThriceLemma, Inductive, PTL

\* While its block can be found in m_blocks_requested, a credited share is in m_primes,
\* except between the two clears of new_round.
THEOREM Remembered == Spec => []RememberedWhileWorkable
<1>1. IInv => RememberedWhileWorkable
  BY ShareType DEF IInv, RememberedWhileWorkable, EntryInv, CountInv, WholeInv, Workable
<1> QED
  BY <1>1, Inductive, PTL

\* Only a share of a template issued to this connection passes the height check: the
\* default block of operator[] never does.
THEOREM OnlyIssued == Spec => []OnlyIssuedBlocksPass
<1>1. IInv => OnlyIssuedBlocksPass
  BY DEF IInv, OnlyIssuedBlocksPass, TaskInv, LoginInv
<1> QED
  BY <1>1, Inductive, PTL

\* Every block that waits for submission was verified and credited.
THEOREM Genuine == Spec => []SubmissionIsGenuine
BY Inductive, PTL DEF IInv

-----------------------------------------------------------------------------
(* The lookup by address *)

\* The order of m_pool_connections: no entry is ahead of itself, what is ahead of an
\* entry is live, and what is ahead of that is ahead of the entry too; of two live entries
\* one is ahead.  The vector is finite, since entries come one at a time.
OrderInv ==
    /\ IsFiniteSet(Registered)
    /\ \A c \in Conns : before[c] \subseteq Registered \ {c}
    /\ \A c \in Conns : \A d \in before[c] : before[d] \subseteq before[c]
    /\ \A c, d \in Registered : c = d \/ c \in before[d] \/ d \in before[c]

\* Among live entries there is one that no other of them is ahead of.
LEMMA FirstEntry ==
    ASSUME OrderInv, NEW S \in SUBSET Registered, S # {}
    PROVE  \E e \in S : before[e] \cap S = {}
<1> DEFINE R == StrictSubsetOrdering(Registered)
           T == {before[e] : e \in S}
<1>1. S \subseteq Conns
  BY DEF Registered
<1>2. T \subseteq FiniteSubsetsOf(Registered) /\ T # {}
  BY <1>1, FS_FiniteSubsetsOfFinite DEF OrderInv
<1>3. IsWellFoundedOn(R, FiniteSubsetsOf(Registered))
  BY FS_StrictSubsetOrderingWellFounded
<1>4. PICK x \in T : \A y \in T : ~(<<y, x>> \in R)
  BY <1>2, <1>3, WFMin
<1>5. PICK e \in S : x = before[e]
  BY <1>4
<1>6. ASSUME NEW d \in S, d \in before[e] PROVE FALSE
  <2>1. before[d] \subseteq before[e] /\ d \notin before[d] /\ before[e] \subseteq Registered
    BY <1>1, <1>6 DEF OrderInv
  <2>2. <<before[d], before[e]>> \in R
    BY <1>6, <2>1 DEF StrictSubsetOrdering
  <2> QED
    BY <1>4, <1>5, <1>6, <2>2
<1> QED
  BY <1>6

\* Every step keeps the order.
LEMMA OrderStep ==
    ASSUME IInv, OrderInv, [Next]_vars
    PROVE  OrderInv'
<1> USE DEF registryVars, connVars, mapVars, taskVars, daemonVars, historyVars
<1>0. /\ conn \in [Conns -> {"none", "open", "closed"}]
      /\ before \in [Conns -> SUBSET Conns]
  BY DEF IInv, TypeOK
<1>1. CASE UNCHANGED <<conn, before>>
  BY <1>1 DEF OrderInv, Registered
<1>2. ASSUME NEW c \in Conns, NEW ip \in Addresses, Connect(c, ip) PROVE OrderInv'
  <2>1. c \notin Registered /\ Registered' = Registered \cup {c}
    BY <1>0, <1>2 DEF Connect, Registered
  <2>2. IsFiniteSet(Registered')
    BY <2>1, FS_AddElement DEF OrderInv
  <2>3. \A d \in Conns : before'[d] = IF d = c THEN Registered ELSE before[d]
    BY <1>0, <1>2 DEF Connect
  <2>4. Registered \subseteq Conns
    BY DEF Registered
  <2> QED
    BY <1>0, <2>1, <2>2, <2>3, <2>4 DEF OrderInv
<1>3. ASSUME NEW c \in Conns, Close(c) PROVE OrderInv'
  <2>1. Registered' = Registered /\ UNCHANGED before
    BY <1>0, <1>3 DEF Close, Registered
  <2> QED
    BY <2>1 DEF OrderInv
<1>4. ASSUME NEW c \in Conns, CleanUp(c) PROVE OrderInv'
  <2>1. Registered' = Registered \ {c}
    BY <1>0, <1>4 DEF CleanUp, Registered
  <2>2. IsFiniteSet(Registered')
    BY <2>1, FS_RemoveElement DEF OrderInv
  <2>3. \A d \in Conns : before'[d] = IF d = c THEN {} ELSE before[d] \ {c}
    BY <1>4 DEF CleanUp
  <2>4. ASSUME NEW d \in Conns PROVE before'[d] \subseteq Registered' \ {d}
    <3>1. before[d] \subseteq Registered \ {d}
      BY DEF OrderInv
    <3> QED
      BY <2>1, <2>3, <3>1
  <2>5. ASSUME NEW d \in Conns, NEW e \in before'[d] PROVE before'[e] \subseteq before'[d]
    <3>1. d # c /\ e # c /\ e \in before[d] /\ e \in Conns
      BY <1>0, <2>3
    <3> QED
      BY <2>3, <3>1 DEF OrderInv
  <2>6. ASSUME NEW d \in Registered', NEW e \in Registered'
        PROVE  d = e \/ d \in before'[e] \/ e \in before'[d]
    <3>1. d \in Registered /\ e \in Registered /\ d # c /\ e # c /\ d \in Conns /\ e \in Conns
      BY <2>1 DEF Registered
    <3> QED
      BY <2>3, <3>1 DEF OrderInv
  <2> QED
    BY <2>2, <2>4, <2>5, <2>6 DEF OrderInv
<1>5. CASE Restart
  <2>1. Registered' = {} /\ \A c \in Conns : before'[c] = {}
    BY <1>5 DEF Restart, Registered
  <2> QED
    BY <2>1, FS_EmptySet DEF OrderInv
<1> QED
  BY <1>1, <1>2, <1>3, <1>4, <1>5
  DEF Next, vars, Login, Find, CopyBlock, CheckHeight, CheckDuplicate, VerifyAndInsert,
      Credit, SubmitBlock, ClearPrimes, TakeSubmission, BlockData, HeightUpdate,
      StartRound, ClearBlocks, Notify, Deliver

\* The order holds in every behaviour.
LEMMA Ordered == Spec => []OrderInv
<1>1. Init => OrderInv
  <2> SUFFICES ASSUME Init PROVE OrderInv
    OBVIOUS
  <2>1. Registered = {} /\ \A c \in Conns : before[c] = {}
    BY DEF Init, Registered
  <2> QED
    BY <2>1, FS_EmptySet DEF OrderInv
<1>2. IInv /\ OrderInv /\ [Next]_vars => OrderInv'
  BY OrderStep
<1> QED
  BY <1>1, <1>2, Inductive, PTL DEF Spec

\* find_pool_connection always finds an entry for a miner that submits a block: the
\* connection's own entry is live as long as its handler runs, so among the entries with
\* its address there is a first one.  ("this shouldn't happen" indeed does not.)
THEOREM LookupFinds == Spec => []LookupSucceeds
<1>1. IInv /\ OrderInv => LookupSucceeds
  <2> SUFFICES ASSUME IInv, OrderInv, NEW c \in Conns, pc[c] = "submit"
               PROVE  \E e \in Conns : FirstWithAddress(e, address[c])
    BY DEF LookupSucceeds
  <2> DEFINE S == {e \in Registered : address[e] = address[c]}
  <2>1. c \in S
    BY DEF IInv, TaskInv, Registered
  <2>2. PICK e \in S : before[e] \cap S = {}
    BY <2>1, FirstEntry
  <2>3. e \in Conns /\ before[e] \subseteq Registered
    BY DEF Registered, OrderInv
  <2> QED
    BY <2>2, <2>3 DEF FirstWithAddress
<1> QED
  BY <1>1, Inductive, Ordered, PTL

-----------------------------------------------------------------------------
(* The block finder *)

\* The account of an entry that holds its own block cannot change any more; an entry that
\* holds the block of another one was there before it, with the same address.
FinderInv ==
    \A c \in Conns : \A b \in slot[c] :
        \/ b.from = c /\ loggedIn[c] /\ b.by = account[c]
        \/ /\ b.from # c
           /\ b.ip = address[c]
           /\ conn[b.from] # "none" => c \in before[b.from]

\* The bonus goes to the account that found the block, or the lookup by ip led to an older
\* connection from the finder's ip: whatever addresses the connections have or share.
THEOREM FinderKept == Spec => []FinderKeepsBonus
<1>1. Init => FinderInv
  BY DEF Init, FinderInv
<1>2. IInv /\ OrderInv /\ FinderInv /\ [Next]_vars => FinderInv'
  <2> SUFFICES ASSUME IInv, OrderInv, FinderInv, [Next]_vars PROVE FinderInv'
    OBVIOUS
  <2> USE DEF registryVars, connVars, mapVars, taskVars, daemonVars, historyVars
  <2>1. ASSUME NEW c \in Conns, SubmitBlock(c) PROVE FinderInv'
    <3>1. c \in Registered /\ loggedIn[c]
      BY <2>1 DEF IInv, TaskInv, SubmitBlock, Registered
    <3>2. PICK e \in Conns :
            /\ FirstWithAddress(e, address[c])
            /\ slot' = [slot EXCEPT ![e] =
                  IF slot[e] # {} THEN slot[e]
                  ELSE {[share |-> share[c], height |-> height[c],
                         by |-> account[c], from |-> c, ip |-> address[c]]}]
      BY <2>1 DEF SubmitBlock
    <3>3. e = c \/ e \in before[c]
      BY <3>1, <3>2 DEF FirstWithAddress, OrderInv
    <3> QED
      BY <2>1, <3>1, <3>2, <3>3 DEF IInv, TypeOK, FinderInv, SubmitBlock, FirstWithAddress
  <2>2. ASSUME NEW c \in Conns, CleanUp(c) PROVE FinderInv'
    BY <2>2 DEF IInv, TypeOK, Submission, FinderInv, CleanUp
  <2>3. ASSUME NEW c \in Conns, TakeSubmission(c) PROVE FinderInv'
    BY <2>3 DEF IInv, TypeOK, FinderInv, TakeSubmission
  <2>4. ASSUME NEW c \in Conns, NEW a \in Accounts, Login(c, a) PROVE FinderInv'
    BY <2>4 DEF IInv, TypeOK, FinderInv, Login
  <2>5. ASSUME NEW c \in Conns, NEW ip \in Addresses, Connect(c, ip) PROVE FinderInv'
    BY <2>5 DEF IInv, TypeOK, Submission, LoginInv, FinderInv, Connect, Registered
  <2>6. ASSUME NEW c \in Conns, Close(c) PROVE FinderInv'
    BY <2>6 DEF IInv, TypeOK, Submission, FinderInv, Close
  <2>7. CASE Restart
    BY <2>7 DEF FinderInv, Restart
  <2>8. CASE UNCHANGED <<slot, loggedIn, account, address, conn, before>>
    BY <2>8 DEF FinderInv
  <2> QED
    BY <2>1, <2>2, <2>3, <2>4, <2>5, <2>6, <2>7, <2>8
    DEF Next, vars, Find, CopyBlock, CheckHeight, CheckDuplicate, VerifyAndInsert, Credit,
        ClearPrimes, BlockData, HeightUpdate, StartRound, ClearBlocks, Notify, Deliver
<1>3. FinderInv => FinderKeepsBonus
  BY DEF FinderInv, FinderKeepsBonus
<1> QED
  BY <1>1, <1>2, <1>3, Inductive, Ordered, PTL DEF Spec
=============================================================================
