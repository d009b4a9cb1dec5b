------------------------- MODULE BlockRequestsProofs -------------------------
(***************************************************************************)
(* Proofs about BlockRequests, for any finite set of connections, any      *)
(* heights and any number of requests that the counters can hold.          *)
(***************************************************************************)
EXTENDS BlockRequests, TallyProofs

-----------------------------------------------------------------------------
(* Type correctness *)

\* A miner has no more requests open than were made, its handler files one at a time, and
\* a connection that was never made has no requests.  Only an open connection has a
\* request to file, and of two entries one is ahead of the other.
CountInv ==
    /\ \A c \in Conns : want[c] <= asks
    /\ \A c \in Conns : \A m, n \in asking[c] : m = n
    /\ \A c \in Conns : conn[c] = "none" =>
           num[c] = 0 /\ want[c] = 0 /\ asking[c] = {} /\ requested[c] = 0 /\ waiting[c] = 0
    /\ \A c \in Conns : asking[c] # {} => conn[c] = "open"
    /\ \A c, d \in Conns : conn[c] # "none" /\ conn[d] # "none" =>
           c = d \/ c \in before[d] \/ d \in before[c]

\* The machine's counters.
LEMMA CounterMod == \A x \in Int : x % Word \in Counter
BY WordAssumption, BoundsAssumption DEF Counter

\* A number that fits a counter is stored as it is.
LEMMA CounterFits == \A x \in Nat : x < Word => x % Word = x
BY WordAssumption, BoundsAssumption

\* A counter holds at most the number stored in it.
LEMMA CounterLess == \A x \in Nat : x % Word \in Nat /\ x % Word <= x
<1> SUFFICES ASSUME NEW x \in Nat PROVE x % Word \in Nat /\ x % Word <= x
  OBVIOUS
<1>1. Word \in Nat \ {0}
  BY WordAssumption, BoundsAssumption
<1>2. CASE x < Word
  BY <1>2, CounterFits
<1>3. CASE x >= Word
  BY <1>1, <1>3
<1> QED
  BY <1>1, <1>2, <1>3

\* One less than a positive counter, in unsigned arithmetic.
LEMMA CounterDown == \A x \in Nat : x > 0 /\ x < Word => (x + Word - 1) % Word = x - 1
<1> SUFFICES ASSUME NEW x \in Nat, x > 0, x < Word PROVE (x + Word - 1) % Word = x - 1
  OBVIOUS
<1>1. x - 1 \in 0..Word - 1 /\ x + Word - 1 = (x - 1) + Word /\ Word \in Nat \ {0}
  BY WordAssumption, BoundsAssumption
<1> QED
  BY <1>1

\* The counters of all connections have a sum.
LEMMA CounterSum ==
    ASSUME NEW f \in [Conns -> Counter], NEW S \in SUBSET Conns
    PROVE  IsFiniteSet(Units(f, S)) /\ SumOf(f, S) \in Nat
<1>1. IsFiniteSet(S) /\ Word - 1 \in Nat
  BY ConnsAssumption, FS_Subset, WordAssumption, BoundsAssumption
<1>2. \A x \in S : f[x] \in 0..Word - 1
  BY DEF Counter
<1> QED
  BY <1>1, <1>2, SumFinite

\* Every step keeps the types.
LEMMA TypeStep ==
    ASSUME TypeOK, CountInv, [Next]_vars
    PROVE  TypeOK'
<1>0. Word \in Nat \ {0} /\ MaxAsks \in Nat /\ MaxHeight \in Nat /\ Word > MaxAsks
  BY WordAssumption, BoundsAssumption
<1> USE DEF TypeOK
<1>1. ASSUME NEW c \in Conns, NEW ip \in Addresses, Connect(c, ip) PROVE TypeOK'
  BY <1>1 DEF Connect, walletVars, historyVars
<1>2. ASSUME NEW c \in Conns, Close(c) PROVE TypeOK'
  BY <1>0, <1>2 DEF Close, entryVars, walletVars
<1>3. ASSUME NEW c \in Conns, GetBlock(c) PROVE TypeOK'
  <2>0. num[c] + 1 \in Int
    BY <1>0 DEF Counter
  <2>1. (num[c] + 1) % Word \in Counter
    BY <2>0, CounterMod
  <2> DEFINE n == (num[c] + 1) % Word
  <2>2. num' = [num EXCEPT ![c] = n] /\ asking' = [asking EXCEPT ![c] = {num'[c]}]
    BY <1>3, Zenon DEF GetBlock
  <2> HIDE DEF n
  <2>3. num' \in [Conns -> Counter] /\ asking' \in [Conns -> SUBSET Counter]
    BY <2>1, <2>2 DEF n
  <2>4. want' \in [Conns -> 0..MaxAsks] /\ asks' \in 0..MaxAsks
    BY <1>0, <1>3 DEF GetBlock, CountInv
  <2> QED
    BY <1>3, <2>3, <2>4 DEF GetBlock, entryVars, walletVars
<1>4. ASSUME NEW c \in Conns, RequestBlock(c) PROVE TypeOK'
  BY <1>4 DEF RequestBlock, walletVars, historyVars
<1>5. ASSUME NEW c \in Conns, BlockData(c) PROVE TypeOK'
  <2>0. num[c] + Word - 1 \in Int
    BY <1>0 DEF Counter
  <2>1. (num[c] + Word - 1) % Word \in Counter
    BY <2>0, CounterMod
  <2>2. num' \in [Conns -> Counter] /\ want' \in [Conns -> 0..MaxAsks]
    <3>1. CASE conn[c] = "open"
      <4> DEFINE n == (num[c] + Word - 1) % Word
      <4>1. num' = [num EXCEPT ![c] = n]
        BY <1>5, <3>1, Zenon DEF BlockData, AddBlock
      <4>2. want' = [want EXCEPT ![c] = IF @ = 0 THEN 0 ELSE @ - 1]
        BY <1>5, <3>1, Zenon DEF BlockData, AddBlock
      <4>3. num' \in [Conns -> Counter]
        BY <2>1, <4>1, Zenon
      <4>4. want \in [Conns -> 0..MaxAsks]
        OBVIOUS
      <4>5. want' \in [Conns -> 0..MaxAsks]
        BY ONLY <1>0, <4>2, <4>4
      <4> QED
        BY <4>3, <4>5, Zenon
    <3>2. CASE conn[c] # "open"
      BY <1>5, <3>2 DEF BlockData, AddBlock
    <3> QED
      BY <3>1, <3>2
  <2>3. waiting' \in [Conns -> Counter]
    BY <1>0, <1>5 DEF BlockData, FirstWaiting, Counter
  <2> QED
    BY <1>5, <2>2, <2>3 DEF BlockData
<1>6. CASE RequestBlocks
  <2>0. \A c \in Conns : waiting[c] + requested[c] \in Int
    BY <1>0 DEF Counter
  <2>1. \A c \in Conns : (waiting[c] + requested[c]) % Word \in Counter
    BY <2>0, CounterMod
  <2>2. waiting' \in [Conns -> Counter]
    BY <1>6, <2>1, Zenon DEF RequestBlocks
  <2>3. requested' \in [Conns -> Counter]
    BY <1>0, <1>6 DEF RequestBlocks, Zero, Counter
  <2>4. gets' \in Nat
    <3>1. requested \in [Conns -> Counter] /\ Conns \in SUBSET Conns /\ gets \in Nat
      OBVIOUS
    <3>2. SumOf(requested, Conns) \in Nat
      BY <3>1, CounterSum
    <3>3. gets' = gets + SumOf(requested, Conns)
      BY <1>6 DEF RequestBlocks
    <3> QED
      BY <3>1, <3>2, <3>3
  <2> QED
    BY <1>6, <2>2, <2>3, <2>4 DEF RequestBlocks, connVars, historyVars
<1>7. ASSUME NEW clears \in BOOLEAN, NewRound(clears) PROVE TypeOK'
  BY <1>0, <1>7 DEF NewRound, Zero, Counter, entryVars, walletVars
<1>8. CASE BlockHeight
  <2>1. Head(inbox) \in Packets /\ inbox' \in Seq(Packets)
    BY <1>8 DEF BlockHeight
  <2> QED
    BY <1>8, <2>1 DEF BlockHeight, Packets, connVars, entryVars, historyVars
<1>9. CASE DropBlock \/ LosePacket
  <2>1. inbox' \in Seq(Packets)
    <3>1. inbox # <<>> /\ inbox' = Tail(inbox) /\ inbox \in Seq(Packets)
      BY <1>9 DEF DropBlock, LosePacket
    <3> QED
      BY ONLY <3>1
  <2> QED
    BY <1>9, <2>1 DEF DropBlock, LosePacket, connVars, entryVars, historyVars
<1>10. CASE ReportHeight \/ SendBlock
  <2>1. PICK p \in Packets : inbox' = Append(inbox, p)
    BY <1>10 DEF ReportHeight, SendBlock, Packets
  <2>2. inbox' \in Seq(Packets)
    BY <2>1
  <2>3. gets' \in Nat
    BY <1>10 DEF ReportHeight, SendBlock
  <2> QED
    BY <1>10, <2>2, <2>3 DEF ReportHeight, SendBlock, connVars, entryVars, historyVars
<1>11. CASE CleanUp
  BY <1>11 DEF CleanUp, entryVars, walletVars, historyVars
<1>12. CASE BlockTimer \/ CoinbasePending \/ UNCHANGED vars
  BY <1>12 DEF BlockTimer, CoinbasePending, vars, connVars, entryVars, walletVars, historyVars
<1>13. CASE ChainGrows
  BY <1>0, <1>13 DEF ChainGrows, Heights, connVars, entryVars, historyVars
<1> QED
  BY <1>1, <1>2, <1>3, <1>4, <1>5, <1>6, <1>7, <1>8, <1>9, <1>10, <1>11, <1>12, <1>13 DEF Next

\* Every step keeps CountInv.
LEMMA CountStep ==
    ASSUME TypeOK, CountInv, [Next]_vars
    PROVE  CountInv'
<1>0. Word \in Nat \ {0} /\ MaxAsks \in Nat
  BY WordAssumption, BoundsAssumption
<1> USE DEF TypeOK
<1>1. ASSUME NEW c \in Conns, NEW ip \in Addresses, Connect(c, ip) PROVE CountInv'
  BY <1>1 DEF Connect, CountInv, historyVars
<1>2. ASSUME NEW c \in Conns, Close(c) PROVE CountInv'
  BY <1>2 DEF Close, CountInv, entryVars
<1>3. ASSUME NEW c \in Conns, GetBlock(c) PROVE CountInv'
  <2>1. /\ conn[c] = "open" /\ UNCHANGED <<conn, before, requested, waiting>>
        /\ asking' = [asking EXCEPT ![c] = {num'[c]}]
        /\ \A d \in Conns \ {c} : num'[d] = num[d]
    BY <1>3 DEF GetBlock, entryVars
  <2>2. asks' = asks + 1 /\ want' = [want EXCEPT ![c] = @ + 1]
    BY <1>3 DEF GetBlock
  <2>3. \A d \in Conns : want'[d] <= asks'
    BY <2>2 DEF CountInv
  <2>4. \A d \in Conns : \A m, n \in asking'[d] : m = n
    BY <2>1 DEF CountInv
  <2>5. \A d \in Conns \ {c} : want'[d] = want[d] /\ asking'[d] = asking[d]
    BY <2>1, <2>2
  <2> QED
    BY <2>1, <2>3, <2>4, <2>5 DEF CountInv
<1>4. ASSUME NEW c \in Conns, RequestBlock(c) PROVE CountInv'
  BY <1>4 DEF RequestBlock, FirstWithAddress, Lockable, CountInv, historyVars
<1>5. ASSUME NEW c \in Conns, BlockData(c) PROVE CountInv'
  <2>1. /\ conn[c] # "none" /\ UNCHANGED <<conn, before, asking, requested, asks>>
        /\ \A d \in Conns \ {c} : waiting'[d] = waiting[d]
    BY <1>5 DEF BlockData, FirstWaiting, Lockable
  <2>2. /\ \A d \in Conns \ {c} : num'[d] = num[d] /\ want'[d] = want[d]
        /\ \A d \in Conns : want'[d] <= want[d] /\ want'[d] \in Nat
    <3>1. AddBlock(c)
      BY <1>5 DEF BlockData
    <3>2. CASE conn[c] = "open"
      <4>1. want' = [want EXCEPT ![c] = IF want[c] = 0 THEN 0 ELSE want[c] - 1]
        BY <3>1, <3>2 DEF AddBlock
      <4>2. \A d \in Conns \ {c} : num'[d] = num[d]
        BY <3>1, <3>2 DEF AddBlock
      <4> QED
        BY <1>0, <4>1, <4>2
    <3>3. CASE conn[c] # "open"
      BY <1>0, <3>1, <3>3 DEF AddBlock
    <3> QED
      BY <3>2, <3>3
  <2>3. \A d \in Conns : want'[d] <= asks'
    BY <2>1, <2>2 DEF CountInv
  <2> QED
    BY <2>1, <2>2, <2>3 DEF CountInv
<1>6. CASE RequestBlocks
  <2>1. /\ UNCHANGED <<conn, before, num, asking, asks, want>>
        /\ \A c \in Conns : requested'[c] = 0 /\ waiting'[c] = (waiting[c] + requested[c]) % Word
    BY <1>6 DEF RequestBlocks, connVars, historyVars, Zero
  <2>2. \A c \in Conns : waiting[c] = 0 /\ requested[c] = 0 => waiting'[c] = 0
    BY <1>0, <2>1, CounterFits
  <2> QED
    BY <2>1, <2>2 DEF CountInv
<1>7. ASSUME NEW clears \in BOOLEAN, NewRound(clears) PROVE CountInv'
  BY <1>7 DEF NewRound, CountInv, Lockable, Zero, entryVars
<1>8. CASE CleanUp
  BY <1>8 DEF CleanUp, CountInv, entryVars, historyVars
<1>9. CASE UNCHANGED <<connVars, entryVars, historyVars>>
  BY <1>9 DEF CountInv, connVars, entryVars, historyVars
<1>10. CASE BlockTimer \/ ChainGrows \/ ReportHeight \/ SendBlock \/ BlockHeight \/ UNCHANGED vars
  BY <1>9, <1>10 DEF BlockTimer, ChainGrows, ReportHeight, SendBlock, BlockHeight, vars
<1>11. CASE DropBlock \/ LosePacket \/ CoinbasePending
  BY <1>9, <1>11 DEF DropBlock, LosePacket, CoinbasePending
<1> QED
  BY <1>1, <1>2, <1>3, <1>4, <1>5, <1>6, <1>7, <1>8, <1>10, <1>11 DEF Next

\* Every variable keeps its type: no counter leaves its width, and best heights and
\* templates are heights of the chain, whatever arrives in which order.
THEOREM TypeCorrect == Spec => [](TypeOK /\ CountInv)
<1>1. Init => TypeOK /\ CountInv
  <2> SUFFICES ASSUME Init PROVE TypeOK /\ CountInv
    OBVIOUS
  <2>1. 0 \in Counter /\ 0 \in Heights /\ 0 \in 0..MaxAsks
    BY WordAssumption, BoundsAssumption DEF Counter, Heights
  <2>2. Zero \in [Conns -> Counter] /\ Zero \in [Conns -> 0..MaxAsks]
    BY <2>1 DEF Zero
  <2>3. TypeOK
    <3>1. /\ conn \in [Conns -> {"none", "open", "closed", "gone"}]
          /\ asking \in [Conns -> SUBSET Counter] /\ before \in [Conns -> SUBSET Conns]
          /\ address \in [Conns -> Addresses \cup {NoAddress}]
          /\ alive \in BOOLEAN /\ pending \in BOOLEAN /\ tick \in BOOLEAN
      BY DEF Init
    <3>3. inbox \in Seq(Packets)
      BY DEF Init
    <3>2. /\ num \in [Conns -> Counter] /\ requested \in [Conns -> Counter]
          /\ waiting \in [Conns -> Counter] /\ want \in [Conns -> 0..MaxAsks]
          /\ best \in Heights /\ chain \in Heights /\ asks \in 0..MaxAsks /\ gets \in Nat
      BY <2>1, <2>2 DEF Init
    <3> QED
      BY <3>1, <3>2, <3>3 DEF TypeOK
  <2>4. CountInv
    BY DEF Init, CountInv, Zero
  <2> QED
    BY <2>3, <2>4
<1>2. TypeOK /\ CountInv /\ [Next]_vars => TypeOK' /\ CountInv'
  BY TypeStep, CountStep
<1> QED
  BY <1>1, <1>2, PTL DEF Spec

-----------------------------------------------------------------------------
(* The packets on their way *)

\* The places of the templates in the inbox.
DataAt(s) == {i \in DOMAIN s : s[i].kind = "data"}

\* A finite number of templates is on its way.
LEMMA DataFinite ==
    ASSUME NEW s \in Seq(Packets)
    PROVE  IsFiniteSet(DataAt(s)) /\ Cardinality(DataAt(s)) \in Nat
<1>1. DataAt(s) \subseteq 1..Len(s) /\ Len(s) \in Nat
  BY DEF DataAt
<1>2. IsFiniteSet(1..Len(s))
  BY <1>1, FS_Interval
<1> QED
  BY <1>1, <1>2, FS_Subset, FS_CardinalityType

\* Taking the first packet out removes at most that one from the templates.
LEMMA DataTail ==
    ASSUME NEW s \in Seq(Packets), s # <<>>
    PROVE  /\ Cardinality(DataAt(s)) <= Cardinality(DataAt(Tail(s))) + 1
           /\ Head(s).kind # "data" => Cardinality(DataAt(s)) <= Cardinality(DataAt(Tail(s)))
<1> DEFINE D == DataAt(s) \ {1}
           T == DataAt(Tail(s))
           m == [i \in D |-> i - 1]
<1>1. Tail(s) \in Seq(Packets) /\ Len(Tail(s)) = Len(s) - 1 /\ Len(s) \in Nat
      /\ \A i \in 1..Len(Tail(s)) : Tail(s)[i] = s[i + 1]
  OBVIOUS
<1>2. ASSUME NEW i \in D PROVE i \in Nat /\ i - 1 \in T
  <2>1. i \in 2..Len(s) /\ s[i].kind = "data"
    BY DEF DataAt
  <2>2. i - 1 \in 1..Len(Tail(s)) /\ (i - 1) + 1 = i
    BY <1>1, <2>1
  <2>3. Tail(s)[i - 1] = s[i]
    BY <1>1, <2>2
  <2>4. DOMAIN Tail(s) = 1..Len(Tail(s))
    BY <1>1
  <2> QED
    BY <2>1, <2>2, <2>3, <2>4 DEF DataAt
<1>3. m \in Injection(D, T)
  BY <1>2 DEF Injection, IsInjective
<1>4. IsFiniteSet(T) /\ Cardinality(T) \in Nat
  BY <1>1, DataFinite
<1> HIDE DEF D, T, m
<1>5. IsFiniteSet(D) /\ Cardinality(D) <= Cardinality(T)
  BY <1>3, <1>4, FS_Injection
<1>6. IsFiniteSet(DataAt(s)) /\ Cardinality(DataAt(s)) \in Nat
  BY DataFinite
<1>7. CASE 1 \in DataAt(s)
  <2>1. Head(s).kind = "data"
    BY <1>7 DEF DataAt
  <2>2. Cardinality(D) = Cardinality(DataAt(s)) - 1
    BY <1>6, <1>7, FS_RemoveElement DEF D
  <2> QED
    BY <1>4, <1>5, <1>6, <2>1, <2>2 DEF T
<1>8. CASE 1 \notin DataAt(s)
  <2>1. D = DataAt(s)
    BY <1>8 DEF D
  <2> QED
    BY <1>4, <1>5, <1>6, <2>1 DEF T
<1> QED
  BY <1>7, <1>8

\* One more packet.
LEMMA DataAppend ==
    ASSUME NEW s \in Seq(Packets), NEW p \in Packets
    PROVE  Cardinality(DataAt(Append(s, p)))
               = Cardinality(DataAt(s)) + (IF p.kind = "data" THEN 1 ELSE 0)
<1>1. Len(s) \in Nat /\ DOMAIN s = 1..Len(s) /\ DOMAIN Append(s, p) = 1..Len(s) + 1
      /\ (\A i \in 1..Len(s) : Append(s, p)[i] = s[i]) /\ Append(s, p)[Len(s) + 1] = p
  OBVIOUS
<1>2. IsFiniteSet(DataAt(s)) /\ Cardinality(DataAt(s)) \in Nat /\ Len(s) + 1 \notin DataAt(s)
  BY <1>1, DataFinite DEF DataAt
<1>3. CASE p.kind = "data"
  <2>1. DataAt(Append(s, p)) = DataAt(s) \cup {Len(s) + 1}
    BY <1>1, <1>3 DEF DataAt
  <2> QED
    BY <1>2, <1>3, <2>1, FS_AddElement
<1>4. CASE p.kind # "data"
  <2>1. DataAt(Append(s, p)) = DataAt(s)
    BY <1>1, <1>4 DEF DataAt
  <2> QED
    BY <1>2, <1>4, <2>1
<1> QED
  BY <1>3, <1>4

-----------------------------------------------------------------------------
(* The counters in step *)

\* The two halves of InStep.
Filed(c) ==
    /\ num[c] = want[c]
    /\ want[c] = Cardinality(asking[c]) + requested[c] + waiting[c]
Covered == SumOf(waiting, Lockable) <= gets + Cardinality(DataAt(inbox))

\* InStep in parts, before and after a step.
LEMMA InStepParts ==
    /\ InStep <=> (\A c \in Conns : conn[c] = "open" => Filed(c)) /\ Covered
    /\ InStep' <=> (\A c \in Conns : conn'[c] = "open" => Filed(c)') /\ Covered'
BY DEF InStep, Filed, Covered, InFlight, DataAt

\* How many requests the handler of a connection is filing: none or one.
LEMMA AskingCount ==
    ASSUME TypeOK, CountInv, NEW c \in Conns
    PROVE  /\ asking[c] = {} => Cardinality(asking[c]) = 0
           /\ \A n \in asking[c] : asking[c] = {n} /\ Cardinality(asking[c]) = 1
<1>1. ASSUME NEW n \in asking[c] PROVE asking[c] = {n}
  BY DEF CountInv
<1> QED
  BY <1>1, FS_EmptySet, FS_Singleton

\* What the types say about sums and counts.
LEMMA CoveredFacts ==
    ASSUME TypeOK
    PROVE  /\ IsFiniteSet(Units(waiting, Lockable)) /\ SumOf(waiting, Lockable) \in Nat
           /\ IsFiniteSet(Units(requested, Lockable)) /\ SumOf(requested, Lockable) \in Nat
           /\ SumOf(requested, Conns) \in Nat
           /\ SumOf(requested, Lockable) <= SumOf(requested, Conns)
           /\ gets \in Nat /\ Cardinality(DataAt(inbox)) \in Nat
<1>1. Lockable \in SUBSET Conns
  BY DEF Lockable
<1>2. waiting \in [Conns -> Counter] /\ requested \in [Conns -> Counter]
      /\ gets \in Nat /\ inbox \in Seq(Packets)
  BY DEF TypeOK
<1>3. IsFiniteSet(Units(requested, Conns)) /\ SumOf(requested, Conns) \in Nat
  BY <1>2, CounterSum
<1> QED
  BY <1>1, <1>2, <1>3, CounterSum, SumSubset, DataFinite

\* A step that leaves the counters alone keeps them in step when it loses no template.
LEMMA StayInStep ==
    ASSUME InStep, UNCHANGED <<conn, num, asking, requested, waiting, want>>, Covered'
    PROVE  InStep'
<1>1. \A c \in Conns : conn'[c] = "open" => Filed(c)'
  BY InStepParts DEF Filed
<1> QED
  BY <1>1, InStepParts

\* A new connection starts with nothing requested.
LEMMA ConnectInStep ==
    ASSUME TypeOK, CountInv, InStep, NEW c \in Conns, NEW ip \in Addresses, Connect(c, ip)
    PROVE  InStep'
<1>1. /\ UNCHANGED <<num, asking, requested, waiting, want, gets, inbox>> /\ conn[c] = "none"
      /\ conn' = [conn EXCEPT ![c] = "open"] /\ conn \in [Conns -> {"none", "open", "closed", "gone"}]
  BY DEF Connect, walletVars, historyVars, TypeOK
<1>2. num[c] = 0 /\ want[c] = 0 /\ asking[c] = {} /\ requested[c] = 0 /\ waiting[c] = 0
  BY <1>1 DEF CountInv
<1>3. Filed(c)'
  BY <1>1, <1>2, FS_EmptySet DEF Filed
<1>4. \A d \in Conns : conn'[d] = "open" => Filed(d)'
  BY <1>1, <1>3, InStepParts DEF Filed
<1>5. Lockable' = Lockable \cup {c} /\ c \notin Lockable
  BY <1>1 DEF Lockable
<1>6. SumOf(waiting, Lockable \cup {c}) = SumOf(waiting, Lockable) + 0
  <2>1. IsFiniteSet(Units(waiting, Lockable)) /\ waiting[c] \in Nat
    BY <1>2, CoveredFacts
  <2>2. SumOf(waiting, Lockable \cup {c}) = SumOf(waiting, Lockable) + waiting[c]
    BY <1>5, <2>1, SumAdd, Zenon
  <2> QED
    BY <1>2, <2>2
<1>7. Covered'
  BY <1>1, <1>5, <1>6, CoveredFacts, InStepParts DEF Covered
<1> QED
  BY <1>4, <1>7, InStepParts

\* A connection that closes, or is destroyed, takes its counters out of the account.
LEMMA LeaveInStep ==
    ASSUME TypeOK, InStep, CleanUp \/ \E c \in Conns : Close(c)
    PROVE  InStep'
<1>1. /\ UNCHANGED <<num, asking, requested, waiting, gets, inbox>>
      /\ \A d \in Conns : conn'[d] = "open" => conn[d] = "open" /\ want'[d] = want[d]
      /\ Lockable' \in SUBSET Lockable
  BY DEF CleanUp, Close, Lockable, entryVars, walletVars, historyVars, TypeOK
<1>2. \A d \in Conns : conn'[d] = "open" => Filed(d)'
  BY <1>1, InStepParts DEF Filed
<1>3. SumOf(waiting, Lockable') <= SumOf(waiting, Lockable) /\ SumOf(waiting, Lockable') \in Nat
  BY <1>1, CoveredFacts, SumSubset, SumNat
<1>4. Covered'
  BY <1>1, <1>3, CoveredFacts, InStepParts DEF Covered
<1> QED
  BY <1>2, <1>4, InStepParts

\* GET_BLOCK counts one more request and holds it for filing.
LEMMA GetBlockInStep ==
    ASSUME TypeOK, CountInv, InStep, NEW c \in Conns, GetBlock(c)
    PROVE  InStep'
<1>1. /\ UNCHANGED <<conn, requested, waiting, gets, inbox>> /\ conn[c] = "open" /\ asking[c] = {}
      /\ num' = [num EXCEPT ![c] = (@ + 1) % Word]
      /\ asking' = [asking EXCEPT ![c] = {num'[c]}]
      /\ want' = [want EXCEPT ![c] = @ + 1] /\ asks < MaxAsks
  BY Zenon DEF GetBlock, entryVars, walletVars
<1>2. /\ num \in [Conns -> Counter] /\ asking \in [Conns -> SUBSET Counter]
      /\ want \in [Conns -> 0..MaxAsks] /\ asks \in 0..MaxAsks
      /\ requested[c] \in Nat /\ waiting[c] \in Nat /\ Word \in Nat /\ MaxAsks < Word /\ MaxAsks \in Nat
  BY WordAssumption, BoundsAssumption DEF TypeOK, Counter
<1>3. /\ num[c] = want[c] /\ want[c] = 0 + requested[c] + waiting[c]
      /\ want[c] \in Nat /\ want[c] + 1 < Word
  BY <1>1, <1>2, InStepParts, AskingCount DEF Filed, CountInv
<1>4. (num[c] + 1) % Word = num[c] + 1
  BY <1>3, CounterFits
<1>5. num'[c] = num[c] + 1 /\ want'[c] = want[c] + 1 /\ asking'[c] = {num'[c]}
  BY <1>1, <1>2, <1>4
<1>6. Cardinality(asking'[c]) = 1
  BY <1>5, FS_Singleton
<1>7. Filed(c)'
  BY <1>1, <1>2, <1>3, <1>5, <1>6 DEF Filed
<1>8. \A d \in Conns \ {c} : num'[d] = num[d] /\ want'[d] = want[d] /\ asking'[d] = asking[d]
  BY <1>1, <1>2
<1>9. \A d \in Conns : conn'[d] = "open" => Filed(d)'
  BY <1>1, <1>7, <1>8, InStepParts DEF Filed
<1>10. Covered'
  BY <1>1, InStepParts DEF Covered, Lockable
<1> QED
  BY <1>9, <1>10, InStepParts

\* request_block files the request under the connection's own entry, unless an older one
\* has its address, as the one after those that are filed already.
LEMMA RequestBlockInStep ==
    ASSUME TypeOK, CountInv, InStep, NEW c \in Conns, RequestBlock(c),
           ~Overlap(c), ~Misfiled(c)
    PROVE  InStep'
<1>1. PICK e \in Conns, n \in asking[c] :
          FirstWithAddress(e, address[c]) /\ requested' = [requested EXCEPT ![e] = n]
  BY DEF RequestBlock
<1>2. e = c
  <2>1. conn[c] = "open" /\ e \in Lockable /\ c \in Lockable
    BY <1>1 DEF FirstWithAddress, CountInv, Lockable
  <2>2. e = c \/ e \in before[c] \/ c \in before[e]
    BY <2>1 DEF CountInv, Lockable
  <2>3. asking'[c] = {} /\ asking[c] # {}
    BY <1>1 DEF RequestBlock, TypeOK
  <2> QED
    BY <1>1, <2>1, <2>2, <2>3 DEF FirstWithAddress, Misfiled
<1>3. /\ UNCHANGED <<conn, num, waiting, gets, inbox, want>>
      /\ asking' = [asking EXCEPT ![c] = {}]
  BY DEF RequestBlock, walletVars, historyVars
<1>4. /\ asking \in [Conns -> SUBSET Counter] /\ requested \in [Conns -> Counter]
      /\ waiting[c] \in Nat /\ requested[c] \in Nat
  BY DEF TypeOK, Counter
<1>5. asking[c] = {n} /\ Cardinality(asking[c]) = 1
  BY <1>1, AskingCount
<1>6. asking'[c] = {} /\ Cardinality(asking'[c]) = 0
  BY <1>3, <1>4, FS_EmptySet
<1>7. n = requested[c] + 1 /\ requested'[c] = n
  BY <1>1, <1>2, <1>4, <1>5, <1>6 DEF Overlap
<1>8. ASSUME conn[c] = "open" PROVE Filed(c)'
  <2>1. num[c] = want[c] /\ want[c] = 1 + requested[c] + waiting[c]
    BY <1>5, <1>8, InStepParts DEF Filed
  <2>2. want[c] = 0 + requested'[c] + waiting[c]
    BY <1>4, <1>7, <2>1
  <2> QED
    BY <1>3, <1>6, <2>1, <2>2 DEF Filed
<1>9. \A d \in Conns \ {c} : asking'[d] = asking[d] /\ requested'[d] = requested[d]
  BY <1>1, <1>2, <1>3, <1>4
<1>10. \A d \in Conns : conn'[d] = "open" => Filed(d)'
  BY <1>3, <1>8, <1>9, InStepParts DEF Filed
<1>11. Covered'
  BY <1>3, InStepParts DEF Covered, Lockable
<1> QED
  BY <1>10, <1>11, InStepParts

\* The block timer sends a GET_BLOCK for every request it files as waiting, and more for
\* the expired entries.
LEMMA RequestBlocksInStep ==
    ASSUME TypeOK, CountInv, InStep, RequestBlocks
    PROVE  InStep'
<1>1. /\ UNCHANGED <<conn, num, asking, inbox, want>> /\ requested' = Zero
      /\ gets' = gets + SumOf(requested, Conns)
  BY DEF RequestBlocks, connVars, historyVars
<1>2. \A c \in Conns : waiting'[c] = (waiting[c] + requested[c]) % Word
  BY DEF RequestBlocks
<1>3. \A c \in Conns : waiting[c] \in Nat /\ requested[c] \in Nat /\ waiting'[c] \in Nat
                       /\ waiting'[c] <= waiting[c] + requested[c]
  <2> SUFFICES ASSUME NEW c \in Conns
               PROVE  waiting[c] \in Nat /\ requested[c] \in Nat /\ waiting'[c] \in Nat
                      /\ waiting'[c] <= waiting[c] + requested[c]
    OBVIOUS
  <2>1. waiting[c] \in Nat /\ requested[c] \in Nat
    BY WordAssumption DEF TypeOK, Counter
  <2> DEFINE x == waiting[c] + requested[c]
  <2>2. x \in Nat /\ Word \in Nat \ {0}
    BY <2>1, WordAssumption, BoundsAssumption
  <2>3. waiting'[c] = x % Word
    BY <1>2
  <2> HIDE DEF x
  <2>4. x % Word \in Nat /\ x % Word <= x
    BY <2>2, CounterLess
  <2> QED
    BY <2>1, <2>3, <2>4 DEF x
<1>4. ASSUME NEW c \in Conns, conn[c] = "open" PROVE Filed(c)'
  <2>1. Cardinality(asking[c]) \in Nat /\ want[c] \in 0..MaxAsks
    BY AskingCount DEF TypeOK
  <2>2. Filed(c)
    BY <1>4, InStepParts
  <2>3. waiting[c] + requested[c] \in Nat /\ waiting[c] + requested[c] < Word
    BY <1>3, <2>1, <2>2, WordAssumption, BoundsAssumption DEF Filed
  <2>4. waiting'[c] = waiting[c] + requested[c] /\ requested'[c] = 0
    BY <1>1, <1>2, <2>3, CounterFits DEF Zero
  <2> QED
    BY <1>1, <1>3, <2>1, <2>2, <2>4 DEF Filed
<1>5. SumOf(waiting', Lockable) <= SumOf(waiting, Lockable) + SumOf(requested, Lockable)
      /\ SumOf(waiting', Lockable) \in Nat
  <2>1. \A c \in Lockable : /\ waiting[c] \in Nat /\ requested[c] \in Nat /\ waiting'[c] \in Nat
                            /\ waiting'[c] <= waiting[c] + requested[c]
    BY <1>3 DEF Lockable
  <2>2. IsFiniteSet(Units(waiting, Lockable)) /\ IsFiniteSet(Units(requested, Lockable))
    BY CoveredFacts
  <2> QED
    BY <2>1, <2>2, SumPlus, SumNat
<1>6. Lockable' = Lockable
  BY <1>1 DEF Lockable
<1>7. Covered'
  BY <1>1, <1>5, <1>6, CoveredFacts, InStepParts DEF Covered
<1> QED
  BY <1>1, <1>4, <1>7, InStepParts

\* A delivered template is one less to wait for, to need, and to come.
LEMMA BlockDataInStep ==
    ASSUME TypeOK, CountInv, InStep, NEW c \in Conns, BlockData(c)
    PROVE  InStep'
<1>1. /\ UNCHANGED <<conn, asking, requested, gets>> /\ inbox # <<>> /\ inbox' = Tail(inbox)
      /\ c \in Lockable /\ waiting[c] > 0 /\ waiting' = [waiting EXCEPT ![c] = @ - 1] /\ AddBlock(c)
  BY DEF BlockData, FirstWaiting
<1>2. /\ num \in [Conns -> Counter] /\ want \in [Conns -> 0..MaxAsks]
      /\ waiting \in [Conns -> Counter] /\ inbox \in Seq(Packets)
      /\ \A d \in Conns : waiting[d] \in Nat /\ requested[d] \in Nat
      /\ Word \in Nat /\ MaxAsks \in Nat /\ MaxAsks < Word
  BY WordAssumption, BoundsAssumption DEF TypeOK, Counter
<1>3. /\ waiting'[c] = waiting[c] - 1 /\ waiting[c] \in Nat \ {0}
      /\ \A d \in Conns \ {c} : waiting'[d] = waiting[d]
  BY <1>1, <1>2
<1>4. \A d \in Conns \ {c} : num'[d] = num[d] /\ want'[d] = want[d]
  BY <1>1, <1>2 DEF AddBlock
<1>5. ASSUME conn[c] = "open" PROVE Filed(c)'
  <2>1. Filed(c) /\ Cardinality(asking[c]) \in Nat
    BY <1>5, InStepParts, AskingCount
  <2>2. want[c] \in Nat /\ want[c] > 0 /\ want[c] < Word /\ num[c] = want[c]
    BY <1>2, <1>3, <2>1 DEF Filed
  <2>3. num' = [num EXCEPT ![c] = (@ + Word - 1) % Word]
    BY <1>1, <1>5, Zenon DEF AddBlock
  <2>4. num'[c] = (num[c] + Word - 1) % Word
    BY <1>2, <2>3, Zenon
  <2>5. num'[c] = num[c] - 1
    BY <2>2, <2>4, CounterDown
  <2>6. want'[c] = want[c] - 1
    BY <1>1, <1>2, <1>5, <2>2 DEF AddBlock
  <2> QED
    BY <1>1, <1>2, <1>3, <2>1, <2>2, <2>5, <2>6 DEF Filed
<1>6. \A d \in Conns : conn'[d] = "open" => Filed(d)'
  BY <1>1, <1>3, <1>4, <1>5, InStepParts DEF Filed
<1>7. SumOf(waiting', Lockable) = SumOf(waiting, Lockable) - 1
  <2>1. \A d \in Lockable \ {c} : waiting'[d] = waiting[d]
    BY <1>3 DEF Lockable
  <2>2. IsFiniteSet(Units(waiting, Lockable))
    BY CoveredFacts
  <2> QED
    BY <1>1, <1>3, <2>1, <2>2, SumLess
<1>8. Cardinality(DataAt(inbox)) <= Cardinality(DataAt(inbox')) + 1
  BY <1>1, <1>2, DataTail
<1>9. Cardinality(DataAt(inbox')) \in Nat /\ Lockable' = Lockable
  <2>1. inbox' \in Seq(Packets)
    BY <1>1, <1>2
  <2> QED
    BY <1>1, <2>1, DataFinite DEF Lockable
<1>10. Covered'
  BY <1>1, <1>7, <1>8, <1>9, CoveredFacts, InStepParts DEF Covered
<1> QED
  BY <1>6, <1>10, InStepParts

\* The packets of the wallet keep the counters in step as long as no template is dropped.
LEMMA PacketInStep ==
    ASSUME TypeOK, InStep, ReportHeight \/ SendBlock \/ BlockHeight \/ DropBlock \/ LosePacket,
           ~Dropped
    PROVE  InStep'
<1>1. UNCHANGED <<conn, num, asking, requested, waiting, want>> /\ Lockable' = Lockable
  BY DEF ReportHeight, SendBlock, BlockHeight, DropBlock, LosePacket, connVars, entryVars,
     historyVars, Lockable
<1>2. inbox \in Seq(Packets) /\ chain \in Heights /\ gets \in Nat
  BY DEF TypeOK
<1>3. gets' \in Nat /\ Cardinality(DataAt(inbox')) \in Nat
      /\ gets + Cardinality(DataAt(inbox)) <= gets' + Cardinality(DataAt(inbox'))
  <2>1. CASE ReportHeight \/ SendBlock
    <3>1. PICK p \in Packets : /\ inbox' = Append(inbox, p)
                               /\ IF p.kind = "data" THEN gets > 0 /\ gets' = gets - 1
                                                     ELSE gets' = gets
      BY <1>2, <2>1 DEF ReportHeight, SendBlock, Packets
    <3>2. inbox' \in Seq(Packets)
      BY <1>2, <3>1
    <3> QED
      BY <1>2, <3>1, <3>2, DataAppend, DataFinite
  <2>2. CASE BlockHeight \/ DropBlock \/ LosePacket
    <3>1. inbox # <<>> /\ inbox' = Tail(inbox) /\ gets' = gets
      BY <2>2 DEF BlockHeight, DropBlock, LosePacket
    <3>2. Head(inbox).kind # "data"
      BY <1>1, <3>1 DEF Dropped
    <3>3. inbox' \in Seq(Packets)
      BY <1>2, <3>1
    <3>4. Cardinality(DataAt(inbox)) \in Nat /\ Cardinality(DataAt(inbox')) \in Nat
      BY <1>2, <3>3, DataFinite
    <3>5. Cardinality(DataAt(inbox)) <= Cardinality(DataAt(inbox'))
      BY <1>2, <3>1, <3>2, DataTail
    <3> QED
      BY <1>2, <3>1, <3>4, <3>5
  <2> QED
    BY <2>1, <2>2
<1>4. Covered'
  BY <1>1, <1>2, <1>3, CoveredFacts, InStepParts DEF Covered
<1> QED
  BY <1>1, <1>4, StayInStep

\* A new round that finds no request of an open connection changes nothing.
LEMMA NewRoundInStep ==
    ASSUME TypeOK, InStep, NEW clears \in BOOLEAN, NewRound(clears), \A c \in Conns : ~Overtaken(c)
    PROVE  InStep'
<1>1. UNCHANGED <<conn, asking, requested, waiting, gets, inbox>>
  BY DEF NewRound, entryVars, walletVars
<1>2. \A c \in Conns : (c \in Lockable => num'[c] = 0) /\ want'[c] = 0
  BY DEF NewRound, Zero
<1>3. ASSUME NEW c \in Conns, conn[c] = "open" PROVE Filed(c)'
  <2>1. num'[c] = 0 /\ num[c] = 0
    BY <1>1, <1>2, <1>3 DEF Lockable, Overtaken
  <2> QED
    BY <1>1, <1>2, <1>3, <2>1, InStepParts DEF Filed
<1>4. Covered'
  BY <1>1, InStepParts DEF Covered, Lockable
<1> QED
  BY <1>1, <1>3, <1>4, InStepParts

\* The three counters of GET_BLOCK, once in step, are put out of step only by a request
\* filed out of turn or under an older connection from the same ip, a new round that
\* overtakes a request, or a dropped template: for any number of miners, whatever
\* addresses they share, connections that come and go, heights and requests that the
\* counters can hold.
THEOREM StepLoss == Spec => StepLossHasCause
<1> DEFINE Cause == Dropped \/ \E c \in Conns : Overlap(c) \/ Misfiled(c) \/ Overtaken(c)
<1>1. ASSUME TypeOK, CountInv, InStep, [Next]_vars, ~Cause PROVE InStep'
  <2>1. ASSUME NEW c \in Conns, NEW ip \in Addresses, Connect(c, ip) PROVE InStep'
    BY <1>1, <2>1, ConnectInStep
  <2>2. ASSUME NEW c \in Conns, Close(c) PROVE InStep'
    BY <1>1, <2>2, LeaveInStep
  <2>3. ASSUME NEW c \in Conns, GetBlock(c) PROVE InStep'
    BY <1>1, <2>3, GetBlockInStep
  <2>4. ASSUME NEW c \in Conns, RequestBlock(c) PROVE InStep'
    BY <1>1, <2>4, RequestBlockInStep
  <2>5. ASSUME NEW c \in Conns, BlockData(c) PROVE InStep'
    BY <1>1, <2>5, BlockDataInStep
  <2>6. CASE CleanUp
    BY <1>1, <2>6, LeaveInStep
  <2>7. CASE RequestBlocks
    BY <1>1, <2>7, RequestBlocksInStep
  <2>8. CASE ReportHeight \/ SendBlock \/ BlockHeight \/ DropBlock \/ LosePacket
    BY <1>1, <2>8, PacketInStep
  <2>9. ASSUME NEW clears \in BOOLEAN, NewRound(clears) PROVE InStep'
    BY <1>1, <2>9, NewRoundInStep
  <2>10. CASE BlockTimer \/ ChainGrows \/ CoinbasePending \/ UNCHANGED vars
    <3>1. UNCHANGED <<conn, num, asking, requested, waiting, want, gets, inbox>>
      BY <2>10 DEF BlockTimer, ChainGrows, CoinbasePending, vars, connVars, entryVars, walletVars,
         historyVars
    <3>2. Covered'
      BY <1>1, <3>1, InStepParts DEF Covered, Lockable
    <3> QED
      BY <1>1, <3>1, <3>2, StayInStep
  <2> QED
    BY <1>1, <2>1, <2>2, <2>3, <2>4, <2>5, <2>6, <2>7, <2>8, <2>9, <2>10 DEF Next
<1>2. TypeOK /\ CountInv /\ [Next]_vars => [InStep /\ ~InStep' => Cause]_vars
  BY <1>1
<1> QED
  BY TypeCorrect, <1>2, PTL DEF Spec, StepLossHasCause
=============================================================================
