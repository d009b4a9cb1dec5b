---------------------------- MODULE MCRecordCodec ----------------------------
(* Instances of RecordCodec for TLC. *)
EXTENDS RecordCodec, Bitwise

\* The operator of the processor.
MachineOr(x, y) == x | y

\* Five addresses of three lengths, one more than a byte can count, and two that are padded
\* to lengths that do not fit a byte: read as 0 and as 1.
Miners == << <<0>>, <<1>>, <<1, 0, 2>>, <<2, 3>>, <<3>> >>
Padded == << <<1, 0, 0, 0>>, <<2, 1, 3, 0, 0>> >>

\* All strings of fewer than four bytes, each before those that it begins, and the padded ones:
\* the lexicographic order.
Leaf(s) == <<s>> \o SelectSeq(Padded, LAMBDA p : SubSeq(p, 1, 3) = s)
Tree(s, Sub(_)) ==
    <<s>> \o Sub(Append(s, 0)) \o Sub(Append(s, 1)) \o Sub(Append(s, 2)) \o Sub(Append(s, 3))
SubTree2(s) == Tree(s, Leaf)
SubTree1(s) == Tree(s, SubTree2)
AllStrings == Tree(<<>>, SubTree1) \* a definition of its own, which TLC evaluates once
SortedStrings == AllStrings
TwoHashes == << <<0, 1>>, <<3, 2>> >>

\* With so few entries the loops do not get past the ends of their vectors: one memory.
ZeroHeap ==
    LET zeros == [i \in 1..Byte * (Byte + 8) |-> 0] IN {[outputs |-> zeros, credits |-> zeros]}

\* Below, at and above 2^32; halves with and without common bits.
Numbers == {7, Half - 1, Half, 2 * Half + 5, Whole - 1}
SomeAccounts == [balance : Numbers, shares : {3, Half + 6}, found : {5, Half - 1},
                 key : {Miners[3], Miners[4], Padded[2]}]

\* The payouts or credits of the first n miners.
Amount == << <<1, 2, 3, 4, 5>>, <<6, Half + 2, 0, 3 * Half + 3, 9>> >>
FirstEntries(n, pattern) ==
    [a \in {Miners[i] : i \in 1..n} |-> Amount[pattern][CHOOSE i \in 1..n : Miners[i] = a]]

\* Payouts or credits of miners some of whom have padded their addresses.
PaddedEntries ==
    {[a \in S |-> 2 + Len(a)] : S \in {{Padded[1]}, {Miners[1], Padded[1], Miners[5]},
                                      {Padded[2], Miners[3]}, {Padded[1], Padded[2], Miners[2]}}}

\* update_balances: the coinbase is complete, its value that of the payouts and the fee.
Booked(outputs, credits, fee, hash) ==
    [value |-> Total(outputs) + fee,
     coinbase |-> [max |-> Total(outputs), fee |-> fee, current |-> Total(outputs),
                   outputs |-> outputs],
     credits |-> credits, round |-> 17, key |-> hash]
SomeBlocks ==
    {Booked(FirstEntries(m, p), FirstEntries(n, q), 2 * h - 2, Hashes[h]) :
        m \in {0, 3, 4, 5}, n \in {0, 3, 4, 5}, p \in 1..2, q \in 1..2, h \in 1..2}
    \cup {Booked(outputs, credits, 2, Hashes[1]) :
            outputs \in PaddedEntries \cup {FirstEntries(2, 1)},
            credits \in PaddedEntries \cup {FirstEntries(3, 2)}}
Records == [account |-> 2, block |-> 1]
=============================================================================
