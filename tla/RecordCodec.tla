----------------------------- MODULE RecordCodec -----------------------------
(***************************************************************************)
(* The files acct.dat and blk.dat byte by byte: what a record is after it  *)
(* has been written by WriteToDisk and read by ReadIntoMemory.             *)
(*                                                                         *)
(* Numbers are written four bytes at a time, the low half of a 64-bit one  *)
(* first.  bytes2uint64 shifts the high half by 32 as a 32-bit value,      *)
(* which is undefined: the build keeps the value as it is (the processor   *)
(* takes the distance modulo 32) or makes it 0.  The number of payouts and *)
(* of credits, and the length of an address, are written as one byte.      *)
(*                                                                         *)
(* LOGIN takes an address for valid that is padded with spaces to any      *)
(* length.  A length that does not fit its byte shifts the loops that read *)
(* the entries behind it: they take bytes of addresses and amounts for     *)
(* lengths, and may read past the end of their vector, which is undefined: *)
(* here they find any of `Heaps` there.  (A process that dies of such a    *)
(* read leaves the file as it is; the next start reads the same.)          *)
(*                                                                         *)
(* A byte has `Byte` values here, so that all these limits can be reached; *)
(* the layout, in bytes, is that of the code.  The two databases share     *)
(* nothing, so a behaviour is about one of them.  When files are written,  *)
(* and what a crash makes of them, is the subject of Persistence.          *)
(***************************************************************************)
EXTENDS Integers, Sequences, FiniteSets

CONSTANTS
    Byte,          \* number of values of a byte, a power of two
    BitOr(_, _),   \* the bitwise or of two 32-bit numbers
    Addresses,     \* byte strings that may be addresses, in the order of std::map
    Heaps,         \* what may be in memory behind the vectors of a block that is read
    Hashes,        \* block hashes, as byte strings of one length, in the order of std::map
    AccountInputs, \* accounts as they are in memory
    BlockInputs,   \* blocks as they are in memory
    MaxRecords,    \* bound on the records of a database: a function of its kind
    MaxWrites      \* bound on how often the file is written

Byte2 == Byte * Byte       \* 2^16
Byte3 == Byte2 * Byte      \* 2^24
Half == Byte3 * Byte       \* 2^32
Whole == Half * Half       \* 2^64
HashSize == Len(Hashes[1]) \* 128

ASSUME ByteAssumption == Byte \in Nat \ {0}
ASSUME BitOrAssumption ==
    \A x, y \in 0..Half - 1 :
        BitOr(x, y) \in 0..Half - 1 /\ BitOr(x, y) <= x + y /\ BitOr(x, 0) = x
Distinct(s) == \A i, j \in 1..Len(s) : s[i] = s[j] => i = j
AddressSet == {Addresses[i] : i \in 1..Len(Addresses)}
HashSet == {Hashes[i] : i \in 1..Len(Hashes)}

\* Every string with a length that fits its byte may be read, and longer ones logged in with.
ASSUME AddressAssumption ==
    /\ Addresses \in Seq(Seq(0..Byte - 1)) /\ Distinct(Addresses)
    /\ \A n \in 0..Byte - 1 : [1..n -> 0..Byte - 1] \subseteq AddressSet
ASSUME HashAssumption ==
    /\ Hashes \in Seq(Seq(0..Byte - 1)) /\ Distinct(Hashes) /\ Hashes # <<>>
    /\ \A i \in 1..Len(Hashes) : Len(Hashes[i]) = HashSize

\* The loops over the entries, less than 256 of at most 255 + 9 bytes each, reach no
\* further than this.  (One memory for the coinbases and one for the credits of a start.)
Memory == [1..Byte * (Byte + 8) -> 0..Byte - 1]
ASSUME HeapAssumption == Heaps # {} /\ Heaps \subseteq [outputs : Memory, credits : Memory]

\* The size of a record is written as a 32-bit number.  20 and 26 bytes are those of the
\* numbers of an account and a block.
ASSUME SizeAssumption ==
    /\ \A i \in 1..Len(Addresses) : 20 + Len(Addresses[i]) < Half
    /\ 26 + HashSize + 2 * ((Byte - 1) * (Byte + 8)) < Half
ASSUME BoundAssumption == MaxWrites \in Nat

VARIABLES
    build,   \* what the compiler has made of a shift by 32
    kind,    \* the database: "account" or "block"
    db,      \* mapRecords
    file,    \* the bytes of the file
    writes,  \* how often it has been written
  (* history *)
    saved,   \* mapRecords when the file was last written
    fresh,   \* mapRecords is what has been read from the file
    misread  \* blocks whose payouts have been read at wrong positions

vars == <<build, kind, db, file, writes, saved, fresh, misread>>

-----------------------------------------------------------------------------
(* utils.hpp: positions count from 0 *)

Uint2bytes(u) ==
    <<(u \div Byte3) % Byte, (u \div Byte2) % Byte, (u \div Byte) % Byte, u % Byte>>

Bytes2uint(bytes, offset) ==
    IF Len(bytes) < offset + 4 THEN 0
    ELSE (bytes[offset + 1] * Byte3 + bytes[offset + 2] * Byte2
          + bytes[offset + 3] * Byte + bytes[offset + 4]) % Half

\* Mutant: the high half first.
Uint2bytes64Swapped(u) == Uint2bytes(u \div Half) \o Uint2bytes(u % Half)

Uint2bytes64(u) == Uint2bytes(u % Half) \o Uint2bytes(u \div Half)

\* A 32-bit value shifted to the left by 32.
Shifted(b, u) == IF b = "masked" THEN u ELSE 0

\* Mutant: the halves are added.
Bytes2uint64Added(b, bytes, offset) ==
    Bytes2uint(bytes, offset) + Shifted(b, Bytes2uint(bytes, offset + 4))

\* Mutant: the halves are swapped and the shift is done in 64 bits.
Bytes2uint64Swapped(b, bytes, offset) ==
    Half * Bytes2uint(bytes, offset) + Bytes2uint(bytes, offset + 4)

Bytes2uint64(b, bytes, offset) ==
    BitOr(Bytes2uint(bytes, offset), Shifted(b, Bytes2uint(bytes, offset + 4)))

\* The bytes from position `from` up to, not including, position `to`.
Slice(bytes, from, to) == SubSeq(bytes, from + 1, to)

-----------------------------------------------------------------------------
(* Coinbase and Credits: maps from addresses to amounts *)

\* What the loops over a std::map, in the order of its keys, have written after each of them.
Joins(pieces) ==
    LET join[i \in 0..Len(pieces)] == IF i = 0 THEN <<>> ELSE join[i - 1] \o pieces[i]
    IN  join
Joined(pieces) == Joins(pieces)[Len(pieces)]

\* map[k] = v
Put(map, k, v) == [x \in DOMAIN map \cup {k} |-> IF x = k THEN v ELSE map[x]]

Entry(address, amount) == <<Len(address) % Byte>> \o address \o Uint2bytes64(amount)
Entries(map) ==
    Joined([i \in 1..Len(Addresses) |->
        IF Addresses[i] \in DOMAIN map THEN Entry(Addresses[i], map[Addresses[i]]) ELSE <<>>])

\* The first byte: the number of entries, which may be more than a byte can hold.
Count(map) == <<Cardinality(DOMAIN map) % Byte>>

\* One round of the loops that read entries: a position, the entries up to there and the sum
\* of all amounts read, also of those whose address is read again.
ReadEntry(b, bytes, acc) ==
    LET length == bytes[acc.at + 1]
        address == Slice(bytes, acc.at + 1, acc.at + 1 + length)
        amount == Bytes2uint64(b, bytes, acc.at + 1 + length)
    IN  [at |-> acc.at + length + 9, map |-> Put(acc.map, address, amount),
         sum |-> acc.sum + amount]

\* n entries from position `at` on.
ReadEntries(b, bytes, at, n) ==
    LET read[i \in 0..n] ==
            IF i = 0 THEN [at |-> at, map |-> <<>>, sum |-> 0]
            ELSE ReadEntry(b, bytes, read[i - 1])
    IN  read[n]

\* The sum of the amounts of a map.
Total(map) ==
    LET total[i \in 0..Len(Addresses)] ==
            IF i = 0 THEN 0
            ELSE total[i - 1] + (IF Addresses[i] \in DOMAIN map THEN map[Addresses[i]] ELSE 0)
    IN  total[Len(Addresses)]

SerializeCoinbase(c) == Count(c.outputs) \o Uint2bytes64(c.fee) \o Entries(c.outputs)

\* Mutant: the current value begins at zero.
DeserializeCoinbaseNoFee(b, memory, bytes, value) ==
    LET read == ReadEntries(b, bytes \o memory, 9, bytes[1])
    IN  [max |-> value, fee |-> Bytes2uint64(b, bytes, 1), current |-> read.sum % Whole,
         outputs |-> read.map]

\* The maximal value is not written; the value of the block stands in for it, and the fee
\* that this contains is counted in the current value.
DeserializeCoinbase(b, memory, bytes, value) ==
    LET fee == Bytes2uint64(b, bytes, 1)
        read == ReadEntries(b, bytes \o memory, 9, bytes[1])
    IN  [max |-> value, fee |-> fee, current |-> (fee + read.sum) % Whole, outputs |-> read.map]

IsComplete(c) == c.current = c.max

SerializeCredits(credits) == Count(credits) \o Entries(credits)
DeserializeCredits(b, memory, bytes) == ReadEntries(b, bytes \o memory, 1, bytes[1]).map

-----------------------------------------------------------------------------
(* LLD::Account and LLD::Block *)

Words == 0..Half - 1
Amounts == 0..Whole - 1
IsMap(map) == map \in [DOMAIN map -> Amounts] /\ DOMAIN map \subseteq AddressSet
IsAccount(r) == r \in [balance : Amounts, shares : Amounts, found : Words, key : AddressSet]
IsBlock(r) ==
    /\ r \in [value : Amounts, coinbase : {r.coinbase}, credits : {r.credits}, round : Words,
              key : HashSet]
    /\ r.coinbase \in [max : Amounts, fee : Amounts, current : Amounts,
                       outputs : {r.coinbase.outputs}]
    /\ IsMap(r.coinbase.outputs) /\ IsMap(r.credits)
    /\ 26 + HashSize + Len(Entries(r.coinbase.outputs)) + Len(Entries(r.credits)) < Half
IsRecord(k, r) == IF k = "account" THEN IsAccount(r) ELSE IsBlock(r)

\* update_balances: the value of a block is that of its coinbase and the fee, and the current
\* value of a coinbase is what its payouts add up to.
ASSUME InputsAssumption ==
    /\ \A r \in AccountInputs : IsAccount(r)
    /\ \A r \in BlockInputs : /\ IsBlock(r)
                               /\ r.value = (r.coinbase.max + r.coinbase.fee) % Whole
                               /\ r.coinbase.current = Total(r.coinbase.outputs) % Whole

SerializeAccount(r) ==
    Uint2bytes64(r.balance) \o Uint2bytes64(r.shares) \o Uint2bytes(r.found) \o r.key

\* Mutant: the blocks found are taken for two bytes.
DeserializeAccountShort(b, bytes) ==
    [balance |-> Bytes2uint64(b, bytes, 0), shares |-> Bytes2uint64(b, bytes, 8),
     found |-> Bytes2uint(bytes, 16), key |-> Slice(bytes, 18, Len(bytes))]

DeserializeAccount(b, bytes) ==
    [balance |-> Bytes2uint64(b, bytes, 0), shares |-> Bytes2uint64(b, bytes, 8),
     found |-> Bytes2uint(bytes, 16), key |-> Slice(bytes, 20, Len(bytes))]

SerializeBlock(r) ==
    LET coinbase == SerializeCoinbase(r.coinbase)
    IN  Uint2bytes64(r.value) \o Uint2bytes(Len(coinbase)) \o coinbase
        \o SerializeCredits(r.credits) \o Uint2bytes(r.round) \o r.key

\* Mutant: the round is looked for behind the credits that have been read.
DeserializeBlockForward(b, heap, bytes) ==
    LET length == Bytes2uint(bytes, 8)
        value == Bytes2uint64(b, bytes, 0)
        end == Len(bytes) - HashSize
        credits == DeserializeCredits(b, heap.credits, Slice(bytes, length + 12, end - 4))
    IN  [value |-> value,
         coinbase |-> DeserializeCoinbase(b, heap.outputs, Slice(bytes, 12, length + 12), value),
         credits |-> credits,
         round |-> Bytes2uint(bytes, length + 13 + Len(Entries(credits))),
         key |-> Slice(bytes, end, Len(bytes))]

\* The round and the hash are found from the end of the record.
DeserializeBlock(b, heap, bytes) ==
    LET length == Bytes2uint(bytes, 8)
        value == Bytes2uint64(b, bytes, 0)
        end == Len(bytes) - HashSize
    IN  [value |-> value,
         coinbase |-> DeserializeCoinbase(b, heap.outputs, Slice(bytes, 12, length + 12), value),
         credits |-> DeserializeCredits(b, heap.credits, Slice(bytes, length + 12, end - 4)),
         round |-> Bytes2uint(Slice(bytes, end - 4, end), 0),
         key |-> Slice(bytes, end, Len(bytes))]

Serialize(k, r) == IF k = "account" THEN SerializeAccount(r) ELSE SerializeBlock(r)
Deserialize(b, heap, k, bytes) ==
    IF k = "account" THEN DeserializeAccount(b, bytes) ELSE DeserializeBlock(b, heap, bytes)

-----------------------------------------------------------------------------
(* LLD::Database *)

\* WriteToDisk: every record with its size in front.
Order(k) == IF k = "account" THEN Addresses ELSE Hashes
Sized(bytes) == Uint2bytes(Len(bytes)) \o bytes
Written(k, map) ==
    Joined([i \in 1..Len(Order(k)) |->
        IF Order(k)[i] \in DOMAIN map THEN Sized(Serialize(k, map[Order(k)[i]])) ELSE <<>>])

\* One round of the loop of ReadIntoMemory; there is none at the end of the file.  A later
\* record replaces an earlier one with the same key.
LoadRecord(b, heap, k, bytes, acc) ==
    IF acc.at >= Len(bytes) THEN acc
    ELSE LET next == acc.at + 4 + Bytes2uint(bytes, acc.at)
             record == Deserialize(b, heap, k, Slice(bytes, acc.at + 4, next))
         IN  [at |-> next, map |-> Put(acc.map, record.key, record)]

\* ReadIntoMemory: every round reads something, so there are no more of them than bytes.
Loaded(b, heap, k, bytes) ==
    LET load[i \in 0..Len(bytes)] ==
            IF i = 0 THEN [at |-> 0, map |-> <<>>]
            ELSE LoadRecord(b, heap, k, bytes, load[i - 1])
    IN  load[Len(bytes)].map

-----------------------------------------------------------------------------

Inputs == IF kind = "account" THEN AccountInputs ELSE BlockInputs

\* Every record is in the map under its own key.
TypeOK ==
    /\ build \in {"masked", "zero"}
    /\ kind \in {"account", "block"}
    /\ \A k \in DOMAIN db : IsRecord(kind, db[k]) /\ db[k].key = k
    /\ file \in Seq(0..Byte - 1)
    /\ writes \in 0..MaxWrites
    /\ fresh \in BOOLEAN
    /\ misread \subseteq HashSet

Init ==
    /\ build \in {"masked", "zero"}
    /\ kind \in {"account", "block"}
    /\ db = <<>>
    /\ file = <<>>
    /\ writes = 0
    /\ saved = <<>>
    /\ fresh = FALSE
    /\ misread = {}

\* A record is stored once, before the file is first written (a bound: a file does not
\* depend on earlier records of a key).
UpdateRecord(r) ==
    /\ writes = 0
    /\ r.key \notin DOMAIN db
    /\ Cardinality(DOMAIN db) < MaxRecords[kind]
    /\ db' = Put(db, r.key, r)
    /\ UNCHANGED <<build, kind, file, writes, saved, fresh, misread>>

\* refund_payouts flags a block, whether booked by this process or read from the file.
Flag(h) ==
    /\ kind = "block"
    /\ h \in DOMAIN db /\ db[h].value # 0
    /\ db' = [db EXCEPT ![h].value = 0]
    /\ fresh' = FALSE
    /\ UNCHANGED <<build, kind, file, writes, saved, misread>>

WriteToDisk ==
    /\ writes < MaxWrites
    /\ writes' = writes + 1
    /\ file' = Written(kind, db)
    /\ saved' = db
    /\ UNCHANGED <<build, kind, db, fresh, misread>>

\* Every length of an address fits its byte.
Aligned(map) == \A a \in DOMAIN map : Len(a) < Byte

\* The process ends and starts again.
ReadIntoMemory ==
    /\ writes > 0
    /\ \E heap \in Heaps : db' = Loaded(build, heap, kind, file)
    /\ fresh' = TRUE
    /\ misread' = misread \cup {h \in DOMAIN saved :
                                kind = "block" /\ ~Aligned(saved[h].coinbase.outputs)}
    /\ UNCHANGED <<build, kind, file, writes, saved>>

Next ==
    \/ \E r \in Inputs : UpdateRecord(r)
    \/ \E h \in HashSet : Flag(h)
    \/ WriteToDisk
    \/ ReadIntoMemory

Spec == Init /\ [][Next]_vars
-----------------------------------------------------------------------------
(* Properties *)

\* The amounts of a record that decide who gets what.
Ledger(k, r) ==
    IF k = "account" THEN [balance |-> r.balance, shares |-> r.shares]
    ELSE [value |-> r.value, fee |-> r.coinbase.fee, outputs |-> r.coinbase.outputs,
          credits |-> r.credits]

\* The limits of the format: amounts below 2^32, fewer than 256 payouts and credits, addresses
\* of fewer than 256 bytes.
FitsMap(map) ==
    Cardinality(DOMAIN map) < Byte /\ Aligned(map) /\ \A a \in DOMAIN map : map[a] < Half
Fits(k, r) ==
    IF k = "account" THEN r.balance < Half /\ r.shares < Half
    ELSE /\ r.value < Half /\ r.coinbase.fee < Half
         /\ FitsMap(r.coinbase.outputs) /\ FitsMap(r.credits)

\* Within the limits of the format a restart changes no amount, whatever the build makes
\* of the shift in bytes2uint64 and whichever records surround this one in the file.
RestartKeepsAmounts ==
    fresh => \A k \in DOMAIN saved :
        Fits(kind, saved[k]) => Ledger(kind, db[k]) = Ledger(kind, saved[k])

\* Amounts and numbers of entries beyond the limits lose money and never make any: no
\* balance, payout or credit is larger after a restart than the one that was saved, and
\* none appears.  An address beyond its limit spares the accounts and the map that it is
\* not in; in the map that it is in, anything may appear.
AtMost(new, old) == DOMAIN new \subseteq DOMAIN old /\ \A a \in DOMAIN new : new[a] <= old[a]
RestartNeverGains ==
    fresh => \A k \in DOMAIN saved :
        IF kind = "account"
        THEN db[k].balance <= saved[k].balance /\ db[k].shares <= saved[k].shares
        ELSE /\ Aligned(saved[k].coinbase.outputs) =>
                    AtMost(db[k].coinbase.outputs, saved[k].coinbase.outputs)
             /\ Aligned(saved[k].credits) => AtMost(db[k].credits, saved[k].credits)

\* Whatever is beyond the limits, the records of the file are found: a restart that gets
\* through has the same accounts and blocks, and the fields behind the amounts (blocks found,
\* round) are right, also when the number of credits or the length of an address does not
\* fit its byte.
RestartFindsRecords ==
    fresh =>
        /\ DOMAIN db = DOMAIN saved
        /\ \A k \in DOMAIN saved : IF kind = "account" THEN db[k].found = saved[k].found
                                                      ELSE db[k].round = saved[k].round

\* What a restart does to the records it does once: after it, they can be written and read
\* again and again, whatever is in memory, and no amount changes; nor does anything else,
\* but the current value of a coinbase that was read at wrong positions.
RestartIsStable ==
    fresh => \A heap \in Heaps :
        LET again == Loaded(build, heap, kind, Written(kind, db))
        IN  /\ DOMAIN again = DOMAIN db
            /\ \A k \in DOMAIN db : /\ Ledger(kind, again[k]) = Ledger(kind, db[k])
                                    /\ k \notin misread => again[k] = db[k]

\* A coinbase that is complete is complete after a restart, though neither of the two
\* values that IsComplete compares is in the file.  (A refunded block has lost them, and
\* one that was read at wrong positions may have counted an address twice.)
StillComplete ==
    fresh /\ kind = "block" => \A h \in DOMAIN saved \ misread :
        saved[h].value # 0 /\ Fits(kind, saved[h]) =>
            IsComplete(db[h].coinbase) = IsComplete(saved[h].coinbase)
=============================================================================
