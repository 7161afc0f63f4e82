------------------------------ MODULE MCTaskKeys ------------------------------
(***************************************************************************)
(* The codec of both kinds of categories against the order it should       *)
(* implement, for every range and every key that fits the width.           *)
(***************************************************************************)
EXTENDS TaskKeys

CONSTANT MaxIDs     \* task ids that the upper end of a scheduled range may have

VARIABLES scheduled, min, max, key
keyvars == <<scheduled, min, max, key>>

Codec(s) == INSTANCE TaskKeys WITH Scheduled <- s

Digits  == 0..(Base^Width - 1)
Keys(s) == [fire : IF s THEN Digits ELSE {0}, id : Digits]

KeysInit ==
    /\ scheduled \in BOOLEAN
    /\ min \in Keys(scheduled)
    /\ max \in {k \in Keys(scheduled) : scheduled => k.id \in MaxIDs}
    /\ key \in Keys(scheduled)

KeysSpec == KeysInit /\ [][FALSE]_keyvars

Less(a, b) == Codec(scheduled)!KeyLess(a, b)
Between(k) == ~Less(k, min) /\ Less(k, max)

bucketOf(k) == Codec(scheduled)!bucket(k)
bucketSpan  == Codec(scheduled)!bucketRange(min, max)
tokenOf(k)  == Codec(scheduled)!encodedBytes(Codec(scheduled)!encode(k))

\* The server's range over the encoded keys is the category's own order, and so
\* is the byte order in which a page token resumes (tasks.go, taskKeyCodec).
EncodingOrders ==
    /\ Codec(scheduled)!InRange(key, min, max) <=> Between(key)
    /\ Codec(scheduled)!LexLess(tokenOf(key), tokenOf(min)) <=> Less(key, min)

\* Every task of [min, max) is in a bucket that the range reads and the range
\* deletes look at (tasks.go, bucketRange).
RangeCovers == Between(key) => bucketOf(key) \in bucketSpan

=============================================================================
