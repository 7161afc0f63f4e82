------------------------------- MODULE TaskKeys -------------------------------
(***************************************************************************)
(* taskKeyCodec of tasks.go: how the key of a history task becomes a map   *)
(* key that the server sorts, and which bucket record it belongs to.       *)
(***************************************************************************)
EXTENDS Integers, Sequences

CONSTANTS
    Scheduled,      \* TRUE for the categories ordered by fire time
    BucketWidth,    \* 2^12 task ids, or the nanoseconds of a minute
    Base, Width     \* a big-endian integer has Width digits in this base

ASSUME CodecAssumption ==
    /\ Scheduled \in BOOLEAN
    /\ BucketWidth \in Nat \ {0}
    /\ Base \in Nat \ {0, 1}
    /\ Width \in Nat

TaskKey == [fire : Nat, id : Nat]

\* The order of a category's tasks.
KeyLess(a, b) ==
    IF Scheduled THEN a.fire < b.fire \/ (a.fire = b.fire /\ a.id < b.id)
    ELSE a.id < b.id

-----------------------------------------------------------------------------
\* Mutant: the bytes in the opposite order.
LittleEndian(n) == [i \in 1..Width |-> (n \div Base^(i - 1)) % Base]

BigEndian(n) == [i \in 1..Width |-> (n \div Base^(Width - i)) % Base]

\* An integer map key, or fireTime||taskID as bytes.
encode(k) == IF Scheduled THEN BigEndian(k.fire) \o BigEndian(k.id) ELSE <<k.id>>

\* What bytes.Compare and the server's order of a map say of two keys of equal
\* length.
LexLess(s, t) ==
    \E i \in DOMAIN s : s[i] < t[i] /\ \A j \in 1..(i - 1) : s[j] = t[j]

\* The form of an encoded key in a page token.
encodedBytes(e) == IF Scheduled THEN e ELSE BigEndian(e[1])

\* The server's MapGetByKeyRange and MapRemoveByKeyRange: [min, max).
InRange(k, min, max) ==
    /\ ~LexLess(encode(k), encode(min))
    /\ LexLess(encode(k), encode(max))

Axis(k) == IF Scheduled THEN k.fire ELSE k.id

bucket(k) == Axis(k) \div BucketWidth

\* Mutant: off by one, the last key of a bucket instead of the first.
boundaryIsLastKey(max) == (Axis(max) + 1) % BucketWidth = 0

boundaryIsExclusiveStart(max) == Axis(max) % BucketWidth = 0

\* The buckets that a range of keys is looked for in.
bucketRange(min, max) ==
    LET last == IF boundaryIsExclusiveStart(max) THEN bucket(max) - 1 ELSE bucket(max)
    IN  bucket(min)..last
=============================================================================
