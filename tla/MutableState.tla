----------------------------- MODULE MutableState -----------------------------
(***************************************************************************)
(* The execution record of mutable_state.go.  A snapshot or a mutation     *)
(* becomes a list of operations that the server applies to the record's    *)
(* bins, in order and as one command; the record is decoded when it is     *)
(* read.  Three of the seven collections stand for all: activities for the *)
(* five maps of blobs, chasm nodes (two optional blobs) and requested      *)
(* signals (keys only).                                                    *)
(***************************************************************************)
EXTENDS Absent, Integers, Sequences, SequencesExt, FiniteSets

CONSTANTS
    ActivityKey, ChasmKey, SignalKey,   \* keys of the collections
    Blob,                               \* payloads
    MaxBuffered,                        \* bound: batches of buffered events in a record
    MaxFilled                           \* bound: collections that hold something at once

VARIABLES
    msRecord,   \* the bins of the record; an absent bin is Nil
    msState     \* the state that the writer of the snapshots and mutations has in mind

msvars == <<msRecord, msState>>

collectionBins == <<"act", "chasm", "sigreq">>
Collection     == ToSet(collectionBins)

KeysOf(c) == CASE c = "act" -> ActivityKey [] c = "chasm" -> ChasmKey [] c = "sigreq" -> SignalKey
ChasmNode == [meta : Blob \cup {Nil}, data : Blob \cup {Nil}]
Requested == "requested"
ItemsOf(c) == CASE c = "act" -> Blob
                [] c = "chasm" -> {n \in ChasmNode : n.meta # Nil \/ n.data # Nil}
                [] c = "sigreq" -> {Requested}

\* Collections: partial functions from keys to items.
Empty         == [k \in {} |-> Nil]
Maps          == [c \in Collection |-> UNION {[K -> ItemsOf(c)] : K \in SUBSET KeysOf(c)}]
Without(f, K) == [k \in DOMAIN f \ K |-> f[k]]
Override(f, g) == [k \in DOMAIN f \cup DOMAIN g |-> IF k \in DOMAIN g THEN g[k] ELSE f[k]]

-----------------------------------------------------------------------------
(***************************************************************************)
(* Values as they are stored.  A blob that is absent is packed as an empty *)
(* value, which the client is taken to hand back as absent.                *)
(***************************************************************************)
encodingOf(b)   == IF b = Nil THEN "" ELSE "proto3"
blobValue(b)    == <<b, encodingOf(b)>>
blobFromValue(v) == v[1]
chasmValue(n)   == <<n.meta, encodingOf(n.meta), n.data, encodingOf(n.data)>>
chasmFromValue(v) == [meta |-> v[1], data |-> v[3]]

ValueOf(c, item) == CASE c = "act" -> blobValue(item)
                      [] c = "chasm" -> chasmValue(item)
                      [] c = "sigreq" -> 1
ItemOf(c, value) == CASE c = "act" -> blobFromValue(value)
                      [] c = "chasm" -> chasmFromValue(value)
                      [] c = "sigreq" -> Requested

(***************************************************************************)
(* The operations, and what the server does to a bin for each.             *)
(***************************************************************************)
PutOp(bin, value)          == [op |-> "put", bin |-> bin, key |-> Nil, value |-> value]
MapPutOp(bin, key, value)  == [op |-> "mapput", bin |-> bin, key |-> key, value |-> value]
MapPutItemsOp(bin, items)  == [op |-> "items", bin |-> bin, key |-> Nil, value |-> items]
MapRemoveByKeyOp(bin, key) == [op |-> "mapremove", bin |-> bin, key |-> key, value |-> Nil]
ListAppendOp(bin, value)   == [op |-> "append", bin |-> bin, key |-> Nil, value |-> value]

OnBin(old, o) ==
    CASE o.op = "put"       -> o.value
      [] o.op = "mapput"    -> Override(IF old = Nil THEN Empty ELSE old,
                                        [k \in {o.key} |-> o.value])
      [] o.op = "items"     -> Override(IF old = Nil THEN Empty ELSE old, o.value)
      [] o.op = "mapremove" -> IF old = Nil THEN Nil ELSE Without(old, {o.key})
      [] o.op = "append"    -> Append(IF old = Nil THEN <<>> ELSE old, o.value)

Operate(record, ops) ==
    LET after[i \in 0..Len(ops)] ==
          IF i = 0 THEN record ELSE [after[i - 1] EXCEPT ![ops[i].bin] = OnBin(@, ops[i])]
    IN  after[Len(ops)]

\* The iteration order of a Go map; operations on different keys commute.
EachOf(S, Op(_)) == LET keys == SetToSeq(S) IN [i \in DOMAIN keys |-> Op(keys[i])]

-----------------------------------------------------------------------------
checksumOps(sum) ==
    IF sum = Nil THEN <<PutOp("csum", Nil), PutOp("csum_enc", Nil)>>
    ELSE <<PutOp("csum", sum), PutOp("csum_enc", encodingOf(sum))>>

infoOps(info) == <<PutOp("info", info), PutOp("info_enc", encodingOf(info))>>

\* Nothing for an empty collection: the server refuses to write one.
appendWholeMap(bin, items) ==
    IF DOMAIN items = {} THEN <<>>
    ELSE <<MapPutItemsOp(bin, [k \in DOMAIN items |-> ValueOf(bin, items[k])])>>

clearOps == [i \in DOMAIN collectionBins |-> PutOp(collectionBins[i], Nil)]
            \o <<PutOp("buf", Nil)>>

\* Mutant: the collections are not cleared.
snapshotOpsMerging(s) ==
    <<PutOp("buf", Nil)>> \o infoOps(s.info) \o checksumOps(s.checksum)
    \o FlattenSeq([i \in DOMAIN collectionBins |->
                     appendWholeMap(collectionBins[i], s.maps[collectionBins[i]])])

\* Everything is cleared and then written.
snapshotOps(s) ==
    clearOps \o infoOps(s.info) \o checksumOps(s.checksum)
    \o FlattenSeq([i \in DOMAIN collectionBins |->
                     appendWholeMap(collectionBins[i], s.maps[collectionBins[i]])])

upsertOps(bin, items) ==
    LET put(k) == MapPutOp(bin, k, ValueOf(bin, items[k])) IN EachOf(DOMAIN items, put)

deleteOps(bin, keys) ==
    LET remove(k) == MapRemoveByKeyOp(bin, k) IN EachOf(keys, remove)

bufferedOps(m) ==
    (IF m.clear THEN <<PutOp("buf", Nil)>> ELSE <<>>)
    \o (IF m.buffered # Nil THEN <<ListAppendOp("buf", blobValue(m.buffered))>> ELSE <<>>)

\* Sparse operations: upserts, then deletions, per collection.
mutationOps(m) ==
    infoOps(m.info) \o checksumOps(m.checksum)
    \o FlattenSeq([i \in DOMAIN collectionBins |->
                     upsertOps(collectionBins[i], m.upsert[collectionBins[i]])
                     \o deleteOps(collectionBins[i], m.delete[collectionBins[i]])])
    \o bufferedOps(m)

readMap(record, c) ==
    IF record[c] = Nil THEN Empty
    ELSE [k \in DOMAIN record[c] |-> ItemOf(c, record[c][k])]

readBufferedEvents(record) ==
    IF record["buf"] = Nil THEN <<>>
    ELSE [i \in DOMAIN record["buf"] |-> blobFromValue(record["buf"][i])]

mutableStateFromRecord(record) ==
    [info     |-> record["info"],
     checksum |-> record["csum"],
     maps     |-> [c \in Collection |-> readMap(record, c)],
     buffered |-> readBufferedEvents(record)]

-----------------------------------------------------------------------------
\* A caller's snapshot is complete; a caller's mutation says what changes, and a
\* key that is both in its upserts and its deletions is meant to be gone.
NoItems == [c \in Collection |-> Empty]
NoState == [info |-> Nil, checksum |-> Nil, maps |-> NoItems, buffered |-> <<>>]

MutableStateInit ==
    /\ msRecord = [bin \in Collection \cup {"info", "info_enc", "csum", "csum_enc", "buf"} |-> Nil]
    /\ msState = NoState

SaveSnapshot(s) ==
    /\ msRecord' = Operate(msRecord, snapshotOps(s))
    /\ msState' = [info |-> s.info, checksum |-> s.checksum, maps |-> s.maps, buffered |-> <<>>]

SaveMutation(m) ==
    /\ msState.info # Nil
    /\ msRecord' = Operate(msRecord, mutationOps(m))
    /\ msState' =
         [info     |-> m.info,
          checksum |-> m.checksum,
          maps     |-> [c \in Collection |-> Without(Override(msState.maps[c], m.upsert[c]), m.delete[c])],
          buffered |-> (IF m.clear THEN <<>> ELSE msState.buffered)
                       \o (IF m.buffered = Nil THEN <<>> ELSE <<m.buffered>>)]

Filled(s) == {c \in Collection : DOMAIN s.maps[c] # {}}
             \cup (IF s.buffered = <<>> THEN {} ELSE {"buf"})

\* Bounds: a snapshot differs from the state before in one collection, and a
\* mutation changes one collection or the buffered events; the bins are
\* independent.  A snapshot's checksum is the info's, a mutation may have none.
MutableStateNext ==
    /\ \/ \E c \in Collection : \E f \in Maps[c], info \in Blob :
            SaveSnapshot([info |-> info, checksum |-> info, maps |-> [msState.maps EXCEPT ![c] = f]])
       \/ \E c \in Collection : \E f \in Maps[c], K \in SUBSET KeysOf(c) :
            SaveMutation([info |-> msState.info, checksum |-> Nil, clear |-> FALSE, buffered |-> Nil,
                          upsert |-> [NoItems EXCEPT ![c] = f],
                          delete |-> [d \in Collection |-> IF d = c THEN K ELSE {}]])
       \/ \E clear \in BOOLEAN, events \in Blob \cup {Nil} :
            /\ events # Nil /\ ~clear => Len(msState.buffered) < MaxBuffered
            /\ SaveMutation([info |-> msState.info, checksum |-> msState.checksum, clear |-> clear,
                             buffered |-> events, upsert |-> NoItems,
                             delete |-> [d \in Collection |-> {}]])
    /\ Cardinality(Filled(msState')) <= MaxFilled

MutableStateSpec == MutableStateInit /\ [][MutableStateNext]_msvars

-----------------------------------------------------------------------------
\* snapshotOps, mutationOps and mutableStateFromRecord: after any sequence of
\* snapshots and mutations the record reads back as the state that the writer has
\* in mind -- nothing of an earlier state survives a snapshot, deletions win over
\* upserts and a cleared buffer keeps what was appended with the clearing.
RecordReadsBack == mutableStateFromRecord(msRecord) = msState
=============================================================================
