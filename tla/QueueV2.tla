------------------------------- MODULE QueueV2 -------------------------------
(***************************************************************************)
(* queue_v2_store.go: one queue of Temporal's dead letters.  A metadata    *)
(* record holds the next message id; messages are in bucket records.       *)
(* Producers enqueue in a transaction that reads the metadata record and   *)
(* writes it back; a consumer pages through the messages, an operator      *)
(* deletes a prefix and another lists the queues with their sizes, all of  *)
(* them bucket by bucket and outside any transaction.                      *)
(***************************************************************************)
EXTENDS BucketPages, FiniteSets

CONSTANTS
    Producer,
    QueueBucketSize,        \* 2^queueBucketShift message ids
    FirstQueueMessageID,    \* of Temporal's persistence interface
    MaxMessageID,           \* bound: no id above it is handed out
    MessagePage             \* PageSize of ReadMessages

ASSUME QueueV2Assumption ==
    /\ QueueBucketSize \in Nat \ {0}
    /\ FirstQueueMessageID \in Nat
    /\ MaxMessageID \in Nat
    /\ MessagePage \in Nat \ {0}

VARIABLES
    q2next,     \* the next message id of the metadata record, Nil before CreateQueue
    q2msg,      \* q2msg[b]: the map of bucket record b, from ids to messages
    q2txn,      \* q2txn[p]: the id that p's EnqueueMessage has read, or Nil
    q2read,     \* the running ReadMessages, or Nil
    q2token,    \* the consumer's page token: LastID, or Nil
    q2delete,   \* the running RangeDeleteMessages, or Nil
    q2count,    \* the running ListQueues, or Nil; q2count.known (history) are
                \* the messages that were there when it began
    q2sent,     \* history: the first message committed under each id
    q2got,      \* history: the ids of the consumer's pages so far
    q2floor     \* history: the largest id that a caller has asked to delete

q2vars == <<q2next, q2msg, q2txn, q2read, q2token, q2delete, q2count, q2sent, q2got, q2floor>>

queueBucket(id) == id \div QueueBucketSize
QueueBuckets    == 0..queueBucket(MaxMessageID + 1)

\* MapPutOp on an ordered map: an entry of the same key is replaced.
PutMessage(m, id, v) == [i \in DOMAIN m \cup {id} |-> IF i = id THEN v ELSE m[i]]

NumLess(a, b) == a < b

QueueV2Init ==
    /\ q2next = Nil
    /\ q2msg = [b \in QueueBuckets |-> <<>>]
    /\ q2txn = [p \in Producer |-> Nil]
    /\ q2read = Nil
    /\ q2token = Nil
    /\ q2delete = Nil
    /\ q2count = Nil
    /\ q2sent = <<>>
    /\ q2got = {}
    /\ q2floor = -1

-----------------------------------------------------------------------------
\* CREATE_ONLY: a queue that exists is left alone (ErrQueueAlreadyExists).
CreateQueue ==
    /\ q2next = Nil
    /\ q2next' = FirstQueueMessageID
    /\ UNCHANGED <<q2msg, q2txn, q2read, q2token, q2delete, q2count, q2sent, q2got, q2floor>>

\* The metadata record is read inside the transaction.
EnqueueMessage(p) ==
    /\ q2next # Nil
    /\ q2txn[p] = Nil
    /\ q2txn' = [q2txn EXCEPT ![p] = q2next]
    /\ UNCHANGED <<q2next, q2msg, q2read, q2token, q2delete, q2count, q2sent, q2got, q2floor>>

\* Writing the message and the next id.
Enqueue(p) ==
    LET id == q2txn[p]
        b  == queueBucket(id)
    IN  /\ id # Nil
        /\ q2msg' = [q2msg EXCEPT ![b] = PutMessage(@, id, p)]
        /\ q2next' = id + 1
        /\ q2txn' = [q2txn EXCEPT ![p] = Nil]
        /\ q2sent' = IF id \in DOMAIN q2sent THEN q2sent ELSE PutMessage(q2sent, id, p)
        /\ UNCHANGED <<q2read, q2token, q2delete, q2count, q2got, q2floor>>

\* Mutant: the id is read outside the transaction, so nothing verifies it.
EnqueueOutsideTxn(p) == Enqueue(p)

\* Commit verifies what the transaction has read.  Whether the caller is told
\* does not matter here.
EnqueueCommits(p) ==
    /\ q2next = q2txn[p]
    /\ Enqueue(p)

EnqueueFails(p) ==
    /\ q2txn[p] # Nil
    /\ q2txn' = [q2txn EXCEPT ![p] = Nil]
    /\ UNCHANGED <<q2next, q2msg, q2read, q2token, q2delete, q2count, q2sent, q2got, q2floor>>

-----------------------------------------------------------------------------
\* Mutant: the page starts one message too far.
ReadMessagesAfterNext ==
    /\ q2next # Nil
    /\ q2read = Nil
    /\ LET min == IF q2token = Nil THEN FirstQueueMessageID ELSE q2token + 2
       IN  q2read' = [min |-> min, next |-> q2next, bucket |-> queueBucket(min), page |-> <<>>]
    /\ UNCHANGED <<q2next, q2msg, q2txn, q2token, q2delete, q2count, q2sent, q2got, q2floor>>

ReadMessages ==
    /\ q2next # Nil
    /\ q2read = Nil
    /\ LET min == IF q2token = Nil THEN FirstQueueMessageID ELSE q2token + 1
       IN  q2read' = [min |-> min, next |-> q2next, bucket |-> queueBucket(min), page |-> <<>>]
    /\ UNCHANGED <<q2next, q2msg, q2txn, q2token, q2delete, q2count, q2sent, q2got, q2floor>>

MessagesIn(b, min, next) ==
    InOrder({id \in DOMAIN q2msg[b] : min <= id /\ id < next}, NumLess)

\* The consumer takes the page.  After an empty one it starts over.
TakeMessages(page) ==
    /\ q2read' = Nil
    /\ q2token' = IF page = <<>> THEN Nil ELSE page[Len(page)]
    /\ q2got' = IF page = <<>> THEN {} ELSE q2got \cup {page[i] : i \in DOMAIN page}

ReadMessageBucket ==
    /\ q2read # Nil
    /\ LET found == MessagesIn(q2read.bucket, q2read.min, q2read.next)
           page  == Fill(q2read.page, found, MessagePage)
       IN  IF Overflows(q2read.page, found, MessagePage)
              \/ q2read.bucket >= queueBucket(q2read.next)
           THEN TakeMessages(page)
           ELSE /\ q2read' = [q2read EXCEPT !.page = page, !.bucket = @ + 1]
                /\ UNCHANGED <<q2token, q2got>>
    /\ UNCHANGED <<q2next, q2msg, q2txn, q2delete, q2count, q2sent, q2floor>>

-----------------------------------------------------------------------------
\* Caller: the largest id to delete is one that it has read from the queue.
IsMessage(max) == max \in DOMAIN q2sent

RangeDeleteMessages(max) ==
    /\ q2next # Nil
    /\ q2delete = Nil
    /\ max >= FirstQueueMessageID
    /\ q2delete' = [max |-> max, bucket |-> 0]
    /\ q2floor' = IF max > q2floor THEN max ELSE q2floor
    /\ UNCHANGED <<q2next, q2msg, q2txn, q2read, q2token, q2count, q2sent, q2got>>

\* Mutant: the whole bucket record goes.
RemoveBucket(b, max) == <<>>

\* MapRemoveByKeyRange [0, max + 1).
RemoveMessages(b, max) ==
    LET kept == {id \in DOMAIN q2msg[b] : id >= max + 1}
    IN  [id \in kept |-> q2msg[b][id]]

RangeDeleteBucket ==
    /\ q2delete # Nil
    /\ q2msg' = [q2msg EXCEPT ![q2delete.bucket] = RemoveMessages(q2delete.bucket, q2delete.max)]
    /\ q2delete' = IF q2delete.bucket < queueBucket(q2delete.max)
                   THEN [q2delete EXCEPT !.bucket = @ + 1] ELSE Nil
    /\ UNCHANGED <<q2next, q2txn, q2read, q2token, q2count, q2sent, q2got, q2floor>>

-----------------------------------------------------------------------------
uncounted == <<q2next, q2msg, q2txn, q2read, q2token, q2delete, q2sent, q2got, q2floor>>

Live(id) == id \in DOMAIN q2msg[queueBucket(id)]

\* The scan returns the metadata record of the queue.
ListQueuesBegins ==
    /\ q2next # Nil
    /\ q2count = Nil
    /\ q2count' = [next |-> q2next, bucket |-> 0, total |-> 0,
                   known |-> {id \in DOMAIN q2sent : Live(id)}]
    /\ UNCHANGED uncounted

\* Mutant: the last bucket is left out when it is not full.
CountFullBuckets ==
    /\ q2count # Nil /\ q2count.bucket <= queueBucket(q2count.next)
    /\ q2count' = [q2count EXCEPT !.bucket = @ + 1,
                      !.total = IF q2count.bucket = queueBucket(q2count.next) THEN @
                                ELSE @ + Cardinality(DOMAIN q2msg[q2count.bucket])]
    /\ UNCHANGED uncounted

\* One command for each bucket up to that of the next id; a bucket without a
\* record counts for nothing.
messageCount ==
    /\ q2count # Nil /\ q2count.bucket <= queueBucket(q2count.next)
    /\ q2count' = [q2count EXCEPT !.bucket = @ + 1,
                                  !.total = @ + Cardinality(DOMAIN q2msg[q2count.bucket])]
    /\ UNCHANGED uncounted

\* The call returns the sizes, or one of its commands fails.
ListQueuesEnds ==
    /\ q2count # Nil
    /\ q2count' = Nil
    /\ UNCHANGED uncounted

-----------------------------------------------------------------------------
QueueV2Next ==
    \/ CreateQueue
    \/ \E p \in Producer :
         \/ q2next # Nil /\ q2next <= MaxMessageID /\ EnqueueMessage(p)
         \/ EnqueueCommits(p)
         \/ EnqueueFails(p)
    \/ ReadMessages
    \/ ReadMessageBucket
    \/ \E max \in FirstQueueMessageID..MaxMessageID :
         IsMessage(max) /\ RangeDeleteMessages(max)
    \/ RangeDeleteBucket
    \/ ListQueuesBegins \/ messageCount \/ ListQueuesEnds

QueueV2Spec == QueueV2Init /\ [][QueueV2Next]_q2vars

-----------------------------------------------------------------------------
\* EnqueueMessage: "a reused id would silently overwrite a message".  A message
\* whose transaction has committed stays what it was until a caller asks to
\* delete it, whatever other producers and range deletes do meanwhile.  The size
\* that ListQueues adds up, bucket after bucket beside them, counts every message
\* that was there when it began and that nobody has asked to delete, and none but
\* those and the ones enqueued meanwhile; it is exact only if nothing moves.
MessagesSurvive ==
    /\ \A id \in DOMAIN q2sent :
           id > q2floor => Live(id) /\ q2msg[queueBucket(id)][id] = q2sent[id]
    /\ q2count # Nil =>
           LET passed == {id \in DOMAIN q2sent : queueBucket(id) < q2count.bucket}
           IN  /\ Cardinality({id \in passed \cap q2count.known : id > q2floor}) <= q2count.total
               /\ q2count.total <= Cardinality({id \in passed : id \in q2count.known \/ id >= q2count.next})

\* ReadMessages: a consumer that follows the page tokens never passes over a
\* message.  Ids are visible in the order they are handed out, so no message
\* turns up behind a token.
NothingBehindToken ==
    q2token # Nil =>
        \A id \in DOMAIN q2sent : id <= q2token => id \in q2got \/ id <= q2floor
=============================================================================
