------------------------------ MODULE ShardLease ------------------------------
(***************************************************************************)
(* The lease of one history shard: GetOrCreateShard and UpdateShard of     *)
(* shard_store.go, called by several hosts, one command at a time.  A      *)
(* command may be answered, or time out; one that timed out may have been  *)
(* applied, or may still arrive later.  The hosts behave like Temporal's   *)
(* shard controller (external): load the shard, raise its range id, own    *)
(* it until an error says otherwise, then start again.                     *)
(***************************************************************************)
EXTENDS Absent, Naturals

CONSTANTS
    Host,
    InitialRange,   \* the range id of a new shard record
    MaxRange        \* bound: hosts stop raising the range id here

ASSUME LeaseAssumption ==
    /\ InitialRange \in Nat
    /\ MaxRange \in Nat
    /\ Nil \notin Nat \cup Host
    /\ Nil \notin [range : Nat, owner : Host \cup {Nil}]

VARIABLES
    shard,  \* the shard record: range_id and owner, or Nil
    pc,     \* pc[h]: what host h does next
    seen,   \* seen[h]: the range id host h has loaded
    held,   \* held[h]: the range id host h believes it owns, or Nil
    late    \* commands that timed out at the client and may still arrive

vars == <<shard, pc, seen, held, late>>

\* A write of the shard record, conditioned on prev.
Command == [host : Host, prev : Nat \cup {Nil}, new : Nat]

Init ==
    /\ shard = Nil
    /\ pc = [h \in Host |-> "idle"]
    /\ seen = [h \in Host |-> Nil]
    /\ held = [h \in Host |-> Nil]
    /\ late = {}

-----------------------------------------------------------------------------
\* Mutant: updates are not filtered on the range id.
MatchesAnyRange(c) == IF c.prev = Nil THEN shard = Nil ELSE shard # Nil

\* rangeIDEquals (a filter on the value, not on the generation) for an
\* update; CREATE_ONLY for the first write.
Matches(c) ==
    IF c.prev = Nil THEN shard = Nil ELSE shard # Nil /\ shard.range = c.prev

Written(c) == [range |-> c.new, owner |-> IF c.prev = Nil THEN Nil ELSE c.host]

\* The command reaches the server.
Apply(c) == shard' = IF Matches(c) THEN Written(c) ELSE shard

\* The linearizable read of GetOrCreateShard; a call that may create the
\* record goes on to do so.
Load(h, mayCreate) ==
    /\ IF shard # Nil
         THEN /\ seen' = [seen EXCEPT ![h] = shard.range]
              /\ pc' = [pc EXCEPT ![h] = "loaded"]
         ELSE /\ pc' = [pc EXCEPT ![h] = IF mayCreate THEN "create" ELSE "idle"]
              /\ UNCHANGED seen
    /\ UNCHANGED <<shard, held, late>>

GetOrCreateShard(h) ==
    /\ pc[h] = "idle"
    /\ Load(h, TRUE)

Creation(h) == [host |-> h, prev |-> Nil, new |-> InitialRange]

CreateShard(h) ==
    /\ pc[h] = "create"
    /\ shard = Nil
    /\ Apply(Creation(h))
    /\ seen' = [seen EXCEPT ![h] = InitialRange]
    /\ pc' = [pc EXCEPT ![h] = "loaded"]
    /\ UNCHANGED <<held, late>>

\* KEY_EXISTS: somebody created it in between.  Read again, without the
\* constructor.
CreateLost(h) ==
    /\ pc[h] = "create"
    /\ shard # Nil
    /\ pc' = [pc EXCEPT ![h] = "reread"]
    /\ UNCHANGED <<shard, seen, held, late>>

Reread(h) ==
    /\ pc[h] = "reread"
    /\ Load(h, FALSE)

-----------------------------------------------------------------------------
\* What a host asks of UpdateShard: the next range id after the one it loaded
\* or holds, or the same range id to persist the shard's progress.
Update(h, new) ==
    [host |-> h, prev |-> IF pc[h] = "own" THEN held[h] ELSE seen[h], new |-> new]

MayUpdate(h, new) ==
    /\ new <= MaxRange
    /\ \/ pc[h] = "loaded" /\ new = seen[h] + 1
       \/ pc[h] = "own" /\ new \in {held[h], held[h] + 1}

UpdateShard(h, new) ==
    /\ MayUpdate(h, new)
    /\ Matches(Update(h, new))
    /\ Apply(Update(h, new))
    /\ held' = [held EXCEPT ![h] = new]
    /\ pc' = [pc EXCEPT ![h] = "own"]
    /\ UNCHANGED <<seen, late>>

Release(h) ==
    /\ held' = [held EXCEPT ![h] = Nil]
    /\ pc' = [pc EXCEPT ![h] = "idle"]
    /\ UNCHANGED seen

\* Mutant: a filtered update is not reported as a lost shard.
LossUnnoticed(h, new) ==
    /\ MayUpdate(h, new)
    /\ ~Matches(Update(h, new))
    /\ UNCHANGED vars

\* FILTERED_OUT: the caller gets ShardOwnershipLostError.
shardOwnershipLost(h, new) ==
    /\ MayUpdate(h, new)
    /\ ~Matches(Update(h, new))
    /\ Release(h)
    /\ UNCHANGED <<shard, late>>

\* No answer: the command was applied and the answer lost, or it is late.
\* The stores never retry a write; the host starts over.
TimesOut(h, c) ==
    /\ \/ Apply(c) /\ UNCHANGED late
       \/ late' = late \cup {c} /\ UNCHANGED shard
    /\ Release(h)

CreateTimesOut(h) == pc[h] = "create" /\ TimesOut(h, Creation(h))
UpdateTimesOut(h, new) == MayUpdate(h, new) /\ TimesOut(h, Update(h, new))

LateArrives(c) ==
    /\ Apply(c)
    /\ late' = late \ {c}
    /\ UNCHANGED <<pc, seen, held>>

\* The host process dies and comes back.
Restart(h) ==
    /\ pc[h] # "idle"
    /\ Release(h)
    /\ UNCHANGED <<shard, late>>

Next ==
    \/ \E h \in Host : \/ GetOrCreateShard(h) \/ CreateShard(h) \/ CreateLost(h) \/ Reread(h)
                       \/ CreateTimesOut(h) \/ Restart(h)
    \/ \E h \in Host, new \in 0..MaxRange :
          UpdateShard(h, new) \/ shardOwnershipLost(h, new) \/ UpdateTimesOut(h, new)
    \/ \E c \in late : LateArrives(c)

\* A step of a host that is not yet the owner and whose answer arrives.
Retries(h) ==
    \/ GetOrCreateShard(h) \/ Reread(h) \/ CreateLost(h)
    \/ \E new \in 0..MaxRange : pc[h] = "loaded" /\ shardOwnershipLost(h, new)

\* The writes that lead to ownership, when they are answered.
Acquires(h) ==
    \/ CreateShard(h)
    \/ \E new \in 0..MaxRange : pc[h] = "loaded" /\ UpdateShard(h, new)

\* Hosts keep trying, and not every attempt of all of them times out.
Fairness ==
    /\ \A h \in Host : WF_vars(Retries(h))
    /\ SF_vars(\E h \in Host : Acquires(h))

Spec == Init /\ [][Next]_vars
FairSpec == Spec /\ Fairness

-----------------------------------------------------------------------------
TypeOK ==
    /\ shard \in [range : Nat, owner : Host \cup {Nil}] \cup {Nil}
    /\ pc \in [Host -> {"idle", "create", "reread", "loaded", "own"}]
    /\ seen \in [Host -> Nat \cup {Nil}]
    /\ held \in [Host -> Nat \cup {Nil}]
    /\ late \subseteq Command
    /\ \A h \in Host : pc[h] = "loaded" => seen[h] # Nil
    /\ \A h \in Host : (pc[h] = "own") <=> (held[h] # Nil)

\* Two hosts never believe they own the same range id: the range id alone tells
\* whose write it is, which is what every fenced write of the store relies on.
OneOwner ==
    \A g, h \in Host : held[g] # Nil /\ held[g] = held[h] => g = h

\* A host that holds the lease's range id is the owner the record names, and
\* nobody holds a range id that the lease has not reached.
OwnerIsNamed ==
    \A h \in Host : held[h] # Nil =>
        /\ shard # Nil
        /\ held[h] <= shard.range
        /\ held[h] = shard.range => shard.owner = h

\* The lease never moves backwards and never skips a range id, whatever late
\* commands arrive.
RangeStepsUp ==
    [][shard # Nil => shard' # Nil /\ shard'.range \in {shard.range, shard.range + 1}]_vars

\* Hosts that compete do not keep each other from the lease: until the bound is
\* reached, there is again and again a host that owns it.
SomebodyOwns ==
    []<>((shard # Nil /\ shard.range = MaxRange) \/ \E h \in Host : shard # Nil /\ held[h] = shard.range)
=============================================================================
