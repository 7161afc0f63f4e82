---------------------------- MODULE ClusterProofs ----------------------------
(***************************************************************************)
(* The records by which hosts find out about one another: the lease of a   *)
(* shard, the cluster metadata, the cluster membership.  Each section has  *)
(* its own inductive invariant.                                            *)
(***************************************************************************)
EXTENDS ShardLease, ClusterMetadata, TLAPS

-----------------------------------------------------------------------------
(***************************************************************************)
(* A range id has one owner, for any number of hosts, whatever commands    *)
(* are lost, late or repeated.                                             *)
(*                                                                         *)
(* That two hosts never hold the same range id is not inductive: a host    *)
(* that raises the lease must not meet a holder of the new range id, so    *)
(* nobody may hold more than the lease; and a late command must not give   *)
(* the record another owner without raising the range id, so what is in    *)
(* flight has to be constrained too (Settled).                             *)
(***************************************************************************)
\* A command that may reach the server: its condition is not beyond the lease,
\* it raises the range id by one or keeps it, and in the latter case only the
\* owner has sent it.
Settled(c) ==
    c.prev # Nil =>
        /\ shard # Nil
        /\ c.prev <= shard.range
        /\ c.new \in {c.prev, c.prev + 1}
        /\ c.new = c.prev /\ c.prev = shard.range => shard.owner = c.host

IInv ==
    /\ TypeOK
    /\ OneOwner
    /\ OwnerIsNamed
    /\ \A c \in late : Settled(c)
    /\ \A h \in Host : pc[h] = "loaded" => shard # Nil /\ seen[h] <= shard.range

\* What a settled command can do to the record: nothing, create it, or hand
\* the next range id to the command's host.
LEMMA ApplyCases ==
    ASSUME TypeOK, NEW c \in Command, Settled(c), Apply(c)
    PROVE  \/ shard' = shard
           \/ shard = Nil /\ shard' \in [range : Nat, owner : Host \cup {Nil}]
           \/ shard # Nil /\ shard' = [range |-> shard.range + 1, owner |-> c.host]
<1>1. CASE ~Matches(c)
  BY <1>1 DEF Apply
<1>2. CASE Matches(c) /\ c.prev = Nil
  BY <1>2 DEF Apply, Matches, Written, Command
<1>3. CASE Matches(c) /\ c.prev # Nil
  <2>1. shard' = [range |-> c.new, owner |-> c.host] /\ shard # Nil /\ shard.range = c.prev
    BY <1>3 DEF Apply, Matches, Written
  <2>2. c.new = shard.range \/ c.new = shard.range + 1
    BY <1>3, <2>1 DEF Settled
  <2>3. CASE c.new = shard.range
    <3>1. shard \in [range : Nat, owner : Host \cup {Nil}] /\ shard.owner = c.host
      BY <1>3, <2>1, <2>3 DEF Settled, TypeOK
    <3>. QED BY <2>1, <2>3, <3>1
  <2>. QED BY <2>1, <2>2, <2>3
<1>. QED BY <1>1, <1>2, <1>3

\* A command that reaches the server keeps what the hosts and the other
\* commands rely on.
LEMMA ApplyKeeps ==
    ASSUME IInv, NEW c \in Command, Settled(c), Apply(c)
    PROVE  /\ shard' \in [range : Nat, owner : Host \cup {Nil}] \cup {Nil}
           /\ \A d \in Command : Settled(d) => Settled(d)'
           /\ \A r \in Nat : shard # Nil /\ r <= shard.range => shard' # Nil /\ r <= shard'.range
           /\ \A h \in Host : held[h] # Nil =>
                 /\ shard' # Nil
                 /\ held[h] <= shard'.range
                 /\ held[h] = shard'.range => shard'.owner = h
<1>0. /\ shard \in [range : Nat, owner : Host \cup {Nil}] \cup {Nil}
      /\ held \in [Host -> Nat \cup {Nil}] /\ TypeOK /\ c.host \in Host
      /\ Nil \notin [range : Nat, owner : Host \cup {Nil}]
  BY LeaseAssumption DEF IInv, TypeOK, Command
<1>1. CASE shard' = shard
  BY <1>0, <1>1 DEF IInv, OwnerIsNamed, Settled
<1>2. CASE shard = Nil /\ shard' \in [range : Nat, owner : Host \cup {Nil}]
  BY <1>0, <1>2 DEF IInv, OwnerIsNamed, Settled
<1>3. CASE shard # Nil /\ shard' = [range |-> shard.range + 1, owner |-> c.host]
  <2>1. shard.range \in Nat /\ shard' \in [range : Nat, owner : Host \cup {Nil}]
         /\ shard'.range = shard.range + 1 /\ shard' # Nil
    BY <1>0, <1>3
  <2>2. \A r \in Nat : r <= shard.range => r <= shard'.range /\ r # shard'.range
    BY <2>1
  <2>3. \A h \in Host : held[h] # Nil => held[h] \in Nat /\ held[h] <= shard.range
    BY <1>0 DEF IInv, OwnerIsNamed
  <2>4. ASSUME NEW d \in Command, Settled(d) PROVE Settled(d)'
    BY <2>1, <2>2, <2>4 DEF Settled, Command
  <2>. QED BY <2>1, <2>2, <2>3, <2>4
<1>. QED BY <1>0, <1>1, <1>2, <1>3, ApplyCases

\* The commands the hosts send are settled when they are sent.
LEMMA SentSettled ==
    ASSUME IInv, NEW h \in Host
    PROVE  /\ Creation(h) \in Command /\ Settled(Creation(h))
           /\ \A new \in 0..MaxRange : MayUpdate(h, new) =>
                 /\ Update(h, new) \in Command /\ Settled(Update(h, new))
                 /\ Update(h, new).prev # Nil /\ Update(h, new).host = h /\ Update(h, new).new = new
<1>1. Creation(h) \in Command /\ Settled(Creation(h))
  BY LeaseAssumption DEF Creation, Command, Settled
<1>2. ASSUME NEW new \in 0..MaxRange, MayUpdate(h, new), pc[h] = "loaded"
      PROVE  /\ Update(h, new) \in Command /\ Settled(Update(h, new))
             /\ Update(h, new).prev # Nil /\ Update(h, new).host = h /\ Update(h, new).new = new
  <2>1. /\ new \in Nat /\ seen[h] \in Nat /\ new = seen[h] + 1 /\ shard # Nil /\ seen[h] <= shard.range
        /\ seen[h] # Nil
    BY <1>2, LeaseAssumption DEF MayUpdate, IInv, TypeOK
  <2>2. Update(h, new) = [host |-> h, prev |-> seen[h], new |-> new]
    BY <1>2 DEF Update
  <2>3. new # seen[h]
    BY <2>1
  <2>. QED BY <2>1, <2>2, <2>3 DEF Command, Settled
<1>3. ASSUME NEW new \in 0..MaxRange, MayUpdate(h, new), pc[h] = "own"
      PROVE  /\ Update(h, new) \in Command /\ Settled(Update(h, new))
             /\ Update(h, new).prev # Nil /\ Update(h, new).host = h /\ Update(h, new).new = new
  <2>1. /\ new \in Nat /\ held[h] \in Nat /\ held[h] # Nil /\ new \in {held[h], held[h] + 1}
    BY <1>3, LeaseAssumption DEF MayUpdate, IInv, TypeOK
  <2>2. Update(h, new) = [host |-> h, prev |-> held[h], new |-> new]
    BY <1>3 DEF Update
  <2>3. shard # Nil /\ held[h] <= shard.range /\ (held[h] = shard.range => shard.owner = h)
    BY <2>1 DEF IInv, OwnerIsNamed
  <2>. QED BY <2>1, <2>2, <2>3 DEF Command, Settled
<1>. QED BY <1>1, <1>2, <1>3 DEF MayUpdate

-----------------------------------------------------------------------------
\* A step in which no host gains anything: some hosts may let go of the lease,
\* and a settled command may reach the server or be delayed.
LEMMA NoGain ==
    ASSUME IInv, TypeOK', NEW c \in Command, Settled(c),
           Apply(c) \/ UNCHANGED shard,
           late' \subseteq late \cup {c},
           \A h \in Host : held'[h] \in {held[h], Nil},
           \A h \in Host : pc'[h] = "loaded" =>
              \/ pc[h] = "loaded" /\ seen'[h] = seen[h]
              \/ shard' # Nil /\ seen'[h] <= shard'.range
    PROVE  IInv'
<1>0. /\ \A d \in late \cup {c} : d \in Command /\ Settled(d)
      /\ \A h \in Host : held[h] \in Nat \cup {Nil} /\ seen[h] \in Nat \cup {Nil}
      /\ \A h \in Host : pc[h] = "loaded" => seen[h] \in Nat
  BY DEF IInv, TypeOK
<1>1. /\ \A d \in Command : Settled(d) => Settled(d)'
      /\ \A r \in Nat : shard # Nil /\ r <= shard.range => shard' # Nil /\ r <= shard'.range
      /\ \A h \in Host : held[h] # Nil =>
            /\ shard' # Nil /\ held[h] <= shard'.range
            /\ held[h] = shard'.range => shard'.owner = h
  <2>1. CASE Apply(c)
    BY <2>1, ApplyKeeps
  <2>2. CASE UNCHANGED shard
    BY <2>2 DEF IInv, OwnerIsNamed, Settled
  <2>. QED BY <2>1, <2>2
<1>2. OneOwner'
  BY DEF IInv, OneOwner
<1>3. OwnerIsNamed'
  BY <1>1 DEF OwnerIsNamed
<1>4. \A d \in late' : Settled(d)'
  BY <1>0, <1>1
<1>5. \A h \in Host : pc'[h] = "loaded" => shard' # Nil /\ seen'[h] <= shard'.range
  BY <1>0, <1>1 DEF IInv
<1>. QED BY <1>2, <1>3, <1>4, <1>5 DEF IInv

\* A host whose update is answered owns the range id, alone.
LEMMA UpdateStep ==
    ASSUME IInv, NEW h \in Host, NEW new \in 0..MaxRange, UpdateShard(h, new)
    PROVE  IInv'
<1>. DEFINE c == Update(h, new)
<1>1. /\ c \in Command /\ Settled(c) /\ c.prev # Nil /\ c.host = h /\ c.new = new
      /\ Matches(c) /\ Apply(c) /\ new \in Nat
      /\ held' = [held EXCEPT ![h] = new] /\ pc' = [pc EXCEPT ![h] = "own"] /\ UNCHANGED <<seen, late>>
  BY SentSettled DEF UpdateShard
<1>. HIDE DEF c
<1>2. /\ shard' \in [range : Nat, owner : Host \cup {Nil}] \cup {Nil}
      /\ \A d \in Command : Settled(d) => Settled(d)'
      /\ \A r \in Nat : shard # Nil /\ r <= shard.range => shard' # Nil /\ r <= shard'.range
      /\ \A g \in Host : held[g] # Nil =>
            /\ shard' # Nil /\ held[g] <= shard'.range
            /\ held[g] = shard'.range => shard'.owner = g
  BY <1>1, ApplyKeeps
<1>3. shard' = [range |-> new, owner |-> h]
  BY <1>1 DEF Apply, Written
<1>4. TypeOK'
  BY <1>1, <1>2, LeaseAssumption DEF IInv, TypeOK
<1>5. ASSUME NEW g \in Host, g # h, held[g] # Nil PROVE held[g] # new
  BY <1>2, <1>3, <1>5
<1>6. OneOwner'
  BY <1>1, <1>5 DEF IInv, TypeOK, OneOwner
<1>7. OwnerIsNamed'
  <2>1. shard' # Nil /\ shard'.range = new /\ shard'.owner = h /\ new <= new
    BY <1>1, <1>2, <1>3, LeaseAssumption
  <2>2. \A g \in Host : g # h => held'[g] = held[g]
    BY <1>1 DEF IInv, TypeOK
  <2>3. held'[h] = new
    BY <1>1 DEF IInv, TypeOK
  <2>. QED BY <1>2, <2>1, <2>2, <2>3 DEF OwnerIsNamed
<1>8. \A d \in late' : Settled(d)'
  BY <1>1, <1>2 DEF IInv, TypeOK
<1>9. \A g \in Host : pc'[g] = "loaded" => shard' # Nil /\ seen'[g] <= shard'.range
  <2>1. \A g \in Host : pc'[g] = "loaded" => pc[g] = "loaded" /\ seen'[g] = seen[g]
    BY <1>1 DEF IInv, TypeOK
  <2>2. \A g \in Host : pc[g] = "loaded" => seen[g] \in Nat /\ shard # Nil /\ seen[g] <= shard.range
    BY DEF IInv, TypeOK
  <2>. QED BY <1>2, <2>1, <2>2
<1>. QED BY <1>4, <1>6, <1>7, <1>8, <1>9 DEF IInv

-----------------------------------------------------------------------------
\* Types, for the steps in which nobody gains the lease.
LEMMA LoadStep ==
    ASSUME IInv, NEW h \in Host, GetOrCreateShard(h) \/ Reread(h) \/ CreateLost(h) \/ CreateShard(h)
    PROVE  IInv'
<1>. DEFINE c == Creation(h)
<1>0. c \in Command /\ Settled(c)
  BY SentSettled
<1>1. CASE GetOrCreateShard(h) \/ Reread(h)
  <2>1. PICK m \in BOOLEAN : Load(h, m) /\ pc[h] \in {"idle", "reread"}
    BY <1>1, Zenon DEF GetOrCreateShard, Reread
  <2>2. TypeOK'
    BY <2>1, LeaseAssumption DEF Load, IInv, TypeOK
  <2>3. shard # Nil => shard.range \in Nat /\ shard.range <= shard.range
    BY LeaseAssumption DEF IInv, TypeOK
  <2>4. UNCHANGED <<shard, held, late>>
    BY <2>1 DEF Load
  <2>5. \A g \in Host : pc'[g] = "loaded" =>
              \/ pc[g] = "loaded" /\ seen'[g] = seen[g]
              \/ shard' # Nil /\ seen'[g] <= shard'.range
    BY <2>1, <2>3 DEF Load, IInv, TypeOK
  <2>. QED BY <1>0, <2>2, <2>4, <2>5, NoGain
<1>2. CASE CreateLost(h)
  <2>1. TypeOK'
    BY <1>2 DEF CreateLost, IInv, TypeOK
  <2>2. UNCHANGED <<shard, seen, held, late>> /\ \A g \in Host : pc'[g] = "loaded" => pc[g] = "loaded"
    BY <1>2 DEF CreateLost, IInv, TypeOK
  <2>. QED BY <1>0, <2>1, <2>2, NoGain
<1>3. CASE CreateShard(h)
  <2>1. shard' = [range |-> InitialRange, owner |-> Nil] /\ Apply(c) /\ UNCHANGED <<held, late>>
    BY <1>3 DEF CreateShard, Apply, Matches, Written, Creation
  <2>2. TypeOK'
    BY <1>3, <2>1, LeaseAssumption DEF CreateShard, IInv, TypeOK
  <2>3. \A g \in Host : pc'[g] = "loaded" =>
              \/ pc[g] = "loaded" /\ seen'[g] = seen[g]
              \/ shard' # Nil /\ seen'[g] <= shard'.range
    BY <1>3, <2>1, LeaseAssumption DEF CreateShard, IInv, TypeOK
  <2>. QED BY <1>0, <2>1, <2>2, <2>3, NoGain
<1>. QED BY <1>1, <1>2, <1>3

\* Losing the lease, an answer or the whole host gives nobody anything.
LEMMA ReleaseStep ==
    ASSUME IInv, NEW h \in Host, NEW c \in Command, Settled(c), Release(h),
           \/ Apply(c) /\ UNCHANGED late
           \/ late' \in {late, late \cup {c}} /\ UNCHANGED shard
    PROVE  IInv'
<1>1. /\ held' = [held EXCEPT ![h] = Nil] /\ pc' = [pc EXCEPT ![h] = "idle"] /\ seen' = seen
  BY DEF Release
<1>2. shard' \in [range : Nat, owner : Host \cup {Nil}] \cup {Nil}
  BY ApplyKeeps DEF IInv, TypeOK
<1>3. TypeOK'
  BY <1>1, <1>2 DEF IInv, TypeOK
<1>4. /\ \A g \in Host : held'[g] \in {held[g], Nil}
      /\ \A g \in Host : pc'[g] = "loaded" => pc[g] = "loaded" /\ seen'[g] = seen[g]
      /\ late' \subseteq late \cup {c}
  BY <1>1 DEF IInv, TypeOK
<1>. QED BY <1>3, <1>4, NoGain

\* One case per action of Next.
LEMMA NextStep == IInv /\ [Next]_vars => IInv'
<1>. SUFFICES ASSUME IInv, [Next]_vars PROVE IInv'
  OBVIOUS
<1>1. ASSUME NEW h \in Host, GetOrCreateShard(h) \/ Reread(h) \/ CreateLost(h) \/ CreateShard(h) PROVE IInv'
  BY <1>1, LoadStep
<1>2. ASSUME NEW h \in Host, CreateTimesOut(h) PROVE IInv'
  BY <1>2, SentSettled, ReleaseStep DEF CreateTimesOut, TimesOut
<1>3. ASSUME NEW h \in Host, Restart(h) PROVE IInv'
  BY <1>3, SentSettled, ReleaseStep DEF Restart
<1>4. ASSUME NEW h \in Host, NEW new \in 0..MaxRange, UpdateShard(h, new) PROVE IInv'
  BY <1>4, UpdateStep
<1>5. ASSUME NEW h \in Host, NEW new \in 0..MaxRange, shardOwnershipLost(h, new) PROVE IInv'
  BY <1>5, SentSettled, ReleaseStep DEF shardOwnershipLost
<1>6. ASSUME NEW h \in Host, NEW new \in 0..MaxRange, UpdateTimesOut(h, new) PROVE IInv'
  BY <1>6, SentSettled, ReleaseStep DEF UpdateTimesOut, TimesOut
<1>7. ASSUME NEW c \in late, LateArrives(c) PROVE IInv'
  <2>1. c \in Command /\ Settled(c) /\ Apply(c) /\ late' = late \ {c} /\ UNCHANGED <<pc, seen, held>>
    BY <1>7 DEF LateArrives, IInv, TypeOK
  <2>2. TypeOK'
    BY <2>1, ApplyKeeps DEF IInv, TypeOK
  <2>. QED BY <2>1, <2>2, NoGain
<1>8. CASE UNCHANGED vars
  BY <1>8 DEF vars, IInv, TypeOK, OneOwner, OwnerIsNamed, Settled
<1>. QED BY <1>1, <1>2, <1>3, <1>4, <1>5, <1>6, <1>7, <1>8 DEF Next

\* A range id has at most one owner and the shard record names it, for any
\* number of hosts calling GetOrCreateShard and UpdateShard.
THEOREM LeaseTheorem == Spec => [](TypeOK /\ OneOwner /\ OwnerIsNamed)
<1>1. Init => IInv
  BY DEF Init, IInv, TypeOK, OneOwner, OwnerIsNamed
<1>2. IInv /\ [Next]_vars => IInv'
  BY NextStep
<1>. QED BY <1>1, <1>2, PTL DEF Spec, IInv

\* The record is only ever written by settled commands.
LEMMA ShardChanges ==
    ASSUME IInv, [Next]_vars, shard' # shard
    PROVE  \E c \in Command : Settled(c) /\ Apply(c)
<1>1. ASSUME NEW h \in Host, CreateShard(h) \/ CreateTimesOut(h)
      PROVE  \E c \in Command : Settled(c) /\ Apply(c)
  BY <1>1, SentSettled DEF CreateShard, CreateTimesOut, TimesOut
<1>2. ASSUME NEW h \in Host, NEW new \in 0..MaxRange, UpdateShard(h, new) \/ UpdateTimesOut(h, new)
      PROVE  \E c \in Command : Settled(c) /\ Apply(c)
  BY <1>2, SentSettled DEF UpdateShard, UpdateTimesOut, TimesOut
<1>3. ASSUME NEW c \in late, LateArrives(c) PROVE \E d \in Command : Settled(d) /\ Apply(d)
  BY <1>3 DEF LateArrives, IInv, TypeOK
<1>4. ASSUME NEW h \in Host, GetOrCreateShard(h) \/ Reread(h) \/ CreateLost(h) \/ Restart(h) PROVE FALSE
  BY <1>4 DEF GetOrCreateShard, Reread, Load, CreateLost, Restart
<1>5. ASSUME NEW h \in Host, NEW new \in 0..MaxRange, shardOwnershipLost(h, new) PROVE FALSE
  BY <1>5 DEF shardOwnershipLost
<1>. QED BY <1>1, <1>2, <1>3, <1>4, <1>5 DEF Next, vars

\* The lease never moves backwards and never skips a range id.
THEOREM RangeTheorem == Spec => RangeStepsUp
<1>. DEFINE StepsUp == shard # Nil => shard' # Nil /\ shard'.range \in {shard.range, shard.range + 1}
<1>1. ASSUME IInv, [Next]_vars, shard # Nil
      PROVE  shard' # Nil /\ shard'.range \in {shard.range, shard.range + 1}
  <2>1. CASE shard' = shard
    BY <1>1, <2>1
  <2>2. CASE shard' # shard
    <3>1. PICK c \in Command : Settled(c) /\ Apply(c)
      BY <1>1, <2>2, ShardChanges
    <3>2. shard' = [range |-> shard.range + 1, owner |-> c.host]
      BY <1>1, <2>2, <3>1, ApplyCases DEF IInv
    <3>3. shard.range \in Nat /\ c.host \in Host
      BY <1>1 DEF IInv, TypeOK, Command
    <3>4. shard' # Nil
      BY <3>2, <3>3, LeaseAssumption
    <3>. QED BY <3>2, <3>4
  <2>. QED BY <2>1, <2>2
<1>2. IInv /\ [Next]_vars => [StepsUp]_vars
  BY <1>1
<1>. HIDE DEF StepsUp
<1>3. Init => IInv
  BY DEF Init, IInv, TypeOK, OneOwner, OwnerIsNamed
<1>4. Spec => [][StepsUp]_vars
  BY <1>2, <1>3, NextStep, PTL DEF Spec
<1>. QED BY <1>4 DEF RangeStepsUp, StepsUp

-----------------------------------------------------------------------------
(***************************************************************************)
(* Cluster metadata, for any number of clients that edit it.  What a       *)
(* client has read is the record as long as the versions agree, unless the *)
(* record was deleted and its versions started over.                       *)
(***************************************************************************)
Metadata == [version : Nat, edits : SUBSET Editor]

MetadataInv ==
    /\ cluster \in Metadata \cup {Nil}
    /\ cluster # Nil => cluster.version > 0
    /\ draft \in [Editor -> Metadata \cup {Nil}]
    /\ dropped \in BOOLEAN
    /\ ~dropped => \A c \in Editor : draft[c] # Nil /\ draft[c].version # 0 =>
         /\ cluster # Nil /\ draft[c].version <= cluster.version
         /\ draft[c].version = cluster.version => draft[c] = cluster

\* There is no record and nobody has read one.
LEMMA MetadataInit == ClusterInit => MetadataInv
BY Zenon DEF ClusterInit, MetadataInv, Metadata

\* One case per action that touches the record.
LEMMA MetadataNext == MetadataInv /\ [ClusterNext]_cmvars => MetadataInv'
<1> SUFFICES ASSUME MetadataInv, [ClusterNext]_cmvars PROVE MetadataInv'
  OBVIOUS
<1> USE ClusterAssumption
<1>1. ASSUME NEW c \in Editor, GetClusterMetadata(c) PROVE MetadataInv'
  <2> DEFINE d == IF cluster = Nil THEN [version |-> 0, edits |-> {}] ELSE cluster
  <2>1. d \in Metadata /\ (cluster = Nil => d.version = 0) /\ (cluster # Nil => d = cluster)
    BY DEF MetadataInv, Metadata
  <2>2. draft' = [draft EXCEPT ![c] = d] /\ UNCHANGED <<cluster, dropped>>
    BY <1>1 DEF GetClusterMetadata
  <2> HIDE DEF d
  <2>3. draft' \in [Editor -> Metadata \cup {Nil}]
    BY <2>1, <2>2 DEF MetadataInv
  <2>4. \A x \in Editor : draft'[x] = IF x = c THEN d ELSE draft[x]
    BY <2>2 DEF MetadataInv
  <2>5. cluster # Nil => cluster.version \in Nat
    BY DEF MetadataInv, Metadata
  <2>. QED BY <2>1, <2>2, <2>3, <2>4, <2>5 DEF MetadataInv
<1>2. ASSUME NEW c \in Editor, SaveClusterMetadata(c) PROVE MetadataInv'
  <2>1. draft[c] \in Metadata /\ draft' = [draft EXCEPT ![c] = Nil] /\ UNCHANGED dropped
    BY <1>2 DEF SaveClusterMetadata, MetadataInv
  <2>2. draft' \in [Editor -> Metadata \cup {Nil}]
    BY <2>1 DEF MetadataInv
  <2>3. \A x \in Editor : draft'[x] = IF x = c THEN Nil ELSE draft[x]
    BY <2>1 DEF MetadataInv
  <2>4. CASE ~MaySave(draft[c].version)
    BY <1>2, <2>1, <2>2, <2>3, <2>4 DEF SaveClusterMetadata, MetadataInv
  <2>5. CASE MaySave(draft[c].version)
    <3> DEFINE v == draft[c].version
    <3>1. v \in Nat /\ cluster' = [version |-> v + 1, edits |-> draft[c].edits \cup {c}]
      BY <1>2, <2>1, <2>5 DEF SaveClusterMetadata, Metadata
    <3>2. cluster' \in Metadata /\ cluster'.version = v + 1 /\ cluster' # Nil
      BY <2>1, <3>1 DEF Metadata
    <3>3. cluster = Nil \/ (cluster # Nil /\ cluster.version = v)
      BY <2>5 DEF MaySave
    <3>4. \A x \in Editor : draft[x] # Nil => draft[x].version \in Nat
      BY DEF MetadataInv, Metadata
    <3> HIDE DEF v
    <3>5. ASSUME ~dropped', NEW x \in Editor, draft'[x] # Nil, draft'[x].version # 0
          PROVE  draft'[x].version <= cluster'.version /\ draft'[x].version # cluster'.version
      <4>1. draft'[x] = draft[x] /\ draft[x] # Nil /\ ~dropped
        BY <2>1, <2>3, <3>5
      <4>2. cluster # Nil /\ draft[x].version <= cluster.version
        BY <3>5, <4>1 DEF MetadataInv
      <4>. QED BY <3>1, <3>2, <3>3, <3>4, <4>1, <4>2
    <3>6. cluster'.version > 0
      BY <3>1, <3>2
    <3>7. dropped' \in BOOLEAN
      BY <2>1 DEF MetadataInv
    <3>. QED BY <2>2, <3>2, <3>5, <3>6, <3>7 DEF MetadataInv
  <2>. QED BY <2>4, <2>5
<1>3. CASE DeleteClusterMetadata
  BY <1>3 DEF DeleteClusterMetadata, MetadataInv
<1>4. CASE MemberStep
  <2>1. UNCHANGED metavars
    BY <1>4, Zenon DEF MemberStep, UpsertClusterMembership, Time, StartPrune, ScanMember,
                       PruneClusterMembership, PruneMember, PruneReturns
  <2>. QED BY <2>1 DEF metavars, MetadataInv
<1>5. CASE UNCHANGED cmvars
  BY <1>5 DEF cmvars, MetadataInv
<1>. QED BY <1>1, <1>2, <1>3, <1>4, <1>5 DEF ClusterNext, MetadataStep

\* A save drops no edit that it has not read and moves the version on by one.
THEOREM EditsTheorem == ClusterSpec => NoEditIsLost
<1> DEFINE Kept == ~dropped' /\ cluster # Nil /\ cluster' # cluster =>
                      cluster.edits \subseteq cluster'.edits /\ cluster'.version = cluster.version + 1
<1>1. ASSUME MetadataInv, [ClusterNext]_cmvars PROVE Kept
  <2> SUFFICES ASSUME ~dropped', cluster # Nil, cluster' # cluster
               PROVE  cluster.edits \subseteq cluster'.edits /\ cluster'.version = cluster.version + 1
    OBVIOUS
  <2>1. PICK c \in Editor : SaveClusterMetadata(c)
    <3>1. CASE MemberStep
      BY <3>1, Zenon DEF MemberStep, UpsertClusterMembership, Time, StartPrune, ScanMember,
                         PruneClusterMembership, PruneMember, PruneReturns, metavars
    <3>2. \A c \in Editor : ~GetClusterMetadata(c)
      BY DEF GetClusterMetadata
    <3>3. ~DeleteClusterMetadata
      BY DEF DeleteClusterMetadata
    <3>. QED BY <1>1, <3>1, <3>2, <3>3 DEF ClusterNext, MetadataStep, cmvars
  <2>2. MaySave(draft[c].version) /\ draft[c] # Nil /\ dropped' = dropped
        /\ cluster' = [version |-> draft[c].version + 1, edits |-> draft[c].edits \cup {c}]
    BY <2>1 DEF SaveClusterMetadata
  <2>3. draft[c].version # 0 /\ cluster.version = draft[c].version
    BY <2>2 DEF MaySave
  <2>4. draft[c] = cluster
    BY <1>1, <2>2, <2>3 DEF MetadataInv
  <2>. QED BY <2>2, <2>4
<1> HIDE DEF Kept
<1>2. ClusterSpec => [][Kept]_cmvars
  BY <1>1, MetadataInit, MetadataNext, PTL DEF ClusterSpec
<1>. QED BY <1>2 DEF NoEditIsLost, Kept

-----------------------------------------------------------------------------
(***************************************************************************)
(* Cluster membership, for any number of hosts.  A prune acts on a scan    *)
(* that may be old: for a host without a heartbeat since, what it saw is   *)
(* the last heartbeat, and what it deletes had lapsed.                     *)
(***************************************************************************)
MembershipTypeOK ==
    /\ clock \in Nat
    /\ member \in [Member -> Nat \cup {Nil}]
    /\ beat \in [Member -> Nat]
    /\ prune.seen \in [Member -> Nat \cup {Nil}]
    /\ prune.todo \subseteq Member
    /\ prune.at = "delete" => \A h \in prune.todo : prune.seen[h] # Nil

\* The record of a host is its last heartbeat, or the heartbeat has lapsed.
Listed(h) == IF member[h] = Nil THEN beat[h] <= clock ELSE member[h] = beat[h]

\* What the running prune has seen and wants to delete.
PruneSaw(h) ==
    /\ prune.at # "done" /\ prune.seen[h] # Nil => prune.seen[h] = beat[h]
    /\ prune.at = "delete" /\ h \in prune.todo => prune.seen[h] <= clock

MembershipInv ==
    /\ MembershipTypeOK
    /\ \A h \in Member \ inPrune : Listed(h) /\ PruneSaw(h)

\* No host has sent a heartbeat and nobody prunes.
LEMMA MembershipInit == ClusterInit => MembershipInv
BY ClusterAssumption DEF ClusterInit, NoPrune, MembershipInv, MembershipTypeOK, Listed, PruneSaw

\* One case per action on the membership records.
LEMMA MembershipNext == MembershipInv /\ [ClusterNext]_cmvars => MembershipInv'
<1> SUFFICES ASSUME MembershipInv, [ClusterNext]_cmvars PROVE MembershipInv'
  OBVIOUS
<1> USE ClusterAssumption
<1>0. MembershipTypeOK
  BY DEF MembershipInv
<1>1. ASSUME NEW h \in Member, UpsertClusterMembership(h) PROVE MembershipInv'
  <2>1. clock + Lifetime \in Nat /\ UNCHANGED <<clock, prune>>
    BY <1>0, <1>1 DEF UpsertClusterMembership, MembershipTypeOK
  <2>2. MembershipTypeOK'
    BY <1>0, <1>1, <2>1 DEF UpsertClusterMembership, MembershipTypeOK
  <2>3. /\ member'[h] = beat'[h] /\ member'[h] # Nil
        /\ \A g \in Member : g # h => member'[g] = member[g] /\ beat'[g] = beat[g]
    BY <1>0, <1>1, <2>1 DEF UpsertClusterMembership, MembershipTypeOK
  <2>4. ASSUME NEW g \in Member \ inPrune' PROVE (Listed(g) /\ PruneSaw(g))'
    <3>1. CASE g = h
      <4>1. prune.at = "done" \/ prune.seen[h] = Nil
        BY <1>1, <2>4, <3>1 DEF UpsertClusterMembership
      <4>2. prune.seen[h] = Nil /\ prune.at = "delete" => h \notin prune.todo
        BY <1>0 DEF MembershipTypeOK
      <4>. QED BY <2>1, <2>3, <3>1, <4>1, <4>2 DEF Listed, PruneSaw
    <3>2. CASE g # h
      <4>1. g \notin inPrune
        BY <1>1, <2>4, <3>2 DEF UpsertClusterMembership
      <4>. QED BY <2>1, <2>3, <3>2, <4>1 DEF MembershipInv, Listed, PruneSaw
    <3>. QED BY <3>1, <3>2
  <2>. QED BY <2>2, <2>4 DEF MembershipInv
<1>2. CASE Time
  <2>1. /\ clock' = clock + 1 /\ UNCHANGED <<member, prune, beat, inPrune>>
    BY <1>2 DEF Time
  <2>2. \A n \in Nat : n <= clock => n <= clock + 1
    BY <1>0 DEF MembershipTypeOK
  <2>3. MembershipTypeOK'
    BY <1>0, <2>1 DEF MembershipTypeOK
  <2>4. ASSUME NEW h \in Member \ inPrune PROVE (Listed(h) /\ PruneSaw(h))'
    <3>1. Listed(h) /\ PruneSaw(h) /\ beat[h] \in Nat /\ prune.seen[h] \in Nat \cup {Nil}
      BY <1>0 DEF MembershipInv, MembershipTypeOK
    <3>2. prune.at = "delete" /\ h \in prune.todo => prune.seen[h] \in Nat
      BY <1>0, <3>1, SMTT(30) DEF MembershipTypeOK
    <3>. QED BY <2>1, <2>2, <3>1, <3>2 DEF Listed, PruneSaw
  <2>. QED BY <2>1, <2>3, <2>4 DEF MembershipInv
<1>3. ASSUME NEW limit \in MaxRecordsPruned, StartPrune(limit) PROVE MembershipInv'
  <2>1. /\ prune'.at = "scan" /\ prune'.seen = [h \in Member |-> Nil] /\ prune'.todo = {}
        /\ UNCHANGED <<clock, member, beat, inPrune>>
    BY <1>3, SMTT(30) DEF StartPrune, NoPrune
  <2>. QED BY <1>0, <2>1 DEF MembershipInv, MembershipTypeOK, Listed, PruneSaw
<1>4. ASSUME NEW h \in Member, ScanMember(h) PROVE MembershipInv'
  <2>1. /\ prune.at = "scan" /\ prune'.at = "scan" /\ prune'.todo = prune.todo
        /\ prune'.seen = [prune.seen EXCEPT ![h] = member[h]]
        /\ UNCHANGED <<clock, member, beat, inPrune>>
    BY <1>4 DEF ScanMember
  <2>2. MembershipTypeOK'
    BY <1>0, <2>1 DEF MembershipTypeOK
  <2>3. ASSUME NEW g \in Member \ inPrune PROVE (Listed(g) /\ PruneSaw(g))'
    <3>1. prune'.seen[g] = IF g = h THEN member[g] ELSE prune.seen[g]
      BY <1>0, <2>1 DEF MembershipTypeOK
    <3>. QED BY <2>1, <3>1 DEF MembershipInv, Listed, PruneSaw
  <2>. QED BY <2>1, <2>2, <2>3, Zenon DEF MembershipInv
<1>5. CASE PruneClusterMembership
  <2>1. /\ prune.at = "scan" /\ prune'.at = "delete" /\ prune'.seen = prune.seen
        /\ prune'.todo = {h \in Member : prune.seen[h] # Nil /\ prune.seen[h] <= clock}
        /\ UNCHANGED <<clock, member, beat, inPrune>>
    BY <1>5 DEF PruneClusterMembership
  <2>. QED BY <1>0, <2>1 DEF MembershipInv, MembershipTypeOK, Listed, PruneSaw
<1>6. ASSUME NEW h \in Member, PruneMember(h) PROVE MembershipInv'
  <2>1. /\ prune.at = "delete" /\ h \in prune.todo /\ prune'.at = prune.at /\ prune'.seen = prune.seen
        /\ prune'.todo = prune.todo \ {h} /\ member' = [member EXCEPT ![h] = Nil]
        /\ UNCHANGED <<clock, beat, inPrune>>
    BY <1>6 DEF PruneMember
  <2>2. MembershipTypeOK'
    BY <1>0, <2>1 DEF MembershipTypeOK
  <2>3. ASSUME NEW g \in Member \ inPrune PROVE (Listed(g) /\ PruneSaw(g))'
    <3>1. member'[g] = IF g = h THEN Nil ELSE member[g]
      BY <1>0, <2>1 DEF MembershipTypeOK
    <3>2. Listed(g) /\ PruneSaw(g)
      BY DEF MembershipInv
    <3>3. g = h => beat[g] <= clock
      BY <1>0, <2>1, <3>2 DEF PruneSaw, MembershipTypeOK
    <3>. QED BY <2>1, <3>1, <3>2, <3>3 DEF Listed, PruneSaw
  <2>. QED BY <2>1, <2>2, <2>3 DEF MembershipInv
<1>7. CASE PruneReturns
  <2>1. /\ prune'.at = "done" /\ prune'.seen = prune.seen /\ prune'.todo = prune.todo
        /\ UNCHANGED <<clock, member, beat, inPrune>>
    BY <1>7 DEF PruneReturns
  <2>. QED BY <1>0, <2>1 DEF MembershipInv, MembershipTypeOK, Listed, PruneSaw
<1>8. CASE MetadataStep \/ UNCHANGED cmvars
  <2>1. UNCHANGED membervars
    BY <1>8, Zenon DEF MetadataStep, GetClusterMetadata, SaveClusterMetadata, DeleteClusterMetadata,
                       cmvars, membervars
  <2>. QED BY <1>0, <2>1 DEF membervars, MembershipInv, MembershipTypeOK, Listed, PruneSaw
<1>. QED BY <1>1, <1>2, <1>3, <1>4, <1>5, <1>6, <1>7, <1>8 DEF ClusterNext, MemberStep

\* GetClusterMembers lists a host exactly while its last heartbeat has not
\* lapsed, unless the heartbeat came after a running prune had read the record.
THEOREM MembershipTheorem == ClusterSpec => []LiveHostsAreListed
<1>1. MembershipInv => LiveHostsAreListed
  <2> SUFFICES ASSUME MembershipInv, NEW h \in Member \ inPrune
               PROVE  h \in ActiveMembers <=> beat[h] > clock
    BY DEF LiveHostsAreListed
  <2>1. Listed(h) /\ beat[h] \in Nat /\ clock \in Nat
    BY DEF MembershipInv, MembershipTypeOK
  <2>. QED BY <2>1 DEF Listed, ActiveMembers
<1>. QED BY <1>1, MembershipInit, MembershipNext, PTL DEF ClusterSpec
=============================================================================
