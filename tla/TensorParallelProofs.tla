------------------------ MODULE TensorParallelProofs ------------------------
(***************************************************************************)
(* Proofs about tensor-parallel passes, for any number of ranks and passes *)
(* and all sizes of the model.  First the collectives: the ranks' stages,  *)
(* tensors and pending groups stay consistent through exceptions and       *)
(* repeated passes, and no reduction combines tensors of two passes.  Then *)
(* what is computed: the loaders give every rank its shard, the shares of  *)
(* the ranks make what a single rank would compute, and the collectives    *)
(* hand that to all of them.                                               *)
(***************************************************************************)
EXTENDS TensorParallel, TLAPS, FiniteSetTheorems, QueueProofs

-----------------------------------------------------------------------------
(* The inductive invariant *)

IsTensor(t) ==
    /\ DOMAIN t = {"pass", "stage", "value"}
    /\ t.pass \in Nat
    /\ t.pass <= pass

LoaderOK ==
    /\ cfg \in Configurations
    /\ DOMAIN param = Ranks
    /\ \A r \in Ranks : DOMAIN param[r] = RegisteredNames
    /\ unread \in [Ranks -> SUBSET CheckpointEntries]
    /\ loading \in [Ranks -> {"loading", "loaded", "failed"}]

\* A pass runs until all ranks have been through all stages.  Ranks whose
\* collectives are matched by NCCL finish a stage together.
PassOK ==
    /\ token \in Tokens
    /\ pass \in 0 .. MaxPasses
    /\ outcome \in {"running", "done", "threw", "rejected"}
    /\ spoiled \in BOOLEAN
    /\ stage \in [Ranks -> 0 .. Len(Stages)]
    /\ outcome = "running" => \E r \in Ranks : stage[r] # Len(Stages)
    /\ cfg.backend = "nccl" => \A q, r \in Ranks : stage[q] = stage[r]
    /\ enqueued \subseteq Ranks
    /\ enqueued # {} => cfg.tp > 1 /\ cfg.backend = "nccl"

\* The ranks that have arrived in a group are the first ones, and not all.
GroupsOK ==
    /\ DOMAIN tensor = Ranks
    /\ \A r \in Ranks : IsTensor(tensor[r])
    /\ DOMAIN pending = GroupKeys
    /\ \A key \in GroupKeys :
           /\ \E m \in 0 .. cfg.tp - 1 : Members(key) = 0 .. m - 1
           /\ \A r \in Members(key) : IsTensor(pending[key][r])

\* When it is the turn of a rank behind the first, the group it comes to has
\* the ranks before it, with their tensors of this pass: what an aborted pass
\* left there would have turned the first rank away.
TurnOK ==
    \A r \in Ranks \ {0} :
        cfg.backend = "in_process" /\ cfg.tp > 1 /\ Turn(r) =>
            LET key == Stages[stage[r] + 1]
            IN  /\ Members(key) = 0 .. r - 1
                /\ \A q \in Members(key) : pending[key][q].pass = pass

TPInv == LoaderOK /\ PassOK /\ GroupsOK /\ TurnOK

-----------------------------------------------------------------------------
(* Configurations, stages and turns *)

LEMMA RankFacts ==
  ASSUME cfg \in Configurations
  PROVE  /\ cfg.tp \in Nat \ {0}
         /\ Ranks = 0 .. cfg.tp - 1
         /\ 0 \in Ranks
  <1>1. cfg.tp \in Nat \ {0}
    BY ConfigurationsAssumption
  <1> QED  BY <1>1 DEF Ranks

LEMMA StageFacts ==
  /\ Len(Stages) = 4
  /\ \A k \in 0 .. 3 : Stages[k + 1] \in GroupKeys
  <1>1. Stages[1] \in ToSet(Stages) /\ Stages[2] \in ToSet(Stages)
          /\ Stages[3] \in ToSet(Stages) /\ Stages[4] \in ToSet(Stages)
    BY DEF Stages, ToSet
  <1> QED  BY <1>1, GroupKeysAssumption DEF Stages

\* It is the turn of a rank that has a stage before it, and of one rank only.
LEMMA TurnFacts ==
  ASSUME TPInv, NEW r \in Ranks, Turn(r)
  PROVE  /\ stage[r] \in 0 .. 3
         /\ Stages[stage[r] + 1] \in GroupKeys
  <1>1. stage[r] \in 0 .. 4
    BY StageFacts DEF TPInv, PassOK
  <1>2. PICK q \in Ranks : stage[q] # 4
    BY StageFacts DEF TPInv, PassOK, Turn
  <1>3. stage[q] \in 0 .. 4 /\ stage[q] = IF q < r THEN stage[r] + 1 ELSE stage[r]
    BY StageFacts DEF TPInv, PassOK, Turn
  <1>4. stage[r] # 4
    BY <1>1, <1>2, <1>3
  <1> QED  BY <1>1, <1>4, StageFacts

-----------------------------------------------------------------------------
(* Groups *)

LEMMA LastIsLast ==
  ASSUME NEW n \in Nat \ {0}, NEW m \in 0 .. n - 1
  PROVE  /\ (0 .. m - 1) \union {m} = 0 .. m
         /\ Cardinality(0 .. m) = n <=> m = n - 1
  <1>1. Cardinality(0 .. m) = m + 1
    BY FS_Interval
  <1> QED  BY <1>1

\* What a collective of the in-process communicator does, whichever it is.
Joins(key, r, t) ==
    /\ r \notin Members(key)
    /\ pending' = [pending EXCEPT ![key] =
                      IF LastToArrive(key, cfg.tp, r) THEN << >> ELSE Arrived(key, r, t)]
    /\ enqueued' = enqueued

TensorsKept ==
    /\ DOMAIN tensor' = Ranks
    /\ \A q \in Ranks : IsTensor(tensor'[q])

\* A tensor stays one when its value is replaced.
LEMMA ValueReplaced ==
  ASSUME NEW t, IsTensor(t), NEW v
  PROVE  IsTensor([t EXCEPT !.value = v])
  BY DEF IsTensor

LEMMA AllReduceJoins ==
  ASSUME TPInv, NEW key \in GroupKeys, NEW r \in Ranks, NEW t, IsTensor(t),
         all_reduce_sum(key, cfg.tp, r, t)
  PROVE  Joins(key, r, t) /\ TensorsKept
  <1> DEFINE own == [tensor EXCEPT ![r] = t]
             shards == Arrived(key, r, t)
  <1>1. DOMAIN own = Ranks /\ \A q \in Ranks : IsTensor(own[q])
    BY DEF TPInv, GroupsOK
  <1>2. TensorsKept
    <2>1. CASE tensor' = own
      BY <1>1, <2>1 DEF TensorsKept
    <2>2. CASE tensor' = WrittenBack(own, shards)
      <3>1. DOMAIN tensor' = Ranks
        BY <1>1, <2>2 DEF WrittenBack
      <3>2. \A q \in Ranks : tensor'[q] = own[q]
                \/ tensor'[q] = [own[q] EXCEPT !.value = Summed(shards)]
        BY <1>1, <2>2 DEF WrittenBack
      <3>3. ASSUME NEW q \in Ranks  PROVE IsTensor(tensor'[q])
        <4>1. IsTensor(own[q]) /\ IsTensor([own[q] EXCEPT !.value = Summed(shards)])
          BY <1>1, ValueReplaced
        <4> QED  BY <3>2, <4>1 DEF IsTensor
      <3> QED  BY <3>1, <3>3 DEF TensorsKept
    <2> QED  BY <2>1, <2>2 DEF all_reduce_sum
  <1>3. Joins(key, r, t)
    BY DEF all_reduce_sum, Joins, Rejects, Erased
  <1> QED  BY <1>2, <1>3

LEMMA GatherJoins ==
  ASSUME TPInv, NEW key \in GroupKeys, NEW r \in Ranks, NEW t, IsTensor(t),
         gather_last_dim_to_rank0(key, cfg.tp, r, t, Vocab)
  PROVE  Joins(key, r, t) /\ TensorsKept
  <1> DEFINE shards == Arrived(key, r, t)
             zeroed == [t EXCEPT !.value = [i \in 1 .. Vocab |-> Zero]]
             nothing == [t EXCEPT !.value = << >>]
             own == [tensor EXCEPT ![r] = IF r = 0 THEN zeroed ELSE nothing]
             rank0_output == [shards[0] EXCEPT !.value = Gathered(shards, Vocab)]
  <1>1. DOMAIN own = Ranks /\ \A q \in Ranks : IsTensor(own[q])
    <2>1. IsTensor(zeroed) /\ IsTensor(nothing)
      BY ValueReplaced
    <2> QED  BY <2>1 DEF TPInv, GroupsOK
  <1>2. TensorsKept
    <2>1. CASE tensor' = own
      BY <1>1, <2>1 DEF TensorsKept
    <2>2. CASE /\ LastToArrive(key, cfg.tp, r)
               /\ tensor' = [own EXCEPT ![0] = rank0_output]
      <3>1. PICK m \in 0 .. cfg.tp - 1 : Members(key) = 0 .. m - 1
        BY DEF TPInv, GroupsOK
      <3>2. cfg.tp \in Nat \ {0} /\ 0 \in Ranks
        BY RankFacts DEF TPInv, LoaderOK
      <3>3. r \notin Members(key)
        BY DEF gather_last_dim_to_rank0, Rejects
      <3>4. IsTensor(shards[0])
        <4>1. CASE r = 0
          <5>1. Arrived(key, r, t)[r] = t
            BY DEF Arrived
          <5> QED  BY <4>1, <5>1 DEF IsTensor
        <4>2. CASE r # 0
          <5>1. CASE m = 0
            <6>1. Members(key) \union {r} = {r}
              BY <3>1, <5>1
            <6>2. cfg.tp = 1
              BY <2>2, <6>1, FS_Singleton DEF LastToArrive
            <6> QED  BY <4>2, <6>2, RankFacts DEF TPInv, LoaderOK
          <5>2. CASE m # 0
            <6>1. 0 \in Members(key)
              BY <3>1, <5>2
            <6>2. \A q \in Members(key) \ {r} : shards[q] = pending[key][q]
              BY DEF Arrived
            <6> QED  BY <4>2, <6>1, <6>2 DEF TPInv, GroupsOK, IsTensor
          <5> QED  BY <5>1, <5>2
        <4> QED  BY <4>1, <4>2
      <3>5. IsTensor(rank0_output)
        BY <3>4, ValueReplaced
      <3> QED  BY <1>1, <2>2, <3>5 DEF TensorsKept
    <2> QED  BY <2>1, <2>2 DEF gather_last_dim_to_rank0
  <1>3. Joins(key, r, t)
    BY DEF gather_last_dim_to_rank0, Joins, Rejects, Erased
  <1> QED  BY <1>2, <1>3

\* A rank is let into a group only behind all ranks before it.
LEMMA ArrivesInOrder ==
  ASSUME TPInv, NEW r \in Ranks, Turn(r), cfg.backend = "in_process", cfg.tp > 1,
         NEW key, key = Stages[stage[r] + 1], r \notin Members(key)
  PROVE  /\ Members(key) = 0 .. r - 1
         /\ \A q \in Members(key) : pending[key][q].pass = pass
         /\ LastToArrive(key, cfg.tp, r) <=> r = cfg.tp - 1
  <1>1. key \in GroupKeys
    BY TurnFacts
  <1>2. cfg.tp \in Nat \ {0} /\ r \in 0 .. cfg.tp - 1
    BY RankFacts DEF TPInv, LoaderOK
  <1>3. /\ Members(key) = 0 .. r - 1
        /\ \A q \in Members(key) : pending[key][q].pass = pass
    <2>1. CASE r = 0
      <3>1. PICK m \in 0 .. cfg.tp - 1 : Members(key) = 0 .. m - 1
        BY <1>1 DEF TPInv, GroupsOK
      <3>2. m = 0
        BY <1>2, <2>1, <3>1
      <3> QED  BY <2>1, <3>1, <3>2
    <2>2. CASE r # 0
      BY <2>2 DEF TPInv, TurnOK
    <2> QED  BY <2>1, <2>2
  <1>4. Members(key) \union {r} = 0 .. r /\ (Cardinality(0 .. r) = cfg.tp <=> r = cfg.tp - 1)
    BY <1>2, <1>3, LastIsLast
  <1> QED  BY <1>3, <1>4 DEF LastToArrive

\* In lockstep the turn passes to the next rank, or back to the first.
LEMMA NextTurn ==
  ASSUME TPInv, NEW r \in Ranks, Turn(r), Through({r}), cfg' = cfg,
         NEW q \in Ranks \ {0}, Turn(q)'
  PROVE  /\ r # cfg.tp - 1
         /\ q = r + 1
         /\ stage'[q] = stage[r]
  <1>1. cfg.tp \in Nat \ {0} /\ Ranks = 0 .. cfg.tp - 1 /\ Ranks' = Ranks
    BY RankFacts DEF TPInv, LoaderOK, Ranks
  <1>2. stage \in [Ranks -> 0 .. 4]
    BY StageFacts DEF TPInv, PassOK
  <1>3. \A p \in Ranks : stage[p] = IF p < r THEN stage[r] + 1 ELSE stage[r]
    BY DEF Turn
  <1>4. \A p \in Ranks : stage'[p] = IF p = r THEN stage[p] + 1 ELSE stage[p]
    BY DEF Through
  <1>5. \A p \in Ranks : stage'[p] = IF p < q THEN stage'[q] + 1 ELSE stage'[q]
    BY <1>1 DEF Turn
  <1>6. stage'[0] = stage'[q] + 1
    BY <1>1, <1>5
  <1>7. \A p \in Ranks : stage'[p] = IF p <= r THEN stage[r] + 1 ELSE stage[r]
    BY <1>1, <1>2, <1>3, <1>4
  <1>8. stage'[q] = stage[r] /\ q > r
    BY <1>1, <1>2, <1>6, <1>7
  <1>9. ~ (r + 1 < q)
    <2>1. SUFFICES ASSUME r + 1 < q  PROVE FALSE
      OBVIOUS
    <2>2. stage'[r + 1] = stage'[q] + 1 /\ stage'[r + 1] = stage[r]
      BY <1>1, <1>5, <1>7, <2>1
    <2> QED  BY <1>2, <1>8, <2>2
  <1> QED  BY <1>1, <1>8, <1>9

\* The groups and the turns after a call that was not rejected.
LEMMA JoinsKept ==
  ASSUME TPInv, NEW r \in Ranks, Turn(r), cfg.backend = "in_process", cfg.tp > 1,
         NEW key, key = Stages[stage[r] + 1],
         NEW t, IsTensor(t), t.pass = pass, Joins(key, r, t), TensorsKept,
         Through({r}), cfg' = cfg, pass' = pass
  PROVE  GroupsOK' /\ TurnOK'
  <1>1. /\ Members(key) = 0 .. r - 1
        /\ \A q \in Members(key) : pending[key][q].pass = pass
        /\ LastToArrive(key, cfg.tp, r) <=> r = cfg.tp - 1
    BY ArrivesInOrder DEF Joins
  <1>2. cfg.tp \in Nat \ {0} /\ Ranks = 0 .. cfg.tp - 1 /\ Ranks' = Ranks
    BY RankFacts DEF TPInv, LoaderOK, Ranks
  <1>3. key \in GroupKeys /\ stage[r] \in 0 .. 3
    BY TurnFacts
  <1>4. DOMAIN pending = GroupKeys
    BY DEF TPInv, GroupsOK
  <1>5. DOMAIN pending' = GroupKeys
    BY <1>4 DEF Joins
  <1>6. \A k \in GroupKeys \ {key} : pending'[k] = pending[k]
    BY <1>4 DEF Joins
  <1>7. CASE r = cfg.tp - 1
    <2>1. pending'[key] = << >>
      BY <1>1, <1>3, <1>4, <1>7 DEF Joins
    <2>2. \A k \in GroupKeys :
            /\ \E m \in 0 .. cfg.tp - 1 : DOMAIN pending'[k] = 0 .. m - 1
            /\ \A q \in DOMAIN pending'[k] : IsTensor(pending'[k][q])
      <3>1. ASSUME NEW k \in GroupKeys, k # key
            PROVE  /\ \E m \in 0 .. cfg.tp - 1 : DOMAIN pending'[k] = 0 .. m - 1
                   /\ \A q \in DOMAIN pending'[k] : IsTensor(pending'[k][q])
        BY <1>6, <3>1 DEF TPInv, GroupsOK, Members
      <3>2. DOMAIN pending'[key] = 0 .. 0 - 1 /\ 0 \in 0 .. cfg.tp - 1
        BY <1>2, <2>1
      <3>3. \A q \in DOMAIN pending'[key] : FALSE
        BY <2>1
      <3> QED  BY <3>1, <3>2, <3>3
    <2>3. GroupsOK'
      BY <1>2, <1>5, <2>2 DEF GroupsOK, TensorsKept, IsTensor, Members
    <2>4. TurnOK'
      BY <1>2, <1>7, NextTurn DEF TurnOK
    <2> QED  BY <2>3, <2>4
  <1>8. CASE r # cfg.tp - 1
    <2>1. pending'[key] = Arrived(key, r, t)
      BY <1>1, <1>3, <1>4, <1>8 DEF Joins
    <2>2. /\ DOMAIN pending'[key] = 0 .. r
          /\ pending'[key][r] = t
          /\ \A q \in 0 .. r - 1 : pending'[key][q] = pending[key][q]
      <3>1. Members(key) \union {r} = 0 .. r
        BY <1>1, <1>2
      <3> QED  BY <1>1, <1>2, <2>1, <3>1 DEF Arrived
    <2>3. \A q \in 0 .. r : IsTensor(pending'[key][q]) /\ pending'[key][q].pass = pass
      <3>1. \A q \in 0 .. r - 1 : IsTensor(pending[key][q])
        BY <1>1, <1>3 DEF TPInv, GroupsOK
      <3>2. \A q \in 0 .. r : q = r \/ q \in 0 .. r - 1
        BY <1>2
      <3>3. ASSUME NEW q \in 0 .. r - 1
            PROVE  IsTensor(pending'[key][q]) /\ pending'[key][q].pass = pass
        <4>1. pending'[key][q] = pending[key][q] /\ q \in Members(key)
          BY <1>1, <2>2
        <4> QED  BY <1>1, <3>1, <4>1 DEF IsTensor
      <3>4. IsTensor(pending'[key][r]) /\ pending'[key][r].pass = pass
        BY <2>2 DEF IsTensor
      <3> QED  BY <3>2, <3>3, <3>4
    <2>4. \A k \in GroupKeys :
            /\ \E m \in 0 .. cfg.tp - 1 : DOMAIN pending'[k] = 0 .. m - 1
            /\ \A q \in DOMAIN pending'[k] : IsTensor(pending'[k][q])
      <3>1. ASSUME NEW k \in GroupKeys, k # key
            PROVE  /\ \E m \in 0 .. cfg.tp - 1 : DOMAIN pending'[k] = 0 .. m - 1
                   /\ \A q \in DOMAIN pending'[k] : IsTensor(pending'[k][q])
        BY <1>6, <3>1 DEF TPInv, GroupsOK, Members
      <3>2. DOMAIN pending'[key] = 0 .. (r + 1) - 1 /\ r + 1 \in 0 .. cfg.tp - 1
        BY <1>2, <1>8, <2>2
      <3> QED  BY <2>2, <2>3, <3>1, <3>2
    <2>5. GroupsOK'
      BY <1>2, <1>5, <2>4 DEF GroupsOK, TensorsKept, IsTensor, Members
    <2>6. ASSUME NEW q \in Ranks \ {0}, Turn(q)'
          PROVE  LET k == Stages[stage'[q] + 1]
                 IN  /\ DOMAIN pending'[k] = 0 .. q - 1
                     /\ \A p \in DOMAIN pending'[k] : pending'[k][p].pass = pass'
      <3>1. q = r + 1 /\ stage'[q] = stage[r]
        BY <2>6, NextTurn
      <3>2. Stages[stage'[q] + 1] = key /\ 0 .. q - 1 = 0 .. r
        BY <1>2, <3>1
      <3> QED  BY <2>2, <2>3, <3>2
    <2>7. TurnOK'
      BY <1>2, <2>6 DEF TurnOK, Members
    <2> QED  BY <2>5, <2>7
  <1> QED  BY <1>7, <1>8

-----------------------------------------------------------------------------
(* Steps *)

LEMMA LoaderKept ==
  ASSUME LoaderOK, UNCHANGED loaderVars
  PROVE  LoaderOK' /\ Ranks' = Ranks
  BY DEF LoaderOK, loaderVars, Ranks, RegisteredNames, CheckpointEntries,
         StackedQkv, StackedGateUp

\* Where no tensor joins a group.
LEMMA GroupsKept ==
  ASSUME TPInv, UNCHANGED loaderVars, pending' = pending, pass' \in Nat, pass' >= pass,
         DOMAIN tensor' = Ranks, \A r \in Ranks : IsTensor(tensor[r])'
  PROVE  GroupsOK'
  <1>1. Ranks' = Ranks /\ cfg' = cfg /\ pass \in Nat
    BY PassesAssumption DEF loaderVars, Ranks, TPInv, PassOK
  <1>2. ASSUME NEW t, IsTensor(t)  PROVE IsTensor(t)'
    BY <1>1, <1>2 DEF IsTensor
  <1>3. DOMAIN pending' = GroupKeys
    BY DEF TPInv, GroupsOK
  <1>4. ASSUME NEW key \in GroupKeys
        PROVE  /\ \E m \in 0 .. cfg'.tp - 1 : Members(key)' = 0 .. m - 1
               /\ \A r \in Members(key)' : IsTensor(pending[key][r])'
    <2>1. \E m \in 0 .. cfg'.tp - 1 : Members(key)' = 0 .. m - 1
      BY <1>1 DEF TPInv, GroupsOK, Members
    <2>2. ASSUME NEW r \in Members(key)'  PROVE IsTensor(pending[key][r])'
      <3>1. r \in Members(key)
        BY DEF Members
      <3>2. IsTensor(pending[key][r])
        BY <3>1 DEF TPInv, GroupsOK
      <3> QED  BY <1>1, <3>2 DEF IsTensor
    <2> QED  BY <2>1, <2>2
  <1> QED  BY <1>1, <1>3, <1>4 DEF GroupsOK

LEMMA TensorsSame ==
  ASSUME TPInv, UNCHANGED <<tensor, pass>>
  PROVE  /\ DOMAIN tensor' = Ranks
         /\ \A r \in Ranks : IsTensor(tensor[r])'
         /\ pass' \in Nat /\ pass' >= pass
  BY PassesAssumption DEF TPInv, GroupsOK, IsTensor, PassOK

\* A step that ends the pass, whatever the reason.
LEMMA EndsKept ==
  ASSUME TPInv, outcome' \in {"threw", "rejected"},
         UNCHANGED <<loaderVars, commVars, stage, token, pass, spoiled>>
  PROVE  TPInv'
  <1>1. LoaderOK' /\ Ranks' = Ranks
    BY LoaderKept DEF TPInv
  <1>2. PassOK'
    BY <1>1 DEF TPInv, PassOK, commVars, loaderVars
  <1>3. GroupsOK'
    BY TensorsSame, GroupsKept DEF commVars
  <1>4. TurnOK'
    BY DEF TurnOK, Turn
  <1> QED  BY <1>1, <1>2, <1>3, <1>4 DEF TPInv

LEMMA OutputIsTensor ==
  ASSUME TPInv, NEW r \in Ranks
  PROVE  IsTensor(Output(r)) /\ Output(r).pass = pass
  BY PassesAssumption DEF Output, IsTensor, TPInv, PassOK

LEMMA InitTP == TPInit => TPInv
  <1> SUFFICES ASSUME TPInit  PROVE TPInv
    OBVIOUS
  <1>1. cfg \in Configurations
    BY DEF TPInit, LoaderInit
  <1>2. cfg.tp \in Nat \ {0} /\ Ranks = 0 .. cfg.tp - 1 /\ 0 \in Ranks
    BY <1>1, RankFacts
  <1>3. LoaderOK
    BY <1>1 DEF TPInit, LoaderInit, LoaderOK
  <1>4. 0 \in Tokens
    BY SizesAssumption DEF Tokens
  <1>5. PassOK
    BY <1>2, <1>4, StageFacts, PassesAssumption, SMTT(30) DEF TPInit, CommInit, PassOK
  <1>6. GroupsOK
    <2>1. IsTensor(NoTensor)
      BY DEF IsTensor, NoTensor, TPInit
    <2>2. DOMAIN tensor = Ranks /\ \A r \in Ranks : IsTensor(tensor[r])
      BY <2>1 DEF TPInit, CommInit
    <2>3. \A key \in GroupKeys : Members(key) = {}
      BY DEF TPInit, CommInit, Members
    <2>4. 0 \in 0 .. cfg.tp - 1 /\ 0 .. 0 - 1 = {}
      BY <1>2
    <2>5. \A key \in GroupKeys : \E m \in 0 .. cfg.tp - 1 : Members(key) = 0 .. m - 1
      BY <2>3, <2>4
    <2> QED  BY <2>2, <2>3, <2>5 DEF GroupsOK, TPInit, CommInit
  <1>7. TurnOK
    BY DEF TPInit, TurnOK, Turn
  <1> QED  BY <1>3, <1>5, <1>6, <1>7 DEF TPInv

LEMMA LoadKept ==
  ASSUME TPInv, NEW r \in Ranks, Load(r)
  PROVE  TPInv'
  <1>1. cfg' = cfg /\ Ranks' = Ranks /\ RegisteredNames' = RegisteredNames
          /\ CheckpointEntries' = CheckpointEntries
    BY DEF Load, LoadEntry, Ranks, RegisteredNames, CheckpointEntries,
           StackedQkv, StackedGateUp
  <1>2. UNCHANGED <<commVars, stage, residual, token, pass, outcome, spoiled>>
    BY DEF Load
  <1>3. LoaderOK'
    <2>1. PICK entry, loaded, name :
            \/ /\ param' = [param EXCEPT ![r][name] = loaded]
               /\ unread' = [unread EXCEPT ![r] = @ \ {entry}]
               /\ loading' = [loading EXCEPT ![r] = IF unread[r] = {entry} THEN "loaded" ELSE @]
            \/ /\ loading' = [loading EXCEPT ![r] = "failed"]
               /\ UNCHANGED <<param, unread>>
      BY DEF Load, LoadEntry
    <2>2. DOMAIN param' = Ranks /\ \A q \in Ranks : DOMAIN param'[q] = RegisteredNames
      BY <2>1 DEF TPInv, LoaderOK
    <2>3. unread' \in [Ranks -> SUBSET CheckpointEntries]
      BY <2>1 DEF TPInv, LoaderOK
    <2>4. loading' \in [Ranks -> {"loading", "loaded", "failed"}]
      BY <2>1 DEF TPInv, LoaderOK
    <2> QED  BY <1>1, <2>2, <2>3, <2>4 DEF TPInv, LoaderOK
  <1>4. PassOK'
    BY <1>1, <1>2 DEF TPInv, PassOK, commVars
  <1>5. GroupsOK'
    BY <1>1, <1>2 DEF TPInv, GroupsOK, commVars, Members, IsTensor
  <1>6. TurnOK'
    BY <1>1, <1>2 DEF TPInv, TurnOK, Turn, commVars, Members
  <1> QED  BY <1>3, <1>4, <1>5, <1>6 DEF TPInv

LEMMA BeginPassKept ==
  ASSUME TPInv, BeginPass
  PROVE  TPInv'
  <1>1. LoaderOK' /\ Ranks' = Ranks /\ cfg' = cfg
    BY LoaderKept DEF TPInv, BeginPass, loaderVars
  <1>2. 0 \in Ranks
    BY RankFacts DEF TPInv, LoaderOK
  <1>3. pass' \in 0 .. MaxPasses /\ pass \in Nat /\ pass' = pass + 1
    BY PassesAssumption DEF BeginPass, TPInv, PassOK
  <1>4. \A r \in Ranks : stage'[r] = 0
    BY DEF BeginPass
  <1>5. PassOK'
    BY <1>1, <1>2, <1>3, <1>4, StageFacts
    DEF TPInv, PassOK, BeginPass, commVars
  <1>6. GroupsOK'
    <2>1. \A r \in Ranks : IsTensor(tensor[r])'
      BY <1>3 DEF BeginPass, commVars, TPInv, GroupsOK, IsTensor
    <2> QED  BY <1>3, <2>1, GroupsKept DEF BeginPass, commVars, TPInv, GroupsOK
  <1>7. TurnOK'
    <2>1. \A r \in Ranks \ {0} : ~ Turn(r)'
      <3>1. \A r \in Ranks : r \in Int
        BY RankFacts DEF TPInv, LoaderOK
      <3>2. \A r \in Ranks \ {0} : 0 < r
        BY RankFacts DEF TPInv, LoaderOK
      <3> QED  BY <1>1, <1>2, <1>4, <3>2 DEF Turn
    <2> QED  BY <1>1, <2>1 DEF TurnOK
  <1> QED  BY <1>1, <1>5, <1>6, <1>7 DEF TPInv

\* What going through a stage means for the pass.
LEMMA ThroughKept ==
  ASSUME TPInv, outcome = "running", NEW ranks \in SUBSET Ranks,
         \A r \in ranks : stage[r] \in 0 .. 3, Through(ranks),
         cfg.backend = "nccl" => ranks = Ranks,
         enqueued' \subseteq enqueued, UNCHANGED <<loaderVars, token, pass, spoiled>>
  PROVE  PassOK'
  <1>1. Ranks' = Ranks /\ cfg' = cfg
    BY DEF loaderVars, Ranks
  <1>2. stage \in [Ranks -> 0 .. 4]
    BY StageFacts DEF TPInv, PassOK
  <1>3. \A r \in Ranks : stage'[r] = IF r \in ranks THEN stage[r] + 1 ELSE stage[r]
    BY DEF Through
  <1>4. stage' \in [Ranks -> 0 .. 4]
    BY <1>2 DEF Through
  <1>5. outcome' \in {"running", "done"}
          /\ (outcome' = "running" => \E r \in Ranks : stage'[r] # 4)
    BY <1>3, StageFacts DEF Through
  <1>6. cfg.backend = "nccl" => \A q, r \in Ranks : stage'[q] = stage'[r]
    BY <1>3 DEF TPInv, PassOK
  <1>7. enqueued' \subseteq Ranks /\ (enqueued' # {} => cfg.tp > 1 /\ cfg.backend = "nccl")
    BY DEF TPInv, PassOK
  <1> QED  BY <1>1, <1>4, <1>5, <1>6, <1>7, StageFacts DEF TPInv, PassOK

LEMMA RunStageAloneKept ==
  ASSUME TPInv, NEW r \in Ranks, RunStageAlone(r)
  PROVE  TPInv'
  <1>1. LoaderOK' /\ Ranks' = Ranks /\ UNCHANGED <<loaderVars, token, pass, spoiled>>
    BY LoaderKept DEF TPInv, RunStageAlone, Enters
  <1>2. Ranks = {0} /\ r = 0
    BY RankFacts DEF TPInv, LoaderOK, RunStageAlone
  <1>3. outcome = "running" /\ stage[r] \in 0 .. 3
    BY TurnFacts DEF RunStageAlone, Turn
  <1>4. PassOK'
    BY <1>1, <1>2, <1>3, ThroughKept DEF RunStageAlone
  <1>5. GroupsOK'
    <2>1. DOMAIN tensor' = Ranks /\ tensor'[r] = Output(r)
      BY DEF RunStageAlone, TPInv, GroupsOK
    <2>2. \A q \in Ranks : IsTensor(tensor[q])'
      BY <1>1, <1>2, <2>1, OutputIsTensor DEF IsTensor
    <2>3. pass' \in Nat /\ pass' >= pass
      BY <1>1, PassesAssumption DEF TPInv, PassOK
    <2> QED  BY <1>1, <2>1, <2>2, <2>3, GroupsKept DEF RunStageAlone
  <1>6. TurnOK'
    BY <1>1, <1>2 DEF TurnOK
  <1> QED  BY <1>1, <1>4, <1>5, <1>6 DEF TPInv

LEMMA RunStageInProcessJoins ==
  ASSUME TPInv, NEW r \in Ranks, RunStageInProcess(r)
  PROVE  Joins(Stages[stage[r] + 1], r, Output(r)) /\ TensorsKept
  <1> DEFINE key == Stages[stage[r] + 1]
  <1>1. key \in GroupKeys /\ IsTensor(Output(r))
    BY TurnFacts, OutputIsTensor DEF RunStageInProcess
  <1>2. CASE gather_last_dim_to_rank0(key, cfg.tp, r, Output(r), Vocab)
    BY <1>1, <1>2, GatherJoins
  <1>3. CASE all_reduce_sum(key, cfg.tp, r, Output(r))
    BY <1>1, <1>3, AllReduceJoins
  <1> QED  BY <1>2, <1>3 DEF RunStageInProcess

LEMMA RunStageInProcessKept ==
  ASSUME TPInv, NEW r \in Ranks, RunStageInProcess(r)
  PROVE  TPInv'
  <1>1. LoaderOK' /\ UNCHANGED <<loaderVars, token, pass, spoiled>> /\ cfg' = cfg
    BY LoaderKept DEF TPInv, RunStageInProcess, Enters, loaderVars
  <1>2. outcome = "running" /\ stage[r] \in 0 .. 3
    BY TurnFacts DEF RunStageInProcess, Turn
  <1>3. Joins(Stages[stage[r] + 1], r, Output(r)) /\ TensorsKept
    BY RunStageInProcessJoins
  <1>4. PassOK'
    BY <1>1, <1>2, <1>3, ThroughKept DEF RunStageInProcess, Joins
  <1>5. GroupsOK' /\ TurnOK'
    BY <1>1, <1>3, OutputIsTensor, JoinsKept DEF RunStageInProcess
  <1> QED  BY <1>1, <1>4, <1>5 DEF TPInv

LEMMA RunStageNcclKept ==
  ASSUME TPInv, NEW r \in Ranks, RunStageNccl(r)
  PROVE  TPInv'
  <1>1. LoaderOK' /\ Ranks' = Ranks /\ cfg' = cfg
          /\ UNCHANGED <<loaderVars, token, pass, spoiled, stage, outcome, pending>>
    BY LoaderKept DEF TPInv, RunStageNccl, Enters, NcclEnqueue, loaderVars
  <1>2. PassOK'
    BY <1>1 DEF TPInv, PassOK, RunStageNccl, NcclEnqueue
  <1>3. GroupsOK'
    <2>1. DOMAIN tensor' = Ranks
            /\ \A q \in Ranks : tensor'[q] = IF q = r THEN Output(r) ELSE tensor[q]
      BY DEF RunStageNccl, NcclEnqueue, TPInv, GroupsOK
    <2>2. \A q \in Ranks : IsTensor(tensor[q])'
      BY <1>1, <2>1, OutputIsTensor DEF IsTensor, TPInv, GroupsOK
    <2>3. pass' \in Nat /\ pass' >= pass
      BY <1>1, PassesAssumption DEF TPInv, PassOK
    <2> QED  BY <1>1, <2>1, <2>2, <2>3, GroupsKept
  <1>4. TurnOK'
    BY <1>1 DEF TurnOK, RunStageNccl
  <1> QED  BY <1>1, <1>2, <1>3, <1>4 DEF TPInv

LEMMA NcclCompletesKept ==
  ASSUME TPInv, NcclCompletes
  PROVE  TPInv'
  <1>1. LoaderOK' /\ Ranks' = Ranks /\ cfg' = cfg
          /\ UNCHANGED <<loaderVars, token, pass, spoiled>>
    BY LoaderKept DEF TPInv, NcclCompletes, loaderVars
  <1>2. cfg.tp > 1 /\ cfg.backend = "nccl" /\ outcome = "running"
    BY DEF NcclCompletes, TPInv, PassOK
  <1>3. enqueued' = {} /\ pending' = pending
    BY DEF NcclCompletes, NcclGatherCompletes, NcclAllReduceCompletes
  <1>4. \A r \in Ranks : stage[r] \in 0 .. 3
    <2>1. PICK q \in Ranks : stage[q] # 4
      BY <1>2, StageFacts DEF TPInv, PassOK
    <2> QED  BY <1>2, <2>1, StageFacts DEF TPInv, PassOK
  <1>5. PassOK'
    BY <1>1, <1>2, <1>3, <1>4, ThroughKept DEF NcclCompletes
  <1>6. GroupsOK'
    <2>1. DOMAIN tensor' = Ranks
      BY DEF NcclCompletes, NcclGatherCompletes, NcclAllReduceCompletes
    <2>2. ASSUME NEW r \in Ranks
          PROVE  IsTensor(tensor'[r])
      <3>1. PICK v : tensor'[r] = [tensor[r] EXCEPT !.value = v]
        BY DEF NcclCompletes, NcclGatherCompletes, NcclAllReduceCompletes
      <3>2. IsTensor([tensor[r] EXCEPT !.value = v])
        BY ValueReplaced DEF TPInv, GroupsOK
      <3> QED  BY <3>1, <3>2 DEF IsTensor
    <2>3. \A r \in Ranks : IsTensor(tensor[r])'
      BY <1>1, <2>2 DEF IsTensor
    <2>4. pass' \in Nat /\ pass' >= pass
      BY <1>1, PassesAssumption DEF TPInv, PassOK
    <2> QED  BY <1>1, <1>3, <2>1, <2>3, <2>4, GroupsKept
  <1>7. TurnOK'
    BY <1>1, <1>2 DEF TurnOK
  <1> QED  BY <1>1, <1>5, <1>6, <1>7 DEF TPInv

LEMMA NextTP == TPInv /\ [TPNext]_tpVars => TPInv'
  <1> SUFFICES ASSUME TPInv, [TPNext]_tpVars  PROVE TPInv'
    OBVIOUS
  <1>1. ASSUME NEW r \in Ranks, Load(r)  PROVE TPInv'
    BY <1>1, LoadKept
  <1>2. ASSUME NEW r \in Ranks,
               Throw(r) \/ RejectedInProcess(r) \/ RejectedWithoutCommunicator(r)
        PROVE  TPInv'
    BY <1>2, EndsKept DEF Throw, RejectedInProcess, RejectedWithoutCommunicator
  <1>3. CASE BeginPass
    BY <1>3, BeginPassKept
  <1>4. ASSUME NEW r \in Ranks, RunStageAlone(r)  PROVE TPInv'
    BY <1>4, RunStageAloneKept
  <1>5. ASSUME NEW r \in Ranks, RunStageInProcess(r)  PROVE TPInv'
    BY <1>5, RunStageInProcessKept
  <1>6. ASSUME NEW r \in Ranks, RunStageNccl(r)  PROVE TPInv'
    BY <1>6, RunStageNcclKept
  <1>7. CASE NcclCompletes
    BY <1>7, NcclCompletesKept
  <1>8. CASE UNCHANGED tpVars
    BY <1>8 DEF tpVars, loaderVars, commVars, TPInv, LoaderOK, PassOK, GroupsOK, TurnOK,
                Turn, Members, IsTensor, Ranks, RegisteredNames, CheckpointEntries,
                StackedQkv, StackedGateUp
  <1> QED  BY <1>1, <1>2, <1>3, <1>4, <1>5, <1>6, <1>7, <1>8 DEF TPNext, RunStage

-----------------------------------------------------------------------------
(* Theorems about the groups *)

\* The state of loading, the pass and its groups stay consistent, for any
\* number of ranks, whatever exceptions end a pass (tensor_parallel.cpp).
THEOREM GroupsConsistent == TPSpec => []TPInv
  <1>1. TPInit => TPInv
    BY InitTP
  <1>2. TPInv /\ [TPNext]_tpVars => TPInv'
    BY NextTP
  <1> QED  BY <1>1, <1>2, PTL DEF TPSpec

\* Every variable of the ranks has its type, and a group has ranks only.
THEOREM TypeCorrect == TPSpec => []TPTypeOK
  <1>1. TPInv => TPTypeOK
    <2> SUFFICES ASSUME TPInv  PROVE TPTypeOK
      OBVIOUS
    <2>1. cfg.tp \in Nat \ {0} /\ Ranks = 0 .. cfg.tp - 1
      BY RankFacts DEF TPInv, LoaderOK
    <2>2. ASSUME NEW key \in GroupKeys  PROVE Members(key) \subseteq Ranks
      <3>1. PICK m \in 0 .. cfg.tp - 1 : Members(key) = 0 .. m - 1
        BY DEF TPInv, GroupsOK
      <3> QED  BY <2>1, <3>1
    <2>3. \A r \in Ranks : /\ DOMAIN param[r] = RegisteredNames
                           /\ unread[r] \subseteq CheckpointEntries
                           /\ loading[r] \in {"loading", "loaded", "failed"}
                           /\ stage[r] \in 0 .. Len(Stages)
                           /\ tensor[r].pass <= pass
      BY DEF TPInv, LoaderOK, PassOK, GroupsOK, IsTensor
    <2> QED  BY <2>2, <2>3 DEF TPTypeOK, TPInv, LoaderOK, PassOK
  <1> QED  BY <1>1, GroupsConsistent, PTL

\* No reduction combines tensors of two passes: the rank that completes a
\* group is the last one, and the others have come to it in this pass
\* (tensor_parallel.cpp:179-193).
THEOREM ReductionsFresh == TPSpec => NoStaleReduction
  <1> DEFINE Fresh == \A key \in GroupKeys :
                pending'[key] = << >> /\ pending[key] # << >> =>
                    \A r \in Members(key) : pending[key][r].pass = pass
  <1>1. TPInv /\ [TPNext]_tpVars => [Fresh]_tpVars
    <2> SUFFICES ASSUME TPInv, TPNext, NEW key \in GroupKeys, pending'[key] # pending[key],
                        NEW q \in Members(key)
                 PROVE  pending[key][q].pass = pass
      OBVIOUS
    <2>1. PICK r \in Ranks : RunStageInProcess(r)
      BY DEF TPNext, RunStage, Load, Throw, BeginPass, RunStageAlone, RunStageNccl,
             RejectedInProcess, RejectedWithoutCommunicator, NcclCompletes, commVars,
             NcclEnqueue, NcclGatherCompletes, NcclAllReduceCompletes
    <2>2. Joins(Stages[stage[r] + 1], r, Output(r))
      BY <2>1, RunStageInProcessJoins
    <2>3. key = Stages[stage[r] + 1]
      BY <2>2 DEF Joins, TPInv, GroupsOK
    <2>4. r \notin Members(key)
      BY <2>2, <2>3 DEF Joins
    <2> QED  BY <2>1, <2>3, <2>4, ArrivesInOrder DEF RunStageInProcess
  <1> QED  BY <1>1, GroupsConsistent, PTL DEF TPSpec, NoStaleReduction

-----------------------------------------------------------------------------
(* Bags of the values a function has on a set *)

BagOf(f, C) ==
    [v \in { f[c] : c \in C } |-> Cardinality({ c \in C : f[c] = v })]

LEMMA BagOfNothing == ASSUME NEW f PROVE BagOf(f, {}) = EmptyBag
  BY DEF BagOf, EmptyBag, SetToBag

LEMMA BagOfOne == ASSUME NEW f, NEW c PROVE BagOf(f, {c}) = SetToBag({f[c]})
  <1>1. { f[d] : d \in {c} } = {f[c]}
    OBVIOUS
  <1>2. { d \in {c} : f[d] = f[c] } = {c}
    OBVIOUS
  <1>3. Cardinality({c}) = 1
    BY FS_Singleton
  <1>4. ASSUME NEW v \in {f[c]}
        PROVE  Cardinality({ d \in {c} : f[d] = v }) = 1
    BY <1>2, <1>3
  <1> QED  BY <1>1, <1>4 DEF BagOf, SetToBag

\* The values on disjoint sets add up.
LEMMA BagOfUnion ==
    ASSUME NEW f, NEW C, NEW D, IsFiniteSet(C), IsFiniteSet(D), C \cap D = {}
    PROVE  BagOf(f, C) (+) BagOf(f, D) = BagOf(f, C \cup D)
  <1> DEFINE On(S, v) == { c \in S : f[c] = v }
             Values(S) == { f[c] : c \in S }
             Both == [v \in Values(C) \cup Values(D) |->
                         (IF v \in Values(C) THEN Cardinality(On(C, v)) ELSE 0)
                         + (IF v \in Values(D) THEN Cardinality(On(D, v)) ELSE 0)]
  <1>1. Values(C \cup D) = Values(C) \cup Values(D)
    OBVIOUS
  <1>2. BagOf(f, C) (+) BagOf(f, D) = Both
    <2>1. /\ DOMAIN BagOf(f, C) = Values(C) /\ DOMAIN BagOf(f, D) = Values(D)
          /\ \A v \in Values(C) : BagOf(f, C)[v] = Cardinality(On(C, v))
          /\ \A v \in Values(D) : BagOf(f, D)[v] = Cardinality(On(D, v))
      BY DEF BagOf
    <2> HIDE DEF Values, On
    <2> QED  BY <2>1 DEF (+)
  <1>3. ASSUME NEW S, IsFiniteSet(S), NEW v
        PROVE  /\ IsFiniteSet(On(S, v))
               /\ Cardinality(On(S, v)) \in Nat
               /\ v \notin Values(S) => Cardinality(On(S, v)) = 0
    <2>1. On(S, v) \in SUBSET S
      OBVIOUS
    <2>2. IsFiniteSet(On(S, v)) /\ Cardinality(On(S, v)) \in Nat
      <3> HIDE DEF On
      <3> QED  BY <1>3, <2>1, FS_Subset, FS_CardinalityType
    <2>3. ASSUME v \notin Values(S)
          PROVE  On(S, v) = {}
      BY <2>3
    <2> QED  BY <2>2, <2>3, FS_EmptySet
  <1>4. ASSUME NEW v
        PROVE  Cardinality(On(C \cup D, v)) = Cardinality(On(C, v)) + Cardinality(On(D, v))
    <2>1. On(C \cup D, v) = On(C, v) \cup On(D, v) /\ On(C, v) \cap On(D, v) = {}
      OBVIOUS
    <2> HIDE DEF On
    <2>2. PICK X, Y : X = On(C, v) /\ Y = On(D, v)
      OBVIOUS
    <2>3. /\ IsFiniteSet(X) /\ IsFiniteSet(Y) /\ X \cap Y = {}
          /\ Cardinality(X) \in Nat /\ Cardinality(Y) \in Nat
      BY <1>3, <2>1, <2>2
    <2>4. Cardinality(X \cup Y) = Cardinality(X) + Cardinality(Y) - Cardinality({})
      BY <2>3, FS_Union
    <2>5. Cardinality(X \cup Y) = Cardinality(X) + Cardinality(Y)
      BY <2>3, <2>4, FS_EmptySet
    <2> QED  BY <2>1, <2>2, <2>5
  <1>5. ASSUME NEW v \in Values(C \cup D)
        PROVE  Both[v] = Cardinality(On(C \cup D, v))
    <2>1. v \in Values(C) \cup Values(D)
      BY <1>1, <1>5
    <2>2. PICK x, y : x = Cardinality(On(C, v)) /\ y = Cardinality(On(D, v))
      OBVIOUS
    <2>3. /\ x \in Nat /\ (v \notin Values(C) => x = 0)
          /\ y \in Nat /\ (v \notin Values(D) => y = 0)
      <3> HIDE DEF On, Values
      <3> QED  BY <1>3, <2>2
    <2>4. Both[v] = (IF v \in Values(C) THEN x ELSE 0) + (IF v \in Values(D) THEN y ELSE 0)
      <3> HIDE DEF On, Values
      <3> QED  BY <2>1, <2>2
    <2>5. Cardinality(On(C \cup D, v)) = x + y
      <3> HIDE DEF On
      <3> QED  BY <1>4, <2>2
    <2> HIDE DEF On, Values, Both
    <2> QED  BY <2>3, <2>4, <2>5
  <1>6. Both = [v \in Values(C \cup D) |-> Cardinality(On(C \cup D, v))]
    <2>1. Both = [v \in Values(C \cup D) |-> Both[v]]
      BY <1>1
    <2> HIDE DEF Both, Values, On
    <2> QED  BY <1>5, <2>1
  <1> QED  BY <1>2, <1>6 DEF BagOf

\* A slice has the values of its part.
LEMMA BagOfSlice ==
    ASSUME NEW f, NEW g, NEW n \in Nat, NEW o \in Int,
           \A c \in 1 .. n : g[c] = f[o + c]
    PROVE  BagOf(g, 1 .. n) = BagOf(f, o + 1 .. o + n)
  <1>1. { g[c] : c \in 1 .. n } = { f[c] : c \in o + 1 .. o + n }
    <2>1. ASSUME NEW c \in 1 .. n
          PROVE  \E d \in o + 1 .. o + n : g[c] = f[d]
      <3>1. o + c \in o + 1 .. o + n
        OBVIOUS
      <3> QED  BY <3>1
    <2>2. ASSUME NEW d \in o + 1 .. o + n
          PROVE  \E c \in 1 .. n : g[c] = f[d]
      <3>1. d - o \in 1 .. n /\ o + (d - o) = d
        OBVIOUS
      <3> QED  BY <3>1
    <2> QED  BY <2>1, <2>2
  <1>2. ASSUME NEW v
        PROVE  Cardinality({ c \in 1 .. n : g[c] = v })
                   = Cardinality({ c \in o + 1 .. o + n : f[c] = v })
    <2> DEFINE S == { c \in 1 .. n : g[c] = v }
               T == { c \in o + 1 .. o + n : f[c] = v }
               h == [c \in S |-> o + c]
    <2>1. IsFiniteSet(S)
      <3>1. IsFiniteSet(1 .. n) /\ S \in SUBSET (1 .. n)
        BY FS_Interval
      <3> HIDE DEF S
      <3> QED  BY <3>1, FS_Subset
    <2>2. h \in [S -> T]
      <3> SUFFICES ASSUME NEW c \in S
                   PROVE  o + c \in T
        OBVIOUS
      <3>1. c \in 1 .. n /\ g[c] = v /\ o + c \in o + 1 .. o + n
        OBVIOUS
      <3> QED  BY <3>1
    <2>3. \A c, d \in S : h[c] = h[d] => c = d
      <3> TAKE c, d \in S
      <3>1. c \in Int /\ d \in Int
        OBVIOUS
      <3> QED  BY <3>1
    <2>4. \A d \in T : \E c \in S : h[c] = d
      <3> TAKE d \in T
      <3>1. d - o \in 1 .. n /\ o + (d - o) = d /\ f[d] = v
        OBVIOUS
      <3>2. d - o \in S
        BY <3>1
      <3> QED  BY <3>1, <3>2
    <2>5. h \in Bijection(S, T)
      <3> HIDE DEF S, T, h
      <3> QED  BY <2>2, <2>3, <2>4 DEF Bijection, Injection, Surjection, IsInjective, Range
    <2>6. ExistsBijection(S, T)
      <3> HIDE DEF S, T, h
      <3> QED  BY <2>5 DEF ExistsBijection
    <2> HIDE DEF S, T
    <2>7. Cardinality(T) = Cardinality(S)
      BY <2>1, <2>6, FS_Bijection
    <2> QED  BY <2>7 DEF S, T
  <1> QED  BY <1>1, <1>2 DEF BagOf

-----------------------------------------------------------------------------
(* Folds over the shards *)

LEMMA SeqOfSet ==
    ASSUME NEW S, IsFiniteSet(S)
    PROVE  /\ Cardinality(S) \in Nat
           /\ SetToSeq(S) \in [1 .. Cardinality(S) -> S]
           /\ \A j, k \in 1 .. Cardinality(S) : SetToSeq(S)[j] = SetToSeq(S)[k] => j = k
           /\ \A x \in S : \E k \in 1 .. Cardinality(S) : SetToSeq(S)[k] = x
  <1>1. PICK n : n = Cardinality(S)
    OBVIOUS
  <1>2. n \in Nat /\ ExistsBijection(1 .. n, S)
    BY <1>1, FS_CardinalityType
  <1>3. \E f \in [1 .. n -> S] : IsInjective(f)
    BY <1>2 DEF ExistsBijection, Bijection, Injection
  <1>4. PICK f : f = SetToSeq(S)
    OBVIOUS
  <1>5. f \in [1 .. n -> S] /\ IsInjective(f)
    BY <1>1, <1>3, <1>4 DEF SetToSeq
  <1>6. f \in Injection(1 .. n, S)
    BY <1>5 DEF Injection
  <1>7. IsFiniteSet(1 .. n) /\ Cardinality(1 .. n) = n
    BY <1>2, FS_Interval
  <1>8. f \in Surjection(1 .. n, S)
    BY <1>1, <1>6, <1>7, FS_Injection
  <1>9. /\ \A j, k \in 1 .. n : f[j] = f[k] => j = k
        /\ \A x \in S : \E k \in 1 .. n : f[k] = x
    BY <1>5, <1>8 DEF IsInjective, Surjection
  <1> QED  BY <1>1, <1>2, <1>4, <1>5, <1>9

LEMMA IntervalTop ==
    ASSUME NEW k \in Nat \ {0}
    PROVE  Max(1 .. k) = k /\ (1 .. k) \ {k} = 1 .. k - 1 /\ 1 .. k # {}
  <1>1. 1 .. k \subseteq 0 .. k /\ k \in 1 .. k
    OBVIOUS
  <1>2. Max(1 .. k) \in 1 .. k /\ k <= Max(1 .. k)
    BY <1>1, MaxBounded
  <1> QED  BY <1>1, <1>2

\* What the sum of all shards starts from, and what each adds: the recursion
\* that FoldLeft solves.
SumsShards(shards, seq, g) ==
    g = [s \in SUBSET (DOMAIN seq) |->
            IF s = {} THEN shards[0].value
            ELSE add_inplace(g[s \ {Max(s)}], shards[seq[Max(s)]].value)]

LEMMA SummedBySolution ==
    ASSUME NEW shards, NEW seq, seq = SetToSeq(DOMAIN shards \ {0}),
           \E g : SumsShards(shards, seq, g)
    PROVE  \E g : SumsShards(shards, seq, g) /\ Summed(shards) = g[DOMAIN seq]
  <1> DEFINE h == CHOOSE g : SumsShards(shards, seq, g)
  <1>1. SumsShards(shards, seq, h)
    OBVIOUS
  <1>2. Summed(shards) = FoldLeft(LAMBDA sum, r : add_inplace(sum, shards[r].value),
                                  shards[0].value, seq)
    BY DEF Summed
  <1>3. FoldLeft(LAMBDA sum, r : add_inplace(sum, shards[r].value), shards[0].value, seq) =
            (CHOOSE g : g = [s \in SUBSET (DOMAIN seq) |->
                 IF s = {} THEN shards[0].value
                 ELSE add_inplace(g[s \ {Max(s)}], shards[seq[Max(s)]].value)])[DOMAIN seq]
    BY DEF FoldLeft, MapThenFoldSet
  <1>4. h = (CHOOSE g : g = [s \in SUBSET (DOMAIN seq) |->
                 IF s = {} THEN shards[0].value
                 ELSE add_inplace(g[s \ {Max(s)}], shards[seq[Max(s)]].value)])
    BY DEF SumsShards
  <1>5. Summed(shards) = h[DOMAIN seq]
    BY <1>2, <1>3, <1>4
  <1> HIDE DEF h
  <1> QED  BY <1>1, <1>5

\* Row by row the bag of the values on one part of the columns.
RowBags(F, H, C) == [i \in 1 .. H |-> BagOf(F[i], C)]

LEMMA RowBagsAdd ==
    ASSUME NEW F, NEW H, NEW C, NEW D, IsFiniteSet(C), IsFiniteSet(D), C \cap D = {}
    PROVE  add_inplace(RowBags(F, H, C), RowBags(F, H, D)) = RowBags(F, H, C \cup D)
  <1>1. \A i \in 1 .. H : BagOf(F[i], C) (+) BagOf(F[i], D) = BagOf(F[i], C \cup D)
    BY BagOfUnion
  <1> QED  BY <1>1 DEF add_inplace, RowBags

\* Whatever the order in which the shards are added, the sum has the values of
\* all parts of the columns.
LEMMA SummedParts ==
    ASSUME NEW shards, NEW t \in Nat \ {0}, DOMAIN shards = 0 .. t - 1,
           NEW F, NEW H, NEW P, \A r \in 0 .. t - 1 : IsFiniteSet(P[r]),
           \A q, r \in 0 .. t - 1 : q # r => P[q] \cap P[r] = {},
           \A r \in 0 .. t - 1 : shards[r].value = RowBags(F, H, P[r])
    PROVE  Summed(shards) = RowBags(F, H, UNION { P[r] : r \in 0 .. t - 1 })
  <1>1. PICK S : S = (DOMAIN shards) \ {0} /\ S = 1 .. t - 1 /\ IsFiniteSet(S)
    <2>1. (DOMAIN shards) \ {0} = 1 .. t - 1
      OBVIOUS
    <2>2. IsFiniteSet(1 .. t - 1)
      BY FS_Interval
    <2> QED  BY <2>1, <2>2
  <1>2. PICK n, seq : n = Cardinality(S) /\ seq = SetToSeq(S)
    OBVIOUS
  <1>3. /\ n \in Nat /\ seq \in [1 .. n -> S]
        /\ \A j, k \in 1 .. n : seq[j] = seq[k] => j = k
        /\ \A x \in S : \E k \in 1 .. n : seq[k] = x
    <2>1. IsFiniteSet(S)
      BY <1>1
    <2> QED  BY <1>2, <2>1, SeqOfSet
  <1>4. DOMAIN seq = 1 .. n /\ \A k \in 1 .. n : seq[k] \in 1 .. t - 1
    BY <1>1, <1>3
  <1>a. PICK Q : Q = [s \in SUBSET (1 .. n) |-> P[0] \cup UNION { P[seq[k]] : k \in s }]
    OBVIOUS
  <1>5. ASSUME NEW s \in SUBSET (1 .. n), NEW m \in s
        PROVE  /\ IsFiniteSet(P[seq[m]]) /\ Q[s \ {m}] \cap P[seq[m]] = {}
               /\ Q[s \ {m}] \cup P[seq[m]] = Q[s]
    <2>1. m \in 1 .. n /\ seq[m] \in 0 .. t - 1 /\ seq[m] # 0 /\ 0 \in 0 .. t - 1
      <3>1. m \in 1 .. n
        OBVIOUS
      <3>2. seq[m] \in 1 .. t - 1
        BY <1>4, <3>1
      <3> QED  BY <3>1, <3>2
    <2>2. P[0] \cap P[seq[m]] = {}
      BY <2>1
    <2>3. ASSUME NEW k \in s \ {m}
          PROVE  P[seq[k]] \cap P[seq[m]] = {}
      <3>1. k \in 1 .. n /\ seq[k] # seq[m]
        BY <1>3, <2>1
      <3>2. seq[k] \in 0 .. t - 1
        BY <1>4, <3>1
      <3> QED  BY <2>1, <3>1, <3>2
    <2>4. s \ {m} \in SUBSET (1 .. n)
      OBVIOUS
    <2>5. /\ Q[s] = P[0] \cup UNION { P[seq[k]] : k \in s }
          /\ Q[s \ {m}] = P[0] \cup UNION { P[seq[k]] : k \in s \ {m} }
      BY <1>a, <2>4
    <2>6. IsFiniteSet(P[seq[m]])
      BY <2>1
    <2>7. \A x : x \in Q[s \ {m}] <=> x \in P[0] \/ \E k \in s \ {m} : x \in P[seq[k]]
      BY <2>5
    <2>8. \A x : x \in Q[s] <=> x \in P[0] \/ \E k \in s : x \in P[seq[k]]
      BY <2>5
    <2>9. Q[s \ {m}] \cap P[seq[m]] = {}
      BY <2>2, <2>3, <2>7
    <2>10. Q[s \ {m}] \cup P[seq[m]] = Q[s]
      BY <2>7, <2>8
    <2> QED  BY <2>6, <2>9, <2>10
  <1>b. Q[{}] = P[0] /\ {} \in SUBSET (1 .. n) /\ 0 \in 0 .. t - 1
    <2>1. {} \in SUBSET (1 .. n)
      OBVIOUS
    <2>2. Q[{}] = P[0] \cup UNION { P[seq[k]] : k \in {} }
      BY <1>a, <2>1
    <2> QED  BY <2>2
  <1>6. ASSUME NEW k \in 0 .. n
        PROVE  IsFiniteSet(Q[1 .. k])
    <2> DEFINE T == { j \in 0 .. n : IsFiniteSet(Q[1 .. j]) }
    <2>1. 0 \in T
      <3>1. 1 .. 0 = {} /\ 0 \in 0 .. n
        BY <1>3
      <3>2. IsFiniteSet(P[0])
        BY <1>b
      <3> QED  BY <3>1, <3>2, <1>b
    <2>2. ASSUME NEW j \in 1 .. n, j - 1 \in T
          PROVE  j \in T
      <3>1. (1 .. j) \ {j} = 1 .. j - 1 /\ j \in 1 .. j /\ 1 .. j \in SUBSET (1 .. n)
        BY <1>3
      <3>2. PICK X, Y, Z : X = Q[1 .. j - 1] /\ Y = P[seq[j]] /\ Z = Q[1 .. j]
        OBVIOUS
      <3>3. IsFiniteSet(Y) /\ X \cup Y = Z
        BY <1>5, <3>1, <3>2
      <3>4. IsFiniteSet(X)
        BY <2>2, <3>2
      <3>5. IsFiniteSet(Z)
        BY <3>3, <3>4, FS_Union
      <3>6. j \in 0 .. n
        OBVIOUS
      <3> QED  BY <3>2, <3>5, <3>6
    <2>3. 0 .. n \subseteq T
      <3> HIDE DEF T
      <3> QED  BY <1>3, <2>1, <2>2, LoopInduction
    <2> QED  BY <2>3
  <1>7. ASSUME NEW s \in SUBSET (1 .. n)
        PROVE  IsFiniteSet(Q[s])
    <2>1. n \in 0 .. n /\ 1 .. n \in SUBSET (1 .. n)
      BY <1>3
    <2>2. PICK X, Y : X = Q[s] /\ Y = Q[1 .. n]
      OBVIOUS
    <2>3. X = P[0] \cup UNION { P[seq[k]] : k \in s }
          /\ Y = P[0] \cup UNION { P[seq[k]] : k \in 1 .. n }
      BY <1>a, <2>1, <2>2
    <2>4. X \in SUBSET Y
      BY <2>3
    <2>5. IsFiniteSet(Y)
      BY <1>6, <2>1, <2>2
    <2> QED  BY <2>2, <2>4, <2>5, FS_Subset
  <1>c. ASSUME NEW s \in SUBSET (1 .. n), NEW m \in s
        PROVE  add_inplace(RowBags(F, H, Q[s \ {m}]), shards[seq[m]].value) = RowBags(F, H, Q[s])
    <2>1. PICK X, Y, Z : X = Q[s \ {m}] /\ Y = P[seq[m]] /\ Z = Q[s]
      OBVIOUS
    <2>2. IsFiniteSet(Y) /\ X \cap Y = {} /\ X \cup Y = Z
      BY <1>5, <2>1
    <2>3. s \ {m} \in SUBSET (1 .. n) /\ seq[m] \in 0 .. t - 1
      <3>1. m \in 1 .. n
        OBVIOUS
      <3>2. seq[m] \in 1 .. t - 1
        BY <1>4, <3>1
      <3>3. seq[m] \in 0 .. t - 1
        BY <3>2
      <3>4. s \ {m} \in SUBSET (1 .. n)
        OBVIOUS
      <3> QED  BY <3>3, <3>4
    <2>4. IsFiniteSet(X)
      BY <1>7, <2>1, <2>3
    <2>5. add_inplace(RowBags(F, H, X), RowBags(F, H, Y)) = RowBags(F, H, Z)
      BY <2>2, <2>4, RowBagsAdd
    <2>6. shards[seq[m]].value = RowBags(F, H, Y)
      BY <2>1, <2>3
    <2> QED  BY <2>1, <2>5, <2>6
  <1> DEFINE g == [s \in SUBSET (1 .. n) |-> RowBags(F, H, Q[s])]
  <1>8. SumsShards(shards, seq, g)
    <2>1. ASSUME NEW s \in SUBSET (1 .. n), s # {}
          PROVE  g[s] = add_inplace(g[s \ {Max(s)}], shards[seq[Max(s)]].value)
      <3>1. s \subseteq 0 .. n
        OBVIOUS
      <3>2. PICK m \in s : m = Max(s)
        BY <1>3, <2>1, <3>1, MaxBounded
      <3>3. s \ {m} \in SUBSET (1 .. n)
        OBVIOUS
      <3>4. g[s] = RowBags(F, H, Q[s]) /\ g[s \ {m}] = RowBags(F, H, Q[s \ {m}])
        BY <3>3
      <3>5. add_inplace(g[s \ {m}], shards[seq[m]].value) = g[s]
        <4> HIDE DEF g
        <4> QED  BY <1>c, <3>4
      <3> HIDE DEF g
      <3> QED  BY <3>2, <3>5
    <2>2. g[{}] = shards[0].value
      BY <1>b
    <2>3. g = [s \in SUBSET (1 .. n) |-> g[s]]
      OBVIOUS
    <2> HIDE DEF g
    <2>4. \A s \in SUBSET (1 .. n) :
              g[s] = IF s = {} THEN shards[0].value
                     ELSE add_inplace(g[s \ {Max(s)}], shards[seq[Max(s)]].value)
      BY <2>1, <2>2
    <2> QED  BY <1>4, <2>3, <2>4 DEF SumsShards
  <1>9. PICK h : SumsShards(shards, seq, h) /\ Summed(shards) = h[1 .. n]
    <2>1. \E u : SumsShards(shards, seq, u)
      BY <1>8
    <2>2. seq = SetToSeq(DOMAIN shards \ {0})
      BY <1>1, <1>2
    <2> HIDE DEF g
    <2> QED  BY <1>4, <2>1, <2>2, SummedBySolution
  <1>10. h[1 .. n] = RowBags(F, H, Q[1 .. n])
    <2> HIDE DEF g
    <2> DEFINE T == { k \in 0 .. n : h[1 .. k] = RowBags(F, H, Q[1 .. k]) }
    <2>1. 0 \in T
      <3>1. 1 .. 0 = {} /\ {} \in SUBSET (DOMAIN seq) /\ 0 \in 0 .. n
        BY <1>3
      <3>2. h[{}] = shards[0].value
        BY <1>9, <3>1 DEF SumsShards
      <3> QED  BY <1>b, <3>1, <3>2
    <2>2. ASSUME NEW k \in 1 .. n, k - 1 \in T
          PROVE  k \in T
      <3>a. k \in Nat \ {0} /\ k \in 0 .. n
        BY <1>3
      <3>1. Max(1 .. k) = k /\ (1 .. k) \ {k} = 1 .. k - 1 /\ 1 .. k # {}
        BY <3>a, IntervalTop
      <3>b. 1 .. k \in SUBSET (1 .. n) /\ k \in 1 .. k
        BY <1>3
      <3>2. h[1 .. k] = add_inplace(h[1 .. k - 1], shards[seq[k]].value)
        <4>1. 1 .. k \in SUBSET (DOMAIN seq)
          BY <1>4, <3>b
        <4>2. \A x \in SUBSET (DOMAIN seq) :
                  x # {} => h[x] = add_inplace(h[x \ {Max(x)}], shards[seq[Max(x)]].value)
          BY <1>9 DEF SumsShards
        <4> HIDE DEF T
        <4>3. h[1 .. k] = add_inplace(h[(1 .. k) \ {Max(1 .. k)}], shards[seq[Max(1 .. k)]].value)
          BY <3>1, <4>1, <4>2
        <4> QED  BY <3>1, <4>3
      <3>3. h[1 .. k - 1] = RowBags(F, H, Q[1 .. k - 1])
        BY <2>2
      <3>4. add_inplace(RowBags(F, H, Q[1 .. k - 1]), shards[seq[k]].value) = RowBags(F, H, Q[1 .. k])
        BY <1>c, <3>1, <3>b
      <3> QED  BY <3>2, <3>3, <3>4, <3>a
    <2>3. 0 .. n \subseteq T
      <3> HIDE DEF T
      <3> QED  BY <1>3, <2>1, <2>2, LoopInduction
    <2>4. n \in T
      <3> HIDE DEF T
      <3> QED  BY <1>3, <2>3
    <2> QED  BY <2>4
  <1>11. Q[1 .. n] = UNION { P[r] : r \in 0 .. t - 1 }
    <2>1. ASSUME NEW r \in 0 .. t - 1
          PROVE  r = 0 \/ \E k \in 1 .. n : seq[k] = r
      <3>1. r = 0 \/ r \in S
        BY <1>1
      <3> QED  BY <1>3, <3>1
    <2>2. ASSUME NEW k \in 1 .. n
          PROVE  seq[k] \in 0 .. t - 1
      BY <1>4
    <2>3. 0 \in 0 .. t - 1
      OBVIOUS
    <2>4. Q[1 .. n] = P[0] \cup UNION { P[seq[k]] : k \in 1 .. n }
      <3>1. 1 .. n \in SUBSET (1 .. n)
        OBVIOUS
      <3> QED  BY <1>a, <3>1
    <2> QED  BY <2>1, <2>2, <2>3, <2>4
  <1> HIDE DEF g
  <1> QED  BY <1>9, <1>10, <1>11

\* The order in which a gather copies the shards.
RankSeq(n) == [i \in 1 .. n |-> i - 1]

\* The recursion that the copies of a gather solve.
CopiesShards(shards, V, seq, g) ==
    g = [s \in SUBSET (DOMAIN seq) |->
            IF s = {} THEN [i \in 1 .. V |-> Zero]
            ELSE copy_last_dim_shard(shards[seq[Max(s)]].value, g[s \ {Max(s)}], seq[Max(s)])]

LEMMA GatheredBySolution ==
    ASSUME NEW shards, NEW V, NEW seq, seq = RankSeq(Cardinality(DOMAIN shards)),
           \E g : CopiesShards(shards, V, seq, g)
    PROVE  \E g : CopiesShards(shards, V, seq, g) /\ Gathered(shards, V) = g[DOMAIN seq]
  <1> DEFINE h == CHOOSE g : CopiesShards(shards, V, seq, g)
  <1>1. CopiesShards(shards, V, seq, h)
    OBVIOUS
  <1>2. Gathered(shards, V) =
            FoldLeft(LAMBDA destination, r : copy_last_dim_shard(shards[r].value, destination, r),
                     [i \in 1 .. V |-> Zero], seq)
    BY DEF Gathered, RankSeq
  <1>3. FoldLeft(LAMBDA destination, r : copy_last_dim_shard(shards[r].value, destination, r),
                 [i \in 1 .. V |-> Zero], seq) =
            (CHOOSE g : g = [s \in SUBSET (DOMAIN seq) |->
                 IF s = {} THEN [i \in 1 .. V |-> Zero]
                 ELSE copy_last_dim_shard(shards[seq[Max(s)]].value, g[s \ {Max(s)}],
                                          seq[Max(s)])])[DOMAIN seq]
    BY DEF FoldLeft, MapThenFoldSet
  <1>4. h = (CHOOSE g : g = [s \in SUBSET (DOMAIN seq) |->
                 IF s = {} THEN [i \in 1 .. V |-> Zero]
                 ELSE copy_last_dim_shard(shards[seq[Max(s)]].value, g[s \ {Max(s)}],
                                          seq[Max(s)])])
    BY DEF CopiesShards
  <1>5. Gathered(shards, V) = h[DOMAIN seq]
    BY <1>2, <1>3, <1>4
  <1> HIDE DEF h
  <1> QED  BY <1>1, <1>5

\* Every position is in the slice of some rank.
LEMMA SliceOf ==
    ASSUME NEW t \in Nat, NEW v \in Nat, NEW x \in 0 .. t * v - 1
    PROVE  \E r \in 0 .. t - 1 : x \in r * v .. (r + 1) * v - 1
  <1>0. PICK f : f = [r \in Nat |-> r * v]
    OBVIOUS
  <1> DEFINE T == { k \in 0 .. t : x < f[k] => \E r \in 0 .. t - 1 : x \in f[r] .. f[r + 1] - 1 }
  <1>1. 0 \in T
    <2>1. f[0] = 0 /\ 0 \in 0 .. t
      BY <1>0
    <2> QED  BY <2>1
  <1>2. ASSUME NEW k \in 1 .. t, k - 1 \in T
        PROVE  k \in T
    <2>1. k \in 0 .. t /\ k - 1 \in 0 .. t - 1 /\ (k - 1) + 1 = k
      OBVIOUS
    <2>2. f[k - 1] \in Nat /\ f[k] \in Nat
      BY <1>0, <2>1
    <2>3. CASE x < f[k - 1]
      BY <1>2, <2>1, <2>3
    <2>4. CASE ~ (x < f[k - 1])
      <3>1. ASSUME x < f[k]
            PROVE  x \in f[k - 1] .. f[(k - 1) + 1] - 1
        BY <2>1, <2>2, <2>4, <3>1
      <3> QED  BY <2>1, <3>1
    <2> QED  BY <2>3, <2>4
  <1>3. 0 .. t \subseteq T
    <2> HIDE DEF T
    <2> QED  BY <1>1, <1>2, LoopInduction
  <1>4. t \in T
    <2> HIDE DEF T
    <2> QED  BY <1>3
  <1>5. x < f[t]
    BY <1>0
  <1>6. PICK r \in 0 .. t - 1 : x \in f[r] .. f[r + 1] - 1
    BY <1>4, <1>5
  <1>7. f[r] = r * v /\ f[r + 1] = (r + 1) * v
    BY <1>0
  <1> QED  BY <1>6, <1>7

\* Rows r * n + 1 .. r * n + n of a tensor.
RowSlice(w, n, r) == [i \in 1 .. n |-> w[r * n + i]]

\* q is one of t equal parts of n.
ShareOf(q, n, t) == q = n \div t /\ n = t * q

\* A gather puts the slices side by side.
LEMMA GatheredShards ==
    ASSUME NEW shards, NEW t \in Nat \ {0}, DOMAIN shards = 0 .. t - 1,
           NEW v \in Nat, NEW V, ShareOf(v, V, t), NEW L,
           \A r \in 0 .. t - 1 : shards[r].value = RowSlice(L, v, r)
    PROVE  Gathered(shards, V) = [i \in 1 .. V |-> L[i]]
  <1>1. PICK seq : seq = RankSeq(Cardinality(DOMAIN shards))
    OBVIOUS
  <1>2. Cardinality(0 .. t - 1) = t
    BY FS_Interval
  <1>3. DOMAIN seq = 1 .. t /\ \A k \in 1 .. t : seq[k] = k - 1
    BY <1>1, <1>2 DEF RankSeq
  <1>4. V \in Nat /\ V = t * v
    BY DEF ShareOf
  <1> DEFINE In(i, m) == i - 1 \in (m - 1) * v .. m * v - 1
             G(s) == [i \in 1 .. V |-> IF \E m \in s : In(i, m) THEN L[i] ELSE Zero]
  <1>5. ASSUME NEW s \in SUBSET (1 .. t), NEW m \in s
        PROVE  copy_last_dim_shard(shards[m - 1].value, G(s \ {m}), m - 1) = G(s)
    <2>1. m \in 1 .. t /\ m - 1 \in 0 .. t - 1 /\ (m - 1) + 1 = m
      OBVIOUS
    <2>2. PICK source : source = shards[m - 1].value
      OBVIOUS
    <2>3. source = [i \in 1 .. v |-> L[(m - 1) * v + i]]
      BY <2>1, <2>2 DEF RowSlice
    <2>4. Len(source) = v
      BY <2>3
    <2>5. PICK a, b \in Nat : a = (m - 1) * v /\ b = m * v /\ b = a + v
      <3>1. m * v = (m - 1) * v + v
        BY <2>1
      <3> QED  BY <2>1, <3>1
    <2>6. copy_last_dim_shard(source, G(s \ {m}), m - 1) =
              [i \in 1 .. V |-> IF i - 1 \in a .. b - 1 THEN source[i - a] ELSE G(s \ {m})[i]]
      <3>1. DOMAIN G(s \ {m}) = 1 .. V
        OBVIOUS
      <3> HIDE DEF G
      <3> QED  BY <2>1, <2>4, <2>5, <3>1 DEF copy_last_dim_shard
    <2>7. ASSUME NEW i \in 1 .. V
          PROVE  (IF i - 1 \in a .. b - 1 THEN source[i - a] ELSE G(s \ {m})[i]) = G(s)[i]
      <3>1. In(i, m) <=> i - 1 \in a .. b - 1
        BY <2>5
      <3>2. CASE i - 1 \in a .. b - 1
        <4>1. i - a \in 1 .. v /\ a + (i - a) = i
          BY <2>5, <3>2, <1>4
        <4>2. source[i - a] = L[i]
          BY <2>3, <2>5, <4>1
        <4>3. G(s)[i] = L[i]
          <5> HIDE DEF In
          <5> QED  BY <3>1, <3>2
        <4> QED  BY <3>2, <4>2, <4>3
      <3>3. CASE i - 1 \notin a .. b - 1
        <4>1. (\E q \in s \ {m} : In(i, q)) <=> (\E q \in s : In(i, q))
          <5> HIDE DEF In
          <5> QED  BY <3>1, <3>3
        <4> HIDE DEF In
        <4> QED  BY <3>3, <4>1
      <3> QED  BY <3>2, <3>3
    <2>8. G(s) = [i \in 1 .. V |-> G(s)[i]]
      OBVIOUS
    <2> HIDE DEF G
    <2> QED  BY <2>2, <2>6, <2>7, <2>8
  <1>6. G({}) = [i \in 1 .. V |-> Zero]
    OBVIOUS
  <1>a. PICK g : g = [s \in SUBSET (1 .. t) |-> G(s)]
    OBVIOUS
  <1> HIDE DEF G
  <1>7. CopiesShards(shards, V, seq, g)
    <2>1. ASSUME NEW s \in SUBSET (1 .. t), s # {}
          PROVE  g[s] = copy_last_dim_shard(shards[seq[Max(s)]].value, g[s \ {Max(s)}], seq[Max(s)])
      <3>1. s \subseteq 0 .. t
        OBVIOUS
      <3>2. PICK m \in s : m = Max(s)
        BY <2>1, <3>1, MaxBounded
      <3>3. s \ {m} \in SUBSET (1 .. t) /\ seq[m] = m - 1
        BY <1>3
      <3>4. g[s] = G(s) /\ g[s \ {m}] = G(s \ {m})
        BY <1>a, <3>3
      <3>5. copy_last_dim_shard(shards[seq[m]].value, g[s \ {m}], seq[m]) = g[s]
        BY <1>5, <3>3, <3>4
      <3> QED  BY <3>2, <3>5
    <2>2. g[{}] = [i \in 1 .. V |-> Zero]
      <3>1. {} \in SUBSET (1 .. t)
        OBVIOUS
      <3> QED  BY <1>6, <1>a, <3>1
    <2>3. \A s \in SUBSET (1 .. t) :
              g[s] = IF s = {} THEN [i \in 1 .. V |-> Zero]
                     ELSE copy_last_dim_shard(shards[seq[Max(s)]].value, g[s \ {Max(s)}],
                                              seq[Max(s)])
      BY <2>1, <2>2
    <2>4. g = [s \in SUBSET (1 .. t) |-> g[s]]
      BY <1>a
    <2> QED  BY <1>3, <2>3, <2>4 DEF CopiesShards
  <1>8. PICK h : CopiesShards(shards, V, seq, h) /\ Gathered(shards, V) = h[1 .. t]
    <2>1. \E u : CopiesShards(shards, V, seq, u)
      BY <1>7
    <2>2. \E u : CopiesShards(shards, V, seq, u) /\ Gathered(shards, V) = u[DOMAIN seq]
      BY <1>1, <2>1, GatheredBySolution
    <2> QED  BY <1>3, <2>2
  <1>9. h[1 .. t] = G(1 .. t)
    <2> DEFINE T == { k \in 0 .. t : h[1 .. k] = G(1 .. k) }
    <2>1. 0 \in T
      <3>1. 1 .. 0 = {} /\ {} \in SUBSET (DOMAIN seq) /\ 0 \in 0 .. t
        OBVIOUS
      <3>2. h[{}] = [i \in 1 .. V |-> Zero]
        BY <1>8, <3>1 DEF CopiesShards
      <3> QED  BY <1>6, <3>1, <3>2
    <2>2. ASSUME NEW k \in 1 .. t, k - 1 \in T
          PROVE  k \in T
      <3>a. k \in Nat \ {0} /\ k \in 0 .. t
        OBVIOUS
      <3>1. Max(1 .. k) = k /\ (1 .. k) \ {k} = 1 .. k - 1 /\ 1 .. k # {}
        BY <3>a, IntervalTop
      <3>b. 1 .. k \in SUBSET (1 .. t) /\ k \in 1 .. k
        OBVIOUS
      <3>2. h[1 .. k] = copy_last_dim_shard(shards[seq[k]].value, h[1 .. k - 1], seq[k])
        <4>1. 1 .. k \in SUBSET (DOMAIN seq)
          BY <1>3, <3>b
        <4> QED  BY <1>8, <3>1, <4>1 DEF CopiesShards
      <3>3. h[1 .. k - 1] = G(1 .. k - 1)
        BY <2>2
      <3>4. copy_last_dim_shard(shards[k - 1].value, G(1 .. k - 1), k - 1) = G(1 .. k)
        BY <1>5, <3>1, <3>b
      <3>5. seq[k] = k - 1
        BY <1>3
      <3> QED  BY <3>2, <3>3, <3>4, <3>5, <3>a
    <2>3. 0 .. t \subseteq T
      <3> HIDE DEF T
      <3> QED  BY <2>1, <2>2, LoopInduction
    <2>4. t \in T
      <3> HIDE DEF T
      <3> QED  BY <2>3
    <2> QED  BY <2>4
  <1>10. G(1 .. t) = [i \in 1 .. V |-> L[i]]
    <2>1. ASSUME NEW i \in 1 .. V
          PROVE  \E m \in 1 .. t : In(i, m)
      <3>1. PICK x : x = i - 1 /\ x \in 0 .. t * v - 1
        BY <1>4
      <3>2. PICK r \in 0 .. t - 1 : x \in r * v .. (r + 1) * v - 1
        BY <3>1, SliceOf
      <3>3. PICK m \in 1 .. t : m - 1 = r /\ m = r + 1
        BY <3>2
      <3> QED  BY <3>1, <3>2, <3>3
    <2> HIDE DEF In
    <2> QED  BY <2>1 DEF G
  <1> QED  BY <1>8, <1>9, <1>10

-----------------------------------------------------------------------------
(* What a rank of a group holds *)

\* Columns r * n + 1 .. r * n + n of all rows.
ColumnSlice(w, rows, n, r) == [i \in 1 .. rows |-> [j \in 1 .. n |-> w[i][r * n + j]]]

\* The slices of two and of three tensors, one below the other.
Below(a, b, n) == [i \in 1 .. n + n |-> IF i <= n THEN a[i] ELSE b[i - n]]
Stack(a, b, c, q, kv) ==
    [i \in 1 .. q + kv + kv |-> IF i <= q THEN a[i]
                                ELSE IF i <= q + kv THEN b[i - q] ELSE c[i - q - kv]]

QkvSlices(query, key, value, t, r) ==
    LET q == NumHeads \div t
        kv == NumKvHeads \div t
    IN  Stack(RowSlice(FullTensor(query), q, r), RowSlice(FullTensor(key), kv, r),
              RowSlice(FullTensor(value), kv, r), q, kv)

AttnWeight(p) == Weight(Attn(p))
AttnBias(p) == Bias(Attn(p))

\* The part of a parameter that rank r of t holds.
ShardTensor(name, t, r) ==
    CASE name \in {EmbedName, LMHeadName} -> RowSlice(FullTensor(name), Vocab \div t, r)
      [] name = QkvWeightName -> QkvSlices(QName, KName, VName, t, r)
      [] name = QkvBiasName ->
            QkvSlices(AttnBias("q_proj"), AttnBias("k_proj"), AttnBias("v_proj"), t, r)
      [] name = OName -> ColumnSlice(FullTensor(name), Hidden, NumHeads \div t, r)
      [] name = GateUpName ->
            Below(RowSlice(FullTensor(GateName), Intermediate \div t, r),
                  RowSlice(FullTensor(UpName), Intermediate \div t, r), Intermediate \div t)
      [] name = DownName -> ColumnSlice(FullTensor(name), Hidden, Intermediate \div t, r)
      [] name = NormName -> FullTensor(name)

ParameterNames(c) ==
    {EmbedName, QkvWeightName, OName, NormName, GateUpName, DownName, LMHeadName}
        \union (IF c.qkv_bias THEN {QkvBiasName} ELSE {})

IsShard(p, c, t, r) ==
    /\ DOMAIN p = ParameterNames(c)
    /\ \A name \in ParameterNames(c) :
           p[name] = ShardTensor(IF c.tie /\ name = LMHeadName THEN EmbedName ELSE name, t, r)

\* The rows of its parameter that an entry of the checkpoint fills.
RowsOf(e, t) ==
    LET q == NumHeads \div t
        kv == NumKvHeads \div t
        m == Intermediate \div t
    IN  CASE e \in {QName, AttnBias("q_proj")} -> 1 .. q
          [] e \in {KName, AttnBias("k_proj")} -> q + 1 .. q + kv
          [] e \in {VName, AttnBias("v_proj")} -> q + kv + 1 .. q + kv + kv
          [] e = GateName -> 1 .. m
          [] e = UpName -> m + 1 .. m + m
          [] OTHER -> DOMAIN ShardTensor(e, t, 0)

\* The parameter that it belongs to.
Target(e) == resolve_packed_parameter_name(e).target

\* No tensor that stacks gate and up is sliced into several ranks: the code would
\* do it, and give the first ranks the gates and the last ones the ups.
SlicesPartsOnly == \A c \in Configurations : c.style = "gate_up" => c.tp = 1

\* What a checkpoint must not have for the ranks to be loaded from it, and the
\* entry at which loading fails then.
Hopeless == cfg.style = "foreign" \/ (StackedQkv /\ cfg.tp > 1)
BadEntry == IF cfg.style = "foreign" THEN ForeignName ELSE QkvWeightName

\* A tensor with as many rows as S.
SameRows(w, S) == w = [i \in DOMAIN S |-> w[i]]

LoadingOK(r) ==
    /\ loading[r] # "failed" => Divisible(cfg)
    /\ loading[r] = "loaded" => unread[r] = {}
    /\ Divisible(cfg) => \A name \in RegisteredNames :
                             SameRows(param[r][name], ShardTensor(name, cfg.tp, r))
    /\ Hopeless => BadEntry \in unread[r]
    /\ ~ Hopeless /\ Divisible(cfg) =>
           \A e \in CheckpointEntries \ unread[r] :
               \A i \in RowsOf(e, cfg.tp) :
                   param[r][Target(e)][i] = ShardTensor(Target(e), cfg.tp, r)[i]

LoadInv == \A r \in Ranks : LoadingOK(r)

-----------------------------------------------------------------------------
(* What the stages of a pass leave *)

\* The residual stream behind stage s of the reference.
ResidualAfter(c, tok, s) ==
    CASE s < 2 -> << >>
      [] s = 2 -> Reference[c][tok][1]
      [] s = 3 -> Normed(FullParameters(c), 3, Reference[c][tok][2], Reference[c][tok][1]).residual
      [] s = 4 -> Normed(FullParameters(c), 4, Reference[c][tok][3],
                         Normed(FullParameters(c), 3, Reference[c][tok][2],
                                Reference[c][tok][1]).residual).residual

StageInput(c, tok, s) == IF s = 0 THEN << >> ELSE Reference[c][tok][s]

\* What rank r brings to the collective of stage s.
Share(s, r) ==
    LocalForward(Parameters(r), s, StageInput(cfg, token, s - 1),
                 ResidualAfter(cfg, token, s - 1), token, cfg.tp, r)

\* What it holds when all ranks have been through stage s.
Holds(s, r) == IF s = 4 /\ r # 0 THEN << >> ELSE Reference[cfg][token][s]

Entered(r) == IF r \in enqueued THEN stage[r] + 1 ELSE stage[r]

ValuesOK ==
    /\ outcome # "done" => AllLoaded
    /\ outcome = "done" => enqueued = {}
    /\ DOMAIN residual = Ranks
    /\ \A r \in Ranks : residual[r] = ResidualAfter(cfg, token, Entered(r))
    /\ \A r \in Ranks \ enqueued :
           stage[r] > 0 /\ (\A q \in Ranks : stage[q] >= stage[r]) =>
               tensor[r].value = Holds(stage[r], r)
    /\ \A r \in enqueued : tensor[r].value = Share(stage[r] + 1, r)

\* Behind the first ranks of a stage: their shares wait in the group, in the
\* tensors that these ranks are using.
ArrivedOK ==
    \A r \in Ranks \ {0} :
        cfg.backend = "in_process" /\ cfg.tp > 1 /\ Turn(r) =>
            LET s == stage[r] + 1
                group == pending[Stages[s]]
            IN  \A q \in 0 .. r - 1 :
                    /\ group[q].value = Share(s, q)
                    /\ SameTensor(tensor[q], group[q])
                    /\ s = 4 /\ q # 0 => tensor[q].value = << >>

ReferenceInv == LoadInv /\ ValuesOK /\ ArrivedOK

-----------------------------------------------------------------------------
(* Names *)

\* The sequence with the elements of both is their concatenation.
LEMMA SameConcat ==
    ASSUME NEW S, NEW s \in Seq(S), NEW t \in Seq(S), NEW u \in Seq(S), Len(u) = Len(s) + Len(t),
           \A i \in 1 .. Len(u) : u[i] = IF i <= Len(s) THEN s[i] ELSE t[i - Len(s)]
    PROVE  s \o t = u
  <1>1. /\ s \o t \in Seq(S) /\ Len(s \o t) = Len(s) + Len(t)
        /\ \A i \in 1 .. Len(s) + Len(t) : (s \o t)[i] = IF i <= Len(s) THEN s[i] ELSE t[i - Len(s)]
    BY ConcatProperties
  <1>2. PICK v \in Seq(S) : v = s \o t
    BY <1>1
  <1>3. Len(v) = Len(u) /\ \A i \in 1 .. Len(u) : v[i] = u[i]
    BY <1>1, <1>2
  <1>4. /\ DOMAIN v = 1 .. Len(u) /\ v = [i \in DOMAIN v |-> v[i]]
        /\ DOMAIN u = 1 .. Len(u) /\ u = [i \in DOMAIN u |-> u[i]]
    BY <1>3
  <1> QED  BY <1>2, <1>3, <1>4

LEMMA TupleConcat ==
    /\ \A a, b : <<a>> \o <<b>> = <<a, b>>
    /\ \A a, b, c : <<a, b>> \o <<c>> = <<a, b, c>>
    /\ \A a, b, c, d : <<a, b, c>> \o <<d>> = <<a, b, c, d>>
    /\ \A a, b, c, d, e : <<a, b, c, d>> \o <<e>> = <<a, b, c, d, e>>
    /\ \A a, b, c, d, e : <<a, b, c>> \o <<d, e>> = <<a, b, c, d, e>>
    /\ \A a, b, c, d, e, f : <<a, b, c, d, e>> \o <<f>> = <<a, b, c, d, e, f>>
  <1>1. ASSUME NEW a, NEW b
        PROVE  <<a>> \o <<b>> = <<a, b>>
    <2> DEFINE S == {a, b}
    <2>1. PICK s, t, u : s = <<a>> /\ t = <<b>> /\ u = <<a, b>>
      OBVIOUS
    <2>2. s \in Seq(S) /\ t \in Seq(S) /\ u \in Seq(S) /\ Len(u) = Len(s) + Len(t)
      BY <2>1
    <2>3. \A i \in 1 .. Len(u) : u[i] = IF i <= Len(s) THEN s[i] ELSE t[i - Len(s)]
      BY <2>1
    <2> HIDE DEF S
    <2>4. s \o t = u
      BY <2>2, <2>3, SameConcat
    <2> QED  BY <2>1, <2>4
  <1>2. ASSUME NEW a, NEW b, NEW c
        PROVE  <<a, b>> \o <<c>> = <<a, b, c>>
    <2> DEFINE S == {a, b, c}
    <2>1. PICK s, t, u : s = <<a, b>> /\ t = <<c>> /\ u = <<a, b, c>>
      OBVIOUS
    <2>2. s \in Seq(S) /\ t \in Seq(S) /\ u \in Seq(S) /\ Len(u) = Len(s) + Len(t)
      BY <2>1
    <2>3. \A i \in 1 .. Len(u) : u[i] = IF i <= Len(s) THEN s[i] ELSE t[i - Len(s)]
      BY <2>1
    <2> HIDE DEF S
    <2>4. s \o t = u
      BY <2>2, <2>3, SameConcat
    <2> QED  BY <2>1, <2>4
  <1>3. ASSUME NEW a, NEW b, NEW c, NEW d
        PROVE  <<a, b, c>> \o <<d>> = <<a, b, c, d>>
    <2> DEFINE S == {a, b, c, d}
    <2>1. PICK s, t, u : s = <<a, b, c>> /\ t = <<d>> /\ u = <<a, b, c, d>>
      OBVIOUS
    <2>2. s \in Seq(S) /\ t \in Seq(S) /\ u \in Seq(S) /\ Len(u) = Len(s) + Len(t)
      BY <2>1
    <2>3. \A i \in 1 .. Len(u) : u[i] = IF i <= Len(s) THEN s[i] ELSE t[i - Len(s)]
      BY <2>1
    <2> HIDE DEF S
    <2>4. s \o t = u
      BY <2>2, <2>3, SameConcat
    <2> QED  BY <2>1, <2>4
  <1>4. ASSUME NEW a, NEW b, NEW c, NEW d, NEW e
        PROVE  <<a, b, c, d>> \o <<e>> = <<a, b, c, d, e>>
    <2> DEFINE S == {a, b, c, d, e}
    <2>1. PICK s, t, u : s = <<a, b, c, d>> /\ t = <<e>> /\ u = <<a, b, c, d, e>>
      OBVIOUS
    <2>2. s \in Seq(S) /\ t \in Seq(S) /\ u \in Seq(S) /\ Len(u) = Len(s) + Len(t)
      BY <2>1
    <2>3. \A i \in 1 .. Len(u) : u[i] = IF i <= Len(s) THEN s[i] ELSE t[i - Len(s)]
      BY <2>1
    <2> HIDE DEF S
    <2>4. s \o t = u
      BY <2>2, <2>3, SameConcat
    <2> QED  BY <2>1, <2>4
  <1>5. ASSUME NEW a, NEW b, NEW c, NEW d, NEW e
        PROVE  <<a, b, c>> \o <<d, e>> = <<a, b, c, d, e>>
    <2> DEFINE S == {a, b, c, d, e}
    <2>1. PICK s, t, u : s = <<a, b, c>> /\ t = <<d, e>> /\ u = <<a, b, c, d, e>>
      OBVIOUS
    <2>2. s \in Seq(S) /\ t \in Seq(S) /\ u \in Seq(S) /\ Len(u) = Len(s) + Len(t)
      BY <2>1
    <2>3. \A i \in 1 .. Len(u) : u[i] = IF i <= Len(s) THEN s[i] ELSE t[i - Len(s)]
      BY <2>1
    <2> HIDE DEF S
    <2>4. s \o t = u
      BY <2>2, <2>3, SameConcat
    <2> QED  BY <2>1, <2>4
  <1>6. ASSUME NEW a, NEW b, NEW c, NEW d, NEW e, NEW f
        PROVE  <<a, b, c, d, e>> \o <<f>> = <<a, b, c, d, e, f>>
    <2> DEFINE S == {a, b, c, d, e, f}
    <2>1. PICK s, t, u : s = <<a, b, c, d, e>> /\ t = <<f>> /\ u = <<a, b, c, d, e, f>>
      OBVIOUS
    <2>2. s \in Seq(S) /\ t \in Seq(S) /\ u \in Seq(S) /\ Len(u) = Len(s) + Len(t)
      BY <2>1
    <2>3. \A i \in 1 .. Len(u) : u[i] = IF i <= Len(s) THEN s[i] ELSE t[i - Len(s)]
      BY <2>1
    <2> HIDE DEF S
    <2>4. s \o t = u
      BY <2>2, <2>3, SameConcat
    <2> QED  BY <2>1, <2>4
  <1> QED  BY <1>1, <1>2, <1>3, <1>4, <1>5, <1>6

LEMMA NameTuples ==
    /\ EmbedName = <<"model", "embed_tokens", "weight">>
    /\ LMHeadName = <<"lm_head", "weight">>
    /\ OName = <<"model", "layers", "0", "self_attn", "o_proj", "weight">>
    /\ GateUpName = <<"model", "layers", "0", "mlp", "gate_up_proj", "weight">>
    /\ GateName = <<"model", "layers", "0", "mlp", "gate_proj", "weight">>
    /\ UpName = <<"model", "layers", "0", "mlp", "up_proj", "weight">>
    /\ DownName = <<"model", "layers", "0", "mlp", "down_proj", "weight">>
    /\ NormName = <<"model", "layers", "0", "input_layernorm", "weight">>
    /\ \A p : AttnWeight(p) = <<"model", "layers", "0", "self_attn", p, "weight">>
    /\ \A p : AttnBias(p) = <<"model", "layers", "0", "self_attn", p, "bias">>
  <1>1. EmbedName = <<"model", "embed_tokens", "weight">> /\ LMHeadName = <<"lm_head", "weight">>
    BY TupleConcat DEF EmbedName, LMHeadName, Weight
  <1>2. \A p : Attn(p) = <<"model", "layers", "0", "self_attn", p>>
               /\ Mlp(p) = <<"model", "layers", "0", "mlp", p>>
    BY TupleConcat DEF Attn, Mlp, Layer
  <1>3. Layer(<<"input_layernorm">>) = <<"model", "layers", "0", "input_layernorm">>
    BY TupleConcat DEF Layer
  <1>4. NormName = <<"model", "layers", "0", "input_layernorm", "weight">>
    <2>1. <<"model", "layers", "0", "input_layernorm">> \o <<"weight">> =
              <<"model", "layers", "0", "input_layernorm", "weight">>
      BY TupleConcat
    <2> QED  BY <1>3, <2>1 DEF NormName, Weight
  <1>5. ASSUME NEW p, NEW k
        PROVE  /\ Attn(p) \o <<k>> = <<"model", "layers", "0", "self_attn", p, k>>
               /\ Mlp(p) \o <<k>> = <<"model", "layers", "0", "mlp", p, k>>
    <2>1. PICK a, b, c, d, e :
              a = "model" /\ b = "layers" /\ c = "0" /\ d = "self_attn" /\ e = "mlp"
      OBVIOUS
    <2>2. <<a, b, c, d, p>> \o <<k>> = <<a, b, c, d, p, k>>
          /\ <<a, b, c, e, p>> \o <<k>> = <<a, b, c, e, p, k>>
      BY TupleConcat
    <2>3. Attn(p) = <<a, b, c, d, p>> /\ Mlp(p) = <<a, b, c, e, p>>
      BY <1>2, <2>1
    <2> QED  BY <2>1, <2>2, <2>3
  <1> QED  BY <1>1, <1>4, <1>5 DEF OName, GateUpName, GateName, UpName, DownName,
                                   AttnWeight, AttnBias, Weight, Bias

LEMMA AttnNames ==
    /\ QkvWeightName = AttnWeight("qkv_proj") /\ QkvBiasName = AttnBias("qkv_proj")
    /\ QName = AttnWeight("q_proj") /\ KName = AttnWeight("k_proj") /\ VName = AttnWeight("v_proj")
    /\ \A p : Bias(Attn(p)) = AttnBias(p)
    /\ ForeignName = <<"model", "rotary", "inv_freq">>
  BY DEF QkvWeightName, QkvBiasName, QName, KName, VName, AttnWeight, AttnBias, ForeignName

Leaf(name) == name[Len(name) - 1]
Kind(name) == name[Len(name)]

\* The last two segments tell the names apart.
LEMMA NameTags ==
    /\ Leaf(EmbedName) = "embed_tokens" /\ Leaf(LMHeadName) = "lm_head"
    /\ Leaf(OName) = "o_proj" /\ Leaf(DownName) = "down_proj"
    /\ Leaf(GateUpName) = "gate_up_proj" /\ Leaf(GateName) = "gate_proj" /\ Leaf(UpName) = "up_proj"
    /\ Leaf(NormName) = "input_layernorm" /\ Leaf(ForeignName) = "rotary"
    /\ \A p : Leaf(AttnWeight(p)) = p /\ Leaf(AttnBias(p)) = p
    /\ \A p : Kind(AttnWeight(p)) = "weight" /\ Kind(AttnBias(p)) = "bias"
  <1>1. \A a, b, c, d, e, f :
            LET n == <<a, b, c, d, e, f>> IN Leaf(n) = e /\ Kind(n) = f
    BY DEF Leaf, Kind
  <1>2. /\ \A a, b : Leaf(<<a, b>>) = a
        /\ \A a, b, c : Leaf(<<a, b, c>>) = b
        /\ \A a, b, c, d, e : Leaf(<<a, b, c, d, e>>) = d
    BY DEF Leaf
  <1> QED  BY <1>1, <1>2, NameTuples, AttnNames

-----------------------------------------------------------------------------
(* Tensors *)

IsRows(w, n) == w = [i \in 1 .. n |-> w[i]]

LEMMA RowsLength ==
    ASSUME NEW n \in Nat, NEW w, IsRows(w, n)
    PROVE  DOMAIN w = 1 .. n /\ Len(w) = n
  <1>1. PICK f : f = [i \in 1 .. n |-> w[i]]
    OBVIOUS
  <1>2. DOMAIN f = 1 .. n /\ Len(f) = n
    BY <1>1
  <1> QED  BY <1>1, <1>2 DEF IsRows

LEMMA ConcatRows ==
    ASSUME NEW m \in Nat, NEW n \in Nat, NEW a, NEW b, IsRows(a, m), IsRows(b, n)
    PROVE  a \o b = [i \in 1 .. m + n |-> IF i <= m THEN a[i] ELSE b[i - m]]
  <1> DEFINE S == { a[i] : i \in 1 .. m } \cup { b[i] : i \in 1 .. n }
  <1>1. a \in Seq(S) /\ Len(a) = m
    <2>1. [i \in 1 .. m |-> a[i]] \in Seq(S) /\ Len([i \in 1 .. m |-> a[i]]) = m
      OBVIOUS
    <2> HIDE DEF S
    <2> QED  BY <2>1 DEF IsRows
  <1>2. b \in Seq(S) /\ Len(b) = n
    <2>1. [i \in 1 .. n |-> b[i]] \in Seq(S) /\ Len([i \in 1 .. n |-> b[i]]) = n
      OBVIOUS
    <2> HIDE DEF S
    <2> QED  BY <2>1 DEF IsRows
  <1>3. PICK u : u = [i \in 1 .. m + n |-> IF i <= m THEN a[i] ELSE b[i - m]]
    OBVIOUS
  <1>4. u \in Seq(S) /\ Len(u) = m + n
    <2>1. ASSUME NEW i \in 1 .. m + n
          PROVE  (IF i <= m THEN a[i] ELSE b[i - m]) \in S
      <3>1. CASE i <= m
        BY <3>1
      <3>2. CASE ~ (i <= m)
        <4>1. i - m \in 1 .. n
          BY <3>2
        <4> QED  BY <3>2, <4>1
      <3> QED  BY <3>1, <3>2
    <2> HIDE DEF S
    <2> QED  BY <1>3, <2>1
  <1>5. \A i \in 1 .. Len(u) : u[i] = IF i <= Len(a) THEN a[i] ELSE b[i - Len(a)]
    BY <1>1, <1>3, <1>4
  <1> HIDE DEF S
  <1>6. Len(u) = Len(a) + Len(b)
    BY <1>1, <1>2, <1>4
  <1>7. a \o b = u
    BY <1>1, <1>2, <1>4, <1>5, <1>6, SameConcat
  <1> QED  BY <1>3, <1>7

LEMMA StackedRows ==
    ASSUME NEW q \in Nat, NEW kv \in Nat, NEW a, NEW b, NEW c,
           IsRows(a, q), IsRows(b, kv), IsRows(c, kv)
    PROVE  a \o b \o c = Stack(a, b, c, q, kv)
  <1>1. PICK ab : ab = a \o b
    OBVIOUS
  <1>2. ab = [i \in 1 .. q + kv |-> IF i <= q THEN a[i] ELSE b[i - q]]
    BY <1>1, ConcatRows
  <1>3. IsRows(ab, q + kv)
    BY <1>2 DEF IsRows
  <1>4. PICK m \in Nat : m = q + kv
    OBVIOUS
  <1>a. IsRows(ab, m)
    BY <1>3, <1>4
  <1>5. ab \o c = [i \in 1 .. m + kv |-> IF i <= m THEN ab[i] ELSE c[i - m]]
    BY <1>a, ConcatRows, SMTT(30)
  <1>6. ASSUME NEW i \in 1 .. m + kv
        PROVE  (IF i <= m THEN ab[i] ELSE c[i - m]) =
                   (IF i <= q THEN a[i] ELSE IF i <= q + kv THEN b[i - q] ELSE c[i - q - kv])
    <2>1. i <= q => i <= m
      BY <1>4
    <2>2. i <= m => i \in 1 .. q + kv
      BY <1>4
    <2>3. i - m = i - q - kv
      BY <1>4
    <2> QED  BY <1>2, <1>4, <2>1, <2>2, <2>3
  <1>7. Stack(a, b, c, q, kv) =
            [i \in 1 .. m + kv |-> IF i <= q THEN a[i]
                                   ELSE IF i <= q + kv THEN b[i - q] ELSE c[i - q - kv]]
    BY <1>4 DEF Stack
  <1> QED  BY <1>1, <1>5, <1>6, <1>7

LEMMA BelowRows ==
    ASSUME NEW n \in Nat, NEW a, NEW b, IsRows(a, n), IsRows(b, n)
    PROVE  a \o b = Below(a, b, n)
  BY ConcatRows DEF Below

LEMMA FullTensors ==
    /\ FullTensor(EmbedName) = Matrix(EmbedName, Vocab, Hidden)
    /\ FullTensor(LMHeadName) = Matrix(LMHeadName, Vocab, Hidden)
    /\ FullTensor(AttnWeight("q_proj")) = Matrix(QName, NumHeads, Hidden)
    /\ FullTensor(AttnWeight("k_proj")) = Matrix(KName, NumKvHeads, Hidden)
    /\ FullTensor(AttnWeight("v_proj")) = Matrix(VName, NumKvHeads, Hidden)
    /\ FullTensor(AttnBias("q_proj")) = Column(AttnBias("q_proj"), NumHeads)
    /\ FullTensor(AttnBias("k_proj")) = Column(AttnBias("k_proj"), NumKvHeads)
    /\ FullTensor(AttnBias("v_proj")) = Column(AttnBias("v_proj"), NumKvHeads)
    /\ FullTensor(OName) = Matrix(OName, Hidden, NumHeads)
    /\ FullTensor(GateName) = Matrix(GateName, Intermediate, Hidden)
    /\ FullTensor(UpName) = Matrix(UpName, Intermediate, Hidden)
    /\ FullTensor(DownName) = Matrix(DownName, Hidden, Intermediate)
    /\ FullTensor(NormName) = Matrix(NormName, 1, Hidden)
  <1> USE NameTags, AttnNames
  <1>1. /\ FullTensor(EmbedName) = Matrix(EmbedName, Vocab, Hidden)
        /\ FullTensor(LMHeadName) = Matrix(LMHeadName, Vocab, Hidden)
    BY DEF FullTensor
  <1>2. FullTensor(AttnWeight("q_proj")) = Matrix(QName, NumHeads, Hidden)
    BY DEF FullTensor
  <1>3. /\ FullTensor(AttnWeight("k_proj")) = Matrix(KName, NumKvHeads, Hidden)
        /\ FullTensor(AttnWeight("v_proj")) = Matrix(VName, NumKvHeads, Hidden)
    BY DEF FullTensor
  <1>4. FullTensor(AttnBias("q_proj")) = Column(AttnBias("q_proj"), NumHeads)
    BY DEF FullTensor
  <1>5. /\ FullTensor(AttnBias("k_proj")) = Column(AttnBias("k_proj"), NumKvHeads)
        /\ FullTensor(AttnBias("v_proj")) = Column(AttnBias("v_proj"), NumKvHeads)
    BY DEF FullTensor
  <1>6. FullTensor(OName) = Matrix(OName, Hidden, NumHeads)
    BY DEF FullTensor
  <1>7. /\ FullTensor(GateName) = Matrix(GateName, Intermediate, Hidden)
        /\ FullTensor(UpName) = Matrix(UpName, Intermediate, Hidden)
    BY DEF FullTensor
  <1>8. /\ FullTensor(DownName) = Matrix(DownName, Hidden, Intermediate)
        /\ FullTensor(NormName) = Matrix(NormName, 1, Hidden)
    BY DEF FullTensor
  <1> QED  BY <1>1, <1>2, <1>3, <1>4, <1>5, <1>6, <1>7, <1>8

-----------------------------------------------------------------------------
(* Sizes *)

LEMMA ExactQuotient ==
    ASSUME NEW b \in Nat \ {0}, NEW d \in Int, NEW x \in Int, b * d <= x, x < b * d + b
    PROVE  x \div b = d
  <1>1. PICK e : e = x \div b
    OBVIOUS
  <1>2. e \in Int
    BY <1>1, Division
  <1>3. d <= e
    BY <1>1, Quotient
  <1>4. ~ (d + 1 <= e)
    <2>1. PICK f \in Int : f = d + 1
      OBVIOUS
    <2>2. b * f = b * d + b
      BY <2>1
    <2>3. b * f <= x <=> f <= e
      BY <1>1, Quotient
    <2>4. b * f \in Int /\ b * d \in Int
      OBVIOUS
    <2> QED  BY <2>1, <2>2, <2>3, <2>4
  <1> QED  BY <1>1, <1>2, <1>3, <1>4

Even(t) == \A size \in {NumHeads, NumKvHeads, Intermediate, Vocab} : size % t = 0

LEMMA EvenShare ==
    ASSUME NEW t \in Nat \ {0}, NEW n \in Nat \ {0}, n % t = 0
    PROVE  \E q \in Nat \ {0} : q = n \div t /\ n = t * q
  <1>1. PICK q : q = n \div t
    OBVIOUS
  <1>2. q \in Int /\ n = t * q + (n % t)
    BY <1>1, Division
  <1>3. n = t * q
    BY <1>2
  <1>4. q > 0
    <2>1. SUFFICES ASSUME q <= 0
                   PROVE  FALSE
      BY <1>2
    <2>2. t * q <= t * 0 /\ t * 0 = 0
      BY <1>2, <2>1, Multiples
    <2> QED  BY <1>3, <2>2
  <1> QED  BY <1>1, <1>2, <1>3, <1>4

LEMMA Sizes ==
    /\ Hidden \in Nat \ {0} /\ NumHeads \in Nat \ {0} /\ NumKvHeads \in Nat \ {0}
    /\ Intermediate \in Nat \ {0} /\ Vocab \in Nat \ {0}
  BY SizesAssumption

\* The shares of a rank, and of the two parameters that are stacked.
LEMMA Shares ==
    ASSUME NEW t \in Nat \ {0}, Even(t)
    PROVE  \E q, kv, m, v \in Nat \ {0} :
               /\ q = NumHeads \div t /\ NumHeads = t * q
               /\ kv = NumKvHeads \div t /\ NumKvHeads = t * kv
               /\ m = Intermediate \div t /\ Intermediate = t * m
               /\ v = Vocab \div t /\ Vocab = t * v
               /\ (NumHeads + 2 * NumKvHeads) \div t = q + kv + kv
               /\ (2 * Intermediate) \div t = m + m
  <1>a. /\ NumHeads % t = 0 /\ NumKvHeads % t = 0
        /\ Intermediate % t = 0 /\ Vocab % t = 0
    BY DEF Even
  <1>1. PICK q \in Nat \ {0} : q = NumHeads \div t /\ NumHeads = t * q
    <2>1. PICK n \in Nat \ {0} : n = NumHeads
      BY Sizes
    <2>2. n % t = 0
      BY <1>a, <2>1
    <2>3. \E x \in Nat \ {0} : x = n \div t /\ n = t * x
      BY <2>2, EvenShare
    <2> QED  BY <2>1, <2>3
  <1>2. PICK kv \in Nat \ {0} : kv = NumKvHeads \div t /\ NumKvHeads = t * kv
    <2>1. PICK n \in Nat \ {0} : n = NumKvHeads
      BY Sizes
    <2>2. n % t = 0
      BY <1>a, <2>1
    <2>3. \E x \in Nat \ {0} : x = n \div t /\ n = t * x
      BY <2>2, EvenShare
    <2> QED  BY <2>1, <2>3
  <1>3. PICK m \in Nat \ {0} : m = Intermediate \div t /\ Intermediate = t * m
    <2>1. PICK n \in Nat \ {0} : n = Intermediate
      BY Sizes
    <2>2. n % t = 0
      BY <1>a, <2>1
    <2>3. \E x \in Nat \ {0} : x = n \div t /\ n = t * x
      BY <2>2, EvenShare
    <2> QED  BY <2>1, <2>3
  <1>4. PICK v \in Nat \ {0} : v = Vocab \div t /\ Vocab = t * v
    <2>1. PICK n \in Nat \ {0} : n = Vocab
      BY Sizes
    <2>2. n % t = 0
      BY <1>a, <2>1
    <2>3. \E x \in Nat \ {0} : x = n \div t /\ n = t * x
      BY <2>2, EvenShare
    <2> QED  BY <2>1, <2>3
  <1>5. (NumHeads + 2 * NumKvHeads) \div t = q + kv + kv
    <2>1. PICK d, x \in Nat : d = q + kv + kv /\ x = NumHeads + 2 * NumKvHeads
      BY Sizes
    <2>2. t * d = t * q + 2 * (t * kv)
      BY <2>1
    <2>3. x = t * d
      BY <1>1, <1>2, <2>1, <2>2
    <2>4. x \div t = d
      BY <2>3, ExactQuotient
    <2> QED  BY <2>1, <2>4
  <1>6. (2 * Intermediate) \div t = m + m
    <2>1. PICK d, x \in Nat : d = m + m /\ x = 2 * Intermediate
      BY Sizes
    <2>2. t * d = 2 * (t * m)
      BY <2>1
    <2>3. x = t * d
      BY <1>3, <2>1, <2>2
    <2>4. x \div t = d
      BY <2>3, ExactQuotient
    <2> QED  BY <2>1, <2>4
  <1> QED  BY <1>1, <1>2, <1>3, <1>4, <1>5, <1>6

LEMMA AllEven == Even(1)
  <1>1. \A n \in Nat : n % 1 = 0
    OBVIOUS
  <1> QED  BY <1>1, SizesAssumption DEF Even

\* Groups of g query heads share one of k KV heads.
LEMMA HeadGroup ==
    ASSUME NEW k \in Nat \ {0}, NEW g \in Nat \ {0}, NEW d \in Nat, NEW e \in 0 .. g - 1
    PROVE  ((g * d + e) * k) \div (k * g) = d
  <1>1. PICK b \in Nat \ {0} : b = k * g
    <2>1. k * g \in Nat \ {0}
      OBVIOUS
    <2> QED  BY <2>1
  <1>2. (g * d + e) * k = b * d + e * k
    BY <1>1
  <1>3. e * k < b /\ e * k \in Nat
    <2>1. k * e + k <= k * g
      <3>1. e < g
        OBVIOUS
      <3> QED  BY <3>1, Multiples
    <2> QED  BY <1>1, <2>1
  <1>4. PICK x \in Int : x = (g * d + e) * k
    OBVIOUS
  <1>5. b * d \in Int /\ b * d <= x /\ x < b * d + b
    BY <1>2, <1>3, <1>4
  <1>6. x \div b = d
    BY <1>5, ExactQuotient
  <1> QED  BY <1>1, <1>4, <1>6

Splits(x, g, d, e) == e \in 0 .. g - 1 /\ x = g * d + e

LEMMA Split ==
    ASSUME NEW g \in Nat \ {0}, NEW x \in Nat
    PROVE  \E d, e \in Nat : Splits(x, g, d, e)
  <1>1. x \div g \in Int /\ x % g \in 0 .. g - 1 /\ x = g * (x \div g) + (x % g)
    BY Division
  <1>2. x \div g \in Nat
    BY Quotient
  <1>3. PICK d, e : d = x \div g /\ e = x % g
    OBVIOUS
  <1>4. d \in Nat /\ e \in Nat /\ Splits(x, g, d, e)
    BY <1>1, <1>2, <1>3 DEF Splits
  <1> QED  BY <1>4

\* Head d serves query head x of rank r, and its counterpart the one of the
\* whole model.
ServesHead(d, x, q, kv, r) ==
    /\ (x * kv) \div q = d
    /\ ((r * q + x) * NumKvHeads) \div NumHeads = r * kv + d

\* The KV head of a query head of a rank, counted from 0 in the rank and in
\* the whole model.
LEMMA KvHeadOfRank ==
    ASSUME NEW t \in Nat \ {0}, NEW q \in Nat \ {0}, NEW kv \in Nat \ {0},
           ShareOf(q, NumHeads, t), ShareOf(kv, NumKvHeads, t),
           NEW r \in 0 .. t - 1, NEW x \in 0 .. q - 1
    PROVE  \E d \in 0 .. kv - 1 : ServesHead(d, x, q, kv, r)
  <1>1. PICK n, k \in Nat \ {0} : /\ n = NumHeads /\ k = NumKvHeads
                                  /\ n = t * q /\ k = t * kv
    BY Sizes DEF ShareOf
  <1>2. PICK g \in Nat \ {0} : n = k * g
    <2>1. n % k = 0
      BY <1>1, SizesAssumption
    <2>2. \E g \in Nat \ {0} : g = n \div k /\ n = k * g
      BY <2>1, EvenShare
    <2> QED  BY <2>2
  <1>3. q = kv * g
    <2>1. t * q = t * (kv * g)
      <3>1. (t * kv) * g = t * (kv * g)
        OBVIOUS
      <3> QED  BY <1>1, <1>2, <3>1
    <2>2. PICK p \in Nat : p = kv * g
      OBVIOUS
    <2>3. q < p => t * q + t <= t * p
      BY Multiples
    <2>4. p < q => t * p + t <= t * q
      BY Multiples
    <2>5. t * q \in Nat /\ t * p \in Nat
      OBVIOUS
    <2> QED  BY <2>1, <2>2, <2>3, <2>4, <2>5
  <1>4. PICK d, e \in Nat : e \in 0 .. g - 1 /\ x = g * d + e
    <2>1. x \in Nat
      OBVIOUS
    <2>2. \E d, e \in Nat : Splits(x, g, d, e)
      BY <2>1, Split
    <2> QED  BY <2>2 DEF Splits
  <1>5. d \in 0 .. kv - 1
    <2>1. d \in Nat
      OBVIOUS
    <2>2. kv <= d => g * kv <= g * d
      BY <2>1, Multiples
    <2>3. g * kv = kv * g
      OBVIOUS
    <2>4. g * d \in Nat /\ g * kv \in Nat
      BY <2>1
    <2>5. g * d <= x
      BY <1>4, <2>4
    <2>6. x < q
      OBVIOUS
    <2> QED  BY <1>3, <2>1, <2>2, <2>3, <2>4, <2>5, <2>6
  <1>6. (x * kv) \div q = d
    <2>1. d \in Nat
      BY <1>5
    <2>2. ((g * d + e) * kv) \div (kv * g) = d
      BY <1>4, <2>1, HeadGroup
    <2> QED  BY <1>3, <1>4, <2>2
  <1>7. ((r * q + x) * k) \div n = r * kv + d
    <2>1. PICK f \in Nat : f = r * kv + d
      BY <1>5
    <2>2. ((g * f + e) * k) \div (k * g) = f
      BY <1>4, <2>1, HeadGroup
    <2>3. g * f + e = r * q + x
      <3>1. g * f = g * (r * kv) + g * d
        BY <1>5, <2>1
      <3>2. g * (r * kv) = r * (kv * g)
        OBVIOUS
      <3>3. r * (kv * g) = r * q
        BY <1>3
      <3>4. g * d \in Int /\ r * q \in Int
        BY <1>4
      <3> QED  BY <1>4, <3>1, <3>2, <3>3, <3>4
    <2> QED  BY <1>2, <2>1, <2>2, <2>3
  <1> QED  BY <1>1, <1>5, <1>6, <1>7 DEF ServesHead

-----------------------------------------------------------------------------
(* The parameters of the reference are the only shard of one rank *)

LEMMA ShardTensors ==
    ASSUME NEW t, NEW r
    PROVE  /\ ShardTensor(EmbedName, t, r) = RowSlice(FullTensor(EmbedName), Vocab \div t, r)
           /\ ShardTensor(LMHeadName, t, r) = RowSlice(FullTensor(LMHeadName), Vocab \div t, r)
           /\ ShardTensor(QkvWeightName, t, r) = QkvSlices(QName, KName, VName, t, r)
           /\ ShardTensor(QkvBiasName, t, r) =
                  QkvSlices(AttnBias("q_proj"), AttnBias("k_proj"), AttnBias("v_proj"), t, r)
           /\ ShardTensor(OName, t, r) = ColumnSlice(FullTensor(OName), Hidden, NumHeads \div t, r)
           /\ ShardTensor(GateUpName, t, r) =
                  Below(RowSlice(FullTensor(GateName), Intermediate \div t, r),
                        RowSlice(FullTensor(UpName), Intermediate \div t, r), Intermediate \div t)
           /\ ShardTensor(DownName, t, r) =
                  ColumnSlice(FullTensor(DownName), Hidden, Intermediate \div t, r)
           /\ ShardTensor(NormName, t, r) = FullTensor(NormName)
  <1> USE NameTags, AttnNames
  <1>1. /\ ShardTensor(EmbedName, t, r) = RowSlice(FullTensor(EmbedName), Vocab \div t, r)
        /\ ShardTensor(LMHeadName, t, r) = RowSlice(FullTensor(LMHeadName), Vocab \div t, r)
    BY DEF ShardTensor
  <1>2. /\ ShardTensor(QkvWeightName, t, r) = QkvSlices(QName, KName, VName, t, r)
        /\ ShardTensor(QkvBiasName, t, r) =
               QkvSlices(AttnBias("q_proj"), AttnBias("k_proj"), AttnBias("v_proj"), t, r)
    BY DEF ShardTensor
  <1>3. ShardTensor(OName, t, r) = ColumnSlice(FullTensor(OName), Hidden, NumHeads \div t, r)
    BY DEF ShardTensor
  <1>4. ShardTensor(GateUpName, t, r) =
            Below(RowSlice(FullTensor(GateName), Intermediate \div t, r),
                  RowSlice(FullTensor(UpName), Intermediate \div t, r), Intermediate \div t)
    BY DEF ShardTensor
  <1>5. /\ ShardTensor(DownName, t, r) =
                  ColumnSlice(FullTensor(DownName), Hidden, Intermediate \div t, r)
        /\ ShardTensor(NormName, t, r) = FullTensor(NormName)
    BY DEF ShardTensor
  <1> QED  BY <1>1, <1>2, <1>3, <1>4, <1>5

LEMMA TensorRows ==
    /\ IsRows(FullTensor(EmbedName), Vocab) /\ IsRows(FullTensor(LMHeadName), Vocab)
    /\ IsRows(FullTensor(AttnWeight("q_proj")), NumHeads)
    /\ IsRows(FullTensor(AttnWeight("k_proj")), NumKvHeads)
    /\ IsRows(FullTensor(AttnWeight("v_proj")), NumKvHeads)
    /\ IsRows(FullTensor(AttnBias("q_proj")), NumHeads)
    /\ IsRows(FullTensor(AttnBias("k_proj")), NumKvHeads)
    /\ IsRows(FullTensor(AttnBias("v_proj")), NumKvHeads)
    /\ IsRows(FullTensor(OName), Hidden) /\ IsRows(FullTensor(DownName), Hidden)
    /\ IsRows(FullTensor(GateName), Intermediate) /\ IsRows(FullTensor(UpName), Intermediate)
    /\ IsRows(FullTensor(NormName), 1)
    /\ \A i \in 1 .. Vocab : IsRows(FullTensor(EmbedName)[i], Hidden)
    /\ \A i \in 1 .. Hidden : IsRows(FullTensor(OName)[i], NumHeads)
    /\ \A i \in 1 .. Hidden : IsRows(FullTensor(DownName)[i], Intermediate)
  <1>1. ASSUME NEW name, NEW rows, NEW cols
        PROVE  /\ IsRows(Matrix(name, rows, cols), rows)
               /\ \A i \in 1 .. rows : IsRows(Matrix(name, rows, cols)[i], cols)
               /\ IsRows(Column(name, rows), rows)
    <2>1. IsRows(Matrix(name, rows, cols), rows) /\ IsRows(Column(name, rows), rows)
      BY DEF IsRows, Matrix, Column
    <2>2. ASSUME NEW i \in 1 .. rows
          PROVE  IsRows(Matrix(name, rows, cols)[i], cols)
      <3>1. Matrix(name, rows, cols)[i] = [j \in 1 .. cols |-> <<name, i, j>>]
        BY DEF Matrix
      <3> QED  BY <3>1 DEF IsRows
    <2> QED  BY <2>1, <2>2
  <1> QED  BY <1>1, FullTensors

LEMMA WholeSlice ==
    ASSUME NEW n \in Nat, NEW w, IsRows(w, n)
    PROVE  RowSlice(w, n, 0) = w
  <1>1. \A i \in 1 .. n : 0 * n + i = i
    OBVIOUS
  <1> QED  BY <1>1 DEF RowSlice, IsRows

LEMMA WholeColumns ==
    ASSUME NEW n \in Nat, NEW rows, NEW w, IsRows(w, rows), \A i \in 1 .. rows : IsRows(w[i], n)
    PROVE  ColumnSlice(w, rows, n, 0) = w
  <1>1. \A j \in 1 .. n : 0 * n + j = j
    OBVIOUS
  <1>2. ASSUME NEW i \in 1 .. rows
        PROVE  [j \in 1 .. n |-> w[i][0 * n + j]] = w[i]
    BY <1>1 DEF IsRows
  <1> QED  BY <1>2 DEF ColumnSlice, IsRows

LEMMA WholeTensors ==
    /\ \A name \in {EmbedName, LMHeadName, OName, DownName, NormName} :
           FullTensor(name) = ShardTensor(name, 1, 0)
    /\ CheckpointTensor(QkvWeightName) = ShardTensor(QkvWeightName, 1, 0)
    /\ CheckpointTensor(GateUpName) = ShardTensor(GateUpName, 1, 0)
    /\ FullTensor(AttnBias("q_proj")) \o FullTensor(AttnBias("k_proj"))
           \o FullTensor(AttnBias("v_proj")) = ShardTensor(QkvBiasName, 1, 0)
  <1>1. /\ NumHeads \div 1 = NumHeads /\ NumKvHeads \div 1 = NumKvHeads
        /\ Intermediate \div 1 = Intermediate /\ Vocab \div 1 = Vocab
    <2>1. \A n \in Nat : n \div 1 = n
      OBVIOUS
    <2> QED  BY <2>1, Sizes
  <1>2. ShardTensor(EmbedName, 1, 0) = FullTensor(EmbedName)
    BY <1>1, TensorRows, WholeSlice, ShardTensors, Sizes
  <1>3. ShardTensor(LMHeadName, 1, 0) = FullTensor(LMHeadName)
    BY <1>1, TensorRows, WholeSlice, ShardTensors, Sizes
  <1>4. ShardTensor(OName, 1, 0) = FullTensor(OName)
    BY <1>1, TensorRows, WholeColumns, ShardTensors, Sizes
  <1>5. ShardTensor(DownName, 1, 0) = FullTensor(DownName)
    BY <1>1, TensorRows, WholeColumns, ShardTensors, Sizes
  <1>6. ShardTensor(NormName, 1, 0) = FullTensor(NormName)
    BY ShardTensors
  <1>7. CheckpointTensor(QkvWeightName) = ShardTensor(QkvWeightName, 1, 0)
    <2>1. CheckpointTensor(QkvWeightName) = FullTensor(QName) \o FullTensor(KName) \o FullTensor(VName)
      BY NameTags, AttnNames DEF CheckpointTensor
    <2>2. ShardTensor(QkvWeightName, 1, 0) =
              Stack(FullTensor(QName), FullTensor(KName), FullTensor(VName), NumHeads, NumKvHeads)
      BY <1>1, TensorRows, AttnNames, WholeSlice, ShardTensors, Sizes DEF QkvSlices
    <2>3. PICK a, b, c : a = FullTensor(QName) /\ b = FullTensor(KName) /\ c = FullTensor(VName)
      OBVIOUS
    <2>4. PICK n, k \in Nat : n = NumHeads /\ k = NumKvHeads
      BY Sizes
    <2>5. IsRows(a, n) /\ IsRows(b, k) /\ IsRows(c, k)
      BY <2>3, <2>4, TensorRows, AttnNames
    <2>6. a \o b \o c = Stack(a, b, c, n, k)
      BY <2>5, StackedRows
    <2> QED  BY <2>1, <2>2, <2>3, <2>4, <2>6
  <1>8. FullTensor(AttnBias("q_proj")) \o FullTensor(AttnBias("k_proj"))
            \o FullTensor(AttnBias("v_proj")) = ShardTensor(QkvBiasName, 1, 0)
    <2>2. ShardTensor(QkvBiasName, 1, 0) =
              Stack(FullTensor(AttnBias("q_proj")), FullTensor(AttnBias("k_proj")),
                    FullTensor(AttnBias("v_proj")), NumHeads, NumKvHeads)
      BY <1>1, TensorRows, WholeSlice, ShardTensors, Sizes DEF QkvSlices
    <2>3. PICK a, b, c : /\ a = FullTensor(AttnBias("q_proj"))
                         /\ b = FullTensor(AttnBias("k_proj"))
                         /\ c = FullTensor(AttnBias("v_proj"))
      OBVIOUS
    <2>4. PICK n, k \in Nat : n = NumHeads /\ k = NumKvHeads
      BY Sizes
    <2>5. IsRows(a, n) /\ IsRows(b, k) /\ IsRows(c, k)
      BY <2>3, <2>4, TensorRows
    <2>6. a \o b \o c = Stack(a, b, c, n, k)
      BY <2>5, StackedRows
    <2> QED  BY <2>2, <2>3, <2>4, <2>6
  <1>9. CheckpointTensor(GateUpName) = ShardTensor(GateUpName, 1, 0)
    <2>1. CheckpointTensor(GateUpName) = FullTensor(GateName) \o FullTensor(UpName)
      BY NameTags, AttnNames DEF CheckpointTensor
    <2>2. ShardTensor(GateUpName, 1, 0) =
              Below(FullTensor(GateName), FullTensor(UpName), Intermediate)
      BY <1>1, TensorRows, WholeSlice, ShardTensors, Sizes
    <2> QED  BY <2>1, <2>2, TensorRows, BelowRows, Sizes
  <1> QED  BY <1>2, <1>3, <1>4, <1>5, <1>6, <1>7, <1>8, <1>9

LEMMA BiasIsStacked ==
    ASSUME NEW c, QkvBiasName \in ParameterNames(c)
    PROVE  FullParameters(c)[QkvBiasName] =
               FullTensor(AttnBias("q_proj")) \o FullTensor(AttnBias("k_proj"))
                   \o FullTensor(AttnBias("v_proj"))
  <1>1. QkvBiasName \in DOMAIN FullParameters(c)
    BY DEF FullParameters, ParameterNames
  <1>2. FullParameters(c)[QkvBiasName] =
            FullTensor(Bias(Attn("q_proj"))) \o FullTensor(Bias(Attn("k_proj")))
                \o FullTensor(Bias(Attn("v_proj")))
    <2>1. QkvBiasName # LMHeadName
      BY NameTags, AttnNames
    <2> QED  BY <1>1, <2>1 DEF FullParameters
  <1> QED  BY <1>2 DEF AttnBias

LEMMA ReferenceIsShard ==
    ASSUME NEW c
    PROVE  IsShard(FullParameters(c), c, 1, 0)
  <1> USE NameTags, AttnNames
  <1>1. DOMAIN FullParameters(c) = ParameterNames(c)
    BY DEF FullParameters, ParameterNames
  <1>2. FullParameters(c)[EmbedName] = FullTensor(EmbedName)
    BY <1>1 DEF FullParameters, ParameterNames
  <1>3. FullParameters(c)[OName] = FullTensor(OName)
    BY <1>1 DEF FullParameters, ParameterNames
  <1>4. FullParameters(c)[NormName] = FullTensor(NormName)
    BY <1>1 DEF FullParameters, ParameterNames
  <1>5. FullParameters(c)[DownName] = FullTensor(DownName)
    BY <1>1 DEF FullParameters, ParameterNames
  <1>6. FullParameters(c)[LMHeadName] = FullTensor(IF c.tie THEN EmbedName ELSE LMHeadName)
    BY <1>1 DEF FullParameters, ParameterNames
  <1>7. FullParameters(c)[QkvWeightName] = CheckpointTensor(QkvWeightName)
    BY <1>1 DEF FullParameters, ParameterNames
  <1>8. FullParameters(c)[GateUpName] = CheckpointTensor(GateUpName)
    BY <1>1 DEF FullParameters, ParameterNames
  <1>9. QkvBiasName \in ParameterNames(c) =>
            FullParameters(c)[QkvBiasName] =
                FullTensor(AttnBias("q_proj")) \o FullTensor(AttnBias("k_proj"))
                    \o FullTensor(AttnBias("v_proj"))
    BY BiasIsStacked
  <1> QED  BY <1>1, <1>2, <1>3, <1>4, <1>5, <1>6, <1>7, <1>8, <1>9, WholeTensors, SMTT(60)
              DEF IsShard, ParameterNames

-----------------------------------------------------------------------------
(* What a shard computes *)

LEMMA SliceRange ==
    ASSUME NEW t \in Nat \ {0}, NEW n \in Nat \ {0}, NEW r \in 0 .. t - 1
    PROVE  r * n \in Nat /\ r * n + n <= t * n
  <1>1. n * r + n <= n * t
    <2>1. r \in Int /\ t \in Int /\ r < t
      OBVIOUS
    <2> QED  BY <2>1, Multiples
  <1>2. n * r = r * n /\ n * t = t * n /\ r * n \in Nat
    OBVIOUS
  <1> QED  BY <1>1, <1>2

\* The products of a weight W with an input A.
ProductTerms(W, A, H, N) == [i \in 1 .. H |-> [k \in 1 .. N |-> <<W[i][k], A[k]>>]]

LEMMA ShardProducts ==
    ASSUME NEW t \in Nat \ {0}, NEW n \in Nat \ {0}, NEW r \in 0 .. t - 1,
           NEW W, NEW A, NEW H, NEW N, N = t * n
    PROVE  PartialProducts(RowSlice(A, n, r), ColumnSlice(W, H, n, r)) =
               RowBags(ProductTerms(W, A, H, N), H, r * n + 1 .. r * n + n)
  <1>1. PICK o : o = r * n /\ o \in Nat /\ o + n <= N
    BY SliceRange
  <1> DEFINE input == [j \in 1 .. n |-> A[o + j]]
             weight == [i \in 1 .. H |-> [j \in 1 .. n |-> W[i][o + j]]]
  <1>2. RowSlice(A, n, r) = input /\ ColumnSlice(W, H, n, r) = weight
    BY <1>1 DEF RowSlice, ColumnSlice
  <1>3. DOMAIN input = 1 .. n /\ DOMAIN weight = 1 .. H
    OBVIOUS
  <1>4. ASSUME NEW i \in 1 .. H
        PROVE  [x \in { <<weight[i][c], input[c]>> : c \in 1 .. n } |->
                   Cardinality({ c \in 1 .. n : <<weight[i][c], input[c]>> = x })]
                   = BagOf(ProductTerms(W, A, H, N)[i], o + 1 .. o + n)
    <2>1. PICK g : g = [c \in 1 .. n |-> <<weight[i][c], input[c]>>]
      OBVIOUS
    <2>2. PICK f : f = [k \in 1 .. N |-> <<W[i][k], A[k]>>]
      OBVIOUS
    <2>3. \A c \in 1 .. n : g[c] = f[o + c]
      <3> TAKE c \in 1 .. n
      <3>1. o + c \in 1 .. N
        BY <1>1
      <3>2. weight[i][c] = W[i][o + c] /\ input[c] = A[o + c]
        OBVIOUS
      <3> HIDE DEF weight, input
      <3> QED  BY <2>1, <2>2, <3>1, <3>2
    <2>4. BagOf(g, 1 .. n) = BagOf(f, o + 1 .. o + n)
      BY <1>1, <2>3, BagOfSlice
    <2>5. ProductTerms(W, A, H, N)[i] = f
      BY <2>2 DEF ProductTerms
    <2>6. [x \in { <<weight[i][c], input[c]>> : c \in 1 .. n } |->
                   Cardinality({ c \in 1 .. n : <<weight[i][c], input[c]>> = x })]
              = BagOf(g, 1 .. n)
      <3>1. \A c \in 1 .. n : g[c] = <<weight[i][c], input[c]>>
        <4> HIDE DEF weight, input
        <4> QED  BY <2>1
      <3>2. { <<weight[i][c], input[c]>> : c \in 1 .. n } = { g[c] : c \in 1 .. n }
        <4> HIDE DEF weight, input
        <4> QED  BY <3>1
      <3>3. ASSUME NEW x
            PROVE  { c \in 1 .. n : <<weight[i][c], input[c]>> = x } = { c \in 1 .. n : g[c] = x }
        <4> HIDE DEF weight, input
        <4> QED  BY <3>1
      <3> HIDE DEF weight, input
      <3> QED  BY <3>2, <3>3 DEF BagOf
    <2> QED  BY <2>4, <2>5, <2>6
  <1>5. PartialProducts(input, weight) =
            [i \in 1 .. H |-> [x \in { <<weight[i][c], input[c]>> : c \in 1 .. n } |->
                   Cardinality({ c \in 1 .. n : <<weight[i][c], input[c]>> = x })]]
    <2> HIDE DEF input, weight
    <2> QED  BY <1>3 DEF PartialProducts
  <1> HIDE DEF input, weight
  <1>6. PartialProducts(input, weight) =
            [i \in 1 .. H |-> BagOf(ProductTerms(W, A, H, N)[i], o + 1 .. o + n)]
    BY <1>4, <1>5
  <1> QED  BY <1>1, <1>2, <1>6 DEF RowBags

\* An output of a linear layer whose whole product one rank computes.
Dot(w, x, b) == <<"dot", w, x, b>>

\* The query heads and the gated channels of the whole model.
KvHead(g) == ((g - 1) * NumKvHeads) \div NumHeads + 1

QkvDot(c, x, leaf, i) ==
    Dot(FullTensor(AttnWeight(leaf))[i], x,
        IF c.qkv_bias THEN FullTensor(AttnBias(leaf))[i] ELSE << >>)

Heads(c, x) ==
    [g \in 1 .. NumHeads |->
        <<"attn", QkvDot(c, x, "q_proj", g), QkvDot(c, x, "k_proj", KvHead(g)),
          QkvDot(c, x, "v_proj", KvHead(g))>>]

Channels(x) ==
    [g \in 1 .. Intermediate |->
        <<"silu_mul", Dot(FullTensor(GateName)[g], x, << >>), Dot(FullTensor(UpName)[g], x, << >>)>>]

Logits(c, x) ==
    [i \in 1 .. Vocab |->
        Dot(FullTensor(IF c.tie THEN EmbedName ELSE LMHeadName)[i], x, << >>)]

\* The summands of the outputs of a stage, and those of a rank of t.
StageTerms(c, s, x) ==
    CASE s = 1 -> [j \in 1 .. Hidden |-> [k \in 1 .. Vocab |-> FullTensor(EmbedName)[k][j]]]
      [] s = 2 -> ProductTerms(FullTensor(OName), Heads(c, x), Hidden, NumHeads)
      [] s = 3 -> ProductTerms(FullTensor(DownName), Channels(x), Hidden, Intermediate)

StageColumns(s, tok, t, r) ==
    LET q == NumHeads \div t
        m == Intermediate \div t
        v == Vocab \div t
    IN  CASE s = 1 -> {tok + 1} \cap (r * v + 1 .. r * v + v)
          [] s = 2 -> r * q + 1 .. r * q + q
          [] s = 3 -> r * m + 1 .. r * m + m

LEMMA StackEntries ==
    ASSUME NEW q \in Nat, NEW kv \in Nat, NEW a, NEW b, NEW c, NEW w, w = Stack(a, b, c, q, kv)
    PROVE  /\ DOMAIN w = 1 .. q + kv + kv
           /\ \A i \in 1 .. q : w[i] = a[i]
           /\ \A j \in 1 .. kv : w[q + j] = b[j] /\ w[q + kv + j] = c[j]
  <1>1. DOMAIN w = 1 .. q + kv + kv
    BY DEF Stack
  <1>2. ASSUME NEW i \in 1 .. q
        PROVE  w[i] = a[i]
    <2>1. i \in 1 .. q + kv + kv /\ i <= q
      OBVIOUS
    <2> QED  BY <2>1 DEF Stack
  <1>3. ASSUME NEW j \in 1 .. kv
        PROVE  w[q + j] = b[j] /\ w[q + kv + j] = c[j]
    <2>1. PICK x, y \in Int : x = q + j /\ y = q + kv + j
      OBVIOUS
    <2>2. /\ x \in 1 .. q + kv + kv /\ ~ (x <= q) /\ x <= q + kv /\ x - q = j
          /\ y \in 1 .. q + kv + kv /\ ~ (y <= q) /\ ~ (y <= q + kv) /\ y - q - kv = j
      BY <2>1
    <2>3. w[x] = b[x - q] /\ w[y] = c[y - q - kv]
      BY <2>2 DEF Stack
    <2> QED  BY <2>1, <2>2, <2>3
  <1> QED  BY <1>1, <1>2, <1>3

HasSlices(w, a, b, c, q, kv, r) ==
    /\ DOMAIN w = 1 .. q + kv + kv
    /\ \A i \in 1 .. q : w[i] = FullTensor(a)[r * q + i]
    /\ \A j \in 1 .. kv : /\ w[q + j] = FullTensor(b)[r * kv + j]
                          /\ w[q + kv + j] = FullTensor(c)[r * kv + j]

\* What the rank has of Q, K and V, weights and biases, is theirs in the model.
LEMMA QkvEntries ==
    ASSUME NEW t \in Nat \ {0}, NEW r \in 0 .. t - 1, NEW a, NEW b, NEW c,
           NEW q \in Nat \ {0}, NEW kv \in Nat \ {0}, ShareOf(q, NumHeads, t),
           ShareOf(kv, NumKvHeads, t),
           NEW w, w = QkvSlices(a, b, c, t, r)
    PROVE  HasSlices(w, a, b, c, q, kv, r)
  <1>1. PICK x, y, z : /\ x = RowSlice(FullTensor(a), q, r)
                       /\ y = RowSlice(FullTensor(b), kv, r)
                       /\ z = RowSlice(FullTensor(c), kv, r)
    OBVIOUS
  <1>2. w = Stack(x, y, z, q, kv)
    BY <1>1 DEF QkvSlices, ShareOf
  <1>3. /\ \A i \in 1 .. q : x[i] = FullTensor(a)[r * q + i]
        /\ \A j \in 1 .. kv : y[j] = FullTensor(b)[r * kv + j] /\ z[j] = FullTensor(c)[r * kv + j]
    BY <1>1 DEF RowSlice
  <1>4. /\ DOMAIN w = 1 .. q + kv + kv
        /\ \A i \in 1 .. q : w[i] = x[i]
        /\ \A j \in 1 .. kv : w[q + j] = y[j] /\ w[q + kv + j] = z[j]
    BY <1>2, StackEntries
  <1> QED  BY <1>3, <1>4 DEF HasSlices

LEMMA ShardHeads ==
    ASSUME NEW t \in Nat \ {0}, Even(t), NEW r \in 0 .. t - 1, NEW c, c.qkv_bias \in BOOLEAN,
           NEW p, IsShard(p, c, t, r), NEW x
    PROVE  AttentionHeads(p, x, t) = RowSlice(Heads(c, x), NumHeads \div t, r)
  <1>1. PICK q, kv \in Nat \ {0} : /\ q = NumHeads \div t /\ NumHeads = t * q
                                   /\ kv = NumKvHeads \div t /\ NumKvHeads = t * kv
    BY Shares
  <1>a. ShareOf(q, NumHeads, t) /\ ShareOf(kv, NumKvHeads, t)
    BY <1>1 DEF ShareOf
  <1>2. PICK w, b : /\ w = p[QkvWeightName]
                    /\ b = IF QkvBiasName \in DOMAIN p THEN p[QkvBiasName] ELSE << >>
    OBVIOUS
  <1>3. w = QkvSlices(QName, KName, VName, t, r)
    <2>1. QkvWeightName # LMHeadName
      BY NameTags, AttnNames
    <2> QED  BY <1>2, <2>1, ShardTensors DEF IsShard, ParameterNames
  <1>4. /\ DOMAIN w = 1 .. q + kv + kv
        /\ \A i \in 1 .. q : w[i] = FullTensor(QName)[r * q + i]
        /\ \A j \in 1 .. kv : /\ w[q + j] = FullTensor(KName)[r * kv + j]
                              /\ w[q + kv + j] = FullTensor(VName)[r * kv + j]
    <2>1. PICK n1, n2, n3 : n1 = QName /\ n2 = KName /\ n3 = VName
      OBVIOUS
    <2>2. w = QkvSlices(n1, n2, n3, t, r)
      BY <1>3, <2>1
    <2>3. HasSlices(w, n1, n2, n3, q, kv, r)
      BY <1>a, <2>2, QkvEntries
    <2> QED  BY <2>1, <2>3 DEF HasSlices
  <1>5. QkvBiasName \in DOMAIN p <=> c.qkv_bias
    BY NameTags, AttnNames DEF IsShard, ParameterNames
  <1>6. ASSUME c.qkv_bias
        PROVE  /\ b # << >>
               /\ \A i \in 1 .. q : b[i] = FullTensor(AttnBias("q_proj"))[r * q + i]
               /\ \A j \in 1 .. kv : /\ b[q + j] = FullTensor(AttnBias("k_proj"))[r * kv + j]
                                     /\ b[q + kv + j] = FullTensor(AttnBias("v_proj"))[r * kv + j]
    <2>1. QkvBiasName # LMHeadName
      BY NameTags, AttnNames
    <2>2. b = QkvSlices(AttnBias("q_proj"), AttnBias("k_proj"), AttnBias("v_proj"), t, r)
      BY <1>2, <1>5, <1>6, <2>1, ShardTensors DEF IsShard
    <2>3. PICK n1, n2, n3 : /\ n1 = AttnBias("q_proj") /\ n2 = AttnBias("k_proj")
                            /\ n3 = AttnBias("v_proj")
      OBVIOUS
    <2>4. HasSlices(b, n1, n2, n3, q, kv, r)
      <3>1. b = QkvSlices(n1, n2, n3, t, r)
        BY <2>2, <2>3
      <3> QED  BY <1>a, <3>1, QkvEntries
    <2>5. 1 \in DOMAIN b /\ 1 \notin DOMAIN << >>
      BY <2>4 DEF HasSlices
    <2> QED  BY <2>3, <2>4, <2>5 DEF HasSlices
  <1>7. ASSUME ~ c.qkv_bias
        PROVE  b = << >>
    BY <1>2, <1>5, <1>7
  <1> DEFINE bias(i) == IF b = << >> THEN << >> ELSE b[i]
             qkv == linear_forward(x, w, b)
             kvh(h) == ((h - 1) * kv) \div q + 1
  <1>8. qkv = [i \in 1 .. q + kv + kv |-> Dot(w[i], x, bias(i))]
    BY <1>4 DEF linear_forward, Dot
  <1>9. AttentionHeads(p, x, t) =
            [h \in 1 .. q |-> <<"attn", qkv[h], qkv[q + kvh(h)], qkv[q + kv + kvh(h)]>>]
    <2> HIDE DEF qkv
    <2>1. qkv = linear_forward(x, p[QkvWeightName],
                               IF QkvBiasName \in DOMAIN p THEN p[QkvBiasName] ELSE << >>)
      BY <1>2 DEF qkv
    <2> QED  BY <1>1, <2>1 DEF AttentionHeads, kv_head_for_query_head
  <1>10. ASSUME NEW h \in 1 .. q
         PROVE  <<"attn", qkv[h], qkv[q + kvh(h)], qkv[q + kv + kvh(h)]>> = Heads(c, x)[r * q + h]
    <2>1. PICK y \in 0 .. q - 1 : y = h - 1
      OBVIOUS
    <2>2. PICK d \in 0 .. kv - 1 : ServesHead(d, y, q, kv, r)
      BY <1>a, KvHeadOfRank
    <2>3. PICK g \in 1 .. NumHeads : g = r * q + h /\ g - 1 = r * q + y
      <3>1. r * q \in Nat /\ r * q + q <= t * q
        BY <1>1, SliceRange
      <3> QED  BY <1>1, <2>1, <3>1, Sizes
    <2>4. PICK j \in 1 .. kv : j = d + 1 /\ kvh(h) = j /\ KvHead(g) = r * kv + j
      <3>1. PICK j \in 1 .. kv : j = d + 1
        BY <2>2
      <3>2. kvh(h) = j
        BY <2>1, <2>2, <3>1 DEF ServesHead
      <3>3. KvHead(g) = r * kv + j
        <4>1. KvHead(g) = (r * kv + d) + 1
          BY <2>2, <2>3 DEF KvHead, ServesHead
        <4> QED  BY <2>2, <3>1, <4>1
      <3> QED  BY <3>1, <3>2, <3>3
    <2>5. /\ h \in 1 .. q + kv + kv /\ q + j \in 1 .. q + kv + kv
          /\ q + kv + j \in 1 .. q + kv + kv
      OBVIOUS
    <2>6. /\ qkv[h] = Dot(w[h], x, bias(h)) /\ qkv[q + j] = Dot(w[q + j], x, bias(q + j))
          /\ qkv[q + kv + j] = Dot(w[q + kv + j], x, bias(q + kv + j))
      <3> HIDE DEF bias, qkv
      <3> QED  BY <1>8, <2>5
    <2>7. Dot(w[h], x, bias(h)) = QkvDot(c, x, "q_proj", g)
      BY <1>4, <1>6, <1>7, <2>3, AttnNames DEF QkvDot
    <2>8. Dot(w[q + j], x, bias(q + j)) = QkvDot(c, x, "k_proj", KvHead(g))
      BY <1>4, <1>6, <1>7, <2>4, AttnNames DEF QkvDot
    <2>9. Dot(w[q + kv + j], x, bias(q + kv + j)) = QkvDot(c, x, "v_proj", KvHead(g))
      BY <1>4, <1>6, <1>7, <2>4, AttnNames DEF QkvDot
    <2>10. Heads(c, x)[g] = <<"attn", QkvDot(c, x, "q_proj", g), QkvDot(c, x, "k_proj", KvHead(g)),
                              QkvDot(c, x, "v_proj", KvHead(g))>>
      BY DEF Heads
    <2> HIDE DEF qkv, bias, kvh
    <2> QED  BY <2>3, <2>4, <2>6, <2>7, <2>8, <2>9, <2>10
  <1> HIDE DEF qkv, kvh
  <1>11. AttentionHeads(p, x, t) = [h \in 1 .. q |-> Heads(c, x)[r * q + h]]
    BY <1>9, <1>10
  <1> QED  BY <1>1, <1>11 DEF RowSlice

LEMMA ShardChannels ==
    ASSUME NEW t \in Nat \ {0}, Even(t), NEW r \in 0 .. t - 1, NEW c,
           NEW p, IsShard(p, c, t, r), NEW x
    PROVE  silu_and_mul(linear_forward(x, p[GateUpName], << >>)) =
               RowSlice(Channels(x), Intermediate \div t, r)
  <1>1. PICK m \in Nat \ {0} : m = Intermediate \div t /\ Intermediate = t * m
    BY Shares
  <1>2. PICK w, a, b : /\ w = p[GateUpName] /\ a = RowSlice(FullTensor(GateName), m, r)
                       /\ b = RowSlice(FullTensor(UpName), m, r)
    OBVIOUS
  <1>3. w = Below(a, b, m)
    <2>1. GateUpName # LMHeadName
      BY NameTags
    <2>2. m = Intermediate \div t
      BY <1>1
    <2> QED  BY <1>2, <2>1, <2>2, ShardTensors DEF IsShard, ParameterNames
  <1>4. /\ \A i \in 1 .. m : a[i] = FullTensor(GateName)[r * m + i]
        /\ \A i \in 1 .. m : b[i] = FullTensor(UpName)[r * m + i]
    BY <1>2 DEF RowSlice
  <1>5. w = [i \in 1 .. m + m |-> IF i <= m THEN a[i] ELSE b[i - m]]
    BY <1>3 DEF Below
  <1>6. PICK gu : gu = linear_forward(x, w, << >>)
    OBVIOUS
  <1>7. gu = [i \in 1 .. m + m |-> Dot(w[i], x, << >>)]
    <2>1. DOMAIN w = 1 .. m + m
      BY <1>5
    <2> QED  BY <1>6, <2>1 DEF linear_forward, Dot
  <1>8. Len(gu) \div 2 = m
    <2>1. Len(gu) = m + m
      BY <1>7
    <2>2. (m + m) \div 2 = m
      OBVIOUS
    <2> QED  BY <2>1, <2>2
  <1>9. silu_and_mul(gu) = [j \in 1 .. m |-> <<"silu_mul", gu[j], gu[m + j]>>]
    BY <1>8 DEF silu_and_mul
  <1>10. ASSUME NEW j \in 1 .. m
         PROVE  <<"silu_mul", gu[j], gu[m + j]>> = Channels(x)[r * m + j]
    <2>1. gu[j] = Dot(FullTensor(GateName)[r * m + j], x, << >>)
      <3>1. j \in 1 .. m + m /\ j <= m
        OBVIOUS
      <3>2. w[j] = a[j]
        BY <1>5, <3>1
      <3> QED  BY <1>4, <1>7, <3>1, <3>2
    <2>2. gu[m + j] = Dot(FullTensor(UpName)[r * m + j], x, << >>)
      <3>1. PICK k \in 1 .. m + m : k = m + j /\ ~ (k <= m) /\ k - m = j
        OBVIOUS
      <3>2. w[k] = b[j]
        BY <1>5, <3>1
      <3> QED  BY <1>4, <1>7, <3>1, <3>2
    <2>3. r * m + j \in 1 .. Intermediate
      <3>1. r * m \in Nat /\ r * m + m <= t * m
        BY SliceRange
      <3> QED  BY <1>1, <3>1, Sizes
    <2> QED  BY <2>1, <2>2, <2>3 DEF Channels
  <1>11. silu_and_mul(gu) = RowSlice(Channels(x), m, r)
    BY <1>9, <1>10 DEF RowSlice
  <1> QED  BY <1>1, <1>2, <1>6, <1>11

LEMMA ShardEmbedding ==
    ASSUME NEW t \in Nat \ {0}, Even(t), NEW r \in 0 .. t - 1, NEW c,
           NEW p, IsShard(p, c, t, r), NEW tok \in Tokens, NEW x
    PROVE  EmbeddingForward(p[EmbedName], tok, Vocab, t, r) =
               RowBags(StageTerms(c, 1, x), Hidden, StageColumns(1, tok, t, r))
  <1>1. PICK v \in Nat \ {0} : v = Vocab \div t /\ Vocab = t * v
    BY Shares
  <1>2. PICK w, E : w = p[EmbedName] /\ E = FullTensor(EmbedName)
    OBVIOUS
  <1>3. PICK o \in Nat : o = r * v /\ o + v <= Vocab /\ v * r = o
    <2>1. r * v \in Nat /\ r * v + v <= t * v
      BY SliceRange
    <2>2. v * r = r * v
      OBVIOUS
    <2> QED  BY <1>1, <2>1, <2>2
  <1>4. w = [i \in 1 .. v |-> E[o + i]]
    <2>1. EmbedName # LMHeadName
      BY NameTags
    <2>2. w = RowSlice(E, v, r)
      <3>1. v = Vocab \div t
        BY <1>1
      <3> QED  BY <1>2, <2>1, <3>1, ShardTensors DEF IsShard, ParameterNames
    <2> QED  BY <1>3, <2>2 DEF RowSlice
  <1>5. DOMAIN w[1] = 1 .. Hidden
    <2>1. 1 \in 1 .. v /\ o + 1 \in 1 .. Vocab
      BY <1>3, Sizes
    <2>2. w[1] = E[o + 1]
      BY <1>4, <2>1
    <2>3. IsRows(E[o + 1], Hidden)
      BY <1>2, <2>1, TensorRows
    <2> QED  BY <2>2, <2>3, RowsLength, Sizes
  <1>6. PICK F : F = [j \in 1 .. Hidden |-> [k \in 1 .. Vocab |-> E[k][j]]]
    OBVIOUS
  <1>7. StageTerms(c, 1, x) = F
    BY <1>2, <1>6 DEF StageTerms
  <1>8. PICK C : C = {tok + 1} \cap (o + 1 .. o + v)
    OBVIOUS
  <1>9. StageColumns(1, tok, t, r) = C
    <2>1. o = r * (Vocab \div t) /\ v = Vocab \div t
      BY <1>1, <1>3
    <2> QED  BY <1>8, <2>1 DEF StageColumns
  <1>10. tok \in Nat /\ tok + 1 \in 1 .. Vocab
    BY Sizes DEF Tokens
  <1>11. EmbeddingForward(w, tok, Vocab, t, r) =
             [j \in 1 .. Hidden |->
                 IF tok \in o .. o + v - 1 THEN SetToBag({w[tok - o + 1][j]}) ELSE EmptyBag]
    <2>1. v = Vocab \div t
      BY <1>1
    <2> QED  BY <1>3, <1>5, <2>1 DEF EmbeddingForward
  <1>12. ASSUME NEW j \in 1 .. Hidden
         PROVE  (IF tok \in o .. o + v - 1 THEN SetToBag({w[tok - o + 1][j]}) ELSE EmptyBag)
                    = BagOf(F[j], C)
    <2>1. CASE tok \in o .. o + v - 1
      <3>1. tok - o + 1 \in 1 .. v /\ o + (tok - o + 1) = tok + 1
        BY <1>10, <2>1
      <3>2. w[tok - o + 1] = E[tok + 1]
        BY <1>4, <3>1
      <3>3. C = {tok + 1}
        BY <1>8, <1>10, <2>1
      <3>4. F[j][tok + 1] = E[tok + 1][j]
        BY <1>6, <1>10
      <3>5. BagOf(F[j], {tok + 1}) = SetToBag({F[j][tok + 1]})
        BY BagOfOne
      <3> QED  BY <2>1, <3>2, <3>3, <3>4, <3>5
    <2>2. CASE tok \notin o .. o + v - 1
      <3>1. C = {}
        BY <1>8, <1>10, <2>2
      <3> QED  BY <2>2, <3>1, BagOfNothing
    <2> QED  BY <2>1, <2>2
  <1>13. EmbeddingForward(w, tok, Vocab, t, r) = RowBags(F, Hidden, C)
    BY <1>11, <1>12 DEF RowBags
  <1> QED  BY <1>2, <1>7, <1>9, <1>13

\* The input of a stage after the norm, whose weight every rank has.
NormedInput(s, x, res) ==
    IF s = 1 THEN [output |-> << >>, residual |-> << >>]
    ELSE add_rms_norm(x, res, FullTensor(NormName))

LEMMA NormShared ==
    ASSUME NEW t, NEW r, NEW c, NEW p, IsShard(p, c, t, r), NEW s, NEW x, NEW res
    PROVE  Normed(p, s, x, res) = NormedInput(s, x, res)
  <1>1. NormName # LMHeadName
    BY NameTags
  <1>2. p[NormName] = FullTensor(NormName)
    BY <1>1, ShardTensors DEF IsShard, ParameterNames
  <1> QED  BY <1>2 DEF Normed, NormedInput

\* The part of a rank in a stage that ends with a sum.
LEMMA LocalShare ==
    ASSUME NEW t \in Nat \ {0}, Even(t), NEW r \in 0 .. t - 1, NEW c, c.qkv_bias \in BOOLEAN,
           NEW p, IsShard(p, c, t, r), NEW s \in 1 .. 3, NEW x, NEW res, NEW tok \in Tokens
    PROVE  LocalForward(p, s, x, res, tok, t, r) =
               RowBags(StageTerms(c, s, NormedInput(s, x, res).output), Hidden,
                       StageColumns(s, tok, t, r))
  <1>1. PICK y : y = NormedInput(s, x, res).output /\ y = Normed(p, s, x, res).output
    BY NormShared
  <1>2. PICK q, m \in Nat \ {0} : /\ q = NumHeads \div t /\ NumHeads = t * q
                                  /\ m = Intermediate \div t /\ Intermediate = t * m
    BY Shares
  <1>3. CASE s = 1
    <2>1. LocalForward(p, 1, x, res, tok, t, r) = EmbeddingForward(p[EmbedName], tok, Vocab, t, r)
      BY DEF LocalForward
    <2> QED  BY <1>1, <1>3, <2>1, ShardEmbedding
  <1>4. CASE s = 2
    <2>1. LocalForward(p, 2, x, res, tok, t, r) =
              PartialProducts(AttentionHeads(p, y, t), p[OName])
      BY <1>1, <1>4 DEF LocalForward, AttentionForward, RowForward
    <2>2. PICK A, W : A = Heads(c, y) /\ W = FullTensor(OName)
      OBVIOUS
    <2>3. AttentionHeads(p, y, t) = RowSlice(A, q, r)
      <3>1. AttentionHeads(p, y, t) = RowSlice(Heads(c, y), NumHeads \div t, r)
        BY ShardHeads
      <3>2. q = NumHeads \div t
        BY <1>2
      <3> QED  BY <2>2, <3>1, <3>2
    <2>4. p[OName] = ColumnSlice(W, Hidden, q, r)
      <3>1. OName # LMHeadName /\ q = NumHeads \div t
        BY <1>2, NameTags
      <3> QED  BY <2>2, <3>1, ShardTensors DEF IsShard, ParameterNames
    <2>5. PICK n : n = NumHeads /\ n = t * q
      BY <1>2
    <2>6. PartialProducts(RowSlice(A, q, r), ColumnSlice(W, Hidden, q, r)) =
              RowBags(ProductTerms(W, A, Hidden, n), Hidden, r * q + 1 .. r * q + q)
      BY <2>5, ShardProducts
    <2>7. StageTerms(c, 2, y) = ProductTerms(W, A, Hidden, n)
      BY <2>2, <2>5 DEF StageTerms
    <2>8. StageColumns(2, tok, t, r) = r * q + 1 .. r * q + q
      <3>1. q = NumHeads \div t
        BY <1>2
      <3> QED  BY <3>1 DEF StageColumns
    <2> QED  BY <1>1, <1>4, <2>1, <2>3, <2>4, <2>6, <2>7, <2>8
  <1>5. CASE s = 3
    <2>1. LocalForward(p, 3, x, res, tok, t, r) =
              PartialProducts(silu_and_mul(linear_forward(y, p[GateUpName], << >>)), p[DownName])
      BY <1>1, <1>5 DEF LocalForward, MLPForward, RowForward
    <2>2. PICK A, W : A = Channels(y) /\ W = FullTensor(DownName)
      OBVIOUS
    <2>3. silu_and_mul(linear_forward(y, p[GateUpName], << >>)) = RowSlice(A, m, r)
      <3>1. silu_and_mul(linear_forward(y, p[GateUpName], << >>)) =
                RowSlice(Channels(y), Intermediate \div t, r)
        BY ShardChannels
      <3>2. m = Intermediate \div t
        BY <1>2
      <3> QED  BY <2>2, <3>1, <3>2
    <2>4. p[DownName] = ColumnSlice(W, Hidden, m, r)
      <3>1. DownName # LMHeadName /\ m = Intermediate \div t
        BY <1>2, NameTags
      <3> QED  BY <2>2, <3>1, ShardTensors DEF IsShard, ParameterNames
    <2>5. PICK n : n = Intermediate /\ n = t * m
      BY <1>2
    <2>6. PartialProducts(RowSlice(A, m, r), ColumnSlice(W, Hidden, m, r)) =
              RowBags(ProductTerms(W, A, Hidden, n), Hidden, r * m + 1 .. r * m + m)
      BY <2>5, ShardProducts
    <2>7. StageTerms(c, 3, y) = ProductTerms(W, A, Hidden, n)
      BY <2>2, <2>5 DEF StageTerms
    <2>8. StageColumns(3, tok, t, r) = r * m + 1 .. r * m + m
      <3>1. m = Intermediate \div t
        BY <1>2
      <3> QED  BY <3>1 DEF StageColumns
    <2> QED  BY <1>1, <1>5, <2>1, <2>3, <2>4, <2>6, <2>7, <2>8
  <1> QED  BY <1>3, <1>4, <1>5

\* The logits of the rank's part of the vocabulary.
LEMMA LocalLogits ==
    ASSUME NEW t \in Nat \ {0}, Even(t), NEW r \in 0 .. t - 1, NEW c, NEW p, IsShard(p, c, t, r),
           NEW x, NEW res, NEW tok
    PROVE  LocalForward(p, 4, x, res, tok, t, r) =
               RowSlice(Logits(c, NormedInput(4, x, res).output), Vocab \div t, r)
  <1>1. PICK y : y = NormedInput(4, x, res).output /\ y = Normed(p, 4, x, res).output
    BY NormShared
  <1>2. PICK v \in Nat \ {0} : v = Vocab \div t /\ Vocab = t * v
    BY Shares
  <1>3. PICK w, W : w = p[LMHeadName] /\ W = FullTensor(IF c.tie THEN EmbedName ELSE LMHeadName)
    OBVIOUS
  <1>4. w = RowSlice(W, v, r)
    <2>1. v = Vocab \div t
      BY <1>2
    <2>2. w = ShardTensor(IF c.tie THEN EmbedName ELSE LMHeadName, t, r)
      BY <1>3 DEF IsShard, ParameterNames
    <2> QED  BY <1>3, <2>1, <2>2, ShardTensors
  <1>5. LocalForward(p, 4, x, res, tok, t, r) = [i \in 1 .. v |-> Dot(w[i], y, << >>)]
    <2>1. DOMAIN w = 1 .. v
      BY <1>4 DEF RowSlice
    <2> QED  BY <1>1, <1>3, <2>1 DEF LocalForward, LMHeadForward, linear_forward, Dot
  <1>6. ASSUME NEW i \in 1 .. v
        PROVE  Dot(w[i], y, << >>) = Logits(c, y)[r * v + i]
    <2>1. r * v + i \in 1 .. Vocab
      <3>1. r * v \in Nat /\ r * v + v <= t * v
        BY SliceRange
      <3> QED  BY <1>2, <3>1, Sizes
    <2>2. w[i] = W[r * v + i]
      BY <1>4 DEF RowSlice
    <2> QED  BY <1>3, <2>1, <2>2 DEF Logits
  <1>7. LocalForward(p, 4, x, res, tok, t, r) = RowSlice(Logits(c, y), v, r)
    BY <1>5, <1>6 DEF RowSlice
  <1> QED  BY <1>1, <1>2, <1>7

-----------------------------------------------------------------------------
(* What the shares of all ranks make *)

\* The indices of the equal slices.
SliceRanges(t, n) == [r \in 0 .. t - 1 |-> r * n + 1 .. r * n + n]

LEMMA SlicesPartition ==
    ASSUME NEW t \in Nat \ {0}, NEW n \in Nat \ {0},
           NEW Q, Q = SliceRanges(t, n)
    PROVE  /\ \A q, r \in 0 .. t - 1 : q # r => Q[q] \cap Q[r] = {}
           /\ \A i : (\E r \in 0 .. t - 1 : i \in Q[r]) <=> i \in 1 .. t * n
  <1>1. ASSUME NEW q \in 0 .. t - 1, NEW r \in 0 .. t - 1, q < r
        PROVE  (q * n + 1 .. q * n + n) \cap (r * n + 1 .. r * n + n) = {}
    <2>1. n * q + n <= n * r
      <3>1. q \in Int /\ r \in Int
        OBVIOUS
      <3> QED  BY <1>1, <3>1, Multiples
    <2>2. PICK x, y \in Int : x = q * n /\ y = r * n /\ n * q = x /\ n * r = y
      OBVIOUS
    <2>3. x + n <= y
      BY <2>1, <2>2
    <2>4. (x + 1 .. x + n) \cap (y + 1 .. y + n) = {}
      BY <2>3
    <2> QED  BY <2>2, <2>4
  <1>2. ASSUME NEW q \in 0 .. t - 1, NEW r \in 0 .. t - 1, q # r
        PROVE  (q * n + 1 .. q * n + n) \cap (r * n + 1 .. r * n + n) = {}
    <2>1. q < r \/ r < q
      BY <1>2
    <2> QED  BY <1>1, <2>1
  <1>3. ASSUME NEW r \in 0 .. t - 1, NEW i \in r * n + 1 .. r * n + n
        PROVE  i \in 1 .. t * n
    <2>1. r * n \in Nat /\ r * n + n <= t * n /\ t * n \in Nat
      BY SliceRange
    <2> QED  BY <2>1
  <1>4. ASSUME NEW i \in 1 .. t * n
        PROVE  \E r \in 0 .. t - 1 : i \in r * n + 1 .. r * n + n
    <2>1. PICK x : x = i - 1 /\ x \in 0 .. t * n - 1
      OBVIOUS
    <2>2. PICK r \in 0 .. t - 1 : x \in r * n .. (r + 1) * n - 1
      BY <2>1, SliceOf
    <2>3. PICK o \in Nat : o = r * n /\ (r + 1) * n = o + n
      OBVIOUS
    <2>4. i \in o + 1 .. o + n
      BY <2>1, <2>2, <2>3
    <2> QED  BY <2>3, <2>4
  <1>5. \A r \in 0 .. t - 1 : Q[r] = r * n + 1 .. r * n + n
    BY DEF SliceRanges
  <1>6. \A q, r \in 0 .. t - 1 : q # r => Q[q] \cap Q[r] = {}
    BY <1>2, <1>5
  <1>7. \A i : (\E r \in 0 .. t - 1 : i \in Q[r]) <=> i \in 1 .. t * n
    BY <1>3, <1>4, <1>5
  <1> QED  BY <1>6, <1>7

RankColumns(s, tok, t) == [r \in 0 .. t - 1 |-> StageColumns(s, tok, t, r)]

LEMMA ColumnsPartition ==
    ASSUME NEW t \in Nat \ {0}, Even(t), NEW s \in 1 .. 3, NEW tok \in Tokens,
           NEW P, P = RankColumns(s, tok, t)
    PROVE  /\ \A r \in 0 .. t - 1 : IsFiniteSet(P[r])
           /\ \A q, r \in 0 .. t - 1 : q # r => P[q] \cap P[r] = {}
           /\ UNION { P[r] : r \in 0 .. t - 1 } = StageColumns(s, tok, 1, 0)
  <1>1. PICK N : N = CASE s = 1 -> Vocab [] s = 2 -> NumHeads [] s = 3 -> Intermediate
    OBVIOUS
  <1>2. PICK n \in Nat \ {0} : n = N \div t /\ N = t * n
    <2>1. PICK q, m, v \in Nat \ {0} : /\ q = NumHeads \div t /\ NumHeads = t * q
                                       /\ m = Intermediate \div t /\ Intermediate = t * m
                                       /\ v = Vocab \div t /\ Vocab = t * v
      BY Shares
    <2>2. CASE s = 1
      BY <1>1, <2>1, <2>2
    <2>3. CASE s = 2
      BY <1>1, <2>1, <2>3
    <2>4. CASE s = 3
      BY <1>1, <2>1, <2>4
    <2> QED  BY <2>2, <2>3, <2>4
  <1>3. PICK Q : Q = SliceRanges(t, n)
    OBVIOUS
  <1>4. /\ \A q, r \in 0 .. t - 1 : q # r => Q[q] \cap Q[r] = {}
        /\ \A i : (\E r \in 0 .. t - 1 : i \in Q[r]) <=> i \in 1 .. N
    <2>1. /\ \A q, r \in 0 .. t - 1 : q # r => Q[q] \cap Q[r] = {}
          /\ \A i : (\E r \in 0 .. t - 1 : i \in Q[r]) <=> i \in 1 .. t * n
      BY <1>3, SlicesPartition
    <2> QED  BY <1>2, <2>1
  <1>5. \A r \in 0 .. t - 1 : P[r] = IF s = 1 THEN {tok + 1} \cap Q[r] ELSE Q[r]
    <2>1. ASSUME NEW r \in 0 .. t - 1
          PROVE  StageColumns(s, tok, t, r) = IF s = 1 THEN {tok + 1} \cap Q[r] ELSE Q[r]
      <3>1. PICK X : X = r * n + 1 .. r * n + n /\ Q[r] = X
        BY <1>3 DEF SliceRanges
      <3>2. CASE s = 1
        BY <1>1, <1>2, <3>1, <3>2 DEF StageColumns
      <3>3. CASE s = 2
        BY <1>1, <1>2, <3>1, <3>3 DEF StageColumns
      <3>4. CASE s = 3
        BY <1>1, <1>2, <3>1, <3>4 DEF StageColumns
      <3> QED  BY <3>2, <3>3, <3>4
    <2> QED  BY <2>1 DEF RankColumns
  <1>6. StageColumns(s, tok, 1, 0) = IF s = 1 THEN {tok + 1} \cap (1 .. N) ELSE 1 .. N
    <2>1. \A k \in Nat : k \div 1 = k /\ (0 * k + 1 .. 0 * k + k) = 1 .. k
      OBVIOUS
    <2>2. CASE s = 1
      BY <1>1, <2>1, <2>2, Sizes DEF StageColumns
    <2>3. CASE s = 2
      BY <1>1, <2>1, <2>3, Sizes DEF StageColumns
    <2>4. CASE s = 3
      BY <1>1, <2>1, <2>4, Sizes DEF StageColumns
    <2> QED  BY <2>2, <2>3, <2>4
  <1>7. ASSUME NEW r \in 0 .. t - 1
        PROVE  IsFiniteSet(P[r])
    <2>1. IsFiniteSet(Q[r])
      <3>1. PICK o \in Nat : o = r * n
        OBVIOUS
      <3>2. o + 1 \in Int /\ o + n \in Int /\ Q[r] = o + 1 .. o + n
        BY <1>3, <3>1 DEF SliceRanges
      <3> QED  BY <3>2, FS_Interval
    <2>2. P[r] \in SUBSET Q[r]
      BY <1>5
    <2> QED  BY <2>1, <2>2, FS_Subset
  <1>8. UNION { P[r] : r \in 0 .. t - 1 } = StageColumns(s, tok, 1, 0)
    <2>1. \A x : (\E r \in 0 .. t - 1 : x \in Q[r]) <=> x \in 1 .. N
      BY <1>4
    <2>2. \A x : (\E r \in 0 .. t - 1 : x \in P[r]) <=> x \in StageColumns(s, tok, 1, 0)
      <3>1. CASE s = 1
        <4>1. \A r \in 0 .. t - 1 : P[r] = {tok + 1} \cap Q[r]
          BY <1>5, <3>1
        <4>2. StageColumns(s, tok, 1, 0) = {tok + 1} \cap (1 .. N)
          BY <1>6, <3>1
        <4> QED  BY <2>1, <4>1, <4>2
      <3>2. CASE s # 1
        <4>1. \A r \in 0 .. t - 1 : P[r] = Q[r]
          BY <1>5, <3>2
        <4>2. StageColumns(s, tok, 1, 0) = 1 .. N
          BY <1>6, <3>2
        <4> QED  BY <2>1, <4>1, <4>2
      <3> QED  BY <3>1, <3>2
    <2> QED  BY <2>2
  <1>9. \A q, r \in 0 .. t - 1 : q # r => P[q] \cap P[r] = {}
    BY <1>4, <1>5
  <1> QED  BY <1>7, <1>8, <1>9

LEMMA ReferenceStages ==
    ASSUME NEW c \in Configurations, NEW tok \in Tokens, NEW s \in 1 .. 4
    PROVE  /\ Reference[c][tok][s] =
                  LocalForward(FullParameters(c), s, StageInput(c, tok, s - 1),
                               ResidualAfter(c, tok, s - 1), tok, 1, 0)
           /\ ResidualAfter(c, tok, s) =
                  Normed(FullParameters(c), s, StageInput(c, tok, s - 1),
                         ResidualAfter(c, tok, s - 1)).residual
  <1> DEFINE p == FullParameters(c)
             R == Reference[c][tok]
             out(k, x, res) == LocalForward(p, k, x, res, tok, 1, 0)
  <1>1. /\ R[1] = out(1, << >>, << >>)
        /\ R[2] = out(2, R[1], << >>)
        /\ R[3] = out(3, R[2], R[1])
        /\ R[4] = out(4, R[3], Normed(p, 3, R[2], R[1]).residual)
    <2> HIDE DEF p
    <2>1. R = LET embedded == out(1, << >>, << >>)
                  attended == out(2, embedded, << >>)
                  res3 == Normed(p, 3, attended, embedded).residual
                  mlp == out(3, attended, embedded)
              IN  <<embedded, attended, mlp, out(4, mlp, res3)>>
      BY DEF Reference, p
    <2> HIDE DEF R, out
    <2> QED  BY <2>1
  <1>2. CASE s = 1
    <2>1. /\ StageInput(c, tok, 0) = << >> /\ ResidualAfter(c, tok, 0) = << >>
          /\ ResidualAfter(c, tok, 1) = << >>
      BY DEF StageInput, ResidualAfter
    <2>2. Normed(p, 1, << >>, << >>).residual = << >>
      BY DEF Normed
    <2> QED  BY <1>1, <1>2, <2>1, <2>2
  <1>3. CASE s = 2
    <2>1. /\ StageInput(c, tok, 1) = R[1] /\ ResidualAfter(c, tok, 1) = << >>
          /\ ResidualAfter(c, tok, 2) = R[1]
      BY DEF StageInput, ResidualAfter
    <2>2. Normed(p, 2, R[1], << >>).residual = R[1]
      <3> HIDE DEF R
      <3> QED  BY DEF Normed, add_rms_norm
    <2> QED  BY <1>1, <1>3, <2>1, <2>2
  <1>4. CASE s = 3
    <2>1. /\ StageInput(c, tok, 2) = R[2] /\ ResidualAfter(c, tok, 2) = R[1]
          /\ ResidualAfter(c, tok, 3) = Normed(p, 3, R[2], R[1]).residual
      BY DEF StageInput, ResidualAfter
    <2> QED  BY <1>1, <1>4, <2>1
  <1>5. CASE s = 4
    <2>1. /\ StageInput(c, tok, 3) = R[3]
          /\ ResidualAfter(c, tok, 3) = Normed(p, 3, R[2], R[1]).residual
          /\ ResidualAfter(c, tok, 4) =
                 Normed(p, 4, R[3], Normed(p, 3, R[2], R[1]).residual).residual
      BY DEF StageInput, ResidualAfter
    <2> QED  BY <1>1, <1>5, <2>1
  <1> QED  BY <1>2, <1>3, <1>4, <1>5

LEMMA ConfigurationFacts ==
    ASSUME cfg \in Configurations
    PROVE  /\ cfg.qkv_bias \in BOOLEAN /\ cfg.tie \in BOOLEAN
           /\ Divisible(cfg) <=> Even(cfg.tp)
  BY ConfigurationsAssumption DEF Divisible, Even

\* What a stage is given, and what its columns sum to.
StageSummands(s) ==
    StageTerms(cfg, s, NormedInput(s, StageInput(cfg, token, s - 1),
                                   ResidualAfter(cfg, token, s - 1)).output)
StageLogits ==
    Logits(cfg, NormedInput(4, StageInput(cfg, token, 3), ResidualAfter(cfg, token, 3)).output)

AllShards == \A r \in Ranks : IsShard(Parameters(r), cfg, cfg.tp, r)

LEMMA ReferenceShares ==
    ASSUME cfg \in Configurations, token \in Tokens
    PROVE  /\ \A s \in 1 .. 3 : Reference[cfg][token][s] =
                  RowBags(StageSummands(s), Hidden, StageColumns(s, token, 1, 0))
           /\ Reference[cfg][token][4] = [i \in 1 .. Vocab |-> StageLogits[i]]
  <1>1. PICK p : p = FullParameters(cfg) /\ IsShard(p, cfg, 1, 0)
    BY ReferenceIsShard
  <1>2. cfg.qkv_bias \in BOOLEAN /\ Even(1) /\ 0 \in 0 .. 1 - 1 /\ 1 \in Nat \ {0}
    BY ConfigurationFacts, AllEven
  <1>3. ASSUME NEW s \in 1 .. 3
        PROVE  Reference[cfg][token][s] =
                   RowBags(StageSummands(s), Hidden, StageColumns(s, token, 1, 0))
    <2>1. PICK x, res : x = StageInput(cfg, token, s - 1) /\ res = ResidualAfter(cfg, token, s - 1)
      OBVIOUS
    <2>2. Reference[cfg][token][s] = LocalForward(p, s, x, res, token, 1, 0)
      <3>1. s \in 1 .. 4
        OBVIOUS
      <3> QED  BY <1>1, <2>1, <3>1, ReferenceStages
    <2>3. LocalForward(p, s, x, res, token, 1, 0) =
              RowBags(StageTerms(cfg, s, NormedInput(s, x, res).output), Hidden,
                      StageColumns(s, token, 1, 0))
      BY <1>1, <1>2, LocalShare
    <2> QED  BY <2>1, <2>2, <2>3 DEF StageSummands
  <1>4. Reference[cfg][token][4] = [i \in 1 .. Vocab |-> StageLogits[i]]
    <2>1. PICK x, res : x = StageInput(cfg, token, 3) /\ res = ResidualAfter(cfg, token, 3)
      OBVIOUS
    <2>2. Reference[cfg][token][4] = LocalForward(p, 4, x, res, token, 1, 0)
      <3>1. 4 \in 1 .. 4 /\ 4 - 1 = 3
        OBVIOUS
      <3> QED  BY <1>1, <2>1, <3>1, ReferenceStages
    <2>3. PICK L : L = Logits(cfg, NormedInput(4, x, res).output)
      OBVIOUS
    <2>4. LocalForward(p, 4, x, res, token, 1, 0) = RowSlice(L, Vocab \div 1, 0)
      BY <1>1, <1>2, <2>3, LocalLogits
    <2>5. RowSlice(L, Vocab \div 1, 0) = [i \in 1 .. Vocab |-> L[i]]
      <3>1. Vocab \div 1 = Vocab
        BY Sizes
      <3>2. \A i \in 1 .. Vocab : 0 * Vocab + i = i
        BY Sizes
      <3> QED  BY <3>1, <3>2 DEF RowSlice
    <2> QED  BY <2>1, <2>2, <2>3, <2>4, <2>5 DEF StageLogits
  <1> QED  BY <1>3, <1>4

LEMMA RankShares ==
    ASSUME cfg \in Configurations, Divisible(cfg), token \in Tokens, AllShards, NEW r \in Ranks
    PROVE  /\ \A s \in 1 .. 3 : Share(s, r) =
                  RowBags(StageSummands(s), Hidden, StageColumns(s, token, cfg.tp, r))
           /\ Share(4, r) = RowSlice(StageLogits, Vocab \div cfg.tp, r)
  <1>1. PICK p : p = Parameters(r) /\ IsShard(p, cfg, cfg.tp, r)
    BY DEF AllShards
  <1>2. PICK t \in Nat \ {0} : t = cfg.tp /\ Even(t) /\ r \in 0 .. t - 1
    BY ConfigurationFacts, RankFacts
  <1>3. cfg.qkv_bias \in BOOLEAN
    BY ConfigurationFacts
  <1>4. ASSUME NEW s \in 1 .. 3
        PROVE  Share(s, r) =
                   RowBags(StageSummands(s), Hidden, StageColumns(s, token, cfg.tp, r))
    <2>1. PICK x, res : x = StageInput(cfg, token, s - 1) /\ res = ResidualAfter(cfg, token, s - 1)
      OBVIOUS
    <2>2. Share(s, r) = LocalForward(p, s, x, res, token, t, r)
      BY <1>1, <1>2, <2>1 DEF Share
    <2>3. LocalForward(p, s, x, res, token, t, r) =
              RowBags(StageTerms(cfg, s, NormedInput(s, x, res).output), Hidden,
                      StageColumns(s, token, t, r))
      BY <1>1, <1>2, <1>3, LocalShare
    <2> QED  BY <1>2, <2>1, <2>2, <2>3 DEF StageSummands
  <1>5. Share(4, r) = RowSlice(StageLogits, Vocab \div cfg.tp, r)
    <2>1. PICK x, res : x = StageInput(cfg, token, 3) /\ res = ResidualAfter(cfg, token, 3)
      OBVIOUS
    <2>2. Share(4, r) = LocalForward(p, 4, x, res, token, t, r)
      <3>1. 4 - 1 = 3
        OBVIOUS
      <3> QED  BY <1>1, <1>2, <2>1, <3>1 DEF Share
    <2>3. LocalForward(p, 4, x, res, token, t, r) =
              RowSlice(Logits(cfg, NormedInput(4, x, res).output), Vocab \div t, r)
      BY <1>1, <1>2, LocalLogits
    <2> QED  BY <1>2, <2>1, <2>2, <2>3 DEF StageLogits
  <1> QED  BY <1>4, <1>5

\* The sum of the shares of all ranks is what a single rank computes.
LEMMA StageSum ==
    ASSUME cfg \in Configurations, Divisible(cfg), token \in Tokens, AllShards, NEW s \in 1 .. 3,
           NEW shards, DOMAIN shards = Ranks, \A r \in Ranks : shards[r].value = Share(s, r)
    PROVE  Summed(shards) = Reference[cfg][token][s]
  <1>1. PICK t \in Nat \ {0} : t = cfg.tp /\ Even(t) /\ Ranks = 0 .. t - 1
    BY ConfigurationFacts, RankFacts
  <1>2. PICK F, P : F = StageSummands(s) /\ P = RankColumns(s, token, t)
    OBVIOUS
  <1>3. \A r \in 0 .. t - 1 : shards[r].value = RowBags(F, Hidden, P[r])
    <2>1. \A r \in Ranks : Share(s, r) =
                  RowBags(StageSummands(s), Hidden, StageColumns(s, token, cfg.tp, r))
      BY RankShares
    <2> QED  BY <1>1, <1>2, <2>1 DEF RankColumns
  <1>4. /\ \A r \in 0 .. t - 1 : IsFiniteSet(P[r])
        /\ \A q, r \in 0 .. t - 1 : q # r => P[q] \cap P[r] = {}
        /\ UNION { P[r] : r \in 0 .. t - 1 } = StageColumns(s, token, 1, 0)
    <2>1. PICK tok \in Tokens : tok = token
      OBVIOUS
    <2>2. Even(t) /\ P = RankColumns(s, tok, t)
      BY <1>1, <1>2, <2>1
    <2>3. /\ \A r \in 0 .. t - 1 : IsFiniteSet(P[r])
          /\ \A q, r \in 0 .. t - 1 : q # r => P[q] \cap P[r] = {}
          /\ UNION { P[r] : r \in 0 .. t - 1 } = StageColumns(s, tok, 1, 0)
      BY <2>2, ColumnsPartition
    <2> QED  BY <2>1, <2>3
  <1>5. DOMAIN shards = 0 .. t - 1
    BY <1>1
  <1>6. Summed(shards) = RowBags(F, Hidden, UNION { P[r] : r \in 0 .. t - 1 })
    BY <1>3, <1>4, <1>5, SummedParts
  <1>7. Reference[cfg][token][s] = RowBags(F, Hidden, StageColumns(s, token, 1, 0))
    BY <1>2, ReferenceShares
  <1> QED  BY <1>4, <1>6, <1>7

LEMMA StageGather ==
    ASSUME cfg \in Configurations, Divisible(cfg), token \in Tokens, AllShards,
           NEW shards, DOMAIN shards = Ranks, \A r \in Ranks : shards[r].value = Share(4, r)
    PROVE  Gathered(shards, Vocab) = Reference[cfg][token][4]
  <1>1. PICK t \in Nat \ {0} : t = cfg.tp /\ Even(t) /\ Ranks = 0 .. t - 1
    BY ConfigurationFacts, RankFacts
  <1>2. PICK v \in Nat \ {0} : v = Vocab \div t /\ Vocab = t * v
    BY <1>1, Shares
  <1>3. PICK L, V : L = StageLogits /\ V = Vocab
    OBVIOUS
  <1>4. \A r \in 0 .. t - 1 : shards[r].value = RowSlice(L, v, r)
    <2>1. ASSUME NEW r \in Ranks
          PROVE  Share(4, r) = RowSlice(L, v, r)
      <3>1. Share(4, r) = RowSlice(StageLogits, Vocab \div cfg.tp, r)
        BY RankShares
      <3> QED  BY <1>1, <1>2, <1>3, <3>1
    <2> QED  BY <1>1, <2>1
  <1>5. DOMAIN shards = 0 .. t - 1
    BY <1>1
  <1>6. Gathered(shards, V) = [i \in 1 .. V |-> L[i]]
    <2>1. ShareOf(v, V, t)
      BY <1>2, <1>3 DEF ShareOf
    <2> QED  BY <1>4, <1>5, <2>1, GatheredShards
  <1> QED  BY <1>3, <1>6, ReferenceShares

\* A rank that is alone computes the whole.
LEMMA StageAlone ==
    ASSUME cfg \in Configurations, Divisible(cfg), token \in Tokens, AllShards, cfg.tp = 1,
           NEW s \in 1 .. 4
    PROVE  Share(s, 0) = Reference[cfg][token][s]
  <1>1. 0 \in Ranks
    BY RankFacts
  <1>2. CASE s \in 1 .. 3
    <2>1. Share(s, 0) = RowBags(StageSummands(s), Hidden, StageColumns(s, token, 1, 0))
      BY <1>1, <1>2, RankShares
    <2> QED  BY <1>2, <2>1, ReferenceShares
  <1>3. CASE s = 4
    <2>1. PICK L : L = StageLogits
      OBVIOUS
    <2>2. Share(4, 0) = RowSlice(L, Vocab \div 1, 0)
      BY <1>1, <2>1, RankShares
    <2>3. RowSlice(L, Vocab \div 1, 0) = [i \in 1 .. Vocab |-> L[i]]
      <3>1. Vocab \div 1 = Vocab
        BY Sizes
      <3>2. \A i \in 1 .. Vocab : 0 * Vocab + i = i
        BY Sizes
      <3> QED  BY <3>1, <3>2 DEF RowSlice
    <2> QED  BY <1>3, <2>1, <2>2, <2>3, ReferenceShares
  <1> QED  BY <1>2, <1>3

-----------------------------------------------------------------------------
(* The parameters of the entries *)

Source(k) == packed_modules_mapping[k].source
Sources == { Source(k) : k \in 1 .. 5 }

LEMMA Mapping ==
    /\ DOMAIN packed_modules_mapping = 1 .. 5
    /\ Source(1) = "q_proj" /\ Source(2) = "k_proj" /\ Source(3) = "v_proj"
    /\ Source(4) = "gate_proj" /\ Source(5) = "up_proj"
    /\ \A k \in 1 .. 5 :
           /\ packed_modules_mapping[k].target = IF k <= 3 THEN "qkv_proj" ELSE "gate_up_proj"
           /\ packed_modules_mapping[k].shard = IF k <= 3 THEN k - 1 ELSE k - 4
  <1>1. DOMAIN packed_modules_mapping = 1 .. 5
    BY DEF packed_modules_mapping
  <1>2. /\ Source(1) = "q_proj" /\ Source(2) = "k_proj" /\ Source(3) = "v_proj"
        /\ Source(4) = "gate_proj" /\ Source(5) = "up_proj"
    BY DEF packed_modules_mapping, Source
  <1>3. ASSUME NEW k \in 1 .. 5
        PROVE  /\ packed_modules_mapping[k].target = IF k <= 3 THEN "qkv_proj" ELSE "gate_up_proj"
               /\ packed_modules_mapping[k].shard = IF k <= 3 THEN k - 1 ELSE k - 4
    <2>1. k = 1 \/ k = 2 \/ k = 3 \/ k = 4 \/ k = 5
      OBVIOUS
    <2> QED  BY <2>1 DEF packed_modules_mapping
  <1> QED  BY <1>1, <1>2, <1>3

LEMMA Unpacked ==
    ASSUME NEW name, \A i \in DOMAIN name : name[i] \notin Sources
    PROVE  resolve_packed_parameter_name(name) = [target |-> name, shard |-> NoShard]
  <1>1. { k \in DOMAIN packed_modules_mapping :
            matches_parameter_segment(name, packed_modules_mapping[k]) } = {}
    BY Mapping DEF matches_parameter_segment, Sources, Source
  <1> QED  BY <1>1 DEF resolve_packed_parameter_name

LEMMA Packed ==
    ASSUME NEW n \in Nat, NEW name, DOMAIN name = 1 .. n, NEW p \in 1 .. n, NEW k \in 1 .. 5,
           name[p] = Source(k),
           \A i \in 1 .. n : i # p => name[i] \notin Sources /\ ~ ContainsWord(name[i], Source(k))
    PROVE  resolve_packed_parameter_name(name) =
               [target |-> [name EXCEPT ![p] = packed_modules_mapping[k].target],
                shard |-> packed_modules_mapping[k].shard]
  <1> DEFINE hits == { l \in DOMAIN packed_modules_mapping :
                          matches_parameter_segment(name, packed_modules_mapping[l]) }
  <1>1. hits = {k}
    <2>1. ASSUME NEW l \in hits
          PROVE  l = k
      <3>1. l \in 1 .. 5 /\ \E i \in 1 .. n : name[i] = Source(l)
        BY Mapping DEF matches_parameter_segment, Source
      <3>2. Source(l) = Source(k)
        BY <3>1 DEF Sources
      <3>3. /\ k = 1 \/ k = 2 \/ k = 3 \/ k = 4 \/ k = 5
            /\ l = 1 \/ l = 2 \/ l = 3 \/ l = 4 \/ l = 5
        BY <3>1
      <3> QED  BY <3>2, <3>3, Mapping
    <2>2. k \in hits
      <3>1. \A j \in 1 .. p - 1 : ~ ContainsWord(name[j], Source(k))
        OBVIOUS
      <3> QED  BY <3>1, Mapping DEF matches_parameter_segment, Source
    <2> HIDE DEF hits
    <2> QED  BY <2>1, <2>2
  <1>2. (CHOOSE l \in hits : \A j \in hits : l <= j) = k
    <2> HIDE DEF hits
    <2> QED  BY <1>1
  <1>3. \A i \in DOMAIN name : ContainsWord(name[i], Source(k)) <=> i = p
    BY DEF ContainsWord
  <1>4. (CHOOSE i \in DOMAIN name : ContainsWord(name[i], packed_modules_mapping[k].source)) = p
    BY <1>3 DEF Source
  <1>5. hits # {}
    BY <1>1
  <1> QED  BY <1>2, <1>4, <1>5 DEF resolve_packed_parameter_name

\* An entry that is a parameter of its own.
LEMMA PlainEntries ==
    \A name \in {EmbedName, LMHeadName, OName, DownName, NormName, QkvWeightName, GateUpName,
                 ForeignName} :
        resolve_packed_parameter_name(name) = [target |-> name, shard |-> NoShard]
  <1>1. \A x \in {"model", "embed_tokens", "weight", "lm_head", "layers", "0", "self_attn", "o_proj",
                  "mlp", "down_proj", "input_layernorm", "qkv_proj", "gate_up_proj", "rotary",
                  "inv_freq"} : x \notin Sources
    <2>1. Sources = {Source(1), Source(2), Source(3), Source(4), Source(5)}
      BY DEF Sources
    <2> QED  BY <2>1, Mapping
  <1> HIDE DEF Sources
  <1>2. ASSUME NEW a, NEW b, {a, b} \cap Sources = {}
        PROVE  \A i \in DOMAIN <<a, b>> : <<a, b>>[i] \notin Sources
    BY <1>2
  <1>3. ASSUME NEW a, NEW b, NEW c, {a, b, c} \cap Sources = {}
        PROVE  \A i \in DOMAIN <<a, b, c>> : <<a, b, c>>[i] \notin Sources
    BY <1>3
  <1>4. ASSUME NEW a, NEW b, NEW c, NEW d, NEW e, {a, b, c, d, e} \cap Sources = {}
        PROVE  \A i \in DOMAIN <<a, b, c, d, e>> : <<a, b, c, d, e>>[i] \notin Sources
    BY <1>4
  <1>5. ASSUME NEW a, NEW b, NEW c, NEW d, NEW e, NEW f, {a, b, c, d, e, f} \cap Sources = {}
        PROVE  \A i \in DOMAIN <<a, b, c, d, e, f>> : <<a, b, c, d, e, f>>[i] \notin Sources
    BY <1>5
  <1>6. ASSUME NEW name \in {EmbedName, LMHeadName, OName, DownName, NormName, QkvWeightName,
                             GateUpName, ForeignName}
        PROVE  \A i \in DOMAIN name : name[i] \notin Sources
    <2>1. /\ \A i \in DOMAIN LMHeadName : LMHeadName[i] \notin Sources
          /\ \A i \in DOMAIN EmbedName : EmbedName[i] \notin Sources
          /\ \A i \in DOMAIN NormName : NormName[i] \notin Sources
          /\ \A i \in DOMAIN ForeignName : ForeignName[i] \notin Sources
      BY <1>1, <1>2, <1>3, <1>4, NameTuples, AttnNames
    <2>2. /\ \A i \in DOMAIN OName : OName[i] \notin Sources
          /\ \A i \in DOMAIN DownName : DownName[i] \notin Sources
          /\ \A i \in DOMAIN QkvWeightName : QkvWeightName[i] \notin Sources
          /\ \A i \in DOMAIN GateUpName : GateUpName[i] \notin Sources
      <3>1. ASSUME NEW m \in {"self_attn", "mlp"},
                   NEW p \in {"o_proj", "down_proj", "qkv_proj", "gate_up_proj"},
                   NEW x, x = <<"model", "layers", "0", m, p, "weight">>
            PROVE  \A i \in DOMAIN x : x[i] \notin Sources
        <4>1. {"model", "layers", "0", m, p, "weight"} \cap Sources = {}
          BY <1>1
        <4> QED  BY <1>5, <3>1, <4>1
      <3>2. /\ OName = <<"model", "layers", "0", "self_attn", "o_proj", "weight">>
            /\ DownName = <<"model", "layers", "0", "mlp", "down_proj", "weight">>
            /\ QkvWeightName = <<"model", "layers", "0", "self_attn", "qkv_proj", "weight">>
            /\ GateUpName = <<"model", "layers", "0", "mlp", "gate_up_proj", "weight">>
        BY NameTuples, AttnNames
      <3>3. \A i \in DOMAIN OName : OName[i] \notin Sources
        BY <3>1, <3>2
      <3>4. \A i \in DOMAIN DownName : DownName[i] \notin Sources
        BY <3>1, <3>2
      <3>5. \A i \in DOMAIN QkvWeightName : QkvWeightName[i] \notin Sources
        BY <3>1, <3>2
      <3>6. \A i \in DOMAIN GateUpName : GateUpName[i] \notin Sources
        BY <3>1, <3>2
      <3> QED  BY <3>3, <3>4, <3>5, <3>6
    <2>3. CASE name \in {LMHeadName, EmbedName, NormName, ForeignName}
      BY <2>1, <2>3
    <2>4. CASE name \in {OName, DownName, QkvWeightName, GateUpName}
      BY <2>2, <2>4
    <2> QED  BY <2>3, <2>4
  <1>7. ASSUME NEW name \in {EmbedName, LMHeadName, OName, DownName, NormName, QkvWeightName,
                             GateUpName, ForeignName}
        PROVE  resolve_packed_parameter_name(name) = [target |-> name, shard |-> NoShard]
    <2>1. \A i \in DOMAIN name : name[i] \notin Sources
      BY <1>6
    <2> QED  BY <2>1, Unpacked
  <1> QED  BY <1>7

\* An entry that is one of several stacked ones.
LEMMA SixSegments ==
    ASSUME NEW k \in 1 .. 5, NEW m \in {"self_attn", "mlp"}, NEW w \in {"weight", "bias"},
           NEW name, name = <<"model", "layers", "0", m, Source(k), w>>
    PROVE  resolve_packed_parameter_name(name) =
               [target |-> <<"model", "layers", "0", m, packed_modules_mapping[k].target, w>>,
                shard |-> packed_modules_mapping[k].shard]
  <1>1. /\ DOMAIN name = 1 .. 6 /\ name[1] = "model" /\ name[2] = "layers" /\ name[3] = "0"
        /\ name[4] = m /\ name[5] = Source(k) /\ name[6] = w
    OBVIOUS
  <1>2. \A x \in {"model", "layers", "0", "self_attn", "mlp", "weight", "bias"} :
            x \notin Sources /\ ~ ContainsWord(x, Source(k))
    <2>1. Sources = {Source(1), Source(2), Source(3), Source(4), Source(5)} /\ Source(k) \in Sources
      BY DEF Sources
    <2>2. ASSUME NEW x \in {"model", "layers", "0", "self_attn", "mlp", "weight", "bias"}
          PROVE  x \notin Sources
      BY <2>1, Mapping
    <2>3. ASSUME NEW x \in {"model", "layers", "0", "self_attn", "mlp", "weight", "bias"}
          PROVE  ~ ContainsWord(x, Source(k))
      <3>1. x # Source(k) /\ x # "qkv_proj" /\ x # "gate_up_proj"
        BY <2>1, <2>2
      <3>2. <<x, Source(k)>> \notin {<<"qkv_proj", "v_proj">>, <<"gate_up_proj", "up_proj">>}
        BY <3>1
      <3> QED  BY <3>1, <3>2 DEF ContainsWord
    <2> QED  BY <2>2, <2>3
  <1>3. \A i \in 1 .. 6 : i # 5 => name[i] \notin Sources /\ ~ ContainsWord(name[i], Source(k))
    BY <1>1, <1>2
  <1>4. resolve_packed_parameter_name(name) =
               [target |-> [name EXCEPT ![5] = packed_modules_mapping[k].target],
                shard |-> packed_modules_mapping[k].shard]
    <2>1. 6 \in Nat /\ 5 \in 1 .. 6
      OBVIOUS
    <2>2. DOMAIN name = 1 .. 6 /\ name[5] = Source(k)
      BY <1>1
    <2>a. PICK n \in Nat : n = 6
      BY <2>1
    <2>b. PICK p \in 1 .. n : p = 5
      BY <2>1, <2>a
    <2>3. n = 6 /\ p = 5
      BY <2>a, <2>b
    <2>4. \A i \in 1 .. n : i # p => name[i] \notin Sources /\ ~ ContainsWord(name[i], Source(k))
      BY <1>3, <2>3
    <2>5. DOMAIN name = 1 .. n /\ name[p] = Source(k)
      BY <2>2, <2>3
    <2>6. resolve_packed_parameter_name(name) =
              [target |-> [name EXCEPT ![p] = packed_modules_mapping[k].target],
               shard |-> packed_modules_mapping[k].shard]
      BY <2>4, <2>5, Packed, ZenonT(60)
    <2> QED  BY <2>3, <2>6
  <1>5. ASSUME NEW y
        PROVE  [name EXCEPT ![5] = y] = <<"model", "layers", "0", m, y, w>>
    OBVIOUS
  <1> QED  BY <1>4, <1>5

LEMMA PackedEntries ==
    /\ \A k \in 1 .. 3 :
           /\ resolve_packed_parameter_name(AttnWeight(Source(k))) =
                  [target |-> QkvWeightName, shard |-> k - 1]
           /\ resolve_packed_parameter_name(AttnBias(Source(k))) =
                  [target |-> QkvBiasName, shard |-> k - 1]
    /\ resolve_packed_parameter_name(GateName) = [target |-> GateUpName, shard |-> 0]
    /\ resolve_packed_parameter_name(UpName) = [target |-> GateUpName, shard |-> 1]
  <1>1. ASSUME NEW k \in 1 .. 3
        PROVE  /\ resolve_packed_parameter_name(AttnWeight(Source(k))) =
                      [target |-> QkvWeightName, shard |-> k - 1]
               /\ resolve_packed_parameter_name(AttnBias(Source(k))) =
                      [target |-> QkvBiasName, shard |-> k - 1]
    <2>1. /\ k \in 1 .. 5 /\ packed_modules_mapping[k].target = "qkv_proj"
          /\ packed_modules_mapping[k].shard = k - 1
      BY Mapping
    <2>2. PICK x, y : /\ x = AttnWeight(Source(k)) /\ y = AttnBias(Source(k))
                      /\ x = <<"model", "layers", "0", "self_attn", Source(k), "weight">>
                      /\ y = <<"model", "layers", "0", "self_attn", Source(k), "bias">>
      BY NameTuples
    <2>3. /\ QkvWeightName = <<"model", "layers", "0", "self_attn", "qkv_proj", "weight">>
          /\ QkvBiasName = <<"model", "layers", "0", "self_attn", "qkv_proj", "bias">>
      BY NameTuples, AttnNames
    <2> QED  BY <2>1, <2>2, <2>3, SixSegments
  <1>2. /\ resolve_packed_parameter_name(GateName) = [target |-> GateUpName, shard |-> 0]
        /\ resolve_packed_parameter_name(UpName) = [target |-> GateUpName, shard |-> 1]
    <2>1. /\ packed_modules_mapping[4].target = "gate_up_proj"
          /\ packed_modules_mapping[4].shard = 0
          /\ packed_modules_mapping[5].target = "gate_up_proj"
          /\ packed_modules_mapping[5].shard = 1
      BY Mapping
    <2>2. /\ GateName = <<"model", "layers", "0", "mlp", Source(4), "weight">>
          /\ UpName = <<"model", "layers", "0", "mlp", Source(5), "weight">>
      BY NameTuples, Mapping
    <2>3. GateUpName = <<"model", "layers", "0", "mlp", "gate_up_proj", "weight">>
      BY NameTuples
    <2>4. resolve_packed_parameter_name(GateName) = [target |-> GateUpName, shard |-> 0]
      BY <2>1, <2>2, <2>3, SixSegments
    <2>5. resolve_packed_parameter_name(UpName) = [target |-> GateUpName, shard |-> 1]
      BY <2>1, <2>2, <2>3, SixSegments
    <2> QED  BY <2>4, <2>5
  <1> QED  BY <1>1, <1>2

-----------------------------------------------------------------------------
(* What the loaders copy *)

\* The tensor w with the given rows from s.
Overlay(w, rows, s) == [i \in DOMAIN w |-> IF i \in rows THEN s[i] ELSE w[i]]

\* The tensor `part' lies behind the first `start' rows of S.
LiesBehind(S, part, start, size) == \A j \in 1 .. size : S[start + j] = part[j]

LEMMA OverlaidRows ==
    ASSUME NEW N \in Nat, NEW w, DOMAIN w = 1 .. N, NEW start \in Nat, NEW size \in Nat,
           NEW part, NEW S, NEW c, c = copy_tensor_to_rows(part, w, start, size), c # Throws,
           LiesBehind(S, part, start, size)
    PROVE  c = Overlay(w, start + 1 .. start + size, S)
  <1>1. c = [i \in DOMAIN w |-> IF i - 1 \in start .. start + size - 1 THEN part[i - start] ELSE w[i]]
    BY DEF copy_tensor_to_rows
  <1>2. ASSUME NEW i \in DOMAIN w
        PROVE  (IF i - 1 \in start .. start + size - 1 THEN part[i - start] ELSE w[i]) =
                   (IF i \in start + 1 .. start + size THEN S[i] ELSE w[i])
    <2>1. i \in Int
      OBVIOUS
    <2>2. i - 1 \in start .. start + size - 1 <=> i \in start + 1 .. start + size
      BY <2>1
    <2>3. ASSUME i \in start + 1 .. start + size
          PROVE  S[i] = part[i - start]
      <3>1. i - start \in 1 .. size /\ start + (i - start) = i
        BY <2>1, <2>3
      <3> QED  BY <3>1 DEF LiesBehind
    <2> QED  BY <2>2, <2>3
  <1> QED  BY <1>1, <1>2 DEF Overlay

LEMMA OverlaidParameter ==
    ASSUME NEW N \in Nat, NEW w, DOMAIN w = 1 .. N, NEW part, NEW c,
           c = copy_tensor_to_parameter(part, w), c # Throws
    PROVE  c = Overlay(w, 1 .. N, part)
  <1>1. c = copy_tensor_to_rows(part, w, 0, Len(w)) /\ Len(w) = N
    BY DEF copy_tensor_to_parameter
  <1>2. \A j \in 1 .. N : part[0 + j] = part[j]
    OBVIOUS
  <1>3. c = Overlay(w, 0 + 1 .. 0 + N, part)
    <2>1. PICK start : start = 0
      OBVIOUS
    <2>2. start \in Nat /\ c = copy_tensor_to_rows(part, w, start, N)
      BY <1>1, <2>1
    <2>3. LiesBehind(part, part, start, N)
      BY <2>1 DEF LiesBehind
    <2>4. c = Overlay(w, start + 1 .. start + N, part)
      BY <2>2, <2>3, OverlaidRows
    <2> QED  BY <2>1, <2>4
  <1> QED  BY <1>3

\* Loading leaves the shape of a parameter.
LEMMA LoadersKeepShape ==
    ASSUME NEW w, NEW part, NEW start, NEW size
    PROVE  /\ LET c == copy_tensor_to_rows(part, w, start, size)
              IN  c # Throws => SameRows(c, w)
           /\ LET c == copy_tensor_to_parameter(part, w)
              IN  c # Throws => SameRows(c, w)
  BY DEF copy_tensor_to_parameter, copy_tensor_to_rows, SameRows

\* The rows of a view.
LEMMA ViewOfRows ==
    ASSUME NEW t \in Nat \ {0}, NEW n \in Nat \ {0}, NEW r \in 0 .. t - 1, NEW full,
           ShareOf(n, full, t), NEW source, IsRows(source, full)
    PROVE  select_tensor_shard(source, 0, r * n, n) = RowSlice(source, n, r)
  <1>1. PICK o \in Nat : o = r * n /\ o + n <= full
    BY SliceRange DEF ShareOf
  <1>2. full \in Nat /\ DOMAIN source = 1 .. full /\ Len(source) = full
    <2>1. full \in Nat
      BY DEF ShareOf
    <2> QED  BY <2>1, RowsLength
  <1>3. select_tensor_shard(source, 0, o, n) = SubSeq(source, o + 1, o + n)
    BY <1>1, <1>2 DEF select_tensor_shard
  <1> DEFINE S == { source[i] : i \in 1 .. full }
  <1>4. PICK u : u = SubSeq(source, o + 1, o + n)
    OBVIOUS
  <1>5. /\ u \in Seq(S) /\ Len(u) = n
        /\ \A i \in 1 .. n : u[i] = source[o + i]
    <2>1. PICK a, b \in Int : a = o + 1 /\ b = o + n
      OBVIOUS
    <2>2. \A i \in a .. b : source[i] \in S
      <3>1. \A i \in a .. b : i \in 1 .. full
        BY <1>1, <1>2, <2>1
      <3> QED  BY <3>1
    <2> HIDE DEF S
    <2>3. /\ SubSeq(source, a, b) \in Seq(S)
          /\ Len(SubSeq(source, a, b)) = IF a <= b THEN b - a + 1 ELSE 0
          /\ \A i \in 1 .. b - a + 1 : SubSeq(source, a, b)[i] = source[a + i - 1]
      BY <2>2, SubSeqProperties
    <2>4. a <= b /\ b - a + 1 = n /\ \A i \in Int : a + i - 1 = o + i
      BY <2>1
    <2>5. u = SubSeq(source, a, b)
      BY <1>4, <2>1
    <2>6. \A i \in 1 .. n : u[i] = source[o + i]
      <3> TAKE i \in 1 .. n
      <3>1. u[i] = source[a + i - 1] /\ a + i - 1 = o + i
        BY <2>3, <2>4, <2>5
      <3> QED  BY <3>1
    <2> QED  BY <2>3, <2>4, <2>5, <2>6
  <1>6. u = [i \in 1 .. n |-> source[o + i]]
    <2>1. DOMAIN u = 1 .. n /\ u = [i \in DOMAIN u |-> u[i]]
      <3> HIDE DEF S
      <3> QED  BY <1>5
    <2> QED  BY <1>5, <2>1
  <1> QED  BY <1>1, <1>3, <1>4, <1>6 DEF RowSlice

LEMMA SelectedRows ==
    ASSUME NEW t \in Nat \ {0}, NEW n \in Nat \ {0}, NEW r \in 0 .. t - 1,
           NEW full, ShareOf(n, full, t), NEW source, IsRows(source, full)
    PROVE  select_output_partition(source, full, n, r) = RowSlice(source, n, r)
  <1>1. full = t * n /\ full \in Nat /\ Len(source) = full
    <2>1. full = t * n /\ full \in Nat
      BY DEF ShareOf
    <2> QED  BY <2>1, RowsLength
  <1>2. CASE full = n
    <2>1. t = 1
      BY <1>1, <1>2
    <2>2. r = 0 /\ IsRows(source, n)
      BY <1>2, <2>1
    <2>3. RowSlice(source, n, r) = source
      BY <2>2, WholeSlice
    <2> QED  BY <1>1, <1>2, <2>3 DEF select_output_partition
  <1>3. CASE full # n
    <2>1. select_tensor_shard(source, 0, r * n, n) = RowSlice(source, n, r)
      BY <1>1, ViewOfRows
    <2> QED  BY <1>1, <1>3, <2>1 DEF select_output_partition
  <1> QED  BY <1>2, <1>3

LEMMA SelectedColumns ==
    ASSUME NEW t \in Nat \ {0}, NEW n \in Nat \ {0}, NEW r \in 0 .. t - 1,
           NEW full, ShareOf(n, full, t), NEW rows \in Nat \ {0}, NEW source, IsRows(source, rows),
           \A i \in 1 .. rows : IsRows(source[i], full)
    PROVE  select_input_partition(source, full, n, r) = ColumnSlice(source, rows, n, r)
  <1>1. full = t * n /\ full \in Nat /\ Len(source[1]) = full /\ DOMAIN source = 1 .. rows
    <2>1. full = t * n /\ full \in Nat
      BY DEF ShareOf
    <2>2. IsRows(source[1], full)
      OBVIOUS
    <2> QED  BY <2>1, <2>2, RowsLength
  <1>2. CASE full = n
    <2>1. t = 1
      BY <1>1, <1>2
    <2>2. r = 0 /\ \A i \in 1 .. rows : IsRows(source[i], n)
      BY <1>2, <2>1
    <2>3. ColumnSlice(source, rows, n, r) = source
      BY <2>2, WholeColumns
    <2> QED  BY <1>1, <1>2, <2>3 DEF select_input_partition
  <1>3. CASE full # n
    <2>1. PICK o \in Nat : o = r * n /\ o + n <= full
      BY <1>1, SliceRange
    <2>2. select_input_partition(source, full, n, r) =
              [i \in 1 .. rows |-> SubSeq(source[i], o + 1, o + n)]
      <3>1. select_input_partition(source, full, n, r) = select_tensor_shard(source, 1, o, n)
        BY <1>1, <1>3, <2>1 DEF select_input_partition
      <3>2. select_tensor_shard(source, 1, o, n) =
                [i \in DOMAIN source |-> SubSeq(source[i], o + 1, o + n)]
        BY <1>1, <2>1 DEF select_tensor_shard
      <3> QED  BY <1>1, <3>1, <3>2
    <2>3. ASSUME NEW i \in 1 .. rows
          PROVE  SubSeq(source[i], o + 1, o + n) = [j \in 1 .. n |-> source[i][o + j]]
      <3>1. PICK v : v = source[i] /\ IsRows(v, full)
        OBVIOUS
      <3>2. select_tensor_shard(v, 0, r * n, n) = RowSlice(v, n, r)
        BY <1>1, <3>1, ViewOfRows
      <3>3. Len(v) = full
        BY <1>1, <3>1, RowsLength
      <3>4. select_tensor_shard(v, 0, o, n) = SubSeq(v, o + 1, o + n)
        BY <1>1, <2>1, <3>3 DEF select_tensor_shard
      <3> QED  BY <2>1, <3>1, <3>2, <3>4 DEF RowSlice
    <2> QED  BY <2>1, <2>2, <2>3 DEF ColumnSlice
  <1> QED  BY <1>2, <1>3

\* Both shards of a merged parameter: the second lands behind the first.
LEMMA MergedOffset ==
    ASSUME NEW m \in Nat
    PROVE  /\ FoldSeq(+, 0, [i \in 1 .. 0 |-> m]) = 0
           /\ FoldSeq(+, 0, [i \in 1 .. 1 |-> m]) = m
  <1>1. /\ FoldSeq(+, 0, [i \in 1 .. 0 |-> m]) = SumFunctionOnSet([i \in 1 .. 0 |-> m], 1 .. 0)
        /\ FoldSeq(+, 0, [i \in 1 .. 1 |-> m]) = SumFunctionOnSet([i \in 1 .. 1 |-> m], 1 .. 1)
    BY DEF FoldSeq, FoldFunction, SumFunctionOnSet
  <1>2. SumFunctionOnSet([i \in 1 .. 0 |-> m], 1 .. 0) = 0
    <2>1. 1 .. 0 = {}
      OBVIOUS
    <2>2. PICK f : f = [i \in 1 .. 0 |-> m]
      OBVIOUS
    <2> QED  BY <2>1, <2>2, SumEmpty
  <1>3. SumFunctionOnSet([i \in 1 .. 1 |-> m], 1 .. 1) = m
    <2>1. PICK f : f = [i \in 1 .. 1 |-> m]
      OBVIOUS
    <2>2. /\ 1 \notin {} /\ IsFiniteSet({}) /\ \A y \in {} \cup {1} : f[y] \in Int
          /\ 1 .. 1 = {} \cup {1} /\ f[1] = m
      BY <2>1, FS_EmptySet
    <2>3. SumFunctionOnSet(f, {} \cup {1}) = SumFunctionOnSet(f, {}) + f[1]
      BY <2>2, SumInsert
    <2>4. SumFunctionOnSet(f, {}) = 0
      BY SumEmpty
    <2> QED  BY <2>1, <2>2, <2>3, <2>4
  <1> QED  BY <1>1, <1>2, <1>3

LEMMA ShardRows ==
    ASSUME NEW t, NEW r
    PROVE  /\ \A name \in {EmbedName, LMHeadName} : DOMAIN ShardTensor(name, t, r) = 1 .. Vocab \div t
           /\ \A name \in {OName, DownName} : DOMAIN ShardTensor(name, t, r) = 1 .. Hidden
           /\ DOMAIN ShardTensor(NormName, t, r) = 1 .. 1
           /\ \A name \in {QkvWeightName, QkvBiasName} : DOMAIN ShardTensor(name, t, r) =
                  1 .. (NumHeads \div t) + (NumKvHeads \div t) + (NumKvHeads \div t)
           /\ DOMAIN ShardTensor(GateUpName, t, r) = 1 .. (Intermediate \div t) + (Intermediate \div t)
  <1>1. DOMAIN FullTensor(NormName) = 1 .. 1
    <2>1. IsRows(FullTensor(NormName), 1) /\ 1 \in Nat
      BY TensorRows
    <2> QED  BY <2>1, RowsLength
  <1> QED  BY <1>1, ShardTensors DEF RowSlice, ColumnSlice, QkvSlices, Stack, Below

LEMMA VocabLoaded ==
    ASSUME NEW t \in Nat \ {0}, Even(t), NEW r \in 0 .. t - 1, NEW name \in {EmbedName, LMHeadName},
           NEW w, DOMAIN w = 1 .. Vocab \div t,
           NEW c, c = VocabWeightLoader(w, FullTensor(name), Vocab, t, r), c # Throws
    PROVE  c = Overlay(w, 1 .. Vocab \div t, ShardTensor(name, t, r))
  <1>1. PICK v \in Nat \ {0} : v = Vocab \div t /\ Vocab = t * v
    BY Shares
  <1>2. PICK V, W : V = Vocab /\ W = FullTensor(name) /\ IsRows(W, V) /\ ShareOf(v, V, t)
    BY <1>1, TensorRows DEF ShareOf
  <1>3. select_tensor_shard(W, 0, r * v, v) = RowSlice(W, v, r)
    BY <1>2, ViewOfRows
  <1>4. V \in Nat /\ Len(W) = V
    <2>1. V \in Nat
      BY <1>2, Sizes
    <2> QED  BY <1>2, <2>1, RowsLength
  <1>5. c = copy_tensor_to_parameter(RowSlice(W, v, r), w)
    BY <1>1, <1>2, <1>3, <1>4 DEF VocabWeightLoader
  <1>6. ShardTensor(name, t, r) = RowSlice(W, v, r)
    BY <1>1, <1>2, ShardTensors
  <1>7. PICK part : part = RowSlice(W, v, r)
    OBVIOUS
  <1>8. DOMAIN w = 1 .. v /\ v \in Nat
    BY <1>1
  <1>9. c = Overlay(w, 1 .. v, part)
    BY <1>5, <1>7, <1>8, OverlaidParameter
  <1> QED  BY <1>1, <1>6, <1>7, <1>9

LEMMA ColumnsLoaded ==
    ASSUME NEW t \in Nat \ {0}, NEW n \in Nat \ {0}, NEW r \in 0 .. t - 1, NEW full, ShareOf(n, full, t),
           NEW source, IsRows(source, Hidden), \A i \in 1 .. Hidden : IsRows(source[i], full),
           NEW w, DOMAIN w = 1 .. Hidden,
           NEW c, c = RowWeightLoader(w, source, full, t, r), c # Throws
    PROVE  c = Overlay(w, 1 .. Hidden, ColumnSlice(source, Hidden, n, r))
  <1>1. PICK H \in Nat \ {0} : H = Hidden
    BY Sizes
  <1>2. /\ n = full \div t /\ full = t * n /\ n * t = full
    BY DEF ShareOf
  <1>3. PICK part : part = select_input_partition(source, full, n, r)
    OBVIOUS
  <1>4. c = copy_tensor_to_parameter(part, w)
    BY <1>2, <1>3 DEF RowWeightLoader
  <1>5. part = ColumnSlice(source, H, n, r)
    <2>1. IsRows(source, H) /\ \A i \in 1 .. H : IsRows(source[i], full)
      BY <1>1
    <2> QED  BY <1>3, <2>1, SelectedColumns
  <1>6. DOMAIN w = 1 .. H /\ H \in Nat
    BY <1>1
  <1>7. c = Overlay(w, 1 .. H, part)
    BY <1>4, <1>6, OverlaidParameter
  <1> QED  BY <1>1, <1>5, <1>7

\* The stacked parts by their shards, and the rows where they land.
QkvPart(k, a, b, d) == IF k = 0 THEN a ELSE IF k = 1 THEN b ELSE d
QkvRows(k, q, kv) ==
    IF k = 0 THEN 1 .. q ELSE IF k = 1 THEN q + 1 .. q + kv ELSE q + kv + 1 .. q + kv + kv
GateUpPart(k, a, b) == IF k = 0 THEN a ELSE b
GateUpRows(k, m) == IF k = 0 THEN 1 .. m ELSE m + 1 .. m + m

\* The entries that are stacked, in a tensor of a part and twice another.
LEMMA QkvLoaded ==
    ASSUME NEW t \in Nat \ {0}, NEW q \in Nat \ {0}, NEW kv \in Nat \ {0}, NEW r \in 0 .. t - 1,
           NEW Q, NEW KV, ShareOf(q, Q, t), ShareOf(kv, KV, t),
           NEW a, NEW b, NEW d, IsRows(a, Q), IsRows(b, KV), IsRows(d, KV),
           NEW S, S = Stack(RowSlice(a, q, r), RowSlice(b, kv, r), RowSlice(d, kv, r), q, kv),
           NEW w, DOMAIN w = DOMAIN S, NEW k \in 0 .. 2,
           NEW source, source = QkvPart(k, a, b, d),
           NEW c, c # Throws, c = QkvWeightLoader(w, source, k, Q, KV, t, r)
    PROVE  c = Overlay(w, QkvRows(k, q, kv), S)
  <1>1. PICK x, y, z : x = RowSlice(a, q, r) /\ y = RowSlice(b, kv, r) /\ z = RowSlice(d, kv, r)
    OBVIOUS
  <1>2. /\ q = Q \div t /\ kv = KV \div t
    BY DEF ShareOf
  <1>3. /\ DOMAIN S = 1 .. q + kv + kv
        /\ \A i \in 1 .. q : S[i] = x[i]
        /\ \A j \in 1 .. kv : S[q + j] = y[j] /\ S[q + kv + j] = z[j]
    <2>1. S = Stack(x, y, z, q, kv) /\ q \in Nat /\ kv \in Nat
      BY <1>1
    <2>2. PICK T : T = S
      OBVIOUS
    <2>3. /\ DOMAIN T = 1 .. q + kv + kv
          /\ \A i \in 1 .. q : T[i] = x[i]
          /\ \A j \in 1 .. kv : T[q + j] = y[j] /\ T[q + kv + j] = z[j]
      <3>1. T = Stack(x, y, z, q, kv)
        BY <2>1, <2>2
      <3> QED  BY ONLY <2>1, <3>1, StackEntries
    <2> QED  BY <2>2, <2>3
  <1> USE DEF QkvPart, QkvRows
  <1>4. PICK o0, o1, o2, N \in Nat : o0 = 0 /\ o1 = q /\ o2 = q + kv /\ N = q + kv + kv
    OBVIOUS
  <1>5. DOMAIN w = 1 .. N
    BY <1>3, <1>4
  <1>6. CASE k = 0
    <2>1. select_output_partition(a, Q, q, r) = x
      BY <1>1, SelectedRows
    <2>a. QkvDestination(k, q, kv).start = o0 /\ QkvDestination(k, q, kv).size = q
      BY <1>4, <1>6 DEF QkvDestination
    <2>b. source = a
      BY <1>6
    <2>c. c = copy_tensor_to_rows(select_output_partition(source, Q, Q \div t, r), w,
                                  QkvDestination(k, q, kv).start, QkvDestination(k, q, kv).size)
      BY <1>2, <1>6 DEF QkvWeightLoader
    <2>2. c = copy_tensor_to_rows(x, w, o0, q)
      BY <1>2, <2>1, <2>a, <2>b, <2>c
    <2>3. LiesBehind(S, x, o0, q)
      BY <1>3, <1>4 DEF LiesBehind
    <2>4. c = Overlay(w, o0 + 1 .. o0 + q, S)
      BY <1>5, <2>2, <2>3, OverlaidRows
    <2>5. o0 + 1 = 1 /\ o0 + q = q
      BY <1>4
    <2> QED  BY <1>6, <2>4, <2>5
  <1>7. CASE k = 1
    <2>1. select_output_partition(b, KV, kv, r) = y
      BY <1>1, SelectedRows
    <2>2. c = copy_tensor_to_rows(y, w, o1, kv)
      BY <1>2, <1>4, <1>7, <2>1 DEF QkvWeightLoader, QkvDestination
    <2>3. LiesBehind(S, y, o1, kv)
      BY <1>3, <1>4 DEF LiesBehind
    <2>4. c = Overlay(w, o1 + 1 .. o1 + kv, S)
      BY <1>5, <2>2, <2>3, OverlaidRows
    <2> QED  BY <1>4, <1>7, <2>4
  <1>8. CASE k = 2
    <2>1. select_output_partition(d, KV, kv, r) = z
      BY <1>1, SelectedRows
    <2>2. c = copy_tensor_to_rows(z, w, o2, kv)
      BY <1>2, <1>4, <1>8, <2>1 DEF QkvWeightLoader, QkvDestination
    <2>3. LiesBehind(S, z, o2, kv)
      BY <1>3, <1>4 DEF LiesBehind
    <2>4. c = Overlay(w, o2 + 1 .. o2 + kv, S)
      BY <1>5, <2>2, <2>3, OverlaidRows
    <2> QED  BY <1>4, <1>8, <2>4
  <1> QED  BY <1>6, <1>7, <1>8

LEMMA GateUpLoaded ==
    ASSUME NEW t \in Nat \ {0}, NEW m \in Nat \ {0}, NEW r \in 0 .. t - 1, NEW M, ShareOf(m, M, t),
           NEW a, NEW b, IsRows(a, M), IsRows(b, M),
           NEW S, S = Below(RowSlice(a, m, r), RowSlice(b, m, r), m),
           NEW w, DOMAIN w = DOMAIN S, NEW k \in 0 .. 1,
           NEW source, source = GateUpPart(k, a, b),
           NEW c, c # Throws, c = MergedWeightLoader(w, source, k, <<M, M>>, t, r)
    PROVE  c = Overlay(w, GateUpRows(k, m), S)
  <1>1. PICK x, y : x = RowSlice(a, m, r) /\ y = RowSlice(b, m, r)
    OBVIOUS
  <1>2. m = M \div t
    BY DEF ShareOf
  <1>3. /\ DOMAIN S = 1 .. m + m
        /\ \A i \in 1 .. m : S[i] = x[i]
        /\ \A j \in 1 .. m : S[m + j] = y[j]
    <2>1. S = Below(x, y, m)
      BY <1>1
    <2>2. \A j \in 1 .. m : S[m + j] = y[j]
      <3> TAKE j \in 1 .. m
      <3>1. PICK i \in Int : i = m + j
        OBVIOUS
      <3>2. i \in 1 .. m + m /\ ~ (i <= m) /\ i - m = j
        BY <3>1
      <3>3. S[i] = y[i - m]
        BY <2>1, <3>2 DEF Below
      <3> QED  BY <3>1, <3>2, <3>3
    <2>3. \A i \in 1 .. m : S[i] = x[i]
      <3> TAKE i \in 1 .. m
      <3>1. i \in 1 .. m + m /\ i <= m
        OBVIOUS
      <3> QED  BY <2>1, <3>1 DEF Below
    <2> QED  BY <2>1, <2>2, <2>3 DEF Below
  <1> USE DEF GateUpPart, GateUpRows
  <1>4. PICK o0, N \in Nat : o0 = 0 /\ N = m + m
    OBVIOUS
  <1>5. DOMAIN w = 1 .. N
    BY <1>3, <1>4
  <1>7. PICK offset : offset = FoldSeq(+, 0, [i \in 1 .. k |-> <<M, M>>[(i - 1) + 1] \div t])
    OBVIOUS
  <1>8. offset = IF k = 0 THEN o0 ELSE m
    <2>1. \A i \in 1 .. k : <<M, M>>[(i - 1) + 1] \div t = m
      BY <1>2
    <2>2. [i \in 1 .. k |-> <<M, M>>[(i - 1) + 1] \div t] = [i \in 1 .. k |-> m]
      BY <2>1
    <2>3. offset = FoldSeq(+, 0, [i \in 1 .. k |-> m])
      BY <1>7, <2>2
    <2>4. CASE k = 0
      <3>1. offset = FoldSeq(+, 0, [i \in 1 .. 0 |-> m])
        BY <2>3, <2>4
      <3> QED  BY <1>4, <2>4, <3>1, MergedOffset
    <2>5. CASE k = 1
      <3>1. offset = FoldSeq(+, 0, [i \in 1 .. 1 |-> m])
        BY <2>3, <2>5
      <3> QED  BY <2>5, <3>1, MergedOffset
    <2> QED  BY <2>4, <2>5
  <1>9. c = copy_tensor_to_rows(select_output_partition(source, M, m, r), w, offset, m)
    <2>1. <<M, M>>[k + 1] = M
      OBVIOUS
    <2> QED  BY <1>2, <1>7, <2>1 DEF MergedWeightLoader
  <1>10. CASE k = 0
    <2>1. select_output_partition(a, M, m, r) = x
      BY <1>1, SelectedRows
    <2>2. c = copy_tensor_to_rows(x, w, o0, m)
      BY <1>8, <1>9, <1>10, <2>1
    <2>3. LiesBehind(S, x, o0, m)
      BY <1>3, <1>4 DEF LiesBehind
    <2>4. c = Overlay(w, o0 + 1 .. o0 + m, S)
      BY <1>5, <2>2, <2>3, OverlaidRows
    <2>5. o0 + 1 = 1 /\ o0 + m = m
      BY <1>4
    <2> QED  BY <1>10, <2>4, <2>5
  <1>11. CASE k = 1
    <2>1. select_output_partition(b, M, m, r) = y
      BY <1>1, SelectedRows
    <2>2. c = copy_tensor_to_rows(y, w, m, m)
      BY <1>8, <1>9, <1>11, <2>1
    <2>3. LiesBehind(S, y, m, m)
      BY <1>3 DEF LiesBehind
    <2>4. c = Overlay(w, m + 1 .. m + m, S)
      BY <1>5, <2>2, <2>3, OverlaidRows
    <2> QED  BY <1>11, <2>4
  <1> QED  BY <1>10, <1>11

\* A tensor that is loaded as a whole.
LEMMA WholeLoaded ==
    ASSUME NEW N \in Nat, NEW source, IsRows(source, N), NEW w, DOMAIN w = 1 .. N,
           NEW c, c = ColumnWeightLoader(w, source, N, 1, 0), c # Throws
    PROVE  c = Overlay(w, 1 .. N, source)
  <1>1. N \div 1 = N /\ Len(source) = N
    BY RowsLength
  <1>2. c = copy_tensor_to_parameter(source, w)
    BY <1>1 DEF ColumnWeightLoader, select_output_partition
  <1> QED  BY <1>2, OverlaidParameter

-----------------------------------------------------------------------------
(* Loading an entry *)

\* What is loaded for an entry of the checkpoint.
Loaded(r, e) ==
    LET name == resolve_packed_parameter_name(e)
    IN  ParameterLoadFn(r, name.target, name.shard, CheckpointTensor(e))

LEMMA EntryKinds ==
    ASSUME cfg \in Configurations, NEW e \in CheckpointEntries
    PROVE  \/ e \in {EmbedName, OName, DownName, NormName, GateName, UpName}
           \/ e = LMHeadName /\ ~ cfg.tie
           \/ e = QkvWeightName /\ StackedQkv
           \/ e = GateUpName /\ StackedGateUp
           \/ \E k \in 1 .. 3 : e = AttnWeight(Source(k))
           \/ \E k \in 1 .. 3 : e = AttnBias(Source(k)) /\ cfg.qkv_bias
           \/ e = ForeignName /\ cfg.style = "foreign"
  <1>1. QName = AttnWeight(Source(1)) /\ KName = AttnWeight(Source(2)) /\ VName = AttnWeight(Source(3))
    BY Mapping, AttnNames
  <1>2. \A p \in {"q_proj", "k_proj", "v_proj"} : \E k \in 1 .. 3 : p = Source(k)
    <2>1. 1 \in 1 .. 3 /\ 2 \in 1 .. 3 /\ 3 \in 1 .. 3
      OBVIOUS
    <2> QED  BY <2>1, Mapping
  <1>3. \A p : Bias(Attn(p)) = AttnBias(p)
    BY AttnNames
  <1>4. ASSUME e \in {Bias(Attn(p)) : p \in {"q_proj", "k_proj", "v_proj"}}
        PROVE  \E k \in 1 .. 3 : e = AttnBias(Source(k))
    <2>1. PICK p \in {"q_proj", "k_proj", "v_proj"} : e = Bias(Attn(p))
      BY <1>4
    <2> QED  BY <1>2, <1>3, <2>1
  <1>5. ASSUME e \in {QName, KName, VName}
        PROVE  \E k \in 1 .. 3 : e = AttnWeight(Source(k))
    <2>1. 1 \in 1 .. 3 /\ 2 \in 1 .. 3 /\ 3 \in 1 .. 3
      OBVIOUS
    <2> QED  BY <1>1, <1>5, <2>1
  <1>6. \/ e \in {EmbedName, OName, DownName, NormName, GateName, UpName}
        \/ e = LMHeadName /\ ~ cfg.tie
        \/ e = QkvWeightName /\ StackedQkv
        \/ e = GateUpName /\ StackedGateUp
        \/ e \in {QName, KName, VName}
        \/ e \in {Bias(Attn(p)) : p \in {"q_proj", "k_proj", "v_proj"}} /\ cfg.qkv_bias
        \/ e = ForeignName /\ cfg.style = "foreign"
    BY DEF CheckpointEntries
  <1> QED  BY <1>4, <1>5, <1>6

LEMMA LoadFns ==
    ASSUME NEW r, NEW shard, NEW source
    PROVE  LET w(name) == param[r][Storage(name)]
               fn(name) == ParameterLoadFn(r, name, shard, source)
           IN  /\ \A name \in {EmbedName, LMHeadName} :
                      fn(name) = VocabWeightLoader(w(name), source, Vocab, cfg.tp, r)
               /\ shard # NoShard => fn(QkvWeightName) =
                      QkvWeightLoader(w(QkvWeightName), source, shard, NumHeads, NumKvHeads,
                                      cfg.tp, r)
               /\ shard = NoShard => fn(QkvWeightName) =
                      ColumnWeightLoader(w(QkvWeightName), source, Len(w(QkvWeightName)), 1, 0)
               /\ fn(QkvBiasName) =
                      QkvWeightLoader(w(QkvBiasName), source, shard, NumHeads, NumKvHeads,
                                      cfg.tp, r)
               /\ shard # NoShard => fn(GateUpName) =
                      MergedWeightLoader(w(GateUpName), source, shard,
                                         <<Intermediate, Intermediate>>, cfg.tp, r)
               /\ shard = NoShard => fn(GateUpName) =
                      ColumnWeightLoader(w(GateUpName), source, 2 * Intermediate, cfg.tp, r)
               /\ fn(OName) = RowWeightLoader(w(OName), source, NumHeads, cfg.tp, r)
               /\ fn(DownName) = RowWeightLoader(w(DownName), source, Intermediate, cfg.tp, r)
               /\ fn(NormName) = copy_tensor_to_rows(source, w(NormName), 0, Len(w(NormName)))
  <1> DEFINE w(name) == param[r][Storage(name)]
             fn(name) == ParameterLoadFn(r, name, shard, source)
  <1> USE NameTags, AttnNames
  <1>0. fn(EmbedName) = VocabWeightLoader(w(EmbedName), source, Vocab, cfg.tp, r)
    BY DEF ParameterLoadFn
  <1>1. fn(LMHeadName) = VocabWeightLoader(w(LMHeadName), source, Vocab, cfg.tp, r)
    BY DEF ParameterLoadFn
  <1>2. ASSUME shard # NoShard
        PROVE  fn(QkvWeightName) = QkvWeightLoader(w(QkvWeightName), source, shard, NumHeads,
                                                   NumKvHeads, cfg.tp, r)
    BY <1>2 DEF ParameterLoadFn
  <1>3. ASSUME shard = NoShard
        PROVE  fn(QkvWeightName) =
                   ColumnWeightLoader(w(QkvWeightName), source, Len(w(QkvWeightName)), 1, 0)
    BY <1>3 DEF ParameterLoadFn
  <1>4. fn(QkvBiasName) = QkvWeightLoader(w(QkvBiasName), source, shard, NumHeads, NumKvHeads,
                                          cfg.tp, r)
    BY DEF ParameterLoadFn, QkvBiasLoader
  <1>5. ASSUME shard # NoShard
        PROVE  fn(GateUpName) = MergedWeightLoader(w(GateUpName), source, shard,
                                                   <<Intermediate, Intermediate>>, cfg.tp, r)
    BY <1>5 DEF ParameterLoadFn
  <1>6. ASSUME shard = NoShard
        PROVE  fn(GateUpName) = ColumnWeightLoader(w(GateUpName), source, 2 * Intermediate,
                                                   cfg.tp, r)
    BY <1>6 DEF ParameterLoadFn
  <1>7. fn(OName) = RowWeightLoader(w(OName), source, NumHeads, cfg.tp, r)
    BY DEF ParameterLoadFn
  <1>8. fn(DownName) = RowWeightLoader(w(DownName), source, Intermediate, cfg.tp, r)
    BY DEF ParameterLoadFn
  <1>9. fn(NormName) = copy_tensor_to_rows(source, w(NormName), 0, Len(w(NormName)))
    BY DEF ParameterLoadFn
  <1> HIDE DEF fn, w
  <1>10. /\ \A name \in {EmbedName, LMHeadName} :
                fn(name) = VocabWeightLoader(w(name), source, Vocab, cfg.tp, r)
         /\ shard # NoShard => fn(QkvWeightName) =
                QkvWeightLoader(w(QkvWeightName), source, shard, NumHeads, NumKvHeads, cfg.tp, r)
         /\ shard = NoShard => fn(QkvWeightName) =
                ColumnWeightLoader(w(QkvWeightName), source, Len(w(QkvWeightName)), 1, 0)
         /\ fn(QkvBiasName) =
                QkvWeightLoader(w(QkvBiasName), source, shard, NumHeads, NumKvHeads, cfg.tp, r)
         /\ shard # NoShard => fn(GateUpName) =
                MergedWeightLoader(w(GateUpName), source, shard, <<Intermediate, Intermediate>>,
                                   cfg.tp, r)
         /\ shard = NoShard => fn(GateUpName) =
                ColumnWeightLoader(w(GateUpName), source, 2 * Intermediate, cfg.tp, r)
         /\ fn(OName) = RowWeightLoader(w(OName), source, NumHeads, cfg.tp, r)
         /\ fn(DownName) = RowWeightLoader(w(DownName), source, Intermediate, cfg.tp, r)
         /\ fn(NormName) = copy_tensor_to_rows(source, w(NormName), 0, Len(w(NormName)))
    BY <1>0, <1>1, <1>2, <1>3, <1>4, <1>5, <1>6, <1>7, <1>8, <1>9
  <1> QED  BY <1>10 DEF fn, w

\* No loader changes the shape of a parameter.
LEMMA ShapeKept ==
    ASSUME NEW r, NEW name \in RegisteredNames, NEW shard, NEW source,
           NEW c, c = ParameterLoadFn(r, name, shard, source), c # Throws
    PROVE  SameRows(c, param[r][Storage(name)])
  <1>1. PICK w : w = param[r][Storage(name)]
    OBVIOUS
  <1>2. ASSUME NEW p, NEW start, NEW size, c = copy_tensor_to_rows(p, w, start, size)
        PROVE  SameRows(c, w)
    BY <1>2, LoadersKeepShape
  <1>3. ASSUME NEW p, c = copy_tensor_to_parameter(p, w)
        PROVE  SameRows(c, w)
    BY <1>3, LoadersKeepShape
  <1>4. ASSUME name \in {EmbedName, LMHeadName}
        PROVE  SameRows(c, w)
    <2>1. c = VocabWeightLoader(w, source, Vocab, cfg.tp, r)
      BY <1>1, <1>4, LoadFns
    <2> QED  BY <1>3, <2>1 DEF VocabWeightLoader
  <1>5. ASSUME NEW s, c = QkvWeightLoader(w, source, s, NumHeads, NumKvHeads, cfg.tp, r)
        PROVE  SameRows(c, w)
    BY <1>2, <1>5 DEF QkvWeightLoader
  <1>6. ASSUME NEW a, NEW b, NEW d, c = ColumnWeightLoader(w, source, a, b, d)
        PROVE  SameRows(c, w)
    BY <1>3, <1>6 DEF ColumnWeightLoader
  <1>7. ASSUME NEW a, c = RowWeightLoader(w, source, a, cfg.tp, r)
        PROVE  SameRows(c, w)
    BY <1>3, <1>7 DEF RowWeightLoader
  <1>8. ASSUME NEW s, NEW a, c = MergedWeightLoader(w, source, s, a, cfg.tp, r)
        PROVE  SameRows(c, w)
    BY <1>2, <1>8 DEF MergedWeightLoader
  <1>9. CASE name = QkvWeightName
    <2>1. \/ c = QkvWeightLoader(w, source, shard, NumHeads, NumKvHeads, cfg.tp, r)
          \/ c = ColumnWeightLoader(w, source, Len(w), 1, 0)
      BY <1>1, <1>9, LoadFns
    <2> QED  BY <1>1, <1>5, <1>6, <2>1
  <1>10. CASE name = QkvBiasName
    <2>1. c = QkvWeightLoader(w, source, shard, NumHeads, NumKvHeads, cfg.tp, r)
      BY <1>1, <1>10, LoadFns
    <2> QED  BY <1>1, <1>5, <2>1
  <1>11. CASE name = GateUpName
    <2>1. \/ c = MergedWeightLoader(w, source, shard, <<Intermediate, Intermediate>>, cfg.tp, r)
          \/ c = ColumnWeightLoader(w, source, 2 * Intermediate, cfg.tp, r)
      BY <1>1, <1>11, LoadFns
    <2> QED  BY <1>1, <1>6, <1>8, <2>1
  <1>12. CASE name \in {OName, DownName}
    <2>1. \/ c = RowWeightLoader(w, source, NumHeads, cfg.tp, r)
          \/ c = RowWeightLoader(w, source, Intermediate, cfg.tp, r)
      BY <1>1, <1>12, LoadFns
    <2> QED  BY <1>1, <1>7, <2>1
  <1>13. CASE name = NormName
    <2>1. c = copy_tensor_to_rows(source, w, 0, Len(w))
      BY <1>1, <1>13, LoadFns
    <2> QED  BY <1>1, <1>2, <2>1
  <1> QED  BY <1>1, <1>4, <1>9, <1>10, <1>11, <1>12, <1>13 DEF RegisteredNames

LEMMA EntryTensors ==
    /\ \A e \in {EmbedName, LMHeadName, OName, DownName, NormName, GateName, UpName} :
           CheckpointTensor(e) = FullTensor(e)
    /\ \A k \in 1 .. 3 : /\ CheckpointTensor(AttnWeight(Source(k))) = FullTensor(AttnWeight(Source(k)))
                         /\ CheckpointTensor(AttnBias(Source(k))) = FullTensor(AttnBias(Source(k)))
  <1>1. ASSUME NEW e, Leaf(e) \notin {"qkv_proj", "gate_up_proj", "rotary"}
        PROVE  CheckpointTensor(e) = FullTensor(e)
    BY <1>1, NameTags, AttnNames DEF CheckpointTensor
  <1>2. ASSUME NEW k \in 1 .. 3
        PROVE  Source(k) \notin {"qkv_proj", "gate_up_proj", "rotary"}
    <2>1. k = 1 \/ k = 2 \/ k = 3
      OBVIOUS
    <2> QED  BY <2>1, Mapping
  <1>3. ASSUME NEW k \in 1 .. 3
        PROVE  /\ CheckpointTensor(AttnWeight(Source(k))) = FullTensor(AttnWeight(Source(k)))
               /\ CheckpointTensor(AttnBias(Source(k))) = FullTensor(AttnBias(Source(k)))
    BY <1>1, <1>2, NameTags
  <1> QED  BY <1>1, <1>3, NameTags

LEMMA EntryRows ==
    ASSUME NEW t
    PROVE  LET q == NumHeads \div t
               kv == NumKvHeads \div t
               m == Intermediate \div t
           IN  /\ RowsOf(AttnWeight("q_proj"), t) = 1 .. q
               /\ RowsOf(AttnBias("q_proj"), t) = 1 .. q
               /\ RowsOf(AttnWeight("k_proj"), t) = q + 1 .. q + kv
               /\ RowsOf(AttnBias("k_proj"), t) = q + 1 .. q + kv
               /\ RowsOf(AttnWeight("v_proj"), t) = q + kv + 1 .. q + kv + kv
               /\ RowsOf(AttnBias("v_proj"), t) = q + kv + 1 .. q + kv + kv
               /\ RowsOf(GateName, t) = 1 .. m
               /\ RowsOf(UpName, t) = m + 1 .. m + m
               /\ \A e \in {EmbedName, LMHeadName, OName, DownName, NormName, QkvWeightName,
                            GateUpName} : RowsOf(e, t) = DOMAIN ShardTensor(e, t, 0)
  <1> USE NameTags, AttnNames
  <1> DEFINE q == NumHeads \div t
             kv == NumKvHeads \div t
             m == Intermediate \div t
  <1>1. RowsOf(AttnWeight("q_proj"), t) = 1 .. q /\ RowsOf(AttnBias("q_proj"), t) = 1 .. q
    BY DEF RowsOf
  <1>2. /\ RowsOf(AttnWeight("k_proj"), t) = q + 1 .. q + kv
        /\ RowsOf(AttnBias("k_proj"), t) = q + 1 .. q + kv
    BY DEF RowsOf
  <1>3. /\ RowsOf(AttnWeight("v_proj"), t) = q + kv + 1 .. q + kv + kv
        /\ RowsOf(AttnBias("v_proj"), t) = q + kv + 1 .. q + kv + kv
    BY DEF RowsOf
  <1>4. RowsOf(GateName, t) = 1 .. m
    BY DEF RowsOf
  <1>5. RowsOf(UpName, t) = m + 1 .. m + m
    BY DEF RowsOf
  <1>6. ASSUME NEW e, Leaf(e) \notin {"q_proj", "k_proj", "v_proj", "gate_proj", "up_proj"}
        PROVE  RowsOf(e, t) = DOMAIN ShardTensor(e, t, 0)
    BY <1>6 DEF RowsOf
  <1>7. \A e \in {EmbedName, LMHeadName, OName, DownName, NormName, QkvWeightName, GateUpName} :
            RowsOf(e, t) = DOMAIN ShardTensor(e, t, 0)
    BY <1>6
  <1> QED  BY <1>1, <1>2, <1>3, <1>4, <1>5, <1>7

\* A stacked entry of the attention, a weight or a bias, and of the MLP.
LEMMA QkvParts ==
    ASSUME NEW t \in Nat \ {0}, Even(t), NEW r \in 0 .. t - 1,
           NEW n1, NEW n2, NEW n3,
           IsRows(FullTensor(n1), NumHeads), IsRows(FullTensor(n2), NumKvHeads),
           IsRows(FullTensor(n3), NumKvHeads),
           NEW S, S = QkvSlices(n1, n2, n3, t, r),
           NEW w, DOMAIN w = DOMAIN S, NEW k \in 0 .. 2,
           NEW source, source = QkvPart(k, FullTensor(n1), FullTensor(n2), FullTensor(n3)),
           NEW c, c # Throws, c = QkvWeightLoader(w, source, k, NumHeads, NumKvHeads, t, r)
    PROVE  c = Overlay(w, QkvRows(k, NumHeads \div t, NumKvHeads \div t), S)
  <1>1. PICK q, kv \in Nat \ {0} : /\ q = NumHeads \div t /\ NumHeads = t * q
                                   /\ kv = NumKvHeads \div t /\ NumKvHeads = t * kv
    BY Shares
  <1>2. PICK Q, KV : Q = NumHeads /\ KV = NumKvHeads /\ ShareOf(q, Q, t) /\ ShareOf(kv, KV, t)
    BY <1>1 DEF ShareOf
  <1>3. PICK a, b, d : a = FullTensor(n1) /\ b = FullTensor(n2) /\ d = FullTensor(n3)
    OBVIOUS
  <1>4. S = Stack(RowSlice(a, q, r), RowSlice(b, kv, r), RowSlice(d, kv, r), q, kv)
    BY <1>1, <1>3 DEF QkvSlices
  <1>5. /\ c = QkvWeightLoader(w, source, k, Q, KV, t, r)
        /\ source = QkvPart(k, a, b, d)
    BY <1>2, <1>3
  <1>6. IsRows(a, Q) /\ IsRows(b, KV) /\ IsRows(d, KV)
    BY <1>2, <1>3
  <1>7. c = Overlay(w, QkvRows(k, q, kv), S)
    BY <1>2, <1>4, <1>5, <1>6, QkvLoaded
  <1> QED  BY <1>1, <1>7

LEMMA GateUpParts ==
    ASSUME NEW t \in Nat \ {0}, Even(t), NEW r \in 0 .. t - 1,
           NEW S, S = ShardTensor(GateUpName, t, r), NEW w, DOMAIN w = DOMAIN S, NEW k \in 0 .. 1,
           NEW source, source = GateUpPart(k, FullTensor(GateName), FullTensor(UpName)),
           NEW c, c # Throws,
           c = MergedWeightLoader(w, source, k, <<Intermediate, Intermediate>>, t, r)
    PROVE  c = Overlay(w, GateUpRows(k, Intermediate \div t), S)
  <1>1. PICK m \in Nat \ {0} : m = Intermediate \div t /\ Intermediate = t * m
    BY Shares
  <1>2. PICK M : M = Intermediate /\ ShareOf(m, M, t)
    BY <1>1 DEF ShareOf
  <1>3. PICK a, b : a = FullTensor(GateName) /\ b = FullTensor(UpName)
    OBVIOUS
  <1>4. IsRows(a, M) /\ IsRows(b, M)
    BY <1>2, <1>3, TensorRows
  <1>5. S = Below(RowSlice(a, m, r), RowSlice(b, m, r), m)
    BY <1>1, <1>3, ShardTensors
  <1>6. /\ c = MergedWeightLoader(w, source, k, <<M, M>>, t, r)
        /\ source = GateUpPart(k, a, b)
    BY <1>2, <1>3
  <1>7. c = Overlay(w, GateUpRows(k, m), S)
    BY <1>2, <1>4, <1>5, <1>6, GateUpLoaded
  <1> QED  BY <1>1, <1>7

LEMMA EntryTargets ==
    ASSUME cfg \in Configurations, NEW e \in CheckpointEntries, e # ForeignName
    PROVE  Target(e) \in RegisteredNames /\ Storage(Target(e)) = Target(e)
  <1>1. \A name \in RegisteredNames : name # LMHeadName => Storage(name) = name
    BY DEF Storage
  <1>2. CASE e \in {EmbedName, OName, DownName, NormName, QkvWeightName, GateUpName}
    <2>1. Target(e) = e
      BY <1>2, PlainEntries DEF Target
    <2>2. e # LMHeadName
      BY <1>2, NameTags, AttnNames
    <2> QED  BY <1>1, <1>2, <2>1, <2>2 DEF RegisteredNames
  <1>3. CASE e = LMHeadName /\ ~ cfg.tie
    <2>1. Target(e) = e
      BY <1>3, PlainEntries DEF Target
    <2> QED  BY <1>3, <2>1 DEF RegisteredNames, Storage
  <1>4. CASE e \in {GateName, UpName}
    <2>1. Target(e) = GateUpName
      BY <1>4, PackedEntries DEF Target
    <2>2. GateUpName # LMHeadName
      BY NameTags
    <2> QED  BY <1>1, <2>1, <2>2 DEF RegisteredNames
  <1>5. ASSUME NEW k \in 1 .. 3, e = AttnWeight(Source(k))
        PROVE  Target(e) \in RegisteredNames /\ Storage(Target(e)) = Target(e)
    <2>1. Target(e) = QkvWeightName
      BY <1>5, PackedEntries DEF Target
    <2>2. QkvWeightName # LMHeadName
      BY NameTags, AttnNames
    <2> QED  BY <1>1, <2>1, <2>2 DEF RegisteredNames
  <1>6. ASSUME NEW k \in 1 .. 3, e = AttnBias(Source(k)), cfg.qkv_bias
        PROVE  Target(e) \in RegisteredNames /\ Storage(Target(e)) = Target(e)
    <2>1. Target(e) = QkvBiasName
      BY <1>6, PackedEntries DEF Target
    <2>2. QkvBiasName # LMHeadName
      BY NameTags, AttnNames
    <2> QED  BY <1>1, <1>6, <2>1, <2>2 DEF RegisteredNames
  <1> QED  BY <1>2, <1>3, <1>4, <1>5, <1>6, EntryKinds

\* Every entry belongs to a parameter, unless the checkpoint is foreign.
LEMMA NoForeignEntry ==
    ASSUME cfg \in Configurations, ~ Hopeless, NEW e \in CheckpointEntries
    PROVE  e # ForeignName
  <1>1. cfg.style # "foreign"
    BY DEF Hopeless
  <1>2. ForeignName \notin {EmbedName, OName, DownName, NormName, GateName, UpName, LMHeadName,
                            QkvWeightName, GateUpName}
    BY NameTags, AttnNames
  <1>3. \A k \in 1 .. 3 : ForeignName # AttnWeight(Source(k)) /\ ForeignName # AttnBias(Source(k))
    <2>1. \A k \in 1 .. 3 : Source(k) # "rotary"
      <3> TAKE k \in 1 .. 3
      <3>1. k = 1 \/ k = 2 \/ k = 3
        OBVIOUS
      <3> QED  BY <3>1, Mapping
    <2> QED  BY <2>1, NameTags
  <1> QED  BY <1>1, <1>2, <1>3, EntryKinds

\* Loading an entry gives its rows of the parameter what the rank has to hold.
LEMMA EntryLoaded ==
    ASSUME SlicesPartsOnly, cfg \in Configurations, Divisible(cfg), ~ Hopeless,
           NEW r \in Ranks, NEW e \in CheckpointEntries, NEW w, w = param[r][Target(e)],
           DOMAIN w = DOMAIN ShardTensor(Target(e), cfg.tp, r),
           NEW c, c = Loaded(r, e), c # Throws
    PROVE  c = Overlay(w, RowsOf(e, cfg.tp), ShardTensor(Target(e), cfg.tp, r))
  <1>1. PICK t \in Nat \ {0} : t = cfg.tp /\ Even(t) /\ r \in 0 .. t - 1
    BY ConfigurationFacts, RankFacts
  <1>2. e # ForeignName
    BY NoForeignEntry
  <1>3. w = param[r][Storage(Target(e))]
    BY <1>2, EntryTargets
  <1>4. PICK S : S = ShardTensor(Target(e), t, r) /\ DOMAIN w = DOMAIN S
    BY <1>1
  <1> DEFINE name == resolve_packed_parameter_name(e)
             source == CheckpointTensor(e)
  <1>5. c = ParameterLoadFn(r, name.target, name.shard, source) /\ name.target = Target(e)
    BY DEF Loaded, Target
  <1> HIDE DEF name, source
  <1>6. CASE e \in {EmbedName, LMHeadName}
    <2>1. Target(e) = e /\ source = FullTensor(e)
      BY <1>6, PlainEntries, EntryTensors DEF Target, source
    <2>2. c = VocabWeightLoader(w, FullTensor(e), Vocab, t, r)
      BY <1>1, <1>3, <1>5, <1>6, <2>1, LoadFns
    <2>3. DOMAIN w = 1 .. Vocab \div t /\ RowsOf(e, t) = 1 .. Vocab \div t
      BY <1>4, <1>6, <2>1, ShardRows, EntryRows
    <2>4. c = Overlay(w, 1 .. Vocab \div t, ShardTensor(e, t, r))
      BY <1>1, <1>6, <2>2, <2>3, VocabLoaded
    <2> QED  BY <1>1, <2>1, <2>3, <2>4
  <1>7. CASE e \in {OName, DownName}
    <2>1. Target(e) = e /\ source = FullTensor(e)
      BY <1>7, PlainEntries, EntryTensors DEF Target, source
    <2>2. PICK full : full = IF e = OName THEN NumHeads ELSE Intermediate
      OBVIOUS
    <2>3. PICK n \in Nat \ {0} : ShareOf(n, full, t)
      <3>1. PICK q, m \in Nat \ {0} : /\ q = NumHeads \div t /\ NumHeads = t * q
                                      /\ m = Intermediate \div t /\ Intermediate = t * m
        BY <1>1, Shares
      <3>2. ShareOf(q, NumHeads, t) /\ ShareOf(m, Intermediate, t)
        BY <3>1 DEF ShareOf
      <3> QED  BY <2>2, <3>2
    <2>4. OName # DownName
      BY NameTags
    <2>5. c = RowWeightLoader(w, FullTensor(e), full, t, r)
      BY <1>1, <1>3, <1>5, <1>7, <2>1, <2>2, <2>4, LoadFns
    <2>6. DOMAIN w = 1 .. Hidden /\ RowsOf(e, t) = 1 .. Hidden
      BY <1>4, <1>7, <2>1, ShardRows, EntryRows
    <2>7. PICK W : W = FullTensor(e) /\ IsRows(W, Hidden) /\ \A i \in 1 .. Hidden : IsRows(W[i], full)
      BY <1>7, <2>2, <2>4, TensorRows
    <2>8. c = Overlay(w, 1 .. Hidden, ColumnSlice(W, Hidden, n, r))
      BY <1>1, <2>3, <2>5, <2>6, <2>7, ColumnsLoaded
    <2>9. ShardTensor(e, t, r) = ColumnSlice(W, Hidden, n, r)
      <3>1. n = full \div t
        BY <2>3 DEF ShareOf
      <3> QED  BY <1>7, <2>2, <2>4, <2>7, <3>1, ShardTensors
    <2> QED  BY <1>1, <2>1, <2>6, <2>8, <2>9
  <1>8. CASE e = NormName
    <2>1. Target(e) = e /\ source = FullTensor(e)
      BY <1>8, PlainEntries, EntryTensors DEF Target, source
    <2>2. DOMAIN w = 1 .. 1 /\ RowsOf(e, t) = 1 .. 1 /\ S = FullTensor(e)
      BY <1>4, <1>8, <2>1, ShardRows, EntryRows, ShardTensors
    <2>3. Len(w) = 1
      BY <2>2
    <2>4. c = copy_tensor_to_rows(S, w, 0, 1)
      <3>1. c = ParameterLoadFn(r, NormName, name.shard, S)
        BY <1>5, <1>8, <2>1, <2>2
      <3>2. w = param[r][Storage(NormName)]
        BY <1>3, <1>8, <2>1
      <3>3. ParameterLoadFn(r, NormName, name.shard, S) = copy_tensor_to_rows(S, w, 0, Len(w))
        BY <3>2, LoadFns
      <3> QED  BY <2>3, <3>1, <3>3
    <2>5. PICK o, N \in Nat : o = 0 /\ N = 1
      OBVIOUS
    <2>6. LiesBehind(S, S, o, N)
      BY <2>5 DEF LiesBehind
    <2>7. c = Overlay(w, o + 1 .. o + N, S)
      <3>1. DOMAIN w = 1 .. N /\ c = copy_tensor_to_rows(S, w, o, N)
        BY <2>2, <2>4, <2>5
      <3> QED  BY <2>6, <3>1, OverlaidRows
    <2> QED  BY <1>1, <1>4, <2>2, <2>5, <2>7
  <1>9. ASSUME NEW k \in 1 .. 3, e = AttnWeight(Source(k)) \/ e = AttnBias(Source(k))
        PROVE  c = Overlay(w, RowsOf(e, t), S)
    <2>1. PICK j : j = k - 1 /\ j \in 0 .. 2
      OBVIOUS
    <2>2. PICK n1, n2, n3 :
              \/ /\ e = AttnWeight(Source(k)) /\ Target(e) = QkvWeightName
                 /\ n1 = AttnWeight("q_proj") /\ n2 = AttnWeight("k_proj") /\ n3 = AttnWeight("v_proj")
              \/ /\ e = AttnBias(Source(k)) /\ Target(e) = QkvBiasName
                 /\ n1 = AttnBias("q_proj") /\ n2 = AttnBias("k_proj") /\ n3 = AttnBias("v_proj")
      BY <1>9, PackedEntries DEF Target
    <2>3. source = FullTensor(e) /\ name.shard = j
      BY <1>9, <2>1, EntryTensors, PackedEntries DEF source, name
    <2>4. e = QkvPart(j, n1, n2, n3)
      <3>1. k = 1 \/ k = 2 \/ k = 3
        OBVIOUS
      <3>2. e = IF k = 1 THEN n1 ELSE IF k = 2 THEN n2 ELSE n3
        BY <2>2, <3>1, Mapping
      <3> QED  BY <2>1, <3>1, <3>2 DEF QkvPart
    <2>5. source = QkvPart(j, FullTensor(n1), FullTensor(n2), FullTensor(n3))
      BY <2>3, <2>4 DEF QkvPart
    <2>6. c = QkvWeightLoader(w, source, j, NumHeads, NumKvHeads, t, r)
      <3>1. j # NoShard
        BY <2>1 DEF NoShard
      <3> QED  BY <1>1, <1>3, <1>5, <2>2, <2>3, <3>1, LoadFns
    <2>7. S = QkvSlices(n1, n2, n3, t, r)
      BY <1>4, <2>2, ShardTensors, AttnNames
    <2>8. /\ IsRows(FullTensor(n1), NumHeads) /\ IsRows(FullTensor(n2), NumKvHeads)
          /\ IsRows(FullTensor(n3), NumKvHeads)
      BY <2>2, TensorRows
    <2>9. c = Overlay(w, QkvRows(j, NumHeads \div t, NumKvHeads \div t), S)
      BY <1>1, <1>4, <2>1, <2>5, <2>6, <2>7, <2>8, QkvParts
    <2>10. RowsOf(e, t) = QkvRows(j, NumHeads \div t, NumKvHeads \div t)
      <3>1. PICK q, kv : q = NumHeads \div t /\ kv = NumKvHeads \div t
        OBVIOUS
      <3>2. /\ RowsOf(n1, t) = 1 .. q /\ RowsOf(n2, t) = q + 1 .. q + kv
            /\ RowsOf(n3, t) = q + kv + 1 .. q + kv + kv
        BY <2>2, <3>1, EntryRows
      <3> QED  BY <2>1, <2>4, <3>1, <3>2 DEF QkvPart, QkvRows
    <2> QED  BY <2>9, <2>10
  <1>10. CASE e \in {GateName, UpName}
    <2>1. GateName # UpName
      BY NameTags
    <2>2. PICK j : j = (IF e = GateName THEN 0 ELSE 1) /\ j \in 0 .. 1
      OBVIOUS
    <2>3. Target(e) = GateUpName /\ source = FullTensor(e) /\ name.shard = j
      BY <1>10, <2>1, <2>2, EntryTensors, PackedEntries DEF source, name, Target
    <2>4. source = GateUpPart(j, FullTensor(GateName), FullTensor(UpName))
      BY <1>10, <2>2, <2>3 DEF GateUpPart
    <2>5. c = MergedWeightLoader(w, source, j, <<Intermediate, Intermediate>>, t, r)
      <3>1. j # NoShard
        BY <2>2 DEF NoShard
      <3> QED  BY <1>1, <1>3, <1>5, <2>3, <3>1, LoadFns
    <2>6. S = ShardTensor(GateUpName, t, r)
      BY <1>4, <2>3
    <2>7. c = Overlay(w, GateUpRows(j, Intermediate \div t), S)
      BY <1>1, <1>4, <2>2, <2>4, <2>5, <2>6, GateUpParts
    <2>8. RowsOf(e, t) = GateUpRows(j, Intermediate \div t)
      BY <1>10, <2>1, <2>2, EntryRows DEF GateUpRows
    <2> QED  BY <1>1, <1>4, <2>7, <2>8
  <1>11. CASE (e = QkvWeightName /\ StackedQkv) \/ (e = GateUpName /\ StackedGateUp)
    <2>1. t = 1 /\ r = 0
      BY <1>1, <1>11 DEF Hopeless, SlicesPartsOnly, StackedQkv, StackedGateUp
    <2>2. Target(e) = e /\ name.shard = NoShard
      BY <1>11, PlainEntries DEF Target, name
    <2>3. source = S
      BY <1>4, <1>11, <2>1, <2>2, WholeTensors DEF source
    <2>4. RowsOf(e, t) = DOMAIN S
      BY <1>4, <1>11, <2>1, <2>2, EntryRows
    <2>5. PICK N \in Nat : DOMAIN S = 1 .. N /\ (e = GateUpName => N = 2 * Intermediate)
      <3>1. PICK q, kv, m \in Nat : q = NumHeads \div t /\ kv = NumKvHeads \div t /\ m = Intermediate \div t
        BY <1>1, Shares
      <3>2. m = Intermediate
        <4>1. \A n \in Nat : n \div 1 = n
          OBVIOUS
        <4> QED  BY <2>1, <3>1, <4>1, Sizes
      <3>3. CASE e = GateUpName
        <4>1. DOMAIN S = 1 .. m + m
          BY <1>4, <2>2, <3>1, <3>3, ShardRows
        <4> QED  BY <3>2, <3>3, <4>1
      <3>4. CASE e = QkvWeightName
        <4>1. DOMAIN S = 1 .. q + kv + kv
          BY <1>4, <2>2, <3>1, <3>4, ShardRows
        <4>2. e # GateUpName
          BY <3>4, NameTags, AttnNames
        <4> QED  BY <3>4, <4>1, <4>2
      <3> QED  BY <1>11, <3>3, <3>4
    <2>6. DOMAIN w = 1 .. N /\ Len(w) = N
      BY <1>4, <2>5
    <2>7. c = ColumnWeightLoader(w, source, N, 1, 0)
      <3>1. CASE e = GateUpName
        BY <1>1, <1>3, <1>5, <2>1, <2>2, <2>5, <3>1, LoadFns
      <3>2. CASE e = QkvWeightName
        BY <1>3, <1>5, <2>2, <2>6, <3>2, LoadFns
      <3> QED  BY <1>11, <3>1, <3>2
    <2>8. IsRows(S, N)
      <3>1. CASE e = GateUpName
        BY <1>4, <2>2, <2>5, <3>1, ShardTensors DEF Below, IsRows
      <3>2. CASE e = QkvWeightName
        BY <1>4, <2>2, <2>5, <3>2, ShardTensors DEF QkvSlices, Stack, IsRows
      <3> QED  BY <1>11, <3>1, <3>2
    <2>9. c = Overlay(w, 1 .. N, S)
      BY <2>3, <2>6, <2>7, <2>8, WholeLoaded
    <2> QED  BY <1>1, <1>4, <2>4, <2>5, <2>9
  <1> QED  BY <1>1, <1>2, <1>4, <1>6, <1>7, <1>8, <1>9, <1>10, <1>11, EntryKinds

\* The entry that a hopeless checkpoint has is refused.
LEMMA BadEntryFails ==
    ASSUME cfg \in Configurations, Divisible(cfg), Hopeless, NEW r \in Ranks,
           DOMAIN param[r][QkvWeightName] = DOMAIN ShardTensor(QkvWeightName, cfg.tp, r)
    PROVE  BadEntry \in CheckpointEntries
           /\ (Target(BadEntry) \notin RegisteredNames \/ Loaded(r, BadEntry) = Throws)
  <1>1. BadEntry \in CheckpointEntries
    BY DEF Hopeless, BadEntry, CheckpointEntries
  <1>2. CASE cfg.style = "foreign"
    <2>1. Target(BadEntry) = ForeignName
      BY <1>2, PlainEntries DEF BadEntry, Target
    <2>2. ForeignName \notin RegisteredNames
      BY NameTags, AttnNames DEF RegisteredNames
    <2> QED  BY <1>1, <2>1, <2>2
  <1>3. CASE cfg.style # "foreign"
    <2>1. PICK t \in Nat \ {0} : t = cfg.tp /\ Even(t) /\ r \in 0 .. t - 1 /\ t > 1
      BY <1>3, ConfigurationFacts, RankFacts DEF Hopeless
    <2>2. PICK q, kv \in Nat \ {0} : /\ q = NumHeads \div t /\ NumHeads = t * q
                                     /\ kv = NumKvHeads \div t /\ NumKvHeads = t * kv
      BY <2>1, Shares
    <2>3. PICK w, source : w = param[r][QkvWeightName] /\ source = CheckpointTensor(QkvWeightName)
      OBVIOUS
    <2>4. PICK n, N \in Nat : n = q + kv + kv /\ N = NumHeads + NumKvHeads + NumKvHeads
      BY Sizes
    <2>5. Len(w) = n
      <3>1. DOMAIN w = 1 .. n
        BY <2>1, <2>2, <2>3, <2>4, ShardRows
      <3> QED  BY <3>1
    <2>6. Len(source) = N
      <3>1. \A k \in Nat : k \div 1 = k
        OBVIOUS
      <3>2. NumHeads \div 1 = NumHeads /\ NumKvHeads \div 1 = NumKvHeads
        BY <3>1, Sizes
      <3>3. DOMAIN source = 1 .. N
        BY <2>3, <2>4, <3>2, ShardRows, WholeTensors
      <3> QED  BY <3>3
    <2>7. N # n
      <3>1. \A k \in Nat \ {0} : t * k > k
        <4> TAKE k \in Nat \ {0}
        <4>1. k * 1 < k * t
          <5>1. 1 \in Int /\ t \in Int /\ 1 < t
            BY <2>1
          <5>2. k * 1 + k <= k * t
            BY <5>1, Multiples
          <5> QED  BY <5>2
        <4> QED  BY <4>1
      <3>2. PICK x, y \in Int : x = NumHeads /\ y = NumKvHeads /\ x > q /\ y > kv
        BY <2>2, <3>1, Sizes
      <3> QED  BY <2>4, <3>2
    <2>8. select_output_partition(source, n, n \div 1, 0) = Throws
      <3>1. n \div 1 = n
        BY <2>4
      <3> QED  BY <2>6, <2>7, <3>1 DEF select_output_partition
    <2>9. ColumnWeightLoader(w, source, n, 1, 0) = Throws
      BY <2>8 DEF ColumnWeightLoader, copy_tensor_to_parameter
    <2>10. resolve_packed_parameter_name(QkvWeightName) = [target |-> QkvWeightName, shard |-> NoShard]
      BY PlainEntries
    <2>11. Storage(QkvWeightName) = QkvWeightName
      BY NameTags, AttnNames DEF Storage
    <2>12. Loaded(r, QkvWeightName) = ColumnWeightLoader(w, source, n, 1, 0)
      <3>1. ParameterLoadFn(r, QkvWeightName, NoShard, source) =
                ColumnWeightLoader(param[r][Storage(QkvWeightName)], source,
                                   Len(param[r][Storage(QkvWeightName)]), 1, 0)
        BY LoadFns
      <3> QED  BY <2>3, <2>5, <2>10, <2>11, <3>1 DEF Loaded
    <2> QED  BY <1>1, <1>3, <2>9, <2>12 DEF BadEntry
  <1> QED  BY <1>2, <1>3

\* The rows of an entry are rows of its parameter.
LEMMA RowsInside ==
    ASSUME cfg \in Configurations, Divisible(cfg), NEW e \in CheckpointEntries, e # ForeignName,
           NEW r
    PROVE  RowsOf(e, cfg.tp) \subseteq DOMAIN ShardTensor(Target(e), cfg.tp, r)
  <1>1. PICK t \in Nat \ {0} : t = cfg.tp /\ Even(t)
    BY ConfigurationFacts, RankFacts
  <1>2. PICK q, kv, m \in Nat \ {0} :
            q = NumHeads \div t /\ kv = NumKvHeads \div t /\ m = Intermediate \div t
    BY <1>1, Shares
  <1>3. CASE e \in {EmbedName, LMHeadName, OName, DownName, NormName, QkvWeightName, GateUpName}
    <2>1. Target(e) = e
      BY <1>3, PlainEntries DEF Target
    <2>2. DOMAIN ShardTensor(e, t, r) = DOMAIN ShardTensor(e, t, 0)
      BY <1>3, ShardRows
    <2> QED  BY <1>1, <1>3, <2>1, <2>2, EntryRows
  <1>4. CASE e \in {GateName, UpName}
    <2>1. Target(e) = GateUpName
      BY <1>4, PackedEntries DEF Target
    <2>2. DOMAIN ShardTensor(GateUpName, t, r) = 1 .. m + m
      BY <1>2, ShardRows
    <2>3. RowsOf(e, t) = 1 .. m \/ RowsOf(e, t) = m + 1 .. m + m
      BY <1>2, <1>4, EntryRows
    <2>4. 1 .. m \subseteq 1 .. m + m /\ m + 1 .. m + m \subseteq 1 .. m + m
      OBVIOUS
    <2> QED  BY <1>1, <2>1, <2>2, <2>3, <2>4
  <1>5. ASSUME NEW k \in 1 .. 3, e = AttnWeight(Source(k)) \/ e = AttnBias(Source(k))
        PROVE  RowsOf(e, cfg.tp) \subseteq DOMAIN ShardTensor(Target(e), cfg.tp, r)
    <2>1. Target(e) \in {QkvWeightName, QkvBiasName}
      BY <1>5, PackedEntries DEF Target
    <2>2. DOMAIN ShardTensor(Target(e), t, r) = 1 .. q + kv + kv
      BY <1>2, <2>1, ShardRows
    <2>3. k = 1 \/ k = 2 \/ k = 3
      OBVIOUS
    <2>4. RowsOf(e, t) \in {1 .. q, q + 1 .. q + kv, q + kv + 1 .. q + kv + kv}
      <3>1. CASE k = 1
        <4>1. e = AttnWeight("q_proj") \/ e = AttnBias("q_proj")
          BY <1>5, <3>1, Mapping
        <4>2. /\ RowsOf(AttnWeight("q_proj"), t) = 1 .. q
              /\ RowsOf(AttnBias("q_proj"), t) = 1 .. q
          BY <1>2, EntryRows
        <4> QED  BY <4>1, <4>2
      <3>2. CASE k = 2
        <4>1. e = AttnWeight("k_proj") \/ e = AttnBias("k_proj")
          BY <1>5, <3>2, Mapping
        <4>2. /\ RowsOf(AttnWeight("k_proj"), t) = q + 1 .. q + kv
              /\ RowsOf(AttnBias("k_proj"), t) = q + 1 .. q + kv
          BY <1>2, EntryRows
        <4> QED  BY <4>1, <4>2
      <3>3. CASE k = 3
        <4>1. e = AttnWeight("v_proj") \/ e = AttnBias("v_proj")
          BY <1>5, <3>3, Mapping
        <4>2. /\ RowsOf(AttnWeight("v_proj"), t) = q + kv + 1 .. q + kv + kv
              /\ RowsOf(AttnBias("v_proj"), t) = q + kv + 1 .. q + kv + kv
          BY <1>2, EntryRows
        <4> QED  BY <4>1, <4>2
      <3> QED  BY <2>3, <3>1, <3>2, <3>3
    <2>5. /\ 1 .. q \subseteq 1 .. q + kv + kv
          /\ q + 1 .. q + kv \subseteq 1 .. q + kv + kv
          /\ q + kv + 1 .. q + kv + kv \subseteq 1 .. q + kv + kv
      OBVIOUS
    <2> QED  BY <1>1, <2>2, <2>4, <2>5
  <1> QED  BY <1>3, <1>4, <1>5, EntryKinds

\* A checkpoint that is not hopeless has entries for all rows.
LEMMA AllRowsHaveEntries ==
    ASSUME cfg \in Configurations, Divisible(cfg), ~ Hopeless, NEW name \in RegisteredNames,
           ~ (cfg.tie /\ name = LMHeadName), NEW r, NEW i \in DOMAIN ShardTensor(name, cfg.tp, r)
    PROVE  \E e \in CheckpointEntries : Target(e) = name /\ i \in RowsOf(e, cfg.tp)
  <1>1. PICK t \in Nat \ {0} : t = cfg.tp /\ Even(t)
    BY ConfigurationFacts, RankFacts
  <1>2. PICK q, kv, m \in Nat \ {0} :
            q = NumHeads \div t /\ kv = NumKvHeads \div t /\ m = Intermediate \div t
    BY <1>1, Shares
  <1>3. ASSUME name \in CheckpointEntries,
               name \in {EmbedName, LMHeadName, OName, DownName, NormName, QkvWeightName, GateUpName}
        PROVE  \E e \in CheckpointEntries : Target(e) = name /\ i \in RowsOf(e, cfg.tp)
    <2>1. Target(name) = name
      BY <1>3, PlainEntries DEF Target
    <2>2. DOMAIN ShardTensor(name, t, r) = DOMAIN ShardTensor(name, t, 0)
      BY <1>3, ShardRows
    <2>3. i \in RowsOf(name, t)
      BY <1>1, <1>3, <2>2, EntryRows
    <2> QED  BY <1>1, <1>3, <2>1, <2>3
  <1>5. CASE name \in {EmbedName, OName, DownName, NormName, LMHeadName}
    <2>1. name \in CheckpointEntries
      BY <1>5 DEF CheckpointEntries
    <2> QED  BY <1>3, <1>5, <2>1
  <1>6. CASE (name = QkvWeightName /\ StackedQkv) \/ (name = GateUpName /\ StackedGateUp)
    <2>1. name \in CheckpointEntries
      BY <1>6 DEF CheckpointEntries
    <2> QED  BY <1>3, <1>6, <2>1
  <1>7. CASE name = GateUpName /\ ~ StackedGateUp
    <2>1. GateName \in CheckpointEntries /\ UpName \in CheckpointEntries
      BY <1>7 DEF CheckpointEntries
    <2>2. Target(GateName) = name /\ Target(UpName) = name
      BY <1>7, PackedEntries DEF Target
    <2>3. i \in 1 .. m + m
      BY <1>1, <1>2, <1>7, ShardRows
    <2>4. i \in 1 .. m \/ i \in m + 1 .. m + m
      BY <2>3
    <2>5. RowsOf(GateName, t) = 1 .. m /\ RowsOf(UpName, t) = m + 1 .. m + m
      BY <1>2, EntryRows
    <2> QED  BY <1>1, <2>1, <2>2, <2>4, <2>5
  <1>8. ASSUME NEW e1 \in CheckpointEntries, NEW e2 \in CheckpointEntries, NEW e3 \in CheckpointEntries,
               name \in {QkvWeightName, QkvBiasName},
               Target(e1) = name, Target(e2) = name, Target(e3) = name,
               RowsOf(e1, t) = 1 .. q, RowsOf(e2, t) = q + 1 .. q + kv,
               RowsOf(e3, t) = q + kv + 1 .. q + kv + kv
        PROVE  \E e \in CheckpointEntries : Target(e) = name /\ i \in RowsOf(e, cfg.tp)
    <2>1. i \in 1 .. q + kv + kv
      <3>1. DOMAIN ShardTensor(name, t, r) = 1 .. q + kv + kv
        BY <1>2, <1>8, ShardRows, SMTT(30)
      <3> QED  BY <1>1, <3>1
    <2>2. i \in 1 .. q \/ i \in q + 1 .. q + kv \/ i \in q + kv + 1 .. q + kv + kv
      BY <2>1
    <2> QED  BY <1>1, <1>8, <2>2
  <1>9. 1 \in 1 .. 3 /\ 2 \in 1 .. 3 /\ 3 \in 1 .. 3
    OBVIOUS
  <1>10. CASE name = QkvWeightName /\ ~ StackedQkv
    <2>1. PICK e1, e2, e3 : /\ e1 = AttnWeight(Source(1)) /\ e2 = AttnWeight(Source(2))
                            /\ e3 = AttnWeight(Source(3))
      OBVIOUS
    <2>2. e1 = QName /\ e2 = KName /\ e3 = VName
      BY <2>1, Mapping, AttnNames
    <2>3. e1 \in CheckpointEntries /\ e2 \in CheckpointEntries /\ e3 \in CheckpointEntries
      BY <1>10, <2>2 DEF CheckpointEntries
    <2>4. Target(e1) = name /\ Target(e2) = name /\ Target(e3) = name
      BY <1>9, <1>10, <2>1, PackedEntries DEF Target
    <2>5. /\ RowsOf(e1, t) = 1 .. q /\ RowsOf(e2, t) = q + 1 .. q + kv
          /\ RowsOf(e3, t) = q + kv + 1 .. q + kv + kv
      BY <1>2, <2>1, Mapping, EntryRows
    <2> QED  BY <1>8, <1>10, <2>3, <2>4, <2>5
  <1>11. CASE name = QkvBiasName
    <2>1. PICK e1, e2, e3 : /\ e1 = AttnBias(Source(1)) /\ e2 = AttnBias(Source(2))
                            /\ e3 = AttnBias(Source(3))
      OBVIOUS
    <2>2. cfg.qkv_bias
      BY <1>11, NameTags, AttnNames DEF RegisteredNames
    <2>3. e1 = Bias(Attn("q_proj")) /\ e2 = Bias(Attn("k_proj")) /\ e3 = Bias(Attn("v_proj"))
      BY <2>1, Mapping, AttnNames
    <2>4. e1 \in CheckpointEntries /\ e2 \in CheckpointEntries /\ e3 \in CheckpointEntries
      BY <2>2, <2>3 DEF CheckpointEntries
    <2>5. Target(e1) = name /\ Target(e2) = name /\ Target(e3) = name
      BY <1>9, <1>11, <2>1, PackedEntries DEF Target
    <2>6. /\ RowsOf(e1, t) = 1 .. q /\ RowsOf(e2, t) = q + 1 .. q + kv
          /\ RowsOf(e3, t) = q + kv + 1 .. q + kv + kv
      BY <1>2, <2>1, Mapping, EntryRows
    <2> QED  BY <1>8, <1>11, <2>4, <2>5, <2>6
  <1> QED  BY <1>5, <1>6, <1>7, <1>10, <1>11 DEF RegisteredNames

-----------------------------------------------------------------------------
(* Loading a checkpoint *)

\* The constructors give every parameter the shape that its part of the
\* checkpoint has.
LEMMA NewShapes ==
    ASSUME cfg \in Configurations, Divisible(cfg), NEW name \in RegisteredNames, NEW r
    PROVE  SameRows(NewParameter(cfg, name), ShardTensor(name, cfg.tp, r))
  <1>1. PICK t \in Nat \ {0} : t = cfg.tp /\ Even(t)
    BY ConfigurationFacts, RankFacts
  <1>2. PICK q, kv, m, v \in Nat \ {0} :
            /\ q = NumHeads \div t /\ kv = NumKvHeads \div t /\ m = Intermediate \div t
            /\ v = Vocab \div t
            /\ (NumHeads + 2 * NumKvHeads) \div t = q + kv + kv
            /\ (2 * Intermediate) \div t = m + m
    BY <1>1, Shares, SMTT(30)
  <1>3. ASSUME NEW rows, NEW cols, NewParameter(cfg, name) = zeros(rows, cols),
               DOMAIN ShardTensor(name, t, r) = 1 .. rows
        PROVE  SameRows(NewParameter(cfg, name), ShardTensor(name, t, r))
    BY <1>3 DEF zeros, SameRows
  <1> USE NameTags, AttnNames
  <1>4. CASE name \in {EmbedName, LMHeadName}
    <2>1. NewParameter(cfg, name) = zeros(v, Hidden)
      BY <1>1, <1>2, <1>4 DEF NewParameter
    <2>2. DOMAIN ShardTensor(name, t, r) = 1 .. v
      <3>1. DOMAIN ShardTensor(name, t, r) = 1 .. Vocab \div t
        BY <1>4, ShardRows
      <3> QED  BY <1>2, <3>1
    <2> QED  BY <1>1, <1>3, <2>1, <2>2
  <1>5. CASE name = QkvWeightName
    <2>1. NewParameter(cfg, name) = zeros(q + kv + kv, Hidden)
      BY <1>1, <1>2, <1>5 DEF NewParameter
    <2>2. DOMAIN ShardTensor(name, t, r) = 1 .. q + kv + kv
      BY <1>2, <1>5, ShardRows
    <2> QED  BY <1>1, <1>3, <2>1, <2>2
  <1>6. CASE name = QkvBiasName
    <2>1. PICK n : n = (NumHeads + 2 * NumKvHeads) \div cfg.tp /\ n = q + kv + kv
      BY <1>1, <1>2
    <2>3. NewParameter(cfg, name) = [i \in 1 .. n |-> Zero]
      <3>1. name \notin {EmbedName, LMHeadName, QkvWeightName}
        BY <1>6
      <3> QED  BY <1>6, <2>1, <3>1 DEF NewParameter
    <2>2. DOMAIN ShardTensor(name, t, r) = 1 .. q + kv + kv
      BY <1>2, <1>6, ShardRows
    <2> QED  BY <1>1, <2>1, <2>2, <2>3 DEF SameRows
  <1>7. CASE name = GateUpName
    <2>1. NewParameter(cfg, name) = zeros(m + m, Hidden)
      BY <1>1, <1>2, <1>7 DEF NewParameter
    <2>2. DOMAIN ShardTensor(name, t, r) = 1 .. m + m
      BY <1>2, <1>7, ShardRows
    <2> QED  BY <1>1, <1>3, <2>1, <2>2
  <1>8. CASE name \in {OName, DownName}
    <2>1. PICK cols : NewParameter(cfg, name) = zeros(Hidden, cols)
      <3>1. CASE name = OName
        BY <3>1 DEF NewParameter
      <3>2. CASE name = DownName
        BY <3>2 DEF NewParameter
      <3> QED  BY <1>8, <3>1, <3>2
    <2>2. DOMAIN ShardTensor(name, t, r) = 1 .. Hidden
      BY <1>8, ShardRows
    <2> QED  BY <1>1, <1>3, <2>1, <2>2
  <1>9. CASE name = NormName
    <2>1. NewParameter(cfg, name) = zeros(1, Hidden)
      BY <1>9 DEF NewParameter
    <2>2. DOMAIN ShardTensor(name, t, r) = 1 .. 1
      BY <1>9, ShardRows
    <2> QED  BY <1>1, <1>3, <2>1, <2>2
  <1> QED  BY <1>4, <1>5, <1>6, <1>7, <1>8, <1>9 DEF RegisteredNames

LEMMA InitLoading ==
    ASSUME LoaderInit
    PROVE  LoadInv
  <1> SUFFICES ASSUME NEW r \in Ranks  PROVE LoadingOK(r)
    BY DEF LoadInv
  <1>1. cfg \in Configurations /\ unread[r] = CheckpointEntries
    BY DEF LoaderInit
  <1>2. loading[r] = IF Divisible(cfg) THEN "loading" ELSE "failed"
    BY DEF LoaderInit
  <1>3. Divisible(cfg) => \A name \in RegisteredNames :
            SameRows(param[r][name], ShardTensor(name, cfg.tp, r))
    <2>1. \A name \in RegisteredNames : param[r][name] = NewParameter(cfg, name)
      BY DEF LoaderInit
    <2> QED  BY <1>1, <2>1, NewShapes
  <1>4. Hopeless => BadEntry \in CheckpointEntries
    BY DEF Hopeless, BadEntry, CheckpointEntries
  <1> QED  BY <1>1, <1>2, <1>3, <1>4 DEF LoadingOK

\* An iteration of the loader leaves these parameters and entries to read.
Stores(r, e, stored, left) ==
    /\ Target(e) \in RegisteredNames /\ Loaded(r, e) # Throws
    /\ stored = [param[r] EXCEPT ![Storage(Target(e))] = Loaded(r, e)]
    /\ left = unread[r] \ {e}

\* What LoadingOK says of them.
RowsOK(r, stored, left) ==
    /\ \A n \in RegisteredNames : SameRows(stored[n], ShardTensor(n, cfg.tp, r))
    /\ Hopeless => BadEntry \in left
    /\ ~ Hopeless => \A f \in CheckpointEntries \ left : \A i \in RowsOf(f, cfg.tp) :
           stored[Target(f)][i] = ShardTensor(Target(f), cfg.tp, r)[i]

LEMMA EntryKept ==
    ASSUME SlicesPartsOnly, LoaderOK, NEW r \in Ranks, LoadingOK(r), loading[r] = "loading", NEW e \in unread[r],
           NEW stored, NEW left, Stores(r, e, stored, left)
    PROVE  RowsOK(r, stored, left)
  <1>0. PICK c, name : c = Loaded(r, e) /\ name = Target(e)
    OBVIOUS
  <1>a. /\ c # Throws /\ name \in RegisteredNames
        /\ stored = [param[r] EXCEPT ![Storage(name)] = c] /\ left = unread[r] \ {e}
    BY <1>0 DEF Stores
  <1>1. /\ cfg \in Configurations /\ Divisible(cfg) /\ e \in CheckpointEntries
        /\ DOMAIN param[r] = RegisteredNames
    BY DEF LoaderOK, LoadingOK
  <1>2. \A n \in RegisteredNames : SameRows(param[r][n], ShardTensor(n, cfg.tp, r))
    BY <1>1 DEF LoadingOK
  <1>3. PICK st : st = Storage(name) /\ st \in RegisteredNames
    BY <1>a DEF Storage, RegisteredNames
  <1>4. \A n \in RegisteredNames : stored[n] = IF n = st THEN c ELSE param[r][n]
    BY <1>1, <1>3, <1>a
  <1>5. SameRows(c, ShardTensor(st, cfg.tp, r))
    <2>1. c = ParameterLoadFn(r, name, resolve_packed_parameter_name(e).shard, CheckpointTensor(e))
      BY <1>0 DEF Loaded, Target
    <2>2. SameRows(c, param[r][st])
      BY <1>3, <1>a, <2>1, ShapeKept
    <2> QED  BY <1>2, <1>3, <2>2 DEF SameRows
  <1>6. ASSUME Hopeless  PROVE BadEntry \in left
    <2>1. QkvWeightName \in RegisteredNames
      BY DEF RegisteredNames
    <2>2. DOMAIN param[r][QkvWeightName] = DOMAIN ShardTensor(QkvWeightName, cfg.tp, r)
      BY <1>2, <2>1 DEF SameRows
    <2>3. Target(BadEntry) \notin RegisteredNames \/ Loaded(r, BadEntry) = Throws
      BY <1>1, <1>6, <2>2, BadEntryFails
    <2>4. e # BadEntry
      BY <1>0, <1>a, <2>3
    <2> QED  BY <1>6, <1>a, <2>4 DEF LoadingOK
  <1>7. ASSUME ~ Hopeless, NEW f \in CheckpointEntries \ left, NEW i \in RowsOf(f, cfg.tp)
        PROVE  stored[Target(f)][i] = ShardTensor(Target(f), cfg.tp, r)[i]
    <2>1. e # ForeignName /\ f # ForeignName
      BY <1>1, <1>7, NoForeignEntry
    <2>2. st = name /\ Target(f) \in RegisteredNames
      BY <1>0, <1>1, <1>3, <1>7, <2>1, EntryTargets
    <2>3. PICK w, S : w = param[r][name] /\ S = ShardTensor(name, cfg.tp, r) /\ DOMAIN w = DOMAIN S
      BY <1>2, <1>a DEF SameRows
    <2>4. c = Overlay(w, RowsOf(e, cfg.tp), S)
      BY <1>0, <1>1, <1>7, <1>a, <2>3, EntryLoaded
    <2>5. f # e => param[r][Target(f)][i] = ShardTensor(Target(f), cfg.tp, r)[i]
      BY <1>1, <1>7, <1>a DEF LoadingOK
    <2>6. CASE Target(f) = name
      <3>1. i \in DOMAIN w
        BY <1>1, <1>7, <2>1, <2>3, <2>6, RowsInside
      <3>2. c[i] = IF i \in RowsOf(e, cfg.tp) THEN S[i] ELSE w[i]
        BY <2>4, <3>1 DEF Overlay
      <3>3. f # e => w[i] = S[i]
        BY <2>3, <2>5, <2>6
      <3>4. c[i] = S[i]
        BY <1>7, <3>2, <3>3
      <3> QED  BY <1>4, <2>2, <2>3, <2>6, <3>4
    <2>7. CASE Target(f) # name
      <3>1. stored[Target(f)] = param[r][Target(f)]
        BY <1>4, <2>2, <2>7
      <3>2. f # e
        BY <1>0, <2>7
      <3> QED  BY <2>5, <3>1, <3>2
    <2> QED  BY <2>6, <2>7
  <1> QED  BY <1>2, <1>3, <1>4, <1>5, <1>6, <1>7 DEF RowsOK

LEMMA LoadEntryKept ==
    ASSUME SlicesPartsOnly, LoaderOK, LoadInv, NEW r \in Ranks, LoadEntry(r)
    PROVE  LoadInv'
  <1>1. /\ cfg' = cfg /\ Ranks' = Ranks /\ RegisteredNames' = RegisteredNames
        /\ CheckpointEntries' = CheckpointEntries /\ Hopeless' = Hopeless /\ BadEntry' = BadEntry
    BY DEF LoadEntry, Ranks, RegisteredNames, CheckpointEntries, Hopeless, BadEntry,
           StackedQkv, StackedGateUp
  <1>2. ASSUME NEW q \in Ranks, param'[q] = param[q], unread'[q] = unread[q],
               loading'[q] \in {loading[q], "failed"}
        PROVE  LoadingOK(q)'
    BY <1>1, <1>2 DEF LoadInv, LoadingOK
  <1>3. LoadingOK(r) /\ loading[r] = "loading"
    BY DEF LoadInv, LoadEntry
  <1>4. PICK e, c, name :
            /\ e \in unread[r]
            /\ c = Loaded(r, e) /\ name = Target(e)
            /\ \/ /\ name \in RegisteredNames /\ c # Throws
                  /\ param' = [param EXCEPT ![r][Storage(name)] = c]
                  /\ unread' = [unread EXCEPT ![r] = @ \ {e}]
                  /\ loading' = [loading EXCEPT ![r] = IF unread[r] = {e} THEN "loaded" ELSE @]
               \/ /\ loading' = [loading EXCEPT ![r] = "failed"]
                  /\ UNCHANGED <<param, unread>>
    BY DEF LoadEntry, Loaded, Target
  <1>5. CASE loading' = [loading EXCEPT ![r] = "failed"] /\ UNCHANGED <<param, unread>>
    <2>1. \A q \in Ranks : /\ param'[q] = param[q] /\ unread'[q] = unread[q]
                           /\ loading'[q] \in {loading[q], "failed"}
      BY <1>5 DEF LoaderOK
    <2> QED  BY <1>1, <1>2, <2>1 DEF LoadInv
  <1>6. CASE /\ name \in RegisteredNames /\ c # Throws
             /\ param' = [param EXCEPT ![r][Storage(name)] = c]
             /\ unread' = [unread EXCEPT ![r] = @ \ {e}]
             /\ loading' = [loading EXCEPT ![r] = IF unread[r] = {e} THEN "loaded" ELSE @]
    <2>1. /\ param'[r] = [param[r] EXCEPT ![Storage(name)] = c]
          /\ unread'[r] = unread[r] \ {e}
          /\ loading'[r] = IF unread[r] = {e} THEN "loaded" ELSE "loading"
      BY <1>3, <1>6 DEF LoaderOK
    <2>2. \A q \in Ranks \ {r} : /\ param'[q] = param[q] /\ unread'[q] = unread[q]
                                 /\ loading'[q] = loading[q]
      BY <1>6 DEF LoaderOK
    <2>3. PICK stored, left : stored = param'[r] /\ left = unread'[r]
      OBVIOUS
    <2>4. RowsOK(r, stored, left)
      <3>1. Stores(r, e, stored, left)
        BY <1>4, <1>6, <2>1, <2>3 DEF Stores
      <3> QED  BY <1>3, <1>4, <3>1, EntryKept
    <2>5. Divisible(cfg) /\ (loading'[r] = "loaded" => unread'[r] = {})
      BY <1>3, <2>1 DEF LoadingOK
    <2>6. LoadingOK(r)'
      BY <1>1, <2>3, <2>4, <2>5 DEF LoadingOK, RowsOK
    <2>7. \A q \in Ranks \ {r} : LoadingOK(q)'
      BY <1>2, <2>2
    <2> QED  BY <1>1, <2>6, <2>7 DEF LoadInv
  <1> QED  BY <1>4, <1>5, <1>6

\* What the ranks have when all are loaded is their part of the checkpoint.
LEMMA LoadedShards ==
    ASSUME LoaderOK, LoadInv, AllLoaded
    PROVE  Divisible(cfg) /\ AllShards
  <1>1. cfg \in Configurations /\ 0 \in Ranks
    BY RankFacts DEF LoaderOK
  <1>2. \A r \in Ranks : LoadingOK(r) /\ loading[r] = "loaded" /\ unread[r] = {}
    BY DEF LoadInv, AllLoaded, LoadingOK
  <1>3. Divisible(cfg) /\ ~ Hopeless
    BY <1>1, <1>2 DEF LoadingOK
  <1>4. ASSUME NEW r \in Ranks, NEW name \in RegisteredNames, ~ (cfg.tie /\ name = LMHeadName)
        PROVE  param[r][name] = ShardTensor(name, cfg.tp, r)
    <2>1. PICK w, S : w = param[r][name] /\ S = ShardTensor(name, cfg.tp, r)
      OBVIOUS
    <2>2. SameRows(w, S)
      BY <1>2, <1>3, <2>1 DEF LoadingOK
    <2>3. ASSUME NEW i \in DOMAIN S  PROVE w[i] = S[i]
      <3>1. PICK e \in CheckpointEntries : Target(e) = name /\ i \in RowsOf(e, cfg.tp)
        BY <1>1, <1>3, <1>4, <2>1, <2>3, AllRowsHaveEntries
      <3>2. e \in CheckpointEntries \ unread[r]
        BY <1>2
      <3> QED  BY <1>2, <1>3, <2>1, <3>1, <3>2 DEF LoadingOK
    <2>4. S = [i \in DOMAIN S |-> S[i]]
      <3>1. NormName \in {NormName} /\ FullTensor(NormName) = [i \in DOMAIN FullTensor(NormName) |->
                                                                FullTensor(NormName)[i]]
        BY TensorRows DEF IsRows
      <3> QED  BY <2>1, <3>1, ShardTensors DEF RegisteredNames, RowSlice, ColumnSlice, QkvSlices,
                                               Stack, Below
    <2> QED  BY <2>1, <2>2, <2>3, <2>4 DEF SameRows
  <1>5. ASSUME NEW r \in Ranks  PROVE IsShard(Parameters(r), cfg, cfg.tp, r)
    <2>1. DOMAIN param[r] = RegisteredNames /\ RegisteredNames = ParameterNames(cfg)
      BY DEF LoaderOK, RegisteredNames, ParameterNames
    <2>2. \A name \in RegisteredNames : Parameters(r)[name] = param[r][Storage(name)]
      BY <2>1 DEF Parameters
    <2>3. DOMAIN Parameters(r) = ParameterNames(cfg)
      BY <2>1 DEF Parameters
    <2>4. ASSUME NEW name \in RegisteredNames
          PROVE  /\ Storage(name) \in RegisteredNames
                 /\ ~ (cfg.tie /\ Storage(name) = LMHeadName)
                 /\ Storage(name) = IF cfg.tie /\ name = LMHeadName THEN EmbedName ELSE name
      BY NameTags DEF Storage, RegisteredNames
    <2> QED  BY <1>4, <2>1, <2>2, <2>3, <2>4 DEF IsShard
  <1> QED  BY <1>3, <1>5 DEF AllShards

-----------------------------------------------------------------------------
(* Stages of a pass *)

\* The names of the groups tell the stages apart.
LEMMA StageKeys ==
    ASSUME NEW s \in 1 .. 4
    PROVE  Stages[s] = LMHeadName <=> s = 4
  <1>1. EmbedName # LMHeadName /\ OName # LMHeadName /\ DownName # LMHeadName
    BY NameTags
  <1>2. s = 1 \/ s = 2 \/ s = 3 \/ s = 4
    OBVIOUS
  <1> QED  BY <1>1, <1>2 DEF Stages

\* The residual stream depends on no weight.
LEMMA ResidualOfStage ==
    ASSUME NEW p, NEW p2, NEW s, NEW x, NEW res
    PROVE  Normed(p, s, x, res).residual = Normed(p2, s, x, res).residual
  BY DEF Normed, add_rms_norm

\* The first stage reads the token only.
LEMMA FirstStage ==
    ASSUME NEW p, NEW x, NEW x2, NEW res, NEW tok, NEW t, NEW r
    PROVE  /\ LocalForward(p, 1, x, res, tok, t, r) = LocalForward(p, 1, x2, res, tok, t, r)
           /\ Normed(p, 1, x, res).residual = << >>
  BY DEF LocalForward, Normed

\* A rank that is behind no other brings its share to the next stage.
LEMMA OutputIsShare ==
    ASSUME TPInv, ValuesOK, NEW r \in Ranks \ enqueued, stage[r] \in 0 .. 3,
           \A q \in Ranks : stage[q] >= stage[r]
    PROVE  /\ Output(r).value = Share(stage[r] + 1, r)
           /\ Normed(Parameters(r), stage[r] + 1, tensor[r].value, residual[r]).residual =
                  ResidualAfter(cfg, token, stage[r] + 1)
  <1>1. cfg \in Configurations /\ token \in Tokens
    BY DEF TPInv, LoaderOK, PassOK
  <1>2. PICK s, p, x, res : /\ s = stage[r] + 1 /\ s \in 1 .. 4 /\ p = Parameters(r)
                            /\ x = StageInput(cfg, token, s - 1)
                            /\ res = ResidualAfter(cfg, token, s - 1)
    OBVIOUS
  <1>3. residual[r] = res
    BY <1>2 DEF ValuesOK, Entered
  <1>4. s # 1 => tensor[r].value = x
    <2>1. SUFFICES ASSUME s # 1  PROVE tensor[r].value = x
      OBVIOUS
    <2>2. stage[r] > 0 /\ stage[r] # 4 /\ s - 1 = stage[r] /\ s - 1 # 0
      BY <1>2, <2>1
    <2>3. tensor[r].value = Reference[cfg][token][stage[r]]
      BY <2>2 DEF ValuesOK, Holds
    <2> QED  BY <1>2, <2>2, <2>3 DEF StageInput
  <1>5. Output(r).value = LocalForward(p, s, tensor[r].value, res, token, cfg.tp, r)
    BY <1>2, <1>3 DEF Output
  <1>6. Share(s, r) = LocalForward(p, s, x, res, token, cfg.tp, r)
    BY <1>2 DEF Share
  <1>7. ResidualAfter(cfg, token, s) = Normed(p, s, x, res).residual
    <2>1. ResidualAfter(cfg, token, s) = Normed(FullParameters(cfg), s, x, res).residual
      BY <1>1, <1>2, ReferenceStages
    <2> QED  BY <2>1, ResidualOfStage
  <1>8. CASE s = 1
    <2>1. /\ LocalForward(p, 1, tensor[r].value, res, token, cfg.tp, r) =
                 LocalForward(p, 1, x, res, token, cfg.tp, r)
          /\ Normed(p, 1, tensor[r].value, res).residual = << >>
          /\ Normed(p, 1, x, res).residual = << >>
      BY FirstStage
    <2> QED  BY <1>2, <1>3, <1>5, <1>6, <1>7, <1>8, <2>1
  <1>9. CASE s # 1
    BY <1>2, <1>3, <1>4, <1>5, <1>6, <1>7, <1>9
  <1> QED  BY <1>8, <1>9

\* What does not change while a pass runs.
LEMMA PassFrame ==
    ASSUME UNCHANGED <<loaderVars, token>>
    PROVE  /\ Ranks' = Ranks /\ cfg' = cfg /\ (LoadInv => LoadInv') /\ (AllLoaded => AllLoaded')
           /\ \A s, r : Share(s, r)' = Share(s, r) /\ Holds(s, r)' = Holds(s, r)
  <1>1. Ranks' = Ranks /\ cfg' = cfg /\ param' = param /\ unread' = unread /\ loading' = loading
    BY DEF loaderVars, Ranks
  <1>2. ASSUME LoadInv  PROVE LoadInv'
    <2>1. /\ RegisteredNames' = RegisteredNames /\ CheckpointEntries' = CheckpointEntries
          /\ Hopeless' = Hopeless /\ BadEntry' = BadEntry
      BY <1>1 DEF RegisteredNames, CheckpointEntries, Hopeless, BadEntry,
                  StackedQkv, StackedGateUp
    <2>2. ASSUME NEW r \in Ranks  PROVE LoadingOK(r)'
      BY <1>1, <1>2, <2>1 DEF LoadInv, LoadingOK
    <2> QED  BY <1>1, <2>2 DEF LoadInv
  <1>3. AllLoaded => AllLoaded'
    BY <1>1 DEF AllLoaded
  <1>4. \A r : Parameters(r)' = Parameters(r)
    BY <1>1 DEF Parameters, Storage
  <1>5. \A s, r : Share(s, r)' = Share(s, r) /\ Holds(s, r)' = Holds(s, r)
    BY <1>1, <1>4 DEF Share, Holds, loaderVars
  <1> QED  BY <1>1, <1>2, <1>3, <1>5

ReferenceIInv == TPInv /\ ReferenceInv

\* Where it is the turn of a rank in lockstep, nothing is enqueued.
LEMMA LockstepFacts ==
    ASSUME TPInv, ValuesOK, NEW r \in Ranks, Turn(r), cfg.tp > 1 => cfg.backend = "in_process"
    PROVE  /\ enqueued = {} /\ AllLoaded /\ stage[r] \in 0 .. 3
           /\ \A q \in Ranks : stage[q] >= stage[r]
  <1>1. enqueued = {}
    BY DEF TPInv, PassOK
  <1>2. AllLoaded /\ stage[r] \in 0 .. 3
    BY TurnFacts DEF Turn, ValuesOK
  <1>3. \A q \in Ranks : stage[q] >= stage[r]
    BY <1>2 DEF Turn
  <1> QED  BY <1>1, <1>2, <1>3

LEMMA InitReference ==
    ASSUME TPInit
    PROVE  ReferenceInv
  <1>1. LoadInv
    BY InitLoading DEF TPInit
  <1>2. ValuesOK
    BY DEF TPInit, CommInit, ValuesOK, Entered, ResidualAfter
  <1>3. ArrivedOK
    BY DEF TPInit, ArrivedOK, Turn
  <1> QED  BY <1>1, <1>2, <1>3 DEF ReferenceInv

LEMMA LoadReference ==
    ASSUME SlicesPartsOnly, ReferenceIInv, NEW r \in Ranks, Load(r)
    PROVE  ReferenceInv'
  <1>1. LoadInv'
    BY LoadEntryKept DEF Load, ReferenceIInv, ReferenceInv, TPInv
  <1>2. outcome = "done" /\ enqueued = {}
    <2>1. ~ AllLoaded
      BY DEF Load, LoadEntry, AllLoaded
    <2> QED  BY <2>1 DEF ReferenceIInv, ReferenceInv, ValuesOK
  <1>3. /\ cfg' = cfg /\ Ranks' = Ranks /\ UNCHANGED <<tensor, enqueued, stage, residual, token, outcome>>
    BY DEF Load, LoadEntry, Ranks, commVars
  <1>4. ValuesOK'
    BY <1>2, <1>3 DEF ValuesOK, ReferenceIInv, ReferenceInv, Entered, Holds
  <1>5. ArrivedOK'
    BY <1>2, <1>3 DEF ArrivedOK, Turn
  <1> QED  BY <1>1, <1>4, <1>5 DEF ReferenceInv

LEMMA EndsReference ==
    ASSUME ReferenceIInv, outcome = "running", outcome' \in {"threw", "rejected"},
           UNCHANGED <<loaderVars, commVars, stage, residual, token, pass, spoiled>>
    PROVE  ReferenceInv'
  <1>1. /\ Ranks' = Ranks /\ cfg' = cfg /\ LoadInv' /\ AllLoaded'
        /\ \A s, r : Share(s, r)' = Share(s, r) /\ Holds(s, r)' = Holds(s, r)
    BY PassFrame DEF ReferenceIInv, ReferenceInv, ValuesOK
  <1>2. ValuesOK'
    BY <1>1 DEF ReferenceIInv, ReferenceInv, ValuesOK, Entered, commVars
  <1>3. ArrivedOK'
    BY DEF ArrivedOK, Turn
  <1> QED  BY <1>1, <1>2, <1>3 DEF ReferenceInv

LEMMA BeginPassReference ==
    ASSUME ReferenceIInv, BeginPass
    PROVE  ReferenceInv'
  <1>1. UNCHANGED <<loaderVars, commVars>> /\ Ranks' = Ranks /\ cfg' = cfg
    BY DEF BeginPass, loaderVars, Ranks
  <1>2. enqueued = {}
    BY DEF BeginPass, ReferenceIInv, ReferenceInv, ValuesOK, TPInv, PassOK
  <1>3. LoadInv' /\ AllLoaded'
    <2>1. AllLoaded'
      BY <1>1 DEF BeginPass, AllLoaded, loaderVars
    <2>2. /\ RegisteredNames' = RegisteredNames /\ CheckpointEntries' = CheckpointEntries
          /\ Hopeless' = Hopeless /\ BadEntry' = BadEntry
      BY <1>1 DEF RegisteredNames, CheckpointEntries, Hopeless, BadEntry,
                  StackedQkv, StackedGateUp
    <2>3. ASSUME NEW r \in Ranks  PROVE LoadingOK(r)'
      BY <1>1, <2>2 DEF ReferenceIInv, ReferenceInv, LoadInv, LoadingOK, loaderVars
    <2> QED  BY <1>1, <2>1, <2>3 DEF LoadInv
  <1>4. DOMAIN residual' = Ranks /\ \A r \in Ranks : stage'[r] = 0 /\ residual'[r] = << >>
    BY DEF BeginPass
  <1>5. ValuesOK'
    <2>1. \A r \in Ranks : residual'[r] = ResidualAfter(cfg', token', Entered(r)')
      BY <1>1, <1>2, <1>4 DEF Entered, ResidualAfter, commVars
    <2> QED  BY <1>1, <1>2, <1>3, <1>4, <2>1 DEF ValuesOK, commVars, BeginPass
  <1>6. ArrivedOK'
    <2>1. \A r \in Ranks \ {0} : ~ Turn(r)'
      <3>1. 0 \in Ranks /\ \A r \in Ranks \ {0} : 0 < r
        BY RankFacts DEF ReferenceIInv, TPInv, LoaderOK
      <3> QED  BY <1>1, <1>4, <3>1 DEF Turn
    <2> QED  BY <1>1, <2>1 DEF ArrivedOK
  <1> QED  BY <1>3, <1>5, <1>6 DEF ReferenceInv

\* The residual streams after a rank has entered its next stage.
LEMMA EntersResidual ==
    ASSUME TPInv, ValuesOK, NEW r \in Ranks \ enqueued, stage[r] \in 0 .. 3,
           \A q \in Ranks : stage[q] >= stage[r], Enters(r)
    PROVE  /\ DOMAIN residual' = Ranks
           /\ residual'[r] = ResidualAfter(cfg, token, stage[r] + 1)
           /\ \A q \in Ranks \ {r} : residual'[q] = ResidualAfter(cfg, token, Entered(q))
  <1>1. /\ DOMAIN residual' = Ranks
        /\ residual'[r] = Normed(Parameters(r), stage[r] + 1, tensor[r].value, residual[r]).residual
        /\ \A q \in Ranks \ {r} : residual'[q] = residual[q]
    BY DEF Enters, ValuesOK
  <1>2. Normed(Parameters(r), stage[r] + 1, tensor[r].value, residual[r]).residual =
            ResidualAfter(cfg, token, stage[r] + 1)
    BY OutputIsShare
  <1> QED  BY <1>1, <1>2 DEF ValuesOK

LEMMA AloneReference ==
    ASSUME ReferenceIInv, NEW r \in Ranks, RunStageAlone(r)
    PROVE  ReferenceInv'
  <1>1. Turn(r) /\ Enters(r) /\ cfg.tp = 1 /\ TPInv /\ ValuesOK /\ LoadInv /\ LoaderOK
    BY DEF RunStageAlone, ReferenceIInv, ReferenceInv, TPInv
  <1>2. Ranks = {0} /\ r = 0
    BY RankFacts DEF ReferenceIInv, TPInv, LoaderOK, RunStageAlone
  <1>3. /\ enqueued = {} /\ AllLoaded /\ stage[r] \in 0 .. 3
        /\ \A q \in Ranks : stage[q] >= stage[r]
    BY <1>1, LockstepFacts
  <1>4. /\ Ranks' = Ranks /\ cfg' = cfg /\ LoadInv' /\ AllLoaded' /\ token' = token
        /\ \A s, q : Share(s, q)' = Share(s, q) /\ Holds(s, q)' = Holds(s, q)
    BY <1>1, <1>3, PassFrame DEF Enters
  <1>5. PICK s \in 1 .. 4 : s = stage[r] + 1
    BY <1>3
  <1>6. stage'[0] = s /\ enqueued' = {} /\ outcome' \in {"running", "done"}
    BY <1>1, <1>2, <1>3, <1>5 DEF RunStageAlone, Through, Turn
  <1>7. tensor'[0].value = Holds(s, 0)
    <2>1. tensor'[0] = Output(0)
      BY <1>1, <1>2 DEF RunStageAlone, TPInv, GroupsOK
    <2>2. Output(0).value = Share(s, 0)
      BY <1>1, <1>2, <1>3, <1>5, OutputIsShare
    <2>3. Share(s, 0) = Reference[cfg][token][s]
      <3>1. Divisible(cfg) /\ AllShards
        BY <1>1, <1>3, LoadedShards
      <3>2. cfg \in Configurations /\ token \in Tokens
        BY <1>1 DEF TPInv, LoaderOK, PassOK
      <3> QED  BY <1>1, <3>1, <3>2, StageAlone
    <2> QED  BY <2>1, <2>2, <2>3 DEF Holds
  <1>8. ValuesOK'
    <2>1. DOMAIN residual' = Ranks /\ residual'[0] = ResidualAfter(cfg, token, s)
      BY <1>1, <1>2, <1>3, <1>5, EntersResidual
    <2>2. Entered(0)' = s
      BY <1>6 DEF Entered
    <2> QED  BY <1>2, <1>4, <1>6, <1>7, <2>1, <2>2 DEF ValuesOK
  <1>9. ArrivedOK'
    BY <1>2, <1>4 DEF ArrivedOK
  <1> QED  BY <1>4, <1>8, <1>9 DEF ReferenceInv

LEMMA NcclEnqueueReference ==
    ASSUME ReferenceIInv, NEW r \in Ranks, RunStageNccl(r)
    PROVE  ReferenceInv'
  <1>1. Enters(r) /\ cfg.backend = "nccl" /\ TPInv /\ ValuesOK /\ LoadInv
    BY DEF RunStageNccl, ReferenceIInv, ReferenceInv
  <1>2. r \in Ranks \ enqueued /\ stage[r] \in 0 .. 3 /\ \A q \in Ranks : stage[q] = stage[r]
    BY <1>1, StageFacts DEF TPInv, PassOK, RunStageNccl, NcclEnqueue
  <1>3. \A q \in Ranks : stage[q] >= stage[r]
    BY <1>2
  <1>4. outcome = "running" /\ AllLoaded /\ outcome' = outcome /\ stage' = stage
    BY <1>1 DEF RunStageNccl, ValuesOK
  <1>5. /\ Ranks' = Ranks /\ cfg' = cfg /\ LoadInv' /\ AllLoaded' /\ token' = token
        /\ \A s, q : Share(s, q)' = Share(s, q) /\ Holds(s, q)' = Holds(s, q)
    BY <1>1, <1>4, PassFrame DEF Enters
  <1>6. /\ enqueued' = enqueued \union {r} /\ tensor'[r] = Output(r)
        /\ \A q \in Ranks \ {r} : tensor'[q] = tensor[q]
    BY <1>1 DEF RunStageNccl, NcclEnqueue, TPInv, GroupsOK
  <1>7. tensor'[r].value = Share(stage[r] + 1, r)
    BY <1>1, <1>2, <1>3, <1>6, OutputIsShare
  <1>8. /\ DOMAIN residual' = Ranks
        /\ \A q \in Ranks : residual'[q] = ResidualAfter(cfg, token, Entered(q)')
    <2>1. /\ DOMAIN residual' = Ranks /\ residual'[r] = ResidualAfter(cfg, token, stage[r] + 1)
          /\ \A q \in Ranks \ {r} : residual'[q] = ResidualAfter(cfg, token, Entered(q))
      BY <1>1, <1>2, <1>3, EntersResidual
    <2>2. Entered(r)' = stage[r] + 1 /\ \A q \in Ranks \ {r} : Entered(q)' = Entered(q)
      BY <1>4, <1>6 DEF Entered
    <2> QED  BY <2>1, <2>2
  <1>9. \A q \in enqueued' : tensor'[q].value = Share(stage[q] + 1, q)
    <2>1. enqueued \subseteq Ranks
      BY <1>1 DEF TPInv, PassOK
    <2> QED  BY <1>1, <1>6, <1>7, <2>1 DEF ValuesOK
  <1>10. ASSUME NEW q \in Ranks' \ enqueued', stage'[q] > 0, \A p \in Ranks' : stage'[p] >= stage'[q]
         PROVE  tensor'[q].value = Holds(stage[q], q)
    <2>1. q \in Ranks \ enqueued /\ q # r
      BY <1>5, <1>6
    <2> QED  BY <1>1, <1>4, <1>5, <1>6, <1>10, <2>1 DEF ValuesOK
  <1>11. ValuesOK'
    BY <1>4, <1>5, <1>8, <1>9, <1>10 DEF ValuesOK
  <1>12. ArrivedOK'
    BY <1>1, <1>5 DEF ArrivedOK
  <1> QED  BY <1>5, <1>11, <1>12 DEF ReferenceInv

\* What a completed collective leaves to the ranks.
LEMMA CollectiveHolds ==
    ASSUME TPInv, LoadInv, AllLoaded, NEW s \in 1 .. 4, NEW shards, DOMAIN shards = Ranks,
           \A q \in Ranks : shards[q].value = Share(s, q)
    PROVE  /\ s # 4 => \A q \in Ranks : Holds(s, q) = Summed(shards)
           /\ s = 4 => /\ Holds(s, 0) = Gathered(shards, Vocab)
                       /\ \A q \in Ranks \ {0} : Holds(s, q) = << >>
  <1>1. Divisible(cfg) /\ AllShards
    BY LoadedShards DEF TPInv
  <1>2. cfg \in Configurations /\ token \in Tokens
    BY DEF TPInv, LoaderOK, PassOK
  <1>3. s # 4 => Summed(shards) = Reference[cfg][token][s]
    <2>1. s # 4 => s \in 1 .. 3
      OBVIOUS
    <2> QED  BY <1>1, <1>2, <2>1, StageSum
  <1>4. s = 4 => Gathered(shards, Vocab) = Reference[cfg][token][4]
    BY <1>1, <1>2, StageGather
  <1> QED  BY <1>3, <1>4 DEF Holds

LEMMA NcclCompletesReference ==
    ASSUME ReferenceIInv, NcclCompletes
    PROVE  ReferenceInv'
  <1>1. TPInv /\ ValuesOK /\ LoadInv /\ AllLoaded /\ outcome = "running"
    BY DEF NcclCompletes, ReferenceIInv, ReferenceInv, ValuesOK
  <1>2. /\ 0 \in Ranks /\ enqueued = Ranks /\ enqueued' = {} /\ cfg.backend = "nccl"
        /\ \A q \in Ranks : stage[q] = stage[0]
    BY <1>1, RankFacts DEF NcclCompletes, NcclGatherCompletes, NcclAllReduceCompletes, TPInv,
                           LoaderOK, PassOK
  <1>3. PICK s \in 1 .. 4 : s = stage[0] + 1
    <2>1. stage \in [Ranks -> 0 .. 4] /\ \E q \in Ranks : stage[q] # 4
      BY <1>1, StageFacts DEF TPInv, PassOK
    <2> QED  BY <1>2, <2>1
  <1>4. /\ Ranks' = Ranks /\ cfg' = cfg /\ LoadInv' /\ AllLoaded' /\ token' = token
        /\ \A k, q : Share(k, q)' = Share(k, q) /\ Holds(k, q)' = Holds(k, q)
    BY <1>1, PassFrame DEF NcclCompletes
  <1>5. DOMAIN tensor = Ranks /\ \A q \in Ranks : tensor[q].value = Share(s, q)
    BY <1>1, <1>2, <1>3 DEF TPInv, GroupsOK, ValuesOK
  <1>6. \A q \in Ranks : tensor'[q].value = Holds(s, q)
    <2>1. \A q \in Ranks : IsTensor(tensor[q])
      BY <1>1 DEF TPInv, GroupsOK
    <2>2. \A q \in Ranks : \A v : [tensor[q] EXCEPT !.value = v].value = v
      BY <2>1 DEF IsTensor
    <2>3. /\ s # 4 => \A q \in Ranks : Holds(s, q) = Summed(tensor)
          /\ s = 4 => /\ Holds(s, 0) = Gathered(tensor, Vocab)
                      /\ \A q \in Ranks \ {0} : Holds(s, q) = << >>
      BY <1>1, <1>5, CollectiveHolds
    <2>4. CASE s # 4
      <3>1. NcclAllReduceCompletes(Ranks)
        BY <1>3, <2>4, StageKeys DEF NcclCompletes
      <3>2. \A q \in Ranks : tensor'[q] = [tensor[q] EXCEPT !.value = Summed(tensor)]
        BY <3>1 DEF NcclAllReduceCompletes
      <3>3. PICK v : v = Summed(tensor)
        OBVIOUS
      <3>4. ASSUME NEW q \in Ranks  PROVE tensor'[q].value = Holds(s, q)
        <4>1. tensor'[q] = [tensor[q] EXCEPT !.value = v]
          BY <3>2, <3>3
        <4>2. Holds(s, q) = v
          BY <2>3, <2>4, <3>3
        <4> QED  BY <2>2, <4>1, <4>2
      <3> QED  BY <3>4
    <2>5. CASE s = 4
      <3>1. NcclGatherCompletes(Ranks, Vocab)
        BY <1>3, <2>5, StageKeys DEF NcclCompletes
      <3>2. \A q \in Ranks : tensor'[q] = [tensor[q] EXCEPT !.value =
                                              IF q = 0 THEN Gathered(tensor, Vocab) ELSE << >>]
        BY <3>1 DEF NcclGatherCompletes
      <3>3. PICK v : v = Gathered(tensor, Vocab)
        OBVIOUS
      <3>4. ASSUME NEW q \in Ranks  PROVE tensor'[q].value = Holds(4, q)
        <4>1. CASE q = 0
          <5>1. tensor'[q] = [tensor[q] EXCEPT !.value = v]
            BY <3>2, <3>3, <4>1
          <5> QED  BY <2>2, <2>3, <2>5, <3>3, <4>1, <5>1
        <4>2. CASE q # 0
          <5>1. tensor'[q] = [tensor[q] EXCEPT !.value = << >>]
            BY <3>2, <4>2
          <5> QED  BY <2>2, <2>3, <2>5, <4>2, <5>1
        <4> QED  BY <4>1, <4>2
      <3> QED  BY <2>5, <3>4
    <2> QED  BY <2>4, <2>5
  <1>7. (\A q \in Ranks : stage'[q] = s) /\ outcome' \in {"running", "done"}
    BY <1>1, <1>2, <1>3 DEF NcclCompletes, Through
  <1>8. DOMAIN residual' = Ranks /\ \A q \in Ranks : residual'[q] = ResidualAfter(cfg, token, s)
    <2>1. \A q \in Ranks : Entered(q) = s
      BY <1>2, <1>3 DEF Entered
    <2> QED  BY <1>1, <2>1 DEF NcclCompletes, ValuesOK
  <1>9. ValuesOK'
    <2>1. \A q \in Ranks : Entered(q)' = s
      BY <1>2, <1>7 DEF Entered
    <2> QED  BY <1>2, <1>4, <1>6, <1>7, <1>8, <2>1 DEF ValuesOK
  <1>10. ArrivedOK'
    BY <1>2, <1>4 DEF ArrivedOK
  <1> QED  BY <1>4, <1>9, <1>10 DEF ReferenceInv

-----------------------------------------------------------------------------
(* Lockstep *)

\* What waits in the group that rank r comes to with tensor t in stage s.
Brings(r, s, key, t) ==
    /\ s \in 1 .. 4 /\ s = stage[r] + 1 /\ key = Stages[s] /\ key \in GroupKeys
    /\ t = Output(r) /\ IsTensor(t) /\ t.value = Share(s, r)
    /\ r \notin Members(key) /\ Members(key) = 0 .. r - 1
    /\ LastToArrive(key, cfg.tp, r) <=> r = cfg.tp - 1
    /\ \A q \in 0 .. r - 1 : /\ pending[key][q].value = Share(s, q)
                             /\ SameTensor(tensor[q], pending[key][q])
                             /\ s = 4 /\ q # 0 => tensor[q].value = << >>

LEMMA RankBrings ==
    ASSUME ReferenceIInv, NEW r \in Ranks, RunStageInProcess(r)
    PROVE  \E s, key, t : Brings(r, s, key, t)
  <1>1. TPInv /\ ValuesOK /\ ArrivedOK /\ Turn(r) /\ cfg.tp > 1 /\ cfg.backend = "in_process"
    BY DEF RunStageInProcess, ReferenceIInv, ReferenceInv
  <1>2. /\ enqueued = {} /\ AllLoaded /\ stage[r] \in 0 .. 3
        /\ \A q \in Ranks : stage[q] >= stage[r]
    BY <1>1, LockstepFacts
  <1>3. PICK s, key, t : s = stage[r] + 1 /\ key = Stages[s] /\ t = Output(r)
    OBVIOUS
  <1>4. s \in 1 .. 4 /\ key \in GroupKeys
    BY <1>1, <1>2, <1>3, TurnFacts
  <1>5. IsTensor(t) /\ t.value = Share(s, r)
    BY <1>1, <1>2, <1>3, OutputIsTensor, OutputIsShare
  <1>6. r \notin Members(key)
    BY <1>3, RunStageInProcessJoins DEF Joins, ReferenceIInv
  <1>7. Members(key) = 0 .. r - 1 /\ (LastToArrive(key, cfg.tp, r) <=> r = cfg.tp - 1)
    BY <1>1, <1>3, <1>6, ArrivesInOrder
  <1>8. \A q \in 0 .. r - 1 : /\ pending[key][q].value = Share(s, q)
                              /\ SameTensor(tensor[q], pending[key][q])
                              /\ s = 4 /\ q # 0 => tensor[q].value = << >>
    <2>1. CASE r = 0
      BY <2>1
    <2>2. CASE r # 0
      BY <1>1, <1>3, <2>2 DEF ArrivedOK
    <2> QED  BY <2>1, <2>2
  <1>9. Brings(r, s, key, t)
    BY <1>3, <1>4, <1>5, <1>6, <1>7, <1>8 DEF Brings
  <1> QED  BY <1>9

\* A rank that is not the last of its group leaves its share there.
LEMMA RankWaits ==
    ASSUME TPInv, NEW r \in Ranks, RunStageInProcess(r), r # cfg.tp - 1,
           NEW s, NEW key, NEW t, Brings(r, s, key, t)
    PROVE  /\ \A q \in Ranks \ {r} : tensor'[q] = tensor[q]
           /\ SameTensor(tensor'[r], t)
           /\ s = 4 /\ r # 0 => tensor'[r].value = << >>
           /\ pending'[key] = Arrived(key, r, t)
  <1>1. DOMAIN tensor = Ranks /\ DOMAIN pending = GroupKeys
    BY DEF TPInv, GroupsOK
  <1>2. ~ LastToArrive(key, cfg.tp, r) /\ key \in GroupKeys
    BY DEF Brings
  <1>3. CASE s # 4
    <2>1. all_reduce_sum(key, cfg.tp, r, t)
      BY <1>3, StageKeys DEF RunStageInProcess, Brings
    <2>2. pending' = [pending EXCEPT ![key] = Arrived(key, r, t)] /\ tensor' = [tensor EXCEPT ![r] = t]
      BY <1>2, <2>1 DEF all_reduce_sum
    <2> QED  BY <1>1, <1>2, <1>3, <2>2 DEF SameTensor
  <1>4. CASE s = 4
    <2>1. gather_last_dim_to_rank0(key, cfg.tp, r, t, Vocab)
      BY <1>4, StageKeys DEF RunStageInProcess, Brings
    <2>2. PICK v : v = IF r = 0 THEN [i \in 1 .. Vocab |-> Zero] ELSE << >>
      OBVIOUS
    <2>3. /\ pending' = [pending EXCEPT ![key] = Arrived(key, r, t)]
          /\ tensor' = [tensor EXCEPT ![r] = [t EXCEPT !.value = v]]
      BY <1>2, <2>1, <2>2 DEF gather_last_dim_to_rank0
    <2>4. SameTensor([t EXCEPT !.value = v], t) /\ [t EXCEPT !.value = v].value = v
      BY DEF SameTensor, Brings, IsTensor
    <2> QED  BY <1>1, <1>2, <2>2, <2>3, <2>4
  <1> QED  BY <1>3, <1>4

\* The last one completes the collective in the tensors of all of them.
LEMMA RankCompletes ==
    ASSUME TPInv, LoadInv, AllLoaded, NEW r \in Ranks, RunStageInProcess(r), r = cfg.tp - 1,
           NEW s, NEW key, NEW t, Brings(r, s, key, t)
    PROVE  \A q \in Ranks : tensor'[q].value = Holds(s, q)
  <1>1. DOMAIN tensor = Ranks /\ \A q \in Ranks : IsTensor(tensor[q])
    BY DEF TPInv, GroupsOK
  <1>2. LastToArrive(key, cfg.tp, r) /\ s \in 1 .. 4 /\ IsTensor(t)
    BY DEF Brings
  <1>3. 0 \in Ranks /\ Ranks = 0 .. r /\ r # 0 /\ Members(key) \union {r} = Ranks
    <2>1. cfg \in Configurations
      BY DEF TPInv, LoaderOK
    <2>2. cfg.tp \in Nat \ {0} /\ Ranks = 0 .. cfg.tp - 1 /\ 0 \in Ranks
      BY <2>1, RankFacts
    <2>3. cfg.tp > 1
      BY DEF RunStageInProcess
    <2>4. Members(key) = 0 .. r - 1
      BY DEF Brings
    <2>5. r \in Nat /\ cfg.tp = r + 1 /\ r # 0
      BY <2>2, <2>3
    <2>6. 0 .. r = (0 .. r - 1) \union {r} /\ Ranks = 0 .. r
      BY <2>2, <2>5
    <2> QED  BY <2>2, <2>4, <2>5, <2>6
  <1>4. PICK shards : shards = Arrived(key, r, t)
    OBVIOUS
  <1>5. /\ DOMAIN shards = Ranks /\ shards[r] = t
        /\ \A q \in Ranks \ {r} : shards[q] = pending[key][q]
    <2>1. shards = [q \in Ranks |-> IF q = r THEN t ELSE pending[key][q]]
      BY <1>3, <1>4 DEF Arrived
    <2> QED  BY <2>1
  <1>6. \A q \in Ranks \ {r} : q \in 0 .. r - 1
    BY <1>3
  <1>7. \A q \in Ranks : shards[q].value = Share(s, q)
    BY <1>5, <1>6 DEF Brings
  <1>8. /\ s # 4 => \A q \in Ranks : Holds(s, q) = Summed(shards)
        /\ s = 4 => /\ Holds(s, 0) = Gathered(shards, Vocab)
                    /\ \A q \in Ranks \ {0} : Holds(s, q) = << >>
    BY <1>2, <1>5, <1>7, CollectiveHolds
  <1>9. \A q \in Ranks \ {r} : /\ SameTensor(tensor[q], shards[q])
                               /\ s = 4 /\ q # 0 => tensor[q].value = << >>
    BY <1>5, <1>6 DEF Brings
  <1>10. \A u, v : IsTensor(u) => [u EXCEPT !.value = v].value = v
    BY DEF IsTensor
  <1>11. CASE s # 4
    <2>1. all_reduce_sum(key, cfg.tp, r, t)
      BY <1>11, StageKeys DEF RunStageInProcess, Brings
    <2>2. PICK own : own = [tensor EXCEPT ![r] = t]
      OBVIOUS
    <2>3. tensor' = WrittenBack(own, shards)
      BY <1>2, <1>4, <2>1, <2>2 DEF all_reduce_sum
    <2>4. DOMAIN own = Ranks /\ own[r] = t /\ \A q \in Ranks \ {r} : own[q] = tensor[q]
      BY <1>1, <2>2
    <2>5. ASSUME NEW q \in Ranks
          PROVE  IsTensor(own[q]) /\ SameTensor(own[q], shards[q])
      <3>1. CASE q = r
        BY <1>2, <1>5, <2>4, <3>1 DEF SameTensor, IsTensor
      <3>2. CASE q # r
        BY <1>1, <1>9, <2>4, <3>2 DEF IsTensor
      <3> QED  BY <3>1, <3>2
    <2>6. PICK v : v = Summed(shards)
      OBVIOUS
    <2>7. ASSUME NEW q \in Ranks  PROVE tensor'[q].value = Holds(s, q)
      <3>1. tensor'[q] = [own[q] EXCEPT !.value = v]
        BY <1>5, <2>3, <2>4, <2>5, <2>6 DEF WrittenBack
      <3>2. Holds(s, q) = v
        BY <1>8, <1>11, <2>6
      <3> QED  BY <1>10, <2>5, <3>1, <3>2
    <2> QED  BY <2>7
  <1>12. CASE s = 4
    <2>1. gather_last_dim_to_rank0(key, cfg.tp, r, t, Vocab)
      BY <1>12, StageKeys DEF RunStageInProcess, Brings
    <2>2. PICK own, nothing, v, result :
              /\ nothing = [t EXCEPT !.value = << >>] /\ own = [tensor EXCEPT ![r] = nothing]
              /\ v = Gathered(shards, Vocab) /\ result = [shards[0] EXCEPT !.value = v]
      OBVIOUS
    <2>3. tensor' = IF SameTensor(own[0], result) THEN [own EXCEPT ![0] = result] ELSE own
      BY <1>2, <1>3, <1>4, <2>1, <2>2 DEF gather_last_dim_to_rank0
    <2>4. /\ DOMAIN own = Ranks /\ own[r] = nothing /\ nothing.value = << >>
          /\ \A q \in Ranks \ {r} : own[q] = tensor[q]
      BY <1>1, <1>2, <1>10, <2>2
    <2>5. IsTensor(shards[0])
      <3>1. 0 \in Members(key) /\ key \in GroupKeys
        BY <1>3 DEF Brings
      <3>2. IsTensor(pending[key][0])
        BY <3>1 DEF TPInv, GroupsOK
      <3> QED  BY <1>3, <1>5, <3>2
    <2>6. SameTensor(own[0], result) /\ result.value = v
      <3>1. own[0] = tensor[0] /\ SameTensor(tensor[0], shards[0])
        BY <1>3, <1>9, <2>4
      <3>2. SameTensor(shards[0], result)
        BY <2>2, <2>5 DEF SameTensor, IsTensor
      <3> QED  BY <1>10, <2>2, <2>5, <3>1, <3>2 DEF SameTensor
    <2>7. tensor'[0] = result /\ \A q \in Ranks \ {0} : tensor'[q] = own[q]
      BY <1>3, <2>3, <2>4, <2>6
    <2>8. \A q \in Ranks \ {0} : own[q].value = << >>
      BY <1>9, <1>12, <2>4
    <2>9. Holds(s, 0) = v /\ \A q \in Ranks \ {0} : Holds(s, q) = << >>
      BY <1>8, <1>12, <2>2
    <2> QED  BY <2>6, <2>7, <2>8, <2>9
  <1> QED  BY <1>11, <1>12

LEMMA InProcessReference ==
    ASSUME ReferenceIInv, NEW r \in Ranks, RunStageInProcess(r)
    PROVE  ReferenceInv'
  <1>1. /\ TPInv /\ ValuesOK /\ ArrivedOK /\ LoadInv /\ Turn(r) /\ Enters(r) /\ Through({r})
        /\ cfg.tp > 1 /\ cfg.backend = "in_process"
    BY DEF RunStageInProcess, ReferenceIInv, ReferenceInv
  <1>2. /\ enqueued = {} /\ AllLoaded /\ stage[r] \in 0 .. 3
        /\ \A q \in Ranks : stage[q] >= stage[r]
    BY <1>1, LockstepFacts
  <1>3. /\ Ranks' = Ranks /\ cfg' = cfg /\ LoadInv' /\ AllLoaded' /\ token' = token
        /\ \A k, q : Share(k, q)' = Share(k, q) /\ Holds(k, q)' = Holds(k, q)
    BY <1>1, <1>2, PassFrame DEF Enters
  <1>4. PICK s, key, t : Brings(r, s, key, t)
    BY RankBrings
  <1>5. Ranks = 0 .. cfg.tp - 1 /\ cfg.tp \in Nat \ {0}
    BY <1>1, RankFacts DEF TPInv, LoaderOK
  <1>6. /\ enqueued' = {} /\ stage'[r] = s /\ s \in 1 .. 4 /\ s = stage[r] + 1
        /\ \A q \in Ranks : stage'[q] = IF q <= r THEN s ELSE s - 1
        /\ outcome' \in {"running", "done"}
    <2>1. enqueued' = {} /\ s \in 1 .. 4 /\ s = stage[r] + 1
      BY <1>2, <1>4, RunStageInProcessJoins DEF ReferenceIInv, Joins, Brings
    <2>2. \A q \in Ranks : stage[q] = IF q < r THEN stage[r] + 1 ELSE stage[r]
      BY <1>1 DEF Turn
    <2>3. \A q \in Ranks : stage'[q] = IF q = r THEN stage[q] + 1 ELSE stage[q]
      BY <1>1 DEF Through
    <2>4. outcome' \in {"running", "done"}
      BY <1>1 DEF Through, Turn
    <2>5. ASSUME NEW q \in Ranks
          PROVE  stage'[q] = IF q <= r THEN s ELSE s - 1
      <3>1. q \in Int /\ r \in Int
        BY <1>5
      <3>2. q < r \/ q = r \/ q > r
        BY <3>1
      <3> QED  BY <1>2, <2>1, <2>2, <2>3, <3>1, <3>2
    <2>6. stage'[r] = s
      BY <2>1, <2>3
    <2> QED  BY <2>1, <2>4, <2>5, <2>6
  <1>7. /\ DOMAIN residual' = Ranks
        /\ \A q \in Ranks : residual'[q] = ResidualAfter(cfg, token, Entered(q)')
    <2>1. /\ DOMAIN residual' = Ranks /\ residual'[r] = ResidualAfter(cfg, token, stage[r] + 1)
          /\ \A q \in Ranks \ {r} : residual'[q] = ResidualAfter(cfg, token, Entered(q))
      BY <1>1, <1>2, EntersResidual
    <2>2. Entered(r)' = stage[r] + 1 /\ \A q \in Ranks \ {r} : Entered(q)' = Entered(q)
      BY <1>1, <1>2, <1>6 DEF Entered, Through
    <2> QED  BY <2>1, <2>2
  <1>8. CASE r = cfg.tp - 1
    <2>1. \A q \in Ranks : tensor'[q].value = Holds(s, q)
      BY <1>1, <1>2, <1>4, <1>8, RankCompletes
    <2>2. \A q \in Ranks : stage'[q] = s
      BY <1>5, <1>6, <1>8
    <2>3. ValuesOK'
      BY <1>3, <1>6, <1>7, <2>1, <2>2 DEF ValuesOK
    <2>4. ArrivedOK'
      BY <1>1, <1>3, <1>8, NextTurn DEF ArrivedOK
    <2> QED  BY <1>3, <2>3, <2>4 DEF ReferenceInv
  <1>9. CASE r # cfg.tp - 1
    <2>1. /\ \A q \in Ranks \ {r} : tensor'[q] = tensor[q]
          /\ SameTensor(tensor'[r], t)
          /\ s = 4 /\ r # 0 => tensor'[r].value = << >>
          /\ pending'[key] = Arrived(key, r, t)
      BY <1>1, <1>4, <1>9, RankWaits
    <2>2. ASSUME NEW q \in Ranks, \A p \in Ranks : stage'[p] >= stage'[q], stage'[q] > 0
          PROVE  tensor'[q].value = Holds(stage'[q], q)
      <3>1. cfg.tp - 1 \in Ranks /\ stage'[cfg.tp - 1] = s - 1
        BY <1>5, <1>6, <1>9
      <3>2. q > r /\ q # r /\ stage'[q] = s - 1
        BY <1>5, <1>6, <2>2, <3>1
      <3>3. stage[q] = s - 1 /\ \A p \in Ranks : stage[p] >= stage[q]
        BY <1>1, <1>2, <1>5, <1>6, <3>2 DEF Turn
      <3> QED  BY <1>1, <1>2, <2>1, <2>2, <3>2, <3>3 DEF ValuesOK
    <2>3. ValuesOK'
      BY <1>3, <1>6, <1>7, <2>2 DEF ValuesOK
    <2>4. ASSUME NEW p \in Ranks \ {0}, Turn(p)', NEW q \in 0 .. p - 1
          PROVE  /\ stage'[p] + 1 = s
                 /\ pending'[key][q].value = Share(s, q)
                 /\ SameTensor(tensor'[q], pending'[key][q])
                 /\ s = 4 /\ q # 0 => tensor'[q].value = << >>
      <3>1. p = r + 1 /\ stage'[p] = stage[r]
        BY <1>1, <1>3, <2>4, NextTurn
      <3>2. q \in 0 .. r /\ q \in Ranks
        BY <1>5, <3>1
      <3>3. Members(key) = 0 .. r - 1 /\ t.value = Share(s, r)
        BY <1>4 DEF Brings
      <3>4. CASE q = r
        <4>1. pending'[key][q] = t
          BY <2>1, <3>4 DEF Arrived
        <4> QED  BY <1>6, <2>1, <3>1, <3>3, <3>4, <4>1
      <3>5. CASE q # r
        <4>1. q \in 0 .. r - 1
          BY <3>2, <3>5
        <4>2. pending'[key][q] = pending[key][q]
          BY <2>1, <3>3, <3>5, <4>1 DEF Arrived
        <4>3. tensor'[q] = tensor[q]
          BY <2>1, <3>2, <3>5
        <4> QED  BY <1>4, <1>6, <3>1, <4>1, <4>2, <4>3 DEF Brings
      <3> QED  BY <3>4, <3>5
    <2>5. ArrivedOK'
      <3>1. \A p \in Ranks \ {0} : \A q \in 0 .. p - 1 : Turn(p)' => Stages[stage'[p] + 1] = key
        BY <1>4, <2>4 DEF Brings
      <3> QED  BY <1>3, <2>4, <3>1 DEF ArrivedOK, SameTensor
    <2> QED  BY <1>3, <2>3, <2>5 DEF ReferenceInv
  <1> QED  BY <1>8, <1>9

-----------------------------------------------------------------------------
(* The ranks and the reference *)

LEMMA NextReference ==
    ASSUME SlicesPartsOnly
    PROVE  ReferenceIInv /\ [TPNext]_tpVars => ReferenceIInv'
  <1> SUFFICES ASSUME ReferenceIInv, [TPNext]_tpVars  PROVE ReferenceIInv'
    OBVIOUS
  <1>0. TPInv'
    BY NextTP DEF ReferenceIInv
  <1>1. ASSUME NEW r \in Ranks, Load(r)  PROVE ReferenceInv'
    BY <1>1, LoadReference
  <1>2. ASSUME NEW r \in Ranks,
               Throw(r) \/ RejectedInProcess(r) \/ RejectedWithoutCommunicator(r)
        PROVE  ReferenceInv'
    <2>1. outcome = "running" /\ outcome' \in {"threw", "rejected"}
      BY <1>2 DEF Throw, RejectedInProcess, RejectedWithoutCommunicator, Turn
    <2>2. UNCHANGED <<loaderVars, commVars, stage, residual, token, pass, spoiled>>
      BY <1>2 DEF Throw, RejectedInProcess, RejectedWithoutCommunicator
    <2> QED  BY <2>1, <2>2, EndsReference
  <1>3. ASSUME BeginPass  PROVE ReferenceInv'
    BY <1>3, BeginPassReference
  <1>4. ASSUME NEW r \in Ranks, RunStageAlone(r)  PROVE ReferenceInv'
    BY <1>4, AloneReference
  <1>5. ASSUME NEW r \in Ranks, RunStageInProcess(r)  PROVE ReferenceInv'
    BY <1>5, InProcessReference
  <1>6. ASSUME NEW r \in Ranks, RunStageNccl(r)  PROVE ReferenceInv'
    BY <1>6, NcclEnqueueReference
  <1>7. ASSUME NcclCompletes  PROVE ReferenceInv'
    BY <1>7, NcclCompletesReference
  <1>8. ASSUME UNCHANGED tpVars  PROVE ReferenceInv'
    <2>1. /\ Ranks' = Ranks /\ cfg' = cfg /\ LoadInv' /\ (AllLoaded => AllLoaded')
          /\ \A s, q : Share(s, q)' = Share(s, q) /\ Holds(s, q)' = Holds(s, q)
      BY <1>8, PassFrame DEF tpVars, ReferenceIInv, ReferenceInv
    <2>2. ValuesOK'
      BY <1>8, <2>1 DEF tpVars, commVars, ReferenceIInv, ReferenceInv, ValuesOK, Entered
    <2>3. ArrivedOK'
      BY <1>8, <2>1 DEF tpVars, commVars, ReferenceIInv, ReferenceInv, ArrivedOK, Turn, SameTensor
    <2> QED  BY <2>1, <2>2, <2>3 DEF ReferenceInv
  <1> QED  BY <1>0, <1>1, <1>2, <1>3, <1>4, <1>5, <1>6, <1>7, <1>8 DEF TPNext, RunStage, ReferenceIInv

\* The inductive invariant of loading and of what the stages compute.
THEOREM ReferenceInvariant ==
    ASSUME SlicesPartsOnly
    PROVE  TPSpec => []ReferenceIInv
  <1>1. TPInit => ReferenceIInv
    BY InitTP, InitReference DEF ReferenceIInv
  <1> QED  BY <1>1, NextReference, PTL DEF TPSpec

\* Once every rank has loaded its checkpoint, in whatever order of its entries,
\* split or stacked (but for the layout that SlicesPartsOnly leaves out), each
\* has its shard of every parameter of the model: rows or columns of the whole
\* tensor, stacked where the model stacks them (loader.cpp, linear.cpp,
\* embed_head.cpp).
THEOREM RanksHoldShards ==
    ASSUME SlicesPartsOnly
    PROVE  TPSpec => [](AllLoaded => AllShards)
  <1>1. ReferenceIInv => (AllLoaded => AllShards)
    BY LoadedShards DEF ReferenceIInv, ReferenceInv, TPInv
  <1> QED  BY <1>1, ReferenceInvariant, PTL

\* Whatever the order of the checkpoint, its layout (but for the one that
\* SlicesPartsOnly leaves out) and the sharding: after a stage that all ranks
\* have been through, each of them holds what a single rank computes from the
\* whole checkpoint, and after the last one rank 0 alone has the logits
\* (linear.cpp, embed_head.cpp, loader.cpp, tensor_parallel.cpp).
THEOREM RanksComputeReference ==
    ASSUME SlicesPartsOnly
    PROVE  TPSpec => []RanksMatchReference
  <1>1. ReferenceIInv => RanksMatchReference
    <2> SUFFICES ASSUME ReferenceIInv, NEW s \in DOMAIN Stages, enqueued = {},
                        \A r \in Ranks : stage[r] = s, NEW r \in Ranks
                 PROVE  tensor[r].value = IF s = 4 /\ r # 0 THEN << >>
                                          ELSE Reference[cfg][token][s]
      BY DEF RanksMatchReference
    <2>1. s \in 1 .. 4
      BY DEF Stages
    <2>2. tensor[r].value = Holds(s, r)
      BY <2>1 DEF ReferenceIInv, ReferenceInv, ValuesOK
    <2> QED  BY <2>2 DEF Holds
  <1> QED  BY <1>1, ReferenceInvariant, PTL
=============================================================================
