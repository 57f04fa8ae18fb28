--------------------------- MODULE TensorParallel ---------------------------
(***************************************************************************)
(* Tensor-parallel forward passes: the models of all ranks, loaded from    *)
(* one checkpoint, run a TransformerForCausalLM of one layer on a token.   *)
(* With the in-process communicator one thread steps the ranks in order,   *)
(* stage by stage; with NCCL every rank has a thread of its own.  A rank   *)
(* may throw in any stage, out of device memory for instance, and the      *)
(* driver may start another pass with the same communicator.               *)
(***************************************************************************)
EXTENDS Loader, Communicator

CONSTANT MaxPasses      \* bound on the passes of a run

VARIABLES
    stage,      \* stage[rank]: the stages it has been through in this pass
    residual,   \* residual[rank]: the residual stream, << >> when undefined
    token,      \* the input token of the pass
    pass,       \* its number
    outcome,    \* "running", "done", "threw" or "rejected" by a collective
    spoiled     \* an earlier pass was aborted

tpVars == <<loaderVars, commVars, stage, residual, token, pass, outcome, spoiled>>

\* A stage ends in the collective of this group, if tp_size > 1.
Stages == <<EmbedName, OName, DownName, LMHeadName>>
Tokens == 0 .. Vocab - 1

ASSUME PassesAssumption == MaxPasses \in Nat
ASSUME GroupKeysAssumption == ToSet(Stages) \subseteq GroupKeys

NoTensor == [pass |-> 0, stage |-> 0, value |-> << >>]

TPInit ==
    /\ LoaderInit
    /\ CommInit(Ranks, NoTensor)
    /\ stage = [r \in Ranks |-> 0]
    /\ residual = [r \in Ranks |-> << >>]
    /\ token = 0
    /\ pass = 0
    /\ outcome = "done"
    /\ spoiled = FALSE

-----------------------------------------------------------------------------
(* What one rank computes; p maps the names of its parameters to tensors. *)

\* Every output depends on the whole vector.
rms_norm(x, weight) == [j \in DOMAIN x |-> <<"norm", x, weight[1][j]>>]

\* RMSNorm::forward without a residual, and with one: the sum is normalised
\* and is the new residual.
add_rms_norm(x, residual_in, weight) ==
    LET residual_out == IF residual_in = << >> THEN x
                        ELSE [j \in DOMAIN x |-> <<"add", x[j], residual_in[j]>>]
    IN  [output |-> rms_norm(residual_out, weight), residual |-> residual_out]

\* The halves of a row: the gates, and what they multiply.
silu_and_mul(gate_up) ==
    LET half == Len(gate_up) \div 2
    IN  [j \in 1 .. half |-> <<"silu_mul", gate_up[j], gate_up[half + j]>>]

\* The GQA head that serves a query head of the rank, both from 0.
kv_head_for_query_head(head, num_heads, num_kv_heads) ==
    (head * num_kv_heads) \div num_heads

\* TransformerAttention::forward up to o_proj, for the first token of a
\* sequence: split_qkv, then each query head attends to its K and V.
AttentionHeads(p, x, tp_size) ==
    LET bias == IF QkvBiasName \in DOMAIN p THEN p[QkvBiasName] ELSE << >>
        qkv == linear_forward(x, p[QkvWeightName], bias)
        num_heads == NumHeads \div tp_size
        num_kv_heads == NumKvHeads \div tp_size
        kv(h) == kv_head_for_query_head(h - 1, num_heads, num_kv_heads) + 1
    IN  [h \in 1 .. num_heads |->
            <<"attn", qkv[h], qkv[num_heads + kv(h)],
              qkv[num_heads + num_kv_heads + kv(h)]>>]

\* TransformerAttention::forward.
AttentionForward(p, x, tp_size, rank) ==
    RowForward(AttentionHeads(p, x, tp_size), p[OName], << >>, tp_size, rank)

\* TransformerMLP::forward.
MLPForward(p, x, tp_size, rank) ==
    RowForward(silu_and_mul(linear_forward(x, p[GateUpName], << >>)), p[DownName], << >>,
               tp_size, rank)

\* The residual stream that stage s hands on: the decoder layer takes its
\* input first, then adds what comes out of the attention and of the MLP.
Normed(p, s, x, res) ==
    IF s = 1 THEN [output |-> << >>, residual |-> << >>]
    ELSE add_rms_norm(x, res, p[NormName])

\* The rank's part of stage s, from the output x of the stage before.
LocalForward(p, s, x, res, tok, tp_size, rank) ==
    LET normed == Normed(p, s, x, res).output
    IN  CASE s = 1 -> EmbeddingForward(p[EmbedName], tok, Vocab, tp_size, rank)
          [] s = 2 -> AttentionForward(p, normed, tp_size, rank)
          [] s = 3 -> MLPForward(p, normed, tp_size, rank)
          [] s = 4 -> LMHeadForward(normed, p[LMHeadName])

-----------------------------------------------------------------------------
(* Passes *)

\* LMHeadName is registered, but holds the embedding when they are tied.
Parameters(r) == [name \in DOMAIN param[r] |-> param[r][Storage(name)]]

Output(r) ==
    [pass |-> pass, stage |-> stage[r] + 1,
     value |-> LocalForward(Parameters(r), stage[r] + 1, tensor[r].value, residual[r],
                            token, cfg.tp, r)]

Enters(r) ==
    /\ residual' = [residual EXCEPT ![r] =
                        Normed(Parameters(r), stage[r] + 1, tensor[r].value, @).residual]
    /\ UNCHANGED <<loaderVars, token, pass, spoiled>>

Through(ranks) ==
    LET after == [r \in Ranks |-> IF r \in ranks THEN stage[r] + 1 ELSE stage[r]]
        all == \A r \in Ranks : after[r] = Len(Stages)
    IN  stage' = after /\ outcome' = IF all THEN "done" ELSE outcome

BeginPass ==
    /\ AllLoaded
    /\ outcome # "running"
    /\ cfg.backend = "nccl" => ~ spoiled /\ outcome = "done"
    /\ pass < MaxPasses
    /\ pass' = pass + 1
    /\ token' \in Tokens
    /\ stage' = [r \in Ranks |-> 0]
    /\ residual' = [r \in Ranks |-> << >>]
    /\ outcome' = "running"
    /\ spoiled' = (spoiled \/ outcome # "done")
    /\ UNCHANGED <<loaderVars, commVars>>

\* Fault: the ranks of a stage run in any order.
AnyTurn(r) == outcome = "running" /\ \A q \in Ranks : stage[q] >= stage[r]

\* In lockstep: one stage of every rank after the other, from rank 0 on.
Turn(r) ==
    /\ outcome = "running"
    /\ \A q \in Ranks : stage[q] = IF q < r THEN stage[r] + 1 ELSE stage[r]

\* tp_size = 1: no communicator is asked for.
RunStageAlone(r) ==
    /\ cfg.tp = 1
    /\ Turn(r)
    /\ Enters(r)
    /\ tensor' = [tensor EXCEPT ![r] = Output(r)]
    /\ Through({r})
    /\ UNCHANGED <<pending, enqueued>>

RunStageInProcess(r) ==
    LET key == Stages[stage[r] + 1]
    IN  /\ cfg.tp > 1 /\ cfg.backend = "in_process"
        /\ Turn(r)
        /\ Enters(r)
        /\ IF key = LMHeadName
           THEN gather_last_dim_to_rank0(key, cfg.tp, r, Output(r), Vocab)
           ELSE all_reduce_sum(key, cfg.tp, r, Output(r))
        /\ Through({r})

\* The group still holds a tensor of this rank: "duplicate rank".
RejectedInProcess(r) ==
    /\ cfg.tp > 1 /\ cfg.backend = "in_process"
    /\ Turn(r)
    /\ Rejects(Stages[stage[r] + 1], r)
    /\ outcome' = "rejected"
    /\ UNCHANGED <<loaderVars, commVars, stage, residual, token, pass, spoiled>>

\* require_tensor_parallel_communicator.
RejectedWithoutCommunicator(r) ==
    /\ cfg.tp > 1 /\ cfg.backend = NoCommunicator
    /\ Turn(r)
    /\ outcome' = "rejected"
    /\ UNCHANGED <<loaderVars, commVars, stage, residual, token, pass, spoiled>>

\* The threads of NCCL ranks run freely up to their next collective.
RunStageNccl(r) ==
    /\ cfg.tp > 1 /\ cfg.backend = "nccl"
    /\ outcome = "running"
    /\ stage[r] < Len(Stages)
    /\ Enters(r)
    /\ NcclEnqueue(r, Output(r))
    /\ UNCHANGED <<stage, outcome>>

NcclCompletes ==
    /\ outcome = "running"
    /\ enqueued # {}
    /\ IF Stages[stage[0] + 1] = LMHeadName
       THEN NcclGatherCompletes(Ranks, Vocab)
       ELSE NcclAllReduceCompletes(Ranks)
    /\ Through(Ranks)
    /\ UNCHANGED <<loaderVars, residual, token, pass, spoiled>>

\* A rank throws before its collective: the exception ends the pass and
\* leaves the groups as they are.
Throw(r) ==
    /\ outcome = "running"
    /\ r \notin enqueued
    /\ cfg.backend # "nccl" => Turn(r)
    /\ outcome' = "threw"
    /\ UNCHANGED <<loaderVars, commVars, stage, residual, token, pass, spoiled>>

Load(r) ==
    /\ LoadEntry(r)
    /\ UNCHANGED <<commVars, stage, residual, token, pass, outcome, spoiled>>

RunStage ==
    \/ \E r \in Ranks : RunStageAlone(r) \/ RunStageInProcess(r) \/ RunStageNccl(r)
    \/ \E r \in Ranks : RejectedInProcess(r) \/ RejectedWithoutCommunicator(r)
    \/ NcclCompletes

TPNext ==
    \/ \E r \in Ranks : Load(r) \/ Throw(r)
    \/ BeginPass
    \/ RunStage

TPSpec == TPInit /\ [][TPNext]_tpVars /\ WF_tpVars(RunStage)

-----------------------------------------------------------------------------
(* The reference: a single rank that holds the unsharded checkpoint. *)

FullParameters(c) ==
    LET stacked == [name \in {QkvWeightName, GateUpName, QkvBiasName} |->
                        CASE name = QkvBiasName ->
                                FullTensor(Bias(Attn("q_proj")))
                                    \o FullTensor(Bias(Attn("k_proj")))
                                    \o FullTensor(Bias(Attn("v_proj")))
                          [] OTHER -> CheckpointTensor(name)]
        plain == {EmbedName, OName, NormName, DownName, LMHeadName}
    IN  [name \in plain \union {QkvWeightName, GateUpName}
                  \union (IF c.qkv_bias THEN {QkvBiasName} ELSE {}) |->
            CASE name \in DOMAIN stacked -> stacked[name]
              [] name = LMHeadName /\ c.tie -> FullTensor(EmbedName)
              [] OTHER -> FullTensor(name)]

\* What each stage of a pass computes for a token.
Reference ==
    [c \in Configurations |-> [tok \in Tokens |->
        LET p == FullParameters(c)
            out(s, x, res) == LocalForward(p, s, x, res, tok, 1, 0)
            embedded == out(1, << >>, << >>)
            attended == out(2, embedded, << >>)
            res3 == Normed(p, 3, attended, embedded).residual
            mlp == out(3, attended, embedded)
        IN  <<embedded, attended, mlp, out(4, mlp, res3)>>]]

-----------------------------------------------------------------------------
(* Properties *)

TPTypeOK ==
    /\ cfg \in Configurations
    /\ \A r \in Ranks : /\ DOMAIN param[r] = RegisteredNames
                        /\ unread[r] \subseteq CheckpointEntries
                        /\ loading[r] \in {"loading", "loaded", "failed"}
                        /\ stage[r] \in 0 .. Len(Stages)
                        /\ tensor[r].pass <= pass
    /\ \A key \in GroupKeys : Members(key) \subseteq Ranks
    /\ enqueued \subseteq Ranks
    /\ token \in Tokens /\ pass \in 0 .. MaxPasses
    /\ outcome \in {"running", "done", "threw", "rejected"}
    /\ spoiled \in BOOLEAN

\* Whatever the order of the checkpoint and the sharding, with split and with
\* stacked layers (but for gate_up stacked alone, on several ranks): after a
\* stage that all ranks have been through, each of them holds what a single
\* rank computes, and after the last one rank 0 alone has the logits
\* (linear.cpp, embed_head.cpp, loader.cpp, tensor_parallel.cpp).
RanksMatchReference ==
    \A s \in DOMAIN Stages :
        (pass > 0 /\ enqueued = {} /\ \A r \in Ranks : stage[r] = s) =>
            \A r \in Ranks :
                tensor[r].value = IF s = 4 /\ r # 0 THEN << >>
                                  ELSE Reference[cfg][token][s]

\* No reduction combines tensors of two passes, whatever an aborted pass left
\* in the pending groups (tensor_parallel.cpp:179-193).
NoStaleReduction ==
    [][\A key \in GroupKeys :
           pending'[key] = << >> /\ pending[key] # << >> =>
               \A r \in Members(key) : pending[key][r].pass = pass]_tpVars

\* With a communicator that no aborted pass has used, a pass in which no rank
\* throws completes: no rank waits or is turned away for ever.
PassesComplete ==
    (outcome = "running" /\ ~ spoiled) ~> (outcome \in {"done", "threw"}
                                           \/ cfg.backend = NoCommunicator)
=============================================================================
