------------------------------- MODULE Loader -------------------------------
(***************************************************************************)
(* Loading a checkpoint into the parameters of a TransformerForCausalLM:   *)
(* ParameterRegistry::load resolves each entry to a registered parameter   *)
(* and calls its loader.  The models of the ranks are built and loaded one *)
(* after the other; the order of the entries depends on how they are       *)
(* spread over files, so that any entry may come next.                     *)
(***************************************************************************)
EXTENDS ParallelLayers

CONSTANTS
    Configurations,     \* the model and checkpoint configurations to try
    Hidden, NumHeads, NumKvHeads, Intermediate, Vocab   \* sizes; head_dim is 1

ASSUME SizesAssumption ==
    /\ {Hidden, NumHeads, NumKvHeads, Intermediate, Vocab} \subseteq Nat \ {0}
    /\ NumHeads % NumKvHeads = 0

ASSUME ConfigurationsAssumption ==
    \A c \in Configurations :
        c \in [tp : Nat \ {0}, style : {"split", "fused", "qkv", "gate_up", "foreign"},
               qkv_bias : BOOLEAN, tie : BOOLEAN, backend : STRING]

VARIABLES
    cfg,        \* the configuration: never changes
    param,      \* param[rank][name]: the tensor of a registered parameter
    unread,     \* unread[rank]: checkpoint entries not loaded yet
    loading     \* loading[rank]: "loading", "loaded" or "failed"

loaderVars == <<cfg, param, unread, loading>>

Ranks == 0 .. cfg.tp - 1

Layer(module) == <<"model", "layers", "0">> \o module
Attn(leaf) == Layer(<<"self_attn", leaf>>)
Mlp(leaf) == Layer(<<"mlp", leaf>>)
Weight(module) == module \o <<"weight">>
Bias(module) == module \o <<"bias">>

EmbedName == Weight(<<"model", "embed_tokens">>)
LMHeadName == Weight(<<"lm_head">>)
QkvWeightName == Weight(Attn("qkv_proj"))
QkvBiasName == Bias(Attn("qkv_proj"))
OName == Weight(Attn("o_proj"))
GateUpName == Weight(Mlp("gate_up_proj"))
DownName == Weight(Mlp("down_proj"))
\* The weights of layer norms are not sharded: one of them stands for all.
NormName == Weight(Layer(<<"input_layernorm">>))

-----------------------------------------------------------------------------
(* Names. *)

\* Transformer's packed_modules_mapping.
packed_modules_mapping ==
    << [source |-> "q_proj", target |-> "qkv_proj", shard |-> 0],
       [source |-> "k_proj", target |-> "qkv_proj", shard |-> 1],
       [source |-> "v_proj", target |-> "qkv_proj", shard |-> 2],
       [source |-> "gate_proj", target |-> "gate_up_proj", shard |-> 0],
       [source |-> "up_proj", target |-> "gate_up_proj", shard |-> 1] >>

\* string::find also matches inside a segment.
ContainsWord(segment, word) ==
    \/ segment = word
    \/ <<segment, word>> \in {<<"qkv_proj", "v_proj">>, <<"gate_up_proj", "up_proj">>}

\* string::find gives the first occurrence; it must be a whole segment.
matches_parameter_segment(name, m) ==
    \E i \in DOMAIN name :
        /\ name[i] = m.source
        /\ \A j \in 1 .. i - 1 : ~ ContainsWord(name[j], m.source)

NoShard == -1

\* The parameter an entry belongs to, and which of its stacked shards it is.
resolve_packed_parameter_name(name) ==
    LET hits == {k \in DOMAIN packed_modules_mapping :
                    matches_parameter_segment(name, packed_modules_mapping[k])}
        m == packed_modules_mapping[CHOOSE k \in hits : \A l \in hits : k <= l]
        i == CHOOSE i \in DOMAIN name : ContainsWord(name[i], m.source)
    IN  IF hits = {} THEN [target |-> name, shard |-> NoShard]
        ELSE [target |-> [name EXCEPT ![i] = m.target], shard |-> m.shard]

-----------------------------------------------------------------------------
(* The checkpoint. *)

Matrix(name, rows, cols) == [i \in 1 .. rows |-> [j \in 1 .. cols |-> <<name, i, j>>]]
Column(name, rows) == [i \in 1 .. rows |-> <<name, i, 0>>]

QName == Weight(Attn("q_proj"))
KName == Weight(Attn("k_proj"))
VName == Weight(Attn("v_proj"))
GateName == Weight(Mlp("gate_proj"))
UpName == Weight(Mlp("up_proj"))
ForeignName == <<"model", "rotary", "inv_freq">>

\* The tensors of the unpacked layers, as a single rank would hold them.
FullTensor(name) ==
    CASE name \in {EmbedName, LMHeadName} -> Matrix(name, Vocab, Hidden)
      [] name = QName -> Matrix(name, NumHeads, Hidden)
      [] name \in {KName, VName} -> Matrix(name, NumKvHeads, Hidden)
      [] name = Bias(Attn("q_proj")) -> Column(name, NumHeads)
      [] name \in {Bias(Attn("k_proj")), Bias(Attn("v_proj"))} -> Column(name, NumKvHeads)
      [] name = OName -> Matrix(name, Hidden, NumHeads)
      [] name \in {GateName, UpName} -> Matrix(name, Intermediate, Hidden)
      [] name = DownName -> Matrix(name, Hidden, Intermediate)
      [] name = NormName -> Matrix(name, 1, Hidden)

\* A checkpoint may also hold layers stacked: of a "fused" one both, of a "qkv"
\* and a "gate_up" one those it is named for.
CheckpointTensor(name) ==
    CASE name = QkvWeightName -> FullTensor(QName) \o FullTensor(KName) \o FullTensor(VName)
      [] name = GateUpName -> FullTensor(GateName) \o FullTensor(UpName)
      [] name = ForeignName -> Column(name, 1)
      [] OTHER -> FullTensor(name)

StackedQkv == cfg.style \in {"fused", "qkv"}
StackedGateUp == cfg.style \in {"fused", "gate_up"}

CheckpointEntries ==
    {EmbedName, OName, DownName, NormName}
        \union (IF cfg.tie THEN {} ELSE {LMHeadName})
        \union (IF StackedQkv THEN {QkvWeightName} ELSE {QName, KName, VName})
        \union (IF StackedGateUp THEN {GateUpName} ELSE {GateName, UpName})
        \union (IF cfg.qkv_bias THEN {Bias(Attn(p)) : p \in {"q_proj", "k_proj", "v_proj"}}
                                ELSE {})
        \union (IF cfg.style = "foreign" THEN {ForeignName} ELSE {})

-----------------------------------------------------------------------------
(* Parameters and their loaders. *)

\* register_parameters of the model and of its layers.
RegisteredNames ==
    {EmbedName, QkvWeightName, OName, NormName, GateUpName, DownName, LMHeadName}
        \union (IF cfg.qkv_bias THEN {QkvBiasName} ELSE {})

\* The constructors: shapes of the rank's parameters.
NewParameter(c, name) ==
    LET qkv == (NumHeads + 2 * NumKvHeads) \div c.tp
    IN  CASE name \in {EmbedName, LMHeadName} -> zeros(Vocab \div c.tp, Hidden)
          [] name = QkvWeightName -> zeros(qkv, Hidden)
          [] name = QkvBiasName -> [i \in 1 .. qkv |-> Zero]
          [] name = OName -> zeros(Hidden, NumHeads \div c.tp)
          [] name = GateUpName -> zeros((2 * Intermediate) \div c.tp, Hidden)
          [] name = DownName -> zeros(Hidden, Intermediate \div c.tp)
          [] name = NormName -> zeros(1, Hidden)

\* With tied embeddings the head shares the storage of the embedding.
Storage(name) == IF cfg.tie /\ name = LMHeadName THEN EmbedName ELSE name

\* The function registered for parameter `name' of `rank'.
ParameterLoadFn(rank, name, shard, source) ==
    LET w == param[rank][Storage(name)]
    IN  CASE name \in {EmbedName, LMHeadName} ->
                VocabWeightLoader(w, source, Vocab, cfg.tp, rank)
          [] name = QkvWeightName /\ shard # NoShard ->
                QkvWeightLoader(w, source, shard, NumHeads, NumKvHeads, cfg.tp, rank)
          [] name = QkvWeightName /\ shard = NoShard ->
                ColumnWeightLoader(w, source, Len(w), 1, 0)
          [] name = QkvBiasName ->
                QkvBiasLoader(w, source, shard, NumHeads, NumKvHeads, cfg.tp, rank)
          [] name = GateUpName /\ shard # NoShard ->
                MergedWeightLoader(w, source, shard, <<Intermediate, Intermediate>>,
                                   cfg.tp, rank)
          [] name = GateUpName /\ shard = NoShard ->
                ColumnWeightLoader(w, source, 2 * Intermediate, cfg.tp, rank)
          [] name = OName -> RowWeightLoader(w, source, NumHeads, cfg.tp, rank)
          [] name = DownName -> RowWeightLoader(w, source, Intermediate, cfg.tp, rank)
          [] name = NormName -> copy_tensor_to_rows(source, w, 0, Len(w))

\* What the constructors ask of the sizes.
Divisible(c) ==
    \A size \in {NumHeads, NumKvHeads, Intermediate, Vocab} : size % c.tp = 0

LoaderInit ==
    /\ cfg \in Configurations
    /\ unread = [r \in Ranks |-> CheckpointEntries]
    /\ loading = [r \in Ranks |-> IF Divisible(cfg) THEN "loading" ELSE "failed"]
    /\ param = [r \in Ranks |-> [name \in RegisteredNames |-> NewParameter(cfg, name)]]

\* One iteration of the loop of ParameterRegistry::load.
LoadEntry(rank) ==
    /\ \A q \in 0 .. rank - 1 : loading[q] = "loaded"
    /\ loading[rank] = "loading"
    /\ \E entry \in unread[rank] :
        LET name == resolve_packed_parameter_name(entry)
            loaded == ParameterLoadFn(rank, name.target, name.shard, CheckpointTensor(entry))
            done == unread[rank] = {entry}
        IN  IF name.target \in RegisteredNames /\ loaded # Throws
            THEN /\ param' = [param EXCEPT ![rank][Storage(name.target)] = loaded]
                 /\ unread' = [unread EXCEPT ![rank] = @ \ {entry}]
                 /\ loading' = [loading EXCEPT ![rank] = IF done THEN "loaded" ELSE @]
            ELSE /\ loading' = [loading EXCEPT ![rank] = "failed"]
                 /\ UNCHANGED <<param, unread>>
    /\ UNCHANGED cfg

AllLoaded == \A r \in Ranks : loading[r] = "loaded"
=============================================================================
