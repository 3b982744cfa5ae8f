----------------------------- MODULE ModelLoading -----------------------------
(***************************************************************************)
(* Which tensor of a checkpoint ends up in which part of which parameter:  *)
(* load_weights of the DeepSeek/GLM target on one rank, load_weights of    *)
(* the DSpark draft, and which hidden states of the target the draft gets. *)
(*                                                                         *)
(* A name is a record: layer, group ("attn", "indexer", "mlp", "shared",   *)
(* "experts" or "top"), proj, expert and kind.  The code finds and         *)
(* replaces substrings of names; where one projection's name contains      *)
(* another's, Within says so.                                              *)
(*                                                                         *)
(* A model m says what config.json and the parallel configuration say; a   *)
(* rank is a pipeline stage and an expert-parallel rank in it.             *)
(***************************************************************************)
EXTENDS EngineConfig

Name(layer, group, proj, expert, kind) ==
    [layer |-> layer, group |-> group, proj |-> proj, expert |-> expert, kind |-> kind]

Weights(layer, group, projs) == {Name(layer, group, p, -1, "weight") : p \in projs}

Top(projs) == Weights(-1, "top", projs)

--------------------------------------------------------------------------------
(* The modules a rank builds. *)

\* The layers of pipeline stage s; starts are the first layers of the stages.
StageLayers(m, s) ==
    {l \in 0 .. m.layers - 1 :
        m.starts[s] <= l /\ (s < Len(m.starts) => l < m.starts[s + 1])}

IsMoe(m, l) == l >= m.dense

\* Layers that have an indexer; layers of the MTP model always do.
HasIndexer(m, l) == m.dsa /\ (l >= m.layers \/ l \in m.full)

AttentionParams(m) ==
    IF ~m.mla THEN {"qkv_proj", "o_proj"}
    ELSE IF m.lora THEN {"fused_qkv_a_proj", "q_b_proj", "o_proj"}
    ELSE {"q_proj", "kv_a_proj_with_mqa", "o_proj"}

LayerParams(m, l) ==
    Weights(l, "attn", AttentionParams(m))
    \cup (IF HasIndexer(m, l) THEN Weights(l, "indexer", {"wk"}) ELSE {})
    \cup (IF ~IsMoe(m, l) THEN Weights(l, "mlp", {"gate_up_proj", "down_proj"})
          ELSE Weights(l, "mlp", {"gate"}) \cup Weights(l, "experts", {"w13", "w2"})
               \cup (IF m.fuseShared THEN {}
                     ELSE Weights(l, "shared", {"gate_up_proj", "down_proj"})))

\* named_parameters of a rank.
Params(m, rank) ==
    UNION {LayerParams(m, l) : l \in StageLayers(m, rank.stage)}
    \cup (IF rank.stage = 1 THEN Top({"embed_tokens"}) ELSE {})
    \cup (IF rank.stage = Len(m.starts) THEN Top({"norm", "lm_head"}) ELSE {})

\* Experts of the mapping, and of the layer when the shared ones join it.
Logical(m) == m.routed + (IF m.fuseShared THEN m.shared ELSE 0)
Physical(m) == 0 .. Logical(m) + m.redundant - 1

\* The logical expert of a physical one; replicas follow in the same order.
LogicalOf(m, p) == p % Logical(m)

LocalExperts(m, rank) ==
    LET n == Cardinality(Physical(m)) \div m.ep
    IN  {p \in Physical(m) : p \div n = rank.ep}

--------------------------------------------------------------------------------
(* load_weights of the target. *)

\* stacked_params_mapping: parameter, checkpoint name and part.
StackedParams(m) ==
    <<<<"gate_up_proj", "gate_proj", 0>>, <<"gate_up_proj", "up_proj", 1>>>>
    \o (IF m.mla THEN <<<<"fused_qkv_a_proj", "q_a_proj", 0>>,
                        <<"fused_qkv_a_proj", "kv_a_proj_with_mqa", 1>>>>
        ELSE <<<<"qkv_proj", "q_proj", "q">>, <<"qkv_proj", "k_proj", "k">>,
               <<"qkv_proj", "v_proj", "v">>>>)

\* weight_name in name, and name.replace.
Within(w, proj) == proj = w \/ <<w, proj>> \in {<<"up_proj", "gate_up_proj">>, <<"v_proj", "qkv_proj">>}
Replaced(name, w, param) == [name EXCEPT !.proj = IF @ = w THEN param ELSE "garbled"]

\* is_pp_missing_parameter: the module is on another stage.
Missing(m, rank, name) ==
    CASE name.layer >= 0 -> name.layer \notin StageLayers(m, rank.stage)
      [] name.proj = "embed_tokens" -> rank.stage # 1
      [] OTHER -> rank.stage # Len(m.starts)

\* get_spec_layer_idx_from_weight_name.
IsSpecLayer(m, name) == name.layer >= m.layers

Write(param, part, tensor, piece) ==
    [param |-> param, part |-> part, tensor |-> tensor, piece |-> piece]

\* One entry of the mapping; acc.name is the name as far as it was rewritten.
Stacked(m, rank, tensor, acc, entry) ==
    LET mapped == Replaced(acc.name, entry[2], entry[1])
        params == Params(m, rank)
    IN  CASE \/ acc.done \/ ~Within(entry[2], acc.name.proj)
             \/ acc.name.group = "experts" /\ acc.name \notin params
             \/ m.fuseShared /\ tensor.group = "shared"
             \/ entry[1] = "fused_qkv_a_proj" /\ mapped \notin params -> acc
          [] OTHER ->
               IF (mapped.kind = "bias" /\ mapped \notin params) \/ Missing(m, rank, mapped)
               THEN [acc EXCEPT !.name = mapped]
               ELSE [acc EXCEPT !.name = mapped, !.done = TRUE,
                                !.failed = mapped \notin params,
                                !.writes = {Write(mapped, entry[3], tensor, 0)}]

\* Mutant of Replica: the first of the mapping, whether or not its loader succeeds.
ReplicaFirst(m, rank, expert) ==
    LET first == Min({p \in Physical(m) : LogicalOf(m, p) = expert})
    IN  {first} \cap LocalExperts(m, rank)

\* The first replica of an expert whose loader returns success.
Replica(m, rank, expert) ==
    LET here == {p \in LocalExperts(m, rank) : LogicalOf(m, p) = expert}
    IN  {p \in here : \A q \in here : p <= q}

\* expert_params_mapping: gate, down and up are w1, w2 and w3.
ExpertPart == [gate_proj |-> <<"w13", "w1">>, down_proj |-> <<"w2", "w2">>,
               up_proj |-> <<"w13", "w3">>]

\* chunk_name: the pieces of a widened shared expert go to experts of their own.
Pieces(m, name) ==
    IF m.fuseShared /\ name.group = "shared"
    THEN {<<j, [name EXCEPT !.group = "experts", !.expert = m.routed + j]>> : j \in 0 .. m.shared - 1}
    ELSE {<<0, name>>}

IsExpert(m, name) == name.group = "experts" /\ name.kind = "weight"

ExpertWrites(m, rank, tensor, pieces) ==
    UNION {LET name == piece[2]
               to == ExpertPart[name.proj]
           IN  {Write(Name(name.layer, "experts", to[1], -1, "weight"), <<p, to[2]>>, tensor, piece[1]) :
                  p \in Replica(m, rank, name.expert)}
           : piece \in {q \in pieces : ~Missing(m, rank, q[2])}}

\* One tensor of the checkpoint: what is written, what is reported as loaded, and
\* whether a parameter was looked up that the rank does not have.
LoadTensor(m, rank, tensor) ==
    LET nothing == [name |-> tensor, done |-> FALSE, failed |-> FALSE, writes |-> {}]
        step(acc, entry) == Stacked(m, rank, tensor, acc, entry)
        stacked == FoldLeft(step, nothing, StackedParams(m))
        pieces == Pieces(m, stacked.name)
        experts == ExpertWrites(m, rank, tensor, pieces)
        skipped == \/ stacked.name.kind = "bias" /\ stacked.name \notin Params(m, rank)
                   \/ Missing(m, rank, stacked.name)
        loaded == {w.param : w \in experts}
    IN  CASE \/ tensor.kind = "inv_freq" \/ IsSpecLayer(m, tensor)
             \/ tensor.group = "indexer" /\ ~\E p \in Params(m, rank) : p.group = "indexer" ->
               [writes |-> {}, reported |-> {}, failed |-> FALSE]
          [] OTHER ->
               IF stacked.done
               THEN [writes |-> stacked.writes, reported |-> {stacked.name}, failed |-> stacked.failed]
               ELSE IF \E piece \in pieces : IsExpert(m, piece[2])
               THEN [writes |-> experts, failed |-> FALSE,
                     reported |-> IF experts # {} \/ tensor.group = "shared" THEN loaded
                                  ELSE {stacked.name}]
               ELSE [writes |-> IF skipped THEN {} ELSE {Write(stacked.name, "whole", tensor, 0)},
                     reported |-> {stacked.name},
                     failed |-> ~skipped /\ stacked.name \notin Params(m, rank)]

--------------------------------------------------------------------------------
(* The draft.  h is its config, ships the tensors its checkpoint has. *)

\* A rank builds these parameters; mask_embedding and d2t start as zeros.
DraftParams(m, h) ==
    UNION {Weights(l, "attn", {"qkv_proj", "o_proj"})
           \cup Weights(l, "mlp", {"gate_up_proj", "down_proj"}) : l \in 0 .. h.layers - 1}
    \cup Top({"embed_tokens", "lm_head", "fc", "hidden_norm", "norm", "markov_head", "mask_embedding"})
    \cup (IF h.confidence THEN Top({"confidence_head"}) ELSE {})
    \cup (IF h.vocab # m.vocab THEN Top({"draft_id_to_target_id"}) ELSE {})

DraftStacked ==
    <<<<"qkv_proj", "q_proj", "q">>, <<"qkv_proj", "k_proj", "k">>, <<"qkv_proj", "v_proj", "v">>,
      <<"gate_up_proj", "gate_proj", 0>>, <<"gate_up_proj", "up_proj", 1>>>>

\* What the draft calls a tensor of its checkpoint; layer -2 is the midlayer.
DraftNames == [d2t |-> "draft_id_to_target_id", encoder_fc |-> "fc", output_norm_enc |-> "hidden_norm"]

DraftName(name) ==
    [name EXCEPT !.layer = IF @ = -2 THEN 0 ELSE @,
                 !.proj = IF @ \in DOMAIN DraftNames THEN DraftNames[@] ELSE @]

\* skip_substrs of Qwen3DSparkForCausalLM.load_weights.
DraftSkips(h, ships) ==
    {"t2d", "mask_embedding"}
    \cup (IF h.confidence /\ Top({"confidence_head"}) \subseteq ships THEN {} ELSE {"confidence_head"})

\* DFlashQwen3Model.load_weights; a name it does not know is passed over, but at the
\* top, where d2t and lm_head are loaded, AutoWeightsLoader raises.
DraftWrites(m, h, ships) ==
    LET params == DraftParams(m, h)
        wanted == {t \in ships : t.proj \notin DraftSkips(h, ships)}
        mapped(t, e) == Replaced(DraftName(t), e[2], e[1])
        stacked == {<<t, e>> \in wanted \X ToSet(DraftStacked) :
                       t.proj = e[2] /\ mapped(t, e) \in params}
    IN  {Write(mapped(x[1], x[2]), x[2][3], x[1], 0) : x \in stacked}
        \cup {Write(DraftName(t), "whole", t, 0) : t \in {u \in wanted : DraftName(u) \in params}}

DraftFails(m, h, ships) ==
    Top({"d2t"}) \subseteq ships /\ Top({"draft_id_to_target_id"}) \cap DraftParams(m, h) = {}

\* _should_share: the draft has no table of its own, or an equal one.
ShouldShare(ships, table, equal) == Top({table}) \cap ships = {} \/ equal

--------------------------------------------------------------------------------
(* Hidden states for the draft.  Stream i is what enters layer i, stream Layers *)
(* what leaves the last one. *)

Shifted(ids) == [k \in DOMAIN ids |-> ids[k] + 1]

\* update_dspark: a draft in the format of speculators names streams, and gets both lists.
DraftConfig(h) ==
    IF h.speculators
    THEN [h EXCEPT !.eagleIds = h.auxIds, !.auxIds = <<>>,
                   !.targetIds = [k \in DOMAIN h.auxIds |-> h.auxIds[k] - 1]]
    ELSE h

\* Mutant of AuxLayers: target layers are taken for streams.
AuxLayersUnshifted(h) ==
    LET options == <<h.eagleIds, h.auxIds, h.dflashIds, h.dsparkIds, h.targetIds, h.layerIds>>
        given(ids) == ids # <<>>
    IN  SelectSeq(options, given)

\* get_eagle3_aux_layers_from_config: the first list that is there.
AuxLayers(h) ==
    LET options == <<h.eagleIds, h.auxIds, Shifted(h.dflashIds), Shifted(h.dsparkIds),
                     Shifted(h.targetIds), h.layerIds>>
        given(ids) == ids # <<>>
    IN  SelectSeq(options, given)

\* set_eagle3_aux_hidden_state_layers: without a list the model's own choice.
AuxOf(m, h) ==
    IF AuxLayers(h) # <<>> THEN AuxLayers(h)[1] ELSE <<2, m.layers \div 2, m.layers - 3>>

\* DeepseekV2Model.forward on a single stage.
Collected(m, aux) ==
    LET asked(l) == l \in ToSet(aux)
    IN  SelectSeq([l \in 1 .. m.layers |-> l - 1], asked)
        \o (IF m.layers - 1 \in ToSet(aux) THEN <<m.layers>> ELSE <<>>)

\* _get_dflash_fc_input_size, in streams.
FcInputs(h) == IF AuxLayers(h) # <<>> THEN Len(AuxLayers(h)[1]) ELSE h.layers
================================================================================
