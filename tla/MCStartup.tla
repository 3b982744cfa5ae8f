------------------------------- MODULE MCStartup -------------------------------
(***************************************************************************)
(* The worlds of Startup.  One family per part of the post-init, with a    *)
(* target of two dense layers; one of speculative options; one of models   *)
(* and their splits over ranks; one of drafts.                             *)
(***************************************************************************)
EXTENDS Startup

Checkpoint(type) ==
    [type |-> type, nextn |-> 1, predict |-> Unset, len |-> 8, vocab |-> 10, named |-> ""]

Method(method, model, tokens) ==
    [method |-> method, model |-> model, tokens |-> tokens, eager |-> FALSE, min |-> Unset,
     max |-> Unset, depth |-> 24, len |-> Unset, tp |-> Unset, disableBelow |-> Unset,
     unpadded |-> FALSE, failed |-> FALSE]

DSpark == Method("dspark", Checkpoint("qwen3"), 3)

BaseOptions ==
    [seqs |-> 4, tokens |-> 40, tp |-> 1, eager |-> FALSE, pooling |-> FALSE,
     encoderDecoder |-> FALSE, executor |-> "mp", rayAsync |-> FALSE, envSizes |-> FALSE,
     envPiecewise |-> FALSE, envV2 |-> Unset, chunkedAttention |-> FALSE, allowChunked |-> FALSE,
     kvEvents |-> FALSE, offload |-> Unset, blocked |-> FALSE, inductor |-> TRUE,
     lightlyCP |-> FALSE, block |-> 16, dcp |-> 1, dcpInterleave |-> 1, spec |-> Unset,
     fastPrefill |-> FALSE, fusedTokens |-> 16]

BaseConfig ==
    [level |-> 2, mode |-> Unset, graph |-> Unset, ops |-> {}, norm |-> Unset, act |-> Unset,
     noops |-> Unset, allreduce |-> Unset, sp |-> Unset, gemm |-> Unset, maxSize |-> Unset,
     sizes |-> Unset, points |-> Unset, async |-> Unset, noNccl |-> Unset, noHybrid |-> Unset,
     connector |-> Unset, interleave |-> 1, failed |-> FALSE]

DenseModel(layers) ==
    [layers |-> layers, dense |-> layers, starts |-> <<0>>, full |-> {}, mla |-> TRUE,
     lora |-> TRUE, dsa |-> FALSE, fuseShared |-> FALSE, routed |-> 2, shared |-> 1,
     redundant |-> 0, ep |-> 1, vocab |-> 10]

BaseDraft ==
    [layers |-> 1, confidence |-> FALSE, vocab |-> 10, mask |-> TRUE, speculators |-> FALSE, eagleIds |-> <<>>,
     auxIds |-> <<0>>, dflashIds |-> <<>>, dsparkIds |-> <<>>, targetIds |-> <<>>, layerIds |-> <<>>]

--------------------------------------------------------------------------------
(* What checkpoints ship *)

Mlp == {"gate_proj", "up_proj", "down_proj"}

LayerTensors(m, l) ==
    Weights(l, "attn", IF m.mla THEN IF m.lora THEN {"q_a_proj", "q_b_proj", "kv_a_proj_with_mqa", "o_proj"}
                                     ELSE {"q_proj", "kv_a_proj_with_mqa", "o_proj"}
                       ELSE {"q_proj", "k_proj", "v_proj", "o_proj"})
    \cup {Name(l, "attn", "rotary_emb", -1, "inv_freq"), Name(l, "mlp", "gate_proj", -1, "bias")}
    \cup (IF HasIndexer(m, l) THEN Weights(l, "indexer", {"wk"}) ELSE {})
    \cup (IF ~IsMoe(m, l) THEN Weights(l, "mlp", Mlp)
          ELSE Weights(l, "mlp", {"gate"}) \cup Weights(l, "shared", Mlp)
               \cup {Name(l, "experts", p, e, "weight") : p \in Mlp, e \in 0 .. m.routed - 1})

\* Two files, each with a part of every layer; layer m.layers is the MTP model's.
FilesOf(m) ==
    LET all == UNION {LayerTensors(m, l) : l \in 0 .. m.layers} \cup Top({"embed_tokens", "norm", "lm_head"})
        first == {t \in all : t.group \in {"attn", "indexer", "experts"}}
    IN  {first, all \ first}

\* The first layer of the draft may be called midlayer.
DraftShips(h, mid, tops) ==
    UNION {Weights(IF l = 0 /\ mid THEN -2 ELSE l, "attn", {"q_proj", "k_proj", "v_proj", "o_proj"})
           \cup Weights(IF l = 0 /\ mid THEN -2 ELSE l, "mlp", Mlp) : l \in 0 .. h.layers - 1}
    \cup Top({"hidden_norm", "norm", "markov_head", "t2d"}
             \cup (IF mid THEN {"encoder_fc"} ELSE {"fc"})
             \cup (IF h.vocab = 10 THEN {} ELSE {"d2t"}) \cup tops)

World(o, c, s, m, h) ==
    [options |-> o, config |-> c, spec |-> s, target |-> Checkpoint("glm_moe_dsa"), m |-> m,
     files |-> FilesOf(m), quantised |-> FALSE, draft |-> h,
     ships |-> DraftShips(h, FALSE, {}), equal |-> {}, streams |-> <<0>>]

Configured(o, c, s) == World(o, c, s, DenseModel(2), BaseDraft)

--------------------------------------------------------------------------------
(* The families *)

GraphWorlds ==
    {Configured([BaseOptions EXCEPT !.seqs = x[1], !.tokens = x[2], !.tp = x[3], !.envSizes = x[4]],
                [BaseConfig EXCEPT !.maxSize = y[1], !.sizes = y[2], !.sp = y[3]], DSpark) :
        x \in {1, 4, 64} \X {8, 300} \X {1, 2} \X BOOLEAN,
        y \in {Unset, 20, 264} \X {Unset, <<8, 2, 4, 500>>, <<64, 20>>} \X {Unset, TRUE}}

\* Pooling and encoder-decoder models take no drafts.
ModeWorlds ==
    {Configured([BaseOptions EXCEPT !.eager = x[1], !.envPiecewise = x[2], !.blocked = x[3],
                                    !.pooling = x[4][1], !.encoderDecoder = x[4][2]],
                [BaseConfig EXCEPT !.level = y[1], !.mode = y[2], !.graph = y[3], !.ops = y[4]],
                x[4][3]) :
        x \in BOOLEAN \X BOOLEAN \X BOOLEAN
              \X {<<FALSE, FALSE, DSpark>>, <<TRUE, FALSE, Unset>>, <<FALSE, TRUE, Unset>>},
        y \in (0 .. 2) \X {Unset, "NONE"} \X {Unset, "FULL"} \X {{}, {<<"-", "rms_norm">>, <<"+", "quant_fp8">>}}}

CheckWorlds ==
    {Configured([BaseOptions EXCEPT !.executor = x[1], !.kvEvents = x[2], !.offload = x[3],
                                    !.dcp = x[4], !.dcpInterleave = x[5], !.chunkedAttention = x[6],
                                    !.fastPrefill = x[7], !.lightlyCP = x[8]],
                [BaseConfig EXCEPT !.async = y[1], !.noHybrid = y[2], !.points = y[3], !.allreduce = y[4]],
                y[5]) :
        x \in {<<"mp", FALSE, Unset, 1, 1, FALSE, FALSE, FALSE>>,
               <<"ray", TRUE, "offloading", 2, 4, FALSE, FALSE, FALSE>>,
               <<"mp", FALSE, "offloading", 2, 3, TRUE, TRUE, FALSE>>,
               <<"mp", TRUE, Unset, 2, 1, FALSE, FALSE, TRUE>>},
        y \in {Unset, TRUE, FALSE} \X {Unset, FALSE} \X {Unset, {1, 8, 90}} \X {Unset, TRUE}
              \X {Unset, DSpark}}

SpecWorlds ==
    {Configured([BaseOptions EXCEPT !.envV2 = v2], BaseConfig,
                [s EXCEPT !.len = x[1], !.tp = x[2], !.disableBelow = x[3]]) :
        v2 \in {Unset, TRUE},
        x \in {Unset, 4, 9} \X {Unset, 2} \X {Unset, 1},
        s \in {Method(method, model, tokens) :
                 method \in {Unset, "deepseek_mtp", "eagle3", "dspark", "dflash", "draft_model", "ngram", "suffix"},
                 model \in {Unset, Checkpoint("glm_moe_dsa"), [Checkpoint("llama") EXCEPT !.named = "eagle"],
                            [Checkpoint("step3p5") EXCEPT !.nextn = 2], [Checkpoint("qwen3") EXCEPT !.vocab = 9]},
                 tokens \in {Unset, 0, 3}}}

\* First layers of the stages; routed, shared and redundant experts, ranks they
\* are split over, and whether the shared ones join them.
Splits ==
    {<<<<0>>, 2, 1, 0, 1, FALSE>>, <<<<0>>, 3, 1, 1, 2, FALSE>>, <<<<0>>, 2, 1, 1, 3, FALSE>>,
     <<<<0>>, 2, 1, 2, 2, FALSE>>, <<<<0>>, 2, 2, 0, 1, TRUE>>, <<<<0, 1>>, 2, 2, 0, 1, TRUE>>}

Model(x, y) ==
    [DenseModel(2) EXCEPT !.dense = 1, !.mla = x[1], !.lora = x[2], !.dsa = x[1], !.full = x[3],
                          !.starts = y[1], !.routed = y[2], !.shared = y[3], !.redundant = y[4],
                          !.ep = y[5], !.fuseShared = y[6]]

Models ==
    {Model(x, y) : x \in {<<TRUE, TRUE, {0}>>, <<TRUE, FALSE, {0, 1}>>, <<FALSE, FALSE, {}>>}, y \in Splits}
    \cup {Model(<<TRUE, TRUE, {0}>>, <<<<0, 1>>, 3, 1, 1, 2, FALSE>>)}

ModelWorlds ==
    {[World(BaseOptions, BaseConfig, Unset, m, BaseDraft) EXCEPT !.quantised = (m.ep = 3)] : m \in Models}
    \cup {World(BaseOptions, BaseConfig, DSpark, [DenseModel(2) EXCEPT !.starts = <<0, 1>>], BaseDraft)}

\* Each way a config.json names the streams 1 and 2.
Formats ==
    {[BaseDraft EXCEPT !.auxIds = x[1], !.eagleIds = x[2], !.dflashIds = x[3], !.dsparkIds = x[4],
                       !.targetIds = x[5], !.layerIds = x[6], !.speculators = x[7]] :
        x \in {<<<<1, 2>>, <<>>, <<>>, <<>>, <<>>, <<>>, FALSE>>, <<<<1, 2>>, <<>>, <<>>, <<>>, <<>>, <<>>, TRUE>>,
               <<<<>>, <<1, 2>>, <<>>, <<>>, <<>>, <<>>, FALSE>>, <<<<>>, <<>>, <<0, 1>>, <<>>, <<>>, <<>>, FALSE>>,
               <<<<>>, <<>>, <<>>, <<0, 1>>, <<>>, <<>>, FALSE>>, <<<<>>, <<>>, <<>>, <<>>, <<0, 1>>, <<>>, FALSE>>,
               <<<<>>, <<>>, <<>>, <<>>, <<>>, <<1, 2>>, FALSE>>}}

DraftWorlds ==
    {[World(BaseOptions, BaseConfig, DSpark, DenseModel(4), d) EXCEPT
         !.ships = DraftShips(d, mid, tops), !.equal = equal, !.streams = <<1, 2>>] :
        d \in {[h EXCEPT !.layers = 2, !.confidence = x[1], !.vocab = x[2], !.mask = x[3]] :
                 h \in Formats, x \in BOOLEAN \X {10, 9} \X BOOLEAN},
        mid \in BOOLEAN, equal \in {{}, {"lm_head"}},
        tops \in {{}, {"embed_tokens", "lm_head"}, {"confidence_head", "d2t"}, {"lm_head", "confidence_head"}}}

MCWorlds == GraphWorlds \cup ModeWorlds \cup CheckWorlds \cup SpecWorlds \cup ModelWorlds \cup DraftWorlds
================================================================================
