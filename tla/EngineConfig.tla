----------------------------- MODULE EngineConfig -----------------------------
(***************************************************************************)
(* How the options of a server become its configuration: SpeculativeConfig *)
(* and the post-init of VllmConfig, which a worker runs a second time, on  *)
(* the objects the first pass wrote, when it loads a DSpark draft.         *)
(*                                                                         *)
(* Options are a record o that nothing writes; what the passes write is a  *)
(* record c with a field failed, TRUE once an error was raised.  Lists     *)
(* whose order and repetitions nobody reads are sets: custom_ops and the   *)
(* split points of the compile ranges.  What a platform or an external     *)
(* config class adds on its own is left out.                               *)
(***************************************************************************)
EXTENDS Integers, Sequences, FiniteSets, FiniteSetsExt, SequencesExt, Functions

CONSTANT Unset      \* None in the code: an option nobody gave

Raise(c, error) == [c EXCEPT !.failed = @ \/ error]

Default(value, default) == IF value = Unset THEN default ELSE value

--------------------------------------------------------------------------------
(* SpeculativeConfig.  A checkpoint is a record of what its config.json says:
   type (model_type, or the architecture where that decides), nextn, predict
   (n_predict), len, vocab, and named, "eagle", "eagle3" or "" by its path.
   The models "ngram" and "suffix" are checkpoints of these types. *)

NoCheckpoint(type) == [type |-> type, named |-> ""]

MTPModelTypes == {"deepseek_mtp", "mimo_mtp", "glm4_moe_mtp", "glm4_moe_lite_mtp",
    "ernie_mtp", "exaone_moe_mtp", "qwen3_next_mtp", "qwen3_5_mtp", "longcat_flash_mtp",
    "mtp", "pangu_ultra_moe_mtp", "step3p5_mtp"}

EagleModelTypes == {"eagle", "eagle3"} \cup MTPModelTypes

\* hf_config_override: the model type under which a checkpoint is loaded as a draft.
DraftType ==
    [deepseek_v3 |-> "deepseek_mtp", deepseek_v32 |-> "deepseek_mtp",
     glm_moe_dsa |-> "deepseek_mtp", pangu_ultra_moe |-> "pangu_ultra_moe_mtp",
     mimo |-> "mimo_mtp", glm4_moe |-> "glm4_moe_mtp",
     glm4_moe_lite |-> "glm4_moe_lite_mtp", ernie4_5_moe |-> "ernie_mtp",
     qwen3_next |-> "qwen3_next_mtp", exaone_moe |-> "exaone_moe_mtp",
     qwen3_5 |-> "qwen3_5_mtp", qwen3_5_moe |-> "qwen3_5_mtp",
     longcat_flash |-> "longcat_flash_mtp", step3p5 |-> "step3p5_mtp"]

\* ... and n_predict, which these checkpoints get, also when they are drafts by type.
HfOverride(h) ==
    IF h.type \in DOMAIN DraftType
    THEN [h EXCEPT !.type = DraftType[h.type],
                   !.predict = IF h.type \in {"longcat_flash", "step3p5"}
                               THEN Default(h.nextn, 1) ELSE h.nextn]
    ELSE IF h.type \in {"deepseek_mtp", "pangu_ultra_moe_mtp", "ernie_mtp", "qwen3_next_mtp", "exaone_moe_mtp"}
    THEN [h EXCEPT !.predict = h.nextn]
    ELSE h

\* The head of __post_init__: aliases, and the model when only a number was given.
Named(s, target) ==
    LET method == IF s.method \in MTPModelTypes THEN "mtp"
                  ELSE IF s.method = Unset /\ s.model # Unset /\ s.model.type = "ngram"
                  THEN "ngram" ELSE s.method
        own == s.model = Unset /\ s.tokens # Unset
    IN  [Raise(s, own /\ method \notin {"mtp", "ngram", "suffix"})
            EXCEPT !.method = method,
                   !.eager = @ \/ (own /\ method = "mtp" /\ target.type = "deepseek_v32"),
                   !.model = IF ~own THEN @ ELSE IF method = "mtp" THEN target
                            ELSE NoCheckpoint(method)]

\* prompt_lookup_min and _max default to each other, then to 5.
Lookup(s) ==
    LET min == Default(s.min, Default(s.max, 5))
        max == Default(s.max, Default(s.min, 5))
    IN  [Raise(s, min > max) EXCEPT !.min = min, !.max = max]

\* _validate_suffix_decoding.
Suffix(s) == [Raise(s, s.depth < 1) EXCEPT !.tokens = Default(@, s.depth)]

\* The method, detected from the checkpoint where it was not given.
Detected(s, h) ==
    CASE s.method \in {"eagle", "eagle3", "dflash", "dspark"} -> s.method
      [] s.method \notin {"eagle", "eagle3", "dflash", "dspark"} /\ h.named # "" -> h.named
      [] OTHER -> IF h.type \in {"medusa", "mlp_speculator"} THEN h.type
                  ELSE IF h.type \in MTPModelTypes THEN "mtp"
                  ELSE IF s.method = "draft_model" THEN s.method ELSE Unset

\* _maybe_override_draft_max_model_len and _verify_and_get_draft_tp.
DraftLen(s, h, target) ==
    [Raise(s, s.len # Unset /\ (s.len > h.len \/ s.len > target.len))
        EXCEPT !.len = Default(@, Min({h.len, target.len}))]

DraftTP(s, h, tp) ==
    [Raise(s, s.tp \notin {Unset, 1, tp})
        EXCEPT !.tp = Default(@, IF h.type = "mlp_speculator" THEN 1 ELSE tp)]

\* The branch of __post_init__ for a method with a draft checkpoint.  The detection of an
\* MTP checkpoint compares the number of tokens before it gets its default, and raises
\* when there is none; without any default the chain of tokens cannot be built either.
WithDraft(s, target, tp) ==
    LET h == HfOverride(s.model)
        n == Default(s.tokens, h.predict)
        method == Detected(s, h)
        uneven == h.predict # Unset /\ n > h.predict /\ n % h.predict # 0
        uncounted == method = "mtp" /\ s.tokens = Unset
        s1 == Raise([s EXCEPT !.method = method, !.model = h, !.tokens = n],
                    method = Unset \/ uneven \/ uncounted)
    IN  DraftLen(DraftTP(s1, h, tp), h, target)

\* _verify_args.
Verified(s, target) ==
    Raise(s, \/ s.tokens = Unset
             \/ s.tokens # Unset /\ s.tokens <= 0
             \/ s.disableBelow # Unset /\ s.disableBelow < 2
             \/ s.method = "eagle3" /\ target.type \notin {"llama", "qwen3", "minicpm", "gpt_oss"}
             \/ s.method = "draft_model" /\ s.model.vocab # target.vocab)

SpeculativeConfig(s, target, tp) ==
    LET named == Named(s, target)
    IN  IF named.failed THEN named
        ELSE Verified(CASE named.method = "ngram" -> Lookup(named)
                        [] named.method = "suffix" -> Suffix(named)
                        [] OTHER -> IF named.model = Unset THEN named
                                    ELSE WithDraft(named, target, tp), target)

--------------------------------------------------------------------------------
(* VllmConfig. *)

UseEagle(o) == o.spec # Unset /\ o.spec.method \in {"eagle", "eagle3", "mtp"}

UseV2ModelRunner(o) ==
    IF o.envV2 # Unset THEN o.envV2 ELSE o.spec # Unset /\ o.spec.method = "dspark"

\* What stands against asynchronous scheduling.
AsyncConflict(o) ==
    \/ o.spec # Unset /\ (o.spec.method \notin EagleModelTypes \/ o.spec.unpadded)
    \/ o.executor \notin {"mp", "uni", "external_launcher"} \cup
                         (IF o.rayAsync THEN {"ray"} ELSE {})

AsyncScheduling(o, c) ==
    LET async == Default(c.async, ~AsyncConflict(o))
    IN  [Raise(c, c.async = TRUE /\ AsyncConflict(o))
            EXCEPT !.async = async, !.noNccl = Default(@, async)]

PiecewiseModes == {"PIECEWISE", "FULL_AND_PIECEWISE"}
FullModes == {"FULL", "FULL_DECODE_ONLY", "FULL_AND_PIECEWISE"}

Enabled(c, op) == <<"+", op>> \in c.ops \/ (<<"all", "">> \in c.ops /\ <<"-", op>> \notin c.ops)

\* OPTIMIZATION_LEVEL_TO_CONFIG: what an option is at a level when nobody set it.
LevelDefaults(c) ==
    [graph |-> IF c.level = 0 THEN "NONE" ELSE IF c.level = 1 THEN "PIECEWISE"
               ELSE "FULL_AND_PIECEWISE",
     norm |-> c.level > 0 /\ (Enabled(c, "rms_norm") \/ Enabled(c, "quant_fp8")),
     act |-> c.level > 0 /\ (Enabled(c, "silu_and_mul") \/ Enabled(c, "quant_fp8")),
     noops |-> c.level > 0, allreduce |-> FALSE, sp |-> FALSE, gemm |-> FALSE]

\* _apply_optimization_level_defaults.
WithDefaults(c) ==
    LET defaults == LevelDefaults(c)
    IN  [f \in DOMAIN c |-> IF f \in DOMAIN defaults THEN Default(c[f], defaults[f]) ELSE c[f]]

\* From the override of the level to the sequence-parallel pass.
Compilation(o, c) ==
    LET level == IF o.eager THEN 0 ELSE c.level
        mode == Default(c.mode, IF level > 0 THEN "VLLM_COMPILE" ELSE "NONE")
        fp8 == IF o.blocked /\ <<"-", "quant_fp8">> \notin c.ops THEN {<<"+", "quant_fp8">>} ELSE {}
        every == IF c.ops \cap {<<"all", "">>, <<"none", "">>} # {} THEN {}
                 ELSE IF o.inductor /\ mode # "NONE" THEN {<<"none", "">>} ELSE {<<"all", "">>}
        d == WithDefaults([c EXCEPT !.level = level, !.mode = mode, !.ops = @ \cup fp8 \cup every])
        sp == d.sp \/ d.gemm
    IN  [d EXCEPT !.graph = IF @ \in PiecewiseModes /\ mode # "VLLM_COMPILE" THEN "NONE" ELSE @,
                  !.sp = sp,
                  !.ops = @ \cup (IF sp /\ <<"-", "rms_norm">> \notin @
                                  THEN {<<"+", "rms_norm">>} ELSE {})]

\* What the model and the environment make of cudagraph_mode.
GraphMode(o, c) ==
    LET graph == CASE o.envPiecewise -> "PIECEWISE"
                   [] ~o.envPiecewise /\ c.graph \in FullModes /\ o.pooling -> "PIECEWISE"
                   [] OTHER -> IF o.encoderDecoder /\ c.graph # "NONE"
                               THEN "FULL_DECODE_ONLY" ELSE c.graph
    IN  IF o.eager THEN [c EXCEPT !.graph = "NONE", !.maxSize = 0, !.sizes = <<>>]
        ELSE [c EXCEPT !.graph = graph]

--------------------------------------------------------------------------------
(* _set_cudagraph_sizes *)

\* range(a, b + 1, step).
Steps(a, b, step) == [i \in 1 .. Max({((b - a) \div step) + 1, 0}) |-> a + ((i - 1) * step)]

AtMostIn(n, seq) == LET small(i) == i <= n IN SelectSeq(seq, small)

\* The candidates when the user gave none.
CandidateSizes(o, max) ==
    (IF o.envSizes THEN Steps(1, 24, 1) \o <<32>> \o Steps(40, max, 8)
     ELSE AtMostIn(max, <<1, 2, 4>>))
    \o Steps(8, Min({max, 255}), 8)
    \o Steps(256, max, 16)

UserSizes(o, c) ==
    LET given == {i \in ToSet(c.sizes) : i <= o.tokens}
        kept(i) == i \in given
    IN  SelectSeq([i \in 1 .. Max(given \cup {0}) |-> i], kept)

\* max_num_seqs * decode_query_len * 2, up to 512.
InitialMax(o) ==
    LET decode == 1 + (IF o.spec = Unset THEN 0 ELSE o.spec.tokens)
    IN  Min({o.seqs * decode * 2, 512})

\* update_sizes_for_sequence_parallelism.
MultiplesOfTP(o, sizes) == LET even(i) == i % o.tp = 0 IN SelectSeq(sizes, even)

\* Mutant of WrittenBack: the user's maximum stays where it does not agree.
WrittenBackUnlessSet(c, sizes, last) == [c EXCEPT !.sizes = sizes, !.maxSize = Default(@, last)]

WrittenBack(c, sizes, last) == [c EXCEPT !.sizes = sizes, !.maxSize = last]

CudagraphSizes(o, c) ==
    LET max == Min({o.tokens, Default(c.maxSize, InitialMax(o))})
        listed == IF c.sizes = Unset THEN CandidateSizes(o, max) ELSE UserSizes(o, c)
        sizes == IF o.tp > 1 /\ c.sp THEN MultiplesOfTP(o, listed) ELSE listed
        last == IF sizes = <<>> THEN 0 ELSE Last(sizes)
    IN  IF c.failed \/ o.eager \/ c.graph = "NONE"
        THEN [c EXCEPT !.maxSize = 0, !.sizes = <<>>]
        ELSE WrittenBack(Raise(c, \/ max < 1
                                  \/ c.sizes = <<>>
                                  \/ c.sizes # Unset /\ c.maxSize \notin {Unset, last}),
                         sizes, last)

--------------------------------------------------------------------------------
(* The rest of __post_init__. *)

\* _set_compile_ranges.
CompileRanges(o, c) ==
    LET end == o.tokens + (IF o.spec # Unset /\ o.spec.method = "draft_model" THEN o.seqs ELSE 0)
        user == IF c.points = Unset THEN {} ELSE c.points
        fused == IF c.allreduce THEN {o.fusedTokens} ELSE {}
    IN  [Raise(c, \E x \in user : x <= 0)
            EXCEPT !.points = {end} \cup {x \in fused : x < end} \cup {x \in user : 1 < x /\ x < end}]

\* Decode context parallelism and the last check of the graph mode.
Checks(o, c) ==
    LET interleave == IF o.dcp > 1 /\ o.dcpInterleave > 1 THEN o.dcpInterleave ELSE c.interleave
    IN  [Raise(c, \/ o.fastPrefill /\ UseEagle(o)
                  \/ o.dcp > 1 /\ (interleave > o.block \/ o.block % interleave # 0)
                  \/ c.graph \in PiecewiseModes /\ c.mode # "VLLM_COMPILE")
            EXCEPT !.interleave = interleave]

HybridKVCacheManager(o, c) ==
    LET disable == \/ o.kvEvents
                   \/ o.chunkedAttention /\ (UseEagle(o) \/ ~o.allowChunked)
    IN  [Raise(c, c.noHybrid = FALSE /\ disable)
            EXCEPT !.noHybrid = Default(@, disable \/ c.connector # Unset)]

\* _post_init_kv_transfer_config, and what only eager mode can do.
Connector(o, c) ==
    [Raise(c, o.lightlyCP /\ ~o.eager)
        EXCEPT !.connector = IF o.offload = Unset THEN @ ELSE o.offload]

\* VllmConfig.__post_init__.
PostInit(o, c) ==
    LET async == AsyncScheduling(o, c)
        graphs == CudagraphSizes(o, GraphMode(o, Compilation(o, async)))
    IN  Connector(o, HybridKVCacheManager(o, Checks(o, CompileRanges(o, graphs))))
================================================================================
