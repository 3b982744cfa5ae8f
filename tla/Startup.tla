-------------------------------- MODULE Startup --------------------------------
(***************************************************************************)
(* A server starts: the engine computes the configuration, and each worker *)
(* takes a copy of it, builds its runner, loads the files of the           *)
(* checkpoint in any order, and, with a DSpark draft, runs the post-init   *)
(* again on its copy, loads the draft and tells the target which hidden    *)
(* states to collect.  The first error anywhere ends the server.           *)
(*                                                                         *)
(* A world is what is given: options, the configuration the user asked     *)
(* for, the speculative options, the config.json of the target, the model  *)
(* m, the files of the checkpoint, the draft with what it ships, and the streams of the        *)
(* target it was trained on.                                               *)
(***************************************************************************)
EXTENDS ModelLoading

CONSTANT Worlds     \* the worlds a server may be started in

VARIABLES
    world,      \* what was given
    phase,      \* "options", "workers", or "down" once an error was raised
    options,    \* the options, with the SpeculativeConfig once there is one
    config,     \* the configuration the engine computed
    workers     \* a record for each rank

vars == <<world, phase, options, config, workers>>

Draft == DraftConfig(world.draft)

Ranks(m) == [stage : 1 .. Len(m.starts), ep : 0 .. m.ep - 1]

Worker(given, c) ==
    [at |-> "created", config |-> c, sizes |-> <<>>, left |-> given.files, writes |-> {},
     reported |-> {}, draft |-> {}, shared |-> {}, aux |-> <<>>]

Init ==
    /\ world \in Worlds
    /\ phase = "options"
    /\ options = world.options
    /\ config = world.config
    /\ workers = <<>>

UsesDSpark == options.spec # Unset /\ options.spec.method = "dspark"

\* The worker becomes w, or the server ends with the error.
Advance(r, w, failed) ==
    /\ workers' = [workers EXCEPT ![r] = w]
    /\ phase' = IF failed THEN "down" ELSE phase
    /\ UNCHANGED <<world, options, config>>

\* SpeculativeConfig, then VllmConfig, in the engine's process.
Configure ==
    LET s == IF world.spec = Unset THEN Unset
             ELSE SpeculativeConfig(world.spec, world.target, world.options.tp)
        o == [world.options EXCEPT !.spec = s]
        c == PostInit(o, world.config)
    IN  /\ phase = "options"
        /\ UNCHANGED world
        /\ IF s # Unset /\ s.failed
           THEN phase' = "down" /\ UNCHANGED <<options, config, workers>>
           ELSE /\ options' = o
                /\ config' = c
                /\ phase' = IF c.failed THEN "down" ELSE "workers"
                /\ workers' = [r \in Ranks(world.m) |-> Worker(world, c)]

\* init_speculator; the DFlash speculator is not part of this tree.
Supported == options.spec = Unset \/ UsesDSpark \/ UseEagle(options)

\* Worker.init_device and the V2 runner's constructor: the
\* DSpark speculator wants a mask token, and the graph manager keeps the sizes.
InitDevice(r) ==
    LET w == workers[r]
        v2 == UseV2ModelRunner(options)
        graphs == v2 /\ w.config.graph # "NONE"
    IN  /\ phase = "workers" /\ w.at = "created"
        /\ Advance(r, [w EXCEPT !.at = "loading", !.sizes = IF graphs THEN w.config.sizes ELSE <<>>],
                   v2 /\ (~Supported \/ (UsesDSpark /\ ~Draft.mask)))

\* load_weights over the tensors of one file.
LoadFile(r) ==
    \E file \in workers[r].left :
        LET w == workers[r]
            loads == {LoadTensor(world.m, r, tensor) : tensor \in file}
        IN  /\ phase = "workers" /\ w.at = "loading"
            /\ Advance(r, [w EXCEPT !.left = @ \ {file},
                                    !.writes = @ \cup UNION {l.writes : l \in loads},
                                    !.reported = @ \cup UNION {l.reported : l \in loads}],
                       \E l \in loads : l.failed)

\* The end of the target's loading; the loader, which is not in this tree, refuses
\* an unquantised model that did not report every parameter.
FinishTarget(r) ==
    LET w == workers[r]
    IN  /\ phase = "workers" /\ w.at = "loading" /\ w.left = {}
        /\ Advance(r, [w EXCEPT !.at = IF UsesDSpark /\ UseV2ModelRunner(options)
                                       THEN "target" ELSE "ready"],
                   ~world.quantised /\ ~Params(world.m, r) \subseteq w.reported)

\* load_dspark_model: the draft's VllmConfig is a replaced copy that shares the
\* parts of the worker's, and its post-init writes to them.
LoadDraft(r) ==
    LET w == workers[r]
        again == PostInit(options, w.config)
        ships == world.ships
    IN  /\ phase = "workers" /\ w.at = "target"
        /\ Advance(r, [w EXCEPT !.at = "drafted", !.config = again,
                                !.draft = DraftWrites(world.m, Draft, ships),
                                !.shared = {t \in {"embed_tokens", "lm_head"} :
                                              ShouldShare(ships, t, t \in world.equal)}],
                   \/ again.failed
                   \/ DraftFails(world.m, Draft, ships)
                   \/ Len(world.m.starts) # 1)

\* set_eagle3_aux_hidden_state_layers.
SetAux(r) ==
    LET w == workers[r]
    IN  /\ phase = "workers" /\ w.at = "drafted"
        /\ Advance(r, [w EXCEPT !.at = "ready", !.aux = AuxOf(world.m, Draft)], FALSE)

Next ==
    \/ Configure
    \/ \E r \in DOMAIN workers : InitDevice(r)
    \/ \E r \in DOMAIN workers : LoadFile(r)
    \/ \E r \in DOMAIN workers : FinishTarget(r)
    \/ \E r \in DOMAIN workers : LoadDraft(r)
    \/ \E r \in DOMAIN workers : SetAux(r)

Spec == Init /\ [][Next]_vars

--------------------------------------------------------------------------------
(* Properties *)

\* Capture sizes as the documentation of CompilationConfig wants them.
OrderlySizes(c) ==
    /\ \A i \in 1 .. Len(c.sizes) - 1 : c.sizes[i] < c.sizes[i + 1]
    /\ c.graph # "NONE" => c.sizes # <<>>

\* The post-init that DSpark's loading runs a second time, on a configuration the
\* first pass has written, finds nothing to object to and changes nothing: the
\* engine, the graph manager that was built in between and the worker go on with
\* the same configuration.
ConfigSettles ==
    \A r \in DOMAIN workers :
        LET w == workers[r]
        IN  OrderlySizes(config) /\ w.at \in {"drafted", "ready"} =>
                /\ w.config = config
                /\ w.sizes # <<>> => w.sizes = w.config.sizes

\* The tensors a parameter of the target is made of: part, tensor and piece.
AttentionParts(l, proj) ==
    LET whole(p) == Name(l, "attn", p, -1, "weight")
    IN  CASE proj = "fused_qkv_a_proj" -> {<<0, whole("q_a_proj"), 0>>, <<1, whole("kv_a_proj_with_mqa"), 0>>}
          [] proj = "qkv_proj" -> {<<"q", whole("q_proj"), 0>>, <<"k", whole("k_proj"), 0>>,
                                   <<"v", whole("v_proj"), 0>>}
          [] OTHER -> {<<"whole", whole(proj), 0>>}

MlpParts(l, group, proj) ==
    LET whole(p) == Name(l, group, p, -1, "weight")
    IN  IF proj = "gate_up_proj" THEN {<<0, whole("gate_proj"), 0>>, <<1, whole("up_proj"), 0>>}
        ELSE {<<"whole", whole(proj), 0>>}

ExpertTensor(m, l, p, proj) ==
    LET e == p % Logical(m)
    IN  IF e < m.routed THEN <<Name(l, "experts", proj, e, "weight"), 0>>
        ELSE <<Name(l, "shared", proj, -1, "weight"), e - m.routed>>

ExpertParts(m, rank, l, proj) ==
    LET halves == IF proj = "w2" THEN {<<"w2", "down_proj">>}
                  ELSE {<<"w1", "gate_proj">>, <<"w3", "up_proj">>}
    IN  {<<<<p, half[1]>>>> \o ExpertTensor(m, l, p, half[2]) :
            p \in LocalExperts(m, rank), half \in halves}

PartsOf(m, rank, param) ==
    CASE param.group = "attn" -> AttentionParts(param.layer, param.proj)
      [] param.group \in {"mlp", "shared"} -> MlpParts(param.layer, param.group, param.proj)
      [] param.group = "experts" -> ExpertParts(m, rank, param.layer, param.proj)
      [] OTHER -> {<<"whole", param, 0>>}

\* Once a worker has loaded the target, each part of each of its parameters was
\* written, from the right tensor and the right piece of it, and nothing else was:
\* every local expert, each replica of a redundant one too, under every split of
\* layers over stages and of experts over ranks, in whatever order the files came.
EveryShardLoaded ==
    phase = "workers" =>
        \A r \in DOMAIN workers :
            workers[r].at \in {"target", "drafted", "ready"} =>
                workers[r].writes =
                    UNION {{Write(param, x[1], x[2], x[3]) : x \in PartsOf(world.m, r, param)} :
                             param \in Params(world.m, r)}

\* A ready drafter reads what it was trained on: the target collects just
\* the streams of its training, however its config.json names them, as many as its
\* first layer takes, and each of its own parameters that is in use was written.
DrafterFed ==
    phase = "workers" =>
        \A r \in DOMAIN workers :
            LET w == workers[r]
                shared == Top(w.shared \cup {"mask_embedding"})
                dropped == IF Top({"confidence_head"}) \subseteq world.ships THEN {}
                           ELSE Top({"confidence_head"})
            IN  w.at = "ready" /\ UsesDSpark =>
                    /\ Collected(world.m, w.aux) = world.streams
                    /\ Len(Collected(world.m, w.aux)) = FcInputs(Draft)
                    /\ DraftParams(world.m, Draft) \ (shared \cup dropped) \subseteq
                           {write.param : write \in w.draft}
================================================================================
