----------------------------- MODULE FfbPipeline -----------------------------
(***************************************************************************)
(* A force feedback pipeline (core/src/ffb.cpp) on top of its own action   *)
(* builder, next to the other builders of the session, and the initial     *)
(* value counter of the secure session (core/src/security_impl.cpp).       *)
(***************************************************************************)
EXTENDS ActionBuilder, FiniteSetsExt

CONSTANTS
    Pipeline,      \* the builder that belongs to the pipeline
    SampleCounts,  \* sizes of the sample sets
    BackendIds,    \* pipeline ids the backend may assign
    IvBase, IvLen  \* the initial value is a vector of IvLen digits, 12 bytes in the code

ASSUME PipelineAssumption ==
    /\ Pipeline \in Builders /\ SampleCounts \subseteq Nat
    /\ BackendIds \subseteq 0 .. 127
    /\ IvBase \in Nat \ {0, 1} /\ IvLen \in Nat \ {0}

VARIABLES
    pipeline_id,   \* int8_t, -1 while no pipeline is configured
    alive,         \* the FfbPipeline object exists
    freeing,       \* ids in a free_pipeline command of the destructor
    allocated,     \* the backend: pipelines held for this session
    secure,        \* the session is a secure session
    iv             \* iv_ of the secure session, empty before its first use

pipeVars == <<pipeline_id, alive, freeing, allocated, secure, iv>>
ffbVars  == <<actionVars, pipeVars>>

AsInt8(n) == ((n + 128) % 256) - 128

EffectHeader == 36
Encryption   == 24   \* initial value in front, tag behind
ClearSize    == 52

(* Samples are floats; an encrypted set is padded to whole blocks of 16 bytes. *)
SamplesSize(n) == IF secure THEN ((4 * n + 15) \div 16) * 16 ELSE 4 * n
EffectSize(n)  == EffectHeader + SamplesSize(n) + (IF secure THEN Encryption ELSE 0)

(* handleIV(): the least significant digit first, with carry; random at first. *)
NextIv(v) ==
    LET carry == {i \in 1 .. IvLen : \A j \in 1 .. i : v[j] = IvBase - 1} IN
    [i \in 1 .. IvLen |-> IF i \in carry THEN 0
                          ELSE IF i = Cardinality(carry) + 1 THEN v[i] + 1 ELSE v[i]]

handleIV == IF iv = << >> THEN [1 .. IvLen -> 0 .. IvBase - 1] ELSE {NextIv(iv)}

FfbInit ==
    /\ ActionInit
    /\ pipeline_id = -1 /\ alive = TRUE /\ freeing = {} /\ allocated = {}
    /\ secure \in BOOLEAN /\ iv = << >>

Connected == session.open /\ session.id # 0

(* External: the backend executes configure_pipeline. *)
Assign(id) ==
    /\ id \in BackendIds \ allocated
    /\ allocated' = (allocated \ {pipeline_id}) \cup {id}

(* configure(): the blocking command succeeds with an id, or nothing changes. *)
Configure(id) ==
    /\ alive /\ Connected /\ Assign(id)
    /\ pipeline_id' = AsInt8(id)
    /\ UNCHANGED <<actionVars, alive, freeing, secure, iv>>

CanEffect == alive /\ pipeline_id >= 0 /\ CanBuild /\ CanSend

(* generateEffect() with buildEffectOffsetDataAction(). *)
GenerateEffect(n, o) ==
    /\ CanEffect /\ n > 0 /\ n <= 256
    /\ IF secure THEN iv' \in handleIV ELSE UNCHANGED iv
    /\ BuildAndSend(Pipeline, bld[Pipeline], Action("effect", <<pipeline_id>> \o iv'), EffectSize(n), o)
    /\ UNCHANGED <<pipeline_id, alive, freeing, allocated, secure>>

(* stop() with buildEffectClearAction(), which is never encrypted. *)
Stop(o) ==
    /\ CanEffect /\ BuildAndSend(Pipeline, bld[Pipeline], Action("clear", <<pipeline_id>>), ClearSize, o)
    /\ UNCHANGED pipeVars

(* remove(): the blocking command succeeds, or nothing changes. *)
Remove ==
    /\ alive /\ Connected /\ pipeline_id >= 0
    /\ allocated' = allocated \ {pipeline_id} /\ pipeline_id' = -1
    /\ UNCHANGED <<actionVars, alive, freeing, secure, iv>>

(* A mutant: the destructor of a pipeline that was never configured, or removed. *)
isActive_Connected == Connected

isActive == pipeline_id # -1 /\ Connected

(* ~FfbPipeline() does not wait for the command it sends. *)
Destroy ==
    /\ alive /\ alive' = FALSE
    /\ freeing' = IF isActive THEN freeing \cup {pipeline_id} ELSE freeing
    /\ UNCHANGED <<actionVars, pipeline_id, allocated, secure, iv>>

(* External: the backend executes the command of the destructor. *)
BackendFree ==
    /\ session.open /\ freeing # {} /\ freeing' = {} /\ allocated' = allocated \ freeing
    /\ UNCHANGED <<actionVars, pipeline_id, alive, secure, iv>>

FfbNext ==
    \/ \E id \in BackendIds : Configure(id)
    \/ \E o \in Outcomes : Stop(o) \/ \E n \in SampleCounts : GenerateEffect(n, o)
    \/ Remove \/ Destroy \/ BackendFree
    \/ ((\E w \in Builders \ {Pipeline} : Owner(w)) \/ Shared) /\ UNCHANGED pipeVars

FfbSpec ==
    /\ FfbInit /\ [][FfbNext]_ffbVars
    /\ WF_ffbVars((\E o \in Outcomes : IoComplete(o)) /\ UNCHANGED pipeVars)
    /\ \A w \in Builders : WF_ffbVars(WakeUp(w) /\ UNCHANGED pipeVars)

(***************************************************************************)
(* Properties.                                                             *)
(***************************************************************************)
(* The backend holds the pipeline that the object names and no other: a second
   configure() does not leave the first pipeline behind, remove() and the destructor name
   the one that is held. *)
PipelineAccounted ==
    session.open =>
        allocated = IF alive THEN {pipeline_id} \ {-1} ELSE freeing
==============================================================================
