----------------------------- MODULE FlowDecode -----------------------------
(***************************************************************************)
(* Flow decode (EXPERT_STREAM_FLOW): a token whose layers gather their     *)
(* experts through a table on the GPU, expert to slot, so that the routing *)
(* need not reach the CPU before the token is done.                        *)
(*                                                                         *)
(* The expert cache is ExpertCache, action by action; added to it are the  *)
(* tables (`row` is what the host believes, `uploaded` what the GPU has,  *)
(* `dirty` the layers where they differ) and the MLX thread's walk     *)
(* through the layers of a token.  A flow layer does not fetch: it builds  *)
(* a graph on whatever slots the table names (`used`, as for a fetch), and *)
(* the routing it leaves behind (`recs`) is read when the next token       *)
(* starts, to prefetch what was missing.  The first Warmup tokens after a  *)
(* prefill fetch in the ordinary way.                                      *)
(***************************************************************************)
EXTENDS ExpertCache

CONSTANTS
  LayerOf,   \* the layer, 1 .. Last, each expert belongs to
  Last,      \* the number of MoE layers
  Warmup     \* FLOW_WARMUP

ASSUME FlowAssumption ==
  /\ Last \in Nat \ {0} /\ Warmup \in Nat
  /\ LayerOf \in [Experts -> 1..Last]

VARIABLES
  row,      \* _flow_rows: the slot of each resident expert, or None
  uploaded, \* _flow_tables: the rows as they were uploaded
  dirty,    \* _flow_dirty: the layers whose rows have changed since
  step,     \* the next layer to run; 0 between tokens, Last + 1 before sampling
  at,       \* where the first layer of a flow token stands
  warm,     \* _flow_tokens, capped at Warmup + 1
  recs      \* _flow_recs: the experts the flow layers routed to

tables == <<row, uploaded, dirty>>
walk   == <<step, at, warm, recs>>
all    == <<vars, tables, walk>>

Of(l) == {k \in Experts : LayerOf[k] = l}
Flowing == slab = "on" /\ warm > Warmup        \* flow_ready, and FLOW is set

(***************************************************************************)
(* The tables.                                                             *)
(***************************************************************************)
\* Mutant: an eviction does not clear the expert's row.
MarkInstalls ==
  LET changed == {k \in Experts : lru'[k] \in Slots /\ lru'[k] # lru[k]}
  IN /\ row'   = [k \in Experts |-> IF k \in changed THEN lru'[k] ELSE row[k]]
     /\ dirty' = dirty \cup {LayerOf[k] : k \in changed}
     /\ UNCHANGED uploaded

\* _flow_mark: _install and _evict_key record, under the lock, that an expert
\* came or went.
Mark ==
  LET changed == {k \in Experts : lru'[k] # lru[k]}
  IN /\ row'   = [k \in Experts |-> IF k \notin changed THEN row[k]
                                     ELSE IF lru'[k] \in Slots THEN lru'[k] ELSE None]
     /\ dirty' = dirty \cup {LayerOf[k] : k \in changed}
     /\ UNCHANGED uploaded

\* _flow_reset.
Reset ==
  /\ row'   = Empty
  /\ dirty' = 1..Last
  /\ UNCHANGED uploaded

\* Mutant: every slot of _slot_of is trusted, also those being read into.
UploadOwners(l) ==
  /\ uploaded' = [k \in Experts |-> IF k \in Of(l) THEN slotOf[k] ELSE uploaded[k]]
  /\ dirty' = dirty \ {l}
  /\ UNCHANGED row

\* flow_table: upload the layer's row if it is dirty.
Upload(l) ==
  /\ uploaded' = [k \in Experts |->
       IF k \in Of(l) /\ l \in dirty THEN row[k] ELSE uploaded[k]]
  /\ dirty' = dirty \ {l}
  /\ UNCHANGED row

(***************************************************************************)
(* A token.                                                                *)
(***************************************************************************)
\* flow_token_start, at the first layer and with the slab up.
TokenStart ==
  /\ pc = "idle" /\ step = 0
  /\ step' = 1
  /\ at'   = "call"
  /\ warm' = IF slab = "on" THEN AtMost(warm + 1, Warmup + 1) ELSE warm
  /\ UNCHANGED <<vars, tables, recs>>

\* A layer on the ordinary path.
SyncLayer(S) ==
  /\ step \in 1..Last /\ ~Flowing /\ S \subseteq Of(step)
  /\ FetchBegin(S, "lru")
  /\ step' = step + 1
  /\ UNCHANGED <<tables, at, warm, recs>>

\* What the ring or WAIT_ABOVE guesses on the ordinary path (speculate, flush).
SyncGuess(S, n) ==
  /\ step # 0 /\ ~Flowing
  /\ Prefetch(S, n)
  /\ UNCHANGED <<tables, walk>>

\* Building the graph of a flow layer: it may read any slot the table names.
Build(l) ==
  /\ Upload(l)
  /\ used' = [k \in Experts |-> IF k \in Of(l) THEN uploaded'[k] ELSE used[k]]
  /\ UNCHANGED <<pc, mode, todo, due, got>>

\* _flow_forward of the first layer as far as the pump: the table is read first.
FlowFirst ==
  /\ pc = "idle" /\ step = 1 /\ at = "call" /\ Flowing
  /\ Build(1)
  /\ at' = "pump"
  /\ UNCHANGED <<table, reads, bytes, size, step, warm, recs>>

\* flow_pump: the experts the last token wanted are prefetched ...
Pump ==
  /\ at = "pump"
  /\ Prefetch(recs, PredictInstall)
  /\ at'   = "note"
  /\ recs' = {}
  /\ UNCHANGED <<tables, step, warm>>

\* ... or none, because all are known or speculation has to stand down.
PumpNothing ==
  /\ pc = "idle" /\ at = "pump"
  /\ \/ recs \subseteq In(lru) \cup In(raw) \cup inflight
     \/ ~PredictInstall /\ Cardinality(In(raw)) >= Staging
     \/ Cardinality(inflight) >= SpecCap
  /\ at'   = "note"
  /\ recs' = {}
  /\ UNCHANGED <<vars, tables, step, warm>>

\* The rest of the first layer: flow_note.
FlowNoted(S) ==
  /\ pc = "idle" /\ at = "note"
  /\ S # {} /\ S \subseteq Of(1)
  /\ at'   = "call"
  /\ step' = 2
  /\ recs' = recs \cup S
  /\ UNCHANGED <<vars, tables, warm>>

\* A later layer of a flow token.
FlowLayer(S) ==
  /\ pc = "idle" /\ step \in 2..Last /\ Flowing
  /\ S # {} /\ S \subseteq Of(step)
  /\ Build(step)
  /\ step' = step + 1
  /\ recs' = recs \cup S
  /\ UNCHANGED <<table, reads, bytes, size, at, warm>>

\* The sampler needs the logits: everything the token built is evaluated.
Sample ==
  /\ pc = "idle" /\ step = Last + 1
  /\ step' = 0
  /\ used' = Empty
  /\ UNCHANGED <<pc, mode, todo, due, got, table, reads, bytes, size, tables, at, warm, recs>>

(***************************************************************************)
(* Prefills, and everything else that calls the cache between tokens.      *)
(***************************************************************************)
\* Mutant: a prefill leaves the routing of the last flow token behind.
DropCounterOnly ==
  /\ warm' = 0
  /\ UNCHANGED <<step, at, recs>>

\* flow_drop.
Drop ==
  /\ warm' = 0
  /\ recs' = {}
  /\ UNCHANGED <<step, at>>

\* A layer of a prompt: drop, perhaps enter_prefill, fetch.
PrefillLayer(S) == step = 0 /\ FetchBegin(S, "soft") /\ Drop /\ UNCHANGED tables
PrefillBig      == step = 0 /\ ReleaseBegin /\ Drop /\ UNCHANGED tables
PrefillShrinks  == step = 0 /\ ShrinkBudget /\ Drop /\ Mark

\* leave_prefill, called by a layer on the ordinary path.  Where nothing is
\* resident but loose arrays, an eviction marks None over None.
Rebuild(N)      == step \in 1..Last /\ RebuildSlab(N) /\ Mark /\ UNCHANGED walk
RebuildFailed   == step \in 1..Last /\ RebuildFails /\ Mark /\ UNCHANGED walk
Restore         == step \in 1..Last /\ RestoreBudget /\ UNCHANGED <<tables, walk>>

Relieve         == step = 0 /\ RelievePressure /\ UNCHANGED <<tables, walk>>

\* The call in progress.  An exception leaves the forward pass.
WorkOn ==
  \/ /\ \/ \E k \in Experts, s \in Slots : SubmitToSlot(k, s) \/ SpecToSlot(k, s)
        \/ \E k \in Experts : SubmitLoose(k) \/ SpecLoose(k) \/ Consume(k) \/ Drain(k)
        \/ \E v \in Experts : DropForSlot(v)
        \/ FinishBegin
        \/ SpecStop
     /\ UNCHANGED <<tables, walk>>
  \/ (\E v \in Experts : EvictForSlot(v)) /\ Mark /\ UNCHANGED walk
  \/ (\E k \in Experts : InstallOne(k)) /\ Mark /\ UNCHANGED walk
  \/ ReleaseEnd /\ Reset /\ UNCHANGED walk
  \/ (\E k \in Experts : Abort(k)) /\ step' = 0 /\ UNCHANGED <<tables, at, warm, recs>>

ReadEnds(k) == Read(k) /\ UNCHANGED <<tables, walk>>

\* Only one that installs leaves Mark something to do.
CallsBack(k) ==
  /\ CallbackInstall(k) \/ CallbackIdle(k) \/ CallbackStage(k)
  /\ Mark
  /\ UNCHANGED walk

FlowInit ==
  /\ Init
  /\ row = Empty /\ uploaded = Empty /\ dirty = 1..Last
  /\ step = 0 /\ at = "call" /\ warm = 0 /\ recs = {}

\* The forward pass of a token, once it has started.
Forward ==
  \/ \E S \in SUBSET Experts : SyncLayer(S)
  \/ FlowFirst
  \/ Pump
  \/ PumpNothing
  \/ \E S \in SUBSET Experts : FlowNoted(S) \/ FlowLayer(S)
  \/ Sample
  \/ \E N \in SUBSET Slots : Rebuild(N)
  \/ RebuildFailed
  \/ Restore

FlowNext ==
  \/ TokenStart
  \/ Forward
  \/ WorkOn
  \/ \E S \in SUBSET Experts, n \in BOOLEAN : SyncGuess(S, n)
  \/ \E S \in SUBSET Experts : PrefillLayer(S)
  \/ PrefillBig
  \/ PrefillShrinks
  \/ Relieve
  \/ \E k \in Experts : ReadEnds(k)
  \/ \E k \in Experts : CallsBack(k)

FlowSpec == FlowInit /\ [][FlowNext]_all

\* As for ExpertCache; and a forward pass that has begun goes on: a layer makes
\* finitely many guesses, and then fetches.
FlowFairSpec ==
  /\ FlowSpec
  /\ WF_all(WorkOn) /\ SF_all(Forward)
  /\ \A k \in Experts : WF_all(ReadEnds(k)) /\ WF_all(CallsBack(k))

(***************************************************************************)
(* Properties.                                                             *)
(***************************************************************************)
\* The variables of flow decode have the types the code gives them.
FlowTypeOK ==
  /\ row \in [Experts -> Slots \cup {None}]
  /\ uploaded \in [Experts -> Slots \cup {None}]
  /\ dirty \subseteq 1..Last
  /\ step \in 0..Last + 1 /\ at \in {"call", "pump", "note"}
  /\ warm \in 0..Warmup + 1
  /\ recs \subseteq Experts

\* The slot through which the GPU may reach k once flow_table has been called.
Published(k) == IF LayerOf[k] \in dirty THEN row[k] ELSE uploaded[k]

\* What the GPU would gather from after flow_table is exactly what is resident
\* (enable_flow: "The table only ever names experts that are installed in the
\* LRU, never ones with a read in flight").
TableNamesResidents ==
  \A k \in Experts : Published(k) = IF lru[k] \in Slots THEN lru[k] ELSE None

\* The inductive form: the rows follow the LRU whether or not a layer is dirty, and a
\* layer that is not has been uploaded as it is.
TablesAgree ==
  \A k \in Experts :
    /\ row[k] = IF lru[k] \in Slots THEN lru[k] ELSE None
    /\ LayerOf[k] \notin dirty => uploaded[k] = row[k]

\* No routing of an earlier prompt is waiting to be prefetched while a new one is
\* decoded the ordinary way (flow_drop: "a prefill replaces the state it came
\* from").
NothingHeldInWarmup == warm <= Warmup => recs = {}

\* The inductive form: the first layer of a flow token stands inside its pump only
\* while flow decode is on and nothing but the pump's own reads is being started.
HeldWhileFlowing ==
  /\ warm \in Nat
  /\ NothingHeldInWarmup
  /\ at # "call" => step = 1 /\ Flowing /\ pc \in {"idle", "spec"}

\* A token that was begun is sampled, or its forward pass raises.
TokenEnds == (step # 0) ~> (step = 0)

\* An expert that was read because flow tokens missed it, and that they keep asking
\* for, does not lie in staging for ever: "the reads still get issued, one token late.
\* That is the same trade WAIT_ABOVE already makes", whose experts "populate the cache
\* for subsequent tokens rather than being lost" (config.py).
AskedIsComputed ==
  \A k \in Experts : []<>(at = "pump" /\ k \in recs) => ~<>[](k \in In(raw))

=============================================================================
