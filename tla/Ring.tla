-------------------------------- MODULE Ring --------------------------------
(* The pass of one forward call through the MoE layers (StreamedSwitchGLU in   *)
(* streaming.py), the PrefetchRing that carries guesses from layer to layer    *)
(* and from token to token, and the part of the expert sidecar that listens    *)
(* to them (sidecar/service.py with its prefill and residency heads).          *)
(*                                                                             *)
(* Which experts a router picks is data.  What the model keeps of a list of    *)
(* ids is the pass it came from: a label.  A pass can be abandoned at any      *)
(* layer, by an error or by a request that goes away, and the next pass finds  *)
(* what it left behind.                                                        *)
EXTENDS Naturals, Sequences, FiniteSets, FiniteSetsExt

CONSTANTS
    N,          \* MoE layers, indexed from 0 as in the code
    Heads,      \* layers the prefill head follows, the first ones
    Depth,      \* _configured_depth: layers predicted by one stride
    Lead,       \* EXPERT_STREAM_PREDICT_LEAD
    Warmup,     \* FLOW_WARMUP
    Memory,     \* SIDECAR_HISTORY
    MaxPass     \* bound: passes in a behaviour

ASSUME RingAssumption ==
    /\ N \in Nat \ {0, 1} /\ Heads \in 1 .. N /\ Depth \in Nat \ {0}
    /\ Lead \in Nat /\ Warmup \in Nat \ {0} /\ Memory \in Nat \ {0} /\ MaxPass \in Nat

Layers == 0 .. N - 1
Labels == 1 .. MaxPass
Never  == 0              \* the label of nothing

VARIABLES
    pass,       \* the pass under way, or the last one
    slab,       \* "up"; "owed", released for a prefill; "lost", could not be rebuilt
    depth,      \* predict_depth: 0 or Depth
    pending,    \* _pending: a prediction not synced yet
    predicted,  \* layer -> labels of the predictions not compared with demand yet
    recs,       \* _flow_recs: <<layer, label>>, the routing of a flow token
    warm,       \* _flow_tokens, as far as it matters
    token,      \* the sidecar's decode token: _token_open, _token_demand and
                \* the residency head's _cur
    history,    \* _history: the labels of each frame
    chunk,      \* the prefill head's window
    prompt      \* the label of the last prefill pass that reached a layer

ring    == <<slab, depth, pending, predicted, recs, warm>>
sidecar == <<token, history, chunk>>
vars    == <<pass, ring, sidecar, prompt>>

Kinds    == {"decode", "flow", "prefill"}
Passes   == [kind : Kinds, label : 0 .. MaxPass, at : 0 .. N, running : BOOLEAN]
Pendings == [label : 0 .. MaxPass, targets : SUBSET Layers]
Slabs    == {"up", "owed", "lost"}
Nothing  == [label |-> Never, targets |-> {}]
Tokens   == [open : BOOLEAN, demand : [Layers -> 0 .. MaxPass], cur : Seq(Layers \X Labels)]
Chunks   == [active : BOOLEAN, counts : [0 .. Heads - 1 -> SUBSET Labels],
             left : BOOLEAN,      \* _left_prefill_warmed
             waiting : BOOLEAN,   \* _warm_pending
             hot : [0 .. Heads - 1 -> SUBSET Labels]]   \* _prev_hot

NoDemand == [l \in Layers |-> Never]
NoCounts == [l \in 0 .. Heads - 1 |-> {}]

Here == pass.at
Now  == pass.label

-----------------------------------------------------------------------------
(* The sidecar's hooks, as functions of what they change.                      *)

\* note_demand: the token's demand of a layer, which the residency head buffers.
Note(t, l, label) ==
    [t EXCEPT !.open = TRUE, !.demand[l] = label, !.cur = Append(@, <<l, label>>)]

NoteAll(t, rs) ==
    [t EXCEPT !.open = TRUE,
              !.demand = [l \in Layers |-> IF \E i \in DOMAIN rs : rs[i][1] = l
                                           THEN rs[CHOOSE i \in DOMAIN rs :
                                                     /\ rs[i][1] = l
                                                     /\ \A j \in DOMAIN rs : rs[j][1] = l => j <= i][2]
                                           ELSE @[l]],
              !.cur = @ \o rs]

Frame(demand) == { demand[l] : l \in Layers } \ {Never}

\* deque(maxlen = SIDECAR_HISTORY).
Remember(h, frame) ==
    IF Len(h) = Memory THEN Append(Tail(h), frame) ELSE Append(h, frame)

\* Mutant: the warm-up asks for nothing when decode starts, and stays asked for.
WarmedKeepsWaiting(c) == [c EXCEPT !.left = TRUE]

\* The first token after a prefill warms the slab once.
Warmed(c) == IF c.left THEN c ELSE [c EXCEPT !.left = TRUE, !.waiting = FALSE]

\* Mutant: what was learned from is not forgotten.
EndTokenKeepsDemand(t) ==
    /\ token' = [open |-> FALSE, demand |-> t.demand,
                 cur |-> IF t.demand = NoDemand THEN t.cur ELSE <<>>]
    /\ IF t.demand = NoDemand THEN UNCHANGED <<history, chunk>>
       ELSE /\ history' = Remember(history, Frame(t.demand))
            /\ chunk' = Warmed(chunk)

\* end_decode_token closes the token; the sidecar's end_token gets the demand in
\* t and does nothing without any.
EndToken(t) ==
    /\ token' = [open |-> FALSE, demand |-> NoDemand,
                 cur |-> IF t.demand = NoDemand THEN t.cur ELSE <<>>]
    /\ IF t.demand = NoDemand THEN UNCHANGED <<history, chunk>>
       ELSE /\ history' = Remember(history, Frame(t.demand))
            /\ chunk' = Warmed(chunk)

\* Mutant: only the demand of the token is dropped.
DropTokenKeepsResidency(t) == [t EXCEPT !.demand = NoDemand]

\* drop_token: the demand of a token that was never closed, and the residency
\* head's part of it.  _token_open is the ring's and stays.
DropToken(t) == [t EXCEPT !.demand = NoDemand, !.cur = <<>>]

AbortChunk(c) == [c EXCEPT !.active = FALSE, !.counts = NoCounts, !.left = FALSE]

\* begin_prefill_chunk: what the last chunk leaned on is prefetched at once.
BeginChunk(c) ==
    [c EXCEPT !.active = TRUE, !.counts = NoCounts, !.left = FALSE,
              !.waiting = @ /\ c.hot = NoCounts]

\* note_prefill_demand.
NoteChunk(c, l, label) ==
    IF c.active /\ l < Heads THEN [c EXCEPT !.counts[l] = @ \cup {label}] ELSE c

\* end_prefill_chunk: the hot set of the window is the next one's warm set.  The
\* window is never empty, the first layer has noted its demand.
EndChunk(c) ==
    IF c.active THEN [c EXCEPT !.active = FALSE, !.hot = c.counts, !.waiting = TRUE] ELSE c

-----------------------------------------------------------------------------
(* Route prediction.                                                           *)

\* Mutant: targets start at the next layer, which flushes too late for itself.
DistancesFromNext(src, d) == { k \in 1 .. d + Lead : src + k < N }

\* _distances, with no far target.
Distances(src, d) == { k \in 2 + Lead .. d + Lead + 1 : d > 0 /\ src + k < N }

\* _predict_graph: what layer src predicts on the stride, if anything.
Predict(src, d) ==
    IF d = 0 \/ src % d # 0 \/ Distances(src, d) = {} THEN Nothing
    ELSE [label |-> Now, targets |-> { src + k : k \in Distances(src, d) }]

\* The layer compares with its demand what was predicted for it.
Counted == [predicted EXCEPT ![Here] = {}]

\* flush: the prediction has been synced and is handed to its targets.
Flushed(shown) ==
    [l \in Layers |-> IF l \in pending.targets THEN shown[l] \cup {pending.label} ELSE shown[l]]

-----------------------------------------------------------------------------
Init ==
    /\ pass = [kind |-> "prefill", label |-> 0, at |-> N, running |-> FALSE]
    /\ slab = "up"
    /\ depth = Depth
    /\ pending = Nothing
    /\ predicted = [l \in Layers |-> {}]
    /\ recs = <<>>
    /\ warm = 0
    /\ token = [open |-> FALSE, demand |-> NoDemand, cur |-> <<>>]
    /\ history = <<>>
    /\ chunk = [active |-> FALSE, counts |-> NoCounts, left |-> TRUE, waiting |-> FALSE,
                hot |-> NoCounts]
    /\ prompt = Never

Begin(kind) ==
    /\ ~pass.running /\ pass.label < MaxPass
    /\ pass' = [kind |-> kind, label |-> pass.label + 1, at |-> 0, running |-> TRUE]

\* A pass of more than _DECODE_MAX_TOKENS positions.
StartPrefill ==
    /\ Begin("prefill")
    /\ UNCHANGED <<ring, sidecar, prompt>>

\* A pass of few positions, a token or a short rest of a prompt: flow_token_start
\* counts it when the slab is up, and hands over to flow after the warm-up.
StartToken ==
    LET count == IF slab = "up" /\ warm <= Warmup THEN warm + 1 ELSE warm
    IN  /\ Begin(IF slab = "up" /\ count > Warmup THEN "flow" ELSE "decode")
        /\ warm' = count
        /\ pending' = IF count = Warmup + 1 /\ warm = Warmup THEN Nothing ELSE pending
        /\ UNCHANGED <<slab, depth, predicted, recs, sidecar, prompt>>

Running(kind) == pass.running /\ pass.kind = kind

Onward == pass' = [pass EXCEPT !.at = @ + 1, !.running = Here + 1 < N]
Stops  == pass' = [pass EXCEPT !.running = FALSE]
Last   == Here + 1 = N

\* Between two layers, or within one before it changes anything.
Abandon ==
    /\ pass.running
    /\ Stops
    /\ UNCHANGED <<ring, sidecar, prompt>>

\* leave_prefill: an ordinary layer wants the slab back, and is refused once.
Rebuilt == IF slab = "owed" THEN {"up", "lost"} ELSE {slab}

\* An ordinary layer whose demand is noted and whose reads then fail.
DecodeReadFails ==
    /\ Running("decode")
    /\ Stops
    /\ slab' \in Rebuilt
    /\ predicted' = Counted
    /\ token' = Note(token, Here, Now)
    /\ UNCHANGED <<depth, pending, recs, warm, history, chunk, prompt>>

\* An ordinary layer: note_demand, fetch, flush, speculate, and at the last
\* layer end_decode_token.  At the first layer the governor may change the
\* depth; a prediction that fails turns prediction off.
DecodeLayer ==
    /\ Running("decode")
    /\ Onward
    /\ slab' \in Rebuilt
    /\ \E fails \in {"no", "flush", "speculate"} :
         \E d \in IF Here = 0 THEN {0, Depth} ELSE IF fails = "flush" THEN {0} ELSE {depth} :
            /\ fails = "flush" => pending # Nothing
            /\ fails = "speculate" => d > 0 /\ Here % d = 0
            /\ predicted' = IF fails = "flush" THEN Counted ELSE Flushed(Counted)
            /\ depth'   = IF fails = "speculate" THEN 0 ELSE d
            /\ pending' = IF fails = "speculate" THEN Nothing ELSE Predict(Here, d)
    /\ IF Last THEN EndToken(Note(token, Here, Now))
       ELSE /\ token' = Note(token, Here, Now)
            /\ UNCHANGED <<history, chunk>>
    /\ UNCHANGED <<recs, warm, prompt>>

\* flow_pump: what the last flow token was routed to is its demand, and closes it.
Pump ==
    /\ IF recs = <<>> THEN UNCHANGED sidecar ELSE EndToken(NoteAll(token, recs))
    /\ recs' = <<<<Here, Now>>>>

\* A flow layer: the first one pumps; then flow_note.
FlowLayer ==
    /\ Running("flow")
    /\ Onward
    /\ IF Here = 0 THEN Pump
       ELSE /\ recs' = Append(recs, <<Here, Now>>)
            /\ UNCHANGED sidecar
    /\ UNCHANGED <<slab, depth, pending, predicted, warm, prompt>>

\* enter_prefill.
Released(big) == IF big /\ slab = "up" THEN "owed" ELSE slab

\* Mutant: the sidecar's token is dropped at every layer of a prefill.
EnteredEveryLayer(big) ==
    /\ pending' = Nothing /\ recs' = <<>> /\ warm' = 0
    /\ slab' = Released(big)
    /\ prompt' = Now
    /\ token' = DropToken(token)
    /\ chunk' = NoteChunk(IF Here = 0 THEN BeginChunk(AbortChunk(chunk)) ELSE AbortChunk(chunk),
                          Here, Now)

\* A prefill layer as far as its reads: drop_pending, flow_drop, and at the
\* first layer drop_token and begin_prefill_chunk; a big pass drops the slab.
Entered(big) ==
    /\ pending' = Nothing /\ recs' = <<>> /\ warm' = 0
    /\ slab' = Released(big)
    /\ prompt' = Now
    /\ token' = IF Here = 0 THEN DropToken(token) ELSE token
    /\ chunk' = NoteChunk(IF Here = 0 THEN BeginChunk(AbortChunk(chunk)) ELSE chunk, Here, Now)

Sizes == IF Here = 0 THEN BOOLEAN ELSE {FALSE}

PrefillReadFails ==
    /\ Running("prefill")
    /\ Stops
    /\ \E big \in Sizes : Entered(big)
    /\ UNCHANGED <<depth, predicted, history>>

\* A prefill layer; the last one closes the window.
PrefillLayer ==
    /\ Running("prefill") /\ ~Last
    /\ Onward
    /\ \E big \in Sizes : Entered(big)
    /\ predicted' = Counted
    /\ UNCHANGED <<depth, history>>

PrefillEnds ==
    /\ Running("prefill") /\ Last
    /\ Onward
    /\ pending' = Nothing /\ recs' = <<>> /\ warm' = 0
    /\ predicted' = Counted
    /\ chunk' = EndChunk(NoteChunk(chunk, Here, Now))
    /\ UNCHANGED <<slab, depth, token, history, prompt>>

Next ==
    \/ StartPrefill \/ StartToken \/ Abandon
    \/ DecodeReadFails \/ DecodeLayer \/ FlowLayer
    \/ PrefillReadFails \/ PrefillLayer \/ PrefillEnds

Spec == Init /\ [][Next]_vars

-----------------------------------------------------------------------------
(* Properties *)

\* Every value is of its type.
TypeOK ==
    /\ pass \in Passes
    /\ slab \in Slabs
    /\ depth \in {0, Depth}
    /\ pending \in Pendings
    /\ predicted \in [Layers -> SUBSET Labels]
    /\ warm \in 0 .. Warmup + 1
    /\ token.open \in BOOLEAN /\ token.demand \in [Layers -> 0 .. MaxPass]
    /\ \A i \in DOMAIN token.cur : token.cur[i] \in Layers \X Labels
    /\ \A i \in DOMAIN recs : recs[i] \in Layers \X Labels
    /\ chunk \in Chunks
    /\ Len(history) <= Memory

\* "routing came from a hidden state this prompt replaces": from a prompt's
\* first layer on, no prediction waiting for its sync, no flow routing and no
\* demand still to be learned from is older than it.  Predictions already handed
\* to a layer are not dropped by a prompt: the prompt's own demand counts them.
NothingFromBeforePrefill ==
    /\ pending # Nothing => pending.label > prompt
    /\ \A l \in Layers : token.demand[l] # Never => token.demand[l] > prompt
    /\ \A i \in DOMAIN token.cur : token.cur[i][2] > prompt
    /\ \A i \in DOMAIN recs : recs[i][2] > prompt

\* A prediction is compared with one demand, that of the first pass through its
\* layer outside flow: the layers a pass has been through hold none and will be
\* handed none, and what an abandoned pass leaves is for layers it never reached.
NoLeftovers ==
    pass.kind # "flow" =>
        \A l \in Layers : l < Here => predicted[l] = {} /\ l \notin pending.targets

\* No token is in two frames of the history, and the frames are in the order the
\* tokens ran, on the ordinary path, under flow and across the hand-over.  (A
\* frame may hold two tokens: the demand of an abandoned one joins the next.)
HistoryInOrder ==
    \A i, j \in 1 .. Len(history) :
        i < j => \A x \in history[i], y \in history[j] : x < y

\* A prompt that reached its last layer leaves the experts of that prompt, in
\* each layer the prefill head follows, as the set to warm.
ChunkWhole ==
    ~pass.running /\ Here = N /\ pass.kind = "prefill" /\ Now # Never =>
        chunk.hot = [l \in 0 .. Heads - 1 |-> {Now}] /\ chunk.waiting

\* Once a token has warmed the slab no warm-up is left waiting for a later one.
WarmedOnce == chunk.left => ~chunk.waiting

\* "Each (layer, expert) can appear at most once per token ... no dedupe is
\* needed" (heads/residency.py).
OncePerToken ==
    \A i, j \in DOMAIN token.cur : token.cur[i][1] = token.cur[j][1] => i = j
=============================================================================
