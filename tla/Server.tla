------------------------------- MODULE Server -------------------------------
(***************************************************************************)
(* One streamed model behind the HTTP server: a request resumes from the   *)
(* nearest stored KV cache (_fetch, kvmem.take_nearest_cache), prefills    *)
(* and stores prefix snapshots (_snapshot_user_segment), decodes           *)
(* (generate_step, lookup_decode.generate_step) and puts its cache back    *)
(* into the store, which is kept to a byte budget (kvmem.bound_store).     *)
(*                                                                         *)
(* Requests are served one at a time, by one thread (is_batchable = False),*)
(* so a step here is a stretch of that thread between two places where the *)
(* turn can end or an exception can rise.  A KV cache is the sequence of   *)
(* tokens its positions were computed from: trimming, storing and resuming *)
(* are about which tokens those are, not about numbers.                    *)
(***************************************************************************)
EXTENDS Integers, SequencesExt, FiniteSetsExt, Functions

CONSTANTS
  Tokens,         \* the vocabulary
  Confs,          \* the processes looked at, see Settings
  Reply,          \* bound: tokens of the reply to the longest request
  Drift,          \* bound: tokens a resumed cache may have too many
  Chunk,          \* tokens of a prefill chunk (next_chunk)
  MinSnapshot,    \* _MIN_SNAPSHOT_TOKENS
  MinGain,        \* _MIN_SNAPSHOT_GAIN
  Fp16Ctx,        \* KV_FP16_CTX
  LookupTokens,   \* LOOKUP_TOKENS: drafted tokens of a verify pass
  StoreBudget     \* kvmem._store_budget, 0 until the loader has set it

\* A process: whether the model's caches can be trimmed, LOOKUP,
\* PROMPT_CACHE_MOVE, --prompt-cache-size, whether a snapshot may raise, and
\* a bound: the tokens of its longest request.
Settings == [trimmable : BOOLEAN, lookup : BOOLEAN, move : BOOLEAN,
             size : Nat \ {0}, flaky : BOOLEAN, req : Nat \ {0}]

ASSUME ServerAssumption ==
  /\ Confs \subseteq Settings
  /\ {Reply, Chunk, MinSnapshot, MinGain} \subseteq Nat \ {0}
  /\ {Drift, Fp16Ctx, LookupTokens, StoreBudget} \subseteq Nat

VARIABLES
  conf,     \* this process
  store,    \* LRUPromptCache: a KV cache for every stored key
  bytes,    \* LRUPromptCache._n_bytes
  recent,   \* the last of _recent_prompts, <<>> when there is none
  lent,     \* whether the expert slab is lent (_decode_budget is set)
  pc,       \* where the serving thread is
  ctx,      \* the tokens of the request (_req_ctx.tokens)
  cached,   \* how many of them the store served (_req_ctx.cached)
  kv,       \* the KV cache the turn works on (prompt_cache)
  rest,     \* the prompt still to be fed (kwargs["prompt"])
  done,     \* how much of rest the snapshot has prefilled (processed)
  bounds,   \* snapshot boundaries still to be stored
  out,      \* tokens handed to the server
  feed      \* tokens of a verify pass that were not handed over yet

\* The longest request with its reply (max_tokens), and the longest cache.
MaxReq == conf.req
MaxCtx == MaxReq + Reply
KvMax  == MaxCtx + Drift

turn == <<ctx, cached, kv, rest, done, bounds, out, feed>>
vars == <<conf, store, bytes, recent, lent, pc, turn>>

-----------------------------------------------------------------------------
(* KV caches.  "via" remembers what happened to a cache: "refed" when a     *)
(* failed snapshot left tokens in it that were fed again, "lookup" when a   *)
(* lookup turn was stopped where its cache was ahead of, or behind, the     *)
(* tokens handed over, and stored under these.                              *)

Take(s, n) == SubSeq(s, 1, n)
Drop(s, n) == SubSeq(s, n + 1, Len(s))

EmptyKv == [toks |-> <<>>, quant |-> FALSE, via |-> {}]

\* A forward pass appends what it was fed.
Fed(c, s) == [c EXCEPT !.toks = @ \o s]

\* trim_prompt_cache: drops the last n positions, all when there are fewer.
Trimmed(c, n) == [c EXCEPT !.toks = Take(@, Max({0, Len(@) - n}))]

\* Mutant: a resumed cache is prefilled as it was stored.
UnquantizedNot(c) == c

\* kvmem.unquantize
Unquantized(c) == [c EXCEPT !.quant = FALSE]

\* kvmem.requantize, called after every pass: 8-bit from quantized_kv_start on,
\* which _stream_generate puts behind the whole prompt.
QuantStart == Max({Len(ctx) + 1, Fp16Ctx})
Requantized(c) == [c EXCEPT !.quant = @ \/ Len(c.toks) >= QuantStart]

\* Half the bytes at 8 bits.
Size(c) == Len(c.toks) * (IF c.quant THEN 1 ELSE 2)

-----------------------------------------------------------------------------
(* The store                                                                *)

Common(s, t) == Max({n \in 0..Len(s) : n <= Len(t) /\ Take(s, n) = Take(t, n)})

\* The entries a request may resume from, as the store's trie finds them in the
\* order of the code: the exact one, a longer one cut back to what is shared, a
\* shorter one; and how many tokens of the request it serves.
Hits(req) ==
  LET shared  == [k \in DOMAIN store |-> Common(k, req)]
      best    == Max({0} \cup Range(shared))
      sharing == {k \in DOMAIN store : shared[k] = best}
      longer  == {k \in sharing : \A l \in sharing : Len(k) <= Len(l)}
      prefix  == {k \in DOMAIN store : shared[k] = Len(k) /\ Len(k) > 1}
      short   == Max({0} \cup {Len(k) : k \in prefix})
  IN  IF req \in DOMAIN store THEN {[key |-> req, n |-> Len(req)]}
      ELSE IF best > short /\ conf.trimmable
        THEN {[key |-> k, n |-> Min({Len(req) - 1, best})] : k \in longer}
      ELSE {[key |-> k, n |-> short] : k \in {p \in prefix : Len(p) = short}}

\* Tokens the store would save this request; one is always fed again.
Served(req) == Max({0} \cup {Min({h.n, Len(req) - 1}) : h \in Hits(req)})

\* Mutant: prefixes go whatever the cache can do.
WithEntryAlone(key, c) ==
  LET kept == {k \in DOMAIN store : k # key /\ ~IsStrictPrefix(k, key)}
  IN  [k \in kept \cup {key} |-> IF k = key THEN c ELSE store[k]]

\* LRUPromptCache.insert_cache: a trimmable entry replaces its own prefixes.
WithEntry(key, c) ==
  LET kept == {k \in DOMAIN store :
                 k # key /\ ~(conf.trimmable /\ IsStrictPrefix(k, key))}
  IN  [k \in kept \cup {key} |-> IF k = key THEN c ELSE store[k]]

Bytes(s) == MapThenSumSet(LAMBDA k : Size(s[k]), DOMAIN s)

\* bound_store, after the store's own bound on entries: entries go until the
\* store's counter fits.  Which goes first is the store's LRU order, any here.
Bounded(s, n) ==
  LET Count(keys) == n - Bytes(Restrict(s, DOMAIN s \ keys))
      Fits(keys) == /\ Cardinality(keys) <= conf.size
                    /\ StoreBudget = 0 \/ Count(keys) <= StoreBudget
  IN  {[store |-> Restrict(s, keys), bytes |-> Count(keys)] :
         keys \in {K \in SUBSET DOMAIN s :
                     /\ Fits(K)
                     /\ K # DOMAIN s => \E k \in DOMAIN s \ K : ~Fits(K \cup {k})}}

\* _insert_cache: the original, then bound_store.
Insert(key, c) ==
  LET s    == WithEntry(key, c)
      gone == {k \in DOMAIN store : k = key \/ k \notin DOMAIN s}
  IN  \E b \in Bounded(s, bytes + Size(c) - Bytes(Restrict(store, gone))) :
        store' = b.store /\ bytes' = b.bytes

-----------------------------------------------------------------------------
(* The expert slab                                                          *)

\* leave_prefill: the loan is over, whether the slab can be rebuilt or not.
LeavePrefill == lent' = FALSE

\* make_room_for, and a prefill chunk longer than PREFILL_SHRINK_TOKENS, call
\* enter_prefill; whether they do depends on sizes.
MayLend == lent' \in {lent, TRUE}

-----------------------------------------------------------------------------
NoTurn ==
  /\ ctx = <<>> /\ cached = 0 /\ kv = EmptyKv /\ rest = <<>>
  /\ done = 0 /\ bounds = {} /\ out = <<>> /\ feed = <<>>

Init ==
  /\ conf \in Confs
  /\ store = <<>> /\ bytes = 0 /\ recent = <<>> /\ lent = FALSE
  /\ pc = "idle" /\ NoTurn

(* _fetch *)

\* take: the entry leaves the store and its counter.
TakeEntry(key) ==
  /\ store' = Restrict(store, DOMAIN store \ {key})
  /\ bytes' = bytes - Size(store[key])

\* A cache from the store leaves it (PROMPT_CACHE_MOVE) or is copied.  It goes
\* back to fp16 when there is something to prefill on it.
FetchHit(req) ==
  /\ pc = "idle"
  /\ \E h \in Hits(req) :
       LET c == Trimmed(store[h.key], Len(h.key) - h.n)
           left == Drop(req, h.n)
       IN  /\ Len(c.toks) + Len(left) <= KvMax
           /\ kv' = IF Len(left) > 1 THEN Unquantized(c) ELSE c
           /\ IF Len(left) > 1 THEN MayLend ELSE UNCHANGED lent
           /\ IF conf.move THEN TakeEntry(h.key) ELSE UNCHANGED <<store, bytes>>
           /\ rest' = left /\ cached' = h.n
  /\ pc' = "begin" /\ ctx' = req
  /\ UNCHANGED <<conf, recent, done, bounds, out, feed>>

\* Nothing to resume from: the server makes an empty cache.
FetchMiss(req) ==
  /\ pc = "idle" /\ Hits(req) = {}
  /\ pc' = "begin" /\ ctx' = req /\ cached' = 0 /\ kv' = EmptyKv /\ rest' = req
  /\ UNCHANGED <<conf, store, bytes, recent, lent, done, bounds, out, feed>>

-----------------------------------------------------------------------------
(* _snapshot_user_segment *)

\* Where the prompt ends for a client that appends: at the open think token of
\* a thinking template, or one token short of its end.
Tails == {t \in {Len(ctx) - 1, Len(ctx) - 2} : t > 0 \/ t = Len(ctx) - 1}

\* Where it is expected to change: where it left the previous prompt, or, when
\* there is none, the message boundary found, if any.
Splits ==
  IF recent # <<>> THEN {{Common(recent, ctx)} \ {Len(ctx)}}
  ELSE {{m} : m \in 1..Len(ctx) - 1} \cup {{}}

\* The candidates worth a copy (_MAX_SNAPSHOTS is 2 and there are never more).
Worth(b, from) == b >= MinSnapshot /\ b - from >= MinGain
Kept(candidates) ==
  LET low == {b \in candidates : b = Min(candidates) /\ Worth(b, cached)}
  IN  low \cup {b \in candidates : b # Min(candidates) /\ Worth(b, Max(low \cup {cached}))}

BeginTurn ==
  /\ pc = "begin"
  /\ \E tail \in Tails, split \in Splits :
       LET b == Kept({tail} \cup split)
       IN  bounds' = b /\ pc' = IF b = {} THEN "generate" ELSE "snapshot"
  /\ recent' = ctx
  /\ UNCHANGED <<conf, store, bytes, lent, ctx, cached, kv, rest, done, out, feed>>

\* A cache that can be trimmed is prefilled to the end, all but the last token,
\* and cut back for each boundary, the longest first; another has to stop at
\* each boundary.
Bound == IF conf.trimmable THEN Max(bounds) ELSE Min(bounds)
Target == IF conf.trimmable THEN Len(rest) - 1 ELSE Bound - cached

\* The tokens of the next chunk towards n.
NextChunk(n) == SubSeq(rest, done + 1, Min({n, done + Chunk}))

SnapshotPrefill ==
  /\ pc = "snapshot" /\ done < Target
  /\ kv' = Fed(kv, NextChunk(Target))
  /\ done' = done + Len(NextChunk(Target))
  /\ MayLend
  /\ UNCHANGED <<conf, store, bytes, recent, pc, ctx, cached, rest, bounds, out, feed>>

\* Mutant: a boundary is taken for an offset into what was prefilled.
SnapshotStoreRelative ==
  /\ pc = "snapshot" /\ done >= Target
  /\ Insert(Take(ctx, Bound), Trimmed(kv, Max({0, done - Bound})))
  /\ bounds' = bounds \ {Bound}
  /\ IF bounds' = {} THEN pc' = "generate" /\ rest' = Drop(rest, done) /\ done' = 0
                     ELSE UNCHANGED <<pc, rest, done>>
  /\ UNCHANGED <<conf, recent, lent, ctx, cached, kv, out, feed>>

\* Mutant: the generator gets the prompt the snapshot has already fed.
SnapshotStoreKeepsPrompt ==
  /\ pc = "snapshot" /\ done >= Target
  /\ Insert(Take(ctx, Bound), Trimmed(kv, cached + done - Bound))
  /\ bounds' = bounds \ {Bound}
  /\ IF bounds' = {} THEN pc' = "generate" /\ done' = 0 ELSE UNCHANGED <<pc, done>>
  /\ UNCHANGED <<conf, recent, lent, ctx, cached, kv, rest, out, feed>>

\* _fork_prefix_snapshots for one boundary; after the last the generator gets
\* what is left of the prompt.  A copy too large for the store's own limit
\* (max_bytes, which is not modelled) is not stored.
SnapshotStore ==
  /\ pc = "snapshot" /\ done >= Target
  /\ \/ Insert(Take(ctx, Bound), Trimmed(kv, cached + done - Bound))
     \/ UNCHANGED <<store, bytes>>
  /\ bounds' = bounds \ {Bound}
  /\ IF bounds' = {} THEN pc' = "generate" /\ rest' = Drop(rest, done) /\ done' = 0
                     ELSE UNCHANGED <<pc, rest, done>>
  /\ UNCHANGED <<conf, recent, lent, ctx, cached, kv, out, feed>>

\* A pass or a copy raises.  _stream_generate goes on with the prompt it had;
\* the cache keeps what was fed, in the failing pass too when it got that far.
SnapshotFails ==
  /\ pc = "snapshot" /\ conf.flaky
  /\ \E s \in {<<>>} \cup (IF done < Target THEN {NextChunk(Target)} ELSE {}) :
       kv' = IF done = 0 /\ s = <<>> THEN kv
             ELSE [Fed(kv, s) EXCEPT !.via = @ \cup {"refed"}]
  /\ MayLend
  /\ pc' = "generate" /\ done' = 0 /\ bounds' = {}
  /\ UNCHANGED <<conf, store, bytes, recent, ctx, cached, rest, out, feed>>

-----------------------------------------------------------------------------
(* generate_step *)

\* Chunks until one token is left; a pass ends with a requantize.
Prefill ==
  /\ pc = "generate" /\ Len(rest) > 1
  /\ LET chunk == NextChunk(Len(rest) - 1)
     IN  kv' = Requantized(Fed(kv, chunk)) /\ rest' = Drop(rest, Len(chunk))
  /\ MayLend
  /\ UNCHANGED <<conf, store, bytes, recent, pc, ctx, cached, done, bounds, out, feed>>

\* lookup_decode hands its first token over right away.
FirstOut == IF conf.lookup THEN {<<t>> : t \in Tokens} ELSE {<<>>}

\* The last token of the prompt, fed by the decoder of the process.
First ==
  /\ pc = "generate" /\ Len(rest) = 1
  /\ kv' = Requantized(Fed(kv, rest)) /\ rest' = <<>>
  /\ pc' = "decode"
  /\ out' \in FirstOut
  /\ LeavePrefill
  /\ UNCHANGED <<conf, store, bytes, recent, ctx, cached, done, bounds, feed>>

\* Tokens the turn may still hand over.
Left == MaxCtx - Len(ctx) - Len(out)

\* mlx_lm's loop feeds a token before it hands it over.
Emit ==
  /\ pc = "decode" /\ ~conf.lookup /\ Left > 0
  /\ \E t \in Tokens : kv' = Requantized(Fed(kv, <<t>>)) /\ out' = Append(out, t)
  /\ LeavePrefill
  /\ UNCHANGED <<conf, store, bytes, recent, pc, ctx, cached, rest, done, bounds, feed>>

\* Mutant: one rejected position stays in the cache.
VerifyKeepsRejected ==
  /\ pc = "decode" /\ conf.lookup /\ feed = <<>> /\ Left > 0
  /\ \E n \in 0..Min({LookupTokens, Left - 1}) :
       /\ ~conf.trimmable => n = 0
       /\ \E accepted \in [1..n -> Tokens], rejected \in Tokens, own \in Tokens :
            /\ kv' = Requantized(Fed(kv, <<Last(out)>> \o accepted \o <<rejected>>))
            /\ feed' = Append(accepted, own)
  /\ LeavePrefill
  /\ UNCHANGED <<conf, store, bytes, recent, pc, ctx, cached, rest, done, bounds, out>>

\* _verify: feeds the last token and a draft, keeps the positions the model
\* agreed to; the model's own token after them is still to be fed.
Verify ==
  /\ pc = "decode" /\ conf.lookup /\ feed = <<>> /\ Left > 0
  /\ \E n \in 0..Min({LookupTokens, Left - 1}) :
       /\ ~conf.trimmable => n = 0
       /\ \E accepted \in [1..n -> Tokens], own \in Tokens :
            /\ kv' = Requantized(Fed(kv, <<Last(out)>> \o accepted))
            /\ feed' = Append(accepted, own)
  /\ LeavePrefill
  /\ UNCHANGED <<conf, store, bytes, recent, pc, ctx, cached, rest, done, bounds, out>>

HandOver ==
  /\ pc = "decode" /\ feed # <<>>
  /\ out' = Append(out, Head(feed)) /\ feed' = Tail(feed)
  /\ UNCHANGED <<conf, store, bytes, recent, lent, pc, ctx, cached, kv, rest, done, bounds>>

\* The turn is over, whoever ends it: relieve_pressure.
Idle ==
  /\ pc' = "idle"
  /\ ctx' = <<>> /\ cached' = 0 /\ kv' = EmptyKv /\ rest' = <<>>
  /\ done' = 0 /\ bounds' = {} /\ out' = <<>> /\ feed' = <<>>

\* The server stops reading, at the end of the reply, at max_tokens or because
\* its client left, and stores the cache under the tokens it knows of.  After a
\* verify pass the cache is these tokens when one of the pass is left.
EndTurn ==
  /\ pc = "decode" /\ out # <<>>
  /\ Insert(ctx \o out, IF conf.lookup /\ Len(feed) # 1
                         THEN [kv EXCEPT !.via = @ \cup {"lookup"}] ELSE kv)
  /\ LeavePrefill
  /\ Idle
  /\ UNCHANGED <<conf, recent>>

\* Mutant: relieve_pressure does not leave the prefill budget.
FailTurnLent ==
  /\ pc \in {"generate", "decode"}
  /\ Idle
  /\ UNCHANGED <<conf, store, bytes, recent, lent>>

\* The generator raises: the cache is lost with the turn.  After an
\* out-of-memory failure the slab is lent first, and comes back at once.
FailTurn ==
  /\ pc \in {"generate", "decode"}
  /\ LeavePrefill
  /\ Idle
  /\ UNCHANGED <<conf, store, bytes, recent>>

Requests == UNION {[1..n -> Tokens] : n \in 1..MaxReq}

Next ==
  \/ \E req \in Requests : FetchHit(req) \/ FetchMiss(req)
  \/ BeginTurn \/ SnapshotPrefill \/ SnapshotStore \/ SnapshotFails
  \/ Prefill \/ First \/ Emit \/ Verify \/ HandOver
  \/ EndTurn \/ FailTurn

Spec == Init /\ [][Next]_vars

-----------------------------------------------------------------------------
(* Properties *)

UpTo(s, n) == s \in Seq(Tokens) /\ Len(s) <= n
IsKv(c) ==
  /\ DOMAIN c = {"toks", "quant", "via"}
  /\ UpTo(c.toks, KvMax + MaxReq) /\ c.quant \in BOOLEAN
  /\ c.via \subseteq {"refed", "lookup"}

\* The types of the variables.
TypeOK ==
  /\ conf \in Confs
  /\ \A k \in DOMAIN store : UpTo(k, MaxCtx) /\ IsKv(store[k])
  /\ bytes \in Nat
  /\ lent \in BOOLEAN
  /\ pc \in {"idle", "begin", "snapshot", "generate", "decode"}
  /\ UpTo(recent, MaxReq) /\ UpTo(ctx, MaxReq) /\ UpTo(rest, MaxReq)
  /\ UpTo(out, MaxCtx) /\ UpTo(feed, MaxCtx)
  /\ IsKv(kv)
  /\ cached \in 0..MaxReq /\ done \in 0..MaxReq
  /\ bounds \subseteq 0..MaxReq

\* A stored cache holds exactly the tokens of its key: what is resumed under
\* a key was computed from that key's tokens, however often the cache was
\* forked, cut, handed over, converted and put back.  (Code: take,
\* _fork_prefix_snapshots, insert_cache of the whole turn.)  Not so, and exempt:
\* what descends from a turn whose snapshot raised, or from a lookup turn that
\* was stopped inside or between its verify passes.
StoreHoldsKey == \A k \in DOMAIN store : store[k].via = {} => store[k].toks = k

\* The handoff that PREFIX_DEBUG prints: what the cache holds and what is left
\* of the prompt are together the request, wherever the turn resumed from and
\* whatever the snapshots prefilled.  Exempt: a turn whose snapshot raised
\* (HandoffWholeEver), and one that resumed from a cache that is not its key.
HandoffWhole ==
  pc \in {"begin", "generate"} /\ kv.via = {} => kv.toks \o rest = ctx

\* "Prefill must never run against a quantized cache": while there is more
\* than one token to feed, the cache is fp16, also when it came from a turn
\* that had quantized it.  In the generator's own prefill a turn is exempt whose
\* snapshot raised, or that resumed from a cache that is not its key: its cache
\* may be longer than its request, and quantized early.
PrefillUnquantized ==
  /\ pc = "snapshot" => ~kv.quant
  /\ pc = "generate" /\ Len(rest) > 1 /\ kv.via = {} => ~kv.quant

\* What the store holds never exceeds the published budget, whichever calls
\* took entries out and put them back, because its counter is exact.
StoreBounded ==
  /\ bytes = Bytes(store)
  /\ StoreBudget > 0 => Bytes(store) <= StoreBudget
  /\ Cardinality(DOMAIN store) <= conf.size

\* A verify pass is conditioned on the tokens that were handed over, all of
\* them and no rejected one: with the last one, which it feeds, the cache is
\* the request and the reply.  Exempt: a turn whose snapshot raised, and one that
\* resumed from a cache that is not its key.
ConditionedOnEmitted ==
  pc = "decode" /\ conf.lookup /\ feed = <<>> /\ kv.via = {} =>
    kv.toks \o <<Last(out)>> = ctx \o out

\* Between turns the slab is not lent, also after a turn that died in its
\* prefill: the next request does not start on the prefill budget.  (A failure
\* between the fetch, which may lend the slab, and the generator is not modelled.)
SlabBackBetweenTurns == pc = "idle" => ~lent

\* As long as the store has room, an insert never takes reuse away from any
\* request: the prefixes a trimmable entry replaces are served by it, and
\* those of a cache that cannot be trimmed stay.
HasRoom ==
  /\ Cardinality(DOMAIN store) < conf.size
  /\ StoreBudget = 0 \/ bytes + Size(kv) <= StoreBudget
InsertKeepsReuse ==
  [][store' # store /\ pc \in {"snapshot", "decode"} /\ HasRoom =>
       \A req \in {r \in Requests : Served(r) > 0} : Served(req)' >= Served(req)]_vars

\* The handoff of every turn, those whose snapshot raised included, for
\* "snapshots are an optimization, never fatal".
HandoffWholeEver == pc \in {"begin", "generate"} => kv.toks \o rest = ctx

=============================================================================
