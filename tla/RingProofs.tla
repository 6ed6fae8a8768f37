------------------------------ MODULE RingProofs ------------------------------
(* Proofs about Ring, for every number of layers, stride, lead and bound.      *)
(* Each property has an inductive invariant of its own over the state of the   *)
(* pass, so that a step need only be shown to keep what it touches.            *)
EXTENDS Ring, TLAPS, SequenceTheorems, FiniteSetTheorems

USE RingAssumption

-----------------------------------------------------------------------------
(* The pass, and what a prompt has replaced.                                   *)

\* A token that runs is younger than the last prompt; a prompt that runs is the
\* last prompt from its first layer on.
PassOK ==
    /\ pass \in Passes
    /\ prompt \in 0 .. MaxPass
    /\ prompt <= pass.label
    /\ pass.running => pass.at < N /\ pass.label \in Labels
    /\ pass.running /\ pass.kind # "prefill" => prompt < pass.label
    /\ pass.running /\ pass.kind = "prefill" /\ pass.at > 0 => prompt = pass.label

LEMMA BeginPass ==
  ASSUME PassOK, NEW kind \in Kinds, Begin(kind)
  PROVE  /\ pass' \in Passes /\ pass'.running /\ pass'.at = 0 /\ pass'.kind = kind
         /\ pass'.label = pass.label + 1 /\ pass'.label \in Labels /\ ~pass.running
  BY DEF PassOK, Begin, Passes, Labels

LEMMA OnwardPass ==
  ASSUME PassOK, pass.running, Onward
  PROVE  /\ pass' \in Passes /\ pass'.running = (pass.at + 1 < N) /\ pass'.at = pass.at + 1
         /\ pass'.kind = pass.kind /\ pass'.label = pass.label
<1>1. pass' = [pass EXCEPT !.at = @ + 1, !.running = (pass.at + 1 < N)]
  BY DEF Onward, Here
<1>2. (pass.at + 1 < N) \in BOOLEAN /\ pass.at + 1 \in 0 .. N
  BY DEF PassOK, Passes
<1> QED
  BY <1>1, <1>2 DEF PassOK, Passes

LEMMA StopsPass ==
  ASSUME PassOK, Stops
  PROVE  /\ pass' \in Passes /\ ~pass'.running /\ pass'.at = pass.at
         /\ pass'.kind = pass.kind /\ pass'.label = pass.label
  BY DEF PassOK, Stops, Passes

LEMMA PassInit == Init => PassOK
  BY DEF Init, PassOK, Passes, Kinds, Never

LEMMA PassStep == PassOK /\ [Next]_vars => PassOK'
<1> SUFFICES ASSUME PassOK, [Next]_vars PROVE PassOK'
  OBVIOUS
<1>1. CASE StartPrefill
  <2>1. Begin("prefill") /\ prompt' = prompt
    BY <1>1 DEF StartPrefill
  <2>2. "prefill" \in Kinds
    BY DEF Kinds
  <2> QED
    BY <2>1, <2>2, BeginPass DEF PassOK, Passes
<1>2. CASE StartToken
  <2>1. PICK kind \in {"decode", "flow"} : Begin(kind) /\ prompt' = prompt
    BY <1>2 DEF StartToken
  <2>2. kind \in Kinds /\ kind # "prefill"
    BY DEF Kinds
  <2> QED
    BY <2>1, <2>2, BeginPass DEF PassOK, Passes
<1>3. CASE Abandon \/ DecodeReadFails
  BY <1>3, StopsPass DEF Abandon, DecodeReadFails, PassOK
<1>4. CASE DecodeLayer \/ FlowLayer
  <2>1. pass.running /\ pass.kind # "prefill" /\ Onward /\ prompt' = prompt
    BY <1>4 DEF DecodeLayer, FlowLayer, Running
  <2> QED
    BY <2>1, OnwardPass DEF PassOK, Passes
<1>5. CASE PrefillReadFails
  <2>1. Stops /\ prompt' = pass.label
    BY <1>5 DEF PrefillReadFails, Entered, Now
  <2> QED
    BY <2>1, StopsPass DEF PassOK, Passes
<1>6. CASE PrefillLayer
  <2>1. Onward /\ prompt' = pass.label /\ pass.running /\ pass.kind = "prefill"
    BY <1>6 DEF PrefillLayer, Entered, Now, Running
  <2> QED
    BY <2>1, OnwardPass DEF PassOK, Passes
<1>7. CASE PrefillEnds
  <2>1. Onward /\ prompt' = prompt /\ pass.running /\ pass.kind = "prefill" /\ pass.at + 1 = N
    BY <1>7 DEF PrefillEnds, Running, Last, Here
  <2> QED
    BY <2>1, OnwardPass DEF PassOK, Passes
<1>8. CASE UNCHANGED vars
  BY <1>8 DEF vars, PassOK
<1> QED
  BY <1>1, <1>2, <1>3, <1>4, <1>5, <1>6, <1>7, <1>8 DEF Next

\* Routing, in the order it was noted.
Notes == Seq(Layers \X Labels)

YoungNotes(rs, p) == \A i \in DOMAIN rs : rs[i][2] > p

YoungDemand(d, p) == \A l \in Layers : d[l] # Never => d[l] > p

YoungToken(t, p) == YoungDemand(t.demand, p) /\ YoungNotes(t.cur, p)

\* NothingFromBeforePrefill with the types it needs.
HeldInv ==
    /\ token \in Tokens /\ recs \in Notes
    /\ pending # Nothing => pending.label > prompt
    /\ YoungToken(token, prompt)
    /\ YoungNotes(recs, prompt)

LEMMA AppendYoung ==
  ASSUME NEW rs \in Notes, NEW p \in 0 .. MaxPass, YoungNotes(rs, p),
         NEW l \in Layers, NEW label \in Labels, label > p
  PROVE  Append(rs, <<l, label>>) \in Notes /\ YoungNotes(Append(rs, <<l, label>>), p)
<1>1. <<l, label>> \in Layers \X Labels /\ <<l, label>>[2] = label
  OBVIOUS
<1> DEFINE e == <<l, label>>
<1>2. e \in Layers \X Labels /\ e[2] = label
  BY <1>1
<1> HIDE DEF e
<1>3. Append(rs, e) \in Notes /\ YoungNotes(Append(rs, e), p)
  BY <1>2 DEF Notes, YoungNotes
<1> QED
  BY <1>3 DEF e

LEMMA ConcatYoung ==
  ASSUME NEW rs \in Notes, NEW qs \in Notes, NEW p \in 0 .. MaxPass,
         YoungNotes(rs, p), YoungNotes(qs, p)
  PROVE  rs \o qs \in Notes /\ YoungNotes(rs \o qs, p)
<1> DEFINE S == Layers \X Labels
<1>1. rs \in Seq(S) /\ qs \in Seq(S)
  BY DEF Notes
<1> HIDE DEF S
<1>2. rs \o qs \in Seq(S)
  BY <1>1
<1>3. YoungNotes(rs \o qs, p)
  <2> SUFFICES ASSUME NEW i \in DOMAIN (rs \o qs) PROVE (rs \o qs)[i][2] > p
    BY DEF YoungNotes
  <2>1. CASE i <= Len(rs)
    BY <1>1, <2>1 DEF YoungNotes
  <2>2. CASE i > Len(rs)
    <3>1. (rs \o qs)[i] = qs[i - Len(rs)] /\ i - Len(rs) \in DOMAIN qs
      BY <1>1, <2>2
    <3> QED
      BY <3>1 DEF YoungNotes
  <2> QED
    BY <1>1, <2>1, <2>2
<1> QED
  BY <1>2, <1>3 DEF Notes, S

LEMMA NoteYoung ==
  ASSUME NEW t \in Tokens, NEW p \in 0 .. MaxPass, YoungToken(t, p),
         NEW l \in Layers, NEW label \in Labels, label > p
  PROVE  Note(t, l, label) \in Tokens /\ YoungToken(Note(t, l, label), p)
<1> DEFINE d == [t.demand EXCEPT ![l] = label]
           c == Append(t.cur, <<l, label>>)
<1>1. t.demand \in [Layers -> 0 .. MaxPass] /\ t.cur \in Notes
  BY DEF Tokens, Notes
<1>2. d \in [Layers -> 0 .. MaxPass] /\ YoungDemand(d, p)
  BY <1>1 DEF YoungToken, YoungDemand, Labels
<1>3. c \in Notes /\ YoungNotes(c, p)
  BY <1>1, AppendYoung DEF YoungToken
<1>4. Note(t, l, label) = [t EXCEPT !.open = TRUE, !.demand = d, !.cur = c]
  BY DEF Note, Tokens
<1> HIDE DEF d, c
<1> QED
  BY <1>2, <1>3, <1>4 DEF Tokens, Notes, YoungToken

LEMMA NoDemandYoung ==
  ASSUME NEW p
  PROVE  NoDemand \in [Layers -> 0 .. MaxPass] /\ YoungDemand(NoDemand, p)
  BY DEF NoDemand, YoungDemand, Never

\* A token that is closed keeps what the residency head buffers, or nothing.
LEMMA EndYoung ==
  ASSUME NEW t, NEW p, t.cur \in Notes, YoungNotes(t.cur, p), EndToken(t)
  PROVE  token' \in Tokens /\ YoungToken(token', p)
<1>1. token' = [open |-> FALSE, demand |-> NoDemand,
                cur |-> IF t.demand = NoDemand THEN t.cur ELSE <<>>]
  BY DEF EndToken
<1>2. <<>> \in Notes /\ YoungNotes(<<>>, p)
  BY DEF Notes, YoungNotes
<1> QED
  BY <1>1, <1>2, NoDemandYoung DEF Tokens, Notes, YoungToken

LEMMA EnteredYoung ==
  ASSUME PassOK, HeldInv, pass.running, pass.kind = "prefill", NEW big, Entered(big)
  PROVE  HeldInv'
<1>1. prompt' = pass.label /\ pending' = Nothing /\ recs' = <<>>
  BY DEF Entered, Now
<1>2. <<>> \in Notes /\ YoungNotes(<<>>, prompt')
  BY DEF Notes, YoungNotes
<1>3. token' \in Tokens /\ YoungToken(token', prompt')
  <2>1. CASE pass.at = 0
    <3>1. token' = [token EXCEPT !.demand = NoDemand, !.cur = <<>>]
      BY <2>1 DEF Entered, Here, DropToken
    <3> QED
      BY <3>1, <1>2, NoDemandYoung DEF HeldInv, Tokens, Notes, YoungToken
  <2>2. CASE pass.at # 0
    <3>1. prompt' = prompt /\ token' = token
      BY <1>1, <2>2 DEF Entered, Here, PassOK, Passes
    <3> QED
      BY <3>1 DEF HeldInv
  <2> QED
    BY <2>1, <2>2
<1> QED
  BY <1>1, <1>2, <1>3 DEF HeldInv

LEMMA HeldInit == Init => HeldInv
<1> SUFFICES ASSUME Init PROVE HeldInv
  OBVIOUS
<1>1. token = [open |-> FALSE, demand |-> NoDemand, cur |-> <<>>]
      /\ recs = <<>> /\ pending = Nothing
  BY DEF Init
<1>2. <<>> \in Notes /\ YoungNotes(<<>>, prompt)
  BY DEF Notes, YoungNotes
<1> QED
  BY <1>1, <1>2, NoDemandYoung DEF HeldInv, Tokens, Notes, YoungToken

\* What an ordinary layer notes is of this pass.
LEMMA HereYoung ==
  ASSUME PassOK, HeldInv, pass.running, pass.kind # "prefill"
  PROVE  /\ pass.label \in Labels /\ pass.at \in Layers /\ prompt \in 0 .. MaxPass
         /\ pass.label > prompt
         /\ Note(token, pass.at, pass.label) \in Tokens
         /\ YoungToken(Note(token, pass.at, pass.label), prompt)
<1>1. /\ pass.label \in Labels /\ pass.at \in Layers /\ prompt \in 0 .. MaxPass
      /\ pass.label > prompt
  BY DEF PassOK, Passes, Layers, Labels
<1> QED
  BY <1>1, NoteYoung DEF HeldInv

LEMMA HeldStep == PassOK /\ HeldInv /\ [Next]_vars => HeldInv'
<1> SUFFICES ASSUME PassOK, HeldInv, [Next]_vars PROVE HeldInv'
  OBVIOUS
<1>1. CASE StartPrefill \/ StartToken \/ Abandon \/ UNCHANGED vars
  <2>1. UNCHANGED <<token, recs, prompt>> /\ (pending' = pending \/ pending' = Nothing)
    BY <1>1 DEF StartPrefill, StartToken, Abandon, ring, sidecar, vars
  <2> QED
    BY <2>1 DEF HeldInv
<1>2. CASE DecodeReadFails
  <2>1. token' = Note(token, pass.at, pass.label) /\ UNCHANGED <<pending, recs, prompt>>
    BY <1>2 DEF DecodeReadFails, Here, Now
  <2>2. pass.running /\ pass.kind # "prefill"
    BY <1>2 DEF DecodeReadFails, Running
  <2> QED
    BY <2>1, <2>2, HereYoung DEF HeldInv
<1>3. CASE DecodeLayer
  <2>1. pass.running /\ pass.kind # "prefill" /\ UNCHANGED <<recs, prompt>>
    BY <1>3 DEF DecodeLayer, Running
  <2>2. pending' # Nothing => pending'.label = pass.label
    <3>1. PICK d : pending' = Nothing \/ pending' = Predict(Here, d)
      BY <1>3 DEF DecodeLayer
    <3> QED
      BY <3>1 DEF Predict, Now
  <2>3. token' \in Tokens /\ YoungToken(token', prompt)
    <3> DEFINE t == Note(token, pass.at, pass.label)
    <3>1. token' = t \/ EndToken(t)
      BY <1>3 DEF DecodeLayer, Here, Now
    <3>2. t \in Tokens /\ YoungToken(t, prompt)
      BY <2>1, HereYoung
    <3> HIDE DEF t
    <3>3. t.cur \in Notes /\ YoungNotes(t.cur, prompt)
      BY <3>2 DEF Tokens, Notes, YoungToken
    <3> QED
      BY <3>1, <3>2, <3>3, EndYoung
  <2> QED
    BY <2>1, <2>2, <2>3, HereYoung DEF HeldInv
<1>4. CASE FlowLayer
  <2>1. pass.running /\ pass.kind # "prefill" /\ UNCHANGED <<pending, prompt>>
    BY <1>4 DEF FlowLayer, Running
  <2>2. /\ pass.label \in Labels /\ pass.at \in Layers /\ prompt \in 0 .. MaxPass
        /\ pass.label > prompt
    BY <2>1, HereYoung
  <2>3. recs' \in Notes /\ YoungNotes(recs', prompt)
    <3>1. CASE pass.at = 0
      <4>1. recs' = Append(<<>>, <<pass.at, pass.label>>)
        BY <1>4, <3>1 DEF FlowLayer, Pump, Here, Now
      <4>2. <<>> \in Notes /\ YoungNotes(<<>>, prompt)
        BY DEF Notes, YoungNotes
      <4> QED
        BY <4>1, <4>2, <2>2, AppendYoung
    <3>2. CASE pass.at # 0
      <4>1. recs' = Append(recs, <<pass.at, pass.label>>)
        BY <1>4, <3>2 DEF FlowLayer, Here, Now
      <4> QED
        BY <4>1, <2>2, AppendYoung DEF HeldInv
    <3> QED
      BY <3>1, <3>2
  <2>4. token' \in Tokens /\ YoungToken(token', prompt)
    <3>1. CASE token' = token
      BY <3>1 DEF HeldInv
    <3>2. CASE EndToken(NoteAll(token, recs))
      <4> DEFINE t == NoteAll(token, recs)
      <4>1. token.cur \in Notes /\ YoungNotes(token.cur, prompt)
        BY DEF HeldInv, Tokens, Notes, YoungToken
      <4>2. t.cur = token.cur \o recs
        BY DEF NoteAll, HeldInv, Tokens
      <4>3. t.cur \in Notes /\ YoungNotes(t.cur, prompt)
        BY <4>1, <4>2, <2>2, ConcatYoung DEF HeldInv
      <4> HIDE DEF t
      <4> QED
        BY <3>2, <4>3, EndYoung DEF t
    <3> QED
      BY <1>4, <3>1, <3>2 DEF FlowLayer, Pump, sidecar
  <2> QED
    BY <2>1, <2>3, <2>4 DEF HeldInv
<1>5. CASE PrefillReadFails
  <2>1. PICK big \in Sizes : Entered(big)
    BY <1>5 DEF PrefillReadFails
  <2> QED
    BY <1>5, <2>1, EnteredYoung DEF PrefillReadFails, Running
<1>6. CASE PrefillLayer
  <2>1. PICK big \in Sizes : Entered(big)
    BY <1>6 DEF PrefillLayer
  <2> QED
    BY <1>6, <2>1, EnteredYoung DEF PrefillLayer, Running
<1>7. CASE PrefillEnds
  <2>1. <<>> \in Notes /\ YoungNotes(<<>>, prompt)
    BY DEF Notes, YoungNotes
  <2> QED
    BY <1>7, <2>1 DEF PrefillEnds, HeldInv
<1> QED
  BY <1>1, <1>2, <1>3, <1>4, <1>5, <1>6, <1>7 DEF Next

\* From a prompt's first layer on (drop_pending, flow_drop, drop_token) no prediction
\* waiting for its sync, no flow routing and no demand is older than the prompt.
THEOREM PromptReplacesRouting == Spec => []NothingFromBeforePrefill
<1>1. HeldInv => NothingFromBeforePrefill
  BY DEF HeldInv, YoungToken, YoungDemand, YoungNotes, NothingFromBeforePrefill
<1>2. Init => PassOK /\ HeldInv
  BY PassInit, HeldInit
<1>3. PassOK /\ HeldInv /\ [Next]_vars => (PassOK /\ HeldInv)'
  BY PassStep, HeldStep
<1> QED
  BY <1>1, <1>2, <1>3, PTL DEF Spec

-----------------------------------------------------------------------------
(* The window of the prefill head.                                             *)

\* What a window has counted before layer k of the prompt with this label.
Prefix(k, label) == [l \in 0 .. Heads - 1 |-> IF l < k THEN {label} ELSE {}]

Windowed(c) == \A f \in {"active", "counts", "left", "waiting", "hot"} : f \in DOMAIN c

\* The window is open, has seen the layers before k of this prompt and no warm-up
\* has used it up.
Counting(c, k, label) ==
    /\ Windowed(c) /\ c.waiting \in BOOLEAN
    /\ c.left = FALSE /\ c.active = TRUE
    /\ c.counts = Prefix(k, label)

\* A prompt that runs has an open window with its own experts only; no warm-up
\* waits once the slab has been warmed.
WindowInv ==
    /\ Windowed(chunk)
    /\ chunk.left \in BOOLEAN /\ chunk.waiting \in BOOLEAN
    /\ pass.running /\ pass.kind = "prefill" /\ pass.at > 0 =>
         Counting(chunk, pass.at, pass.label)
    /\ WarmedOnce
    /\ ChunkWhole

\* A layer adds its own experts to the window.
LEMMA NoteNext ==
  ASSUME NEW c, NEW k \in Nat, NEW label, Counting(c, k, label)
  PROVE  Counting(NoteChunk(c, k, label), k + 1, label)
<1>1. CASE k < Heads
  <2> DEFINE n == [Prefix(k, label) EXCEPT ![k] = @ \cup {label}]
  <2>1. k \in 0 .. Heads - 1
    BY <1>1
  <2>2. n = Prefix(k + 1, label)
    <3>1. n = [l \in 0 .. Heads - 1 |-> n[l]]
      BY DEF Prefix
    <3>2. ASSUME NEW l \in 0 .. Heads - 1 PROVE n[l] = Prefix(k + 1, label)[l]
      <4>1. CASE l = k
        BY <4>1 DEF Prefix
      <4>2. CASE l # k
        <5>1. n[l] = Prefix(k, label)[l]
          BY <4>2 DEF Prefix
        <5>2. l < k <=> l < k + 1
          BY <4>2
        <5> QED
          BY <5>1, <5>2 DEF Prefix
      <4> QED
        BY <4>1, <4>2
    <3> HIDE DEF n
    <3> QED
      BY <3>1, <3>2 DEF Prefix
  <2>3. NoteChunk(c, k, label) = [c EXCEPT !.counts = n]
    BY <1>1 DEF NoteChunk, Counting
  <2> HIDE DEF n
  <2> QED
    BY <2>2, <2>3 DEF Windowed, Counting
<1>2. CASE ~(k < Heads)
  <2>1. NoteChunk(c, k, label) = c
    BY <1>2 DEF NoteChunk
  <2>2. Prefix(k, label) = Prefix(k + 1, label)
    BY <1>2 DEF Prefix
  <2> QED
    BY <2>1, <2>2 DEF Counting
<1> QED
  BY <1>1, <1>2

LEMMA EnteredWindow ==
  ASSUME PassOK, WindowInv, pass.running, pass.kind = "prefill", NEW big, Entered(big)
  PROVE  Counting(chunk', pass.at + 1, pass.label)
<1> DEFINE c == IF Here = 0 THEN BeginChunk(AbortChunk(chunk)) ELSE chunk
<1>1. chunk' = NoteChunk(c, pass.at, pass.label)
  BY DEF Entered, Here, Now
<1>2. Counting(c, pass.at, pass.label)
  <2>1. CASE pass.at = 0
    <3> DEFINE a == AbortChunk(chunk)
    <3>1. Windowed(a) /\ a.waiting \in BOOLEAN
      BY DEF AbortChunk, WindowInv, Windowed
    <3>2. c = BeginChunk(a)
      BY <2>1 DEF Here
    <3> HIDE DEF a
    <3>3. NoCounts = Prefix(pass.at, pass.label)
      BY <2>1 DEF NoCounts, Prefix
    <3>4. (a.waiting /\ a.hot = NoCounts) \in BOOLEAN
      BY <3>1
    <3> HIDE DEF c
    <3> QED
      BY <3>1, <3>2, <3>3, <3>4 DEF BeginChunk, Windowed, Counting
  <2>2. CASE pass.at # 0
    <3>1. c = chunk /\ pass.at > 0
      BY <2>2 DEF Here, PassOK, Passes
    <3> HIDE DEF c
    <3> QED
      BY <3>1 DEF WindowInv
  <2> QED
    BY <2>1, <2>2
<1> HIDE DEF c
<1>3. pass.at \in Nat
  BY DEF PassOK, Passes
<1> QED
  BY <1>1, <1>2, <1>3, NoteNext

LEMMA WindowInit == Init => WindowInv
<1> SUFFICES ASSUME Init PROVE WindowInv
  OBVIOUS
<1>1. chunk = [active |-> FALSE, counts |-> NoCounts, left |-> TRUE, waiting |-> FALSE,
               hot |-> NoCounts]
      /\ pass = [kind |-> "prefill", label |-> 0, at |-> N, running |-> FALSE]
  BY DEF Init
<1>2. ~pass.running /\ pass.label = 0
  BY <1>1
<1>3. Windowed(chunk) /\ chunk.left = TRUE /\ chunk.waiting = FALSE
  BY <1>1 DEF Windowed
<1> QED
  BY <1>2, <1>3 DEF WindowInv, WarmedOnce, ChunkWhole, Now, Never

\* A step of a pass that is not a prompt leaves no finished prompt behind it, and
\* at most ends a token.
LEMMA WarmedWindow ==
  ASSUME WindowInv, chunk' = chunk \/ chunk' = Warmed(chunk)
  PROVE  /\ Windowed(chunk') /\ chunk'.left \in BOOLEAN /\ chunk'.waiting \in BOOLEAN
         /\ chunk'.left => ~chunk'.waiting
  BY DEF Warmed, WindowInv, Windowed, WarmedOnce

LEMMA WindowStep == PassOK /\ WindowInv /\ [Next]_vars => WindowInv'
<1> SUFFICES ASSUME PassOK, WindowInv, [Next]_vars PROVE WindowInv'
  OBVIOUS
<1>1. CASE StartPrefill \/ StartToken
  <2>1. PICK kind \in Kinds : Begin(kind)
    BY <1>1 DEF StartPrefill, StartToken, Kinds
  <2>2. chunk' = chunk
    BY <1>1 DEF StartPrefill, StartToken, sidecar
  <2>3. pass'.running /\ pass'.at = 0
    BY <2>1, BeginPass
  <2> QED
    BY <2>2, <2>3 DEF WindowInv, WarmedOnce, ChunkWhole
<1>2. CASE Abandon
  <2>1. pass.running /\ Stops /\ chunk' = chunk
    BY <1>2 DEF Abandon, sidecar
  <2>2. ~pass'.running /\ pass'.at # N
    BY <2>1, StopsPass DEF PassOK, Passes
  <2> QED
    BY <2>1, <2>2 DEF WindowInv, WarmedOnce, ChunkWhole, Here
<1>3. CASE DecodeReadFails \/ DecodeLayer \/ FlowLayer
  <2>1. pass.running /\ pass.kind # "prefill" /\ (Stops \/ Onward)
    BY <1>3 DEF DecodeReadFails, DecodeLayer, FlowLayer, Running
  <2>2. pass'.kind = pass.kind
    BY <2>1, StopsPass, OnwardPass
  <2>3. chunk' = chunk \/ chunk' = Warmed(chunk)
    BY <1>3 DEF DecodeReadFails, DecodeLayer, FlowLayer, Pump, EndToken, sidecar
  <2> QED
    BY <2>1, <2>2, <2>3, WarmedWindow DEF WindowInv, WarmedOnce, ChunkWhole
<1>4. CASE PrefillReadFails
  <2>1. PICK big \in Sizes : Entered(big)
    BY <1>4 DEF PrefillReadFails
  <2>2. pass.running /\ pass.kind = "prefill" /\ Stops
    BY <1>4 DEF PrefillReadFails, Running
  <2>3. ~pass'.running /\ pass'.at # N
    BY <2>2, StopsPass DEF PassOK, Passes
  <2>4. Windowed(chunk') /\ chunk'.left = FALSE /\ chunk'.waiting \in BOOLEAN
    BY <2>1, <2>2, EnteredWindow DEF Counting
  <2> QED
    BY <2>3, <2>4 DEF WindowInv, WarmedOnce, ChunkWhole, Here
<1>5. CASE PrefillLayer
  <2>1. PICK big \in Sizes : Entered(big)
    BY <1>5 DEF PrefillLayer
  <2>2. pass.running /\ pass.kind = "prefill" /\ Onward /\ pass.at + 1 # N
    BY <1>5 DEF PrefillLayer, Running, Last, Here
  <2>3. pass'.at = pass.at + 1 /\ pass'.label = pass.label /\ pass'.at # N
    BY <2>2, OnwardPass
  <2>4. /\ Windowed(chunk') /\ chunk'.left = FALSE /\ chunk'.waiting \in BOOLEAN
        /\ chunk'.active = TRUE /\ chunk'.counts = Prefix(pass'.at, pass'.label)
    BY <2>1, <2>2, <2>3, EnteredWindow DEF Counting
  <2> QED
    BY <2>3, <2>4 DEF WindowInv, WarmedOnce, ChunkWhole, Here, Counting
<1>6. CASE PrefillEnds
  <2> DEFINE c == NoteChunk(chunk, pass.at, pass.label)
  <2>1. /\ pass.running /\ pass.kind = "prefill" /\ Onward /\ pass.at + 1 = N /\ pass.at > 0
        /\ chunk' = EndChunk(c)
    BY <1>6 DEF PrefillEnds, Running, Last, Here, Now, PassOK, Passes
  <2>2. Counting(chunk, pass.at, pass.label)
    BY <2>1 DEF WindowInv
  <2>3. Counting(c, N, pass.label)
    <3>1. pass.at \in Nat /\ pass.at + 1 = N
      BY <2>1 DEF PassOK, Passes
    <3>2. Counting(c, pass.at + 1, pass.label)
      BY <2>2, <3>1, NoteNext
    <3> QED
      BY <3>1, <3>2
  <2> HIDE DEF c
  <2>4. /\ Windowed(chunk') /\ chunk'.left = FALSE /\ chunk'.waiting = TRUE
        /\ chunk'.hot = Prefix(N, pass.label)
    BY <2>1, <2>3 DEF EndChunk, Windowed, Counting
  <2>5. Prefix(N, pass.label) = [l \in 0 .. Heads - 1 |-> {pass.label}]
    BY DEF Prefix
  <2>6. ~pass'.running /\ pass'.label = pass.label
    <3>1. ~(pass.at + 1 < N)
      BY <2>1
    <3> QED
      BY <2>1, <3>1, OnwardPass
  <2> QED
    BY <2>4, <2>5, <2>6 DEF WindowInv, WarmedOnce, ChunkWhole, Now
<1>7. CASE UNCHANGED vars
  BY <1>7 DEF vars, sidecar, WindowInv, WarmedOnce, ChunkWhole, Here, Now
<1> QED
  BY <1>1, <1>2, <1>3, <1>4, <1>5, <1>6, <1>7 DEF Next

LEMMA WindowAlways == Spec => [](PassOK /\ WindowInv)
<1>1. Init => PassOK /\ WindowInv
  BY PassInit, WindowInit
<1>2. PassOK /\ WindowInv /\ [Next]_vars => (PassOK /\ WindowInv)'
  BY PassStep, WindowStep
<1> QED
  BY <1>1, <1>2, PTL DEF Spec

\* end_prefill_chunk asks for one warm-up and the first token after it uses it
\* up: none is left for a later token (end_token, warm_slab_for_decode).
THEOREM WarmUpHappensOnce == Spec => []WarmedOnce
<1>1. WindowInv => WarmedOnce
  BY DEF WindowInv
<1> QED
  BY <1>1, WindowAlways, PTL

\* A prompt that reached its last layer leaves its own experts, and no other
\* prompt's, as the set to warm, whatever was abandoned before it.
THEOREM WindowIsOfOnePrompt == Spec => []ChunkWhole
<1>1. WindowInv => ChunkWhole
  BY DEF WindowInv
<1> QED
  BY <1>1, WindowAlways, PTL

-----------------------------------------------------------------------------
(* Predictions.                                                                *)

\* What is predicted for the layers before k has been compared with demand.
ComparedBefore(k) == \A l \in Layers : l < k => predicted[l] = {}

\* A prediction is for layers at least two ahead, so that the next layer, which
\* hands it over, is before all of them.
PredictInv ==
    /\ depth \in {0, Depth}
    /\ predicted \in [Layers -> SUBSET Labels]
    /\ pending = Nothing \/ pending.label \in Labels
    /\ \A l \in pending.targets : l \in Layers /\ l > 1
    /\ pass.kind # "flow" => ComparedBefore(pass.at)
    /\ pass.running /\ pass.kind = "decode" => \A l \in pending.targets : l > pass.at
    /\ NoLeftovers

LEMMA PredictAhead ==
  ASSUME PassOK, pass.running, NEW d \in {0, Depth}
  PROVE  /\ \A l \in Predict(pass.at, d).targets : l \in Layers /\ l > pass.at + 1
         /\ Predict(pass.at, d) = Nothing \/ Predict(pass.at, d).label \in Labels
         /\ pass.at + 1 = N => Predict(pass.at, d) = Nothing
<1>1. pass.at \in Nat /\ pass.at < N /\ pass.label \in Labels /\ d \in Nat
  BY DEF PassOK, Passes
<1>2. ASSUME NEW k \in Distances(pass.at, d)
      PROVE  k \in Nat /\ k >= 2 /\ pass.at + k < N
  BY <1>1 DEF Distances
<1>3. pass.at + 1 = N => Distances(pass.at, d) = {}
  BY <1>1, <1>2
<1>4. Nothing.targets = {}
  BY DEF Nothing
<1>5. CASE Predict(pass.at, d) = Nothing
  BY <1>4, <1>5
<1>6. CASE Predict(pass.at, d) # Nothing
  <2>1. /\ Predict(pass.at, d) =
             [label |-> pass.label, targets |-> { pass.at + k : k \in Distances(pass.at, d) }]
        /\ Distances(pass.at, d) # {}
    BY <1>6 DEF Predict, Now
  <2>2. \A l \in Predict(pass.at, d).targets :
          \E k \in Distances(pass.at, d) : l = pass.at + k
    BY <2>1
  <2>3. \A l \in Predict(pass.at, d).targets : l \in Layers /\ l > pass.at + 1
    BY <2>2, <1>1, <1>2 DEF Layers
  <2>4. Predict(pass.at, d).label = pass.label
    BY <2>1
  <2> QED
    BY <2>1, <2>3, <2>4, <1>1, <1>3
<1> QED
  BY <1>5, <1>6

LEMMA CountedBefore ==
  ASSUME PassOK, PredictInv, pass.running, pass.kind # "flow"
  PROVE  /\ Counted \in [Layers -> SUBSET Labels]
         /\ \A l \in Layers : l < pass.at + 1 => Counted[l] = {}
  BY DEF Counted, PredictInv, ComparedBefore, PassOK, Passes, Layers, Here

LEMMA FlushedBefore ==
  ASSUME PassOK, PredictInv, pass.running, pass.kind = "decode",
         NEW shown \in [Layers -> SUBSET Labels],
         \A l \in Layers : l < pass.at + 1 => shown[l] = {}
  PROVE  /\ Flushed(shown) \in [Layers -> SUBSET Labels]
         /\ \A l \in Layers : l < pass.at + 1 => Flushed(shown)[l] = {}
<1>1. \A l \in Layers : l < pass.at + 1 => l \notin pending.targets
  BY DEF PredictInv, PassOK, Passes, Layers
<1>2. \A l \in pending.targets : pending.label \in Labels
  <2>1. Nothing.targets = {}
    BY DEF Nothing
  <2> QED
    BY <2>1 DEF PredictInv
<1>3. Flushed(shown) \in [Layers -> SUBSET Labels]
  BY <1>2 DEF Flushed
<1> QED
  BY <1>1, <1>3 DEF Flushed

LEMMA PredictInit == Init => PredictInv
<1> SUFFICES ASSUME Init PROVE PredictInv
  OBVIOUS
<1>1. ~pass.running /\ pending.targets = {} /\ pending = Nothing
  BY DEF Init, Nothing
<1> QED
  BY <1>1 DEF Init, PredictInv, NoLeftovers, ComparedBefore

\* A layer that has been through: what it stands for in the invariant.
LEMMA LayerDone ==
  ASSUME PassOK, pass.running, pass.kind # "flow", Onward,
         depth' \in {0, Depth},
         predicted' \in [Layers -> SUBSET Labels],
         \A l \in Layers : l < pass.at + 1 => predicted'[l] = {},
         pending' = Nothing \/ pending'.label \in Labels,
         \A l \in pending'.targets : l \in Layers /\ l > pass.at + 1,
         pass.at + 1 = N => pending' = Nothing
  PROVE  PredictInv'
<1>1. /\ pass'.at = pass.at + 1 /\ pass'.kind = pass.kind /\ pass.at \in Nat
      /\ pass'.running = (pass.at + 1 < N)
  BY OnwardPass DEF PassOK, Passes
<1>2. \A l \in pending'.targets : l \in Layers /\ l > 1 /\ l > pass'.at
  BY <1>1 DEF Layers
<1>3. ComparedBefore(pass.at)'
  BY <1>1 DEF ComparedBefore
<1>4. NoLeftovers'
  BY <1>1, <1>2 DEF NoLeftovers, Here, Layers
<1> QED
  BY <1>1, <1>2, <1>3, <1>4 DEF PredictInv, ComparedBefore

LEMMA PredictStep == PassOK /\ PredictInv /\ [Next]_vars => PredictInv'
<1> SUFFICES ASSUME PassOK, PredictInv, [Next]_vars PROVE PredictInv'
  OBVIOUS
<1>0. Nothing.targets = {}
  BY DEF Nothing
<1>1. CASE StartPrefill \/ StartToken
  <2>1. PICK kind \in Kinds : Begin(kind)
    BY <1>1 DEF StartPrefill, StartToken, Kinds
  <2>2. UNCHANGED <<depth, predicted>> /\ (pending' = pending \/ pending' = Nothing)
    BY <1>1 DEF StartPrefill, StartToken, ring
  <2>3. pass'.running /\ pass'.at = 0
    BY <2>1, BeginPass
  <2>4. ComparedBefore(pass.at)'
    BY <2>3 DEF ComparedBefore, Layers
  <2>5. \A l \in pending'.targets : l \in Layers /\ l > 1 /\ l > pass'.at
    BY <1>0, <2>2, <2>3 DEF PredictInv, Layers
  <2>6. NoLeftovers'
    BY <2>3 DEF NoLeftovers, Here, Layers
  <2> QED
    BY <2>2, <2>3, <2>4, <2>5, <2>6 DEF PredictInv
<1>2. CASE Abandon
  <2>1. pass.running /\ Stops /\ UNCHANGED <<depth, predicted, pending>>
    BY <1>2 DEF Abandon, ring
  <2>2. ~pass'.running /\ pass'.at = pass.at /\ pass'.kind = pass.kind
    BY <2>1, StopsPass
  <2> QED
    BY <2>1, <2>2 DEF PredictInv, ComparedBefore, NoLeftovers, Here
<1>3. CASE DecodeReadFails
  <2>1. /\ pass.running /\ pass.kind = "decode" /\ Stops
        /\ UNCHANGED <<depth, pending>> /\ predicted' = Counted
    BY <1>3 DEF DecodeReadFails, Running
  <2>2. ~pass'.running /\ pass'.at = pass.at /\ pass'.kind = pass.kind /\ pass.at \in Nat
    BY <2>1, StopsPass DEF PassOK, Passes
  <2>3. /\ Counted \in [Layers -> SUBSET Labels]
        /\ \A l \in Layers : l < pass.at => Counted[l] = {}
    BY <2>1, <2>2, CountedBefore DEF Layers
  <2>4. \A l \in Layers : l < pass.at => predicted'[l] = {} /\ l \notin pending'.targets
    BY <2>1, <2>2, <2>3 DEF PredictInv, Layers
  <2> QED
    BY <2>1, <2>2, <2>3, <2>4 DEF PredictInv, ComparedBefore, NoLeftovers, Here
<1>4. CASE DecodeLayer
  <2>1. pass.running /\ pass.kind = "decode" /\ Onward
    BY <1>4 DEF DecodeLayer, Running
  <2>2. PICK fails \in {"no", "flush", "speculate"}, d \in {0, Depth} :
          /\ predicted' = IF fails = "flush" THEN Counted ELSE Flushed(Counted)
          /\ depth'   = IF fails = "speculate" THEN 0 ELSE d
          /\ pending' = IF fails = "speculate" THEN Nothing ELSE Predict(pass.at, d)
    BY <1>4 DEF DecodeLayer, PredictInv, Here
  <2>3. /\ predicted' \in [Layers -> SUBSET Labels]
        /\ \A l \in Layers : l < pass.at + 1 => predicted'[l] = {}
    BY <2>1, <2>2, CountedBefore, FlushedBefore
  <2>4. /\ \A l \in pending'.targets : l \in Layers /\ l > pass.at + 1
        /\ pending' = Nothing \/ pending'.label \in Labels
        /\ pass.at + 1 = N => pending' = Nothing
    BY <1>0, <2>1, <2>2, PredictAhead
  <2>5. depth' \in {0, Depth}
    BY <2>2
  <2> QED
    BY <2>1, <2>3, <2>4, <2>5, LayerDone
<1>5. CASE FlowLayer
  <2>1. /\ pass.running /\ pass.kind = "flow" /\ Onward
        /\ UNCHANGED <<depth, pending, predicted>>
    BY <1>5 DEF FlowLayer, Running
  <2>2. pass'.kind = "flow"
    BY <2>1, OnwardPass
  <2> QED
    BY <2>1, <2>2 DEF PredictInv, NoLeftovers
<1>6. CASE PrefillReadFails
  <2>1. pass.running /\ Stops /\ pending' = Nothing /\ UNCHANGED <<depth, predicted>>
    BY <1>6 DEF PrefillReadFails, Entered, Running
  <2>2. ~pass'.running /\ pass'.at = pass.at /\ pass'.kind = pass.kind
    BY <2>1, StopsPass
  <2> QED
    BY <1>0, <2>1, <2>2 DEF PredictInv, ComparedBefore, NoLeftovers, Here
<1>7. CASE PrefillLayer \/ PrefillEnds
  <2>1. /\ pass.running /\ pass.kind = "prefill" /\ Onward
        /\ pending' = Nothing /\ predicted' = Counted /\ depth' = depth
    BY <1>7 DEF PrefillLayer, PrefillEnds, Entered, Running
  <2>2. /\ Counted \in [Layers -> SUBSET Labels]
        /\ \A l \in Layers : l < pass.at + 1 => Counted[l] = {}
    BY <2>1, CountedBefore
  <2>3. depth' \in {0, Depth} /\ pass.kind # "flow"
    BY <2>1 DEF PredictInv
  <2>4. \A l \in pending'.targets : l \in Layers /\ l > pass.at + 1
    BY <1>0, <2>1
  <2> QED
    BY <2>1, <2>2, <2>3, <2>4, LayerDone
<1>8. CASE UNCHANGED vars
  <2>1. UNCHANGED <<pass, depth, predicted, pending>>
    BY <1>8 DEF vars, ring
  <2> QED
    BY <2>1 DEF PredictInv, ComparedBefore, NoLeftovers, Here
<1> QED
  BY <1>1, <1>2, <1>3, <1>4, <1>5, <1>6, <1>7, <1>8 DEF Next

\* A prediction is compared with one demand, that of the first pass through its
\* layer outside flow (speculate, flush, StreamedSwitchGLU): what
\* an abandoned pass leaves is for layers it never reached.
THEOREM PredictionsAreCompared == Spec => []NoLeftovers
<1>1. PredictInv => NoLeftovers
  BY DEF PredictInv
<1>2. Init => PassOK /\ PredictInv
  BY PassInit, PredictInit
<1>3. PassOK /\ PredictInv /\ [Next]_vars => (PassOK /\ PredictInv)'
  BY PassStep, PredictStep
<1> QED
  BY <1>1, <1>2, <1>3, PTL DEF Spec

-----------------------------------------------------------------------------
(* What is learned from the tokens.                                            *)

\* The newest label that can be in the history, and in a token not learned from.
Folded == IF pass.running THEN pass.label - 1 ELSE pass.label
Noted  == IF pass.running /\ pass.at = 0 THEN pass.label - 1 ELSE pass.label

\* Every frame remembered is of some token, and of none after m.
Told(h, m)  == \A i \in 1 .. Len(h) : h[i] # {} /\ Max(h[i]) <= m
InOrder(h)  == \A i, j \in 1 .. Len(h) : i < j => \A y \in h[j] : Max(h[i]) < y
DemandUpTo(d, m) == \A l \in Layers : d[l] <= m
NotesUpTo(rs, m) == \A i \in DOMAIN rs : rs[i][2] <= m

\* A token that is not learned from yet is younger than all that is remembered,
\* and of no pass to come; flow routing waits for the pump only while every token
\* runs under flow, so that no ordinary token is learned from before it.
PastInv ==
    /\ history \in Seq(SUBSET Labels)
    /\ InOrder(history)
    /\ Told(history, Folded)
    /\ DemandUpTo(token.demand, Noted) /\ NotesUpTo(recs, Noted)
    /\ \A i \in 1 .. Len(history) :
         YoungToken(token, Max(history[i])) /\ YoungNotes(recs, Max(history[i]))
    /\ warm \in Nat
    /\ recs # <<>> \/ (pass.running /\ pass.kind = "flow") => slab = "up" /\ warm > Warmup
    /\ pass.running /\ pass.kind = "decode" => recs = <<>>

\* A bounded set of numbers has a greatest.
LEMMA GreatestExists ==
  ASSUME NEW b \in Nat, NEW S \in SUBSET (0 .. b), S # {}
  PROVE  \E x \in S : \A y \in S : x >= y
<1> DEFINE Above(x) == { y \in S : y > x }
           T == { Above(x) : x \in S }
           R == StrictSubsetOrdering(S)
<1>1. IsFiniteSet(S)
  <2>1. 0 \in Int /\ b \in Int
    OBVIOUS
  <2>2. IsFiniteSet(0 .. b)
    BY <2>1, FS_Interval
  <2>3. QED BY <2>2, FS_Subset
<1>2. T \subseteq FiniteSubsetsOf(S) /\ T # {}
  <2>1. \A x \in S : Above(x) \in SUBSET S /\ IsFiniteSet(Above(x))
    BY <1>1, FS_Subset
  <2>2. QED BY <2>1 DEF FiniteSubsetsOf
<1>3. PICK U \in T : \A V \in T : <<V, U>> \notin R
  <2> HIDE DEF T
  <2>1. IsWellFoundedOn(R, FiniteSubsetsOf(S))
    BY FS_StrictSubsetOrderingWellFounded
  <2> HIDE DEF R
  <2>2. \E U \in T : \A V \in T : <<V, U>> \notin R
    BY <1>2, <2>1, WFMin
  <2>3. QED BY <2>2
<1>4. PICK x \in S : U = Above(x)
  BY <1>3
<1>5. \A y \in S : ~(y > x)
  <2> SUFFICES ASSUME NEW y \in S, y > x
               PROVE  FALSE
    OBVIOUS
  <2>0. \A z \in S : z \in Nat
    OBVIOUS
  <2>1. Above(y) \subseteq Above(x) /\ y \in Above(x) /\ y \notin Above(y)
    <3> HIDE DEF T, R
    <3>1. (\A z \in S : z > y => z > x) /\ ~(y > y)
      BY <2>0
    <3>2. Above(y) \subseteq Above(x)
      BY <3>1
    <3>3. y \in Above(x) /\ y \notin Above(y)
      BY <3>1
    <3>4. QED BY <3>2, <3>3
  <2>2. <<Above(y), Above(x)>> \in R
    BY <2>1 DEF StrictSubsetOrdering
  <2>3. QED BY <1>3, <1>4, <2>2
<1>6. QED BY <1>5

LEMMA MaxIs ==
  ASSUME NEW S \in SUBSET Labels, S # {}
  PROVE  Max(S) \in S /\ Max(S) \in Labels /\ \A y \in S : Max(S) >= y
<1>1. S \in SUBSET (0 .. MaxPass) /\ MaxPass \in Nat
  BY DEF Labels
<1>2. \E x \in S : \A y \in S : x >= y
  BY <1>1, GreatestExists
<1> QED
  BY <1>2 DEF Max

\* What is remembered has a label of its own.
LEMMA ToldLabels ==
  ASSUME NEW h \in Seq(SUBSET Labels), NEW m \in Nat, Told(h, m), NEW i \in 1 .. Len(h)
  PROVE  h[i] \in SUBSET Labels /\ h[i] # {} /\ Max(h[i]) \in Labels /\ Max(h[i]) <= m
<1>1. h[i] \in SUBSET Labels
  BY ElementOfSeq
<1> QED
  BY <1>1, MaxIs DEF Told

\* deque.append on a full deque drops the oldest: what is left stays in order.
LEMMA RememberInOrder ==
  ASSUME NEW h \in Seq(SUBSET Labels), NEW m \in Nat, Told(h, m), InOrder(h),
         NEW frame \in SUBSET Labels, frame # {}, Max(frame) <= m,
         \A i \in 1 .. Len(h) : \A y \in frame : Max(h[i]) < y
  PROVE  /\ Remember(h, frame) \in Seq(SUBSET Labels)
         /\ Told(Remember(h, frame), m) /\ InOrder(Remember(h, frame))
<1> DEFINE t == IF Len(h) = Memory THEN Tail(h) ELSE h
           k == IF Len(h) = Memory THEN 1 ELSE 0
<1>1. Len(h) \in Nat /\ (Len(h) = Memory => h # <<>>)
  BY LenProperties, EmptySeq
<1>2. /\ t \in Seq(SUBSET Labels) /\ k \in {0, 1} /\ Len(t) = Len(h) - k
      /\ \A i \in 1 .. Len(t) : t[i] = h[i + k] /\ i + k \in 1 .. Len(h)
  <2>1. CASE Len(h) = Memory
    BY <1>1, <2>1, HeadTailProperties
  <2>2. CASE Len(h) # Memory
    BY <1>1, <2>2
  <2> QED
    BY <2>1, <2>2
<1>3. Remember(h, frame) = Append(t, frame)
  BY DEF Remember
<1> HIDE DEF t, k
<1> DEFINE r == Append(t, frame)
<1>4. /\ r \in Seq(SUBSET Labels) /\ Len(t) \in Nat /\ Len(r) = Len(t) + 1
      /\ \A i \in 1 .. Len(t) : r[i] = t[i]
      /\ r[Len(t) + 1] = frame
  <2>1. Len(t) \in Nat
    BY <1>2, LenProperties
  <2> HIDE DEF r
  <2>2. r = Append(t, frame)
    BY DEF r
  <2> QED
    BY <1>2, <2>1, <2>2, AppendProperties
<1> HIDE DEF r
<1>5. Told(r, m)
  <2> SUFFICES ASSUME NEW i \in 1 .. Len(r) PROVE r[i] # {} /\ Max(r[i]) <= m
    BY DEF Told
  <2>1. CASE i \in 1 .. Len(t)
    BY <1>2, <1>4, <2>1 DEF Told
  <2>2. CASE i = Len(t) + 1
    BY <1>4, <2>2
  <2> QED
    BY <1>4, <2>1, <2>2
<1>6. InOrder(r)
  <2> SUFFICES ASSUME NEW i \in 1 .. Len(r), NEW j \in 1 .. Len(r), i < j, NEW y \in r[j]
               PROVE  Max(r[i]) < y
    BY DEF InOrder
  <2>1. i \in 1 .. Len(t) /\ r[i] = h[i + k] /\ i + k \in 1 .. Len(h) /\ i + k \in Int
    BY <1>2, <1>4
  <2>2. CASE j = Len(t) + 1
    BY <1>4, <2>1, <2>2
  <2>3. CASE j # Len(t) + 1
    <3>1. j \in 1 .. Len(t)
      BY <2>3, <1>4
    <3>2. r[j] = h[j + k] /\ j + k \in 1 .. Len(h) /\ i + k < j + k
      BY <1>2, <1>4, <3>1
    <3> QED
      BY <2>1, <3>2 DEF InOrder
  <2> QED
    BY <2>2, <2>3
<1> QED
  BY <1>3, <1>4, <1>5, <1>6 DEF r

\* end_token learns from a token younger than what is remembered, and from it once.
LEMMA FoldKeepsOrder ==
  ASSUME NEW m \in Nat, NEW t, t.demand \in [Layers -> 0 .. MaxPass],
         history \in Seq(SUBSET Labels), Told(history, m), InOrder(history),
         DemandUpTo(t.demand, m),
         \A i \in 1 .. Len(history) : YoungToken(t, Max(history[i])),
         EndToken(t)
  PROVE  /\ history' \in Seq(SUBSET Labels) /\ Told(history', m) /\ InOrder(history')
         /\ token'.demand = NoDemand
         /\ \A i \in 1 .. Len(history') : YoungToken(token', Max(history'[i]))
<1>1. token' = [open |-> FALSE, demand |-> NoDemand,
                cur |-> IF t.demand = NoDemand THEN t.cur ELSE <<>>]
  BY DEF EndToken
<1>2. \A p : YoungDemand(token'.demand, p)
  BY <1>1, NoDemandYoung
<1>3. CASE t.demand = NoDemand
  <2>1. history' = history /\ token'.cur = t.cur
    BY <1>1, <1>3 DEF EndToken
  <2> QED
    BY <1>1, <1>2, <2>1 DEF YoungToken
<1>4. CASE t.demand # NoDemand
  <2> DEFINE frame == Frame(t.demand)
  <2>1. history' = Remember(history, frame)
    BY <1>4 DEF EndToken
  <2>2. \A p : YoungNotes(token'.cur, p)
    BY <1>1, <1>4 DEF YoungNotes
  <2>3. frame \in SUBSET Labels /\ frame # {}
    <3>1. \A l \in Layers : t.demand[l] \in 0 .. MaxPass
      OBVIOUS
    <3>2. \E l \in Layers : t.demand[l] # Never
      BY <1>4 DEF NoDemand
    <3>3. \A x : x \in frame <=> x # Never /\ \E l \in Layers : x = t.demand[l]
      BY DEF Frame
    <3> HIDE DEF frame
    <3>4. \A n \in 0 .. MaxPass : n # Never => n \in Labels
      BY DEF Labels, Never
    <3>5. frame \subseteq Labels
      BY <3>1, <3>3, <3>4
    <3> QED
      BY <3>2, <3>3, <3>5
  <2>4. \A x \in frame : \E l \in Layers : x = t.demand[l] /\ t.demand[l] # Never
    BY DEF Frame
  <2> HIDE DEF frame
  <2>5. Max(frame) \in frame
    BY <2>3, MaxIs
  <2>6. Max(frame) <= m
    BY <2>4, <2>5 DEF DemandUpTo
  <2>7. ASSUME NEW i \in 1 .. Len(history), NEW y \in frame PROVE Max(history[i]) < y
    <3>1. PICK l \in Layers : y = t.demand[l] /\ t.demand[l] # Never
      BY <2>4
    <3>2. t.demand[l] > Max(history[i])
      BY <3>1 DEF YoungToken, YoungDemand
    <3>3. Max(history[i]) \in Labels /\ y \in Labels
      BY ToldLabels, <2>3
    <3> QED
      BY <3>1, <3>2, <3>3 DEF Labels
  <2>8. /\ Remember(history, frame) \in Seq(SUBSET Labels)
        /\ Told(Remember(history, frame), m) /\ InOrder(Remember(history, frame))
    BY <2>3, <2>6, <2>7, RememberInOrder
  <2> QED
    BY <1>1, <1>2, <2>1, <2>2, <2>8 DEF YoungToken
<1> QED
  BY <1>3, <1>4

\* flow_pump: a layer's demand is the last routing noted for it, or what it was.
LEMMA NoteAllDemand ==
  ASSUME NEW t \in Tokens, NEW rs \in Notes
  PROVE  /\ NoteAll(t, rs).demand \in [Layers -> 0 .. MaxPass]
         /\ \A l \in Layers : \/ NoteAll(t, rs).demand[l] = t.demand[l]
                              \/ \E i \in DOMAIN rs : NoteAll(t, rs).demand[l] = rs[i][2]
<1> DEFINE Of(l) == { i \in DOMAIN rs : rs[i][1] = l }
           pick(l) == CHOOSE i \in DOMAIN rs :
                        rs[i][1] = l /\ \A j \in DOMAIN rs : rs[j][1] = l => j <= i
           d == [l \in Layers |-> IF \E i \in DOMAIN rs : rs[i][1] = l
                                  THEN rs[pick(l)][2] ELSE t.demand[l]]
<1>1. NoteAll(t, rs).demand = d
  BY DEF NoteAll, Tokens
<1>2. \A i \in DOMAIN rs : rs[i][2] \in 0 .. MaxPass
  <2>1. \A i \in DOMAIN rs : rs[i] \in Layers \X Labels
    BY DEF Notes
  <2> QED
    BY <2>1 DEF Labels
<1>3. ASSUME NEW l \in Layers, NEW o \in DOMAIN rs, rs[o][1] = l
      PROVE  pick(l) \in DOMAIN rs
  <2>1. Len(rs) \in Nat /\ Of(l) \in SUBSET (0 .. Len(rs)) /\ Of(l) # {}
    BY <1>3 DEF Notes
  <2> HIDE DEF Of
  <2>2. \E i \in Of(l) : \A j \in Of(l) : i >= j
    BY <2>1, GreatestExists
  <2>3. \A i, j \in DOMAIN rs : i >= j => j <= i
    BY DEF Notes
  <2>4. \E i \in DOMAIN rs : rs[i][1] = l /\ \A j \in DOMAIN rs : rs[j][1] = l => j <= i
    BY <2>2, <2>3 DEF Of
  <2> QED
    BY <2>4
<1>4. \A l \in Layers : t.demand[l] \in 0 .. MaxPass
  BY DEF Tokens
<1> HIDE DEF pick
<1>5. \A l \in Layers : \/ d[l] = t.demand[l]
                        \/ \E i \in DOMAIN rs : d[l] = rs[i][2]
  BY <1>3
<1>6. d \in [Layers -> 0 .. MaxPass]
  BY <1>2, <1>3, <1>4
<1> HIDE DEF d
<1> QED
  BY <1>1, <1>5, <1>6

\* The labels that the bounds of PastInv speak of.
LEMMA PastBounds ==
  ASSUME PassOK
  PROVE  /\ pass.label \in Nat /\ pass.at \in Nat /\ Folded \in Nat /\ Noted \in Nat
         /\ Folded <= pass.label /\ Noted <= pass.label
         /\ pass.running => Folded = pass.label - 1 /\ Folded < pass.label
  BY DEF PassOK, Passes, Labels, Folded, Noted

LEMMA ToldLater ==
  ASSUME NEW h \in Seq(SUBSET Labels), NEW m \in Nat, NEW k \in Nat, m <= k, Told(h, m)
  PROVE  Told(h, k)
<1> SUFFICES ASSUME NEW i \in 1 .. Len(h) PROVE h[i] # {} /\ Max(h[i]) <= k
  BY DEF Told
<1>1. h[i] # {} /\ Max(h[i]) \in Labels /\ Max(h[i]) <= m
  BY ToldLabels
<1> QED
  BY <1>1 DEF Labels

LEMMA DemandLater ==
  ASSUME NEW d \in [Layers -> 0 .. MaxPass], NEW m \in Nat, NEW k \in Nat, m <= k, DemandUpTo(d, m)
  PROVE  DemandUpTo(d, k)
<1> SUFFICES ASSUME NEW l \in Layers PROVE d[l] <= k
  BY DEF DemandUpTo
<1>1. d[l] \in 0 .. MaxPass /\ d[l] <= m
  BY DEF DemandUpTo
<1> QED
  BY <1>1

LEMMA NotesLater ==
  ASSUME NEW rs \in Notes, NEW m \in Nat, NEW k \in Nat, m <= k, NotesUpTo(rs, m)
  PROVE  NotesUpTo(rs, k)
<1> SUFFICES ASSUME NEW i \in DOMAIN rs PROVE rs[i][2] <= k
  BY DEF NotesUpTo
<1>1. rs[i] \in Layers \X Labels /\ rs[i][2] <= m
  BY DEF Notes, NotesUpTo
<1>2. rs[i][2] \in Int
  BY <1>1 DEF Labels
<1> QED
  BY <1>1, <1>2

\* Nothing noted and nothing waiting is younger than everything.
LEMMA NothingYoung ==
  ASSUME NEW m \in Nat, NEW p
  PROVE  /\ DemandUpTo(NoDemand, m) /\ YoungDemand(NoDemand, p)
         /\ NotesUpTo(<<>>, m) /\ YoungNotes(<<>>, p) /\ <<>> \in Notes
  BY NoDemandYoung DEF DemandUpTo, NoDemand, Never, NotesUpTo, YoungNotes, Notes

\* Steps that learn nothing and note nothing, and move the pass on or end it.
LEMMA SamePast ==
  ASSUME PassOK, PassOK', HeldInv, PastInv, UNCHANGED <<history, token>>,
         recs' = recs \/ recs' = <<>>,
         Folded <= Folded', Noted <= Noted',
         warm' \in Nat,
         recs' # <<>> \/ (pass.running /\ pass.kind = "flow")' => (slab = "up" /\ warm > Warmup)',
         (pass.running /\ pass.kind = "decode")' => recs' = <<>>
  PROVE  PastInv'
<1>1. /\ Folded \in Nat /\ Noted \in Nat /\ Folded' \in Nat /\ Noted' \in Nat
  BY DEF PassOK, Passes, Labels, Folded, Noted
<1>2. /\ history \in Seq(SUBSET Labels) /\ token.demand \in [Layers -> 0 .. MaxPass]
      /\ recs \in Notes
  BY DEF PastInv, HeldInv, Tokens
<1>3. Told(history, Folded') /\ DemandUpTo(token.demand, Noted') /\ NotesUpTo(recs, Noted')
  BY <1>1, <1>2, ToldLater, DemandLater, NotesLater DEF PastInv
<1>4. NotesUpTo(recs', Noted')
  BY <1>1, <1>3, NothingYoung
<1>5. \A p : YoungNotes(recs, p) => YoungNotes(recs', p)
  BY <1>1, NothingYoung
<1> QED
  BY <1>3, <1>4, <1>5 DEF PastInv

LEMMA PastInit == Init => PastInv
<1> SUFFICES ASSUME Init PROVE PastInv
  OBVIOUS
<1>1. /\ pass = [kind |-> "prefill", label |-> 0, at |-> N, running |-> FALSE]
      /\ token = [open |-> FALSE, demand |-> NoDemand, cur |-> <<>>]
      /\ recs = <<>> /\ history = <<>> /\ warm = 0
  BY DEF Init
<1>2. Folded = 0 /\ Noted = 0 /\ Len(history) = 0 /\ history \in Seq(SUBSET Labels)
  BY <1>1 DEF Folded, Noted
<1> QED
  BY <1>1, <1>2, NothingYoung DEF PastInv, Told, InOrder

\* A layer of an ordinary token notes its demand; its reads may fail after that.
LEMMA NotedDemand ==
  ASSUME PassOK, HeldInv, PastInv, pass.running, pass.kind = "decode"
  PROVE  LET t == Note(token, pass.at, pass.label)
         IN  /\ t \in Tokens /\ t.demand # NoDemand
             /\ DemandUpTo(t.demand, pass.label)
             /\ \A i \in 1 .. Len(history) : YoungToken(t, Max(history[i]))
<1> DEFINE t == Note(token, pass.at, pass.label)
<1>1. /\ pass.label \in Labels /\ pass.at \in Layers /\ t \in Tokens
  BY HereYoung
<1>2. token.demand \in [Layers -> 0 .. MaxPass]
  BY DEF HeldInv, Tokens
<1>3. t.demand = [token.demand EXCEPT ![pass.at] = pass.label]
  BY DEF Note, HeldInv, Tokens
<1>4. t.demand # NoDemand
  <2>1. t.demand[pass.at] = pass.label /\ NoDemand[pass.at] = 0 /\ pass.label # 0
    BY <1>1, <1>2, <1>3 DEF NoDemand, Never, Labels
  <2> QED
    BY <2>1
<1>5. DemandUpTo(t.demand, pass.label)
  <2>1. DemandUpTo(token.demand, pass.label)
    BY <1>2, PastBounds, DemandLater DEF PastInv
  <2>2. pass.label \in Nat
    BY PastBounds
  <2> QED
    BY <1>2, <1>3, <2>1, <2>2 DEF DemandUpTo
<1>6. ASSUME NEW i \in 1 .. Len(history) PROVE YoungToken(t, Max(history[i]))
  <2> DEFINE p == Max(history[i])
  <2>1. Folded \in Nat /\ Folded < pass.label /\ history \in Seq(SUBSET Labels)
    BY PastBounds DEF PastInv
  <2>2. p \in Labels /\ p <= Folded
    BY <2>1, ToldLabels DEF PastInv
  <2>3. YoungToken(token, p)
    BY DEF PastInv
  <2> HIDE DEF p
  <2>4. p \in 0 .. MaxPass /\ pass.label > p
    BY <2>1, <2>2, <1>1 DEF Labels
  <2>5. YoungToken(t, p)
    BY <1>1, <2>3, <2>4, NoteYoung DEF HeldInv
  <2> QED
    BY <2>5 DEF p
<1> QED
  BY <1>1, <1>4, <1>5, <1>6

\* The first flow layer learns from the last flow token and from what an ordinary
\* token left when it was abandoned.
LEMMA PumpedDemand ==
  ASSUME PassOK, HeldInv, PastInv, pass.running, pass.at = 0
  PROVE  LET t == NoteAll(token, recs)
         IN  /\ t.demand \in [Layers -> 0 .. MaxPass]
             /\ DemandUpTo(t.demand, pass.label - 1)
             /\ \A i \in 1 .. Len(history) : YoungToken(t, Max(history[i]))
<1> DEFINE t == NoteAll(token, recs)
<1>1. /\ t.demand \in [Layers -> 0 .. MaxPass]
      /\ \A l \in Layers : \/ t.demand[l] = token.demand[l]
                           \/ \E i \in DOMAIN recs : t.demand[l] = recs[i][2]
  BY NoteAllDemand DEF HeldInv
<1>2. t.cur = token.cur \o recs
  BY DEF NoteAll, HeldInv, Tokens
<1> HIDE DEF t
<1>3. DemandUpTo(t.demand, pass.label - 1)
  <2>1. Noted = pass.label - 1
    BY DEF Noted
  <2> QED
    BY <1>1, <2>1 DEF PastInv, DemandUpTo, NotesUpTo
<1>4. ASSUME NEW i \in 1 .. Len(history) PROVE YoungToken(t, Max(history[i]))
  <2> DEFINE p == Max(history[i])
  <2>1. p \in Labels
    BY PastBounds, ToldLabels DEF PastInv
  <2>2. YoungToken(token, p) /\ YoungNotes(recs, p)
    BY DEF PastInv
  <2> HIDE DEF p
  <2>3. p \in 0 .. MaxPass
    BY <2>1 DEF Labels
  <2>4. token.cur \in Notes /\ recs \in Notes
    BY DEF HeldInv, Tokens, Notes
  <2>5. YoungNotes(t.cur, p)
    BY <1>2, <2>2, <2>3, <2>4, ConcatYoung DEF YoungToken
  <2>6. YoungDemand(t.demand, p)
    BY <1>1, <2>2 DEF YoungToken, YoungDemand, YoungNotes
  <2>7. YoungToken(t, p)
    BY <2>5, <2>6 DEF YoungToken
  <2> QED
    BY <2>7 DEF p
<1> QED
  BY <1>1, <1>3, <1>4 DEF t

\* A layer of a prompt drops the routing of the last flow token, and the first
\* one what is left of any token.
LEMMA DroppedPast ==
  ASSUME PassOK, PassOK', HeldInv, PastInv, pass.running, pass.kind = "prefill", Stops \/ Onward,
         history' = history, recs' = <<>>, warm' = 0,
         token' = token \/ (token'.demand = NoDemand /\ token'.cur = <<>>)
  PROVE  PastInv'
<1>1. pass'.label = pass.label /\ pass'.kind = "prefill"
  BY StopsPass, OnwardPass
<1>2. pass'.at = pass.at \/ pass'.at = pass.at + 1
  BY StopsPass, OnwardPass
<1>3. pass'.at = 0 => pass.at = 0
  BY <1>2, PastBounds
<1>4. Folded <= Folded' /\ Noted <= Noted' /\ Folded' \in Nat /\ Noted' \in Nat
  BY <1>1, <1>3, PastBounds DEF Folded, Noted, PassOK
<1>5. CASE token' = token
  BY <1>1, <1>4, <1>5, SamePast
<1>6. CASE token'.demand = NoDemand /\ token'.cur = <<>>
  <2>1. Told(history, Folded')
    BY <1>4, PastBounds, ToldLater DEF PastInv
  <2>2. \A p : YoungToken(token', p)
    BY <1>4, <1>6, NothingYoung DEF YoungToken
  <2> QED
    BY <1>1, <1>4, <1>6, <2>1, <2>2, NothingYoung DEF PastInv
<1> QED
  BY <1>5, <1>6

LEMMA PastStep == PassOK /\ HeldInv /\ PastInv /\ [Next]_vars => PastInv'
<1> SUFFICES ASSUME PassOK, HeldInv, PastInv, [Next]_vars PROVE PastInv'
  OBVIOUS
<1>0. PassOK' /\ HeldInv'
  BY PassStep, HeldStep
<1>1. CASE StartPrefill \/ StartToken
  <2>1. PICK kind \in Kinds : /\ Begin(kind)
                              /\ kind = "flow" => slab' = "up" /\ warm' > Warmup
                              /\ kind = "decode" => recs = <<>>
    <3>1. CASE StartPrefill
      BY <3>1 DEF StartPrefill, Kinds
    <3>2. CASE StartToken
      <4> DEFINE count == IF slab = "up" /\ warm <= Warmup THEN warm + 1 ELSE warm
      <4>1. /\ Begin(IF slab = "up" /\ count > Warmup THEN "flow" ELSE "decode")
            /\ warm' = count /\ slab' = slab
        BY <3>2 DEF StartToken
      <4>2. CASE slab = "up" /\ count > Warmup
        BY <4>1, <4>2 DEF Kinds
      <4>3. CASE ~(slab = "up" /\ count > Warmup)
        <5>1. ~(slab = "up" /\ warm > Warmup)
          BY <4>3 DEF PastInv
        <5> QED
          BY <4>1, <4>3, <5>1 DEF Kinds, PastInv
      <4> QED
        BY <4>2, <4>3
    <3> QED
      BY <1>1, <3>1, <3>2
  <2>2. UNCHANGED <<history, token, recs, slab>>
    BY <1>1 DEF StartPrefill, StartToken, ring, sidecar
  <2>3. /\ pass'.running /\ pass'.at = 0 /\ pass'.kind = kind
        /\ pass'.label = pass.label + 1 /\ ~pass.running
    BY <2>1, BeginPass
  <2>4. Folded' = Folded /\ Noted' = Noted /\ Folded \in Nat /\ Noted \in Nat
    BY <2>3, PastBounds DEF Folded, Noted
  <2>5. recs # <<>> => (slab = "up" /\ warm > Warmup)'
    <3>1. CASE StartPrefill
      BY <3>1 DEF StartPrefill, ring, PastInv
    <3>2. CASE StartToken
      <4>1. slab = "up" /\ warm > Warmup => warm' = warm
        BY <3>2 DEF StartToken, PastInv
      <4> QED
        BY <2>2, <4>1 DEF PastInv
    <3> QED
      BY <1>1, <3>1, <3>2
  <2> QED
    <3>1. warm' \in Nat
      BY <1>1 DEF StartPrefill, StartToken, ring, PastInv
    <3> QED
      BY <1>0, <2>1, <2>2, <2>3, <2>4, <2>5, <3>1, SamePast
<1>2. CASE Abandon
  <2>1. pass.running /\ Stops /\ UNCHANGED <<history, token, recs, slab, warm>>
    BY <1>2 DEF Abandon, ring, sidecar
  <2>2. ~pass'.running /\ pass'.label = pass.label
    BY <2>1, StopsPass
  <2>3. Folded <= Folded' /\ Noted <= Noted'
    BY <2>2, PastBounds DEF Folded, Noted
  <2>4. warm \in Nat /\ (recs # <<>> => slab = "up" /\ warm > Warmup)
    BY DEF PastInv
  <2> QED
    BY <1>0, <2>1, <2>2, <2>3, <2>4, SamePast
<1>3. CASE DecodeReadFails
  <2> DEFINE t == Note(token, pass.at, pass.label)
  <2>1. /\ pass.running /\ pass.kind = "decode" /\ Stops /\ token' = t
        /\ UNCHANGED <<history, recs, warm>>
    BY <1>3 DEF DecodeReadFails, Running, Here, Now
  <2>2. ~pass'.running /\ Folded' = pass.label /\ Noted' = pass.label
    BY <2>1, StopsPass DEF Folded, Noted
  <2>3. /\ DemandUpTo(t.demand, pass.label)
        /\ \A i \in 1 .. Len(history) : YoungToken(t, Max(history[i]))
    BY <2>1, NotedDemand
  <2>4. Told(history, pass.label) /\ recs = <<>>
    BY <2>1, PastBounds, ToldLater DEF PastInv
  <2> HIDE DEF t
  <2> QED
    BY <2>1, <2>2, <2>3, <2>4, PastBounds, NothingYoung DEF PastInv
<1>4. CASE DecodeLayer
  <2> DEFINE t == Note(token, pass.at, pass.label)
  <2>1. /\ pass.running /\ pass.kind = "decode" /\ Onward /\ UNCHANGED <<recs, warm>>
        /\ IF pass.at + 1 = N THEN EndToken(t) ELSE token' = t /\ history' = history
    BY <1>4 DEF DecodeLayer, Running, Last, Here, Now
  <2>2. /\ t \in Tokens /\ DemandUpTo(t.demand, pass.label)
        /\ \A i \in 1 .. Len(history) : YoungToken(t, Max(history[i]))
    BY <2>1, NotedDemand
  <2>3. recs = <<>> /\ recs' = <<>>
    BY <2>1 DEF PastInv
  <2>4. /\ pass'.at = pass.at + 1 /\ pass'.label = pass.label /\ pass'.kind = "decode"
        /\ pass'.running = (pass.at + 1 < N) /\ pass.at \in Nat
    BY <2>1, OnwardPass, PastBounds
  <2>5. Noted' = pass.label
    BY <2>4 DEF Noted
  <2> HIDE DEF t
  <2>6. CASE pass.at + 1 = N
    <3>1. Folded' = pass.label /\ Told(history, pass.label)
      <4>1. ~(pass.at + 1 < N)
        BY <2>6
      <4>2. Folded' = pass.label
        BY <2>4, <4>1 DEF Folded
      <4> QED
        BY <4>2, PastBounds, ToldLater DEF PastInv
    <3>2. t.demand \in [Layers -> 0 .. MaxPass] /\ EndToken(t)
      BY <2>1, <2>2, <2>6 DEF Tokens
    <3>3. /\ history' \in Seq(SUBSET Labels) /\ Told(history', pass.label) /\ InOrder(history')
          /\ token'.demand = NoDemand
          /\ \A i \in 1 .. Len(history') : YoungToken(token', Max(history'[i]))
      BY <2>2, <3>1, <3>2, PastBounds, FoldKeepsOrder DEF PastInv
    <3> QED
      BY <2>1, <2>3, <2>4, <2>5, <3>1, <3>3, PastBounds, NothingYoung DEF PastInv
  <2>7. CASE pass.at + 1 # N
    <3>1. pass.at < N
      BY <2>1 DEF PassOK
    <3>2. pass'.running
      <4>1. pass.at + 1 < N
        BY <2>4, <2>7, <3>1
      <4> QED
        BY <2>4, <4>1
    <3>3. Folded' = Folded
      BY <2>1, <2>4, <3>2 DEF Folded
    <3> QED
      BY <2>1, <2>2, <2>3, <2>4, <2>5, <2>7, <3>3, PastBounds, NothingYoung DEF PastInv
  <2> QED
    BY <2>6, <2>7
<1>5. CASE FlowLayer
  <2>1. /\ pass.running /\ pass.kind = "flow" /\ Onward /\ UNCHANGED <<slab, warm>>
        /\ IF pass.at = 0 THEN Pump
           ELSE /\ recs' = Append(recs, <<pass.at, pass.label>>)
                /\ UNCHANGED <<token, history>>
    BY <1>5 DEF FlowLayer, Running, Here, Now, sidecar
  <2>2. /\ pass'.at = pass.at + 1 /\ pass'.label = pass.label /\ pass'.kind = "flow"
        /\ pass.at \in Nat /\ slab = "up" /\ warm > Warmup /\ pass.label \in Nat
        /\ pass'.running = (pass.at + 1 < N)
    BY <2>1, OnwardPass, PastBounds DEF PastInv
  <2>3. Noted' = pass.label /\ Folded <= Folded' /\ Folded' \in Nat /\ Folded = pass.label - 1
    BY <2>1, <2>2, PastBounds DEF Noted, Folded
  <2>4. /\ pass.label \in Labels /\ pass.at \in Layers
    BY <2>1, HereYoung
  <2>5. \A h, m : h \in Seq(SUBSET Labels) /\ m \in Nat /\ m < pass.label /\ Told(h, m) =>
          \A i \in 1 .. Len(h) : Max(h[i]) \in 0 .. MaxPass /\ pass.label > Max(h[i])
    <3> SUFFICES ASSUME NEW h \in Seq(SUBSET Labels), NEW m \in Nat, m < pass.label, Told(h, m),
                        NEW i \in 1 .. Len(h)
                 PROVE  Max(h[i]) \in 0 .. MaxPass /\ pass.label > Max(h[i])
      OBVIOUS
    <3>1. Max(h[i]) \in Labels /\ Max(h[i]) <= m
      BY ToldLabels
    <3> QED
      BY <2>2, <3>1 DEF Labels
  <2>6. CASE pass.at = 0
    <3>1. (token' = token /\ history' = history) \/ EndToken(NoteAll(token, recs))
      BY <2>1, <2>6 DEF Pump, sidecar
    <3>2. recs' = Append(<<>>, <<pass.at, pass.label>>)
      BY <2>1, <2>6 DEF Pump, Here, Now
    <3>3. Folded \in Nat
      BY PastBounds
    <3>4. /\ history' \in Seq(SUBSET Labels) /\ Told(history', Folded) /\ InOrder(history')
          /\ DemandUpTo(token'.demand, pass.label)
          /\ \A i \in 1 .. Len(history') : YoungToken(token', Max(history'[i]))
      <4>1. CASE token' = token /\ history' = history
        <5>1. DemandUpTo(token.demand, pass.label)
          BY PastBounds, DemandLater DEF PastInv, HeldInv, Tokens
        <5> QED
          BY <4>1, <5>1 DEF PastInv
      <4>2. CASE EndToken(NoteAll(token, recs))
        <5> DEFINE t == NoteAll(token, recs)
        <5>1. /\ t.demand \in [Layers -> 0 .. MaxPass]
              /\ DemandUpTo(t.demand, Folded)
              /\ \A i \in 1 .. Len(history) : YoungToken(t, Max(history[i]))
          BY <2>1, <2>3, <2>6, PumpedDemand
        <5>2. EndToken(t)
          BY <4>2
        <5> HIDE DEF t
        <5>3. /\ history' \in Seq(SUBSET Labels) /\ Told(history', Folded) /\ InOrder(history')
              /\ token'.demand = NoDemand
              /\ \A i \in 1 .. Len(history') : YoungToken(token', Max(history'[i]))
          BY <3>3, <5>1, <5>2, FoldKeepsOrder DEF PastInv
        <5> QED
          BY <2>2, <5>3, NothingYoung
      <4> QED
        BY <3>1, <4>1, <4>2
    <3>5. Told(history', Folded')
      BY <2>3, <3>3, <3>4, ToldLater
    <3>6. ASSUME NEW p \in 0 .. MaxPass, pass.label > p
          PROVE  YoungNotes(recs', p)
      BY <2>4, <3>2, <3>6, NothingYoung, AppendYoung
    <3>7. NotesUpTo(recs', pass.label)
      <4>1. recs' = <<<<pass.at, pass.label>>>>
        BY <3>2
      <4> QED
        BY <2>2, <4>1 DEF NotesUpTo
    <3>8. \A i \in 1 .. Len(history') : YoungNotes(recs', Max(history'[i]))
      BY <2>3, <2>2, <2>5, <3>3, <3>4, <3>6
    <3> QED
      BY <2>1, <2>2, <2>3, <3>4, <3>5, <3>7, <3>8 DEF PastInv
  <2>7. CASE pass.at # 0
    <3>1. recs' = Append(recs, <<pass.at, pass.label>>) /\ UNCHANGED <<token, history>>
      BY <2>1, <2>7
    <3>2. recs \in Notes /\ token.demand \in [Layers -> 0 .. MaxPass] /\ Folded \in Nat
      BY PastBounds DEF HeldInv, Tokens
    <3>3. Told(history, Folded') /\ Noted = pass.label
      BY <2>2, <2>3, <2>7, <3>2, ToldLater DEF PastInv, Noted
    <3>4. NotesUpTo(recs', pass.label)
      <4> DEFINE e == <<pass.at, pass.label>>
      <4>1. e \in Layers \X Labels /\ e[2] = pass.label
        BY <2>4
      <4> HIDE DEF e
      <4>2. NotesUpTo(Append(recs, e), pass.label)
        BY <2>2, <3>2, <3>3, <4>1 DEF Notes, NotesUpTo, PastInv
      <4> QED
        BY <3>1, <4>2 DEF e
    <3>5. ASSUME NEW p \in 0 .. MaxPass, pass.label > p, YoungNotes(recs, p)
          PROVE  YoungNotes(recs', p)
      BY <2>4, <3>1, <3>2, <3>5, AppendYoung
    <3>6. \A i \in 1 .. Len(history) : YoungNotes(recs', Max(history[i]))
      <4>1. Folded < pass.label /\ Told(history, Folded) /\ history \in Seq(SUBSET Labels)
        BY <2>2, <2>3 DEF PastInv
      <4>2. \A i \in 1 .. Len(history) : Max(history[i]) \in 0 .. MaxPass /\ pass.label > Max(history[i])
        BY <2>5, <3>2, <4>1
      <4> QED
        BY <3>5, <4>2 DEF PastInv
    <3> QED
      BY <2>1, <2>2, <2>3, <3>1, <3>3, <3>4, <3>6 DEF PastInv
  <2> QED
    BY <2>6, <2>7
<1>6. CASE PrefillReadFails \/ PrefillLayer
  <2>1. PICK big \in Sizes : Entered(big)
    BY <1>6 DEF PrefillReadFails, PrefillLayer
  <2>2. pass.running /\ pass.kind = "prefill" /\ (Stops \/ Onward) /\ history' = history
    BY <1>6 DEF PrefillReadFails, PrefillLayer, Running
  <2>3. recs' = <<>> /\ warm' = 0 /\ (token' = token \/ (token'.demand = NoDemand /\ token'.cur = <<>>))
    BY <2>1 DEF Entered, DropToken, HeldInv, Tokens
  <2> QED
    BY <1>0, <2>2, <2>3, DroppedPast
<1>7. CASE PrefillEnds
  <2>1. /\ pass.running /\ pass.kind = "prefill" /\ Onward
        /\ history' = history /\ token' = token /\ recs' = <<>> /\ warm' = 0
    BY <1>7 DEF PrefillEnds, Running
  <2> QED
    BY <1>0, <2>1, DroppedPast
<1>8. CASE UNCHANGED vars
  <2>1. UNCHANGED <<pass, history, token, recs, slab, warm>>
    BY <1>8 DEF vars, ring, sidecar
  <2>2. Folded' = Folded /\ Noted' = Noted /\ Folded \in Nat /\ Noted \in Nat
    BY <2>1, PastBounds DEF Folded, Noted
  <2>3. /\ warm \in Nat
        /\ recs # <<>> \/ (pass.running /\ pass.kind = "flow") => slab = "up" /\ warm > Warmup
        /\ pass.running /\ pass.kind = "decode" => recs = <<>>
    BY DEF PastInv
  <2> QED
    BY <1>0, <2>1, <2>2, <2>3, SamePast
<1> QED
  BY <1>1, <1>2, <1>3, <1>4, <1>5, <1>6, <1>7, <1>8 DEF Next

\* No token is in two frames of the history and the frames are in the order the
\* tokens ran: on the ordinary path (end_decode_token), under flow (flow_pump)
\* and across the hand-over, whatever was abandoned before.
THEOREM TokensAreLearnedInOrder == Spec => []HistoryInOrder
<1>1. PassOK /\ PastInv => HistoryInOrder
  <2> SUFFICES ASSUME PassOK, PastInv, NEW i \in 1 .. Len(history), NEW j \in 1 .. Len(history),
                      i < j, NEW x \in history[i], NEW y \in history[j]
               PROVE  x < y
    BY DEF HistoryInOrder
  <2>1. history \in Seq(SUBSET Labels) /\ Told(history, Folded) /\ Folded \in Nat
    BY PastBounds DEF PastInv
  <2>2. history[i] \in SUBSET Labels /\ history[j] \in SUBSET Labels
    BY <2>1, ToldLabels
  <2>3. Max(history[i]) >= x /\ Max(history[i]) \in Labels
    BY <2>2, MaxIs
  <2>4. Max(history[i]) < y
    BY DEF PastInv, InOrder
  <2>5. x \in Nat /\ y \in Nat /\ Max(history[i]) \in Nat
    BY <2>2, <2>3 DEF Labels
  <2> QED
    BY <2>3, <2>4, <2>5
<1>2. Init => PassOK /\ HeldInv /\ PastInv
  BY PassInit, HeldInit, PastInit
<1>3. PassOK /\ HeldInv /\ PastInv /\ [Next]_vars => (PassOK /\ HeldInv /\ PastInv)'
  BY PassStep, HeldStep, PastStep
<1> QED
  BY <1>1, <1>2, <1>3, PTL DEF Spec
=============================================================================
